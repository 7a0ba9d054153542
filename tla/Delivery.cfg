SPECIFICATION Spec
CONSTANTS
  c1 = c1
  Ann = Ann
  English = English
  German = German
  Clients = {c1, c2}
  Present <- MCPresent
  Accounts = {Ann}
  Guest = Guest
  Langs = {English, German}
  Filters <- MCFilters
  BatchMax = 2
  MaxEvents = 3
  AllowGuests = FALSE
  NoClient = NoClient
INVARIANTS  OnlyAudience MissesNothing PresenceTold
CHECK_DEADLOCK FALSE
