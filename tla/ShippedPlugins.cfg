CONSTANTS
  ann = ann
  bob = bob
  english = english
  german = german
  spanish = spanish
  hello = hello
  active = active
  help = help
  slash = slash
  Users = {ann, bob}
  Langs = {english, german, spanish}
  Nick <- MCNick
  Filters <- MCFilters
  Senders = {ann}
  Messages <- MCMessages
  Emitted <- MCEmitted
  Texts = {hello, active, help, slash}
  Slashed = {slash}
  SpokenIn <- MCSpokenIn
  ActiveText = active
  HelpText = help
  Languages <- MCLanguages
  CacheSize = 1
  Calls = {k1, k2}
  MaxBegun = 2
  MaxEvents = 5
SPECIFICATION Spec
INVARIANT TypeOK
INVARIANT PrivateStaysPrivate
INVARIANT AllLanguagesOrNone
SYMMETRY CallSymmetry
CHECK_DEADLOCK FALSE
