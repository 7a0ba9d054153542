CONSTANTS
  Accounts = {"admin", "bob"}
  Guests = {"guest"}
  Admin = "admin"
  Rooms = {"default", "other"}
  Default = "default"
  OpenRooms = {"default"}
  Conns = {"c1", "c2"}
  Backends = {"sqlite", "buntdb"}
  MaxEvents = 1
  MaxUpdates = 1
  MaxCommands = 1
  MaxStarts = 2
  NoRow = NoRow
  Nobody = ""
SPECIFICATION Spec
CHECK_DEADLOCK FALSE
INVARIANT IInv
INVARIANT LossExplained
PROPERTY RoomStartsEmpty
PROPERTY UpdatesOutlive
