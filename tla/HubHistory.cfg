CONSTANTS
  Publishers = {"client", "plugin"}
  Plugins = {"plugin"}
  Backends = {"buntdb", "sqlite", "gorm", "none"}
  Size = 3
  Event = {1, 2, 3, 4}
  Nil = 0
  ChanCap = 1
  BatchMax = 2
  MaxEvents = 4
  MaxCrashes = 1
SPECIFICATION Spec
CHECK_DEADLOCK FALSE
INVARIANT TypeOK
INVARIANT LossWindow
INVARIANT NoDuplicates
INVARIANT PublisherOrder
PROPERTY RestartShowsStored
