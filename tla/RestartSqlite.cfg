CONSTANTS
  Publishers = {"client", "plugin"}
  Plugins = {"plugin"}
  Backends = {"sqlite"}
  Size = 3
  Event = {1, 2, 3, 4}
  Nil = 0
  ChanCap = 1
  BatchMax = 2
  MaxEvents = 4
  MaxCrashes = 1
SPECIFICATION Spec
CHECK_DEADLOCK FALSE
PROPERTY RestartKeepsNewest
