CONSTANTS
  Clients = {c1}
  Users = {}
  Bcasts = {b1}
  LoginSlots = {}
  SendCap = 1
  PluginCap = 1
  BroadcastCap = 1
  HistoryCap = 1
  MaxNames = 1
  Budget = 1
SPECIFICATION FairSpec
CHECK_DEADLOCK FALSE
PROPERTY UnregisterCompletes
