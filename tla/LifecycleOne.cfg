CONSTANTS
  Clients = {c1}
  Users = {c1}
  Bcasts = {b1}
  LoginSlots = {l1}
  SendCap = 1
  PluginCap = 1
  BroadcastCap = 1
  HistoryCap = 1
  MaxNames = 1
  Budget = 1
SPECIFICATION FairSpec
INVARIANT IInv
PROPERTY EndsUnlessJammed
CHECK_DEADLOCK FALSE
