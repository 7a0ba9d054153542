CONSTANTS
  Clients = {c1, c2}
  Users = {}
  Bcasts = {b1}
  LoginSlots = {}
  SendCap = 1
  PluginCap = 1
  BroadcastCap = 1
  HistoryCap = 1
  MaxNames = 1
  Budget = 0
SPECIFICATION Spec
SYMMETRY Symmetry
INVARIANT NoSendOnClosed
INVARIANT StillRegistered
INVARIANT WaitGroupBalance
INVARIANT SessionRegistered
PROPERTY MapWrittenAlone
CHECK_DEADLOCK FALSE
