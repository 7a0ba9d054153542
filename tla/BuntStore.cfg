SPECIFICATION Spec
CONSTANTS
  blank = blank
  Zero = Zero
  Rooms = {r1, r2, r3}
  Misnamed = {r2}
  Tags = {"topic", "list"}
  Items = {blank, Zero}
  Numbers = {Zero}
  Stored <- MCStored
  Updates <- MCUpdates
  Fails = Fails
  Events = {e1}
  Absent = Absent
  Empty = Empty
  Idle = Idle
INVARIANTS TypeOK RoomsServed
PROPERTY IsRoomStore
CHECK_DEADLOCK FALSE
