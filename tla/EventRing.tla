------------------------------ MODULE EventRing ------------------------------
(***************************************************************************)
(* The ring buffer of ws/hub.go that keeps a room's history: container/ring *)
(* with a start and an end, appended to by NewHub and by the EventHistory   *)
(* case of Hub.Run, read by GetHistory.  lockEventHistory makes each of     *)
(* these atomic.                                                            *)
(***************************************************************************)
EXTENDS Naturals, Sequences

CONSTANTS
  Event,   \* what can be put into the ring
  Size,    \* eventHistorySize: the length of the ring
  Nil      \* the value of a slot that was never written

ASSUME SizeIsPositive == Size \in Nat \ {0}
ASSUME NilIsNoEvent   == Nil \notin Event

VARIABLE ring   \* [slots, start, end]: eventHistoryStart and eventHistoryEnd are positions

Slot  == 0 .. Size - 1
Rings == [slots : [Slot -> Event \cup {Nil}], start : Slot, end : Slot]

\* ring.New(size), with start and end at its one entry point.
EmptyRing == [slots |-> [i \in Slot |-> Nil], start |-> 0, end |-> 0]

\* A bug for the properties to notice: the last slot has no successor.
NextSlotNoWrap(i) == i + 1

\* (*ring.Ring).Next
NextSlot(i) == IF i = Size - 1 THEN 0 ELSE i + 1

\* A bug for the properties to notice: the oldest entry is not given up.
PutKeepingStart(r, e) ==
  [slots |-> [r.slots EXCEPT ![r.end] = e], start |-> r.start, end |-> NextSlot(r.end)]

\* One round of the loop: write at the end, advance it, push the start along.
Put(r, e) ==
  [slots |-> [r.slots EXCEPT ![r.end] = e],
   start |-> IF NextSlot(r.end) = r.start THEN NextSlot(r.start) ELSE r.start,
   end   |-> NextSlot(r.end)]

\* Bugs for the properties to notice: end is read too, or a wrapped ring seems empty.
CountToEnd(r)       == IF r.start <= r.end THEN r.end - r.start + 1 ELSE r.end + Size - r.start + 1
CountWithoutWrap(r) == IF r.start <= r.end THEN r.end - r.start ELSE 0

\* GetHistory: from start, up to but not including end.
Count(r)    == IF r.start <= r.end THEN r.end - r.start ELSE r.end + Size - r.start
At(r, i)    == LET j == r.start + i - 1 IN IF j < Size THEN j ELSE j - Size
Contents(r) == [i \in 1 .. Count(r) |-> r.slots[At(r, i)]]

\* The loop of GetHistory as it is written: current goes from start to end.
Walk(r) ==
  LET from[current \in Slot] ==
        IF current = r.end THEN <<>> ELSE <<r.slots[current]>> \o from[NextSlot(current)]
  IN  from[r.start]

\* The ring by itself; HubHistory puts it into the hub.
RingInit == ring = EmptyRing
RingNext == \E e \in Event : ring' = Put(ring, e)
RingSpec == RingInit /\ [][RingNext]_ring

-----------------------------------------------------------------------------
\* The slots between start and end are exactly the ones that GetHistory converts with
\* current.Value.(*types.Event): none of them is nil, which would panic.
RingTypeOK == ring \in Rings
NoNilRead == \A i \in 1 .. Count(ring) : ring.slots[At(ring, i)] \in Event

\* GetHistory's loop ends, and collects what Contents says.
WalkIsContents == Walk(ring) = Contents(ring)

\* The ring implements the recent events, with one slot less than its length.
Recent == INSTANCE RecentEvents WITH recent <- Contents(ring), Keep <- Size - 1
IsRecent == Recent!Spec
=============================================================================
