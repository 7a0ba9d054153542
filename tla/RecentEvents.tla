---------------------------- MODULE RecentEvents ----------------------------
(***************************************************************************)
(* What the hub's history promises: the most recent events, oldest first,   *)
(* at most Keep of them.                                                    *)
(***************************************************************************)
EXTENDS Naturals, Sequences

CONSTANTS Event, Keep
VARIABLE recent

Remembered(s, e) == LET t == Append(s, e) IN IF Len(t) > Keep THEN Tail(t) ELSE t

Init == recent = <<>>
Add(e) == recent' = Remembered(recent, e)
Next == \E e \in Event : Add(e)
Spec == Init /\ [][Next]_recent
=============================================================================
