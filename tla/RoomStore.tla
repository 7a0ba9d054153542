------------------------------ MODULE RoomStore ------------------------------
(***************************************************************************)
(* What a persister promises of rooms and their events: a call that returns  *)
(* without an error has happened as a whole, one that returns an error has   *)
(* changed nothing, and one that never returned is the one or the other.     *)
(***************************************************************************)
EXTENDS Sequences

CONSTANTS Rooms, Tags, Values, Events, NoRoom

VARIABLES
  rooms,    \* the tags of each room, or NoRoom
  stored,   \* the stored events of each room
  said      \* what the last call returned, and the tags it reported as updated

vars == <<rooms, stored, said>>

TagMaps == [Tags -> Values]
Plain(x) == [is |-> x, done |-> {}]

Init == rooms = [r \in Rooms |-> NoRoom] /\ stored = [r \in Rooms |-> {}] /\ said = Plain("nothing")

Becomes(r, tags) == rooms' = [rooms EXCEPT ![r] = tags] /\ UNCHANGED stored

Store(r)  == said' = Plain("stored") /\ \E tags \in TagMaps : Becomes(r, tags)
Delete(r) == said' = Plain("deleted") /\ Becomes(r, NoRoom)

\* Updates change no tag but those reported as done.
Update(r) ==
  /\ rooms[r] # NoRoom /\ said'.is = "updated" /\ said'.done \subseteq Tags
  /\ \E tags \in TagMaps :
       (\A t \in Tags \ said'.done : tags[t] = rooms[r][t]) /\ Becomes(r, tags)

StoreEvents(r) ==
  /\ said' = Plain("kept") /\ UNCHANGED rooms
  /\ \E batch \in SUBSET Events : stored' = [stored EXCEPT ![r] = @ \cup batch]

Refuse == said' = Plain("error") /\ UNCHANGED <<rooms, stored>>

\* The process ends: what it was at has happened or not.
Interrupt == /\ said' = Plain("nothing") /\ UNCHANGED stored
             /\ \/ UNCHANGED rooms
                \/ \E r \in Rooms, tags \in TagMaps : Becomes(r, tags)

Next == \/ \E r \in Rooms : Store(r) \/ Delete(r) \/ Update(r) \/ StoreEvents(r)
        \/ Refuse \/ Interrupt

Spec == Init /\ [][Next]_vars
=============================================================================
