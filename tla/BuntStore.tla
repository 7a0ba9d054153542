------------------------------ MODULE BuntStore ------------------------------
(***************************************************************************)
(* Rooms, their tags and their events in buntdb (persistence/buntdb.go,      *)
(* filter/tags.go): one file with a row for each room, and one file for the  *)
(* events of each.  StoreRoom writes the row in one transaction, opens the   *)
(* room's file, and takes the row back in another when that fails.           *)
(*                                                                         *)
(* The calls exclude each other (RWMutex), so the states between them and    *)
(* inside StoreRoom are all there is.  The second transaction of StoreRoom,  *)
(* whose error the code ignores, is taken to succeed.                        *)
(***************************************************************************)
EXTENDS Integers, Sequences, SequencesExt

CONSTANTS
  Rooms,
  Misnamed,   \* the rooms whose file cannot be opened: no file name, or no such place
  Tags,       \* names of tags
  Items,      \* what the comma-separated items of a tag's value may be
  Numbers,    \* those of them that parse as numbers
  Zero,       \* "0"
  Stored,     \* the tags that a room may be stored with
  Updates,    \* the updates that a plugin may ask for
  Fails,      \* what an expression that cannot be evaluated results in
  Events,
  Absent, Empty, \* no row; a row without a value
  Idle

\* A tag that is not there reads like one with a single empty item.
Values  == UNION {[1 .. n -> Items] : n \in {1, 2}}
TagMaps == [Tags -> Values]

\* Type says list or not, number or not.
UpdateType == [name : Tags, list : BOOLEAN, number : BOOLEAN, index : Int, result : Items \cup {Fails}]

ASSUME MisnamedRooms  == Misnamed \subseteq Rooms
ASSUME ZeroIsNumber   == Zero \in Numbers /\ Numbers \subseteq Items /\ Fails \notin Items
ASSUME UpdatesTyped   == Updates \subseteq UpdateType
ASSUME StoredTyped    == Stored \subseteq TagMaps
ASSUME NoRowDiffers   == {Absent, Empty} \cap TagMaps = {} /\ Absent # Empty /\ Idle \notin Rooms

VARIABLES
  up,          \* the persister is open
  row,         \* the value at "room:" and the id
  roomDbs,     \* the rooms whose files are open
  files,       \* the events in each room's file
  busy,        \* the room that StoreRoom is at, or Idle
  old,         \* the row that it replaced
  said,        \* what the last call returned: an error, or the tags that are updated
  interrupted  \* rooms whose StoreRoom was killed between the two

vars == <<up, row, roomDbs, files, busy, old, said, interrupted>>

TypeOK ==
  /\ up \in BOOLEAN /\ busy \in Rooms \cup {Idle}
  /\ row \in [Rooms -> TagMaps \cup {Absent, Empty}] /\ old \in TagMaps \cup {Absent, Empty}
  /\ roomDbs \subseteq Rooms /\ interrupted \subseteq Rooms
  /\ files \in [Rooms -> SUBSET Events]
  /\ said \in [is : {"nothing", "error", "stored", "deleted", "kept", "updated"}, done : SUBSET Tags]

Init ==
  /\ up = FALSE /\ busy = Idle /\ old = Absent
  /\ row = [r \in Rooms |-> Absent] /\ roomDbs = {} /\ interrupted = {}
  /\ files = [r \in Rooms |-> {}] /\ said = [is |-> "nothing", done |-> {}]

-----------------------------------------------------------------------------
(* filter.UpdateTags *)

\* The expression could be evaluated, and its result decoded into the type.
Decodes(u) == u.result # Fails /\ (u.number => u.result \in Numbers)

\* AsStringSlice, AsIntSlice, AsFloatSlice: an item that is no number becomes 0.
AsSlice(u, value) ==
  [i \in DOMAIN value |-> IF u.number /\ value[i] \notin Numbers THEN Zero ELSE value[i]]

\* A bug for the properties to notice: what is beyond the end is appended.
WithItemAppended(u, value) ==
  IF u.index < Len(value) THEN [AsSlice(u, value) EXCEPT ![u.index + 1] = u.result]
  ELSE Append(AsSlice(u, value), u.result)

\* One item of a list, unless it is beyond the end.
WithItem(u, value) ==
  IF u.index < Len(value) THEN [AsSlice(u, value) EXCEPT ![u.index + 1] = u.result] ELSE value

\* One update after the other; what cannot be done is left out.
Updated(tags, u) ==
  IF ~Decodes(u) THEN tags
  ELSE [tags EXCEPT ![u.name] = IF u.list THEN WithItem(u, @) ELSE <<u.result>>]
UpdateTags(tags, updates) ==
  LET after[i \in 0 .. Len(updates)] == IF i = 0 THEN tags ELSE Updated(after[i - 1], updates[i])
  IN  after[Len(updates)]

\* resOk, as the names of the tags for which it has a TRUE.
Done(updates)   == {u.name : u \in {v \in ToSet(updates) : Decodes(v)}}
Panics(updates) == \E u \in ToSet(updates) : Decodes(u) /\ u.list /\ u.index < 0

-----------------------------------------------------------------------------
(* buntdb.go *)

\* json.Unmarshal of the row succeeds: GetRoom, and what GetRooms lists.
Readable(r) == row[r] \notin {Absent, Empty}
GetRooms    == {r \in Rooms : Readable(r)}

Called   == up /\ busy = Idle
Return(x) == said' = [is |-> x, done |-> {}]

\* setupBuntDB: the file of each room is opened; that one of them cannot be is an error.
Open ==
  /\ ~up /\ GetRooms \cap Misnamed = {}
  /\ up' = TRUE /\ roomDbs' = GetRooms
  /\ UNCHANGED <<row, files, busy, old, said, interrupted>>

\* Close, or the end of the process, at any point.
Stop ==
  /\ up /\ up' = FALSE /\ roomDbs' = {} /\ busy' = Idle /\ old' = Absent
  /\ interrupted' = interrupted \cup ({busy} \ {Idle})
  /\ Return("nothing") /\ UNCHANGED <<row, files>>

\* A transaction fails, and its call with it; or there is no id, or no room.
Fail == Called /\ Return("error") /\ UNCHANGED <<up, row, roomDbs, files, busy, old, interrupted>>

\* A bug for the properties to notice: only a new room gets its file opened.
NeedsFileIfNew(r) == row[r] = Absent
NeedsFile(r)      == row[r] = Absent \/ r \notin roomDbs

\* StoreRoom: the row, ...
StoreRow(r, tags) ==
  /\ Called /\ row' = [row EXCEPT ![r] = tags]
  /\ IF NeedsFile(r) THEN busy' = r /\ old' = row[r] /\ UNCHANGED said
                     ELSE Return("stored") /\ UNCHANGED <<busy, old>>
  /\ UNCHANGED <<up, roomDbs, files, interrupted>>

\* ... the file and its index, ...
OpenFile ==
  /\ busy \in Rooms \ Misnamed
  /\ roomDbs' = roomDbs \cup {busy} /\ busy' = Idle /\ old' = Absent
  /\ Return("stored") /\ UNCHANGED <<up, row, files, interrupted>>

\* A bug for the properties to notice: the row stays.
RowKept   == row
TakenBack == [row EXCEPT ![busy] = old]

\* ... or, when one of the two fails, the row as it was before: set again, or deleted.
TakeBack ==
  /\ busy # Idle
  /\ row' = TakenBack /\ busy' = Idle /\ old' = Absent
  /\ Return("error") /\ UNCHANGED <<up, roomDbs, files, interrupted>>

\* DeleteRoom: what is not there is an error, and then set to nothing.  The room's file and
\* its entry in roomDbs, deleted by another key, stay.
DeleteRoom(r) ==
  /\ Called
  /\ IF row[r] # Absent THEN row' = [row EXCEPT ![r] = Absent] /\ Return("deleted")
                        ELSE row' = [row EXCEPT ![r] = Empty] /\ Return("error")
  /\ UNCHANGED <<up, roomDbs, files, busy, old, interrupted>>

\* UpdateRoomTags, in one transaction; a panic in it ends the process.
UpdateRoomTags(r, updates) ==
  /\ Called /\ Readable(r) /\ ~Panics(updates)
  /\ row' = [row EXCEPT ![r] = UpdateTags(@, updates)]
  /\ said' = [is |-> "updated", done |-> Done(updates)]
  /\ UNCHANGED <<up, roomDbs, files, busy, old, interrupted>>

\* StoreEvents, in one transaction of the room's file.
StoreEvents(r, batch) ==
  /\ Called /\ r \in roomDbs
  /\ files' = [files EXCEPT ![r] = @ \cup batch]
  /\ Return("kept") /\ UNCHANGED <<up, row, roomDbs, busy, old, interrupted>>

Next ==
  \/ Open \/ Stop \/ Fail \/ OpenFile \/ TakeBack
  \/ \E r \in Rooms :
       \/ \E tags \in Stored : StoreRow(r, tags)
       \/ DeleteRoom(r)
       \/ \E u, v \in Updates : UpdateRoomTags(r, <<u>>) \/ UpdateRoomTags(r, <<u, v>>)
       \/ \E batch \in SUBSET Events \ {{}} : StoreEvents(r, batch)

Spec == Init /\ [][Next]_vars

-----------------------------------------------------------------------------
\* A room that GetRooms lists gets its events stored and read: its file is open whenever no
\* call is under way.  And the persister can be opened again, unless StoreRoom was killed
\* before it found out that the file cannot be.
RoomsServed ==
  \A r \in GetRooms \ {busy} : (up => r \in roomDbs) /\ (r \in Misnamed => r \in interrupted)

\* What a caller sees: a room that is being stored is not there yet.
Shown(r) == LET value == IF r = busy THEN old ELSE row[r]
            IN  IF value \in {Absent, Empty} THEN Absent ELSE value
Store == INSTANCE RoomStore WITH
           NoRoom <- Absent, rooms <- [r \in Rooms |-> Shown(r)], stored <- files
IsRoomStore == Store!Spec
=============================================================================
