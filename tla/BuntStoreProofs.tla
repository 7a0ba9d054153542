-------------------------- MODULE BuntStoreProofs --------------------------
(***************************************************************************)
(* For any rooms, tags and updates: what is stored is typed, every room that *)
(* buntdb lists is served, and the file with its transactions is a store of   *)
(* rooms and events.                                                         *)
(***************************************************************************)
EXTENDS BuntStore, WellFoundedInduction, TLAPS

-----------------------------------------------------------------------------
(* UpdateTags, for any number of updates. *)

\* A set of naturals has a least element.
LEMMA LeastNat ==
  ASSUME NEW T \in SUBSET Nat, T # {}
  PROVE  \E x \in T : \A y \in T : x <= y
<1> DEFINE R == {ss \in Nat \X Nat : ss[1] < ss[2]}
<1>1. IsWellFoundedOn(R, Nat)
  BY NatLessThanWellFounded, Zenon DEF OpToRel
<1> HIDE DEF R
<1>2. PICK x \in T : \A y \in T : ~(<<y, x>> \in R)
  BY <1>1, WFMin
<1>3. \A y \in T : ~(y < x)
  BY <1>2 DEF R
<1> QED BY <1>3

\* A set that has 0, and with each number below n the next, has all of them.
LEMMA UpTo ==
  ASSUME NEW n \in Nat, NEW T \in SUBSET Nat, 0 \in T, \A i \in 1 .. n : i - 1 \in T => i \in T
  PROVE  \A i \in 0 .. n : i \in T
<1> SUFFICES ASSUME (0 .. n) \ T # {} PROVE FALSE OBVIOUS
<1>1. (0 .. n) \ T \in SUBSET Nat OBVIOUS
<1>2. PICK i \in (0 .. n) \ T : \A j \in (0 .. n) \ T : i <= j BY <1>1, LeastNat
<1>3. i \in 1 .. n /\ i - 1 \in 0 .. n /\ ~(i <= i - 1) BY <1>2
<1> QED BY <1>2, <1>3

\* UpdateTags goes through what one update after the other makes of the tags.
LEMMA UpdateTagsSteps ==
  ASSUME NEW tags, NEW us \in Seq(UpdateType)
  PROVE  \E after : /\ after[0] = tags
                    /\ \A i \in 1 .. Len(us) : after[i] = Updated(after[i - 1], us[i])
                    /\ UpdateTags(tags, us) = after[Len(us)]
<1> DEFINE Of(f, k) == [i \in 0 .. k |-> IF i = 0 THEN tags ELSE Updated(f[i - 1], us[i])]
           T == {k \in Nat : \E f : f = Of(f, k)}
<1>1. 0 \in T
  <2>1. [i \in 0 .. 0 |-> tags] = Of([i \in 0 .. 0 |-> tags], 0) OBVIOUS
  <2> QED BY <2>1
<1>2. ASSUME NEW k \in 1 .. Len(us), k - 1 \in T PROVE k \in T
  <2>1. k \in Nat \ {0} OBVIOUS
  <2>2. PICK f : f = Of(f, k - 1) BY <1>2
  <2> DEFINE g == [i \in 0 .. k |-> IF i = k THEN Updated(f[k - 1], us[k]) ELSE f[i]]
  <2>3. \A i \in 0 .. k : g[i] = IF i = 0 THEN tags ELSE Updated(g[i - 1], us[i])
    <3> TAKE i \in 0 .. k
    <3>1. CASE i = k
      <4>1. i # 0 /\ k - 1 \in 0 .. k /\ k - 1 # k BY <2>1, <3>1
      <4>2. g[k - 1] = f[k - 1] BY <4>1
      <4> QED BY <3>1, <4>1, <4>2
    <3>2. CASE i # k
      <4>1. i \in 0 .. k - 1 BY <3>2
      <4>2. g[i] = f[i] BY <3>2
      <4>3. f[i] = IF i = 0 THEN tags ELSE Updated(f[i - 1], us[i]) BY <2>2, <4>1
      <4>4. i # 0 => i - 1 \in 0 .. k /\ i - 1 # k /\ g[i - 1] = f[i - 1] BY <4>1
      <4> QED BY <4>2, <4>3, <4>4
    <3> QED BY <3>1, <3>2
  <2>4. g = Of(g, k)
    <3> HIDE DEF g
    <3>1. g = [i \in 0 .. k |-> g[i]] BY DEF g
    <3> QED BY <2>3, <3>1
  <2> QED BY <2>1, <2>4
<1>3. Len(us) \in Nat /\ Len(us) \in 0 .. Len(us) OBVIOUS
<1>4. Len(us) \in T
  <2> HIDE DEF T
  <2>1. T \in SUBSET Nat BY DEF T
  <2> QED BY <1>1, <1>2, <1>3, <2>1, UpTo
<1> DEFINE after == CHOOSE f : f = Of(f, Len(us))
<1>5. after = Of(after, Len(us)) BY <1>4
<1>6. UpdateTags(tags, us) = after[Len(us)] BY DEF UpdateTags
<1> HIDE DEF after
<1>7. after[0] = tags BY <1>3, <1>5
<1>8. ASSUME NEW i \in 1 .. Len(us) PROVE after[i] = Updated(after[i - 1], us[i])
  BY <1>5
<1> QED BY <1>6, <1>7, <1>8

\* One update leaves tags, and only its own tag has changed, if it could be decoded.
LEMMA UpdatedTyped ==
  ASSUME NEW tags \in TagMaps, NEW u \in UpdateType, ~(Decodes(u) /\ u.list /\ u.index < 0)
  PROVE  /\ Updated(tags, u) \in TagMaps
         /\ \A t \in Tags : Updated(tags, u)[t] # tags[t] => Decodes(u) /\ t = u.name
<1> USE DEF UpdateType
<1>1. CASE ~Decodes(u) BY <1>1 DEF Updated
<1>2. CASE Decodes(u)
  <2> DEFINE was == tags[u.name]
             new == IF u.list THEN WithItem(u, was) ELSE <<u.result>>
  <2>1. u.result \in Items /\ u.name \in Tags /\ was \in Values BY <1>2 DEF Decodes, TagMaps
  <2>2. PICK n \in {1, 2} : was \in [1 .. n -> Items] BY <2>1 DEF Values
  <2>3. \A k \in {1, 2} : [1 .. k -> Items] \subseteq Values BY DEF Values
  <2> HIDE DEF was
  <2>4. new \in Values
    <3>1. CASE u.list
      <4>1. AsSlice(u, was) \in [1 .. n -> Items] BY <2>2, ZeroIsNumber DEF AsSlice
      <4>2. WithItem(u, was) \in [1 .. n -> Items] BY <4>1, <2>1, <2>2 DEF WithItem
      <4> QED BY <4>2, <2>3, <3>1
    <3>2. CASE ~u.list
      <4>1. <<u.result>> \in [1 .. 1 -> Items] BY <2>1
      <4> QED BY <4>1, <2>3, <3>2
    <3> QED BY <3>1, <3>2
  <2>5. Updated(tags, u) = [tags EXCEPT ![u.name] = new] BY <1>2 DEF Updated, was
  <2> HIDE DEF new
  <2> QED BY <1>2, <2>1, <2>4, <2>5 DEF TagMaps
<1> QED BY <1>1, <1>2

\* Many updates leave tags, and no tag has changed but those reported as done.
LEMMA UpdateTagsTyped ==
  ASSUME NEW tags \in TagMaps, NEW us \in Seq(UpdateType), ~Panics(us)
  PROVE  /\ UpdateTags(tags, us) \in TagMaps
         /\ \A t \in Tags \ Done(us) : UpdateTags(tags, us)[t] = tags[t]
         /\ Done(us) \subseteq Tags
<1> DEFINE Kept(m) == m \in TagMaps /\ \A t \in Tags \ Done(us) : m[t] = tags[t]
<1>1. PICK after : /\ after[0] = tags
                   /\ \A i \in 1 .. Len(us) : after[i] = Updated(after[i - 1], us[i])
                   /\ UpdateTags(tags, us) = after[Len(us)]
  BY UpdateTagsSteps
<1> DEFINE T == {i \in Nat : Kept(after[i])}
<1>2. 0 \in T BY <1>1
<1>3. ASSUME NEW i \in 1 .. Len(us), i - 1 \in T PROVE i \in T
  <2> DEFINE u == us[i]
             m == after[i - 1]
  <2>1. u \in UpdateType /\ i \in DOMAIN us /\ i \in Nat OBVIOUS
  <2>2. u \in ToSet(us) BY <2>1 DEF ToSet
  <2>3. ~(Decodes(u) /\ u.list /\ u.index < 0) BY <2>2 DEF Panics
  <2>4. Kept(m) BY <1>3
  <2>5. Decodes(u) => u.name \in Done(us) BY <2>2 DEF Done
  <2>6. after[i] = Updated(m, u) BY <1>1
  <2> HIDE DEF u, m
  <2>7. Updated(m, u) \in TagMaps /\ \A t \in Tags : Updated(m, u)[t] # m[t] => Decodes(u) /\ t = u.name
    BY <2>1, <2>3, <2>4, UpdatedTyped
  <2>8. Kept(after[i]) BY <2>4, <2>5, <2>6, <2>7
  <2> QED BY <2>1, <2>8
<1>4. Len(us) \in T
  <2> HIDE DEF T
  <2>1. T \in SUBSET Nat /\ Len(us) \in Nat /\ Len(us) \in 0 .. Len(us) BY DEF T
  <2> QED BY <1>2, <1>3, <2>1, UpTo
<1>5. Done(us) \subseteq Tags
  <2>1. ToSet(us) \subseteq UpdateType BY DEF ToSet
  <2> QED BY <2>1 DEF Done, UpdateType
<1> QED BY <1>1, <1>4, <1>5

-----------------------------------------------------------------------------
(* The calls. *)

\* A closed persister holds nothing; StoreRoom only opens a file for a room that was not
\* there to be served, so that taking the row back leaves none unserved.
Consistent ==
  /\ row = [r \in Rooms |-> row[r]] /\ busy \in Rooms \cup {Idle}
  /\ ~up => roomDbs = {} /\ busy = Idle
  /\ busy # Idle => old \in {Absent, Empty}
  /\ roomDbs \cap Misnamed = {}
IInv == Consistent /\ RoomsServed

\* Nothing is stored at first.
LEMMA IInvInit == Init => IInv
<1> QED BY DEF Init, IInv, Consistent, RoomsServed, GetRooms, Readable

\* Each call, each of StoreRoom's transactions, and a kill between them keep it.
LEMMA IInvStep == IInv /\ [Next]_vars => IInv'
<1> SUFFICES ASSUME IInv, [Next]_vars PROVE IInv' OBVIOUS
<1> USE NoRowDiffers DEF IInv, Consistent, RoomsServed, GetRooms, Readable
<1>1. CASE Open BY <1>1 DEF Open
<1>2. CASE Stop BY <1>2 DEF Stop
<1>3. CASE Fail BY <1>3 DEF Fail, Called
<1>4. CASE OpenFile BY <1>4 DEF OpenFile
<1>5. CASE TakeBack
  <2>1. row' = [r \in Rooms |-> IF r = busy THEN old ELSE row[r]] BY <1>5 DEF TakeBack, TakenBack
  <2> QED BY <1>5, <2>1 DEF TakeBack
<1>6. ASSUME NEW r \in Rooms, NEW tags \in Stored, StoreRow(r, tags) PROVE IInv'
  <2>1. row' = [s \in Rooms |-> IF s = r THEN tags ELSE row[s]] BY <1>6 DEF StoreRow
  <2>2. CASE NeedsFile(r) BY <1>6, <2>1, <2>2 DEF StoreRow, Called, NeedsFile
  <2>3. CASE ~NeedsFile(r) BY <1>6, <2>1, <2>3 DEF StoreRow, Called, NeedsFile
  <2> QED BY <2>2, <2>3
<1>7. ASSUME NEW r \in Rooms, DeleteRoom(r) PROVE IInv'
  <2>1. row' = [s \in Rooms |-> IF s = r THEN row'[r] ELSE row[s]] /\ row'[r] \in {Absent, Empty}
    BY <1>7 DEF DeleteRoom
  <2> QED BY <1>7, <2>1 DEF DeleteRoom, Called
<1>8. ASSUME NEW r \in Rooms, NEW us, UpdateRoomTags(r, us) PROVE IInv'
  <2>1. row' = [s \in Rooms |-> IF s = r THEN row'[r] ELSE row[s]] BY <1>8 DEF UpdateRoomTags
  <2> QED BY <1>8, <2>1 DEF UpdateRoomTags, Called
<1>9. ASSUME NEW r \in Rooms, NEW batch \in SUBSET Events, StoreEvents(r, batch) PROVE IInv'
  BY <1>9 DEF StoreEvents, Called
<1>10. CASE UNCHANGED vars BY <1>10 DEF vars
<1> QED BY <1>1, <1>2, <1>3, <1>4, <1>5, <1>6, <1>7, <1>8, <1>9, <1>10 DEF Next

\* StoreRoom, DeleteRoom, setupBuntDB and whatever ends the process leave a room that GetRooms
\* lists with an open file, and one whose file cannot be opened with a row only if StoreRoom was
\* killed between its transactions.
THEOREM RoomsAreServed == Spec => []RoomsServed
<1>1. IInv => RoomsServed BY DEF IInv
<1> QED BY <1>1, IInvInit, IInvStep, PTL DEF Spec

\* The values are of their kind at first, ...
LEMMA TypeOKInit == Init => TypeOK
<1> SUFFICES ASSUME Init PROVE TypeOK OBVIOUS
<1>1. row \in [Rooms -> TagMaps \cup {Absent, Empty}] /\ files \in [Rooms -> SUBSET Events] BY DEF Init
<1>2. said \in [is : {"nothing", "error", "stored", "deleted", "kept", "updated"}, done : SUBSET Tags]
  BY DEF Init
<1> QED BY <1>1, <1>2 DEF Init, TypeOK

\* ... each call keeps the rows and what is said of their kind, UpdateRoomTags included.
LEMMA TypeOKStep == TypeOK /\ [Next]_vars => TypeOK'
<1> SUFFICES ASSUME TypeOK, [Next]_vars PROVE TypeOK' OBVIOUS
<1> USE DEF TypeOK, Return
<1>1. CASE Open BY <1>1 DEF Open, GetRooms
<1>2. CASE Stop BY <1>2 DEF Stop
<1>3. CASE Fail BY <1>3 DEF Fail
<1>4. CASE OpenFile BY <1>4 DEF OpenFile
<1>5. CASE TakeBack BY <1>5 DEF TakeBack, TakenBack
<1>6. ASSUME NEW r \in Rooms, NEW tags \in Stored, StoreRow(r, tags) PROVE TypeOK'
  <2>1. tags \in TagMaps BY StoredTyped
  <2>2. CASE NeedsFile(r) BY <1>6, <2>1, <2>2 DEF StoreRow
  <2>3. CASE ~NeedsFile(r) BY <1>6, <2>1, <2>3 DEF StoreRow
  <2> QED BY <2>2, <2>3
<1>7. ASSUME NEW r \in Rooms, DeleteRoom(r) PROVE TypeOK' BY <1>7 DEF DeleteRoom
<1>8. ASSUME NEW r \in Rooms, NEW us \in Seq(UpdateType), UpdateRoomTags(r, us) PROVE TypeOK'
  <2>1. row[r] \in TagMaps BY <1>8 DEF UpdateRoomTags, Readable
  <2>2. UpdateTags(row[r], us) \in TagMaps /\ Done(us) \subseteq Tags
    BY <1>8, <2>1, UpdateTagsTyped DEF UpdateRoomTags
  <2> QED BY <1>8, <2>2 DEF UpdateRoomTags
<1>9. ASSUME NEW r \in Rooms, NEW batch \in SUBSET Events, StoreEvents(r, batch) PROVE TypeOK'
  BY <1>9 DEF StoreEvents
<1>10. CASE UNCHANGED vars BY <1>10 DEF vars
<1>11. ASSUME NEW u \in Updates, NEW v \in Updates
       PROVE  <<u>> \in Seq(UpdateType) /\ <<u, v>> \in Seq(UpdateType)
  BY UpdatesTyped
<1> QED BY <1>1, <1>2, <1>3, <1>4, <1>5, <1>6, <1>7, <1>8, <1>9, <1>10, <1>11 DEF Next

\* Rows hold tags, nothing or no value, whatever the updates compute: an item beyond the end
\* of a list leaves it as it is, and none is left that is not an item.
THEOREM BuntStoreTyped == Spec => []TypeOK
  BY TypeOKInit, TypeOKStep, PTL DEF Spec

-----------------------------------------------------------------------------
(* The rows and files are a store of rooms and events. *)

\* While StoreRoom is at a room, its row holds the tags that it was called with.
Storing == busy # Idle => row[busy] \in TagMaps
RInv    == TypeOK /\ IInv /\ Storing

\* At first StoreRoom is at no room.
LEMMA RInvInit == Init => RInv
  BY TypeOKInit, IInvInit DEF Init, RInv, Storing

\* No other call runs while StoreRoom is at a room.
LEMMA RInvStep == RInv /\ [Next]_vars => RInv'
<1> SUFFICES ASSUME RInv, [Next]_vars PROVE Storing' BY TypeOKStep, IInvStep DEF RInv
<1> USE DEF RInv, Storing
<1>1. CASE Open BY <1>1 DEF Open
<1>2. CASE Stop BY <1>2 DEF Stop
<1>3. CASE Fail BY <1>3 DEF Fail
<1>4. CASE OpenFile BY <1>4 DEF OpenFile
<1>5. CASE TakeBack BY <1>5 DEF TakeBack
<1>6. ASSUME NEW r \in Rooms, NEW tags \in Stored, StoreRow(r, tags) PROVE Storing'
  <2>1. tags \in TagMaps BY StoredTyped
  <2>2. row'[r] = tags BY <1>6 DEF StoreRow, TypeOK
  <2> QED BY <1>6, <2>1, <2>2 DEF StoreRow, Called
<1>7. ASSUME NEW r \in Rooms, DeleteRoom(r) PROVE Storing' BY <1>7 DEF DeleteRoom, Called
<1>8. ASSUME NEW r \in Rooms, NEW us, UpdateRoomTags(r, us) PROVE Storing'
  BY <1>8 DEF UpdateRoomTags, Called
<1>9. ASSUME NEW r \in Rooms, NEW batch \in SUBSET Events, StoreEvents(r, batch) PROVE Storing'
  BY <1>9 DEF StoreEvents
<1>10. CASE UNCHANGED vars BY <1>10 DEF vars
<1> QED BY <1>1, <1>2, <1>3, <1>4, <1>5, <1>6, <1>7, <1>8, <1>9, <1>10 DEF Next

\* The rooms as a caller sees them.
View == [r \in Rooms |-> Shown(r)]

\* A step that changes what is shown of one room, or of none.
LEMMA Seen ==
  ASSUME RInv, NEW r \in Rooms, \A s \in Rooms \ {r} : Shown(s)' = Shown(s)
  PROVE  View' = [View EXCEPT ![r] = Shown(r)']
  BY DEF View

\* A step that changes nothing that is shown.
LEMMA SameSeen == (\A s \in Rooms : Shown(s)' = Shown(s)) => View' = View
  BY DEF View

\* Each call, and each kill, is a step of RoomStore or none.
LEMMA StepRefines == RInv /\ [Next]_vars => [Store!Next]_(<<View, files, said>>)
<1> SUFFICES ASSUME RInv, [Next]_vars PROVE [Store!Next]_(<<View, files, said>>) OBVIOUS
<1> USE NoRowDiffers DEF RInv, TypeOK, IInv, Consistent
<1>1. CASE Open
  <2>1. View' = View BY <1>1, SameSeen DEF Open, Shown
  <2> QED BY <1>1, <2>1 DEF Open
<1>2. CASE Stop
  <2>1. said' = Store!Plain("nothing") /\ files' = files BY <1>2 DEF Stop, Return, Store!Plain
  <2>2. CASE busy = Idle
    <3>1. View' = View BY <1>2, <2>2, SameSeen DEF Stop, Shown
    <3> QED BY <2>1, <3>1 DEF Store!Next, Store!Interrupt, View
  <2>3. CASE busy # Idle
    <3>1. PICK r \in Rooms : r = busy /\ row[r] \in TagMaps BY <2>3 DEF Storing
    <3>2. Shown(r)' = row[r] BY <1>2, <3>1 DEF Stop, Shown
    <3>3. \A s \in Rooms \ {r} : Shown(s)' = Shown(s) BY <1>2, <3>1 DEF Stop, Shown
    <3>4. View' = [View EXCEPT ![r] = row[r]] BY <3>2, <3>3, Seen
    <3> QED BY <2>1, <3>1, <3>4 DEF Store!Next, Store!Interrupt, Store!Becomes, Store!TagMaps, TagMaps, View
  <2> QED BY <2>2, <2>3
<1>3. CASE Fail
  <2>1. View' = View BY <1>3, SameSeen DEF Fail, Shown
  <2> QED BY <1>3, <2>1 DEF Fail, Return, Store!Next, Store!Refuse, Store!Plain, View
<1>4. CASE OpenFile
  <2>1. PICK r \in Rooms : r = busy /\ row[r] \in TagMaps BY <1>4 DEF OpenFile, Storing
  <2>2. Shown(r)' = row[r] BY <1>4, <2>1 DEF OpenFile, Shown
  <2>3. \A s \in Rooms \ {r} : Shown(s)' = Shown(s) BY <1>4, <2>1 DEF OpenFile, Shown
  <2>4. View' = [View EXCEPT ![r] = row[r]] BY <2>2, <2>3, Seen
  <2>5. said' = Store!Plain("stored") /\ files' = files BY <1>4 DEF OpenFile, Return, Store!Plain
  <2> QED BY <2>1, <2>4, <2>5 DEF Store!Next, Store!Store, Store!Becomes, Store!TagMaps, TagMaps, View
<1>5. CASE TakeBack
  <2>1. row' = [r \in Rooms |-> IF r = busy THEN old ELSE row[r]] BY <1>5 DEF TakeBack, TakenBack
  <2>2. \A s \in Rooms : Shown(s)' = Shown(s) BY <1>5, <2>1 DEF TakeBack, Shown
  <2>3. View' = View BY <2>2, SameSeen
  <2> QED BY <1>5, <2>3 DEF TakeBack, Return, Store!Next, Store!Refuse, Store!Plain, View
<1>6. ASSUME NEW r \in Rooms, NEW tags \in Stored, StoreRow(r, tags) PROVE [Store!Next]_(<<View, files, said>>)
  <2>1. tags \in TagMaps /\ tags \notin {Absent, Empty} BY StoredTyped
  <2>2. row' = [s \in Rooms |-> IF s = r THEN tags ELSE row[s]] /\ up /\ busy = Idle /\ files' = files
    BY <1>6 DEF StoreRow, Called
  <2>3. CASE NeedsFile(r)
    <3>1. busy' = r /\ old' = row[r] /\ said' = said BY <1>6, <2>3 DEF StoreRow
    <3>2. row[r] \in {Absent, Empty}
      BY <2>2, <2>3 DEF NeedsFile, RoomsServed, GetRooms, Readable
    <3>3. \A s \in Rooms : Shown(s)' = Shown(s) BY <2>2, <3>1, <3>2 DEF Shown
    <3> QED BY <2>2, <3>1, <3>3, SameSeen
  <2>4. CASE ~NeedsFile(r)
    <3>1. busy' = busy /\ old' = old /\ said' = Store!Plain("stored")
      BY <1>6, <2>4 DEF StoreRow, Return, Store!Plain
    <3>2. Shown(r)' = tags /\ \A s \in Rooms \ {r} : Shown(s)' = Shown(s)
      BY <2>1, <2>2, <3>1 DEF Shown
    <3>3. View' = [View EXCEPT ![r] = tags] BY <3>2, Seen
    <3> QED BY <2>1, <2>2, <3>1, <3>3 DEF Store!Next, Store!Store, Store!Becomes, Store!TagMaps, TagMaps, View
  <2> QED BY <2>3, <2>4
<1>7. ASSUME NEW r \in Rooms, DeleteRoom(r) PROVE [Store!Next]_(<<View, files, said>>)
  <2>1. busy = Idle /\ busy' = busy /\ old' = old /\ files' = files BY <1>7 DEF DeleteRoom, Called
  <2>2. row' = [s \in Rooms |-> IF s = r THEN row'[r] ELSE row[s]] /\ row'[r] \in {Absent, Empty}
    BY <1>7 DEF DeleteRoom
  <2>3. Shown(r)' = Absent /\ \A s \in Rooms \ {r} : Shown(s)' = Shown(s) BY <2>1, <2>2 DEF Shown
  <2>4. View' = [View EXCEPT ![r] = Absent] BY <2>3, Seen
  <2>5. CASE row[r] # Absent
    <3>1. said' = Store!Plain("deleted") BY <1>7, <2>5 DEF DeleteRoom, Return, Store!Plain
    <3> QED BY <2>1, <2>4, <3>1 DEF Store!Next, Store!Delete, Store!Becomes, View
  <2>6. CASE row[r] = Absent
    <3>1. said' = Store!Plain("error") BY <1>7, <2>6 DEF DeleteRoom, Return, Store!Plain
    <3>2. Shown(r) = Absent BY <2>1, <2>6 DEF Shown
    <3>3. View' = View BY <2>3, <3>2, SameSeen
    <3> QED BY <2>1, <3>1, <3>3 DEF Store!Next, Store!Refuse, View
  <2> QED BY <2>5, <2>6
<1>8. ASSUME NEW r \in Rooms, NEW us \in Seq(UpdateType), UpdateRoomTags(r, us)
      PROVE  [Store!Next]_(<<View, files, said>>)
  <2> DEFINE tags == UpdateTags(row[r], us)
  <2>1. row[r] \in TagMaps BY <1>8 DEF UpdateRoomTags, Readable
  <2>2. tags \in TagMaps /\ Done(us) \subseteq Tags /\ \A t \in Tags \ Done(us) : tags[t] = row[r][t]
    BY <1>8, <2>1, UpdateTagsTyped DEF UpdateRoomTags
  <2>3. /\ busy = Idle /\ busy' = busy /\ old' = old /\ files' = files
        /\ row' = [s \in Rooms |-> IF s = r THEN tags ELSE row[s]]
        /\ said' = [is |-> "updated", done |-> Done(us)]
    BY <1>8 DEF UpdateRoomTags, Called
  <2> HIDE DEF tags
  <2>4. Shown(r) = row[r] /\ Shown(r)' = tags /\ \A s \in Rooms \ {r} : Shown(s)' = Shown(s)
    BY <2>1, <2>2, <2>3 DEF Shown
  <2>5. View' = [View EXCEPT ![r] = tags] /\ View[r] = row[r] BY <2>4, Seen DEF View
  <2>6. View[r] # Absent BY <2>1, <2>5
  <2>7. said'.is = "updated" /\ said'.done = Done(us) BY <2>3
  <2>8. Store!Update(r)
    <3>1. \A t \in Tags \ said'.done : tags[t] = View[r][t] BY <2>2, <2>5, <2>7
    <3>2. Store!Becomes(r, tags) BY <2>3, <2>5 DEF Store!Becomes, View
    <3>3. tags \in Store!TagMaps BY <2>2 DEF Store!TagMaps, TagMaps
    <3> QED BY <2>2, <2>6, <2>7, <3>1, <3>2, <3>3 DEF Store!Update, View
  <2> QED BY <2>8 DEF Store!Next
<1>9. ASSUME NEW r \in Rooms, NEW batch \in SUBSET Events, StoreEvents(r, batch)
      PROVE  [Store!Next]_(<<View, files, said>>)
  <2>1. View' = View BY <1>9, SameSeen DEF StoreEvents, Shown
  <2>2. said' = Store!Plain("kept") /\ files' = [files EXCEPT ![r] = @ \cup batch]
    BY <1>9 DEF StoreEvents, Return, Store!Plain
  <2> QED BY <2>1, <2>2 DEF Store!Next, Store!StoreEvents, View
<1>10. CASE UNCHANGED vars
  <2>1. View' = View BY <1>10, SameSeen DEF vars, Shown
  <2> QED BY <1>10, <2>1 DEF vars
<1>11. ASSUME NEW u \in Updates, NEW v \in Updates
       PROVE  <<u>> \in Seq(UpdateType) /\ <<u, v>> \in Seq(UpdateType)
  BY UpdatesTyped
<1> QED BY <1>1, <1>2, <1>3, <1>4, <1>5, <1>6, <1>7, <1>8, <1>9, <1>10, <1>11 DEF Next

\* What callers see of buntdb's two transactions and its files is a store in which each call
\* has happened as a whole or not at all, killed or refused ones included.
THEOREM BuntIsRoomStore == Spec => IsRoomStore
<1>1. Init => Store!Init
  BY DEF Init, Store!Init, Store!Plain, Shown
<1>2. RInv /\ [Next]_vars => [Store!Next]_(Store!vars)
  BY StepRefines DEF Store!vars, View
<1> QED BY <1>1, <1>2, RInvInit, RInvStep, PTL DEF Spec, Store!Spec, IsRoomStore
=============================================================================
