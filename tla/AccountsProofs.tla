--------------------------- MODULE AccountsProofs ---------------------------
(***************************************************************************)
(* Proofs about Accounts: its types, that no event is refused by a healthy  *)
(* storage without one of the reasons of LossExplained, that updates are     *)
(* kept and that a new room has no events.  The                              *)
(* inductive invariant follows an event backwards: a queued event's author   *)
(* and room are known, since those of its session were, since the session    *)
(* was looked up or stored and its room has a hub.                           *)
(***************************************************************************)
EXTENDS Accounts, TLAPS, SequenceTheorems

\* Rows are only lost to the commands, which note what they remove.
RowsStay == /\ \A u \in Ids : Row(u) => Row(u)' \/ u \in removed'
            /\ \A r \in Rooms : HasRoom(r) => HasRoom(r)' \/ r \in removed'
            /\ removed \subseteq removed' /\ adrift \subseteq adrift'

\* What is known of the sessions, of what is queued and of what was refused.
Followed == SessionsKnown /\ QueueKnown /\ failed \subseteq DOMAIN log /\ LossExplained

\* Who is known stays known.
LEMMA KnownStays ==
  ASSUME RowsStay, NEW u \in Ids, Known(u) PROVE Known(u)'
  BY DEF RowsStay, Known

\* Nothing is stored and nobody is there at the start.
LEMMA InitOK == Init => IInv
<1> SUFFICES ASSUME Init PROVE IInv
  OBVIOUS
<1>1. TypeOK
  BY LimitsAreNat DEF Init, TypeOK, Off
<1>2. HubsKnown /\ SessionsKnown
  BY DEF Init, HubsKnown, SessionsKnown, HasRoom, Off
<1>3. QueueKnown
  BY DEF Init, QueueKnown
<1>4. failed \subseteq DOMAIN log /\ LossExplained
  BY DEF Init, LossExplained
<1> QED
  BY <1>1, <1>2, <1>3, <1>4 DEF IInv

-----------------------------------------------------------------------------
\* What the tables hold after a change.
LEMMA WithUserTyped ==
  ASSUME TypeOK, NEW u \in Ids, NEW n \in Ids
  PROVE  WithUser(u, n) \in [Ids -> UserRows \cup {NoRow}]
<1>1. [nick |-> n, tags |-> {}] \in UserRows
  BY DEF UserRows
<1> QED
  BY <1>1 DEF TypeOK, WithUser

\* What foreign keys leave of the tables is within its type.
LEMMA CascadeTyped ==
  ASSUME TypeOK, NEW S
  PROVE  /\ Cascade(S) \in [Rooms -> SUBSET Events]
         /\ RoomsWithout(S) \in [Rooms -> Ids \cup {Nobody, NoRow}]
  BY DEF TypeOK, Cascade, RoomsWithout

-----------------------------------------------------------------------------
\* Types, one lemma for each group of actions.
LEMMA StartTyped ==
  ASSUME TypeOK, Open \/ List \/ FindAdmin \/ StoreAdmin \/ StoreDefault \/ Stop PROVE TypeOK'
<1> USE LimitsAreNat, AdminIsAccount DEF tables, process, traffic
<1>1. CASE Open
  BY <1>1 DEF TypeOK, Open, HasRoom
<1>2. CASE List
  BY <1>2 DEF TypeOK, List, ListedRooms
<1>3. CASE FindAdmin
  BY <1>3 DEF TypeOK, FindAdmin
<1>4. CASE StoreAdmin
  <2>1. WithUser(Admin, Admin) \in [Ids -> UserRows \cup {NoRow}]
    BY WithUserTyped DEF Ids
  <2>2. users' = WithUser(Admin, Admin) \/ users' = users
    BY <1>4 DEF StoreAdmin
  <2> QED
    BY <1>4, <2>1, <2>2 DEF TypeOK, StoreAdmin
<1>5. CASE StoreDefault
  BY <1>5 DEF TypeOK, StoreDefault, OpenedFor, Ids
<1>6. CASE Stop
  BY <1>6 DEF TypeOK, Stop
<1> QED
  BY <1>1, <1>2, <1>3, <1>4, <1>5, <1>6

\* Who gets another user is on a connection, or about to store that user.
LEMMA BecomesTyped ==
  ASSUME TypeOK, NEW c \in Conns, NEW r \in Rooms, NEW u \in Ids, NEW f \in BOOLEAN,
         Becomes(c, r, u, f)
  PROVE  sess' \in [Conns -> Sessions \cup {Off}]
<1>1. sess[c].user \in Ids \cup {Nobody}
  BY DEF TypeOK, Off, Sessions
<1> QED
  BY <1>1 DEF TypeOK, Becomes, Sessions

\* A session that is on is a record of the type.
LEMMA OnTyped ==
  ASSUME TypeOK, NEW c \in Conns, sess[c] # Off
  PROVE  sess[c] \in Sessions
  BY DEF TypeOK

\* What connections do leaves everything within its type.
LEMMA SessionTyped ==
  ASSUME TypeOK, NEW c \in Conns,
         \/ Connect(c) \/ ConnectNameless(c) \/ Login(c) \/ StoreNew(c)
         \/ Logout(c) \/ Leave(c) \/ PublishMore(c)
  PROVE  TypeOK'
<1> USE DEF tables, process
<1>1. CASE Connect(c)
  <2>1. PICK r \in hubs : \E u \in IF r \in OpenRooms THEN Ids ELSE Accounts : Becomes(c, r, u, FALSE)
    BY <1>1 DEF Connect
  <2>2. PICK u \in Ids : Becomes(c, r, u, FALSE)
    BY <2>1 DEF Ids
  <2> QED
    BY <1>1, <2>2, BecomesTyped DEF TypeOK, Connect
<1>2. CASE ConnectNameless(c)
  BY <1>2, ZenonT(60) DEF TypeOK, ConnectNameless, Off, Sessions
<1>3. CASE Login(c)
  <2>1. sess[c].room \in Rooms
    BY <1>3, OnTyped DEF Login, Idle, Sessions
  <2>2. PICK u \in Ids : Becomes(c, sess[c].room, u, TRUE)
    BY <1>3 DEF Login, Ids
  <2> QED
    BY <1>3, <2>1, <2>2, BecomesTyped DEF TypeOK, Login
<1>4. CASE StoreNew(c)
  <2>1. sess[c] # Off /\ sess[c].want \in Ids
    BY <1>4, OnTyped DEF StoreNew, Off, Sessions
  <2>2. sess[c] \in Sessions
    BY <2>1, OnTyped
  <2>3. users' \in [Ids -> UserRows \cup {NoRow}]
    BY <1>4, <2>1, WithUserTyped DEF TypeOK, StoreNew
  <2>4. sess' \in [Conns -> Sessions \cup {Off}]
    <3>1. CASE MayStoreUser(sess[c].want, sess[c].want)
      <4> DEFINE new == [sess[c] EXCEPT !.user = sess[c].want, !.want = Nobody]
      <4>1. new \in Sessions
        BY <2>1, <2>2 DEF Sessions
      <4>2. sess' = [sess EXCEPT ![c] = new]
        BY <1>4, <3>1 DEF StoreNew, TypeOK
      <4> QED
        BY <4>1, <4>2 DEF TypeOK
    <3>2. CASE ~MayStoreUser(sess[c].want, sess[c].want)
      BY <1>4, <3>2 DEF TypeOK, StoreNew
    <3> QED
      BY <3>1, <3>2
  <2> QED
    BY <1>4, <2>3, <2>4 DEF TypeOK, StoreNew
<1>5. CASE Logout(c)
  <2>1. sess[c] \in Sessions
    BY <1>5, OnTyped DEF Logout, Idle
  <2>2. PICK g \in Guests \cup {Nobody} : /\ sess' = [sess EXCEPT ![c].user = g, ![c].frame = g # Nobody]
                                          /\ adrift' = adrift \cup ({g} \ {Nobody})
    BY <1>5 DEF Logout
  <2>3. sess' \in [Conns -> Sessions \cup {Off}]
    <3> DEFINE new == [sess[c] EXCEPT !.user = g, !.frame = g # Nobody]
    <3>1. new \in Sessions
      BY <2>1, <2>2 DEF Sessions, Ids
    <3>2. sess' = [sess EXCEPT ![c] = new]
      BY <2>2 DEF TypeOK
    <3> QED
      BY <3>1, <3>2 DEF TypeOK
  <2>4. adrift' \subseteq Guests
    BY <2>2 DEF TypeOK
  <2> QED
    BY <1>5, <2>3, <2>4 DEF TypeOK, Logout
<1>6. CASE Leave(c)
  BY <1>6 DEF TypeOK, Leave
<1>7. CASE PublishMore(c)
  <2>1. sess[c] \in Sessions
    BY <1>7, OnTyped DEF PublishMore, Off
  <2>2. [sess[c] EXCEPT !.frame = FALSE] \in Sessions
    BY <2>1 DEF Sessions
  <2> QED
    BY <1>7, <2>2 DEF TypeOK, PublishMore
<1> QED
  BY <1>1, <1>2, <1>3, <1>4, <1>5, <1>6, <1>7

\* An event that is published is the next of the log, and a queued one.
LEMMA PublishTyped ==
  ASSUME TypeOK, NEW c \in Conns, Publish(c)
  PROVE  /\ TypeOK'
         /\ Len(log') = Len(log) + 1 /\ Len(log') \in Events
         /\ \A e \in DOMAIN log : e \in DOMAIN log' /\ log'[e] = log[e]
         /\ log'[Len(log')] = [room |-> sess[c].room, author |-> sess[c].user]
         /\ sess[c].room \in Rooms /\ sess[c].user \in Ids
<1> DEFINE entry == [room |-> sess[c].room, author |-> sess[c].user]
<1>0. sess[c] \in Sessions
  BY OnTyped DEF Publish, Off
<1>1. sess[c].room \in Rooms /\ sess[c].user \in Ids
  BY <1>0 DEF Publish, Sessions
<1>2. log \in Seq([room : Rooms, author : Ids]) /\ Len(log) < MaxEvents /\ log' = Append(log, entry)
  BY DEF Publish, TypeOK
<1>3. entry \in [room : Rooms, author : Ids]
  BY <1>1
<1> HIDE DEF entry
<1>4. /\ log' \in Seq([room : Rooms, author : Ids]) /\ Len(log') = Len(log) + 1
      /\ \A e \in DOMAIN log : e \in DOMAIN log' /\ log'[e] = log[e]
      /\ log'[Len(log')] = entry
  BY <1>2, <1>3
<1>5. Len(log) \in Nat /\ MaxEvents \in Nat
  BY <1>2, LimitsAreNat
<1>6. Len(log') \in Events /\ Len(log') <= MaxEvents
  BY <1>2, <1>4, <1>5 DEF Events
<1>7. hq' \in [Rooms -> Seq(Events)]
  BY <1>1, <1>6 DEF TypeOK, Publish
<1>8. sess' \in [Conns -> Sessions \cup {Off}]
  <2>1. [sess[c] EXCEPT !.frame = FALSE] \in Sessions
    BY <1>0 DEF Sessions
  <2> QED
    BY <2>1 DEF TypeOK, Publish
<1>9. TypeOK'
  BY <1>4, <1>6, <1>7, <1>8 DEF TypeOK, Publish, tables, process
<1> QED
  BY <1>1, <1>4, <1>6, <1>9 DEF entry

\* A hub takes the first event from its queue and stores or refuses it.
LEMMA HubStoreTyped ==
  ASSUME TypeOK, NEW r \in Rooms, HubStore(r)
  PROVE  TypeOK' /\ Head(hq[r]) \in Events
<1>1. hq[r] \in Seq(Events) /\ hq[r] # <<>>
  BY DEF TypeOK, HubStore
<1>2. Head(hq[r]) \in Events /\ Tail(hq[r]) \in Seq(Events)
  BY <1>1
<1>3. hq' \in [Rooms -> Seq(Events)]
  BY <1>2 DEF TypeOK, HubStore
<1>4. stored' \in [Rooms -> SUBSET Events] /\ failed' \subseteq Events
  <2>1. \/ stored' = [stored EXCEPT ![r] = @ \cup {Head(hq[r])}] /\ failed' = failed
        \/ stored' = stored /\ failed' = failed \cup {Head(hq[r])}
    BY DEF HubStore
  <2> QED
    BY <1>2, <2>1, ZenonT(60) DEF TypeOK
<1> QED
  BY <1>2, <1>3, <1>4 DEF TypeOK, HubStore, process

\* A tag update adds to a row, and to what was reported.
LEMMA TagsTyped ==
  ASSUME TypeOK, NEW u \in Ids, ChangeUserTags(u) PROVE TypeOK'
<1>1. updates' \in 1 .. MaxUpdates
  BY LimitsAreNat DEF TypeOK, ChangeUserTags
<1>2. users[u] \in UserRows
  BY DEF TypeOK, ChangeUserTags, Row
<1>3. [users[u] EXCEPT !.tags = @ \cup {updates'}] \in UserRows
  BY <1>1, <1>2 DEF UserRows, Updates
<1>4. users' \in [Ids -> UserRows \cup {NoRow}]
  BY <1>3 DEF TypeOK, ChangeUserTags
<1>5. acked' \in [Ids -> SUBSET Updates]
  BY <1>1 DEF TypeOK, ChangeUserTags, Updates
<1> QED
  BY <1>1, <1>4, <1>5 DEF TypeOK, ChangeUserTags, process, traffic

\* A command touches the tables only.
LEMMA CommandFrame ==
  ASSUME TypeOK, Command
  PROVE  /\ commands' \in 0 .. MaxCommands
         /\ UNCHANGED <<backend, main, dbs, hubs, starts, sess, log, hq, failed, updates, adrift>>
  BY LimitsAreNat DEF TypeOK, Command, process, traffic

\* Each command leaves the tables within their types.
LEMMA CommandTyped ==
  ASSUME TypeOK,
         \/ \E u, n \in Accounts : SetUser(u, n)
         \/ \E u \in Ids : DeleteUser(u)
         \/ \E r \in Rooms, o \in Accounts \cup {Nobody} : SetRoom(r, o)
         \/ \E r \in Rooms : DeleteRoom(r)
  PROVE  TypeOK'
<1>1. /\ commands' \in 0 .. MaxCommands
      /\ UNCHANGED <<backend, main, dbs, hubs, starts, sess, log, hq, failed, updates, adrift>>
  BY CommandFrame DEF SetUser, DeleteUser, SetRoom, DeleteRoom
<1>2. ASSUME NEW u \in Accounts, NEW n \in Accounts, SetUser(u, n) PROVE TypeOK'
  <2>1. u \in Ids /\ WithUser(u, n) \in [Ids -> UserRows \cup {NoRow}]
    BY WithUserTyped DEF Ids
  <2>2. users' \in [Ids -> UserRows \cup {NoRow}] /\ acked' \in [Ids -> SUBSET Updates]
    BY <1>2, <2>1 DEF TypeOK, SetUser
  <2> QED
    BY <1>1, <1>2, <2>2 DEF TypeOK, SetUser
<1>3. ASSUME NEW u \in Ids, DeleteUser(u) PROVE TypeOK'
  <2>1. /\ users' \in [Ids -> UserRows \cup {NoRow}] /\ acked' \in [Ids -> SUBSET Updates]
        /\ removed' \subseteq Ids \cup Rooms
    BY <1>3 DEF TypeOK, DeleteUser, OwnedBy, tables
  <2>2. rooms' \in [Rooms -> Ids \cup {Nobody, NoRow}] /\ stored' \in [Rooms -> SUBSET Events]
    BY <1>3, CascadeTyped DEF TypeOK, DeleteUser, tables
  <2> QED
    BY <1>1, <2>1, <2>2 DEF TypeOK
<1>4. ASSUME NEW r \in Rooms, NEW o \in Accounts \cup {Nobody}, SetRoom(r, o) PROVE TypeOK'
  <2>1. rooms' \in [Rooms -> Ids \cup {Nobody, NoRow}]
    BY <1>4 DEF TypeOK, SetRoom, Ids
  <2> QED
    BY <1>1, <1>4, <2>1 DEF TypeOK, SetRoom
<1>5. ASSUME NEW r \in Rooms, DeleteRoom(r) PROVE TypeOK'
  <2>1. rooms' \in [Rooms -> Ids \cup {Nobody, NoRow}] /\ stored' \in [Rooms -> SUBSET Events]
    BY <1>5, CascadeTyped DEF TypeOK, DeleteRoom
  <2> QED
    BY <1>1, <1>5, <2>1 DEF TypeOK, DeleteRoom
<1> QED
  BY <1>2, <1>3, <1>4, <1>5

\* Every step keeps the types.
LEMMA NextTyped == TypeOK /\ [Next]_vars => TypeOK'
<1> SUFFICES ASSUME TypeOK, [Next]_vars PROVE TypeOK'
  OBVIOUS
<1>1. CASE UNCHANGED vars
  BY <1>1 DEF TypeOK, vars, tables, process, traffic
<1>2. CASE Next
  BY <1>2, StartTyped, SessionTyped, PublishTyped, HubStoreTyped, TagsTyped, CommandTyped DEF Next
<1> QED
  BY <1>1, <1>2

-----------------------------------------------------------------------------
\* An event of the log has a room and an author.
LEMMA EntryTyped ==
  ASSUME TypeOK, NEW e \in DOMAIN log PROVE log[e] \in [room : Rooms, author : Ids]
<1>1. log \in Seq([room : Rooms, author : Ids])
  BY DEF TypeOK
<1>2. DOMAIN log = 1 .. Len(log)
  BY <1>1, LenProperties
<1> QED
  BY <1>1, <1>2, ElementOfSeq

\* What is queued and what was refused, while rows and hubs stay.
LEMMA QueueSteady ==
  ASSUME TypeOK, Followed, RowsStay, hubs \subseteq hubs', UNCHANGED <<log, hq, failed>>
  PROVE  QueueKnown' /\ failed' \subseteq DOMAIN log' /\ LossExplained'
<1>1. QueueKnown'
  <2> SUFFICES ASSUME NEW r \in Rooms, NEW i \in DOMAIN hq[r]
               PROVE  /\ r \in hubs' /\ hq[r][i] \in DOMAIN log /\ log[hq[r][i]].room = r
                      /\ Known(log[hq[r][i]].author)'
    BY DEF QueueKnown
  <2>1. /\ r \in hubs /\ hq[r][i] \in DOMAIN log /\ log[hq[r][i]].room = r
        /\ Known(log[hq[r][i]].author)
    BY DEF Followed, QueueKnown
  <2>2. log[hq[r][i]].author \in Ids
    BY <2>1, EntryTyped
  <2>3. Known(log[hq[r][i]].author)'
    BY <2>1, <2>2, KnownStays DEF RowsStay, Known, Row
  <2> QED
    BY <2>1, <2>3
<1>2. failed' \subseteq DOMAIN log' /\ LossExplained'
  BY DEF Followed, LossExplained, RowsStay
<1> QED
  BY <1>1, <1>2

\* Likewise the sessions, of which that of c may change.
LEMMA SessionsSteady ==
  ASSUME TypeOK, Followed, RowsStay, hubs \subseteq hubs', NEW c \in Conns,
         \A d \in Conns \ {c} : sess'[d] = sess[d],
         sess'[c] # Off =>
           /\ sess'[c].room \in hubs'
           /\ sess'[c].user # Nobody => \/ users'[sess'[c].user] # NoRow
                                       \/ sess'[c].user \in removed' \cup adrift'
  PROVE  SessionsKnown'
<1> SUFFICES ASSUME NEW d \in Conns, sess'[d] # Off
             PROVE  sess'[d].room \in hubs' /\ (sess'[d].user # Nobody => Known(sess[d].user)')
  BY DEF SessionsKnown, Off
<1>1. CASE d = c
  BY <1>1 DEF Known, Row
<1>2. CASE d # c
  <2>1. sess'[d] = sess[d] /\ sess[d] # Off
    BY <1>2
  <2>2. /\ sess[d].room \in hubs /\ sess[d].user \in Ids \cup {Nobody}
        /\ sess[d].user # Nobody => Known(sess[d].user)
    BY <2>1, OnTyped DEF Followed, SessionsKnown, Sessions
  <2> QED
    BY <2>1, <2>2 DEF RowsStay, Known, Row
<1> QED
  BY <1>1, <1>2

\* A step that neither loses rows nor hubs and touches no traffic.
LEMMA TrafficSteady ==
  ASSUME TypeOK, Followed, RowsStay, hubs \subseteq hubs', UNCHANGED <<sess, log, hq, failed>>
  PROVE  Followed'
<1>1. SessionsKnown'
  <2> SUFFICES ASSUME NEW c \in Conns, sess[c] # Off
               PROVE  sess[c].room \in hubs' /\ (sess[c].user # Nobody => Known(sess[c].user)')
    BY DEF SessionsKnown, Off
  <2>1. /\ sess[c].room \in hubs /\ sess[c].user \in Ids \cup {Nobody}
        /\ sess[c].user # Nobody => Known(sess[c].user)
    BY OnTyped DEF Followed, SessionsKnown, Sessions
  <2> QED
    BY <2>1 DEF RowsStay, Known, Row
<1> QED
  BY <1>1, QueueSteady DEF Followed

\* A start begins a hub for rooms with a row only, and an end leaves nobody behind.
LEMMA StartKnown ==
  ASSUME IInv, Open \/ List \/ FindAdmin \/ StoreAdmin \/ StoreDefault \/ Stop
  PROVE  HubsKnown' /\ Followed'
<1> USE DEF tables, process, traffic
<1>1. TypeOK /\ Followed /\ HubsKnown
  BY DEF IInv, Followed
<1>2. CASE Open
  <2>1. HubsKnown'
    BY <1>1, <1>2 DEF Open, HubsKnown, HasRoom
  <2>2. RowsStay
    BY <1>2 DEF Open, RowsStay, Row, HasRoom
  <2> QED
    BY <1>1, <1>2, <2>1, <2>2, TrafficSteady DEF Open
<1>3. CASE List
  <2>1. HubsKnown'
    BY <1>1, <1>3 DEF List, ListedRooms, HubsKnown, HasRoom
  <2>2. RowsStay /\ hubs \subseteq hubs'
    BY <1>1, <1>3 DEF List, RowsStay, Row, HasRoom, HubsKnown
  <2> QED
    BY <1>1, <1>3, <2>1, <2>2, TrafficSteady DEF List
<1>4. CASE FindAdmin
  <2>1. HubsKnown'
    BY <1>1, <1>4 DEF FindAdmin, HubsKnown, HasRoom
  <2>2. RowsStay
    BY <1>4 DEF FindAdmin, RowsStay, Row, HasRoom
  <2> QED
    BY <1>1, <1>4, <2>1, <2>2, TrafficSteady DEF FindAdmin
<1>5. CASE StoreAdmin
  <2>1. HubsKnown'
    BY <1>1, <1>5 DEF StoreAdmin, HubsKnown, HasRoom
  <2>2. RowsStay
    BY <1>1, <1>5, NoRowIsNone, AdminIsAccount DEF StoreAdmin, RowsStay, Row, HasRoom, WithUser, TypeOK, Ids
  <2> QED
    BY <1>1, <1>5, <2>1, <2>2, TrafficSteady DEF StoreAdmin
<1>6. CASE StoreDefault
  <2>1. Admin # NoRow
    BY IdsDiffer, AdminIsAccount DEF Ids
  <2>2. HubsKnown'
    BY <1>1, <1>6, <2>1, AdminIsAccount DEF StoreDefault, HubsKnown, HasRoom, OpenedFor, TypeOK
  <2>3. RowsStay /\ hubs \subseteq hubs'
    BY <1>1, <1>6, <2>1, AdminIsAccount DEF StoreDefault, RowsStay, Row, HasRoom, HubsKnown, TypeOK
  <2> QED
    BY <1>1, <1>6, <2>2, <2>3, TrafficSteady DEF StoreDefault
<1>7. CASE Stop
  <2>1. HubsKnown'
    BY <1>7 DEF Stop, HubsKnown
  <2>2. SessionsKnown' /\ QueueKnown'
    BY <1>7 DEF Stop, SessionsKnown, QueueKnown
  <2>3. failed' \subseteq DOMAIN log' /\ LossExplained'
    BY <1>1, <1>7 DEF Stop, Followed, LossExplained
  <2> QED
    BY <2>1, <2>2, <2>3 DEF Followed
<1> QED
  BY <1>2, <1>3, <1>4, <1>5, <1>6, <1>7
-----------------------------------------------------------------------------
\* HubsKnown depends on the process, the rooms and what commands removed.
LEMMA HubsSteady ==
  ASSUME HubsKnown, UNCHANGED <<backend, main, dbs, hubs, rooms>>, removed \subseteq removed'
  PROVE  HubsKnown'
  BY DEF HubsKnown, HasRoom

\* Whoever a connection becomes has a row, or the session keeps who it was.
LEMMA BecomesKnown ==
  ASSUME TypeOK, Followed, RowsStay, hubs \subseteq hubs', NEW c \in Conns, NEW r \in hubs, NEW u \in Ids,
         NEW f \in BOOLEAN, Becomes(c, r, u, f), UNCHANGED users
  PROVE  SessionsKnown'
<1>1. sess'[c] = [room |-> r, user |-> IF Row(u) THEN u ELSE sess[c].user,
                  want |-> IF Row(u) THEN Nobody ELSE u, frame |-> f]
  BY DEF Becomes, TypeOK
<1>2. \A d \in Conns \ {c} : sess'[d] = sess[d]
  BY DEF Becomes, TypeOK
<1>3. CASE Row(u)
  <2>1. sess'[c].room \in hubs' /\ users'[sess'[c].user] # NoRow
    BY <1>1, <1>3 DEF Row
  <2> QED
    BY <1>2, <2>1, SessionsSteady
<1>4. CASE ~Row(u)
  <2>1. sess'[c].room \in hubs' /\ sess'[c].user = sess[c].user
    BY <1>1, <1>4
  <2>2. sess[c].user # Nobody => sess[c].user \in Ids /\ Known(sess[c].user)
    BY OnTyped DEF Off, Followed, SessionsKnown, Sessions
  <2>3. sess[c].user # Nobody => \/ users'[sess[c].user] # NoRow
                                \/ sess[c].user \in removed' \cup adrift'
    BY <2>2 DEF Known, Row, RowsStay
  <2> QED
    BY <1>2, <2>1, <2>3, SessionsSteady
<1> QED
  BY <1>3, <1>4

\* A session whose frame has been handled is who it was.
LEMMA FrameEnds ==
  ASSUME TypeOK, Followed, RowsStay, hubs \subseteq hubs', NEW c \in Conns, sess[c] # Off,
         sess' = [sess EXCEPT ![c].frame = FALSE]
  PROVE  SessionsKnown'
<1>1. /\ sess[c].room \in hubs /\ sess[c].user \in Ids \cup {Nobody}
      /\ sess[c].user # Nobody => Known(sess[c].user)
  BY OnTyped DEF Followed, SessionsKnown, Sessions
<1>2. \A d \in Conns \ {c} : sess'[d] = sess[d]
  BY DEF TypeOK
<1>3. sess'[c] = [sess[c] EXCEPT !.frame = FALSE] /\ sess[c] \in Sessions
  BY OnTyped DEF TypeOK
<1>4. sess'[c].room = sess[c].room /\ sess'[c].user = sess[c].user
  BY <1>3 DEF Sessions
<1>5. sess[c].user # Nobody => \/ users'[sess[c].user] # NoRow
                              \/ sess[c].user \in removed' \cup adrift'
  BY <1>1 DEF Known, Row, RowsStay
<1> QED
  BY <1>1, <1>2, <1>4, <1>5, SessionsSteady

\* Who comes to a connection has a row, or gets it first, or was made up by a logout.
LEMMA SessionKnown ==
  ASSUME IInv, NEW c \in Conns,
         \/ Connect(c) \/ ConnectNameless(c) \/ Login(c) \/ StoreNew(c)
         \/ Logout(c) \/ Leave(c) \/ PublishMore(c)
  PROVE  HubsKnown' /\ Followed'
<1> USE DEF tables, process
<1>1. TypeOK /\ Followed /\ HubsKnown
  BY DEF IInv, Followed
<1>2. UNCHANGED <<backend, main, dbs, hubs, rooms, removed, log, hq, failed>>
  BY DEF Connect, ConnectNameless, Login, StoreNew, Logout, Leave, PublishMore
<1>3. RowsStay
  <2>1. CASE StoreNew(c) /\ MayStoreUser(sess[c].want, sess[c].want)
    <3>1. sess[c].want \in Ids
      BY <1>1, <2>1, OnTyped DEF StoreNew, Off, Sessions
    <3>2. users' = WithUser(sess[c].want, sess[c].want) /\ UNCHANGED <<rooms, removed, adrift>>
      BY <2>1 DEF StoreNew
    <3> QED
      BY <1>1, <3>1, <3>2, NoRowIsNone DEF RowsStay, Row, HasRoom, WithUser, TypeOK
  <2>2. CASE ~(StoreNew(c) /\ MayStoreUser(sess[c].want, sess[c].want))
    <3>1. UNCHANGED <<users, rooms, removed>> /\ adrift \subseteq adrift'
      BY <2>2 DEF Connect, ConnectNameless, Login, StoreNew, Logout, Leave, PublishMore
    <3> QED
      BY <3>1 DEF RowsStay, Row, HasRoom
  <2> QED
    BY <2>1, <2>2
<1>4. SessionsKnown'
  <2>1. CASE Connect(c)
    <3>1. PICK r \in hubs, u \in Ids : Becomes(c, r, u, FALSE)
      BY <2>1 DEF Connect, Ids
    <3> QED
      BY <1>1, <1>2, <1>3, <2>1, <3>1, BecomesKnown DEF Connect
  <2>2. CASE ConnectNameless(c)
    <3>1. PICK r \in hubs : sess' = [sess EXCEPT ![c] = [Off EXCEPT !.room = r]]
      BY <2>2 DEF ConnectNameless
    <3>2. sess'[c].room \in hubs' /\ sess'[c].user = Nobody /\ \A d \in Conns \ {c} : sess'[d] = sess[d]
      BY <1>1, <1>2, <3>1 DEF TypeOK, Off
    <3> QED
      BY <1>1, <1>2, <1>3, <3>2, SessionsSteady
  <2>3. CASE Login(c)
    <3>1. sess[c].room \in hubs
      BY <1>1, <2>3 DEF Login, Idle, Followed, SessionsKnown
    <3>2. PICK u \in Ids : Becomes(c, sess[c].room, u, TRUE)
      BY <2>3 DEF Login, Ids
    <3> QED
      BY <1>1, <1>2, <1>3, <2>3, <3>1, <3>2, BecomesKnown DEF Login
  <2>4. CASE StoreNew(c)
    <3>1. sess[c] # Off /\ sess[c].want \in Ids
      BY <1>1, <2>4, OnTyped DEF StoreNew, Off, Sessions
    <3>2. sess[c].room \in hubs
      BY <1>1, <3>1 DEF Followed, SessionsKnown
    <3>3. \A d \in Conns \ {c} : sess'[d] = sess[d]
      BY <1>1, <2>4 DEF StoreNew, TypeOK
    <3>4. CASE MayStoreUser(sess[c].want, sess[c].want)
      <4>1. sess'[c] = [sess[c] EXCEPT !.user = sess[c].want, !.want = Nobody]
        BY <1>1, <2>4, <3>4 DEF StoreNew, TypeOK
      <4>2. sess'[c].room = sess[c].room /\ sess'[c].user = sess[c].want
        BY <1>1, <3>1, <4>1, OnTyped DEF Sessions
      <4>3. users'[sess[c].want] # NoRow
        BY <1>1, <2>4, <3>1, <3>4, NoRowIsNone DEF StoreNew, WithUser, TypeOK
      <4> QED
        BY <1>1, <1>2, <1>3, <3>2, <3>3, <4>2, <4>3, SessionsSteady
    <3>5. CASE ~MayStoreUser(sess[c].want, sess[c].want)
      <4>1. sess'[c] = Off
        BY <1>1, <2>4, <3>5 DEF StoreNew, TypeOK
      <4> QED
        BY <1>1, <1>2, <1>3, <3>3, <4>1, SessionsSteady
    <3> QED
      BY <3>4, <3>5
  <2>5. CASE Logout(c)
    <3>1. sess[c] # Off /\ sess[c].room \in hubs
      BY <1>1, <2>5 DEF Logout, Idle, Followed, SessionsKnown
    <3>2. PICK g \in Guests \cup {Nobody} : /\ sess' = [sess EXCEPT ![c].user = g, ![c].frame = g # Nobody]
                                            /\ adrift' = adrift \cup ({g} \ {Nobody})
      BY <2>5 DEF Logout
    <3>3. sess'[c] = [sess[c] EXCEPT !.user = g, !.frame = g # Nobody] /\ \A d \in Conns \ {c} : sess'[d] = sess[d]
      BY <1>1, <3>2 DEF TypeOK
    <3>4. sess'[c].room = sess[c].room /\ sess'[c].user = g
      BY <1>1, <3>1, <3>3, OnTyped DEF Sessions
    <3>5. g # Nobody => g \in adrift'
      BY <3>2
    <3> QED
      BY <1>1, <1>2, <1>3, <3>1, <3>3, <3>4, <3>5, SessionsSteady
  <2>6. CASE Leave(c)
    <3>1. sess'[c] = Off /\ \A d \in Conns \ {c} : sess'[d] = sess[d]
      BY <1>1, <2>6 DEF Leave, TypeOK
    <3> QED
      BY <1>1, <1>2, <1>3, <3>1, SessionsSteady
  <2>7. CASE PublishMore(c)
    <3>1. sess[c] # Off /\ sess' = [sess EXCEPT ![c].frame = FALSE]
      BY <2>7 DEF PublishMore, Off
    <3> QED
      BY <1>1, <1>2, <1>3, <3>1, FrameEnds
  <2> QED
    BY <2>1, <2>2, <2>3, <2>4, <2>5, <2>6, <2>7
<1> QED
  BY <1>1, <1>2, <1>3, <1>4, HubsSteady, QueueSteady DEF Followed

\* What a session publishes refers to its user and its room, which are accounted for.
LEMMA PublishKnown ==
  ASSUME IInv, NEW c \in Conns, Publish(c) PROVE HubsKnown' /\ Followed'
<1> DEFINE room == sess[c].room
           n    == Len(log')
<1>1. TypeOK /\ Followed /\ HubsKnown
  BY DEF IInv, Followed
<1>2. UNCHANGED <<backend, main, dbs, hubs, users, rooms, removed, adrift, failed>>
  BY DEF Publish, tables, process
<1>3. HubsKnown' /\ SessionsKnown'
  <2>1. RowsStay /\ hubs \subseteq hubs'
    BY <1>2 DEF RowsStay, Row, HasRoom
  <2>2. sess[c] # Off /\ sess' = [sess EXCEPT ![c].frame = FALSE]
    BY DEF Publish, Off
  <2>3. SessionsKnown'
    BY <1>1, <2>1, <2>2, FrameEnds
  <2> QED
    BY <1>1, <1>2, <2>3, HubsSteady
<1>4. /\ \A e \in DOMAIN log : e \in DOMAIN log' /\ log'[e] = log[e]
      /\ log'[n] = [room |-> room, author |-> sess[c].user]
      /\ n \in DOMAIN log' /\ room \in Rooms /\ sess[c].user \in Ids
  <2>1. /\ log' \in Seq([room : Rooms, author : Ids]) /\ n = Len(log) + 1 /\ Len(log) \in Nat
    BY <1>1, PublishTyped, LenProperties DEF TypeOK
  <2>2. n \in DOMAIN log'
    BY <2>1, LenProperties
  <2> QED
    BY <1>1, <2>2, PublishTyped
<1>5. room \in hubs /\ Known(sess[c].user)
  BY <1>1, <1>4, IdsDiffer DEF Publish, Off, Followed, SessionsKnown
<1>6. QueueKnown'
  <2> SUFFICES ASSUME NEW r \in Rooms, NEW i \in DOMAIN hq'[r]
               PROVE  /\ r \in hubs /\ hq'[r][i] \in DOMAIN log' /\ log'[hq'[r][i]].room = r
                      /\ Known(log'[hq'[r][i]].author)
    BY <1>2 DEF QueueKnown, Known, Row
  <2>1. ASSUME NEW k \in DOMAIN hq[r], hq'[r][i] = hq[r][k]
        PROVE  /\ r \in hubs /\ hq'[r][i] \in DOMAIN log' /\ log'[hq'[r][i]].room = r
               /\ Known(log'[hq'[r][i]].author)
    BY <1>1, <1>4, <2>1 DEF Followed, QueueKnown
  <2>2. CASE r # room
    <3>1. hq'[r] = hq[r]
      BY <1>1, <2>2 DEF Publish, TypeOK
    <3> QED
      BY <2>1, <3>1
  <2>3. CASE r = room
    <3>1. hq[r] \in Seq(Events) /\ hq'[r] = Append(hq[r], n) /\ n \in Events
      BY <1>1, <1>4, <2>3, PublishTyped DEF Publish, TypeOK
    <3>2. (i \in DOMAIN hq[r] /\ hq'[r][i] = hq[r][i]) \/ hq'[r][i] = n
      BY <3>1
    <3> QED
      BY SMTT(30), <1>4, <1>5, <2>1, <2>3, <3>2
  <2> QED
    BY <2>2, <2>3
<1>7. failed' \subseteq DOMAIN log' /\ LossExplained'
  <2>1. \A e \in failed : e \in DOMAIN log
    BY <1>1 DEF Followed
  <2>2. \A e \in failed : log[e].author \in adrift \cup removed \/ log[e].room \in removed
    BY <1>1 DEF Followed, LossExplained
  <2> QED
    BY <1>2, <1>4, <2>1, <2>2 DEF LossExplained
<1> QED
  BY <1>3, <1>6, <1>7 DEF Followed

\* An event that is refused has lost its author or its room, or never had an author.
LEMMA HubStoreKnown ==
  ASSUME IInv, NEW r \in Rooms, HubStore(r) PROVE HubsKnown' /\ Followed'
<1> DEFINE e == Head(hq[r])
<1>1. TypeOK /\ Followed /\ HubsKnown
  BY DEF IInv, Followed
<1>2. UNCHANGED <<backend, main, dbs, hubs, users, rooms, removed, adrift, sess, log>>
  BY DEF HubStore, process
<1>3. HubsKnown' /\ SessionsKnown'
  BY <1>1, <1>2, HubsSteady DEF Followed, SessionsKnown, Known, Row
<1>4. hq[r] \in Seq(Events) /\ hq[r] # <<>>
  BY <1>1 DEF HubStore, TypeOK
<1>5. QueueKnown'
  <2> SUFFICES ASSUME NEW q \in Rooms, NEW i \in DOMAIN hq'[q]
               PROVE  /\ q \in hubs /\ hq'[q][i] \in DOMAIN log /\ log[hq'[q][i]].room = q
                      /\ Known(log[hq'[q][i]].author)
    BY <1>2 DEF QueueKnown, Known, Row
  <2>1. \E k \in DOMAIN hq[q] : hq'[q][i] = hq[q][k]
    <3>1. CASE q # r
      BY <1>1, <3>1 DEF HubStore, TypeOK
    <3>2. CASE q = r
      <4>1. hq'[q] = Tail(hq[q])
        BY <1>1, <3>2 DEF HubStore, TypeOK
      <4>2. i + 1 \in DOMAIN hq[q] /\ hq'[q][i] = hq[q][i + 1]
        BY <1>4, <3>2, <4>1
      <4> QED
        BY <4>2
    <3> QED
      BY <3>1, <3>2
  <2> QED
    BY <1>1, <2>1 DEF Followed, QueueKnown
<1>6. r \in hubs /\ e \in DOMAIN log /\ log[e].room = r /\ Known(log[e].author)
  <2>1. 1 \in DOMAIN hq[r] /\ e = hq[r][1]
    BY <1>4
  <2> QED
    BY <1>1, <2>1 DEF Followed, QueueKnown
<1>7. ~Accepts(e) => log[e].author \in adrift \cup removed \/ log[e].room \in removed
  <2>1. CASE backend = "sqlite"
    BY <1>1, <1>6, <2>1 DEF Accepts, Known, HubsKnown
  <2>2. CASE backend = "buntdb"
    BY <1>1, <1>6, <2>2 DEF Accepts, HubsKnown
  <2> QED
    BY <1>1, <2>1, <2>2, BackendsKnown DEF TypeOK
<1>8. failed' = failed \/ (failed' = failed \cup {e} /\ ~Accepts(e))
  BY DEF HubStore
<1>9. failed' \subseteq DOMAIN log' /\ LossExplained'
  BY <1>1, <1>2, <1>6, <1>7, <1>8 DEF Followed, LossExplained
<1> QED
  BY <1>3, <1>5, <1>9 DEF Followed

\* A tag update neither makes nor removes a row.
LEMMA TagsKnown ==
  ASSUME IInv, NEW u \in Ids, ChangeUserTags(u) PROVE HubsKnown' /\ Followed'
<1>1. TypeOK /\ Followed /\ HubsKnown
  BY DEF IInv, Followed
<1>2. UNCHANGED <<backend, main, dbs, hubs, rooms, removed, adrift, sess, log, hq, failed>>
  BY DEF ChangeUserTags, process, traffic
<1>3. TypeOK'
  BY <1>1, TagsTyped
<1>4. ASSUME NEW v \in Ids, Row(v) PROVE Row(v)'
  <2>1. CASE v = u
    <3>1. users'[v] = [users[v] EXCEPT !.tags = @ \cup {updates'}]
      BY <1>1, <2>1 DEF ChangeUserTags, TypeOK
    <3>2. updates' \in Updates
      BY <1>1, LimitsAreNat DEF TypeOK, ChangeUserTags, Updates
    <3>3. users[v] \in UserRows
      BY <1>1, <1>4 DEF TypeOK, Row
    <3>4. users'[v] \in UserRows
      BY <3>1, <3>2, <3>3 DEF UserRows
    <3> QED
      BY <3>4, NoRowIsNone DEF Row, UserRows
  <2>2. CASE v # u
    BY <1>1, <1>4, <2>2 DEF ChangeUserTags, TypeOK, Row
  <2> QED
    BY <2>1, <2>2
<1>5. RowsStay
  BY <1>2, <1>4 DEF RowsStay, HasRoom
<1> QED
  BY <1>1, <1>2, <1>5, HubsSteady, TrafficSteady

\* What a command removes, it is to blame for.
LEMMA CommandKnown ==
  ASSUME IInv,
         \/ \E u, n \in Accounts : SetUser(u, n)
         \/ \E u \in Ids : DeleteUser(u)
         \/ \E r \in Rooms, o \in Accounts \cup {Nobody} : SetRoom(r, o)
         \/ \E r \in Rooms : DeleteRoom(r)
  PROVE  HubsKnown' /\ Followed'
<1>1. TypeOK /\ Followed /\ HubsKnown
  BY DEF IInv, Followed
<1>2. Command
  BY DEF SetUser, DeleteUser, SetRoom, DeleteRoom
<1>3. /\ UNCHANGED <<backend, main, dbs, hubs, starts, sess, log, hq, failed, updates, adrift>>
      /\ backend = "buntdb" => main = "down"
  BY <1>1, <1>2, CommandFrame DEF Command
<1>4. RowsStay
  <2>1. ASSUME NEW u \in Accounts, NEW n \in Accounts, SetUser(u, n) PROVE RowsStay
    BY <1>1, <1>3, <2>1, NoRowIsNone DEF SetUser, WithUser, RowsStay, Row, HasRoom, TypeOK, Ids
  <2>2. ASSUME NEW u \in Ids, DeleteUser(u) PROVE RowsStay
    <3>1. CASE backend = "sqlite"
      <4>1. /\ users' = [users EXCEPT ![u] = NoRow] /\ rooms' = RoomsWithout(OwnedBy(u))
            /\ removed' = removed \cup {u} \cup OwnedBy(u)
        BY <2>2, <3>1 DEF DeleteUser
      <4> QED
        BY <1>1, <1>3, <4>1 DEF RoomsWithout, RowsStay, Row, HasRoom, TypeOK
    <3>2. CASE backend # "sqlite"
      BY <1>3, <2>2, <3>2 DEF DeleteUser, tables, RowsStay, Row, HasRoom
    <3> QED
      BY <3>1, <3>2
  <2>3. ASSUME NEW r \in Rooms, NEW o \in Accounts \cup {Nobody}, SetRoom(r, o) PROVE RowsStay
    <3>1. o # NoRow
      BY IdsDiffer, NoRowIsNone DEF Ids
    <3> QED
      BY <1>1, <1>3, <2>3, <3>1 DEF SetRoom, RowsStay, Row, HasRoom, TypeOK
  <2>4. ASSUME NEW r \in Rooms, DeleteRoom(r) PROVE RowsStay
    BY <1>3, <2>4 DEF DeleteRoom, RoomsWithout, RowsStay, Row, HasRoom
  <2> QED
    BY <2>1, <2>2, <2>3, <2>4
<1>5. HubsKnown'
  <2>1. hubs \subseteq Rooms /\ main' = main /\ hubs' = hubs /\ backend' = backend
    BY <1>1, <1>3 DEF TypeOK
  <2>2. \A r \in hubs : HasRoom(r)' \/ r \in removed'
    BY <1>1, <1>4, <2>1 DEF HubsKnown, RowsStay
  <2> QED
    BY <1>1, <1>3, <2>1, <2>2 DEF HubsKnown
<1> QED
  BY <1>1, <1>3, <1>4, <1>5, TrafficSteady

\* Every step keeps the references.
LEMMA NextKnown == IInv /\ [Next]_vars => IInv'
<1> SUFFICES ASSUME IInv, [Next]_vars PROVE IInv'
  OBVIOUS
<1>1. TypeOK'
  BY NextTyped DEF IInv
<1>2. HubsKnown' /\ Followed'
  <2>1. CASE UNCHANGED vars
    <3>1. TypeOK /\ Followed /\ HubsKnown
      BY DEF IInv, Followed
    <3>2. RowsStay /\ UNCHANGED <<backend, main, dbs, hubs, rooms, removed, sess, log, hq, failed>>
      BY <2>1 DEF vars, tables, process, traffic, RowsStay, Row, HasRoom
    <3> QED
      BY <3>1, <3>2, HubsSteady, TrafficSteady
  <2>2. CASE Next
    BY <2>2, StartKnown, SessionKnown, PublishKnown, HubStoreKnown, TagsKnown, CommandKnown DEF Next
  <2> QED
    BY <2>1, <2>2
<1> QED
  BY <1>1, <1>2 DEF IInv, Followed

-----------------------------------------------------------------------------
\* The tables, the sessions, the hubs and the queues hold what their types say.
THEOREM AccountsTyped == Spec => []TypeOK
<1>1. Init => TypeOK
  BY InitOK DEF IInv
<1> QED
  BY <1>1, NextTyped, PTL DEF Spec

\* The inductive invariant: hubs, sessions and queues refer to rows that exist, or that a
\* command or a logout is to blame for.
THEOREM AccountsInvariance == Spec => []IInv
BY InitOK, NextKnown, PTL DEF Spec

\* Who is on a connection is stored (main.go's and ReadLoop's GetUser and StoreUser), unless
\* a command removed the user or a logout made them up.
THEOREM SessionsAreStored == Spec => []SessionsStored
<1>1. IInv => SessionsStored
  BY DEF IInv, SessionsKnown, SessionsStored, Off
<1> QED
  BY <1>1, AccountsInvariance, PTL

\* StoreEvents of Hub.Run refuses an event only when a logout made its author up or a command
\* removed its author or its room.
THEOREM LossesExplained == Spec => []LossExplained
<1>1. IInv => LossExplained
  BY DEF IInv
<1> QED
  BY <1>1, AccountsInvariance, PTL

-----------------------------------------------------------------------------
\* What a plugin was told of u shows.
Shows(u) == acked[u] \subseteq (IF Row(u) THEN users[u].tags ELSE {})

\* The admin user that a start has not found has been told nothing about since.
AdminMissed == main = "store" /\ Row(Admin) => acked[Admin] = {}

\* Users come and go with what was told of them, but for who is stored after a miss.
LEMMA ShownStays ==
  ASSUME IInv, AdminMissed, Next, NEW u \in Ids, Shows(u)
  PROVE  Shows(u)' \/ \E c \in Conns : sess[c].want = u /\ sess'[c].user = u
<1> USE NoRowIsNone, AdminIsAccount DEF tables, process, traffic, Shows, Row, UserRows, WithUser
<1>1. TypeOK BY DEF IInv
<1>2. CASE UNCHANGED users /\ acked' = acked BY <1>2
<1>3. CASE StoreAdmin
  <2>1. Admin \in Ids BY DEF Ids
  <2>2. u = Admin => acked[Admin] = {} BY <1>3 DEF StoreAdmin, AdminMissed
  <2>3. users' = users \/ users' = [users EXCEPT ![Admin] = [nick |-> Admin, tags |-> {}]]
    BY <1>3 DEF StoreAdmin
  <2>4. acked' = acked BY <1>3 DEF StoreAdmin
  <2> QED BY <1>1, <2>1, <2>2, <2>3, <2>4 DEF TypeOK
<1>4. ASSUME NEW c \in Conns, StoreNew(c) PROVE Shows(u)' \/ (sess[c].want = u /\ sess'[c].user = u)
  <2>1. acked' = acked BY <1>4 DEF StoreNew
  <2>2. CASE ~MayStoreUser(sess[c].want, sess[c].want) 
    <3>1. users' = users BY <1>4, <2>2 DEF StoreNew
    <3>2. Shows(u)' BY <2>1, <3>1
    <3> QED BY <3>2
  <2>3. CASE MayStoreUser(sess[c].want, sess[c].want)
    <3>1. users' = [users EXCEPT ![sess[c].want] = [nick |-> sess[c].want, tags |-> {}]]
      BY <1>4, <2>3 DEF StoreNew
    <3>2. CASE sess[c].want # u
      <4>1. users'[u] = users[u] BY <1>1, <3>1, <3>2 DEF TypeOK
      <4>2. Shows(u)' BY <2>1, <4>1
      <4> QED BY <4>2
    <3>3. CASE sess[c].want = u
      <4>1. sess' = [sess EXCEPT ![c].user = u, ![c].want = Nobody] BY <1>4, <2>3, <3>3 DEF StoreNew
      <4>2. sess[c] \in Sessions BY <1>1, <1>4 DEF TypeOK, StoreNew, Off
      <4>3. sess'[c] = [sess[c] EXCEPT !.user = u, !.want = Nobody] BY <1>1, <4>1 DEF TypeOK
      <4> QED BY <3>3, <4>2, <4>3 DEF Sessions
    <3> QED BY <3>2, <3>3
  <2> QED BY <2>2, <2>3
<1>5. ASSUME NEW v \in Ids, ChangeUserTags(v) PROVE Shows(u)'
  <2>1. users[v] \in UserRows BY <1>1, <1>5 DEF TypeOK, ChangeUserTags
  <2>2. users' = [users EXCEPT ![v].tags = @ \cup {updates'}] /\ acked' = [acked EXCEPT ![v] = @ \cup {updates'}]
    BY <1>5 DEF ChangeUserTags
  <2>3. CASE u # v BY <1>1, <2>2, <2>3 DEF TypeOK
  <2>4. CASE u = v
    <3>1. users'[v] = [nick |-> users[v].nick, tags |-> users[v].tags \cup {updates'}]
      BY <1>1, <2>1, <2>2 DEF TypeOK
    <3>2. acked'[v] = acked[v] \cup {updates'} BY <1>1, <2>2 DEF TypeOK
    <3>3. updates' \in Updates BY <1>1, <1>5, LimitsAreNat DEF ChangeUserTags, TypeOK, Updates
    <3>4. users'[v] \in UserRows BY <2>1, <3>1, <3>3
    <3> QED BY <1>5, <2>4, <3>1, <3>2, <3>4 DEF ChangeUserTags
  <2> QED BY <2>3, <2>4
<1>6. ASSUME NEW v \in Accounts, NEW n \in Accounts, SetUser(v, n) PROVE Shows(u)'
  BY <1>1, <1>6 DEF SetUser, TypeOK
<1>7. ASSUME NEW v \in Ids, DeleteUser(v) PROVE Shows(u)'
  BY <1>1, <1>7 DEF DeleteUser, TypeOK
<1>8. CASE Open \/ List \/ FindAdmin \/ StoreDefault \/ Stop
  BY <1>8, <1>2 DEF Open, List, FindAdmin, StoreDefault, Stop
<1>9. ASSUME NEW c \in Conns, Connect(c) \/ ConnectNameless(c) \/ Login(c) \/ Logout(c) \/ Leave(c)
                                \/ Publish(c) \/ PublishMore(c) PROVE Shows(u)'
  BY <1>9, <1>2 DEF Connect, ConnectNameless, Login, Logout, Leave, Publish, PublishMore
<1>10. ASSUME NEW r \in Rooms, HubStore(r) \/ DeleteRoom(r) PROVE Shows(u)'
  BY <1>10, <1>2 DEF HubStore, DeleteRoom
<1>11. ASSUME NEW r \in Rooms, NEW o \in Accounts \cup {Nobody}, SetRoom(r, o) PROVE Shows(u)'
  BY <1>11, <1>2 DEF SetRoom
<1> QED BY <1>3, <1>4, <1>5, <1>6, <1>7, <1>8, <1>9, <1>10, <1>11 DEF Next

\* Nobody is there to be told anything while the process starts.
LEMMA AdminStaysMissed == IInv /\ AdminMissed /\ [Next]_vars => AdminMissed'
<1> SUFFICES ASSUME IInv, AdminMissed, [Next]_vars, (main = "store")', Row(Admin)' PROVE (acked[Admin] = {})'
  BY DEF AdminMissed
<1> USE NoRowIsNone, AdminIsAccount DEF tables, process, traffic, Row
<1>1. TypeOK /\ Admin \in Ids BY DEF IInv, Ids
<1>2. CASE UNCHANGED vars BY <1>2 DEF vars, AdminMissed
<1>3. CASE main # "store"
  <2>1. FindAdmin
    BY <1>3 DEF Next, Open, List, StoreAdmin, StoreDefault, Stop, Connect, ConnectNameless, Login, StoreNew,
       Logout, Leave, Publish, PublishMore, HubStore, DeleteRoom, ChangeUserTags, DeleteUser, SetUser, SetRoom,
       Command, vars
  <2> QED BY <2>1 DEF FindAdmin
<1>4. CASE main = "store" /\ Next
  <2>1. hubs = {} /\ \A c \in Conns : sess[c] = Off BY <1>4 DEF IInv, HubsKnown, SessionsKnown
  <2>2. CASE acked' = acked /\ users' = users BY <1>4, <2>2 DEF AdminMissed
  <2>3. ASSUME NEW u \in Accounts, NEW n \in Accounts, SetUser(u, n) PROVE (acked[Admin] = {})'
    BY <1>1, <1>4, <2>3 DEF SetUser, WithUser, AdminMissed, TypeOK
  <2>4. ASSUME NEW u \in Ids, DeleteUser(u) PROVE (acked[Admin] = {})'
    BY <1>1, <1>4, <2>4 DEF DeleteUser, AdminMissed, TypeOK
  <2>5. ASSUME NEW r \in Rooms, NEW o \in Accounts \cup {Nobody}, SetRoom(r, o) PROVE (acked[Admin] = {})'
    BY <2>2, <2>5 DEF SetRoom
  <2>6. ASSUME NEW r \in Rooms, HubStore(r) \/ DeleteRoom(r) PROVE (acked[Admin] = {})'
    BY <2>2, <2>6 DEF HubStore, DeleteRoom
  <2>7. ASSUME NEW c \in Conns PROVE sess[c].want = Nobody /\ sess[c].user = Nobody /\ ~sess[c].frame
    BY <2>1 DEF Off
  <2>8. ASSUME NEW c \in Conns, Connect(c) \/ ConnectNameless(c) \/ Login(c) \/ StoreNew(c) \/ Logout(c)
                                  \/ Leave(c) \/ Publish(c) \/ PublishMore(c) PROVE FALSE
    BY <2>1, <2>7, <2>8 DEF Connect, ConnectNameless, Login, StoreNew, Logout, Leave, Publish, PublishMore, Idle
  <2>9. ASSUME NEW u \in Ids, ChangeUserTags(u) PROVE FALSE BY <2>1, <2>9 DEF ChangeUserTags
  <2>10. CASE Open \/ List \/ FindAdmin \/ StoreAdmin \/ StoreDefault \/ Stop
    BY <1>4, <2>10 DEF Open, List, FindAdmin, StoreAdmin, StoreDefault, Stop
  <2> QED BY <1>4, <2>3, <2>4, <2>5, <2>6, <2>8, <2>9, <2>10 DEF Next
<1> QED BY <1>2, <1>3, <1>4

\* What ChangeUserTags has reported as done shows in the user's tags through starts, logins and
\* everything else until a command replaces or removes the user, but for two first connections.
THEOREM UpdatesAreKept == Spec => UpdatesOutlive
<1>1. Init => AdminMissed BY DEF Init, AdminMissed
<1>2. Spec => [](IInv /\ AdminMissed)
  BY <1>1, InitOK, NextKnown, AdminStaysMissed, PTL DEF Spec
<1>3. IInv /\ AdminMissed /\ [Next]_vars =>
        [\A u \in Ids : acked[u] \subseteq (IF Row(u) THEN users[u].tags ELSE {}) =>
           \/ acked'[u] \subseteq (IF Row(u)' THEN users'[u].tags ELSE {})
           \/ \E c \in Conns : sess[c].want = u /\ sess'[c].user = u]_vars
  BY ShownStays DEF Shows
<1> QED BY <1>2, <1>3, PTL DEF Spec, UpdatesOutlive

-----------------------------------------------------------------------------
\* With sqlite no event is stored of a room that has no row.
NoOrphans == backend = "sqlite" => \A r \in Rooms : ~HasRoom(r) => stored[r] = {}

\* What is queued for a hub is of the hub's room, so StoreEvents refuses it without the room.
LEMMA HubStoresNoOrphan ==
  ASSUME IInv, NoOrphans, NEW r \in Rooms, HubStore(r) PROVE NoOrphans'
<1>1. TypeOK /\ hq[r] \in Seq(Events) /\ hq[r] # <<>>
  BY DEF IInv, TypeOK, HubStore
<1> DEFINE e == Head(hq[r])
<1>2. 1 \in DOMAIN hq[r] /\ e = hq[r][1]
  BY <1>1, EmptySeq, LenProperties
<1>3. log[e].room = r
  BY <1>2 DEF IInv, QueueKnown
<1>4. rooms' = rooms /\ backend' = backend
  BY DEF HubStore
<1>5. ASSUME NEW q \in Rooms, backend = "sqlite", ~HasRoom(q) PROVE stored'[q] = {}
  <2>1. stored[q] = {}
    BY <1>5 DEF NoOrphans
  <2>2. CASE Accepts(e)
    <3>1. HasRoom(r)
      BY <1>3, <1>5, <2>2 DEF Accepts
    <3>2. stored' = [stored EXCEPT ![r] = @ \cup {e}]
      BY <2>2 DEF HubStore
    <3> QED
      BY <1>1, <1>5, <2>1, <3>1, <3>2 DEF TypeOK
  <2>3. CASE ~Accepts(e)
    BY <2>1, <2>3 DEF HubStore
  <2> QED
    BY <2>2, <2>3
<1> QED
  BY <1>4, <1>5 DEF NoOrphans, HasRoom

\* A command that takes a room away takes its events with it.
LEMMA CascadeLeavesNoOrphan ==
  ASSUME TypeOK, NoOrphans, NEW S, backend' = backend, backend = "sqlite",
         rooms' = RoomsWithout(S), stored' = Cascade(S)
  PROVE  NoOrphans'
<1> SUFFICES ASSUME NEW r \in Rooms, rooms'[r] = NoRow PROVE stored'[r] = {}
  BY DEF NoOrphans, HasRoom
<1>1. CASE r \in S
  BY <1>1 DEF Cascade
<1>2. CASE r \notin S
  BY <1>2 DEF Cascade, RoomsWithout, NoOrphans, HasRoom
<1> QED
  BY <1>1, <1>2

\* No step stores an event without a room or takes a room from under its events.
LEMMA NoOrphansNext == IInv /\ NoOrphans /\ [Next]_vars => NoOrphans'
<1> SUFFICES ASSUME IInv, NoOrphans, [Next]_vars PROVE NoOrphans'
  OBVIOUS
<1> USE DEF tables, process, traffic
<1>1. TypeOK
  BY DEF IInv
<1>2. CASE UNCHANGED <<backend, rooms, stored>>
  BY <1>2 DEF NoOrphans, HasRoom
<1>3. ASSUME NEW r \in Rooms, NEW o \in Ids \cup {Nobody}, UNCHANGED <<backend, stored>>,
             rooms' = [rooms EXCEPT ![r] = o] \/ rooms' = rooms
      PROVE  NoOrphans'
  BY <1>1, <1>3, IdsDiffer, NoRowIsNone DEF TypeOK, NoOrphans, HasRoom
<1>4. CASE StoreDefault
  BY <1>3, <1>4, AdminIsAccount DEF StoreDefault, Ids
<1>5. ASSUME NEW r \in Rooms, NEW o \in Accounts \cup {Nobody}, SetRoom(r, o) PROVE NoOrphans'
  BY <1>3, <1>5 DEF SetRoom, Command, Ids
<1>6. ASSUME NEW r \in Rooms, DeleteRoom(r) PROVE NoOrphans'
  <2>1. backend' = backend /\ rooms' = RoomsWithout({r})
    BY <1>6 DEF DeleteRoom, Command
  <2>2. CASE backend = "sqlite"
    BY <1>1, <1>6, <2>1, <2>2, CascadeLeavesNoOrphan DEF DeleteRoom
  <2> QED
    BY <2>1, <2>2 DEF NoOrphans
<1>7. ASSUME NEW u \in Ids, DeleteUser(u) PROVE NoOrphans'
  <2>1. backend' = backend
    BY <1>7 DEF DeleteUser, Command
  <2>2. CASE backend = "sqlite"
    BY <1>1, <1>7, <2>1, <2>2, CascadeLeavesNoOrphan DEF DeleteUser
  <2> QED
    BY <2>1, <2>2 DEF NoOrphans
<1>8. ASSUME NEW r \in Rooms, HubStore(r) PROVE NoOrphans'
  BY <1>8, HubStoresNoOrphan
<1>9. ASSUME NEW c \in Conns,
             \/ Connect(c) \/ ConnectNameless(c) \/ Login(c) \/ StoreNew(c)
             \/ Logout(c) \/ Leave(c) \/ Publish(c) \/ PublishMore(c)
      PROVE  NoOrphans'
  BY <1>2, <1>9 DEF Connect, ConnectNameless, Login, StoreNew, Logout, Leave, Publish, PublishMore
<1>10. ASSUME NEW u \in Accounts, NEW n \in Accounts, SetUser(u, n) PROVE NoOrphans'
  BY <1>2, <1>10 DEF SetUser, Command
<1>11. CASE Open \/ List \/ FindAdmin \/ StoreAdmin \/ Stop \/ \E u \in Ids : ChangeUserTags(u)
  BY <1>2, <1>11 DEF Open, List, FindAdmin, StoreAdmin, Stop, ChangeUserTags
<1>12. CASE UNCHANGED vars
  BY <1>2, <1>12 DEF vars
<1> QED
  BY <1>4, <1>5, <1>6, <1>7, <1>8, <1>9, <1>10, <1>11, <1>12 DEF Next

\* The actions that create a room, main's default room and the command's set room, leave
\* the events table alone, where there are none of a room that is missing.
THEOREM RoomsStartEmpty == Spec => RoomStartsEmpty
<1>1. Init => NoOrphans
  BY DEF Init, NoOrphans
<1>2. Spec => [](IInv /\ NoOrphans)
  BY <1>1, InitOK, NextKnown, NoOrphansNext, PTL DEF Spec
<1>3. IInv /\ NoOrphans /\ [Next]_vars =>
        [\A r \in Rooms : backend = "sqlite" /\ ~HasRoom(r) /\ HasRoom(r)' => stored'[r] = {}]_vars
  <2> SUFFICES ASSUME IInv, NoOrphans, Next, NEW r \in Rooms,
                      backend = "sqlite", ~HasRoom(r), HasRoom(r)'
               PROVE  stored'[r] = {}
    OBVIOUS
  <2> USE DEF tables, process, traffic
  <2>1. stored[r] = {}
    BY DEF NoOrphans
  <2>2. CASE stored' = stored
    BY <2>1, <2>2
  <2>3. CASE rooms' = rooms
    BY <2>3 DEF HasRoom
  <2>4. ASSUME NEW q \in Rooms, DeleteRoom(q) PROVE FALSE
    BY <2>4 DEF DeleteRoom, RoomsWithout, HasRoom
  <2>5. ASSUME NEW u \in Ids, DeleteUser(u) PROVE stored'[r] = {}
    <3>1. rooms' = RoomsWithout(OwnedBy(u))
      BY <2>5 DEF DeleteUser
    <3> QED
      BY <3>1 DEF RoomsWithout, HasRoom
  <2>6. ASSUME NEW q \in Rooms, HubStore(q) PROVE stored'[r] = {}
    BY <2>3, <2>6 DEF HubStore
  <2>7. ASSUME NEW c \in Conns,
               \/ Connect(c) \/ ConnectNameless(c) \/ Login(c) \/ StoreNew(c)
               \/ Logout(c) \/ Leave(c) \/ Publish(c) \/ PublishMore(c)
        PROVE  stored'[r] = {}
    BY <2>2, <2>7 DEF Connect, ConnectNameless, Login, StoreNew, Logout, Leave, Publish, PublishMore
  <2>8. CASE Open \/ List \/ FindAdmin \/ StoreAdmin \/ StoreDefault \/ Stop
    BY <2>2, <2>8 DEF Open, List, FindAdmin, StoreAdmin, StoreDefault, Stop
  <2>9. CASE \/ \E u \in Ids : ChangeUserTags(u)
             \/ \E u, n \in Accounts : SetUser(u, n)
             \/ \E q \in Rooms, o \in Accounts \cup {Nobody} : SetRoom(q, o)
    BY <2>2, <2>9 DEF ChangeUserTags, SetUser, SetRoom
  <2> QED
    BY <2>4, <2>5, <2>6, <2>7, <2>8, <2>9 DEF Next
<1> QED
  BY <1>2, <1>3, PTL DEF Spec, RoomStartsEmpty
=============================================================================
