------------------------------ MODULE Accounts ------------------------------
(***************************************************************************)
(* Users, rooms and persisted events: the sessions that look users up and   *)
(* store them (websocketHandler in cmd/lightspeed-chat/main.go, ReadLoop in  *)
(* ws/client.go), the hubs that persist what they publish, the plugins that  *)
(* change tags (ws/events.go), the commands of lightspeed-chat-admin and the *)
(* start of lightspeed-chat, over the tables of a persister: sqlite with     *)
(* foreign keys (the README's DSN has _fk=true) or buntdb.                   *)
(* A method of a persister holds its mutex throughout, so each is one step.  *)
(* The storage itself does not fail here; that it may is HubHistory's.       *)
(***************************************************************************)
EXTENDS Naturals, Sequences, FiniteSets

CONSTANTS
  Accounts,   \* ids that the OIDC provider knows
  Guests,     \* names that guests may be given
  Admin,      \* Config.AdminUser
  Rooms,
  Default,    \* the room that main creates
  OpenRooms,  \* the rooms with the tag _allow_guests
  Conns,      \* connections
  Backends,   \* the persisters to consider
  MaxEvents, MaxUpdates, MaxCommands, MaxStarts, \* how much happens in a behaviour
  NoRow,      \* no such row
  Nobody      \* the empty id

Ids     == Accounts \cup Guests
Updates == 1 .. MaxUpdates
Events  == 1 .. MaxEvents

ASSUME AdminIsAccount == Admin \in Accounts /\ Default \in Rooms /\ OpenRooms \subseteq Rooms
ASSUME IdsDiffer      == Accounts \cap Guests = {} /\ {NoRow, Nobody} \cap (Ids \cup Rooms) = {}
ASSUME NoRowIsNone    == NoRow # Nobody /\ NoRow \notin [nick : Ids, tags : SUBSET Updates]
ASSUME BackendsKnown  == Backends \subseteq {"sqlite", "buntdb"}
ASSUME LimitsAreNat   == {MaxEvents, MaxUpdates, MaxCommands, MaxStarts} \subseteq Nat

VARIABLES
  backend,   \* the configured persister
  users,     \* the users table: nick, and the tag updates that the tags show
  rooms,     \* the rooms table: the owner
  stored,    \* the events table, or the room's file
  main,      \* where lightspeed-chat is in its start
  dbs,       \* BuntDBPersist.roomDbs of lightspeed-chat
  hubs,      \* hubs
  sess,      \* who is on a connection, who is still to be stored, is a frame half handled
  log,       \* the events that were published
  hq,        \* Hub.EventHistory
  failed,    \* the events whose StoreEvents returned an error
  updates,   \* the tag updates so far
  acked,     \* the updates that a plugin was told are done
  adrift,    \* the guest names that a logout has given out
  removed,   \* the users and rooms that a command has removed
  commands,  \* commands so far
  starts     \* starts so far

tables   == <<users, rooms, stored>>
process  == <<main, dbs, hubs, starts>>
traffic  == <<sess, log, hq, failed>>
vars     == <<backend, tables, process, traffic, updates, acked, adrift, removed, commands>>

Off == [room |-> Nobody, user |-> Nobody, want |-> Nobody, frame |-> FALSE]

Sessions == [room : Rooms, user : Ids \cup {Nobody}, want : Ids \cup {Nobody}, frame : BOOLEAN]
UserRows == [nick : Ids, tags : SUBSET Updates]
TypeOK ==
  /\ backend \in Backends
  /\ users \in [Ids -> UserRows \cup {NoRow}]
  /\ rooms \in [Rooms -> Ids \cup {Nobody, NoRow}]
  /\ stored \in [Rooms -> SUBSET Events]
  /\ main \in {"down", "list", "admin", "store", "room", "up"}
  /\ dbs \subseteq Rooms /\ hubs \subseteq Rooms /\ starts \in 0 .. MaxStarts
  /\ sess \in [Conns -> Sessions \cup {Off}]
  /\ log \in Seq([room : Rooms, author : Ids]) /\ Len(log) <= MaxEvents
  /\ hq \in [Rooms -> Seq(Events)] /\ failed \subseteq Events
  /\ updates \in 0 .. MaxUpdates /\ acked \in [Ids -> SUBSET Updates]
  /\ adrift \subseteq Guests /\ removed \subseteq Ids \cup Rooms /\ commands \in 0 .. MaxCommands

Init ==
  /\ backend \in Backends
  /\ users = [u \in Ids |-> NoRow] /\ rooms = [r \in Rooms |-> NoRow]
  /\ stored = [r \in Rooms |-> {}]
  /\ main = "down" /\ dbs = {} /\ hubs = {} /\ starts = 0
  /\ sess = [c \in Conns |-> Off]
  /\ log = <<>> /\ hq = [r \in Rooms |-> <<>>] /\ failed = {}
  /\ updates = 0 /\ acked = [u \in Ids |-> {}]
  /\ adrift = {} /\ removed = {} /\ commands = 0

-----------------------------------------------------------------------------
Row(u)     == users[u] # NoRow
HasRoom(r) == rooms[r] # NoRow

\* Bugs for the properties to notice.
WithNickless(u, n)       == [users EXCEPT ![u] = [nick |-> Nobody, tags |-> {}]]
BecomesUnstored(c, r, u, f) ==
  sess' = [sess EXCEPT ![c] = [room |-> r, user |-> u, want |-> Nobody, frame |-> f]]
CascadeForgotten(S)      == stored
OpenedAtStartOnly(r)     == dbs

\* The schema of the users table: a nick belongs to one user.
MayStoreUser(u, n) ==
  backend = "sqlite" => \A v \in Ids \ {u} : Row(v) => users[v].nick # n

\* The foreign key of the rooms table: the owner is a user.
MayStoreRoom(o) == backend = "sqlite" => o \in Ids /\ Row(o)

\* StoreEvents: the foreign keys of the events table, or the room's open file.
Accepts(e) ==
  IF backend = "sqlite" THEN HasRoom(log[e].room) /\ Row(log[e].author)
  ELSE log[e].room \in dbs

\* What GetRooms lists: sqlite joins the rooms with their owners.
ListedRooms == {r \in Rooms : HasRoom(r) /\ (backend = "sqlite" => rooms[r] \in Ids /\ Row(rooms[r]))}

\* StoreUser of a user with empty tags.
WithUser(u, n) == [users EXCEPT ![u] = [nick |-> n, tags |-> {}]]

\* What ON DELETE CASCADE removes: with a user its rooms, with a room its events.
OwnedBy(u)       == {r \in Rooms : rooms[r] = u}
RoomsWithout(S)  == [r \in Rooms |-> IF r \in S THEN NoRow ELSE rooms[r]]
Cascade(S)       == [r \in Rooms |-> IF r \in S THEN {} ELSE stored[r]]

\* StoreRoom of buntdb opens the room's file unless it is open.
OpenedFor(r) == dbs \cup {r}

-----------------------------------------------------------------------------
\* lightspeed-chat starts: the persister is opened, with a file for every room, ...
Open ==
  /\ main = "down" /\ starts < MaxStarts
  /\ main' = "list" /\ starts' = starts + 1
  /\ dbs' = {r \in Rooms : HasRoom(r)}
  /\ UNCHANGED <<backend, tables, hubs, traffic, updates, acked, adrift, removed, commands>>

\* ... the rooms are read, and get a hub each ...
List ==
  /\ main = "list"
  /\ IF ListedRooms # {} THEN main' = "up" /\ hubs' = ListedRooms
     ELSE main' = "admin" /\ UNCHANGED hubs
  /\ UNCHANGED <<backend, tables, dbs, starts, traffic, updates, acked, adrift, removed, commands>>

\* A bug for the properties to notice: the admin user is stored whenever there is no room.
FindAdminUnread ==
  /\ main = "admin" /\ main' = "store"
  /\ UNCHANGED <<backend, tables, dbs, hubs, starts, traffic, updates, acked, adrift, removed, commands>>

\* ... or else, with no rooms, the admin user is looked up ...
FindAdmin ==
  /\ main = "admin"
  /\ main' = IF Row(Admin) THEN "room" ELSE "store"
  /\ UNCHANGED <<backend, tables, dbs, hubs, starts, traffic, updates, acked, adrift, removed, commands>>

\* ... and stored (an error is a panic) ...
StoreAdmin ==
  /\ main = "store"
  /\ IF MayStoreUser(Admin, Admin)
     THEN main' = "room" /\ users' = WithUser(Admin, Admin)
     ELSE main' = "down" /\ UNCHANGED users
  /\ UNCHANGED <<backend, rooms, stored, dbs, hubs, starts, traffic, updates, acked, adrift, removed, commands>>

\* ... and a default room is created for them (an error is a panic).
StoreDefault ==
  /\ main = "room"
  /\ IF MayStoreRoom(Admin)
     THEN /\ main' = "up" /\ hubs' = {Default}
          /\ rooms' = [rooms EXCEPT ![Default] = Admin] /\ dbs' = OpenedFor(Default)
     ELSE main' = "down" /\ UNCHANGED <<hubs, rooms, dbs>>
  /\ UNCHANGED <<backend, users, stored, starts, traffic, updates, acked, adrift, removed, commands>>

\* The process ends, at any point.
Stop ==
  /\ main # "down"
  /\ main' = "down" /\ hubs' = {} /\ dbs' = {}
  /\ sess' = [c \in Conns |-> Off] /\ hq' = [r \in Rooms |-> <<>>]
  /\ UNCHANGED <<backend, tables, starts, log, failed, updates, acked, adrift, removed, commands>>

-----------------------------------------------------------------------------
\* A connection becomes u's when there is a row for u; else u is to be stored first.
Becomes(c, r, u, f) ==
  sess' = [sess EXCEPT ![c] = [room |-> r, user |-> IF Row(u) THEN u ELSE sess[c].user,
                               want |-> IF Row(u) THEN Nobody ELSE u, frame |-> f]]

\* websocketHandler: an authenticated user or a guest, looked up with GetUser.
Connect(c) ==
  /\ sess[c] = Off
  /\ \E r \in hubs : \E u \in IF r \in OpenRooms THEN Ids ELSE Accounts : Becomes(c, r, u, FALSE)
  /\ UNCHANGED <<backend, tables, process, log, hq, failed, updates, acked, adrift, removed, commands>>

\* A guest of a room that does not allow them has no id, and is not looked up.
ConnectNameless(c) ==
  /\ sess[c] = Off
  /\ \E r \in hubs \ OpenRooms : sess' = [sess EXCEPT ![c] = [Off EXCEPT !.room = r]]
  /\ UNCHANGED <<backend, tables, process, log, hq, failed, updates, acked, adrift, removed, commands>>

Idle(c) == sess[c] # Off /\ sess[c].want = Nobody /\ ~sess[c].frame

\* ReadLoop, login with an id token.  The frame is then published like any other.
Login(c) ==
  /\ Idle(c)
  /\ \E u \in Accounts : Becomes(c, sess[c].room, u, TRUE)
  /\ UNCHANGED <<backend, tables, process, log, hq, failed, updates, acked, adrift, removed, commands>>

\* After the lookup has failed: StoreUser, and the connection is the user's.
StoreNew(c) ==
  LET u == sess[c].want IN
  /\ u # Nobody
  /\ IF MayStoreUser(u, u)
     THEN /\ users' = WithUser(u, u)
          /\ sess' = [sess EXCEPT ![c].user = u, ![c].want = Nobody]
     ELSE sess' = [sess EXCEPT ![c] = Off] /\ UNCHANGED users
  /\ UNCHANGED <<backend, rooms, stored, process, log, hq, failed, updates, acked, adrift, removed, commands>>

\* ReadLoop, logout: the user becomes a guest, with an id where guests are allowed; if so
\* the frame is published as theirs.
Logout(c) ==
  /\ Idle(c) /\ sess[c].user # Nobody
  /\ \E g \in IF sess[c].room \in OpenRooms THEN Guests ELSE {Nobody} :
       /\ sess' = [sess EXCEPT ![c].user = g, ![c].frame = g # Nobody]
       /\ adrift' = adrift \cup ({g} \ {Nobody})
  /\ UNCHANGED <<backend, tables, process, log, hq, failed, updates, acked, removed, commands>>

Leave(c) ==
  /\ Idle(c)
  /\ sess' = [sess EXCEPT ![c] = Off]
  /\ UNCHANGED <<backend, tables, process, log, hq, failed, updates, acked, adrift, removed, commands>>

\* ReadLoop, the frame of somebody with an id: a message, or a login or logout just handled.
Publish(c) ==
  /\ sess[c].want = Nobody /\ sess[c].user # Nobody /\ Len(log) < MaxEvents
  /\ sess' = [sess EXCEPT ![c].frame = FALSE]
  /\ log' = Append(log, [room |-> sess[c].room, author |-> sess[c].user])
  /\ hq' = [hq EXCEPT ![sess[c].room] = Append(@, Len(log'))]
  /\ UNCHANGED <<backend, tables, process, failed, updates, acked, adrift, removed, commands>>

\* The events beyond MaxEvents are not followed.
PublishMore(c) ==
  /\ sess[c].want = Nobody /\ sess[c].frame /\ Len(log) = MaxEvents
  /\ sess' = [sess EXCEPT ![c].frame = FALSE]
  /\ UNCHANGED <<backend, tables, process, log, hq, failed, updates, acked, adrift, removed, commands>>

\* Hub.Run persists a batch.
HubStore(r) ==
  /\ hq[r] # <<>>
  /\ LET e == Head(hq[r]) IN
     IF Accepts(e) THEN stored' = [stored EXCEPT ![r] = @ \cup {e}] /\ UNCHANGED failed
     ELSE failed' = failed \cup {e} /\ UNCHANGED stored
  /\ hq' = [hq EXCEPT ![r] = Tail(@)]
  /\ UNCHANGED <<backend, users, rooms, process, sess, log, updates, acked, adrift, removed, commands>>

\* ChangeUserTags of a plugin: read, updated and written in one transaction, or an error.
ChangeUserTags(u) ==
  /\ hubs # {} /\ updates < MaxUpdates /\ Row(u)
  /\ updates' = updates + 1
  /\ users' = [users EXCEPT ![u].tags = @ \cup {updates'}]
  /\ acked' = [acked EXCEPT ![u] = @ \cup {updates'}]
  /\ UNCHANGED <<backend, rooms, stored, process, traffic, adrift, removed, commands>>

-----------------------------------------------------------------------------
\* A command of lightspeed-chat-admin, a process of its own. Each process that opens buntdb
\* has its own copy of the tables in memory, so with buntdb the chat is stopped first.
Command ==
  /\ commands < MaxCommands /\ commands' = commands + 1
  /\ backend = "buntdb" => main = "down"
  /\ UNCHANGED <<backend, process, traffic, updates, adrift>>

\* set user: the given nick and tags replace what there was.
SetUser(u, n) ==
  /\ Command
  /\ IF MayStoreUser(u, n)
     THEN users' = WithUser(u, n) /\ acked' = [acked EXCEPT ![u] = {}]
     ELSE UNCHANGED <<users, acked>>
  /\ UNCHANGED <<rooms, stored, removed>>

\* delete user: the rooms of the user and their events go with it; buntdb's DeleteUser
\* deletes in a read-only transaction, which is an error.
DeleteUser(u) ==
  /\ Command
  /\ IF backend = "sqlite"
     THEN /\ users' = [users EXCEPT ![u] = NoRow]
          /\ rooms' = RoomsWithout(OwnedBy(u))
          /\ stored' = Cascade(OwnedBy(u))
          /\ acked' = [acked EXCEPT ![u] = {}]
          /\ removed' = removed \cup {u} \cup OwnedBy(u)
     ELSE UNCHANGED <<tables, acked, removed>>

\* set room: an owner without a nick is looked up first, and must be found.
SetRoom(r, o) ==
  /\ Command
  /\ \E nickless \in BOOLEAN :
       rooms' = IF (o # Nobody /\ nickless => Row(o)) /\ MayStoreRoom(o)
                THEN [rooms EXCEPT ![r] = o] ELSE rooms
  /\ UNCHANGED <<users, stored, acked, removed>>

\* delete room: sqlite's events go with it, buntdb's file stays.
DeleteRoom(r) ==
  /\ Command
  /\ rooms' = RoomsWithout({r})
  /\ stored' = IF backend = "sqlite" THEN Cascade({r}) ELSE stored
  /\ removed' = removed \cup {r}
  /\ UNCHANGED <<users, acked>>

Next ==
  \/ Open \/ List \/ FindAdmin \/ StoreAdmin \/ StoreDefault \/ Stop
  \/ \E c \in Conns : \/ Connect(c) \/ ConnectNameless(c) \/ Login(c) \/ StoreNew(c)
                      \/ Logout(c) \/ Leave(c) \/ Publish(c) \/ PublishMore(c)
  \/ \E r \in Rooms : HubStore(r) \/ DeleteRoom(r)
  \/ \E u \in Ids : ChangeUserTags(u) \/ DeleteUser(u)
  \/ \E u, n \in Accounts : SetUser(u, n)
  \/ \E r \in Rooms, o \in Accounts \cup {Nobody} : SetRoom(r, o)

Spec == Init /\ [][Next]_vars

-----------------------------------------------------------------------------
Known(u) == Row(u) \/ u \in removed \cup adrift

\* Who is on a connection has a row, unless a command removed it or a logout made them up.
SessionsStored ==
  \A c \in Conns : sess[c].user # Nobody => Known(sess[c].user)

\* While the storage works an event is refused only for a reason: its author was a guest
\* made up by a logout, or a command removed its author or its room.
LossExplained ==
  \A e \in failed : log[e].author \in adrift \cup removed \/ log[e].room \in removed

\* What makes it so: a session's user and a queued event's author have rows, and rooms with
\* a hub have theirs (with buntdb, a file too), unless something removed them since.
HubsKnown  ==
  /\ main # "up" => hubs = {}
  /\ \A r \in hubs : HasRoom(r) \/ r \in removed
  /\ backend = "buntdb" /\ main # "down" => {r \in Rooms : HasRoom(r)} \cup hubs \subseteq dbs
SessionsKnown ==
  \A c \in Conns : sess[c] # Off => /\ sess[c].room \in hubs
                                    /\ sess[c].user # Nobody => Known(sess[c].user)
QueueKnown ==
  \A r \in Rooms : \A i \in DOMAIN hq[r] :
    r \in hubs /\ hq[r][i] \in DOMAIN log /\ log[hq[r][i]].room = r /\ Known(log[hq[r][i]].author)
IInv == TypeOK /\ HubsKnown /\ SessionsKnown /\ QueueKnown /\ failed \subseteq DOMAIN log /\ LossExplained

\* With sqlite a room that is created has no events from before: what is left of a removed
\* room is gone, and nothing is stored for it since.  (With buntdb its file is still there.)
RoomStartsEmpty ==
  [][\A r \in Rooms : backend = "sqlite" /\ ~HasRoom(r) /\ HasRoom(r)' => stored'[r] = {}]_vars

\* "Atomically updating Tags values": what a plugin was told is done shows in the user's tags
\* until a command sets or removes the user.  Neither a restart nor a login undoes it; all that
\* does is the second of two first connections, whose lookup missed before the first stored.
UpdatesOutlive ==
  [][\A u \in Ids : acked[u] \subseteq (IF Row(u) THEN users[u].tags ELSE {}) =>
       \/ acked'[u] \subseteq (IF Row(u)' THEN users'[u].tags ELSE {})
       \/ \E c \in Conns : sess[c].want = u /\ sess'[c].user = u]_vars
=============================================================================
