----------------------------- MODULE HubHistory -----------------------------
(***************************************************************************)
(* A room's history across crashes: the publishers that queue events on     *)
(* Hub.EventHistory, the EventHistory case of Hub.Run that appends to the   *)
(* ring and only then persists (ws/hub.go), the event tables of the three   *)
(* persisters that NewPersister can return (persistence/), and NewHub, which *)
(* loads the ring again when the process is restarted.  The ring is          *)
(* EventRing's, whose events are those of this room.                        *)
(***************************************************************************)
EXTENDS EventRing, FiniteSets, SequencesExt

CONSTANTS
  Publishers,  \* goroutines that publish: ReadLoops and plugins' answers
  Plugins,     \* the publishers that are plugins
  Backends,    \* the persisters to consider
  ChanCap,     \* historyChannelSize
  BatchMax,    \* events in one answer of a plugin
  MaxEvents,   \* events created in a behaviour
  MaxCrashes   \* crashes in a behaviour

Elsewhere == "another room"   \* who makes the events of other rooms

ASSUME PublishersHere  == Elsewhere \notin Publishers
ASSUME PluginsPublish  == Plugins \subseteq Publishers
ASSUME BackendsKnown   == Backends \subseteq {"buntdb", "sqlite", "gorm", "none"}
ASSUME SizesArePositive == {ChanCap, BatchMax} \subseteq Nat \ {0}
ASSUME LimitsAreNat    == {MaxEvents, MaxCrashes} \subseteq Nat
ASSUME EventsAreNumbers == 1 .. MaxEvents \subseteq Event

VARIABLES
  backend,  \* the configured persister
  log,      \* the events that were created, oldest first: who and in which second
  outbox,   \* the batch that a publisher waits to send
  hq,       \* Hub.EventHistory
  storing,  \* the batch that Hub.Run is persisting
  stored,   \* the event table
  failed,   \* events whose StoreEvents returned an error
  crashes,  \* crashes so far
  boot      \* how long log was when the process last started

vars == <<backend, log, outbox, hq, ring, storing, stored, failed, crashes, boot>>

\* The room's events are named by their position in log.
Events    == 1 .. MaxEvents
Shown     == ToSet(Contents(ring))   \* what GetHistory returns
Own       == {e \in DOMAIN log : log[e].by # Elsewhere}
Batches   == UNION {[1 .. n -> Events] : n \in 1 .. BatchMax}

TypeOK ==
  /\ backend \in Backends /\ crashes \in 0 .. MaxCrashes /\ boot \in 0 .. Len(log)
  /\ log \in Seq([by : Publishers \cup {Elsewhere}, sec : Nat]) /\ Len(log) <= MaxEvents
  /\ outbox \in [Publishers -> Batches \cup {<<>>}]
  /\ hq \in Seq(Batches) /\ Len(hq) <= ChanCap
  /\ ring \in Rings /\ storing \in Batches \cup {<<>>}
  /\ stored \subseteq DOMAIN log /\ failed \subseteq DOMAIN log

Init ==
  /\ backend \in Backends
  /\ log = <<>> /\ hq = <<>> /\ storing = <<>>
  /\ outbox = [p \in Publishers |-> <<>>]
  /\ ring = EmptyRing
  /\ stored = {} /\ failed = {}
  /\ crashes = 0 /\ boot = 0

-----------------------------------------------------------------------------
\* Bugs for the properties to notice.
HasRoomAlways        == TRUE
PutBackwards(r, s)   == FoldLeft(Put, r, Reverse(s))
ToPersistNothing(s)  == <<>>
ReloadedOnto(s)      == FoldLeft(Put, ring, s)

\* A send on EventHistory blocks when the channel is full.
HasRoom == Len(hq) < ChanCap

\* The batch is put into the ring, first event first.
PutAll(r, s) ==
  LET put[i \in 0 .. Len(s)] == IF i = 0 THEN r ELSE Put(put[i - 1], s[i])
  IN  put[Len(s)]

\* What Hub.Run hands to StoreEvents.
ToPersist(s) == IF backend = "none" THEN <<>> ELSE s

\* The ring of a new hub, after the events that it loads.
Reloaded(s) == PutAll(EmptyRing, s)

-----------------------------------------------------------------------------
\* When an event was created, as far as the tables can tell: gRPC cuts what a plugin
\* creates down to the second, a ReadLoop's events differ in their nanoseconds.
Nano(e) == IF log[e].by \in Plugins THEN 0 ELSE e

\* e may be listed before f.  buntdb descends over the rendered time, where trimmed zeros
\* decide within a second; sqlite sorts by the second, then by nanoseconds descending.
ListedBefore(e, f) ==
  LET SameSecond == log[e].sec = log[f].sec IN
  CASE backend = "buntdb" -> log[e].sec >= log[f].sec
    [] backend = "sqlite" -> log[e].sec < log[f].sec \/ (SameSecond /\ Nano(e) >= Nano(f))
    [] backend = "gorm"   -> log[e].sec > log[f].sec \/ (SameSecond /\ Nano(e) >= Nano(f))

\* The events that GetEventHistory considers: gorm's query does not ask for the room.
Listed(S) == IF backend = "gorm" THEN S ELSE S \cap Own

LoadsSkippingOne(S) ==
  {SubSeq(s, 2, Len(s)) : s \in {t \in SetToSeqs(Listed(S)) :
     \A i, j \in DOMAIN t : i < j => ListedBefore(t[i], t[j])}}

\* What GetEventHistory(room, ..., 0, Size) may return.
Loads(S) ==
  {IF Len(s) > Size THEN SubSeq(s, 1, Size) ELSE s :
     s \in {t \in SetToSeqs(Listed(S)) :
              \A i, j \in DOMAIN t : i < j => ListedBefore(t[i], t[j])}}

-----------------------------------------------------------------------------
Seconds == LET now == IF log = <<>> THEN 1 ELSE Last(log).sec IN {now, now + 1}

\* NewEvent: a ReadLoop makes one event of a frame, a plugin answers with several.
Create(p) ==
  /\ outbox[p] = <<>>
  /\ \E n \in 1 .. BatchMax, s \in Seconds :
       /\ p \in Plugins \/ n = 1
       /\ Len(log) + n <= MaxEvents
       /\ log' = log \o [i \in 1 .. n |-> [by |-> p, sec |-> s]]
       /\ outbox' = [outbox EXCEPT ![p] = [i \in 1 .. n |-> Len(log) + i]]
  /\ UNCHANGED <<backend, hq, ring, storing, stored, failed, crashes, boot>>

Send(p) ==
  /\ outbox[p] # <<>> /\ HasRoom
  /\ hq' = Append(hq, outbox[p])
  /\ outbox' = [outbox EXCEPT ![p] = <<>>]
  /\ UNCHANGED <<backend, log, ring, storing, stored, failed, crashes, boot>>

\* Another room's hub shares an SQL database, not a buntdb file.
StoreElsewhere ==
  /\ backend \in {"sqlite", "gorm"} /\ Len(log) < MaxEvents
  /\ \E s \in Seconds : log' = Append(log, [by |-> Elsewhere, sec |-> s])
  /\ stored' = stored \cup {Len(log) + 1}
  /\ UNCHANGED <<backend, outbox, hq, ring, storing, failed, crashes, boot>>

\* The EventHistory case, up to StoreEvents ...
HubTake ==
  /\ storing = <<>> /\ hq # <<>>
  /\ ring' = PutAll(ring, Head(hq))
  /\ storing' = ToPersist(Head(hq))
  /\ hq' = Tail(hq)
  /\ UNCHANGED <<backend, log, outbox, stored, failed, crashes, boot>>

\* ... which commits the whole batch, or none of it, with the error logged.
HubStore ==
  /\ storing # <<>>
  /\ storing' = <<>>
  /\ \/ stored' = stored \cup ToSet(storing) /\ UNCHANGED failed
     \/ failed' = failed \cup ToSet(storing) /\ UNCHANGED stored
  /\ UNCHANGED <<backend, log, outbox, hq, ring, crashes, boot>>

\* The process ends, with StoreEvents committed or not, and is started again: NewHub
\* loads what it can get, or nothing when GetEventHistory returns an error.
Restart ==
  /\ crashes < MaxCrashes
  /\ outbox' = [p \in Publishers |-> <<>>]
  /\ hq' = <<>> /\ storing' = <<>>
  /\ stored' \in {stored, stored \cup ToSet(storing)}
  /\ \/ ring' = EmptyRing
     \/ backend # "none" /\ \E s \in Loads(stored') : ring' = Reloaded(s)
  /\ crashes' = crashes + 1 /\ boot' = Len(log)
  /\ UNCHANGED <<backend, log, failed>>

Next == \/ \E p \in Publishers : Create(p) \/ Send(p)
        \/ StoreElsewhere \/ HubTake \/ HubStore \/ Restart

Spec == Init /\ [][Next]_vars

-----------------------------------------------------------------------------
\* Who reads the history sees no event that a crash would lose unnoticed: each is in the
\* table, or in the one batch whose StoreEvents is running, or its error was logged.
LossWindow == backend = "none" \/ Shown \subseteq stored \cup ToSet(storing) \cup failed

\* What was loaded and what was published since then do not overlap in the history.
NoDuplicates == IsInjective(Contents(ring))

\* Since the process started, the history lists each publisher's events in the order they
\* were made, and forgets the older of two of them first.
Index(e) == CHOOSE i \in 1 .. Len(Contents(ring)) : Contents(ring)[i] = e
Taken(e) == /\ e > boot
            /\ \A p \in Publishers : e \notin ToSet(outbox[p])
            /\ \A i \in DOMAIN hq : e \notin ToSet(hq[i])
PublisherOrder ==
  \A e \in Shown, f \in Own :
    e > boot /\ e < f /\ log[e].by = log[f].by /\ Taken(f) => f \in Shown /\ Index(e) < Index(f)

\* A restart shows stored events only, and all of the room's unless there are more than
\* the ring holds (or it could load nothing).
RestartShowsStored ==
  [][crashes' # crashes /\ backend # "none" =>
       /\ Shown' \subseteq stored'
       /\ Shown' # {} /\ Cardinality(Listed(stored')) < Size => Own \cap stored' \subseteq Shown']_vars

\* config.go:29: the history is the immediate one, so no event that a restart leaves out
\* is from a later second than one that it shows.
RestartKeepsNewest ==
  [][crashes' # crashes /\ Shown' # {} =>
       \A e \in (Own \cap stored') \ Shown', f \in Shown' : log[e].sec <= log[f].sec]_vars
=============================================================================
