--------------------------- MODULE PluginPipeline ---------------------------
(***************************************************************************)
(* How events travel through the plugins of a room (handlePlugins and       *)
(* handleEvents in ws/hub.go, EmitEvents in ws/events.go): every goroutine   *)
(* that publishes walks the plugin map with its events, a plugin's answer is *)
(* walked through the other plugins first, and then broadcast and stored.    *)
(* Sources are the ReadLoops and the greetings (with a PluginLoop behind     *)
(* them), the plugins that emit events on their own, and the cron jobs.      *)
(* Here clients are registered for good: joining and leaving, and the locks, *)
(* are ClientLifecycle's.                                                    *)
(***************************************************************************)
EXTENDS Naturals, Sequences, FiniteSets, SequencesExt

CONSTANTS
  Clients,   \* registered clients
  Plugins,   \* pluginMap
  Emitters,  \* the plugins that call EmitEvents
  Crons,     \* the plugins with a cron spec
  Kinds,     \* what events there are: [internal, target, fits]
  ChanCap,   \* capacity of BroadcastEvents, EventHistory and PluginChan
  BatchMax,  \* events in one answer of a plugin
  MaxEvents  \* events created in a behaviour

\* internal: the event's name is "_internal"; target: it has a target filter;
\* fits: the plugins whose event filter accepts it (or that have none).
ASSUME KindsAreTyped ==
  Kinds \subseteq [internal : BOOLEAN, target : BOOLEAN, fits : SUBSET Plugins]
ASSUME PluginsPublish == Emitters \subseteq Plugins /\ Crons \subseteq Plugins
ASSUME PluginsFinite  == IsFiniteSet(Plugins) /\ Plugins # {}
ASSUME LimitsAreNat   == ChanCap \in Nat \ {0} /\ BatchMax \in Nat \ {0} /\ MaxEvents \in Nat

Loops   == {[kind |-> "loop", of |-> c] : c \in Clients}
Readers == {[kind |-> k, of |-> c] : k \in {"read", "greet"}, c \in Clients}
Helpers == {[kind |-> "emit", of |-> p] : p \in Emitters}
Jobs    == {[kind |-> "cron", of |-> p] : p \in Crons}
Walkers == Loops \cup Helpers \cup Jobs
Threads == Walkers \cup Readers

VARIABLES
  log,         \* the events that were created
  pluginChan,  \* Client.PluginChan
  bq,          \* Hub.BroadcastEvents
  hq,          \* Hub.EventHistory
  shown,       \* the events that the hub broadcast, in its order
  kept,        \* the events that the hub put into the history
  stack,       \* the calls of handlePlugins that a goroutine is in
  out,         \* the sends that a goroutine has before it
  offers,      \* how often a plugin was handed an event
  lastName     \* the loop variable pluginName of Hub.Run, after its loop

vars == <<log, pluginChan, bq, hq, shown, kept, stack, out, offers, lastName>>

Events  == 1 .. MaxEvents
\* Events are named by their position in log, and a batch always has them in that order,
\* so a set will do for it.
Batches == (SUBSET Events) \ {{}}
Places  == {"history", "broadcast", "plugin"}
Entries == [by : Threads, author : Plugins \cup Clients, kind : Kinds,
            chain : SUBSET Plugins, cause : SUBSET Events]
\* A call of handlePlugins: todo are the plugins its loop has not come to, and publish
\* tells whether handleEvents follows it.
Frames  == [events : Batches, todo : SUBSET Plugins, skip : SUBSET Plugins, publish : BOOLEAN]
\* The events that a goroutine is to send, and where to.
Idle    == [events |-> {}, to |-> <<>>]
Sends   == [events : Batches, to : Seq(Places)] \cup {Idle}

Depth == Cardinality(Plugins) + 1

\* The types of what the walks through the plugin map are made of, and of the hub's part.
WalkTypeOK ==
  /\ log \in Seq(Entries) /\ Len(log) <= MaxEvents
  /\ pluginChan \in [Clients -> Seq(Batches)]
  /\ stack \in [Walkers -> Seq(Frames)]
  /\ out \in [Threads -> Sends]
  /\ offers \in [Events -> [Plugins -> Nat]]
  /\ lastName \in Plugins
TypeOK ==
  /\ WalkTypeOK
  /\ \A c \in Clients : Len(pluginChan[c]) <= ChanCap
  /\ bq \in Seq(Batches) /\ Len(bq) <= ChanCap
  /\ hq \in Seq(Batches) /\ Len(hq) <= ChanCap
  /\ shown \in Seq(Events) /\ kept \in Seq(Events)

Init ==
  /\ log = <<>> /\ bq = <<>> /\ hq = <<>> /\ shown = <<>> /\ kept = <<>>
  /\ pluginChan = [c \in Clients |-> <<>>]
  /\ stack = [t \in Walkers |-> <<>>]
  /\ out = [t \in Threads |-> Idle]
  /\ offers = [e \in Events |-> [p \in Plugins |-> 0]]
  /\ lastName \in Plugins

-----------------------------------------------------------------------------
\* Bugs for the properties to notice.
HasRoomAlways(q)       == TRUE
SkipsUnchanged(f, p)   == f.skip
StopAfterVisit(f, p)   == {}
HistoryOnly            == <<"history">>
ChatPluginsFirst       == <<"plugin", "history", "broadcast">>
KeepsInternal(batch, l) == batch

HasRoom(q) == Len(q) < ChanCap

\* The skip list for the plugins that are asked about p's answer.
Skips(f, p) == f.skip \cup {p}

\* The iteration over the plugin map goes on with the other plugins.
AfterVisit(f, p) == f.todo \ {p}

\* handleEvents: clients first, then the history.
HandleEventsTo == <<"broadcast", "history">>

\* ReadLoop's order for a chat message, and for an event of another name.
ChatTo == <<"history", "broadcast", "plugin">>

\* EvaluatePluginFilterEvent.
PassesFilter(p, e) == log[e].kind.target => p \in log[e].kind.fits

\* The events of a batch that plugin p is handed.
PassEvents(f, p) == {e \in f.events : PassesFilter(p, e)}

\* EmitEvents takes the internal events out.
KeepEvents(batch, l) == {e \in batch : ~l[e].kind.internal}

\* What a cron job starts with in its skip list: the closure has captured Hub.Run's loop
\* variable, which holds the last name of the iteration by the time the job runs.
CronSkips(p) == {lastName}

Top(t)      == Last(stack[t])   \* the innermost call
Running(t)  == stack[t] # <<>> /\ out[t] = Idle
Resting(t)  == stack[t] = <<>> /\ out[t] = Idle
SetTop(t, f) == Append(Front(stack[t]), f)

\* The log l with n new events, of any kinds, and their names.
Created(l, n, t, author, chain, cause) ==
  {l \o [i \in 1 .. n |-> [by |-> t, author |-> author, kind |-> k[i],
                             chain |-> chain, cause |-> cause]] : k \in [1 .. n -> Kinds]}
NewBatch(l, n)  == Len(l) + 1 .. Len(l) + n
\* A batch as the sequence that it is.
InOrder(batch)  ==
  LET places == 1 .. Cardinality(batch) IN
  CHOOSE s \in [places -> batch] : \A i, j \in places : i < j => s[i] < s[j]

-----------------------------------------------------------------------------
\* ReadLoop: a chat message and a frame of any other name, which may well be "_internal", go
\* everywhere; a command and the reply to a guest, which have names of their own, only to the
\* plugins (and to the client itself).
Read(t) ==
  /\ t.kind = "read" /\ out[t] = Idle /\ Len(log) < MaxEvents
  /\ log' \in Created(log, 1, t, t.of, {}, {})
  /\ \E to \in {ChatTo, <<"plugin">>} :
       /\ Last(log').kind.internal => to = ChatTo
       /\ out' = [out EXCEPT ![t] = [events |-> NewBatch(log, 1), to |-> to]]
  /\ UNCHANGED <<pluginChan, bq, hq, shown, kept, stack, offers, lastName>>

\* The handler greets a user once, by two goroutines with one send each.
Greet(t) ==
  /\ t.kind = "greet" /\ out[t] = Idle /\ Len(log) < MaxEvents
  /\ \A e \in DOMAIN log : log[e].by # t
  /\ log' \in Created(log, 1, t, t.of, {}, {})
  /\ ~Last(log').kind.internal /\ ~Last(log').kind.target
  /\ \E to \in {<<"broadcast", "plugin">>, <<"plugin", "broadcast">>} :
       out' = [out EXCEPT ![t] = [events |-> NewBatch(log, 1), to |-> to]]
  /\ UNCHANGED <<pluginChan, bq, hq, shown, kept, stack, offers, lastName>>

\* The next send of a goroutine, which blocks while the channel is full.
Send(t) ==
  LET o    == out[t]
      rest == IF Len(o.to) = 1 THEN Idle ELSE [o EXCEPT !.to = Tail(@)] IN
  /\ o.to # <<>>
  /\ out' = [out EXCEPT ![t] = rest]
  /\ CASE Head(o.to) = "history"   -> /\ HasRoom(hq) /\ hq' = Append(hq, o.events)
                                      /\ UNCHANGED <<bq, pluginChan>>
       [] Head(o.to) = "broadcast" -> /\ HasRoom(bq) /\ bq' = Append(bq, o.events)
                                      /\ UNCHANGED <<hq, pluginChan>>
       [] Head(o.to) = "plugin"    -> /\ HasRoom(pluginChan[t.of])
                                      /\ pluginChan' = [pluginChan EXCEPT ![t.of] = Append(@, o.events)]
                                      /\ UNCHANGED <<bq, hq>>
  /\ UNCHANGED <<log, shown, kept, stack, offers, lastName>>

\* PluginLoop calls handlePlugins, which nothing follows: ReadLoop has published.
LoopTake(t) ==
  /\ t.kind = "loop" /\ Resting(t) /\ pluginChan[t.of] # <<>>
  /\ stack' = [stack EXCEPT ![t] = <<[events |-> Head(pluginChan[t.of]), todo |-> Plugins,
                                       skip |-> {}, publish |-> FALSE]>>]
  /\ pluginChan' = [pluginChan EXCEPT ![t.of] = Tail(@)]
  /\ UNCHANGED <<log, bq, hq, shown, kept, out, offers, lastName>>

\* The walk of the plugin map that publishes the batch when it is over.
Walk(batch, skip) == [events |-> batch, todo |-> Plugins, skip |-> skip, publish |-> TRUE]

\* EmitEvents: a plugin emits events on its own.
EmitEvents(t) ==
  /\ t.kind = "emit" /\ Resting(t)
  /\ \E n \in 1 .. BatchMax :
       /\ Len(log) + n <= MaxEvents
       /\ log' \in Created(log, n, t, t.of, {t.of}, {})
       /\ LET keep == KeepEvents(NewBatch(log, n), log') IN
          stack' = IF keep = {} THEN stack
                   ELSE [stack EXCEPT ![t] = <<Walk(keep, {t.of})>>]
  /\ UNCHANGED <<pluginChan, bq, hq, shown, kept, out, offers, lastName>>

\* A cron job of Hub.Run: it publishes what the plugin's Cron returns.
CronRuns(t) ==
  /\ t.kind = "cron" /\ Resting(t)
  /\ \E n \in 1 .. BatchMax :
       /\ Len(log) + n <= MaxEvents
       /\ log' \in Created(log, n, t, t.of, {t.of}, {})
       /\ stack' = [stack EXCEPT ![t] = <<Walk(NewBatch(log, n), CronSkips(t.of))>>]
  /\ UNCHANGED <<pluginChan, bq, hq, shown, kept, out, offers, lastName>>

\* handlePlugins leaves out a plugin of the skip list, and one that no event is for.
PassOver(t, p) ==
  LET f == Top(t) IN
  /\ Running(t) /\ p \in f.todo
  /\ p \in f.skip \/ PassEvents(f, p) = {}
  /\ stack' = [stack EXCEPT ![t] = SetTop(t, [f EXCEPT !.todo = AfterVisit(f, p)])]
  /\ UNCHANGED <<log, pluginChan, bq, hq, shown, kept, out, offers, lastName>>

\* HandleEvents: the plugin answers with an error, with no events, or with a batch that
\* the other plugins are asked about next.
Offer(t, p) ==
  LET f == Top(t)
      passed == PassEvents(f, p)
      after  == SetTop(t, [f EXCEPT !.todo = AfterVisit(f, p)])
      chain  == {p} \cup UNION {log[e].chain : e \in passed} IN
  /\ Running(t) /\ p \in f.todo \ f.skip /\ passed # {}
  /\ offers' = [e \in Events |-> IF e \in passed THEN [offers[e] EXCEPT ![p] = @ + 1]
                                 ELSE offers[e]]
  /\ \/ stack' = [stack EXCEPT ![t] = after] /\ UNCHANGED log
     \/ \E n \in 1 .. BatchMax :
          /\ Len(log) + n <= MaxEvents
          /\ log' \in Created(log, n, t, p, chain, passed)
          /\ stack' = [stack EXCEPT ![t] = Append(after, Walk(NewBatch(log, n), Skips(f, p)))]
  /\ UNCHANGED <<pluginChan, bq, hq, shown, kept, out, lastName>>

\* handlePlugins is through the plugin map and returns; handleEvents publishes its events.
Return(t) ==
  /\ Running(t) /\ Top(t).todo = {}
  /\ stack' = [stack EXCEPT ![t] = Front(@)]
  /\ out' = IF Top(t).publish
            THEN [out EXCEPT ![t] = [events |-> Top(t).events, to |-> HandleEventsTo]]
            ELSE out
  /\ UNCHANGED <<log, pluginChan, bq, hq, shown, kept, offers, lastName>>

\* Hub.Run broadcasts all but the internal events of a batch ...
HubBroadcast ==
  /\ bq # <<>>
  /\ shown' = shown \o InOrder(KeepEvents(Head(bq), log))
  /\ bq' = Tail(bq)
  /\ UNCHANGED <<log, pluginChan, hq, kept, stack, out, offers, lastName>>

\* ... and puts every event of a batch into the history.
HubHistory ==
  /\ hq # <<>>
  /\ kept' = kept \o InOrder(Head(hq))
  /\ hq' = Tail(hq)
  /\ UNCHANGED <<log, pluginChan, bq, shown, stack, out, offers, lastName>>

Next ==
  \/ \E t \in Readers : Read(t) \/ Greet(t)
  \/ \E t \in Threads : Send(t)
  \/ \E t \in Walkers : LoopTake(t) \/ EmitEvents(t) \/ CronRuns(t) \/ Return(t)
  \/ \E t \in Walkers, p \in Plugins : PassOver(t, p) \/ Offer(t, p)
  \/ HubBroadcast \/ HubHistory

Spec == Init /\ [][Next]_vars

-----------------------------------------------------------------------------
Count(s, e) == Cardinality({i \in DOMAIN s : s[i] = e})
Index(s, e) == CHOOSE i \in DOMAIN s : s[i] = e

\* Nothing is on its way.
Quiet ==
  /\ bq = <<>> /\ hq = <<>> /\ \A c \in Clients : pluginChan[c] = <<>>
  /\ \A t \in Threads : out[t] = Idle
  /\ \A t \in Walkers : stack[t] = <<>>

Dropped(e) == log[e].by.kind = "emit" /\ log[e].cause = {} /\ log[e].kind.internal

\* The recursion of handlePlugins ends: each level has one plugin more in its skip list, so
\* it is at most one deeper than there are plugins that the outermost call does not skip.
StackBounded ==
  \A t \in Walkers : stack[t] # <<>> => Len(stack[t]) + Cardinality(Head(stack[t]).skip) <= Depth

\* What no cron job made or led to; the skip lists of the jobs are wrong.
NoCron(e) == log[e].by.kind # "cron"

\* But for a cron job's events no plugin is handed an event that its own events led to,
\* however many plugins answered each other in between.
NoFeedback == \A e \in DOMAIN log : NoCron(e) => \A p \in log[e].chain : offers[e][p] = 0

\* When everything is quiet each plugin has been handed each event exactly once, but for
\* those that it led to, those that its filter keeps from it, and a cron job's events.
EveryoneAsked ==
  Quiet => \A e \in DOMAIN log, p \in Plugins :
             NoCron(e) => LET asked == p \notin log[e].chain /\ PassesFilter(p, e) /\ ~Dropped(e) IN
                          offers[e][p] = IF asked THEN 1 ELSE 0

\* When everything is quiet what plugins answered and emitted has been broadcast and stored
\* exactly once, a greeting has not been stored, and a client's event has both or neither;
\* one that is internal has been stored and broadcast to nobody.
PublishedOnce ==
  Quiet => \A e \in DOMAIN log :
    LET is == <<Count(shown, e), Count(kept, e)>> IN
    CASE Dropped(e)               -> is = <<0, 0>>
      [] log[e].by.kind = "greet" -> is = <<1, 0>>
      [] log[e].by.kind = "read"  ->
           is \in IF log[e].kind.internal THEN {<<0, 1>>} ELSE {<<0, 0>>, <<1, 1>>}
      [] OTHER                    -> is = <<IF log[e].kind.internal THEN 0 ELSE 1, 1>>

\* The two lines out of the pipeline: a channel, and what the hub has done.
Lines    == {"broadcast", "history"}
Queue(d) == IF d = "broadcast" THEN bq ELSE hq
Done(d)  == IF d = "broadcast" THEN shown ELSE kept

\* Clients and the history get a plugin's answer after the message of a ReadLoop that it
\* answers, and before an event of another plugin that it answers. The clients, who see no
\* internal event, may see the answer to one.
AnswersInOrder ==
  \A d \in Lines : LET s == Done(d) IN
    \A f \in ToSet(s) : \A e \in log[f].cause :
      IF log[e].by \in Walkers
      THEN e \in ToSet(s) => Index(s, f) < Index(s, e)
      ELSE (/\ log[e].by.kind = "read"
            /\ e \in ToSet(shown) \cup ToSet(kept)
            /\ ~(d = "broadcast" /\ log[e].kind.internal))
           => e \in ToSet(s) /\ Index(s, e) < Index(s, f)

-----------------------------------------------------------------------------

\* What goroutine t is about to send, to which of the two lines, and behind it what its calls
\* of handlePlugins are still to publish: all but the outermost call of a PluginLoop.
Goes(to, d)    == \E i \in 1 .. Len(to) : to[i] = d
Toward(o, d)   == IF Goes(o.to, d) THEN o.events ELSE {}
OnWay(d, t)    == Toward(out[t], d)
Walked(s)      == [i \in 1 .. Len(s) |-> s[i].events]
Bound(b, to)   == [batch |-> b, lines |-> to]
Inner(s, n)    == [i \in 1 .. Len(s) - n |-> Bound(s[i + n].events, Lines)]
ToPublish(t)   == IF t.kind \in {"read", "greet"} \/ stack[t] = <<>> THEN <<>>
                  ELSE Inner(stack[t], IF t.kind = "loop" THEN 1 ELSE 0)
ToLines(t)     == {d \in Lines : Goes(out[t].to, d)}
Coming(t)      == IF out[t] = Idle \/ ToLines(t) = {} THEN ToPublish(t)
                  ELSE Append(ToPublish(t), Bound(out[t].events, ToLines(t)))

\* A chat message goes both ways or neither, a greeting to the clients, the rest both ways.
LinesOf(t) == CASE t.kind = "read"  -> {Lines, {}}
                [] t.kind = "greet" -> {{"broadcast"}}
                [] OTHER            -> {Lines}

Publish == INSTANCE Publication WITH
  Event      <- Events,
  Publishers <- Threads,
  Routes     <- [t \in Threads |-> LinesOf(t)],
  Cap        <- ChanCap,
  made       <- DOMAIN log,
  internal   <- {e \in DOMAIN log : log[e].kind.internal},
  coming     <- [t \in Threads |-> Coming(t)],
  queue      <- [d \in Lines |-> Queue(d)],
  done       <- [d \in Lines |-> Done(d)]

\* The walks through the plugins, however deep, put answers before what they answer and
\* lose, repeat or change nothing on the way to the clients and to the history.
IsPublication == Publish!Spec
=============================================================================
