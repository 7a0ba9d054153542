--------------------------- MODULE ClientLifecycle ---------------------------
(***************************************************************************)
(* The life of the websocket clients of one room, from the HTTP handler    *)
(* that registers a client (cmd/lightspeed-chat/main.go) over its ReadLoop, *)
(* WriteLoop and PluginLoop (ws/client.go) to the goroutine with which the *)
(* hub unregisters it and closes its channels (ws/hub.go).  The question    *)
(* is the one the code's comments discuss: who may still write to a        *)
(* client's channels when the hub closes them, and can everyone wait for   *)
(* everyone.                                                                *)
(*                                                                          *)
(* One action is one goroutine's step up to the next point where it can     *)
(* block.  Channels are the number of elements they hold; what the elements *)
(* say is chosen freely where it is read.                                   *)
(***************************************************************************)
EXTENDS Integers, FiniteSets

CONSTANTS
  Clients,        \* connections, one ws.Client each
  Users,          \* the clients whose user has an id when they connect
  Bcasts,         \* how many Broadcast goroutines may run at a time
  LoginSlots,     \* how many SendHistory goroutines a client's logins may run at a time
  SendCap,        \* sendChannelSize: of Send and of SendEvents
  PluginCap,      \* pluginChannelSize
  BroadcastCap,   \* broadcastChannelSize
  HistoryCap,     \* historyChannelSize
  MaxNames,       \* distinct event names in one batch of SendEvents
  Budget          \* frames the peers send and batches the plugins emit, together

ASSUME UsersAreClients == Users \subseteq Clients
ASSUME FiniteBcasts   == IsFiniteSet(Bcasts)
ASSUME JoinIsNoLogin  == "join" \notin LoginSlots
ASSUME CapsArePositive == {SendCap, PluginCap, BroadcastCap, HistoryCap} \subseteq Nat \ {0}
ASSUME BoundsAreNat   == {MaxNames, Budget} \subseteq Nat

VARIABLES
  clients,    \* Hub.clients
  rlocks,     \* who holds the hub's RWMutex for reading, across a point where it can block
  wlock,      \* who has announced Lock() on it: no RLock() succeeds from then on
  reg,        \* the hub's Register case, per client
  unreg,      \* the goroutine of the hub's Unregister case, per client
  bq, hq,     \* Hub.BroadcastEvents and Hub.EventHistory: elements held
  info,       \* SendInfo goroutines that have not sent yet
  bpc, btodo, bsend,  \* Broadcast goroutines: where, clients to visit, sends pending
  handler,    \* websocketHandler, per client
  wg,         \* Client.WaitGroup: its counter
  conn,       \* clients whose websocket connection is open
  done,       \* clients whose doneChan is closed
  closed,     \* clients whose Send, SendEvents and PluginChan are closed
  send, sendEvents, pluginChan,  \* elements held by the client's channels
  reader, writer, plugin,        \* ReadLoop, WriteLoop, PluginLoop
  left,       \* Send writes WriteLoop still owes for the batch it took from SendEvents
  greet,      \* the handler's two greeting goroutines that have not sent yet
  hist,       \* SendHistory goroutines, of the join and of logins
  budget      \* what is left of Budget

hubVars    == <<clients, reg, info>>
lockVars   == <<rlocks, wlock>>
queueVars  == <<bq, hq>>
bcastVars  == <<bpc, btodo, bsend>>
chanVars   == <<send, sendEvents, pluginChan>>
endVars    == <<conn, done, closed>>
loopVars   == <<reader, writer, plugin, left>>
helperVars == <<greet, hist>>
hubSide    == <<hubVars, lockVars, queueVars, bcastVars, unreg>>
clientSide == <<chanVars, endVars, loopVars, helperVars, handler, wg, budget>>
vars       == <<hubSide, clientSide>>

Slots == {"join"} \cup LoginSlots

\* A read lock is held by a ReadLoop, by a SendHistory or by a Broadcast.
ReadToken(c)    == <<"read", c>>
HistToken(c, k) == <<"hist", c, k>>
BcastToken(b)   == <<"bcast", b>>
HubToken        == <<"hub">>
UnregToken(c)   == <<"unreg", c>>

HubType ==
  /\ clients \in SUBSET Clients
  /\ reg \in [Clients -> {"no", "lock", "add", "done", "info", "yes"}]
  /\ info \in Nat
LockType ==
  /\ rlocks \subseteq {ReadToken(c) : c \in Clients}
                      \cup {HistToken(c, k) : c \in Clients, k \in Slots}
                      \cup {BcastToken(b) : b \in Bcasts}
  /\ wlock \subseteq {HubToken} \cup {UnregToken(c) : c \in Clients}
QueueType == bq \in 0 .. BroadcastCap /\ hq \in 0 .. HistoryCap /\ budget \in 0 .. Budget
BcastType ==
  /\ bpc \in [Bcasts -> {"idle", "rlock", "visit"}]
  /\ btodo \in [Bcasts -> SUBSET Clients] /\ bsend \in [Bcasts -> SUBSET Clients]
ChanType ==
  /\ send \in [Clients -> 0 .. SendCap] /\ sendEvents \in [Clients -> 0 .. SendCap]
  /\ pluginChan \in [Clients -> 0 .. PluginCap]
EndType == conn \subseteq Clients /\ done \subseteq Clients /\ closed \subseteq Clients
LoopType ==
  /\ reader \in [Clients -> {"off", "read", "history", "broadcast", "rlockPost", "rlockReply",
                             "reply", "plugin", "exit", "done"}]
  /\ writer \in [Clients -> {"off", "select", "push", "done"}]
  /\ plugin \in [Clients -> {"off", "select", "work", "emit", "store", "done"}]
  /\ left \in [Clients -> 0 .. MaxNames]
GreetType == greet \in [Clients -> SUBSET {"broadcast", "plugin"}]
HistType  == hist \in [Clients -> [Slots -> {"idle", "rlock", "send"}]]
HandlerType ==
  /\ handler \in [Clients -> {"new", "register", "wait", "sleep", "woken", "serve",
                              "unregister", "gone", "crashed"}]
  /\ unreg \in [Clients -> {"off", "check", "lock", "delete", "wait", "close", "info", "done"}]
  /\ wg \in [Clients -> Int]

TypeOK == /\ HubType /\ LockType /\ QueueType /\ BcastType /\ ChanType /\ EndType
          /\ LoopType /\ GreetType /\ HistType /\ HandlerType

Init ==
  /\ clients = {} /\ rlocks = {} /\ wlock = {}
  /\ reg = [c \in Clients |-> "no"] /\ unreg = [c \in Clients |-> "off"]
  /\ bq = 0 /\ hq = 0 /\ info = 0
  /\ bpc = [b \in Bcasts |-> "idle"]
  /\ btodo = [b \in Bcasts |-> {}] /\ bsend = [b \in Bcasts |-> {}]
  /\ handler = [c \in Clients |-> "new"] /\ wg = [c \in Clients |-> 0]
  /\ conn = {} /\ done = {} /\ closed = {}
  /\ send = [c \in Clients |-> 0] /\ sendEvents = [c \in Clients |-> 0]
  /\ pluginChan = [c \in Clients |-> 0]
  /\ reader = [c \in Clients |-> "off"] /\ writer = [c \in Clients |-> "off"]
  /\ plugin = [c \in Clients |-> "off"] /\ left = [c \in Clients |-> 0]
  /\ greet = [c \in Clients |-> {}]
  /\ hist = [c \in Clients |-> [k \in Slots |-> "idle"]]
  /\ budget = Budget

-----------------------------------------------------------------------------
\* Bugs the properties must notice: operators with the name of what they replace.
RLockForgotten(t)      == UNCHANGED rlocks
WriteLockedAmongReaders(t) == wlock = {t}
CanPushUnbounded(q, cap, c) == c \notin closed
WaitOverAtOnce(c)      == TRUE
HubAddKeepingLock(c) ==
  /\ reg[c] = "add" /\ wlock = {HubToken} /\ rlocks = {}
  /\ clients' = clients \cup {c} /\ reg' = [reg EXCEPT ![c] = "done"]
  /\ UNCHANGED <<clientSide, info, lockVars, queueVars, bcastVars, unreg>>
WriterExitWithoutDone(c) ==
  /\ writer' = [writer EXCEPT ![c] = "done"]
  /\ conn' = conn \ {c}
  /\ UNCHANGED <<wg, handler>>

\* sync.RWMutex: RLock() waits for an announced writer, Lock() for the readers.
CanRLock       == wlock = {}
RLock(t)       == rlocks' = rlocks \cup {t}
RUnlock(t)     == rlocks' = rlocks \ {t}
Announce(t)    == wlock = {} /\ wlock' = {t}
WriteLocked(t) == wlock = {t} /\ rlocks = {}

\* A send on one of c's channels blocks when it is full; on a closed one it panics.
CanPush(q, cap, c) == c \notin closed /\ q[c] < cap
Pushed(q, c)       == [q EXCEPT ![c] = @ + 1]
Popped(q, c)       == [q EXCEPT ![c] = @ - 1]

\* WaitGroup.Wait() returns when the counter is zero.
WaitOver(c) == wg[c] = 0

\* WaitGroup.Done(); reaching zero releases the handler that sleeps in Wait().
WgDone(c) ==
  /\ wg' = [wg EXCEPT ![c] = @ - 1]
  /\ handler' = IF wg[c] = 1 /\ handler[c] = "sleep"
                  THEN [handler EXCEPT ![c] = "woken"] ELSE handler

\* Hub.Run is back at its select.
HubIdle == \A c \in Clients : reg[c] \in {"no", "yes"}

-----------------------------------------------------------------------------
(* websocketHandler *)

\* A connection is upgraded: NewClient, go PluginLoop, Add(1), then Register <- c.
HandlerStart(c) ==
  /\ handler[c] = "new"
  /\ handler' = [handler EXCEPT ![c] = "register"]
  /\ wg' = [wg EXCEPT ![c] = @ + 1]
  /\ plugin' = [plugin EXCEPT ![c] = "select"]
  /\ conn' = conn \cup {c}
  /\ UNCHANGED <<hubSide, chanVars, done, closed, reader, writer, left, helperVars, budget>>

\* The unbuffered Register channel: the handler's send is the hub's receive.
HandlerRegister(c) ==
  /\ handler[c] = "register" /\ HubIdle
  /\ handler' = [handler EXCEPT ![c] = "wait"]
  /\ reg' = [reg EXCEPT ![c] = "lock"]
  /\ UNCHANGED <<clients, info, lockVars, queueVars, bcastVars, chanVars, endVars, loopVars,
                 helperVars, unreg, wg, budget>>

\* c.Wait() returned: Add(2), the loops, the greetings of a user with an id, SendHistory.
Serve(c) ==
  /\ WaitOver(c)
  /\ handler' = [handler EXCEPT ![c] = "serve"]
  /\ wg' = [wg EXCEPT ![c] = @ + 2]
  /\ reader' = [reader EXCEPT ![c] = "read"]
  /\ writer' = [writer EXCEPT ![c] = "select"]
  /\ greet' = [greet EXCEPT ![c] = IF c \in Users THEN {"broadcast", "plugin"} ELSE {}]
  /\ hist' = [hist EXCEPT ![c]["join"] = "rlock"]
  /\ UNCHANGED <<hubSide, chanVars, endVars, plugin, left, budget>>

HandlerServe(c) == handler[c] \in {"wait", "woken"} /\ Serve(c)

HandlerSleep(c) ==
  /\ handler[c] = "wait" /\ ~WaitOver(c)
  /\ handler' = [handler EXCEPT ![c] = "sleep"]
  /\ UNCHANGED <<hubSide, chanVars, endVars, loopVars, helperVars, wg, budget>>

\* Woken, but the counter moved again: "WaitGroup is reused before previous Wait has
\* returned".  The deferred conn.Close() runs; the deferred Unregister is not set yet.
HandlerCrash(c) ==
  /\ handler[c] = "woken" /\ ~WaitOver(c)
  /\ handler' = [handler EXCEPT ![c] = "crashed"]
  /\ conn' = conn \ {c}
  /\ UNCHANGED <<hubSide, chanVars, done, closed, loopVars, helperVars, wg, budget>>

\* wg.Wait() for the greetings and the join's SendHistory, then <-doneChan.
HandlerLeave(c) ==
  /\ handler[c] = "serve" /\ c \in done
  /\ greet[c] = {} /\ hist[c]["join"] = "idle"
  /\ handler' = [handler EXCEPT ![c] = "unregister"]
  /\ UNCHANGED <<hubSide, chanVars, endVars, loopVars, helperVars, wg, budget>>

\* The deferred Unregister <- c, received by the hub, and the deferred conn.Close().
HandlerUnregister(c) ==
  /\ handler[c] = "unregister" /\ HubIdle
  /\ handler' = [handler EXCEPT ![c] = "gone"]
  /\ unreg' = [unreg EXCEPT ![c] = "check"]
  /\ conn' = conn \ {c}
  /\ UNCHANGED <<hubVars, lockVars, queueVars, bcastVars, chanVars, done, closed, loopVars,
                 helperVars, wg, budget>>

GreetBroadcast(c) ==
  /\ "broadcast" \in greet[c] /\ bq < BroadcastCap
  /\ bq' = bq + 1
  /\ greet' = [greet EXCEPT ![c] = @ \ {"broadcast"}]
  /\ UNCHANGED <<hubVars, lockVars, hq, bcastVars, chanVars, endVars, loopVars, hist, unreg,
                 handler, wg, budget>>

GreetPlugin(c) ==
  /\ "plugin" \in greet[c] /\ CanPush(pluginChan, PluginCap, c)
  /\ pluginChan' = Pushed(pluginChan, c)
  /\ greet' = [greet EXCEPT ![c] = @ \ {"plugin"}]
  /\ UNCHANGED <<hubSide, send, sendEvents, endVars, loopVars, hist, handler, wg, budget>>

-----------------------------------------------------------------------------
(* SendHistory: one goroutine per join, and one per login that asks for it *)

HistRLock(c, k) ==
  /\ hist[c][k] = "rlock" /\ CanRLock
  /\ IF c \in clients
       THEN /\ RLock(HistToken(c, k))
            /\ hist' = [hist EXCEPT ![c][k] = "send"]
       ELSE /\ hist' = [hist EXCEPT ![c][k] = "idle"]
            /\ UNCHANGED rlocks
  /\ UNCHANGED <<hubVars, wlock, queueVars, bcastVars, chanVars, endVars, loopVars, greet,
                 unreg, handler, wg, budget>>

HistSend(c, k) ==
  /\ hist[c][k] = "send" /\ CanPush(sendEvents, SendCap, c)
  /\ sendEvents' = Pushed(sendEvents, c)
  /\ RUnlock(HistToken(c, k))
  /\ hist' = [hist EXCEPT ![c][k] = "idle"]
  /\ UNCHANGED <<hubVars, wlock, queueVars, bcastVars, send, pluginChan, endVars, loopVars,
                 greet, unreg, handler, wg, budget>>

-----------------------------------------------------------------------------
(* ReadLoop *)

ReaderGoto(c, pc) == reader' = [reader EXCEPT ![c] = pc]

\* A chat line or any other event of a user with an id is published.
ReaderPublish(c) ==
  /\ reader[c] = "read" /\ budget > 0
  /\ budget' = budget - 1
  /\ ReaderGoto(c, "history")
  /\ UNCHANGED <<hubSide, chanVars, endVars, writer, plugin, left, helperVars, handler, wg>>

\* ReadMessage fails or a frame cannot be decoded: conn.Close(), close(doneChan).
ReaderReturns(c) ==
  /\ ReaderGoto(c, "exit")
  /\ conn' = conn \ {c} /\ done' = done \cup {c}

\* A login that sends the history again; its frame is then decoded once more, and
\* published like any other.
ReaderLogin(c) ==
  /\ reader[c] = "read" /\ budget > 0
  /\ \E k \in LoginSlots : hist[c][k] = "idle" /\ hist' = [hist EXCEPT ![c][k] = "rlock"]
  /\ budget' = budget - 1
  /\ \/ ReaderGoto(c, "history") /\ UNCHANGED <<conn, done>>
     \/ ReaderReturns(c)
  /\ UNCHANGED <<hubSide, chanVars, closed, writer, plugin, left, greet, handler, wg>>

\* A command, and any frame of a user without an id, is answered to the client alone.
ReaderReply(c) ==
  /\ reader[c] = "read" /\ budget > 0
  /\ budget' = budget - 1
  /\ ReaderGoto(c, "rlockReply")
  /\ UNCHANGED <<hubSide, chanVars, endVars, writer, plugin, left, helperVars, handler, wg>>

ReaderFail(c) ==
  /\ reader[c] = "read"
  /\ ReaderReturns(c)
  /\ UNCHANGED <<hubSide, chanVars, closed, writer, plugin, left, helperVars, handler, wg,
                 budget>>

ReaderDone(c) ==
  /\ reader[c] = "exit"
  /\ ReaderGoto(c, "done")
  /\ WgDone(c)
  /\ UNCHANGED <<hubSide, chanVars, endVars, writer, plugin, left, helperVars, budget>>

ReaderStore(c) ==
  /\ reader[c] = "history" /\ hq < HistoryCap
  /\ hq' = hq + 1
  /\ ReaderGoto(c, "broadcast")
  /\ UNCHANGED <<hubVars, lockVars, bq, bcastVars, chanVars, endVars, writer, plugin, left,
                 helperVars, unreg, handler, wg, budget>>

ReaderBroadcast(c) ==
  /\ reader[c] = "broadcast" /\ bq < BroadcastCap
  /\ bq' = bq + 1
  /\ ReaderGoto(c, "rlockPost")
  /\ UNCHANGED <<hubVars, lockVars, hq, bcastVars, chanVars, endVars, writer, plugin, left,
                 helperVars, unreg, handler, wg, budget>>

\* RLock and the membership test; a client that is no longer registered sends nothing.
ReaderRLock(c) ==
  /\ reader[c] \in {"rlockPost", "rlockReply"} /\ CanRLock
  /\ IF c \in clients
       THEN /\ RLock(ReadToken(c))
            /\ ReaderGoto(c, IF reader[c] = "rlockPost" THEN "plugin" ELSE "reply")
       ELSE /\ ReaderGoto(c, "read")
            /\ UNCHANGED rlocks
  /\ UNCHANGED <<hubVars, wlock, queueVars, bcastVars, chanVars, endVars, writer, plugin,
                 left, helperVars, unreg, handler, wg, budget>>

ReaderSendReply(c) ==
  /\ reader[c] = "reply" /\ CanPush(sendEvents, SendCap, c)
  /\ sendEvents' = Pushed(sendEvents, c)
  /\ ReaderGoto(c, "plugin")
  /\ UNCHANGED <<hubSide, send, pluginChan, endVars, writer, plugin, left, helperVars,
                 handler, wg, budget>>

ReaderSendPlugin(c) ==
  /\ reader[c] = "plugin" /\ CanPush(pluginChan, PluginCap, c)
  /\ pluginChan' = Pushed(pluginChan, c)
  /\ RUnlock(ReadToken(c))
  /\ ReaderGoto(c, "read")
  /\ UNCHANGED <<hubVars, wlock, queueVars, bcastVars, send, sendEvents, endVars, writer,
                 plugin, left, helperVars, unreg, handler, wg, budget>>

-----------------------------------------------------------------------------
(* WriteLoop.  A ping that goes out changes nothing and is left out. *)

\* The deferred conn.Close() and Done().
WriterExit(c) ==
  /\ writer' = [writer EXCEPT ![c] = "done"]
  /\ conn' = conn \ {c}
  /\ WgDone(c)

\* The top of the loop looks at doneChan first, then selects.
WriterLoop(c) ==
  IF c \in done THEN WriterExit(c)
  ELSE writer' = [writer EXCEPT ![c] = "select"] /\ UNCHANGED <<conn, wg, handler>>

\* The events of the batch that pass the client's filter, grouped by their name.
WriterTakeEvents(c) ==
  /\ writer[c] = "select" /\ sendEvents[c] > 0
  /\ sendEvents' = Popped(sendEvents, c)
  /\ \E n \in 0 .. MaxNames :
       /\ left' = [left EXCEPT ![c] = n]
       /\ IF n = 0 THEN WriterLoop(c)
          ELSE writer' = [writer EXCEPT ![c] = "push"] /\ UNCHANGED <<conn, wg, handler>>
  /\ UNCHANGED <<hubSide, send, pluginChan, done, closed, reader, plugin, helperVars, budget>>

\* c.Send <- w inside WriteLoop: the loop that should read Send writes to it.
WriterPush(c) ==
  /\ writer[c] = "push" /\ left[c] > 0 /\ CanPush(send, SendCap, c)
  /\ send' = Pushed(send, c)
  /\ left' = [left EXCEPT ![c] = @ - 1]
  /\ IF left[c] = 1 THEN WriterLoop(c) ELSE UNCHANGED <<writer, conn, wg, handler>>
  /\ UNCHANGED <<hubSide, sendEvents, pluginChan, done, closed, reader, plugin, helperVars,
                 budget>>

\* A message goes out ...
WriterWrite(c) ==
  /\ writer[c] = "select" /\ send[c] > 0 /\ c \in conn
  /\ send' = Popped(send, c)
  /\ WriterLoop(c)
  /\ UNCHANGED <<hubSide, sendEvents, pluginChan, done, closed, reader, plugin, left,
                 helperVars, budget>>

\* ... or the write fails: the peer is gone, or too slow, or the connection is closed.
WriterWriteFails(c) ==
  /\ writer[c] = "select" /\ send[c] > 0
  /\ send' = Popped(send, c)
  /\ WriterExit(c)
  /\ UNCHANGED <<hubSide, sendEvents, pluginChan, done, closed, reader, plugin, left,
                 helperVars, budget>>

\* doneChan or one of the channels is closed.
WriterStop(c) ==
  /\ writer[c] = "select" /\ c \in done \cup closed
  /\ WriterExit(c)
  /\ UNCHANGED <<hubSide, chanVars, done, closed, reader, plugin, left, helperVars, budget>>

WriterPingFails(c) ==
  /\ writer[c] = "select"
  /\ WriterExit(c)
  /\ UNCHANGED <<hubSide, chanVars, done, closed, reader, plugin, left, helperVars, budget>>

-----------------------------------------------------------------------------
(* PluginLoop *)

PluginGoto(c, pc) == plugin' = [plugin EXCEPT ![c] = pc]

PluginTake(c) ==
  /\ plugin[c] = "select" /\ pluginChan[c] > 0
  /\ pluginChan' = Popped(pluginChan, c)
  /\ PluginGoto(c, "work")
  /\ UNCHANGED <<hubSide, send, sendEvents, endVars, reader, writer, left, helperVars,
                 handler, wg, budget>>

PluginStop(c) ==
  /\ plugin[c] = "select" /\ c \in done \cup closed
  /\ PluginGoto(c, "done")
  /\ UNCHANGED <<hubSide, chanVars, endVars, reader, writer, left, helperVars, handler, wg,
                 budget>>

\* handlePlugins has called every plugin; the top of the loop looks at doneChan first.
PluginFinish(c) ==
  /\ plugin[c] = "work"
  /\ PluginGoto(c, IF c \in done THEN "done" ELSE "select")
  /\ UNCHANGED <<hubSide, chanVars, endVars, reader, writer, left, helperVars, handler, wg,
                 budget>>

\* A plugin answered with events; handleEvents queues them for the broadcast ...
PluginResult(c) ==
  /\ plugin[c] = "work" /\ budget > 0
  /\ budget' = budget - 1
  /\ PluginGoto(c, "emit")
  /\ UNCHANGED <<hubSide, chanVars, endVars, reader, writer, left, helperVars, handler, wg>>

PluginEmit(c) ==
  /\ plugin[c] = "emit" /\ bq < BroadcastCap
  /\ bq' = bq + 1
  /\ PluginGoto(c, "store")
  /\ UNCHANGED <<hubVars, lockVars, hq, bcastVars, chanVars, endVars, reader, writer, left,
                 helperVars, unreg, handler, wg, budget>>

\* ... and then for the history.
PluginStore(c) ==
  /\ plugin[c] = "store" /\ hq < HistoryCap
  /\ hq' = hq + 1
  /\ PluginGoto(c, "work")
  /\ UNCHANGED <<hubVars, lockVars, bq, bcastVars, chanVars, endVars, reader, writer, left,
                 helperVars, unreg, handler, wg, budget>>

-----------------------------------------------------------------------------
(* Broadcast goroutines, one per event *)

BcastGoto(b, pc) == bpc' = [bpc EXCEPT ![b] = pc]

BcastRLock(b) ==
  /\ bpc[b] = "rlock" /\ CanRLock
  /\ RLock(BcastToken(b))
  /\ btodo' = [btodo EXCEPT ![b] = clients]
  /\ BcastGoto(b, "visit")
  /\ UNCHANGED <<clientSide, hubVars, wlock, queueVars, bsend, unreg>>

\* client.Add(1) and a goroutine that sends.
BcastVisit(b, c) ==
  /\ c \in btodo[b]
  /\ btodo' = [btodo EXCEPT ![b] = @ \ {c}]
  /\ bsend' = [bsend EXCEPT ![b] = @ \cup {c}]
  /\ wg' = [wg EXCEPT ![c] = @ + 1]
  /\ UNCHANGED <<hubVars, lockVars, queueVars, bpc, chanVars, endVars, loopVars, helperVars,
                 unreg, handler, budget>>

\* The event's filter says no.
BcastSkip(b, c) ==
  /\ c \in btodo[b]
  /\ btodo' = [btodo EXCEPT ![b] = @ \ {c}]
  /\ UNCHANGED <<clientSide, hubVars, lockVars, queueVars, bpc, bsend, unreg>>

BcastSend(b, c) ==
  /\ c \in bsend[b] /\ CanPush(send, SendCap, c)
  /\ send' = Pushed(send, c)
  /\ bsend' = [bsend EXCEPT ![b] = @ \ {c}]
  /\ WgDone(c)
  /\ UNCHANGED <<hubVars, lockVars, queueVars, bpc, btodo, sendEvents, pluginChan, endVars,
                 loopVars, helperVars, unreg, budget>>

BcastRUnlock(b) ==
  /\ bpc[b] = "visit" /\ btodo[b] = {} /\ bsend[b] = {}
  /\ RUnlock(BcastToken(b))
  /\ BcastGoto(b, "idle")
  /\ UNCHANGED <<clientSide, hubVars, wlock, queueVars, btodo, bsend, unreg>>

-----------------------------------------------------------------------------
(* The goroutine that unregisters a client *)

UnregGoto(c, pc) == unreg' = [unreg EXCEPT ![c] = pc]

UnregCheck(c) ==
  /\ unreg[c] = "check" /\ CanRLock
  /\ UnregGoto(c, IF c \in clients THEN "lock" ELSE "done")
  /\ UNCHANGED <<clientSide, hubVars, lockVars, queueVars, bcastVars>>

UnregAnnounce(c) ==
  /\ unreg[c] = "lock" /\ Announce(UnregToken(c))
  /\ UnregGoto(c, "delete")
  /\ UNCHANGED <<clientSide, hubVars, rlocks, queueVars, bcastVars>>

UnregDelete(c) ==
  /\ unreg[c] = "delete" /\ WriteLocked(UnregToken(c))
  /\ clients' = clients \ {c} /\ wlock' = {} /\ conn' = conn \ {c}
  /\ UnregGoto(c, "wait")
  /\ UNCHANGED <<reg, info, rlocks, queueVars, bcastVars, chanVars, done, closed, loopVars,
                 helperVars, handler, wg, budget>>

UnregWait(c) ==
  /\ unreg[c] = "wait" /\ WaitOver(c)
  /\ UnregGoto(c, "close")
  /\ UNCHANGED <<clientSide, hubVars, lockVars, queueVars, bcastVars>>

\* close of Send, SendEvents and PluginChan.
UnregClose(c) ==
  /\ unreg[c] = "close"
  /\ closed' = closed \cup {c}
  /\ UnregGoto(c, "info")
  /\ UNCHANGED <<hubVars, lockVars, queueVars, bcastVars, chanVars, conn, done, loopVars,
                 helperVars, handler, wg, budget>>

\* GetInfo takes the read lock, then a goroutine sends what it returned.
UnregInfo(c) ==
  /\ unreg[c] = "info" /\ CanRLock
  /\ info' = info + 1
  /\ UnregGoto(c, "done")
  /\ UNCHANGED <<clientSide, clients, reg, lockVars, queueVars, bcastVars>>

-----------------------------------------------------------------------------
(* Hub.Run *)

HubAnnounce(c) ==
  /\ reg[c] = "lock" /\ Announce(HubToken)
  /\ reg' = [reg EXCEPT ![c] = "add"]
  /\ UNCHANGED <<clientSide, clients, info, rlocks, queueVars, bcastVars, unreg>>

HubAdd(c) ==
  /\ reg[c] = "add" /\ WriteLocked(HubToken)
  /\ clients' = clients \cup {c} /\ wlock' = {}
  /\ reg' = [reg EXCEPT ![c] = "done"]
  /\ UNCHANGED <<clientSide, info, rlocks, queueVars, bcastVars, unreg>>

HubDone(c) ==
  /\ reg[c] = "done"
  /\ reg' = [reg EXCEPT ![c] = "info"]
  /\ WgDone(c)
  /\ UNCHANGED <<clients, info, lockVars, queueVars, bcastVars, chanVars, endVars, loopVars,
                 helperVars, unreg, budget>>

HubInfo(c) ==
  /\ reg[c] = "info" /\ CanRLock
  /\ info' = info + 1
  /\ reg' = [reg EXCEPT ![c] = "yes"]
  /\ UNCHANGED <<clientSide, clients, lockVars, queueVars, bcastVars, unreg>>

InfoSend ==
  /\ info > 0 /\ bq < BroadcastCap
  /\ info' = info - 1 /\ bq' = bq + 1
  /\ UNCHANGED <<clientSide, clients, reg, lockVars, hq, bcastVars, unreg>>

\* A batch of events: a goroutine for each, none for an internal one.
HubBroadcast ==
  /\ HubIdle /\ bq > 0
  /\ bq' = bq - 1
  /\ \E B \in SUBSET {b \in Bcasts : bpc[b] = "idle"} :
       bpc' = [b \in Bcasts |-> IF b \in B THEN "rlock" ELSE bpc[b]]
  /\ UNCHANGED <<clientSide, hubVars, lockVars, hq, btodo, bsend, unreg>>

\* The ring and the persister are in EventRing.
HubHistory ==
  /\ HubIdle /\ hq > 0
  /\ hq' = hq - 1
  /\ UNCHANGED <<clientSide, hubVars, lockVars, bq, bcastVars, unreg>>

-----------------------------------------------------------------------------
HandlerStep(c) == \/ HandlerStart(c) \/ HandlerRegister(c) \/ HandlerServe(c) \/ HandlerSleep(c)
                  \/ HandlerCrash(c) \/ HandlerLeave(c) \/ HandlerUnregister(c)
GreetStep(c)   == GreetBroadcast(c) \/ GreetPlugin(c)
HistStep(c, k) == HistRLock(c, k) \/ HistSend(c, k)
ReaderFrame(c) == ReaderPublish(c) \/ ReaderLogin(c) \/ ReaderReply(c)
ReaderStep(c)  == \/ ReaderFail(c) \/ ReaderDone(c) \/ ReaderStore(c) \/ ReaderBroadcast(c)
                  \/ ReaderRLock(c) \/ ReaderSendReply(c) \/ ReaderSendPlugin(c)
WriterStep(c)  == \/ WriterTakeEvents(c) \/ WriterPush(c) \/ WriterWrite(c)
                  \/ WriterWriteFails(c) \/ WriterStop(c)
PluginStep(c)  == \/ PluginTake(c) \/ PluginStop(c) \/ PluginFinish(c)
                  \/ PluginResult(c) \/ PluginEmit(c) \/ PluginStore(c)
UnregStep(c)   == \/ UnregCheck(c) \/ UnregAnnounce(c) \/ UnregDelete(c) \/ UnregWait(c)
                  \/ UnregClose(c) \/ UnregInfo(c)
HubClient(c)   == HubAnnounce(c) \/ HubAdd(c) \/ HubDone(c) \/ HubInfo(c)
BcastStep(b)   == \/ BcastRLock(b) \/ BcastRUnlock(b)
                  \/ \E c \in Clients : BcastVisit(b, c) \/ BcastSkip(b, c) \/ BcastSend(b, c)

ClientStep(c) ==
  \/ HandlerStep(c) \/ GreetStep(c) \/ ReaderFrame(c) \/ ReaderStep(c) \/ WriterStep(c)
  \/ WriterPingFails(c)
  \/ PluginStep(c) \/ UnregStep(c) \/ HubClient(c) \/ \E k \in Slots : HistStep(c, k)

Next ==
  \/ \E c \in Clients : ClientStep(c)
  \/ \E b \in Bcasts : BcastStep(b)
  \/ InfoSend \/ HubBroadcast \/ HubHistory

Spec == Init /\ [][Next]_vars

(***************************************************************************)
(* The Go scheduler runs every goroutine that can run.  Nothing forces a    *)
(* peer to send a frame or to hang up while its connection is open, nor a   *)
(* plugin to answer with events; reads and pings on a closed connection do   *)
(* fail.                                                                    *)
(***************************************************************************)
Fairness ==
  /\ \A c \in Clients :
       /\ WF_vars(HandlerStep(c) /\ handler[c] # "new")
       /\ WF_vars(GreetBroadcast(c)) /\ WF_vars(GreetPlugin(c))
       /\ WF_vars(ReaderStep(c) /\ (reader[c] = "read" => c \notin conn))
       /\ WF_vars(WriterStep(c)) /\ WF_vars(WriterPingFails(c) /\ c \notin conn)
       /\ WF_vars(PluginStep(c))
       /\ WF_vars(UnregStep(c)) /\ WF_vars(HubClient(c))
       /\ \A k \in Slots : WF_vars(HistStep(c, k))
  /\ \A b \in Bcasts :
       /\ WF_vars(BcastStep(b))
       /\ \A c \in Clients : WF_vars(BcastSend(b, c))
  /\ WF_vars(InfoSend) /\ WF_vars(HubBroadcast) /\ WF_vars(HubHistory)

FairSpec == Spec /\ Fairness

-----------------------------------------------------------------------------
(* Properties *)

\* Goroutines that stand at a send on one of c's channels, with whatever test made them
\* believe that the channel is open behind them.
AtReaderSend(c) == reader[c] \in {"reply", "plugin"}
AtHistSend(c)   == \E k \in Slots : hist[c][k] = "send"
AtBcastSend(c)  == \E b \in Bcasts : c \in bsend[b]
AtSend(c) == \/ AtReaderSend(c) \/ AtHistSend(c) \/ AtBcastSend(c)
             \/ writer[c] = "push" \/ "plugin" \in greet[c]

\* No goroutine is about to send on a closed channel, which would bring the process down:
\* the "locking" that hub.go's Unregister case opted for covers every sender.
NoSendOnClosed == \A c \in closed : ~AtSend(c)

\* Whoever found the client in Hub.clients under the read lock (a ReadLoop, a SendHistory,
\* a Broadcast with its sends) still finds it there when it sends: the test is never stale.
StillRegistered ==
  /\ \A c \in Clients : AtReaderSend(c) \/ AtHistSend(c) => c \in clients
  /\ \A b \in Bcasts : btodo[b] \cup bsend[b] \subseteq clients

\* The WaitGroup's counter is the handler's Add(1) until the hub's Done(), the two loops
\* that run, and the sends of broadcasts: it never goes negative (a panic), and the
\* unregistering goroutine's Wait() waits for exactly these.
Latch(c)   == IF \/ handler[c] = "register" \/ reg[c] \in {"lock", "add", "done"} THEN 1 ELSE 0
Reading(c) == IF reader[c] \notin {"off", "done"} THEN 1 ELSE 0
Writing(c) == IF writer[c] \notin {"off", "done"} THEN 1 ELSE 0
SendingTo(c) == {b \in Bcasts : c \in bsend[b]}
WaitGroupBalance ==
  \A c \in Clients : wg[c] = Latch(c) + Reading(c) + Writing(c) + Cardinality(SendingTo(c))

\* The handler starts to serve only when the client is in Hub.clients ("so the following
\* broadcast calls also reach the new client"), and it stays there until the handler leaves.
SessionRegistered == \A c \in Clients : handler[c] = "serve" => c \in clients

\* Hub.clients is written only while nobody reads it: in Go, a map written during an
\* iteration ends the process.
MapWrittenAlone ==
  [][clients' # clients => /\ \A b \in Bcasts : bpc[b] # "visit"
                           /\ \A c \in Clients : ~AtReaderSend(c) /\ ~AtHistSend(c)]_vars

\* Everything that belonged to the client is over.
Finished(c) == /\ handler[c] = "gone" /\ unreg[c] = "done" /\ c \notin clients /\ c \in closed
               /\ reader[c] = "done" /\ writer[c] = "done" /\ plugin[c] = "done"

\* A send waits for room in a channel of c whose only reader is not at its select.
JamSend(c)   == send[c] = SendCap /\ writer[c] # "select" /\ (AtBcastSend(c) \/ writer[c] = "push")
JamEvents(c) == sendEvents[c] = SendCap /\ writer[c] # "select" /\ (reader[c] = "reply" \/ AtHistSend(c))
JamPlugin(c) == /\ pluginChan[c] = PluginCap /\ plugin[c] # "select"
                /\ reader[c] = "plugin" \/ "plugin" \in greet[c]
Jammed == \E c \in Clients : JamSend(c) \/ JamEvents(c) \/ JamPlugin(c)

\* Once a ReadLoop ends the client is unregistered, its channels are closed and its three
\* loops return, unless some goroutine waits for ever on a full per-client channel that
\* its reader has left: a full channel is the only way the lock protocol gets stuck.
EndsUnlessJammed == \A c \in Clients : <>[]Jammed \/ (c \in done ~> Finished(c))

-----------------------------------------------------------------------------
(* The inductive invariant behind NoSendOnClosed, proved in ClientLifecycleProofs *)

\* Every goroutine inside a read section has its token in the lock.
LockHeld ==
  /\ \A c \in Clients : AtReaderSend(c) => ReadToken(c) \in rlocks
  /\ \A c \in Clients, k \in Slots : hist[c][k] = "send" => HistToken(c, k) \in rlocks
  /\ \A b \in Bcasts : bpc[b] = "visit" => BcastToken(b) \in rlocks
  /\ \A b \in Bcasts : btodo[b] \cup bsend[b] # {} => bpc[b] = "visit"
  /\ \A b \in Bcasts : btodo[b] \cap bsend[b] = {}

\* How far the hub and the unregistering goroutine can be for each place of the handler.
Early == {"new", "register", "wait", "sleep", "woken", "crashed"}
BeforeServe(c) ==
  /\ handler[c] \in {"new", "register"} => reg[c] = "no"
  /\ reg[c] = "no" => handler[c] \in {"new", "register"}
  /\ reg[c] \in {"lock", "add", "done"} => handler[c] \in {"wait", "sleep"}
  /\ handler[c] \in Early =>
       /\ reader[c] = "off" /\ writer[c] = "off" /\ c \notin done
       /\ greet[c] = {} /\ \A k \in Slots : hist[c][k] = "idle"
  /\ handler[c] \notin {"gone"} /\ reg[c] \in {"done", "info", "yes"} => c \in clients
AfterServe(c) ==
  /\ c \in done => reader[c] \in {"exit", "done"}
  /\ handler[c] \in {"unregister", "gone"} => c \in done /\ greet[c] = {}
  /\ unreg[c] # "off" => handler[c] = "gone"
  /\ unreg[c] \in {"wait", "close", "info"} => c \notin clients
  /\ unreg[c] = "close" => wg[c] = 0
  /\ c \in closed => /\ unreg[c] \in {"info", "done"} /\ c \notin clients
                     /\ writer[c] \in {"off", "done"}
Phases == \A c \in Clients : BeforeServe(c) /\ AfterServe(c)

IInv == TypeOK /\ LockHeld /\ StillRegistered /\ WaitGroupBalance /\ Phases

-----------------------------------------------------------------------------
(* What a comment of the code says, and the code does not do *)

\* hub.go:235: with the locking, closing the channels needs no draining; a client whose
\* ReadLoop ended is unregistered.
UnregisterCompletes == \A c \in Clients : c \in done ~> Finished(c)
=============================================================================
