# lightspeed-chat in TLA+

TLA+ models of the chat server under `src/`, configurations with which TLC checks them on small
instances, and theorems about them that TLAPS checks for every value of their constants.
Paths below are relative to `src/`.

1. [Inventory](#inventory): the parts of the system
2. [Modules](#modules): which module models which part, and how
3. [Runs](#runs): what is checked, with which bounds
4. [Fairness](#fairness)
5. [Proofs](#proofs)
6. [Known divergences](#known-divergences): where the code does not do what it says
7. [What is abstracted](#what-is-abstracted)
8. [Plan](#plan): what is not modelled, and what is left

Check a run with `tlc -config LifecycleTwo.cfg MCClientLifecycle`, a proof with
`tlapm ClientLifecycleProofs.tla`.

## Inventory

The server keeps one **hub** per room: one goroutine (`Hub.Run`) selecting over `Register`,
`Unregister`, `BroadcastEvents` and `EventHistory`. A websocket **connection** is an HTTP handler
and three loops. **Plugins** are processes of their own, called over gRPC, which call back. A
**persister** keeps users, rooms and events. The **admin program** works on the same storage from
another process.

| component | state | operations | talks to | hard about it | correct when |
|---|---|---|---|---|---|
| hub: clients, lock, channels (`ws/hub.go`) | `clients` map, `RWMutex`, four channels | register, unregister, broadcast, info | handlers and loops by channels; clients' channels under the read lock | goroutines per event and per send; closing channels others send on; blocking with the lock held | nobody sends on a closed channel; the map is not written while it is read; every client that leaves is removed |
| handler and client loops (`cmd/lightspeed-chat/main.go`, `ws/client.go`) | `Send`, `SendEvents`, `PluginChan`, `doneChan`, a `WaitGroup`, the user | connect, read, write, answer, login, logout, send history | the hub's channels, the persister, plugins | a WaitGroup that is a latch first and a reference count afterwards | counts balance; a client that serves is registered; everything ends after the reader has |
| history ring (`ws/hub.go`) | `container/ring` with start and end | append, `GetHistory` | `Hub.Run`, `SendHistory` | wrapping, unwritten slots | it is the list of the most recent events |
| history and restart (`ws/hub.go`, `persistence/`) | ring, event table | take a batch, `StoreEvents`, `GetEventHistory` | publishers, persister | crash between the ring and the table; the order of the reload | a crash loses only the batch being stored; nothing twice; each publisher in order |
| delivery (`ws/hub.go`, `ws/client.go`, `ws/filter.go`) | what each client was shown, its user and language | broadcast, filter, history at joins, logins and changes of language | all of the above | goroutines of one batch overtake each other; filters read the user and the language without a lock | nobody is shown what is not meant for them, nor misses what is |
| plugin pipeline (`ws/hub.go`, `ws/events.go`) | recursion of `handlePlugins`, its skip list | walk the plugins, publish the answers, `EmitEvents`, cron | plugins, hub's channels | plugins answering each other; concurrent publishers; closures over loop variables | ends; nobody hears itself; each asked once; published once and in order |
| users, rooms, stored events (`persistence/sqlite.go`, `buntdb.go`) | tables, or files | store, get, delete, update tags | sessions, hubs, plugins, admin program | look-then-store in two transactions; foreign keys; cascades | who writes has a row; an event is refused only for a reason |
| start of the server (`cmd/lightspeed-chat/main.go`) | how far it is | open, list, default user and room | persister | crash halfway | a hub's room has a row |
| admin program (`cmd/lightspeed-chat-admin/main.go`) | none | set and delete users and rooms | the server's storage, unasked | rows vanish under sessions | as above |
| target filters, tag updates (`ws/filter.go`, `filter/`) | compiled filters | evaluate, update tags | hub, loops, persister | filters that do not compile; index arithmetic | a filter keeps out whom it excludes; an update changes the tags it reports, and no others |
| plugin RPC and helpers (`plugins/grpc.go`, `helper.go`) | a connection per plugin and room; the functions that call through it | convert, call back, set and clear the functions | hub | a lost connection, a retry, one helper for all rooms | what the helper holds is served; a session that ended is begun again |
| base-commands, google-translate plugins | translation cache | answer events and each other's answers | hub, translation service | filters put together from others; concurrent calls, a shared cache, a service that fails halfway, panics | private stays private; all translations of a message or none |
| gorm persister | SQL tables | not finished in the code | hub | - | - |
| postgres persister | - | `NewPersister` never returns it | - | - | - |
| types, OIDC, configuration, generated protocol code, deployment | - | data, or libraries | - | - | - |

`PROJECT.json` says of each component what is modelled, and lists under `hazards` what can go
wrong at which line.

## Modules

| module | models | composes |
|---|---|---|
| `ClientLifecycle` | hub, handler and client loops | |
| `MCClientLifecycle` | symmetry for it | extends `ClientLifecycle` |
| `RecentEvents` | abstract: the last `Keep` events | |
| `EventRing` | the ring of `Hub.Run` and the loop of `GetHistory` | implements `RecentEvents` |
| `HubHistory` | publishers, ring, persister, crash and reload | extends `EventRing`: `ring` is the ring of its room |
| `Publication` | abstract: two lines, to the clients and to the history, and what each publisher has yet to put on them | |
| `PluginPipeline` | `handlePlugins`, `handleEvents`, `EmitEvents`, cron | implements `Publication` |
| `MCPluginPipeline` | two plugins and two kinds of events | extends `PluginPipeline` |
| `Accounts` | sessions, persister, admin program, start | |
| `Delivery` | who is shown which event: broadcasts, history, filters, joins, logins | |
| `MCDelivery` | two filters, and who is there at the start | extends `Delivery` |
| `RoomStore` | abstract: what a persister promises of rooms, tags and events | |
| `BuntStore` | buntdb's rooms, room files and tag updates | implements `RoomStore` |
| `MCBuntStore` | stored tags and updates for it | extends `BuntStore` |
| `PluginSessions` | `InitEmitEvents`, its retry, the helper functions, the end of a plugin's process | |
| `ShippedPlugins` | base-commands and google-translate | |
| `MCShippedPlugins` | users, languages and messages for it | extends `ShippedPlugins` |
| `*Proofs` | theorems about the module of that name; those about `EventRing` are in `HubHistoryProofs` | extend it and `TLAPS` |

Mutated operators (`RLockForgotten`, `PutKeepingStart`, ...) stand before the definition that they
mutate. They are plausible bugs; `PROJECT.json` names for each property one that breaks it.

### ClientLifecycle

A step is what one goroutine does up to the next point where it can block. Channels are counters:
what the elements say is chosen where it is read (a batch in `SendEvents` becomes 0 to `MaxNames`
writes; a broadcast batch becomes any number of goroutines).

| state | code |
|---|---|
| `clients`, `reg`, `info` | `Hub.clients`, the `Register` case of `Hub.Run`, pending `SendInfo` goroutines |
| `rlocks`, `wlock` | the hub's `RWMutex`: tokens of readers, and the writer that has announced itself, after which no `RLock` succeeds, as Go's does |
| `unreg` | the goroutine of the `Unregister` case |
| `bq`, `hq` | `BroadcastEvents`, `EventHistory` |
| `bpc`, `btodo`, `bsend` | a broadcast: waiting for the lock or iterating, clients to come, sends begun |
| `handler`, `wg` | `websocketHandler`, `Client.WaitGroup` |
| `conn`, `done`, `closed` | open connections, closed `doneChan`s, clients with closed channels |
| `send`, `sendEvents`, `pluginChan` | the client's channels |
| `reader`, `writer`, `plugin`, `left` | `ReadLoop`, `WriteLoop`, `PluginLoop`, writes left of a batch |
| `greet`, `hist` | the handler's greeting goroutines, `SendHistory` of the join and of logins |

`WaitGroup` is modelled with the misuse that Go detects: a `Wait()` that was put to sleep, released
by a counter of zero, and that then finds the counter moved, panics (`HandlerCrash`).

### EventRing, RecentEvents, HubHistory

`Put` is one round of the loop at `ws/hub.go:309` (and of the same loop in `NewHub`); `Contents` is
what `GetHistory` returns, and `Walk` its loop as it is written. `RingSpec` is the ring alone, with any event put next; `HubHistory` extends
the module and fills the ring with the numbers of its own events. It puts whole batches (`PutAll`), in
the two steps of the `EventHistory` case: the ring first, `StoreEvents` then, which may fail and is then only logged. `Restart` is the
end of the process at any point and `NewHub`; `Loads` is what the persister's query may return,
in its order and with its limit. An event is its position in `log`, with a publisher and a second:
the queries sort by these and by nanoseconds, which a plugin's events have lost on their way
through gRPC. Events of another room share the SQL tables (`StoreElsewhere`).

### PluginPipeline

A goroutine that walks the plugin map is a stack of calls of `handlePlugins`, and a plugin's answer
pushes the call that `handleEvents` makes with it. `out` are the sends that a goroutine is about to
make, in their order, each of which blocks on a full channel. The walk takes plugins in any
order, as Go's map iteration does. `chain` and `cause` remember which plugins an event comes from
and which events it answers; the code has neither, the properties need them. A client names its
events as it likes, `_internal` included (`Read`): such a one goes to the history and to the plugins, and
the hub broadcasts it to nobody. `PublishedOnce` asks that of it, instead of both or neither, and
`AnswersInOrder` lets the clients see an answer to it, as they never see the message itself.

`Publication` says what comes of all this on the lines to the clients and to the history. It has no
plugins, no walks and no skip lists: each publisher has a stack of batches (`coming`), each with the
lines it is still to go to. What it makes goes on top of the stack (`Make`), what is on top goes
into a line's channel (`Put`), and the hub takes what is at a channel's head (`Take`), all of it for the
history, all but the internal events for the clients. The mapping reads the stack off a goroutine's
calls and sends: the calls that publish their events when they return are at the bottom (`Inner`: all
calls but the outermost one of a PluginLoop, whose events are published already), and what the
goroutine is sending is on top, with the lines it has not been sent to (`ToLines`). The walks,
`PluginChan` and the answers of plugins that have nothing to say are stutters.

### Accounts

Every method of a persister holds its mutex, so each is one step; what callers do between two
methods is not, and the steps between `GetUser` and `StoreUser` (`want`) are where other
connections get in. `backend` chooses sqlite, with foreign keys as in the README's DSN, or buntdb.
Whoever has logged in or out has half a frame before them (`frame`) that is then published, as
`ReadLoop` falls through to it. `adrift` and `removed` remember which ids a logout made up and
what commands removed, so that the invariants can name who is to blame.

### Delivery

The same goroutines as in `ClientLifecycle`, seen from the events: channels are large enough never
to block here, and what a step keeps is which events a client was shown.

| state | code |
|---|---|
| `events`, `hq`, `ring` | events by their number; `EventHistory`; what `GetHistory` returns |
| `clients`, `fresh` | `Hub.clients`; the client between the two halves of the `Register` case |
| `started`, `todo`, `half` | broadcasts before their `RLock`; clients that they have still to ask; a filter between its reading of `c.user` and of `c.Language` |
| `phase`, `at` | how far the handler is; where `ReadLoop` is |
| `user`, `lang` | `c.user`, `c.Language`: two steps write them, two steps read them |
| `owed`, `asked`, `got` | `SendEvents`; the same half of a filter in `WriteLoop`; events written to the connection |
| `begun`, `kept` | not in the code: which events, and which history, there were when the client became who it is |

`Room` is a bound of the model, on how many events there are; the code has none. A broadcast asks
one client after the other with the read lock held (`Locked`), and `HubAdd` and `UnregDelete` wait for it:
`NothingForAbsent` says what this is for, as whoever was still to be asked, or is in the middle of a filter, must not be gone.

A target filter is the users and languages it accepts, and whether it compiles. `MissesNothing` and
`PresenceTold` are about a hub at rest; at any other time an event is still on its way.

### BuntStore, RoomStore

`RoomStore` is the promise: a call that returns has happened as a whole, one that returns an error
has changed nothing. `BuntStore` has buntdb's two transactions of `StoreRoom` and what may happen
between them: the room's file cannot be opened, the row is taken back, or the process ends.
`UpdateTags` is the loop of `filter/tags.go` over a tag's comma-separated items. The mapping shows
a room that is being stored as it was before (`Shown`), and a row without a value as no room.

### PluginSessions

A hub's goroutine (`host`) calls `InitEmitEvents` for ever; the plugin's side of it (`plug`) sets
the helper's functions (`impl`), runs, clears them and returns; the plugin's goroutines (`call`)
read a function under the lock (`ref`) and call it without. `Crash` ends the process, which nobody
starts again. The shipped plugins do not use the helper: when a plugin calls `Set` and `Clear` is
taken from how `helper.go` is made (the entries marked external).

### ShippedPlugins

Who an event is for is a set of viewers (a user with a language), so `&&` and `||` of filters are
intersection and union. The translator's calls run next to each other. `todo` and `next` are a call's place in
the two nested loops, over what there is to translate and over the languages; each step is one
question to the cache or the service, which may fail; a panic ends the process with
all its calls. `root` and `of` remember which message led to an event, and which event a
translation is of.

## Runs

| run | what is asked | instance | states |
|---|---|---|---|
| `lifecycle_two` | nobody sends on a closed channel; who was found in the map is still there when the send goes through; counts balance; who serves is registered; the map is written alone | two connections, one broadcast goroutine, capacities 1 | 1.4 M |
| `lifecycle_one` | the proofs' invariant; under fairness, a connection whose reader has ended is taken down, unless a full channel jams (`EndsUnlessJammed`) | one connection of a user, with greetings, one frame or plugin answer, a login's history | 0.3 M |
| `event_ring` | implements `RecentEvents`; the loop ends, reads no unwritten slot and collects what the properties of the history speak of (`Contents`) | 4 slots, 3 values: every filling, wrapped or not | 364 |
| `hub_history` | what a crash can lose, what a restart shows, order and no duplicates | two publishers, 3 slots, 4 events, one crash, four backends | 1.5 M |
| `pipeline` | recursion is bounded, no feedback, everyone asked once, published once, answers in order; implements `Publication` | two plugins, one client, cron, `EmitEvents`, greeting, 3 events | 1.3 M |
| `accounts` | the proofs' invariant; an event is refused only for a reason; a new room is empty; a reported tag update outlives later logins and restarts | two accounts and a guest, two rooms, two connections, one command, one update, two starts, both backends | 1.6 M |
| `delivery` | nothing is left of who has gone; nobody is shown what is not meant for them; nobody misses what is; everybody is told who is there | two clients, one there already, an account and guests, two languages, a filter and one that does not compile, 3 events | 2.4 M |
| `plugin_sessions` | what the helper holds is served; `Set` and `Clear` go through although calls hang; `InitEmitEvents` is called again | two rooms, two callers, one crash | 11 773 |
| `shipped_plugins` | private messages stay private; all translations or none | two users, three languages, six sorts of messages, a cache of one entry, two concurrent calls, 5 events | 1.2 M |
| `bunt_store` | implements `RoomStore`; a listed room has its file, and the persister opens again | three rooms, one of which has no valid file name, two tags, six updates, any number of ends and starts | 31 136 |
| `hub_wedged`, `restart_sqlite` | two claims that the code does not keep, see [Known divergences](#known-divergences) | the smallest instance that shows it | |

**Why the bounds are enough to be of use.** A capacity of 1 makes every channel full as soon as
somebody has written to it: the blocking that needs a thousand unread messages in the code (all
capacities are 1000) happens after one. Two connections are needed for one's registration or
removal to meet another's; one broadcast at a time meets both, and what several broadcasts do is
covered by the proofs, which bound nothing. In `lifecycle_two` nobody sends a frame (`Budget = 0`),
so `HubHistory`'s and the login's steps are in `lifecycle_one`. Four events in a
ring of three slots (so two events) wrap the ring and give a reload more than it holds. Three
events in the pipeline are a message, its answer and the answer to that, which with two plugins is
as deep as `handlePlugins` goes; an event is either plain or both internal and filtered, as the two
tests do not look at each other's fields. One command in `Accounts` can remove any row at any point of a
start, a session or a queue, and the second start reads what the first has left.
`CHECK_DEADLOCK FALSE` is there because all runs but `event_ring` can stop: connections have ended,
or the bounds of their inputs are used up. Deadlocks that matter are `EndsUnlessJammed`'s matter.

`EndsUnlessJammed` is as strong as the code allows. A jam is a send that waits on a full `Send`,
`SendEvents` or `PluginChan` whose only reader is not at its `select`. The property says that these
are the only obstacle: the lock, the WaitGroups, the hub's own channels and the order of
`doneChan`, `Unregister` and `close` do not add another. `hub_wedged` shows that a jam can indeed
last for ever.

`RestartShowsStored` excuses a ring that could load nothing (`GetEventHistory` failed, which
`NewHub` ignores), and the events that do not fit. Which of them fit is `RestartKeepsNewest`'s, and
the code fails there.

`EveryoneAsked` and `NoFeedback` leave out what cron jobs start (`NoCron`), whose skip lists are
wrong in the code (`ws/hub.go:192`, see [Known divergences](#known-divergences)).

`delivery` has its second client join, log in, change its language and leave while the three events
are on their way; one of them is always an info event, so two are left to overtake each other or
to be a batch. With a filter for one account in one language, each half of a filter decides
something; guests may not post (`AllowGuests = FALSE`), so a logout changes what a frame becomes.
What more clients and events would add is covered by the proofs. `shipped_plugins` needs five events
for a message, its answer and the translations of both, or for two messages that meet in the cache,
whose one entry is pushed out by the second language. In `plugin_sessions` two rooms are what it takes for
one room's `Clear` to take away the other's functions. `bunt_store` has a room that is deleted and
stored again, one whose file cannot be opened, and one that stays, and updates that set a tag, an
item, an item beyond the end, or none because the result is not a number.

`UpdatesOutlive` excuses the second of two first connections of one user, which the code lets
overwrite the tags (`cmd/lightspeed-chat/main.go:289`); `OnlyAudience` excuses events from before
the connection became who it is: a broadcast that has asked its filter already is not called back.

## Fairness

`FairSpec` of `ClientLifecycle` and `Spec` of `PluginSessions` have fairness, weak fairness per
goroutine: Go's scheduler runs every goroutine that can run. In `ClientLifecycle`, nothing makes a
peer connect, send a frame or hang up (`HandlerStart`, `ReaderFrame`, `ReaderFail` while the connection is open), or a ping fail while
the connection is open. Reads and pings on a connection that the program itself has closed do
fail, so these are fair (`ReaderStep` at "read", `WriterPingFails`, each only with `c` outside
`conn`). Nothing makes a plugin answer with events: `PluginStep` is fair as a whole, and
`PluginFinish` can always be the step, and that a plugin's call returns at all is assumed. A
broadcast's sends are goroutines of their own, so each is fair (`BcastSend(b, c)`). `WriterStep` is
fair as a whole: a `select` with several ready cases takes one of them.

In `PluginSessions` the hub's goroutine goes on after each return (`HostStep`), an RPC to a dead
process fails (`RPCFails`), a writer that waits for a lock nobody holds gets it (`Set`, `Clear`), and a
reader and a call through a closed connection end (`ReadImpl`, `CallFails`). Nothing is asked of the
hub's answers (`HubAnswers`), of new callers, nor that a plugin's `InitEmitEvents` ever ends
(`PluginEnds`) or the process stays alive. `CalledAgain` holds of a dead process too, which is called and
fails. It excuses a hub whose next server cannot be opened (`stuck`): `AcceptFails` may come at any time, as
the code waits for the server without looking at whether there is one (`plugins/grpc.go:197`).

## Proofs

Each theorem holds for all values of the constants that satisfy the module's ASSUMEs, which the
runs evaluate for theirs: any number of clients, broadcasts, plugins, users, rooms or events, and
any capacities.

**ClientLifecycle.** `NoSendOnClosed` is not inductive: that a broadcast may not be at a send when
the channels are closed depends on the unregistering goroutine's `Wait()`, hence on what the
WaitGroup counts, hence on who is still in a loop. `IInv` is `TypeOK` and

- `LockHeld`: who reads or sends under the lock has a token in `rlocks`, so that `UnregDelete`
  and `HubAdd` find nobody there;
- `StillRegistered`: readers of the map and senders to a client found in it still find it there;
- `WaitGroupBalance`: the counter is the latch of the registration, plus the loops that run, plus
  the sends of broadcasts to the client;
- `Phases`: how far the hub, the loops and the unregistering goroutine can be for each place of
  the handler; among them, that from `UnregWait` on the client is not in the map and at
  `UnregClose` the counter is zero.

The proofs have one lemma per conjunct, one step per action. Theorems: `TypeCorrect`, `Invariance`,
`ChannelsClosedSafely`, `WaitGroupCounts`, `TestNeverStale`, `ServedIsRegistered`,
`MapExclusive`.

**EventRing.** `Contents` after `Put` is `Remembered` of `Contents` before it, with one case for
whether the ring was full and one for whether it wraps; from it `RingIsRecent`, the refinement.
`RingTyped` and `NoNilIsRead` rest on: the slots between start and end have been written.
`WalkReadsContents`: `GetHistory`'s loop, a recursive function, returns `Contents`. The closed form
of what the loop collects from a slot on (the slots from there to the end) satisfies the
function's equation, so there is such a function, and by induction over the number of slots
left there is no other. What
putting a batch does (`PutAll`) is proved by induction over its length, in the form that the provers can
use: a set of naturals with 0, and with each number below `n` the next, has all of them up to `n` (`UpTo`).

**HubHistory.** What the history shows depends on what was taken out of the queues before, and
whether that was in order depends on what still waits in them. `IInv` is `TypeOK`, `LossWindow` and

- `Sound`, `Known`: between the ring's pointers are events, which exist and, if they were made since
  the start, have been taken from the channel;
- `BatchesRise`, `QueuesRise`: each batch is in its order; of one publisher, what was taken precedes
  what is in the channel, which precedes the publisher's outbox;
- `Ordered`: no event twice in the history, what was loaded before what came since, and that in
  each publisher's order;
- `NoGap`: behind an event that is shown nothing of its publisher is missing.

`NoDuplicates` and `PublisherOrder` are read off the last two. `LossIsBounded` needs that a restart
shows stored events only, hence that what the four persisters' queries return (`Loads`) is in the
table; `RestartsShowStored` is the action property of it. Theorems: `HubHistoryTyped`,
`LossIsBounded`, `NoneTwice`, `InPublishersOrder`, `RestartsShowStored`.

**PluginPipeline.** `RecursionIsBounded`: along the stack of calls the skip lists grow strictly
(`SkipGrows`), so there are no more calls than plugins, and one. `NeverFedBack`: an event's chain
is part of the skip list of every call that has the event, for everything that no cron job began.
The theorem needs no assumption on who emits or has cron jobs.

`EveryoneAsked`, `PublishedOnce` and `AnswersInOrder` say something of an event's end only. Their
invariants say where it is until then:

- `EveryoneIsAsked`: whose events are where (`HomeInv`); an event that plugins are to see is in one
  place, to be sent, in a channel or walked in one call (`OneWalk`); the place tells how often each
  plugin has been offered it: not yet, or once if the walk has passed the plugin (`OffersRight`);
- `PipelineTyped`: that the channels never hold more than they have room for, and that a batch, a
  set, can be put into the order of creation (`Enumerates`);
- `PublishedExactlyOnce`, for whatever kinds of events clients send, internal ones among them: on each of the two lines to the clients and to the history, what is still
  to be sent, what is queued and what is done are apart (`Once`), and no event that should be on
  a line is off it, unless the call that walks it has yet to publish it (`NoneLost`);
- `AnswersAreInOrder`: a plugin's event is walked by a call further out than the one that walks its
  answers (`Inside`), until the answers are on the line; from there on they stay ahead of it (`Ahead`), and
  behind the message of a ReadLoop that they answer (`Behind`), which was sent before the plugins
  were asked.

`PipelineIsPublication` is the refinement. It needs that of all calls exactly the outermost one of a
PluginLoop does not publish its events (`CallsPublish`), and where events are (`PublishInv`). Then what a step
does to a goroutine's calls and sends is one of three things to its stack of batches: a batch more on
top (`Adds`: a ReadLoop's frame, a greeting, cron, `EmitEvents`, an answer), a line less for the one on top
(`SendPuts`), or nothing, as when a call returns (`ReturnRests`): its events go from the calls to
the sends, which is the same place of the stack.

**Accounts.** The invariant follows a queued event back to the session that published it and to the
hub of its room: `HubsKnown`, `SessionsKnown`, `QueueKnown`. `LossExplained` is then what
`HubStore` finds. Theorems: `AccountsTyped`, `AccountsInvariance`, `SessionsAreStored`,
`LossesExplained`.

`UpdatesAreKept` (an action property) needs one more: nobody has been told of an update of the admin user
whom a start looked for, did not find, and is about to store (`AdminMissed`). `RoomsStartEmpty` (an
action property, about sqlite) needs: a room that has no row has no events (`NoOrphans`), as the row
takes its events with it and no event is stored without it.

**Delivery.** `NothingForAbsent` rests on the lock (`AsksMembers`), the others are about the end of an
event's way and say nothing while it is under way. `IInv` is `TypeOK` and

- `OnlyCreated`: what is shown, queued, kept or asked is an event that exists;
- `AsksMembers`: a broadcast that has begun asks only clients of the room, and nobody joins or leaves
  meanwhile;
- `AbsentHaveNothing`: a client outside the map has no events to be sent or looked at;
- `ReadsPresentUser`: a filter that is between its two readings, of an event newer than the
  client's last change of identity, has read the user that the client still is;
- `ReachesAll`: an event meant for a client that it was not shown yet is still in front of it: not
  started, to be asked, owed, or half asked;
- `TellsPresence`: unless somebody has just come or gone and the hub is about to tell it, there is an
  info event with exactly the present clients that each of them was shown or is still to be asked about.

Theorems: `DeliveryTyped` (`TypeOK` is no property of the run), `NothingLeftOfAbsent`, `AudienceKept`, `NothingMissed`, `PresenceIsTold`.

**BuntStore.** `RoomsAreServed`: `RoomsServed` needs that `StoreRoom` only opens a file when there was no
readable row before, so that taking the new one back leaves no room unserved (`Consistent`).
`BuntStoreTyped`: an update leaves a map of tags, whatever its expression results in.
`BuntIsRoomStore` is the refinement: each step is a step of `RoomStore` on what is shown of the rooms
(`View`), or leaves it as it is. A room is stored for the abstract store when its file is open, the
new row of a room that is being stored is not shown yet, and taking it back shows the old one again.
What an update does to a tag is the same operator on both sides, so the refinement does not look
into it.

**PluginSessions.** `HelperIsServed`: the plugin's side of a session runs only while the hub's side
is in the call (`Inside`), so what `Set` stores is served, and `PluginReturns` closes what it leaves.

**ShippedPlugins.** `ShippedTyped`: among the rest, that a cache which is full gives up an entry before it takes one.
`PrivateIsPrivate`: an event that belongs to a conversation reaches at most those for whom its first message
was, in the log and in every call that has it before it (`Traced`): answers are for fewer, and a
translation, which the cache may have made of somebody else's words, is for whom the event was.
`AllOrNone`: the languages of a message are asked for one after the other, and its call may die or
fail at any of them, so the invariant says at which place of the two loops a call has which
translations:

- an event is in one place: offered to the translator once (`OneOffer`), or held by one call
  (`OneHolder`), or translated, and never in two of these (`OnePlace`);
- a call that holds an event has made exactly its translations into the foreign languages that the
  loops have passed (`OutWhole`), and what a call has published is whole (`LogWhole`);
- nothing in the cache is in its text's own language (`CacheRead`), so that an answer from the cache
  counts as one from the service does.

**Checked by TLC only.** `EndsUnlessJammed`, `UnregisterCompletes`, `ChangesAnyway` and
`CalledAgain`: liveness is not in the prover's reach. Every other property of a passing run is a
theorem or a conjunct of one.

## Known divergences

Shown by a run, each the violation of a property that says what a comment or the documentation says:

| run | where | what happens |
|---|---|---|
| `hub_wedged` | `ws/hub.go:294` | A broadcast to a client whose `WriteLoop` has returned blocks on the full `Send` with the read lock held. `Unregister` waits for the lock, everybody else waits for `Unregister`. |
| `restart_sqlite` | `persistence/sqlite.go:423` | `ORDER BY e.created, e.created_sort DESC` sorts by time ascending: with more than `history_size` events a restarted room shows the oldest. |

Met while modelling; the models have the code's behaviour, and no run is spent on each:

*Connections and events*

- The hub puts the client into the map before its `Done()`, so a broadcast's `Add(1)` may come
  between the `Done()` and the handler's return from `Wait()`, which then panics
  (`cmd/lightspeed-chat/main.go:320`; `HandlerCrash`). `Unregister` is not deferred yet: the client
  stays in the map.
- The guest that a logout makes up is never stored (`ws/client.go:126`), and sqlite refuses all
  their events.
- Two first connections of one user: the second `StoreUser` overwrites tags that were updated since
  the first (`cmd/lightspeed-chat/main.go:289`).
- A cron job's closure captures the loop variable: all jobs skip the plugin that the iteration ended
  with, instead of their own (`ws/hub.go:192`).
- Internal events are broadcast to nobody, but those that reach the history are shown from it, to
  whoever joins, logs in or changes the language afterwards (`ws/hub.go:266`, `ws/client.go:337`).
- A client's frame names its event itself (`ws/client.go:294`), and may name it `_internal`: it is
  stored (`ws/hub.go:305`), broadcast to nobody and given to the plugins, whose answers are shown without it.
- An event that waits in a hub's `EventHistory` while its room is removed and created again is stored
  into the new room (`ws/hub.go:317`): nothing tells the old hub.
- An event whose target filter does not compile is shown to everybody live (`ws/hub.go:274`) and to
  nobody from the history (`ws/filter.go:11`).
- A login or logout changes the nick, but no info event is sent: the others are told at the next join
  or leave.
- `WriteLoop` itself sends to `Send`, which only it reads (`ws/client.go:369`, against the comment
  at `ws/client.go:307`): with a full channel it waits for itself. `JamSend` has this case.
- The WaitGroup that "keeps track of running read/write loops and write access to Send"
  (`ws/client.go:46`) does not count the greetings (`main.go:347`) and the history
  (`ws/client.go:77`). They are safe for other reasons: the handler waits for the greetings, the
  history holds the read lock.
- The ring holds `history_size - 1` events (`ws/hub.go:310`; `README.md:152` calls it the length of the ring buffer).
- buntdb's `GetEventHistory` lists newest first (`persistence/buntdb.go:513`), and `NewHub` puts
  them into the ring in this order: when there are `history_size` of them the newest is dropped, and the history
  runs backwards.
- gorm's `GetEventHistory` does not ask for the room (`persistence/gorm.go:139`): a room shows the
  events of others.
- A plugin's event filter is only looked at for events that have a target filter
  (`ws/filter.go:90`; `plugins/hub.go:48` says that it decides which events the plugin gets).
- Internal events that `HandleEvents` or `Cron` return are stored in the history
  (`ws/hub.go:174`); `EmitEvents` takes them out (`ws/events.go:19`).
- buntdb lets two users have the same nick (`persistence/buntdb.go:133`, against `types/user.go:10`).
- buntdb's `DeleteUser` deletes in a read-only transaction, always an error
  (`persistence/buntdb.go:239`).
- buntdb's `DeleteRoom` leaves the room's file (`persistence/buntdb.go:386`): a room created again
  under the same id has the old events. `RoomStartsEmpty` is therefore about sqlite.
- The entry of a deleted room is looked for under another key than the one it has
  (`delete(p.roomDbs, "room:"+room.Id)`), so it stays too. A room stored again finds no old row, opens
  the file once more, and the old handle is left open.
- `DeleteRoom` of an unknown room reports the error and leaves an empty row, which no list shows
  (`persistence/buntdb.go:386`).
- A process that ends between `StoreRoom`'s row and the failure of its file leaves a row with which
  no later start succeeds (`persistence/buntdb.go:278`; `interrupted`).

*Tags and plugins*

- An update of an item beyond the end is reported as done and changes nothing; a negative index
  panics, in the server (`filter/tags.go:123`).
- `/fg` forgets the target filter that its sender asked for, which `/to` keeps
  (`plugins/lightspeed-chat-base-commands-plugin/main.go:84`).
- The translator panics on the first chat message when languages are configured and `cache_size` is not,
  and on language codes shorter than two letters
  (`plugins/lightspeed-chat-google-translate-plugin/main.go:227`).
- Errors while the help text is translated are ignored, so it may appear in some languages only (the
  same file, `HandleEvents`); `AllLanguagesOrNone` is about messages.
- `InitEmitEvents` waits for ever when the broker cannot accept the plugin's connection
  (`plugins/grpc.go:197`): `AcceptAndServe` returns without a call of `serverFunc`, also when the plugin is alive,
  and the hub's goroutine does not try again.
- A call of `EmitEvents` that fails at the plugin's side because the connection was closed may have
  been carried out by the hub.

## What is abstracted

- **Steps that cannot block** are merged with the ones before them; what is merged touches nothing
  another goroutine could tell apart, or is under the lock.
- **WaitGroup**: an `Add` is one step. (Go's `Add` has a tail of its own in which a concurrent
  `Add` is misuse too; the window is a few instructions and the panic is the one we have.)
- **Pings that succeed** change nothing. **Broadcast goroutines** come from a pool `Bcasts`; an
  event for which there is none is one the model does not follow.
- **Batches in the pipeline** are sets: a batch always has its events in the order of creation. A
  plugin makes one `EmitEvents` call at a time. Plugin processes do not crash and their
  connections are not lost there.
- **Accounts**: the storage works (that it may fail is `HubHistory`'s); each event is a batch of its
  own; events beyond `MaxEvents` are not followed (`PublishMore`); tags of rooms are fixed; an
  event's author is not set to NULL when the user is deleted, as only the event's existence
  matters; guests' names may collide, as random names may. With buntdb each process has its own
  copy in memory, and the admin program is used while the server is stopped.
- **Delivery**: an event that waits in `BroadcastEvents`, in its `SendInfo` goroutine or in its
  broadcast for the lock is in one set (`started`), as these may overtake each other anyway; the order in
  which a client is shown events is left out; the ring forgets nothing (`EventRing`'s subject); the
  registration is one step with the wait for it; what a client that has left was shown is forgotten.
  A client may be in the room at the start, with the info event of its join: a state the room reaches.
- **PluginSessions**: one helper for all rooms, used as said above; the process is not started again,
  as nothing in the code does. **ShippedPlugins**: an event is offered to each plugin outside its
  chain, in any order; other plugins emit batches; text is a model value with the language it is in. Clients
  send what `ReadLoop` makes of "chat" frames; a frame that itself names its event `command`, with a
  filter of its own (`ws/client.go:266`), is left out: such a command's filter is its sender's choice.
- **BuntStore**: calls exclude each other under the persister's lock; the second transaction of
  `StoreRoom`, whose error is ignored, succeeds; what an update's expression results in is
  chosen freely; a tag's list has at most two items.
- **Event contents, formatting, logging**: left out, or chosen freely.

## Plan

### Not modelled

- **Generated protocol code** (`proto/`): what protoc makes, with a library's semantics. It is a
  third of the lines. Of the conversions in `plugins/grpc.go`, the one that changes something the
  system relies on, the cut of times to seconds, is in `HubHistory`.
- **postgres persister**: `NewPersister` never returns it. **gorm persister**: unfinished, but for
  the reload.
- **Authentication, configuration, logging**: a library's answer, or read once at the start.
- **The file lock between processes** (`persistence/buntdb.go:143`): readers share one lock object, so
  the first of them to unlock releases it for all. As each process keeps its own copy of buntdb's data
  in memory, no lock makes two processes agree, and the modules have one at a time.
- **The message variable that all frames share** (`ws/client.go:105`): frames say anything in the modules,
  a field kept from the frame before included.

### What is left

1. The order in which a client is shown events: which of two it can rely on (the batches of one
   publisher in the history, nothing live).
2. An abstract persister of users, which sqlite and buntdb both implement.
3. In `Publication`, the plugins' side of an event's way: an event is offered to the plugins before its
   answers are made.
