------------------------------ MODULE Delivery ------------------------------
(***************************************************************************)
(* Who is shown which event: the hub that broadcasts each event from a      *)
(* goroutine of its own and the target filters (ws/hub.go, ws/filter.go),    *)
(* the history that a connection is sent when it joins and whenever it logs  *)
(* in or changes its language, and the frames by which it does so            *)
(* (ws/client.go, cmd/lightspeed-chat/main.go).  c.user and c.Language are   *)
(* written by ReadLoop and read by the broadcasts and by WriteLoop without a *)
(* lock, so a filter may see a user and a language that never went together. *)
(*                                                                         *)
(* Capacities, the WaitGroups and the closing of channels are               *)
(* ClientLifecycle's.  As no send blocks here and the goroutines of          *)
(* broadcasts may overtake each other anyway, an event that waits in         *)
(* BroadcastEvents, in front of it, or in its goroutine for the lock, is     *)
(* all the same; the order in which a client is shown events is left out.    *)
(* The ring is long enough here: what it forgets is EventRing's.             *)
(***************************************************************************)
EXTENDS Naturals, Sequences, FiniteSets, Functions

CONSTANTS
  Clients,     \* connections; each joins at most once
  Present,     \* those that have joined already, in a room where nothing was said yet
  Accounts,    \* ids that a login or a token may turn out to be
  Guest,       \* the id of who is not logged in
  Langs,       \* languages
  Filters,     \* target filters to consider
  BatchMax,    \* events in one answer of a plugin
  MaxEvents,   \* events created in a behaviour
  AllowGuests, \* the room's tag _allow_guests
  NoClient

\* A target filter, as what it accepts: it compiles or not, and asks for an id and a language.
FilterType == [compiles : BOOLEAN, ids : SUBSET (Accounts \cup {Guest}), langs : SUBSET Langs]

Names == {"chat", "user", "info", "_internal", "own"}

ASSUME GuestIsNoAccount == Guest \notin Accounts
ASSUME NoClientIsNone   == NoClient \notin Clients
ASSUME PresentConnected == Present \subseteq Clients
ASSUME FiltersTyped     == Filters \subseteq FilterType
ASSUME BoundsAreNat     == BatchMax \in Nat /\ MaxEvents \in Nat \ {0}
ASSUME GuestsAllowed    == AllowGuests \in BOOLEAN

VARIABLES
  events,    \* the events created so far
  hq,        \* batches in Hub.EventHistory
  ring,      \* what GetHistory returns
  clients,   \* Hub.clients
  fresh,     \* the client that Hub.Run has just put there and not announced yet
  started,   \* events to be broadcast whose goroutines have not locked yet
  todo,      \* clients that a broadcast under the read lock has yet to ask
  half,      \* broadcasts and clients: the filter liked the user, and is to read the language
  phase,     \* how far a connection is
  at,        \* where its ReadLoop is
  user, lang,   \* c.user.Id and c.Language
  owed,      \* events on their way through SendEvents that WriteLoop has not looked at
  asked,     \* the one of them whose filter liked the user, and is to read the language
  got,       \* events that the connection was shown
  begun,     \* events created before the connection became who it is
  kept       \* events in the ring then

clientVars == <<phase, at, user, lang>>
castVars   == <<started, todo, half>>
shownVars  == <<owed, asked, got>>
knownVars  == <<begun, kept>>
vars == <<events, hq, ring, clients, fresh, castVars, clientVars, shownVars, knownVars>>

Ids    == Accounts \cup {Guest}
Event  == 1 .. MaxEvents
Everybody == [compiles |-> TRUE, ids |-> Ids, langs |-> Langs]   \* no filter: ""

TypeOK ==
  /\ events \in Seq([name : Names, filter : FilterType, now : SUBSET Clients])
  /\ Len(events) <= MaxEvents
  /\ hq \subseteq SUBSET Event /\ ring \subseteq Event
  /\ clients \subseteq Clients /\ fresh \in Clients \cup {NoClient}
  /\ started \subseteq Event /\ todo \in [Event -> SUBSET Clients] /\ half \subseteq Event \X Clients
  /\ phase \in [Clients -> {"off", "registered", "serving", "open", "leaving", "deleted", "gone"}]
  /\ at \in [Clients -> {"frames", "language", "publish"}]
  /\ user \in [Clients -> Ids] /\ lang \in [Clients -> Langs]
  /\ owed \in [Clients -> SUBSET Event] /\ asked \in [Clients -> SUBSET Event]
  /\ got \in [Clients -> SUBSET Event]
  /\ begun \in [Clients -> SUBSET Event] /\ kept \in [Clients -> SUBSET Event]

Info(present) == [name |-> "info", filter |-> Everybody, now |-> present]

Init ==
  /\ events = IF Present = {} THEN <<>> ELSE <<Info(Present)>>
  /\ hq = {} /\ ring = {}
  /\ clients = Present /\ fresh = NoClient
  /\ started = {} /\ todo = [e \in Event |-> {}] /\ half = {}
  /\ phase = [c \in Clients |-> IF c \in Present THEN "open" ELSE "off"]
  /\ at = [c \in Clients |-> "frames"]
  /\ user = [c \in Clients |-> Guest] /\ lang \in [Clients -> Langs]
  /\ owed = [c \in Clients |-> {}] /\ asked = [c \in Clients |-> {}]
  /\ got = [c \in Clients |-> IF c \in Present THEN {1} ELSE {}]
  /\ begun = [c \in Clients |-> {}] /\ kept = [c \in Clients |-> {}]

-----------------------------------------------------------------------------
(* The target filters. *)

Filter(e) == events[e].filter

\* A bug for the properties to notice.
LikesAnyUser(e, c) == TRUE

\* Without a filter there is no program to run, and RunFilterEvent says yes.  Hub.Run has none
\* for a filter that does not compile either; EvaluateFilterEvent says no to that.
Untargeted(e) == Filter(e) = Everybody
NoProgram(e)  == Untargeted(e) \/ ~Filter(e).compiles

\* What the program finds in its Env: c.user.Id first, c.Language at the end.
LikesUser(e, c)     == user[c] \in Filter(e).ids
LikesLanguage(e, c) == lang[c] \in Filter(e).langs

-----------------------------------------------------------------------------
(* Publishing. *)

\* The bound on what there may be of events; the code has none.
Room(n) == Len(events) + n <= MaxEvents

NewEvents(name, filters) ==
  [i \in DOMAIN filters |-> [name |-> name, filter |-> filters[i], now |-> {}]]
Numbers(n) == Len(events) + 1 .. Len(events) + n

\* Hub.Run starts a goroutine for each event of a batch but the internal ones.
Broadcast(name, n) == started' = started \cup (IF name = "_internal" THEN {} ELSE Numbers(n))

\* Both channels: which of them was first decides nothing, as Hub.Run selects freely.
Publish(name, filters) ==
  /\ Room(Len(filters))
  /\ events' = events \o NewEvents(name, filters)
  /\ Broadcast(name, Len(filters))
  /\ hq' = hq \cup {Numbers(Len(filters))}

\* SendInfo(GetInfo()): what it tells is settled before the goroutine runs.
Inform(present) ==
  /\ Room(1)
  /\ events' = events \o <<Info(present)>>
  /\ Broadcast("info", 1)

\* handleEvents, for HandleEvents' answers, for what plugins emit and for cron jobs.
PluginAnswers ==
  /\ \E n \in 1 .. BatchMax, name \in {"chat", "_internal"} :
       Room(n) /\ \E f \in [1 .. n -> Filters] : Publish(name, f)
  /\ UNCHANGED <<ring, clients, fresh, todo, half, clientVars, shownVars, knownVars>>

-----------------------------------------------------------------------------
(* Hub.Run, and the goroutines of the broadcasts. *)

\* A bug for the properties to notice.
LockedNever == FALSE

Locked == \E e \in Event : todo[e] # {}   \* a broadcast holds the read lock

\* From now on c is who it is: only later events are sure to find it so.
Becomes(c) == begun' = [begun EXCEPT ![c] = DOMAIN events]

\* A connection, with a token or without, waits for the hub: Lock, put, Unlock, Done.  A
\* writer that waits for the lock and one that comes later cannot be told apart.
HubAdd(c) ==
  /\ fresh = NoClient /\ phase[c] = "off" /\ ~Locked
  /\ \E u \in Ids : user' = [user EXCEPT ![c] = u]
  /\ clients' = clients \cup {c} /\ fresh' = c
  /\ phase' = [phase EXCEPT ![c] = "registered"]
  /\ Becomes(c) /\ kept' = [kept EXCEPT ![c] = ring]
  /\ UNCHANGED <<events, hq, ring, castVars, at, lang, shownVars>>

\* A bug for the properties to notice: what is told is from before the client was put there.
HubInfoOfOthers ==
  /\ fresh # NoClient /\ fresh' = NoClient
  /\ Inform(clients \ {fresh})
  /\ UNCHANGED <<hq, ring, clients, todo, half, clientVars, shownVars, knownVars>>

HubInfo ==
  /\ fresh # NoClient /\ fresh' = NoClient
  /\ Inform(clients)
  /\ UNCHANGED <<hq, ring, clients, todo, half, clientVars, shownVars, knownVars>>

HubHistory(batch) ==
  /\ fresh = NoClient /\ batch \in hq
  /\ hq' = hq \ {batch} /\ ring' = ring \cup batch
  /\ UNCHANGED <<events, clients, fresh, castVars, clientVars, shownVars, knownVars>>

\* The goroutine of an event locks with its first question: nobody comes or goes from then
\* until it has asked everybody, one after the other.
ToAsk(e)     == IF e \in started THEN clients ELSE todo[e]
Asks(e, c)   == c \in ToAsk(e) /\ ~\E d \in Clients : <<e, d>> \in half
AskLater(e, S) == started' = started \ {e} /\ todo' = [todo EXCEPT ![e] = S]
Show(e, c)   == got' = [got EXCEPT ![c] = @ \cup {e}]

CastToNobody(e) ==
  /\ e \in started /\ clients = {} /\ AskLater(e, {})
  /\ UNCHANGED <<events, hq, ring, clients, fresh, half, clientVars, shownVars, knownVars>>

\* RunFilterEvent: without a program it is a yes, ...
CastUnfiltered(e, c) ==
  /\ Asks(e, c) /\ NoProgram(e)
  /\ Show(e, c) /\ AskLater(e, ToAsk(e) \ {c})
  /\ UNCHANGED <<events, hq, ring, clients, fresh, half, clientVars, owed, asked, knownVars>>

\* ... or the user is read, ...
CastReadsUser(e, c) ==
  /\ Asks(e, c) /\ ~NoProgram(e)
  /\ IF LikesUser(e, c)
       THEN half' = half \cup {<<e, c>>} /\ AskLater(e, ToAsk(e))
       ELSE AskLater(e, ToAsk(e) \ {c}) /\ UNCHANGED half
  /\ UNCHANGED <<events, hq, ring, clients, fresh, clientVars, shownVars, knownVars>>

\* ... and the language, and what passes is sent.
CastReadsLanguage(e, c) ==
  /\ <<e, c>> \in half /\ half' = half \ {<<e, c>>}
  /\ AskLater(e, todo[e] \ {c})
  /\ IF LikesLanguage(e, c) THEN Show(e, c) ELSE UNCHANGED got
  /\ UNCHANGED <<events, hq, ring, clients, fresh, clientVars, owed, asked, knownVars>>

-----------------------------------------------------------------------------
(* The handler. *)

To(c, p) == phase' = [phase EXCEPT ![c] = p]

MayPost(c) == user[c] # Guest \/ AllowGuests

\* After Wait(): the loops run, and everybody is told of an account.
Serve(c) ==
  /\ phase[c] = "registered" /\ To(c, "serving")
  /\ IF MayPost(c) THEN /\ Room(1) /\ events' = events \o NewEvents("user", <<Everybody>>)
                        /\ Broadcast("user", 1)
                   ELSE UNCHANGED <<events, started>>
  /\ UNCHANGED <<hq, ring, clients, fresh, todo, half, at, user, lang, shownVars, knownVars>>

\* A bug for the properties to notice: the newest event is left out.
GetHistoryButNewest == {e \in ring : \E f \in ring : e < f}

GetHistory == ring

\* SendHistory(GetHistory()): the goroutine finds c in the map as long as anything is shown.
SendHistory(c) == owed' = [owed EXCEPT ![c] = @ \cup GetHistory]

HandlerHistory(c) ==
  /\ phase[c] = "serving" /\ To(c, "open")
  /\ SendHistory(c)
  /\ UNCHANGED <<events, hq, ring, clients, fresh, castVars, at, user, lang, asked, got, knownVars>>

-----------------------------------------------------------------------------
(* ReadLoop. *)

LoopsRun(c) == phase[c] \in {"serving", "open"}
Reads(c)    == LoopsRun(c) /\ at[c] = "frames"
Goto(c, p)  == at' = [at EXCEPT ![c] = p]

\* A chat message, or whatever else becomes an event: the client names it.
ReaderPublish(c) ==
  /\ (Reads(c) /\ MayPost(c)) \/ at[c] = "publish"
  /\ Goto(c, "frames")
  /\ \E f \in Filters, name \in {"chat", "_internal"} : Publish(name, <<f>>)
  /\ UNCHANGED <<ring, clients, fresh, todo, half, phase, user, lang, shownVars, knownVars>>

\* An event for the sender alone, past the hub.
Answer(c, f) ==
  /\ Room(1)
  /\ events' = events \o NewEvents("own", <<f>>)
  /\ owed' = [owed EXCEPT ![c] = @ \cup {Len(events) + 1}]

\* "/command": (filter) && Target.User.Id == own
ReaderCommand(c) ==
  /\ Reads(c) /\ MayPost(c)
  /\ \E f \in Filters : Answer(c, [f EXCEPT !.ids = @ \cap {user[c]}])
  /\ UNCHANGED <<hq, ring, clients, fresh, castVars, clientVars, asked, got, knownVars>>

\* "Please log in to post a message!", by the nick that only this guest has.
GuestOnly == [Everybody EXCEPT !.ids = {Guest}]
ReaderReply(c) ==
  /\ Reads(c) /\ ~MayPost(c)
  /\ Answer(c, GuestOnly)
  /\ UNCHANGED <<hq, ring, clients, fresh, castVars, clientVars, asked, got, knownVars>>

\* A logout; the frame then goes on to be an event, or is answered.
ReaderLogout(c) ==
  /\ Reads(c) /\ MayPost(c)
  /\ user' = [user EXCEPT ![c] = Guest]
  /\ Becomes(c) /\ kept' = [kept EXCEPT ![c] = {}]
  /\ IF AllowGuests THEN Goto(c, "publish") /\ UNCHANGED <<events, owed>>
                    ELSE Answer(c, GuestOnly) /\ UNCHANGED at
  /\ UNCHANGED <<hq, ring, clients, fresh, castVars, phase, lang, asked, got>>

\* A login with a token sets the user; one without keeps who is logged in.
ReaderLogin(c) ==
  /\ Reads(c) /\ Room(1)
  /\ \E u \in Accounts \cup (IF MayPost(c) THEN {user[c]} ELSE {}) : user' = [user EXCEPT ![c] = u]
  /\ Becomes(c) /\ kept' = [kept EXCEPT ![c] = {}] /\ Goto(c, "language")
  /\ UNCHANGED <<events, hq, ring, clients, fresh, castVars, phase, lang, shownVars>>

\* Then the language, the account's or the message's, and the history once more.
ReaderLanguage(c) ==
  /\ at[c] = "language" /\ Goto(c, "publish")
  /\ \E l \in Langs : lang' = [lang EXCEPT ![c] = l]
  /\ Becomes(c) /\ kept' = [kept EXCEPT ![c] = ring]
  /\ SendHistory(c)
  /\ UNCHANGED <<events, hq, ring, clients, fresh, castVars, phase, user, asked, got>>

\* The connection ends, and then the handler, which had the history of the join sent.
ReaderFails(c) ==
  /\ phase[c] = "open" /\ at[c] = "frames" /\ To(c, "leaving")
  /\ UNCHANGED <<events, hq, ring, clients, fresh, castVars, at, user, lang, shownVars, knownVars>>

\* Nobody is there to be shown anything any more.
UnregDelete(c) ==
  /\ phase[c] = "leaving" /\ ~Locked /\ To(c, "deleted")
  /\ clients' = clients \ {c}
  /\ owed' = [owed EXCEPT ![c] = {}] /\ asked' = [asked EXCEPT ![c] = {}]
  /\ got' = [got EXCEPT ![c] = {}]
  /\ begun' = [begun EXCEPT ![c] = {}] /\ kept' = [kept EXCEPT ![c] = {}]
  /\ UNCHANGED <<events, hq, ring, fresh, castVars, at, user, lang>>

UnregInfo(c) ==
  /\ phase[c] = "deleted" /\ To(c, "gone")
  /\ Inform(clients)
  /\ UNCHANGED <<hq, ring, clients, fresh, todo, half, at, user, lang, shownVars, knownVars>>

-----------------------------------------------------------------------------
(* WriteLoop, for SendEvents. *)

Looks(c, e) == LoopsRun(c) /\ asked[c] = {} /\ e \in owed[c] /\ owed' = [owed EXCEPT ![c] = @ \ {e}]

WriterUnfiltered(c, e) ==
  /\ Looks(c, e) /\ NoProgram(e)
  /\ IF Untargeted(e) THEN Show(e, c) ELSE UNCHANGED got
  /\ UNCHANGED <<events, hq, ring, clients, fresh, castVars, clientVars, asked, knownVars>>

WriterReadsUser(c, e) ==
  /\ Looks(c, e) /\ ~NoProgram(e)
  /\ asked' = IF LikesUser(e, c) THEN [asked EXCEPT ![c] = {e}] ELSE asked
  /\ UNCHANGED <<events, hq, ring, clients, fresh, castVars, clientVars, got, knownVars>>

WriterReadsLanguage(c, e) ==
  /\ LoopsRun(c) /\ e \in asked[c] /\ asked' = [asked EXCEPT ![c] = {}]
  /\ IF LikesLanguage(e, c) THEN Show(e, c) ELSE UNCHANGED got
  /\ UNCHANGED <<events, hq, ring, clients, fresh, castVars, clientVars, owed, knownVars>>

-----------------------------------------------------------------------------
HubStep == HubInfo \/ (\E batch \in hq : HubHistory(batch)) \/ \E c \in Clients : HubAdd(c)
CastStep(e) ==
  CastToNobody(e) \/ \E c \in Clients : CastUnfiltered(e, c) \/ CastReadsUser(e, c) \/ CastReadsLanguage(e, c)
HandlerStep(c) == Serve(c) \/ HandlerHistory(c) \/ UnregDelete(c) \/ UnregInfo(c)
ReaderStep(c)  == \/ ReaderPublish(c) \/ ReaderCommand(c) \/ ReaderReply(c) \/ ReaderLogout(c)
                  \/ ReaderLogin(c) \/ ReaderLanguage(c) \/ ReaderFails(c)
WriterStep(c)  == \E e \in Event : WriterUnfiltered(c, e) \/ WriterReadsUser(c, e) \/ WriterReadsLanguage(c, e)

Next == \/ PluginAnswers \/ HubStep
        \/ \E e \in Event : CastStep(e)
        \/ \E c \in Clients : HandlerStep(c) \/ ReaderStep(c) \/ WriterStep(c)

Spec == Init /\ [][Next]_vars

-----------------------------------------------------------------------------
\* Whom an event's filter means; one that does not compile means nobody in particular.
MeantFor(e, c) == Filter(e).compiles => user[c] \in Filter(e).ids /\ lang[c] \in Filter(e).langs

\* Of who has not come or has left there is nothing: no broadcast has yet to ask it or is in
\* the middle of its filter, however long that takes, and nothing is on its way to it.
NothingForAbsent ==
  \A c \in Clients \ clients :
    /\ owed[c] = {} /\ asked[c] = {} /\ got[c] = {}
    /\ \A e \in Event : c \notin todo[e] /\ <<e, c>> \notin half

\* Once a connection is who it is (joined, logged in or out, with another language), it is
\* shown nothing created since then that is not meant for it, by whatever way and however
\* late the filter is asked.
OnlyAudience == \A c \in Clients : \A e \in got[c] \ begun[c] : MeantFor(e, c)

\* Nothing is under way in the hub, nor to a client that is served.
HubQuiet   == /\ hq = {} /\ fresh = NoClient
              /\ started = {} /\ \A e \in Event : todo[e] = {}
              /\ \A c \in Clients : phase[c] # "deleted"
Settled(c) == phase[c] = "open" /\ at[c] = "frames" /\ owed[c] = {} /\ asked[c] = {}

\* What is published after somebody became who they are reaches them live, and what was in
\* the ring by then reaches them as history: between the two, only what was under way is lost.
ByBroadcast(e, c) == events[e].name \notin {"_internal", "own"} /\ e \notin begun[c]
ByHistory(e, c)   == e \in kept[c] /\ Filter(e).compiles
MissesNothing ==
  HubQuiet => \A c \in clients : Settled(c) =>
    \A e \in DOMAIN events : (ByBroadcast(e, c) \/ ByHistory(e, c)) /\ MeantFor(e, c) => e \in got[c]

\* Whatever overtakes what, everybody has been told who is here now.
PresenceTold ==
  HubQuiet => \A c \in clients : Settled(c) =>
    \E e \in got[c] : events[e].name = "info" /\ events[e].now = clients
=============================================================================
