--------------------------- MODULE DeliveryProofs ---------------------------
(***************************************************************************)
(* For any number of clients, events, accounts, languages and filters: what  *)
(* Delivery's run checks on a small room.  IInv follows each event on its    *)
(* way to each client.                                                       *)
(***************************************************************************)
EXTENDS Delivery, TLAPS

-----------------------------------------------------------------------------
(* The inductive invariant. *)

\* Whatever is on its way has been created.
Created == DOMAIN events
OnlyCreated ==
  /\ started \subseteq Created /\ \A e \in Event : todo[e] # {} => e \in Created
  /\ \A e \in Event, c \in Clients : <<e, c>> \in half => e \in Created
  /\ ring \subseteq Created /\ \A batch \in hq : batch \subseteq Created
  /\ \A c \in Clients : owed[c] \subseteq Created /\ asked[c] \subseteq Created
  /\ \A c \in Clients : got[c] \subseteq Created /\ kept[c] \subseteq Created

\* A broadcast asks those who are in the map, once it has locked; the lock keeps them there.
AsksMembers ==
  /\ \A e \in Event : todo[e] \subseteq clients /\ (e \in started => todo[e] = {})
  /\ \A e \in Event, c \in Clients : <<e, c>> \in half => c \in todo[e]
  /\ \A c \in Clients : \A e, f \in asked[c] : e = f
  /\ \A c \in Clients : c \in clients <=> phase[c] \in {"registered", "serving", "open", "leaving"}

\* Nothing is on its way to who is not in the map, and its ReadLoop does not run.
AbsentHaveNothing ==
  /\ \A c \in Clients : at[c] # "frames" => LoopsRun(c)
  /\ \A c \in Clients \ clients : owed[c] = {} /\ asked[c] = {} /\ got[c] = {}

\* A filter that has read the user read who the client is, if the event is from after it
\* became that; what is half read has a filter that compiles.
ReadsPresentUser ==
  /\ \A e \in Event, c \in Clients : <<e, c>> \in half =>
       Filter(e).compiles /\ (e \notin begun[c] => LikesUser(e, c))
  /\ \A c \in Clients : \A e \in asked[c] :
       Filter(e).compiles /\ (e \notin begun[c] => LikesUser(e, c))
  /\ OnlyAudience

\* What is meant for a client has reached it or is still to ask it.
Coming(e, c) == e \in started \/ c \in todo[e] \/ e \in got[c]
Due(e, c)    == phase[c] \in {"registered", "serving"} /\ e \in ring
OnHand(e, c) == Due(e, c) \/ e \in owed[c] \/ e \in asked[c] \/ e \in got[c]
ReachesAll ==
  /\ \A c \in clients : \A e \in Created : ByBroadcast(e, c) /\ MeantFor(e, c) => Coming(e, c)
  /\ \A c \in clients : \A e \in Created : ByHistory(e, c) /\ MeantFor(e, c) => OnHand(e, c)

\* Unless somebody has just come or gone, there is an event that says who is here.
Tells(e) == /\ e \in Created /\ events[e] = Info(clients)
            /\ \A c \in clients : Coming(e, c)
TellsPresence == fresh # NoClient \/ (\E c \in Clients : phase[c] = "deleted")
                   \/ clients = {} \/ \E e \in Event : Tells(e)

IInv == TypeOK /\ OnlyCreated /\ AsksMembers /\ AbsentHaveNothing /\ ReadsPresentUser /\ ReachesAll /\ TellsPresence

\* What events hold.
EventType == [name : Names, filter : FilterType, now : SUBSET Clients]

\* What appending does.
LEMMA Appended ==
  ASSUME NEW s \in Seq(EventType), NEW t \in Seq(EventType)
  PROVE  /\ s \o t \in Seq(EventType) /\ Len(s \o t) = Len(s) + Len(t)
         /\ DOMAIN (s \o t) = DOMAIN s \cup (Len(s) + 1 .. Len(s) + Len(t))
         /\ \A e \in DOMAIN s : (s \o t)[e] = s[e]
         /\ \A e \in Len(s) + 1 .. Len(s) + Len(t) : (s \o t)[e] = t[e - Len(s)]
<1>1. s \o t \in Seq(EventType) /\ Len(s \o t) = Len(s) + Len(t) /\ Len(s) \in Nat /\ Len(t) \in Nat OBVIOUS
<1>2. DOMAIN (s \o t) = 1 .. Len(s) + Len(t) /\ DOMAIN s = 1 .. Len(s) /\ DOMAIN t = 1 .. Len(t) BY <1>1
<1>3. \A e \in DOMAIN s : (s \o t)[e] = s[e] BY <1>1, <1>2
<1>4. \A e \in Len(s) + 1 .. Len(s) + Len(t) : (s \o t)[e] = t[e - Len(s)] BY <1>1, <1>2
<1>5. DOMAIN (s \o t) = DOMAIN s \cup (Len(s) + 1 .. Len(s) + Len(t)) BY <1>1, <1>2
<1> QED BY <1>1, <1>3, <1>4, <1>5

\* So many events with that name.
LEMMA NewTyped ==
  ASSUME NEW name \in Names, NEW n \in Nat, NEW f \in [1 .. n -> FilterType]
  PROVE  /\ NewEvents(name, f) \in Seq(EventType) /\ Len(NewEvents(name, f)) = n
         /\ \A i \in 1 .. n : NewEvents(name, f)[i].name = name
<1>1. DOMAIN f = 1 .. n OBVIOUS
<1>2. \A i \in 1 .. n : [name |-> name, filter |-> f[i], now |-> {}] \in EventType BY DEF EventType
<1>3. NewEvents(name, f) \in [1 .. n -> EventType] BY <1>1, <1>2 DEF NewEvents
<1> QED BY <1>1, <1>3 DEF NewEvents, EventType

\* Showing one more.
LEMMA ShownIn ==
  ASSUME NEW f \in [Clients -> SUBSET Event], NEW g, NEW c \in Clients, NEW e \in Event, NEW S,
         g = f \/ g = [f EXCEPT ![c] = @ \cup {e}], e \in S, \A x \in Clients : f[x] \subseteq S
  PROVE  \A x \in Clients : g[x] \subseteq S
<1>1. CASE g = f BY <1>1
<1>2. CASE g = [f EXCEPT ![c] = @ \cup {e}] BY <1>2
<1> QED BY <1>1, <1>2

\* What is created has new numbers.
LEMMA Creating ==
  ASSUME TypeOK, NEW t \in Seq(EventType), Room(Len(t)), events' = events \o t
  PROVE  /\ events' \in Seq(EventType) /\ Len(events') <= MaxEvents
         /\ Created' = Created \cup Numbers(Len(t)) /\ Numbers(Len(t)) \cap Created = {}
         /\ Numbers(Len(t)) \subseteq Event /\ \A e \in Created : events'[e] = events[e]
         /\ \A e \in Numbers(Len(t)) : events'[e] = t[e - Len(events)] /\ e - Len(events) \in 1 .. Len(t)
<1>1. events \in Seq(EventType) /\ Len(events) \in Nat /\ Len(t) \in Nat /\ MaxEvents \in Nat
  BY BoundsAreNat DEF TypeOK, EventType
<1>2. events' \in Seq(EventType) /\ Len(events') = Len(events) + Len(t)
  BY <1>1, Appended
<1>3. Created' = Created \cup Numbers(Len(t)) /\ \A e \in Created : events'[e] = events[e]
  BY <1>1, Appended DEF Numbers, Created
<1>4. \A e \in Numbers(Len(t)) : events'[e] = t[e - Len(events)]
  BY <1>1, Appended DEF Numbers
<1>5. DOMAIN events = 1 .. Len(events) BY <1>1
<1> QED BY <1>1, <1>2, <1>3, <1>4, <1>5 DEF Numbers, Created, Room, Event

\* What a step creates is new, and a broadcast of it starts unless it is internal or for
\* the sender alone.
Grows == /\ events' \in Seq(EventType) /\ Len(events') <= MaxEvents
         /\ Created \subseteq Created' /\ Created' \subseteq Event
         /\ \A e \in Created : events'[e] = events[e]
         /\ started' \subseteq started \cup (Created' \ Created)
         /\ \A batch \in hq' \ hq : batch \subseteq Created'
         /\ \A c \in Clients : owed'[c] \subseteq owed[c] \cup ring \cup Created'
         /\ \A e \in Created' \ Created : events'[e].name \notin {"_internal", "own"} => e \in started'

\* The same for the events of one step.
LEMMA PublishGrows ==
  ASSUME TypeOK, NEW name \in {"chat", "user", "_internal"}, NEW n \in Nat, NEW f \in [1 .. n -> FilterType],
         Room(n), events' = events \o NewEvents(name, f), Broadcast(name, n),
         hq' \subseteq hq \cup {Numbers(n)}, owed' = owed
  PROVE  Grows
<1> DEFINE t == NewEvents(name, f)
<1>1. t \in Seq(EventType) /\ Len(t) = n /\ \A i \in 1 .. n : t[i].name = name BY NewTyped DEF Names
<1> HIDE DEF t
<1>2. /\ events' \in Seq(EventType) /\ Len(events') <= MaxEvents
      /\ Created' = Created \cup Numbers(n) /\ Numbers(n) \cap Created = {}
      /\ Numbers(n) \subseteq Event /\ \A e \in Created : events'[e] = events[e]
      /\ \A e \in Numbers(n) : events'[e] = t[e - Len(events)] /\ e - Len(events) \in 1 .. n
  <2>1. events' = events \o t BY DEF t
  <2> QED BY <1>1, <2>1, Creating
<1>3. Created \subseteq Event BY BoundsAreNat DEF TypeOK, Created, Event
<1>4. \A e \in Numbers(n) : events'[e].name = name BY <1>1, <1>2
<1>5. started' = started \cup (IF name = "_internal" THEN {} ELSE Numbers(n)) BY DEF Broadcast
<1>6. owed \in [Clients -> SUBSET Event] BY DEF TypeOK
<1> QED BY <1>2, <1>3, <1>4, <1>5, <1>6 DEF Grows

\* The same for an info event.
LEMMA InformGrows ==
  ASSUME TypeOK, NEW present \in SUBSET Clients, Inform(present), hq' = hq, owed' = owed
  PROVE  /\ Grows
         /\ \E e \in Created' : e \notin Created /\ e \in started' /\ events'[e] = Info(present)
<1>1. Info(present) \in EventType BY DEF Info, EventType, Names, Everybody, FilterType, Ids
<1>2. <<Info(present)>> \in Seq(EventType) /\ Len(<<Info(present)>>) = 1 BY <1>1
<1>3. /\ events' \in Seq(EventType) /\ Len(events') <= MaxEvents
      /\ Created' = Created \cup Numbers(1) /\ Numbers(1) \cap Created = {}
      /\ Numbers(1) \subseteq Event /\ \A e \in Created : events'[e] = events[e]
      /\ \A e \in Numbers(1) : events'[e] = <<Info(present)>>[e - Len(events)] /\ e - Len(events) \in 1 .. 1
  BY <1>2, Creating DEF Inform
<1>4. Created \subseteq Event BY BoundsAreNat DEF TypeOK, Created, Event
<1>5. started' = started \cup Numbers(1) BY DEF Inform, Broadcast
<1>6. Len(events) \in Nat BY DEF TypeOK
<1>7. Len(events) + 1 \in Numbers(1) /\ events'[Len(events) + 1] = Info(present) BY <1>3, <1>6 DEF Numbers
<1> QED BY <1>3, <1>4, <1>5, <1>7 DEF Grows

\* The same for an answer to the sender.
LEMMA AnswerGrows ==
  ASSUME TypeOK, NEW c \in Clients, NEW f \in FilterType, Answer(c, f), hq' = hq, started' = started
  PROVE  Grows
<1>1. <<f>> \in [1 .. 1 -> FilterType] OBVIOUS
<1> DEFINE t == NewEvents("own", <<f>>)
<1>2. t \in Seq(EventType) /\ Len(t) = 1 /\ \A i \in 1 .. 1 : t[i].name = "own" BY SMTT(30), <1>1, NewTyped DEF Names
<1> HIDE DEF t
<1>3. /\ events' \in Seq(EventType) /\ Len(events') <= MaxEvents
      /\ Created' = Created \cup Numbers(1) /\ Numbers(1) \cap Created = {}
      /\ Numbers(1) \subseteq Event /\ \A e \in Created : events'[e] = events[e]
      /\ \A e \in Numbers(1) : events'[e] = t[e - Len(events)] /\ e - Len(events) \in 1 .. 1
  <2>1. events' = events \o t /\ Room(1) BY DEF t, Answer
  <2> QED BY <1>2, <2>1, Creating
<1>4. Created \subseteq Event BY BoundsAreNat DEF TypeOK, Created, Event
<1>5. \A e \in Numbers(1) : events'[e].name = "own" BY <1>2, <1>3
<1>6. Len(events) \in Nat /\ owed \in [Clients -> SUBSET Event] BY DEF TypeOK
<1>7. Len(events) + 1 \in Numbers(1) BY <1>6 DEF Numbers
<1> QED BY <1>3, <1>4, <1>5, <1>6, <1>7 DEF Grows, Answer

\* No step changes or forgets an event that was created.
LEMMA GrowthStep ==
  TypeOK /\ [Next]_vars => Grows
<1> SUFFICES ASSUME TypeOK, [Next]_vars PROVE Grows OBVIOUS
<1>1. CASE PluginAnswers
  <2>1. PICK n \in 1 .. BatchMax, name \in {"chat", "_internal"} : \E f \in [1 .. n -> Filters] : Publish(name, f)
    BY <1>1 DEF PluginAnswers
  <2>2. PICK f \in [1 .. n -> Filters] : Publish(name, f) BY <2>1
  <2>3. f \in [1 .. n -> FilterType] /\ n \in Nat BY <2>2, FiltersTyped, BoundsAreNat
  <2>4. Len(f) = n BY <2>3
  <2> QED BY <2>2, <2>3, <2>4, <1>1, PublishGrows DEF Publish, PluginAnswers, shownVars
<1>2. CASE HubInfo
  <2>1. clients \in SUBSET Clients BY DEF TypeOK
  <2> QED BY <1>2, <2>1, InformGrows DEF HubInfo, shownVars
<1>3. ASSUME NEW batch \in hq, HubHistory(batch) PROVE Grows
  BY <1>3, BoundsAreNat DEF TypeOK, Grows, Created, EventType, Event, castVars, shownVars, HubHistory
<1>4. ASSUME NEW c \in Clients, HubAdd(c) PROVE Grows
  BY <1>4, BoundsAreNat DEF TypeOK, Grows, Created, EventType, Event, castVars, shownVars, HubAdd
<1>5. ASSUME NEW e \in Event, CastToNobody(e) PROVE Grows
  BY <1>5, BoundsAreNat DEF TypeOK, Grows, Created, EventType, Event, castVars, shownVars, CastToNobody, AskLater
<1>6. ASSUME NEW e \in Event, NEW c \in Clients, CastUnfiltered(e, c) PROVE Grows
  BY <1>6, BoundsAreNat DEF TypeOK, Grows, Created, EventType, Event, castVars, shownVars, CastUnfiltered, AskLater
<1>7. ASSUME NEW e \in Event, NEW c \in Clients, CastReadsUser(e, c) PROVE Grows
  BY <1>7, BoundsAreNat DEF TypeOK, Grows, Created, EventType, Event, castVars, shownVars, CastReadsUser, AskLater
<1>8. ASSUME NEW e \in Event, NEW c \in Clients, CastReadsLanguage(e, c) PROVE Grows
  BY <1>8, BoundsAreNat DEF TypeOK, Grows, Created, EventType, Event, castVars, shownVars, CastReadsLanguage, AskLater
<1>9. ASSUME NEW c \in Clients, Serve(c) PROVE Grows
  <2>1. CASE MayPost(c)
    <3>0. Everybody \in FilterType BY DEF Everybody, FilterType, Ids
    <3>1. <<Everybody>> \in [1 .. 1 -> FilterType] BY <3>0
    <3> QED BY <1>9, <2>1, <3>1, PublishGrows DEF Serve, shownVars
  <2>2. CASE ~MayPost(c) BY <1>9, <2>2, BoundsAreNat DEF Serve, TypeOK, Grows, Created, EventType, Event, shownVars
  <2> QED BY <2>1, <2>2
<1>10. ASSUME NEW c \in Clients, HandlerHistory(c) PROVE Grows
  BY <1>10, BoundsAreNat DEF TypeOK, Grows, Created, EventType, Event, castVars, shownVars, HandlerHistory, SendHistory, GetHistory
<1>11. ASSUME NEW c \in Clients, UnregDelete(c) PROVE Grows
  BY <1>11, BoundsAreNat DEF TypeOK, Grows, Created, EventType, Event, castVars, shownVars, UnregDelete
<1>12. ASSUME NEW c \in Clients, UnregInfo(c) PROVE Grows
  <2>1. clients \in SUBSET Clients BY DEF TypeOK
  <2> QED BY <1>12, <2>1, InformGrows DEF UnregInfo, shownVars
<1>13. ASSUME NEW c \in Clients, ReaderPublish(c) PROVE Grows
  <2>1. PICK f \in Filters, name \in {"chat", "_internal"} : Publish(name, <<f>>) BY <1>13 DEF ReaderPublish
  <2>2. <<f>> \in [1 .. 1 -> FilterType] /\ Len(<<f>>) = 1 BY FiltersTyped
  <2> QED BY <1>13, <2>1, <2>2, PublishGrows DEF ReaderPublish, Publish, shownVars
<1>14. ASSUME NEW c \in Clients, ReaderCommand(c) PROVE Grows
  <2>1. PICK f \in Filters : Answer(c, [f EXCEPT !.ids = @ \cap {user[c]}]) BY <1>14 DEF ReaderCommand
  <2>2. [f EXCEPT !.ids = @ \cap {user[c]}] \in FilterType BY FiltersTyped DEF FilterType
  <2> QED BY <1>14, <2>1, <2>2, AnswerGrows DEF ReaderCommand, castVars
<1>15. ASSUME NEW c \in Clients, ReaderReply(c) PROVE Grows
  <2>1. GuestOnly \in FilterType BY DEF GuestOnly, Everybody, FilterType, Ids
  <2> QED BY <1>15, <2>1, AnswerGrows DEF ReaderReply, castVars
<1>16. ASSUME NEW c \in Clients, ReaderLogout(c) PROVE Grows
  <2>1. GuestOnly \in FilterType BY DEF GuestOnly, Everybody, FilterType, Ids
  <2>2. CASE ~AllowGuests BY <1>16, <2>1, <2>2, AnswerGrows DEF ReaderLogout, castVars
  <2>3. CASE AllowGuests BY <1>16, <2>3, BoundsAreNat DEF ReaderLogout, TypeOK, Grows, Created, EventType, Event, castVars
  <2> QED BY <2>2, <2>3
<1>17. ASSUME NEW c \in Clients, ReaderLogin(c) PROVE Grows
  BY <1>17, BoundsAreNat DEF TypeOK, Grows, Created, EventType, Event, castVars, shownVars, ReaderLogin
<1>18. ASSUME NEW c \in Clients, ReaderLanguage(c) PROVE Grows
  BY <1>18, BoundsAreNat DEF TypeOK, Grows, Created, EventType, Event, castVars, shownVars, ReaderLanguage, SendHistory, GetHistory
<1>19. ASSUME NEW c \in Clients, ReaderFails(c) PROVE Grows
  BY <1>19, BoundsAreNat DEF TypeOK, Grows, Created, EventType, Event, castVars, shownVars, ReaderFails
<1>20. ASSUME NEW e \in Event, NEW c \in Clients, WriterUnfiltered(c, e) PROVE Grows
  BY <1>20, BoundsAreNat DEF TypeOK, Grows, Created, EventType, Event, castVars, shownVars, WriterUnfiltered, Looks
<1>21. ASSUME NEW e \in Event, NEW c \in Clients, WriterReadsUser(c, e) PROVE Grows
  BY <1>21, BoundsAreNat DEF TypeOK, Grows, Created, EventType, Event, castVars, shownVars, WriterReadsUser, Looks
<1>22. ASSUME NEW e \in Event, NEW c \in Clients, WriterReadsLanguage(c, e) PROVE Grows
  BY <1>22, BoundsAreNat DEF TypeOK, Grows, Created, EventType, Event, castVars, shownVars, WriterReadsLanguage
<1>23. CASE UNCHANGED vars
  BY <1>23, BoundsAreNat DEF vars, clientVars, castVars, shownVars, knownVars, TypeOK, Grows, Created, EventType, Event
<1> QED BY <1>1, <1>2, <1>3, <1>4, <1>5, <1>6, <1>7, <1>8, <1>9, <1>10, <1>11, <1>12, <1>13, <1>14, <1>15, <1>16, <1>17, <1>18, <1>19, <1>20, <1>21, <1>22, <1>23 DEF Next, HubStep, CastStep, HandlerStep, ReaderStep, WriterStep

\* A step handles events that were created, and no others.
LEMMA CreatedStep ==
  TypeOK /\ OnlyCreated /\ [Next]_vars => OnlyCreated'
<1> SUFFICES ASSUME TypeOK, OnlyCreated, [Next]_vars PROVE OnlyCreated' OBVIOUS
<1> USE BoundsAreNat
<1>0. Grows BY GrowthStep DEF TypeOK
<1>1. CASE PluginAnswers
  BY <1>1, <1>0 DEF TypeOK, Grows, OnlyCreated, Created, Event, clientVars, castVars, shownVars, knownVars, PluginAnswers, Publish
<1>2. CASE HubInfo
  BY <1>2, <1>0 DEF TypeOK, Grows, OnlyCreated, Created, Event, clientVars, castVars, shownVars, knownVars, HubInfo, Inform
<1>3. ASSUME NEW batch \in hq, HubHistory(batch) PROVE OnlyCreated'
  BY <1>3, <1>0 DEF TypeOK, Grows, OnlyCreated, Created, Event, clientVars, castVars, shownVars, knownVars, HubHistory
<1>4. ASSUME NEW c \in Clients, HubAdd(c) PROVE OnlyCreated'
  <2>1. started' \subseteq Created'
    BY <1>4, <1>0 DEF TypeOK, Grows, OnlyCreated, Created, Event, clientVars, castVars, shownVars, knownVars, HubAdd, Becomes, Locked
  <2>2. \A x \in Event : todo'[x] # {} => x \in Created'
    BY <1>4, <1>0 DEF TypeOK, Grows, OnlyCreated, Created, Event, clientVars, castVars, shownVars, knownVars, HubAdd, Becomes, Locked
  <2>3. \A x \in Event, y \in Clients : <<x, y>> \in half' => x \in Created'
    BY <1>4, <1>0 DEF TypeOK, Grows, OnlyCreated, Created, Event, clientVars, castVars, shownVars, knownVars, HubAdd, Becomes, Locked
  <2>4. ring' \subseteq Created' /\ \A b \in hq' : b \subseteq Created'
    BY <1>4, <1>0 DEF TypeOK, Grows, OnlyCreated, Created, Event, clientVars, castVars, shownVars, knownVars, HubAdd, Becomes, Locked
  <2>5. \A x \in Clients : owed'[x] \subseteq Created' /\ asked'[x] \subseteq Created'
    BY <1>4, <1>0 DEF TypeOK, Grows, OnlyCreated, Created, Event, clientVars, castVars, shownVars, knownVars, HubAdd, Becomes, Locked
  <2>6. \A x \in Clients : got'[x] \subseteq Created'
    BY <1>4, <1>0 DEF TypeOK, Grows, OnlyCreated, Created, Event, clientVars, castVars, shownVars, knownVars, HubAdd, Becomes, Locked
  <2>7. \A x \in Clients : kept'[x] \subseteq Created'
    BY <1>4, <1>0 DEF TypeOK, Grows, OnlyCreated, HubAdd
  <2> QED BY <2>1, <2>2, <2>3, <2>4, <2>5, <2>6, <2>7 DEF OnlyCreated
<1>5. ASSUME NEW e \in Event, CastToNobody(e) PROVE OnlyCreated'
  <2>1. /\ UNCHANGED <<events, hq, ring, half, owed, asked, got, kept>> /\ started' \subseteq started
        /\ todo' = [todo EXCEPT ![e] = {}]
    BY <1>5 DEF CastToNobody, AskLater, shownVars, knownVars
  <2>2. Created' = Created
    BY <2>1 DEF Created
  <2>3. \A x \in Event : todo'[x] # {} => todo[x] # {}
    BY <2>1 DEF TypeOK
  <2>4. (\A x \in Event : todo'[x] # {} => x \in Created') /\ started' \subseteq Created'
    BY <2>1, <2>2, <2>3 DEF OnlyCreated
  <2> QED BY <2>1, <2>2, <2>4 DEF OnlyCreated
<1>6. ASSUME NEW e \in Event, NEW c \in Clients, CastUnfiltered(e, c) PROVE OnlyCreated'
  <2>1. ToAsk(e) \subseteq Clients /\ (ToAsk(e) # {} => e \in Created) BY DEF ToAsk, TypeOK, OnlyCreated
  <2>2. started' \subseteq Created'
    BY <1>6, <1>0, <2>1 DEF TypeOK, Grows, OnlyCreated, Created, Event, clientVars, castVars, shownVars, knownVars, CastUnfiltered, AskLater, Show, Asks
  <2>3. \A x \in Event : todo'[x] # {} => x \in Created'
    BY <1>6, <1>0, <2>1 DEF TypeOK, Grows, OnlyCreated, Created, Event, clientVars, castVars, shownVars, knownVars, CastUnfiltered, AskLater, Show, Asks
  <2>4. \A x \in Event, y \in Clients : <<x, y>> \in half' => x \in Created'
    BY <1>6, <1>0, <2>1 DEF TypeOK, Grows, OnlyCreated, Created, Event, clientVars, castVars, shownVars, knownVars, CastUnfiltered, AskLater, Show, Asks
  <2>5. ring' \subseteq Created' /\ \A b \in hq' : b \subseteq Created'
    BY <1>6, <1>0, <2>1 DEF TypeOK, Grows, OnlyCreated, Created, Event, clientVars, castVars, shownVars, knownVars, CastUnfiltered, AskLater, Show, Asks
  <2>6. \A x \in Clients : owed'[x] \subseteq Created' /\ asked'[x] \subseteq Created'
    BY <1>6, <1>0, <2>1 DEF TypeOK, Grows, OnlyCreated, Created, Event, clientVars, castVars, shownVars, knownVars, CastUnfiltered, AskLater, Show, Asks
  <2>7. \A x \in Clients : got'[x] \subseteq Created'
    BY <1>6, <1>0, <2>1 DEF TypeOK, Grows, OnlyCreated, Created, Event, clientVars, castVars, shownVars, knownVars, CastUnfiltered, AskLater, Show, Asks
  <2>8. \A x \in Clients : kept'[x] \subseteq Created'
    BY <1>6, <1>0, <2>1 DEF TypeOK, Grows, OnlyCreated, Created, Event, clientVars, castVars, shownVars, knownVars, CastUnfiltered, AskLater, Show, Asks
  <2> QED BY <2>2, <2>3, <2>4, <2>5, <2>6, <2>7, <2>8 DEF OnlyCreated
<1>7. ASSUME NEW e \in Event, NEW c \in Clients, CastReadsUser(e, c) PROVE OnlyCreated'
  <2>1. ToAsk(e) \subseteq Clients /\ (ToAsk(e) # {} => e \in Created) BY DEF ToAsk, TypeOK, OnlyCreated
  <2>2. \E S \in SUBSET ToAsk(e) : started' = started \ {e} /\ todo' = [todo EXCEPT ![e] = S] BY <1>7 DEF CastReadsUser, AskLater
  <2>3. started' \subseteq Created'
    BY <1>7, <1>0, <2>1, <2>2 DEF TypeOK, Grows, OnlyCreated, Created, Event, clientVars, castVars, shownVars, knownVars, CastReadsUser, AskLater, Asks
  <2>4. \A x \in Event : todo'[x] # {} => x \in Created'
    BY <1>7, <1>0, <2>1, <2>2 DEF TypeOK, Grows, OnlyCreated, Created, Event, clientVars, castVars, shownVars, knownVars, CastReadsUser, AskLater, Asks
  <2>5. \A x \in Event, y \in Clients : <<x, y>> \in half' => x \in Created'
    BY <1>7, <1>0, <2>1, <2>2 DEF TypeOK, Grows, OnlyCreated, Created, Event, clientVars, castVars, shownVars, knownVars, CastReadsUser, AskLater, Asks
  <2>6. ring' \subseteq Created' /\ \A b \in hq' : b \subseteq Created'
    BY <1>7, <1>0, <2>1, <2>2 DEF TypeOK, Grows, OnlyCreated, Created, Event, clientVars, castVars, shownVars, knownVars, CastReadsUser, AskLater, Asks
  <2>7. \A x \in Clients : owed'[x] \subseteq Created' /\ asked'[x] \subseteq Created'
    BY <1>7, <1>0, <2>1, <2>2 DEF TypeOK, Grows, OnlyCreated, Created, Event, clientVars, castVars, shownVars, knownVars, CastReadsUser, AskLater, Asks
  <2>8. \A x \in Clients : got'[x] \subseteq Created'
    BY <1>7, <1>0, <2>1, <2>2 DEF TypeOK, Grows, OnlyCreated, Created, Event, clientVars, castVars, shownVars, knownVars, CastReadsUser, AskLater, Asks
  <2>9. \A x \in Clients : kept'[x] \subseteq Created'
    BY <1>7, <1>0, <2>1, <2>2 DEF TypeOK, Grows, OnlyCreated, Created, Event, clientVars, castVars, shownVars, knownVars, CastReadsUser, AskLater, Asks
  <2> QED BY <2>3, <2>4, <2>5, <2>6, <2>7, <2>8, <2>9 DEF OnlyCreated
<1>8. ASSUME NEW e \in Event, NEW c \in Clients, CastReadsLanguage(e, c) PROVE OnlyCreated'
  <2>1. got' = got \/ got' = [got EXCEPT ![c] = @ \cup {e}] BY <1>8 DEF CastReadsLanguage, Show
  <2>2. e \in Created BY <1>8 DEF CastReadsLanguage, OnlyCreated
  <2>3. todo[e] # {} => e \in Created BY DEF OnlyCreated
  <2>4. got \in [Clients -> SUBSET Event] /\ \A x \in Clients : got[x] \subseteq Created BY DEF TypeOK, OnlyCreated
  <2>5. Created \subseteq Created' BY <1>0 DEF Grows
  <2>6. \A x \in Clients : got'[x] \subseteq Created BY <2>1, <2>2, <2>4, ShownIn
  <2>7. started' \subseteq Created'
    BY <1>8, <1>0, <2>1, <2>2, <2>3, <2>4, <2>5, <2>6 DEF TypeOK, Grows, OnlyCreated, Created, Event, clientVars, castVars, shownVars, knownVars, CastReadsLanguage, AskLater, Show
  <2>8. \A x \in Event : todo'[x] # {} => x \in Created'
    BY <1>8, <1>0, <2>1, <2>2, <2>3, <2>4, <2>5, <2>6 DEF TypeOK, Grows, OnlyCreated, Created, Event, clientVars, castVars, shownVars, knownVars, CastReadsLanguage, AskLater, Show
  <2>9. \A x \in Event, y \in Clients : <<x, y>> \in half' => x \in Created'
    BY <1>8, <1>0, <2>1, <2>2, <2>3, <2>4, <2>5, <2>6 DEF TypeOK, Grows, OnlyCreated, Created, Event, clientVars, castVars, shownVars, knownVars, CastReadsLanguage, AskLater, Show
  <2>10. ring' \subseteq Created' /\ \A b \in hq' : b \subseteq Created'
    BY <1>8, <1>0, <2>1, <2>2, <2>3, <2>4, <2>5, <2>6 DEF TypeOK, Grows, OnlyCreated, Created, Event, clientVars, castVars, shownVars, knownVars, CastReadsLanguage, AskLater, Show
  <2>11. \A x \in Clients : owed'[x] \subseteq Created' /\ asked'[x] \subseteq Created'
    BY <1>8, <1>0, <2>1, <2>2, <2>3, <2>4, <2>5, <2>6 DEF TypeOK, Grows, OnlyCreated, Created, Event, clientVars, castVars, shownVars, knownVars, CastReadsLanguage, AskLater, Show
  <2>12. \A x \in Clients : got'[x] \subseteq Created'
    BY <2>5, <2>6
  <2>13. \A x \in Clients : kept'[x] \subseteq Created'
    BY <1>8, <1>0, <2>1, <2>2, <2>3, <2>4, <2>5, <2>6 DEF TypeOK, Grows, OnlyCreated, Created, Event, clientVars, castVars, shownVars, knownVars, CastReadsLanguage, AskLater, Show
  <2> QED BY <2>7, <2>8, <2>9, <2>10, <2>11, <2>12, <2>13 DEF OnlyCreated
<1>9. ASSUME NEW c \in Clients, Serve(c) PROVE OnlyCreated'
  BY <1>9, <1>0 DEF TypeOK, Grows, OnlyCreated, Created, Event, clientVars, castVars, shownVars, knownVars, Serve, MayPost, To
<1>10. ASSUME NEW c \in Clients, HandlerHistory(c) PROVE OnlyCreated'
  BY <1>10, <1>0 DEF TypeOK, Grows, OnlyCreated, Created, Event, clientVars, castVars, shownVars, knownVars, HandlerHistory, SendHistory, GetHistory, To
<1>11. ASSUME NEW c \in Clients, UnregDelete(c) PROVE OnlyCreated'
  BY <1>11, <1>0 DEF TypeOK, Grows, OnlyCreated, Created, Event, clientVars, castVars, shownVars, knownVars, UnregDelete, To, Locked
<1>12. ASSUME NEW c \in Clients, UnregInfo(c) PROVE OnlyCreated'
  BY <1>12, <1>0 DEF TypeOK, Grows, OnlyCreated, Created, Event, clientVars, castVars, shownVars, knownVars, UnregInfo, Inform, To
<1>13. ASSUME NEW c \in Clients, ReaderPublish(c) PROVE OnlyCreated'
  BY <1>13, <1>0 DEF TypeOK, Grows, OnlyCreated, Created, Event, clientVars, castVars, shownVars, knownVars, ReaderPublish, Publish, MayPost, Goto
<1>14. ASSUME NEW c \in Clients, ReaderCommand(c) PROVE OnlyCreated'
  <2>1. started' \subseteq Created'
    BY <1>14, <1>0 DEF TypeOK, Grows, OnlyCreated, Created, Event, clientVars, castVars, shownVars, knownVars, ReaderCommand, Answer
  <2>2. \A x \in Event : todo'[x] # {} => x \in Created'
    BY <1>14, <1>0 DEF TypeOK, Grows, OnlyCreated, Created, Event, clientVars, castVars, shownVars, knownVars, ReaderCommand, Answer
  <2>3. \A x \in Event, y \in Clients : <<x, y>> \in half' => x \in Created'
    BY <1>14, <1>0 DEF TypeOK, Grows, OnlyCreated, Created, Event, clientVars, castVars, shownVars, knownVars, ReaderCommand, Answer
  <2>4. ring' \subseteq Created' /\ \A b \in hq' : b \subseteq Created'
    BY <1>14, <1>0 DEF TypeOK, Grows, OnlyCreated, Created, Event, clientVars, castVars, shownVars, knownVars, ReaderCommand, Answer
  <2>5. \A x \in Clients : owed'[x] \subseteq Created' /\ asked'[x] \subseteq Created'
    BY <1>14, <1>0 DEF TypeOK, Grows, OnlyCreated, Created, Event, clientVars, castVars, shownVars, knownVars, ReaderCommand, Answer
  <2>6. \A x \in Clients : got'[x] \subseteq Created'
    BY <1>14, <1>0 DEF TypeOK, Grows, OnlyCreated, Created, Event, clientVars, castVars, shownVars, knownVars, ReaderCommand, Answer
  <2>7. \A x \in Clients : kept'[x] \subseteq Created'
    BY <1>14, <1>0 DEF TypeOK, Grows, OnlyCreated, Created, Event, clientVars, castVars, shownVars, knownVars, ReaderCommand, Answer
  <2> QED BY <2>1, <2>2, <2>3, <2>4, <2>5, <2>6, <2>7 DEF OnlyCreated
<1>15. ASSUME NEW c \in Clients, ReaderReply(c) PROVE OnlyCreated'
  BY <1>15, <1>0 DEF TypeOK, Grows, OnlyCreated, Created, Event, clientVars, castVars, shownVars, knownVars, ReaderReply, Answer
<1>16. ASSUME NEW c \in Clients, ReaderLogout(c) PROVE OnlyCreated'
  <2>1. /\ UNCHANGED <<hq, ring, todo, half, asked, got>>
        /\ kept' = [kept EXCEPT ![c] = {}]
    BY <1>16 DEF ReaderLogout, castVars, Answer
  <2>2. /\ Created \subseteq Created' /\ started' \subseteq started \cup Created'
        /\ \A x \in Clients : owed'[x] \subseteq owed[x] \cup ring \cup Created'
    BY <1>0 DEF Grows
  <2>3. \A x \in Clients : kept'[x] \subseteq kept[x]
    BY <2>1 DEF TypeOK
  <2>4. \A x \in Clients : kept'[x] \subseteq Created' /\ owed'[x] \subseteq Created'
    BY <2>2, <2>3 DEF OnlyCreated
  <2>5. /\ started' \subseteq Created' /\ \A x \in Event : todo'[x] # {} => x \in Created'
        /\ \A x \in Event, d \in Clients : <<x, d>> \in half' => x \in Created'
    BY <2>1, <2>2 DEF OnlyCreated
  <2>6. ring' \subseteq Created' /\ \A s \in hq' : s \subseteq Created'
    BY <2>1, <2>2 DEF OnlyCreated
  <2>7. \A x \in Clients : asked'[x] \subseteq Created' /\ got'[x] \subseteq Created'
    BY <2>1, <2>2 DEF OnlyCreated
  <2> QED BY <2>4, <2>5, <2>6, <2>7 DEF OnlyCreated
<1>17. ASSUME NEW c \in Clients, ReaderLogin(c) PROVE OnlyCreated'
  BY <1>17, <1>0 DEF TypeOK, Grows, OnlyCreated, Created, Event, clientVars, castVars, shownVars, knownVars, ReaderLogin, MayPost, Becomes, Goto
<1>18. ASSUME NEW c \in Clients, ReaderLanguage(c) PROVE OnlyCreated'
  <2>1. Created' = Created BY <1>18 DEF ReaderLanguage, Created
  <2>2. started' \subseteq Created'
    BY <1>18, <1>0, <2>1 DEF TypeOK, Grows, OnlyCreated, Created, Event, clientVars, castVars, shownVars, knownVars, ReaderLanguage, SendHistory, GetHistory, Goto, Becomes
  <2>3. \A x \in Event : todo'[x] # {} => x \in Created'
    BY <1>18, <1>0, <2>1 DEF TypeOK, Grows, OnlyCreated, Created, Event, clientVars, castVars, shownVars, knownVars, ReaderLanguage, SendHistory, GetHistory, Goto, Becomes
  <2>4. \A x \in Event, y \in Clients : <<x, y>> \in half' => x \in Created'
    BY <1>18, <1>0, <2>1 DEF TypeOK, Grows, OnlyCreated, Created, Event, clientVars, castVars, shownVars, knownVars, ReaderLanguage, SendHistory, GetHistory, Goto, Becomes
  <2>5. ring' \subseteq Created' /\ \A b \in hq' : b \subseteq Created'
    BY <1>18, <1>0, <2>1 DEF TypeOK, Grows, OnlyCreated, Created, Event, clientVars, castVars, shownVars, knownVars, ReaderLanguage, SendHistory, GetHistory, Goto, Becomes
  <2>6. \A x \in Clients : owed'[x] \subseteq Created' /\ asked'[x] \subseteq Created'
    BY <1>18, <1>0, <2>1 DEF TypeOK, Grows, OnlyCreated, Created, Event, clientVars, castVars, shownVars, knownVars, ReaderLanguage, SendHistory, GetHistory, Goto, Becomes
  <2>7. \A x \in Clients : got'[x] \subseteq Created'
    BY <1>18, <1>0, <2>1 DEF TypeOK, Grows, OnlyCreated, Created, Event, clientVars, castVars, shownVars, knownVars, ReaderLanguage, SendHistory, GetHistory, Goto, Becomes
  <2>8. \A x \in Clients : kept'[x] \subseteq Created'
    BY <1>18, <2>1 DEF TypeOK, OnlyCreated, ReaderLanguage
  <2> QED BY <2>2, <2>3, <2>4, <2>5, <2>6, <2>7, <2>8 DEF OnlyCreated
<1>19. ASSUME NEW c \in Clients, ReaderFails(c) PROVE OnlyCreated'
  BY <1>19, <1>0 DEF TypeOK, Grows, OnlyCreated, Created, Event, clientVars, castVars, shownVars, knownVars, ReaderFails, To
<1>20. ASSUME NEW e \in Event, NEW c \in Clients, WriterUnfiltered(c, e) PROVE OnlyCreated'
  <2>1. e \in Created /\ (got' = got \/ got' = [got EXCEPT ![c] = @ \cup {e}]) BY <1>20 DEF WriterUnfiltered, Looks, Show, OnlyCreated
  <2>2. got \in [Clients -> SUBSET Event] /\ \A x \in Clients : got[x] \subseteq Created BY DEF TypeOK, OnlyCreated
  <2>3. Created \subseteq Created' BY <1>0 DEF Grows
  <2>4. \A x \in Clients : got'[x] \subseteq Created BY <2>1, <2>2, ShownIn
  <2>5. started' \subseteq Created'
    BY <1>20, <1>0, <2>1, <2>2, <2>3, <2>4 DEF TypeOK, Grows, OnlyCreated, Created, Event, clientVars, castVars, shownVars, knownVars, WriterUnfiltered, Looks, Show, LoopsRun
  <2>6. \A x \in Event : todo'[x] # {} => x \in Created'
    BY <1>20, <1>0, <2>1, <2>2, <2>3, <2>4 DEF TypeOK, Grows, OnlyCreated, Created, Event, clientVars, castVars, shownVars, knownVars, WriterUnfiltered, Looks, Show, LoopsRun
  <2>7. \A x \in Event, y \in Clients : <<x, y>> \in half' => x \in Created'
    BY <1>20, <1>0, <2>1, <2>2, <2>3, <2>4 DEF TypeOK, Grows, OnlyCreated, Created, Event, clientVars, castVars, shownVars, knownVars, WriterUnfiltered, Looks, Show, LoopsRun
  <2>8. ring' \subseteq Created' /\ \A b \in hq' : b \subseteq Created'
    BY <1>20, <1>0, <2>1, <2>2, <2>3, <2>4 DEF TypeOK, Grows, OnlyCreated, Created, Event, clientVars, castVars, shownVars, knownVars, WriterUnfiltered, Looks, Show, LoopsRun
  <2>9. \A x \in Clients : owed'[x] \subseteq Created' /\ asked'[x] \subseteq Created'
    BY <1>20, <1>0, <2>1, <2>2, <2>3, <2>4 DEF TypeOK, Grows, OnlyCreated, Created, Event, clientVars, castVars, shownVars, knownVars, WriterUnfiltered, Looks, Show, LoopsRun
  <2>10. \A x \in Clients : got'[x] \subseteq Created'
    BY <2>3, <2>4
  <2>11. \A x \in Clients : kept'[x] \subseteq Created'
    BY <1>20, <1>0, <2>1, <2>2, <2>3, <2>4 DEF TypeOK, Grows, OnlyCreated, Created, Event, clientVars, castVars, shownVars, knownVars, WriterUnfiltered, Looks, Show, LoopsRun
  <2> QED BY <2>5, <2>6, <2>7, <2>8, <2>9, <2>10, <2>11 DEF OnlyCreated
<1>21. ASSUME NEW e \in Event, NEW c \in Clients, WriterReadsUser(c, e) PROVE OnlyCreated'
  BY <1>21, <1>0 DEF TypeOK, Grows, OnlyCreated, Created, Event, clientVars, castVars, shownVars, knownVars, WriterReadsUser, Looks, LoopsRun
<1>22. ASSUME NEW e \in Event, NEW c \in Clients, WriterReadsLanguage(c, e) PROVE OnlyCreated'
  <2>1. e \in Created /\ (got' = got \/ got' = [got EXCEPT ![c] = @ \cup {e}]) BY <1>22 DEF WriterReadsLanguage, Show, OnlyCreated
  <2>2. got \in [Clients -> SUBSET Event] /\ \A x \in Clients : got[x] \subseteq Created BY DEF TypeOK, OnlyCreated
  <2>3. Created \subseteq Created' BY <1>0 DEF Grows
  <2>4. \A x \in Clients : got'[x] \subseteq Created BY <2>1, <2>2, ShownIn
  <2>5. started' \subseteq Created'
    BY <1>22, <1>0, <2>1, <2>2, <2>3, <2>4 DEF TypeOK, Grows, OnlyCreated, Created, Event, clientVars, castVars, shownVars, knownVars, WriterReadsLanguage, Show, LoopsRun
  <2>6. \A x \in Event : todo'[x] # {} => x \in Created'
    BY <1>22, <1>0, <2>1, <2>2, <2>3, <2>4 DEF TypeOK, Grows, OnlyCreated, Created, Event, clientVars, castVars, shownVars, knownVars, WriterReadsLanguage, Show, LoopsRun
  <2>7. \A x \in Event, y \in Clients : <<x, y>> \in half' => x \in Created'
    BY <1>22, <1>0, <2>1, <2>2, <2>3, <2>4 DEF TypeOK, Grows, OnlyCreated, Created, Event, clientVars, castVars, shownVars, knownVars, WriterReadsLanguage, Show, LoopsRun
  <2>8. ring' \subseteq Created' /\ \A b \in hq' : b \subseteq Created'
    BY <1>22, <1>0, <2>1, <2>2, <2>3, <2>4 DEF TypeOK, Grows, OnlyCreated, Created, Event, clientVars, castVars, shownVars, knownVars, WriterReadsLanguage, Show, LoopsRun
  <2>9. \A x \in Clients : owed'[x] \subseteq Created' /\ asked'[x] \subseteq Created'
    BY <1>22, <1>0, <2>1, <2>2, <2>3, <2>4 DEF TypeOK, Grows, OnlyCreated, Created, Event, clientVars, castVars, shownVars, knownVars, WriterReadsLanguage, Show, LoopsRun
  <2>10. \A x \in Clients : got'[x] \subseteq Created'
    BY <2>3, <2>4
  <2>11. \A x \in Clients : kept'[x] \subseteq Created'
    BY <1>22, <1>0, <2>1, <2>2, <2>3, <2>4 DEF TypeOK, Grows, OnlyCreated, Created, Event, clientVars, castVars, shownVars, knownVars, WriterReadsLanguage, Show, LoopsRun
  <2> QED BY <2>5, <2>6, <2>7, <2>8, <2>9, <2>10, <2>11 DEF OnlyCreated
<1>23. CASE UNCHANGED vars
  BY <1>23, BoundsAreNat DEF vars, clientVars, castVars, shownVars, knownVars, TypeOK, Grows, OnlyCreated, Created, Event
<1> QED BY <1>1, <1>2, <1>3, <1>4, <1>5, <1>6, <1>7, <1>8, <1>9, <1>10, <1>11, <1>12, <1>13, <1>14, <1>15, <1>16, <1>17, <1>18, <1>19, <1>20, <1>21, <1>22, <1>23 DEF Next, HubStep, CastStep, HandlerStep, ReaderStep, WriterStep

\* A step keeps the types and the bound.
LEMMA TypeStep ==
  TypeOK /\ OnlyCreated /\ [Next]_vars => TypeOK'
<1> SUFFICES ASSUME TypeOK, OnlyCreated, [Next]_vars PROVE TypeOK' OBVIOUS
<1> USE BoundsAreNat
<1>0. Grows BY GrowthStep DEF TypeOK
<1>1. CASE PluginAnswers
  BY <1>1, <1>0 DEF TypeOK, Grows, OnlyCreated, Created, EventType, Event, Ids, clientVars, castVars, shownVars, knownVars, PluginAnswers, Publish
<1>2. CASE HubInfo
  BY <1>2, <1>0 DEF TypeOK, Grows, OnlyCreated, Created, EventType, Event, Ids, clientVars, castVars, shownVars, knownVars, HubInfo, Inform
<1>3. ASSUME NEW batch \in hq, HubHistory(batch) PROVE TypeOK'
  BY <1>3, <1>0 DEF TypeOK, Grows, OnlyCreated, Created, EventType, Event, Ids, clientVars, castVars, shownVars, knownVars, HubHistory
<1>4. ASSUME NEW c \in Clients, HubAdd(c) PROVE TypeOK'
  BY <1>4, <1>0 DEF TypeOK, Grows, OnlyCreated, Created, EventType, Event, Ids, clientVars, castVars, shownVars, knownVars, HubAdd, Becomes, Locked
<1>5. ASSUME NEW e \in Event, CastToNobody(e) PROVE TypeOK'
  BY <1>5, <1>0 DEF TypeOK, Grows, OnlyCreated, Created, EventType, Event, Ids, clientVars, castVars, shownVars, knownVars, CastToNobody, AskLater, ToAsk
<1>6. ASSUME NEW e \in Event, NEW c \in Clients, CastUnfiltered(e, c) PROVE TypeOK'
  <2>1. ToAsk(e) \subseteq Clients /\ (ToAsk(e) # {} => e \in Created) BY DEF ToAsk, TypeOK, OnlyCreated
  <2>2. events' \in Seq(EventType) /\ Len(events') <= MaxEvents
    BY <1>6, <1>0, <2>1 DEF TypeOK, Grows, OnlyCreated, Created, EventType, Event, Ids, clientVars, castVars, shownVars, knownVars, CastUnfiltered, AskLater, Show, Asks
  <2>3. hq' \subseteq SUBSET Event /\ ring' \subseteq Event
    BY <1>6, <1>0, <2>1 DEF TypeOK, Grows, OnlyCreated, Created, EventType, Event, Ids, clientVars, castVars, shownVars, knownVars, CastUnfiltered, AskLater, Show, Asks
  <2>4. clients' \subseteq Clients /\ fresh' \in Clients \cup {NoClient}
    BY <1>6, <1>0, <2>1 DEF TypeOK, Grows, OnlyCreated, Created, EventType, Event, Ids, clientVars, castVars, shownVars, knownVars, CastUnfiltered, AskLater, Show, Asks
  <2>5. started' \subseteq Event /\ todo' \in [Event -> SUBSET Clients]
    BY <1>6, <1>0, <2>1 DEF TypeOK, Grows, OnlyCreated, Created, EventType, Event, Ids, clientVars, castVars, shownVars, knownVars, CastUnfiltered, AskLater, Show, Asks
  <2>6. half' \subseteq Event \X Clients
    BY <1>6, <1>0, <2>1 DEF TypeOK, Grows, OnlyCreated, Created, EventType, Event, Ids, clientVars, castVars, shownVars, knownVars, CastUnfiltered, AskLater, Show, Asks
  <2>7. phase' \in [Clients -> {"off", "registered", "serving", "open", "leaving", "deleted", "gone"}]
    BY <1>6, <1>0, <2>1 DEF TypeOK, Grows, OnlyCreated, Created, EventType, Event, Ids, clientVars, castVars, shownVars, knownVars, CastUnfiltered, AskLater, Show, Asks
  <2>8. at' \in [Clients -> {"frames", "language", "publish"}] /\ user' \in [Clients -> Ids] /\ lang' \in [Clients -> Langs]
    BY <1>6, <1>0, <2>1 DEF TypeOK, Grows, OnlyCreated, Created, EventType, Event, Ids, clientVars, castVars, shownVars, knownVars, CastUnfiltered, AskLater, Show, Asks
  <2>9. owed' \in [Clients -> SUBSET Event] /\ asked' \in [Clients -> SUBSET Event]
    BY <1>6, <1>0, <2>1 DEF TypeOK, Grows, OnlyCreated, Created, EventType, Event, Ids, clientVars, castVars, shownVars, knownVars, CastUnfiltered, AskLater, Show, Asks
  <2>10. got' \in [Clients -> SUBSET Event]
    BY <1>6, <1>0, <2>1 DEF TypeOK, Grows, OnlyCreated, Created, EventType, Event, Ids, clientVars, castVars, shownVars, knownVars, CastUnfiltered, AskLater, Show, Asks
  <2>11. begun' \in [Clients -> SUBSET Event] /\ kept' \in [Clients -> SUBSET Event]
    BY <1>6, <1>0, <2>1 DEF TypeOK, Grows, OnlyCreated, Created, EventType, Event, Ids, clientVars, castVars, shownVars, knownVars, CastUnfiltered, AskLater, Show, Asks
  <2> QED BY <2>2, <2>3, <2>4, <2>5, <2>6, <2>7, <2>8, <2>9, <2>10, <2>11 DEF TypeOK, EventType
<1>7. ASSUME NEW e \in Event, NEW c \in Clients, CastReadsUser(e, c) PROVE TypeOK'
  <2>1. ToAsk(e) \subseteq Clients /\ (ToAsk(e) # {} => e \in Created) BY DEF ToAsk, TypeOK, OnlyCreated
  <2>2. \E S \in SUBSET ToAsk(e) : started' = started \ {e} /\ todo' = [todo EXCEPT ![e] = S] BY <1>7 DEF CastReadsUser, AskLater
  <2>3. events' \in Seq(EventType) /\ Len(events') <= MaxEvents
    BY <1>7, <1>0, <2>1, <2>2 DEF TypeOK, Grows, OnlyCreated, Created, EventType, Event, Ids, clientVars, castVars, shownVars, knownVars, CastReadsUser, AskLater, Asks
  <2>4. hq' \subseteq SUBSET Event /\ ring' \subseteq Event
    BY <1>7, <1>0, <2>1, <2>2 DEF TypeOK, Grows, OnlyCreated, Created, EventType, Event, Ids, clientVars, castVars, shownVars, knownVars, CastReadsUser, AskLater, Asks
  <2>5. clients' \subseteq Clients /\ fresh' \in Clients \cup {NoClient}
    BY <1>7, <1>0, <2>1, <2>2 DEF TypeOK, Grows, OnlyCreated, Created, EventType, Event, Ids, clientVars, castVars, shownVars, knownVars, CastReadsUser, AskLater, Asks
  <2>6. started' \subseteq Event /\ todo' \in [Event -> SUBSET Clients]
    BY <1>7, <1>0, <2>1, <2>2 DEF TypeOK, Grows, OnlyCreated, Created, EventType, Event, Ids, clientVars, castVars, shownVars, knownVars, CastReadsUser, AskLater, Asks
  <2>7. half' \subseteq Event \X Clients
    BY <1>7, <1>0, <2>1, <2>2 DEF TypeOK, Grows, OnlyCreated, Created, EventType, Event, Ids, clientVars, castVars, shownVars, knownVars, CastReadsUser, AskLater, Asks
  <2>8. phase' \in [Clients -> {"off", "registered", "serving", "open", "leaving", "deleted", "gone"}]
    BY <1>7, <1>0, <2>1, <2>2 DEF TypeOK, Grows, OnlyCreated, Created, EventType, Event, Ids, clientVars, castVars, shownVars, knownVars, CastReadsUser, AskLater, Asks
  <2>9. at' \in [Clients -> {"frames", "language", "publish"}] /\ user' \in [Clients -> Ids] /\ lang' \in [Clients -> Langs]
    BY <1>7, <1>0, <2>1, <2>2 DEF TypeOK, Grows, OnlyCreated, Created, EventType, Event, Ids, clientVars, castVars, shownVars, knownVars, CastReadsUser, AskLater, Asks
  <2>10. owed' \in [Clients -> SUBSET Event] /\ asked' \in [Clients -> SUBSET Event]
    BY <1>7, <1>0, <2>1, <2>2 DEF TypeOK, Grows, OnlyCreated, Created, EventType, Event, Ids, clientVars, castVars, shownVars, knownVars, CastReadsUser, AskLater, Asks
  <2>11. got' \in [Clients -> SUBSET Event]
    BY <1>7, <1>0, <2>1, <2>2 DEF TypeOK, Grows, OnlyCreated, Created, EventType, Event, Ids, clientVars, castVars, shownVars, knownVars, CastReadsUser, AskLater, Asks
  <2>12. begun' \in [Clients -> SUBSET Event] /\ kept' \in [Clients -> SUBSET Event]
    BY <1>7, <1>0, <2>1, <2>2 DEF TypeOK, Grows, OnlyCreated, Created, EventType, Event, Ids, clientVars, castVars, shownVars, knownVars, CastReadsUser, AskLater, Asks
  <2> QED BY <2>3, <2>4, <2>5, <2>6, <2>7, <2>8, <2>9, <2>10, <2>11, <2>12 DEF TypeOK, EventType
<1>8. ASSUME NEW e \in Event, NEW c \in Clients, CastReadsLanguage(e, c) PROVE TypeOK'
  <2>1. got' = got \/ got' = [got EXCEPT ![c] = @ \cup {e}] BY <1>8 DEF CastReadsLanguage, Show
  <2>2. events' \in Seq(EventType) /\ Len(events') <= MaxEvents
    BY <1>8, <1>0, <2>1 DEF TypeOK, Grows, OnlyCreated, Created, EventType, Event, Ids, clientVars, castVars, shownVars, knownVars, CastReadsLanguage, AskLater, Show
  <2>3. hq' \subseteq SUBSET Event /\ ring' \subseteq Event
    BY <1>8, <1>0, <2>1 DEF TypeOK, Grows, OnlyCreated, Created, EventType, Event, Ids, clientVars, castVars, shownVars, knownVars, CastReadsLanguage, AskLater, Show
  <2>4. clients' \subseteq Clients /\ fresh' \in Clients \cup {NoClient}
    BY <1>8, <1>0, <2>1 DEF TypeOK, Grows, OnlyCreated, Created, EventType, Event, Ids, clientVars, castVars, shownVars, knownVars, CastReadsLanguage, AskLater, Show
  <2>5. started' \subseteq Event /\ todo' \in [Event -> SUBSET Clients]
    BY <1>8, <1>0, <2>1 DEF TypeOK, Grows, OnlyCreated, Created, EventType, Event, Ids, clientVars, castVars, shownVars, knownVars, CastReadsLanguage, AskLater, Show
  <2>6. half' \subseteq Event \X Clients
    BY <1>8, <1>0, <2>1 DEF TypeOK, Grows, OnlyCreated, Created, EventType, Event, Ids, clientVars, castVars, shownVars, knownVars, CastReadsLanguage, AskLater, Show
  <2>7. phase' \in [Clients -> {"off", "registered", "serving", "open", "leaving", "deleted", "gone"}]
    BY <1>8, <1>0, <2>1 DEF TypeOK, Grows, OnlyCreated, Created, EventType, Event, Ids, clientVars, castVars, shownVars, knownVars, CastReadsLanguage, AskLater, Show
  <2>8. at' \in [Clients -> {"frames", "language", "publish"}] /\ user' \in [Clients -> Ids] /\ lang' \in [Clients -> Langs]
    BY <1>8, <1>0, <2>1 DEF TypeOK, Grows, OnlyCreated, Created, EventType, Event, Ids, clientVars, castVars, shownVars, knownVars, CastReadsLanguage, AskLater, Show
  <2>9. owed' \in [Clients -> SUBSET Event] /\ asked' \in [Clients -> SUBSET Event]
    BY <1>8, <1>0, <2>1 DEF TypeOK, Grows, OnlyCreated, Created, EventType, Event, Ids, clientVars, castVars, shownVars, knownVars, CastReadsLanguage, AskLater, Show
  <2>10. got' \in [Clients -> SUBSET Event]
    BY <2>1 DEF TypeOK
  <2>11. begun' \in [Clients -> SUBSET Event] /\ kept' \in [Clients -> SUBSET Event]
    BY <1>8, <1>0, <2>1 DEF TypeOK, Grows, OnlyCreated, Created, EventType, Event, Ids, clientVars, castVars, shownVars, knownVars, CastReadsLanguage, AskLater, Show
  <2> QED BY <2>2, <2>3, <2>4, <2>5, <2>6, <2>7, <2>8, <2>9, <2>10, <2>11 DEF TypeOK, EventType
<1>9. ASSUME NEW c \in Clients, Serve(c) PROVE TypeOK'
  BY <1>9, <1>0 DEF TypeOK, Grows, OnlyCreated, Created, EventType, Event, Ids, clientVars, castVars, shownVars, knownVars, Serve, MayPost, To
<1>10. ASSUME NEW c \in Clients, HandlerHistory(c) PROVE TypeOK'
  BY <1>10, <1>0 DEF TypeOK, Grows, OnlyCreated, Created, EventType, Event, Ids, clientVars, castVars, shownVars, knownVars, HandlerHistory, SendHistory, GetHistory, To
<1>11. ASSUME NEW c \in Clients, UnregDelete(c) PROVE TypeOK'
  BY <1>11, <1>0 DEF TypeOK, Grows, OnlyCreated, Created, EventType, Event, Ids, clientVars, castVars, shownVars, knownVars, UnregDelete, To, Locked
<1>12. ASSUME NEW c \in Clients, UnregInfo(c) PROVE TypeOK'
  BY <1>12, <1>0 DEF TypeOK, Grows, OnlyCreated, Created, EventType, Event, Ids, clientVars, castVars, shownVars, knownVars, UnregInfo, Inform, To
<1>13. ASSUME NEW c \in Clients, ReaderPublish(c) PROVE TypeOK'
  BY <1>13, <1>0 DEF TypeOK, Grows, OnlyCreated, Created, EventType, Event, Ids, clientVars, castVars, shownVars, knownVars, ReaderPublish, Publish, MayPost, Goto
<1>14. ASSUME NEW c \in Clients, ReaderCommand(c) PROVE TypeOK'
  BY <1>14, <1>0 DEF TypeOK, Grows, OnlyCreated, Created, EventType, Event, Ids, clientVars, castVars, shownVars, knownVars, ReaderCommand, Answer
<1>15. ASSUME NEW c \in Clients, ReaderReply(c) PROVE TypeOK'
  BY <1>15, <1>0 DEF TypeOK, Grows, OnlyCreated, Created, EventType, Event, Ids, clientVars, castVars, shownVars, knownVars, ReaderReply, Answer
<1>16. ASSUME NEW c \in Clients, ReaderLogout(c) PROVE TypeOK'
  <2>1. /\ UNCHANGED <<hq, ring, clients, fresh, started, todo, half, phase, lang, asked, got>>
        /\ user' = [user EXCEPT ![c] = Guest] /\ kept' = [kept EXCEPT ![c] = {}]
        /\ begun' = [begun EXCEPT ![c] = Created]
        /\ at' = at \/ at' = [at EXCEPT ![c] = "publish"]
        /\ owed' = owed \/ owed' = [owed EXCEPT ![c] = @ \cup {Len(events) + 1}]
    BY <1>16, Zenon DEF ReaderLogout, castVars, Answer, Becomes, Goto, Created
  <2>2. events' \in Seq(EventType) /\ Len(events') <= MaxEvents /\ Created \subseteq Event
    BY <1>0 DEF Grows
  <2>3. user' \in [Clients -> Ids] /\ Guest \in Ids
    BY <2>1 DEF TypeOK, Ids
  <2>4. kept' \in [Clients -> SUBSET Event] /\ begun' \in [Clients -> SUBSET Event]
    BY <2>1, <2>2 DEF TypeOK
  <2>5. at' \in [Clients -> {"frames", "language", "publish"}]
    BY <2>1 DEF TypeOK
  <2>6. owed' \in [Clients -> SUBSET Event]
    <3>1. \A x \in Clients : owed'[x] \subseteq Event
      BY <1>0 DEF Grows, TypeOK
    <3>2. owed' = [x \in Clients |-> owed'[x]]
      BY <2>1 DEF TypeOK
    <3> QED BY <3>1, <3>2
  <2> QED BY <2>1, <2>2, <2>3, <2>4, <2>5, <2>6 DEF TypeOK, EventType
<1>17. ASSUME NEW c \in Clients, ReaderLogin(c) PROVE TypeOK'
  BY <1>17, <1>0 DEF TypeOK, Grows, OnlyCreated, Created, EventType, Event, Ids, clientVars, castVars, shownVars, knownVars, ReaderLogin, MayPost, Becomes, Goto
<1>18. ASSUME NEW c \in Clients, ReaderLanguage(c) PROVE TypeOK'
  <2>1. events' \in Seq(EventType) /\ Len(events') <= MaxEvents
    BY <1>18, <1>0 DEF TypeOK, Grows, OnlyCreated, Created, EventType, Event, Ids, clientVars, castVars, shownVars, knownVars, ReaderLanguage, SendHistory, GetHistory, Goto, Becomes
  <2>2. hq' \subseteq SUBSET Event /\ ring' \subseteq Event
    BY <1>18, <1>0 DEF TypeOK, Grows, OnlyCreated, Created, EventType, Event, Ids, clientVars, castVars, shownVars, knownVars, ReaderLanguage, SendHistory, GetHistory, Goto, Becomes
  <2>3. clients' \subseteq Clients /\ fresh' \in Clients \cup {NoClient}
    BY <1>18, <1>0 DEF TypeOK, Grows, OnlyCreated, Created, EventType, Event, Ids, clientVars, castVars, shownVars, knownVars, ReaderLanguage, SendHistory, GetHistory, Goto, Becomes
  <2>4. started' \subseteq Event /\ todo' \in [Event -> SUBSET Clients]
    BY <1>18, <1>0 DEF TypeOK, Grows, OnlyCreated, Created, EventType, Event, Ids, clientVars, castVars, shownVars, knownVars, ReaderLanguage, SendHistory, GetHistory, Goto, Becomes
  <2>5. half' \subseteq Event \X Clients
    BY <1>18, <1>0 DEF TypeOK, Grows, OnlyCreated, Created, EventType, Event, Ids, clientVars, castVars, shownVars, knownVars, ReaderLanguage, SendHistory, GetHistory, Goto, Becomes
  <2>6. phase' \in [Clients -> {"off", "registered", "serving", "open", "leaving", "deleted", "gone"}]
    BY <1>18, <1>0 DEF TypeOK, Grows, OnlyCreated, Created, EventType, Event, Ids, clientVars, castVars, shownVars, knownVars, ReaderLanguage, SendHistory, GetHistory, Goto, Becomes
  <2>7. at' \in [Clients -> {"frames", "language", "publish"}] /\ user' \in [Clients -> Ids] /\ lang' \in [Clients -> Langs]
    BY <1>18, <1>0 DEF TypeOK, Grows, OnlyCreated, Created, EventType, Event, Ids, clientVars, castVars, shownVars, knownVars, ReaderLanguage, SendHistory, GetHistory, Goto, Becomes
  <2>8. owed' \in [Clients -> SUBSET Event] /\ asked' \in [Clients -> SUBSET Event]
    BY <1>18, <1>0 DEF TypeOK, Grows, OnlyCreated, Created, EventType, Event, Ids, clientVars, castVars, shownVars, knownVars, ReaderLanguage, SendHistory, GetHistory, Goto, Becomes
  <2>9. got' \in [Clients -> SUBSET Event]
    BY <1>18, <1>0 DEF TypeOK, Grows, OnlyCreated, Created, EventType, Event, Ids, clientVars, castVars, shownVars, knownVars, ReaderLanguage, SendHistory, GetHistory, Goto, Becomes
  <2>10. begun' \in [Clients -> SUBSET Event] /\ kept' \in [Clients -> SUBSET Event]
    BY <1>18, <1>0 DEF TypeOK, Grows, OnlyCreated, Created, EventType, Event, Ids, clientVars, castVars, shownVars, knownVars, ReaderLanguage, SendHistory, GetHistory, Goto, Becomes
  <2> QED BY <2>1, <2>2, <2>3, <2>4, <2>5, <2>6, <2>7, <2>8, <2>9, <2>10 DEF TypeOK, EventType
<1>19. ASSUME NEW c \in Clients, ReaderFails(c) PROVE TypeOK'
  BY <1>19, <1>0 DEF TypeOK, Grows, OnlyCreated, Created, EventType, Event, Ids, clientVars, castVars, shownVars, knownVars, ReaderFails, To
<1>20. ASSUME NEW e \in Event, NEW c \in Clients, WriterUnfiltered(c, e) PROVE TypeOK'
  <2>1. got' = got \/ got' = [got EXCEPT ![c] = @ \cup {e}] BY <1>20 DEF WriterUnfiltered, Show
  <2>2. events' \in Seq(EventType) /\ Len(events') <= MaxEvents
    BY <1>20, <1>0, <2>1 DEF TypeOK, Grows, OnlyCreated, Created, EventType, Event, Ids, clientVars, castVars, shownVars, knownVars, WriterUnfiltered, Looks, Show, LoopsRun
  <2>3. hq' \subseteq SUBSET Event /\ ring' \subseteq Event
    BY <1>20, <1>0, <2>1 DEF TypeOK, Grows, OnlyCreated, Created, EventType, Event, Ids, clientVars, castVars, shownVars, knownVars, WriterUnfiltered, Looks, Show, LoopsRun
  <2>4. clients' \subseteq Clients /\ fresh' \in Clients \cup {NoClient}
    BY <1>20, <1>0, <2>1 DEF TypeOK, Grows, OnlyCreated, Created, EventType, Event, Ids, clientVars, castVars, shownVars, knownVars, WriterUnfiltered, Looks, Show, LoopsRun
  <2>5. started' \subseteq Event /\ todo' \in [Event -> SUBSET Clients]
    BY <1>20, <1>0, <2>1 DEF TypeOK, Grows, OnlyCreated, Created, EventType, Event, Ids, clientVars, castVars, shownVars, knownVars, WriterUnfiltered, Looks, Show, LoopsRun
  <2>6. half' \subseteq Event \X Clients
    BY <1>20, <1>0, <2>1 DEF TypeOK, Grows, OnlyCreated, Created, EventType, Event, Ids, clientVars, castVars, shownVars, knownVars, WriterUnfiltered, Looks, Show, LoopsRun
  <2>7. phase' \in [Clients -> {"off", "registered", "serving", "open", "leaving", "deleted", "gone"}]
    BY <1>20, <1>0, <2>1 DEF TypeOK, Grows, OnlyCreated, Created, EventType, Event, Ids, clientVars, castVars, shownVars, knownVars, WriterUnfiltered, Looks, Show, LoopsRun
  <2>8. at' \in [Clients -> {"frames", "language", "publish"}] /\ user' \in [Clients -> Ids] /\ lang' \in [Clients -> Langs]
    BY <1>20, <1>0, <2>1 DEF TypeOK, Grows, OnlyCreated, Created, EventType, Event, Ids, clientVars, castVars, shownVars, knownVars, WriterUnfiltered, Looks, Show, LoopsRun
  <2>9. owed' \in [Clients -> SUBSET Event] /\ asked' \in [Clients -> SUBSET Event]
    BY <1>20, <1>0, <2>1 DEF TypeOK, Grows, OnlyCreated, Created, EventType, Event, Ids, clientVars, castVars, shownVars, knownVars, WriterUnfiltered, Looks, Show, LoopsRun
  <2>10. got' \in [Clients -> SUBSET Event]
    BY <2>1 DEF TypeOK
  <2>11. begun' \in [Clients -> SUBSET Event] /\ kept' \in [Clients -> SUBSET Event]
    BY <1>20, <1>0, <2>1 DEF TypeOK, Grows, OnlyCreated, Created, EventType, Event, Ids, clientVars, castVars, shownVars, knownVars, WriterUnfiltered, Looks, Show, LoopsRun
  <2> QED BY <2>2, <2>3, <2>4, <2>5, <2>6, <2>7, <2>8, <2>9, <2>10, <2>11 DEF TypeOK, EventType
<1>21. ASSUME NEW e \in Event, NEW c \in Clients, WriterReadsUser(c, e) PROVE TypeOK'
  BY <1>21, <1>0 DEF TypeOK, Grows, OnlyCreated, Created, EventType, Event, Ids, clientVars, castVars, shownVars, knownVars, WriterReadsUser, Looks, LoopsRun
<1>22. ASSUME NEW e \in Event, NEW c \in Clients, WriterReadsLanguage(c, e) PROVE TypeOK'
  <2>1. got' = got \/ got' = [got EXCEPT ![c] = @ \cup {e}] BY <1>22 DEF WriterReadsLanguage, Show
  <2>2. events' \in Seq(EventType) /\ Len(events') <= MaxEvents
    BY <1>22, <1>0, <2>1 DEF TypeOK, Grows, OnlyCreated, Created, EventType, Event, Ids, clientVars, castVars, shownVars, knownVars, WriterReadsLanguage, Show, LoopsRun
  <2>3. hq' \subseteq SUBSET Event /\ ring' \subseteq Event
    BY <1>22, <1>0, <2>1 DEF TypeOK, Grows, OnlyCreated, Created, EventType, Event, Ids, clientVars, castVars, shownVars, knownVars, WriterReadsLanguage, Show, LoopsRun
  <2>4. clients' \subseteq Clients /\ fresh' \in Clients \cup {NoClient}
    BY <1>22, <1>0, <2>1 DEF TypeOK, Grows, OnlyCreated, Created, EventType, Event, Ids, clientVars, castVars, shownVars, knownVars, WriterReadsLanguage, Show, LoopsRun
  <2>5. started' \subseteq Event /\ todo' \in [Event -> SUBSET Clients]
    BY <1>22, <1>0, <2>1 DEF TypeOK, Grows, OnlyCreated, Created, EventType, Event, Ids, clientVars, castVars, shownVars, knownVars, WriterReadsLanguage, Show, LoopsRun
  <2>6. half' \subseteq Event \X Clients
    BY <1>22, <1>0, <2>1 DEF TypeOK, Grows, OnlyCreated, Created, EventType, Event, Ids, clientVars, castVars, shownVars, knownVars, WriterReadsLanguage, Show, LoopsRun
  <2>7. phase' \in [Clients -> {"off", "registered", "serving", "open", "leaving", "deleted", "gone"}]
    BY <1>22, <1>0, <2>1 DEF TypeOK, Grows, OnlyCreated, Created, EventType, Event, Ids, clientVars, castVars, shownVars, knownVars, WriterReadsLanguage, Show, LoopsRun
  <2>8. at' \in [Clients -> {"frames", "language", "publish"}] /\ user' \in [Clients -> Ids] /\ lang' \in [Clients -> Langs]
    BY <1>22, <1>0, <2>1 DEF TypeOK, Grows, OnlyCreated, Created, EventType, Event, Ids, clientVars, castVars, shownVars, knownVars, WriterReadsLanguage, Show, LoopsRun
  <2>9. owed' \in [Clients -> SUBSET Event] /\ asked' \in [Clients -> SUBSET Event]
    BY <1>22, <1>0, <2>1 DEF TypeOK, Grows, OnlyCreated, Created, EventType, Event, Ids, clientVars, castVars, shownVars, knownVars, WriterReadsLanguage, Show, LoopsRun
  <2>10. got' \in [Clients -> SUBSET Event]
    BY <2>1 DEF TypeOK
  <2>11. begun' \in [Clients -> SUBSET Event] /\ kept' \in [Clients -> SUBSET Event]
    BY <1>22, <1>0, <2>1 DEF TypeOK, Grows, OnlyCreated, Created, EventType, Event, Ids, clientVars, castVars, shownVars, knownVars, WriterReadsLanguage, Show, LoopsRun
  <2> QED BY <2>2, <2>3, <2>4, <2>5, <2>6, <2>7, <2>8, <2>9, <2>10, <2>11 DEF TypeOK, EventType
<1>23. CASE UNCHANGED vars
  BY <1>23, BoundsAreNat DEF vars, clientVars, castVars, shownVars, knownVars, TypeOK, Grows, OnlyCreated, Created, EventType, Event, Ids
<1> QED BY <1>1, <1>2, <1>3, <1>4, <1>5, <1>6, <1>7, <1>8, <1>9, <1>10, <1>11, <1>12, <1>13, <1>14, <1>15, <1>16, <1>17, <1>18, <1>19, <1>20, <1>21, <1>22, <1>23 DEF Next, HubStep, CastStep, HandlerStep, ReaderStep, WriterStep

\* A broadcast that has begun to ask has only clients of the map before it.
LEMMA AskingStep ==
  TypeOK /\ OnlyCreated /\ AsksMembers /\ [Next]_vars => AsksMembers'
<1> SUFFICES ASSUME TypeOK, OnlyCreated, AsksMembers, [Next]_vars PROVE AsksMembers' OBVIOUS
<1> USE BoundsAreNat
<1>0. Grows BY GrowthStep DEF TypeOK
<1>1. CASE PluginAnswers
  BY <1>1, <1>0 DEF TypeOK, Grows, OnlyCreated, AsksMembers, Created, Event, clientVars, castVars, shownVars, knownVars, PluginAnswers, Publish
<1>2. CASE HubInfo
  BY <1>2, <1>0 DEF TypeOK, Grows, OnlyCreated, AsksMembers, Created, Event, clientVars, castVars, shownVars, knownVars, HubInfo, Inform
<1>3. ASSUME NEW batch \in hq, HubHistory(batch) PROVE AsksMembers'
  BY <1>3, <1>0 DEF TypeOK, Grows, OnlyCreated, AsksMembers, Created, Event, clientVars, castVars, shownVars, knownVars, HubHistory
<1>4. ASSUME NEW c \in Clients, HubAdd(c) PROVE AsksMembers'
  BY <1>4, <1>0 DEF TypeOK, Grows, OnlyCreated, AsksMembers, Created, Event, clientVars, castVars, shownVars, knownVars, HubAdd, Becomes, Locked
<1>5. ASSUME NEW e \in Event, CastToNobody(e) PROVE AsksMembers'
  BY <1>5, <1>0 DEF TypeOK, Grows, OnlyCreated, AsksMembers, Created, Event, clientVars, castVars, shownVars, knownVars, CastToNobody, AskLater, ToAsk
<1>6. ASSUME NEW e \in Event, NEW c \in Clients, CastUnfiltered(e, c) PROVE AsksMembers'
  <2>1. ToAsk(e) \subseteq clients BY DEF ToAsk, AsksMembers
  <2>2. \A d \in Clients : <<e, d>> \notin half BY <1>6 DEF Asks, CastUnfiltered
  <2>3. \A x \in Clients : \A g, h \in asked'[x] : g = h
    BY <1>6, <1>0, <2>1, <2>2 DEF TypeOK, Grows, OnlyCreated, AsksMembers, Created, Event, clientVars, castVars, shownVars, knownVars, CastUnfiltered, AskLater, Show, Asks
  <2>4. \A x \in Event : todo'[x] \subseteq clients' /\ (x \in started' => todo'[x] = {})
    BY <1>6, <1>0, <2>1, <2>2 DEF TypeOK, Grows, OnlyCreated, AsksMembers, Created, Event, clientVars, castVars, shownVars, knownVars, CastUnfiltered, AskLater, Show, Asks
  <2>5. \A x \in Event, y \in Clients : <<x, y>> \in half' => y \in todo'[x]
    BY <1>6, <1>0, <2>1, <2>2 DEF TypeOK, Grows, OnlyCreated, AsksMembers, Created, Event, clientVars, castVars, shownVars, knownVars, CastUnfiltered, AskLater, Show, Asks
  <2>6. \A x \in Clients : x \in clients' <=> phase'[x] \in {"registered", "serving", "open", "leaving"}
    BY <1>6, <1>0, <2>1, <2>2 DEF TypeOK, Grows, OnlyCreated, AsksMembers, Created, Event, clientVars, castVars, shownVars, knownVars, CastUnfiltered, AskLater, Show, Asks
  <2> QED BY <2>3, <2>4, <2>5, <2>6 DEF AsksMembers
<1>7. ASSUME NEW e \in Event, NEW c \in Clients, CastReadsUser(e, c) PROVE AsksMembers'
  <2>1. ToAsk(e) \subseteq clients BY DEF ToAsk, AsksMembers
  <2>2. \A d \in Clients : <<e, d>> \notin half BY <1>7 DEF Asks, CastReadsUser
  <2>3. started' = started \ {e} /\ \E S \in {ToAsk(e), ToAsk(e) \ {c}} : todo' = [todo EXCEPT ![e] = S] BY <1>7 DEF CastReadsUser, AskLater
  <2>4. \A x \in Clients : \A g, h \in asked'[x] : g = h
    BY <1>7, <1>0, <2>1, <2>2, <2>3 DEF TypeOK, Grows, OnlyCreated, AsksMembers, Created, Event, clientVars, castVars, shownVars, knownVars, CastReadsUser, AskLater, Asks
  <2>5. \A x \in Event : todo'[x] \subseteq clients' /\ (x \in started' => todo'[x] = {})
    BY <2>1, <2>3, <1>7 DEF TypeOK, AsksMembers, CastReadsUser
  <2>6. \A x \in Event, y \in Clients : <<x, y>> \in half' => y \in todo'[x]
    BY <1>7, <1>0, <2>1, <2>2, <2>3 DEF TypeOK, Grows, OnlyCreated, AsksMembers, Created, Event, clientVars, castVars, shownVars, knownVars, CastReadsUser, AskLater, Asks
  <2>7. \A x \in Clients : x \in clients' <=> phase'[x] \in {"registered", "serving", "open", "leaving"}
    BY <1>7, <1>0, <2>1, <2>2, <2>3 DEF TypeOK, Grows, OnlyCreated, AsksMembers, Created, Event, clientVars, castVars, shownVars, knownVars, CastReadsUser, AskLater, Asks
  <2> QED BY <2>4, <2>5, <2>6, <2>7 DEF AsksMembers
<1>8. ASSUME NEW e \in Event, NEW c \in Clients, CastReadsLanguage(e, c) PROVE AsksMembers'
  BY <1>8, <1>0 DEF TypeOK, Grows, OnlyCreated, AsksMembers, Created, Event, clientVars, castVars, shownVars, knownVars, CastReadsLanguage, AskLater, Show
<1>9. ASSUME NEW c \in Clients, Serve(c) PROVE AsksMembers'
  BY SMTT(30), <1>9, <1>0 DEF TypeOK, Grows, OnlyCreated, AsksMembers, Created, Event, clientVars, castVars, shownVars, knownVars, Serve, MayPost, To
<1>10. ASSUME NEW c \in Clients, HandlerHistory(c) PROVE AsksMembers'
  BY <1>10, <1>0 DEF TypeOK, Grows, OnlyCreated, AsksMembers, Created, Event, clientVars, castVars, shownVars, knownVars, HandlerHistory, SendHistory, GetHistory, To
<1>11. ASSUME NEW c \in Clients, UnregDelete(c) PROVE AsksMembers'
  BY <1>11, <1>0 DEF TypeOK, Grows, OnlyCreated, AsksMembers, Created, Event, clientVars, castVars, shownVars, knownVars, UnregDelete, To, Locked
<1>12. ASSUME NEW c \in Clients, UnregInfo(c) PROVE AsksMembers'
  <2>1. \A x \in Clients : \A g, h \in asked'[x] : g = h
    BY <1>12, <1>0 DEF TypeOK, Grows, OnlyCreated, AsksMembers, Created, Event, clientVars, castVars, shownVars, knownVars, UnregInfo, Inform, To
  <2>2. \A x \in Event : todo'[x] \subseteq clients' /\ (x \in started' => todo'[x] = {})
    BY <1>12, <1>0 DEF TypeOK, Grows, OnlyCreated, AsksMembers, Created, Event, clientVars, castVars, shownVars, knownVars, UnregInfo, Inform, To
  <2>3. \A x \in Event, y \in Clients : <<x, y>> \in half' => y \in todo'[x]
    BY <1>12, <1>0 DEF TypeOK, Grows, OnlyCreated, AsksMembers, Created, Event, clientVars, castVars, shownVars, knownVars, UnregInfo, Inform, To
  <2>4. \A x \in Clients : x \in clients' <=> phase'[x] \in {"registered", "serving", "open", "leaving"}
    BY <1>12, <1>0 DEF TypeOK, Grows, OnlyCreated, AsksMembers, Created, Event, clientVars, castVars, shownVars, knownVars, UnregInfo, Inform, To
  <2> QED BY <2>1, <2>2, <2>3, <2>4 DEF AsksMembers
<1>13. ASSUME NEW c \in Clients, ReaderPublish(c) PROVE AsksMembers'
  BY <1>13, <1>0 DEF TypeOK, Grows, OnlyCreated, AsksMembers, Created, Event, clientVars, castVars, shownVars, knownVars, ReaderPublish, Publish, MayPost, Goto
<1>14. ASSUME NEW c \in Clients, ReaderCommand(c) PROVE AsksMembers'
  BY <1>14, <1>0 DEF TypeOK, Grows, OnlyCreated, AsksMembers, Created, Event, clientVars, castVars, shownVars, knownVars, ReaderCommand, Answer
<1>15. ASSUME NEW c \in Clients, ReaderReply(c) PROVE AsksMembers'
  BY <1>15, <1>0 DEF TypeOK, Grows, OnlyCreated, AsksMembers, Created, Event, clientVars, castVars, shownVars, knownVars, ReaderReply, Answer
<1>16. ASSUME NEW c \in Clients, ReaderLogout(c) PROVE AsksMembers'
  BY <1>16, <1>0 DEF TypeOK, Grows, OnlyCreated, AsksMembers, Created, Event, clientVars, castVars, shownVars, knownVars, ReaderLogout, Answer, MayPost, Becomes, Goto
<1>17. ASSUME NEW c \in Clients, ReaderLogin(c) PROVE AsksMembers'
  BY <1>17, <1>0 DEF TypeOK, Grows, OnlyCreated, AsksMembers, Created, Event, clientVars, castVars, shownVars, knownVars, ReaderLogin, MayPost, Becomes, Goto
<1>18. ASSUME NEW c \in Clients, ReaderLanguage(c) PROVE AsksMembers'
  BY <1>18, <1>0 DEF TypeOK, Grows, OnlyCreated, AsksMembers, Created, Event, clientVars, castVars, shownVars, knownVars, ReaderLanguage, SendHistory, GetHistory, Goto, Becomes
<1>19. ASSUME NEW c \in Clients, ReaderFails(c) PROVE AsksMembers'
  BY <1>19, <1>0 DEF TypeOK, Grows, OnlyCreated, AsksMembers, Created, Event, clientVars, castVars, shownVars, knownVars, ReaderFails, To
<1>20. ASSUME NEW e \in Event, NEW c \in Clients, WriterUnfiltered(c, e) PROVE AsksMembers'
  BY <1>20, <1>0 DEF TypeOK, Grows, OnlyCreated, AsksMembers, Created, Event, clientVars, castVars, shownVars, knownVars, WriterUnfiltered, Looks, Show, LoopsRun
<1>21. ASSUME NEW e \in Event, NEW c \in Clients, WriterReadsUser(c, e) PROVE AsksMembers'
  BY <1>21, <1>0 DEF TypeOK, Grows, OnlyCreated, AsksMembers, Created, Event, clientVars, castVars, shownVars, knownVars, WriterReadsUser, Looks, LoopsRun
<1>22. ASSUME NEW e \in Event, NEW c \in Clients, WriterReadsLanguage(c, e) PROVE AsksMembers'
  BY <1>22, <1>0 DEF TypeOK, Grows, OnlyCreated, AsksMembers, Created, Event, clientVars, castVars, shownVars, knownVars, WriterReadsLanguage, Show, LoopsRun
<1>23. CASE UNCHANGED vars
  BY <1>23, BoundsAreNat DEF vars, clientVars, castVars, shownVars, knownVars, TypeOK, Grows, OnlyCreated, AsksMembers, Created, Event
<1> QED BY <1>1, <1>2, <1>3, <1>4, <1>5, <1>6, <1>7, <1>8, <1>9, <1>10, <1>11, <1>12, <1>13, <1>14, <1>15, <1>16, <1>17, <1>18, <1>19, <1>20, <1>21, <1>22, <1>23 DEF Next, HubStep, CastStep, HandlerStep, ReaderStep, WriterStep

\* Only who is in the map has anything on its way, and only a loop that runs is in a frame.
LEMMA AbsentStep ==
  TypeOK /\ AsksMembers /\ AbsentHaveNothing /\ [Next]_vars => AbsentHaveNothing'
<1> SUFFICES ASSUME TypeOK, AsksMembers, AbsentHaveNothing, [Next]_vars PROVE AbsentHaveNothing' OBVIOUS
<1>1. CASE PluginAnswers
  BY <1>1 DEF TypeOK, AsksMembers, AbsentHaveNothing, LoopsRun, clientVars, castVars, shownVars, knownVars, PluginAnswers, Publish
<1>2. CASE HubInfo
  BY <1>2 DEF TypeOK, AsksMembers, AbsentHaveNothing, LoopsRun, clientVars, castVars, shownVars, knownVars, HubInfo
<1>3. ASSUME NEW batch \in hq, HubHistory(batch) PROVE AbsentHaveNothing'
  BY <1>3 DEF TypeOK, AsksMembers, AbsentHaveNothing, LoopsRun, clientVars, castVars, shownVars, knownVars, HubHistory
<1>4. ASSUME NEW c \in Clients, HubAdd(c) PROVE AbsentHaveNothing'
  BY <1>4 DEF TypeOK, AsksMembers, AbsentHaveNothing, LoopsRun, clientVars, castVars, shownVars, knownVars, HubAdd
<1>5. ASSUME NEW e \in Event, CastToNobody(e) PROVE AbsentHaveNothing'
  BY <1>5 DEF TypeOK, AsksMembers, AbsentHaveNothing, LoopsRun, clientVars, castVars, shownVars, knownVars, CastToNobody
<1>6. ASSUME NEW e \in Event, NEW c \in Clients, CastUnfiltered(e, c) PROVE AbsentHaveNothing'
  BY <1>6 DEF TypeOK, AsksMembers, AbsentHaveNothing, LoopsRun, clientVars, castVars, shownVars, knownVars, CastUnfiltered, Show, Asks, ToAsk
<1>7. ASSUME NEW e \in Event, NEW c \in Clients, CastReadsUser(e, c) PROVE AbsentHaveNothing'
  BY <1>7 DEF TypeOK, AsksMembers, AbsentHaveNothing, LoopsRun, clientVars, castVars, shownVars, knownVars, CastReadsUser
<1>8. ASSUME NEW e \in Event, NEW c \in Clients, CastReadsLanguage(e, c) PROVE AbsentHaveNothing'
  BY <1>8 DEF TypeOK, AsksMembers, AbsentHaveNothing, LoopsRun, clientVars, castVars, shownVars, knownVars, CastReadsLanguage, Show
<1>9. ASSUME NEW c \in Clients, Serve(c) PROVE AbsentHaveNothing'
  BY <1>9 DEF TypeOK, AsksMembers, AbsentHaveNothing, LoopsRun, clientVars, castVars, shownVars, knownVars, Serve, To
<1>10. ASSUME NEW c \in Clients, HandlerHistory(c) PROVE AbsentHaveNothing'
  BY <1>10 DEF TypeOK, AsksMembers, AbsentHaveNothing, LoopsRun, clientVars, castVars, shownVars, knownVars, HandlerHistory, SendHistory, To
<1>11. ASSUME NEW c \in Clients, UnregDelete(c) PROVE AbsentHaveNothing'
  BY <1>11 DEF TypeOK, AsksMembers, AbsentHaveNothing, LoopsRun, clientVars, castVars, shownVars, knownVars, UnregDelete, To
<1>12. ASSUME NEW c \in Clients, UnregInfo(c) PROVE AbsentHaveNothing'
  BY <1>12 DEF TypeOK, AsksMembers, AbsentHaveNothing, LoopsRun, clientVars, castVars, shownVars, knownVars, UnregInfo, To
<1>13. ASSUME NEW c \in Clients, ReaderPublish(c) PROVE AbsentHaveNothing'
  BY <1>13 DEF TypeOK, AsksMembers, AbsentHaveNothing, LoopsRun, clientVars, castVars, shownVars, knownVars, ReaderPublish, Goto
<1>14. ASSUME NEW c \in Clients, ReaderCommand(c) PROVE AbsentHaveNothing'
  BY <1>14 DEF TypeOK, AsksMembers, AbsentHaveNothing, LoopsRun, clientVars, castVars, shownVars, knownVars, ReaderCommand, Reads, Answer
<1>15. ASSUME NEW c \in Clients, ReaderReply(c) PROVE AbsentHaveNothing'
  BY <1>15 DEF TypeOK, AsksMembers, AbsentHaveNothing, LoopsRun, clientVars, castVars, shownVars, knownVars, ReaderReply, Reads, Answer
<1>16. ASSUME NEW c \in Clients, ReaderLogout(c) PROVE AbsentHaveNothing'
  <2>1. LoopsRun(c) /\ c \in clients BY <1>16 DEF ReaderLogout, Reads, AsksMembers, LoopsRun
  <2>2. UNCHANGED <<phase, clients, asked, got>> BY <1>16 DEF ReaderLogout
  <2>3. \A x \in Clients : x # c => owed'[x] = owed[x] /\ at'[x] = at[x]
    BY <1>16 DEF TypeOK, ReaderLogout, Answer, Goto
  <2> QED BY <2>1, <2>2, <2>3 DEF AbsentHaveNothing, LoopsRun
<1>17. ASSUME NEW c \in Clients, ReaderLogin(c) PROVE AbsentHaveNothing'
  BY <1>17 DEF TypeOK, AsksMembers, AbsentHaveNothing, LoopsRun, clientVars, castVars, shownVars, knownVars, ReaderLogin, Reads, Goto
<1>18. ASSUME NEW c \in Clients, ReaderLanguage(c) PROVE AbsentHaveNothing'
  BY <1>18 DEF TypeOK, AsksMembers, AbsentHaveNothing, LoopsRun, clientVars, castVars, shownVars, knownVars, ReaderLanguage, SendHistory, Goto
<1>19. ASSUME NEW c \in Clients, ReaderFails(c) PROVE AbsentHaveNothing'
  BY <1>19 DEF TypeOK, AsksMembers, AbsentHaveNothing, LoopsRun, clientVars, castVars, shownVars, knownVars, ReaderFails, To
<1>20. ASSUME NEW e \in Event, NEW c \in Clients, WriterUnfiltered(c, e) PROVE AbsentHaveNothing'
  BY <1>20 DEF TypeOK, AsksMembers, AbsentHaveNothing, LoopsRun, clientVars, castVars, shownVars, knownVars, WriterUnfiltered, Looks, Show
<1>21. ASSUME NEW e \in Event, NEW c \in Clients, WriterReadsUser(c, e) PROVE AbsentHaveNothing'
  BY <1>21 DEF TypeOK, AsksMembers, AbsentHaveNothing, LoopsRun, clientVars, castVars, shownVars, knownVars, WriterReadsUser, Looks
<1>22. ASSUME NEW e \in Event, NEW c \in Clients, WriterReadsLanguage(c, e) PROVE AbsentHaveNothing'
  BY <1>22 DEF TypeOK, AsksMembers, AbsentHaveNothing, LoopsRun, clientVars, castVars, shownVars, knownVars, WriterReadsLanguage, Show
<1>23. CASE UNCHANGED vars
  BY <1>23 DEF TypeOK, AsksMembers, AbsentHaveNothing, LoopsRun, clientVars, castVars, shownVars, knownVars, vars
<1> QED BY <1>1, <1>2, <1>3, <1>4, <1>5, <1>6, <1>7, <1>8, <1>9, <1>10, <1>11, <1>12, <1>13, <1>14, <1>15, <1>16, <1>17, <1>18, <1>19, <1>20, <1>21, <1>22, <1>23 DEF Next, HubStep, CastStep, HandlerStep, ReaderStep, WriterStep

-----------------------------------------------------------------------------
(* What a step does to an event on its way, and to who a client is. *)

\* A broadcast under way loses nobody who is meant and stays.
StaysComing == \A x \in Created, y \in clients \cap clients' :
  Coming(x, y) /\ MeantFor(x, y) => Coming(x, y)'

\* Nor does the history.
StaysOnHand == \A x \in Created, y \in clients \cap clients' :
  OnHand(x, y) /\ MeantFor(x, y) /\ Filter(x).compiles => OnHand(x, y)'

SameWho(y) == /\ (y \in clients' => y \in clients) /\ user'[y] = user[y] /\ lang'[y] = lang[y]
              /\ begun'[y] = begun[y] /\ kept'[y] = kept[y]
NewWho(y)  == Created \subseteq begun'[y] /\ \A x \in kept'[y] : x \in Created /\ OnHand(x, y)'
Gone(y)    == y \notin clients' /\ asked'[y] = {} /\ got'[y] = {} /\ \A x \in Event : <<x, y>> \notin half'
SomeWho    == \A y \in Clients : SameWho(y) \/ NewWho(y) \/ Gone(y)

\* What is read or shown in this step is read from, or meant for, who the client is.
Reading(x, y) == x \in Created /\ SameWho(y) /\ Filter(x).compiles /\ LikesUser(x, y)
ReadsNow == \A x \in Event, y \in Clients :
  /\ <<x, y>> \in half' => <<x, y>> \in half \/ Reading(x, y)
  /\ x \in asked'[y] => x \in asked[y] \/ Reading(x, y)
  /\ x \in got'[y] => x \in got[y] \/ (x \in Created /\ SameWho(y) /\ (x \notin begun[y] => MeantFor(x, y)))

\* Casting to those that an event is not meant for is all that a broadcast gives up.
LEMMA ComingStep ==
  TypeOK /\ AsksMembers /\ ReadsPresentUser /\ [Next]_vars => StaysComing
<1> SUFFICES ASSUME TypeOK, AsksMembers, ReadsPresentUser, [Next]_vars PROVE StaysComing OBVIOUS
<1>1. CASE PluginAnswers
  BY <1>1 DEF TypeOK, AsksMembers, StaysComing, Coming, clientVars, castVars, shownVars, knownVars, PluginAnswers, Publish, Broadcast
<1>2. CASE HubInfo
  BY <1>2 DEF TypeOK, AsksMembers, StaysComing, Coming, clientVars, castVars, shownVars, knownVars, HubInfo, Inform, Broadcast
<1>3. ASSUME NEW batch \in hq, HubHistory(batch) PROVE StaysComing
  BY <1>3 DEF TypeOK, AsksMembers, StaysComing, Coming, clientVars, castVars, shownVars, knownVars, HubHistory
<1>4. ASSUME NEW c \in Clients, HubAdd(c) PROVE StaysComing
  BY <1>4 DEF TypeOK, AsksMembers, StaysComing, Coming, clientVars, castVars, shownVars, knownVars, HubAdd, Becomes, Locked
<1>5. ASSUME NEW e \in Event, CastToNobody(e) PROVE StaysComing
  BY <1>5 DEF TypeOK, AsksMembers, StaysComing, Coming, clientVars, castVars, shownVars, knownVars, CastToNobody, AskLater, ToAsk
<1>6. ASSUME NEW e \in Event, NEW c \in Clients, CastUnfiltered(e, c) PROVE StaysComing
  BY <1>6 DEF TypeOK, AsksMembers, StaysComing, Coming, clientVars, castVars, shownVars, knownVars, CastUnfiltered, AskLater, Show, Asks, ToAsk
<1>7. ASSUME NEW e \in Event, NEW c \in Clients, CastReadsUser(e, c) PROVE StaysComing
  <2> SUFFICES ASSUME NEW x \in Created, NEW y \in clients \cap clients', Coming(x, y), MeantFor(x, y) PROVE Coming(x, y)'
    BY DEF StaysComing
  <2>1. got' = got /\ started' = started \ {e} /\ y \in Clients BY <1>7 DEF CastReadsUser, AskLater, shownVars, TypeOK
  <2>2. CASE x # e
    <3>1. \E S \in {ToAsk(e), ToAsk(e) \ {c}} : todo' = [todo EXCEPT ![e] = S] BY <1>7 DEF CastReadsUser, AskLater
    <3>2. todo'[x] = todo[x] BY <2>2, <3>1 DEF TypeOK
    <3> QED BY <2>1, <2>2, <3>2 DEF Coming
  <2>3. CASE x = e
    <3>1. CASE e \in got[y] BY <2>1, <2>3, <3>1 DEF Coming
    <3>2. CASE y \in ToAsk(e)
      <4>1. y = c => LikesUser(e, c) BY <1>7, <2>3 DEF CastReadsUser, NoProgram, MeantFor, LikesUser
      <4>2. todo'[e] = (IF LikesUser(e, c) THEN ToAsk(e) ELSE ToAsk(e) \ {c})
        BY <1>7 DEF CastReadsUser, AskLater, TypeOK
      <4> QED BY <2>3, <3>2, <4>1, <4>2 DEF Coming
    <3> QED BY <2>3, <3>1, <3>2 DEF Coming, ToAsk
  <2> QED BY <2>2, <2>3
<1>8. ASSUME NEW e \in Event, NEW c \in Clients, CastReadsLanguage(e, c) PROVE StaysComing
  <2> SUFFICES ASSUME NEW x \in Created, NEW y \in clients \cap clients', Coming(x, y), MeantFor(x, y) PROVE Coming(x, y)'
    BY DEF StaysComing
  <2>1. started' = started \ {e} /\ todo'[e] = todo[e] \ {c} /\ y \in Clients BY <1>8 DEF CastReadsLanguage, AskLater, TypeOK
  <2>2. got'[y] = got[y] \/ got'[y] = got[y] \cup {e} BY <1>8, <2>1 DEF CastReadsLanguage, Show, TypeOK
  <2>3. CASE x # e
    <3>1. todo'[x] = todo[x] BY <1>8, <2>3 DEF CastReadsLanguage, AskLater, TypeOK
    <3> QED BY <2>1, <2>2, <2>3, <3>1 DEF Coming
  <2>4. CASE x = e /\ y # c
    <3>1. e \notin started BY <1>8 DEF CastReadsLanguage, AsksMembers
    <3> QED BY <2>1, <2>2, <2>4, <3>1 DEF Coming
  <2>5. CASE x = e /\ y = c
    <3>1. LikesLanguage(e, c) BY <1>8, <2>5 DEF CastReadsLanguage, AsksMembers, ReadsPresentUser, MeantFor, LikesLanguage
    <3>2. e \in got'[c] BY <1>8, <3>1 DEF CastReadsLanguage, Show, TypeOK
    <3> QED BY <2>5, <3>2 DEF Coming
  <2> QED BY <2>3, <2>4, <2>5
<1>9. ASSUME NEW c \in Clients, Serve(c) PROVE StaysComing
  BY <1>9 DEF TypeOK, AsksMembers, StaysComing, Coming, clientVars, castVars, shownVars, knownVars, Serve, MayPost, To, Broadcast
<1>10. ASSUME NEW c \in Clients, HandlerHistory(c) PROVE StaysComing
  BY <1>10 DEF TypeOK, AsksMembers, StaysComing, Coming, clientVars, castVars, shownVars, knownVars, HandlerHistory, SendHistory, GetHistory, To
<1>11. ASSUME NEW c \in Clients, UnregDelete(c) PROVE StaysComing
  BY <1>11 DEF TypeOK, AsksMembers, StaysComing, Coming, clientVars, castVars, shownVars, knownVars, UnregDelete, To, Locked
<1>12. ASSUME NEW c \in Clients, UnregInfo(c) PROVE StaysComing
  BY <1>12 DEF TypeOK, AsksMembers, StaysComing, Coming, clientVars, castVars, shownVars, knownVars, UnregInfo, Inform, To, Broadcast
<1>13. ASSUME NEW c \in Clients, ReaderPublish(c) PROVE StaysComing
  BY <1>13 DEF TypeOK, AsksMembers, StaysComing, Coming, clientVars, castVars, shownVars, knownVars, ReaderPublish, Publish, MayPost, Goto, Broadcast
<1>14. ASSUME NEW c \in Clients, ReaderCommand(c) PROVE StaysComing
  BY <1>14 DEF TypeOK, AsksMembers, StaysComing, Coming, clientVars, castVars, shownVars, knownVars, ReaderCommand, Answer
<1>15. ASSUME NEW c \in Clients, ReaderReply(c) PROVE StaysComing
  BY <1>15 DEF TypeOK, AsksMembers, StaysComing, Coming, clientVars, castVars, shownVars, knownVars, ReaderReply, Answer
<1>16. ASSUME NEW c \in Clients, ReaderLogout(c) PROVE StaysComing
  BY <1>16 DEF TypeOK, AsksMembers, StaysComing, Coming, clientVars, castVars, shownVars, knownVars, ReaderLogout, Answer, MayPost, Becomes, Goto
<1>17. ASSUME NEW c \in Clients, ReaderLogin(c) PROVE StaysComing
  BY <1>17 DEF TypeOK, AsksMembers, StaysComing, Coming, clientVars, castVars, shownVars, knownVars, ReaderLogin, MayPost, Becomes, Goto
<1>18. ASSUME NEW c \in Clients, ReaderLanguage(c) PROVE StaysComing
  BY <1>18 DEF TypeOK, AsksMembers, StaysComing, Coming, clientVars, castVars, shownVars, knownVars, ReaderLanguage, SendHistory, GetHistory, Goto, Becomes
<1>19. ASSUME NEW c \in Clients, ReaderFails(c) PROVE StaysComing
  BY <1>19 DEF TypeOK, AsksMembers, StaysComing, Coming, clientVars, castVars, shownVars, knownVars, ReaderFails, To
<1>20. ASSUME NEW e \in Event, NEW c \in Clients, WriterUnfiltered(c, e) PROVE StaysComing
  BY <1>20 DEF TypeOK, AsksMembers, StaysComing, Coming, clientVars, castVars, shownVars, knownVars, WriterUnfiltered, Looks, Show, LoopsRun
<1>21. ASSUME NEW e \in Event, NEW c \in Clients, WriterReadsUser(c, e) PROVE StaysComing
  BY <1>21 DEF TypeOK, AsksMembers, StaysComing, Coming, clientVars, castVars, shownVars, knownVars, WriterReadsUser, Looks, LoopsRun
<1>22. ASSUME NEW e \in Event, NEW c \in Clients, WriterReadsLanguage(c, e) PROVE StaysComing
  BY <1>22 DEF TypeOK, AsksMembers, StaysComing, Coming, clientVars, castVars, shownVars, knownVars, WriterReadsLanguage, Show, LoopsRun
<1>23. CASE UNCHANGED vars
  BY <1>23, BoundsAreNat DEF vars, clientVars, castVars, shownVars, knownVars, TypeOK, AsksMembers, StaysComing, Coming
<1> QED BY <1>1, <1>2, <1>3, <1>4, <1>5, <1>6, <1>7, <1>8, <1>9, <1>10, <1>11, <1>12, <1>13, <1>14, <1>15, <1>16, <1>17, <1>18, <1>19, <1>20, <1>21, <1>22, <1>23 DEF Next, HubStep, CastStep, HandlerStep, ReaderStep, WriterStep

\* WriteLoop drops only what is not meant for its client.
LEMMA OnHandStep ==
  TypeOK /\ AsksMembers /\ [Next]_vars => StaysOnHand
<1> SUFFICES ASSUME TypeOK, AsksMembers, [Next]_vars PROVE StaysOnHand OBVIOUS
<1>1. CASE PluginAnswers
  BY <1>1 DEF TypeOK, AsksMembers, StaysOnHand, OnHand, Due, clientVars, castVars, shownVars, knownVars, PluginAnswers, Publish, Broadcast
<1>2. CASE HubInfo
  BY <1>2 DEF TypeOK, AsksMembers, StaysOnHand, OnHand, Due, clientVars, castVars, shownVars, knownVars, HubInfo, Inform, Broadcast
<1>3. ASSUME NEW batch \in hq, HubHistory(batch) PROVE StaysOnHand
  BY <1>3 DEF TypeOK, AsksMembers, StaysOnHand, OnHand, Due, clientVars, castVars, shownVars, knownVars, HubHistory
<1>4. ASSUME NEW c \in Clients, HubAdd(c) PROVE StaysOnHand
  BY <1>4 DEF TypeOK, AsksMembers, StaysOnHand, OnHand, Due, clientVars, castVars, shownVars, knownVars, HubAdd, Becomes, Locked
<1>5. ASSUME NEW e \in Event, CastToNobody(e) PROVE StaysOnHand
  BY <1>5 DEF TypeOK, AsksMembers, StaysOnHand, OnHand, Due, clientVars, castVars, shownVars, knownVars, CastToNobody, AskLater, ToAsk
<1>6. ASSUME NEW e \in Event, NEW c \in Clients, CastUnfiltered(e, c) PROVE StaysOnHand
  BY <1>6 DEF TypeOK, AsksMembers, StaysOnHand, OnHand, Due, clientVars, castVars, shownVars, knownVars, CastUnfiltered, AskLater, Show, Asks, ToAsk
<1>7. ASSUME NEW e \in Event, NEW c \in Clients, CastReadsUser(e, c) PROVE StaysOnHand
  BY <1>7 DEF TypeOK, AsksMembers, StaysOnHand, OnHand, Due, clientVars, castVars, shownVars, knownVars, CastReadsUser, AskLater, Asks, ToAsk
<1>8. ASSUME NEW e \in Event, NEW c \in Clients, CastReadsLanguage(e, c) PROVE StaysOnHand
  <2> SUFFICES ASSUME NEW x \in Created, NEW y \in clients \cap clients', OnHand(x, y), MeantFor(x, y), Filter(x).compiles PROVE OnHand(x, y)'
    BY DEF StaysOnHand
  <2>1. got[y] \subseteq got'[y] BY <1>8 DEF CastReadsLanguage, Show, TypeOK
  <2> QED BY <1>8, <2>1 DEF CastReadsLanguage, OnHand, Due, clientVars
<1>9. ASSUME NEW c \in Clients, Serve(c) PROVE StaysOnHand
  BY <1>9 DEF TypeOK, AsksMembers, StaysOnHand, OnHand, Due, clientVars, castVars, shownVars, knownVars, Serve, MayPost, To, Broadcast
<1>10. ASSUME NEW c \in Clients, HandlerHistory(c) PROVE StaysOnHand
  BY <1>10 DEF TypeOK, AsksMembers, StaysOnHand, OnHand, Due, clientVars, castVars, shownVars, knownVars, HandlerHistory, SendHistory, GetHistory, To
<1>11. ASSUME NEW c \in Clients, UnregDelete(c) PROVE StaysOnHand
  BY <1>11 DEF TypeOK, AsksMembers, StaysOnHand, OnHand, Due, clientVars, castVars, shownVars, knownVars, UnregDelete, To, Locked
<1>12. ASSUME NEW c \in Clients, UnregInfo(c) PROVE StaysOnHand
  BY <1>12 DEF TypeOK, AsksMembers, StaysOnHand, OnHand, Due, clientVars, castVars, shownVars, knownVars, UnregInfo, Inform, To, Broadcast
<1>13. ASSUME NEW c \in Clients, ReaderPublish(c) PROVE StaysOnHand
  BY <1>13 DEF TypeOK, AsksMembers, StaysOnHand, OnHand, Due, clientVars, castVars, shownVars, knownVars, ReaderPublish, Publish, MayPost, Goto, Broadcast
<1>14. ASSUME NEW c \in Clients, ReaderCommand(c) PROVE StaysOnHand
  BY <1>14 DEF TypeOK, AsksMembers, StaysOnHand, OnHand, Due, clientVars, castVars, shownVars, knownVars, ReaderCommand, Answer
<1>15. ASSUME NEW c \in Clients, ReaderReply(c) PROVE StaysOnHand
  BY <1>15 DEF TypeOK, AsksMembers, StaysOnHand, OnHand, Due, clientVars, castVars, shownVars, knownVars, ReaderReply, Answer
<1>16. ASSUME NEW c \in Clients, ReaderLogout(c) PROVE StaysOnHand
  <2> SUFFICES ASSUME NEW x \in Created, NEW y \in clients \cap clients', OnHand(x, y), MeantFor(x, y), Filter(x).compiles PROVE OnHand(x, y)'
    BY DEF StaysOnHand
  <2>1. phase' = phase /\ ring' = ring /\ asked' = asked /\ got' = got BY <1>16 DEF ReaderLogout
  <2>2. owed' = owed \/ owed' = [owed EXCEPT ![c] = @ \cup {Len(events) + 1}] BY <1>16 DEF ReaderLogout, Answer
  <2>3. owed[y] \subseteq owed'[y] BY <2>2 DEF TypeOK
  <2> QED BY <2>1, <2>3 DEF OnHand, Due
<1>17. ASSUME NEW c \in Clients, ReaderLogin(c) PROVE StaysOnHand
  BY <1>17 DEF TypeOK, AsksMembers, StaysOnHand, OnHand, Due, clientVars, castVars, shownVars, knownVars, ReaderLogin, MayPost, Becomes, Goto
<1>18. ASSUME NEW c \in Clients, ReaderLanguage(c) PROVE StaysOnHand
  BY <1>18 DEF TypeOK, AsksMembers, StaysOnHand, OnHand, Due, clientVars, castVars, shownVars, knownVars, ReaderLanguage, SendHistory, GetHistory, Goto, Becomes
<1>19. ASSUME NEW c \in Clients, ReaderFails(c) PROVE StaysOnHand
  BY <1>19 DEF TypeOK, AsksMembers, StaysOnHand, OnHand, Due, clientVars, castVars, shownVars, knownVars, ReaderFails, To
<1>20. ASSUME NEW e \in Event, NEW c \in Clients, WriterUnfiltered(c, e) PROVE StaysOnHand
  <2> SUFFICES ASSUME NEW x \in Created, NEW y \in clients \cap clients', OnHand(x, y), MeantFor(x, y), Filter(x).compiles PROVE OnHand(x, y)'
    BY DEF StaysOnHand
  <2>1. phase' = phase /\ ring' = ring /\ asked' = asked /\ y \in Clients BY <1>20 DEF WriterUnfiltered, clientVars, TypeOK
  <2>2. owed'[y] = (IF y = c THEN owed[y] \ {e} ELSE owed[y]) BY <1>20, <2>1 DEF WriterUnfiltered, Looks, TypeOK
  <2>3. got' = got \/ got' = [got EXCEPT ![c] = @ \cup {e}] BY <1>20 DEF WriterUnfiltered, Show
  <2>4. got[y] \subseteq got'[y] /\ owed'[y] = (IF y = c THEN owed[y] \ {e} ELSE owed[y])
    BY <2>1, <2>2, <2>3 DEF TypeOK
  <2>5. CASE x = e /\ y = c
    <3>1. Untargeted(e) BY <1>20, <2>5 DEF WriterUnfiltered, NoProgram
    <3>2. e \in got'[c] BY <1>20, <3>1 DEF WriterUnfiltered, Show, TypeOK
    <3> QED BY <2>5, <3>2 DEF OnHand
  <2>6. CASE x # e \/ y # c BY <2>1, <2>4, <2>6 DEF OnHand, Due
  <2> QED BY <2>5, <2>6
<1>21. ASSUME NEW e \in Event, NEW c \in Clients, WriterReadsUser(c, e) PROVE StaysOnHand
  <2> SUFFICES ASSUME NEW x \in Created, NEW y \in clients \cap clients', OnHand(x, y), MeantFor(x, y), Filter(x).compiles PROVE OnHand(x, y)'
    BY DEF StaysOnHand
  <2>1. phase' = phase /\ ring' = ring /\ got' = got /\ y \in Clients BY <1>21 DEF WriterReadsUser, clientVars, TypeOK
  <2>2. asked[c] = {} /\ owed'[y] = (IF y = c THEN owed[y] \ {e} ELSE owed[y])
    BY <1>21, <2>1 DEF WriterReadsUser, Looks, TypeOK
  <2>3. asked[y] \subseteq asked'[y] BY <1>21, <2>1, <2>2 DEF WriterReadsUser, TypeOK
  <2>4. CASE x = e /\ y = c
    <3>1. LikesUser(e, c) BY <1>21, <2>4 DEF WriterReadsUser, NoProgram, MeantFor, LikesUser
    <3>2. e \in asked'[c] BY <1>21, <3>1 DEF WriterReadsUser, TypeOK
    <3> QED BY <2>4, <3>2 DEF OnHand
  <2>5. CASE x # e \/ y # c BY <2>1, <2>2, <2>3, <2>5 DEF OnHand, Due
  <2> QED BY <2>4, <2>5
<1>22. ASSUME NEW e \in Event, NEW c \in Clients, WriterReadsLanguage(c, e) PROVE StaysOnHand
  <2> SUFFICES ASSUME NEW x \in Created, NEW y \in clients \cap clients', OnHand(x, y), MeantFor(x, y), Filter(x).compiles PROVE OnHand(x, y)'
    BY DEF StaysOnHand
  <2>1. phase' = phase /\ ring' = ring /\ owed' = owed /\ y \in Clients BY <1>22 DEF WriterReadsLanguage, clientVars, TypeOK
  <2>2. got[y] \subseteq got'[y] /\ asked'[y] = (IF y = c THEN {} ELSE asked[y])
    BY <1>22, <2>1 DEF WriterReadsLanguage, Show, TypeOK
  <2>3. CASE y = c /\ x \in asked[c]
    <3>1. x = e BY <1>22, <2>3 DEF WriterReadsLanguage, AsksMembers
    <3>2. LikesLanguage(e, c) BY <2>3, <3>1 DEF MeantFor, LikesLanguage
    <3>3. e \in got'[c] BY <1>22, <3>2 DEF WriterReadsLanguage, Show, TypeOK
    <3> QED BY <2>3, <3>1, <3>3 DEF OnHand
  <2>4. CASE y # c \/ x \notin asked[c] BY <2>1, <2>2, <2>4 DEF OnHand, Due
  <2> QED BY <2>3, <2>4
<1>23. CASE UNCHANGED vars
  BY <1>23, BoundsAreNat DEF vars, clientVars, castVars, shownVars, knownVars, TypeOK, AsksMembers, StaysOnHand, OnHand, Due
<1> QED BY <1>1, <1>2, <1>3, <1>4, <1>5, <1>6, <1>7, <1>8, <1>9, <1>10, <1>11, <1>12, <1>13, <1>14, <1>15, <1>16, <1>17, <1>18, <1>19, <1>20, <1>21, <1>22, <1>23 DEF Next, HubStep, CastStep, HandlerStep, ReaderStep, WriterStep

\* A client stays who it is, becomes somebody with what is created behind it, or leaves.
LEMMA WhoStep ==
  TypeOK /\ OnlyCreated /\ AsksMembers /\ [Next]_vars => SomeWho
<1> SUFFICES ASSUME TypeOK, OnlyCreated, AsksMembers, [Next]_vars PROVE SomeWho OBVIOUS
<1>1. CASE PluginAnswers
  BY <1>1 DEF TypeOK, OnlyCreated, AsksMembers, SomeWho, SameWho, clientVars, castVars, shownVars, knownVars, PluginAnswers, Publish, Broadcast
<1>2. CASE HubInfo
  BY <1>2 DEF TypeOK, OnlyCreated, AsksMembers, SomeWho, SameWho, clientVars, castVars, shownVars, knownVars, HubInfo, Inform, Broadcast
<1>3. ASSUME NEW batch \in hq, HubHistory(batch) PROVE SomeWho
  BY <1>3 DEF TypeOK, OnlyCreated, AsksMembers, SomeWho, SameWho, clientVars, castVars, shownVars, knownVars, HubHistory
<1>4. ASSUME NEW c \in Clients, HubAdd(c) PROVE SomeWho
  <2>1. \A y \in Clients \ {c} : SameWho(y)
    BY <1>4 DEF HubAdd, Becomes, SameWho, TypeOK, clientVars
  <2>2. Created \subseteq begun'[c] BY <1>4 DEF HubAdd, Becomes, TypeOK, Created
  <2>3. \A x \in kept'[c] : x \in Created /\ OnHand(x, c)'
    BY <1>4 DEF HubAdd, TypeOK, OnlyCreated, OnHand, Due
  <2> QED BY <2>1, <2>2, <2>3 DEF SomeWho, NewWho
<1>5. ASSUME NEW e \in Event, CastToNobody(e) PROVE SomeWho
  BY <1>5 DEF TypeOK, OnlyCreated, AsksMembers, SomeWho, SameWho, clientVars, castVars, shownVars, knownVars, CastToNobody, AskLater, ToAsk
<1>6. ASSUME NEW e \in Event, NEW c \in Clients, CastUnfiltered(e, c) PROVE SomeWho
  BY <1>6 DEF TypeOK, OnlyCreated, AsksMembers, SomeWho, SameWho, clientVars, castVars, shownVars, knownVars, CastUnfiltered, AskLater, Show, Asks, ToAsk
<1>7. ASSUME NEW e \in Event, NEW c \in Clients, CastReadsUser(e, c) PROVE SomeWho
  BY <1>7 DEF TypeOK, OnlyCreated, AsksMembers, SomeWho, SameWho, clientVars, castVars, shownVars, knownVars, CastReadsUser, AskLater, Asks, ToAsk
<1>8. ASSUME NEW e \in Event, NEW c \in Clients, CastReadsLanguage(e, c) PROVE SomeWho
  BY <1>8 DEF TypeOK, OnlyCreated, AsksMembers, SomeWho, SameWho, clientVars, castVars, shownVars, knownVars, CastReadsLanguage, AskLater, Show
<1>9. ASSUME NEW c \in Clients, Serve(c) PROVE SomeWho
  BY <1>9 DEF TypeOK, OnlyCreated, AsksMembers, SomeWho, SameWho, clientVars, castVars, shownVars, knownVars, Serve, MayPost, To, Broadcast
<1>10. ASSUME NEW c \in Clients, HandlerHistory(c) PROVE SomeWho
  BY <1>10 DEF TypeOK, OnlyCreated, AsksMembers, SomeWho, SameWho, clientVars, castVars, shownVars, knownVars, HandlerHistory, SendHistory, GetHistory, To
<1>11. ASSUME NEW c \in Clients, UnregDelete(c) PROVE SomeWho
  <2>1. \A y \in Clients \ {c} : SameWho(y) BY <1>11 DEF UnregDelete, SameWho, TypeOK
  <2>2. c \notin clients' /\ asked'[c] = {} /\ got'[c] = {} BY <1>11 DEF UnregDelete, TypeOK
  <2>3. \A x \in Event : <<x, c>> \notin half' BY <1>11 DEF UnregDelete, castVars, Locked, AsksMembers
  <2> QED BY <2>1, <2>2, <2>3 DEF SomeWho, Gone
<1>12. ASSUME NEW c \in Clients, UnregInfo(c) PROVE SomeWho
  BY <1>12 DEF TypeOK, OnlyCreated, AsksMembers, SomeWho, SameWho, clientVars, castVars, shownVars, knownVars, UnregInfo, Inform, To, Broadcast
<1>13. ASSUME NEW c \in Clients, ReaderPublish(c) PROVE SomeWho
  BY <1>13 DEF TypeOK, OnlyCreated, AsksMembers, SomeWho, SameWho, clientVars, castVars, shownVars, knownVars, ReaderPublish, Publish, MayPost, Goto, Broadcast
<1>14. ASSUME NEW c \in Clients, ReaderCommand(c) PROVE SomeWho
  BY <1>14 DEF TypeOK, OnlyCreated, AsksMembers, SomeWho, SameWho, clientVars, castVars, shownVars, knownVars, ReaderCommand, Answer
<1>15. ASSUME NEW c \in Clients, ReaderReply(c) PROVE SomeWho
  BY <1>15 DEF TypeOK, OnlyCreated, AsksMembers, SomeWho, SameWho, clientVars, castVars, shownVars, knownVars, ReaderReply, Answer
<1>16. ASSUME NEW c \in Clients, ReaderLogout(c) PROVE SomeWho
  <2>1. \A y \in Clients \ {c} : SameWho(y)
    BY <1>16 DEF ReaderLogout, Becomes, SameWho, TypeOK, clientVars
  <2>2. Created \subseteq begun'[c] BY <1>16 DEF ReaderLogout, Becomes, TypeOK, Created
  <2>3. \A x \in kept'[c] : x \in Created /\ OnHand(x, c)'
    BY <1>16 DEF ReaderLogout, TypeOK, OnlyCreated, OnHand, Due
  <2> QED BY <2>1, <2>2, <2>3 DEF SomeWho, NewWho
<1>17. ASSUME NEW c \in Clients, ReaderLogin(c) PROVE SomeWho
  <2>1. \A y \in Clients \ {c} : SameWho(y)
    BY <1>17 DEF ReaderLogin, Becomes, SameWho, TypeOK, clientVars
  <2>2. Created \subseteq begun'[c] BY <1>17 DEF ReaderLogin, Becomes, TypeOK, Created
  <2>3. \A x \in kept'[c] : x \in Created /\ OnHand(x, c)'
    BY <1>17 DEF ReaderLogin, TypeOK, OnlyCreated, OnHand, Due
  <2> QED BY <2>1, <2>2, <2>3 DEF SomeWho, NewWho
<1>18. ASSUME NEW c \in Clients, ReaderLanguage(c) PROVE SomeWho
  <2>1. \A y \in Clients \ {c} : SameWho(y)
    BY <1>18 DEF ReaderLanguage, Becomes, SameWho, TypeOK, clientVars
  <2>2. Created \subseteq begun'[c] BY <1>18 DEF ReaderLanguage, Becomes, TypeOK, Created
  <2>3. \A x \in kept'[c] : x \in Created /\ OnHand(x, c)'
    BY <1>18 DEF ReaderLanguage, TypeOK, OnlyCreated, OnHand, Due, SendHistory, GetHistory
  <2> QED BY <2>1, <2>2, <2>3 DEF SomeWho, NewWho
<1>19. ASSUME NEW c \in Clients, ReaderFails(c) PROVE SomeWho
  BY <1>19 DEF TypeOK, OnlyCreated, AsksMembers, SomeWho, SameWho, clientVars, castVars, shownVars, knownVars, ReaderFails, To
<1>20. ASSUME NEW e \in Event, NEW c \in Clients, WriterUnfiltered(c, e) PROVE SomeWho
  BY <1>20 DEF TypeOK, OnlyCreated, AsksMembers, SomeWho, SameWho, clientVars, castVars, shownVars, knownVars, WriterUnfiltered, Looks, Show, LoopsRun
<1>21. ASSUME NEW e \in Event, NEW c \in Clients, WriterReadsUser(c, e) PROVE SomeWho
  BY <1>21 DEF TypeOK, OnlyCreated, AsksMembers, SomeWho, SameWho, clientVars, castVars, shownVars, knownVars, WriterReadsUser, Looks, LoopsRun
<1>22. ASSUME NEW e \in Event, NEW c \in Clients, WriterReadsLanguage(c, e) PROVE SomeWho
  BY <1>22 DEF TypeOK, OnlyCreated, AsksMembers, SomeWho, SameWho, clientVars, castVars, shownVars, knownVars, WriterReadsLanguage, Show, LoopsRun
<1>23. CASE UNCHANGED vars
  BY <1>23, BoundsAreNat DEF vars, clientVars, castVars, shownVars, knownVars, TypeOK, OnlyCreated, AsksMembers, SomeWho, SameWho
<1> QED BY <1>1, <1>2, <1>3, <1>4, <1>5, <1>6, <1>7, <1>8, <1>9, <1>10, <1>11, <1>12, <1>13, <1>14, <1>15, <1>16, <1>17, <1>18, <1>19, <1>20, <1>21, <1>22, <1>23 DEF Next, HubStep, CastStep, HandlerStep, ReaderStep, WriterStep

\* A program that has read the user goes on with the language.
LEMMA ReadStep ==
  TypeOK /\ OnlyCreated /\ AsksMembers /\ ReadsPresentUser /\ [Next]_vars => ReadsNow
<1> SUFFICES ASSUME TypeOK, OnlyCreated, AsksMembers, ReadsPresentUser, [Next]_vars PROVE ReadsNow OBVIOUS
<1>1. CASE PluginAnswers
  BY <1>1 DEF TypeOK, OnlyCreated, AsksMembers, ReadsNow, SameWho, clientVars, castVars, shownVars, knownVars, PluginAnswers, Publish, Broadcast
<1>2. CASE HubInfo
  BY <1>2 DEF TypeOK, OnlyCreated, AsksMembers, ReadsNow, SameWho, clientVars, castVars, shownVars, knownVars, HubInfo, Inform, Broadcast
<1>3. ASSUME NEW batch \in hq, HubHistory(batch) PROVE ReadsNow
  BY <1>3 DEF TypeOK, OnlyCreated, AsksMembers, ReadsNow, SameWho, clientVars, castVars, shownVars, knownVars, HubHistory
<1>4. ASSUME NEW c \in Clients, HubAdd(c) PROVE ReadsNow
  BY <1>4 DEF TypeOK, OnlyCreated, AsksMembers, ReadsNow, SameWho, clientVars, castVars, shownVars, knownVars, HubAdd, Becomes, Locked
<1>5. ASSUME NEW e \in Event, CastToNobody(e) PROVE ReadsNow
  BY <1>5 DEF TypeOK, OnlyCreated, AsksMembers, ReadsNow, SameWho, clientVars, castVars, shownVars, knownVars, CastToNobody, AskLater, ToAsk
<1>6. ASSUME NEW e \in Event, NEW c \in Clients, CastUnfiltered(e, c) PROVE ReadsNow
  <2>1. \A y \in Clients : SameWho(y) BY <1>6 DEF CastUnfiltered, SameWho, clientVars, knownVars
  <2>2. e \in Created BY <1>6 DEF CastUnfiltered, Asks, ToAsk, OnlyCreated
  <2>3. NoProgram(e) => (Untargeted(e) => MeantFor(e, c)) /\ (~Filter(e).compiles => MeantFor(e, c))
    BY <1>6 DEF NoProgram, Untargeted, MeantFor, Everybody, TypeOK
  <2>4. \A x \in Event, y \in Clients : <<x, y>> \in half' => <<x, y>> \in half BY <1>6 DEF CastUnfiltered, castVars
  <2>5. \A x \in Event, y \in Clients : x \in asked'[y] => x \in asked[y] BY <1>6 DEF CastUnfiltered, TypeOK
  <2>6. \A x \in Event, y \in Clients : x \in got'[y] => x \in got[y] \/ (x = e /\ y = c /\ e \in got'[c])
    BY <1>6 DEF CastUnfiltered, Show, TypeOK
  <2>7. e \in got'[c] => e \in got[c] \/ (e \notin begun[c] => MeantFor(e, c))
    BY <1>6, <2>3 DEF CastUnfiltered, NoProgram
  <2> QED BY <2>1, <2>2, <2>4, <2>5, <2>6, <2>7 DEF ReadsNow
<1>7. ASSUME NEW e \in Event, NEW c \in Clients, CastReadsUser(e, c) PROVE ReadsNow
  <2>1. \A y \in Clients : SameWho(y) BY <1>7 DEF CastReadsUser, SameWho, clientVars, knownVars
  <2>2. e \in Created BY <1>7 DEF CastReadsUser, Asks, ToAsk, OnlyCreated
  <2>3. got' = got /\ asked' = asked BY <1>7 DEF CastReadsUser, shownVars
  <2>4. Filter(e).compiles /\ (half' = half \/ (LikesUser(e, c) /\ half' = half \cup {<<e, c>>}))
    BY <1>7 DEF CastReadsUser, NoProgram
  <2> QED BY <2>1, <2>2, <2>3, <2>4 DEF ReadsNow, Reading
<1>8. ASSUME NEW e \in Event, NEW c \in Clients, CastReadsLanguage(e, c) PROVE ReadsNow
  <2>1. \A y \in Clients : SameWho(y) BY <1>8 DEF CastReadsLanguage, SameWho, clientVars, knownVars
  <2>2. e \in Created BY <1>8 DEF CastReadsLanguage, OnlyCreated
  <2>3. Filter(e).compiles /\ (e \notin begun[c] => LikesUser(e, c)) /\ (LikesUser(e, c) /\ LikesLanguage(e, c) => MeantFor(e, c))
    BY <1>8 DEF CastReadsLanguage, ReadsPresentUser, LikesUser, LikesLanguage, MeantFor
  <2>4. \A x \in Event, y \in Clients : <<x, y>> \in half' => <<x, y>> \in half BY <1>8 DEF CastReadsLanguage, castVars
  <2>5. \A x \in Event, y \in Clients : x \in asked'[y] => x \in asked[y] BY <1>8 DEF CastReadsLanguage, TypeOK
  <2>6. \A x \in Event, y \in Clients : x \in got'[y] => x \in got[y] \/ (x = e /\ y = c /\ e \in got'[c])
    BY <1>8 DEF CastReadsLanguage, Show, TypeOK
  <2>7. e \in got'[c] => e \in got[c] \/ (e \notin begun[c] => MeantFor(e, c))
    BY <1>8, <2>3 DEF CastReadsLanguage, Show, TypeOK
  <2> QED BY <2>1, <2>2, <2>4, <2>5, <2>6, <2>7 DEF ReadsNow
<1>9. ASSUME NEW c \in Clients, Serve(c) PROVE ReadsNow
  BY <1>9 DEF TypeOK, OnlyCreated, AsksMembers, ReadsNow, SameWho, clientVars, castVars, shownVars, knownVars, Serve, MayPost, To, Broadcast
<1>10. ASSUME NEW c \in Clients, HandlerHistory(c) PROVE ReadsNow
  BY <1>10 DEF TypeOK, OnlyCreated, AsksMembers, ReadsNow, SameWho, clientVars, castVars, shownVars, knownVars, HandlerHistory, SendHistory, GetHistory, To
<1>11. ASSUME NEW c \in Clients, UnregDelete(c) PROVE ReadsNow
  <2>1. half' = half /\ \A y \in Clients : asked'[y] \subseteq asked[y] /\ got'[y] \subseteq got[y]
    BY <1>11 DEF UnregDelete, castVars, TypeOK
  <2> QED BY <2>1 DEF ReadsNow
<1>12. ASSUME NEW c \in Clients, UnregInfo(c) PROVE ReadsNow
  BY <1>12 DEF TypeOK, OnlyCreated, AsksMembers, ReadsNow, SameWho, clientVars, castVars, shownVars, knownVars, UnregInfo, Inform, To, Broadcast
<1>13. ASSUME NEW c \in Clients, ReaderPublish(c) PROVE ReadsNow
  BY <1>13 DEF TypeOK, OnlyCreated, AsksMembers, ReadsNow, SameWho, clientVars, castVars, shownVars, knownVars, ReaderPublish, Publish, MayPost, Goto, Broadcast
<1>14. ASSUME NEW c \in Clients, ReaderCommand(c) PROVE ReadsNow
  BY <1>14 DEF TypeOK, OnlyCreated, AsksMembers, ReadsNow, SameWho, clientVars, castVars, shownVars, knownVars, ReaderCommand, Answer
<1>15. ASSUME NEW c \in Clients, ReaderReply(c) PROVE ReadsNow
  BY <1>15 DEF TypeOK, OnlyCreated, AsksMembers, ReadsNow, SameWho, clientVars, castVars, shownVars, knownVars, ReaderReply, Answer
<1>16. ASSUME NEW c \in Clients, ReaderLogout(c) PROVE ReadsNow
  BY <1>16 DEF TypeOK, OnlyCreated, AsksMembers, ReadsNow, SameWho, clientVars, castVars, shownVars, knownVars, ReaderLogout, Answer, MayPost, Becomes, Goto
<1>17. ASSUME NEW c \in Clients, ReaderLogin(c) PROVE ReadsNow
  BY <1>17 DEF TypeOK, OnlyCreated, AsksMembers, ReadsNow, SameWho, clientVars, castVars, shownVars, knownVars, ReaderLogin, MayPost, Becomes, Goto
<1>18. ASSUME NEW c \in Clients, ReaderLanguage(c) PROVE ReadsNow
  BY <1>18 DEF TypeOK, OnlyCreated, AsksMembers, ReadsNow, SameWho, clientVars, castVars, shownVars, knownVars, ReaderLanguage, SendHistory, GetHistory, Goto, Becomes
<1>19. ASSUME NEW c \in Clients, ReaderFails(c) PROVE ReadsNow
  BY <1>19 DEF TypeOK, OnlyCreated, AsksMembers, ReadsNow, SameWho, clientVars, castVars, shownVars, knownVars, ReaderFails, To
<1>20. ASSUME NEW e \in Event, NEW c \in Clients, WriterUnfiltered(c, e) PROVE ReadsNow
  <2>1. \A y \in Clients : SameWho(y) BY <1>20 DEF WriterUnfiltered, SameWho, clientVars, knownVars
  <2>2. e \in Created BY <1>20 DEF WriterUnfiltered, Looks, OnlyCreated
  <2>3. NoProgram(e) => (Untargeted(e) => MeantFor(e, c)) /\ (~Filter(e).compiles => MeantFor(e, c))
    BY <1>20 DEF NoProgram, Untargeted, MeantFor, Everybody, TypeOK
  <2>4. \A x \in Event, y \in Clients : <<x, y>> \in half' => <<x, y>> \in half BY <1>20 DEF WriterUnfiltered, castVars
  <2>5. \A x \in Event, y \in Clients : x \in asked'[y] => x \in asked[y] BY <1>20 DEF WriterUnfiltered, TypeOK
  <2>6. \A x \in Event, y \in Clients : x \in got'[y] => x \in got[y] \/ (x = e /\ y = c /\ e \in got'[c])
    BY <1>20 DEF WriterUnfiltered, Show, TypeOK
  <2>7. e \in got'[c] => e \in got[c] \/ (e \notin begun[c] => MeantFor(e, c))
    BY <1>20, <2>3 DEF WriterUnfiltered, Show, TypeOK
  <2> QED BY <2>1, <2>2, <2>4, <2>5, <2>6, <2>7 DEF ReadsNow
<1>21. ASSUME NEW e \in Event, NEW c \in Clients, WriterReadsUser(c, e) PROVE ReadsNow
  <2>1. \A y \in Clients : SameWho(y) BY <1>21 DEF WriterReadsUser, SameWho, clientVars, knownVars
  <2>2. e \in Created BY <1>21 DEF WriterReadsUser, Looks, OnlyCreated
  <2>3. got' = got /\ half' = half BY <1>21 DEF WriterReadsUser, castVars
  <2>4. Filter(e).compiles /\ (asked' = asked \/ (LikesUser(e, c) /\ asked' = [asked EXCEPT ![c] = {e}]))
    BY <1>21 DEF WriterReadsUser, NoProgram
  <2>5. \A x \in Event, y \in Clients : x \in asked'[y] => x \in asked[y] \/ (x = e /\ y = c /\ LikesUser(e, c))
    BY <2>4 DEF TypeOK
  <2> QED BY <2>1, <2>2, <2>3, <2>4, <2>5 DEF ReadsNow, Reading
<1>22. ASSUME NEW e \in Event, NEW c \in Clients, WriterReadsLanguage(c, e) PROVE ReadsNow
  <2>1. \A y \in Clients : SameWho(y) BY <1>22 DEF WriterReadsLanguage, SameWho, clientVars, knownVars
  <2>2. e \in Created BY <1>22 DEF WriterReadsLanguage, OnlyCreated
  <2>3. Filter(e).compiles /\ (e \notin begun[c] => LikesUser(e, c)) /\ (LikesUser(e, c) /\ LikesLanguage(e, c) => MeantFor(e, c))
    BY <1>22 DEF WriterReadsLanguage, ReadsPresentUser, LikesUser, LikesLanguage, MeantFor
  <2>4. \A x \in Event, y \in Clients : <<x, y>> \in half' => <<x, y>> \in half BY <1>22 DEF WriterReadsLanguage, castVars
  <2>5. \A x \in Event, y \in Clients : x \in asked'[y] => x \in asked[y] BY <1>22 DEF WriterReadsLanguage, TypeOK
  <2>6. \A x \in Event, y \in Clients : x \in got'[y] => x \in got[y] \/ (x = e /\ y = c /\ e \in got'[c])
    BY <1>22 DEF WriterReadsLanguage, Show, TypeOK
  <2>7. e \in got'[c] => e \in got[c] \/ (e \notin begun[c] => MeantFor(e, c))
    BY <1>22, <2>3 DEF WriterReadsLanguage, Show, TypeOK
  <2> QED BY <2>1, <2>2, <2>4, <2>5, <2>6, <2>7 DEF ReadsNow
<1>23. CASE UNCHANGED vars
  BY <1>23, BoundsAreNat DEF vars, clientVars, castVars, shownVars, knownVars, TypeOK, OnlyCreated, AsksMembers, ReadsNow, SameWho
<1> QED BY <1>1, <1>2, <1>3, <1>4, <1>5, <1>6, <1>7, <1>8, <1>9, <1>10, <1>11, <1>12, <1>13, <1>14, <1>15, <1>16, <1>17, <1>18, <1>19, <1>20, <1>21, <1>22, <1>23 DEF Next, HubStep, CastStep, HandlerStep, ReaderStep, WriterStep

-----------------------------------------------------------------------------
(* What follows for the invariant. *)

\* What has been created stays as it is, and so does what its filter asks.
LEMMA CreatedStays ==
  ASSUME Grows, NEW x \in Created
  PROVE  /\ x \in Created' /\ Filter(x)' = Filter(x) /\ events'[x] = events[x]
         /\ \A y : SameWho(y) => /\ LikesUser(x, y)' = LikesUser(x, y) /\ MeantFor(x, y)' = MeantFor(x, y)
                                 /\ ByBroadcast(x, y)' = ByBroadcast(x, y)
                                 /\ ByHistory(x, y)' = ByHistory(x, y)
<1>1. x \in Created' /\ events'[x] = events[x] /\ Filter(x)' = Filter(x) BY DEF Grows, Filter
<1> QED BY <1>1 DEF SameWho, LikesUser, MeantFor, ByBroadcast, ByHistory

\* A program that had read the user still has, as nobody who is asked becomes somebody else
\* without the event being from before that.
LEMMA ReadingKept ==
  ASSUME TypeOK, TypeOK', OnlyCreated, ReadsPresentUser, Grows, SomeWho, ReadsNow
  PROVE  ReadsPresentUser'
<1>1. ASSUME NEW x \in Event, NEW y \in Clients, <<x, y>> \in half' \/ x \in asked'[y]
      PROVE  Filter(x)'.compiles /\ (x \notin begun'[y] => LikesUser(x, y)')
  <2>1. CASE Reading(x, y) BY <2>1, CreatedStays DEF Reading, SameWho
  <2>2. CASE <<x, y>> \in half \/ x \in asked[y]
    <3>1. x \in Created /\ Filter(x).compiles /\ (x \notin begun[y] => LikesUser(x, y))
      BY <2>2 DEF OnlyCreated, ReadsPresentUser
    <3>2. CASE SameWho(y) BY <3>1, <3>2, CreatedStays DEF SameWho
    <3>3. CASE NewWho(y) BY <3>1, <3>3, CreatedStays DEF NewWho
    <3>4. CASE Gone(y) BY <1>1, <3>4 DEF Gone
    <3> QED BY <3>2, <3>3, <3>4 DEF SomeWho
  <2> QED BY <1>1, <2>1, <2>2 DEF ReadsNow
<1>2. ASSUME NEW y \in Clients, NEW x \in Event, x \in got'[y], x \notin begun'[y] PROVE MeantFor(x, y)'
  <2>1. CASE x \in got[y]
    <3>1. x \in Created /\ (x \notin begun[y] => MeantFor(x, y))
      BY <2>1 DEF OnlyCreated, ReadsPresentUser, OnlyAudience
    <3>2. CASE SameWho(y) BY <1>2, <3>1, <3>2, CreatedStays DEF SameWho
    <3>3. CASE NewWho(y) BY <1>2, <3>1, <3>3 DEF NewWho
    <3>4. CASE Gone(y) BY <1>2, <3>4 DEF Gone
    <3> QED BY <3>2, <3>3, <3>4 DEF SomeWho
  <2>2. CASE x \in Created /\ SameWho(y) /\ (x \notin begun[y] => MeantFor(x, y))
    BY <1>2, <2>2, CreatedStays DEF SameWho
  <2> QED BY <1>2, <2>1, <2>2 DEF ReadsNow
<1> QED
  <2>1. \A y \in Clients : asked'[y] \subseteq Event /\ got'[y] \subseteq Event BY DEF TypeOK
  <2> QED BY <1>1, <1>2, <2>1 DEF ReadsPresentUser, OnlyAudience

\* What is created now is cast now; what was there stays on its way, or is for others.
LEMMA ReachingKept ==
  ASSUME TypeOK, TypeOK', OnlyCreated, ReachesAll, Grows, SomeWho, StaysComing, StaysOnHand
  PROVE  ReachesAll'
<1>0. clients' \subseteq Clients BY DEF TypeOK
<1>1. ASSUME NEW y \in clients', NEW x \in Created', ByBroadcast(x, y)', MeantFor(x, y)' PROVE Coming(x, y)'
  <2>1. CASE x \notin Created BY <1>1, <2>1 DEF Grows, ByBroadcast, Coming
  <2>2. CASE x \in Created /\ SameWho(y)
    <3>1. y \in clients /\ ByBroadcast(x, y) /\ MeantFor(x, y) BY <1>1, <2>2, CreatedStays DEF SameWho
    <3>2. Coming(x, y) BY <2>2, <3>1 DEF ReachesAll
    <3> QED BY <2>2, <3>1, <3>2 DEF StaysComing
  <2>3. CASE x \in Created /\ NewWho(y) BY <1>1, <2>3 DEF NewWho, ByBroadcast
  <2> QED BY <1>0, <2>1, <2>2, <2>3 DEF SomeWho, Gone
<1>2. ASSUME NEW y \in clients', NEW x \in Created', ByHistory(x, y)', MeantFor(x, y)' PROVE OnHand(x, y)'
  <2>1. CASE SameWho(y)
    <3>1. x \in Created BY <1>0, <1>2, <2>1 DEF ByHistory, SameWho, OnlyCreated
    <3>2. y \in clients /\ ByHistory(x, y) /\ MeantFor(x, y) BY <1>2, <2>1, <3>1, CreatedStays DEF SameWho
    <3>3. OnHand(x, y) BY <3>1, <3>2 DEF ReachesAll
    <3> QED BY <3>1, <3>2, <3>3 DEF StaysOnHand, ByHistory
  <2>2. CASE NewWho(y) BY <1>2, <2>2 DEF NewWho, ByHistory
  <2> QED BY <1>0, <2>1, <2>2 DEF SomeWho, Gone
<1> QED BY <1>1, <1>2 DEF ReachesAll

\* Who is told is still told, as long as nobody comes or goes.
LEMMA TellsKept ==
  ASSUME TypeOK, Grows, StaysComing, TellsPresence, clients' = clients, fresh' = fresh,
         \A y \in Clients : phase[y] = "deleted" => phase'[y] = "deleted"
  PROVE  TellsPresence'
<1>1. ASSUME NEW e \in Event, Tells(e) PROVE Tells(e)'
  <2>1. e \in Created' /\ events'[e] = Info(clients) BY <1>1 DEF Tells, Grows
  <2>2. \A c \in clients : MeantFor(e, c)
    BY <1>1 DEF Tells, TypeOK, MeantFor, Filter, Info, Everybody
  <2>3. \A c \in clients : Coming(e, c)' BY <1>1, <2>2 DEF Tells, StaysComing
  <2> QED BY <2>1, <2>3 DEF Tells, Info
<1> QED BY <1>1 DEF TellsPresence

\* Whoever comes or goes has it told, when the hub is done with the one.
LEMMA TellsStep ==
  TypeOK /\ AsksMembers /\ ReadsPresentUser /\ TellsPresence /\ [Next]_vars => TellsPresence'
<1> SUFFICES ASSUME TypeOK, AsksMembers, ReadsPresentUser, TellsPresence, [Next]_vars PROVE TellsPresence' OBVIOUS
<1>0. Grows /\ StaysComing BY GrowthStep, ComingStep DEF TypeOK
<1>1. CASE PluginAnswers
  BY <1>1, <1>0, TellsKept DEF TypeOK, clientVars, castVars, shownVars, knownVars, PluginAnswers
<1>2. CASE HubInfo
  <2>1. clients \in SUBSET Clients /\ clients' = clients BY <1>2 DEF HubInfo, TypeOK
  <2>2. PICK e \in Created' : e \in started' /\ events'[e] = Info(clients)
    BY <1>2, <2>1, InformGrows DEF HubInfo, shownVars
  <2>3. e \in Event BY <1>0 DEF Grows
  <2>4. Tells(e)' BY <2>1, <2>2 DEF Tells, Coming, Info
  <2> QED BY <2>3, <2>4 DEF TellsPresence
<1>3. ASSUME NEW batch \in hq, HubHistory(batch) PROVE TellsPresence'
  BY <1>3, <1>0, TellsKept DEF TypeOK, clientVars, castVars, shownVars, knownVars, HubHistory
<1>4. ASSUME NEW c \in Clients, HubAdd(c) PROVE TellsPresence'
  BY <1>4, NoClientIsNone DEF HubAdd, TellsPresence
<1>5. ASSUME NEW e \in Event, CastToNobody(e) PROVE TellsPresence'
  BY <1>5, <1>0, TellsKept DEF TypeOK, clientVars, castVars, shownVars, knownVars, CastToNobody
<1>6. ASSUME NEW e \in Event, NEW c \in Clients, CastUnfiltered(e, c) PROVE TellsPresence'
  BY <1>6, <1>0, TellsKept DEF TypeOK, clientVars, castVars, shownVars, knownVars, CastUnfiltered
<1>7. ASSUME NEW e \in Event, NEW c \in Clients, CastReadsUser(e, c) PROVE TellsPresence'
  BY <1>7, <1>0, TellsKept DEF TypeOK, clientVars, castVars, shownVars, knownVars, CastReadsUser
<1>8. ASSUME NEW e \in Event, NEW c \in Clients, CastReadsLanguage(e, c) PROVE TellsPresence'
  BY <1>8, <1>0, TellsKept DEF TypeOK, clientVars, castVars, shownVars, knownVars, CastReadsLanguage
<1>9. ASSUME NEW c \in Clients, Serve(c) PROVE TellsPresence'
  BY <1>9, <1>0, TellsKept DEF TypeOK, clientVars, castVars, shownVars, knownVars, Serve, To
<1>10. ASSUME NEW c \in Clients, HandlerHistory(c) PROVE TellsPresence'
  BY <1>10, <1>0, TellsKept DEF TypeOK, clientVars, castVars, shownVars, knownVars, HandlerHistory, To
<1>11. ASSUME NEW c \in Clients, UnregDelete(c) PROVE TellsPresence'
  BY <1>11 DEF UnregDelete, To, TellsPresence, TypeOK
<1>12. ASSUME NEW c \in Clients, UnregInfo(c) PROVE TellsPresence'
  <2>1. clients \in SUBSET Clients /\ clients' = clients BY <1>12 DEF UnregInfo, TypeOK
  <2>2. PICK e \in Created' : e \in started' /\ events'[e] = Info(clients)
    BY <1>12, <2>1, InformGrows DEF UnregInfo, shownVars
  <2>3. e \in Event BY <1>0 DEF Grows
  <2>4. Tells(e)' BY <2>1, <2>2 DEF Tells, Coming, Info
  <2> QED BY <2>3, <2>4 DEF TellsPresence
<1>13. ASSUME NEW c \in Clients, ReaderPublish(c) PROVE TellsPresence'
  BY <1>13, <1>0, TellsKept DEF TypeOK, clientVars, castVars, shownVars, knownVars, ReaderPublish, Goto
<1>14. ASSUME NEW c \in Clients, ReaderCommand(c) PROVE TellsPresence'
  BY <1>14, <1>0, TellsKept DEF TypeOK, clientVars, castVars, shownVars, knownVars, ReaderCommand
<1>15. ASSUME NEW c \in Clients, ReaderReply(c) PROVE TellsPresence'
  BY <1>15, <1>0, TellsKept DEF TypeOK, clientVars, castVars, shownVars, knownVars, ReaderReply
<1>16. ASSUME NEW c \in Clients, ReaderLogout(c) PROVE TellsPresence'
  BY <1>16, <1>0, TellsKept DEF TypeOK, clientVars, castVars, shownVars, knownVars, ReaderLogout, Goto
<1>17. ASSUME NEW c \in Clients, ReaderLogin(c) PROVE TellsPresence'
  BY <1>17, <1>0, TellsKept DEF TypeOK, clientVars, castVars, shownVars, knownVars, ReaderLogin, Goto
<1>18. ASSUME NEW c \in Clients, ReaderLanguage(c) PROVE TellsPresence'
  BY <1>18, <1>0, TellsKept DEF TypeOK, clientVars, castVars, shownVars, knownVars, ReaderLanguage, Goto
<1>19. ASSUME NEW c \in Clients, ReaderFails(c) PROVE TellsPresence'
  BY <1>19, <1>0, TellsKept DEF TypeOK, clientVars, castVars, shownVars, knownVars, ReaderFails, To
<1>20. ASSUME NEW e \in Event, NEW c \in Clients, WriterUnfiltered(c, e) PROVE TellsPresence'
  BY <1>20, <1>0, TellsKept DEF TypeOK, clientVars, castVars, shownVars, knownVars, WriterUnfiltered
<1>21. ASSUME NEW e \in Event, NEW c \in Clients, WriterReadsUser(c, e) PROVE TellsPresence'
  BY <1>21, <1>0, TellsKept DEF TypeOK, clientVars, castVars, shownVars, knownVars, WriterReadsUser
<1>22. ASSUME NEW e \in Event, NEW c \in Clients, WriterReadsLanguage(c, e) PROVE TellsPresence'
  BY <1>22, <1>0, TellsKept DEF TypeOK, clientVars, castVars, shownVars, knownVars, WriterReadsLanguage
<1>23. CASE UNCHANGED vars
  BY <1>23, <1>0, TellsKept DEF vars, clientVars, castVars, shownVars, knownVars, TypeOK
<1> QED BY <1>1, <1>2, <1>3, <1>4, <1>5, <1>6, <1>7, <1>8, <1>9, <1>10, <1>11, <1>12, <1>13, <1>14, <1>15, <1>16, <1>17, <1>18, <1>19, <1>20, <1>21, <1>22, <1>23 DEF Next, HubStep, CastStep, HandlerStep, ReaderStep, WriterStep

-----------------------------------------------------------------------------
(* The invariant, and what it means. *)

\* A room where nothing was said yet.
LEMMA IInvInit == Init => IInv
<1> SUFFICES ASSUME Init PROVE IInv OBVIOUS
<1> USE BoundsAreNat, PresentConnected
<1>1. Info(Present) \in EventType BY DEF Info, EventType, Names, Everybody, FilterType, Ids
<1>2. events \in Seq(EventType) /\ Len(events) <= MaxEvents BY <1>1 DEF Init
<1>3. TypeOK BY <1>2 DEF TypeOK, Init, EventType, Event, Ids
<1>4. OnlyCreated BY DEF OnlyCreated, Created, Init
<1>5. AsksMembers /\ AbsentHaveNothing BY DEF AsksMembers, AbsentHaveNothing, Init
<1>6. ReadsPresentUser BY <1>1 DEF ReadsPresentUser, OnlyAudience, MeantFor, Filter, Info, Everybody, Ids, Init
<1>7. ReachesAll
  <2>1. ASSUME NEW c \in clients, NEW e \in Created PROVE e \in got[c] BY <2>1 DEF Created, Init
  <2> QED BY <2>1 DEF ReachesAll, Coming, OnHand
<1>8. TellsPresence
  <2>1. CASE Present = {} BY <2>1 DEF TellsPresence, Init
  <2>2. CASE Present # {}
    <3>1. Tells(1) BY <2>2 DEF Tells, Created, Coming, Init
    <3> QED BY <3>1 DEF TellsPresence, Event
  <2> QED BY <2>1, <2>2
<1> QED BY <1>3, <1>4, <1>5, <1>6, <1>7, <1>8 DEF IInv

\* A step keeps it.
LEMMA IInvStep == IInv /\ [Next]_vars => IInv'
<1> SUFFICES ASSUME IInv, [Next]_vars PROVE IInv' OBVIOUS
<1> USE DEF IInv
<1>1. Grows BY GrowthStep
<1>2. TypeOK' /\ OnlyCreated' /\ AsksMembers' BY TypeStep, CreatedStep, AskingStep
<1>7. AbsentHaveNothing' BY AbsentStep
<1>3. StaysComing /\ StaysOnHand /\ SomeWho /\ ReadsNow BY ComingStep, OnHandStep, WhoStep, ReadStep
<1>4. ReadsPresentUser' BY <1>1, <1>2, <1>3, ReadingKept
<1>5. ReachesAll' BY <1>1, <1>2, <1>3, ReachingKept
<1>6. TellsPresence' BY TellsStep
<1> QED BY <1>2, <1>4, <1>5, <1>6, <1>7

\* It holds all the time.
LEMMA IInvAlways == Spec => []IInv
<1> QED BY IInvInit, IInvStep, PTL DEF Spec

\* Every variable of the hub, of the handlers and of the loops keeps its type, events stay
\* within the bound, and nothing is on its way that was not created.
THEOREM DeliveryTyped == Spec => [](TypeOK /\ OnlyCreated)
<1>1. IInv => TypeOK /\ OnlyCreated BY DEF IInv
<1> QED BY <1>1, IInvAlways, PTL

\* The read lock of the broadcasts keeps Unregister's delete away until everybody has been
\* asked, so nothing is left of who has gone for a broadcast or a WriteLoop to come to.
THEOREM NothingLeftOfAbsent == Spec => []NothingForAbsent
<1>1. IInv => NothingForAbsent BY DEF IInv, AsksMembers, AbsentHaveNothing, NothingForAbsent
<1> QED BY <1>1, IInvAlways, PTL

\* RunFilterEvent and EvaluateFilterEvent, asked by whichever goroutine and however late,
\* let nothing through to a client that is not meant for who it is, but what was created
\* before it became that.
THEOREM AudienceKept == Spec => []OnlyAudience
<1>1. IInv => OnlyAudience BY DEF IInv, ReadsPresentUser
<1> QED BY <1>1, IInvAlways, PTL

\* Broadcasts from one side and the history from the other leave no gap for a client that
\* joined, logged in or changed its language: of both, all that is meant for it reaches it.
THEOREM NothingMissed == Spec => []MissesNothing
<1>1. ASSUME IInv PROVE MissesNothing
  <2> SUFFICES ASSUME HubQuiet, NEW c \in clients, Settled(c), NEW e \in DOMAIN events,
                      ByBroadcast(e, c) \/ ByHistory(e, c), MeantFor(e, c)
               PROVE  e \in got[c]
    BY DEF MissesNothing
  <2>1. e \in Event /\ c \in Clients BY <1>1, BoundsAreNat DEF IInv, TypeOK, Event
  <2>2. Coming(e, c) => e \in got[c] BY <2>1 DEF Coming, HubQuiet
  <2>3. OnHand(e, c) => e \in got[c] BY DEF OnHand, Due, Settled
  <2> QED BY <1>1, <2>2, <2>3 DEF IInv, ReachesAll, Created
<1> QED BY <1>1, IInvAlways, PTL

\* The info events of joins and leaves come from goroutines of their own, in any order: when
\* all is quiet, one that tells who is connected has reached everybody.
THEOREM PresenceIsTold == Spec => []PresenceTold
<1>1. ASSUME IInv PROVE PresenceTold
  <2> SUFFICES ASSUME HubQuiet, NEW c \in clients, Settled(c)
               PROVE  \E e \in got[c] : events[e].name = "info" /\ events[e].now = clients
    BY DEF PresenceTold
  <2>1. PICK e \in Event : Tells(e) BY <1>1 DEF IInv, TellsPresence, HubQuiet, TypeOK
  <2>2. e \in got[c] BY <2>1 DEF Tells, Coming, HubQuiet
  <2> QED BY <2>1, <2>2 DEF Tells, Info
<1> QED BY <1>1, IInvAlways, PTL
=============================================================================
