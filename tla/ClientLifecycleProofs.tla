----------------------- MODULE ClientLifecycleProofs -----------------------
(***************************************************************************)
(* Theorems about ClientLifecycle, for any number of clients, of broadcast  *)
(* and login goroutines, and for any capacities.  IInv is inductive; its    *)
(* parts are proved one by one, each with one step per kind of goroutine.   *)
(***************************************************************************)
EXTENDS ClientLifecycle, FiniteSetTheorems, TLAPS

\* One entry of the table of SendHistory goroutines.
LEMMA HistSet ==
  ASSUME HistType, NEW c \in Clients, NEW k \in Slots, NEW v \in {"idle", "rlock", "send"},
         hist' = [hist EXCEPT ![c][k] = v]
  PROVE  HistType'
<1>1. [hist[c] EXCEPT ![k] = v] \in [Slots -> {"idle", "rlock", "send"}]
  BY DEF HistType
<1>2. hist' = [hist EXCEPT ![c] = [hist[c] EXCEPT ![k] = v]]
  BY DEF HistType
<1> QED
  BY <1>1, <1>2 DEF HistType

\* A batch of events starts Broadcast goroutines.
LEMMA BroadcastStarts == BcastType /\ HubBroadcast => BcastType'
<1> SUFFICES ASSUME BcastType, HubBroadcast PROVE BcastType'
  OBVIOUS
<1>1. PICK B \in SUBSET {b \in Bcasts : bpc[b] = "idle"} :
             bpc' = [b \in Bcasts |-> IF b \in B THEN "rlock" ELSE bpc[b]]
  BY DEF HubBroadcast
<1> QED
  BY <1>1 DEF HubBroadcast, BcastType, bcastVars, hubSide

\* Every step of every goroutine keeps the types.
LEMMA TypeStep == TypeOK /\ [Next]_vars => TypeOK'
<1> SUFFICES ASSUME TypeOK, [Next]_vars PROVE TypeOK'
  OBVIOUS
<1> USE CapsArePositive, BoundsAreNat
    DEF TypeOK, hubVars, lockVars, queueVars, bcastVars, chanVars, endVars, loopVars,
        helperVars, hubSide, clientSide
<1>1. ASSUME NEW c \in Clients, HandlerStep(c) PROVE TypeOK'
  <2> USE <1>1 DEF HandlerStep, HandlerStart, HandlerRegister, HubIdle, HandlerServe,
          Serve, WaitOver, HandlerSleep, HandlerCrash, HandlerLeave, HandlerUnregister
  <2>1. HubType' BY DEF HubType
  <2>2. LockType' BY DEF LockType
  <2>3. QueueType' BY DEF QueueType
  <2>4. BcastType' BY DEF BcastType
  <2>5. ChanType' BY DEF ChanType
  <2>6. EndType' BY DEF EndType
  <2>7. LoopType' BY DEF LoopType
  <2>8. GreetType' BY DEF GreetType
  <2>9. HistType' BY HistSet DEF HistType, Slots
  <2>10. HandlerType' BY DEF HandlerType
  <2> QED BY ONLY <2>1, <2>2, <2>3, <2>4, <2>5, <2>6, <2>7, <2>8, <2>9, <2>10 DEF TypeOK
<1>2. ASSUME NEW c \in Clients, GreetStep(c) PROVE TypeOK'
  <2> USE <1>2 DEF GreetStep, GreetBroadcast, GreetPlugin, CanPush, Pushed
  <2>1. HubType' BY DEF HubType
  <2>2. LockType' BY DEF LockType
  <2>3. QueueType' BY DEF QueueType
  <2>4. BcastType' BY DEF BcastType
  <2>5. ChanType' BY DEF ChanType
  <2>6. EndType' BY DEF EndType
  <2>7. LoopType' BY DEF LoopType
  <2>8. GreetType' BY DEF GreetType
  <2>9. HistType' BY DEF HistType, Slots
  <2>10. HandlerType' BY DEF HandlerType
  <2> QED BY ONLY <2>1, <2>2, <2>3, <2>4, <2>5, <2>6, <2>7, <2>8, <2>9, <2>10 DEF TypeOK
<1>3. ASSUME NEW c \in Clients, ReaderFrame(c) \/ ReaderStep(c) PROVE TypeOK'
  <2> USE <1>3 DEF ReaderFrame, ReaderStep, ReaderPublish, ReaderGoto, ReaderLogin,
          ReaderReply, ReaderFail, ReaderReturns, ReaderDone, WgDone, ReaderStore, ReaderBroadcast,
          ReaderRLock, RLock, CanRLock, ReadToken, ReaderSendReply, CanPush, Pushed,
          ReaderSendPlugin, RUnlock
  <2>1. HubType' BY DEF HubType
  <2>2. LockType' BY DEF LockType
  <2>3. QueueType' BY DEF QueueType
  <2>4. BcastType' BY DEF BcastType
  <2>5. ChanType' BY DEF ChanType
  <2>6. EndType' BY DEF EndType
  <2>7. LoopType' BY DEF LoopType
  <2>8. GreetType' BY DEF GreetType
  <2>9. HistType' BY HistSet DEF HistType, Slots
  <2>10. HandlerType' BY DEF HandlerType
  <2> QED BY ONLY <2>1, <2>2, <2>3, <2>4, <2>5, <2>6, <2>7, <2>8, <2>9, <2>10 DEF TypeOK
<1>4. ASSUME NEW c \in Clients, WriterStep(c) \/ WriterPingFails(c) PROVE TypeOK'
  <2> USE <1>4 DEF WriterStep, WriterTakeEvents, WriterLoop, WriterExit, Popped, WgDone,
          WriterPush, CanPush, Pushed, WriterWrite, WriterWriteFails, WriterStop,
          WriterPingFails
  <2>1. HubType' BY DEF HubType
  <2>2. LockType' BY DEF LockType
  <2>3. QueueType' BY DEF QueueType
  <2>4. BcastType' BY DEF BcastType
  <2>5. ChanType' BY DEF ChanType
  <2>6. EndType' BY DEF EndType
  <2>7. LoopType' BY DEF LoopType
  <2>8. GreetType' BY DEF GreetType
  <2>9. HistType' BY DEF HistType, Slots
  <2>10. HandlerType' BY DEF HandlerType
  <2> QED BY ONLY <2>1, <2>2, <2>3, <2>4, <2>5, <2>6, <2>7, <2>8, <2>9, <2>10 DEF TypeOK
<1>5. ASSUME NEW c \in Clients, PluginStep(c) PROVE TypeOK'
  <2> USE <1>5 DEF PluginStep, PluginTake, Popped, PluginGoto, PluginStop, PluginFinish,
          PluginResult, PluginEmit, PluginStore
  <2>1. HubType' BY DEF HubType
  <2>2. LockType' BY DEF LockType
  <2>3. QueueType' BY DEF QueueType
  <2>4. BcastType' BY DEF BcastType
  <2>5. ChanType' BY DEF ChanType
  <2>6. EndType' BY DEF EndType
  <2>7. LoopType' BY DEF LoopType
  <2>8. GreetType' BY DEF GreetType
  <2>9. HistType' BY DEF HistType, Slots
  <2>10. HandlerType' BY DEF HandlerType
  <2> QED BY ONLY <2>1, <2>2, <2>3, <2>4, <2>5, <2>6, <2>7, <2>8, <2>9, <2>10 DEF TypeOK
<1>6. ASSUME NEW c \in Clients, UnregStep(c) PROVE TypeOK'
  <2> USE <1>6 DEF UnregStep, UnregCheck, CanRLock, UnregGoto, UnregAnnounce, Announce,
          UnregToken, UnregDelete, WriteLocked, UnregWait, WaitOver, UnregClose, UnregInfo
  <2>1. HubType' BY DEF HubType
  <2>2. LockType' BY DEF LockType
  <2>3. QueueType' BY DEF QueueType
  <2>4. BcastType' BY DEF BcastType
  <2>5. ChanType' BY DEF ChanType
  <2>6. EndType' BY DEF EndType
  <2>7. LoopType' BY DEF LoopType
  <2>8. GreetType' BY DEF GreetType
  <2>9. HistType' BY DEF HistType, Slots
  <2>10. HandlerType' BY DEF HandlerType
  <2> QED BY ONLY <2>1, <2>2, <2>3, <2>4, <2>5, <2>6, <2>7, <2>8, <2>9, <2>10 DEF TypeOK
<1>7. ASSUME NEW c \in Clients, HubClient(c) PROVE TypeOK'
  <2> USE <1>7 DEF HubClient, HubAnnounce, Announce, HubToken, HubAdd, WriteLocked,
          HubDone, WgDone, HubInfo, CanRLock
  <2>1. HubType' BY DEF HubType
  <2>2. LockType' BY DEF LockType
  <2>3. QueueType' BY DEF QueueType
  <2>4. BcastType' BY DEF BcastType
  <2>5. ChanType' BY DEF ChanType
  <2>6. EndType' BY DEF EndType
  <2>7. LoopType' BY DEF LoopType
  <2>8. GreetType' BY DEF GreetType
  <2>9. HistType' BY DEF HistType, Slots
  <2>10. HandlerType' BY DEF HandlerType
  <2> QED BY ONLY <2>1, <2>2, <2>3, <2>4, <2>5, <2>6, <2>7, <2>8, <2>9, <2>10 DEF TypeOK
<1>8. ASSUME NEW c \in Clients, NEW k \in Slots, HistStep(c, k) PROVE TypeOK'
  <2> USE <1>8 DEF HistStep, HistRLock, RLock, CanRLock, HistToken, HistSend, RUnlock,
          CanPush, Pushed
  <2>1. HubType' BY DEF HubType
  <2>2. LockType' BY DEF LockType
  <2>3. QueueType' BY DEF QueueType
  <2>4. BcastType' BY DEF BcastType
  <2>5. ChanType' BY DEF ChanType
  <2>6. EndType' BY DEF EndType
  <2>7. LoopType' BY DEF LoopType
  <2>8. GreetType' BY DEF GreetType
  <2>9. HistType' BY HistSet DEF HistType, Slots
  <2>10. HandlerType' BY DEF HandlerType
  <2> QED BY ONLY <2>1, <2>2, <2>3, <2>4, <2>5, <2>6, <2>7, <2>8, <2>9, <2>10 DEF TypeOK
<1>9. ASSUME NEW b \in Bcasts, BcastStep(b) PROVE TypeOK'
  <2> USE <1>9 DEF BcastStep, BcastRLock, RLock, CanRLock, BcastGoto, BcastToken,
          BcastRUnlock, RUnlock, BcastVisit, BcastSkip, BcastSend, CanPush, Pushed, WgDone
  <2>1. HubType' BY DEF HubType
  <2>2. LockType' BY DEF LockType
  <2>3. QueueType' BY DEF QueueType
  <2>4. BcastType'
    <3>1. CASE BcastRLock(b) \/ BcastRUnlock(b)
      BY <3>1 DEF BcastType, HubType
    <3>2. ASSUME NEW c \in Clients, BcastVisit(b, c) \/ BcastSkip(b, c) PROVE BcastType'
      BY <3>2 DEF BcastType
    <3>3. ASSUME NEW c \in Clients, BcastSend(b, c) PROVE BcastType'
      BY <3>3 DEF BcastType
    <3> QED
      BY <3>1, <3>2, <3>3
  <2>5. ChanType' BY DEF ChanType
  <2>6. EndType' BY DEF EndType
  <2>7. LoopType' BY DEF LoopType
  <2>8. GreetType' BY DEF GreetType
  <2>9. HistType' BY DEF HistType, Slots
  <2>10. HandlerType' BY DEF HandlerType
  <2> QED BY ONLY <2>1, <2>2, <2>3, <2>4, <2>5, <2>6, <2>7, <2>8, <2>9, <2>10 DEF TypeOK
<1>10. ASSUME InfoSend \/ HubBroadcast \/ HubHistory PROVE TypeOK'
  <2> USE <1>10 DEF InfoSend, HubBroadcast, HubIdle, HubHistory
  <2>1. HubType' BY DEF HubType
  <2>2. LockType' BY DEF LockType
  <2>3. QueueType' BY DEF QueueType
  <2>4. BcastType' BY BroadcastStarts DEF BcastType
  <2>5. ChanType' BY DEF ChanType
  <2>6. EndType' BY DEF EndType
  <2>7. LoopType' BY DEF LoopType
  <2>8. GreetType' BY DEF GreetType
  <2>9. HistType' BY DEF HistType, Slots
  <2>10. HandlerType' BY DEF HandlerType
  <2> QED BY ONLY <2>1, <2>2, <2>3, <2>4, <2>5, <2>6, <2>7, <2>8, <2>9, <2>10 DEF TypeOK
<1>11. CASE UNCHANGED vars
  BY <1>11 DEF vars, hubSide, clientSide, HubType, LockType, QueueType, BcastType, ChanType,
      EndType, LoopType, GreetType, HistType, HandlerType
<1> QED
  BY <1>1, <1>2, <1>3, <1>4, <1>5, <1>6, <1>7, <1>8, <1>9, <1>10, <1>11 DEF Next, ClientStep

-----------------------------------------------------------------------------
\* The sends of broadcasts to a client can be counted.
LEMMA SendersCounted ==
  ASSUME NEW d \in Clients
  PROVE  /\ IsFiniteSet(SendingTo(d)) /\ Cardinality(SendingTo(d)) \in Nat
         /\ \A b \in Bcasts : d \in bsend[b] => Cardinality(SendingTo(d)) >= 1
<1>1. IsFiniteSet(SendingTo(d))
  BY FiniteBcasts, FS_Subset DEF SendingTo
<1>2. Cardinality(SendingTo(d)) \in Nat
  BY <1>1, FS_CardinalityType
<1>3. ASSUME NEW b \in Bcasts, d \in bsend[b] PROVE Cardinality(SendingTo(d)) # 0
  BY <1>1, <1>3, FS_EmptySet DEF SendingTo
<1> QED
  BY <1>1, <1>2, <1>3

\* Every goroutine inside a read section holds its token: only the section's end gives it back.
LEMMA LockHeldStep == IInv /\ [Next]_vars => LockHeld'
<1> SUFFICES ASSUME IInv, [Next]_vars PROVE LockHeld'
  OBVIOUS
<1> USE DEF IInv, TypeOK, hubVars, lockVars, queueVars, bcastVars, chanVars, endVars,
            loopVars, helperVars, hubSide, clientSide, LoopType, HistType, BcastType,
                LockType, LockHeld, AtReaderSend, ReadToken, HistToken, BcastToken
<1>1. ASSUME NEW c \in Clients, HandlerStep(c) PROVE LockHeld'
  BY <1>1, SMTT(60) DEF HandlerStep, HandlerStart, HandlerRegister, HubIdle, HandlerServe,
     Serve, WaitOver, HandlerSleep, HandlerCrash, HandlerLeave, HandlerUnregister
<1>2. ASSUME NEW c \in Clients, GreetStep(c) PROVE LockHeld'
  BY <1>2, SMTT(60) DEF GreetStep, GreetBroadcast, GreetPlugin, CanPush, Pushed
<1>3. ASSUME NEW c \in Clients, ReaderFrame(c) \/ ReaderStep(c) PROVE LockHeld'
  BY <1>3, SMTT(60) DEF ReaderFrame, ReaderStep, ReaderPublish, ReaderGoto, ReaderLogin,
     ReaderReply, ReaderFail, ReaderReturns, ReaderDone, WgDone, ReaderStore, ReaderBroadcast,
     ReaderRLock, RLock, CanRLock, ReadToken, ReaderSendReply, CanPush, Pushed,
     ReaderSendPlugin, RUnlock
<1>4. ASSUME NEW c \in Clients, WriterStep(c) \/ WriterPingFails(c) PROVE LockHeld'
  BY <1>4, SMTT(60) DEF WriterStep, WriterTakeEvents, WriterLoop, WriterExit, Popped,
     WgDone, WriterPush, CanPush, Pushed, WriterWrite, WriterWriteFails, WriterStop,
     WriterPingFails
<1>5. ASSUME NEW c \in Clients, PluginStep(c) PROVE LockHeld'
  BY <1>5, SMTT(60) DEF PluginStep, PluginTake, Popped, PluginGoto, PluginStop,
     PluginFinish, PluginResult, PluginEmit, PluginStore
<1>6. ASSUME NEW c \in Clients, UnregStep(c) PROVE LockHeld'
  BY <1>6, SMTT(60) DEF UnregStep, UnregCheck, CanRLock, UnregGoto, UnregAnnounce,
     Announce, UnregToken, UnregDelete, WriteLocked, UnregWait, WaitOver, UnregClose,
     UnregInfo
<1>7. ASSUME NEW c \in Clients, HubClient(c) PROVE LockHeld'
  BY <1>7, SMTT(60) DEF HubClient, HubAnnounce, Announce, HubToken, HubAdd, WriteLocked,
     HubDone, WgDone, HubInfo, CanRLock
<1>8. ASSUME NEW c \in Clients, NEW k \in Slots, HistStep(c, k) PROVE LockHeld'
  BY <1>8, SMTT(60) DEF HistStep, HistRLock, RLock, CanRLock, HistToken, HistSend, RUnlock,
     CanPush, Pushed
<1>9. ASSUME NEW b \in Bcasts, BcastStep(b) PROVE LockHeld'
  <2>1. CASE BcastRLock(b)
    BY <2>1, SMTT(60) DEF BcastRLock, RLock, CanRLock, BcastGoto, BcastToken
  <2>2. CASE BcastRUnlock(b)
    BY <2>2, SMTT(60) DEF BcastRUnlock, RUnlock, BcastGoto, BcastToken
  <2>3. ASSUME NEW c \in Clients, BcastVisit(b, c) PROVE LockHeld'
    BY <2>3, SMTT(60) DEF BcastVisit
  <2>4. ASSUME NEW c \in Clients, BcastSkip(b, c) PROVE LockHeld'
    BY <2>4, SMTT(60) DEF BcastSkip
  <2>5. ASSUME NEW c \in Clients, BcastSend(b, c) PROVE LockHeld'
    BY <2>5, SMTT(60) DEF BcastSend, CanPush, Pushed, WgDone
  <2> QED
    BY ONLY <2>1, <2>2, <2>3, <2>4, <2>5, <1>9 DEF BcastStep
<1>10. ASSUME InfoSend \/ HubBroadcast \/ HubHistory PROVE LockHeld'
  BY <1>10, SMTT(60) DEF InfoSend, HubBroadcast, HubIdle, HubHistory
<1>11. CASE UNCHANGED vars
  BY <1>11 DEF vars, hubSide, clientSide
<1> QED
  BY ONLY <1>1, <1>2, <1>3, <1>4, <1>5, <1>6, <1>7, <1>8, <1>9, <1>10, <1>11, [Next]_vars DEF
          Next, ClientStep

\* Hub.clients loses a client only under the write lock, when nobody holds a token.
LEMMA StillRegisteredStep == IInv /\ [Next]_vars => StillRegistered'
<1> SUFFICES ASSUME IInv, [Next]_vars PROVE StillRegistered'
  OBVIOUS
<1> USE DEF IInv, TypeOK, hubVars, lockVars, queueVars, bcastVars, chanVars, endVars,
            loopVars, helperVars, hubSide, clientSide, HubType, LoopType, HistType,
                BcastType, LockType, LockHeld, StillRegistered, AtReaderSend, AtHistSend,
                    ReadToken, HistToken, BcastToken
<1>1. ASSUME NEW c \in Clients, HandlerStep(c) PROVE StillRegistered'
  BY <1>1, SMTT(60) DEF HandlerStep, HandlerStart, HandlerRegister, HubIdle, HandlerServe,
     Serve, WaitOver, HandlerSleep, HandlerCrash, HandlerLeave, HandlerUnregister
<1>2. ASSUME NEW c \in Clients, GreetStep(c) PROVE StillRegistered'
  BY <1>2, SMTT(60) DEF GreetStep, GreetBroadcast, GreetPlugin, CanPush, Pushed
<1>3. ASSUME NEW c \in Clients, ReaderFrame(c) \/ ReaderStep(c) PROVE StillRegistered'
  BY <1>3, SMTT(60) DEF ReaderFrame, ReaderStep, ReaderPublish, ReaderGoto, ReaderLogin,
     ReaderReply, ReaderFail, ReaderReturns, ReaderDone, WgDone, ReaderStore, ReaderBroadcast,
     ReaderRLock, RLock, CanRLock, ReadToken, ReaderSendReply, CanPush, Pushed,
     ReaderSendPlugin, RUnlock
<1>4. ASSUME NEW c \in Clients, WriterStep(c) \/ WriterPingFails(c) PROVE StillRegistered'
  BY <1>4, SMTT(60) DEF WriterStep, WriterTakeEvents, WriterLoop, WriterExit, Popped,
     WgDone, WriterPush, CanPush, Pushed, WriterWrite, WriterWriteFails, WriterStop,
     WriterPingFails
<1>5. ASSUME NEW c \in Clients, PluginStep(c) PROVE StillRegistered'
  BY <1>5, SMTT(60) DEF PluginStep, PluginTake, Popped, PluginGoto, PluginStop,
     PluginFinish, PluginResult, PluginEmit, PluginStore
<1>6. ASSUME NEW c \in Clients, UnregStep(c) PROVE StillRegistered'
  <2>1. CASE UnregCheck(c)
    BY <2>1, SMTT(60) DEF UnregCheck, CanRLock, UnregGoto
  <2>2. CASE UnregAnnounce(c)
    BY <2>2, SMTT(60) DEF UnregAnnounce, Announce, UnregGoto, UnregToken
  <2>3. CASE UnregDelete(c)
    BY <2>3, SMTT(60) DEF UnregDelete, WriteLocked, UnregGoto, UnregToken
  <2>4. CASE UnregWait(c)
    BY <2>4, SMTT(60) DEF UnregWait, WaitOver, UnregGoto
  <2>5. CASE UnregClose(c)
    BY <2>5, SMTT(60) DEF UnregClose, UnregGoto
  <2>6. CASE UnregInfo(c)
    BY <2>6, SMTT(60) DEF UnregInfo, CanRLock, UnregGoto
  <2> QED
    BY ONLY <2>1, <2>2, <2>3, <2>4, <2>5, <2>6, <1>6 DEF UnregStep
<1>7. ASSUME NEW c \in Clients, HubClient(c) PROVE StillRegistered'
  BY <1>7, SMTT(60) DEF HubClient, HubAnnounce, Announce, HubToken, HubAdd, WriteLocked,
     HubDone, WgDone, HubInfo, CanRLock
<1>8. ASSUME NEW c \in Clients, NEW k \in Slots, HistStep(c, k) PROVE StillRegistered'
  BY <1>8, SMTT(60) DEF HistStep, HistRLock, RLock, CanRLock, HistToken, HistSend, RUnlock,
     CanPush, Pushed
<1>9. ASSUME NEW b \in Bcasts, BcastStep(b) PROVE StillRegistered'
  BY <1>9, SMTT(60) DEF BcastStep, BcastRLock, RLock, CanRLock, BcastGoto, BcastToken,
     BcastRUnlock, RUnlock, BcastVisit, BcastSkip, BcastSend, CanPush, Pushed, WgDone
<1>10. ASSUME InfoSend \/ HubBroadcast \/ HubHistory PROVE StillRegistered'
  BY <1>10, SMTT(60) DEF InfoSend, HubBroadcast, HubIdle, HubHistory
<1>11. CASE UNCHANGED vars
  BY <1>11 DEF vars, hubSide, clientSide
<1> QED
  BY ONLY <1>1, <1>2, <1>3, <1>4, <1>5, <1>6, <1>7, <1>8, <1>9, <1>10, <1>11, [Next]_vars DEF
          Next, ClientStep

\* The hub's Register case and the handler advance in step until the handler serves.
LEMMA BeforeStep == IInv /\ [Next]_vars => \A d \in Clients : BeforeServe(d)'
<1> SUFFICES ASSUME IInv, [Next]_vars PROVE \A d \in Clients : BeforeServe(d)'
  OBVIOUS
<1> USE DEF IInv, TypeOK, hubVars, lockVars, queueVars, bcastVars, chanVars, endVars,
            loopVars, helperVars, hubSide, clientSide, HubType, LoopType, HistType,
                BcastType, HandlerType, EndType, GreetType, Phases, BeforeServe, AfterServe,
                    Early, WaitGroupBalance, StillRegistered, AtHistSend, Latch, Reading,
                        Writing
<1>b. \A d \in Clients : Cardinality(SendingTo(d)) \in Nat
  BY SendersCounted
<1>a. \A b \in Bcasts, d \in Clients :
        d \in bsend[b] => Cardinality(SendingTo(d)) \in Nat /\ Cardinality(SendingTo(d)) >= 1
  BY SendersCounted
<1>1. ASSUME NEW c \in Clients, HandlerStep(c) PROVE \A d \in Clients : BeforeServe(d)'
  <2>1. CASE HandlerStart(c)
    BY <2>1, SMTT(60) DEF HandlerStart
  <2>2. CASE HandlerRegister(c)
    BY <2>2, SMTT(60) DEF HandlerRegister, HubIdle
  <2>3. CASE HandlerServe(c)
    BY <2>3, <1>b, SMTT(60) DEF HandlerServe, Serve, WaitOver
  <2>4. CASE HandlerSleep(c)
    BY <2>4, SMTT(60) DEF HandlerSleep, WaitOver
  <2>5. CASE HandlerCrash(c)
    BY <2>5, SMTT(60) DEF HandlerCrash, WaitOver
  <2>6. CASE HandlerLeave(c)
    BY <2>6, SMTT(60) DEF HandlerLeave
  <2>7. CASE HandlerUnregister(c)
    BY <2>7, SMTT(60) DEF HandlerUnregister, HubIdle
  <2> QED
    BY ONLY <2>1, <2>2, <2>3, <2>4, <2>5, <2>6, <2>7, <1>1 DEF HandlerStep
<1>2. ASSUME NEW c \in Clients, GreetStep(c) PROVE \A d \in Clients : BeforeServe(d)'
  BY <1>2, SMTT(60) DEF GreetStep, GreetBroadcast, GreetPlugin, CanPush, Pushed
<1>3. ASSUME NEW c \in Clients, ReaderFrame(c) \/ ReaderStep(c)
       PROVE \A d \in Clients : BeforeServe(d)'
  BY <1>3, SMTT(60) DEF ReaderFrame, ReaderStep, ReaderPublish, ReaderGoto, ReaderLogin,
     ReaderReply, ReaderFail, ReaderReturns, ReaderDone, WgDone, ReaderStore, ReaderBroadcast,
     ReaderRLock, RLock, CanRLock, ReadToken, ReaderSendReply, CanPush, Pushed,
     ReaderSendPlugin, RUnlock
<1>4. ASSUME NEW c \in Clients, WriterStep(c) \/ WriterPingFails(c)
       PROVE \A d \in Clients : BeforeServe(d)'
  BY <1>4, SMTT(60) DEF WriterStep, WriterTakeEvents, WriterLoop, WriterExit, Popped,
     WgDone, WriterPush, CanPush, Pushed, WriterWrite, WriterWriteFails, WriterStop,
     WriterPingFails
<1>5. ASSUME NEW c \in Clients, PluginStep(c) PROVE \A d \in Clients : BeforeServe(d)'
  BY <1>5, SMTT(60) DEF PluginStep, PluginTake, Popped, PluginGoto, PluginStop,
     PluginFinish, PluginResult, PluginEmit, PluginStore
<1>6. ASSUME NEW c \in Clients, UnregStep(c) PROVE \A d \in Clients : BeforeServe(d)'
  BY <1>6, SMTT(60) DEF UnregStep, UnregCheck, CanRLock, UnregGoto, UnregAnnounce,
     Announce, UnregToken, UnregDelete, WriteLocked, UnregWait, WaitOver, UnregClose,
     UnregInfo
<1>7. ASSUME NEW c \in Clients, HubClient(c) PROVE \A d \in Clients : BeforeServe(d)'
  <2>1. CASE HubAnnounce(c)
    BY <2>1, SMTT(60) DEF HubAnnounce, Announce, HubToken
  <2>2. CASE HubAdd(c)
    BY <2>2, SMTT(60) DEF HubAdd, WriteLocked, HubToken
  <2>3. CASE HubDone(c)
    BY <2>3, SMTT(60) DEF HubDone, WgDone
  <2>4. CASE HubInfo(c)
    BY <2>4, SMTT(60) DEF HubInfo, CanRLock
  <2> QED
    BY ONLY <2>1, <2>2, <2>3, <2>4, <1>7 DEF HubClient
<1>8. ASSUME NEW c \in Clients, NEW k \in Slots, HistStep(c, k)
       PROVE \A d \in Clients : BeforeServe(d)'
  BY <1>8, SMTT(60) DEF HistStep, HistRLock, RLock, CanRLock, HistToken, HistSend, RUnlock,
     CanPush, Pushed
<1>9. ASSUME NEW b \in Bcasts, BcastStep(b) PROVE \A d \in Clients : BeforeServe(d)'
  <2>1. CASE BcastRLock(b)
    BY <2>1, SMTT(60) DEF BcastRLock, RLock, CanRLock, BcastGoto, BcastToken
  <2>2. CASE BcastRUnlock(b)
    BY <2>2, SMTT(60) DEF BcastRUnlock, RUnlock, BcastGoto, BcastToken
  <2>3. ASSUME NEW c \in Clients, BcastVisit(b, c) PROVE \A d \in Clients : BeforeServe(d)'
    BY <2>3, SMTT(60) DEF BcastVisit
  <2>4. ASSUME NEW c \in Clients, BcastSkip(b, c) PROVE \A d \in Clients : BeforeServe(d)'
    BY <2>4, SMTT(60) DEF BcastSkip
  <2>5. ASSUME NEW c \in Clients, BcastSend(b, c) PROVE \A d \in Clients : BeforeServe(d)'
    BY <2>5, <1>a, SMTT(60) DEF BcastSend, CanPush, Pushed, WgDone
  <2> QED
    BY ONLY <2>1, <2>2, <2>3, <2>4, <2>5, <1>9 DEF BcastStep
<1>10. ASSUME InfoSend \/ HubBroadcast \/ HubHistory PROVE \A d \in Clients : BeforeServe(d)'
  BY <1>10, SMTT(60) DEF InfoSend, HubBroadcast, HubIdle, HubHistory
<1>11. CASE UNCHANGED vars
  BY <1>11 DEF vars, hubSide, clientSide
<1> QED
  BY ONLY <1>1, <1>2, <1>3, <1>4, <1>5, <1>6, <1>7, <1>8, <1>9, <1>10, <1>11, [Next]_vars DEF
          Next, ClientStep

\* From the ReadLoop's end over Unregister to the closed channels, nothing restarts.
LEMMA AfterStep == IInv /\ [Next]_vars => \A d \in Clients : AfterServe(d)'
<1> SUFFICES ASSUME IInv, [Next]_vars PROVE \A d \in Clients : AfterServe(d)'
  OBVIOUS
<1> USE DEF IInv, TypeOK, hubVars, lockVars, queueVars, bcastVars, chanVars, endVars,
            loopVars, helperVars, hubSide, clientSide, HubType, LoopType, HistType,
                BcastType, HandlerType, EndType, GreetType, Phases, BeforeServe, AfterServe,
                    Early, WaitGroupBalance, StillRegistered, Latch, Reading, Writing
<1>a. \A d \in Clients : Cardinality(SendingTo(d)) \in Nat
  BY SendersCounted
<1>1. ASSUME NEW c \in Clients, HandlerStep(c) PROVE \A d \in Clients : AfterServe(d)'
  BY <1>1, <1>a, SMTT(60) DEF HandlerStep, HandlerStart, HandlerRegister, HubIdle,
     HandlerServe, Serve, WaitOver, HandlerSleep, HandlerCrash, HandlerLeave,
     HandlerUnregister
<1>2. ASSUME NEW c \in Clients, GreetStep(c) PROVE \A d \in Clients : AfterServe(d)'
  BY <1>2, SMTT(60) DEF GreetStep, GreetBroadcast, GreetPlugin, CanPush, Pushed
<1>3. ASSUME NEW c \in Clients, ReaderFrame(c) \/ ReaderStep(c)
       PROVE \A d \in Clients : AfterServe(d)'
  <2>1. CASE ReaderPublish(c)
    BY <2>1, <1>a, SMTT(60) DEF ReaderPublish, ReaderGoto
  <2>2. CASE ReaderLogin(c)
    BY <2>2, <1>a, SMTT(60) DEF ReaderLogin, ReaderReturns, ReaderGoto
  <2>3. CASE ReaderReply(c)
    BY <2>3, <1>a, SMTT(60) DEF ReaderReply, ReaderGoto
  <2>4. CASE ReaderFail(c)
    BY <2>4, <1>a, SMTT(60) DEF ReaderFail, ReaderReturns, ReaderGoto
  <2>5. CASE ReaderDone(c)
    BY <2>5, <1>a, SMTT(60) DEF ReaderDone, WgDone, ReaderGoto
  <2>6. CASE ReaderStore(c)
    BY <2>6, <1>a, SMTT(60) DEF ReaderStore, ReaderGoto
  <2>7. CASE ReaderBroadcast(c)
    BY <2>7, <1>a, SMTT(60) DEF ReaderBroadcast, ReaderGoto
  <2>8. CASE ReaderRLock(c)
    BY <2>8, <1>a, SMTT(60) DEF ReaderRLock, RLock, CanRLock, ReaderGoto, ReadToken
  <2>9. CASE ReaderSendReply(c)
    BY <2>9, <1>a, SMTT(60) DEF ReaderSendReply, CanPush, Pushed, ReaderGoto
  <2>10. CASE ReaderSendPlugin(c)
    BY <2>10, <1>a, SMTT(60) DEF ReaderSendPlugin, RUnlock, CanPush, Pushed, ReaderGoto,
       ReadToken
  <2> QED
    BY ONLY <2>1, <2>2, <2>3, <2>4, <2>5, <2>6, <2>7, <2>8, <2>9, <2>10, <1>3 DEF
            ReaderFrame, ReaderStep
<1>4. ASSUME NEW c \in Clients, WriterStep(c) \/ WriterPingFails(c)
       PROVE \A d \in Clients : AfterServe(d)'
  <2>1. CASE WriterTakeEvents(c)
    <3>1. UNCHANGED <<reader, greet, unreg, clients, done, closed>>
      BY <2>1 DEF WriterTakeEvents
    <3>2. writer[c] = "select" /\ (WriterLoop(c) \/ (/\ writer' = [writer EXCEPT ![c] = "push"]
                                                     /\ UNCHANGED <<conn, wg, handler>>))
      BY <2>1 DEF WriterTakeEvents
    <3>3. CASE WriterExit(c)
      BY <3>1, <3>2, <3>3, <1>a, SMTT(60) DEF WriterExit, WgDone
    <3>4. CASE UNCHANGED <<conn, wg, handler>>
      BY <3>1, <3>2, <3>4, <1>a, SMTT(60) DEF WriterLoop, WriterExit
    <3> QED
      BY ONLY <3>2, <3>3, <3>4 DEF WriterLoop
  <2>2. CASE WriterPush(c)
    BY <2>2, <1>a, SMTT(60) DEF WriterPush, WriterLoop, WriterExit, CanPush, Pushed, WgDone
  <2>3. CASE WriterWrite(c)
    BY <2>3, <1>a, SMTT(60) DEF WriterWrite, WriterLoop, WriterExit, Popped, WgDone
  <2>4. CASE WriterWriteFails(c)
    BY <2>4, <1>a, SMTT(60) DEF WriterWriteFails, WriterExit, Popped, WgDone
  <2>5. CASE WriterStop(c)
    BY <2>5, <1>a, SMTT(60) DEF WriterStop, WriterExit, WgDone
  <2>6. CASE WriterPingFails(c)
    BY <2>6, <1>a, SMTT(60) DEF WriterPingFails, WriterExit, WgDone
  <2> QED
    BY ONLY <2>1, <2>2, <2>3, <2>4, <2>5, <2>6, <1>4 DEF WriterStep
<1>5. ASSUME NEW c \in Clients, PluginStep(c) PROVE \A d \in Clients : AfterServe(d)'
  BY <1>5, SMTT(60) DEF PluginStep, PluginTake, Popped, PluginGoto, PluginStop,
     PluginFinish, PluginResult, PluginEmit, PluginStore
<1>6. ASSUME NEW c \in Clients, UnregStep(c) PROVE \A d \in Clients : AfterServe(d)'
  <2>1. CASE UnregCheck(c)
    BY <2>1, <1>a, SMTT(60) DEF UnregCheck, CanRLock, UnregGoto
  <2>2. CASE UnregAnnounce(c)
    BY <2>2, <1>a, SMTT(60) DEF UnregAnnounce, Announce, UnregGoto, UnregToken
  <2>3. CASE UnregDelete(c)
    BY <2>3, <1>a, SMTT(60) DEF UnregDelete, WriteLocked, UnregGoto, UnregToken
  <2>4. CASE UnregWait(c)
    BY <2>4, <1>a, SMTT(60) DEF UnregWait, WaitOver, UnregGoto
  <2>5. CASE UnregClose(c)
    BY <2>5, <1>a, SMTT(60) DEF UnregClose, UnregGoto
  <2>6. CASE UnregInfo(c)
    BY <2>6, <1>a, SMTT(60) DEF UnregInfo, CanRLock, UnregGoto
  <2> QED
    BY ONLY <2>1, <2>2, <2>3, <2>4, <2>5, <2>6, <1>6 DEF UnregStep
<1>7. ASSUME NEW c \in Clients, HubClient(c) PROVE \A d \in Clients : AfterServe(d)'
  BY <1>7, SMTT(60) DEF HubClient, HubAnnounce, Announce, HubToken, HubAdd, WriteLocked,
     HubDone, WgDone, HubInfo, CanRLock
<1>8. ASSUME NEW c \in Clients, NEW k \in Slots, HistStep(c, k)
       PROVE \A d \in Clients : AfterServe(d)'
  BY <1>8, SMTT(60) DEF HistStep, HistRLock, RLock, CanRLock, HistToken, HistSend, RUnlock,
     CanPush, Pushed
<1>9. ASSUME NEW b \in Bcasts, BcastStep(b) PROVE \A d \in Clients : AfterServe(d)'
  BY <1>9, SMTT(60) DEF BcastStep, BcastRLock, RLock, CanRLock, BcastGoto, BcastToken,
     BcastRUnlock, RUnlock, BcastVisit, BcastSkip, BcastSend, CanPush, Pushed, WgDone
<1>10. ASSUME InfoSend \/ HubBroadcast \/ HubHistory PROVE \A d \in Clients : AfterServe(d)'
  BY <1>10, SMTT(60) DEF InfoSend, HubBroadcast, HubIdle, HubHistory
<1>11. CASE UNCHANGED vars
  BY <1>11 DEF vars, hubSide, clientSide
<1> QED
  BY ONLY <1>1, <1>2, <1>3, <1>4, <1>5, <1>6, <1>7, <1>8, <1>9, <1>10, <1>11, [Next]_vars DEF
          Next, ClientStep

\* Each Add has its Done, whatever the interleaving.
LEMMA BalanceStep == IInv /\ [Next]_vars => WaitGroupBalance'
<1> SUFFICES ASSUME IInv, [Next]_vars PROVE WaitGroupBalance'
  OBVIOUS
<1> USE DEF IInv, TypeOK, hubVars, lockVars, queueVars, bcastVars, chanVars, endVars,
            loopVars, helperVars, hubSide, clientSide, HubType, LoopType, BcastType,
                HandlerType, Phases, BeforeServe, AfterServe, Early, WaitGroupBalance, Latch,
                    Reading, Writing, LockHeld
<1>a. \A d \in Clients : Cardinality(SendingTo(d)) \in Nat
  BY SendersCounted
<1>b. bsend' = bsend => \A d \in Clients : SendingTo(d)' = SendingTo(d)
  BY DEF SendingTo
<1>1. ASSUME NEW c \in Clients, HandlerStep(c) PROVE WaitGroupBalance'
  <2>1. CASE HandlerStart(c)
    BY <2>1, <1>a, <1>b, SMTT(60) DEF HandlerStart
  <2>2. CASE HandlerRegister(c)
    BY <2>2, <1>a, <1>b, SMTT(60) DEF HandlerRegister, HubIdle
  <2>3. CASE HandlerServe(c)
    BY <2>3, <1>a, <1>b, SMTT(60) DEF HandlerServe, Serve, WaitOver
  <2>4. CASE HandlerSleep(c)
    BY <2>4, <1>a, <1>b, SMTT(60) DEF HandlerSleep, WaitOver
  <2>5. CASE HandlerCrash(c)
    BY <2>5, <1>a, <1>b, SMTT(60) DEF HandlerCrash, WaitOver
  <2>6. CASE HandlerLeave(c)
    BY <2>6, <1>a, <1>b, SMTT(60) DEF HandlerLeave
  <2>7. CASE HandlerUnregister(c)
    BY <2>7, <1>a, <1>b, SMTT(60) DEF HandlerUnregister, HubIdle
  <2> QED
    BY ONLY <2>1, <2>2, <2>3, <2>4, <2>5, <2>6, <2>7, <1>1 DEF HandlerStep
<1>2. ASSUME NEW c \in Clients, GreetStep(c) PROVE WaitGroupBalance'
  BY <1>2, <1>a, <1>b, SMTT(60) DEF GreetStep, GreetBroadcast, GreetPlugin, CanPush, Pushed
<1>3. ASSUME NEW c \in Clients, ReaderFrame(c) \/ ReaderStep(c) PROVE WaitGroupBalance'
  BY <1>3, <1>a, <1>b, SMTT(60) DEF ReaderFrame, ReaderStep, ReaderPublish, ReaderGoto,
     ReaderLogin, ReaderReply, ReaderFail, ReaderReturns, ReaderDone, WgDone, ReaderStore,
     ReaderBroadcast, ReaderRLock, RLock, CanRLock, ReadToken, ReaderSendReply, CanPush,
     Pushed, ReaderSendPlugin, RUnlock
<1>4. ASSUME NEW c \in Clients, WriterStep(c) \/ WriterPingFails(c) PROVE WaitGroupBalance'
  BY <1>4, <1>a, <1>b, SMTT(60) DEF WriterStep, WriterTakeEvents, WriterLoop, WriterExit,
     Popped, WgDone, WriterPush, CanPush, Pushed, WriterWrite, WriterWriteFails,
     WriterStop, WriterPingFails
<1>5. ASSUME NEW c \in Clients, PluginStep(c) PROVE WaitGroupBalance'
  BY <1>5, <1>a, <1>b, SMTT(60) DEF PluginStep, PluginTake, Popped, PluginGoto, PluginStop,
     PluginFinish, PluginResult, PluginEmit, PluginStore
<1>6. ASSUME NEW c \in Clients, UnregStep(c) PROVE WaitGroupBalance'
  BY <1>6, <1>a, <1>b, SMTT(60) DEF UnregStep, UnregCheck, CanRLock, UnregGoto,
     UnregAnnounce, Announce, UnregToken, UnregDelete, WriteLocked, UnregWait, WaitOver,
     UnregClose, UnregInfo
<1>7. ASSUME NEW c \in Clients, HubClient(c) PROVE WaitGroupBalance'
  <2>1. CASE HubAnnounce(c)
    BY <2>1, <1>a, <1>b DEF HubAnnounce
  <2>2. CASE HubAdd(c)
    BY <2>2, <1>a, <1>b DEF HubAdd
  <2>3. CASE HubDone(c)
    <3>1. \A d \in Clients : SendingTo(d)' = SendingTo(d)
      BY <2>3, <1>b DEF HubDone
    <3>2. Latch(c) = 1 /\ Latch(c)' = 0
      BY <2>3 DEF HubDone, WgDone
    <3>3. \A d \in Clients \ {c} : Latch(d)' = Latch(d) /\ Latch(d) \in Int
      BY <2>3 DEF HubDone, WgDone
    <3>4. \A d \in Clients : /\ Reading(d)' = Reading(d) /\ Reading(d) \in Int
                            /\ Writing(d)' = Writing(d) /\ Writing(d) \in Int
      BY <2>3 DEF HubDone
    <3>5. wg' = [wg EXCEPT ![c] = @ - 1]
      BY <2>3 DEF HubDone, WgDone
    <3> HIDE DEF Latch, Reading, Writing, LoopType, BcastType, HubType, Phases, LockHeld
    <3> QED
      BY <1>a, <3>1, <3>2, <3>3, <3>4, <3>5
  <2>4. CASE HubInfo(c)
    BY <2>4, <1>a, <1>b DEF HubInfo
  <2> QED
    BY ONLY <2>1, <2>2, <2>3, <2>4, <1>7 DEF HubClient
<1>8. ASSUME NEW c \in Clients, NEW k \in Slots, HistStep(c, k) PROVE WaitGroupBalance'
  BY <1>8, <1>a, <1>b, SMTT(60) DEF HistStep, HistRLock, RLock, CanRLock, HistToken,
     HistSend, RUnlock, CanPush, Pushed
<1>9. ASSUME NEW b \in Bcasts, BcastStep(b) PROVE WaitGroupBalance'
  <2>1. CASE BcastRLock(b) \/ BcastRUnlock(b)
    BY <2>1, <1>a, <1>b DEF BcastRLock, BcastRUnlock, BcastGoto
  <2>2. ASSUME NEW c \in Clients, BcastVisit(b, c) PROVE WaitGroupBalance'
    <3>1. b \notin SendingTo(c) /\ SendingTo(c)' = SendingTo(c) \cup {b}
      BY <2>2 DEF BcastVisit, SendingTo
    <3>2. Cardinality(SendingTo(c)') = Cardinality(SendingTo(c)) + 1
      BY ONLY <3>1, SendersCounted, FS_CardinalityType, FS_AddElement, c \in Clients
    <3>3. \A d \in Clients \ {c} : SendingTo(d)' = SendingTo(d)
      BY <2>2 DEF BcastVisit, SendingTo
    <3> QED
      BY <2>2, <1>a, <3>2, <3>3 DEF BcastVisit
  <2>3. ASSUME NEW c \in Clients, BcastSkip(b, c) PROVE WaitGroupBalance'
    BY <2>3, <1>a, <1>b DEF BcastSkip
  <2>4. ASSUME NEW c \in Clients, BcastSend(b, c) PROVE WaitGroupBalance'
    <3>1. b \in SendingTo(c) /\ SendingTo(c)' = SendingTo(c) \ {b}
      BY <2>4 DEF BcastSend, SendingTo
    <3>2. Cardinality(SendingTo(c)') = Cardinality(SendingTo(c)) - 1
      BY ONLY <3>1, SendersCounted, FS_CardinalityType, FS_RemoveElement, c \in Clients
    <3>3. \A d \in Clients \ {c} : SendingTo(d)' = SendingTo(d)
      BY <2>4 DEF BcastSend, SendingTo
    <3>4. \A d \in Clients : Latch(d)' = Latch(d) /\ Latch(d) \in Int
      BY <2>4 DEF BcastSend, WgDone
    <3>5. \A d \in Clients : /\ Reading(d)' = Reading(d) /\ Reading(d) \in Int
                            /\ Writing(d)' = Writing(d) /\ Writing(d) \in Int
      BY <2>4 DEF BcastSend
    <3>6. wg' = [wg EXCEPT ![c] = @ - 1]
      BY <2>4 DEF BcastSend, WgDone
    <3> HIDE DEF Latch, Reading, Writing, LoopType, BcastType, HubType, Phases, LockHeld
    <3> QED
      BY <1>a, <3>2, <3>3, <3>4, <3>5, <3>6
  <2> QED
    BY ONLY <2>1, <2>2, <2>3, <2>4, <1>9 DEF BcastStep
<1>10. ASSUME InfoSend \/ HubBroadcast \/ HubHistory PROVE WaitGroupBalance'
  BY <1>10, <1>a, <1>b, SMTT(60) DEF InfoSend, HubBroadcast, HubIdle, HubHistory
<1>11. CASE UNCHANGED vars
  BY <1>11, <1>a, <1>b DEF vars, hubSide, clientSide
<1> QED
  BY ONLY <1>1, <1>2, <1>3, <1>4, <1>5, <1>6, <1>7, <1>8, <1>9, <1>10, <1>11, [Next]_vars DEF
          Next, ClientStep

-----------------------------------------------------------------------------

\* Before any connection the invariant holds.
LEMMA InitIInv == Init => IInv
<1> SUFFICES ASSUME Init PROVE IInv
  OBVIOUS
<1> USE DEF Init
<1>1. TypeOK
  BY CapsArePositive, BoundsAreNat DEF TypeOK, HubType, LockType, QueueType, BcastType,
      ChanType,
     EndType, LoopType, GreetType, HistType, HandlerType
<1>2. LockHeld
  BY DEF LockHeld, AtReaderSend
<1>3. StillRegistered
  BY DEF StillRegistered, AtReaderSend, AtHistSend
<1>4. WaitGroupBalance
  <2>1. \A c \in Clients : SendingTo(c) = {}
    BY DEF SendingTo
  <2>2. \A c \in Clients : Latch(c) = 0 /\ Reading(c) = 0 /\ Writing(c) = 0
    BY DEF Latch, Reading, Writing
  <2>3. \A c \in Clients : Cardinality(SendingTo(c)) = 0
    BY <2>1, FS_EmptySet
  <2>4. \A c \in Clients : wg[c] = 0
    OBVIOUS
  <2> QED
    BY ONLY <2>2, <2>3, <2>4 DEF WaitGroupBalance
<1>5. Phases
  BY DEF Phases, BeforeServe, AfterServe, Early
<1> QED
  BY <1>1, <1>2, <1>3, <1>4, <1>5 DEF IInv

\* Every step of every goroutine preserves the inductive invariant.
LEMMA NextIInv == IInv /\ [Next]_vars => IInv'
<1> SUFFICES ASSUME IInv, [Next]_vars PROVE IInv'
  OBVIOUS
<1>1. Phases'
  BY BeforeStep, AfterStep DEF Phases
<1> QED
  BY <1>1, TypeStep, LockHeldStep, StillRegisteredStep, BalanceStep DEF IInv

\* TypeOK alone is inductive: every variable keeps its type, so no counter of channel
\* elements leaves 0 .. its capacity.
THEOREM TypeCorrect == Spec => []TypeOK
<1>1. Init => TypeOK
  BY InitIInv DEF IInv
<1> QED
  BY <1>1, TypeStep, PTL DEF Spec

\* The inductive invariant holds in every reachable state.
THEOREM Invariance == Spec => []IInv
  BY InitIInv, NextIInv, PTL DEF Spec

\* No goroutine ever stands at a send on a channel that the hub's Unregister case has
\* closed: a client that is still in Hub.clients is not closed, the loops' sends are
\* covered by the WaitGroup, the others by the read lock or by the handler that waits.
THEOREM ChannelsClosedSafely == Spec => []NoSendOnClosed
<1>1. IInv => NoSendOnClosed
  <2> SUFFICES ASSUME IInv, NEW c \in closed PROVE ~AtSend(c)
    BY DEF NoSendOnClosed
  <2> USE DEF IInv
  <2>1. c \in Clients
    BY DEF TypeOK, EndType
  <2>2. /\ c \notin clients /\ writer[c] # "push"
        /\ handler[c] = "gone" /\ greet[c] = {}
    BY <2>1 DEF Phases, AfterServe
  <2>3. ~AtReaderSend(c) /\ ~AtHistSend(c) /\ ~AtBcastSend(c)
    BY <2>1, <2>2 DEF StillRegistered, AtBcastSend
  <2> QED
    BY <2>2, <2>3 DEF AtSend, AtReaderSend
<1> QED
  BY <1>1, Invariance, PTL

\* The WaitGroup counts exactly the latch, the running loops and the broadcasts' sends.
THEOREM WaitGroupCounts == Spec => []WaitGroupBalance
<1>1. IInv => WaitGroupBalance
  BY DEF IInv
<1> QED
  BY <1>1, Invariance, PTL

\* A goroutine that found its client in Hub.clients sends while it is still there.
THEOREM TestNeverStale == Spec => []StillRegistered
<1>1. IInv => StillRegistered
  BY DEF IInv
<1> QED
  BY <1>1, Invariance, PTL

\* A handler serves registered clients only.
THEOREM ServedIsRegistered == Spec => []SessionRegistered
<1>1. IInv => SessionRegistered
  BY DEF IInv, TypeOK, HubType, Phases, BeforeServe, SessionRegistered
<1> QED
  BY <1>1, Invariance, PTL

\* Hub.clients is never written while a goroutine reads it.
THEOREM MapExclusive == Spec => MapWrittenAlone
<1>1. IInv /\ [Next]_vars =>
        [clients' # clients => /\ \A b \in Bcasts : bpc[b] # "visit"
                               /\ \A c \in Clients : ~AtReaderSend(c) /\ ~AtHistSend(c)]_vars
  <2> SUFFICES ASSUME IInv, [Next]_vars, clients' # clients
               PROVE  /\ \A b \in Bcasts : bpc[b] # "visit"
                      /\ \A c \in Clients : ~AtReaderSend(c) /\ ~AtHistSend(c)
    OBVIOUS
  <2>1. rlocks = {}
    <3> USE clients' # clients DEF hubVars, hubSide
    <3>1. ASSUME NEW c \in Clients, HandlerStep(c) PROVE rlocks = {}
      BY <3>1 DEF HandlerStep, HandlerStart, HandlerRegister, HandlerServe, Serve,
         HandlerSleep, HandlerCrash, HandlerLeave, HandlerUnregister
    <3>2. ASSUME NEW c \in Clients, GreetStep(c) PROVE rlocks = {}
      BY <3>2 DEF GreetStep, GreetBroadcast, GreetPlugin
    <3>3. ASSUME NEW c \in Clients, ReaderFrame(c) \/ ReaderStep(c) PROVE rlocks = {}
      BY <3>3 DEF ReaderFrame, ReaderStep, ReaderPublish, ReaderLogin, ReaderReply,
         ReaderFail, ReaderReturns, ReaderDone, ReaderStore, ReaderBroadcast, ReaderRLock,
         ReaderSendReply, ReaderSendPlugin
    <3>4. ASSUME NEW c \in Clients, WriterStep(c) \/ WriterPingFails(c) PROVE rlocks = {}
      BY <3>4 DEF WriterStep, WriterTakeEvents, WriterLoop, WriterExit, WriterPush,
         WriterWrite, WriterWriteFails, WriterStop, WriterPingFails
    <3>5. ASSUME NEW c \in Clients, PluginStep(c) PROVE rlocks = {}
      BY <3>5 DEF PluginStep, PluginTake, PluginStop, PluginFinish, PluginResult,
         PluginEmit, PluginStore
    <3>6. ASSUME NEW c \in Clients, UnregStep(c) PROVE rlocks = {}
      BY <3>6 DEF UnregStep, UnregCheck, UnregAnnounce, UnregDelete, WriteLocked,
         UnregWait, UnregClose, UnregInfo
    <3>7. ASSUME NEW c \in Clients, HubClient(c) PROVE rlocks = {}
      BY <3>7 DEF HubClient, HubAnnounce, HubAdd, WriteLocked, HubDone, HubInfo
    <3>8. ASSUME NEW c \in Clients, NEW k \in Slots, HistStep(c, k) PROVE rlocks = {}
      BY <3>8 DEF HistStep, HistRLock, HistSend
    <3>9. ASSUME NEW b \in Bcasts, BcastStep(b) PROVE rlocks = {}
      BY <3>9 DEF BcastStep, BcastRLock, BcastRUnlock, BcastVisit, BcastSkip, BcastSend
    <3>10. ASSUME InfoSend \/ HubBroadcast \/ HubHistory PROVE rlocks = {}
      BY <3>10 DEF InfoSend, HubBroadcast, HubHistory
    <3>11. CASE UNCHANGED vars
      BY <3>11 DEF vars, hubSide, hubVars
    <3> QED
      BY <3>1, <3>2, <3>3, <3>4, <3>5, <3>6, <3>7, <3>8, <3>9, <3>10, <3>11 DEF Next, ClientStep
  <2> QED
    BY <2>1 DEF IInv, LockHeld, AtHistSend
<1> QED
  BY <1>1, Invariance, PTL DEF Spec, MapWrittenAlone
=============================================================================
