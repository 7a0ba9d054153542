----------------------- MODULE PluginSessionsProofs -----------------------
(***************************************************************************)
(* For any rooms and callers: what HelperFunctionsType holds belongs to a    *)
(* session that its hub still serves.                                        *)
(***************************************************************************)
EXTENDS PluginSessions, TLAPS

\* A room's InitEmitEvents runs in the plugin only inside the hub's RPC, and a dead process
\* holds nothing.
Inside ==
  /\ \A r \in Rooms : plug[r] # "none" => host[r] = "calling"
  /\ ~up => impl = Nil /\ \A r \in Rooms : plug[r] = "none"
IInv == TypeOK /\ Inside /\ HelperServed

\* Nobody has called yet.
LEMMA IInvInit == Init => IInv
BY DEF Init, IInv, TypeOK, Inside, HelperServed

\* What the hub's goroutine does, what the plugin's side does, and the calls keep the types.
LEMMA TypeStep == TypeOK /\ [Next]_vars => TypeOK'
<1> SUFFICES ASSUME TypeOK, [Next]_vars PROVE TypeOK' OBVIOUS
<1> USE DEF TypeOK, hostVars, callVars, HostGoes, PlugGoes, CallGoes
<1>1. ASSUME NEW r \in Rooms, HostStep(r) \/ AcceptFails(r) \/ RPCFails(r) PROVE TypeOK'
  BY <1>1 DEF HostStep, InitEmitEvents, Accepted, StopServer, NextTry, Waited, AcceptFails, RPCFails, Returned
<1>2. ASSUME NEW r \in Rooms, HelperStep(r) \/ PluginDials(r) \/ DialFails(r) \/ PluginEnds(r) PROVE TypeOK'
  <2>1. Fresh(r) \in Conns BY DEF Fresh, Conns
  <2> QED BY <1>2, <2>1 DEF HelperStep, Set, Clear, ClearImpl, PluginDials, DialFails, PluginEnds, Returned
<1>3. ASSUME NEW r \in Rooms, PluginReturns(r) PROVE TypeOK'
  <2>1. \A x \in Conns \cup {Nil} : Closed(x, r) \in Conns \cup {Nil}
    <3>1. [Fresh(r) EXCEPT !.open = FALSE] \in Conns BY DEF Fresh, Conns
    <3> QED BY <3>1 DEF Closed
  <2> QED BY <1>3, <2>1 DEF PluginReturns, Returned
<1>4. ASSUME NEW k \in Callers, RLock(k) \/ ReadImpl(k) \/ HubAnswers(k) \/ CallFails(k) PROVE TypeOK'
  BY <1>4 DEF RLock, ReadImpl, HubAnswers, CallFails, Done
<1>5. CASE Crash BY <1>5 DEF Crash
<1>6. CASE UNCHANGED vars BY <1>6 DEF vars
<1> QED BY <1>1, <1>2, <1>3, <1>4, <1>5, <1>6 DEF Next

\* Sessions of other rooms touch neither a room's place nor, but by taking it over, the helper.
LEMMA IInvStep == IInv /\ [Next]_vars => IInv'
<1> SUFFICES ASSUME IInv, [Next]_vars PROVE Inside' /\ HelperServed'
  BY TypeStep DEF IInv
<1> USE NilIsNone DEF IInv, TypeOK, Inside, HelperServed, hostVars, callVars, HostGoes, PlugGoes, CallGoes
<1>1. ASSUME NEW r \in Rooms, HostStep(r) \/ AcceptFails(r) \/ RPCFails(r) PROVE Inside' /\ HelperServed'
  BY <1>1 DEF HostStep, InitEmitEvents, Accepted, StopServer, NextTry, Waited, AcceptFails, RPCFails, Returned, Conns
<1>2. ASSUME NEW r \in Rooms, Set(r) PROVE Inside' /\ HelperServed'
  <2>1. Fresh(r).of = r /\ Fresh(r).open BY DEF Fresh
  <2> QED BY <1>2, <2>1 DEF Set
<1>3. ASSUME NEW r \in Rooms, Clear(r) \/ PluginDials(r) \/ DialFails(r) \/ PluginEnds(r)
      PROVE Inside' /\ HelperServed'
  BY <1>3 DEF Clear, ClearImpl, PluginDials, DialFails, PluginEnds, Returned, Conns
<1>4. ASSUME NEW r \in Rooms, PluginReturns(r) PROVE Inside' /\ HelperServed'
  <2>1. impl # Nil => impl \in Conns /\ impl.of # r BY <1>4 DEF PluginReturns
  <2>2. Fresh(r) \in Conns /\ Fresh(r).of = r BY DEF Fresh, Conns
  <2>3. impl # Fresh(r) BY <2>1, <2>2
  <2>4. impl' = impl BY <1>4, <2>3 DEF PluginReturns, Closed
  <2> QED BY <1>4, <2>1, <2>4 DEF PluginReturns, Returned, Conns
<1>5. ASSUME NEW k \in Callers, RLock(k) \/ ReadImpl(k) \/ HubAnswers(k) \/ CallFails(k)
      PROVE Inside' /\ HelperServed'
  BY <1>5 DEF RLock, ReadImpl, HubAnswers, CallFails, Done
<1>6. CASE Crash BY <1>6 DEF Crash
<1>7. CASE UNCHANGED vars BY <1>7 DEF vars
<1> QED BY <1>1, <1>2, <1>3, <1>4, <1>5, <1>6, <1>7 DEF Next, HelperStep

\* However the sessions of several rooms begin, end and die, HelperFunctionsType never hands out
\* functions that call through a session whose hub has stopped its server.
THEOREM HelperIsServed == Spec => []HelperServed
<1>1. IInv => HelperServed BY DEF IInv
<1> QED BY <1>1, IInvInit, IInvStep, PTL DEF Spec

\* The places of the goroutines and what the helper and the callers hold stay within their types.
THEOREM SessionsTyped == Spec => []TypeOK
<1>1. Init => TypeOK BY IInvInit DEF IInv
<1> QED BY <1>1, TypeStep, PTL DEF Spec
=============================================================================
