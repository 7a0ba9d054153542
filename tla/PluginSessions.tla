--------------------------- MODULE PluginSessions ---------------------------
(***************************************************************************)
(* How a plugin's process gets to call the server: a goroutine of each hub    *)
(* calls InitEmitEvents again and again (NewHub in ws/hub.go), which opens a  *)
(* server for the plugin and stays in the plugin for as long as that likes    *)
(* (plugins/grpc.go), and the plugin's goroutines call through the functions  *)
(* that HelperFunctionsType holds (plugins/helper.go).  The process may die.  *)
(*                                                                         *)
(* No plugin of the repository uses HelperFunctionsType.  One that does is    *)
(* taken to Set() it when its InitEmitEvents begins, and to Clear() it when   *)
(* that ends; it has one for all rooms, as nothing in it tells rooms apart.   *)
(***************************************************************************)
EXTENDS Naturals, FiniteSets

CONSTANTS
  Rooms,    \* rooms with a hub
  Callers,  \* goroutines of the plugin that use the helper
  Nil

ASSUME SomeRooms == Rooms # {} /\ IsFiniteSet(Rooms) /\ IsFiniteSet(Callers)

VARIABLES
  up,       \* the plugin's process is alive
  host,     \* where a hub's goroutine is
  failed,   \* its InitEmitEvents is to return an error
  plug,     \* where the plugin's InitEmitEvents for a room is
  impl,     \* what the helper holds: functions that call through a room's connection, or nil
  call,     \* where a caller is
  ref       \* the functions that it has read

hostVars == <<host, failed>>
callVars == <<call, ref>>
vars == <<up, hostVars, plug, impl, callVars>>

Conns == [of : Rooms, open : BOOLEAN]
ASSUME NilIsNone == Nil \notin Conns

TypeOK ==
  /\ up \in BOOLEAN
  /\ host \in [Rooms -> {"begin", "accept", "stuck", "calling", "stopping", "waiting"}]
  /\ failed \in [Rooms -> BOOLEAN]
  /\ plug \in [Rooms -> {"none", "setting", "running", "clearing", "leaving"}]
  /\ impl \in Conns \cup {Nil}
  /\ call \in [Callers -> {"idle", "locked", "calling"}]
  /\ ref \in [Callers -> Conns \cup {Nil}]

Init ==
  /\ up = TRUE
  /\ host = [r \in Rooms |-> "begin"] /\ failed = [r \in Rooms |-> FALSE]
  /\ plug = [r \in Rooms |-> "none"] /\ impl = Nil
  /\ call = [k \in Callers |-> "idle"] /\ ref = [k \in Callers |-> Nil]

HostGoes(r, p) == host' = [host EXCEPT ![r] = p]
PlugGoes(r, p) == plug' = [plug EXCEPT ![r] = p]
CallGoes(k, p) == call' = [call EXCEPT ![k] = p]

-----------------------------------------------------------------------------
(* The hub's goroutine. *)

\* NextId, and a goroutine that is to accept the plugin's connection.
InitEmitEvents(r) ==
  /\ host[r] = "begin" /\ HostGoes(r, "accept")
  /\ UNCHANGED <<up, failed, plug, impl, callVars>>

\* The broker calls serverFunc, whose Done() ends the Wait(), ...
Accepted(r) ==
  /\ host[r] = "accept" /\ HostGoes(r, "calling")
  /\ UNCHANGED <<up, failed, plug, impl, callVars>>

\* ... or has no listener for it, or no way to tell the plugin of it, gives up, and never
\* calls it, whether the plugin is alive or not: the Wait() is for ever.
AcceptFails(r) ==
  /\ host[r] = "accept" /\ HostGoes(r, "stuck")
  /\ UNCHANGED <<up, failed, plug, impl, callVars>>

\* The RPC is over, with an error or without: the server is stopped next.
Returned(r, error) == HostGoes(r, "stopping") /\ failed' = [failed EXCEPT ![r] = error]

\* The process dies, or has died, under the RPC.
RPCFails(r) ==
  /\ host[r] = "calling" /\ ~up /\ Returned(r, TRUE)
  /\ UNCHANGED <<up, plug, impl, callVars>>

\* A bug for the properties to notice: only an error makes the hub try again.
AfterErrorOnly(r) == IF failed[r] THEN "waiting" ELSE "ended"

\* Another: the goroutine ends with the first session.
NextTryNever(r) == "ended"

\* After an error the hub waits for a second, after nil it tries at once.
NextTry(r) == IF failed[r] THEN "waiting" ELSE "begin"

\* s.Stop(): what the plugin has of the connection is of no use from then on.
StopServer(r) ==
  /\ host[r] = "stopping" /\ HostGoes(r, NextTry(r))
  /\ UNCHANGED <<up, failed, plug, impl, callVars>>

Waited(r) ==
  /\ host[r] = "waiting" /\ HostGoes(r, "begin")
  /\ UNCHANGED <<up, failed, plug, impl, callVars>>

-----------------------------------------------------------------------------
(* The plugin's side of InitEmitEvents. *)

Fresh(r) == [of |-> r, open |-> TRUE]
Closed(x, r) == IF x = Fresh(r) THEN [x EXCEPT !.open = FALSE] ELSE x

\* A bug for the properties to notice: a call holds the lock until it is answered.
HoldsLockInCall(k) == call[k] \in {"locked", "calling"}

\* RLock ... RUnlock around the reading of a function, and no longer.
HoldsLock(k) == call[k] = "locked"
NoReader     == \A k \in Callers : ~HoldsLock(k)
WriterWaits  == \E r \in Rooms : plug[r] \in {"setting", "clearing"}

\* broker.Dial, and the plugin's own InitEmitEvents begins with Set()'s Lock().
PluginDials(r) ==
  /\ up /\ host[r] = "calling" /\ plug[r] = "none" /\ PlugGoes(r, "setting")
  /\ UNCHANGED <<up, hostVars, impl, callVars>>

DialFails(r) ==
  /\ up /\ host[r] = "calling" /\ plug[r] = "none" /\ Returned(r, TRUE)
  /\ UNCHANGED <<up, plug, impl, callVars>>

\* Set: all functions in one critical section.
Set(r) ==
  /\ plug[r] = "setting" /\ NoReader
  /\ impl' = Fresh(r) /\ PlugGoes(r, "running")
  /\ UNCHANGED <<up, hostVars, callVars>>

\* It need not end, and those of the shipped plugins do not.
PluginEnds(r) ==
  /\ plug[r] = "running" /\ PlugGoes(r, "clearing")
  /\ UNCHANGED <<up, hostVars, impl, callVars>>

\* A bug for the properties to notice.
ClearNothing == UNCHANGED impl

ClearImpl == impl' = Nil

\* Clear: of whichever room's functions are there.
Clear(r) ==
  /\ plug[r] = "clearing" /\ NoReader
  /\ ClearImpl /\ PlugGoes(r, "leaving")
  /\ UNCHANGED <<up, hostVars, callVars>>

\* The deferred conn.Close(), and the answer.  Calls that were under way through it fail.
PluginReturns(r) ==
  /\ plug[r] = "leaving" /\ PlugGoes(r, "none")
  /\ \E error \in BOOLEAN : Returned(r, error)
  /\ ref' = [k \in Callers |-> Closed(ref[k], r)] /\ impl' = Closed(impl, r)
  /\ UNCHANGED <<up, call>>

\* The process is not started again.
Crash ==
  /\ up /\ up' = FALSE
  /\ plug' = [r \in Rooms |-> "none"] /\ impl' = Nil
  /\ call' = [k \in Callers |-> "idle"] /\ ref' = [k \in Callers |-> Nil]
  /\ UNCHANGED hostVars

-----------------------------------------------------------------------------
(* EmitEvents, GetRoom, GetUser, AuthenticateUser, ChangeRoomTags, ChangeUserTags. *)

\* RLock: a writer that waits keeps new readers out.
RLock(k) ==
  /\ up /\ call[k] = "idle" /\ ~WriterWaits /\ CallGoes(k, "locked")
  /\ UNCHANGED <<up, hostVars, plug, impl, ref>>

\* The function is read, and RUnlock; nil is "lost connection".
ReadImpl(k) ==
  /\ call[k] = "locked"
  /\ ref' = [ref EXCEPT ![k] = impl]
  /\ CallGoes(k, IF impl = Nil THEN "idle" ELSE "calling")
  /\ UNCHANGED <<up, hostVars, plug, impl>>

Done(k) == CallGoes(k, "idle") /\ ref' = [ref EXCEPT ![k] = Nil]

\* The hub of the room whose functions were read does what it is asked for, however long that
\* takes, and answers; the plugin may ask for another room's user or room by id.
HubAnswers(k) ==
  /\ call[k] = "calling" /\ ref[k].open /\ Done(k)
  /\ UNCHANGED <<up, hostVars, plug, impl>>

\* Through a connection that was closed meanwhile.
CallFails(k) ==
  /\ call[k] = "calling" /\ ~ref[k].open /\ Done(k)
  /\ UNCHANGED <<up, hostVars, plug, impl>>

-----------------------------------------------------------------------------
HostStep(r)  == InitEmitEvents(r) \/ Accepted(r) \/ StopServer(r) \/ Waited(r)
HelperStep(r) == Set(r) \/ Clear(r)
Next ==
  \/ Crash
  \/ \E r \in Rooms : \/ HostStep(r) \/ AcceptFails(r) \/ RPCFails(r)
                      \/ HelperStep(r) \/ PluginDials(r) \/ DialFails(r) \/ PluginEnds(r) \/ PluginReturns(r)
  \/ \E k \in Callers : RLock(k) \/ ReadImpl(k) \/ HubAnswers(k) \/ CallFails(k)

\* Goroutines that can go on do.  Nothing is asked of the hub's answers, nor that a plugin's
\* InitEmitEvents ever ends.
Fairness ==
  /\ \A r \in Rooms : WF_vars(HostStep(r)) /\ WF_vars(RPCFails(r))
                      /\ WF_vars(Set(r)) /\ WF_vars(Clear(r)) /\ WF_vars(PluginReturns(r))
  /\ \A k \in Callers : WF_vars(ReadImpl(k)) /\ WF_vars(CallFails(k))

Spec == Init /\ [][Next]_vars /\ Fairness

-----------------------------------------------------------------------------
\* Whatever sessions of several rooms begin and end, what the helper holds leads to a hub
\* that serves it: a call fails for a session that ended only if it had read its function before.
HelperServed == impl # Nil => /\ impl.open /\ host[impl.of] = "calling"
                              /\ plug[impl.of] \in {"running", "clearing"}

\* Set() and Clear() get the lock although the hub may never answer the calls under way.
ChangesAnyway ==
  /\ \A r \in Rooms : plug[r] = "setting" ~> plug[r] # "setting"
  /\ \A r \in Rooms : plug[r] = "clearing" ~> plug[r] # "clearing"

\* "If it stops, the main process should call here again", after an error and after nil, and
\* even when the process is dead: it does, unless the next server cannot be opened.
CalledAgain == \A r \in Rooms : host[r] = "stopping" ~> host[r] \in {"calling", "stuck"}
=============================================================================
