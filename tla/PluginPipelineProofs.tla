----------------------- MODULE PluginPipelineProofs -----------------------
(***************************************************************************)
(* For every number of clients, plugins and events: the recursion of         *)
(* handlePlugins ends and never feeds a plugin what came of its own events,  *)
(* every plugin is asked about every other event, and each event reaches the *)
(* history and the clients once, a plugin's answers in their order.  The     *)
(* invariants say, of each event, the one place between its creation and     *)
(* what the hub has done where it is.                                        *)
(***************************************************************************)
EXTENDS PluginPipeline, FiniteSetTheorems, SequenceTheorems, WellFoundedInduction, TLAPS

\* Each call of handlePlugins has in its skip list, beyond what the outermost began with, at
\* least as many plugins as there are calls around it.
Grows(s) == \A i \in 1 .. Len(s) : i + Cardinality(s[1].skip) <= Cardinality(s[i].skip) + 1
SkipGrows == \A t \in Walkers : Grows(stack[t])
DepthInv == WalkTypeOK /\ SkipGrows

\* Clients' events, which no plugin led to, are what comes to a PluginLoop; a cron job walks
\* what cron jobs made, and everybody else has what led to an event in the skip list.
Known(l, batch) == batch \subseteq DOMAIN l
Fresh(l, batch) == Known(l, batch) /\ \A e \in batch : l[e].chain = {}
FreshInChan  == \A c \in Clients : \A i \in 1 .. Len(pluginChan[c]) : Fresh(log, pluginChan[c][i])
FreshInOut   == \A t \in Readers : Fresh(log, out[t].events)
WalkersSend  == \A t \in Walkers : /\ Known(log, out[t].events)
                                   /\ \A i \in 1 .. Len(out[t].to) : out[t].to[i] # "plugin"
Skipped(l, t, f) == /\ Known(l, f.events)
                    /\ \A e \in f.events : IF t \in Jobs THEN l[e].by \in Jobs
                                               ELSE l[e].chain \subseteq f.skip
ChainSkipped == \A t \in Walkers : \A i \in 1 .. Len(stack[t]) : Skipped(log, t, stack[t][i])
FlowInv      == FreshInChan /\ FreshInOut /\ WalkersSend /\ ChainSkipped

\* Only events that exist have been offered, and none to a plugin that led to it.
NoEarlyOffer == \A e \in Events \ DOMAIN log : \A p \in Plugins : offers[e][p] = 0
OfferInv     == NoEarlyOffer /\ NoFeedback

\* What becomes of log l in a step in which t creates n events with a chain.
Grown(l, m, n, t, chain) ==
  /\ DOMAIN l \subseteq DOMAIN m
  /\ \A e \in DOMAIN l : m[e] = l[e]
  /\ \A e \in NewBatch(l, n) : e \in DOMAIN m /\ m[e].chain = chain /\ m[e].by = t

-----------------------------------------------------------------------------
\* NewEvent adds events behind the ones that there are, with the given chain.
LEMMA CreatedLog ==
  ASSUME NEW l \in Seq(Entries), NEW n \in Nat, NEW t \in Threads,
         NEW author \in Plugins \cup Clients,
         NEW chain \in SUBSET Plugins, NEW cause \in SUBSET Events,
         NEW m \in Created(l, n, t, author, chain, cause)
  PROVE  m \in Seq(Entries) /\ Len(m) = Len(l) + n /\ Grown(l, m, n, t, chain)
<1> DEFINE new(k) == [i \in 1 .. n |-> [by |-> t, author |-> author, kind |-> k[i],
                                        chain |-> chain, cause |-> cause]]
<1>1. PICK k \in [1 .. n -> Kinds] : m = l \o new(k)
  BY DEF Created
<1>2. new(k) \in Seq(Entries) /\ Len(new(k)) = n
  <2>1. \A i \in 1 .. n : new(k)[i] \in Entries
    <3> SUFFICES ASSUME NEW i \in 1 .. n PROVE new(k)[i] \in Entries
      OBVIOUS
    <3>1. k[i] \in Kinds
      BY <1>1
    <3> QED
      BY <3>1 DEF Entries
  <2>2. new(k) \in [1 .. n -> Entries]
    BY <2>1
  <2> HIDE DEF new
  <2> QED
    BY <2>2
<1> HIDE DEF new
<1>3. /\ m \in Seq(Entries) /\ Len(m) = Len(l) + n
      /\ \A i \in 1 .. Len(l) + n : m[i] = IF i <= Len(l) THEN l[i] ELSE new(k)[i - Len(l)]
  BY <1>1, <1>2, ConcatProperties, Zenon
<1>4. DOMAIN l = 1 .. Len(l) /\ DOMAIN m = 1 .. Len(l) + n /\ Len(l) \in Nat
  BY <1>3, LenProperties
<1>5. ASSUME NEW e \in NewBatch(l, n)
      PROVE  e \in DOMAIN m /\ m[e].chain = chain /\ m[e].by = t
  <2>1. e \in 1 .. Len(l) + n /\ ~(e <= Len(l)) /\ e - Len(l) \in 1 .. n
    BY <1>4 DEF NewBatch
  <2>2. e \in DOMAIN m /\ m[e] = new(k)[e - Len(l)]
    BY <2>1, <1>3, <1>4
  <2>3. \A i \in 1 .. n : new(k)[i].chain = chain /\ new(k)[i].by = t
    BY DEF new
  <2> QED
    BY <2>1, <2>2, <2>3
<1>6. DOMAIN l \subseteq DOMAIN m /\ \A e \in DOMAIN l : m[e] = l[e]
  BY <1>3, <1>4
<1> QED
  BY <1>3, <1>5, <1>6 DEF Grown

\* Setting the innermost call changes no other, and popping and pushing neither.
LEMMA StackOps ==
  ASSUME NEW s \in Seq(Frames), NEW f \in Frames, s # <<>>
  PROVE  /\ Front(s) \in Seq(Frames) /\ Len(Front(s)) = Len(s) - 1
         /\ \A i \in 1 .. Len(s) - 1 : Front(s)[i] = s[i]
         /\ Last(s) \in Frames /\ Last(s) = s[Len(s)] /\ Len(s) \in Nat \ {0}
         /\ Append(Front(s), f) \in Seq(Frames) /\ Len(Append(Front(s), f)) = Len(s)
         /\ \A i \in 1 .. Len(s) - 1 : Append(Front(s), f)[i] = s[i]
         /\ Append(Front(s), f)[Len(s)] = f
<1>1. Len(s) \in Nat \ {0}
  BY EmptySeq, LenProperties
<1>2. Last(s) = s[Len(s)] /\ Last(s) \in Frames
  BY <1>1, ElementOfSeq DEF Last
<1>3. /\ Front(s) \in Seq(Frames) /\ Len(Front(s)) = Len(s) - 1
      /\ \A i \in 1 .. Len(s) - 1 : Front(s)[i] = s[i]
  <2> DEFINE m == Len(s) - 1
  <2>1. 1 \in Int /\ m \in Nat /\ \A i \in 1 .. m : s[i] \in Frames
    BY <1>1, ElementOfSeq
  <2>2. Front(s) = SubSeq(s, 1, m)
    BY DEF Front
  <2> HIDE DEF m
  <2>3. /\ Front(s) \in Seq(Frames) /\ Len(Front(s)) = IF 1 <= m THEN m - 1 + 1 ELSE 0
        /\ \A i \in 1 .. m - 1 + 1 : Front(s)[i] = s[1 + i - 1]
    BY <2>1, <2>2, SubSeqProperties
  <2>4. Len(Front(s)) = m /\ \A i \in 1 .. m : Front(s)[i] = s[i]
    BY <2>1, <2>3
  <2> QED
    BY <2>3, <2>4 DEF m
<1>4. /\ Append(Front(s), f) \in Seq(Frames) /\ Len(Append(Front(s), f)) = Len(s)
      /\ \A i \in 1 .. Len(s) - 1 : Append(Front(s), f)[i] = Front(s)[i]
      /\ Append(Front(s), f)[Len(s)] = f
  BY <1>1, <1>3, AppendProperties
<1> QED
  BY <1>1, <1>2, <1>3, <1>4
-----------------------------------------------------------------------------
\* What the kinds of goroutines are.
LEMMA ThreadKinds ==
  /\ \A t \in Threads : t.kind = "read" \/ t.kind = "greet" => t \in Readers /\ t.of \in Clients
  /\ \A t \in Walkers : t \in Threads /\ t \notin Readers
  /\ \A t \in Readers : t \in Threads /\ t \notin Walkers /\ t.of \in Clients
  /\ \A t \in Walkers : t.kind = "loop" => t.of \in Clients
  /\ \A t \in Walkers : t.kind \in {"emit", "cron"} => t.of \in Plugins
  /\ \A t \in Walkers : t.kind = "cron" => t.of \in Crons
BY PluginsPublish DEF Threads, Walkers, Readers, Loops, Helpers, Jobs

\* n new events, their names, and a batch of them.
LEMMA NewBatchTyped ==
  ASSUME NEW l \in Seq(Entries), NEW n \in Nat \ {0}, Len(l) + n <= MaxEvents
  PROVE  NewBatch(l, n) \in Batches
<1>1. Len(l) \in Nat /\ n \in Nat \ {0}
  BY LenProperties, LimitsAreNat
<1>2. Len(l) + 1 \in NewBatch(l, n) /\ NewBatch(l, n) \subseteq Events
  BY <1>1, LimitsAreNat DEF NewBatch, Events
<1> QED
  BY <1>1, <1>2 DEF Batches

\* A step that creates n events, from log l to log m.
LEMMA CreateStep ==
  ASSUME NEW l \in Seq(Entries), NEW n \in Nat \ {0}, Len(l) + n <= MaxEvents,
         NEW t \in Threads, NEW author \in Plugins \cup Clients,
         NEW chain \in SUBSET Plugins, NEW cause \in SUBSET Events,
         NEW m \in Created(l, n, t, author, chain, cause)
  PROVE  /\ m \in Seq(Entries) /\ Len(m) <= MaxEvents
         /\ NewBatch(l, n) \in Batches
         /\ Grown(l, m, n, t, chain)
<1>1. n \in Nat
  OBVIOUS
<1>2. NewBatch(l, n) \in Batches
  BY NewBatchTyped
<1>3. m \in Seq(Entries) /\ Len(m) = Len(l) + n /\ Grown(l, m, n, t, chain)
  BY <1>1, CreatedLog
<1> QED
  BY <1>2, <1>3

\* The changes of one goroutine's calls that keep the types and the depth.
LEMMA StackChange ==
  ASSUME DepthInv, NEW t \in Walkers, NEW s \in Seq(Frames),
         Grows(s),
         stack' = [stack EXCEPT ![t] = s]
  PROVE  stack' \in [Walkers -> Seq(Frames)] /\ SkipGrows'
<1>1. stack' \in [Walkers -> Seq(Frames)]
  BY DEF DepthInv, WalkTypeOK
<1>2. \A u \in Walkers : stack'[u] = IF u = t THEN s ELSE stack[u]
  BY DEF DepthInv, WalkTypeOK
<1> QED
  BY <1>1, <1>2 DEF DepthInv, SkipGrows

\* The first call of a walk may have any skip list.
LEMMA FirstCall ==
  ASSUME NEW batch \in Batches, NEW skip \in SUBSET Plugins, NEW publish \in BOOLEAN
  PROVE  LET f == [events |-> batch, todo |-> Plugins, skip |-> skip, publish |-> publish] IN
         /\ f \in Frames /\ <<f>> \in Seq(Frames) /\ Len(<<f>>) = 1 /\ <<f>>[1] = f
         /\ Grows(<<f>>)
<1> DEFINE f == [events |-> batch, todo |-> Plugins, skip |-> skip, publish |-> publish]
<1>1. f \in Frames /\ f.skip = skip
  BY DEF Frames
<1>2. Cardinality(skip) \in Nat
  BY PluginsFinite, FS_Subset, FS_CardinalityType
<1> HIDE DEF f
<1>3. <<f>> \in Seq(Frames) /\ Len(<<f>>) = 1 /\ <<f>>[1] = f
  BY <1>1
<1>4. Grows(<<f>>)
  BY <1>1, <1>2, <1>3 DEF Grows
<1> QED
  BY <1>1, <1>3, <1>4 DEF f

\* The innermost call of a goroutine that walks.
LEMMA TopCall ==
  ASSUME DepthInv, NEW t \in Walkers, Running(t)
  PROVE  /\ stack[t] \in Seq(Frames) /\ stack[t] # <<>>
         /\ Top(t) \in Frames /\ Top(t) = stack[t][Len(stack[t])]
         /\ Len(stack[t]) \in Nat \ {0} /\ Len(stack[t]) \in 1 .. Len(stack[t])
         /\ Len(stack[t]) + Cardinality(stack[t][1].skip) <= Cardinality(Top(t).skip) + 1
<1>1. stack[t] \in Seq(Frames) /\ stack[t] # <<>>
  BY DEF DepthInv, WalkTypeOK, Running
<1>2. Top(t) \in Frames /\ Top(t) = stack[t][Len(stack[t])] /\ Len(stack[t]) \in Nat \ {0}
  BY <1>1, EmptySeq, ElementOfSeq DEF Top, Last
<1> QED
  BY <1>1, <1>2 DEF DepthInv, SkipGrows, Grows

\* Going on to the next plugin leaves every skip list as it is.
LEMMA NextPlugin ==
  ASSUME DepthInv, NEW t \in Walkers, Running(t), NEW p \in Plugins
  PROVE  LET s == SetTop(t, [Top(t) EXCEPT !.todo = AfterVisit(Top(t), p)]) IN
         /\ s \in Seq(Frames) /\ Len(s) = Len(stack[t])
         /\ \A i \in 1 .. Len(s) : /\ s[i].skip = stack[t][i].skip
                                   /\ s[i].events = stack[t][i].events
         /\ Grows(s)
<1> DEFINE f == [Top(t) EXCEPT !.todo = AfterVisit(Top(t), p)]
           s == SetTop(t, f)
<1>1. /\ stack[t] \in Seq(Frames) /\ stack[t] # <<>> /\ Top(t) \in Frames
      /\ Top(t) = stack[t][Len(stack[t])] /\ Len(stack[t]) \in Nat \ {0}
  BY TopCall
<1>2. f \in Frames /\ f.skip = Top(t).skip /\ f.events = Top(t).events
  BY <1>1 DEF Frames, AfterVisit
<1> HIDE DEF f
<1>3. /\ s \in Seq(Frames) /\ Len(s) = Len(stack[t])
      /\ \A i \in 1 .. Len(stack[t]) - 1 : s[i] = stack[t][i]
      /\ s[Len(stack[t])] = f
  BY <1>1, <1>2, StackOps DEF SetTop
<1> HIDE DEF s
<1>4. \A i \in 1 .. Len(s) : s[i].skip = stack[t][i].skip /\ s[i].events = stack[t][i].events
  <2> SUFFICES ASSUME NEW i \in 1 .. Len(s)
               PROVE  s[i].skip = stack[t][i].skip /\ s[i].events = stack[t][i].events
    OBVIOUS
  <2>1. CASE i = Len(stack[t])
    BY <2>1, <1>1, <1>2, <1>3
  <2>2. CASE i \in 1 .. Len(stack[t]) - 1
    BY <2>2, <1>3
  <2> QED
    BY <2>1, <2>2, <1>1, <1>3
<1>5. Grows(s)
  <2>1. Grows(stack[t]) /\ 1 \in 1 .. Len(s)
    BY <1>1, <1>3 DEF DepthInv, SkipGrows
  <2> QED
    BY <1>3, <1>4, <2>1 DEF Grows
<1> QED
  BY <1>3, <1>4, <1>5 DEF s, f

\* The types and the depth, action by action.
LEMMA DepthNext == DepthInv /\ FlowInv /\ [Next]_vars => DepthInv'
<1> SUFFICES ASSUME DepthInv, FlowInv, [Next]_vars PROVE DepthInv'
  OBVIOUS
<1> USE DEF DepthInv
<1>1. ASSUME NEW t \in Readers, Read(t) \/ Greet(t) PROVE DepthInv'
  <2>1. t \in Threads /\ t.of \in Plugins \cup Clients /\ Len(log) + 1 <= MaxEvents
        /\ log \in Seq(Entries) /\ {} \in SUBSET Plugins /\ {} \in SUBSET Events
        /\ 1 \in Nat \ {0}
    BY <1>1, ThreadKinds, LenProperties, LimitsAreNat DEF Read, Greet, WalkTypeOK
  <2>2. log' \in Created(log, 1, t, t.of, {}, {})
    BY <1>1 DEF Read, Greet
  <2>3. log' \in Seq(Entries) /\ Len(log') <= MaxEvents /\ NewBatch(log, 1) \in Batches
    BY <2>1, <2>2, CreateStep
  <2>4. PICK to \in Seq(Places) : out' = [out EXCEPT ![t] = [events |-> NewBatch(log, 1), to |-> to]]
    <3>1. ChatTo \in Seq(Places) /\ <<"plugin">> \in Seq(Places)
          /\ <<"broadcast", "plugin">> \in Seq(Places) /\ <<"plugin", "broadcast">> \in Seq(Places)
      BY DEF ChatTo, Places
    <3> QED
      BY <3>1, <1>1 DEF Read, Greet
  <2>5. out' \in [Threads -> Sends]
    BY <2>1, <2>3, <2>4 DEF WalkTypeOK, Sends
  <2>6. UNCHANGED <<pluginChan, stack, offers, lastName>>
    BY <1>1 DEF Read, Greet
  <2> QED
    BY <2>3, <2>5, <2>6 DEF WalkTypeOK, SkipGrows
<1>2. ASSUME NEW t \in Threads, Send(t) PROVE DepthInv'
  <2>0. out[t] \in [events : Batches, to : Seq(Places)] /\ out[t].to # <<>>
    BY <1>2 DEF Send, WalkTypeOK, Sends, Idle
  <2>1. UNCHANGED <<log, stack, offers, lastName>>
    BY <1>2 DEF Send
  <2>2. out' \in [Threads -> Sends]
    <3>1. [out[t] EXCEPT !.to = Tail(@)] \in Sends
      BY <2>0, HeadTailProperties DEF Sends
    <3>2. Idle \in Sends
      BY DEF Sends
    <3> QED
      BY <1>2, <3>1, <3>2 DEF Send, WalkTypeOK
  <2>3. pluginChan' \in [Clients -> Seq(Batches)]
    <3>1. CASE Head(out[t].to) # "plugin"
      <4>1. Head(out[t].to) \in Places
        BY <2>0, HeadTailProperties
      <4> QED
        BY <1>2, <3>1, <4>1 DEF Send, WalkTypeOK, Places
    <3>2. CASE Head(out[t].to) = "plugin"
      <4>1. pluginChan' = [pluginChan EXCEPT ![t.of] = Append(@, out[t].events)]
        BY <1>2, <3>2 DEF Send
      <4>2. out[t].events \in Batches
        BY <2>0
      <4> QED
        BY <4>1, <4>2, AppendProperties DEF WalkTypeOK
    <3> QED
      BY <3>1, <3>2
  <2> QED
    BY <2>1, <2>2, <2>3 DEF WalkTypeOK, SkipGrows
<1>3. ASSUME NEW t \in Walkers, LoopTake(t) PROVE DepthInv'
  <2>1. t.of \in Clients /\ pluginChan[t.of] \in Seq(Batches) /\ pluginChan[t.of] # <<>>
    BY <1>3, ThreadKinds DEF LoopTake, WalkTypeOK
  <2>2. Head(pluginChan[t.of]) \in Batches /\ Tail(pluginChan[t.of]) \in Seq(Batches)
    BY <2>1, HeadTailProperties
  <2> DEFINE s == <<[events |-> Head(pluginChan[t.of]), todo |-> Plugins,
                     skip |-> {}, publish |-> FALSE]>>
  <2>3. s \in Seq(Frames) /\ Grows(s)
    BY <2>2, FirstCall
  <2>4. stack' = [stack EXCEPT ![t] = s]
    BY <1>3 DEF LoopTake
  <2> HIDE DEF s
  <2>5. stack' \in [Walkers -> Seq(Frames)] /\ SkipGrows'
    BY <2>3, <2>4, StackChange
  <2> QED
    BY <1>3, <2>2, <2>5 DEF LoopTake, WalkTypeOK
<1>4. ASSUME NEW t \in Walkers, EmitEvents(t) PROVE DepthInv'
  <2>1. PICK n \in 1 .. BatchMax :
          /\ Len(log) + n <= MaxEvents
          /\ log' \in Created(log, n, t, t.of, {t.of}, {})
          /\ LET keep == KeepEvents(NewBatch(log, n), log') IN
             stack' = IF keep = {} THEN stack
                      ELSE [stack EXCEPT ![t] = <<Walk(keep, {t.of})>>]
    BY <1>4 DEF EmitEvents
  <2>2. t \in Threads /\ t.of \in Plugins /\ n \in Nat \ {0}
        /\ log \in Seq(Entries) /\ {t.of} \in SUBSET Plugins /\ {} \in SUBSET Events
    BY <1>4, ThreadKinds, LimitsAreNat DEF EmitEvents, WalkTypeOK
  <2>3. log' \in Seq(Entries) /\ Len(log') <= MaxEvents /\ NewBatch(log, n) \in Batches
    BY <2>1, <2>2, CreateStep
  <2> DEFINE keep == KeepEvents(NewBatch(log, n), log')
             s == <<Walk(keep, {t.of})>>
  <2>4. stack' \in [Walkers -> Seq(Frames)] /\ SkipGrows'
    <3>1. CASE keep = {}
      BY <2>1, <3>1 DEF WalkTypeOK, SkipGrows
    <3>2. CASE keep # {}
      <4>1. keep \in Batches
        BY <2>3, <3>2 DEF KeepEvents, Batches
      <4>2. s \in Seq(Frames) /\ Grows(s)
        BY <4>1, <2>2, FirstCall DEF Walk
      <4>3. stack' = [stack EXCEPT ![t] = s]
        BY <2>1, <3>2
      <4> HIDE DEF s
      <4> QED
        BY <4>2, <4>3, StackChange
    <3> QED
      BY <3>1, <3>2
  <2> QED
    BY <1>4, <2>3, <2>4 DEF EmitEvents, WalkTypeOK
<1>5. ASSUME NEW t \in Walkers, CronRuns(t) PROVE DepthInv'
  <2>1. PICK n \in 1 .. BatchMax :
          /\ Len(log) + n <= MaxEvents
          /\ log' \in Created(log, n, t, t.of, {t.of}, {})
          /\ stack' = [stack EXCEPT ![t] = <<Walk(NewBatch(log, n), CronSkips(t.of))>>]
    BY <1>5 DEF CronRuns
  <2>2. t \in Threads /\ t.of \in Plugins /\ n \in Nat \ {0}
        /\ log \in Seq(Entries) /\ {t.of} \in SUBSET Plugins /\ {} \in SUBSET Events
        /\ CronSkips(t.of) \in SUBSET Plugins
    BY <1>5, ThreadKinds, LimitsAreNat DEF CronRuns, WalkTypeOK, CronSkips
  <2>3. log' \in Seq(Entries) /\ Len(log') <= MaxEvents /\ NewBatch(log, n) \in Batches
    BY <2>1, <2>2, CreateStep
  <2> DEFINE s == <<Walk(NewBatch(log, n), CronSkips(t.of))>>
  <2>4. s \in Seq(Frames) /\ Grows(s)
    BY <2>2, <2>3, FirstCall DEF Walk
  <2>5. stack' = [stack EXCEPT ![t] = s]
    BY <2>1
  <2> HIDE DEF s
  <2>6. stack' \in [Walkers -> Seq(Frames)] /\ SkipGrows'
    BY <2>4, <2>5, StackChange
  <2> QED
    BY <1>5, <2>3, <2>6 DEF CronRuns, WalkTypeOK
<1>6. ASSUME NEW t \in Walkers, NEW p \in Plugins, PassOver(t, p) PROVE DepthInv'
  <2> DEFINE s == SetTop(t, [Top(t) EXCEPT !.todo = AfterVisit(Top(t), p)])
  <2>1. Running(t) /\ stack' = [stack EXCEPT ![t] = s]
    BY <1>6 DEF PassOver
  <2>2. s \in Seq(Frames) /\ Grows(s)
    BY <2>1, NextPlugin
  <2> HIDE DEF s
  <2>3. stack' \in [Walkers -> Seq(Frames)] /\ SkipGrows'
    BY <2>1, <2>2, StackChange
  <2> QED
    BY <1>6, <2>3 DEF PassOver, WalkTypeOK
<1>7. ASSUME NEW t \in Walkers, NEW p \in Plugins, Offer(t, p) PROVE DepthInv'
  <2> DEFINE f == Top(t)
             passed == PassEvents(f, p)
             s == SetTop(t, [f EXCEPT !.todo = AfterVisit(f, p)])
             chain == {p} \cup UNION {log[e].chain : e \in passed}
  <2>1. Running(t) /\ p \notin f.skip /\ passed # {}
    BY <1>7 DEF Offer
  <2>2. /\ s \in Seq(Frames) /\ Len(s) = Len(stack[t])
        /\ \A i \in 1 .. Len(s) : s[i].skip = stack[t][i].skip
        /\ Grows(s)
    BY <2>1, NextPlugin
  <2>3. /\ f \in Frames /\ Len(stack[t]) \in Nat \ {0} /\ stack[t] \in Seq(Frames)
        /\ Len(stack[t]) + Cardinality(stack[t][1].skip) <= Cardinality(f.skip) + 1
    BY <2>1, TopCall
  <2>4. offers' \in [Events -> [Plugins -> Nat]]
    BY <1>7 DEF Offer, WalkTypeOK
  <2>5. UNCHANGED <<pluginChan, out, lastName>>
    BY <1>7 DEF Offer
  <2>6. CASE stack' = [stack EXCEPT ![t] = s] /\ UNCHANGED log
    <3> HIDE DEF s
    <3>1. stack' \in [Walkers -> Seq(Frames)] /\ SkipGrows'
      BY <2>2, <2>6, StackChange
    <3> QED
      BY <2>4, <2>5, <2>6, <3>1 DEF WalkTypeOK
  <2>7. ASSUME NEW n \in 1 .. BatchMax, Len(log) + n <= MaxEvents,
               log' \in Created(log, n, t, p, chain, passed),
               stack' = [stack EXCEPT ![t] = Append(s, Walk(NewBatch(log, n), Skips(f, p)))]
        PROVE  DepthInv'
    <3> DEFINE w == Walk(NewBatch(log, n), Skips(f, p))
    <3>1. t \in Threads /\ p \in Plugins \cup Clients /\ n \in Nat \ {0} /\ log \in Seq(Entries)
      BY <2>7, ThreadKinds, LimitsAreNat DEF WalkTypeOK
    <3>2. passed \in SUBSET Events
      BY <2>3 DEF PassEvents, Frames, Batches
    <3>3. chain \in SUBSET Plugins
      <4> SUFFICES ASSUME NEW e \in passed PROVE log[e].chain \subseteq Plugins
        OBVIOUS
      <4>1. Len(stack[t]) \in 1 .. Len(stack[t]) /\ f = stack[t][Len(stack[t])]
        BY <2>1, TopCall
      <4>2. e \in DOMAIN log
        BY <4>1 DEF FlowInv, ChainSkipped, Skipped, Known, PassEvents
      <4>3. log[e] \in Entries
        BY <4>2, LenProperties DEF WalkTypeOK
      <4> QED
        BY <4>3 DEF Entries
    <3> HIDE DEF chain, passed
    <3>4. log' \in Seq(Entries) /\ Len(log') <= MaxEvents /\ NewBatch(log, n) \in Batches
      BY <2>7, <3>1, <3>2, <3>3, CreateStep
    <3>5. f.skip \subseteq Plugins /\ IsFiniteSet(f.skip) /\ Cardinality(f.skip) \in Nat
      BY <2>3, PluginsFinite, FS_Subset, FS_CardinalityType DEF Frames
    <3>6. Cardinality(Skips(f, p)) = Cardinality(f.skip) + 1
      BY <2>1, <3>5, FS_AddElement DEF Skips
    <3>7. w \in Frames /\ w.skip = Skips(f, p)
      BY <3>4, <3>5 DEF Walk, Frames, Skips
    <3> HIDE DEF w, f, s
    <3>8. /\ Append(s, w) \in Seq(Frames) /\ Len(Append(s, w)) = Len(s) + 1
          /\ \A i \in 1 .. Len(s) : Append(s, w)[i] = s[i]
          /\ Append(s, w)[Len(s) + 1] = w
      BY <2>2, <3>7, AppendProperties
    <3>9. Grows(Append(s, w))
      <4>1. Append(s, w)[1] = s[1] /\ s[1].skip = stack[t][1].skip /\ Len(s) \in Nat \ {0}
        BY <2>2, <2>3, <3>8
      <4>2. Cardinality(s[1].skip) \in Nat
        <5>1. s[1] \in Frames
          BY <2>2, <4>1, ElementOfSeq
        <5> QED
          BY <5>1, PluginsFinite, FS_Subset, FS_CardinalityType DEF Frames
      <4> SUFFICES ASSUME NEW i \in 1 .. Len(s) + 1
                   PROVE  i + Cardinality(s[1].skip) <= Cardinality(Append(s, w)[i].skip) + 1
        BY <3>8, <4>1 DEF Grows
      <4>3. CASE i = Len(s) + 1
        BY SMTT(30), <4>1, <4>2, <4>3, <2>2, <2>3, <3>5, <3>6, <3>7, <3>8
      <4>4. CASE i \in 1 .. Len(s)
        BY <4>4, <2>2, <3>8 DEF Grows
      <4> QED
        BY <4>1, <4>3, <4>4
    <3>10. stack' \in [Walkers -> Seq(Frames)] /\ SkipGrows'
      <4>1. stack' = [stack EXCEPT ![t] = Append(s, w)]
        BY <2>7 DEF w
      <4> QED
        BY <4>1, <3>8, <3>9, StackChange
    <3> QED
      BY <2>4, <2>5, <3>4, <3>10 DEF WalkTypeOK
  <2> QED
    BY <1>7, <2>6, <2>7 DEF Offer
<1>8. ASSUME NEW t \in Walkers, Return(t) PROVE DepthInv'
  <2>1. /\ stack[t] \in Seq(Frames) /\ stack[t] # <<>> /\ Top(t) \in Frames
        /\ Len(stack[t]) \in Nat \ {0}
    BY <1>8, TopCall DEF Return
  <2> DEFINE s == Front(stack[t])
  <2>2. /\ s \in Seq(Frames) /\ Len(s) = Len(stack[t]) - 1
        /\ \A i \in 1 .. Len(stack[t]) - 1 : s[i] = stack[t][i]
    BY <2>1, StackOps
  <2>3. stack' = [stack EXCEPT ![t] = s]
    BY <1>8 DEF Return
  <2> HIDE DEF s
  <2>4. Grows(s)
    BY <2>1, <2>2 DEF SkipGrows, Grows
  <2>5. stack' \in [Walkers -> Seq(Frames)] /\ SkipGrows'
    BY <2>2, <2>3, <2>4, StackChange
  <2>6. out' \in [Threads -> Sends]
    <3>1. [events |-> Top(t).events, to |-> HandleEventsTo] \in Sends
      BY <2>1 DEF Sends, Frames, HandleEventsTo, Places
    <3> QED
      BY <1>8, <3>1 DEF Return, WalkTypeOK
  <2> QED
    BY <1>8, <2>5, <2>6 DEF Return, WalkTypeOK
<1>9. CASE HubBroadcast \/ HubHistory
  BY <1>9 DEF HubBroadcast, HubHistory, WalkTypeOK, SkipGrows
<1>10. CASE UNCHANGED vars
  BY <1>10 DEF vars, WalkTypeOK, SkipGrows
<1> QED
  BY <1>1, <1>2, <1>3, <1>4, <1>5, <1>6, <1>7, <1>8, <1>9, <1>10 DEF Next

-----------------------------------------------------------------------------
\* A ReadLoop's event and a greeting come of no plugin.
LEMMA ReadCreates ==
  ASSUME DepthInv, NEW t \in Readers, Read(t) \/ Greet(t)
  PROVE  /\ Grown(log, log', 1, t, {})
         /\ \E to : out' = [out EXCEPT ![t] = [events |-> NewBatch(log, 1), to |-> to]]
<1>1. t \in Threads /\ t.of \in Plugins \cup Clients /\ Len(log) + 1 <= MaxEvents
      /\ log \in Seq(Entries) /\ {} \in SUBSET Plugins /\ {} \in SUBSET Events /\ 1 \in Nat \ {0}
  BY ThreadKinds, LenProperties, LimitsAreNat DEF Read, Greet, DepthInv, WalkTypeOK
<1>2. log' \in Created(log, 1, t, t.of, {}, {})
  BY DEF Read, Greet
<1>3. Grown(log, log', 1, t, {})
  BY <1>1, <1>2, CreateStep
<1> QED
  BY <1>3 DEF Read, Greet

\* What a plugin emits and what its cron job returns comes of that plugin.
LEMMA PluginCreates ==
  ASSUME DepthInv, NEW t \in Walkers, EmitEvents(t) \/ CronRuns(t)
  PROVE  \E n \in 1 .. BatchMax :
           /\ Grown(log, log', n, t, {t.of})
           /\ CronRuns(t) => stack' = [stack EXCEPT ![t] = <<Walk(NewBatch(log, n), CronSkips(t.of))>>]
           /\ EmitEvents(t) => \/ stack' = stack
                               \/ stack' = [stack EXCEPT ![t] =
                                     <<Walk(KeepEvents(NewBatch(log, n), log'), {t.of})>>]
<1>1. PICK n \in 1 .. BatchMax :
        /\ Len(log) + n <= MaxEvents
        /\ log' \in Created(log, n, t, t.of, {t.of}, {})
        /\ CronRuns(t) => stack' = [stack EXCEPT ![t] = <<Walk(NewBatch(log, n), CronSkips(t.of))>>]
        /\ EmitEvents(t) => \/ stack' = stack
                            \/ stack' = [stack EXCEPT ![t] =
                                  <<Walk(KeepEvents(NewBatch(log, n), log'), {t.of})>>]
  <2>1. CASE EmitEvents(t)
    <3>1. t.kind # "cron"
      BY <2>1 DEF EmitEvents
    <3> QED
      BY <2>1, <3>1 DEF EmitEvents, CronRuns
  <2>2. CASE CronRuns(t)
    <3>1. t.kind # "emit"
      BY <2>2 DEF CronRuns
    <3> QED
      BY <2>2, <3>1 DEF EmitEvents, CronRuns
  <2> QED
    BY <2>1, <2>2
<1>2. t \in Threads /\ t.of \in Plugins \cup Clients /\ n \in Nat \ {0}
      /\ log \in Seq(Entries) /\ {t.of} \in SUBSET Plugins /\ {} \in SUBSET Events
  BY ThreadKinds, LimitsAreNat DEF EmitEvents, CronRuns, DepthInv, WalkTypeOK
<1>3. Grown(log, log', n, t, {t.of})
  BY <1>1, <1>2, CreateStep
<1> QED
  BY <1>1, <1>3

\* What a plugin answers comes of that plugin and of all that its question comes of.
LEMMA AnswerCreates ==
  ASSUME DepthInv, FlowInv, NEW t \in Walkers, NEW p \in Plugins, Offer(t, p)
  PROVE  LET passed == PassEvents(Top(t), p)
             chain  == {p} \cup UNION {log[e].chain : e \in passed}
             after  == SetTop(t, [Top(t) EXCEPT !.todo = AfterVisit(Top(t), p)]) IN
         \/ log' = log /\ stack' = [stack EXCEPT ![t] = after]
         \/ \E n \in 1 .. BatchMax :
              /\ Grown(log, log', n, t, chain)
              /\ stack' = [stack EXCEPT ![t] = Append(after, Walk(NewBatch(log, n), Skips(Top(t), p)))]
<1> DEFINE passed == PassEvents(Top(t), p)
           chain == {p} \cup UNION {log[e].chain : e \in passed}
           after == SetTop(t, [Top(t) EXCEPT !.todo = AfterVisit(Top(t), p)])
<1>1. Running(t)
  BY DEF Offer
<1>2. /\ Top(t) \in Frames /\ Len(stack[t]) \in 1 .. Len(stack[t])
      /\ Top(t) = stack[t][Len(stack[t])]
  BY <1>1, TopCall
<1>3. passed \in SUBSET Events
  BY <1>2 DEF PassEvents, Frames, Batches
<1>4. chain \in SUBSET Plugins
  <2> SUFFICES ASSUME NEW e \in passed PROVE log[e].chain \subseteq Plugins
    OBVIOUS
  <2>1. e \in DOMAIN log
    BY <1>2 DEF FlowInv, ChainSkipped, Skipped, Known, PassEvents
  <2>2. log[e] \in Entries
    BY <2>1, LenProperties DEF DepthInv, WalkTypeOK
  <2> QED
    BY <2>2 DEF Entries
<1>5. t \in Threads /\ p \in Plugins \cup Clients /\ log \in Seq(Entries)
  BY ThreadKinds DEF DepthInv, WalkTypeOK
<1>6. ASSUME NEW n \in 1 .. BatchMax, Len(log) + n <= MaxEvents,
             log' \in Created(log, n, t, p, chain, passed)
      PROVE  Grown(log, log', n, t, chain)
  <2>1. n \in Nat \ {0}
    BY LimitsAreNat
  <2> HIDE DEF chain, passed
  <2> QED
    BY <1>3, <1>4, <1>5, <1>6, <2>1, CreateStep
<1> QED
  BY <1>6 DEF Offer

\* The log only grows.
LEMMA LogGrows ==
  ASSUME DepthInv, FlowInv, [Next]_vars
  PROVE  DOMAIN log \subseteq DOMAIN log' /\ \A e \in DOMAIN log : log'[e] = log[e]
<1>1. CASE \E t \in Readers : Read(t) \/ Greet(t)
  BY <1>1, ReadCreates DEF Grown
<1>2. CASE \E t \in Walkers : EmitEvents(t) \/ CronRuns(t)
  BY <1>2, PluginCreates DEF Grown
<1>3. CASE \E t \in Walkers, p \in Plugins : Offer(t, p)
  BY <1>3, AnswerCreates DEF Grown
<1>4. CASE UNCHANGED log
  BY <1>4
<1> QED
  BY <1>1, <1>2, <1>3, <1>4
     DEF Next, vars, Send, LoopTake, Return, PassOver, HubBroadcast, HubHistory

\* Batches keep what they are when the log grows.
LEMMA KnownStays ==
  ASSUME NEW l, NEW m, DOMAIN l \subseteq DOMAIN m, \A e \in DOMAIN l : m[e] = l[e]
  PROVE  /\ \A batch : Known(l, batch) => Known(m, batch)
         /\ \A batch : Fresh(l, batch) => Fresh(m, batch)
         /\ \A t, f : Skipped(l, t, f) => Skipped(m, t, f)
BY DEF Known, Fresh, Skipped

\* Where batches come from and go to, action by action.
LEMMA FlowNext == DepthInv /\ FlowInv /\ [Next]_vars => FlowInv'
<1> SUFFICES ASSUME DepthInv, FlowInv, [Next]_vars PROVE FlowInv'
  OBVIOUS
<1>a. /\ \A batch : Known(log, batch) => Known(log', batch)
      /\ \A batch : Fresh(log, batch) => Fresh(log', batch)
      /\ \A t, f : Skipped(log, t, f) => Skipped(log', t, f)
  <2>1. DOMAIN log \subseteq DOMAIN log' /\ \A e \in DOMAIN log : log'[e] = log[e]
    BY LogGrows
  <2> QED
    BY <2>1, KnownStays
<1>b. pluginChan' = pluginChan => FreshInChan'
  BY <1>a DEF FlowInv, FreshInChan
<1>c. out' = out => FreshInOut' /\ WalkersSend'
  BY <1>a DEF FlowInv, FreshInOut, WalkersSend
<1>d. stack' = stack => ChainSkipped'
  BY <1>a DEF FlowInv, ChainSkipped
<1>e. ASSUME NEW t \in Walkers, NEW s, stack' = [stack EXCEPT ![t] = s],
             \A i \in 1 .. Len(s) : Skipped(log', t, s[i])
      PROVE  ChainSkipped'
  <2>1. \A u \in Walkers : stack'[u] = IF u = t THEN s ELSE stack[u]
    BY <1>e DEF DepthInv, WalkTypeOK
  <2> QED
    BY <1>a, <1>e, <2>1 DEF FlowInv, ChainSkipped
<1>1. ASSUME NEW t \in Readers, Read(t) \/ Greet(t) PROVE FlowInv'
  <2>1. PICK to : out' = [out EXCEPT ![t] = [events |-> NewBatch(log, 1), to |-> to]]
    BY <1>1, ReadCreates
  <2>2. Fresh(log', NewBatch(log, 1))
    BY <1>1, ReadCreates DEF Grown, Fresh, Known
  <2>3. /\ t \in Threads /\ t \notin Walkers
        /\ \A u \in Walkers \cup Readers : u \in Threads
    BY ThreadKinds
  <2>4. /\ out'[t] = [events |-> NewBatch(log, 1), to |-> to]
        /\ \A u \in Threads : u # t => out'[u] = out[u]
    BY <2>1, <2>3 DEF DepthInv, WalkTypeOK
  <2>5. FreshInOut'
    <3> SUFFICES ASSUME NEW u \in Readers PROVE Fresh(log', out'[u].events)
      BY DEF FreshInOut
    <3>1. CASE u = t
      <4>1. out'[u].events = NewBatch(log, 1)
        BY <2>3, <2>4, <3>1
      <4> QED
        BY <2>2, <4>1
    <3>2. CASE u # t
      <4>1. out'[u] = out[u]
        BY <2>3, <2>4, <3>2
      <4>2. Fresh(log, out[u].events)
        BY DEF FlowInv, FreshInOut
      <4> QED
        BY <1>a, <4>1, <4>2
    <3> QED
      BY <3>1, <3>2
  <2>6. WalkersSend'
    BY <1>a, <2>3, <2>4 DEF FlowInv, WalkersSend
  <2>7. pluginChan' = pluginChan /\ stack' = stack
    BY <1>1 DEF Read, Greet
  <2> QED
    BY <1>b, <1>d, <2>5, <2>6, <2>7 DEF FlowInv
<1>2. ASSUME NEW t \in Threads, Send(t) PROVE FlowInv'
  <2>1. stack' = stack /\ log' = log
    BY <1>2 DEF Send
  <2>2. out[t] \in [events : Batches, to : Seq(Places)] /\ out[t].to # <<>>
    BY <1>2 DEF Send, DepthInv, WalkTypeOK, Sends, Idle
  <2>3. out'[t].events \subseteq out[t].events
        /\ \A i \in 1 .. Len(out'[t].to) : out'[t].to[i] = out[t].to[i + 1] /\ i + 1 \in 1 .. Len(out[t].to)
    <3>1. CASE out'[t] = Idle
      BY <3>1 DEF Idle
    <3>2. CASE out'[t] = [out[t] EXCEPT !.to = Tail(@)]
      <4>1. out'[t].events = out[t].events /\ out'[t].to = Tail(out[t].to)
        BY <2>2, <3>2
      <4> QED
        BY <2>2, <4>1, HeadTailProperties
    <3> QED
      BY <1>2, <3>1, <3>2 DEF Send, DepthInv, WalkTypeOK
  <2>4. \A u \in Threads : u # t => out'[u] = out[u]
    BY <1>2 DEF Send, DepthInv, WalkTypeOK
  <2>5. FreshInOut'
    <3> SUFFICES ASSUME NEW u \in Readers PROVE Fresh(log', out'[u].events)
      BY DEF FreshInOut
    <3>1. Fresh(log, out[u].events) /\ out'[u].events \subseteq out[u].events
      BY <2>3, <2>4, ThreadKinds DEF FlowInv, FreshInOut
    <3> QED
      BY <2>1, <3>1 DEF Fresh, Known
  <2>6. WalkersSend'
    <3> SUFFICES ASSUME NEW u \in Walkers
                 PROVE  /\ Known(log', out'[u].events)
                        /\ \A i \in 1 .. Len(out'[u].to) : out'[u].to[i] # "plugin"
      BY DEF WalkersSend
    <3>1. u \in Threads /\ Known(log, out[u].events) /\ out'[u].events \subseteq out[u].events
      BY <2>3, <2>4, ThreadKinds DEF FlowInv, WalkersSend
    <3>2. \A i \in 1 .. Len(out'[u].to) : out'[u].to[i] # "plugin"
      BY <2>3, <2>4, <3>1 DEF FlowInv, WalkersSend
    <3> QED
      BY <2>1, <3>1, <3>2 DEF Known
  <2>7. FreshInChan'
    <3>1. CASE Head(out[t].to) # "plugin"
      <4>1. Head(out[t].to) \in Places
        BY <2>2, HeadTailProperties
      <4> QED
        BY <1>2, <1>b, <3>1, <4>1 DEF Send, Places
    <3>2. CASE Head(out[t].to) = "plugin"
      <4>1. pluginChan' = [pluginChan EXCEPT ![t.of] = Append(@, out[t].events)]
        BY <1>2, <3>2 DEF Send
      <4>2. 1 \in 1 .. Len(out[t].to) /\ out[t].to[1] = "plugin"
        BY <2>2, <3>2, EmptySeq, HeadTailProperties
      <4>3. t \in Readers
        BY <4>2 DEF FlowInv, WalkersSend, Threads
      <4>4. Fresh(log', out[t].events)
        BY <1>a, <4>3 DEF FlowInv, FreshInOut
      <4> SUFFICES ASSUME NEW c \in Clients, NEW i \in 1 .. Len(pluginChan'[c])
                   PROVE  Fresh(log', pluginChan'[c][i])
        BY DEF FreshInChan
      <4>5. pluginChan[c] \in Seq(Batches) /\ out[t].events \in Batches
        BY <2>2 DEF DepthInv, WalkTypeOK
      <4>6. CASE c = t.of
        <5>1. pluginChan'[c] = Append(pluginChan[c], out[t].events)
          BY <4>1, <4>6 DEF DepthInv, WalkTypeOK
        <5>2. CASE i \in 1 .. Len(pluginChan[c])
          BY <1>a, <4>5, <5>1, <5>2, AppendProperties DEF FlowInv, FreshInChan
        <5>3. CASE i = Len(pluginChan[c]) + 1
          BY <4>4, <4>5, <5>1, <5>3, AppendProperties
        <5>4. i \in 1 .. Len(pluginChan[c]) + 1 /\ Len(pluginChan[c]) \in Nat
          BY <4>5, <5>1, AppendProperties, LenProperties
        <5> QED
          BY <5>2, <5>3, <5>4
      <4>7. CASE c # t.of
        BY <1>a, <4>1, <4>7 DEF FlowInv, FreshInChan, DepthInv, WalkTypeOK
      <4> QED
        BY <4>6, <4>7
    <3> QED
      BY <3>1, <3>2
  <2> QED
    BY <1>d, <2>1, <2>5, <2>6, <2>7 DEF FlowInv
<1>3. ASSUME NEW t \in Walkers, LoopTake(t) PROVE FlowInv'
  <2>1. t.of \in Clients /\ pluginChan[t.of] \in Seq(Batches) /\ pluginChan[t.of] # <<>>
    BY <1>3, ThreadKinds DEF LoopTake, DepthInv, WalkTypeOK
  <2> DEFINE f == [events |-> Head(pluginChan[t.of]), todo |-> Plugins,
                   skip |-> {}, publish |-> FALSE]
  <2>2. stack' = [stack EXCEPT ![t] = <<f>>] /\ log' = log /\ out' = out
        /\ pluginChan' = [pluginChan EXCEPT ![t.of] = Tail(@)]
    BY <1>3 DEF LoopTake
  <2>3. Fresh(log, Head(pluginChan[t.of]))
    BY <2>1, HeadTailProperties, EmptySeq DEF FlowInv, FreshInChan
  <2>4. Skipped(log', t, f)
    BY <1>3, <2>2, <2>3 DEF LoopTake, Jobs, Fresh, Skipped
  <2> HIDE DEF f
  <2>5. ChainSkipped'
    <3>1. \A i \in 1 .. Len(<<f>>) : Skipped(log', t, <<f>>[i])
      BY <2>4
    <3> QED
      BY <1>e, <2>2, <3>1
  <2>6. FreshInChan'
    <3> SUFFICES ASSUME NEW c \in Clients, NEW i \in 1 .. Len(pluginChan'[c])
                 PROVE  Fresh(log', pluginChan'[c][i])
      BY DEF FreshInChan
    <3>1. CASE c = t.of
      <4>1. pluginChan'[c] = Tail(pluginChan[c])
        BY <2>2, <3>1 DEF DepthInv, WalkTypeOK
      <4>2. i + 1 \in 1 .. Len(pluginChan[c]) /\ pluginChan'[c][i] = pluginChan[c][i + 1]
        BY <2>1, <3>1, <4>1, HeadTailProperties
      <4> QED
        BY <2>2, <4>2 DEF FlowInv, FreshInChan
    <3>2. CASE c # t.of
      BY <2>2, <3>2 DEF FlowInv, FreshInChan, DepthInv, WalkTypeOK
    <3> QED
      BY <3>1, <3>2
  <2> QED
    BY <1>c, <2>2, <2>5, <2>6 DEF FlowInv
<1>4. ASSUME NEW t \in Walkers, EmitEvents(t) PROVE FlowInv'
  <2>1. PICK n \in 1 .. BatchMax :
          /\ Grown(log, log', n, t, {t.of})
          /\ \/ stack' = stack
             \/ stack' = [stack EXCEPT ![t] = <<Walk(KeepEvents(NewBatch(log, n), log'), {t.of})>>]
    BY <1>4, PluginCreates
  <2>2. pluginChan' = pluginChan /\ out' = out
    BY <1>4 DEF EmitEvents
  <2> DEFINE f == Walk(KeepEvents(NewBatch(log, n), log'), {t.of})
  <2>3. Skipped(log', t, f)
    BY <1>4, <2>1 DEF EmitEvents, Jobs, Grown, Skipped, Known, Walk, KeepEvents
  <2> HIDE DEF f
  <2>4. ChainSkipped'
    <3>1. \A i \in 1 .. Len(<<f>>) : Skipped(log', t, <<f>>[i])
      BY <2>3
    <3>2. stack' = stack \/ stack' = [stack EXCEPT ![t] = <<f>>]
      BY <2>1 DEF f
    <3> QED
      BY <1>d, <1>e, <3>1, <3>2
  <2> QED
    BY <1>b, <1>c, <2>2, <2>4 DEF FlowInv
<1>5. ASSUME NEW t \in Walkers, CronRuns(t) PROVE FlowInv'
  <2>1. PICK n \in 1 .. BatchMax :
          /\ Grown(log, log', n, t, {t.of})
          /\ stack' = [stack EXCEPT ![t] = <<Walk(NewBatch(log, n), CronSkips(t.of))>>]
    BY <1>5, PluginCreates
  <2>2. pluginChan' = pluginChan /\ out' = out
    BY <1>5 DEF CronRuns
  <2>3. t \in Jobs
    BY <1>5 DEF CronRuns, Walkers, Loops, Helpers
  <2> DEFINE f == Walk(NewBatch(log, n), CronSkips(t.of))
  <2>4. Skipped(log', t, f)
    BY <2>1, <2>3 DEF Grown, Skipped, Known, Walk
  <2> HIDE DEF f
  <2>5. ChainSkipped'
    <3>1. \A i \in 1 .. Len(<<f>>) : Skipped(log', t, <<f>>[i])
      BY <2>4
    <3>2. stack' = [stack EXCEPT ![t] = <<f>>]
      BY <2>1 DEF f
    <3> QED
      BY <1>e, <3>1, <3>2
  <2> QED
    BY <1>b, <1>c, <2>2, <2>5 DEF FlowInv
<1>f. ASSUME NEW t \in Walkers, NEW p \in Plugins, Running(t)
      PROVE  LET s == SetTop(t, [Top(t) EXCEPT !.todo = AfterVisit(Top(t), p)]) IN
             s \in Seq(Frames) /\ \A i \in 1 .. Len(s) : Skipped(log', t, s[i])
  <2> DEFINE s == SetTop(t, [Top(t) EXCEPT !.todo = AfterVisit(Top(t), p)])
  <2>1. /\ s \in Seq(Frames) /\ Len(s) = Len(stack[t])
        /\ \A i \in 1 .. Len(s) : /\ s[i].skip = stack[t][i].skip
                                  /\ s[i].events = stack[t][i].events
    BY <1>f, NextPlugin
  <2> HIDE DEF s
  <2>2. \A i \in 1 .. Len(s) : Skipped(log, t, s[i])
    BY <2>1 DEF FlowInv, ChainSkipped, Skipped
  <2>3. s \in Seq(Frames) /\ \A i \in 1 .. Len(s) : Skipped(log', t, s[i])
    BY <1>a, <2>1, <2>2
  <2> QED
    BY <2>3 DEF s
<1>6. ASSUME NEW t \in Walkers, NEW p \in Plugins, PassOver(t, p) PROVE FlowInv'
  <2> DEFINE s == SetTop(t, [Top(t) EXCEPT !.todo = AfterVisit(Top(t), p)])
  <2>1. Running(t) /\ stack' = [stack EXCEPT ![t] = s] /\ pluginChan' = pluginChan /\ out' = out
    BY <1>6 DEF PassOver
  <2>2. \A i \in 1 .. Len(s) : Skipped(log', t, s[i])
    BY <1>f, <2>1
  <2> HIDE DEF s
  <2>3. ChainSkipped'
    BY <1>e, <2>1, <2>2
  <2> QED
    BY <1>b, <1>c, <2>1, <2>3 DEF FlowInv
<1>7. ASSUME NEW t \in Walkers, NEW p \in Plugins, Offer(t, p) PROVE FlowInv'
  <2> DEFINE passed == PassEvents(Top(t), p)
             chain == {p} \cup UNION {log[e].chain : e \in passed}
             s == SetTop(t, [Top(t) EXCEPT !.todo = AfterVisit(Top(t), p)])
  <2>1. Running(t) /\ pluginChan' = pluginChan /\ out' = out
    BY <1>7 DEF Offer
  <2>2. s \in Seq(Frames) /\ \A i \in 1 .. Len(s) : Skipped(log', t, s[i])
    BY <1>f, <2>1
  <2>3. CASE stack' = [stack EXCEPT ![t] = s]
    <3> HIDE DEF s
    <3>1. ChainSkipped'
      BY <1>e, <2>2, <2>3
    <3> QED
      BY <1>b, <1>c, <2>1, <3>1 DEF FlowInv
  <2>4. ASSUME NEW n \in 1 .. BatchMax, Grown(log, log', n, t, chain),
               stack' = [stack EXCEPT ![t] = Append(s, Walk(NewBatch(log, n), Skips(Top(t), p)))]
        PROVE  FlowInv'
    <3> DEFINE w == Walk(NewBatch(log, n), Skips(Top(t), p))
    <3>1. /\ Len(stack[t]) \in 1 .. Len(stack[t]) /\ Top(t) = stack[t][Len(stack[t])]
      BY <2>1, TopCall
    <3>2. Skipped(log, t, Top(t))
      BY <3>1 DEF FlowInv, ChainSkipped
    <3>3. t \notin Jobs => chain \subseteq Skips(Top(t), p)
      BY <3>2 DEF Skipped, Skips, PassEvents
    <3>4. /\ Known(log', NewBatch(log, n))
          /\ \A e \in NewBatch(log, n) : log'[e].chain = chain /\ log'[e].by = t
      BY <2>4 DEF Grown, Known
    <3> HIDE DEF chain, s
    <3>5. Skipped(log', t, w)
      BY <3>3, <3>4 DEF Skipped, Walk
    <3>6. Len(s) \in Nat /\ Len(Append(s, w)) = Len(s) + 1 /\ Append(s, w)[Len(s) + 1] = w
          /\ \A i \in 1 .. Len(s) : Append(s, w)[i] = s[i]
      BY <2>2
    <3> HIDE DEF w
    <3>7. \A i \in 1 .. Len(Append(s, w)) : Skipped(log', t, Append(s, w)[i])
      <4> SUFFICES ASSUME NEW i \in 1 .. Len(s) + 1 PROVE Skipped(log', t, Append(s, w)[i])
        BY <3>6
      <4>1. CASE i = Len(s) + 1
        BY <3>5, <3>6, <4>1
      <4>2. CASE i \in 1 .. Len(s)
        BY <2>2, <3>6, <4>2
      <4> QED
        BY <3>6, <4>1, <4>2
    <3>8. stack' = [stack EXCEPT ![t] = Append(s, w)]
      BY <2>4 DEF w
    <3>9. ChainSkipped'
      BY <1>e, <3>7, <3>8
    <3> QED
      BY <1>b, <1>c, <2>1, <3>9 DEF FlowInv
  <2> QED
    BY <1>7, <2>3, <2>4, AnswerCreates
<1>8. ASSUME NEW t \in Walkers, Return(t) PROVE FlowInv'
  <2>1. /\ stack[t] \in Seq(Frames) /\ stack[t] # <<>> /\ Top(t) \in Frames
        /\ Len(stack[t]) \in 1 .. Len(stack[t]) /\ Top(t) = stack[t][Len(stack[t])]
    BY <1>8, TopCall DEF Return
  <2> DEFINE s == Front(stack[t])
  <2>2. /\ Len(s) = Len(stack[t]) - 1
        /\ \A i \in 1 .. Len(stack[t]) - 1 : s[i] = stack[t][i]
    BY <2>1, StackOps
  <2>3. stack' = [stack EXCEPT ![t] = s] /\ pluginChan' = pluginChan /\ log' = log
    BY <1>8 DEF Return
  <2> HIDE DEF s
  <2>4. \A i \in 1 .. Len(s) : Skipped(log', t, s[i])
    BY <2>1, <2>2, <2>3 DEF FlowInv, ChainSkipped
  <2>5. ChainSkipped'
    BY <1>e, <2>3, <2>4
  <2>6. FreshInOut'
    BY <1>8, <2>3, ThreadKinds DEF Return, FlowInv, FreshInOut, DepthInv, WalkTypeOK
  <2>7. WalkersSend'
    <3> SUFFICES ASSUME NEW u \in Walkers
                 PROVE  /\ Known(log', out'[u].events)
                        /\ \A i \in 1 .. Len(out'[u].to) : out'[u].to[i] # "plugin"
      BY DEF WalkersSend
    <3>1. CASE out'[u] = out[u]
      BY <2>3, <3>1 DEF FlowInv, WalkersSend
    <3>2. CASE out'[u] = [events |-> Top(t).events, to |-> HandleEventsTo]
      <4>1. out'[u].events = Top(t).events /\ out'[u].to = HandleEventsTo
        BY <3>2
      <4>2. Known(log', Top(t).events)
        BY <2>1, <2>3 DEF FlowInv, ChainSkipped, Skipped
      <4>3. \A i \in 1 .. Len(HandleEventsTo) : HandleEventsTo[i] # "plugin"
        BY DEF HandleEventsTo
      <4> QED
        BY <4>1, <4>2, <4>3
    <3>3. u \in Threads
      BY ThreadKinds
    <3> QED
      BY <1>8, <3>1, <3>2, <3>3 DEF Return, DepthInv, WalkTypeOK
  <2> QED
    BY <1>b, <2>3, <2>5, <2>6, <2>7 DEF FlowInv
<1>9. CASE HubBroadcast \/ HubHistory
  BY <1>9, <1>b, <1>c, <1>d DEF HubBroadcast, HubHistory, FlowInv
<1>10. CASE UNCHANGED vars
  BY <1>10, <1>b, <1>c, <1>d DEF vars, FlowInv
<1> QED
  BY <1>1, <1>2, <1>3, <1>4, <1>5, <1>6, <1>7, <1>8, <1>9, <1>10 DEF Next

-----------------------------------------------------------------------------
\* At the start there are no events anywhere.
LEMMA InitInv == Init => DepthInv /\ FlowInv
<1> SUFFICES ASSUME Init PROVE DepthInv /\ FlowInv
  OBVIOUS
<1>1. WalkTypeOK
  BY LimitsAreNat DEF Init, WalkTypeOK, Sends
<1>2. SkipGrows /\ ChainSkipped
  BY DEF Init, SkipGrows, Grows, ChainSkipped
<1>3. FreshInChan /\ FreshInOut /\ WalkersSend
  BY ThreadKinds DEF Init, Idle, FreshInChan, FreshInOut, WalkersSend, Fresh, Known
<1> QED
  BY <1>1, <1>2, <1>3 DEF DepthInv, FlowInv

\* handlePlugins never calls itself deeper than there are plugins left that the outermost
\* call does not skip, and one, whatever plugins answer to each other.
THEOREM RecursionIsBounded == Spec => []StackBounded
<1>1. Init => DepthInv /\ FlowInv
  BY InitInv
<1>2. DepthInv => StackBounded
  <2> SUFFICES ASSUME DepthInv, NEW t \in Walkers, stack[t] # <<>>
               PROVE  Len(stack[t]) + Cardinality(Head(stack[t]).skip) <= Depth
    BY DEF StackBounded
  <2> DEFINE skip == stack[t][Len(stack[t])].skip
  <2>1. stack[t] \in Seq(Frames) /\ Len(stack[t]) \in 1 .. Len(stack[t]) /\ Head(stack[t]) = stack[t][1]
    BY EmptySeq, LenProperties DEF DepthInv, WalkTypeOK
  <2>2. Len(stack[t]) + Cardinality(stack[t][1].skip) <= Cardinality(skip) + 1
    BY <2>1 DEF DepthInv, SkipGrows, Grows
  <2>3. skip \subseteq Plugins /\ stack[t][1].skip \subseteq Plugins
    <3>1. stack[t][Len(stack[t])] \in Frames /\ stack[t][1] \in Frames
      BY <2>1, ElementOfSeq
    <3> QED
      BY <3>1 DEF Frames
  <2> HIDE DEF skip
  <2>4. /\ Cardinality(skip) <= Cardinality(Plugins)
        /\ {Cardinality(skip), Cardinality(Plugins), Cardinality(stack[t][1].skip)} \subseteq Nat
    BY <2>3, PluginsFinite, FS_Subset, FS_CardinalityType
  <2> QED
    BY <2>1, <2>2, <2>4 DEF Depth
<1> QED
  BY <1>1, <1>2, DepthNext, FlowNext, PTL DEF Spec

\* Nothing has been offered at the start.
LEMMA OfferInit == Init => OfferInv
<1> SUFFICES ASSUME Init PROVE OfferInv
  OBVIOUS
<1>1. DOMAIN log = {}
  BY DEF Init
<1> QED
  BY <1>1 DEF Init, OfferInv, NoEarlyOffer, NoFeedback

\* What is offered exists, and keeps from those that led to it.
LEMMA OfferNext == OfferInv /\ DepthInv /\ FlowInv /\ [Next]_vars => OfferInv'
<1> SUFFICES ASSUME OfferInv, DepthInv, FlowInv, [Next]_vars PROVE OfferInv'
  OBVIOUS
<1>1. DOMAIN log \subseteq DOMAIN log' /\ \A e \in DOMAIN log : log'[e] = log[e]
  BY LogGrows
<1>2. /\ DOMAIN log \subseteq Events
      /\ \A e \in DOMAIN log : log[e].chain \subseteq Plugins
  <2>1. DOMAIN log = 1 .. Len(log) /\ Len(log) \in Nat /\ Len(log) <= MaxEvents
    BY LenProperties DEF DepthInv, WalkTypeOK
  <2>2. \A e \in DOMAIN log : log[e] \in Entries
    BY LenProperties DEF DepthInv, WalkTypeOK
  <2> QED
    BY <2>1, <2>2, LimitsAreNat DEF Events, Entries
<1>3. /\ DOMAIN log' \subseteq Events
      /\ \A e \in DOMAIN log' : log'[e].chain \subseteq Plugins
  <2>1. WalkTypeOK'
    BY DepthNext DEF DepthInv
  <2>2. DOMAIN log' = 1 .. Len(log') /\ Len(log') \in Nat /\ Len(log') <= MaxEvents
    BY <2>1, LenProperties DEF WalkTypeOK
  <2>3. \A e \in DOMAIN log' : log'[e] \in Entries
    BY <2>1, LenProperties DEF WalkTypeOK
  <2> QED
    BY <2>2, <2>3, LimitsAreNat DEF Events, Entries
<1>4. CASE offers' = offers
  <2>1. NoEarlyOffer'
    BY <1>1, <1>4 DEF OfferInv, NoEarlyOffer
  <2>2. ASSUME NEW e \in DOMAIN log', NoCron(e)', NEW p \in log'[e].chain
        PROVE  offers[e][p] = 0
    <3>1. CASE e \in DOMAIN log
      BY <1>1, <2>2, <3>1 DEF OfferInv, NoFeedback, NoCron
    <3>2. CASE e \notin DOMAIN log
      BY <1>3, <2>2, <3>2 DEF OfferInv, NoEarlyOffer
    <3> QED
      BY <3>1, <3>2
  <2> QED
    BY <1>4, <2>1, <2>2 DEF OfferInv, NoFeedback
<1>5. ASSUME NEW t \in Walkers, NEW p \in Plugins, Offer(t, p) PROVE OfferInv'
  <2> DEFINE passed == PassEvents(Top(t), p)
  <2>1. Running(t) /\ p \notin Top(t).skip
    BY <1>5 DEF Offer
  <2>2. Skipped(log, t, Top(t))
    BY <2>1, TopCall DEF FlowInv, ChainSkipped
  <2>3. \A e \in passed : e \in DOMAIN log /\ (NoCron(e) => p \notin log[e].chain)
    BY <2>1, <2>2 DEF Skipped, Known, PassEvents, NoCron, Jobs
  <2> HIDE DEF passed
  <2>4. \A e \in Events, q \in Plugins : offers'[e][q] # offers[e][q] => e \in passed /\ q = p
    <3>1. \A e \in Events : offers'[e] = IF e \in passed THEN [offers[e] EXCEPT ![p] = @ + 1]
                                         ELSE offers[e]
      BY <1>5 DEF Offer, passed
    <3>2. \A e \in Events : offers[e] \in [Plugins -> Nat]
      BY DEF DepthInv, WalkTypeOK
    <3> QED
      BY <3>1, <3>2
  <2>5. NoEarlyOffer'
    BY <1>1, <2>3, <2>4 DEF OfferInv, NoEarlyOffer
  <2>6. ASSUME NEW e \in DOMAIN log', NoCron(e)', NEW q \in log'[e].chain
        PROVE  offers'[e][q] = 0
    <3>1. e \in Events /\ q \in Plugins
      BY <1>3, <2>6
    <3>2. offers[e][q] = 0
      <4>1. CASE e \in DOMAIN log
        BY <1>1, <2>6, <4>1 DEF OfferInv, NoFeedback, NoCron
      <4>2. CASE e \notin DOMAIN log
        BY <3>1, <4>2 DEF OfferInv, NoEarlyOffer
      <4> QED
        BY <4>1, <4>2
    <3>3. e \in passed => q # p
      BY <1>1, <2>3, <2>6 DEF NoCron
    <3> QED
      BY <2>4, <3>1, <3>2, <3>3
  <2> QED
    BY <2>5, <2>6 DEF OfferInv, NoFeedback
<1> QED
  BY <1>4, <1>5 DEF Next, vars, Read, Greet, Send, LoopTake, EmitEvents, CronRuns, Return,
                    PassOver, HubBroadcast, HubHistory

\* But for what cron jobs start, no plugin is ever handed an event that its own events led
\* to: the skip list of a call holds every plugin that led to the call's events.
THEOREM NeverFedBack == Spec => []NoFeedback
<1>1. OfferInv => NoFeedback
  BY DEF OfferInv
<1> QED
  BY <1>1, OfferInit, OfferNext, InitInv, DepthNext, FlowNext, PTL DEF Spec

-----------------------------------------------------------------------------
\* What is in a queue of batches, and that nothing is in two of them.
In(q)    == {e \in Events : \E i \in 1 .. Len(q) : e \in q[i]}
Apart(q) == \A i, j \in 1 .. Len(q) : i # j => q[i] \cap q[j] = {}

\* A send puts a batch behind the others.
LEMMA AppendApart ==
  ASSUME NEW q \in Seq(Batches), NEW b \in Batches
  PROVE  /\ In(Append(q, b)) = In(q) \cup b
         /\ Apart(q) /\ b \cap In(q) = {} => Apart(Append(q, b))
<1>1. /\ Len(q) \in Nat /\ Len(Append(q, b)) = Len(q) + 1
      /\ \A i \in 1 .. Len(q) : Append(q, b)[i] = q[i] /\ q[i] \in Batches
      /\ Append(q, b)[Len(q) + 1] = b
  BY AppendProperties, LenProperties, ElementOfSeq
<1> DEFINE r == Append(q, b)
<1> HIDE DEF r
<1>2. /\ Len(q) \in Nat /\ Len(r) = Len(q) + 1 /\ r[Len(q) + 1] = b
      /\ \A i \in 1 .. Len(q) : r[i] = q[i] /\ q[i] \in Batches
  BY <1>1 DEF r
<1>3. 1 .. Len(r) = (1 .. Len(q)) \cup {Len(q) + 1} /\ Len(q) + 1 \notin 1 .. Len(q)
  BY <1>2
<1>4. b \subseteq Events
  BY DEF Batches
<1>5. In(r) = In(q) \cup b
  <2>1. \A e : (\E i \in 1 .. Len(r) : e \in r[i]) <=> e \in b \/ \E i \in 1 .. Len(q) : e \in q[i]
    BY <1>2, <1>3, Zenon
  <2> QED
    BY <1>4, <2>1 DEF In
<1>6. ASSUME Apart(q), b \cap In(q) = {} PROVE Apart(r)
  <2>1. \A i \in 1 .. Len(q) : b \cap q[i] = {}
    BY <1>4, <1>6 DEF In
  <2> SUFFICES ASSUME NEW i \in 1 .. Len(r), NEW j \in 1 .. Len(r), i # j PROVE r[i] \cap r[j] = {}
    BY DEF Apart
  <2>2. CASE i = Len(q) + 1
    BY <1>2, <1>3, <2>1, <2>2
  <2>3. CASE j = Len(q) + 1
    BY <1>2, <1>3, <2>1, <2>3
  <2>4. CASE i \in 1 .. Len(q) /\ j \in 1 .. Len(q)
    BY <1>2, <1>6, <2>4 DEF Apart
  <2> QED
    BY <1>3, <2>2, <2>3, <2>4
<1> QED
  BY <1>5, <1>6 DEF r

\* A receiver takes the first batch.
LEMMA TailApart ==
  ASSUME NEW q \in Seq(Batches), q # <<>>
  PROVE  /\ Head(q) \in Batches /\ Tail(q) \in Seq(Batches)
         /\ In(q) = Head(q) \cup In(Tail(q))
         /\ Apart(q) => Apart(Tail(q)) /\ Head(q) \cap In(Tail(q)) = {}
<1>1. /\ Len(q) \in Nat \ {0} /\ Head(q) = q[1] /\ Head(q) \in Batches /\ Tail(q) \in Seq(Batches)
      /\ Len(Tail(q)) = Len(q) - 1
      /\ \A i \in 1 .. Len(q) - 1 : Tail(q)[i] = q[i + 1]
  BY HeadTailProperties, EmptySeq, LenProperties
<1> DEFINE r == Tail(q)
<1> HIDE DEF r
<1>2. /\ Len(q) \in Nat \ {0} /\ Len(r) = Len(q) - 1
      /\ \A i \in 1 .. Len(r) : r[i] = q[i + 1] /\ i + 1 \in 1 .. Len(q) /\ i + 1 # 1
      /\ \A i \in 1 .. Len(q) : i # 1 => i - 1 \in 1 .. Len(r) /\ r[i - 1] = q[i]
      /\ 1 \in 1 .. Len(q)
  BY <1>1 DEF r
<1>3. q[1] \subseteq Events
  BY <1>1 DEF Batches
<1>4. In(q) = q[1] \cup In(r)
  <2>1. ASSUME NEW e, \E i \in 1 .. Len(q) : e \in q[i]
        PROVE  e \in q[1] \/ \E i \in 1 .. Len(r) : e \in r[i]
    BY <1>2, <2>1
  <2>2. ASSUME NEW e, \E i \in 1 .. Len(r) : e \in r[i]
        PROVE  \E i \in 1 .. Len(q) : e \in q[i]
    BY <1>2, <2>2
  <2> QED
    BY <1>2, <1>3, <2>1, <2>2 DEF In
<1>5. ASSUME Apart(q) PROVE Apart(r) /\ q[1] \cap In(r) = {}
  <2>1. Apart(r)
    BY <1>2, <1>5 DEF Apart
  <2>2. \A i \in 1 .. Len(r) : q[1] \cap r[i] = {}
    BY <1>2, <1>5 DEF Apart
  <2> QED
    BY <2>1, <2>2 DEF In
<1> QED
  BY <1>1, <1>4, <1>5 DEF r

\* What becomes of the batches when a call goes on, calls itself, and returns.
LEMMA WalkedOps ==
  ASSUME NEW s \in Seq(Frames)
  PROVE  /\ Walked(s) \in Seq(Batches) /\ Len(Walked(s)) = Len(s)
         /\ \A i \in 1 .. Len(s) : Walked(s)[i] = s[i].events
         /\ \A i \in 1 .. Len(s) : s[i].events \subseteq In(Walked(s))
         /\ \A e : e \in In(Walked(s)) <=> \E i \in 1 .. Len(s) : e \in s[i].events
<1>1. Len(s) \in Nat /\ \A i \in 1 .. Len(s) : s[i].events \in Batches
  <2>1. Len(s) \in Nat /\ \A i \in 1 .. Len(s) : s[i] \in Frames
    BY LenProperties, ElementOfSeq
  <2> QED
    BY <2>1 DEF Frames
<1> DEFINE w == Walked(s)
<1>2. w \in [1 .. Len(s) -> Batches]
  BY <1>1 DEF Walked
<1>3. \A i \in 1 .. Len(s) : w[i] = s[i].events
  BY DEF Walked
<1> HIDE DEF w
<1>4. w \in Seq(Batches) /\ Len(w) = Len(s)
  BY <1>1, <1>2, IsASeq, LenProperties
<1>5. \A e : e \in In(w) <=> \E i \in 1 .. Len(s) : e \in s[i].events
  BY <1>1, <1>3, <1>4 DEF In, Batches
<1>6. \A i \in 1 .. Len(s) : s[i].events \subseteq In(w)
  BY <1>5
<1> QED
  BY <1>3, <1>4, <1>5, <1>6 DEF w

\* The call of a returning handlePlugins is gone, and with it its batch.
LEMMA WalkedFront ==
  ASSUME NEW s \in Seq(Frames), s # <<>>
  PROVE  /\ In(Walked(s)) = s[Len(s)].events \cup In(Walked(Front(s)))
         /\ Apart(Walked(s)) => /\ Apart(Walked(Front(s)))
                                /\ s[Len(s)].events \cap In(Walked(Front(s))) = {}
<1>1. /\ Len(s) \in Nat \ {0} /\ Front(s) \in Seq(Frames) /\ Len(Front(s)) = Len(s) - 1
      /\ \A i \in 1 .. Len(s) - 1 : Front(s)[i] = s[i]
  BY StackOps, EmptySeq, LenProperties, ElementOfSeq
<1> DEFINE r == Front(s)
           n == Len(s)
<1> HIDE DEF r, n
<1>2. /\ n \in Nat \ {0} /\ Len(r) = n - 1 /\ \A i \in 1 .. Len(r) : r[i] = s[i]
      /\ 1 .. n = (1 .. Len(r)) \cup {n} /\ n \notin 1 .. Len(r)
  BY <1>1 DEF r, n
<1>3. /\ \A i \in 1 .. n : Walked(s)[i] = s[i].events
      /\ \A e : e \in In(Walked(s)) <=> \E i \in 1 .. n : e \in s[i].events
      /\ Len(Walked(s)) = n
  BY WalkedOps DEF n
<1>4. /\ \A i \in 1 .. Len(r) : Walked(r)[i] = r[i].events
      /\ \A e : e \in In(Walked(r)) <=> \E i \in 1 .. Len(r) : e \in r[i].events
      /\ Len(Walked(r)) = Len(r)
  BY <1>1, WalkedOps DEF r
<1>5. In(Walked(s)) = s[n].events \cup In(Walked(r))
  BY <1>2, <1>3, <1>4
<1>6. ASSUME Apart(Walked(s)) PROVE Apart(Walked(r)) /\ s[n].events \cap In(Walked(r)) = {}
  <2>1. \A i, j \in 1 .. n : i # j => s[i].events \cap s[j].events = {}
    BY <1>3, <1>6 DEF Apart
  <2>2. ASSUME NEW i \in 1 .. Len(Walked(r)), NEW j \in 1 .. Len(Walked(r)), i # j
        PROVE  Walked(r)[i] \cap Walked(r)[j] = {}
    <3>1. /\ i \in 1 .. n /\ j \in 1 .. n
          /\ Walked(r)[i] = s[i].events /\ Walked(r)[j] = s[j].events
      BY <1>2, <1>4
    <3> QED
      BY <2>1, <2>2, <3>1
  <2>3. Apart(Walked(r))
    BY <2>2 DEF Apart
  <2> QED
    BY <1>2, <1>4, <2>1, <2>3
<1> QED
  BY <1>5, <1>6 DEF r, n

-----------------------------------------------------------------------------
\* What becomes of log l when t creates n events.
Made(l, m, n, t, author, chain, cause) ==
  /\ DOMAIN m = DOMAIN l \cup NewBatch(l, n) /\ DOMAIN l \cap NewBatch(l, n) = {}
  /\ \A e \in DOMAIN l : m[e] = l[e]
  /\ \A e \in NewBatch(l, n) : /\ m[e].by = t /\ m[e].author = author
                               /\ m[e].chain = chain /\ m[e].cause = cause

\* NewEvent sets what an event says of where it comes from.
LEMMA CreatedMade ==
  ASSUME NEW l \in Seq(Entries), NEW n \in Nat \ {0}, Len(l) + n <= MaxEvents, NEW t \in Threads,
         NEW author \in Plugins \cup Clients,
         NEW chain \in SUBSET Plugins, NEW cause \in SUBSET Events,
         NEW m \in Created(l, n, t, author, chain, cause)
  PROVE  /\ Made(l, m, n, t, author, chain, cause)
         /\ NewBatch(l, n) \in Batches
<1> DEFINE new(k) == [i \in 1 .. n |-> [by |-> t, author |-> author, kind |-> k[i],
                                        chain |-> chain, cause |-> cause]]
<1>1. PICK k \in [1 .. n -> Kinds] : m = l \o new(k)
  BY DEF Created
<1>2. m \in Seq(Entries) /\ Len(m) = Len(l) + n /\ Grown(l, m, n, t, chain) /\ Len(l) \in Nat
  BY CreatedLog, LenProperties
<1>3. DOMAIN l = 1 .. Len(l) /\ DOMAIN m = 1 .. Len(l) + n
  BY <1>2, LenProperties
<1>4. DOMAIN m = DOMAIN l \cup NewBatch(l, n) /\ DOMAIN l \cap NewBatch(l, n) = {}
  BY <1>2, <1>3 DEF NewBatch
<1>5. /\ Len(new(k)) = n
      /\ \A i \in 1 .. n : new(k)[i].author = author /\ new(k)[i].cause = cause
  OBVIOUS
<1> HIDE DEF new
<1>6. \A i \in 1 .. Len(l) + n : m[i] = IF i <= Len(l) THEN l[i] ELSE new(k)[i - Len(l)]
  BY <1>1, <1>2, <1>5
<1>7. \A e \in NewBatch(l, n) : m[e].author = author /\ m[e].cause = cause
  BY <1>2, <1>5, <1>6 DEF NewBatch
<1> QED
  BY <1>2, <1>4, <1>7, NewBatchTyped DEF Grown, Made

-----------------------------------------------------------------------------
\* The routes of what a goroutine sends: ReadLoop's, a greeting's, and handleEvents'.
RoutesOf(t) ==
  IF t.kind = "read" THEN {ChatTo, <<"broadcast", "plugin">>, <<"plugin">>}
  ELSE IF t.kind = "greet"
  THEN {<<"broadcast", "plugin">>, <<"plugin", "broadcast">>, <<"plugin">>, <<"broadcast">>}
  ELSE {HandleEventsTo, <<"history">>}

Loop(c)     == [kind |-> "loop", of |-> c]

\* Whose events are where: a goroutine sends what it made, a PluginLoop gets and walks what
\* its client's goroutines made, and the others walk and publish what they made.  What is
\* walked has in its chain what the call skips, but for what a cron job walks.
Belongs(l, t, f) ==
  \A e \in f.events :
    /\ e \in DOMAIN l
    /\ IF f.publish THEN l[e].by = t
       ELSE l[e].by \in Readers /\ t.kind = "loop" /\ t.of = l[e].by.of
    /\ t \in Jobs => l[e].by \in Jobs
    /\ t \notin Jobs => l[e].chain = f.skip
    /\ ~(l[e].by.kind = "emit" /\ l[e].cause = {} /\ l[e].kind.internal)
Routed    == \A t \in Threads : out[t] = Idle \/ (out[t].events # {} /\ out[t].to \in RoutesOf(t))
HomesOut  == \A t \in Threads : \A e \in out[t].events :
               e \in DOMAIN log /\ log[e].by = t /\ ~Dropped(e)
HomesChan == \A c \in Clients : \A e \in In(pluginChan[c]) :
               e \in DOMAIN log /\ log[e].by \in Readers /\ log[e].by.of = c
HomesCall == \A t \in Walkers : \A i \in 1 .. Len(stack[t]) : Belongs(log, t, stack[t][i])
HomeInv   == Routed /\ HomesOut /\ HomesChan /\ HomesCall

\* Each event comes to the plugins once: it is sent, waits or is walked in one place.
OneWalk ==
  /\ \A c \in Clients : Apart(pluginChan[c]) /\ In(pluginChan[c]) \cap In(Walked(stack[Loop(c)])) = {}
  /\ \A t \in Walkers : Apart(Walked(stack[t]))
  /\ \A r \in Readers : OnWay("plugin", r) \cap
                          (In(pluginChan[r.of]) \cup In(Walked(stack[Loop(r.of)]))) = {}

\* A plugin is asked about an event when its walk comes to the plugin.
Due(e, p)   == IF p \notin log[e].chain /\ PassesFilter(p, e) /\ ~Dropped(e) THEN 1 ELSE 0
WaitsFor(e) == LET r == log[e].by IN
               r \in Readers /\ (e \in OnWay("plugin", r) \/ e \in In(pluginChan[r.of]))
Right(e) ==
  \A p \in Plugins :
    /\ WaitsFor(e) => offers[e][p] = 0
    /\ \A t \in Walkers : \A i \in 1 .. Len(stack[t]) : e \in stack[t][i].events =>
         offers[e][p] = IF p \in stack[t][i].todo THEN 0 ELSE Due(e, p)
    /\ ~WaitsFor(e) /\ (\A t \in Walkers : e \notin In(Walked(stack[t]))) => offers[e][p] = Due(e, p)
OffersRight == \A e \in DOMAIN log : NoCron(e) => Right(e)

\* Each event comes to clients, and to the history, at most once.
OnceDone(s) == \A i, j \in 1 .. Len(s) : s[i] = s[j] => i = j
Vals(s)     == {e \in Events : \E i \in 1 .. Len(s) : s[i] = e}
Through(d)  == In(Queue(d)) \cup Vals(Done(d))
Once(d) ==
  /\ Apart(Queue(d)) /\ OnceDone(Done(d)) /\ In(Queue(d)) \cap Vals(Done(d)) = {}
  /\ \A e \in Through(d) : e \in DOMAIN log /\ ~Dropped(e)
  /\ \A t \in Threads : OnWay(d, t) \cap Through(d) = {}
  /\ \A t \in Walkers : \A i \in 1 .. Len(stack[t]) : stack[t][i].publish =>
       stack[t][i].events \cap (out[t].events \cup Through(d)) = {}

\* Nothing that is to come there is lost on the way.
Went(d, t)   == OnWay(d, t) \cup Through(d)
Published(t) == {e \in Events : \E i \in 1 .. Len(stack[t]) : stack[t][i].publish /\ e \in stack[t][i].events}
NotLost(e) ==
  LET t == log[e].by
      b == e \in Went("broadcast", t)
      h == e \in Went("history", t) IN
  /\ t \in Walkers /\ ~Dropped(e) => e \in Published(t) \/ (h /\ (b \/ log[e].kind.internal))
  /\ t.kind = "greet" => b /\ ~h
  /\ t.kind = "greet" => ~log[e].kind.internal
  /\ t.kind = "read"  => /\ b => h
                         /\ h => b \/ log[e].kind.internal
                         /\ log[e].kind.internal => h
  /\ log[e].kind.internal => e \notin Vals(shown)
NoneLost == \A e \in DOMAIN log : NotLost(e)

\* An answer f goes ahead of a plugin's event e ...
Ahead(q, s, f, e) ==
  /\ \A j \in 1 .. Len(q) : f \in q[j] => e \notin Vals(s) /\ \A i \in 1 .. j : e \notin q[i]
  /\ \A k \in 1 .. Len(s) : s[k] = f => \A i \in 1 .. k : s[i] # e
\* ... and behind a message e of a ReadLoop, if that goes there.
Behind(q, s, f, e) ==
  /\ \A j \in 1 .. Len(q) : f \in q[j] /\ e \in In(q) => \E i \in 1 .. j - 1 : e \in q[i]
  /\ f \in Vals(s) => e \notin In(q)
  /\ \A k \in 1 .. Len(s) : s[k] = f /\ e \in Vals(s) => \E i \in 1 .. k - 1 : s[i] = e
\* A plugin's event is walked further out than its answers.
Inside(t, f, e) ==
  \A j \in 1 .. Len(stack[t]) : f \in stack[t][j].events =>
    \E i \in 1 .. j - 1 : stack[t][i].publish /\ e \in stack[t][i].events
Ordered(f, e) ==
  /\ e \in DOMAIN log /\ log[f].by \in Walkers
  /\ log[e].by \in Walkers =>
       /\ log[e].by = log[f].by /\ Inside(log[f].by, f, e)
       /\ \A d \in Lines : /\ f \in OnWay(d, log[f].by) => e \in Published(log[f].by)
                           /\ Ahead(Queue(d), Done(d), f, e)
  /\ log[e].by.kind = "read" =>
       e \notin out[log[e].by].events /\ \A d \in Lines : Behind(Queue(d), Done(d), f, e)
CausesOrdered == \A f \in DOMAIN log : \A e \in log[f].cause : Ordered(f, e)

-----------------------------------------------------------------------------
\* The routes, one by one.
LEMMA RouteTable ==
  /\ Len(ChatTo) = 3 /\ Head(ChatTo) = "history" /\ Tail(ChatTo) = <<"broadcast", "plugin">>
  /\ \A d : Goes(ChatTo, d) <=> d \in {"history", "broadcast", "plugin"}
  /\ Len(HandleEventsTo) = 2 /\ Head(HandleEventsTo) = "broadcast" /\ Tail(HandleEventsTo) = <<"history">>
  /\ \A d : Goes(HandleEventsTo, d) <=> d \in {"broadcast", "history"}
  /\ \A a, b : /\ Len(<<a, b>>) = 2 /\ Head(<<a, b>>) = a /\ Tail(<<a, b>>) = <<b>>
               /\ \A d : Goes(<<a, b>>, d) <=> d \in {a, b}
  /\ \A a : Len(<<a>>) = 1 /\ Head(<<a>>) = a /\ \A d : Goes(<<a>>, d) <=> d = a
<1>1. /\ Len(ChatTo) = 3 /\ Head(ChatTo) = "history" /\ Tail(ChatTo) = <<"broadcast", "plugin">>
      /\ Len(HandleEventsTo) = 2 /\ Head(HandleEventsTo) = "broadcast" /\ Tail(HandleEventsTo) = <<"history">>
  BY DEF ChatTo, HandleEventsTo
<1>2. \A d : Goes(ChatTo, d) <=> d \in {"history", "broadcast", "plugin"}
  BY DEF ChatTo, Goes
<1>3. \A d : Goes(HandleEventsTo, d) <=> d \in {"broadcast", "history"}
  BY DEF HandleEventsTo, Goes
<1>4. \A a, b : /\ Len(<<a, b>>) = 2 /\ Head(<<a, b>>) = a /\ Tail(<<a, b>>) = <<b>>
               /\ \A d : Goes(<<a, b>>, d) <=> d \in {a, b}
  BY DEF Goes
<1>5. \A a : Len(<<a>>) = 1 /\ Head(<<a>>) = a /\ \A d : Goes(<<a>>, d) <=> d = a
  BY DEF Goes
<1> QED
  BY <1>1, <1>2, <1>3, <1>4, <1>5

\* A send takes its channel off the route and leaves the rest of it.
LEMMA RouteShrinks ==
  ASSUME NEW t \in Threads, NEW to \in RoutesOf(t)
  PROVE  /\ to # <<>> /\ Head(to) \in Places /\ Goes(to, Head(to))
         /\ Len(to) = 1 => \A d : Goes(to, d) => d = Head(to)
         /\ Len(to) # 1 => /\ Tail(to) \in RoutesOf(t)
                           /\ \A d : Goes(Tail(to), d) <=> Goes(to, d) /\ d # Head(to)
         /\ Goes(to, "plugin") => t \in Readers
         /\ t.kind = "read" => Goes(to, "plugin")
         /\ t.kind = "greet" => ~Goes(to, "history")
<1> DEFINE bp == <<"broadcast", "plugin">>
           pb == <<"plugin", "broadcast">>
           p1 == <<"plugin">>
           b1 == <<"broadcast">>
           h1 == <<"history">>
<1>1. /\ ChatTo # <<>> /\ HandleEventsTo # <<>> /\ bp # <<>> /\ pb # <<>>
      /\ p1 # <<>> /\ b1 # <<>> /\ h1 # <<>>
  BY DEF ChatTo, HandleEventsTo
<1>2. /\ Len(ChatTo) = 3 /\ Head(ChatTo) = "history" /\ Tail(ChatTo) = bp
      /\ \A d : Goes(ChatTo, d) <=> d \in {"history", "broadcast", "plugin"}
      /\ Len(HandleEventsTo) = 2 /\ Head(HandleEventsTo) = "broadcast" /\ Tail(HandleEventsTo) = h1
      /\ \A d : Goes(HandleEventsTo, d) <=> d \in {"broadcast", "history"}
  BY RouteTable
<1>3. /\ Len(bp) = 2 /\ Head(bp) = "broadcast" /\ Tail(bp) = p1
      /\ \A d : Goes(bp, d) <=> d \in {"broadcast", "plugin"}
      /\ Len(pb) = 2 /\ Head(pb) = "plugin" /\ Tail(pb) = b1
      /\ \A d : Goes(pb, d) <=> d \in {"broadcast", "plugin"}
  BY RouteTable
<1>4. /\ Len(p1) = 1 /\ Head(p1) = "plugin" /\ \A d : Goes(p1, d) <=> d = "plugin"
      /\ Len(b1) = 1 /\ Head(b1) = "broadcast" /\ \A d : Goes(b1, d) <=> d = "broadcast"
      /\ Len(h1) = 1 /\ Head(h1) = "history" /\ \A d : Goes(h1, d) <=> d = "history"
  BY RouteTable
<1>5. RoutesOf(t) = IF t.kind = "read" THEN {ChatTo, bp, p1}
                    ELSE IF t.kind = "greet" THEN {bp, pb, p1, b1} ELSE {HandleEventsTo, h1}
  BY DEF RoutesOf
<1> HIDE DEF bp, pb, p1, b1, h1
<1>6. /\ Len(ChatTo) # 1 /\ Len(HandleEventsTo) # 1 /\ Len(bp) # 1 /\ Len(pb) # 1
  <2>1. \A n : n = 2 \/ n = 3 => n # 1
    OBVIOUS
  <2> QED
    BY <1>2, <1>3, <2>1, Zenon
<1>7. CASE t.kind = "read"
  <2>1. t \in Readers /\ t.kind # "greet" /\ RoutesOf(t) = {ChatTo, bp, p1}
    BY <1>5, <1>7, ThreadKinds
  <2>2. CASE to = ChatTo
    BY <1>1, <1>2, <1>3, <1>6, <2>1, <2>2 DEF Places
  <2>3. CASE to = bp
    BY <1>1, <1>3, <1>4, <1>6, <2>1, <2>3 DEF Places
  <2>4. CASE to = p1
    BY <1>1, <1>4, <2>1, <2>4 DEF Places
  <2> QED
    BY <2>1, <2>2, <2>3, <2>4
<1>8. CASE t.kind = "greet"
  <2>1. t \in Readers /\ t.kind # "read" /\ RoutesOf(t) = {bp, pb, p1, b1}
    BY <1>5, <1>8, ThreadKinds
  <2>2. CASE to = bp
    BY <1>1, <1>3, <1>4, <1>6, <2>1, <2>2 DEF Places
  <2>3. CASE to = pb
    BY <1>1, <1>3, <1>4, <1>6, <2>1, <2>3 DEF Places
  <2>4. CASE to = p1
    BY <1>1, <1>4, <2>1, <2>4 DEF Places
  <2>5. CASE to = b1
    BY <1>1, <1>4, <2>1, <2>5 DEF Places
  <2> QED
    BY <2>1, <2>2, <2>3, <2>4, <2>5
<1>9. CASE t.kind \notin {"read", "greet"}
  <2>1. RoutesOf(t) = {HandleEventsTo, h1}
    BY <1>5, <1>9
  <2>2. CASE to = HandleEventsTo
    BY <1>1, <1>2, <1>4, <1>6, <1>9, <2>1, <2>2 DEF Places
  <2>3. CASE to = h1
    BY <1>1, <1>4, <1>9, <2>1, <2>3 DEF Places
  <2> QED
    BY <2>1, <2>2, <2>3
<1> QED
  BY <1>7, <1>8, <1>9

-----------------------------------------------------------------------------
\* What the steps do, in the words of the invariants.
LEMMA ReadEffect ==
  ASSUME DepthInv, NEW t \in Readers, Read(t) \/ Greet(t)
  PROVE  /\ Made(log, log', 1, t, t.of, {}, {}) /\ NewBatch(log, 1) \in Batches
         /\ t.kind = "greet" => \A e \in NewBatch(log, 1) : ~log'[e].kind.internal
         /\ out[t] = Idle
         /\ \E to \in RoutesOf(t) : /\ out'[t] = [events |-> NewBatch(log, 1), to |-> to]
                                    /\ Goes(to, "plugin")
                                    /\ t.kind = "greet" => Goes(to, "broadcast")
                                    /\ t.kind = "read" => (Goes(to, "broadcast") <=> Goes(to, "history"))
                                    /\ \A e \in NewBatch(log, 1) : log'[e].kind.internal => Goes(to, "broadcast")
         /\ \A u \in Threads \ {t} : out'[u] = out[u]
         /\ UNCHANGED <<pluginChan, bq, hq, shown, kept, stack, offers>>
<1>1. t \in Threads /\ t.of \in Plugins \cup Clients /\ Len(log) + 1 <= MaxEvents
      /\ log \in Seq(Entries) /\ {} \in SUBSET Plugins /\ {} \in SUBSET Events /\ 1 \in Nat \ {0}
  BY ThreadKinds, LenProperties, LimitsAreNat DEF Read, Greet, DepthInv, WalkTypeOK
<1>2. log' \in Created(log, 1, t, t.of, {}, {})
  BY DEF Read, Greet
<1>3. Made(log, log', 1, t, t.of, {}, {}) /\ NewBatch(log, 1) \in Batches
  BY <1>1, <1>2, CreatedMade
<1>4. \A e \in NewBatch(log, 1) : log'[e] = Last(log')
  <2>1. log' \in Seq(Entries) /\ Len(log') = Len(log) + 1 /\ Len(log) \in Nat
    <3>1. 1 \in Nat
      OBVIOUS
    <3> QED
      BY <1>1, <1>2, <3>1, CreatedLog, LenProperties
  <2>2. Last(log') = log'[Len(log) + 1]
    BY <2>1 DEF Last
  <2>3. \A e \in NewBatch(log, 1) : e = Len(log) + 1
    BY <2>1 DEF NewBatch
  <2> QED
    BY <2>2, <2>3
<1>5. \E to \in RoutesOf(t) : /\ out' = [out EXCEPT ![t] = [events |-> NewBatch(log, 1), to |-> to]]
                              /\ Goes(to, "plugin")
                              /\ t.kind = "greet" => Goes(to, "broadcast")
                              /\ t.kind = "read" => (Goes(to, "broadcast") <=> Goes(to, "history"))
                              /\ Last(log').kind.internal => Goes(to, "broadcast")
  <2>1. CASE Read(t)
    <3>1. t.kind = "read" /\ t.kind # "greet"
      BY <2>1 DEF Read
    <3>2. PICK to \in {ChatTo, <<"plugin">>} :
            /\ Last(log').kind.internal => to = ChatTo
            /\ out' = [out EXCEPT ![t] = [events |-> NewBatch(log, 1), to |-> to]]
      BY <2>1 DEF Read
    <3>3. to \in RoutesOf(t)
      BY <3>1 DEF RoutesOf
    <3>4. /\ Goes(to, "plugin") /\ (Goes(to, "broadcast") <=> Goes(to, "history"))
          /\ Last(log').kind.internal => Goes(to, "broadcast")
      BY <3>2, RouteTable
    <3> QED
      BY <3>1, <3>2, <3>3, <3>4
  <2>2. CASE Greet(t)
    <3>1. t.kind = "greet" /\ t.kind # "read"
      BY <2>2 DEF Greet
    <3>2. PICK to \in {<<"broadcast", "plugin">>, <<"plugin", "broadcast">>} :
            out' = [out EXCEPT ![t] = [events |-> NewBatch(log, 1), to |-> to]]
      BY <2>2 DEF Greet
    <3>3. to \in RoutesOf(t)
      BY <3>1 DEF RoutesOf
    <3>4. Goes(to, "plugin") /\ Goes(to, "broadcast")
      BY RouteTable
    <3> QED
      BY <3>1, <3>2, <3>3, <3>4
  <2> QED
    BY <2>1, <2>2
<1>6. out \in [Threads -> Sends]
  BY DEF DepthInv, WalkTypeOK
<1>7. out[t] = Idle /\ UNCHANGED <<pluginChan, bq, hq, shown, kept, stack, offers>>
  BY DEF Read, Greet
<1>8. t.kind = "greet" => ~Last(log').kind.internal
  BY DEF Read, Greet
<1> QED
  BY <1>1, <1>3, <1>4, <1>5, <1>6, <1>7, <1>8

\* One channel gets the batch of a goroutine, and is off its route then.
LEMMA SendEffect ==
  ASSUME DepthInv, HomeInv, NEW t \in Threads, Send(t), NEW d, d = Head(out[t].to)
  PROVE  /\ out[t].events \in Batches /\ d \in Places /\ Goes(out[t].to, d)
         /\ out[t].to \in RoutesOf(t)
         /\ out'[t] = Idle \/ (out'[t].events = out[t].events /\ out'[t].to \in RoutesOf(t))
         /\ out'[t].events \subseteq out[t].events
         /\ \A u \in Threads \ {t} : out'[u] = out[u]
         /\ Toward(out[t], d) = out[t].events /\ Toward(out'[t], d) = {}
         /\ \A x \in Places \ {d} : Toward(out'[t], x) = Toward(out[t], x)
         /\ d = "plugin" => t \in Readers
         /\ pluginChan' = IF d = "plugin" THEN [pluginChan EXCEPT ![t.of] = Append(@, out[t].events)]
                          ELSE pluginChan
         /\ bq' = IF d = "broadcast" THEN Append(bq, out[t].events) ELSE bq
         /\ hq' = IF d = "history" THEN Append(hq, out[t].events) ELSE hq
         /\ UNCHANGED <<log, shown, kept, stack, offers>>
<1> DEFINE o == out[t]
<1>1. out \in [Threads -> Sends] /\ o \in [events : Batches, to : Seq(Places)] /\ o.to # <<>>
  BY DEF Send, DepthInv, WalkTypeOK, Sends, Idle
<1>2. o.to \in RoutesOf(t)
  BY <1>1 DEF HomeInv, Routed, Idle
<1>3. /\ d \in Places /\ Goes(o.to, d)
      /\ Len(o.to) = 1 => \A x : Goes(o.to, x) => x = d
      /\ Len(o.to) # 1 => /\ Tail(o.to) \in RoutesOf(t)
                          /\ \A x : Goes(Tail(o.to), x) <=> Goes(o.to, x) /\ x # d
      /\ Goes(o.to, "plugin") => t \in Readers
  BY <1>2, RouteShrinks
<1>4. out' = [out EXCEPT ![t] = IF Len(o.to) = 1 THEN Idle ELSE [o EXCEPT !.to = Tail(@)]]
  BY DEF Send
<1>5. \A u \in Threads \ {t} : out'[u] = out[u]
  BY <1>1, <1>4
<1>6. /\ o.events \in Batches
      /\ out'[t] = Idle \/ (out'[t].events = o.events /\ out'[t].to \in RoutesOf(t))
      /\ out'[t].events \subseteq o.events
      /\ Toward(o, d) = o.events /\ Toward(out'[t], d) = {}
      /\ \A x \in Places \ {d} : Toward(out'[t], x) = Toward(o, x)
  <2>1. CASE Len(o.to) = 1
    <3>1. out'[t] = Idle
      BY <1>1, <1>4, <2>1
    <3>2. Toward(o, d) = o.events /\ \A x \in Places \ {d} : Toward(o, x) = {}
      BY <1>3, <2>1 DEF Toward
    <3>3. Idle.events = {} /\ \A x : Toward(Idle, x) = {}
      BY DEF Toward, Idle, Goes
    <3> QED
      BY <1>1, <3>1, <3>2, <3>3
  <2>2. CASE Len(o.to) # 1
    <3>1. out'[t].events = o.events /\ out'[t].to = Tail(o.to)
      BY <1>1, <1>4, <2>2
    <3>2. Toward(o, d) = o.events /\ Toward(out'[t], d) = {}
      BY <1>3, <2>2, <3>1 DEF Toward
    <3>3. \A x \in Places \ {d} : Toward(out'[t], x) = Toward(o, x)
      BY <1>3, <2>2, <3>1 DEF Toward
    <3> QED
      BY <1>1, <1>3, <2>2, <3>1, <3>2, <3>3
  <2> QED
    BY <2>1, <2>2
<1>7. /\ pluginChan' = IF d = "plugin" THEN [pluginChan EXCEPT ![t.of] = Append(@, o.events)]
                       ELSE pluginChan
      /\ bq' = IF d = "broadcast" THEN Append(bq, o.events) ELSE bq
      /\ hq' = IF d = "history" THEN Append(hq, o.events) ELSE hq
  <2>1. CASE d = "history"
    BY <2>1 DEF Send
  <2>2. CASE d = "broadcast"
    BY <2>2 DEF Send
  <2>3. CASE d = "plugin"
    BY <2>3 DEF Send
  <2> QED
    BY <1>3, <2>1, <2>2, <2>3 DEF Places
<1>8. UNCHANGED <<log, shown, kept, stack, offers>>
  BY DEF Send
<1> QED
  BY <1>2, <1>3, <1>5, <1>6, <1>7, <1>8

-----------------------------------------------------------------------------
\* A walk goes on, or calls itself with what a plugin has just made.
SameCall(f, g) == g.events = f.events /\ g.publish = f.publish /\ g.skip = f.skip
New            == DOMAIN log' \ DOMAIN log
WalkerStep(t) ==
  /\ UNCHANGED <<pluginChan, bq, hq, shown, kept, out>>
  /\ \A u \in Walkers \ {t} : stack'[u] = stack[u]
  /\ DOMAIN log \subseteq DOMAIN log' /\ \A e \in DOMAIN log : log'[e] = log[e]
  /\ Len(stack'[t]) = Len(stack[t]) \/ Len(stack'[t]) = Len(stack[t]) + 1
  /\ \A i \in 1 .. Len(stack[t]) : SameCall(stack[t][i], stack'[t][i])
  /\ \A i \in 1 .. Len(stack'[t]) : i \notin 1 .. Len(stack[t]) =>
       /\ stack'[t][i].publish /\ stack'[t][i].events \subseteq New
       /\ stack'[t][i].todo = Plugins /\ Belongs(log', t, stack'[t][i])
  /\ \A e \in New :
       /\ log'[e].by = t
       /\ \/ Dropped(e)'
          \/ Len(stack'[t]) = Len(stack[t]) + 1 /\ e \in stack'[t][Len(stack[t]) + 1].events
       /\ \A c \in log'[e].cause : stack[t] # <<>> /\ c \in stack[t][Len(stack[t])].events

\* The innermost call after a plugin was visited.
LEMMA VisitFacts ==
  ASSUME DepthInv, NEW t \in Walkers, Running(t), NEW p \in Plugins,
         NEW s, s = SetTop(t, [Top(t) EXCEPT !.todo = AfterVisit(Top(t), p)]),
         NEW n, n = Len(stack[t])
  PROVE  /\ n \in Nat \ {0} /\ s \in Seq(Frames) /\ Len(s) = n /\ stack[t] \in Seq(Frames)
         /\ \A i \in 1 .. n - 1 : s[i] = stack[t][i]
         /\ \A i \in 1 .. n : SameCall(stack[t][i], s[i])
         /\ s[n].todo = Top(t).todo \ {p}
         /\ Top(t) \in Frames /\ Top(t) = stack[t][n]
<1> DEFINE f == [Top(t) EXCEPT !.todo = AfterVisit(Top(t), p)]
<1>1. /\ stack[t] \in Seq(Frames) /\ stack[t] # <<>> /\ Top(t) \in Frames
      /\ Top(t) = stack[t][n] /\ n \in Nat \ {0}
  BY TopCall
<1>2. f \in Frames /\ SameCall(Top(t), f) /\ f.todo = Top(t).todo \ {p}
  BY <1>1 DEF Frames, AfterVisit, SameCall
<1> HIDE DEF f
<1>3. /\ s \in Seq(Frames) /\ Len(s) = n /\ s[n] = f
      /\ \A i \in 1 .. n - 1 : s[i] = stack[t][i]
  BY <1>1, <1>2, StackOps DEF SetTop, f
<1>4. \A i \in 1 .. n : SameCall(stack[t][i], s[i])
  <2> SUFFICES ASSUME NEW i \in 1 .. n PROVE SameCall(stack[t][i], s[i])
    OBVIOUS
  <2>1. CASE i = n
    BY <2>1, <1>1, <1>2, <1>3
  <2>2. CASE i \in 1 .. n - 1
    BY <2>2, <1>3 DEF SameCall
  <2> QED
    BY <2>1, <2>2, <1>1
<1> QED
  BY <1>1, <1>2, <1>3, <1>4

\* The first call of a walk of what a plugin emitted.
LEMMA OneCall ==
  ASSUME NEW f \in Frames
  PROVE  Len(<<f>>) = 1 /\ <<f>>[1] = f /\ <<f>> \in Seq(Frames)
OBVIOUS

\* A plugin emits events, which are walked without the internal ones.
LEMMA EmitEffect ==
  ASSUME DepthInv, HomeInv, NEW t \in Walkers, EmitEvents(t)
  PROVE  WalkerStep(t) /\ out[t] = Idle
<1>1. PICK n \in 1 .. BatchMax :
        /\ Len(log) + n <= MaxEvents
        /\ log' \in Created(log, n, t, t.of, {t.of}, {})
        /\ stack' = IF KeepEvents(NewBatch(log, n), log') = {} THEN stack
                    ELSE [stack EXCEPT ![t] = <<Walk(KeepEvents(NewBatch(log, n), log'), {t.of})>>]
  BY DEF EmitEvents
<1> DEFINE keep == KeepEvents(NewBatch(log, n), log')
           f == Walk(keep, {t.of})
<1>2. t \in Threads /\ t.of \in Plugins \cup Clients /\ t.of \in Plugins /\ n \in Nat \ {0}
      /\ log \in Seq(Entries) /\ {t.of} \in SUBSET Plugins /\ {} \in SUBSET Events
  BY ThreadKinds, LimitsAreNat DEF EmitEvents, DepthInv, WalkTypeOK
<1>3. Made(log, log', n, t, t.of, {t.of}, {}) /\ NewBatch(log, n) \in Batches
  BY <1>1, <1>2, CreatedMade
<1>4. /\ New = NewBatch(log, n) /\ DOMAIN log \subseteq DOMAIN log'
      /\ \A e \in DOMAIN log : log'[e] = log[e]
      /\ \A e \in New : log'[e].by = t /\ log'[e].chain = {t.of} /\ log'[e].cause = {} /\ e \in DOMAIN log'
  BY <1>3 DEF New, Made
<1>5. /\ t.kind = "emit" /\ out[t] = Idle /\ stack[t] = <<>> /\ Len(stack[t]) = 0
      /\ UNCHANGED <<pluginChan, bq, hq, shown, kept, out>>
      /\ stack \in [Walkers -> Seq(Frames)]
  BY DEF EmitEvents, Resting, DepthInv, WalkTypeOK
<1>6. /\ f.events = keep /\ f.publish = TRUE /\ f.skip = {t.of} /\ f.todo = Plugins
      /\ keep \subseteq New /\ \A e \in New : e \notin keep => Dropped(e)'
  BY <1>4, <1>5 DEF Walk, KeepEvents, Dropped
<1>7. Belongs(log', t, f)
  BY <1>4, <1>5, <1>6 DEF Belongs, KeepEvents, Jobs
<1>8. CASE keep = {}
  <2>1. stack' = stack
    BY <1>1, <1>8
  <2>2. \A e \in New : Dropped(e)'
    BY <1>6, <1>8
  <2> HIDE DEF f, keep
  <2> QED
    BY <1>4, <1>5, <2>1, <2>2 DEF WalkerStep, SameCall
<1>9. CASE keep # {}
  <2>1. stack' = [stack EXCEPT ![t] = <<f>>]
    BY <1>1, <1>9
  <2>2. f \in Frames
    BY <1>2, <1>3, <1>4, <1>6, <1>9 DEF Frames, Walk, Batches
  <2> HIDE DEF f, keep
  <2>3. stack'[t] = <<f>> /\ Len(stack'[t]) = 1 /\ stack'[t][1] = f
        /\ \A u \in Walkers \ {t} : stack'[u] = stack[u]
    BY <1>5, <2>1, <2>2, OneCall
  <2> QED
    BY <1>4, <1>5, <1>6, <1>7, <2>3 DEF WalkerStep
<1> QED
  BY <1>5, <1>8, <1>9

\* A cron job has made events, which are all walked.
LEMMA CronEffect ==
  ASSUME DepthInv, HomeInv, NEW t \in Walkers, CronRuns(t)
  PROVE  WalkerStep(t) /\ out[t] = Idle
<1>1. PICK n \in 1 .. BatchMax :
        /\ Len(log) + n <= MaxEvents
        /\ log' \in Created(log, n, t, t.of, {t.of}, {})
        /\ stack' = [stack EXCEPT ![t] = <<Walk(NewBatch(log, n), CronSkips(t.of))>>]
  BY DEF CronRuns
<1> DEFINE f == Walk(NewBatch(log, n), CronSkips(t.of))
<1>2. t \in Threads /\ t.of \in Plugins \cup Clients /\ t.of \in Plugins /\ n \in Nat \ {0}
      /\ log \in Seq(Entries) /\ {t.of} \in SUBSET Plugins /\ {} \in SUBSET Events
  BY ThreadKinds, LimitsAreNat DEF CronRuns, DepthInv, WalkTypeOK
<1>3. Made(log, log', n, t, t.of, {t.of}, {}) /\ NewBatch(log, n) \in Batches
  BY <1>1, <1>2, CreatedMade
<1>4. /\ New = NewBatch(log, n) /\ DOMAIN log \subseteq DOMAIN log'
      /\ \A e \in DOMAIN log : log'[e] = log[e]
      /\ \A e \in New : log'[e].by = t /\ log'[e].cause = {} /\ e \in DOMAIN log'
  BY <1>3 DEF New, Made
<1>5. /\ t.kind = "cron" /\ out[t] = Idle /\ stack[t] = <<>> /\ Len(stack[t]) = 0
      /\ UNCHANGED <<pluginChan, bq, hq, shown, kept, out>>
      /\ stack \in [Walkers -> Seq(Frames)] /\ t \in Jobs
  BY DEF CronRuns, Resting, DepthInv, WalkTypeOK, Walkers, Loops, Helpers
<1>6. f.events = New /\ f.publish = TRUE /\ f.todo = Plugins /\ f \in Frames
  BY <1>3, <1>4 DEF Walk, Frames, CronSkips, DepthInv, WalkTypeOK
<1>7. Belongs(log', t, f)
  BY <1>4, <1>5, <1>6 DEF Belongs
<1>8. stack' = [stack EXCEPT ![t] = <<f>>]
  BY <1>1
<1> HIDE DEF f
<1>9. stack'[t] = <<f>> /\ Len(stack'[t]) = 1 /\ stack'[t][1] = f
      /\ \A u \in Walkers \ {t} : stack'[u] = stack[u]
  BY <1>5, <1>6, <1>8, OneCall
<1> QED
  BY <1>4, <1>5, <1>6, <1>7, <1>9 DEF WalkerStep

\* A plugin is passed over.
LEMMA PassOverEffect ==
  ASSUME DepthInv, HomeInv, NEW t \in Walkers, NEW p \in Plugins, PassOver(t, p)
  PROVE  WalkerStep(t) /\ out[t] = Idle
<1> DEFINE s == SetTop(t, [Top(t) EXCEPT !.todo = AfterVisit(Top(t), p)])
           n == Len(stack[t])
<1>1. /\ Running(t) /\ out[t] = Idle /\ stack' = [stack EXCEPT ![t] = s]
      /\ UNCHANGED <<log, pluginChan, bq, hq, shown, kept, out>>
  BY DEF PassOver, Running
<1>2. Len(s) = n /\ \A i \in 1 .. n : SameCall(stack[t][i], s[i])
  BY <1>1, VisitFacts
<1>3. stack'[t] = s /\ \A u \in Walkers \ {t} : stack'[u] = stack[u]
  BY <1>1 DEF DepthInv, WalkTypeOK
<1> HIDE DEF s
<1> QED
  BY <1>1, <1>2, <1>3 DEF WalkerStep, New

\* A plugin is handed its events, and its answer is walked next.
LEMMA OfferEffect ==
  ASSUME DepthInv, HomeInv, NEW t \in Walkers, NEW p \in Plugins, Offer(t, p)
  PROVE  WalkerStep(t) /\ out[t] = Idle
<1> DEFINE passed == PassEvents(Top(t), p)
           chain == {p} \cup UNION {log[e].chain : e \in passed}
           s == SetTop(t, [Top(t) EXCEPT !.todo = AfterVisit(Top(t), p)])
           n == Len(stack[t])
<1>1. /\ Running(t) /\ out[t] = Idle /\ UNCHANGED <<pluginChan, bq, hq, shown, kept, out>>
      /\ passed # {} /\ stack[t] # <<>> /\ p \notin Top(t).skip
  BY DEF Offer, Running
<1>2. /\ n \in Nat \ {0} /\ s \in Seq(Frames) /\ Len(s) = n
      /\ \A i \in 1 .. n : SameCall(stack[t][i], s[i])
      /\ Top(t) \in Frames /\ Top(t) = stack[t][n]
  BY <1>1, VisitFacts
<1>3. passed \in SUBSET Events /\ passed \subseteq Top(t).events
  BY <1>2 DEF PassEvents, Frames, Batches
<1>4. Belongs(log, t, Top(t))
  BY <1>2 DEF HomeInv, HomesCall
<1>5. CASE stack' = [stack EXCEPT ![t] = s] /\ log' = log
  <2>1. stack'[t] = s /\ \A u \in Walkers \ {t} : stack'[u] = stack[u]
    BY <1>5 DEF DepthInv, WalkTypeOK
  <2> HIDE DEF s, passed, chain
  <2> QED
    BY <1>1, <1>2, <1>5, <2>1 DEF WalkerStep, New
<1>6. ASSUME NEW k \in 1 .. BatchMax, Len(log) + k <= MaxEvents,
             log' \in Created(log, k, t, p, chain, passed),
             stack' = [stack EXCEPT ![t] = Append(s, Walk(NewBatch(log, k), Skips(Top(t), p)))]
      PROVE  WalkerStep(t)
  <2> DEFINE w == Walk(NewBatch(log, k), Skips(Top(t), p))
  <2>1. chain \in SUBSET Plugins
    <3> SUFFICES ASSUME NEW e \in passed PROVE log[e].chain \subseteq Plugins
      OBVIOUS
    <3>1. e \in DOMAIN log
      BY <1>3, <1>4 DEF Belongs
    <3>2. log[e] \in Entries
      BY <3>1, LenProperties DEF DepthInv, WalkTypeOK
    <3> QED
      BY <3>2 DEF Entries
  <2>2. t \in Threads /\ p \in Plugins \cup Clients /\ k \in Nat \ {0} /\ log \in Seq(Entries)
    BY ThreadKinds, LimitsAreNat DEF DepthInv, WalkTypeOK
  <2>3. t \notin Jobs => chain = Skips(Top(t), p)
    BY <1>1, <1>3, <1>4 DEF Belongs, Skips
  <2>4. log' \in Created(log, k, t, p, chain, passed)
    BY <1>6
  <2>5. stack' = [stack EXCEPT ![t] = Append(s, w)]
    BY <1>6
  <2>6. \A e \in passed : t \in Jobs => log[e].by \in Jobs
    BY <1>3, <1>4 DEF Belongs
  <2>7. /\ w.events = NewBatch(log, k) /\ w.publish = TRUE
        /\ w.skip = Skips(Top(t), p) /\ w.todo = Plugins
    BY DEF Walk
  <2> HIDE DEF chain, passed, s, w
  <2>8. Made(log, log', k, t, p, chain, passed) /\ NewBatch(log, k) \in Batches
    BY <1>3, <1>6, <2>1, <2>2, <2>4, CreatedMade
  <2>9. /\ New = NewBatch(log, k) /\ DOMAIN log \subseteq DOMAIN log'
        /\ \A e \in DOMAIN log : log'[e] = log[e]
        /\ \A e \in New : /\ log'[e].by = t /\ log'[e].chain = chain
                          /\ log'[e].cause = passed /\ e \in DOMAIN log'
    BY <2>8 DEF New, Made
  <2>10. Belongs(log', t, w)
    BY <1>1, <2>3, <2>7, <2>9 DEF Belongs
  <2>11. w \in Frames
    BY <1>2, <2>8 DEF w, Walk, Frames, Skips
  <2>12. /\ Len(Append(s, w)) = n + 1 /\ Append(s, w)[n + 1] = w
         /\ \A i \in 1 .. n : Append(s, w)[i] = s[i]
    BY <1>2, <2>11, AppendProperties
  <2>13. stack'[t] = Append(s, w) /\ \A u \in Walkers \ {t} : stack'[u] = stack[u]
    BY <2>5 DEF DepthInv, WalkTypeOK
  <2>14. \A i \in 1 .. n : SameCall(stack[t][i], stack'[t][i])
    BY <1>2, <2>12, <2>13
  <2>15. \A i \in 1 .. Len(stack'[t]) : i \notin 1 .. n => stack'[t][i] = w
    BY <1>2, <2>12, <2>13
  <2>16. \A e \in New : /\ Len(stack'[t]) = n + 1 /\ e \in stack'[t][n + 1].events
                        /\ \A c \in log'[e].cause : stack[t] # <<>> /\ c \in stack[t][n].events
    BY <1>1, <1>2, <1>3, <2>7, <2>9, <2>12, <2>13
  <2> QED
    BY <1>1, <2>7, <2>9, <2>10, <2>12, <2>13, <2>14, <2>15, <2>16 DEF WalkerStep
<1> QED
  BY <1>1, <1>5, <1>6 DEF Offer

\* A PluginLoop takes a batch of its client and begins to walk it.
LEMMA TakeEffect ==
  ASSUME DepthInv, NEW t \in Walkers, LoopTake(t), NEW c, c = t.of
  PROVE  /\ c \in Clients /\ t = Loop(c) /\ t.kind = "loop" /\ t \notin Jobs
         /\ pluginChan[c] \in Seq(Batches) /\ pluginChan[c] # <<>>
         /\ pluginChan' = [pluginChan EXCEPT ![c] = Tail(@)]
         /\ stack[t] = <<>> /\ out[t] = Idle
         /\ stack'[t] \in Seq(Frames) /\ Len(stack'[t]) = 1
         /\ stack'[t][1].events = Head(pluginChan[c]) /\ stack'[t][1].todo = Plugins
         /\ stack'[t][1].skip = {} /\ stack'[t][1].publish = FALSE
         /\ \A u \in Walkers \ {t} : stack'[u] = stack[u]
         /\ UNCHANGED <<log, bq, hq, shown, kept, out, offers>>
<1> DEFINE f == [events |-> Head(pluginChan[c]), todo |-> Plugins, skip |-> {}, publish |-> FALSE]
<1>1. t.kind = "loop" /\ stack[t] = <<>> /\ out[t] = Idle /\ pluginChan[c] # <<>>
  BY DEF LoopTake, Resting
<1>2. c \in Clients /\ pluginChan[c] \in Seq(Batches)
  BY <1>1, ThreadKinds DEF DepthInv, WalkTypeOK
<1>3. t = Loop(c) /\ t \notin Jobs
  BY <1>1 DEF Walkers, Loops, Helpers, Jobs, Loop
<1>4. stack' = [stack EXCEPT ![t] = <<f>>] /\ pluginChan' = [pluginChan EXCEPT ![c] = Tail(@)]
  BY DEF LoopTake
<1>5. Head(pluginChan[c]) \in Batches
  BY <1>1, <1>2, TailApart
<1>6. f \in Frames
  BY <1>5 DEF Frames
<1>7. f.events = Head(pluginChan[c]) /\ f.todo = Plugins /\ f.skip = {} /\ f.publish = FALSE
  OBVIOUS
<1> HIDE DEF f
<1>8. stack'[t] = <<f>> /\ \A u \in Walkers \ {t} : stack'[u] = stack[u]
  BY <1>4 DEF DepthInv, WalkTypeOK
<1>9. UNCHANGED <<log, bq, hq, shown, kept, out, offers>>
  BY DEF LoopTake
<1> QED
  BY <1>1, <1>2, <1>3, <1>4, <1>6, <1>7, <1>8, <1>9, OneCall

\* handlePlugins returns, and handleEvents publishes.
LEMMA ReturnEffect ==
  ASSUME DepthInv, NEW t \in Walkers, Return(t), NEW n, n = Len(stack[t])
  PROVE  /\ n \in Nat \ {0} /\ stack[t] \in Seq(Frames) /\ stack[t] # <<>>
         /\ stack[t][n] \in Frames /\ stack[t][n].todo = {}
         /\ stack'[t] = Front(stack[t]) /\ stack'[t] \in Seq(Frames) /\ Len(stack'[t]) = n - 1
         /\ \A i \in 1 .. n - 1 : stack'[t][i] = stack[t][i]
         /\ \A u \in Walkers \ {t} : stack'[u] = stack[u]
         /\ out[t] = Idle
         /\ out'[t] = IF stack[t][n].publish
                      THEN [events |-> stack[t][n].events, to |-> HandleEventsTo] ELSE Idle
         /\ \A u \in Threads \ {t} : out'[u] = out[u]
         /\ UNCHANGED <<log, pluginChan, bq, hq, shown, kept, offers>>
<1>1. Running(t) /\ out[t] = Idle /\ Top(t).todo = {}
      /\ UNCHANGED <<log, pluginChan, bq, hq, shown, kept, offers>>
      /\ stack' = [stack EXCEPT ![t] = Front(@)]
      /\ out' = IF Top(t).publish
                THEN [out EXCEPT ![t] = [events |-> Top(t).events, to |-> HandleEventsTo]] ELSE out
  BY DEF Return, Running
<1>2. /\ stack[t] \in Seq(Frames) /\ stack[t] # <<>> /\ Top(t) \in Frames
      /\ Top(t) = stack[t][n] /\ n \in Nat \ {0}
  BY <1>1, TopCall
<1>3. /\ Front(stack[t]) \in Seq(Frames) /\ Len(Front(stack[t])) = n - 1
      /\ \A i \in 1 .. n - 1 : Front(stack[t])[i] = stack[t][i]
  BY <1>2, StackOps
<1>4. stack'[t] = Front(stack[t]) /\ \A u \in Walkers \ {t} : stack'[u] = stack[u]
  BY <1>1 DEF DepthInv, WalkTypeOK
<1>5. t \in Threads /\ out \in [Threads -> Sends]
  BY ThreadKinds DEF DepthInv, WalkTypeOK
<1>6. out'[t] = (IF Top(t).publish
                 THEN [events |-> Top(t).events, to |-> HandleEventsTo] ELSE Idle)
      /\ \A u \in Threads \ {t} : out'[u] = out[u]
  BY <1>1, <1>5
<1> QED
  BY <1>1, <1>2, <1>3, <1>4, <1>6

-----------------------------------------------------------------------------
\* What is known of an event stays, since nobody changes it.
LEMMA EventsStay ==
  ASSUME DOMAIN log \subseteq DOMAIN log', \A e \in DOMAIN log : log'[e] = log[e]
  PROVE  /\ \A t, f : Belongs(log, t, f) => Belongs(log', t, f)
         /\ \A e \in DOMAIN log : (Dropped(e)' <=> Dropped(e)) /\ (NoCron(e)' <=> NoCron(e))
         /\ \A e \in DOMAIN log : \A p : Due(e, p)' = Due(e, p)
BY DEF Belongs, Dropped, NoCron, Due, PassesFilter

\* Every event keeps to its own way.
LEMMA HomeNext == DepthInv /\ FlowInv /\ HomeInv /\ [Next]_vars => HomeInv'
<1> SUFFICES ASSUME DepthInv, FlowInv, HomeInv, [Next]_vars PROVE HomeInv'
  OBVIOUS
<1>a. DOMAIN log \subseteq DOMAIN log' /\ \A e \in DOMAIN log : log'[e] = log[e]
  BY LogGrows
<1>b. /\ \A t, f : Belongs(log, t, f) => Belongs(log', t, f)
      /\ \A e \in DOMAIN log : Dropped(e)' <=> Dropped(e)
  BY <1>a, EventsStay
<1>c. pluginChan' = pluginChan => HomesChan'
  BY <1>a DEF HomeInv, HomesChan
<1>d. out' = out => Routed' /\ HomesOut'
  BY <1>a, <1>b DEF HomeInv, Routed, HomesOut
<1>e. stack' = stack => HomesCall'
  BY <1>b DEF HomeInv, HomesCall
<1>f. \A t \in Walkers : t \in Threads /\ t \notin Readers
  BY ThreadKinds
<1>g. ASSUME NEW t \in Walkers, WalkerStep(t) PROVE HomeInv'
  <2>1. ASSUME NEW i \in 1 .. Len(stack'[t]) PROVE Belongs(log', t, stack'[t][i])
    <3>1. CASE i \in 1 .. Len(stack[t])
      <4>1. Belongs(log', t, stack[t][i])
        BY <1>b, <3>1 DEF HomeInv, HomesCall
      <4> QED
        BY <1>g, <3>1, <4>1 DEF WalkerStep, SameCall, Belongs
    <3>2. CASE i \notin 1 .. Len(stack[t])
      BY <1>g, <2>1, <3>2 DEF WalkerStep
    <3> QED
      BY <3>1, <3>2
  <2>2. HomesCall'
    BY <1>b, <1>g, <2>1 DEF HomeInv, HomesCall, WalkerStep
  <2> QED
    BY <1>c, <1>d, <1>g, <2>2 DEF HomeInv, WalkerStep
<1>1. ASSUME NEW t \in Readers, Read(t) \/ Greet(t) PROVE HomeInv'
  <2>1. PICK to \in RoutesOf(t) : out'[t] = [events |-> NewBatch(log, 1), to |-> to]
    BY <1>1, ReadEffect
  <2>2. /\ Made(log, log', 1, t, t.of, {}, {}) /\ NewBatch(log, 1) \in Batches
        /\ \A u \in Threads \ {t} : out'[u] = out[u]
        /\ UNCHANGED <<pluginChan, stack>>
    BY <1>1, ReadEffect
  <2>3. out'[t].events = NewBatch(log, 1) /\ out'[t].to = to
    BY <2>1
  <2>4. Routed'
    BY <2>2, <2>3 DEF HomeInv, Routed, Batches
  <2>5. HomesOut'
    <3>1. t.kind # "emit"
      BY DEF Readers
    <3>2. \A e \in NewBatch(log, 1) : e \in DOMAIN log' /\ log'[e].by = t /\ ~Dropped(e)'
      BY <2>2, <3>1 DEF Made, Dropped
    <3> QED
      BY <1>a, <1>b, <2>2, <2>3, <3>2 DEF HomeInv, HomesOut
  <2> QED
    BY <1>c, <1>e, <2>2, <2>4, <2>5 DEF HomeInv
<1>2. ASSUME NEW t \in Threads, Send(t) PROVE HomeInv'
  <2> DEFINE d == Head(out[t].to)
             b == out[t].events
  <2>1. /\ b \in Batches
        /\ out'[t] = Idle \/ (out'[t].events = b /\ out'[t].to \in RoutesOf(t))
        /\ out'[t].events \subseteq b
        /\ \A u \in Threads \ {t} : out'[u] = out[u]
        /\ d = "plugin" => t \in Readers
        /\ pluginChan' = IF d = "plugin" THEN [pluginChan EXCEPT ![t.of] = Append(@, b)]
                         ELSE pluginChan
        /\ UNCHANGED <<log, stack>>
    BY <1>2, SendEffect
  <2> HIDE DEF d
  <2>2. Routed'
    BY <2>1 DEF HomeInv, Routed, Batches
  <2>3. HomesOut'
    BY <1>b, <2>1 DEF HomeInv, HomesOut
  <2>4. HomesChan'
    <3>1. CASE d = "plugin"
      <4>1. t.of \in Clients /\ pluginChan \in [Clients -> Seq(Batches)]
        BY <2>1, <3>1, ThreadKinds DEF DepthInv, WalkTypeOK
      <4>2. \A c \in Clients : In(pluginChan'[c]) =
              IF c = t.of THEN In(pluginChan[c]) \cup b ELSE In(pluginChan[c])
        <5>1. In(Append(pluginChan[t.of], b)) = In(pluginChan[t.of]) \cup b
          BY <2>1, <4>1, AppendApart
        <5> QED
          BY <2>1, <3>1, <4>1, <5>1
      <4> QED
        <5>1. \A e \in b : e \in DOMAIN log /\ log[e].by = t
          BY DEF HomeInv, HomesOut
        <5>2. \A c \in Clients : \A e \in In(pluginChan'[c]) : e \in In(pluginChan[c]) \/ (c = t.of /\ e \in b)
          BY <4>2
        <5> QED
          BY <2>1, <3>1, <5>1, <5>2 DEF HomeInv, HomesChan
    <3>2. CASE d # "plugin"
      BY <1>c, <2>1, <3>2
    <3> QED
      BY <3>1, <3>2
  <2> QED
    BY <1>e, <2>1, <2>2, <2>3, <2>4 DEF HomeInv
<1>3. ASSUME NEW t \in Walkers, LoopTake(t) PROVE HomeInv'
  <2> DEFINE c == t.of
             b == Head(pluginChan[c])
  <2>1. /\ c \in Clients /\ t = Loop(c) /\ t.kind = "loop" /\ t \notin Jobs
        /\ pluginChan[c] \in Seq(Batches) /\ pluginChan[c] # <<>>
        /\ pluginChan' = [pluginChan EXCEPT ![c] = Tail(@)]
        /\ Len(stack'[t]) = 1 /\ stack'[t][1].events = b
        /\ stack'[t][1].skip = {} /\ stack'[t][1].publish = FALSE
        /\ \A u \in Walkers \ {t} : stack'[u] = stack[u]
        /\ UNCHANGED <<log, out>>
    BY <1>3, TakeEffect
  <2>2. b \in Batches /\ In(pluginChan[c]) = b \cup In(Tail(pluginChan[c]))
    BY <2>1, TailApart
  <2>3. HomesChan'
    BY <2>1, <2>2 DEF HomeInv, HomesChan, DepthInv, WalkTypeOK
  <2>4. \A e \in b : /\ e \in DOMAIN log /\ log[e].by \in Readers /\ log[e].by.of = c
                     /\ log[e].chain = {} /\ log[e].by.kind # "emit"
    <3>1. Fresh(log, b)
      BY <2>1, EmptySeq, HeadTailProperties DEF FlowInv, FreshInChan
    <3> QED
      BY <2>1, <2>2, <3>1 DEF HomeInv, HomesChan, Readers, Fresh
  <2>5. Belongs(log', t, stack'[t][1])
    BY <2>1, <2>4 DEF Belongs
  <2>6. HomesCall'
    <3>1. \A i \in 1 .. Len(stack'[t]) : i = 1
      BY <2>1
    <3> QED
      BY <1>b, <2>1, <2>5, <3>1 DEF HomeInv, HomesCall
  <2> QED
    BY <1>d, <2>1, <2>3, <2>6 DEF HomeInv
<1>4. ASSUME NEW t \in Walkers, Return(t) PROVE HomeInv'
  <2> DEFINE n == Len(stack[t])
             f == stack[t][n]
  <2>1. /\ n \in Nat \ {0} /\ f \in Frames /\ Len(stack'[t]) = n - 1
        /\ \A i \in 1 .. n - 1 : stack'[t][i] = stack[t][i]
        /\ \A u \in Walkers \ {t} : stack'[u] = stack[u]
        /\ out'[t] = (IF f.publish THEN [events |-> f.events, to |-> HandleEventsTo] ELSE Idle)
        /\ \A u \in Threads \ {t} : out'[u] = out[u]
        /\ UNCHANGED <<log, pluginChan>>
    BY <1>4, ReturnEffect
  <2>2. Belongs(log', t, f) /\ t \in Threads /\ t.kind \notin {"read", "greet"}
    <3>1. n \in 1 .. Len(stack[t])
      BY <2>1
    <3> QED
      BY <1>b, <3>1, ThreadKinds DEF HomeInv, HomesCall
  <2> HIDE DEF f, n
  <2>3. out'[t] = Idle \/ (f.publish /\ out'[t].events = f.events /\ out'[t].to = HandleEventsTo)
    BY <2>1
  <2>4. f.events # {} /\ HandleEventsTo \in RoutesOf(t)
    BY <2>1, <2>2 DEF Frames, Batches, RoutesOf
  <2>5. Routed'
    BY <2>1, <2>3, <2>4 DEF HomeInv, Routed
  <2>6. HomesOut'
    <3>1. \A e \in out'[t].events : e \in DOMAIN log' /\ log'[e].by = t /\ ~Dropped(e)'
      BY <2>2, <2>3 DEF Belongs, Dropped, Idle
    <3> QED
      BY <1>b, <2>1, <3>1 DEF HomeInv, HomesOut
  <2>7. HomesCall'
    <3>1. 1 .. n - 1 \subseteq 1 .. n
      BY <2>1
    <3> QED
      BY <1>b, <2>1, <3>1 DEF HomeInv, HomesCall, n
  <2> QED
    BY <1>c, <2>1, <2>5, <2>6, <2>7 DEF HomeInv
<1>5. CASE HubBroadcast \/ HubHistory
  BY <1>5, <1>c, <1>d, <1>e DEF HubBroadcast, HubHistory, HomeInv
<1>6. CASE UNCHANGED vars
  BY <1>6, <1>c, <1>d, <1>e DEF vars, HomeInv
<1> QED
  BY <1>g, <1>1, <1>2, <1>3, <1>4, <1>5, <1>6, EmitEffect, CronEffect, PassOverEffect, OfferEffect DEF Next

-----------------------------------------------------------------------------
\* What is walked after a step of a walk: the same, and perhaps what was just made.
LEMMA WalkerCalls ==
  ASSUME DepthInv, DepthInv', HomeInv, NEW t \in Walkers, WalkerStep(t)
  PROVE  /\ In(Walked(stack'[t])) \subseteq In(Walked(stack[t])) \cup New
         /\ In(Walked(stack[t])) \subseteq In(Walked(stack'[t]))
         /\ Apart(Walked(stack[t])) => Apart(Walked(stack'[t]))
<1> DEFINE s == stack[t]
           r == stack'[t]
<1>1. s \in Seq(Frames) /\ r \in Seq(Frames)
  BY DEF DepthInv, WalkTypeOK
<1>2. /\ Len(s) \in Nat /\ (Len(r) = Len(s) \/ Len(r) = Len(s) + 1)
      /\ \A i \in 1 .. Len(s) : r[i].events = s[i].events /\ i \in 1 .. Len(r)
      /\ \A i \in 1 .. Len(r) : i \notin 1 .. Len(s) => r[i].events \subseteq New
      /\ \A i \in 1 .. Len(s) : s[i].events \cap New = {}
  <2>1. \A i \in 1 .. Len(s) : s[i].events \cap New = {}
    BY DEF HomeInv, HomesCall, Belongs, New
  <2>2. Len(s) \in Nat
    BY <1>1, LenProperties
  <2> QED
    BY <2>1, <2>2 DEF WalkerStep, SameCall
<1>3. /\ \A i \in 1 .. Len(s) : Walked(s)[i] = s[i].events
      /\ \A e : e \in In(Walked(s)) <=> \E i \in 1 .. Len(s) : e \in s[i].events
      /\ Len(Walked(s)) = Len(s)
      /\ \A i \in 1 .. Len(r) : Walked(r)[i] = r[i].events
      /\ \A e : e \in In(Walked(r)) <=> \E i \in 1 .. Len(r) : e \in r[i].events
      /\ Len(Walked(r)) = Len(r)
  BY <1>1, WalkedOps
<1> HIDE DEF s, r
<1>4. In(Walked(r)) \subseteq In(Walked(s)) \cup New
  <2> SUFFICES ASSUME NEW e \in In(Walked(r)), e \notin New PROVE e \in In(Walked(s))
    OBVIOUS
  <2>1. PICK i \in 1 .. Len(r) : e \in r[i].events
    BY <1>3
  <2>2. i \in 1 .. Len(s)
    BY <1>2, <2>1
  <2> QED
    BY <1>2, <1>3, <2>1, <2>2
<1>5. In(Walked(s)) \subseteq In(Walked(r))
  BY <1>2, <1>3
<1>6. ASSUME Apart(Walked(s)), NEW i \in 1 .. Len(r), NEW j \in 1 .. Len(r), i # j
      PROVE  r[i].events \cap r[j].events = {}
  <2>1. \A k, l \in 1 .. Len(s) : k # l => s[k].events \cap s[l].events = {}
    BY <1>3, <1>6 DEF Apart
  <2>2. CASE i \in 1 .. Len(s) /\ j \in 1 .. Len(s)
    BY <1>2, <1>6, <2>1, <2>2
  <2>3. CASE i \notin 1 .. Len(s)
    <3>1. j \in 1 .. Len(s)
      BY <1>2, <1>6, <2>3
    <3> QED
      BY <1>2, <2>3, <3>1
  <2>4. CASE j \notin 1 .. Len(s)
    <3>1. i \in 1 .. Len(s)
      BY <1>2, <1>6, <2>4
    <3> QED
      BY <1>2, <2>4, <3>1
  <2> QED
    BY <2>2, <2>3, <2>4
<1>7. Apart(Walked(s)) => Apart(Walked(r))
  BY <1>3, <1>6 DEF Apart
<1> QED
  BY <1>4, <1>5, <1>7 DEF s, r

\* What a PluginLoop has taken is all that it walks.
LEMMA WalkedOne ==
  ASSUME NEW s \in Seq(Frames), Len(s) = 1
  PROVE  In(Walked(s)) = s[1].events /\ Apart(Walked(s))
<1>1. /\ \A e : e \in In(Walked(s)) <=> \E i \in 1 .. Len(s) : e \in s[i].events
      /\ Len(Walked(s)) = Len(s)
  BY WalkedOps
<1>2. \A i \in 1 .. Len(s) : i = 1
  OBVIOUS
<1>3. 1 \in 1 .. Len(s)
  OBVIOUS
<1> QED
  BY <1>1, <1>2, <1>3 DEF Apart

\* Each event comes to the plugins once.
LEMMA OneWalkNext == DepthInv /\ FlowInv /\ HomeInv /\ OneWalk /\ [Next]_vars => OneWalk'
<1> SUFFICES ASSUME DepthInv, FlowInv, HomeInv, OneWalk, [Next]_vars PROVE OneWalk'
  OBVIOUS
<1>a. DepthInv'
  BY DepthNext
<1>b. /\ \A c \in Clients : Loop(c) \in Walkers
      /\ \A r \in Readers : r \in Threads /\ r.of \in Clients
      /\ \A t \in Walkers : t \in Threads /\ t \notin Readers
  BY ThreadKinds DEF Loop, Walkers, Loops
<1>c. \A t \in Threads : OnWay("plugin", t) \subseteq out[t].events
  BY DEF OnWay, Toward
<1>d. /\ \A c \in Clients : In(pluginChan[c]) \subseteq DOMAIN log
      /\ \A t \in Walkers : In(Walked(stack[t])) \subseteq DOMAIN log
      /\ \A t \in Threads : out[t].events \subseteq DOMAIN log
  <2>1. ASSUME NEW t \in Walkers PROVE In(Walked(stack[t])) \subseteq DOMAIN log
    <3>1. \A e : e \in In(Walked(stack[t])) <=> \E i \in 1 .. Len(stack[t]) : e \in stack[t][i].events
      BY WalkedOps DEF DepthInv, WalkTypeOK
    <3> QED
      BY <3>1 DEF HomeInv, HomesCall, Belongs
  <2> QED
    BY <2>1 DEF HomeInv, HomesChan, HomesOut
<1>e. pluginChan \in [Clients -> Seq(Batches)] /\ \A t \in Walkers : stack[t] \in Seq(Frames)
  BY DEF DepthInv, WalkTypeOK
<1>g. ASSUME NEW t \in Walkers, WalkerStep(t) PROVE OneWalk'
  <2>1. /\ In(Walked(stack'[t])) \subseteq In(Walked(stack[t])) \cup New
        /\ Apart(Walked(stack'[t]))
    BY <1>a, <1>g, WalkerCalls DEF OneWalk
  <2>2. pluginChan' = pluginChan /\ out' = out /\ \A u \in Walkers \ {t} : stack'[u] = stack[u]
    BY <1>g DEF WalkerStep
  <2>3. New \cap DOMAIN log = {}
    BY DEF New
  <2>4. ASSUME NEW c \in Clients
        PROVE  /\ In(Walked(stack'[Loop(c)])) \subseteq In(Walked(stack[Loop(c)])) \cup New
               /\ In(pluginChan'[c]) \cap In(Walked(stack'[Loop(c)])) = {}
    <3>1. In(Walked(stack'[Loop(c)])) \subseteq In(Walked(stack[Loop(c)])) \cup New
      BY <1>b, <2>1, <2>2
    <3> QED
      BY <1>d, <2>2, <2>3, <3>1 DEF OneWalk
  <2>5. ASSUME NEW r \in Readers
        PROVE  OnWay("plugin", r)' \cap (In(pluginChan'[r.of]) \cup In(Walked(stack'[Loop(r.of)]))) = {}
    <3>1. OnWay("plugin", r)' = OnWay("plugin", r) /\ OnWay("plugin", r) \subseteq DOMAIN log
      BY <1>b, <1>c, <1>d, <2>2 DEF OnWay
    <3> QED
      BY <1>b, <2>2, <2>3, <2>4, <3>1 DEF OneWalk
  <2>6. \A u \in Walkers : Apart(Walked(stack'[u]))
    BY <2>1, <2>2 DEF OneWalk
  <2> QED
    BY <2>2, <2>4, <2>5, <2>6 DEF OneWalk
<1>1. ASSUME NEW t \in Readers, Read(t) \/ Greet(t) PROVE OneWalk'
  <2>1. /\ Made(log, log', 1, t, t.of, {}, {})
        /\ \E to \in RoutesOf(t) : out'[t] = [events |-> NewBatch(log, 1), to |-> to]
        /\ \A u \in Threads \ {t} : out'[u] = out[u]
        /\ UNCHANGED <<pluginChan, stack>>
    BY <1>1, ReadEffect
  <2>2. OnWay("plugin", t)' \subseteq NewBatch(log, 1)
    <3>1. out'[t].events = NewBatch(log, 1)
      BY <2>1
    <3> QED
      BY <3>1 DEF OnWay, Toward
  <2>3. NewBatch(log, 1) \cap DOMAIN log = {}
    BY <2>1 DEF Made
  <2>4. \A r \in Readers \ {t} : OnWay("plugin", r)' = OnWay("plugin", r)
    BY <1>b, <2>1 DEF OnWay
  <2>5. ASSUME NEW r \in Readers
        PROVE  OnWay("plugin", r)' \cap (In(pluginChan[r.of]) \cup In(Walked(stack[Loop(r.of)]))) = {}
    BY <1>b, <1>d, <2>2, <2>3, <2>4 DEF OneWalk
  <2> QED
    BY <2>1, <2>5 DEF OneWalk
<1>2. ASSUME NEW t \in Threads, Send(t) PROVE OneWalk'
  <2> DEFINE d == Head(out[t].to)
             b == out[t].events
  <2>1. /\ b \in Batches /\ d \in Places
        /\ \A u \in Threads \ {t} : out'[u] = out[u]
        /\ Toward(out[t], d) = b /\ Toward(out'[t], d) = {}
        /\ \A x \in Places \ {d} : Toward(out'[t], x) = Toward(out[t], x)
        /\ d = "plugin" => t \in Readers
        /\ pluginChan' = IF d = "plugin" THEN [pluginChan EXCEPT ![t.of] = Append(@, b)]
                         ELSE pluginChan
        /\ UNCHANGED <<log, stack>>
    BY <1>2, SendEffect
  <2> HIDE DEF d, b
  <2>2. CASE d # "plugin"
    <3>1. \A r \in Readers : OnWay("plugin", r)' = OnWay("plugin", r)
      BY <1>b, <2>1, <2>2 DEF OnWay, Places
    <3> QED
      BY <2>1, <2>2, <3>1 DEF OneWalk
  <2>3. CASE d = "plugin"
    <3> DEFINE c == t.of
               q == pluginChan[c]
    <3>1. t \in Readers /\ c \in Clients /\ q \in Seq(Batches)
      BY <1>b, <1>e, <2>1, <2>3
    <3>2. b = OnWay("plugin", t) /\ OnWay("plugin", t)' = {}
          /\ \A r \in Readers \ {t} : OnWay("plugin", r)' = OnWay("plugin", r)
      BY <1>b, <2>1, <2>3 DEF OnWay
    <3>3. In(Append(q, b)) = In(q) \cup b /\ Apart(Append(q, b))
      BY <2>1, <3>1, <3>2, AppendApart DEF OneWalk
    <3>4. /\ pluginChan'[c] = Append(q, b)
          /\ \A x \in Clients \ {c} : pluginChan'[x] = pluginChan[x]
      BY <1>e, <2>1, <2>3, <3>1
    <3> HIDE DEF q
    <3>5. In(pluginChan'[c]) = In(pluginChan[c]) \cup b /\ Apart(pluginChan'[c])
      BY <3>3, <3>4 DEF q
    <3>6. ASSUME NEW x \in Clients
          PROVE  Apart(pluginChan'[x]) /\ In(pluginChan'[x]) \cap In(Walked(stack'[Loop(x)])) = {}
      <4>1. b \cap In(Walked(stack[Loop(c)])) = {}
        BY <3>1, <3>2 DEF OneWalk
      <4> QED
        BY <2>1, <3>1, <3>4, <3>5, <4>1 DEF OneWalk
    <3>7. ASSUME NEW r \in Readers
          PROVE  OnWay("plugin", r)' \cap (In(pluginChan'[r.of]) \cup In(Walked(stack'[Loop(r.of)]))) = {}
      <4>1. CASE r = t
        BY <3>2, <4>1
      <4>2. CASE r # t
        <5>1. OnWay("plugin", r) \cap b = {}
          <6>1. \A e \in OnWay("plugin", r) : log[e].by = r
            BY <1>b, <1>c DEF HomeInv, HomesOut
          <6>2. \A e \in b : log[e].by = t
            BY DEF HomeInv, HomesOut, b
          <6> QED
            BY <4>2, <6>1, <6>2
        <5>2. In(pluginChan'[r.of]) \subseteq In(pluginChan[r.of]) \cup b
          BY <1>b, <3>4, <3>5
        <5> QED
          BY <2>1, <3>2, <4>2, <5>1, <5>2 DEF OneWalk
      <4> QED
        BY <4>1, <4>2
    <3> QED
      BY <2>1, <3>6, <3>7 DEF OneWalk
  <2> QED
    BY <2>2, <2>3
<1>3. ASSUME NEW t \in Walkers, LoopTake(t) PROVE OneWalk'
  <2> DEFINE c == t.of
             b == Head(pluginChan[c])
  <2>1. /\ c \in Clients /\ t = Loop(c)
        /\ pluginChan[c] \in Seq(Batches) /\ pluginChan[c] # <<>>
        /\ pluginChan' = [pluginChan EXCEPT ![c] = Tail(@)]
        /\ stack'[t] \in Seq(Frames) /\ Len(stack'[t]) = 1 /\ stack'[t][1].events = b
        /\ \A u \in Walkers \ {t} : stack'[u] = stack[u]
        /\ UNCHANGED <<log, out>>
    BY <1>3, TakeEffect
  <2>2. In(Walked(stack'[t])) = b /\ Apart(Walked(stack'[t]))
    BY <2>1, WalkedOne
  <2>3. /\ In(pluginChan[c]) = b \cup In(Tail(pluginChan[c]))
        /\ Apart(Tail(pluginChan[c])) /\ b \cap In(Tail(pluginChan[c])) = {}
    BY <2>1, TailApart DEF OneWalk
  <2>4. pluginChan'[c] = Tail(pluginChan[c]) /\ \A x \in Clients \ {c} : pluginChan'[x] = pluginChan[x]
    BY <1>e, <2>1
  <2> HIDE DEF b, c
  <2>5. \A x \in Clients \ {c} : Loop(x) \in Walkers \ {t}
    BY <1>b, <2>1 DEF Loop
  <2>6. ASSUME NEW x \in Clients
        PROVE  Apart(pluginChan'[x]) /\ In(pluginChan'[x]) \cap In(Walked(stack'[Loop(x)])) = {}
    <3>1. CASE x = c
      BY <2>1, <2>2, <2>3, <2>4, <3>1
    <3>2. CASE x # c
      BY <2>1, <2>4, <2>5, <3>2 DEF OneWalk
    <3> QED
      BY <3>1, <3>2
  <2>7. ASSUME NEW r \in Readers
        PROVE  OnWay("plugin", r)' \cap (In(pluginChan'[r.of]) \cup In(Walked(stack'[Loop(r.of)]))) = {}
    <3>1. OnWay("plugin", r)' = OnWay("plugin", r)
      BY <2>1 DEF OnWay
    <3>2. CASE r.of = c
      BY <2>1, <2>2, <2>3, <2>4, <3>1, <3>2 DEF OneWalk
    <3>3. CASE r.of # c
      BY <1>b, <2>1, <2>4, <2>5, <3>1, <3>3 DEF OneWalk
    <3> QED
      BY <3>2, <3>3
  <2>8. \A u \in Walkers : Apart(Walked(stack'[u]))
    BY <2>1, <2>2 DEF OneWalk
  <2> QED
    BY <2>6, <2>7, <2>8 DEF OneWalk
<1>4. ASSUME NEW t \in Walkers, Return(t) PROVE OneWalk'
  <2>1. /\ stack[t] \in Seq(Frames) /\ stack[t] # <<>> /\ stack'[t] = Front(stack[t])
        /\ \A u \in Walkers \ {t} : stack'[u] = stack[u]
        /\ \A u \in Threads \ {t} : out'[u] = out[u]
        /\ UNCHANGED <<log, pluginChan>>
    BY <1>4, ReturnEffect
  <2>2. /\ In(Walked(stack'[t])) \subseteq In(Walked(stack[t]))
        /\ Apart(Walked(stack'[t]))
    BY <2>1, WalkedFront DEF OneWalk
  <2>3. \A u \in Walkers : In(Walked(stack'[u])) \subseteq In(Walked(stack[u])) /\ Apart(Walked(stack'[u]))
    BY <2>1, <2>2 DEF OneWalk
  <2>4. \A r \in Readers : OnWay("plugin", r)' = OnWay("plugin", r)
    BY <1>b, <2>1 DEF OnWay
  <2>5. ASSUME NEW c \in Clients
        PROVE  Apart(pluginChan'[c]) /\ In(pluginChan'[c]) \cap In(Walked(stack'[Loop(c)])) = {}
    BY <1>b, <2>1, <2>3 DEF OneWalk
  <2>6. ASSUME NEW r \in Readers
        PROVE  OnWay("plugin", r)' \cap (In(pluginChan'[r.of]) \cup In(Walked(stack'[Loop(r.of)]))) = {}
    <3>1. In(Walked(stack'[Loop(r.of)])) \subseteq In(Walked(stack[Loop(r.of)]))
      BY <1>b, <2>3
    <3> QED
      BY <2>1, <2>4, <3>1 DEF OneWalk
  <2> QED
    BY <2>3, <2>5, <2>6 DEF OneWalk
<1>5. CASE HubBroadcast \/ HubHistory
  BY <1>5 DEF HubBroadcast, HubHistory, OneWalk, OnWay
<1>6. CASE UNCHANGED vars
  BY <1>6 DEF vars, OneWalk, OnWay
<1> QED
  BY <1>g, <1>1, <1>2, <1>3, <1>4, <1>5, <1>6, EmitEffect, CronEffect, PassOverEffect, OfferEffect DEF Next

-----------------------------------------------------------------------------
\* An event is walked in one call only, of one goroutine.
LEMMA OnePlace ==
  ASSUME DepthInv, HomeInv, OneWalk, NEW e,
         NEW t \in Walkers, NEW i \in 1 .. Len(stack[t]), e \in stack[t][i].events,
         NEW u \in Walkers, NEW j \in 1 .. Len(stack[u]), e \in stack[u][j].events
  PROVE  t = u /\ i = j
<1>1. \A x \in Walkers : x \notin Readers /\ (x.kind = "loop" => x = Loop(x.of))
  BY ThreadKinds DEF Walkers, Loops, Helpers, Jobs, Loop
<1>2. Belongs(log, t, stack[t][i]) /\ Belongs(log, u, stack[u][j])
  BY DEF HomeInv, HomesCall
<1>3. t = u
  BY <1>1, <1>2 DEF Belongs
<1>4. /\ Len(Walked(stack[t])) = Len(stack[t])
      /\ \A k \in 1 .. Len(stack[t]) : Walked(stack[t])[k] = stack[t][k].events
  BY WalkedOps DEF DepthInv, WalkTypeOK
<1>5. \A k, l \in 1 .. Len(stack[t]) : k # l => stack[t][k].events \cap stack[t][l].events = {}
  <2>1. Apart(Walked(stack[t]))
    BY DEF OneWalk
  <2> QED
    BY <1>4, <2>1 DEF Apart
<1>6. i = j
  BY <1>3, <1>5
<1> QED
  BY <1>3, <1>6

\* An event that a step neither moves nor offers is as right as before.
LEMMA Unmoved ==
  ASSUME NEW e, Right(e), \A p \in Plugins : offers'[e][p] = offers[e][p],
         \A p \in Plugins : Due(e, p)' = Due(e, p),
         WaitsFor(e)' <=> WaitsFor(e),
         \A u \in Walkers : \A i \in 1 .. Len(stack'[u]) : e \in stack'[u][i].events =>
           /\ i \in 1 .. Len(stack[u]) /\ e \in stack[u][i].events
           /\ stack'[u][i].todo = stack[u][i].todo,
         \A u \in Walkers : e \in In(Walked(stack[u])) => e \in In(Walked(stack'[u]))
  PROVE  Right(e)'
<1> SUFFICES ASSUME NEW p \in Plugins
             PROVE  /\ WaitsFor(e)' => offers'[e][p] = 0
                    /\ \A t \in Walkers : \A i \in 1 .. Len(stack'[t]) : e \in stack'[t][i].events =>
                         offers'[e][p] = IF p \in stack'[t][i].todo THEN 0 ELSE Due(e, p)'
                    /\ ~WaitsFor(e)' /\ (\A t \in Walkers : e \notin In(Walked(stack'[t])))
                         => offers'[e][p] = Due(e, p)'
  BY Zenon DEF Right
<1>1. WaitsFor(e)' => offers'[e][p] = 0
  BY DEF Right
<1>2. ASSUME NEW t \in Walkers, NEW i \in 1 .. Len(stack'[t]), e \in stack'[t][i].events
      PROVE  offers'[e][p] = IF p \in stack'[t][i].todo THEN 0 ELSE Due(e, p)'
  <2>1. /\ i \in 1 .. Len(stack[t]) /\ e \in stack[t][i].events
        /\ stack'[t][i].todo = stack[t][i].todo
    BY <1>2
  <2>2. offers[e][p] = IF p \in stack[t][i].todo THEN 0 ELSE Due(e, p)
    BY <2>1 DEF Right
  <2> QED
    BY <2>1, <2>2
<1>3. ~WaitsFor(e)' /\ (\A t \in Walkers : e \notin In(Walked(stack'[t])))
        => offers'[e][p] = Due(e, p)'
  BY DEF Right
<1> QED
  BY <1>1, <1>2, <1>3

\* The innermost call has been to plugin p: its events were handed over, or not due.
LEMMA Visited ==
  ASSUME DepthInv, DepthInv', HomeInv, OneWalk, NEW t \in Walkers, Running(t), WalkerStep(t),
         NEW n, n = Len(stack[t]), NEW p \in Plugins, p \in Top(t).todo,
         \A i \in 1 .. n - 1 : stack'[t][i].todo = stack[t][i].todo,
         stack'[t][n].todo = Top(t).todo \ {p},
         NEW e \in DOMAIN log, Right(e), NEW k \in {0, 1},
         \A q \in Plugins : offers'[e][q] = IF q = p THEN offers[e][q] + k ELSE offers[e][q],
         k = IF e \in Top(t).events THEN Due(e, p) ELSE 0
  PROVE  Right(e)'
<1>1. n \in Nat \ {0} /\ n \in 1 .. n /\ Top(t) = stack[t][n] /\ stack[t] \in Seq(Frames)
  BY TopCall
<1>2. /\ UNCHANGED <<pluginChan, out>> /\ \A u \in Walkers \ {t} : stack'[u] = stack[u]
      /\ DOMAIN log \subseteq DOMAIN log' /\ \A x \in DOMAIN log : log'[x] = log[x]
      /\ Len(stack'[t]) = n \/ Len(stack'[t]) = n + 1
      /\ \A i \in 1 .. n : stack'[t][i].events = stack[t][i].events
      /\ \A i \in 1 .. Len(stack'[t]) : i \notin 1 .. n => stack'[t][i].events \subseteq New
  BY DEF WalkerStep, SameCall
<1>3. \A q : Due(e, q)' = Due(e, q)
  BY <1>2, EventsStay
<1>4. WaitsFor(e)' <=> WaitsFor(e)
  BY <1>2 DEF WaitsFor, OnWay
<1>5. \A u \in Walkers : e \in In(Walked(stack[u])) => e \in In(Walked(stack'[u]))
  BY <1>2, WalkerCalls
<1>6. \A u \in Walkers : \A i \in 1 .. Len(stack'[u]) : e \in stack'[u][i].events =>
        i \in 1 .. Len(stack[u]) /\ e \in stack[u][i].events
  <2> SUFFICES ASSUME NEW i \in 1 .. Len(stack'[t]), e \in stack'[t][i].events
               PROVE  i \in 1 .. n /\ e \in stack[t][i].events
    BY <1>2
  <2>1. e \notin New
    BY DEF New
  <2> QED
    BY <1>2, <2>1
<1>7. CASE e \notin Top(t).events
  <2>1. \A q \in Plugins : offers'[e][q] = offers[e][q]
    <3>1. CASE p \in Plugins
      <4>1. offers[e][p] \in Nat
        <5>1. e \in Events
          <6>1. DOMAIN log = 1 .. Len(log) /\ Len(log) \in Nat /\ Len(log) <= MaxEvents
            BY LenProperties DEF DepthInv, WalkTypeOK
          <6> QED
            BY <6>1, LimitsAreNat DEF Events
        <5> QED
          BY <5>1 DEF DepthInv, WalkTypeOK
      <4> QED
        BY <1>7, <4>1
    <3> QED
      BY <3>1
  <2>2. ASSUME NEW u \in Walkers, NEW i \in 1 .. Len(stack'[u]), e \in stack'[u][i].events
        PROVE  stack'[u][i].todo = stack[u][i].todo
    <3>1. CASE u = t
      <4>1. i \in 1 .. n /\ i # n
        BY <1>1, <1>6, <1>7, <2>2, <3>1
      <4>2. i \in 1 .. n - 1
        BY <1>1, <4>1
      <4> QED
        BY <3>1, <4>2
    <3>2. CASE u # t
      BY <1>2, <3>2
    <3> QED
      BY <3>1, <3>2
  <2> QED
    BY <1>3, <1>4, <1>5, <1>6, <2>1, <2>2, Unmoved
<1>8. CASE e \in Top(t).events
  <2>1. \A u \in Walkers : \A i \in 1 .. Len(stack'[u]) : e \in stack'[u][i].events => u = t /\ i = n
    <3>1. ASSUME NEW u \in Walkers, NEW i \in 1 .. Len(stack[u]), e \in stack[u][i].events
          PROVE  u = t /\ i = n
      <4>1. n \in 1 .. Len(stack[t]) /\ e \in stack[t][n].events
        BY <1>1, <1>8
      <4>2. DepthInv /\ HomeInv /\ OneWalk
        OBVIOUS
      <4> QED
        BY ONLY <3>1, <4>1, <4>2, t \in Walkers, OnePlace, ZenonT(40)
    <3> QED
      BY <1>6, <3>1
  <2>2. ~WaitsFor(e)
    <3>1. e \in In(Walked(stack[t]))
      BY <1>1, <1>8, WalkedOps
    <3>2. Belongs(log, t, stack[t][n])
      BY <1>1 DEF HomeInv, HomesCall
    <3>3. log[e].by \in Readers => t = Loop(log[e].by.of) /\ log[e].by.of \in Clients
      BY <1>1, <1>8, <3>2, ThreadKinds DEF Belongs, Walkers, Loops, Helpers, Jobs, Loop
    <3> QED
      BY <3>1, <3>3 DEF WaitsFor, OneWalk
  <2>3. e \in In(Walked(stack'[t]))
    BY <1>1, <1>5, <1>8, WalkedOps
  <2>4. \A q \in Plugins : offers[e][q] = IF q \in Top(t).todo THEN 0 ELSE Due(e, q)
    BY <1>1, <1>8 DEF Right
  <2>5. \A q \in Plugins : offers'[e][q] = IF q \in stack'[t][n].todo THEN 0 ELSE Due(e, q)'
    <3> SUFFICES ASSUME NEW q \in Plugins
                 PROVE  offers'[e][q] = IF q \in stack'[t][n].todo THEN 0 ELSE Due(e, q)
      BY <1>3
    <3>1. CASE q = p
      BY <1>8, <2>4, <3>1 DEF Due
    <3>2. CASE q # p
      BY <2>4, <3>2
    <3> QED
      BY <3>1, <3>2
  <2> QED
    BY <1>4, <2>1, <2>2, <2>3, <2>5 DEF Right
<1> QED
  BY <1>7, <1>8

\* Plugin p is due to see an event of the innermost call unless it is to be skipped.
LEMMA DueInCall ==
  ASSUME DepthInv, HomeInv, NEW t \in Walkers, Running(t), NEW e \in Top(t).events, NoCron(e),
         NEW p \in Plugins
  PROVE  /\ e \in DOMAIN log
         /\ Due(e, p) = IF p \notin Top(t).skip /\ PassesFilter(p, e) THEN 1 ELSE 0
<1>1. Belongs(log, t, Top(t))
  BY TopCall DEF HomeInv, HomesCall
<1>2. log[e].by \notin Jobs
  BY DEF NoCron, Jobs
<1> QED
  BY <1>1, <1>2 DEF Belongs, Due, Dropped

\* What is offered is right, step by step.
LEMMA OffersNext ==
  DepthInv /\ FlowInv /\ HomeInv /\ OneWalk /\ NoEarlyOffer /\ OffersRight /\ [Next]_vars => OffersRight'
<1> SUFFICES ASSUME DepthInv, FlowInv, HomeInv, OneWalk, NoEarlyOffer, OffersRight, [Next]_vars,
                    NEW e \in DOMAIN log', NoCron(e)'
             PROVE  Right(e)'
  BY DEF OffersRight
<1>a. DepthInv' /\ HomeInv'
  BY DepthNext, HomeNext
<1>b. DOMAIN log \subseteq DOMAIN log' /\ \A x \in DOMAIN log : log'[x] = log[x]
  BY LogGrows
<1>c. e \in DOMAIN log => Right(e) /\ NoCron(e) /\ \A p : Due(e, p)' = Due(e, p)
  BY <1>b, EventsStay DEF OffersRight
<1>d. e \in DOMAIN log => (log'[e] = log[e] /\ e \notin New) /\ (e \notin DOMAIN log => e \in New)
  BY <1>b DEF New
<1>e. e \in Events
  <2>1. DOMAIN log' = 1 .. Len(log') /\ Len(log') \in Nat /\ Len(log') <= MaxEvents
    BY <1>a, LenProperties DEF DepthInv, WalkTypeOK
  <2> QED
    BY <2>1, LimitsAreNat DEF Events
<1>f. /\ \A c \in Clients : Loop(c) \in Walkers
      /\ \A r \in Readers : r \in Threads /\ r.of \in Clients
      /\ \A t \in Walkers : t \in Threads /\ t \notin Readers
  BY ThreadKinds DEF Loop, Walkers, Loops
<1>g. /\ \A t \in Walkers : \A i \in 1 .. Len(stack[t]) : stack[t][i].events \subseteq DOMAIN log
      /\ \A t \in Threads : \A x \in out[t].events : x \in DOMAIN log /\ log[x].by = t
  BY DEF HomeInv, HomesCall, HomesOut, Belongs
<1>h. /\ pluginChan \in [Clients -> Seq(Batches)] /\ \A t \in Walkers : stack[t] \in Seq(Frames)
      /\ \A t \in Walkers : stack'[t] \in Seq(Frames)
  BY <1>a DEF DepthInv, WalkTypeOK
<1>i. \A p \in Plugins : offers[e][p] \in Nat
  BY <1>e DEF DepthInv, WalkTypeOK
<1>j. ASSUME e \notin DOMAIN log, NEW t \in Walkers, WalkerStep(t),
             \A p \in Plugins : offers'[e][p] = 0
      PROVE  Right(e)'
  <2>1. log'[e].by = t /\ e \in New /\ ~WaitsFor(e)'
    BY <1>f, <1>j DEF New, WalkerStep, WaitsFor
  <2>2. ASSUME NEW u \in Walkers, NEW i \in 1 .. Len(stack'[u]), e \in stack'[u][i].events
        PROVE  stack'[u][i].todo = Plugins
    <3>1. u = t
      BY <1>g, <1>j, <2>2 DEF WalkerStep
    <3>2. i \notin 1 .. Len(stack[t])
      BY <1>g, <1>j, <2>2, <3>1 DEF WalkerStep, SameCall
    <3> QED
      BY <1>j, <2>2, <3>1, <3>2 DEF WalkerStep
  <2>3. CASE Dropped(e)'
    <3>1. \A p : Due(e, p)' = 0
      BY <2>3 DEF Due
    <3> QED
      BY <1>j, <2>1, <2>2, <3>1 DEF Right
  <2>4. CASE Len(stack'[t]) = Len(stack[t]) + 1 /\ e \in stack'[t][Len(stack[t]) + 1].events
    <3>1. e \in In(Walked(stack'[t]))
      <4>1. Len(stack[t]) + 1 \in 1 .. Len(stack'[t])
        BY <1>h, <2>4, LenProperties
      <4> QED
        BY <1>h, <2>4, <4>1, WalkedOps
    <3> QED
      BY <1>j, <2>1, <2>2, <3>1 DEF Right
  <2> QED
    BY <1>j, <2>1, <2>3, <2>4 DEF WalkerStep
<1>1. ASSUME NEW t \in Readers, Read(t) \/ Greet(t) PROVE Right(e)'
  <2>1. /\ Made(log, log', 1, t, t.of, {}, {}) /\ out[t] = Idle
        /\ \A u \in Threads \ {t} : out'[u] = out[u]
        /\ UNCHANGED <<pluginChan, stack, offers>>
    BY <1>1, ReadEffect
  <2>2. PICK to \in RoutesOf(t) : out'[t] = [events |-> NewBatch(log, 1), to |-> to] /\ Goes(to, "plugin")
    BY <1>1, ReadEffect
  <2>3. OnWay("plugin", t)' = NewBatch(log, 1)
    <3>1. out'[t].events = NewBatch(log, 1) /\ out'[t].to = to
      BY <2>2
    <3> QED
      BY <2>2, <3>1 DEF OnWay, Toward
  <2>4. CASE e \in DOMAIN log
    <3>1. e \notin NewBatch(log, 1)
      BY <2>1, <2>4 DEF Made
    <3>2. OnWay("plugin", t) = {}
      BY <2>1 DEF OnWay, Toward, Idle
    <3>3. \A r \in Readers \ {t} : OnWay("plugin", r)' = OnWay("plugin", r)
      BY <1>f, <2>1 DEF OnWay
    <3>4. WaitsFor(e)' <=> WaitsFor(e)
      BY <1>b, <2>1, <2>3, <2>4, <3>1, <3>2, <3>3 DEF WaitsFor
    <3> QED
      BY <1>c, <2>1, <2>4, <3>4, Unmoved
  <2>5. CASE e \notin DOMAIN log
    <3>1. e \in NewBatch(log, 1) /\ log'[e].by = t
      BY <2>1, <2>5 DEF Made
    <3>2. WaitsFor(e)'
      BY <2>3, <3>1 DEF WaitsFor
    <3>3. \A p \in Plugins : offers'[e][p] = 0
      BY <1>e, <2>1, <2>5 DEF NoEarlyOffer
    <3>4. \A u \in Walkers : \A i \in 1 .. Len(stack'[u]) : e \notin stack'[u][i].events
      BY <1>g, <2>1, <2>5
    <3> QED
      BY <3>2, <3>3, <3>4 DEF Right
  <2> QED
    BY <2>4, <2>5
<1>2. ASSUME NEW t \in Threads, Send(t) PROVE Right(e)'
  <2> DEFINE d == Head(out[t].to)
             b == out[t].events
  <2>1. /\ b \in Batches /\ d \in Places
        /\ \A u \in Threads \ {t} : out'[u] = out[u]
        /\ Toward(out[t], d) = b /\ Toward(out'[t], d) = {}
        /\ \A x \in Places \ {d} : Toward(out'[t], x) = Toward(out[t], x)
        /\ d = "plugin" => t \in Readers
        /\ pluginChan' = IF d = "plugin" THEN [pluginChan EXCEPT ![t.of] = Append(@, b)]
                         ELSE pluginChan
        /\ UNCHANGED <<log, stack, offers>>
    BY <1>2, SendEffect
  <2> HIDE DEF d, b
  <2>2. WaitsFor(e)' <=> WaitsFor(e)
    <3>1. CASE d # "plugin"
      <4>1. \A r \in Readers : OnWay("plugin", r)' = OnWay("plugin", r)
        BY <1>f, <2>1, <3>1 DEF OnWay, Places
      <4> QED
        BY <2>1, <3>1, <4>1 DEF WaitsFor
    <3>2. CASE d = "plugin"
      <4>1. t \in Readers /\ t.of \in Clients
        BY <1>f, <2>1, <3>2
      <4>2. /\ OnWay("plugin", t) = b /\ OnWay("plugin", t)' = {}
            /\ \A r \in Readers \ {t} : OnWay("plugin", r)' = OnWay("plugin", r)
        BY <1>f, <2>1, <3>2 DEF OnWay
      <4>3. In(Append(pluginChan[t.of], b)) = In(pluginChan[t.of]) \cup b
        BY <1>h, <2>1, <4>1, AppendApart
      <4>4. \A c \in Clients : In(pluginChan'[c]) = IF c = t.of THEN In(pluginChan[c]) \cup b
                                                   ELSE In(pluginChan[c])
        BY <1>h, <2>1, <3>2, <4>1, <4>3
      <4>5. \A x \in b : log[x].by = t
        BY <1>g DEF b
      <4>6. ASSUME NEW r \in Readers, r = log[e].by
            PROVE  (e \in OnWay("plugin", r)' \/ e \in In(pluginChan'[r.of]))
                     <=> (e \in OnWay("plugin", r) \/ e \in In(pluginChan[r.of]))
        <5>1. CASE r = t
          BY <4>1, <4>2, <4>4, <5>1
        <5>2. CASE r # t
          <6>1. e \notin b
            BY <4>5, <4>6, <5>2
          <6> QED
            BY <1>f, <4>2, <4>4, <5>2, <6>1
        <5> QED
          BY <5>1, <5>2
      <4> QED
        BY <2>1, <4>6 DEF WaitsFor, OnWay
    <3> QED
      BY <3>1, <3>2
  <2> QED
    BY <1>c, <2>1, <2>2, Unmoved
<1>3. ASSUME NEW t \in Walkers, LoopTake(t) PROVE Right(e)'
  <2> DEFINE c == t.of
             b == Head(pluginChan[c])
  <2>1. /\ c \in Clients /\ t = Loop(c)
        /\ pluginChan[c] \in Seq(Batches) /\ pluginChan[c] # <<>> /\ stack[t] = <<>>
        /\ pluginChan' = [pluginChan EXCEPT ![c] = Tail(@)]
        /\ Len(stack'[t]) = 1 /\ stack'[t][1].events = b /\ stack'[t][1].todo = Plugins
        /\ \A u \in Walkers \ {t} : stack'[u] = stack[u]
        /\ UNCHANGED <<log, out, offers>>
    BY <1>3, TakeEffect
  <2>2. In(pluginChan[c]) = b \cup In(Tail(pluginChan[c]))
    BY <2>1, TailApart
  <2>3. pluginChan'[c] = Tail(pluginChan[c]) /\ \A x \in Clients \ {c} : pluginChan'[x] = pluginChan[x]
    BY <1>h, <2>1
  <2>4. In(Walked(stack'[t])) = b
    BY <1>h, <2>1, WalkedOne
  <2> HIDE DEF b, c
  <2>5. \A r \in Readers : OnWay("plugin", r)' = OnWay("plugin", r)
    BY <2>1 DEF OnWay
  <2>6. \A i \in 1 .. Len(stack'[t]) : i = 1
    BY <2>1
  <2>7. CASE e \in b
    <3>1. log[e].by \in Readers /\ log[e].by.of = c
      BY <2>1, <2>2, <2>7 DEF HomeInv, HomesChan
    <3>2. \A p \in Plugins : offers[e][p] = 0
      BY <1>c, <2>1, <2>2, <2>7, <3>1 DEF Right, WaitsFor
    <3>3. \A u \in Walkers \ {t} : \A i \in 1 .. Len(stack[u]) : e \notin stack[u][i].events
      <4> SUFFICES ASSUME NEW u \in Walkers \ {t}, NEW i \in 1 .. Len(stack[u]), e \in stack[u][i].events
                   PROVE  FALSE
        OBVIOUS
      <4>1. Belongs(log, u, stack[u][i])
        BY DEF HomeInv, HomesCall
      <4>2. u \notin Readers /\ (u.kind = "loop" => u = Loop(u.of))
        BY <1>f DEF Walkers, Loops, Helpers, Jobs, Loop
      <4> QED
        BY <2>1, <3>1, <4>1, <4>2 DEF Belongs
    <3>4. \A p \in Plugins : \A u \in Walkers : \A i \in 1 .. Len(stack'[u]) :
            e \in stack'[u][i].events => offers'[e][p] = IF p \in stack'[u][i].todo THEN 0 ELSE Due(e, p)'
      BY <2>1, <2>6, <3>2, <3>3
    <3>5. e \in In(Walked(stack'[t]))
      BY <2>4, <2>7
    <3> QED
      BY <2>1, <3>2, <3>4, <3>5 DEF Right
  <2>8. CASE e \notin b
    <3>1. WaitsFor(e)' <=> WaitsFor(e)
      <4>1. ASSUME NEW x \in Clients PROVE e \in In(pluginChan'[x]) <=> e \in In(pluginChan[x])
        BY <2>2, <2>3, <2>8
      <4> QED
        BY <1>f, <2>1, <2>5, <4>1 DEF WaitsFor
    <3>2. \A u \in Walkers : \A i \in 1 .. Len(stack'[u]) : e \in stack'[u][i].events => u # t
      BY <2>1, <2>6, <2>8
    <3>3. \A u \in Walkers : e \in In(Walked(stack[u])) => e \in In(Walked(stack'[u]))
      <4>1. In(Walked(stack[t])) = {}
        BY <1>h, <2>1, WalkedOps
      <4> QED
        BY <2>1, <4>1
    <3> QED
      BY <1>c, <2>1, <3>1, <3>2, <3>3, Unmoved
  <2> QED
    BY <2>7, <2>8
<1>4. ASSUME NEW t \in Walkers, EmitEvents(t) \/ CronRuns(t) PROVE Right(e)'
  <2>1. /\ WalkerStep(t) /\ stack[t] = <<>> /\ offers' = offers
    BY <1>4, EmitEffect, CronEffect DEF EmitEvents, CronRuns, Resting
  <2>2. CASE e \notin DOMAIN log
    BY <1>e, <1>j, <2>1, <2>2 DEF NoEarlyOffer
  <2>3. CASE e \in DOMAIN log
    <3>1. WaitsFor(e)' <=> WaitsFor(e)
      BY <1>b, <2>1, <2>3 DEF WaitsFor, OnWay, WalkerStep
    <3>2. ASSUME NEW u \in Walkers, NEW i \in 1 .. Len(stack'[u]), e \in stack'[u][i].events
          PROVE  u # t
      BY <1>d, <2>1, <2>3, <3>2 DEF WalkerStep
    <3>3. \A u \in Walkers : e \in In(Walked(stack[u])) => e \in In(Walked(stack'[u]))
      BY <1>a, <2>1, WalkerCalls DEF WalkerStep
    <3> QED
      BY <1>c, <2>1, <2>3, <3>1, <3>2, <3>3, Unmoved DEF WalkerStep
  <2> QED
    BY <2>2, <2>3
<1>5. ASSUME NEW t \in Walkers, NEW p \in Plugins, PassOver(t, p) PROVE Right(e)'
  <2> DEFINE s == SetTop(t, [Top(t) EXCEPT !.todo = AfterVisit(Top(t), p)])
             n == Len(stack[t])
  <2>1. /\ WalkerStep(t) /\ Running(t) /\ p \in Top(t).todo /\ offers' = offers /\ log' = log
        /\ p \in Top(t).skip \/ PassEvents(Top(t), p) = {}
        /\ stack'[t] = s
    BY <1>5, PassOverEffect DEF PassOver, DepthInv, WalkTypeOK
  <2>v. /\ n \in Nat \ {0} /\ s \in Seq(Frames) /\ Len(s) = n
        /\ \A i \in 1 .. n - 1 : s[i] = stack[t][i]
        /\ s[n].todo = Top(t).todo \ {p}
    <3>1. s = SetTop(t, [Top(t) EXCEPT !.todo = AfterVisit(Top(t), p)]) /\ n = Len(stack[t])
      OBVIOUS
    <3> HIDE DEF s, n
    <3> QED
      BY <2>1, <3>1, VisitFacts
  <2>2. /\ \A i \in 1 .. n - 1 : stack'[t][i].todo = stack[t][i].todo
        /\ stack'[t][n].todo = Top(t).todo \ {p}
    <3> HIDE DEF s, n
    <3> QED
      BY <2>1, <2>v
  <2>3. e \in Top(t).events => Due(e, p) = 0
    BY <1>c, <2>1, DueInCall DEF PassEvents
  <2>4. e \in DOMAIN log /\ Right(e)
    BY <1>c, <2>1
  <2>5. \A q \in Plugins : offers'[e][q] = IF q = p THEN offers[e][q] + 0 ELSE offers[e][q]
    BY <1>i, <2>1
  <2> HIDE DEF s, n
  <2> QED
    BY <1>a, <2>1, <2>2, <2>3, <2>4, <2>5, Visited DEF n
<1>6. ASSUME NEW t \in Walkers, NEW p \in Plugins, Offer(t, p) PROVE Right(e)'
  <2> DEFINE s == SetTop(t, [Top(t) EXCEPT !.todo = AfterVisit(Top(t), p)])
             n == Len(stack[t])
             passed == PassEvents(Top(t), p)
             k == IF e \in passed THEN 1 ELSE 0
  <2>1. WalkerStep(t) /\ Running(t) /\ p \in Top(t).todo /\ p \notin Top(t).skip
    BY <1>6, OfferEffect DEF Offer
  <2>2. /\ n \in Nat \ {0} /\ s \in Seq(Frames) /\ Len(s) = n
        /\ \A i \in 1 .. n - 1 : s[i] = stack[t][i]
        /\ s[n].todo = Top(t).todo \ {p}
    BY <2>1, VisitFacts
  <2>3. \A i \in 1 .. n : stack'[t][i] = s[i]
    <3>1. CASE stack' = [stack EXCEPT ![t] = s]
      BY <3>1 DEF DepthInv, WalkTypeOK
    <3>2. CASE \E w : stack' = [stack EXCEPT ![t] = Append(s, w)]
      <4> HIDE DEF s
      <4>1. PICK w : stack' = [stack EXCEPT ![t] = Append(s, w)]
        BY <3>2
      <4>2. stack'[t] = Append(s, w)
        BY <4>1 DEF DepthInv, WalkTypeOK
      <4> QED
        BY <2>2, <4>2
    <3> QED
      BY <1>6, <3>1, <3>2 DEF Offer
  <2>4. /\ \A i \in 1 .. n - 1 : stack'[t][i].todo = stack[t][i].todo
        /\ stack'[t][n].todo = Top(t).todo \ {p}
    <3> HIDE DEF s, n
    <3>1. n \in 1 .. n /\ \A i \in 1 .. n - 1 : i \in 1 .. n
      BY <2>2
    <3> QED
      BY <2>2, <2>3, <3>1
  <2>5. \A q \in Plugins : offers'[e][q] = IF q = p THEN offers[e][q] + k ELSE offers[e][q]
    <3>1. offers'[e] = IF e \in passed THEN [offers[e] EXCEPT ![p] = @ + 1] ELSE offers[e]
      BY <1>6, <1>e DEF Offer
    <3>2. offers[e] \in [Plugins -> Nat]
      BY <1>e DEF DepthInv, WalkTypeOK
    <3> QED
      BY <3>1, <3>2
  <2>6. e \in passed => e \in Top(t).events
    BY DEF PassEvents
  <2>7. CASE e \notin DOMAIN log
    <3>1. e \notin passed
      <4>1. Len(stack[t]) \in 1 .. Len(stack[t]) /\ Top(t) = stack[t][Len(stack[t])]
        BY <2>1, TopCall
      <4> QED
        BY <1>g, <2>6, <2>7, <4>1
    <3>2. \A q \in Plugins : offers'[e][q] = 0
      BY <1>e, <1>i, <2>5, <2>7, <3>1 DEF NoEarlyOffer
    <3> QED
      BY <1>j, <2>1, <2>7, <3>2
  <2>8. CASE e \in DOMAIN log
    <3>1. k = (IF e \in Top(t).events THEN Due(e, p) ELSE 0) /\ k \in {0, 1}
      BY <1>c, <2>1, <2>8, DueInCall DEF PassEvents
    <3>2. Right(e)
      BY <1>c, <2>8
    <3> HIDE DEF s, n, passed, k
    <3> QED
      BY <1>a, <2>1, <2>4, <2>5, <2>8, <3>1, <3>2, Visited DEF n
  <2> QED
    BY <2>7, <2>8
<1>7. ASSUME NEW t \in Walkers, Return(t) PROVE Right(e)'
  <2> DEFINE n == Len(stack[t])
             f == stack[t][n]
  <2>0. /\ n \in Nat \ {0} /\ stack[t] \in Seq(Frames) /\ stack[t] # <<>>
        /\ f.todo = {} /\ stack'[t] = Front(stack[t]) /\ Len(stack'[t]) = n - 1
        /\ \A i \in 1 .. n - 1 : stack'[t][i] = stack[t][i]
        /\ \A u \in Walkers \ {t} : stack'[u] = stack[u]
        /\ \A u \in Threads \ {t} : out'[u] = out[u]
        /\ UNCHANGED <<log, pluginChan, offers>>
    BY <1>7, ReturnEffect
  <2>1. /\ n \in Nat \ {0} /\ n \in 1 .. n /\ stack[t] \in Seq(Frames) /\ stack[t] # <<>>
        /\ f.todo = {} /\ stack'[t] = Front(stack[t]) /\ Len(stack'[t]) = n - 1
        /\ \A i \in 1 .. n - 1 : stack'[t][i] = stack[t][i]
        /\ \A u \in Walkers \ {t} : stack'[u] = stack[u]
        /\ \A u \in Threads \ {t} : out'[u] = out[u]
        /\ UNCHANGED <<log, pluginChan, offers>>
    <3> HIDE DEF n, f
    <3> QED
      BY <2>0
  <2>2. In(Walked(stack[t])) = f.events \cup In(Walked(stack'[t]))
        /\ f.events \cap In(Walked(stack'[t])) = {}
    BY <2>1, WalkedFront DEF OneWalk
  <2>3. WaitsFor(e)' <=> WaitsFor(e)
    BY <1>f, <2>1 DEF WaitsFor, OnWay
  <2>4. \A u \in Walkers : \A i \in 1 .. Len(stack'[u]) : e \in stack'[u][i].events =>
          /\ i \in 1 .. Len(stack[u]) /\ e \in stack[u][i].events
          /\ stack'[u][i].todo = stack[u][i].todo
          /\ u = t => i # n
    <3>1. \A i \in 1 .. n - 1 : i \in 1 .. n /\ i # n
      BY <2>1
    <3> QED
      BY <2>1, <3>1
  <2>5. e \in DOMAIN log /\ Right(e)
    BY <1>c, <2>1
  <2>6. CASE e \in f.events
    <3>1. \A p \in Plugins : offers[e][p] = Due(e, p)
      BY <2>1, <2>5, <2>6 DEF Right
    <3>2. ASSUME NEW u \in Walkers, NEW i \in 1 .. Len(stack'[u]), e \in stack'[u][i].events
          PROVE  FALSE
      <4>1. i \in 1 .. Len(stack[u]) /\ e \in stack[u][i].events /\ (u = t => i # n)
        BY <2>4, <3>2
      <4>2. n \in 1 .. Len(stack[t]) /\ e \in stack[t][n].events
        BY <2>1, <2>6
      <4>3. DepthInv /\ HomeInv /\ OneWalk
        OBVIOUS
      <4>4. u = t /\ i = n
        BY ONLY <4>1, <4>2, <4>3, t \in Walkers, u \in Walkers, OnePlace
      <4> QED
        BY <4>1, <4>4
    <3>3. ~WaitsFor(e)
      <4>1. Belongs(log, t, f)
        BY <2>1 DEF HomeInv, HomesCall
      <4>2. log[e].by \in Readers => t = Loop(log[e].by.of) /\ log[e].by.of \in Clients
        BY <1>f, <2>6, <4>1 DEF Belongs, Walkers, Loops, Helpers, Jobs, Loop
      <4>3. e \in In(Walked(stack[t]))
        BY <2>2, <2>6
      <4> QED
        BY <4>2, <4>3 DEF WaitsFor, OneWalk
    <3> HIDE DEF f, n
    <3> QED
      BY <1>c, <2>1, <2>3, <2>5, <3>1, <3>2, <3>3 DEF Right
  <2>7. CASE e \notin f.events
    <3>1. \A u \in Walkers : e \in In(Walked(stack[u])) => e \in In(Walked(stack'[u]))
      BY <2>1, <2>2, <2>7
    <3> HIDE DEF f, n
    <3> QED
      BY <1>c, <2>1, <2>3, <2>4, <2>5, <3>1, Unmoved
  <2> QED
    BY <2>6, <2>7
<1>8. CASE HubBroadcast \/ HubHistory \/ UNCHANGED vars
  <2>1. UNCHANGED <<log, pluginChan, stack, out, offers>>
    BY <1>8 DEF HubBroadcast, HubHistory, vars
  <2>2. WaitsFor(e)' <=> WaitsFor(e)
    BY <2>1 DEF WaitsFor, OnWay
  <2> QED
    BY <1>c, <2>1, <2>2, Unmoved
<1> QED
  BY <1>1, <1>2, <1>3, <1>4, <1>5, <1>6, <1>7, <1>8 DEF Next

\* At the start there is nothing to be in the wrong place.
LEMMA HomeInit == Init => HomeInv /\ OneWalk /\ OffersRight
<1> SUFFICES ASSUME Init PROVE HomeInv /\ OneWalk /\ OffersRight
  OBVIOUS
<1>1. /\ \A t \in Threads : out[t] = Idle
      /\ \A c \in Clients : pluginChan[c] = <<>>
      /\ \A t \in Walkers : stack[t] = <<>>
      /\ DOMAIN log = {}
  BY DEF Init
<1>2. In(<<>>) = {} /\ Apart(<<>>) /\ Walked(<<>>) = <<>>
  BY DEF In, Apart, Walked
<1>3. HomeInv
  BY <1>1, <1>2, ThreadKinds DEF HomeInv, Routed, HomesOut, HomesChan, HomesCall, Idle
<1>4. OneWalk
  <2>1. \A c \in Clients : Loop(c) \in Walkers
    BY DEF Loop, Walkers, Loops
  <2>2. \A r \in Readers : r.of \in Clients /\ OnWay("plugin", r) = {}
    BY <1>1, ThreadKinds DEF OnWay, Toward, Idle
  <2> QED
    BY <1>1, <1>2, <2>1, <2>2 DEF OneWalk
<1> QED
  BY <1>1, <1>3, <1>4 DEF OffersRight

\* When everything is quiet, every plugin was handed every event that is for it, once: an
\* event is in one place on its way to the plugins, and where it is tells who has seen it.
THEOREM EveryoneIsAsked == Spec => []EveryoneAsked
<1>1. OfferInv => NoEarlyOffer
  BY DEF OfferInv
<1>2. HomeInv /\ OffersRight => EveryoneAsked
  <2> SUFFICES ASSUME HomeInv, OffersRight, Quiet, NEW e \in DOMAIN log, NEW p \in Plugins, NoCron(e)
               PROVE  offers[e][p] = Due(e, p)
    BY DEF EveryoneAsked, Due
  <2>1. Right(e)
    BY DEF OffersRight
  <2>2. In(<<>>) = {} /\ Walked(<<>>) = <<>>
    BY DEF In, Walked
  <2>3. ~WaitsFor(e)
    BY <2>2, ThreadKinds DEF Quiet, WaitsFor, OnWay, Toward, Idle
  <2>4. \A t \in Walkers : e \notin In(Walked(stack[t]))
    BY <2>2 DEF Quiet
  <2> QED
    BY <2>1, <2>3, <2>4 DEF Right
<1> QED
  BY <1>1, <1>2, OfferInit, OfferNext, InitInv, HomeInit, DepthNext, FlowNext, HomeNext, OneWalkNext,
     OffersNext, PTL DEF Spec

-----------------------------------------------------------------------------
\* A set of naturals has a least element.
LEMMA LeastNat ==
  ASSUME NEW T \in SUBSET Nat, T # {}
  PROVE  \E x \in T : \A y \in T : x <= y
<1> DEFINE R == {ss \in Nat \X Nat : ss[1] < ss[2]}
<1>1. IsWellFoundedOn(R, Nat)
  BY NatLessThanWellFounded, Zenon DEF OpToRel
<1> HIDE DEF R
<1>2. PICK x \in T : \A y \in T : ~(<<y, x>> \in R)
  BY <1>1, WFMin
<1>3. \A y \in T : ~(y < x)
  BY <1>2 DEF R
<1> QED
  BY <1>3

\* A set that has 0, and with each number below n the next, has all of them.
LEMMA UpTo ==
  ASSUME NEW n \in Nat, NEW T \in SUBSET Nat, 0 \in T, \A i \in 1 .. n : i - 1 \in T => i \in T
  PROVE  \A i \in 0 .. n : i \in T
<1> SUFFICES ASSUME (0 .. n) \ T # {} PROVE FALSE
  OBVIOUS
<1>1. (0 .. n) \ T \in SUBSET Nat
  OBVIOUS
<1>2. PICK i \in (0 .. n) \ T : \A j \in (0 .. n) \ T : i <= j
  BY <1>1, LeastNat
<1>3. i \in 1 .. n /\ i - 1 \in 0 .. n /\ ~(i <= i - 1)
  BY <1>2
<1> QED
  BY <1>2, <1>3

\* Sequence s has the members of S in their order.
Enumerates(s, S) == \A i, j \in 1 .. Cardinality(S) : i < j => s[i] < s[j]

\* A batch can be put in order.
LEMMA OrderExists ==
  ASSUME NEW n \in Nat, NEW S \in SUBSET (1 .. n)
  PROVE  IsFiniteSet(S) /\ \E s \in [1 .. Cardinality(S) -> S] : Enumerates(s, S)
<1> DEFINE T == {k \in Nat : \A R \in SUBSET (1 .. k) :
                               IsFiniteSet(R) /\ \E s \in [1 .. Cardinality(R) -> R] : Enumerates(s, R)}
<1>1. 0 \in T
  <2> SUFFICES ASSUME NEW R \in SUBSET (1 .. 0)
               PROVE  IsFiniteSet(R) /\ \E s \in [1 .. Cardinality(R) -> R] : Enumerates(s, R)
    OBVIOUS
  <2>0. R = {}
    OBVIOUS
  <2>1. R = {} /\ IsFiniteSet(R) /\ Cardinality(R) = 0
    BY <2>0, FS_EmptySet
  <2>2. 1 .. Cardinality(R) = {}
    BY <2>1
  <2>3. [i \in {} |-> 0] \in [{} -> R] /\ Enumerates([i \in {} |-> 0], R)
    BY <2>2 DEF Enumerates
  <2> QED
    BY <2>1, <2>2, <2>3
<1>2. ASSUME NEW k \in 1 .. n, k - 1 \in T PROVE k \in T
  <2> SUFFICES ASSUME NEW R \in SUBSET (1 .. k)
               PROVE  IsFiniteSet(R) /\ \E s \in [1 .. Cardinality(R) -> R] : Enumerates(s, R)
    OBVIOUS
  <2>1. CASE k \notin R
    <3>1. R \in SUBSET (1 .. (k - 1))
      BY <2>1
    <3> QED
      BY <1>2, <3>1
  <2>2. CASE k \in R
    <3> DEFINE P == R \ {k}
               c == Cardinality(P)
    <3>1. P \in SUBSET (1 .. (k - 1))
      BY <2>2
    <3>2. IsFiniteSet(P) /\ \E s \in [1 .. c -> P] : Enumerates(s, P)
      BY <1>2, <3>1
    <3>3. PICK s \in [1 .. c -> P] : Enumerates(s, P)
      BY <3>2
    <3>4. /\ IsFiniteSet(R) /\ c \in Nat /\ Cardinality(R) = c + 1
      <4>1. R = P \cup {k} /\ k \notin P
        BY <2>2
      <4> HIDE DEF P
      <4> QED
        BY <3>2, <4>1, FS_AddElement, FS_CardinalityType
    <3> DEFINE r == [i \in 1 .. c + 1 |-> IF i = c + 1 THEN k ELSE s[i]]
    <3>5. r \in [1 .. c + 1 -> R]
      <4>1. \A i \in 1 .. c : s[i] \in R
        BY <3>3
      <4>2. \A i \in 1 .. c + 1 : i # c + 1 => i \in 1 .. c
        BY <3>4
      <4> QED
        BY <2>2, <4>1, <4>2
    <3>6. ASSUME NEW i \in 1 .. c + 1, NEW j \in 1 .. c + 1, i < j PROVE r[i] < r[j]
      <4>1. i \in 1 .. c /\ i # c + 1 /\ r[i] = s[i]
        BY <3>4, <3>6
      <4>2. CASE j = c + 1
        <5>1. s[i] \in 1 .. (k - 1) /\ r[j] = k
          BY <3>1, <3>3, <4>1, <4>2
        <5> QED
          BY <4>1, <5>1
      <4>3. CASE j # c + 1
        <5>1. j \in 1 .. c /\ r[j] = s[j]
          BY <3>4, <4>3
        <5> QED
          BY <3>3, <3>6, <4>1, <5>1 DEF Enumerates
      <4> QED
        BY <4>2, <4>3
    <3> HIDE DEF r, c, P
    <3> QED
      BY <3>4, <3>5, <3>6 DEF Enumerates
  <2> QED
    BY <2>1, <2>2
<1> HIDE DEF T
<1>3. n \in T
  <2>1. T \in SUBSET Nat
    BY DEF T
  <2> QED
    BY <1>1, <1>2, <2>1, UpTo
<1> QED
  BY <1>3 DEF T

\* The hub goes through a batch in the order in which its events were made.
LEMMA InOrderRises ==
  ASSUME NEW S \in SUBSET Events
  PROVE  /\ IsFiniteSet(S) /\ Cardinality(S) \in Nat
         /\ InOrder(S) \in [1 .. Cardinality(S) -> S]
         /\ \A i, j \in 1 .. Cardinality(S) : i < j => InOrder(S)[i] < InOrder(S)[j]
<1>1. /\ IsFiniteSet(S) /\ Cardinality(S) \in Nat
      /\ \E f \in [1 .. Cardinality(S) -> S] : Enumerates(f, S)
  BY OrderExists, LimitsAreNat, FS_CardinalityType DEF Events
<1> QED
  BY <1>1 DEF Enumerates, InOrder

\* Each event of it once.
LEMMA InOrderOnce ==
  ASSUME NEW S \in SUBSET Events
  PROVE  InOrder(S) \in Seq(Events) /\ OnceDone(InOrder(S)) /\ Vals(InOrder(S)) = S
<1> DEFINE c == Cardinality(S)
           s == InOrder(S)
<1>1. IsFiniteSet(S) /\ c \in Nat
  BY InOrderRises
<1>2. s \in [1 .. c -> S] /\ \A i, j \in 1 .. c : i < j => s[i] < s[j]
  BY InOrderRises
<1> HIDE DEF s
<1>3. \A i, j \in 1 .. c : s[i] = s[j] => i = j
  <2> SUFFICES ASSUME NEW i \in 1 .. c, NEW j \in 1 .. c, s[i] = s[j] PROVE i = j
    OBVIOUS
  <2> HIDE DEF c
  <2>0. s[i] \in Events /\ s[j] \in Events
    BY <1>2
  <2>1. i \in Nat /\ j \in Nat /\ s[i] \in Nat /\ s[j] \in Nat
    BY <1>1, <2>0 DEF Events
  <2>2. ~(i < j) /\ ~(j < i)
    BY <1>2, <2>1
  <2> QED
    BY <2>1, <2>2
<1>4. \A x \in S : \E i \in 1 .. c : s[i] = x
  <2>1. IsFiniteSet(1 .. c) /\ Cardinality(1 .. c) = c
    BY <1>1, FS_Interval
  <2>2. s \in Injection(1 .. c, S)
    BY <1>2, <1>3 DEF Injection, IsInjective
  <2>3. s \in Surjection(1 .. c, S)
    BY <1>1, <2>1, <2>2, FS_Injection
  <2> QED
    BY <2>3 DEF Surjection
<1>5. s \in Seq(Events) /\ Len(s) = c
  <2>1. s \in [1 .. c -> Events]
    BY <1>2
  <2> HIDE DEF c
  <2> QED
    BY <1>1, <2>1, SeqDef, LenProperties
<1> HIDE DEF c
<1>6. Vals(s) = S
  BY <1>2, <1>4, <1>5 DEF Vals
<1> QED
  BY <1>3, <1>5, <1>6 DEF OnceDone, s

-----------------------------------------------------------------------------
\* The hub takes a batch for the clients, and shows them what is not internal.
LEMMA BroadcastEffect ==
  ASSUME TypeOK, HubBroadcast
  PROVE  /\ bq # <<>> /\ bq' = Tail(bq) /\ UNCHANGED <<log, pluginChan, hq, kept, stack, out, offers>>
         /\ \E w \in Seq(Events) : /\ shown' = shown \o w /\ OnceDone(w)
                                   /\ Vals(w) = KeepEvents(Head(bq), log)
<1>1. Head(bq) \in Batches
  BY TailApart DEF TypeOK, HubBroadcast
<1>2. KeepEvents(Head(bq), log) \in SUBSET Events
  BY <1>1 DEF KeepEvents, Batches
<1> QED
  BY <1>2, InOrderOnce DEF HubBroadcast

\* The hub takes a batch for the history, and keeps all of it.
LEMMA HistoryEffect ==
  ASSUME TypeOK, HubHistory
  PROVE  /\ hq # <<>> /\ hq' = Tail(hq) /\ UNCHANGED <<log, pluginChan, bq, shown, stack, out, offers>>
         /\ \E w \in Seq(Events) : kept' = kept \o w /\ OnceDone(w) /\ Vals(w) = Head(hq)
<1>1. Head(hq) \in SUBSET Events
  BY TailApart DEF TypeOK, HubHistory, Batches
<1> QED
  BY <1>1, InOrderOnce DEF HubHistory

\* A channel that has room takes one more batch.
LEMMA RoomForOne ==
  ASSUME NEW q \in Seq(Batches), HasRoom(q), NEW b \in Batches
  PROVE  Append(q, b) \in Seq(Batches) /\ Len(Append(q, b)) <= ChanCap
BY LimitsAreNat DEF HasRoom

\* The types of the channels and of what the hub has done, step by step.
LEMMA TypesNext == TypeOK /\ DepthInv /\ FlowInv /\ HomeInv /\ [Next]_vars => TypeOK'
<1> SUFFICES ASSUME TypeOK, DepthInv, FlowInv, HomeInv, [Next]_vars PROVE TypeOK'
  OBVIOUS
<1>a. WalkTypeOK'
  BY DepthNext DEF DepthInv
<1>b. /\ \A c \in Clients : Len(pluginChan[c]) <= ChanCap
      /\ bq \in Seq(Batches) /\ Len(bq) <= ChanCap /\ hq \in Seq(Batches) /\ Len(hq) <= ChanCap
      /\ shown \in Seq(Events) /\ kept \in Seq(Events)
      /\ pluginChan \in [Clients -> Seq(Batches)]
  BY DEF TypeOK, WalkTypeOK
<1>1. CASE UNCHANGED <<pluginChan, bq, hq, shown, kept>>
  BY <1>a, <1>b, <1>1 DEF TypeOK
<1>2. ASSUME NEW t \in Threads, Send(t) PROVE TypeOK'
  <2> DEFINE d == Head(out[t].to)
             b == out[t].events
  <2>1. /\ b \in Batches /\ d \in Places
        /\ d = "plugin" => t \in Readers
        /\ pluginChan' = IF d = "plugin" THEN [pluginChan EXCEPT ![t.of] = Append(@, b)]
                         ELSE pluginChan
        /\ bq' = IF d = "broadcast" THEN Append(bq, b) ELSE bq
        /\ hq' = IF d = "history" THEN Append(hq, b) ELSE hq
        /\ UNCHANGED <<shown, kept>>
    BY <1>2, SendEffect
  <2>2. /\ d = "history" => HasRoom(hq)
        /\ d = "broadcast" => HasRoom(bq)
        /\ d = "plugin" => HasRoom(pluginChan[t.of])
    BY <1>2 DEF Send
  <2> HIDE DEF d, b
  <2>3. bq' \in Seq(Batches) /\ Len(bq') <= ChanCap
    BY <1>b, <2>1, <2>2, RoomForOne
  <2>4. hq' \in Seq(Batches) /\ Len(hq') <= ChanCap
    BY <1>b, <2>1, <2>2, RoomForOne
  <2>5. ASSUME NEW c \in Clients PROVE Len(pluginChan'[c]) <= ChanCap
    <3>1. CASE d = "plugin" /\ c = t.of
      BY <1>b, <2>1, <2>2, <3>1, RoomForOne
    <3>2. CASE ~(d = "plugin" /\ c = t.of)
      <4>1. pluginChan'[c] = pluginChan[c]
        BY <1>b, <2>1, <3>2
      <4> QED
        BY <1>b, <4>1
    <3> QED
      BY <3>1, <3>2
  <2> QED
    BY <1>a, <1>b, <2>1, <2>3, <2>4, <2>5 DEF TypeOK
<1>3. ASSUME NEW t \in Walkers, LoopTake(t) PROVE TypeOK'
  <2> DEFINE x == t.of
  <2>1. /\ x \in Clients /\ pluginChan[x] \in Seq(Batches) /\ pluginChan[x] # <<>>
        /\ pluginChan' = [pluginChan EXCEPT ![x] = Tail(@)]
        /\ UNCHANGED <<bq, hq, shown, kept>>
    BY <1>3, TakeEffect
  <2> HIDE DEF x
  <2>2. Len(Tail(pluginChan[x])) <= ChanCap
    <3>1. Len(Tail(pluginChan[x])) = Len(pluginChan[x]) - 1 /\ Len(pluginChan[x]) \in Nat
      BY <2>1, EmptySeq, LenProperties
    <3> QED
      BY <1>b, <2>1, <3>1, LimitsAreNat
  <2>3. \A c \in Clients : Len(pluginChan'[c]) <= ChanCap
    BY <1>b, <2>1, <2>2
  <2> QED
    BY <1>a, <1>b, <2>1, <2>3 DEF TypeOK
<1>4. CASE HubBroadcast
  <2>1. /\ bq # <<>> /\ bq' = Tail(bq) /\ UNCHANGED <<pluginChan, hq, kept>>
        /\ \E w \in Seq(Events) : shown' = shown \o w
    BY <1>4, BroadcastEffect
  <2>2. shown' \in Seq(Events)
    BY <1>b, <2>1, ConcatProperties
  <2>3. Tail(bq) \in Seq(Batches) /\ Len(Tail(bq)) <= ChanCap
    <3>1. Tail(bq) \in Seq(Batches) /\ Len(Tail(bq)) = Len(bq) - 1 /\ Len(bq) \in Nat
      BY <1>b, <2>1, EmptySeq, LenProperties
    <3> QED
      BY <1>b, <3>1, LimitsAreNat
  <2> QED
    BY <1>a, <1>b, <2>1, <2>2, <2>3 DEF TypeOK
<1>5. CASE HubHistory
  <2>1. /\ hq # <<>> /\ hq' = Tail(hq) /\ UNCHANGED <<pluginChan, bq, shown>>
        /\ \E w \in Seq(Events) : kept' = kept \o w
    BY <1>5, HistoryEffect
  <2>2. kept' \in Seq(Events)
    BY <1>b, <2>1, ConcatProperties
  <2>3. Tail(hq) \in Seq(Batches) /\ Len(Tail(hq)) <= ChanCap
    <3>1. Tail(hq) \in Seq(Batches) /\ Len(Tail(hq)) = Len(hq) - 1 /\ Len(hq) \in Nat
      BY <1>b, <2>1, EmptySeq, LenProperties
    <3> QED
      BY <1>b, <3>1, LimitsAreNat
  <2> QED
    BY <1>a, <1>b, <2>1, <2>2, <2>3 DEF TypeOK
<1> QED
  BY <1>1, <1>2, <1>3, <1>4, <1>5
     DEF Next, vars, Read, Greet, EmitEvents, CronRuns, Return, PassOver, Offer

\* The channels hold batches of events and never more than they have room for.
LEMMA TypesInit == Init => TypeOK
<1> SUFFICES ASSUME Init PROVE TypeOK
  OBVIOUS
<1>1. WalkTypeOK
  BY InitInv DEF DepthInv
<1>2. Len(<<>>) = 0 /\ <<>> \in Seq(Batches) /\ <<>> \in Seq(Events)
  OBVIOUS
<1> QED
  BY <1>1, <1>2, LimitsAreNat DEF Init, TypeOK

\* The types of the pipeline: no channel is ever fuller than its capacity.
THEOREM PipelineTyped == Spec => []TypeOK
BY TypesInit, TypesNext, InitInv, HomeInit, DepthNext, FlowNext, HomeNext, PTL DEF Spec

-----------------------------------------------------------------------------
\* What is appended to a sequence comes behind it.
LEMMA ConcatOnce ==
  ASSUME NEW s \in Seq(Events), NEW w \in Seq(Events), NEW r, r = s \o w
  PROVE  /\ r \in Seq(Events) /\ Len(s) \in Nat /\ Len(r) \in Nat /\ Len(s) <= Len(r)
         /\ \A k \in 1 .. Len(s) : k \in 1 .. Len(r) /\ r[k] = s[k]
         /\ \A k \in 1 .. Len(r) : k \notin 1 .. Len(s) => r[k] \in Vals(w) /\ k > Len(s)
         /\ Vals(r) = Vals(s) \cup Vals(w)
         /\ OnceDone(s) /\ OnceDone(w) /\ Vals(s) \cap Vals(w) = {} => OnceDone(r)
<1> DEFINE m == Len(s)
           n == Len(w)
<1>1. m \in Nat /\ n \in Nat /\ r \in Seq(Events) /\ Len(r) = m + n
  BY ConcatProperties, LenProperties
<1>2. /\ \A k \in 1 .. m : s[k] \in Events
      /\ \A k \in 1 .. n : w[k] \in Events
  BY ElementOfSeq
<1>3. \A k \in 1 .. m : r[k] = s[k]
  BY <1>1, ConcatProperties
<1>4. \A k \in 1 .. m + n : k \notin 1 .. m => k - m \in 1 .. n /\ r[k] = w[k - m]
  <2> SUFFICES ASSUME NEW k \in 1 .. m + n, k \notin 1 .. m
               PROVE  k - m \in 1 .. n /\ r[k] = w[k - m]
    OBVIOUS
  <2>1. k - m \in 1 .. n /\ k > m
    <3> HIDE DEF m, n
    <3> QED
      BY <1>1
  <2> QED
    BY <1>1, <2>1, ConcatProperties
<1> HIDE DEF m, n
<1>5. \A k \in 1 .. m + n : k \notin 1 .. m => r[k] \in {w[i] : i \in 1 .. n} /\ k > m
  <2> SUFFICES ASSUME NEW k \in 1 .. m + n, k \notin 1 .. m
               PROVE  r[k] \in {w[i] : i \in 1 .. n} /\ k > m
    OBVIOUS
  <2>1. k - m \in 1 .. n /\ r[k] = w[k - m]
    BY <1>4
  <2> QED
    BY <1>1, <2>1
<1>6. Vals(s) = {s[i] : i \in 1 .. m} /\ Vals(w) = {w[i] : i \in 1 .. n}
  BY <1>2 DEF Vals, m, n
<1>7. Vals(r) = Vals(s) \cup Vals(w)
  <2>1. ASSUME NEW k \in 1 .. m + n PROVE r[k] \in Vals(s) \cup Vals(w)
    BY <1>3, <1>5, <1>6
  <2>2. ASSUME NEW k \in 1 .. m PROVE k \in 1 .. m + n /\ r[k] = s[k]
    BY <1>1, <1>3
  <2>3. ASSUME NEW k \in 1 .. n PROVE \E i \in 1 .. m + n : r[i] = w[k]
    <3>1. k + m \in 1 .. m + n /\ k + m \notin 1 .. m /\ (k + m) - m = k
      BY <1>1
    <3> QED
      BY <1>4, <3>1
  <2>4. Vals(s) \cup Vals(w) \subseteq Events /\ Vals(r) = {x \in Events : \E i \in 1 .. m + n : r[i] = x}
    BY <1>1 DEF Vals
  <2>5. ASSUME NEW x \in Vals(r) PROVE x \in Vals(s) \cup Vals(w)
    BY <2>1, <2>4, <2>5
  <2>6. ASSUME NEW x \in Vals(s) \cup Vals(w) PROVE x \in Vals(r)
    <3>1. x \in Events
      BY <2>4, <2>6
    <3>2. \E i \in 1 .. m + n : r[i] = x
      BY <1>6, <2>2, <2>3, <2>6
    <3> QED
      BY <2>4, <3>1, <3>2
  <2> QED
    BY <2>5, <2>6
<1>8. ASSUME OnceDone(s), OnceDone(w), Vals(s) \cap Vals(w) = {}, NEW i \in 1 .. m + n, NEW j \in 1 .. m + n,
             r[i] = r[j]
      PROVE  i = j
  <2>1. CASE i \in 1 .. m /\ j \in 1 .. m
    BY <1>3, <1>8, <2>1 DEF OnceDone, m
  <2>2. CASE i \notin 1 .. m /\ j \notin 1 .. m
    <3>1. i - m \in 1 .. n /\ j - m \in 1 .. n /\ w[i - m] = w[j - m]
      BY <1>4, <1>8, <2>2
    <3>2. i - m = j - m
      BY <1>8, <3>1 DEF OnceDone, n
    <3> QED
      BY <1>1, <3>2
  <2>3. CASE i \in 1 .. m /\ j \notin 1 .. m
    BY <1>3, <1>5, <1>6, <1>8, <2>3
  <2>4. CASE i \notin 1 .. m /\ j \in 1 .. m
    BY <1>3, <1>5, <1>6, <1>8, <2>4
  <2> QED
    BY <2>1, <2>2, <2>3, <2>4
<1>9. OnceDone(s) /\ OnceDone(w) /\ Vals(s) \cap Vals(w) = {} => OnceDone(r)
  BY <1>1, <1>8 DEF OnceDone
<1>10. \A k \in 1 .. m : k \in 1 .. m + n
  BY <1>1
<1>11. m <= m + n /\ m + n \in Nat
  BY <1>1
<1>12. \A k \in 1 .. m + n : k \notin 1 .. m => r[k] \in Vals(w) /\ k > m
  BY <1>5, <1>6
<1> QED
  BY <1>1, <1>3, <1>7, <1>9, <1>10, <1>11, <1>12 DEF m

\* What a step does to one of the two lines out of the pipeline.
Still(d)    == Queue(d)' = Queue(d) /\ Done(d)' = Done(d)
HubTakes(d) ==
  /\ Queue(d) # <<>> /\ Queue(d)' = Tail(Queue(d))
  /\ \E w \in Seq(Events) :
       /\ Done(d)' = Done(d) \o w /\ OnceDone(w)
       /\ Vals(w) = IF d = "history" THEN Head(Queue(d)) ELSE KeepEvents(Head(Queue(d)), log)
LineStep(d) ==
  \/ \E t \in Readers : (Read(t) \/ Greet(t)) /\ Still(d)
  \/ \E t \in Threads : /\ Send(t) /\ Done(d)' = Done(d)
                        /\ Queue(d)' = IF d = Head(out[t].to) THEN Append(Queue(d), out[t].events)
                                       ELSE Queue(d)
  \/ \E t \in Walkers : (LoopTake(t) \/ Return(t) \/ (WalkerStep(t) /\ out[t] = Idle)) /\ Still(d)
  \/ UNCHANGED <<log, stack, out>> /\ (Still(d) \/ HubTakes(d))

\* Every step is one of those, for each line.
LEMMA LineSteps ==
  ASSUME TypeOK, DepthInv, HomeInv, [Next]_vars, NEW d \in Lines
  PROVE  /\ LineStep(d)
         /\ Queue(d) \in Seq(Batches) /\ Done(d) \in Seq(Events)
<1>0. d = "broadcast" \/ d = "history"
  BY DEF Lines
<1>1. Queue(d) \in Seq(Batches) /\ Done(d) \in Seq(Events)
  BY DEF TypeOK, Queue, Done
<1>2. UNCHANGED <<bq, hq, shown, kept>> => Still(d)
  BY DEF Still, Queue, Done
<1>w. UNCHANGED <<log, stack, out>> /\ (HubTakes(d) \/ Still(d)) => LineStep(d)
  BY Zenon DEF LineStep
<1>3. ASSUME NEW t \in Readers, Read(t) \/ Greet(t) PROVE LineStep(d)
  BY <1>2, <1>3, ReadEffect DEF LineStep
<1>4. ASSUME NEW t \in Threads, Send(t) PROVE LineStep(d)
  <2>1. /\ bq' = IF Head(out[t].to) = "broadcast" THEN Append(bq, out[t].events) ELSE bq
        /\ hq' = IF Head(out[t].to) = "history" THEN Append(hq, out[t].events) ELSE hq
        /\ UNCHANGED <<shown, kept>>
    BY <1>4, SendEffect
  <2>2. /\ Done(d)' = Done(d)
        /\ Queue(d)' = IF d = Head(out[t].to) THEN Append(Queue(d), out[t].events) ELSE Queue(d)
    BY <1>0, <2>1 DEF Queue, Done
  <2> QED
    BY <1>4, <2>2 DEF LineStep
<1>5. ASSUME NEW t \in Walkers, LoopTake(t) \/ Return(t) PROVE LineStep(d)
  <2>1. UNCHANGED <<bq, hq, shown, kept>>
    BY <1>5 DEF LoopTake, Return
  <2> QED
    BY <1>2, <1>5, <2>1 DEF LineStep
<1>6. ASSUME NEW t \in Walkers, WalkerStep(t), out[t] = Idle PROVE LineStep(d)
  <2>1. UNCHANGED <<bq, hq, shown, kept>>
    BY <1>6 DEF WalkerStep
  <2> QED
    BY <1>2, <1>6, <2>1 DEF LineStep
<1>7. CASE HubBroadcast
  <2>1. UNCHANGED <<log, stack, out>> /\ UNCHANGED <<hq, kept>>
    BY <1>7, BroadcastEffect
  <2>2. HubTakes(d) \/ Still(d)
    <3>1. CASE d = "broadcast"
      BY <1>7, <3>1, BroadcastEffect DEF HubTakes, Queue, Done
    <3>2. CASE d = "history"
      BY <2>1, <3>2 DEF Still, Queue, Done
    <3> QED
      BY <1>0, <3>1, <3>2
  <2> QED
    BY <1>1, <1>w, <2>1, <2>2
<1>8. CASE HubHistory
  <2>1. UNCHANGED <<log, stack, out>> /\ UNCHANGED <<bq, shown>>
    BY <1>8, HistoryEffect
  <2>2. HubTakes(d) \/ Still(d)
    <3>1. CASE d = "history"
      BY <1>8, <3>1, HistoryEffect DEF HubTakes, Queue, Done
    <3>2. CASE d = "broadcast"
      BY <2>1, <3>2 DEF Still, Queue, Done
    <3> QED
      BY <1>0, <3>1, <3>2
  <2> QED
    BY <1>1, <1>w, <2>1, <2>2
<1>9. CASE UNCHANGED vars
  <2>1. UNCHANGED <<log, stack, out>> /\ UNCHANGED <<bq, hq, shown, kept>>
    BY <1>9 DEF vars
  <2> QED
    BY <1>1, <1>2, <1>w, <2>1
<1> QED
  BY <1>1, <1>3, <1>4, <1>5, <1>6, <1>7, <1>8, <1>9,
     EmitEffect, CronEffect, PassOverEffect, OfferEffect DEF Next

\* What the hub takes is no longer under way but done, or was internal.
LEMMA HubMoves ==
  ASSUME TypeOK, DepthInv, HomeInv, [Next]_vars, NEW d \in Lines, HubTakes(d)
  PROVE  /\ Through(d)' \subseteq Through(d) /\ In(Queue(d)') \subseteq In(Queue(d))
         /\ Vals(Done(d)) \subseteq Vals(Done(d)')
         /\ Vals(Done(d)') \subseteq Vals(Done(d)) \cup Head(Queue(d))
         /\ \A e \in Through(d) : e \in Through(d)' \/ (d = "broadcast" /\ log[e].kind.internal)
         /\ d = "broadcast" => \A e \in Vals(Done(d)') : e \in Vals(Done(d)) \/ ~log[e].kind.internal
         /\ Once(d) => Apart(Queue(d)') /\ OnceDone(Done(d)') /\ In(Queue(d)') \cap Vals(Done(d)') = {}
<1> DEFINE q == Queue(d)
           s == Done(d)
<1>0. q \in Seq(Batches) /\ s \in Seq(Events) /\ (d = "broadcast" \/ d = "history")
  BY LineSteps DEF Lines
<1>1. PICK w \in Seq(Events) :
        /\ Done(d)' = s \o w /\ OnceDone(w)
        /\ Vals(w) = IF d = "history" THEN Head(q) ELSE KeepEvents(Head(q), log)
  BY DEF HubTakes
<1>2. q # <<>> /\ Queue(d)' = Tail(q)
  BY DEF HubTakes
<1> HIDE DEF q, s
<1>3. /\ In(q) = Head(q) \cup In(Tail(q))
      /\ Apart(q) => Apart(Tail(q)) /\ Head(q) \cap In(Tail(q)) = {}
  BY <1>0, <1>2, TailApart
<1>4. Vals(w) \subseteq Head(q) /\ \A e \in Head(q) : e \in Vals(w) \/ (d = "broadcast" /\ log[e].kind.internal)
  BY <1>0, <1>1 DEF KeepEvents
<1>5. d = "broadcast" => \A e \in Vals(w) : ~log[e].kind.internal
  BY <1>1 DEF KeepEvents
<1>6. Vals(Done(d)') = Vals(s) \cup Vals(w)
  BY <1>0, <1>1, ConcatOnce
<1>7. Through(d) = In(q) \cup Vals(s) /\ Through(d)' = In(Tail(q)) \cup Vals(s) \cup Vals(w)
  BY <1>2, <1>6 DEF Through, q, s
<1>8. ASSUME Once(d) PROVE Apart(Tail(q)) /\ OnceDone(Done(d)') /\ In(Tail(q)) \cap Vals(Done(d)') = {}
  <2>1. Apart(q) /\ OnceDone(s) /\ In(q) \cap Vals(s) = {}
    BY <1>8 DEF Once, q, s
  <2>2. Vals(s) \cap Vals(w) = {}
    BY <1>3, <1>4, <2>1
  <2>3. OnceDone(Done(d)')
    BY <1>0, <1>1, <2>1, <2>2, ConcatOnce
  <2> QED
    BY <1>3, <1>4, <1>6, <2>1, <2>3
<1>9. /\ Through(d)' \subseteq Through(d) /\ In(Tail(q)) \subseteq In(q)
      /\ Vals(s) \subseteq Vals(Done(d)') /\ Vals(Done(d)') \subseteq Vals(s) \cup Head(q)
      /\ \A e \in Through(d) : e \in Through(d)' \/ (d = "broadcast" /\ log[e].kind.internal)
  BY <1>3, <1>4, <1>6, <1>7
<1> QED
  BY <1>2, <1>5, <1>6, <1>8, <1>9 DEF q, s

\* Whose the events are that a goroutine sends or walks.
LEMMA WhoseEvents ==
  ASSUME HomeInv
  PROVE  /\ \A t \in Threads : \A e \in out[t].events : e \in DOMAIN log /\ log[e].by = t /\ ~Dropped(e)
         /\ \A t \in Walkers : \A i \in 1 .. Len(stack[t]) : \A e \in stack[t][i].events :
              /\ e \in DOMAIN log /\ ~Dropped(e)
              /\ IF stack[t][i].publish THEN log[e].by = t ELSE log[e].by \in Readers
         /\ \A d : \A t : OnWay(d, t) \subseteq out[t].events
BY DEF HomeInv, HomesOut, HomesCall, Belongs, Dropped, OnWay, Toward

\* A line on which nothing moves stays right if what is yet to come stays apart from it.
LEMMA OnceStill ==
  ASSUME NEW d, Once(d), Still(d),
         DOMAIN log \subseteq DOMAIN log', \A e \in DOMAIN log : log'[e] = log[e],
         \A t \in Threads : OnWay(d, t)' \cap Through(d) = {},
         \A t \in Walkers : \A i \in 1 .. Len(stack'[t]) : stack'[t][i].publish =>
           stack'[t][i].events \cap (out'[t].events \cup Through(d)) = {}
  PROVE  Once(d)'
<1>1. Through(d)' = Through(d) /\ Apart(Queue(d)') /\ OnceDone(Done(d)')
      /\ In(Queue(d)') \cap Vals(Done(d)') = {}
  BY DEF Once, Still, Through
<1>2. \A e \in Through(d) : e \in DOMAIN log' /\ ~Dropped(e)'
  BY EventsStay DEF Once
<1> QED
  BY <1>1, <1>2 DEF Once

\* Nothing comes twice to clients or to the history.
LEMMA OnceNext ==
  ASSUME TypeOK, DepthInv, FlowInv, HomeInv, OneWalk, [Next]_vars, NEW d \in Lines, Once(d)
  PROVE  Once(d)'
<1>a. DepthInv' /\ HomeInv'
  BY DepthNext, HomeNext
<1>b. DOMAIN log \subseteq DOMAIN log' /\ \A e \in DOMAIN log : log'[e] = log[e]
  BY LogGrows
<1>c. /\ \A t \in Threads : \A e \in out[t].events : e \in DOMAIN log /\ log[e].by = t /\ ~Dropped(e)
      /\ \A t \in Walkers : \A i \in 1 .. Len(stack[t]) : \A e \in stack[t][i].events :
           /\ e \in DOMAIN log /\ ~Dropped(e)
           /\ IF stack[t][i].publish THEN log[e].by = t ELSE log[e].by \in Readers
      /\ \A t : OnWay(d, t) \subseteq out[t].events
  BY WhoseEvents
<1>d. \A t : OnWay(d, t)' \subseteq out'[t].events
  BY DEF OnWay, Toward
<1>e. /\ \A e \in Through(d) : e \in DOMAIN log
      /\ \A t \in Threads : OnWay(d, t) \cap Through(d) = {}
      /\ \A t \in Walkers : \A i \in 1 .. Len(stack[t]) : stack[t][i].publish =>
           stack[t][i].events \cap (out[t].events \cup Through(d)) = {}
  BY DEF Once
<1>f. /\ \A t \in Walkers : t \in Threads /\ t \notin Readers
      /\ \A t \in Readers : t \in Threads
  BY ThreadKinds
<1>g. d \in Places /\ d # "plugin" /\ Queue(d) \in Seq(Batches)
  BY LineSteps DEF Lines, Places
<1>1. ASSUME NEW t \in Readers, Read(t) \/ Greet(t), Still(d) PROVE Once(d)'
  <2>1. /\ Made(log, log', 1, t, t.of, {}, {})
        /\ \E to : out'[t] = [events |-> NewBatch(log, 1), to |-> to]
        /\ \A u \in Threads \ {t} : out'[u] = out[u]
        /\ stack' = stack
    BY <1>1, ReadEffect
  <2>2. out'[t].events = NewBatch(log, 1) /\ DOMAIN log \cap NewBatch(log, 1) = {}
    BY <2>1 DEF Made
  <2>3. ASSUME NEW u \in Threads PROVE OnWay(d, u)' \cap Through(d) = {}
    <3>1. CASE u = t
      BY <1>d, <1>e, <2>2, <3>1
    <3>2. CASE u # t
      <4>1. OnWay(d, u)' = OnWay(d, u)
        BY <2>1, <3>2 DEF OnWay
      <4> QED
        BY <1>e, <4>1
    <3> QED
      BY <3>1, <3>2
  <2>4. \A u \in Walkers : out'[u] = out[u]
    BY <1>f, <2>1
  <2> QED
    BY <1>1, <1>b, <1>e, <2>1, <2>3, <2>4, OnceStill
<1>2. ASSUME NEW t \in Threads, Send(t), Done(d)' = Done(d),
             Queue(d)' = IF d = Head(out[t].to) THEN Append(Queue(d), out[t].events) ELSE Queue(d)
      PROVE  Once(d)'
  <2> DEFINE h == Head(out[t].to)
             b == out[t].events
  <2>1. /\ b \in Batches
        /\ out'[t].events \subseteq b
        /\ \A u \in Threads \ {t} : out'[u] = out[u]
        /\ Toward(out[t], h) = b /\ Toward(out'[t], h) = {}
        /\ \A x \in Places \ {h} : Toward(out'[t], x) = Toward(out[t], x)
        /\ UNCHANGED <<log, stack>>
    BY <1>2, SendEffect
  <2>2. \A u \in Threads : out'[u].events \subseteq out[u].events /\ OnWay(d, u)' \subseteq OnWay(d, u)
    <3>1. Toward(out'[t], d) \subseteq Toward(out[t], d)
      BY <1>g, <2>1
    <3> QED
      BY <2>1, <3>1 DEF OnWay
  <2>3. CASE d # h
    <3>1. Still(d)
      BY <1>2, <2>3 DEF Still
    <3> HIDE DEF h, b
    <3> QED
      BY <1>b, <1>e, <1>f, <2>1, <2>2, <3>1, OnceStill
  <2>4. CASE d = h
    <3>1. OnWay(d, t) = b /\ OnWay(d, t)' = {} /\ Queue(d)' = Append(Queue(d), b)
      BY <1>2, <2>1, <2>4 DEF OnWay
    <3> HIDE DEF h, b
    <3>2. b \cap Through(d) = {}
      BY <1>e, <3>1
    <3>3. In(Queue(d)') = In(Queue(d)) \cup b /\ (Apart(Queue(d)) /\ b \cap In(Queue(d)) = {} => Apart(Queue(d)'))
      BY <1>g, <2>1, <3>1, AppendApart
    <3>4. Through(d)' = Through(d) \cup b
      BY <1>2, <3>3 DEF Through
    <3>5. Apart(Queue(d)') /\ OnceDone(Done(d)') /\ In(Queue(d)') \cap Vals(Done(d)') = {}
      BY <1>2, <3>2, <3>3 DEF Once, Through
    <3>6. \A e \in Through(d)' : e \in DOMAIN log' /\ ~Dropped(e)'
      <4>1. \A e \in Through(d)' : e \in DOMAIN log /\ ~Dropped(e)
        BY <1>c, <3>4 DEF Once, b
      <4> QED
        BY <1>b, <4>1, EventsStay
    <3>7. ASSUME NEW u \in Threads PROVE OnWay(d, u)' \cap Through(d)' = {}
      <4>1. CASE u = t
        BY <3>1, <4>1
      <4>2. CASE u # t
        <5>1. OnWay(d, u) \cap b = {}
          BY <1>c, <4>2 DEF b
        <5> QED
          BY <1>e, <2>2, <3>4, <5>1
      <4> QED
        BY <4>1, <4>2
    <3>8. ASSUME NEW u \in Walkers, NEW i \in 1 .. Len(stack[u]), stack[u][i].publish
          PROVE  stack[u][i].events \cap (out'[u].events \cup Through(d)') = {}
      <4>1. stack[u][i].events \cap (out[u].events \cup Through(d)) = {}
        BY <1>e, <3>8
      <4>2. stack[u][i].events \cap b = {}
        <5>1. CASE u = t
          BY <4>1, <5>1 DEF b
        <5>2. CASE u # t
          BY <1>c, <3>8, <5>2 DEF b
        <5> QED
          BY <5>1, <5>2
      <4> QED
        BY <1>f, <2>2, <3>4, <4>1, <4>2
    <3>9. stack' = stack
      BY <2>1
    <3> QED
      BY <3>5, <3>6, <3>7, <3>8, <3>9 DEF Once
  <2> QED
    BY <2>3, <2>4
<1>3. ASSUME NEW t \in Walkers, LoopTake(t), Still(d) PROVE Once(d)'
  <2>1. /\ Len(stack'[t]) = 1 /\ stack'[t][1].publish = FALSE
        /\ \A u \in Walkers \ {t} : stack'[u] = stack[u]
        /\ out' = out
    BY <1>3, TakeEffect
  <2>2. \A u : OnWay(d, u)' = OnWay(d, u)
    BY <2>1 DEF OnWay
  <2>3. ASSUME NEW u \in Walkers, NEW i \in 1 .. Len(stack'[u]), stack'[u][i].publish
        PROVE  stack'[u][i].events \cap (out'[u].events \cup Through(d)) = {}
    <3>1. u # t
      <4>1. \A j \in 1 .. Len(stack'[t]) : j = 1
        BY <2>1
      <4> QED
        BY <2>1, <2>3, <4>1
    <3> QED
      BY <1>e, <2>1, <2>3, <3>1
  <2> QED
    BY <1>3, <1>b, <1>e, <2>2, <2>3, OnceStill
<1>4. ASSUME NEW t \in Walkers, Return(t), Still(d) PROVE Once(d)'
  <2> DEFINE n == Len(stack[t])
             f == stack[t][n]
  <2>1. /\ n \in Nat \ {0} /\ stack[t] \in Seq(Frames) /\ stack[t] # <<>>
        /\ stack'[t] = Front(stack[t]) /\ Len(stack'[t]) = n - 1
        /\ \A i \in 1 .. n - 1 : stack'[t][i] = stack[t][i]
        /\ \A u \in Walkers \ {t} : stack'[u] = stack[u]
        /\ out'[t] = IF f.publish THEN [events |-> f.events, to |-> HandleEventsTo] ELSE Idle
        /\ \A u \in Threads \ {t} : out'[u] = out[u]
    BY <1>4, ReturnEffect
  <2>2. f.events \cap In(Walked(stack'[t])) = {}
    BY <2>1, WalkedFront DEF OneWalk
  <2>3. \A i \in 1 .. n - 1 : stack'[t][i].events \subseteq In(Walked(stack'[t]))
    <3>1. stack'[t] \in Seq(Frames)
      BY <1>a DEF DepthInv, WalkTypeOK
    <3> QED
      BY <2>1, <3>1, WalkedOps
  <2> HIDE DEF n
  <2>n. n \in 1 .. n /\ \A i \in 1 .. n - 1 : i \in 1 .. n
    BY <2>1
  <2>4. out'[t].events = IF f.publish THEN f.events ELSE {}
    BY <2>1 DEF Idle
  <2>5. out'[t].events \cap Through(d) = {}
    BY <1>e, <2>4, <2>n DEF n
  <2> HIDE DEF f
  <2>6. ASSUME NEW u \in Threads PROVE OnWay(d, u)' \cap Through(d) = {}
    <3>1. CASE u = t
      BY <1>d, <2>5, <3>1
    <3>2. CASE u # t
      <4>1. OnWay(d, u)' = OnWay(d, u)
        BY <2>1, <3>2 DEF OnWay
      <4> QED
        BY <1>e, <4>1
    <3> QED
      BY <3>1, <3>2
  <2>7. ASSUME NEW u \in Walkers, NEW i \in 1 .. Len(stack'[u]), stack'[u][i].publish
        PROVE  stack'[u][i].events \cap (out'[u].events \cup Through(d)) = {}
    <3>1. CASE u = t
      <4>1. i \in 1 .. n - 1 /\ i \in 1 .. Len(stack[t]) /\ stack'[t][i] = stack[t][i]
        BY <2>1, <2>n, <3>1 DEF n
      <4>2. stack[t][i].events \cap Through(d) = {}
        BY <1>e, <2>7, <3>1, <4>1
      <4>3. stack'[t][i].events \cap out'[t].events = {}
        BY <2>2, <2>3, <2>4, <4>1
      <4> QED
        BY <3>1, <4>1, <4>2, <4>3
    <3>2. CASE u # t
      BY <1>e, <1>f, <2>1, <2>7, <3>2
    <3> QED
      BY <3>1, <3>2
  <2> QED
    BY <1>4, <1>b, <2>6, <2>7, OnceStill
<1>5. ASSUME NEW t \in Walkers, WalkerStep(t), Still(d) PROVE Once(d)'
  <2>1. /\ out' = out /\ \A u \in Walkers \ {t} : stack'[u] = stack[u]
        /\ \A i \in 1 .. Len(stack[t]) : SameCall(stack[t][i], stack'[t][i])
        /\ \A i \in 1 .. Len(stack'[t]) : i \notin 1 .. Len(stack[t]) => stack'[t][i].events \subseteq New
    BY <1>5 DEF WalkerStep
  <2>2. \A u : OnWay(d, u)' = OnWay(d, u)
    BY <2>1 DEF OnWay
  <2>3. ASSUME NEW u \in Walkers, NEW i \in 1 .. Len(stack'[u]), stack'[u][i].publish
        PROVE  stack'[u][i].events \cap (out'[u].events \cup Through(d)) = {}
    <3>1. CASE u # t
      BY <1>e, <2>1, <2>3, <3>1
    <3>2. CASE u = t /\ i \in 1 .. Len(stack[t])
      BY <1>e, <2>1, <2>3, <3>2 DEF SameCall
    <3>3. CASE u = t /\ i \notin 1 .. Len(stack[t])
      BY <1>c, <1>e, <1>f, <2>1, <2>3, <3>3 DEF New
    <3> QED
      BY <3>1, <3>2, <3>3
  <2> QED
    BY <1>5, <1>b, <1>e, <2>2, <2>3, OnceStill
<1>6. CASE UNCHANGED <<log, stack, out>> /\ Still(d)
  <2>1. \A u : OnWay(d, u)' = OnWay(d, u)
    BY <1>6 DEF OnWay
  <2> QED
    BY <1>6, <1>b, <1>e, <2>1, OnceStill
<1>7. CASE UNCHANGED <<log, stack, out>> /\ HubTakes(d)
  <2>1. /\ Through(d)' \subseteq Through(d)
        /\ Apart(Queue(d)') /\ OnceDone(Done(d)') /\ In(Queue(d)') \cap Vals(Done(d)') = {}
    BY <1>7, HubMoves
  <2>2. \A u : OnWay(d, u)' = OnWay(d, u)
    BY <1>7 DEF OnWay
  <2>3. \A e \in Through(d)' : e \in DOMAIN log' /\ ~Dropped(e)'
    <3>1. \A e \in Through(d)' : e \in DOMAIN log /\ ~Dropped(e)
      BY <2>1 DEF Once
    <3> QED
      BY <1>b, <3>1, EventsStay
  <2> QED
    BY <1>7, <1>e, <2>1, <2>2, <2>3 DEF Once
<1> QED
  BY <1>1, <1>2, <1>3, <1>4, <1>5, <1>6, <1>7, LineSteps DEF LineStep

\* An event of t stays on its line, and comes to it only out of a walk that publishes.
LEMMA WentNext ==
  ASSUME TypeOK, DepthInv, FlowInv, HomeInv, [Next]_vars, NEW d \in Lines, Once(d),
         NEW e \in DOMAIN log, NEW t \in Threads, t = log[e].by
  PROVE  /\ e \in Went(d, t) => e \in Went(d, t)' \/ (d = "broadcast" /\ log[e].kind.internal)
         /\ e \in Went(d, t)' => e \in Went(d, t) \/ (t \in Walkers /\ e \in Published(t))
         /\ t \in Walkers /\ e \in Published(t) => e \in Published(t)' \/ e \in Went(d, t)'
         /\ d = "broadcast" /\ e \in Vals(Done(d)') => e \in Vals(Done(d)) \/ ~log[e].kind.internal
<1>c. \A u \in Threads : \A x \in out[u].events : x \in DOMAIN log /\ log[x].by = u
  BY WhoseEvents
<1>d. \A u : OnWay(d, u) \subseteq out[u].events /\ OnWay(d, u)' \subseteq out'[u].events
  BY DEF OnWay, Toward
<1>f. /\ \A u \in Walkers : u \in Threads /\ u \notin Readers
      /\ \A u \in Readers : u \in Threads
  BY ThreadKinds
<1>g. d \in Places /\ d # "plugin" /\ Queue(d) \in Seq(Batches)
  BY LineSteps DEF Lines, Places
<1>h. Still(d) => Through(d)' = Through(d) /\ Vals(Done(d)') = Vals(Done(d))
  BY DEF Still, Through
<1>1. ASSUME NEW u \in Readers, Read(u) \/ Greet(u), Still(d)
      PROVE  (e \in Went(d, t)' <=> e \in Went(d, t)) /\ stack' = stack
  <2>1. /\ Made(log, log', 1, u, u.of, {}, {}) /\ out[u] = Idle
        /\ \E to : out'[u] = [events |-> NewBatch(log, 1), to |-> to]
        /\ \A x \in Threads \ {u} : out'[x] = out[x]
        /\ stack' = stack
    BY <1>1, ReadEffect
  <2>2. e \in OnWay(d, t)' <=> e \in OnWay(d, t)
    <3>1. CASE t = u
      <4>1. out'[u].events = NewBatch(log, 1) /\ DOMAIN log \cap NewBatch(log, 1) = {} /\ out[u].events = {}
        BY <2>1 DEF Made, Idle
      <4> QED
        BY <1>d, <3>1, <4>1
    <3>2. CASE t # u
      BY <2>1, <3>2 DEF OnWay
    <3> QED
      BY <3>1, <3>2
  <2> QED
    BY <1>1, <1>h, <2>1, <2>2 DEF Went
<1>2. ASSUME NEW u \in Threads, Send(u), Done(d)' = Done(d),
             Queue(d)' = IF d = Head(out[u].to) THEN Append(Queue(d), out[u].events) ELSE Queue(d)
      PROVE  (e \in Went(d, t)' <=> e \in Went(d, t)) /\ stack' = stack
  <2> DEFINE h == Head(out[u].to)
             b == out[u].events
  <2>1. /\ b \in Batches
        /\ \A x \in Threads \ {u} : out'[x] = out[x]
        /\ Toward(out[u], h) = b /\ Toward(out'[u], h) = {}
        /\ \A x \in Places \ {h} : Toward(out'[u], x) = Toward(out[u], x)
        /\ stack' = stack
    BY <1>2, SendEffect
  <2>2. CASE d # h
    <3>1. Still(d)
      BY <1>2, <2>2 DEF Still
    <3> HIDE DEF h, b
    <3>2. OnWay(d, t)' = OnWay(d, t)
      BY <1>g, <2>1, <2>2 DEF OnWay
    <3> QED
      BY <1>h, <2>1, <3>1, <3>2 DEF Went
  <2>3. CASE d = h
    <3>1. OnWay(d, u) = b /\ OnWay(d, u)' = {} /\ Queue(d)' = Append(Queue(d), b)
      BY <1>2, <2>1, <2>3 DEF OnWay
    <3>2. e \in b <=> e \in OnWay(d, t) /\ t = u
      BY <1>c, <3>1
    <3>3. t # u => OnWay(d, t)' = OnWay(d, t)
      BY <2>1 DEF OnWay
    <3> HIDE DEF h, b
    <3>4. In(Queue(d)') = In(Queue(d)) \cup b
      BY <1>g, <2>1, <3>1, AppendApart
    <3>5. Through(d)' = Through(d) \cup b
      BY <1>2, <3>4 DEF Through
    <3> QED
      BY <2>1, <3>1, <3>2, <3>3, <3>5 DEF Went
  <2> QED
    BY <2>2, <2>3
<1>3. ASSUME NEW u \in Walkers, LoopTake(u), Still(d)
      PROVE  (e \in Went(d, t)' <=> e \in Went(d, t)) /\ (e \in Published(t) => t # u \/ t \notin Walkers)
             /\ (t # u /\ t \in Walkers => stack'[t] = stack[t])
  <2>1. /\ stack[u] = <<>> /\ out' = out /\ \A x \in Walkers \ {u} : stack'[x] = stack[x]
    BY <1>3, TakeEffect
  <2>2. OnWay(d, t)' = OnWay(d, t)
    BY <2>1 DEF OnWay
  <2>3. Published(u) = {}
    BY <2>1 DEF Published
  <2> QED
    BY <1>3, <1>h, <2>1, <2>2, <2>3 DEF Went
<1>4. ASSUME NEW u \in Walkers, WalkerStep(u), Still(d)
      PROVE  /\ e \in Went(d, t)' <=> e \in Went(d, t)
             /\ t \in Walkers /\ e \in Published(t) => e \in Published(t)'
  <2>1. /\ out' = out /\ \A x \in Walkers \ {u} : stack'[x] = stack[x]
        /\ Len(stack'[u]) = Len(stack[u]) \/ Len(stack'[u]) = Len(stack[u]) + 1
        /\ \A i \in 1 .. Len(stack[u]) : SameCall(stack[u][i], stack'[u][i])
    BY <1>4 DEF WalkerStep
  <2>2. OnWay(d, t)' = OnWay(d, t)
    BY <2>1 DEF OnWay
  <2>3. \A i \in 1 .. Len(stack[u]) : i \in 1 .. Len(stack'[u])
    <3>1. Len(stack[u]) \in Nat
      BY LenProperties DEF DepthInv, WalkTypeOK
    <3> QED
      BY <2>1, <3>1
  <2>4. t \in Walkers /\ e \in Published(t) => e \in Published(t)'
    <3>1. CASE t = u
      BY <2>1, <2>3, <3>1 DEF Published, SameCall
    <3>2. CASE t # u
      BY <2>1, <3>2 DEF Published
    <3> QED
      BY <3>1, <3>2
  <2> QED
    BY <1>4, <1>h, <2>2, <2>4 DEF Went
<1>5. ASSUME NEW u \in Walkers, Return(u), Still(d)
      PROVE  /\ e \in Went(d, t) => e \in Went(d, t)'
             /\ e \in Went(d, t)' => e \in Went(d, t) \/ (t \in Walkers /\ e \in Published(t))
             /\ t \in Walkers /\ e \in Published(t) => e \in Published(t)' \/ e \in Went(d, t)'
  <2> DEFINE n == Len(stack[u])
             f == stack[u][n]
  <2>1. /\ n \in Nat \ {0} /\ Len(stack'[u]) = n - 1 /\ f \in Frames
        /\ \A i \in 1 .. n - 1 : stack'[u][i] = stack[u][i]
        /\ \A x \in Walkers \ {u} : stack'[x] = stack[x]
        /\ out[u] = Idle
        /\ out'[u] = IF f.publish THEN [events |-> f.events, to |-> HandleEventsTo] ELSE Idle
        /\ \A x \in Threads \ {u} : out'[x] = out[x]
    BY <1>5, ReturnEffect
  <2>2. OnWay(d, u) = {} /\ OnWay(d, u)' = IF f.publish THEN f.events ELSE {}
    <3>1. f.publish => out'[u].events = f.events /\ out'[u].to = HandleEventsTo
      BY <2>1
    <3>2. Goes(HandleEventsTo, d)
      BY RouteTable DEF Lines
    <3> HIDE DEF f, n
    <3> QED
      BY <2>1, <3>1, <3>2 DEF OnWay, Toward, Idle
  <2>3. t # u => OnWay(d, t)' = OnWay(d, t)
    BY <2>1 DEF OnWay
  <2> HIDE DEF n
  <2>4. n \in 1 .. n /\ \A i \in 1 .. n : i = n \/ i \in 1 .. n - 1
    BY <2>1
  <2>5. f.publish /\ e \in f.events => e \in Published(u)
    <3>1. e \in f.events => e \in Events
      BY <2>1 DEF Frames, Batches
    <3> QED
      BY <2>4, <3>1 DEF Published, n
  <2>6. e \in Published(u) => e \in Published(u)' \/ (f.publish /\ e \in f.events)
    <3> SUFFICES ASSUME e \in Published(u), ~(f.publish /\ e \in f.events) PROVE e \in Published(u)'
      OBVIOUS
    <3>1. PICK i \in 1 .. n : e \in Events /\ stack[u][i].publish /\ e \in stack[u][i].events
      BY DEF Published, n
    <3>2. i \in 1 .. n - 1
      BY <2>4, <3>1
    <3> QED
      BY <2>1, <3>1, <3>2 DEF Published
  <2> HIDE DEF f
  <2>7. CASE t = u
    BY <1>5, <1>h, <2>2, <2>5, <2>6, <2>7 DEF Went
  <2>8. CASE t # u
    <3>1. ASSUME t \in Walkers PROVE Published(t)' = Published(t)
      <4>1. stack'[t] = stack[t]
        BY <2>1, <2>8, <3>1
      <4> QED
        BY <4>1 DEF Published
    <3> QED
      BY <1>5, <1>h, <2>3, <2>8, <3>1 DEF Went
  <2> QED
    BY <2>7, <2>8
<1>6. ASSUME UNCHANGED <<log, stack, out>>
      PROVE  OnWay(d, t)' = OnWay(d, t) /\ Published(t)' = Published(t)
  BY <1>6 DEF OnWay, Published
<1>7. ASSUME NEW u, stack'[u] = stack[u] PROVE Published(u)' = Published(u)
  BY <1>7 DEF Published
<1>8. CASE Still(d) /\ (e \in Went(d, t)' <=> e \in Went(d, t)) /\ (t \in Walkers /\ e \in Published(t) => e \in Published(t)')
  BY <1>8, <1>h
<1>9. CASE UNCHANGED <<log, stack, out>> /\ HubTakes(d)
  BY <1>6, <1>9, HubMoves DEF Went
<1>10. CASE UNCHANGED <<log, stack, out>> /\ Still(d)
  BY <1>6, <1>h, <1>10 DEF Went
<1>11. CASE \E u \in Walkers : Return(u) /\ Still(d)
  BY <1>5, <1>h, <1>11
<1> QED
  BY <1>1, <1>2, <1>3, <1>4, <1>7, <1>8, <1>9, <1>10, <1>11, LineSteps DEF LineStep, Still

\* Nothing is lost on its way to clients and to the history.
LEMMA NoneLostNext ==
  TypeOK /\ DepthInv /\ FlowInv /\ HomeInv /\ OneWalk /\ (\A d \in Lines : Once(d)) /\ NoneLost /\ [Next]_vars
    => NoneLost'
<1> SUFFICES ASSUME TypeOK, DepthInv, FlowInv, HomeInv, OneWalk, \A d \in Lines : Once(d), NoneLost, [Next]_vars,
                    NEW e \in DOMAIN log'
             PROVE  NotLost(e)'
  BY DEF NoneLost
<1>a. "broadcast" \in Lines /\ "history" \in Lines
      /\ Queue("broadcast") = bq /\ Done("broadcast") = shown /\ Done("history") = kept
  BY DEF Lines, Queue, Done
<1>b. DOMAIN log \subseteq DOMAIN log' /\ \A x \in DOMAIN log : log'[x] = log[x]
  BY LogGrows
<1>c. log'[e].by \in Threads /\ e \in Events
  <2>1. log' \in Seq(Entries) /\ Len(log') <= MaxEvents
    BY DepthNext DEF DepthInv, WalkTypeOK
  <2>2. DOMAIN log' = 1 .. Len(log') /\ Len(log') \in Nat /\ log'[e] \in Entries
    BY <2>1, LenProperties
  <2> QED
    BY <2>1, <2>2, LimitsAreNat DEF Entries, Events
<1>f. /\ \A u \in Walkers : u \in Threads /\ u \notin Readers /\ u.kind \notin {"read", "greet"}
      /\ \A u \in Readers : u \in Threads /\ u \notin Walkers /\ u.kind \in {"read", "greet"}
      /\ \A u \in Threads : u \in Walkers \/ u \in Readers
  BY ThreadKinds DEF Walkers, Readers, Threads, Loops, Helpers, Jobs
<1>1. CASE e \in DOMAIN log
  <2>0. log'[e] = log[e] /\ (Dropped(e)' <=> Dropped(e)) /\ log[e].by \in Threads
    BY <1>1, <1>b, <1>c, EventsStay
  <2>1. PICK t \in Threads : t = log[e].by
    BY <2>0
  <2> DEFINE b == e \in Went("broadcast", t)
             h == e \in Went("history", t)
  <2>2. NotLost(e)
    BY <1>1 DEF NoneLost
  <2>3. /\ b => e \in Went("broadcast", t)' \/ log[e].kind.internal
        /\ e \in Went("broadcast", t)' => b \/ (t \in Walkers /\ e \in Published(t))
        /\ t \in Walkers /\ e \in Published(t) => e \in Published(t)' \/ e \in Went("broadcast", t)'
        /\ e \in Vals(shown') => e \in Vals(shown) \/ ~log[e].kind.internal
    <3>1. Done("broadcast")' = shown' /\ Done("broadcast") = shown
      BY DEF Done
    <3> QED
      BY <1>1, <1>a, <2>1, <3>1, WentNext
  <2>4. /\ h => e \in Went("history", t)'
        /\ e \in Went("history", t)' => h \/ (t \in Walkers /\ e \in Published(t))
        /\ t \in Walkers /\ e \in Published(t) => e \in Published(t)' \/ e \in Went("history", t)'
    BY <1>1, <1>a, <2>1, WentNext
  <2>5. /\ t \in Walkers /\ ~Dropped(e) => e \in Published(t) \/ (h /\ (b \/ log[e].kind.internal))
        /\ t.kind = "greet" => b /\ ~h
        /\ t.kind = "greet" => ~log[e].kind.internal
        /\ t.kind = "read"  => /\ b => h
                               /\ h => b \/ log[e].kind.internal
                               /\ log[e].kind.internal => h
        /\ log[e].kind.internal => e \notin Vals(shown)
    BY <2>1, <2>2 DEF NotLost
  <2> HIDE DEF b, h
  <2> DEFINE b2 == e \in Went("broadcast", t)'
             h2 == e \in Went("history", t)'
  <2>6. /\ t \in Walkers /\ ~Dropped(e) => e \in Published(t)' \/ (h2 /\ (b2 \/ log[e].kind.internal))
        /\ t.kind = "greet" => b2 /\ ~h2
        /\ t.kind = "greet" => ~log[e].kind.internal
        /\ t.kind = "read"  => /\ b2 => h2
                               /\ h2 => b2 \/ log[e].kind.internal
                               /\ log[e].kind.internal => h2
        /\ log[e].kind.internal => e \notin Vals(shown')
    <3> HIDE DEF b2, h2
    <3>1. /\ b => b2 \/ log[e].kind.internal
          /\ b2 => b \/ (t \in Walkers /\ e \in Published(t))
          /\ t \in Walkers /\ e \in Published(t) => e \in Published(t)' \/ b2
          /\ h => h2
          /\ h2 => h \/ (t \in Walkers /\ e \in Published(t))
          /\ t \in Walkers /\ e \in Published(t) => e \in Published(t)' \/ h2
      BY <2>3, <2>4 DEF b2, h2
    <3>2. CASE t \in Walkers
      BY <1>f, <2>3, <2>5, <3>1, <3>2
    <3>3. CASE t \in Readers
      BY <1>f, <2>3, <2>5, <3>1, <3>3
    <3> QED
      BY <1>f, <2>1, <3>2, <3>3
  <2>7. log'[e].by = t
    BY <2>0, <2>1
  <2> QED
    BY <2>0, <2>6, <2>7 DEF NotLost
<1>2. CASE e \notin DOMAIN log
  <2>1. \A d \in Lines : e \notin Through(d) /\ e \notin Vals(Done(d))
    BY <1>2 DEF Once, Through
  <2>2. ASSUME NEW t \in Readers, Read(t) \/ Greet(t) PROVE NotLost(e)'
    <3>1. /\ Made(log, log', 1, t, t.of, {}, {})
          /\ t.kind = "greet" => \A x \in NewBatch(log, 1) : ~log'[x].kind.internal
          /\ UNCHANGED <<bq, hq, shown, kept>>
      BY <2>2, ReadEffect
    <3>2. PICK to \in RoutesOf(t) : /\ out'[t] = [events |-> NewBatch(log, 1), to |-> to]
                                    /\ t.kind = "greet" => Goes(to, "broadcast")
                                    /\ t.kind = "read" => (Goes(to, "broadcast") <=> Goes(to, "history"))
                                    /\ \A x \in NewBatch(log, 1) : log'[x].kind.internal => Goes(to, "broadcast")
      BY <2>2, ReadEffect
    <3>3. e \in NewBatch(log, 1) /\ log'[e].by = t
      BY <1>2, <3>1 DEF Made
    <3>4. t.kind = "greet" => ~Goes(to, "history")
      BY <1>f, RouteShrinks
    <3>5. out'[t].events = NewBatch(log, 1) /\ out'[t].to = to
      BY <3>2
    <3>6. \A d \in Lines : e \in Went(d, t)' <=> Goes(to, d)
      <4> SUFFICES ASSUME NEW d \in Lines PROVE e \in Went(d, t)' <=> Goes(to, d)
        OBVIOUS
      <4>1. Through(d)' = Through(d)
        BY <3>1 DEF Through, Queue, Done
      <4> QED
        BY <2>1, <3>3, <3>5, <4>1 DEF Went, OnWay, Toward
    <3>7. (e \in Went("broadcast", t)' <=> Goes(to, "broadcast")) /\ (e \in Went("history", t)' <=> Goes(to, "history"))
      BY <1>a, <3>6
    <3>8. t \notin Walkers
      BY <1>f
    <3>9. e \notin Vals(shown') /\ (t.kind = "greet" => ~log'[e].kind.internal)
          /\ (log'[e].kind.internal => Goes(to, "broadcast"))
      BY <1>a, <2>1, <3>1, <3>2, <3>3
    <3> QED
      BY <3>2, <3>3, <3>4, <3>7, <3>8, <3>9 DEF NotLost
  <2>3. ASSUME NEW t \in Walkers, WalkerStep(t) PROVE NotLost(e)'
    <3>1. /\ log'[e].by = t /\ shown' = shown
          /\ Dropped(e)' \/ (Len(stack'[t]) = Len(stack[t]) + 1 /\ e \in stack'[t][Len(stack[t]) + 1].events)
          /\ \A i \in 1 .. Len(stack'[t]) : i \notin 1 .. Len(stack[t]) => stack'[t][i].publish
      BY <1>2, <2>3 DEF WalkerStep, New
    <3>2. ~Dropped(e)' => e \in Published(t)'
      <4>1. Len(stack[t]) \in Nat
        BY LenProperties DEF DepthInv, WalkTypeOK
      <4>2. Len(stack'[t]) = Len(stack[t]) + 1 =>
              Len(stack[t]) + 1 \in 1 .. Len(stack'[t]) /\ Len(stack[t]) + 1 \notin 1 .. Len(stack[t])
        BY <4>1
      <4> QED
        BY <1>c, <3>1, <4>2 DEF Published
    <3>3. e \notin Vals(shown)
      BY <1>a, <2>1
    <3> QED
      BY <1>f, <3>1, <3>2, <3>3 DEF NotLost
  <2>4. log' # log
    BY <1>2
  <2>5. \A t \in Threads : ~Send(t)
    BY <2>4 DEF Send
  <2>6. \A t \in Walkers : ~LoopTake(t) /\ ~Return(t)
    BY <2>4 DEF LoopTake, Return
  <2>7. ~(UNCHANGED <<log, stack, out>>)
    BY <2>4
  <2> QED
    BY <1>a, <2>2, <2>3, <2>5, <2>6, <2>7, LineSteps DEF LineStep
<1> QED
  BY <1>1, <1>2

\* How often an event is in a sequence that has each event once.
LEMMA CountOnce ==
  ASSUME NEW s \in Seq(Events), OnceDone(s), NEW e \in Events
  PROVE  Count(s, e) = IF e \in Vals(s) THEN 1 ELSE 0
<1> DEFINE P == {i \in DOMAIN s : s[i] = e}
<1>1. DOMAIN s = 1 .. Len(s)
  BY LenProperties
<1>2. CASE e \in Vals(s)
  <2>1. PICK i \in 1 .. Len(s) : s[i] = e
    BY <1>2 DEF Vals
  <2>2. P = {i}
    BY <1>1, <2>1 DEF OnceDone
  <2>3. Cardinality({i}) = 1
    BY FS_Singleton
  <2> QED
    BY <1>2, <2>2, <2>3 DEF Count
<1>3. CASE e \notin Vals(s)
  <2>1. P = {}
    BY <1>1, <1>3 DEF Vals
  <2> QED
    BY <1>3, <2>1, FS_EmptySet DEF Count
<1> QED
  BY <1>2, <1>3

\* What holds of the two lines out of the pipeline, with what it needs of the walks.
PublishInv ==
  /\ TypeOK /\ DepthInv /\ FlowInv /\ HomeInv /\ OneWalk
  /\ (\A d \in Lines : Once(d)) /\ NoneLost

\* Nothing has been published at the start.
LEMMA PublishInit == Init => PublishInv
<1> SUFFICES ASSUME Init PROVE PublishInv
  OBVIOUS
<1>1. \A t \in Threads : out[t] = Idle
  BY DEF Init
<1>2. ASSUME NEW d \in Lines PROVE Once(d)
  <2>1. Queue(d) = <<>> /\ Done(d) = <<>>
    BY DEF Init, Queue, Done
  <2>2. In(<<>>) = {} /\ Vals(<<>>) = {} /\ Apart(<<>>) /\ OnceDone(<<>>)
    BY DEF In, Vals, Apart, OnceDone
  <2>3. Through(d) = {}
    BY <2>1, <2>2 DEF Through
  <2>4. \A t \in Walkers : Len(stack[t]) = 0
    BY DEF Init
  <2> QED
    BY <2>1, <2>2, <2>3, <2>4 DEF Once
<1>3. DOMAIN log = {}
  BY DEF Init
<1> QED
  BY <1>2, <1>3, TypesInit, InitInv, HomeInit DEF PublishInv, NoneLost

\* The lines stay right.
LEMMA PublishNext == PublishInv /\ [Next]_vars => PublishInv'
<1> SUFFICES ASSUME PublishInv, [Next]_vars PROVE PublishInv'
  OBVIOUS
<1>1. /\ TypeOK /\ DepthInv /\ FlowInv /\ HomeInv /\ OneWalk
      /\ (\A d \in Lines : Once(d)) /\ NoneLost
  BY DEF PublishInv
<1>2. TypeOK' /\ DepthInv' /\ FlowInv' /\ HomeInv' /\ OneWalk'
  BY <1>1, TypesNext, DepthNext, FlowNext, HomeNext, OneWalkNext
<1>3. \A d \in Lines : Once(d)'
  BY <1>1, OnceNext
<1>4. NoneLost'
  BY <1>1, NoneLostNext
<1> QED
  BY <1>2, <1>3, <1>4 DEF PublishInv

\* When everything is quiet, what was to be published has been, once: an event is at most
\* once on a line, and never lost between the call that walks it and the hub.
THEOREM PublishedExactlyOnce == Spec => []PublishedOnce
<1>1. PublishInv => PublishedOnce
  <2> SUFFICES ASSUME PublishInv, Quiet, NEW e \in DOMAIN log
               PROVE  LET is == <<Count(shown, e), Count(kept, e)>> IN
                      CASE Dropped(e)               -> is = <<0, 0>>
                        [] log[e].by.kind = "greet" -> is = <<1, 0>>
                        [] log[e].by.kind = "read"  ->
                             is \in IF log[e].kind.internal THEN {<<0, 1>>} ELSE {<<0, 0>>, <<1, 1>>}
                        [] OTHER                    -> is = <<IF log[e].kind.internal THEN 0 ELSE 1, 1>>
    BY DEF PublishedOnce
  <2> DEFINE b == e \in Vals(shown)
             h == e \in Vals(kept)
  <2>1. e \in Events /\ log[e].by \in Threads
    <3>1. log \in Seq(Entries) /\ Len(log) <= MaxEvents
      BY DEF PublishInv, DepthInv, WalkTypeOK
    <3>2. DOMAIN log = 1 .. Len(log) /\ Len(log) \in Nat /\ log[e] \in Entries
      BY <3>1, LenProperties
    <3> QED
      BY <3>1, <3>2, LimitsAreNat DEF Entries, Events
  <2>2. "broadcast" \in Lines /\ "history" \in Lines /\ Once("broadcast") /\ Once("history") /\ NotLost(e)
    BY DEF PublishInv, NoneLost, Lines
  <2>3. /\ shown \in Seq(Events) /\ kept \in Seq(Events)
        /\ OnceDone(shown) /\ OnceDone(kept)
    BY <2>2 DEF PublishInv, TypeOK, Once, Done
  <2>4. /\ Count(shown, e) = (IF b THEN 1 ELSE 0)
        /\ Count(kept, e) = (IF h THEN 1 ELSE 0)
    BY <2>1, <2>3, CountOnce
  <2>5. In(<<>>) = {}
    BY DEF In
  <2>6. Went("broadcast", log[e].by) = Vals(shown) /\ Went("history", log[e].by) = Vals(kept)
    BY <2>1, <2>5 DEF Quiet, Went, OnWay, Toward, Idle, Through, Queue, Done
  <2>7. log[e].by \in Walkers => e \notin Published(log[e].by)
    BY DEF Quiet, Published
  <2>8. Dropped(e) => ~b /\ ~h
    BY <2>2 DEF Once, Through, Done
  <2>9. /\ log[e].by \in Walkers /\ ~Dropped(e) => h /\ (b \/ log[e].kind.internal)
        /\ log[e].by.kind = "greet" => b /\ ~h
        /\ log[e].by.kind = "read"  => /\ b => h
                                       /\ h => b \/ log[e].kind.internal
                                       /\ log[e].kind.internal => h
        /\ log[e].kind.internal => ~b
    BY <2>2, <2>6, <2>7 DEF NotLost
  <2>10. log[e].by.kind \in {"read", "greet"} \/ log[e].by \in Walkers
    BY <2>1 DEF Threads, Readers
  <2>11. Dropped(e) => log[e].by.kind = "emit"
    BY DEF Dropped
  <2> HIDE DEF b, h
  <2>12. CASE Dropped(e)
    BY <2>4, <2>8, <2>11, <2>12
  <2>13. CASE log[e].by.kind = "greet"
    BY <2>4, <2>9, <2>11, <2>13
  <2>14. CASE log[e].by.kind = "read"
    <3>1. CASE log[e].kind.internal
      BY <2>4, <2>9, <2>11, <2>14, <3>1
    <3>2. CASE ~log[e].kind.internal
      BY <2>4, <2>9, <2>11, <2>14, <3>2
    <3> QED
      BY <3>1, <3>2
  <2>15. CASE ~Dropped(e) /\ log[e].by.kind # "greet" /\ log[e].by.kind # "read"
    BY <2>4, <2>9, <2>10, <2>15
  <2> QED
    BY <2>12, <2>13, <2>14, <2>15
<1> QED
  BY <1>1, PublishInit, PublishNext, PTL DEF Spec

-----------------------------------------------------------------------------
\* A batch that is sent keeps an answer ahead of what it answers, if none of it is in the batch ...
LEMMA AheadAppend ==
  ASSUME NEW q \in Seq(Batches), NEW s, NEW b \in Batches, NEW f, NEW e, Ahead(q, s, f, e),
         f \in b => e \notin b /\ e \notin Vals(s) /\ e \notin In(q), e \in Events
  PROVE  Ahead(Append(q, b), s, f, e)
<1> DEFINE r == Append(q, b)
           n == Len(q)
<1>1. /\ n \in Nat /\ Len(r) = n + 1 /\ r[n + 1] = b
      /\ \A i \in 1 .. n : r[i] = q[i]
  BY AppendProperties, LenProperties
<1> HIDE DEF r
<1>2. ASSUME NEW j \in 1 .. Len(r), f \in r[j] PROVE e \notin Vals(s) /\ \A i \in 1 .. j : e \notin r[i]
  <2>1. CASE j \in 1 .. n
    <3>1. f \in q[j] /\ \A i \in 1 .. j : i \in 1 .. n
      BY <1>1, <1>2, <2>1
    <3> QED
      BY <1>1, <2>1, <3>1 DEF Ahead
  <2>2. CASE j \notin 1 .. n
    <3> HIDE DEF n
    <3>1. j = n + 1 /\ \A i \in 1 .. j : i \in 1 .. n \/ i = n + 1
      BY <1>1, <2>2
    <3>2. f \in b /\ \A i \in 1 .. n : e \notin q[i]
      BY <1>1, <1>2, <3>1 DEF In, n
    <3> QED
      BY <1>1, <3>1, <3>2
  <2> QED
    BY <2>1, <2>2
<1> QED
  BY <1>2 DEF Ahead, r

\* ... and behind a message that has been sent before.
LEMMA BehindAppend ==
  ASSUME NEW q \in Seq(Batches), NEW s, NEW b \in Batches, NEW f, NEW e, Behind(q, s, f, e), e \notin b
  PROVE  Behind(Append(q, b), s, f, e)
<1> DEFINE r == Append(q, b)
           n == Len(q)
<1>1. /\ n \in Nat /\ Len(r) = n + 1 /\ r[n + 1] = b
      /\ \A i \in 1 .. n : r[i] = q[i]
  BY AppendProperties, LenProperties
<1>2. e \in In(r) => e \in In(q)
  BY AppendApart
<1> HIDE DEF r
<1>3. ASSUME NEW j \in 1 .. Len(r), f \in r[j], e \in In(r) PROVE \E i \in 1 .. j - 1 : e \in r[i]
  <2>1. CASE j \in 1 .. n
    <3>1. PICK i \in 1 .. j - 1 : e \in q[i]
      BY <1>1, <1>2, <1>3, <2>1 DEF Behind
    <3>2. i \in 1 .. n
      BY <1>1, <2>1
    <3> QED
      BY <1>1, <3>1, <3>2
  <2>2. CASE j \notin 1 .. n
    <3>1. PICK i \in 1 .. n : e \in q[i]
      BY <1>2, <1>3 DEF In
    <3> HIDE DEF n
    <3>2. i \in 1 .. j - 1
      BY <1>1, <2>2
    <3> QED
      BY <1>1, <3>1, <3>2
  <2> QED
    BY <2>1, <2>2
<1> QED
  BY <1>2, <1>3 DEF Behind, r

\* The hub keeps the order of the queue.
LEMMA HubKeepsOrder ==
  ASSUME NEW q \in Seq(Batches), q # <<>>, NEW s \in Seq(Events), NEW w \in Seq(Events),
         Vals(w) \subseteq Head(q), Apart(q), NEW f \in Events, NEW e \in Events
  PROVE  /\ Ahead(q, s, f, e) => Ahead(Tail(q), s \o w, f, e)
         /\ Behind(q, s, f, e) => Behind(Tail(q), s \o w, f, e)
<1> DEFINE p == Tail(q)
           n == Len(q)
           r == s \o w
           m == Len(s)
<1>1. /\ n \in Nat \ {0} /\ Len(p) = n - 1 /\ p \in Seq(Batches) /\ Head(q) = q[1]
      /\ \A i \in 1 .. n - 1 : p[i] = q[i + 1]
  BY HeadTailProperties, EmptySeq, LenProperties
<1>2. In(q) = Head(q) \cup In(p) /\ Head(q) \cap In(p) = {}
  BY TailApart
<1>3. /\ m \in Nat /\ Len(r) \in Nat /\ m <= Len(r)
      /\ \A k \in 1 .. m : k \in 1 .. Len(r) /\ r[k] = s[k]
      /\ \A k \in 1 .. Len(r) : k \notin 1 .. m => r[k] \in Vals(w) /\ k > m
      /\ Vals(r) = Vals(s) \cup Vals(w)
  BY ConcatOnce
<1>4. \A k \in 1 .. m : s[k] \in Vals(s)
  <2>1. \A k \in 1 .. m : s[k] \in Events
    BY ElementOfSeq
  <2> QED
    BY <2>1 DEF Vals
<1> HIDE DEF p, r
<1>5. ASSUME Ahead(q, s, f, e) PROVE Ahead(p, r, f, e)
  <2>1. ASSUME NEW j \in 1 .. Len(p), f \in p[j] PROVE e \notin Vals(r) /\ \A i \in 1 .. j : e \notin p[i]
    <3>0. /\ j + 1 \in 1 .. n /\ 1 \in 1 .. j + 1 /\ j \in 1 .. n - 1
          /\ \A i \in 1 .. j : i + 1 \in 1 .. j + 1 /\ i \in 1 .. n - 1
      <4> HIDE DEF n
      <4> QED
        BY <1>1
    <3>1. f \in q[j + 1]
      BY <1>1, <2>1, <3>0
    <3>2. e \notin Vals(s) /\ \A i \in 1 .. j + 1 : e \notin q[i]
      BY <1>5, <3>0, <3>1 DEF Ahead
    <3>3. e \notin Vals(w)
      BY <1>1, <3>0, <3>2
    <3> QED
      BY <1>1, <1>3, <3>0, <3>2, <3>3
  <2>2. ASSUME NEW k \in 1 .. Len(r), r[k] = f PROVE \A i \in 1 .. k : r[i] # e
    <3>1. CASE k \in 1 .. m
      <4>1. s[k] = f /\ \A i \in 1 .. k : i \in 1 .. m
        BY <1>3, <2>2, <3>1
      <4> QED
        BY <1>3, <1>5, <3>1, <4>1 DEF Ahead
    <3>2. CASE k \notin 1 .. m
      <4>1. f \in q[1] /\ 1 \in 1 .. n
        BY <1>1, <1>3, <2>2, <3>2
      <4>2. e \notin Vals(s) /\ e \notin q[1]
        <5>1. 1 \in 1 .. 1
          OBVIOUS
        <5> QED
          BY <1>5, <4>1, <5>1 DEF Ahead
      <4>3. e \notin Vals(r)
        BY <1>1, <1>3, <4>2
      <4>4. \A i \in 1 .. k : i \in 1 .. Len(r)
        BY <1>3
      <4> QED
        BY <4>3, <4>4 DEF Vals
    <3> QED
      BY <3>1, <3>2
  <2> QED
    BY <2>1, <2>2 DEF Ahead
<1>6. ASSUME Behind(q, s, f, e) PROVE Behind(p, r, f, e)
  <2>1. ASSUME NEW j \in 1 .. Len(p), f \in p[j], e \in In(p) PROVE \E i \in 1 .. j - 1 : e \in p[i]
    <3>0. j + 1 \in 1 .. n /\ j \in 1 .. n - 1 /\ (j + 1) - 1 = j
      <4> HIDE DEF n
      <4> QED
        BY <1>1
    <3>1. f \in q[j + 1] /\ e \in In(q)
      BY <1>1, <1>2, <2>1, <3>0
    <3>2. PICK i \in 1 .. j : e \in q[i]
      BY <1>6, <3>0, <3>1 DEF Behind
    <3>3. i # 1
      BY <1>1, <1>2, <2>1, <3>2
    <3>4. i - 1 \in 1 .. j - 1 /\ i - 1 \in 1 .. n - 1 /\ (i - 1) + 1 = i
      <4> HIDE DEF n
      <4> QED
        BY <1>1, <3>0, <3>3
    <3>5. e \in p[i - 1]
      BY <1>1, <3>2, <3>4
    <3> QED
      BY <3>4, <3>5
  <2>2. f \in Vals(w) => e \notin In(q)
    <3> SUFFICES ASSUME f \in Vals(w), e \in In(q) PROVE FALSE
      OBVIOUS
    <3>1. f \in q[1] /\ 1 \in 1 .. n
      BY <1>1
    <3>2. \E i \in 1 .. 1 - 1 : e \in q[i]
      BY <1>6, <3>1 DEF Behind
    <3> QED
      BY <3>2
  <2>3. f \in Vals(r) => e \notin In(p)
    BY <1>2, <1>3, <1>6, <2>2 DEF Behind
  <2>4. ASSUME NEW k \in 1 .. Len(r), r[k] = f, e \in Vals(r) PROVE \E i \in 1 .. k - 1 : r[i] = e
    <3>1. CASE k \in 1 .. m
      <4>1. s[k] = f /\ f \in Vals(s)
        BY <1>3, <1>4, <2>4, <3>1
      <4>2. e \in Vals(s)
        BY <1>2, <1>3, <1>6, <2>4, <4>1 DEF Behind
      <4>3. PICK i \in 1 .. k - 1 : s[i] = e
        BY <1>6, <3>1, <4>1, <4>2 DEF Behind
      <4>4. i \in 1 .. m
        <5> HIDE DEF m
        <5> QED
          BY <1>3, <3>1
      <4> QED
        BY <1>3, <4>3, <4>4
    <3>2. CASE k \notin 1 .. m
      <4>1. f \in Vals(w) /\ k > m
        BY <1>3, <2>4, <3>2
      <4>2. e \in Vals(s)
        BY <1>2, <1>3, <2>2, <2>4, <4>1
      <4>3. PICK i \in 1 .. m : s[i] = e
        BY <4>2 DEF Vals
      <4>4. i \in 1 .. k - 1
        <5> HIDE DEF m
        <5> QED
          BY <1>3, <4>1
      <4> QED
        BY <1>3, <4>3, <4>4
    <3> QED
      BY <3>1, <3>2
  <2> QED
    BY <2>1, <2>3, <2>4 DEF Behind
<1> QED
  BY <1>5, <1>6 DEF p, r

\* What the goroutines walk in a step: a walk goes on, begins, or comes to its end.
LEMMA CallSteps ==
  ASSUME TypeOK, DepthInv, HomeInv, [Next]_vars, NEW t \in Walkers
  PROVE  \/ stack'[t] = stack[t]
         \/ WalkerStep(t)
         \/ stack[t] = <<>> /\ Len(stack'[t]) = 1 /\ stack'[t][1].publish = FALSE
         \/ Return(t)
<1> DEFINE G == \/ stack'[t] = stack[t]
                \/ WalkerStep(t)
                \/ stack[t] = <<>> /\ Len(stack'[t]) = 1 /\ stack'[t][1].publish = FALSE
                \/ Return(t)
<1>0. "broadcast" \in Lines
  BY DEF Lines
<1>1. ASSUME NEW u \in Readers, Read(u) \/ Greet(u) PROVE G
  BY <1>1, ReadEffect
<1>2. ASSUME NEW u \in Threads, Send(u) PROVE G
  BY <1>2 DEF Send
<1>3. ASSUME NEW u \in Walkers, LoopTake(u) PROVE G
  <2>1. /\ stack[u] = <<>> /\ Len(stack'[u]) = 1 /\ stack'[u][1].publish = FALSE
        /\ \A x \in Walkers \ {u} : stack'[x] = stack[x]
    BY <1>3, TakeEffect
  <2> QED
    BY <2>1
<1>4. ASSUME NEW u \in Walkers, Return(u) PROVE G
  <2>1. \A x \in Walkers \ {u} : stack'[x] = stack[x]
    BY <1>4, ReturnEffect
  <2> QED
    BY <1>4, <2>1
<1>5. ASSUME NEW u \in Walkers, WalkerStep(u) PROVE G
  <2>1. \A x \in Walkers \ {u} : stack'[x] = stack[x]
    BY <1>5 DEF WalkerStep
  <2> QED
    BY <1>5, <2>1
<1>6. UNCHANGED <<log, stack, out>> => G
  OBVIOUS
<1> HIDE DEF G
<1>7. G
  BY <1>0, <1>1, <1>2, <1>3, <1>4, <1>5, <1>6, LineSteps DEF LineStep
<1> QED
  BY <1>7 DEF G

\* An answer stays inside the walk of the event that it answers.
LEMMA InsideNext ==
  ASSUME TypeOK, DepthInv, FlowInv, HomeInv, [Next]_vars, NEW t \in Walkers,
         NEW f \in DOMAIN log, t = log[f].by, NEW e, Inside(t, f, e)
  PROVE  Inside(t, f, e)'
<1>1. HomeInv' /\ log'[f] = log[f]
  BY HomeNext, LogGrows
<1>2. CASE stack'[t] = stack[t]
  BY <1>2 DEF Inside
<1>3. CASE WalkerStep(t)
  <2>1. /\ \A i \in 1 .. Len(stack[t]) : SameCall(stack[t][i], stack'[t][i])
        /\ \A i \in 1 .. Len(stack'[t]) : i \notin 1 .. Len(stack[t]) => stack'[t][i].events \subseteq New
    BY <1>3 DEF WalkerStep
  <2> SUFFICES ASSUME NEW j \in 1 .. Len(stack'[t]), f \in stack'[t][j].events
               PROVE  \E i \in 1 .. j - 1 : stack'[t][i].publish /\ e \in stack'[t][i].events
    BY DEF Inside
  <2>2. j \in 1 .. Len(stack[t])
    BY <2>1 DEF New
  <2>3. f \in stack[t][j].events
    BY <2>1, <2>2 DEF SameCall
  <2>4. PICK i \in 1 .. j - 1 : stack[t][i].publish /\ e \in stack[t][i].events
    BY <2>2, <2>3 DEF Inside
  <2>5. i \in 1 .. Len(stack[t])
    <3>1. Len(stack[t]) \in Nat
      BY LenProperties DEF DepthInv, WalkTypeOK
    <3> QED
      BY <2>2, <3>1
  <2> QED
    BY <2>1, <2>4, <2>5 DEF SameCall
<1>4. CASE stack[t] = <<>> /\ Len(stack'[t]) = 1 /\ stack'[t][1].publish = FALSE
  <2> SUFFICES ASSUME NEW j \in 1 .. Len(stack'[t]), f \in stack'[t][j].events PROVE FALSE
    BY DEF Inside
  <2>1. j = 1
    BY <1>4
  <2>2. Belongs(log', t, stack'[t][j])
    BY <1>1 DEF HomeInv, HomesCall
  <2> QED
    BY <1>1, <1>4, <2>1, <2>2, ThreadKinds DEF Belongs
<1>5. CASE Return(t)
  <2> DEFINE n == Len(stack[t])
  <2>1. n \in Nat \ {0} /\ Len(stack'[t]) = n - 1 /\ \A i \in 1 .. n - 1 : stack'[t][i] = stack[t][i]
    BY <1>5, ReturnEffect
  <2> SUFFICES ASSUME NEW j \in 1 .. Len(stack'[t]), f \in stack'[t][j].events
               PROVE  \E i \in 1 .. j - 1 : stack'[t][i].publish /\ e \in stack'[t][i].events
    BY DEF Inside
  <2> HIDE DEF n
  <2>2. j \in 1 .. n - 1 /\ j \in 1 .. n /\ \A i \in 1 .. j - 1 : i \in 1 .. n - 1
    BY <2>1
  <2> QED
    BY <2>1, <2>2 DEF Inside, n
<1> QED
  BY <1>2, <1>3, <1>4, <1>5, CallSteps

\* What a call publishes stays published by it until the call returns.
LEMMA PublishedStays ==
  ASSUME TypeOK, DepthInv, HomeInv, [Next]_vars, NEW t \in Walkers, ~Return(t), NEW e \in Published(t)
  PROVE  e \in Published(t)'
<1>1. PICK i \in 1 .. Len(stack[t]) : e \in Events /\ stack[t][i].publish /\ e \in stack[t][i].events
  BY DEF Published
<1>2. CASE stack'[t] = stack[t]
  BY <1>1, <1>2 DEF Published
<1>3. CASE WalkerStep(t)
  <2>1. /\ SameCall(stack[t][i], stack'[t][i])
        /\ Len(stack'[t]) = Len(stack[t]) \/ Len(stack'[t]) = Len(stack[t]) + 1
    BY <1>1, <1>3 DEF WalkerStep
  <2>2. i \in 1 .. Len(stack'[t])
    <3>1. Len(stack[t]) \in Nat
      BY LenProperties DEF DepthInv, WalkTypeOK
    <3> QED
      BY <1>1, <2>1, <3>1
  <2> QED
    BY <1>1, <2>1, <2>2 DEF Published, SameCall
<1>4. CASE stack[t] = <<>>
  BY <1>1, <1>4
<1> QED
  BY <1>2, <1>3, <1>4, CallSteps

\* While an answer is on its way, the event that it answers is still walked.
LEMMA OnWayNext ==
  ASSUME TypeOK, DepthInv, FlowInv, HomeInv, [Next]_vars, NEW d \in Lines, NEW t \in Walkers,
         NEW f \in DOMAIN log, NEW e \in Events, Inside(t, f, e),
         f \in OnWay(d, t) => e \in Published(t)
  PROVE  f \in OnWay(d, t)' => e \in Published(t)'
<1>f. t \in Threads /\ t \notin Readers /\ \A u \in Walkers : u \in Threads /\ u \notin Readers
  BY ThreadKinds
<1>g. d \in Places
  BY DEF Lines, Places
<1>1. CASE Return(t)
  <2> DEFINE n == Len(stack[t])
             c == stack[t][n]
  <2>1. /\ n \in Nat \ {0} /\ Len(stack'[t]) = n - 1
        /\ \A i \in 1 .. n - 1 : stack'[t][i] = stack[t][i]
        /\ out'[t] = IF c.publish THEN [events |-> c.events, to |-> HandleEventsTo] ELSE Idle
    BY <1>1, ReturnEffect
  <2> HIDE DEF n
  <2>2. n \in 1 .. n
    BY <2>1
  <2> SUFFICES ASSUME f \in OnWay(d, t)' PROVE e \in Published(t)'
    OBVIOUS
  <2>3. f \in c.events
    <3>1. f \in out'[t].events
      BY DEF OnWay, Toward
    <3> HIDE DEF c
    <3> QED
      BY <2>1, <3>1 DEF Idle
  <2>4. PICK i \in 1 .. n - 1 : stack[t][i].publish /\ e \in stack[t][i].events
    BY <2>2, <2>3 DEF Inside, n
  <2> QED
    BY <2>1, <2>4 DEF Published
<1>2. CASE ~Return(t)
  <2>1. f \in OnWay(d, t)' => f \in OnWay(d, t)
    <3>1. ASSUME NEW u \in Readers, Read(u) \/ Greet(u) PROVE out'[t] = out[t]
      BY <1>f, <3>1, ReadEffect
    <3>2. ASSUME NEW u \in Threads, Send(u) PROVE OnWay(d, t)' \subseteq OnWay(d, t)
      <4>1. CASE u = t
        <5> DEFINE h == Head(out[t].to)
        <5>1. Toward(out'[t], h) = {} /\ \A x \in Places \ {h} : Toward(out'[t], x) = Toward(out[t], x)
          BY <3>2, <4>1, SendEffect
        <5> HIDE DEF h
        <5> QED
          BY <1>g, <5>1 DEF OnWay
      <4>2. CASE u # t
        BY <1>f, <3>2, <4>2, SendEffect DEF OnWay
      <4> QED
        BY <4>1, <4>2
    <3>3. ASSUME NEW u \in Walkers, LoopTake(u) PROVE out'[t] = out[t]
      BY <3>3 DEF LoopTake
    <3>4. ASSUME NEW u \in Walkers, Return(u) PROVE out'[t] = out[t]
      <4>1. u # t
        BY <1>2, <3>4
      <4>2. \A x \in Threads \ {u} : out'[x] = out[x]
        BY <3>4, ReturnEffect
      <4> QED
        BY <1>f, <4>1, <4>2
    <3>5. ASSUME NEW u \in Walkers, WalkerStep(u) PROVE out'[t] = out[t]
      BY <3>5 DEF WalkerStep
    <3>6. out'[t] = out[t] => OnWay(d, t)' = OnWay(d, t)
      BY DEF OnWay
    <3> QED
      BY <3>1, <3>2, <3>3, <3>4, <3>5, <3>6, LineSteps DEF LineStep
  <2> QED
    BY <1>2, <2>1, PublishedStays
<1> QED
  BY <1>1, <1>2

\* On both lines an answer stays ahead of a plugin's event, and behind a message.
LEMMA LineOrderNext ==
  ASSUME TypeOK, DepthInv, FlowInv, HomeInv, [Next]_vars, NEW d \in Lines, Once(d),
         NEW f \in DOMAIN log, NEW t \in Walkers, t = log[f].by, NEW e \in DOMAIN log
  PROVE  /\ /\ log[e].by = t /\ (f \in OnWay(d, t) => e \in Published(t))
            /\ Ahead(Queue(d), Done(d), f, e)
            => Ahead(Queue(d)', Done(d)', f, e)
         /\ /\ log[e].by \in Readers /\ e \notin out[log[e].by].events
            /\ Behind(Queue(d), Done(d), f, e)
            => Behind(Queue(d)', Done(d)', f, e)
<1>a. Queue(d) \in Seq(Batches) /\ Done(d) \in Seq(Events) /\ Apart(Queue(d))
  BY LineSteps DEF Once
<1>b. e \in Events /\ f \in Events
  <2>1. DOMAIN log = 1 .. Len(log) /\ Len(log) \in Nat /\ Len(log) <= MaxEvents
    BY LenProperties DEF DepthInv, WalkTypeOK
  <2> QED
    BY <2>1, LimitsAreNat DEF Events
<1>1. CASE Still(d)
  BY <1>1 DEF Still
<1>2. ASSUME NEW u \in Threads, Send(u), Done(d)' = Done(d),
             Queue(d)' = IF d = Head(out[u].to) THEN Append(Queue(d), out[u].events) ELSE Queue(d)
      PROVE  /\ /\ log[e].by = t /\ (f \in OnWay(d, t) => e \in Published(t))
                /\ Ahead(Queue(d), Done(d), f, e)
                => Ahead(Queue(d)', Done(d)', f, e)
             /\ /\ log[e].by \in Readers /\ e \notin out[log[e].by].events
                /\ Behind(Queue(d), Done(d), f, e)
                => Behind(Queue(d)', Done(d)', f, e)
  <2> DEFINE h == Head(out[u].to)
             b == out[u].events
  <2>1. b \in Batches /\ Toward(out[u], h) = b
    BY <1>2, SendEffect
  <2>2. \A x \in b : x \in DOMAIN log /\ log[x].by = u
    BY WhoseEvents
  <2>3. CASE d # h
    BY <1>2, <2>3
  <2>4. CASE d = h
    <3>1. Queue(d)' = Append(Queue(d), b) /\ OnWay(d, u) = b
      BY <1>2, <2>1, <2>4 DEF OnWay
    <3>2. ASSUME log[e].by \in Readers, e \notin out[log[e].by].events
          PROVE  e \notin b
      BY <2>2, <3>2
    <3>3. ASSUME f \in b, f \in OnWay(d, t) => e \in Published(t)
          PROVE  e \notin b /\ e \notin Vals(Done(d)) /\ e \notin In(Queue(d))
      <4>1. u = t
        BY <2>2, <3>3
      <4>2. e \in Published(t)
        BY <3>1, <3>3, <4>1
      <4>3. PICK i \in 1 .. Len(stack[t]) : stack[t][i].publish /\ e \in stack[t][i].events
        BY <4>2 DEF Published
      <4>4. stack[t][i].events \cap (out[t].events \cup Through(d)) = {}
        BY <4>3 DEF Once
      <4> QED
        BY <4>1, <4>3, <4>4 DEF Through
    <3> HIDE DEF b
    <3>4. log[e].by = t /\ (f \in OnWay(d, t) => e \in Published(t)) /\ Ahead(Queue(d), Done(d), f, e)
            => Ahead(Append(Queue(d), b), Done(d), f, e)
      BY <1>a, <1>b, <2>1, <3>3, AheadAppend
    <3>5. log[e].by \in Readers /\ e \notin out[log[e].by].events /\ Behind(Queue(d), Done(d), f, e)
            => Behind(Append(Queue(d), b), Done(d), f, e)
      BY <1>a, <1>b, <2>1, <3>2, BehindAppend
    <3> QED
      BY <1>2, <3>1, <3>4, <3>5
  <2> QED
    BY <2>3, <2>4
<1>3. CASE HubTakes(d)
  <2>1. PICK w \in Seq(Events) :
          /\ Done(d)' = Done(d) \o w
          /\ Vals(w) = IF d = "history" THEN Head(Queue(d)) ELSE KeepEvents(Head(Queue(d)), log)
    BY <1>3 DEF HubTakes
  <2>2. Queue(d) # <<>> /\ Queue(d)' = Tail(Queue(d))
    BY <1>3 DEF HubTakes
  <2>3. Vals(w) \subseteq Head(Queue(d))
    BY <2>1 DEF KeepEvents
  <2>4. /\ Ahead(Queue(d), Done(d), f, e) => Ahead(Tail(Queue(d)), Done(d) \o w, f, e)
        /\ Behind(Queue(d), Done(d), f, e) => Behind(Tail(Queue(d)), Done(d) \o w, f, e)
    BY <1>a, <1>b, <2>2, <2>3, HubKeepsOrder
  <2> QED
    BY <2>1, <2>2, <2>4
<1> QED
  BY <1>1, <1>2, <1>3, LineSteps DEF LineStep

\* A new event answers what its goroutine walks in the innermost call.
LEMMA NewOrdered ==
  ASSUME PublishInv, [Next]_vars, NEW f \in DOMAIN log', f \notin DOMAIN log, NEW e \in log'[f].cause
  PROVE  Ordered(f, e)'
<1>a. /\ TypeOK /\ DepthInv /\ FlowInv /\ HomeInv /\ OneWalk
      /\ (\A d \in Lines : Once(d))
  BY DEF PublishInv
<1>b. DOMAIN log \subseteq DOMAIN log' /\ \A x \in DOMAIN log : log'[x] = log[x]
  BY <1>a, LogGrows
<1>c. /\ \A t \in Walkers : t \in Threads /\ t \notin Readers /\ t.kind # "read"
      /\ \A t \in Readers : t \in Threads /\ t.of \in Clients
      /\ \A c \in Clients : Loop(c) \in Walkers
  BY ThreadKinds DEF Walkers, Loops, Helpers, Jobs, Loop
<1>d. "broadcast" \in Lines
  BY DEF Lines
<1>1. ASSUME NEW t \in Readers, Read(t) \/ Greet(t) PROVE FALSE
  BY <1>1, <1>a, ReadEffect DEF Made
<1>2. ASSUME NEW t \in Walkers, WalkerStep(t) PROVE Ordered(f, e)'
  <2> DEFINE n == Len(stack[t])
             c == stack[t][n]
  <2>1. /\ UNCHANGED <<bq, hq, shown, kept, out>>
        /\ \A i \in 1 .. n : SameCall(stack[t][i], stack'[t][i])
        /\ log'[f].by = t /\ stack[t] # <<>> /\ e \in c.events
    BY <1>2 DEF WalkerStep, New
  <2>2. n \in Nat \ {0} /\ stack[t] \in Seq(Frames)
    BY <1>a, <2>1, EmptySeq, LenProperties DEF DepthInv, WalkTypeOK
  <2>3. n \in 1 .. n
    <3> HIDE DEF n
    <3> QED
      BY <2>2
  <2>4. Belongs(log, t, c)
    BY <1>a, <2>3 DEF HomeInv, HomesCall
  <2> HIDE DEF c, n
  <2>5. e \in DOMAIN log /\ log'[e] = log[e] /\ e \in DOMAIN log'
    BY <1>b, <2>1, <2>4 DEF Belongs
  <2>6. ASSUME log[e].by \in Walkers
        PROVE  /\ log[e].by = t /\ Inside(t, f, e)'
               /\ \A d \in Lines : f \notin OnWay(d, t)' /\ Ahead(Queue(d)', Done(d)', f, e)
    <3>1. c.publish /\ log[e].by = t
      BY <1>c, <2>1, <2>4, <2>6 DEF Belongs
    <3>2. ASSUME NEW j \in 1 .. Len(stack'[t]), f \in stack'[t][j].events
          PROVE  \E i \in 1 .. j - 1 : stack'[t][i].publish /\ e \in stack'[t][i].events
      <4>1. j \notin 1 .. n
        <5> SUFFICES ASSUME j \in 1 .. n PROVE FALSE
          OBVIOUS
        <5>1. f \in stack[t][j].events /\ Belongs(log, t, stack[t][j])
          BY <1>a, <2>1, <3>2 DEF SameCall, HomeInv, HomesCall, n
        <5> QED
          BY <5>1 DEF Belongs
      <4>2. n \in 1 .. j - 1
        BY <2>2, <4>1
      <4>3. stack'[t][n].publish /\ e \in stack'[t][n].events
        BY <2>1, <2>3, <3>1 DEF SameCall, c
      <4> QED
        BY <4>2, <4>3
    <3>3. Inside(t, f, e)'
      BY <3>2 DEF Inside
    <3>4. ASSUME NEW d \in Lines PROVE f \notin OnWay(d, t)' /\ Ahead(Queue(d)', Done(d)', f, e)
      <4>1. f \notin out[t].events
        BY <1>a, <1>c, WhoseEvents
      <4>2. f \notin OnWay(d, t)'
        BY <2>1, <4>1 DEF OnWay, Toward
      <4>3. f \notin Through(d) /\ Queue(d) \in Seq(Batches) /\ Done(d) \in Seq(Events)
        BY <1>a, LineSteps DEF Once
      <4>4. f \in Events
        <5>1. log' \in Seq(Entries) /\ Len(log') <= MaxEvents
          BY <1>a, DepthNext DEF DepthInv, WalkTypeOK
        <5>2. DOMAIN log' = 1 .. Len(log') /\ Len(log') \in Nat
          BY <5>1, LenProperties
        <5> QED
          BY <5>1, <5>2, LimitsAreNat DEF Events
      <4>5. /\ \A j \in 1 .. Len(Queue(d)) : f \notin Queue(d)[j]
            /\ \A k \in 1 .. Len(Done(d)) : Done(d)[k] # f
        BY <4>3, <4>4 DEF Through, In, Vals
      <4>6. Queue(d)' = Queue(d) /\ Done(d)' = Done(d)
        BY <2>1 DEF Queue, Done
      <4> QED
        BY <4>2, <4>5, <4>6 DEF Ahead
    <3> QED
      BY <3>1, <3>3, <3>4
  <2>7. ASSUME log[e].by.kind = "read"
        PROVE  e \notin out'[log[e].by].events /\ \A d \in Lines : Behind(Queue(d)', Done(d)', f, e)
    <3> DEFINE r == log[e].by
    <3>1. ~c.publish /\ r \in Readers /\ t.kind = "loop" /\ t.of = r.of
      BY <1>c, <2>1, <2>4, <2>7 DEF Belongs
    <3>2. t = Loop(r.of) /\ r.of \in Clients /\ r \in Threads
      BY <1>c, <3>1 DEF Walkers, Loops, Helpers, Jobs, Loop
    <3> HIDE DEF r
    <3>3. e \in In(Walked(stack[t]))
      BY <2>1, <2>2, <2>3, WalkedOps DEF c, n
    <3>4. e \notin OnWay("plugin", r)
      BY <1>a, <3>1, <3>2, <3>3 DEF OneWalk
    <3>5. e \notin out[r].events
      <4>1. CASE out[r] = Idle
        BY <4>1 DEF Idle
      <4>2. CASE out[r].to \in RoutesOf(r)
        <5>1. r.kind = "read"
          BY <2>7 DEF r
        <5>2. Goes(out[r].to, "plugin")
          BY <3>2, <4>2, <5>1, RouteShrinks
        <5> QED
          BY <3>4, <5>2 DEF OnWay, Toward
      <4> QED
        BY <1>a, <3>2, <4>1, <4>2 DEF HomeInv, Routed
    <3>6. ASSUME NEW d \in Lines PROVE Behind(Queue(d)', Done(d)', f, e)
      <4>3. f \notin Through(d) /\ Queue(d) \in Seq(Batches) /\ Done(d) \in Seq(Events)
        BY <1>a, LineSteps DEF Once
      <4>4. f \in Events
        <5>1. log' \in Seq(Entries) /\ Len(log') <= MaxEvents
          BY <1>a, DepthNext DEF DepthInv, WalkTypeOK
        <5>2. DOMAIN log' = 1 .. Len(log') /\ Len(log') \in Nat
          BY <5>1, LenProperties
        <5> QED
          BY <5>1, <5>2, LimitsAreNat DEF Events
      <4>5. /\ \A j \in 1 .. Len(Queue(d)) : f \notin Queue(d)[j]
            /\ \A k \in 1 .. Len(Done(d)) : Done(d)[k] # f
            /\ f \notin Vals(Done(d))
        BY <4>3, <4>4 DEF Through, In, Vals
      <4>6. Queue(d)' = Queue(d) /\ Done(d)' = Done(d)
        BY <2>1 DEF Queue, Done
      <4> QED
        BY <4>5, <4>6 DEF Behind
    <3> QED
      BY <2>1, <3>5, <3>6 DEF r
  <2>8. log'[e].by = log[e].by
    BY <2>5
  <2> QED
    BY <2>1, <2>5, <2>6, <2>7, <2>8 DEF Ordered
<1>3. log' # log
  BY <1>b
<1>4. \A t \in Threads : ~Send(t)
  BY <1>3 DEF Send
<1>5. \A t \in Walkers : ~LoopTake(t) /\ ~Return(t)
  BY <1>3 DEF LoopTake, Return
<1>6. ~(UNCHANGED <<log, stack, out>>)
  BY <1>3
<1> QED
  BY <1>a, <1>d, <1>1, <1>2, <1>4, <1>5, <1>6, LineSteps DEF LineStep

\* A ReadLoop and a greeting never send an event again that they have sent.
LEMMA SentOnce ==
  ASSUME TypeOK, DepthInv, HomeInv, [Next]_vars, NEW r \in Readers,
         NEW e \in DOMAIN log, e \notin out[r].events
  PROVE  e \notin out'[r].events
<1>f. r \in Threads /\ \A u \in Walkers : u # r
  BY ThreadKinds
<1>d. "broadcast" \in Lines
  BY DEF Lines
<1>1. ASSUME NEW u \in Readers, Read(u) \/ Greet(u) PROVE e \notin out'[r].events
  <2>1. /\ Made(log, log', 1, u, u.of, {}, {})
        /\ \E to : out'[u] = [events |-> NewBatch(log, 1), to |-> to]
        /\ \A x \in Threads \ {u} : out'[x] = out[x]
    BY <1>1, ReadEffect
  <2>2. out'[u].events = NewBatch(log, 1) /\ e \notin NewBatch(log, 1)
    BY <2>1 DEF Made
  <2> QED
    BY <1>f, <2>1, <2>2
<1>2. ASSUME NEW u \in Threads, Send(u) PROVE e \notin out'[r].events
  <2>1. out'[u].events \subseteq out[u].events /\ \A x \in Threads \ {u} : out'[x] = out[x]
    BY <1>2, SendEffect
  <2> QED
    BY <1>f, <2>1
<1>3. ASSUME NEW u \in Walkers, LoopTake(u) PROVE e \notin out'[r].events
  BY <1>3 DEF LoopTake
<1>4. ASSUME NEW u \in Walkers, Return(u) PROVE e \notin out'[r].events
  <2>1. \A x \in Threads \ {u} : out'[x] = out[x]
    BY <1>4, ReturnEffect
  <2> QED
    BY <1>f, <2>1
<1>5. ASSUME NEW u \in Walkers, WalkerStep(u) PROVE e \notin out'[r].events
  BY <1>5 DEF WalkerStep
<1>6. UNCHANGED <<log, stack, out>> => e \notin out'[r].events
  OBVIOUS
<1> QED
  BY <1>d, <1>1, <1>2, <1>3, <1>4, <1>5, <1>6, LineSteps DEF LineStep

\* Events and what they answer stay in order.
LEMMA CausesNext == PublishInv /\ CausesOrdered /\ [Next]_vars => CausesOrdered'
<1> SUFFICES ASSUME PublishInv, CausesOrdered, [Next]_vars,
                    NEW f \in DOMAIN log', NEW e \in log'[f].cause
             PROVE  Ordered(f, e)'
  BY DEF CausesOrdered
<1>a. /\ TypeOK /\ DepthInv /\ FlowInv /\ HomeInv /\ OneWalk
      /\ (\A d \in Lines : Once(d))
  BY DEF PublishInv
<1>b. DOMAIN log \subseteq DOMAIN log' /\ \A x \in DOMAIN log : log'[x] = log[x]
  BY <1>a, LogGrows
<1>1. CASE f \notin DOMAIN log
  BY <1>1, NewOrdered
<1>2. CASE f \in DOMAIN log
  <2>1. log'[f] = log[f] /\ e \in log[f].cause /\ Ordered(f, e)
    BY <1>2, <1>b DEF CausesOrdered
  <2>2. e \in DOMAIN log /\ log[f].by \in Walkers /\ log'[e] = log[e] /\ e \in DOMAIN log'
    BY <1>b, <2>1 DEF Ordered
  <2>3. PICK t \in Walkers : t = log[f].by
    BY <2>2
  <2>e. e \in Events
    <3>1. DOMAIN log = 1 .. Len(log) /\ Len(log) \in Nat /\ Len(log) <= MaxEvents
      BY <1>a, LenProperties DEF DepthInv, WalkTypeOK
    <3> QED
      BY <2>2, <3>1, LimitsAreNat DEF Events
  <2>4. ASSUME log[e].by \in Walkers
        PROVE  /\ log[e].by = t /\ Inside(t, f, e)'
               /\ \A d \in Lines : /\ f \in OnWay(d, t)' => e \in Published(t)'
                                   /\ Ahead(Queue(d)', Done(d)', f, e)
    <3>1. /\ log[e].by = t /\ Inside(t, f, e)
          /\ \A d \in Lines : /\ f \in OnWay(d, t) => e \in Published(t)
                              /\ Ahead(Queue(d), Done(d), f, e)
      BY <2>1, <2>3, <2>4 DEF Ordered
    <3>2. Inside(t, f, e)'
      BY <1>2, <1>a, <2>3, <3>1, InsideNext
    <3>3. ASSUME NEW d \in Lines
          PROVE  /\ f \in OnWay(d, t)' => e \in Published(t)'
                 /\ Ahead(Queue(d)', Done(d)', f, e)
      <4>1. f \in OnWay(d, t)' => e \in Published(t)'
        BY <1>2, <1>a, <2>e, <3>1, OnWayNext
      <4>2. Ahead(Queue(d)', Done(d)', f, e)
        BY <1>2, <1>a, <2>2, <2>3, <3>1, LineOrderNext
      <4> QED
        BY <4>1, <4>2
    <3> QED
      BY <3>1, <3>2, <3>3
  <2>5. ASSUME log[e].by.kind = "read"
        PROVE  e \notin out'[log[e].by].events /\ \A d \in Lines : Behind(Queue(d)', Done(d)', f, e)
    <3>1. e \notin out[log[e].by].events /\ \A d \in Lines : Behind(Queue(d), Done(d), f, e)
      BY <2>1, <2>5 DEF Ordered
    <3>2. log[e].by \in Readers
      <4>1. log[e] \in Entries
        BY <1>a, <2>2, LenProperties DEF DepthInv, WalkTypeOK
      <4> QED
        BY <2>5, <4>1, ThreadKinds DEF Entries
    <3>3. ASSUME NEW d \in Lines PROVE Behind(Queue(d)', Done(d)', f, e)
      BY <1>2, <1>a, <2>2, <2>3, <3>1, <3>2, LineOrderNext
    <3>4. e \notin out'[log[e].by].events
      BY <1>a, <2>2, <3>1, <3>2, SentOnce
    <3> QED
      BY <3>3, <3>4
  <2>6. log'[f].by = t /\ log'[e].by = log[e].by
    BY <2>1, <2>2, <2>3
  <2> QED
    BY <2>2, <2>4, <2>5, <2>6 DEF Ordered
<1> QED
  BY <1>1, <1>2

\* Clients and the history get an answer after the message of a ReadLoop that it answers, and
\* before an event of another plugin: what publishes an event has not returned before the
\* answers to it are published, while a ReadLoop publishes before it asks the plugins.
THEOREM AnswersAreInOrder == Spec => []AnswersInOrder
<1>1. Init => CausesOrdered
  BY DEF Init, CausesOrdered
<1>2. PublishInv /\ CausesOrdered => AnswersInOrder
  <2> SUFFICES ASSUME PublishInv, CausesOrdered, NEW d \in Lines, NEW s, s = Done(d),
                      NEW f \in ToSet(s), NEW e \in log[f].cause
               PROVE  IF log[e].by \in Walkers
                      THEN e \in ToSet(s) => Index(s, f) < Index(s, e)
                      ELSE (/\ log[e].by.kind = "read"
                            /\ e \in ToSet(shown) \cup ToSet(kept)
                            /\ ~(d = "broadcast" /\ log[e].kind.internal))
                           => e \in ToSet(s) /\ Index(s, e) < Index(s, f)
    BY DEF AnswersInOrder
  <2>1. shown \in Seq(Events) /\ kept \in Seq(Events)
    BY DEF PublishInv, TypeOK
  <2>2. ASSUME NEW r \in Seq(Events)
        PROVE  ToSet(r) = Vals(r) /\ DOMAIN r = 1 .. Len(r)
    <3>1. DOMAIN r = 1 .. Len(r) /\ \A i \in 1 .. Len(r) : r[i] \in Events
      BY LenProperties, ElementOfSeq
    <3> QED
      BY <3>1 DEF ToSet, Vals
  <2>3. s = Done(d) /\ s \in {shown, kept}
    BY DEF Lines, Done
  <2>4. s \in Seq(Events) /\ f \in Vals(s) /\ f \in DOMAIN log
    <3>1. s \in Seq(Events) /\ f \in Vals(s)
      BY <2>1, <2>2, <2>3
    <3> QED
      BY <2>3, <3>1 DEF PublishInv, Once, Through
  <2>5. Ordered(f, e) /\ OnceDone(s)
    BY <2>3, <2>4 DEF CausesOrdered, PublishInv, Once
  <2>6. \A x \in Vals(s) : Index(s, x) \in 1 .. Len(s) /\ s[Index(s, x)] = x
    BY <2>2, <2>4 DEF Vals, Index
  <2> DEFINE k == Index(s, f)
             m == Index(s, e)
  <2>7. k \in 1 .. Len(s) /\ s[k] = f /\ (e \in Vals(s) => m \in 1 .. Len(s) /\ s[m] = e)
    BY <2>4, <2>6
  <2> HIDE DEF k, m
  <2>8. CASE log[e].by \in Walkers
    <3>1. \A i \in 1 .. k : s[i] # e
      BY <2>3, <2>5, <2>7, <2>8 DEF Ordered, Ahead
    <3>2. e \in Vals(s) => k < m
      BY <2>7, <3>1
    <3> QED
      BY <2>2, <2>4, <2>8, <3>2 DEF k, m
  <2>9. CASE log[e].by \notin Walkers
    <3> SUFFICES ASSUME log[e].by.kind = "read", e \in Vals(shown) \cup Vals(kept),
                        ~(d = "broadcast" /\ log[e].kind.internal)
                 PROVE  e \in Vals(s) /\ m < k
      BY <2>1, <2>2, <2>4, <2>9 DEF k, m
    <3>1. e \in DOMAIN log /\ e \notin out[log[e].by].events /\ Behind(Queue(d), s, f, e)
      BY <2>3, <2>5 DEF Ordered
    <3>2. NotLost(e)
      BY <3>1 DEF PublishInv, NoneLost
    <3>3. \A x \in Lines : e \in Went(x, log[e].by) <=> e \in Through(x)
      BY <3>1 DEF Went, OnWay, Toward
    <3>4. /\ e \in Through("broadcast") => e \in Through("history")
          /\ e \in Through("history") => e \in Through("broadcast") \/ log[e].kind.internal
      BY <3>2, <3>3 DEF NotLost, Lines
    <3>5. e \in Through("broadcast") \/ e \in Through("history")
      BY DEF Through, Done
    <3>6. e \in Through(d)
      BY <3>4, <3>5 DEF Lines
    <3>7. e \in Vals(s)
      BY <2>3, <2>4, <3>1, <3>6 DEF Behind, Through
    <3>8. PICK i \in 1 .. k - 1 : s[i] = e
      BY <2>7, <3>1, <3>7 DEF Behind
    <3>9. i = m
      <4>1. i \in 1 .. Len(s)
        BY <2>7
      <4> QED
        BY <2>5, <2>7, <3>7, <3>8, <4>1 DEF OnceDone
    <3> QED
      BY <2>7, <3>7, <3>8, <3>9
  <2> QED
    BY <2>8, <2>9
<1> QED
  BY <1>1, <1>2, PublishInit, PublishNext, CausesNext, PTL DEF Spec

-----------------------------------------------------------------------------
(* The pipeline implements Publication. *)

\* What the calls of a goroutine but the outermost n are to publish.
Items == [batch : Batches, lines : (SUBSET Lines) \ {{}}]
LEMMA BoundIs ==
  ASSUME NEW b \in Batches, NEW to \in (SUBSET Lines) \ {{}}
  PROVE  Bound(b, to) \in Items /\ Bound(b, to).batch = b /\ Bound(b, to).lines = to
BY DEF Bound, Items

LEMMA InnerIs ==
  ASSUME NEW s \in Seq(Frames), NEW n \in {0, 1}
  PROVE  /\ Inner(s, n) \in Seq(Items) /\ Len(s) \in Nat
         /\ Len(Inner(s, n)) = IF n <= Len(s) THEN Len(s) - n ELSE 0
         /\ \A i \in 1 .. Len(Inner(s, n)) : Inner(s, n)[i] = Bound(s[i + n].events, Lines)
<1> DEFINE m == Len(s)
           k == IF n <= m THEN m - n ELSE 0
           r == Inner(s, n)
<1>1. m \in Nat /\ \A i \in 1 .. m : s[i].events \in Batches
  <2>1. m \in Nat /\ \A i \in 1 .. m : s[i] \in Frames
    BY LenProperties, ElementOfSeq
  <2> QED BY <2>1 DEF Frames
<1>2. Lines \in (SUBSET Lines) \ {{}}
  BY DEF Lines
<1> HIDE DEF m
<1>3. k \in Nat /\ 1 .. m - n = 1 .. k /\ \A i \in 1 .. k : i + n \in 1 .. m
  BY <1>1
<1>4. r = [i \in 1 .. k |-> Bound(s[i + n].events, Lines)]
  BY <1>3 DEF Inner, m
<1>5. \A i \in 1 .. k : Bound(s[i + n].events, Lines) \in Items
  BY <1>1, <1>2, <1>3, BoundIs
<1> HIDE DEF r, k
<1>6. r \in [1 .. k -> Items] /\ \A i \in 1 .. k : r[i] = Bound(s[i + n].events, Lines)
  BY <1>4, <1>5
<1>7. r \in Seq(Items) /\ Len(r) = k
  BY <1>3, <1>6, IsASeq, LenProperties
<1> QED BY <1>1, <1>6, <1>7 DEF r, k, m

\* It depends on the batches of the calls only.
LEMMA InnerSame ==
  ASSUME NEW s \in Seq(Frames), NEW z \in Seq(Frames), NEW n \in {0, 1}, Len(z) = Len(s),
         \A i \in 1 .. Len(s) : z[i].events = s[i].events
  PROVE  Inner(z, n) = Inner(s, n)
<1>1. Len(s) \in Nat /\ \A i \in 1 .. Len(s) - n : i + n \in 1 .. Len(s)
  BY LenProperties
<1> QED BY <1>1 DEF Inner

\* One call more has one batch more to publish.
LEMMA InnerMore ==
  ASSUME NEW s \in Seq(Frames), NEW z \in Seq(Frames), NEW n \in {0, 1},
         Len(z) = Len(s) + 1, n <= Len(s), NEW b \in Batches, z[Len(z)].events = b,
         \A i \in 1 .. Len(s) : z[i].events = s[i].events
  PROVE  Inner(z, n) = Append(Inner(s, n), Bound(b, Lines))
<1> DEFINE x == Inner(z, n)
           y == Inner(s, n)
           c == Bound(b, Lines)
           k == Len(s) - n
<1>a. /\ y \in Seq(Items) /\ Len(s) \in Nat
      /\ Len(y) = IF n <= Len(s) THEN Len(s) - n ELSE 0
      /\ \A i \in 1 .. Len(y) : y[i] = Bound(s[i + n].events, Lines)
  BY InnerIs
<1>b. /\ x \in Seq(Items) /\ Len(z) \in Nat
      /\ Len(x) = IF n <= Len(z) THEN Len(z) - n ELSE 0
      /\ \A i \in 1 .. Len(x) : x[i] = Bound(z[i + n].events, Lines)
  BY InnerIs
<1>c. c \in Items
  BY BoundIs DEF Lines
<1> HIDE DEF x, y
<1>1. /\ y \in Seq(Items) /\ Len(y) = k /\ k \in Nat /\ Len(s) = k + n
      /\ \A i \in 1 .. k : y[i] = Bound(s[i + n].events, Lines)
  BY <1>a
<1>2. /\ x \in Seq(Items) /\ Len(x) = k + 1
      /\ \A i \in 1 .. k + 1 : x[i] = Bound(z[i + n].events, Lines)
  BY <1>a, <1>b
<1>d. x[k + 1] = c
  <2>1. k + 1 + n = Len(z) /\ k + 1 \in 1 .. k + 1
    BY <1>1
  <2> QED BY <1>2, <2>1
<1> HIDE DEF k, c
<1>3. /\ Append(y, c) \in Seq(Items) /\ Len(Append(y, c)) = k + 1
      /\ \A i \in 1 .. k : Append(y, c)[i] = y[i]
      /\ Append(y, c)[k + 1] = c
  BY <1>1, <1>c, AppendProperties
<1>4. ASSUME NEW i \in 1 .. k + 1 PROVE x[i] = Append(y, c)[i]
  <2>1. CASE i = k + 1
    BY <1>3, <1>d, <2>1
  <2>2. CASE i # k + 1
    <3>1. i \in 1 .. k /\ i + n \in 1 .. Len(s)
      BY <1>1, <2>2
    <3>2. x[i] = Bound(z[i + n].events, Lines) /\ y[i] = Bound(s[i + n].events, Lines)
      BY <1>1, <1>2, <3>1
    <3>3. z[i + n].events = s[i + n].events
      BY <3>1
    <3> QED BY <1>3, <3>1, <3>2, <3>3
  <2> QED BY <2>1, <2>2
<1>5. x = Append(y, c)
  BY <1>1, <1>2, <1>3, <1>4, SeqEqual
<1> QED BY <1>5 DEF x, y, c

\* Nothing is published by the outermost call of a PluginLoop, nor when there is no call.
LEMMA InnerNone ==
  ASSUME NEW s \in Seq(Frames), NEW n \in {0, 1}, Len(s) <= n
  PROVE  Inner(s, n) = <<>>
<1>1. Inner(s, n) \in Seq(Items) /\ Len(Inner(s, n)) = 0
  BY InnerIs
<1> QED BY <1>1, EmptySeq

\* The batch that was put on a stack last comes off it first.
LEMMA LastOn ==
  ASSUME NEW s \in Seq(Items), NEW c \in Items
  PROVE  Append(s, c) # <<>> /\ Last(Append(s, c)) = c /\ Front(Append(s, c)) = s
<1> DEFINE a == Append(s, c)
           n == Len(s)
<1>1. /\ a \in Seq(Items) /\ Len(a) = n + 1 /\ n \in Nat
      /\ a[n + 1] = c /\ \A i \in 1 .. n : a[i] = s[i]
  BY AppendProperties, LenProperties
<1> HIDE DEF a
<1>2. Last(a) = c
  BY <1>1 DEF Last
<1>3. Front(a) = SubSeq(a, 1, n)
  BY <1>1 DEF Front
<1>4. \A i \in 1 .. n : a[i] \in Items
  BY <1>1, ElementOfSeq
<1>5. /\ Front(a) \in Seq(Items) /\ Len(Front(a)) = n /\ \A i \in 1 .. n : Front(a)[i] = a[i]
  <2>1. 1 \in Int /\ n \in Int
    BY <1>1
  <2>2. /\ Front(a) \in Seq(Items) /\ Len(Front(a)) = IF 1 <= n THEN n - 1 + 1 ELSE 0
        /\ \A i \in 1 .. n - 1 + 1 : Front(a)[i] = a[1 + i - 1]
    BY <1>3, <1>4, <2>1, SubSeqProperties
  <2> QED BY <1>1, <2>2
<1>6. Front(a) = s
  BY <1>1, <1>5, SeqEqual
<1> QED BY <1>1, <1>2, <1>6, EmptySeq DEF a

-----------------------------------------------------------------------------
\* Which calls publish: all but the outermost of a PluginLoop.
Depths(t) == IF t.kind = "loop" THEN 1 ELSE 0
CallsPublish == \A t \in Walkers : \A i \in 1 .. Len(stack[t]) :
                  stack[t][i].publish <=> i > Depths(t)

\* What a step of the pipeline is, and that a PluginLoop begins its walks with LoopTake.
Plugs(t) == WalkerStep(t) /\ out[t] = Idle /\ (t.kind = "loop" => stack[t] # <<>>)
LEMMA StepIs ==
  ASSUME DepthInv, HomeInv, [Next]_vars
  PROVE  \/ \E t \in Readers : Read(t) \/ Greet(t)
         \/ \E t \in Threads : Send(t)
         \/ \E t \in Walkers : LoopTake(t) \/ Return(t) \/ Plugs(t)
         \/ HubBroadcast \/ HubHistory \/ UNCHANGED vars
<1>1. ASSUME NEW t \in Walkers, EmitEvents(t) \/ CronRuns(t) PROVE Plugs(t)
  <2>1. t.kind # "loop"
    BY <1>1 DEF EmitEvents, CronRuns
  <2> QED BY <1>1, <2>1, EmitEffect, CronEffect DEF Plugs
<1>2. ASSUME NEW t \in Walkers, NEW p \in Plugins, PassOver(t, p) \/ Offer(t, p) PROVE Plugs(t)
  <2>1. stack[t] # <<>>
    BY <1>2 DEF PassOver, Offer, Running
  <2> QED BY <1>2, <2>1, PassOverEffect, OfferEffect DEF Plugs
<1> QED BY <1>1, <1>2 DEF Next

\* It stays so.
LEMMA CallsNext == DepthInv /\ FlowInv /\ HomeInv /\ CallsPublish /\ [Next]_vars => CallsPublish'
<1> SUFFICES ASSUME DepthInv, FlowInv, HomeInv, CallsPublish, [Next]_vars,
                    NEW t \in Walkers, NEW i \in 1 .. Len(stack'[t])
             PROVE  stack'[t][i].publish <=> i > Depths(t)
  BY DEF CallsPublish
<1>1. DepthInv' /\ stack[t] \in Seq(Frames) /\ stack'[t] \in Seq(Frames)
  BY DepthNext DEF DepthInv, WalkTypeOK
<1>2. i \in Nat \ {0} /\ Depths(t) \in {0, 1} /\ Len(stack[t]) \in Nat /\ Len(stack'[t]) \in Nat
  BY <1>1, LenProperties DEF Depths
<1>3. CASE stack'[t] = stack[t]
  BY <1>3 DEF CallsPublish
<1>4. CASE LoopTake(t)
  <2>1. t.kind = "loop" /\ Len(stack'[t]) = 1 /\ stack'[t][1].publish = FALSE
    BY <1>4, TakeEffect
  <2> QED BY <1>2, <2>1 DEF Depths
<1>5. CASE Return(t)
  <2>1. Len(stack'[t]) = Len(stack[t]) - 1 /\ \A j \in 1 .. Len(stack[t]) - 1 : stack'[t][j] = stack[t][j]
    BY <1>5, ReturnEffect
  <2>2. i \in 1 .. Len(stack[t]) /\ stack'[t][i] = stack[t][i]
    BY <1>2, <2>1
  <2> QED BY <2>2 DEF CallsPublish
<1>6. CASE Plugs(t)
  <2>1. CASE i \in 1 .. Len(stack[t])
    BY <1>6, <2>1 DEF Plugs, WalkerStep, SameCall, CallsPublish
  <2>2. CASE i \notin 1 .. Len(stack[t])
    <3>1. stack'[t][i].publish = TRUE
      <4>1. stack'[t][i].publish
        BY <1>6, <2>2 DEF Plugs, WalkerStep
      <4>2. stack'[t][i] \in Frames
        BY <1>1, ElementOfSeq
      <4> QED BY <4>1, <4>2 DEF Frames
    <3>2. i > Len(stack[t]) /\ (t.kind = "loop" => Len(stack[t]) # 0)
      BY <1>1, <1>2, <1>6, <2>2, EmptySeq DEF Plugs
    <3> QED BY <1>2, <3>1, <3>2 DEF Depths
  <2> QED BY <2>1, <2>2
<1>7. \A u \in Walkers : Return(u) \/ LoopTake(u) \/ Plugs(u) => u = t \/ stack'[t] = stack[t]
  BY ReturnEffect, TakeEffect DEF Plugs, WalkerStep
<1>8. ASSUME NEW u \in Readers, Read(u) \/ Greet(u) PROVE stack'[t] = stack[t]
  BY <1>8 DEF Read, Greet
<1>9. ASSUME NEW u \in Threads, Send(u) PROVE stack'[t] = stack[t]
  BY <1>9 DEF Send
<1>10. HubBroadcast \/ HubHistory \/ UNCHANGED vars => stack'[t] = stack[t]
  BY DEF HubBroadcast, HubHistory, vars
<1> QED BY <1>3, <1>4, <1>5, <1>6, <1>7, <1>8, <1>9, <1>10, StepIs

\* What a goroutine's calls are still to publish, by their number.
LEMMA ToPublishIs ==
  ASSUME NEW t \in Threads
  PROVE  /\ ToPublish(t) = IF t \in Walkers THEN Inner(stack[t], Depths(t)) ELSE <<>>
         /\ ToPublish(t)' = IF t \in Walkers THEN Inner(stack'[t], Depths(t)) ELSE <<>>
<1>1. t \notin Walkers <=> t.kind \in {"read", "greet"}
  BY ThreadKinds DEF Threads, Readers
<1>2. Depths(t) \in {0, 1} /\ Depths(t) = IF t.kind = "loop" THEN 1 ELSE 0
  BY DEF Depths
<1>3. Inner(<<>>, Depths(t)) = <<>>
  <2> DEFINE n == Depths(t)
             s == <<>>
  <2>1. n \in {0, 1} /\ s \in Seq(Frames) /\ Len(s) <= n
    BY <1>2
  <2> HIDE DEF n, s
  <2>2. Inner(s, n) = <<>>
    BY <2>1, InnerNone
  <2> QED BY <2>2 DEF n, s
<1> QED BY <1>1, <1>2, <1>3 DEF ToPublish

\* What is coming from a goroutine, by what it sends next and what its calls publish.
LEMMA ComingIs ==
  ASSUME NEW t \in Threads
  PROVE  /\ ToLines(t)' = {d \in Lines : Goes(out'[t].to, d)}
         /\ out[t] = Idle => ToLines(t) = {}
         /\ out'[t] = Idle => ToLines(t)' = {}
         /\ Coming(t) = IF ToLines(t) = {} THEN ToPublish(t)
                        ELSE Append(ToPublish(t), Bound(out[t].events, ToLines(t)))
         /\ Coming(t)' = IF ToLines(t)' = {} THEN ToPublish(t)'
                         ELSE Append(ToPublish(t)', Bound(out'[t].events, ToLines(t)'))
<1>1. ToLines(t)' = {d \in Lines : Goes(out'[t].to, d)}
  BY DEF ToLines, Goes
<1>2. \A d : ~Goes(Idle.to, d)
  BY DEF Goes, Idle
<1>3. (out[t] = Idle => ToLines(t) = {}) /\ (out'[t] = Idle => ToLines(t)' = {})
  BY <1>1, <1>2 DEF ToLines
<1>4. Coming(t)' = IF ToLines(t)' = {} THEN ToPublish(t)'
                   ELSE Append(ToPublish(t)', Bound(out'[t].events, ToLines(t)'))
  BY <1>3 DEF Coming, Bound
<1> QED BY <1>1, <1>3, <1>4 DEF Coming

\* Of a goroutine at which nothing changes nothing is coming that was not before.
LEMMA ComingStays ==
  ASSUME NEW u \in Threads, out'[u] = out[u], u \in Walkers => stack'[u] = stack[u]
  PROVE  Coming(u)' = Coming(u)
<1>1. ToPublish(u)' = ToPublish(u)
  BY ToPublishIs
<1>2. ToLines(u)' = ToLines(u)
  BY ComingIs DEF ToLines
<1> QED BY <1>1, <1>2, ComingIs

-----------------------------------------------------------------------------
\* Publication's own names for operators of the library.
LEMMA SameNames ==
  /\ \A s : Publish!Last(s) = Last(s) /\ Publish!Front(s) = Front(s)
  /\ \A S : Publish!Cardinality(S) = Cardinality(S)
BY DEF Publish!Last, Publish!Front, Publish!Cardinality, Last, Front, Cardinality

\* The steps of Publication, from what becomes of what is coming from each goroutine.
LEMMA AtRest ==
  ASSUME UNCHANGED <<log, bq, hq, shown, kept>>, \A u \in Threads : Coming(u)' = Coming(u)
  PROVE  UNCHANGED Publish!vars
<1>1. [u \in Threads |-> Coming(u)]' = [u \in Threads |-> Coming(u)]
  OBVIOUS
<1>2. UNCHANGED <<[d \in Lines |-> Queue(d)], [d \in Lines |-> Done(d)]>>
  BY DEF Queue, Done
<1>3. UNCHANGED <<DOMAIN log, {e \in DOMAIN log : log[e].kind.internal}>>
  OBVIOUS
<1> QED BY <1>1, <1>2, <1>3 DEF Publish!vars

\* Events are made, of which batch is to be published next by t, on the lines of route.
Extended       == DOMAIN log \subseteq DOMAIN log' /\ \A e \in DOMAIN log : log'[e] = log[e]
Left(batch)    == \A e \in New \ batch : log'[e].kind.internal
Adds(t, route, batch) ==
  \A u \in Threads : Coming(u)' = IF u = t /\ route # {} /\ batch # {}
                                  THEN Append(Coming(u), Bound(batch, route)) ELSE Coming(u)
LEMMA Makes ==
  ASSUME TypeOK, TypeOK', NEW t \in Threads, NEW route \in LinesOf(t),
         NEW batch \in SUBSET New, New # {}, Extended, Left(batch), Adds(t, route, batch),
         UNCHANGED <<bq, hq, shown, kept>>
  PROVE  Publish!Make
<1> DEFINE hidden == {e \in New : log'[e].kind.internal}
           left == New \ batch
           coming == [u \in Threads |-> Coming(u)]
<1>1. /\ log \in Seq(Entries) /\ log' \in Seq(Entries)
      /\ Len(log) \in Nat /\ Len(log') \in Nat /\ Len(log') <= MaxEvents
      /\ DOMAIN log = 1 .. Len(log) /\ DOMAIN log' = 1 .. Len(log')
  BY LenProperties DEF TypeOK, WalkTypeOK
<1>2. New \in (SUBSET (Events \ DOMAIN log)) \ {{}}
  BY <1>1, LimitsAreNat DEF New, Events
<1>3. DOMAIN log' = DOMAIN log \cup New
  BY DEF New, Extended
<1>4. \A e \in DOMAIN log, f \in New : e < f
  BY <1>1 DEF New
<1>5. {e \in DOMAIN log' : log'[e].kind.internal} = {e \in DOMAIN log : log[e].kind.internal} \cup hidden
  BY <1>3 DEF Extended
<1>6. hidden \in SUBSET New /\ left \in SUBSET hidden
  BY DEF Left
<1>7. route \in [u \in Threads |-> LinesOf(u)][t]
  OBVIOUS
<1>8. (left # New <=> batch # {}) /\ New \ left = batch
  OBVIOUS
<1>9. coming' = IF route = {} \/ left = New THEN coming
                ELSE [coming EXCEPT ![t] = Append(@, [batch |-> New \ left, lines |-> route])]
  <2> HIDE DEF left
  <2> QED BY <1>8 DEF Adds, Bound
<1>10. UNCHANGED <<[d \in Lines |-> Queue(d)], [d \in Lines |-> Done(d)]>>
  BY DEF Queue, Done
<1> HIDE DEF hidden, left
<1>11. \E hid \in SUBSET New :
         /\ {e \in DOMAIN log' : log'[e].kind.internal} = {e \in DOMAIN log : log[e].kind.internal} \cup hid
         /\ \E w \in Threads : \E r \in [u \in Threads |-> LinesOf(u)][w], l \in SUBSET hid :
              coming' = IF r = {} \/ l = New THEN coming
                        ELSE [coming EXCEPT ![w] = Append(@, [batch |-> New \ l, lines |-> r])]
  <2> DEFINE Comes(w, r, l) == coming' = IF r = {} \/ l = New THEN coming
                                 ELSE [coming EXCEPT ![w] = Append(@, [batch |-> New \ l, lines |-> r])]
  <2>1. Comes(t, route, left)
    BY <1>9
  <2> HIDE DEF Comes
  <2>2. \E w \in Threads : \E r \in [u \in Threads |-> LinesOf(u)][w], l \in SUBSET hidden : Comes(w, r, l)
    BY <1>6, <1>7, <2>1
  <2> HIDE DEF coming
  <2> QED BY <1>5, <1>6, <2>2 DEF Comes
<1> HIDE DEF coming
<1> QED
  BY <1>2, <1>3, <1>4, <1>10, <1>11 DEF coming, Publish!Make, Publish!Lines, Lines

\* A batch is put into the channel of line d, and has the rest of its lines still to go.
LEMMA Puts ==
  ASSUME NEW t \in Threads, NEW d \in Lines, NEW b \in Batches, NEW w \in SUBSET Lines, d \in w,
         NEW rest \in Seq(Items), Len(Queue(d)) < ChanCap,
         Coming(t) = Append(rest, Bound(b, w)),
         Coming(t)' = IF w \ {d} = {} THEN rest ELSE Append(rest, Bound(b, w \ {d})),
         \A u \in Threads : u # t => Coming(u)' = Coming(u),
         \A x \in Lines : Queue(x)' = IF x = d THEN Append(Queue(x), b) ELSE Queue(x),
         UNCHANGED <<log, shown, kept>>
  PROVE  Publish!Put(t)
<1> DEFINE coming == [u \in Threads |-> Coming(u)]
           queue  == [x \in Lines |-> Queue(x)]
           own    == coming[t]
<1>1. own # <<>> /\ Front(own) = rest /\ Last(own).batch = b /\ Last(own).lines = w
  <2> DEFINE c == Bound(b, w)
  <2>1. c \in Items /\ c.batch = b /\ c.lines = w /\ own = Append(rest, c)
    BY BoundIs
  <2> HIDE DEF c, own
  <2> QED BY <2>1, LastOn
<1>2. queue[d] = Queue(d)
  OBVIOUS
<1>3. queue' = [queue EXCEPT ![d] = Append(@, Last(own).batch)]
  <2> HIDE DEF own
  <2> QED BY <1>1
<1>4. coming' = [coming EXCEPT ![t] = IF Last(own).lines \ {d} = {} THEN Front(own)
                   ELSE Append(Front(own), [batch |-> Last(own).batch, lines |-> Last(own).lines \ {d}])]
  <2> HIDE DEF own
  <2> QED BY <1>1 DEF Bound
<1>5. UNCHANGED <<DOMAIN log, {e \in DOMAIN log : log[e].kind.internal}, [x \in Lines |-> Done(x)]>>
  BY DEF Done
<1>6. own = coming[t]
  OBVIOUS
<1> HIDE DEF coming, queue, own
<1>7. d \in Last(own).lines /\ Len(queue[d]) < ChanCap
  BY <1>1, <1>2
<1> QED
  BY <1>1, <1>3, <1>4, <1>5, <1>6, <1>7, SameNames DEF coming, queue, Publish!Put

\* The hub takes a batch of line d.
LEMMA Takes ==
  ASSUME NEW d \in Lines, Queue(d) # <<>>, Head(Queue(d)) \in SUBSET (DOMAIN log),
         Head(Queue(d)) \in SUBSET Events,
         NEW seen, seen = IF d = "broadcast" THEN KeepEvents(Head(Queue(d)), log) ELSE Head(Queue(d)),
         \A x \in Lines : /\ Queue(x)' = IF x = d THEN Tail(Queue(x)) ELSE Queue(x)
                          /\ Done(x)' = IF x = d THEN Done(x) \o InOrder(seen) ELSE Done(x),
         UNCHANGED <<log, stack, out>>
  PROVE  Publish!Take(d)
<1> DEFINE internal == {e \in DOMAIN log : log[e].kind.internal}
           queue    == [x \in Lines |-> Queue(x)]
           done     == [x \in Lines |-> Done(x)]
           see      == IF d = "broadcast" THEN Head(queue[d]) \ internal ELSE Head(queue[d])
<1>1. see = seen /\ seen \in SUBSET Events
  BY DEF KeepEvents
<1>2. InOrder(seen) \in Publish!Ordered(see)
  <2>1. /\ InOrder(seen) \in [1 .. Cardinality(seen) -> seen]
        /\ \A i, j \in 1 .. Cardinality(seen) : i < j => InOrder(seen)[i] < InOrder(seen)[j]
    BY <1>1, InOrderRises
  <2> HIDE DEF see
  <2> QED BY <1>1, <2>1, SameNames DEF Publish!Ordered
<1>3. queue[d] # <<>> /\ queue' = [queue EXCEPT ![d] = Tail(@)]
  OBVIOUS
<1>4. done' = [done EXCEPT ![d] = @ \o InOrder(seen)]
  OBVIOUS
<1>5. UNCHANGED <<DOMAIN log, internal, [u \in Threads |-> Coming(u)]>>
  BY ComingStays
<1>6. \E s \in Publish!Ordered(see) : done' = [done EXCEPT ![d] = @ \o s]
  BY <1>2, <1>4
<1> HIDE DEF queue, done
<1> QED
  BY <1>3, <1>5, <1>6 DEF queue, done, Publish!Take

-----------------------------------------------------------------------------
\* ReadLoop and the handler make an event, for both lines, for the clients only or for none.
LEMMA ReaderMakes ==
  ASSUME TypeOK, TypeOK', DepthInv, NEW t \in Readers, Read(t) \/ Greet(t)
  PROVE  Publish!Make
<1>0. t \in Threads /\ t \notin Walkers /\ (t.kind = "read" \/ t.kind = "greet")
  BY ThreadKinds DEF Readers
<1>1. /\ Made(log, log', 1, t, t.of, {}, {}) /\ NewBatch(log, 1) \in Batches
      /\ out[t] = Idle /\ (\A u \in Threads \ {t} : out'[u] = out[u])
      /\ UNCHANGED <<bq, hq, shown, kept, stack>>
  BY ReadEffect
<1>2. PICK to \in RoutesOf(t) :
        /\ out'[t] = [events |-> NewBatch(log, 1), to |-> to]
        /\ t.kind = "greet" => Goes(to, "broadcast")
        /\ t.kind = "read" => (Goes(to, "broadcast") <=> Goes(to, "history"))
  BY ReadEffect
<1>3. /\ New = NewBatch(log, 1) /\ New \in Batches
      /\ DOMAIN log \subseteq DOMAIN log' /\ \A e \in DOMAIN log : log'[e] = log[e]
  BY <1>1 DEF Made, New
<1> DEFINE route == {d \in Lines : Goes(to, d)}
<1>4. route \in LinesOf(t)
  <2>1. CASE t.kind = "read"
    <3>1. route = Lines \/ route = {}
      BY <1>2, <2>1 DEF Lines
    <3> QED BY <2>1, <3>1 DEF LinesOf
  <2>2. CASE t.kind = "greet"
    <3>1. Goes(to, "broadcast") /\ ~Goes(to, "history")
      BY <1>0, <1>2, <2>2, RouteShrinks
    <3>2. route = {"broadcast"}
      BY <3>1 DEF Lines
    <3> QED BY <2>2, <3>2 DEF LinesOf
  <2> QED BY <1>0, <2>1, <2>2
<1>5. ASSUME NEW u \in Threads
      PROVE  Coming(u)' = IF u = t /\ route # {} /\ New # {} THEN Append(Coming(u), Bound(New, route))
                          ELSE Coming(u)
  <2>1. CASE u = t
    <3>1. ToPublish(t) = <<>> /\ ToPublish(t)' = <<>>
      BY <1>0, ToPublishIs
    <3>2. ToLines(t) = {} /\ ToLines(t)' = route /\ out'[t].events = New
      BY <1>0, <1>1, <1>2, <1>3, ComingIs
    <3>3. New # {}
      BY <1>3 DEF Batches
    <3> HIDE DEF route
    <3>4. Coming(t) = <<>> /\ Coming(t)' = IF route = {} THEN <<>> ELSE Append(<<>>, Bound(New, route))
      BY <1>0, <3>1, <3>2, ComingIs
    <3> QED BY <2>1, <3>3, <3>4
  <2>2. CASE u # t
    BY <1>1, <2>2, ComingStays
  <2> QED BY <2>1, <2>2
<1> HIDE DEF route
<1>6. Adds(t, route, New) /\ Left(New) /\ Extended /\ New \in SUBSET New /\ New # {}
  BY <1>3, <1>5 DEF Adds, Left, Extended, Batches
<1> QED BY <1>0, <1>1, <1>4, <1>6, Makes

\* A send to one of the two lines puts the next batch there; one to PluginChan is none of theirs.
LEMMA SendPuts ==
  ASSUME TypeOK, DepthInv, HomeInv, NEW t \in Threads, Send(t)
  PROVE  Publish!Put(t) \/ UNCHANGED Publish!vars
<1>0. PICK p \in Places, b \in Batches : p = Head(out[t].to) /\ b = out[t].events
  BY SendEffect
<1>1. /\ (\A u \in Threads \ {t} : out'[u] = out[u])
      /\ Goes(out[t].to, p) /\ (out'[t] = Idle \/ out'[t].events = b)
      /\ Toward(out'[t], p) = {}
      /\ (\A x \in Places \ {p} : Toward(out'[t], x) = Toward(out[t], x))
      /\ bq' = (IF p = "broadcast" THEN Append(bq, b) ELSE bq)
      /\ hq' = (IF p = "history" THEN Append(hq, b) ELSE hq)
      /\ UNCHANGED <<log, shown, kept, stack>>
  BY <1>0, SendEffect
<1>2. Lines \subseteq Places /\ (p \notin Lines => p = "plugin") /\ b # {}
  BY DEF Lines, Places, Batches
<1>3. p \in Lines => Len(Queue(p)) < ChanCap
  BY <1>0 DEF Send, HasRoom, Lines, Queue
<1>4. \A x \in Places : Goes(out'[t].to, x) <=> Goes(out[t].to, x) /\ x # p
  <2>1. \A x : (Goes(out[t].to, x) <=> Toward(out[t], x) # {})
    BY <1>0, <1>2 DEF Toward
  <2>2. \A x : (Goes(out'[t].to, x) <=> Toward(out'[t], x) # {})
    <3>1. CASE out'[t] = Idle
      <4>1. \A x : ~Goes(Idle.to, x) /\ Toward(Idle, x) = {}
        BY DEF Goes, Toward, Idle
      <4> QED BY <3>1, <4>1
    <3>2. CASE out'[t].events = b
      BY <1>2, <3>2 DEF Toward
    <3> QED BY <1>1, <3>1, <3>2
  <2> QED BY <1>1, <2>1, <2>2
<1>5. PICK w \in SUBSET Lines : w = ToLines(t)
  BY DEF ToLines
<1>6. ToLines(t)' = w \ {p} /\ (p \in Lines => p \in w)
  BY <1>1, <1>2, <1>4, <1>5, ComingIs DEF ToLines
<1>7. ToPublish(t)' = ToPublish(t)
  BY <1>1, ToPublishIs
<1>8. \A u \in Threads : u # t => Coming(u)' = Coming(u)
  BY <1>1, ComingStays
<1>9. w \ {p} # {} => out'[t].events = b
  BY <1>1, <1>6, ComingIs
<1>10. PICK rest \in Seq(Items) : rest = ToPublish(t)
  <2>1. CASE t \in Walkers
    <3>1. stack[t] \in Seq(Frames) /\ Depths(t) \in {0, 1}
      BY <2>1 DEF DepthInv, WalkTypeOK, Depths
    <3> HIDE DEF Depths
    <3>2. Inner(stack[t], Depths(t)) \in Seq(Items)
      BY <3>1, InnerIs
    <3>3. ToPublish(t) = Inner(stack[t], Depths(t))
      BY <2>1, ToPublishIs
    <3> QED BY <3>2, <3>3
  <2>2. CASE t \notin Walkers
    <3>1. ToPublish(t) = <<>>
      BY <2>2, ToPublishIs
    <3>2. <<>> \in Seq(Items)
      OBVIOUS
    <3> QED BY <3>1, <3>2, Zenon
  <2> QED BY <2>1, <2>2
<1>11. /\ Coming(t) = IF w = {} THEN rest ELSE Append(rest, Bound(b, w))
       /\ Coming(t)' = IF w \ {p} = {} THEN rest ELSE Append(rest, Bound(b, w \ {p}))
  BY <1>0, <1>5, <1>6, <1>7, <1>9, <1>10, ComingIs
<1>12. CASE p \in Lines
  <2>1. \A x \in Lines : Queue(x)' = IF x = p THEN Append(Queue(x), b) ELSE Queue(x)
    BY <1>1, <1>12 DEF Queue, Lines
  <2>2. p \in w /\ Len(Queue(p)) < ChanCap /\ UNCHANGED <<log, shown, kept>>
    BY <1>1, <1>3, <1>6, <1>12
  <2>3. Coming(t) = Append(rest, Bound(b, w))
    BY <1>11, <2>2
  <2>4. Coming(t)' = IF w \ {p} = {} THEN rest ELSE Append(rest, Bound(b, w \ {p}))
    BY <1>11
  <2>5. Publish!Put(t)
    BY <1>8, <1>12, <2>1, <2>2, <2>3, <2>4, Puts
  <2> QED BY <2>5
<1>13. CASE p \notin Lines
  <2>1. w \ {p} = w /\ UNCHANGED <<log, bq, hq, shown, kept>>
    BY <1>1, <1>2, <1>13
  <2>2. Coming(t)' = Coming(t)
    <3>1. Coming(t) = IF w = {} THEN rest ELSE Append(rest, Bound(b, w))
      BY <1>11
    <3>2. Coming(t)' = IF w \ {p} = {} THEN rest ELSE Append(rest, Bound(b, w \ {p}))
      BY <1>11
    <3>3. w \ {p} = w
      BY <2>1
    <3>4. Coming(t)' = IF w = {} THEN rest ELSE Append(rest, Bound(b, w))
      BY <3>2, <3>3, Zenon
    <3> QED BY <3>1, <3>4, Zenon
  <2>3. \A u \in Threads : Coming(u)' = Coming(u)
    BY <1>8, <2>2
  <2> QED BY <2>1, <2>3, AtRest
<1> QED BY <1>12, <1>13

\* A PluginLoop that begins to walk changes neither line.
LEMMA TakeRests ==
  ASSUME DepthInv, NEW t \in Walkers, LoopTake(t)
  PROVE  UNCHANGED Publish!vars
<1>1. /\ t.kind = "loop" /\ stack[t] = <<>> /\ stack'[t] \in Seq(Frames) /\ Len(stack'[t]) = 1
      /\ (\A u \in Walkers \ {t} : stack'[u] = stack[u])
      /\ UNCHANGED <<log, bq, hq, shown, kept, out>>
  BY TakeEffect DEF LoopTake
<1>2. stack[t] \in Seq(Frames) /\ Len(stack[t]) = 0 /\ Depths(t) = 1 /\ t \in Threads
  BY <1>1, ThreadKinds DEF Depths
<1>3. ToPublish(t)' = ToPublish(t)
  <2> DEFINE s == stack[t]
             z == stack'[t]
  <2>1. s \in Seq(Frames) /\ z \in Seq(Frames) /\ Len(s) <= 1 /\ Len(z) <= 1 /\ 1 \in {0, 1}
    BY <1>1, <1>2
  <2> HIDE DEF s, z
  <2>2. Inner(s, 1) = <<>> /\ Inner(z, 1) = <<>>
    BY <2>1, InnerNone
  <2>3. ToPublish(t) = Inner(s, 1) /\ ToPublish(t)' = Inner(z, 1)
    BY <1>2, ToPublishIs DEF s, z
  <2> QED BY <2>2, <2>3
<1>4. ASSUME NEW u \in Threads PROVE Coming(u)' = Coming(u)
  <2>1. CASE u = t
    <3>1. ToLines(t)' = ToLines(t)
      BY <1>1, <1>2, ComingIs DEF ToLines
    <3> QED BY <1>1, <1>2, <1>3, <2>1, <3>1, ComingIs
  <2>2. CASE u # t
    BY <1>1, <2>2, ComingStays
  <2> QED BY <2>1, <2>2
<1> QED BY <1>1, <1>4, AtRest

\* Nor does a return: what the call was to publish is sent next.
LEMMA ReturnRests ==
  ASSUME DepthInv, CallsPublish, NEW t \in Walkers, Return(t)
  PROVE  UNCHANGED Publish!vars
<1> DEFINE s == stack[t]
           z == stack'[t]
           n == Len(s)
           b == s[n].events
           o == Depths(t)
<1>1. /\ n \in Nat \ {0} /\ s \in Seq(Frames) /\ s[n] \in Frames
      /\ z \in Seq(Frames) /\ Len(z) = n - 1 /\ (\A i \in 1 .. n - 1 : z[i] = s[i])
      /\ (\A u \in Walkers \ {t} : stack'[u] = stack[u])
      /\ out[t] = Idle
      /\ out'[t] = (IF s[n].publish THEN [events |-> b, to |-> HandleEventsTo] ELSE Idle)
      /\ (\A u \in Threads \ {t} : out'[u] = out[u])
      /\ UNCHANGED <<log, bq, hq, shown, kept>>
  BY ReturnEffect
<1>2. o \in {0, 1} /\ (s[n].publish <=> n > o) /\ t \in Threads
  BY <1>1, ThreadKinds DEF CallsPublish, Depths
<1>3. Coming(t) = Inner(s, o) /\ ToPublish(t)' = Inner(z, o)
  BY <1>1, <1>2, ToPublishIs, ComingIs
<1>4. Coming(t)' = Coming(t)
  <2>1. CASE s[n].publish
    <3>1. b \in Batches
      BY <1>1 DEF Frames
    <3>2. ToLines(t)' = Lines /\ Lines # {} /\ out'[t].events = b
      <4>1. out'[t].to = HandleEventsTo /\ out'[t].events = b
        BY <1>1, <2>1
      <4>2. \A d \in Lines : Goes(HandleEventsTo, d)
        BY RouteTable DEF Lines
      <4>3. ToLines(t)' = {d \in Lines : Goes(out'[t].to, d)}
        BY <1>2, ComingIs
      <4> QED BY <4>1, <4>2, <4>3 DEF Lines
    <3> HIDE DEF s, z, b, o, n
    <3>3. Coming(t)' = Append(Inner(z, o), Bound(b, Lines))
      BY <1>2, <1>3, <3>2, ComingIs
    <3>4. n = Len(s)
      BY DEF n
    <3>5. Len(s) = Len(z) + 1 /\ o <= Len(z) /\ s[Len(s)].events = b
          /\ (\A i \in 1 .. Len(z) : s[i].events = z[i].events)
      BY <1>1, <1>2, <2>1, <3>4 DEF b
    <3>6. z \in Seq(Frames) /\ s \in Seq(Frames) /\ o \in {0, 1} /\ b \in Batches
      BY <1>1, <1>2, <3>1
    <3>7. Inner(s, o) = Append(Inner(z, o), Bound(b, Lines))
      BY <3>5, <3>6, InnerMore
    <3> QED BY <1>3, <3>3, <3>7
  <2>2. CASE ~s[n].publish
    <3>1. ToLines(t)' = {}
      BY <1>1, <1>2, <2>2, ComingIs
    <3> HIDE DEF s, z, o, n
    <3>2. Coming(t)' = Inner(z, o)
      BY <1>2, <1>3, <3>1, ComingIs
    <3>3. Len(s) <= o /\ Len(z) <= o
      BY <1>1, <1>2, <2>2 DEF n
    <3> QED BY <1>1, <1>2, <1>3, <3>2, <3>3, InnerNone
  <2> QED BY <2>1, <2>2
<1>5. \A u \in Threads : Coming(u)' = Coming(u)
  BY <1>1, <1>4, ComingStays
<1> QED BY <1>1, <1>5, AtRest

\* What a plugin has just emitted or answered is published by a call of its own, before what
\* the calls around it publish; the internal events that EmitEvents takes out are left.
LEMMA PluginMakes ==
  ASSUME TypeOK, TypeOK', DepthInv, NEW t \in Walkers, Plugs(t)
  PROVE  Publish!Make \/ UNCHANGED Publish!vars
<1> DEFINE s == stack[t]
           z == stack'[t]
           n == Len(s)
           o == Depths(t)
<1>1. /\ UNCHANGED <<bq, hq, shown, kept, out>> /\ out[t] = Idle
      /\ (\A u \in Walkers \ {t} : stack'[u] = stack[u])
      /\ DOMAIN log \subseteq DOMAIN log' /\ (\A e \in DOMAIN log : log'[e] = log[e])
      /\ (Len(z) = n \/ Len(z) = n + 1)
      /\ (\A i \in 1 .. n : SameCall(s[i], z[i]))
      /\ (\A i \in 1 .. Len(z) : i \notin 1 .. n => z[i].events \subseteq New)
      /\ (\A e \in New : Dropped(e)' \/ (Len(z) = n + 1 /\ e \in z[n + 1].events))
      /\ (t.kind = "loop" => s # <<>>)
  BY DEF Plugs, WalkerStep
<1>2. s \in Seq(Frames) /\ z \in Seq(Frames) /\ n \in Nat /\ t \in Threads /\ o \in {0, 1} /\ o <= n
  <2>1. s \in Seq(Frames) /\ z \in Seq(Frames) /\ n \in Nat
    BY LenProperties DEF TypeOK, WalkTypeOK
  <2> QED BY <1>1, <2>1, EmptySeq, ThreadKinds DEF Depths
<1>3. \A i \in 1 .. n : z[i].events = s[i].events
  BY <1>1 DEF SameCall
<1>4. Coming(t) = Inner(s, o) /\ Coming(t)' = Inner(z, o)
  BY <1>1, <1>2, ToPublishIs, ComingIs
<1>5. \A u \in Threads : u # t => Coming(u)' = Coming(u)
  BY <1>1, ComingStays
<1>6. Lines \in LinesOf(t)
  BY DEF LinesOf, Walkers, Loops, Helpers, Jobs
<1>7. \A e \in New : Dropped(e)' => log'[e].kind.internal
  BY DEF Dropped
<1>a. Extended
  BY <1>1 DEF Extended
<1> HIDE DEF s, z, n, o
<1>8. CASE Len(z) = n
  <2>1. Inner(z, o) = Inner(s, o)
    BY <1>2, <1>3, <1>8, InnerSame DEF n
  <2>2. \A u \in Threads : Coming(u)' = Coming(u)
    BY <1>4, <1>5, <2>1
  <2>3. CASE New = {}
    <3>1. DOMAIN log' = DOMAIN log
      BY <1>1, <2>3 DEF New
    <3>2. log \in Seq(Entries) /\ log' \in Seq(Entries)
      BY DEF TypeOK, WalkTypeOK
    <3>3. log' = log
      BY <1>1, <3>1, <3>2, LenProperties, SeqEqual
    <3> QED BY <1>1, <2>2, <3>3, AtRest
  <2>4. CASE New # {}
    <3>1. {} \in SUBSET New /\ Left({})
      BY <1>1, <1>2, <1>7, <1>8 DEF Left
    <3>2. Adds(t, Lines, {})
      BY <2>2 DEF Adds
    <3> QED BY <1>1, <1>2, <1>6, <1>a, <2>4, <3>1, <3>2, Makes
  <2> QED BY <2>3, <2>4
<1>9. CASE Len(z) = n + 1
  <2> DEFINE b == z[n + 1].events
  <2>1. b \in Batches /\ b \in SUBSET New /\ b # {}
    <3>1. n + 1 \in 1 .. Len(z) /\ n + 1 \notin 1 .. n
      BY <1>2, <1>9
    <3>2. z[n + 1] \in Frames
      BY <1>2, <3>1, ElementOfSeq
    <3> QED BY <1>1, <3>1, <3>2 DEF Frames, Batches
  <2>2. Left(b)
    BY <1>1, <1>7 DEF Left
  <2>3. z[Len(z)].events = b
    BY <1>9
  <2> HIDE DEF b
  <2>4. Inner(z, o) = Append(Inner(s, o), Bound(b, Lines))
    BY <1>2, <1>3, <1>9, <2>1, <2>3, InnerMore DEF n
  <2>5. Adds(t, Lines, b)
    BY <1>4, <1>5, <2>1, <2>4 DEF Adds, Lines
  <2>6. New # {}
    BY <2>1
  <2>7. Publish!Make
    BY <1>1, <1>2, <1>6, <1>a, <2>1, <2>2, <2>5, <2>6, Makes
  <2> QED BY <2>7
<1> QED BY <1>1, <1>8, <1>9

\* The hub takes a batch of one line, and shows clients what of it is not internal.
LEMMA HubTakesIt ==
  ASSUME PublishInv, HubBroadcast \/ HubHistory
  PROVE  \E d \in Lines : Publish!Take(d)
<1>1. ASSUME NEW d \in Lines, Queue(d) # <<>>
      PROVE  Head(Queue(d)) \in SUBSET (DOMAIN log) /\ Head(Queue(d)) \in SUBSET Events
  <2>1. Queue(d) \in Seq(Batches)
    BY DEF PublishInv, TypeOK, Queue
  <2>2. Head(Queue(d)) \in Batches /\ Head(Queue(d)) = Queue(d)[1] /\ 1 \in 1 .. Len(Queue(d))
    <3>1. Len(Queue(d)) \in Nat \ {0}
      BY <1>1, <2>1, EmptySeq
    <3>2. 1 \in 1 .. Len(Queue(d))
      BY <3>1
    <3>3. Head(Queue(d)) = Queue(d)[1]
      BY <1>1, <2>1, HeadTailProperties
    <3> QED BY <2>1, <3>2, <3>3, ElementOfSeq
  <2>3. Head(Queue(d)) \subseteq In(Queue(d))
    BY <2>2 DEF In, Batches
  <2> QED BY <2>2, <2>3 DEF PublishInv, Once, Through, Batches
<1>2. CASE HubBroadcast
  <2> DEFINE seen == KeepEvents(Head(Queue("broadcast")), log)
  <2>1. "broadcast" \in Lines /\ Queue("broadcast") # <<>> /\ UNCHANGED <<log, stack, out>>
    BY <1>2 DEF HubBroadcast, Lines, Queue
  <2>2. \A x \in Lines : /\ Queue(x)' = IF x = "broadcast" THEN Tail(Queue(x)) ELSE Queue(x)
                         /\ Done(x)' = IF x = "broadcast" THEN Done(x) \o InOrder(seen) ELSE Done(x)
    BY <1>2 DEF HubBroadcast, Lines, Queue, Done
  <2>3. \A d : d = "broadcast" => seen = IF d = "broadcast" THEN KeepEvents(Head(Queue(d)), log)
                                         ELSE Head(Queue(d))
    OBVIOUS
  <2> HIDE DEF seen
  <2> DEFINE d == "broadcast"
  <2>4. /\ d \in Lines /\ Queue(d) # <<>> /\ UNCHANGED <<log, stack, out>>
        /\ Head(Queue(d)) \in SUBSET (DOMAIN log) /\ Head(Queue(d)) \in SUBSET Events
        /\ seen = IF d = "broadcast" THEN KeepEvents(Head(Queue(d)), log) ELSE Head(Queue(d))
        /\ \A x \in Lines : /\ Queue(x)' = IF x = d THEN Tail(Queue(x)) ELSE Queue(x)
                            /\ Done(x)' = IF x = d THEN Done(x) \o InOrder(seen) ELSE Done(x)
    BY <1>1, <2>1, <2>2, <2>3
  <2> HIDE DEF d
  <2> QED BY <2>4, Takes
<1>3. CASE HubHistory
  <2> DEFINE seen == Head(Queue("history"))
  <2>1. "history" \in Lines /\ Queue("history") # <<>> /\ UNCHANGED <<log, stack, out>>
    BY <1>3 DEF HubHistory, Lines, Queue
  <2>2. \A x \in Lines : /\ Queue(x)' = IF x = "history" THEN Tail(Queue(x)) ELSE Queue(x)
                         /\ Done(x)' = IF x = "history" THEN Done(x) \o InOrder(seen) ELSE Done(x)
    BY <1>3 DEF HubHistory, Lines, Queue, Done
  <2>3. \A d : d = "history" => seen = IF d = "broadcast" THEN KeepEvents(Head(Queue(d)), log)
                                       ELSE Head(Queue(d))
    OBVIOUS
  <2> HIDE DEF seen
  <2> DEFINE d == "history"
  <2>4. /\ d \in Lines /\ Queue(d) # <<>> /\ UNCHANGED <<log, stack, out>>
        /\ Head(Queue(d)) \in SUBSET (DOMAIN log) /\ Head(Queue(d)) \in SUBSET Events
        /\ seen = IF d = "broadcast" THEN KeepEvents(Head(Queue(d)), log) ELSE Head(Queue(d))
        /\ \A x \in Lines : /\ Queue(x)' = IF x = d THEN Tail(Queue(x)) ELSE Queue(x)
                            /\ Done(x)' = IF x = d THEN Done(x) \o InOrder(seen) ELSE Done(x)
    BY <1>1, <2>1, <2>2, <2>3
  <2> HIDE DEF d
  <2> QED BY <2>4, Takes
<1> QED BY <1>2, <1>3

\* Every step of the pipeline is one of Publication's, or leaves the two lines as they are.
LEMMA StepPublishes ==
  PublishInv /\ CallsPublish /\ [Next]_vars => [Publish!Next]_(Publish!vars)
<1> SUFFICES ASSUME PublishInv, CallsPublish, [Next]_vars
             PROVE  Publish!Next \/ UNCHANGED Publish!vars
  OBVIOUS
<1>1. TypeOK /\ TypeOK' /\ DepthInv /\ HomeInv
  BY PublishNext DEF PublishInv
<1>2. ASSUME NEW t \in Readers, Read(t) \/ Greet(t) PROVE Publish!Next
  <2>1. t \in Threads /\ Publish!Make
    BY <1>1, <1>2, ReaderMakes, ThreadKinds
  <2> QED BY <2>1 DEF Publish!Next
<1>3. ASSUME NEW t \in Threads, Send(t) PROVE Publish!Next \/ UNCHANGED Publish!vars
  <2>1. Publish!Put(t) \/ UNCHANGED Publish!vars
    BY <1>1, <1>3, SendPuts
  <2> QED BY <2>1 DEF Publish!Next
<1>4. ASSUME NEW t \in Walkers, LoopTake(t) \/ Return(t) PROVE UNCHANGED Publish!vars
  BY <1>1, <1>4, TakeRests, ReturnRests
<1>5. ASSUME NEW t \in Walkers, Plugs(t) PROVE Publish!Next \/ UNCHANGED Publish!vars
  <2>1. t \in Threads /\ (Publish!Make \/ UNCHANGED Publish!vars)
    BY <1>1, <1>5, PluginMakes, ThreadKinds
  <2> QED BY <2>1 DEF Publish!Next
<1>6. ASSUME HubBroadcast \/ HubHistory PROVE Publish!Next
  <2>1. \E d \in Lines : Publish!Take(d)
    BY <1>6, HubTakesIt
  <2> QED BY <2>1 DEF Publish!Next, Publish!Lines, Lines
<1>7. ASSUME UNCHANGED vars PROVE UNCHANGED Publish!vars
  <2>1. UNCHANGED <<log, bq, hq, shown, kept, stack, out>>
    BY <1>7 DEF vars
  <2>2. \A u \in Threads : Coming(u)' = Coming(u)
    BY <2>1, ComingStays
  <2> QED BY <2>1, <2>2, AtRest
<1> QED BY <1>1, <1>2, <1>3, <1>4, <1>5, <1>6, <1>7, StepIs

\* The two lines out of the pipeline implement Publication, for any number of plugins that
\* answer each other, of clients and of events, and any capacity of the channels.
THEOREM PipelineIsPublication == Spec => IsPublication
<1>1. Init => Publish!Init /\ CallsPublish
  <2> SUFFICES ASSUME Init PROVE Publish!Init /\ CallsPublish
    OBVIOUS
  <2>1. \A t \in Walkers : stack[t] = <<>> /\ stack[t] \in Seq(Frames) /\ Len(stack[t]) = 0
    BY DEF Init
  <2>2. CallsPublish
    BY <2>1 DEF CallsPublish
  <2>3. ASSUME NEW t \in Threads PROVE Coming(t) = <<>>
    <3>1. out[t] = Idle
      BY DEF Init
    <3>2. Coming(t) = ToPublish(t)
      BY <3>1, ComingIs
    <3>3. ToPublish(t) = <<>>
      <4>1. CASE t \in Walkers
        BY <2>1, <4>1 DEF ToPublish
      <4>2. CASE t \notin Walkers
        BY <4>2, ToPublishIs
      <4> QED BY <4>1, <4>2
    <3> QED BY <3>2, <3>3
  <2>4. DOMAIN log = {} /\ \A d \in Lines : Queue(d) = <<>> /\ Done(d) = <<>>
    BY DEF Init, Queue, Done
  <2> QED BY <2>2, <2>3, <2>4 DEF Publish!Init, Publish!Lines, Lines
<1>2. PublishInv /\ CallsPublish /\ [Next]_vars => CallsPublish'
  BY CallsNext DEF PublishInv
<1> QED
  BY <1>1, <1>2, PublishInit, PublishNext, StepPublishes, PTL DEF Spec, Publish!Spec, IsPublication
=============================================================================
