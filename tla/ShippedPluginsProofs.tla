------------------------ MODULE ShippedPluginsProofs ------------------------
(***************************************************************************)
(* For any users, nicks, filters, languages and messages: nobody sees what    *)
(* comes of a private message whom it was not for, and a message is            *)
(* translated into all languages or into none.  The inductive invariants       *)
(* follow an event and its message from the log through offers and calls.      *)
(***************************************************************************)
EXTENDS ShippedPlugins, FiniteSetTheorems, SequenceTheorems, TLAPS

\* What is offered is in the log, and calls and the cache hold finitely much.
OffersKnown == \A o \in offers : o.batch \subseteq DOMAIN log
Finite      == IsFiniteSet(cache) /\ \A k \in Calls : IsFiniteSet(call[k].out)
\* A command is what its sender said, and no plugin answers with one.
CommandsBegin == \A i \in DOMAIN log : log[i].name = "command" =>
                                         log[i].message.does # "say" /\ log[i].root = i
AnswersSpeak  == \A k \in Calls : \A e \in call[k].out : e.name # "command"
TypeInv       == TypeOK /\ OffersKnown /\ Finite /\ CommandsBegin /\ AnswersSpeak

-----------------------------------------------------------------------------
(* Events. *)

\* Chat makes a message of its own text, for whom it says, in the conversation of an event.
LEMMA ChatFields ==
  ASSUME NEW text \in Texts, NEW to \in SUBSET Viewers, NEW e \in Event, NEW p \in Plugins
  PROVE  /\ Chat(text, to, e, p) \in Event
         /\ Chat(text, to, e, p).name = "chat" /\ Chat(text, to, e, p).message.does = "say"
         /\ Chat(text, to, e, p).message.text = text
         /\ Chat(text, to, e, p).to = to /\ Chat(text, to, e, p).root = e.root
         /\ Chat(text, to, e, p).of = NoId
<1> DEFINE m == [e.message EXCEPT !.does = "say", !.text = text]
           x == Chat(text, to, e, p)
<1>1. m \in Message /\ m.does = "say" /\ m.text = text
  BY DEF Event, Message
<1>2. x = [e EXCEPT !.name = "chat", !.message = m, !.to = to, !.chain = @ \cup {p}, !.of = NoId]
  BY DEF Event, Chat
<1> HIDE DEF m, x
<1>3. x \in Event
  BY <1>1, <1>2 DEF Event
<1>4. x.name = "chat" /\ x.message = m /\ x.to = to /\ x.root = e.root /\ x.of = NoId
  BY <1>2 DEF Event
<1> QED
  BY <1>1, <1>3, <1>4 DEF x

\* What a plugin says of its own belongs to no conversation.
LEMMA SpontaneousFields ==
  ASSUME NEW text \in Texts, NEW chain \in SUBSET Plugins
  PROVE  /\ Spontaneous(text, chain) \in Event
         /\ Spontaneous(text, chain).name = "chat"
         /\ Spontaneous(text, chain).root = NoId /\ Spontaneous(text, chain).of = NoId
<1>1. (CHOOSE u \in Users : TRUE) \in Users
  BY NicksTyped
<1>2. Nick[CHOOSE u \in Users : TRUE] \in Nicks
  BY <1>1 DEF Nicks
<1>3. SpokenIn[text] \in Langs
  BY TextsTyped
<1>4. Everybody \in SUBSET Viewers
  BY DEF Everybody
<1> QED
  BY <1>1, <1>2, <1>3, <1>4 DEF Spontaneous, Event, Message

\* A translation keeps the message and the conversation, and is for readers of its language.
LEMMA TranslationFields ==
  ASSUME NEW t \in Item, NEW lang \in Langs, NEW is \in Langs
  PROVE  LET x == Translation(t, lang, is) IN
         /\ x \in Event /\ x.name = "translation" /\ x.lang = is /\ x.of = t.id
         /\ x.to = t.event.to \cap {v \in Viewers : v.lang = lang}
         /\ x.root = t.event.root /\ x.message = t.event.message
<1> DEFINE x == Translation(t, lang, is)
<1>0. t.event \in Event /\ t.id \in Ids \cup {NoId}
  BY DEF Item
<1>1. /\ x.name = "translation" /\ x.lang = is /\ x.of = t.id
      /\ x.to = t.event.to \cap {v \in Viewers : v.lang = lang}
      /\ x.root = t.event.root /\ x.message = t.event.message
  BY <1>0 DEF Event, Translation
<1>2. x \in Event
  BY <1>0 DEF Event, Translation, Plugins
<1> HIDE DEF x
<1> QED
  BY <1>1, <1>2 DEF x

\* The answer to /help is for who asked.
LEMMA HelpFields ==
  ASSUME NEW e \in Event
  PROVE  /\ HelpAnswer(e) \in Event /\ HelpAnswer(e).name = "chat" /\ HelpAnswer(e).to = Own(e.by)
         /\ HelpAnswer(e).root = e.root /\ HelpAnswer(e).of = NoId
<1>1. HelpText \in Texts /\ Own(e.by) \in SUBSET Viewers /\ "google-translate" \in Plugins
  BY TextsTyped DEF Own, Plugins
<1> QED
  BY <1>1, ChatFields DEF HelpAnswer

\* What base-commands answers is typed, belongs to the conversation and is no command.
LEMMA CommandFields ==
  ASSUME NEW e \in Event, e.message.does # "say"
  PROVE  /\ Command(e) \in Event /\ Command(e).name = "chat"
         /\ Command(e).root = e.root /\ Command(e).of = NoId
         /\ Command(e).to = CASE e.message.does = "/to"   -> ToFilter(e)
                              [] e.message.does = "/fg"   -> Everybody
                              [] e.message.does = "/help" -> Own(e.by)
<1>1. /\ e.message.does \in {"/to", "/fg", "/help"} /\ e.message.text \in Texts /\ HelpText \in Texts
      /\ Own(e.by) \in SUBSET Viewers /\ ToFilter(e) \in SUBSET Viewers /\ Everybody \in SUBSET Viewers
      /\ "base-commands" \in Plugins
  BY TextsTyped DEF Own, ToFilter, Named, Everybody, Plugins, Event, Message
<1>2. CASE e.message.does = "/to"
  BY <1>1, <1>2, ChatFields DEF Command
<1>3. CASE e.message.does = "/fg"
  BY <1>1, <1>3, ChatFields DEF Command
<1>4. CASE e.message.does = "/help"
  BY <1>1, <1>4, ChatFields DEF Command
<1> QED
  BY <1>1, <1>2, <1>3, <1>4

-----------------------------------------------------------------------------
(* Sequences. *)

\* SetToSeq lists each member of a finite set once.
LEMMA SetAsSeq ==
  ASSUME NEW S, IsFiniteSet(S)
  PROVE  LET s == SetToSeq(S) IN
         /\ s \in Seq(S) /\ Len(s) = Cardinality(S) /\ Cardinality(S) \in Nat
         /\ \A i, j \in 1 .. Len(s) : s[i] = s[j] => i = j
         /\ \A x \in S : \E i \in 1 .. Len(s) : s[i] = x
<1> DEFINE c == Cardinality(S)
           s == SetToSeq(S)
<1>1. c \in Nat /\ ExistsBijection(1 .. c, S)
  BY FS_CardinalityType
<1>2. \E f \in [1 .. c -> S] : IsInjective(f)
  BY <1>1 DEF ExistsBijection, Bijection, Injection
<1>3. s \in [1 .. c -> S] /\ IsInjective(s)
  BY <1>2 DEF SetToSeq
<1> HIDE DEF s
<1>4. IsFiniteSet(1 .. c) /\ Cardinality(1 .. c) = c
  BY <1>1, FS_Interval
<1>5. s \in Surjection(1 .. c, S)
  BY <1>3, <1>4, FS_Injection DEF Injection
<1> HIDE DEF c
<1>6. s \in Seq(S) /\ Len(s) = c
  BY <1>1, <1>3, SeqDef, LenProperties
<1>7. \A i, j \in 1 .. c : s[i] = s[j] => i = j
  BY <1>3 DEF IsInjective
<1>8. \A x \in S : \E i \in 1 .. c : s[i] = x
  BY <1>5 DEF Surjection
<1> QED
  BY <1>1, <1>6, <1>7, <1>8 DEF s, c

\* There is an increasing list of a finite set of numbers: a number's place in it is how many
\* are not above it.
LEMMA OrderExists ==
  ASSUME NEW S \in SUBSET Nat, IsFiniteSet(S)
  PROVE  \E s \in [1 .. Cardinality(S) -> S] : \A i, j \in 1 .. Cardinality(S) : i < j => s[i] < s[j]
<1> DEFINE c == Cardinality(S)
           upTo(e) == {f \in S : f <= e}
           rank == [e \in S |-> Cardinality(upTo(e))]
<1>1. c \in Nat
  BY FS_CardinalityType
<1>2. ASSUME NEW e \in S PROVE IsFiniteSet(upTo(e)) /\ rank[e] \in 1 .. c
  <2>1. IsFiniteSet(upTo(e)) /\ Cardinality(upTo(e)) <= c
    BY FS_Subset
  <2>2. Cardinality(upTo(e)) \in Nat /\ e \in upTo(e)
    BY <2>1, FS_CardinalityType
  <2>3. Cardinality(upTo(e)) # 0
    BY <2>1, <2>2, FS_EmptySet
  <2> HIDE DEF upTo, c
  <2> QED
    BY <1>1, <2>1, <2>2, <2>3
<1>3. ASSUME NEW e \in S, NEW f \in S, e < f PROVE rank[e] < rank[f]
  <2>1. \A g \in S : g <= e => g <= f
    <3> SUFFICES ASSUME NEW g \in S, g <= e PROVE g <= f
      OBVIOUS
    <3>1. e \in Nat /\ f \in Nat /\ g \in Nat
      OBVIOUS
    <3> QED
      BY <1>3, <3>1
  <2>2. f \in upTo(f) /\ f \notin upTo(e)
    BY <1>3
  <2>3. Cardinality(upTo(e)) <= Cardinality(upTo(f)) /\ Cardinality(upTo(e)) # Cardinality(upTo(f))
    <3>1. upTo(e) \in SUBSET upTo(f)
      BY <2>1
    <3> HIDE DEF upTo
    <3> QED
      BY <1>2, <2>2, <3>1, FS_Subset
  <2>4. rank[e] \in 1 .. c /\ rank[f] \in 1 .. c
    BY <1>2
  <2> HIDE DEF upTo, c
  <2> QED
    BY <1>1, <2>3, <2>4
<1>4. rank \in [S -> 1 .. c]
  BY <1>2
<1> HIDE DEF rank
<1>5. rank \in Injection(S, 1 .. c)
  <2>1. ASSUME NEW e \in S, NEW f \in S, rank[e] = rank[f] PROVE e = f
    <3>1. ~(e < f) /\ ~(f < e)
      <4>0. rank[e] \in 1 .. c /\ rank[f] \in 1 .. c
        BY <1>4
      <4> HIDE DEF c
      <4> QED
        BY <1>1, <1>3, <2>1, <4>0
    <3> QED
      BY <3>1
  <2> QED
    BY <1>4, <2>1 DEF Injection, IsInjective
<1>6. IsFiniteSet(1 .. c) /\ Cardinality(1 .. c) = c
  BY <1>1, FS_Interval
<1>7. rank \in Surjection(S, 1 .. c)
  BY <1>5, <1>6, FS_Injection
<1> DEFINE s == [n \in 1 .. c |-> CHOOSE e \in S : rank[e] = n]
<1>8. \A n \in 1 .. c : s[n] \in S /\ rank[s[n]] = n
  BY <1>7 DEF Surjection
<1>9. s \in [1 .. c -> S]
  BY <1>8
<1> HIDE DEF s
<1>10. ASSUME NEW i \in 1 .. c, NEW j \in 1 .. c, i < j PROVE s[i] < s[j]
  <2>1. s[i] \in Nat /\ s[j] \in Nat /\ s[i] \in S /\ s[j] \in S
    BY <1>8
  <2>2. ~(s[j] < s[i]) /\ s[i] # s[j]
    <3> HIDE DEF c
    <3> QED
      <4>1. rank[s[i]] = i /\ rank[s[j]] = j /\ s[i] \in S /\ s[j] \in S
        BY <1>8
      <4>2. i \in Nat /\ j \in Nat
        BY <1>1
      <4>3. ~(j < i) /\ i # j
        BY <1>10, <4>2
      <4> QED
        BY <1>3, <4>1, <4>3
  <2> QED
    BY <2>1, <2>2
<1> QED
  BY <1>9, <1>10

\* InOrder lists each member of a finite set of numbers once.
LEMMA InOrderLists ==
  ASSUME NEW S \in SUBSET Nat, IsFiniteSet(S)
  PROVE  LET s == InOrder(S) IN
         /\ s \in Seq(S) /\ Len(s) = Cardinality(S)
         /\ \A i, j \in 1 .. Len(s) : s[i] = s[j] => i = j
<1> DEFINE c == Cardinality(S)
           s == InOrder(S)
<1>1. c \in Nat
  BY FS_CardinalityType
<1>2. s \in [1 .. c -> S] /\ \A i, j \in 1 .. c : i < j => s[i] < s[j]
  BY OrderExists DEF InOrder
<1> HIDE DEF s
<1>3. \A i \in 1 .. c : s[i] \in Nat
  BY <1>2
<1> HIDE DEF c
<1>4. s \in Seq(S) /\ Len(s) = c
  BY <1>1, <1>2, SeqDef, LenProperties
<1>5. ASSUME NEW i \in 1 .. c, NEW j \in 1 .. c, s[i] = s[j] PROVE i = j
  <2>1. ~(i < j) /\ ~(j < i)
    BY <1>2, <1>3, <1>5
  <2> QED
    BY <1>1, <2>1
<1> QED
  BY <1>4, <1>5 DEF s, c

\* The rest of a sequence are its entries from the second on.
LEMMA TailIs ==
  ASSUME NEW S, NEW s \in Seq(S), s # <<>>
  PROVE  /\ Tail(s) \in Seq(S) /\ Len(s) \in Nat \ {0} /\ Len(Tail(s)) = Len(s) - 1
         /\ Head(s) = s[1] /\ s[1] \in S
         /\ \A j \in 1 .. Len(Tail(s)) : Tail(s)[j] = s[j + 1] /\ j + 1 \in 2 .. Len(s)
BY HeadTailProperties, LenProperties, EmptySeq

-----------------------------------------------------------------------------
(* Publishing. *)

\* Publish appends the events to the log and offers them as one new batch.
LEMMA Published ==
  ASSUME log \in Seq(Event), NEW s \in Seq(Event), NEW others, Publish(s, others)
  PROVE  /\ log' \in Seq(Event) /\ Len(log') = Len(log) + Len(s) /\ Len(log') <= MaxEvents
         /\ \A i \in DOMAIN log : i \in DOMAIN log' /\ log'[i] = log[i]
         /\ \A i \in DOMAIN log' : i \in DOMAIN log \/ \E j \in 1 .. Len(s) : i = Len(log) + j
         /\ \A j \in 1 .. Len(s) : Len(log) + j \in DOMAIN log' /\ log'[Len(log) + j] = s[j]
         /\ \A o \in offers' : \/ o \in others
                               \/ /\ o \in [plugin : Plugins, batch : {Len(log) + 1 .. Len(log) + Len(s)}]
                                  /\ o = [plugin |-> o.plugin, batch |-> Len(log) + 1 .. Len(log) + Len(s)]
<1>1. log' = log \o s /\ Len(log) + Len(s) <= MaxEvents
  BY DEF Publish
<1>2. Len(log) \in Nat /\ Len(s) \in Nat /\ DOMAIN log = 1 .. Len(log)
  BY LenProperties
<1>3. /\ log \o s \in Seq(Event) /\ Len(log \o s) = Len(log) + Len(s)
      /\ \A i \in 1 .. Len(log) + Len(s) :
           (log \o s)[i] = IF i <= Len(log) THEN log[i] ELSE s[i - Len(log)]
  BY ConcatProperties
<1>4. DOMAIN log' = 1 .. Len(log) + Len(s)
  BY <1>1, <1>3, LenProperties
<1>5. \A i \in 1 .. Len(log) : i \in 1 .. Len(log) + Len(s) /\ (log \o s)[i] = log[i]
  BY <1>2, <1>3
<1>6. \A j \in 1 .. Len(s) : /\ Len(log) + j \in 1 .. Len(log) + Len(s)
                             /\ (log \o s)[Len(log) + j] = s[j]
  <2> SUFFICES ASSUME NEW j \in 1 .. Len(s)
               PROVE  /\ Len(log) + j \in 1 .. Len(log) + Len(s)
                      /\ (log \o s)[Len(log) + j] = s[j]
    OBVIOUS
  <2>1. Len(log) + j \in 1 .. Len(log) + Len(s) /\ ~(Len(log) + j <= Len(log)) /\ (Len(log) + j) - Len(log) = j
    BY <1>2
  <2> QED
    BY <1>3, <2>1
<1>7. \A i \in 1 .. Len(log) + Len(s) : i \in 1 .. Len(log) \/ \E j \in 1 .. Len(s) : i = Len(log) + j
  <2> SUFFICES ASSUME NEW i \in 1 .. Len(log) + Len(s), i \notin 1 .. Len(log)
               PROVE  \E j \in 1 .. Len(s) : i = Len(log) + j
    OBVIOUS
  <2>1. i - Len(log) \in 1 .. Len(s) /\ i = Len(log) + (i - Len(log))
    BY <1>2
  <2> QED
    BY <2>1
<1>8. \A o \in offers' : \/ o \in others
                         \/ \E p \in Plugins : o = [plugin |-> p, batch |-> Len(log) + 1 .. Len(log) + Len(s)]
  BY DEF Publish
<1> QED
  BY <1>1, <1>2, <1>3, <1>4, <1>5, <1>6, <1>7, <1>8

\* The step of a publisher that has nothing to do with the translator's calls: what it appends
\* is no translation and belongs to a conversation that there is, or begins one.
Plain(s) ==
  /\ s \in Seq(Event)
  /\ \A j \in 1 .. Len(s) : s[j].of = NoId /\ s[j].name # "translation"

\* What ReadLoop makes of a message.
Said(u, m, asked) ==
  [name |-> IF m.does = "say" THEN "chat" ELSE "command", message |-> m,
   to |-> IF m.does = "say" THEN asked ELSE asked \cap Own(u),
   asked |-> asked, by |-> u, lang |-> SpokenIn[m.text], chain |-> {},
   root |-> Len(log) + 1, of |-> NoId]

\* It is plain, and begins a conversation that it lets reach whom it is for itself.
LEMMA SayPublishes ==
  ASSUME log \in Seq(Event), NEW u \in Senders, NEW m \in Messages, NEW asked \in Filters, Say(u, m, asked)
  PROVE  LET e == Said(u, m, asked) IN
         /\ UNCHANGED <<call, cache, hasCache, up>> /\ Publish(<<e>>, offers)
         /\ e \in Event /\ e.of = NoId /\ e.root = Len(log) + 1 /\ e.to \subseteq Privy(e)
         /\ e.name = IF e.message.does = "say" THEN "chat" ELSE "command"
<1> DEFINE e == Said(u, m, asked)
<1>1. Publish(<<e>>, offers) /\ UNCHANGED <<call, cache, hasCache, up>>
  BY DEF Say, Said
<1>2. /\ u \in Users /\ m \in Message /\ asked \in SUBSET Viewers /\ m.text \in Texts
      /\ SpokenIn[m.text] \in Langs /\ m.does \in {"say", "/to", "/fg", "/help"}
  BY MessagesTyped, FiltersTyped, TextsTyped DEF Message
<1>3. Len(log) + 1 \in Ids
  BY <1>1, BoundsAreNat, LenProperties DEF Publish, Ids
<1>4. e \in Event
  BY <1>2, <1>3 DEF Event, Said
<1>5. /\ e.of = NoId /\ e.name = (IF m.does = "say" THEN "chat" ELSE "command")
      /\ e.message = m /\ e.to = (IF m.does = "say" THEN asked ELSE asked \cap Own(u))
      /\ e.asked = asked /\ e.by = u /\ e.root = Len(log) + 1
  BY DEF Said
<1> HIDE DEF e
<1>6. e.to \subseteq Privy(e)
  <2>1. CASE m.does = "say"
    BY <1>5, <2>1 DEF Privy
  <2>2. CASE m.does = "/to"
    BY <1>5, <2>2 DEF Privy
  <2>3. CASE m.does = "/fg"
    BY <1>2, <1>5, <2>3 DEF Privy, Everybody
  <2>4. CASE m.does = "/help"
    BY <1>5, <2>4 DEF Privy
  <2> QED
    BY <1>2, <2>1, <2>2, <2>3, <2>4
<1> QED
  BY <1>1, <1>4, <1>5, <1>6 DEF e

\* What another plugin emits is plain and belongs to no conversation.
LEMMA EmitPublishes ==
  ASSUME Emit
  PROVE  /\ UNCHANGED <<call, cache, hasCache, up>>
         /\ \E s : Plain(s) /\ (\A j \in 1 .. Len(s) : s[j].root = NoId /\ s[j].name = "chat") /\ Publish(s, offers)
<1>1. PICK t \in Emitted : Publish([i \in DOMAIN t |-> Spontaneous(t[i], {})], offers)
  BY DEF Emit
<1> DEFINE s == [i \in DOMAIN t |-> Spontaneous(t[i], {})]
<1>2. t \in Seq(Texts) /\ Len(t) \in Nat /\ DOMAIN t = 1 .. Len(t) /\ \A i \in 1 .. Len(t) : t[i] \in Texts
  BY MessagesTyped, LenProperties, ElementOfSeq
<1>3. \A i \in 1 .. Len(t) : /\ s[i] \in Event /\ s[i].name = "chat"
                             /\ s[i].root = NoId /\ s[i].of = NoId
  BY <1>2, SpontaneousFields
<1>4. s \in [1 .. Len(t) -> Event]
  BY <1>2, <1>3
<1> HIDE DEF s
<1>5. s \in Seq(Event) /\ Len(s) = Len(t)
  BY <1>2, <1>4, SeqDef, LenProperties
<1> QED
  BY <1>1, <1>3, <1>5 DEF Emit, Plain, s

\* So is what base-commands says now and then.
LEMMA CronPublishes ==
  ASSUME BaseCron
  PROVE  /\ UNCHANGED <<call, cache, hasCache, up>>
         /\ \E s : Plain(s) /\ (\A j \in 1 .. Len(s) : s[j].root = NoId /\ s[j].name = "chat") /\ Publish(s, offers)
<1>1. PICK p \in Plugins : Publish(<<Spontaneous(ActiveText, {p})>>, offers)
  BY DEF BaseCron
<1> DEFINE e == Spontaneous(ActiveText, {p})
<1>2. e \in Event /\ e.name = "chat" /\ e.root = NoId /\ e.of = NoId
  BY TextsTyped, SpontaneousFields
<1> HIDE DEF e
<1>3. <<e>> \in Seq(Event) /\ Len(<<e>>) = 1 /\ <<e>>[1] = e
  BY <1>2
<1>4. Plain(<<e>>) /\ \A j \in 1 .. Len(<<e>>) : <<e>>[j].root = NoId /\ <<e>>[j].name = "chat"
  BY <1>2, <1>3 DEF Plain
<1> QED
  BY <1>1, <1>4 DEF BaseCron, e

\* base-commands takes its batch, and answers commands, if there are any that it knows.
LEMMA BasePublishes ==
  ASSUME TypeInv, NEW o \in offers, BaseHandles(o)
  PROVE  /\ UNCHANGED <<call, cache, hasCache, up>>
         /\ \/ offers' = offers \ {o} /\ UNCHANGED log
            \/ \E s : /\ Plain(s) /\ Publish(s, offers \ {o})
                      /\ \A j \in 1 .. Len(s) : /\ s[j].name = "chat"
                                                /\ \E i \in DOMAIN log : log[i].name = "command" /\ s[j] = Command(log[i])
<1> DEFINE S == {i \in o.batch : HasAnswer(log[i])}
           c == InOrder(S)
           s == [j \in DOMAIN c |-> Command(log[c[j]])]
<1>1. /\ UNCHANGED <<call, cache, hasCache, up>>
      /\ \/ offers' = offers \ {o} /\ UNCHANGED log
         \/ Publish(s, offers \ {o})
  BY DEF BaseHandles
<1>2. /\ log \in Seq(Event) /\ DOMAIN log = 1 .. Len(log) /\ Len(log) \in Nat
      /\ o.batch \in SUBSET (1 .. Len(log))
  BY LenProperties DEF TypeInv, TypeOK, OffersKnown
<1>3. S \in SUBSET (1 .. Len(log)) /\ S \in SUBSET Nat /\ IsFiniteSet(S)
  <2>1. IsFiniteSet(1 .. Len(log))
    BY <1>2, FS_Interval
  <2>2. S \in SUBSET (1 .. Len(log))
    BY <1>2
  <2>3. 1 .. Len(log) \subseteq Nat
    BY <1>2
  <2> HIDE DEF S
  <2>4. IsFiniteSet(S)
    BY <2>1, <2>2, FS_Subset
  <2> QED
    BY <2>2, <2>3, <2>4
<1>4. c \in Seq(S) /\ Len(c) \in Nat /\ DOMAIN c = 1 .. Len(c)
  <2> HIDE DEF S
  <2> QED
    BY <1>3, InOrderLists, LenProperties
<1>5. ASSUME NEW j \in 1 .. Len(c)
      PROVE  /\ c[j] \in DOMAIN log /\ log[c[j]].name = "command"
             /\ s[j] \in Event /\ s[j].of = NoId /\ s[j].name = "chat"
             /\ s[j] = Command(log[c[j]])
  <2>1. c[j] \in S
    <3> HIDE DEF S, c
    <3> QED
      BY <1>4, ElementOfSeq
  <2>2. c[j] \in DOMAIN log /\ log[c[j]].name = "command" /\ log[c[j]] \in Event
    <3> HIDE DEF c
    <3> QED
      BY <1>2, <2>1, ElementOfSeq DEF HasAnswer
  <2>3. log[c[j]].message.does # "say"
    BY <2>2 DEF TypeInv, CommandsBegin
  <2>4. s[j] = Command(log[c[j]])
    BY <1>4
  <2> HIDE DEF c, s
  <2> QED
    BY <2>2, <2>3, <2>4, CommandFields
<1>6. s \in [1 .. Len(c) -> Event]
  <2>1. \A j \in 1 .. Len(c) : s[j] \in Event
    BY <1>5
  <2>2. s = [j \in 1 .. Len(c) |-> s[j]]
    BY <1>4
  <2> HIDE DEF s
  <2> QED
    BY <2>1, <2>2
<1> HIDE DEF s, c
<1>7. s \in Seq(Event) /\ Len(s) = Len(c)
  BY <1>4, <1>6, SeqDef, LenProperties
<1> QED
  BY <1>1, <1>5, <1>7 DEF Plain

\* What is published by any of them is typed and known, and commands begin conversations.
LEMMA PublishKeeps ==
  ASSUME TypeInv, NEW s \in Seq(Event), NEW others \in SUBSET offers, Publish(s, others),
         \A j \in 1 .. Len(s) : s[j].name = "command" =>
                                  s[j].message.does # "say" /\ s[j].root = Len(log) + j
  PROVE  /\ log' \in Seq(Event) /\ Len(log') <= MaxEvents
         /\ offers' \subseteq [plugin : Plugins, batch : SUBSET Ids]
         /\ OffersKnown' /\ CommandsBegin'
<1>0. log \in Seq(Event) /\ DOMAIN log = 1 .. Len(log) /\ Len(log) \in Nat /\ Len(s) \in Nat
  BY LenProperties DEF TypeInv, TypeOK
<1> DEFINE new == Len(log) + 1 .. Len(log) + Len(s)
<1>1. /\ log' \in Seq(Event) /\ Len(log') = Len(log) + Len(s) /\ Len(log') <= MaxEvents
      /\ \A i \in DOMAIN log : i \in DOMAIN log' /\ log'[i] = log[i]
      /\ \A i \in DOMAIN log' : i \in DOMAIN log \/ \E j \in 1 .. Len(s) : i = Len(log) + j
      /\ \A j \in 1 .. Len(s) : Len(log) + j \in DOMAIN log' /\ log'[Len(log) + j] = s[j]
      /\ \A o \in offers' : \/ o \in others
                            \/ o \in [plugin : Plugins, batch : {new}]
  BY <1>0, Published
<1>2. new \subseteq Ids /\ new \subseteq DOMAIN log'
  <2>1. DOMAIN log' = 1 .. Len(log) + Len(s)
    BY <1>1, LenProperties
  <2> QED
    BY <1>0, <1>1, <2>1, BoundsAreNat DEF Ids
<1>3. ASSUME NEW o \in offers'
      PROVE  o \in [plugin : Plugins, batch : SUBSET Ids] /\ o.batch \subseteq DOMAIN log'
  <2>1. CASE o \in others
    <3>1. o \in offers
      BY <2>1
    <3> QED
      BY <1>1, <3>1 DEF TypeInv, TypeOK, OffersKnown
  <2>2. CASE o \in [plugin : Plugins, batch : {new}]
    <3> HIDE DEF new
    <3> QED
      BY <1>2, <2>2
  <2> QED
    BY <1>1, <2>1, <2>2
<1>4. CommandsBegin'
  <2>0. CommandsBegin
    BY DEF TypeInv
  <2> SUFFICES ASSUME NEW i \in DOMAIN log', log'[i].name = "command"
               PROVE  log'[i].message.does # "say" /\ log'[i].root = i
    BY DEF CommandsBegin
  <2>1. CASE i \in DOMAIN log
    BY <1>1, <2>0, <2>1 DEF CommandsBegin
  <2>2. ASSUME NEW j \in 1 .. Len(s), i = Len(log) + j
        PROVE  log'[i].message.does # "say" /\ log'[i].root = i
    BY <1>1, <2>2
  <2> QED
    BY <1>1, <2>1, <2>2
<1> QED
  BY <1>1, <1>3, <1>4 DEF OffersKnown

-----------------------------------------------------------------------------
(* The translator's calls. *)

\* Call k is now in state c, the others are where they were.
Goes(k, c) == call' = [call EXCEPT ![k] = c]
LangsLeft(c) == c.todo # <<>> => c.next <= Len(Languages)

\* What there is to translate of an event of the log is the event, or the answer to /help.
LEMMA ItemFields ==
  ASSUME TypeInv, NEW i \in DOMAIN log
  PROVE  /\ log[i] \in Event /\ i \in Ids /\ i # NoId
         /\ ItemOf(i) \in Item
         /\ \/ ItemOf(i) = [event |-> log[i], id |-> i, alone |-> FALSE]
            \/ IsHelp(log[i]) /\ ItemOf(i) = [event |-> HelpAnswer(log[i]), id |-> NoId, alone |-> TRUE]
         /\ ItemOf(i).event.root = log[i].root
         /\ ItemOf(i).alone <=> ItemOf(i).id = NoId
<1>1. log[i] \in Event /\ i \in Ids /\ i # NoId
  <2>1. log \in Seq(Event) /\ Len(log) <= MaxEvents /\ MaxEvents \in Nat
    BY BoundsAreNat DEF TypeInv, TypeOK
  <2>2. DOMAIN log = 1 .. Len(log) /\ Len(log) \in Nat
    BY <2>1, LenProperties
  <2> QED
    BY <2>1, <2>2, ElementOfSeq DEF Ids, NoId
<1>2. HelpAnswer(log[i]) \in Event /\ HelpAnswer(log[i]).root = log[i].root
  BY <1>1, HelpFields
<1>3. CASE IsHelp(log[i])
  <2>1. ItemOf(i) = [event |-> HelpAnswer(log[i]), id |-> NoId, alone |-> TRUE]
    BY <1>3 DEF ItemOf
  <2> QED
    BY <1>1, <1>2, <1>3, <2>1 DEF Item
<1>4. CASE ~IsHelp(log[i])
  <2>1. ItemOf(i) = [event |-> log[i], id |-> i, alone |-> FALSE]
    BY <1>4 DEF ItemOf
  <2> QED
    BY <1>1, <2>1 DEF Item
<1> QED
  BY <1>3, <1>4

\* HandleEvents begins with the items of its batch, each once, and the answers to /help.
LEMMA HandlesGoes ==
  ASSUME TypeInv, NEW k \in Calls, NEW o \in offers, TranslatorHandles(k, o)
  PROVE  \E c \in CallState :
           /\ Goes(k, c) /\ LangsLeft(c) /\ c.next = 1 /\ IsFiniteSet(c.out)
           /\ \A e \in c.out : \E i \in o.batch : i \in DOMAIN log /\ IsHelp(log[i]) /\ e = HelpAnswer(log[i])
           /\ \A j \in 1 .. Len(c.todo) : \E i \in o.batch : i \in DOMAIN log /\ c.todo[j] = ItemOf(i)
           /\ \A j, m \in 1 .. Len(c.todo) : c.todo[j].id = c.todo[m].id /\ c.todo[j].id # NoId => j = m
<1> DEFINE S == {i \in o.batch : Translatable(ItemOf(i).event)}
           b == InOrder(S)
           todo == [j \in DOMAIN b |-> ItemOf(b[j])]
           helps == {j \in o.batch : IsHelp(log[j])}
           outs == {HelpAnswer(log[i]) : i \in helps}
           c == [todo |-> todo, next |-> 1, out |-> outs, runs |-> TRUE]
<1>1. Goes(k, c)
  BY DEF TranslatorHandles, Goes
<1>2. DOMAIN log = 1 .. Len(log) /\ Len(log) \in Nat /\ o.batch \in SUBSET (1 .. Len(log))
  BY LenProperties DEF TypeInv, TypeOK, OffersKnown
<1>3. IsFiniteSet(o.batch) /\ o.batch \in SUBSET Nat
  <2>1. IsFiniteSet(1 .. Len(log)) /\ 1 .. Len(log) \subseteq Nat
    BY <1>2, FS_Interval
  <2> QED
    BY <1>2, <2>1, FS_Subset
<1>4. S \in SUBSET Nat /\ IsFiniteSet(S) /\ IsFiniteSet(helps)
  <2>1. S \in SUBSET o.batch /\ helps \in SUBSET o.batch
    OBVIOUS
  <2> HIDE DEF S, helps
  <2>2. IsFiniteSet(S) /\ IsFiniteSet(helps)
    BY <1>3, <2>1, FS_Subset
  <2> QED
    BY <1>3, <2>1, <2>2
<1>5. /\ b \in Seq(S) /\ Len(b) \in Nat /\ DOMAIN b = 1 .. Len(b)
      /\ \A i, j \in 1 .. Len(b) : b[i] = b[j] => i = j
  <2> HIDE DEF S
  <2> QED
    BY <1>4, InOrderLists, LenProperties
<1>6. ASSUME NEW j \in 1 .. Len(b)
      PROVE  /\ b[j] \in o.batch /\ b[j] \in DOMAIN log /\ todo[j] = ItemOf(b[j])
             /\ todo[j] \in Item /\ todo[j].id \in {b[j], NoId} /\ Languages # <<>>
  <2>1. b[j] \in S
    <3> HIDE DEF S, b
    <3> QED
      BY <1>5, ElementOfSeq
  <2>2. todo[j] = ItemOf(b[j])
    BY <1>5
  <2>3. b[j] \in o.batch /\ b[j] \in DOMAIN log /\ Languages # <<>>
    <3> HIDE DEF b
    <3> QED
      BY <1>2, <2>1 DEF Translatable
  <2> HIDE DEF b, todo
  <2> QED
    BY <2>2, <2>3, ItemFields
<1>7. todo \in Seq(Item) /\ Len(todo) = Len(b)
  <2>1. todo = [j \in 1 .. Len(b) |-> todo[j]] /\ \A j \in 1 .. Len(b) : todo[j] \in Item
    BY <1>5, <1>6
  <2> HIDE DEF todo, b
  <2>2. todo \in [1 .. Len(b) -> Item]
    BY <2>1
  <2> QED
    BY <1>5, <2>2, SeqDef, LenProperties
<1>8. outs \in SUBSET Event /\ IsFiniteSet(outs)
  <2>1. \A i \in helps : HelpAnswer(log[i]) \in Event
    BY <1>2, ItemFields, HelpFields
  <2> HIDE DEF helps
  <2>2. IsFiniteSet(outs)
    <3> DEFINE h == [i \in helps |-> HelpAnswer(log[i])]
    <3>1. h \in Surjection(helps, outs)
      BY DEF Surjection
    <3> HIDE DEF h, outs
    <3> QED
      BY <1>4, <3>1, FS_Surjection
  <2> QED
    BY <2>1, <2>2
<1>9. LangsLeft(c)
  <2>1. c.todo = todo /\ c.next = 1
    OBVIOUS
  <2> HIDE DEF c, b, todo
  <2> SUFFICES ASSUME todo # <<>> PROVE 1 <= Len(Languages)
    BY <2>1 DEF LangsLeft
  <2>2. Len(todo) # 0 /\ Len(todo) \in Nat
    BY <1>7, EmptySeq, LenProperties
  <2>3. 1 \in 1 .. Len(b)
    BY <1>7, <2>2
  <2>4. Languages # <<>> /\ Languages \in Seq(Langs)
    BY <1>6, <2>3, LanguagesDiffer
  <2> QED
    BY <2>4, EmptySeq, LenProperties
<1>10. ASSUME NEW j \in 1 .. Len(todo), NEW m \in 1 .. Len(todo), todo[j].id = todo[m].id, todo[j].id # NoId
       PROVE  j = m
  <2> HIDE DEF todo, b
  <2>1. todo[j].id = b[j] /\ todo[m].id = b[m]
    BY <1>6, <1>7, <1>10
  <2> QED
    BY <1>5, <1>7, <1>10, <2>1
<1>11. \A e \in outs : \E i \in o.batch : i \in DOMAIN log /\ IsHelp(log[i]) /\ e = HelpAnswer(log[i])
  BY <1>2
<1> HIDE DEF todo, outs, b
<1>12. c \in CallState /\ c.todo = todo /\ c.out = outs /\ c.next = 1
  BY <1>7, <1>8 DEF CallState
<1> HIDE DEF c
<1> QED
  BY <1>1, <1>6, <1>7, <1>8, <1>9, <1>10, <1>11, <1>12

\* Cron begins with its text, of which nobody has asked anything.
LEMMA CronGoes ==
  ASSUME NEW k \in Calls, TranslatorCron(k)
  PROVE  \E c \in CallState, e \in Event :
           /\ Goes(k, c) /\ LangsLeft(c) /\ c.next = 1 /\ c.out = {e}
           /\ e.name = "chat" /\ e.root = NoId /\ e.of = NoId
           /\ \A j \in 1 .. Len(c.todo) : c.todo[j] = [event |-> e, id |-> NoId, alone |-> FALSE]
<1> DEFINE e == Spontaneous(ActiveText, {"google-translate"})
           t == [event |-> e, id |-> NoId, alone |-> FALSE]
           todo == IF Translatable(e) THEN <<t>> ELSE <<>>
           c == [todo |-> todo, next |-> 1, out |-> {e}, runs |-> TRUE]
<1>1. Goes(k, c)
  BY DEF TranslatorCron, Goes
<1>2. e \in Event /\ e.name = "chat" /\ e.root = NoId /\ e.of = NoId
  BY TextsTyped, SpontaneousFields DEF Plugins
<1>3. Translatable(e) => Len(Languages) \in Nat \ {0}
  BY LanguagesDiffer, EmptySeq, LenProperties DEF Translatable
<1> HIDE DEF e
<1>4. t \in Item
  BY <1>2 DEF Item
<1>5. /\ todo \in Seq(Item) /\ (todo # <<>> => Translatable(e))
      /\ \A j \in 1 .. Len(todo) : todo[j] = t
  <2> HIDE DEF t
  <2> QED
    BY <1>4
<1> HIDE DEF todo
<1>6. c \in CallState /\ c.todo = todo /\ c.out = {e} /\ c.next = 1
  BY <1>2, <1>5 DEF CallState
<1> HIDE DEF c
<1>7. LangsLeft(c)
  BY <1>3, <1>5, <1>6 DEF LangsLeft
<1> QED
  BY <1>1, <1>2, <1>5, <1>6, <1>7

\* Where a busy call is: its first item, and one of the languages.
LEMMA AtFields ==
  ASSUME TypeInv, NEW k \in Calls, Busy(k)
  PROVE  /\ call[k] \in CallState /\ call[k].todo \in Seq(Item) /\ call[k].todo # <<>>
         /\ Len(call[k].todo) \in Nat \ {0}
         /\ ItemAt(k) = call[k].todo[1] /\ ItemAt(k) \in Item /\ TextAt(k) \in Texts
         /\ TextAt(k) = ItemAt(k).event.message.text
         /\ call[k].next \in 1 .. Len(Languages) /\ Len(Languages) \in Nat
         /\ LangAt(k) = Languages[call[k].next] /\ LangAt(k) \in Langs
<1>1. call[k] \in CallState /\ LangsLeft(call[k]) /\ call[k].todo # <<>>
  BY DEF TypeInv, TypeOK, Busy, LangsLeft
<1>2. call[k].todo \in Seq(Item) /\ call[k].next \in Nat \ {0}
  BY <1>1 DEF CallState
<1>3. ItemAt(k) = call[k].todo[1] /\ ItemAt(k) \in Item /\ Len(call[k].todo) \in Nat \ {0}
  BY <1>1, <1>2, TailIs DEF ItemAt
<1>4. TextAt(k) \in Texts
  BY <1>3 DEF TextAt, Item, Event, Message
<1>5. Languages \in Seq(Langs) /\ Len(Languages) \in Nat
  BY LanguagesDiffer, LenProperties
<1>6. call[k].next \in 1 .. Len(Languages)
  BY <1>1, <1>2, <1>5 DEF LangsLeft
<1>7. Languages[call[k].next] \in Langs
  BY <1>5, <1>6, ElementOfSeq
<1> QED
  BY <1>1, <1>2, <1>3, <1>4, <1>5, <1>6, <1>7 DEF TextAt, LangAt

\* A call goes on with other items, from the first language.
LEMMA NextItem ==
  ASSUME NEW b \in CallState, NEW rest \in Seq(Item)
  PROVE  LET c == [b EXCEPT !.todo = rest, !.next = 1] IN
         c \in CallState /\ c.todo = rest /\ c.next = 1 /\ c.out = b.out
<1>0. ASSUME NEW T, NEW N, NEW O, NEW r \in [todo : T, next : N, out : O, runs : BOOLEAN], NEW t \in T, NEW n \in N
      PROVE  LET d == [r EXCEPT !.todo = t, !.next = n] IN
             /\ d \in [todo : T, next : N, out : O, runs : BOOLEAN]
             /\ d.todo = t /\ d.next = n /\ d.out = r.out
  OBVIOUS
<1>1. 1 \in Nat \ {0}
  OBVIOUS
<1> QED
  BY <1>0, <1>1 DEF CallState

\* With one language done, the next one or the next item is up.
LEMMA DoneGoes ==
  ASSUME TypeInv, NEW k \in Calls, Busy(k), NEW new \in SUBSET Event, Done(k, new)
  PROVE  \E c \in CallState :
           /\ Goes(k, c) /\ LangsLeft(c) /\ c.out = call[k].out \cup new
           /\ \/ c.todo = Tail(call[k].todo) /\ c.next = 1 /\ call[k].next = Len(Languages)
              \/ c.todo = call[k].todo /\ c.next = call[k].next + 1 /\ call[k].next < Len(Languages)
<1>0. /\ call[k] \in CallState /\ call[k].todo \in Seq(Item) /\ call[k].todo # <<>>
      /\ call[k].next \in 1 .. Len(Languages) /\ Len(Languages) \in Nat
  BY AtFields
<1> DEFINE b == [call[k] EXCEPT !.out = @ \cup new]
           c == IF b.next = Len(Languages) THEN [b EXCEPT !.todo = Tail(@), !.next = 1]
                                           ELSE [b EXCEPT !.next = @ + 1]
<1>1. Goes(k, c)
  BY DEF Done, Goes
<1>2. /\ b \in CallState /\ b.todo = call[k].todo /\ b.next = call[k].next
      /\ b.out = call[k].out \cup new
  BY <1>0 DEF CallState
<1> DEFINE rest == Tail(call[k].todo)
<1>3. rest \in Seq(Item) /\ Tail(call[k].todo) = rest
  BY <1>0, TailIs
<1> HIDE DEF b
<1>4. CASE b.next = Len(Languages)
  <2>1. c = [b EXCEPT !.todo = rest, !.next = 1]
    BY <1>2, <1>4
  <2> HIDE DEF c, rest
  <2>2. c \in CallState /\ c.todo = rest /\ c.next = 1 /\ c.out = call[k].out \cup new
    BY <1>2, <1>3, <2>1, NextItem
  <2>3. LangsLeft(c)
    BY <1>0, <2>2 DEF LangsLeft
  <2> QED
    BY <1>1, <1>2, <1>3, <1>4, <2>2, <2>3
<1>5. CASE b.next # Len(Languages)
  <2>1. c = [b EXCEPT !.next = @ + 1]
    BY <1>5
  <2> HIDE DEF c
  <2>2. c \in CallState /\ c.todo = call[k].todo /\ c.next = call[k].next + 1 /\ c.out = call[k].out \cup new
    BY <1>0, <1>2, <2>1 DEF CallState
  <2>3. call[k].next < Len(Languages)
    BY <1>0, <1>2, <1>5
  <2>4. LangsLeft(c)
    BY <1>0, <2>2, <2>3 DEF LangsLeft
  <2> QED
    BY <1>1, <2>2, <2>3, <2>4
<1> QED
  BY <1>4, <1>5

\* A call that is over, or has not begun, holds nothing.
LEMMA NoCallIs == NoCall \in CallState /\ LangsLeft(NoCall) /\ NoCall.todo = <<>> /\ NoCall.out = {} /\ Len(NoCall.todo) = 0
<1>1. NoCall.todo = <<>> /\ NoCall.out = {} /\ NoCall.next = 1
  BY DEF NoCall
<1>2. NoCall \in CallState
  BY DEF NoCall, CallState
<1> QED
  BY <1>1, <1>2, EmptySeq DEF LangsLeft

\* After a failure the call is over, or goes on after the answer to /help.
LEMMA FailedGoes ==
  ASSUME TypeInv, NEW k \in Calls, Failed(k)
  PROVE  \/ Goes(k, NoCall)
         \/ \E c \in CallState :
              /\ Goes(k, c) /\ LangsLeft(c) /\ c.out = call[k].out /\ ItemAt(k).alone
              /\ c.todo = Tail(call[k].todo) /\ c.next = 1
<1>0. /\ call[k] \in CallState /\ call[k].todo \in Seq(Item) /\ call[k].todo # <<>>
      /\ call[k].next \in 1 .. Len(Languages) /\ Len(Languages) \in Nat
  BY AtFields DEF Failed, Asks
<1>1. Goes(k, AfterFailure(k))
  BY DEF Failed, Goes
<1> DEFINE rest == Tail(call[k].todo)
<1>2. rest \in Seq(Item) /\ Tail(call[k].todo) = rest
  BY <1>0, TailIs
<1>3. CASE ItemAt(k).alone
  <2> DEFINE c == [call[k] EXCEPT !.todo = Tail(@), !.next = 1]
  <2>1. Goes(k, c)
    BY <1>1, <1>3 DEF AfterFailure
  <2>2. c = [call[k] EXCEPT !.todo = rest, !.next = 1]
    OBVIOUS
  <2> HIDE DEF c, rest
  <2>4. c \in CallState /\ c.todo = rest /\ c.next = 1 /\ c.out = call[k].out
    BY <1>0, <1>2, <2>2, NextItem
  <2>3. LangsLeft(c)
    BY <1>0, <2>4 DEF LangsLeft
  <2> QED
    BY <1>2, <1>3, <2>1, <2>3, <2>4
<1>4. CASE ~ItemAt(k).alone
  BY <1>1, <1>4 DEF AfterFailure
<1> QED
  BY <1>3, <1>4

\* What an answered question adds: a translation of the item into the language, or nothing.
LEMMA AnswerGoes ==
  ASSUME TypeInv, NEW k \in Calls, Cached(k) \/ Untranslated(k) \/ Translated(k)
  PROVE  /\ Busy(k) /\ UNCHANGED <<log, offers>>
         /\ \E new \in SUBSET Event :
              /\ Done(k, new) /\ IsFiniteSet(new)
              /\ \/ new = {} /\ SpokenIn[TextAt(k)] = LangAt(k)
                 \/ \E x \in cache : /\ x.text = TextAt(k) /\ x.lang = LangAt(k)
                                     /\ new = {Translation(ItemAt(k), LangAt(k), x.is)}
                 \/ /\ SpokenIn[TextAt(k)] # LangAt(k)
                    /\ new = {Translation(ItemAt(k), LangAt(k), LangAt(k))}
<1>0. Busy(k) /\ UNCHANGED <<log, offers>>
  BY DEF Cached, Untranslated, Translated, Asks
<1>1. ItemAt(k) \in Item /\ LangAt(k) \in Langs
  BY <1>0, AtFields
<1>2. \A x \in cache : x.is \in Langs
  BY DEF TypeInv, TypeOK
<1>3. \A is \in Langs : /\ {Translation(ItemAt(k), LangAt(k), is)} \in SUBSET Event
                        /\ IsFiniteSet({Translation(ItemAt(k), LangAt(k), is)})
  <2> SUFFICES ASSUME NEW is \in Langs
               PROVE  /\ {Translation(ItemAt(k), LangAt(k), is)} \in SUBSET Event
                      /\ IsFiniteSet({Translation(ItemAt(k), LangAt(k), is)})
    OBVIOUS
  <2>1. Translation(ItemAt(k), LangAt(k), is) \in Event
    BY <1>1, TranslationFields
  <2> QED
    BY <2>1, FS_Singleton
<1>4. CASE Cached(k)
  <2>1. PICK x \in Hits(k) : Done(k, {Translation(ItemAt(k), LangAt(k), x.is)})
    BY <1>4 DEF Cached
  <2>2. x \in cache /\ x.text = TextAt(k) /\ x.lang = LangAt(k)
    BY <2>1 DEF Hits
  <2> QED
    BY <1>0, <1>2, <1>3, <2>1, <2>2
<1>5. CASE Untranslated(k)
  BY <1>0, <1>5, FS_EmptySet DEF Untranslated
<1>6. CASE Translated(k)
  BY <1>0, <1>1, <1>3, <1>6 DEF Translated
<1> QED
  BY <1>4, <1>5, <1>6

\* The cache remembers what was translated, and gives up an entry when it is full.
LEMMA CacheStep ==
  ASSUME TypeInv, NEW k \in Calls, Translated(k)
  PROVE  /\ cache' \subseteq [text : Texts, lang : Langs, is : Langs] /\ IsFiniteSet(cache')
         /\ Cardinality(cache') <= CacheSize
         /\ \A x \in cache' : \/ x \in cache
                              \/ x.is = x.lang /\ x.lang = LangAt(k) /\ x.text = TextAt(k)
<1> DEFINE z == [text |-> TextAt(k), lang |-> LangAt(k), is |-> LangAt(k)]
<1>0. Busy(k) /\ TextAt(k) \in Texts /\ LangAt(k) \in Langs
  BY AtFields DEF Translated, Asks
<1>1. PICK y \in PushedOut : cache' = (cache \ y) \cup {z}
  BY DEF Translated
<1>2. /\ cache \subseteq [text : Texts, lang : Langs, is : Langs] /\ IsFiniteSet(cache)
      /\ Cardinality(cache) <= CacheSize /\ CacheSize \in Nat
  BY BoundsAreNat DEF TypeInv, TypeOK, Finite
<1>3. Cardinality(cache) \in Nat
  BY <1>2, FS_CardinalityType
<1>4. /\ z \in [text : Texts, lang : Langs, is : Langs]
      /\ z.is = z.lang /\ z.lang = LangAt(k) /\ z.text = TextAt(k)
  BY <1>0
<1> HIDE DEF z
<1>5. IsFiniteSet(cache \ y) /\ Cardinality(cache \ y) \in Nat /\ Cardinality(cache \ y) + 1 <= CacheSize
  <2>1. CASE Cardinality(cache) < CacheSize
    <3>1. y = {}
      BY <2>1 DEF PushedOut
    <3>2. cache \ y = cache
      BY <3>1
    <3> QED
      BY <1>2, <1>3, <2>1, <3>2
  <2>2. CASE ~(Cardinality(cache) < CacheSize)
    <3>1. PICK x \in cache : y = {x}
      BY <2>2 DEF PushedOut
    <3>2. IsFiniteSet(cache \ {x}) /\ Cardinality(cache \ {x}) = Cardinality(cache) - 1
      BY <1>2, FS_RemoveElement
    <3>3. Cardinality(cache \ {x}) \in Nat
      BY <3>2, FS_CardinalityType
    <3> QED
      BY <1>2, <1>3, <3>1, <3>2, <3>3
  <2> QED
    BY <2>1, <2>2
<1>6. IsFiniteSet(cache') /\ Cardinality(cache') <= CacheSize
  <2>1. IsFiniteSet((cache \ y) \cup {z}) /\ Cardinality((cache \ y) \cup {z}) <= Cardinality(cache \ y) + 1
    BY SMTT(30), <1>5, FS_AddElement
  <2>2. Cardinality((cache \ y) \cup {z}) \in Nat
    BY <2>1, FS_CardinalityType
  <2> QED
    BY <1>1, <1>2, <1>5, <2>1, <2>2
<1> QED
  BY <1>1, <1>2, <1>4, <1>6

\* A call that has gone through its items publishes what it has, each event once.
LEMMA AnsweredPublishes ==
  ASSUME TypeInv, NEW k \in Calls, Answered(k)
  PROVE  /\ Goes(k, NoCall) /\ UNCHANGED <<cache, hasCache, up>> /\ call[k].todo = <<>>
         /\ \/ call[k].out = {} /\ UNCHANGED <<log, offers>>
            \/ \E s \in Seq(Event) :
                 /\ Publish(s, offers)
                 /\ \A j \in 1 .. Len(s) : s[j] \in call[k].out
                 /\ \A i, j \in 1 .. Len(s) : s[i] = s[j] => i = j
                 /\ \A e \in call[k].out : \E j \in 1 .. Len(s) : s[j] = e
<1>1. call[k].out \in SUBSET Event /\ IsFiniteSet(call[k].out)
  BY DEF TypeInv, TypeOK, CallState, Finite
<1> DEFINE s == SetToSeq(call[k].out)
<1>2. /\ s \in Seq(call[k].out)
      /\ \A i, j \in 1 .. Len(s) : s[i] = s[j] => i = j
      /\ \A e \in call[k].out : \E j \in 1 .. Len(s) : s[j] = e
  BY <1>1, SetAsSeq
<1>3. /\ Goes(k, NoCall) /\ UNCHANGED <<cache, hasCache, up>> /\ call[k].todo = <<>>
      /\ \/ call[k].out = {} /\ UNCHANGED <<log, offers>>
         \/ Publish(s, offers)
  BY DEF Answered, Goes
<1> HIDE DEF s
<1>4. s \in Seq(Event) /\ \A j \in 1 .. Len(s) : s[j] \in call[k].out
  BY <1>1, <1>2, SeqDef, LenProperties, ElementOfSeq
<1> QED
  BY <1>2, <1>3, <1>4

-----------------------------------------------------------------------------
(* The kinds of steps. *)

\* A step publishes plain events ...
Talks ==
  /\ UNCHANGED <<call, cache, hasCache, up>>
  /\ \E s \in Seq(Event), others \in SUBSET offers :
       /\ Plain(s) /\ Publish(s, others)
       /\ \A j \in 1 .. Len(s) :
            \/ s[j].root = NoId /\ s[j].name = "chat"
            \/ \E i \in DOMAIN log : log[i].name = "command" /\ s[j].name = "chat" /\ s[j] = Command(log[i])
            \/ /\ s[j].name = IF s[j].message.does = "say" THEN "chat" ELSE "command"
               /\ s[j].to \subseteq Privy(s[j]) /\ s[j].root = Len(log) + j

\* ... or it publishes nothing and leaves the calls alone ...
Silent == UNCHANGED <<log, call, cache, hasCache, up>> /\ offers' \subseteq offers

\* ... or it is one of a call of the translator.
Translates(k) == \/ \E o \in offers : TranslatorHandles(k, o)
                 \/ TranslatorCron(k) \/ Cached(k) \/ Untranslated(k) \/ Translated(k)
                 \/ Failed(k) \/ Panic(k) \/ Answered(k)

\* ReadLoop's step is of the first kind.
LEMMA SayTalks ==
  ASSUME TypeInv, NEW u \in Senders, NEW m \in Messages, NEW asked \in Filters, Say(u, m, asked)
  PROVE  Talks
<1> DEFINE e == Said(u, m, asked)
<1>1. log \in Seq(Event)
  BY DEF TypeInv, TypeOK
<1>2. /\ UNCHANGED <<call, cache, hasCache, up>> /\ Publish(<<e>>, offers)
      /\ e \in Event /\ e.of = NoId /\ e.root = Len(log) + 1 /\ e.to \subseteq Privy(e)
      /\ e.name = IF e.message.does = "say" THEN "chat" ELSE "command"
  BY <1>1, SayPublishes
<1> HIDE DEF e
<1> DEFINE s == <<e>>
<1>3. s \in Seq(Event) /\ Len(s) = 1 /\ s[1] = e
  BY <1>2
<1>4. Publish(s, offers)
  BY <1>2
<1> HIDE DEF s
<1>5. \A j \in 1 .. Len(s) : j = 1 /\ s[j] = e
  BY <1>3
<1>6. Plain(s)
  BY <1>2, <1>3, <1>5 DEF Plain
<1>7. ASSUME NEW j \in 1 .. Len(s)
      PROVE  /\ s[j].name = IF s[j].message.does = "say" THEN "chat" ELSE "command"
             /\ s[j].to \subseteq Privy(s[j]) /\ s[j].root = Len(log) + j
  BY <1>2, <1>5
<1> QED
  BY <1>2, <1>3, <1>4, <1>6, <1>7 DEF Talks

\* Every step is of one of the three kinds.
LEMMA StepKinds ==
  ASSUME TypeInv, [Next]_vars
  PROVE  Talks \/ Silent \/ \E k \in Calls : Translates(k)
<1>1. CASE Emit
  <2>1. UNCHANGED <<call, cache, hasCache, up>>
    BY <1>1 DEF Emit
  <2>2. PICK s : Plain(s) /\ (\A j \in 1 .. Len(s) : s[j].root = NoId /\ s[j].name = "chat") /\ Publish(s, offers)
    BY <1>1, EmitPublishes
  <2> QED
    BY <2>1, <2>2 DEF Talks, Plain
<1>2. CASE BaseCron
  <2>1. UNCHANGED <<call, cache, hasCache, up>>
    BY <1>2 DEF BaseCron
  <2>2. PICK s : Plain(s) /\ (\A j \in 1 .. Len(s) : s[j].root = NoId /\ s[j].name = "chat") /\ Publish(s, offers)
    BY <1>2, CronPublishes
  <2> QED
    BY <2>1, <2>2 DEF Talks, Plain
<1>3. ASSUME NEW u \in Senders, NEW m \in Messages, NEW f \in Filters, Say(u, m, f) PROVE Talks
  BY <1>3, SayTalks
<1>4. ASSUME NEW o \in offers, BaseHandles(o) PROVE Talks \/ Silent
  <2>1. UNCHANGED <<call, cache, hasCache, up>>
    BY <1>4 DEF BaseHandles
  <2>2. CASE offers' = offers \ {o} /\ UNCHANGED log
    BY <2>1, <2>2 DEF Silent
  <2>3. ASSUME NEW s, Plain(s), Publish(s, offers \ {o}),
               \A j \in 1 .. Len(s) : /\ s[j].name = "chat"
                                      /\ \E i \in DOMAIN log : log[i].name = "command" /\ s[j] = Command(log[i])
        PROVE  Talks
    BY <2>1, <2>3 DEF Talks, Plain
  <2> QED
    BY <1>4, <2>2, <2>3, BasePublishes
<1>5. ASSUME NEW o \in offers, TranslatorIsDead(o) PROVE Silent
  BY <1>5 DEF TranslatorIsDead, Silent
<1>6. CASE UNCHANGED vars
  BY <1>6 DEF vars, Silent
<1> QED
  BY <1>1, <1>2, <1>3, <1>4, <1>5, <1>6 DEF Next, Translates

-----------------------------------------------------------------------------
(* Types. *)

\* At the start there is nothing.
LEMMA TypeInit == Init => TypeInv
<1> SUFFICES ASSUME Init PROVE TypeInv
  OBVIOUS
<1>1. log = <<>> /\ offers = {} /\ cache = {} /\ up = TRUE /\ hasCache \in BOOLEAN
  BY DEF Init
<1>2. \A k \in Calls : call[k] = NoCall
  BY DEF Init
<1>3. call \in [Calls -> CallState] /\ \A k \in Calls : LangsLeft(call[k])
  BY NoCallIs DEF Init
<1>4. /\ <<>> \in Seq(Event) /\ Len(<<>>) = 0 /\ DOMAIN <<>> = {}
      /\ MaxEvents \in Nat /\ CacheSize \in Nat
  BY BoundsAreNat
<1>5. TypeOK
  BY <1>1, <1>3, <1>4, FS_EmptySet DEF TypeOK, LangsLeft
<1>6. Finite /\ AnswersSpeak
  BY <1>1, <1>2, NoCallIs, FS_EmptySet DEF Finite, AnswersSpeak
<1>7. OffersKnown /\ CommandsBegin
  BY <1>1, <1>4 DEF OffersKnown, CommandsBegin
<1> QED
  BY <1>5, <1>6, <1>7 DEF TypeInv

\* The call that goes on is typed, and its answers are no commands.
CallTyped(c) == c \in CallState /\ LangsLeft(c) /\ IsFiniteSet(c.out) /\ \A e \in c.out : e.name # "command"

\* So the calls are typed.
LEMMA CallsTyped ==
  ASSUME TypeInv, NEW k \in Calls, NEW c, Goes(k, c), CallTyped(c)
  PROVE  /\ call' \in [Calls -> CallState] /\ AnswersSpeak'
         /\ \A m \in Calls : LangsLeft(call'[m]) /\ IsFiniteSet(call'[m].out)
<1>1. call \in [Calls -> CallState] /\ \A m \in Calls : CallTyped(call[m])
  BY DEF TypeInv, TypeOK, Finite, AnswersSpeak, CallTyped, LangsLeft
<1>2. call' \in [Calls -> CallState] /\ \A m \in Calls : call'[m] = IF m = k THEN c ELSE call[m]
  BY <1>1 DEF Goes, CallTyped
<1>3. \A m \in Calls : CallTyped(call'[m])
  BY <1>1, <1>2
<1> QED
  BY <1>2, <1>3 DEF CallTyped, AnswersSpeak

\* The translator's step leads a call, or all of them, to a typed state.
LEMMA TranslatesTyped ==
  ASSUME TypeInv, NEW k \in Calls, Translates(k)
  PROVE  /\ hasCache' \in BOOLEAN /\ up' \in BOOLEAN
         /\ \/ \E c : Goes(k, c) /\ CallTyped(c)
            \/ \A m \in Calls : call'[m] = NoCall /\ call' = [n \in Calls |-> NoCall]
<1>0. /\ hasCache \in BOOLEAN /\ up \in BOOLEAN /\ call[k] \in CallState /\ LangsLeft(call[k])
      /\ CallTyped(call[k])
  BY DEF TypeInv, TypeOK, LangsLeft, CallTyped, Finite, AnswersSpeak
<1>n. CallTyped(NoCall)
  BY NoCallIs, FS_EmptySet DEF CallTyped
<1>1. ASSUME NEW o \in offers, TranslatorHandles(k, o) PROVE \E c : Goes(k, c) /\ CallTyped(c)
  <2>1. PICK c \in CallState :
           /\ Goes(k, c) /\ LangsLeft(c) /\ IsFiniteSet(c.out)
           /\ \A e \in c.out : \E i \in o.batch : i \in DOMAIN log /\ IsHelp(log[i]) /\ e = HelpAnswer(log[i])
    BY <1>1, HandlesGoes
  <2>2. \A i \in DOMAIN log : HelpAnswer(log[i]).name = "chat"
    BY ItemFields, HelpFields
  <2> QED
    BY <2>1, <2>2 DEF CallTyped
<1>2. ASSUME TranslatorCron(k) PROVE \E c : Goes(k, c) /\ CallTyped(c)
  <2>1. PICK c \in CallState, e \in Event :
          Goes(k, c) /\ LangsLeft(c) /\ c.out = {e} /\ e.name = "chat"
    BY <1>2, CronGoes
  <2>2. IsFiniteSet({e})
    BY FS_Singleton
  <2> QED
    BY <2>1, <2>2 DEF CallTyped
<1>3. ASSUME Cached(k) \/ Untranslated(k) \/ Translated(k) PROVE \E c : Goes(k, c) /\ CallTyped(c)
  <2>1. PICK new \in SUBSET Event :
              /\ Done(k, new) /\ IsFiniteSet(new)
              /\ \/ new = {} /\ SpokenIn[TextAt(k)] = LangAt(k)
                 \/ \E x \in cache : /\ x.text = TextAt(k) /\ x.lang = LangAt(k)
                                     /\ new = {Translation(ItemAt(k), LangAt(k), x.is)}
                 \/ /\ SpokenIn[TextAt(k)] # LangAt(k)
                    /\ new = {Translation(ItemAt(k), LangAt(k), LangAt(k))}
    BY <1>3, AnswerGoes
  <2>2. Busy(k) /\ ItemAt(k) \in Item /\ LangAt(k) \in Langs
    BY <1>3, AnswerGoes, AtFields
  <2>3. \A x \in cache : x.is \in Langs
    BY DEF TypeInv, TypeOK
  <2>4. \A e \in new : e.name = "translation"
    BY <2>1, <2>2, <2>3, TranslationFields
  <2>5. PICK c \in CallState : Goes(k, c) /\ LangsLeft(c) /\ c.out = call[k].out \cup new
    BY <2>1, <2>2, DoneGoes
  <2>6. IsFiniteSet(c.out) /\ \A e \in c.out : e.name # "command"
    <3>1. IsFiniteSet(call[k].out) /\ \A e \in call[k].out : e.name # "command"
      BY <1>0 DEF CallTyped
    <3>2. IsFiniteSet(call[k].out \cup new)
      BY <2>1, <3>1, FS_Union
    <3> QED
      BY <2>4, <2>5, <3>1, <3>2
  <2> QED
    BY <2>5, <2>6 DEF CallTyped
<1>4. ASSUME Failed(k) PROVE \E c : Goes(k, c) /\ CallTyped(c)
  BY <1>0, <1>n, <1>4, FailedGoes DEF CallTyped
<1>5. ASSUME Answered(k) PROVE \E c : Goes(k, c) /\ CallTyped(c)
  BY <1>n, <1>5, AnsweredPublishes
<1>6. ASSUME Panic(k) PROVE \A m \in Calls : call'[m] = NoCall /\ call' = [n \in Calls |-> NoCall]
  BY <1>6 DEF Panic
<1>7. hasCache' \in BOOLEAN /\ up' \in BOOLEAN
  BY <1>0 DEF Translates, TranslatorHandles, TranslatorCron, Cached, Untranslated, Translated, Failed, Panic, Answered
<1> QED
  BY <1>1, <1>2, <1>3, <1>4, <1>5, <1>6, <1>7 DEF Translates

\* Every step keeps the types.
LEMMA TypeNext == TypeInv /\ [Next]_vars => TypeInv'
<1> SUFFICES ASSUME TypeInv, [Next]_vars PROVE TypeInv'
  OBVIOUS
<1>0. /\ log \in Seq(Event) /\ Len(log) <= MaxEvents
      /\ offers \subseteq [plugin : Plugins, batch : SUBSET Ids]
      /\ call \in [Calls -> CallState] /\ \A k \in Calls : LangsLeft(call[k])
      /\ cache \subseteq [text : Texts, lang : Langs, is : Langs] /\ Cardinality(cache) <= CacheSize
      /\ hasCache \in BOOLEAN /\ up \in BOOLEAN /\ OffersKnown /\ Finite /\ CommandsBegin /\ AnswersSpeak
  BY DEF TypeInv, TypeOK, LangsLeft
<1>1. CASE Talks
  <2>1. PICK s \in Seq(Event), others \in SUBSET offers :
          /\ Publish(s, others)
          /\ \A j \in 1 .. Len(s) : s[j].name = "command" => s[j].message.does # "say" /\ s[j].root = Len(log) + j
    BY <1>1 DEF Talks
  <2>2. /\ log' \in Seq(Event) /\ Len(log') <= MaxEvents
        /\ offers' \subseteq [plugin : Plugins, batch : SUBSET Ids]
        /\ OffersKnown' /\ CommandsBegin'
    BY <2>1, PublishKeeps
  <2>3. UNCHANGED <<call, cache, hasCache, up>>
    BY <1>1 DEF Talks
  <2> QED
    BY <1>0, <2>2, <2>3 DEF TypeInv, TypeOK, LangsLeft, Finite, AnswersSpeak
<1>2. CASE Silent
  BY <1>0, <1>2 DEF Silent, TypeInv, TypeOK, LangsLeft, Finite, AnswersSpeak, OffersKnown, CommandsBegin
<1>3. ASSUME NEW k \in Calls, Translates(k) PROVE TypeInv'
  <2>1. /\ call' \in [Calls -> CallState] /\ AnswersSpeak'
        /\ \A m \in Calls : LangsLeft(call'[m]) /\ IsFiniteSet(call'[m].out)
    <3>1. ASSUME \A m \in Calls : call'[m] = NoCall /\ call' = [n \in Calls |-> NoCall]
          PROVE  /\ call' \in [Calls -> CallState] /\ AnswersSpeak'
                 /\ \A m \in Calls : LangsLeft(call'[m]) /\ IsFiniteSet(call'[m].out)
      <4>1. call' \in [Calls -> CallState]
        BY <1>0, <3>1, NoCallIs
      <4> QED
        BY <3>1, <4>1, NoCallIs, FS_EmptySet DEF AnswersSpeak
    <3> QED
      BY <1>3, <3>1, TranslatesTyped, CallsTyped
  <2>2. /\ cache' \subseteq [text : Texts, lang : Langs, is : Langs] /\ Cardinality(cache') <= CacheSize
        /\ IsFiniteSet(cache')
    <3>1. CASE Translated(k)
      BY <3>1, CacheStep
    <3>2. CASE Panic(k)
      <4>1. cache' = {} /\ CacheSize \in Nat
        BY <3>2, BoundsAreNat DEF Panic
      <4> QED
        BY <4>1, FS_EmptySet
    <3>3. CASE ~Translated(k) /\ ~Panic(k)
      <4>1. UNCHANGED cache
        BY <1>3, <3>3 DEF Translates, TranslatorHandles, TranslatorCron, Cached, Untranslated, Failed, Answered
      <4> QED
        BY <1>0, <4>1 DEF Finite
    <3> QED
      BY <3>1, <3>2, <3>3
  <2>3. /\ log' \in Seq(Event) /\ Len(log') <= MaxEvents
        /\ offers' \subseteq [plugin : Plugins, batch : SUBSET Ids]
        /\ OffersKnown' /\ CommandsBegin'
    <3>1. CASE UNCHANGED log /\ offers' \subseteq offers
      BY <1>0, <3>1 DEF OffersKnown, CommandsBegin
    <3>2. ASSUME NEW s \in Seq(Event), Publish(s, offers), \A j \in 1 .. Len(s) : s[j] \in call[k].out
          PROVE  /\ log' \in Seq(Event) /\ Len(log') <= MaxEvents
                 /\ offers' \subseteq [plugin : Plugins, batch : SUBSET Ids]
                 /\ OffersKnown' /\ CommandsBegin'
      BY <1>0, <3>2, PublishKeeps DEF AnswersSpeak
    <3>3. CASE Answered(k)
      BY <3>1, <3>2, <3>3, AnsweredPublishes
    <3>4. CASE ~Answered(k)
      <4>1. UNCHANGED log /\ offers' \subseteq offers
        BY <1>3, <3>4 DEF Translates, TranslatorHandles, TranslatorCron, Cached, Untranslated, Translated, Failed, Panic
      <4> QED
        BY <3>1, <4>1
    <3> QED
      BY <3>3, <3>4
  <2>4. hasCache' \in BOOLEAN /\ up' \in BOOLEAN
    BY <1>3, TranslatesTyped
  <2> QED
    BY <2>1, <2>2, <2>3, <2>4 DEF TypeInv, TypeOK, LangsLeft, Finite
<1> QED
  BY <1>1, <1>2, <1>3, StepKinds

\* Offers, calls and the cache stay within their types, and the cache within its size, whatever
\* the clients send, the plugins answer, and the service does.
THEOREM ShippedTyped == Spec => []TypeOK
<1>1. TypeInv => TypeOK
  BY DEF TypeInv
<1> QED
  BY <1>1, TypeInit, TypeNext, PTL DEF Spec

-----------------------------------------------------------------------------
(* Whom a conversation reaches. *)

\* An event that belongs to a conversation reaches whom its first message was for, in the log
\* and wherever a call has it.
Traced(l, e) == e.root # NoId => e.root \in DOMAIN l /\ e.to \subseteq Privy(l[e.root])
LogTraced    == \A i \in DOMAIN log : Traced(log, log[i])
CallTraced(c) == /\ \A e \in c.out : Traced(log, e)
                 /\ \A j \in 1 .. Len(c.todo) : Traced(log, c.todo[j].event)
CallsTraced  == \A k \in Calls : CallTraced(call[k])
TracedInv    == TypeInv /\ LogTraced /\ CallsTraced

\* The log only grows.
Grown(l, m) == \A i \in DOMAIN l : i \in DOMAIN m /\ m[i] = l[i]

\* Then what belongs to a conversation goes on to do so.
LEMMA TracedStays ==
  ASSUME NEW l, NEW m, Grown(l, m), NEW e, Traced(l, e)
  PROVE  Traced(m, e)
BY DEF Grown, Traced

\* What base-commands answers to a command is for whom the command was.
LEMMA CommandTraced ==
  ASSUME TypeInv, NEW i \in DOMAIN log, log[i].name = "command"
  PROVE  Traced(log, Command(log[i]))
<1> DEFINE m == log[i]
<1>1. m \in Event /\ m.message.does # "say" /\ m.root = i
  BY ItemFields DEF TypeInv, CommandsBegin
<1>2. m.message.does \in {"/to", "/fg", "/help"}
  BY <1>1 DEF Event, Message
<1> HIDE DEF m
<1>3. /\ Command(m).root = i
      /\ Command(m).to = CASE m.message.does = "/to"   -> ToFilter(m)
                           [] m.message.does = "/fg"   -> Everybody
                           [] m.message.does = "/help" -> Own(m.by)
  BY <1>1, CommandFields
<1>4. Command(m).to \subseteq Privy(m)
  <2>1. CASE m.message.does = "/to"
    BY <1>3, <2>1 DEF Privy, ToFilter
  <2>2. CASE m.message.does = "/fg"
    BY <1>3, <2>2 DEF Privy
  <2>3. CASE m.message.does = "/help"
    BY <1>3, <2>3 DEF Privy
  <2> QED
    BY <1>2, <2>1, <2>2, <2>3
<1> QED
  BY <1>3, <1>4 DEF Traced, m

\* The answer to /help is for who asked, as was the command.
LEMMA HelpTraced ==
  ASSUME TypeInv, NEW i \in DOMAIN log, IsHelp(log[i])
  PROVE  Traced(log, HelpAnswer(log[i]))
<1>1. log[i] \in Event /\ log[i].name = "command" /\ log[i].message.does = "/help" /\ log[i].root = i
  BY ItemFields DEF TypeInv, CommandsBegin, IsHelp
<1>2. HelpAnswer(log[i]).root = i /\ HelpAnswer(log[i]).to = Own(log[i].by)
  BY <1>1, HelpFields
<1>3. Privy(log[i]) = Own(log[i].by)
  BY <1>1 DEF Privy
<1> QED
  BY <1>2, <1>3 DEF Traced

\* What is published belongs to a conversation that there was, or begins one.
LEMMA TalksTraced ==
  ASSUME TracedInv, NEW s \in Seq(Event), NEW others \in SUBSET offers, Publish(s, others),
         \A j \in 1 .. Len(s) : \/ Traced(log, s[j])
                                \/ s[j].to \subseteq Privy(s[j]) /\ s[j].root = Len(log) + j
  PROVE  LogTraced' /\ Grown(log, log')
<1>1. /\ Grown(log, log')
      /\ \A i \in DOMAIN log' : i \in DOMAIN log \/ \E j \in 1 .. Len(s) : i = Len(log) + j
      /\ \A j \in 1 .. Len(s) : Len(log) + j \in DOMAIN log' /\ log'[Len(log) + j] = s[j]
  <2>1. log \in Seq(Event)
    BY DEF TracedInv, TypeInv, TypeOK
  <2> QED
    BY <2>1, Published DEF Grown
<1>2. ASSUME NEW i \in DOMAIN log' PROVE Traced(log', log'[i])
  <2>1. CASE i \in DOMAIN log
    <3>1. Traced(log, log[i]) /\ log'[i] = log[i]
      BY <1>1, <2>1 DEF TracedInv, LogTraced, Grown
    <3> QED
      BY <1>1, <3>1, TracedStays
  <2>2. ASSUME NEW j \in 1 .. Len(s), i = Len(log) + j PROVE Traced(log', log'[i])
    <3>1. i \in DOMAIN log' /\ log'[i] = s[j]
      BY <1>1, <2>2
    <3>2. CASE Traced(log, s[j])
      BY <1>1, <3>1, <3>2, TracedStays
    <3>3. CASE s[j].to \subseteq Privy(s[j]) /\ s[j].root = Len(log) + j
      BY <2>2, <3>1, <3>3 DEF Traced
    <3> QED
      BY <3>2, <3>3
  <2> QED
    BY <1>1, <2>1, <2>2
<1> QED
  BY <1>1, <1>2 DEF LogTraced

\* A call's step keeps what it has in its conversations.
LEMMA GoesTraced ==
  ASSUME TracedInv, NEW k \in Calls, Translates(k), ~Answered(k), ~Panic(k)
  PROVE  \E c : Goes(k, c) /\ CallTraced(c)
<1>0. TypeInv /\ CallTraced(call[k])
  BY DEF TracedInv, CallsTraced
<1>n. CallTraced(NoCall)
  BY NoCallIs DEF CallTraced
<1>1. ASSUME NEW o \in offers, TranslatorHandles(k, o) PROVE \E c : Goes(k, c) /\ CallTraced(c)
  <2>1. PICK c \in CallState :
           /\ Goes(k, c)
           /\ \A e \in c.out : \E i \in o.batch : i \in DOMAIN log /\ IsHelp(log[i]) /\ e = HelpAnswer(log[i])
           /\ \A j \in 1 .. Len(c.todo) : \E i \in o.batch : i \in DOMAIN log /\ c.todo[j] = ItemOf(i)
    BY <1>0, <1>1, HandlesGoes
  <2>2. \A e \in c.out : Traced(log, e)
    BY <1>0, <2>1, HelpTraced
  <2>3. ASSUME NEW i \in DOMAIN log PROVE Traced(log, ItemOf(i).event)
    <3>1. CASE ItemOf(i) = [event |-> log[i], id |-> i, alone |-> FALSE]
      BY <3>1 DEF TracedInv, LogTraced
    <3>2. CASE IsHelp(log[i]) /\ ItemOf(i) = [event |-> HelpAnswer(log[i]), id |-> NoId, alone |-> TRUE]
      BY <1>0, <3>2, HelpTraced
    <3> QED
      BY <1>0, <3>1, <3>2, ItemFields
  <2> QED
    BY <2>1, <2>2, <2>3 DEF CallTraced
<1>2. ASSUME TranslatorCron(k) PROVE \E c : Goes(k, c) /\ CallTraced(c)
  <2>1. PICK c \in CallState, e \in Event :
           /\ Goes(k, c) /\ c.out = {e} /\ e.root = NoId
           /\ \A j \in 1 .. Len(c.todo) : c.todo[j] = [event |-> e, id |-> NoId, alone |-> FALSE]
    BY <1>2, CronGoes
  <2>2. Traced(log, e)
    BY <2>1 DEF Traced
  <2> QED
    BY <2>1, <2>2 DEF CallTraced
<1>r. ASSUME Busy(k), NEW j \in 1 .. Len(Tail(call[k].todo)) PROVE Traced(log, Tail(call[k].todo)[j].event)
  <2>1. call[k].todo \in Seq(Item) /\ call[k].todo # <<>>
    BY <1>0, <1>r, AtFields
  <2>2. Tail(call[k].todo)[j] = call[k].todo[j + 1] /\ j + 1 \in 1 .. Len(call[k].todo)
    <3>1. Tail(call[k].todo)[j] = call[k].todo[j + 1] /\ j + 1 \in 2 .. Len(call[k].todo)
      BY <1>r, <2>1, TailIs
    <3> QED
      BY <3>1
  <2> QED
    BY <1>0, <2>2 DEF CallTraced
<1>3. ASSUME Cached(k) \/ Untranslated(k) \/ Translated(k) PROVE \E c : Goes(k, c) /\ CallTraced(c)
  <2>1. PICK new \in SUBSET Event :
              /\ Done(k, new)
              /\ \/ new = {}
                 \/ \E x \in cache : new = {Translation(ItemAt(k), LangAt(k), x.is)}
                 \/ new = {Translation(ItemAt(k), LangAt(k), LangAt(k))}
    BY <1>0, <1>3, AnswerGoes
  <2>2. /\ Busy(k) /\ ItemAt(k) \in Item /\ LangAt(k) \in Langs /\ ItemAt(k) = call[k].todo[1]
        /\ Len(call[k].todo) \in Nat \ {0}
    BY <1>0, <1>3, AnswerGoes, AtFields
  <2>3. \A x \in cache : x.is \in Langs
    BY <1>0 DEF TypeInv, TypeOK
  <2>4. Traced(log, ItemAt(k).event)
    <3>1. 1 \in 1 .. Len(call[k].todo)
      BY <2>2
    <3> QED
      BY <1>0, <2>2, <3>1 DEF CallTraced
  <2>5. \A is \in Langs : Traced(log, Translation(ItemAt(k), LangAt(k), is))
    <3> SUFFICES ASSUME NEW is \in Langs PROVE Traced(log, Translation(ItemAt(k), LangAt(k), is))
      OBVIOUS
    <3>1. /\ Translation(ItemAt(k), LangAt(k), is).root = ItemAt(k).event.root
          /\ Translation(ItemAt(k), LangAt(k), is).to \subseteq ItemAt(k).event.to
      BY <2>2, TranslationFields
    <3> QED
      BY <2>4, <3>1 DEF Traced
  <2>6. \A e \in new : Traced(log, e)
    BY <2>1, <2>2, <2>3, <2>5
  <2>7. PICK c \in CallState : /\ Goes(k, c) /\ c.out = call[k].out \cup new
                               /\ c.todo = Tail(call[k].todo) \/ c.todo = call[k].todo
    BY <1>0, <2>1, <2>2, DoneGoes
  <2>8. \A e \in c.out : Traced(log, e)
    BY <1>0, <2>6, <2>7 DEF CallTraced
  <2>9. \A j \in 1 .. Len(c.todo) : Traced(log, c.todo[j].event)
    BY <1>0, <1>r, <2>2, <2>7 DEF CallTraced
  <2> QED
    BY <2>7, <2>8, <2>9 DEF CallTraced
<1>4. ASSUME Failed(k) PROVE \E c : Goes(k, c) /\ CallTraced(c)
  <2>1. CASE Goes(k, NoCall)
    BY <1>n, <2>1
  <2>2. ASSUME NEW c \in CallState, Goes(k, c), c.out = call[k].out, c.todo = Tail(call[k].todo)
        PROVE  CallTraced(c)
    BY <1>0, <1>4, <1>r, <2>2 DEF CallTraced, Failed, Asks
  <2> QED
    BY <1>0, <1>4, <2>1, <2>2, FailedGoes
<1> QED
  BY <1>1, <1>2, <1>3, <1>4 DEF Translates

\* Every step keeps events in their conversations.
LEMMA TracedNext == TracedInv /\ [Next]_vars => TracedInv'
<1> SUFFICES ASSUME TracedInv, [Next]_vars PROVE LogTraced' /\ CallsTraced'
  BY TypeNext DEF TracedInv
<1>0. TypeInv /\ LogTraced /\ CallsTraced /\ call \in [Calls -> CallState]
  BY DEF TracedInv, TypeInv, TypeOK
<1>s. ASSUME Grown(log, log'), NEW c, CallTraced(c)
      PROVE  /\ \A e \in c.out : Traced(log', e)
             /\ \A j \in 1 .. Len(c.todo) : Traced(log', c.todo[j].event)
  BY <1>s, TracedStays DEF CallTraced
<1>1. CASE Talks
  <2>1. PICK s \in Seq(Event), others \in SUBSET offers :
          /\ Publish(s, others)
          /\ \A j \in 1 .. Len(s) :
               \/ s[j].root = NoId
               \/ \E i \in DOMAIN log : log[i].name = "command" /\ s[j] = Command(log[i])
               \/ s[j].to \subseteq Privy(s[j]) /\ s[j].root = Len(log) + j
    BY <1>1 DEF Talks
  <2>2. \A j \in 1 .. Len(s) : \/ Traced(log, s[j])
                               \/ s[j].to \subseteq Privy(s[j]) /\ s[j].root = Len(log) + j
    <3> SUFFICES ASSUME NEW j \in 1 .. Len(s)
                 PROVE  \/ Traced(log, s[j])
                        \/ s[j].to \subseteq Privy(s[j]) /\ s[j].root = Len(log) + j
      OBVIOUS
    <3>1. CASE s[j].root = NoId
      BY <3>1 DEF Traced
    <3>2. ASSUME NEW i \in DOMAIN log, log[i].name = "command", s[j] = Command(log[i]) PROVE Traced(log, s[j])
      BY <1>0, <3>2, CommandTraced
    <3> QED
      BY <2>1, <3>1, <3>2
  <2>3. LogTraced' /\ Grown(log, log')
    BY <2>1, <2>2, TalksTraced
  <2>4. call' = call
    BY <1>1 DEF Talks
  <2> QED
    BY <1>0, <1>s, <2>3, <2>4 DEF CallsTraced, CallTraced
<1>2. CASE Silent
  BY <1>0, <1>2 DEF Silent, LogTraced, CallsTraced, CallTraced
<1>3. ASSUME NEW k \in Calls, Answered(k) PROVE LogTraced' /\ CallsTraced'
  <2>1. Goes(k, NoCall)
    BY <1>0, <1>3, AnsweredPublishes
  <2>2. \A m \in Calls : call'[m] = IF m = k THEN NoCall ELSE call[m]
    BY <1>0, <2>1 DEF Goes
  <2>3. CASE UNCHANGED log
    <3>1. Grown(log, log')
      BY <2>3 DEF Grown
    <3> QED
      BY <1>0, <1>s, <2>2, <2>3, <3>1, NoCallIs DEF LogTraced, CallsTraced, CallTraced
  <2>4. ASSUME NEW s \in Seq(Event), Publish(s, offers), \A j \in 1 .. Len(s) : s[j] \in call[k].out
        PROVE  LogTraced' /\ CallsTraced'
    <3>1. \A j \in 1 .. Len(s) : Traced(log, s[j])
      BY <1>0, <2>4 DEF CallsTraced, CallTraced
    <3>2. LogTraced' /\ Grown(log, log')
      BY <2>4, <3>1, TalksTraced
    <3> QED
      BY <1>0, <1>s, <2>2, <3>2, NoCallIs DEF CallsTraced, CallTraced
  <2> QED
    BY <1>0, <1>3, <2>3, <2>4, AnsweredPublishes
<1>4. ASSUME NEW k \in Calls, Panic(k) PROVE LogTraced' /\ CallsTraced'
  <2>1. UNCHANGED log /\ \A m \in Calls : call'[m] = NoCall
    BY <1>4 DEF Panic
  <2> QED
    BY <1>0, <2>1, NoCallIs DEF LogTraced, CallsTraced, CallTraced
<1>5. ASSUME NEW k \in Calls, Translates(k), ~Answered(k), ~Panic(k) PROVE LogTraced' /\ CallsTraced'
  <2>1. UNCHANGED log
    BY <1>5 DEF Translates, TranslatorHandles, TranslatorCron, Cached, Untranslated, Translated, Failed
  <2>2. PICK c : Goes(k, c) /\ CallTraced(c)
    BY <1>5, GoesTraced
  <2>3. \A m \in Calls : call'[m] = IF m = k THEN c ELSE call[m]
    BY <1>0, <2>2 DEF Goes
  <2>4. LogTraced'
    BY <1>0, <2>1 DEF LogTraced
  <2>5. \A m \in Calls : CallTraced(call'[m])
    BY <1>0, <2>2, <2>3 DEF CallsTraced
  <2> QED
    BY <2>1, <2>4, <2>5 DEF CallsTraced, CallTraced
<1> QED
  BY <1>0, <1>1, <1>2, <1>3, <1>4, <1>5, StepKinds

\* Whatever base-commands and the translator make of a message, a command, each other's answers
\* and what the cache has, nobody is shown any of it whom the first message was not for.
THEOREM PrivateIsPrivate == Spec => []PrivateStaysPrivate
<1>1. Init => TracedInv
  <2> SUFFICES ASSUME Init PROVE LogTraced /\ CallsTraced
    BY TypeInit DEF TracedInv
  <2>1. log = <<>> /\ DOMAIN <<>> = {} /\ \A k \in Calls : call[k] = NoCall
    BY DEF Init
  <2> QED
    BY <2>1, NoCallIs DEF LogTraced, CallsTraced, CallTraced
<1>2. TracedInv => PrivateStaysPrivate
  BY DEF TracedInv, LogTraced, Traced, PrivateStaysPrivate
<1> QED
  BY <1>1, <1>2, TracedNext, PTL DEF Spec

-----------------------------------------------------------------------------
(* All languages or none. *)

\* The translations of event i in log l, the one into a language, and the languages it is foreign in.
Made(l, i)       == {j \in DOMAIN l : l[j].of = i}
Into(l, i, lang) == Translation([event |-> l[i], id |-> i, alone |-> FALSE], lang, lang)
Foreign(l, i)    == Range(Languages) \ {SpokenIn[l[i].message.text]}

\* What a call has of event i, and the languages that it has been through for it.
TodoIds(c)   == {c.todo[j].id : j \in 1 .. Len(c.todo)}
OutOf(c, i)  == {e \in c.out : e.of = i}
Holds(c, i)  == i \in TodoIds(c) \/ OutOf(c, i) # {}
Passed(c, i) == IF i \notin TodoIds(c) THEN Range(Languages)
                ELSE IF c.todo[1].id = i THEN {Languages[m] : m \in 1 .. c.next - 1} ELSE {}

\* A call has each event once before it, as the log has it, and has made exactly the
\* translations of it that its place in the two loops says.
TodoOnce(c)    == \A j, m \in 1 .. Len(c.todo) : c.todo[j].id = c.todo[m].id /\ c.todo[j].id # NoId => j = m
TodoKnown(l, c) == \A j \in 1 .. Len(c.todo) :
                     /\ c.todo[j].alone => c.todo[j].id = NoId
                     /\ c.todo[j].id # NoId => /\ c.todo[j].id \in DOMAIN l
                                               /\ c.todo[j].event = l[c.todo[j].id]
OutKnown(l, c) == \A e \in c.out : e.of \in DOMAIN l \cup {NoId}
OutWhole(l, c) == \A i \in DOMAIN l : Holds(c, i) =>
                     OutOf(c, i) = {Into(l, i, lang) : lang \in Passed(c, i) \cap Foreign(l, i)}
CallWhole(l, c) == TodoOnce(c) /\ TodoKnown(l, c) /\ OutKnown(l, c) /\ OutWhole(l, c)
CallsWhole == \A k \in Calls : CallWhole(log, call[k])

\* An event is offered to the translator once, or in one of its calls, or has been translated.
OfferOf(o, i) == o.plugin = "google-translate" /\ i \in o.batch
OneHolder == \A i \in DOMAIN log : \A k, m \in Calls : Holds(call[k], i) /\ Holds(call[m], i) => k = m
OneOffer  == \A i \in DOMAIN log : \A o, p \in offers : OfferOf(o, i) /\ OfferOf(p, i) => o = p
OnePlace  == \A i \in DOMAIN log :
  /\ \A k \in Calls : Holds(call[k], i) => Made(log, i) = {} /\ \A o \in offers : ~OfferOf(o, i)
  /\ \A o \in offers : OfferOf(o, i) => Made(log, i) = {}

\* What is in the log of an event is all of its translations.
EachOnce(l, i) == \A lang \in Foreign(l, i) : \E j \in Made(l, i) : {n \in Made(l, i) : l[n].lang = lang} = {j}
LogWhole == \A i \in DOMAIN log : /\ log[i].of \in DOMAIN log \cup {NoId}
                                  /\ Made(log, i) # {} => EachOnce(log, i)

\* Nothing is translated into its own language, and translations are for readers of theirs.
CacheRead == \A x \in cache : x.is = x.lang /\ x.lang # SpokenIn[x.text]
Reads(e)  == e.name = "translation" =>
               e.lang # SpokenIn[e.message.text] /\ \A v \in e.to : v.lang = e.lang
LogRead   == \A i \in DOMAIN log : Reads(log[i])
CallsRead == \A k \in Calls : \A e \in call[k].out : Reads(e)
Places    == CallsWhole /\ OneHolder /\ OneOffer /\ OnePlace /\ LogWhole
ReadInv   == TypeInv /\ CacheRead /\ LogRead /\ CallsRead
WholeInv  == TypeInv /\ CacheRead /\ Places

\* A call that holds nothing is as it should be.
LEMMA NoCallWhole == ASSUME NEW l PROVE CallWhole(l, NoCall) /\ \A i : ~Holds(NoCall, i)
<1>1. Len(NoCall.todo) = 0 /\ NoCall.out = {}
  BY NoCallIs
<1>2. TodoIds(NoCall) = {} /\ \A i : OutOf(NoCall, i) = {}
  BY <1>1 DEF TodoIds, OutOf
<1>3. \A i : ~Holds(NoCall, i)
  BY <1>2 DEF Holds
<1> QED
  BY <1>1, <1>3 DEF CallWhole, TodoOnce, TodoKnown, OutKnown, OutWhole

\* What a call holds is in the log.
LEMMA HoldsKnown ==
  ASSUME NEW l, NEW c, CallWhole(l, c), NEW i, Holds(c, i), i # NoId
  PROVE  i \in DOMAIN l
<1>1. CASE i \in TodoIds(c)
  BY <1>1 DEF CallWhole, TodoKnown, TodoIds
<1>2. CASE OutOf(c, i) # {}
  BY <1>2 DEF CallWhole, OutKnown, OutOf
<1> QED
  BY <1>1, <1>2 DEF Holds

\* A longer log makes no difference to a call.
LEMMA WholeStays ==
  ASSUME NEW l, NEW m, Grown(l, m), NoId \notin DOMAIN m, NEW c, CallWhole(l, c)
  PROVE  CallWhole(m, c)
<1>1. TodoOnce(c) /\ TodoKnown(m, c) /\ OutKnown(m, c)
  BY DEF CallWhole, TodoKnown, OutKnown, Grown
<1>2. ASSUME NEW i \in DOMAIN m, Holds(c, i)
      PROVE  OutOf(c, i) = {Into(m, i, lang) : lang \in Passed(c, i) \cap Foreign(m, i)}
  <2>1. i \in DOMAIN l /\ m[i] = l[i]
    BY <1>2, HoldsKnown DEF Grown
  <2>2. OutOf(c, i) = {Into(l, i, lang) : lang \in Passed(c, i) \cap Foreign(l, i)}
    BY <1>2, <2>1 DEF CallWhole, OutWhole
  <2>3. Foreign(m, i) = Foreign(l, i) /\ \A lang : Into(m, i, lang) = Into(l, i, lang)
    BY <2>1 DEF Foreign, Into
  <2> QED
    BY <2>2, <2>3
<1> QED
  BY <1>1, <1>2 DEF CallWhole, OutWhole

-----------------------------------------------------------------------------
(* Steps of a call. *)

\* HandleEvents begins with events that were offered, of which it has made nothing yet.
LEMMA HandlesWhole ==
  ASSUME TypeInv, NEW k \in Calls, NEW o \in offers, TranslatorHandles(k, o)
  PROVE  \E c : /\ Goes(k, c) /\ CallWhole(log, c)
                /\ \A i \in DOMAIN log : Holds(c, i) => OfferOf(o, i)
<1>1. PICK c \in CallState :
         /\ Goes(k, c) /\ c.next = 1
         /\ \A e \in c.out : \E i \in o.batch : i \in DOMAIN log /\ IsHelp(log[i]) /\ e = HelpAnswer(log[i])
         /\ \A j \in 1 .. Len(c.todo) : \E i \in o.batch : i \in DOMAIN log /\ c.todo[j] = ItemOf(i)
         /\ \A j, m \in 1 .. Len(c.todo) : c.todo[j].id = c.todo[m].id /\ c.todo[j].id # NoId => j = m
  BY HandlesGoes
<1>2. \A e \in c.out : e.of = NoId
  BY <1>1, ItemFields, HelpFields
<1>3. ASSUME NEW j \in 1 .. Len(c.todo)
      PROVE  /\ c.todo[j].alone => c.todo[j].id = NoId
             /\ c.todo[j].id # NoId => /\ c.todo[j].id \in DOMAIN log /\ c.todo[j].id \in o.batch
                                       /\ c.todo[j].event = log[c.todo[j].id]
  <2>1. PICK i \in o.batch : i \in DOMAIN log /\ c.todo[j] = ItemOf(i)
    BY <1>1
  <2>2. \/ ItemOf(i) = [event |-> log[i], id |-> i, alone |-> FALSE]
        \/ ItemOf(i) = [event |-> HelpAnswer(log[i]), id |-> NoId, alone |-> TRUE]
    BY <2>1, ItemFields
  <2> QED
    BY <2>1, <2>2
<1>4. \A i \in DOMAIN log : i # NoId /\ OutOf(c, i) = {}
  BY <1>2, ItemFields DEF OutOf
<1>5. ASSUME NEW i \in DOMAIN log, Holds(c, i)
      PROVE  OfferOf(o, i) /\ Passed(c, i) = {}
  <2>1. i \in TodoIds(c) /\ i # NoId
    BY <1>4, <1>5 DEF Holds
  <2>2. i \in o.batch
    BY <1>3, <2>1 DEF TodoIds
  <2>3. o.plugin = "google-translate"
    BY DEF TranslatorHandles
  <2>4. 1 .. c.next - 1 = {}
    BY <1>1
  <2> QED
    BY <2>1, <2>2, <2>3, <2>4 DEF OfferOf, Passed
<1>6. OutWhole(log, c)
  BY <1>4, <1>5 DEF OutWhole
<1> QED
  BY <1>1, <1>2, <1>3, <1>5, <1>6 DEF CallWhole, TodoOnce, TodoKnown, OutKnown

\* What Cron says itself is in no log yet.
LEMMA CronWhole ==
  ASSUME TypeInv, NEW k \in Calls, TranslatorCron(k)
  PROVE  \E c : /\ Goes(k, c) /\ CallWhole(log, c)
                /\ \A i \in DOMAIN log : ~Holds(c, i)
<1>1. PICK c \in CallState, e \in Event :
         /\ Goes(k, c) /\ c.out = {e} /\ e.of = NoId
         /\ \A j \in 1 .. Len(c.todo) : c.todo[j] = [event |-> e, id |-> NoId, alone |-> FALSE]
  BY CronGoes
<1>2. \A i \in DOMAIN log : i # NoId
  BY ItemFields
<1>3. \A j \in 1 .. Len(c.todo) : c.todo[j].id = NoId
  BY <1>1
<1>4. \A i \in DOMAIN log : ~Holds(c, i)
  BY <1>1, <1>2, <1>3 DEF Holds, TodoIds, OutOf
<1> QED
  BY <1>1, <1>3, <1>4 DEF CallWhole, TodoOnce, TodoKnown, OutKnown, OutWhole

\* The rest of the items are those before the call but for the first one.
LEMMA RestOfTodo ==
  ASSUME NEW l, NEW b \in CallState, b.todo # <<>>, TodoOnce(b), TodoKnown(l, b),
         NEW c, c.todo = Tail(b.todo)
  PROVE  /\ TodoOnce(c) /\ TodoKnown(l, c)
         /\ \A i : i # NoId => (i \in TodoIds(c) <=> i \in TodoIds(b) /\ i # b.todo[1].id)
<1>1. b.todo \in Seq(Item)
  BY DEF CallState
<1>2. /\ Len(b.todo) \in Nat \ {0} /\ Len(c.todo) = Len(b.todo) - 1
      /\ \A j \in 1 .. Len(c.todo) : c.todo[j] = b.todo[j + 1] /\ j + 1 \in 2 .. Len(b.todo)
  BY <1>1, TailIs
<1>3. \A j \in 1 .. Len(c.todo) : j + 1 \in 1 .. Len(b.todo) /\ j + 1 # 1
  BY <1>2
<1>4. TodoKnown(l, c)
  BY <1>2, <1>3 DEF TodoKnown
<1>5. TodoOnce(c)
  <2> SUFFICES ASSUME NEW j \in 1 .. Len(c.todo), NEW m \in 1 .. Len(c.todo),
                      c.todo[j].id = c.todo[m].id, c.todo[j].id # NoId
               PROVE  j = m
    BY DEF TodoOnce
  <2>1. b.todo[j + 1].id = b.todo[m + 1].id /\ b.todo[j + 1].id # NoId
    BY <1>2
  <2>2. j + 1 = m + 1
    BY <1>3, <2>1 DEF TodoOnce
  <2> QED
    BY <2>2
<1>6. ASSUME NEW i, i # NoId, i \in TodoIds(c) PROVE i \in TodoIds(b) /\ i # b.todo[1].id
  <2>1. PICK j \in 1 .. Len(c.todo) : i = c.todo[j].id
    BY <1>6 DEF TodoIds
  <2>2. j + 1 \in 1 .. Len(b.todo) /\ i = b.todo[j + 1].id /\ j + 1 # 1 /\ 1 \in 1 .. Len(b.todo)
    BY <1>2, <1>3, <2>1
  <2> QED
    BY <1>6, <2>2 DEF TodoIds, TodoOnce
<1>7. ASSUME NEW i, i \in TodoIds(b), i # b.todo[1].id PROVE i \in TodoIds(c)
  <2>1. PICK j \in 1 .. Len(b.todo) : i = b.todo[j].id
    BY <1>7 DEF TodoIds
  <2>2. j # 1
    BY <1>7, <2>1
  <2>3. j - 1 \in 1 .. Len(c.todo) /\ (j - 1) + 1 = j
    BY <1>2, <2>2
  <2>4. c.todo[j - 1] = b.todo[j]
    BY <1>2, <2>3
  <2> QED
    BY <2>1, <2>3, <2>4 DEF TodoIds
<1> QED
  BY <1>4, <1>5, <1>6, <1>7

\* What the answer to a question adds to the call: the item in the language, unless it is.
Gained(k) == {Translation(ItemAt(k), lang, lang) : lang \in {LangAt(k)} \ {SpokenIn[TextAt(k)]}}

\* Whether the cache or the service has answered, that is what the call has more.
LEMMA AnswerGains ==
  ASSUME TypeInv, CacheRead, NEW k \in Calls, Cached(k) \/ Untranslated(k) \/ Translated(k)
  PROVE  /\ Busy(k) /\ UNCHANGED <<log, offers>>
         /\ \E c \in CallState :
              /\ Goes(k, c) /\ c.out = call[k].out \cup Gained(k)
              /\ \/ c.todo = Tail(call[k].todo) /\ c.next = 1 /\ call[k].next = Len(Languages)
                 \/ c.todo = call[k].todo /\ c.next = call[k].next + 1 /\ call[k].next < Len(Languages)
<1>1. Busy(k) /\ UNCHANGED <<log, offers>>
  BY AnswerGoes
<1>2. PICK new \in SUBSET Event :
        /\ Done(k, new)
        /\ \/ new = {} /\ SpokenIn[TextAt(k)] = LangAt(k)
           \/ \E x \in cache : /\ x.text = TextAt(k) /\ x.lang = LangAt(k)
                               /\ new = {Translation(ItemAt(k), LangAt(k), x.is)}
           \/ /\ SpokenIn[TextAt(k)] # LangAt(k)
              /\ new = {Translation(ItemAt(k), LangAt(k), LangAt(k))}
  BY AnswerGoes
<1>3. new = Gained(k)
  BY <1>2 DEF Gained, CacheRead
<1> QED
  BY <1>1, <1>2, <1>3, DoneGoes

\* So the call has made, of its first event, what the place in the loop over the languages says,
\* and of the others what it had.
LEMMA AnswerWhole ==
  ASSUME TypeInv, CacheRead, NEW k \in Calls, CallWhole(log, call[k]),
         Cached(k) \/ Untranslated(k) \/ Translated(k)
  PROVE  \E c : /\ Goes(k, c) /\ CallWhole(log, c)
                /\ \A i \in DOMAIN log : Holds(c, i) => Holds(call[k], i)
<1>1. PICK c \in CallState :
        /\ Goes(k, c) /\ c.out = call[k].out \cup Gained(k)
        /\ \/ c.todo = Tail(call[k].todo) /\ c.next = 1 /\ call[k].next = Len(Languages)
           \/ c.todo = call[k].todo /\ c.next = call[k].next + 1 /\ call[k].next < Len(Languages)
  BY AnswerGains
<1> DEFINE b == call[k]
           h == b.todo[1].id
           n == b.next
<1>2. /\ b \in CallState /\ b.todo # <<>> /\ Len(b.todo) \in Nat \ {0} /\ ItemAt(k) = b.todo[1]
      /\ n \in 1 .. Len(Languages) /\ Len(Languages) \in Nat /\ LangAt(k) = Languages[n]
      /\ LangAt(k) \in Langs /\ TextAt(k) = b.todo[1].event.message.text /\ ItemAt(k) \in Item
  BY AnswerGains, AtFields
<1>3. TodoOnce(b) /\ TodoKnown(log, b) /\ OutKnown(log, b) /\ OutWhole(log, b)
  BY DEF CallWhole
<1>4. \A i \in DOMAIN log : i # NoId
  BY ItemFields
<1>5. Range(Languages) = {Languages[m] : m \in 1 .. Len(Languages)} /\ LangAt(k) \in Range(Languages)
  BY <1>2, LanguagesDiffer, LenProperties DEF Range
<1>6. 1 \in 1 .. Len(b.todo) /\ h \in TodoIds(b)
  BY <1>2 DEF TodoIds
<1>7. \A e \in Gained(k) : e.of = h
  BY <1>2, TranslationFields DEF Gained
<1>8. ASSUME h # NoId
      PROVE  /\ h \in DOMAIN log /\ b.todo[1].event = log[h]
             /\ Gained(k) = {Into(log, h, lang) : lang \in {LangAt(k)} \cap Foreign(log, h)}
  <2>1. h \in DOMAIN log /\ b.todo[1].event = log[h]
    BY <1>3, <1>6, <1>8 DEF TodoKnown
  <2>2. \A lang : Translation(ItemAt(k), lang, lang) = Into(log, h, lang)
    BY <1>2, <2>1 DEF Into, Translation
  <2>3. {LangAt(k)} \ {SpokenIn[TextAt(k)]} = {LangAt(k)} \cap Foreign(log, h)
    BY <1>2, <1>5, <2>1 DEF Foreign
  <2> QED
    BY <2>1, <2>2, <2>3 DEF Gained
<1>9. ASSUME NEW i \in DOMAIN log
      PROVE  OutOf(c, i) = OutOf(b, i) \cup (IF i = h THEN Gained(k) ELSE {})
  BY <1>1, <1>7 DEF OutOf
<1>10. OutKnown(log, c)
  BY <1>1, <1>3, <1>7, <1>8 DEF OutKnown
<1> HIDE DEF b, h, n
<1>11. /\ TodoOnce(c) /\ TodoKnown(log, c)
       /\ \A i \in DOMAIN log : i # h => (i \in TodoIds(c) <=> i \in TodoIds(b))
       /\ \A i \in DOMAIN log : i \in TodoIds(c) => i \in TodoIds(b)
  <2>1. CASE c.todo = Tail(b.todo)
    BY <1>2, <1>3, <1>4, <2>1, RestOfTodo DEF h
  <2>2. CASE c.todo = b.todo
    BY <1>3, <2>2 DEF TodoOnce, TodoKnown, TodoIds
  <2> QED
    BY <1>1, <2>1, <2>2 DEF b
<1>12. ASSUME NEW i \in DOMAIN log, i # h
       PROVE  Passed(c, i) = Passed(b, i)
  <2>1. CASE i \notin TodoIds(b)
    BY <1>11, <1>12, <2>1 DEF Passed
  <2>2. CASE i \in TodoIds(b)
    <3>1. Passed(b, i) = {}
      BY <1>12, <2>2 DEF Passed, h
    <3>2. CASE c.next = 1
      <4>1. 1 .. c.next - 1 = {}
        BY <3>2
      <4>2. {Languages[m] : m \in 1 .. c.next - 1} = {}
        BY <4>1
      <4> QED
        BY <1>11, <1>12, <2>2, <3>1, <4>2 DEF Passed
    <3>3. CASE c.todo = b.todo
      BY <1>11, <1>12, <2>2, <3>1, <3>3 DEF Passed, h
    <3> QED
      BY <1>1, <3>2, <3>3 DEF b
  <2> QED
    BY <2>1, <2>2
<1>13. ASSUME h \in DOMAIN log
       PROVE  Passed(c, h) = Passed(b, h) \cup {LangAt(k)}
  <2>1. Passed(b, h) = {Languages[m] : m \in 1 .. n - 1}
    BY <1>6 DEF Passed, h, n
  <2>2. (1 .. n - 1) \cup {n} = 1 .. n
    BY <1>2
  <2>3. Passed(b, h) \cup {LangAt(k)} = {Languages[m] : m \in 1 .. n}
    BY <1>2, <2>1, <2>2
  <2>4. CASE c.todo = Tail(b.todo) /\ n = Len(Languages)
    <3>1. h \notin TodoIds(c)
      BY <1>2, <1>3, <1>4, <1>13, <2>4, RestOfTodo DEF h
    <3> QED
      BY <1>5, <2>3, <2>4, <3>1 DEF Passed
  <2>5. CASE c.todo = b.todo /\ c.next = n + 1
    <3>1. h \in TodoIds(c) /\ c.todo[1].id = h
      BY <1>6, <2>5 DEF TodoIds, h
    <3>2. c.next - 1 = n
      BY <1>2, <2>5
    <3>3. Passed(c, h) = {Languages[m] : m \in 1 .. c.next - 1}
      BY <3>1 DEF Passed
    <3> QED
      BY <2>3, <3>2, <3>3
  <2> QED
    BY <1>1, <2>4, <2>5 DEF b, n
<1>14. ASSUME NEW i \in DOMAIN log, Holds(c, i)
       PROVE  /\ Holds(b, i)
              /\ OutOf(c, i) = {Into(log, i, lang) : lang \in Passed(c, i) \cap Foreign(log, i)}
  <2>1. CASE i # h
    <3>1. OutOf(c, i) = OutOf(b, i) /\ Passed(c, i) = Passed(b, i)
      BY <1>9, <1>12, <2>1
    <3>2. Holds(b, i)
      BY <1>11, <1>14, <2>1, <3>1 DEF Holds
    <3> QED
      BY <1>3, <3>1, <3>2 DEF OutWhole
  <2>2. CASE i = h
    <3>1. Holds(b, h)
      BY <1>6 DEF Holds
    <3>2. OutOf(b, h) = {Into(log, h, lang) : lang \in Passed(b, h) \cap Foreign(log, h)}
      BY <1>3, <2>2, <3>1 DEF OutWhole
    <3>3. Gained(k) = {Into(log, h, lang) : lang \in {LangAt(k)} \cap Foreign(log, h)}
      BY <1>4, <1>8, <2>2
    <3>4. OutOf(c, h) = OutOf(b, h) \cup Gained(k)
      BY <1>9, <2>2
    <3>5. Passed(c, h) = Passed(b, h) \cup {LangAt(k)}
      BY <1>13, <2>2
    <3>6. OutOf(c, h) = {Into(log, h, lang) : lang \in Passed(c, h) \cap Foreign(log, h)}
      BY <3>2, <3>3, <3>4, <3>5
    <3> QED
      BY <2>2, <3>1, <3>6
  <2> QED
    BY <2>1, <2>2
<1> QED
  BY <1>1, <1>10, <1>11, <1>14 DEF CallWhole, OutWhole, b

\* A failure ends the call, or the translations of the answer to /help, which is in no log.
LEMMA FailedWhole ==
  ASSUME TypeInv, NEW k \in Calls, CallWhole(log, call[k]), Failed(k)
  PROVE  \E c : /\ Goes(k, c) /\ CallWhole(log, c)
                /\ \A i \in DOMAIN log : Holds(c, i) => Holds(call[k], i)
<1>1. CASE Goes(k, NoCall)
  BY <1>1, NoCallWhole
<1>2. ASSUME NEW c \in CallState, Goes(k, c), c.out = call[k].out, ItemAt(k).alone,
             c.todo = Tail(call[k].todo), c.next = 1
      PROVE  CallWhole(log, c) /\ \A i \in DOMAIN log : Holds(c, i) => Holds(call[k], i)
  <2> DEFINE b == call[k]
  <2>1. b \in CallState /\ b.todo # <<>> /\ Len(b.todo) \in Nat \ {0} /\ ItemAt(k) = b.todo[1]
    BY AtFields DEF Failed, Asks
  <2>2. TodoOnce(b) /\ TodoKnown(log, b) /\ OutKnown(log, b) /\ OutWhole(log, b)
    BY DEF CallWhole
  <2>3. b.todo[1].id = NoId
    BY <1>2, <2>1, <2>2 DEF TodoKnown
  <2>4. \A i \in DOMAIN log : i # NoId
    BY ItemFields
  <2>5. TodoOnce(c) /\ TodoKnown(log, c) /\ \A i \in DOMAIN log : i \in TodoIds(c) <=> i \in TodoIds(b)
    BY <1>2, <2>1, <2>2, <2>3, <2>4, RestOfTodo
  <2>6. OutKnown(log, c) /\ \A i : OutOf(c, i) = OutOf(b, i)
    BY <1>2, <2>2 DEF OutKnown, OutOf
  <2>7. \A i \in DOMAIN log : Holds(c, i) <=> Holds(b, i)
    BY <2>5, <2>6 DEF Holds
  <2>8. ASSUME NEW i \in DOMAIN log PROVE Passed(c, i) = Passed(b, i)
    <3>1. 1 .. c.next - 1 = {}
      BY <1>2
    <3>2. {Languages[m] : m \in 1 .. c.next - 1} = {}
      BY <3>1
    <3>3. b.todo[1].id # i
      BY <2>3, <2>4
    <3> HIDE DEF b
    <3> QED
      BY <2>5, <3>2, <3>3 DEF Passed
  <2>9. OutWhole(log, c)
    BY <2>2, <2>6, <2>7, <2>8 DEF OutWhole
  <2> QED
    BY <2>5, <2>6, <2>7, <2>9 DEF CallWhole
<1> QED
  BY <1>1, <1>2, FailedGoes

-----------------------------------------------------------------------------
(* An event has one place. *)

\* What is published is offered as one batch, and nothing older is offered again.
LEMMA PublishOffers ==
  ASSUME TypeInv, OneOffer, NEW s \in Seq(Event), NEW others \in SUBSET offers, Publish(s, others)
  PROVE  /\ \A i \in DOMAIN log : \A o \in offers' : OfferOf(o, i) => o \in others
         /\ \A i \in DOMAIN log' : \A o, p \in offers' : OfferOf(o, i) /\ OfferOf(p, i) => o = p
<1>0. /\ log \in Seq(Event) /\ DOMAIN log = 1 .. Len(log) /\ Len(log) \in Nat /\ Len(s) \in Nat
      /\ \A o \in others : o.batch \subseteq DOMAIN log
  BY LenProperties DEF TypeInv, TypeOK, OffersKnown
<1> DEFINE new == Len(log) + 1 .. Len(log) + Len(s)
<1>1. \A o \in offers' : o \in others \/ (o.batch = new /\ o = [plugin |-> o.plugin, batch |-> new])
  BY <1>0, Published
<1>2. \A i \in DOMAIN log : i \notin new
  BY <1>0
<1> HIDE DEF new
<1>3. \A i \in DOMAIN log : \A o \in offers' : OfferOf(o, i) => o \in others
  BY <1>1, <1>2 DEF OfferOf
<1>4. ASSUME NEW i \in DOMAIN log', NEW o \in offers', NEW p \in offers', OfferOf(o, i), OfferOf(p, i)
      PROVE  o = p
  <2>1. CASE i \in DOMAIN log
    BY <1>3, <1>4, <2>1 DEF OneOffer
  <2>2. CASE i \notin DOMAIN log
    <3>1. o \notin others /\ p \notin others
      BY <1>0, <1>4, <2>2 DEF OfferOf
    <3>2. o = [plugin |-> o.plugin, batch |-> new] /\ p = [plugin |-> p.plugin, batch |-> new]
      BY <1>1, <3>1
    <3>3. o.plugin = p.plugin
      BY <1>4 DEF OfferOf
    <3> QED
      BY <3>2, <3>3
  <2> QED
    BY <2>1, <2>2
<1> QED
  BY <1>3, <1>4

\* When events are published, the translations of an event go to the log together, out of the
\* one place that it had.
LEMMA PublishPlaces ==
  ASSUME WholeInv, NEW s \in Seq(Event), NEW others \in SUBSET offers, Publish(s, others),
         \A m \in Calls : call'[m] = call[m] \/ call'[m] = NoCall,
         \A j \in 1 .. Len(s) : s[j].of \in DOMAIN log \cup {NoId},
         \A i \in DOMAIN log : \A j \in 1 .. Len(s) : s[j].of = i =>
           /\ EachOnce(log', i)
           /\ \A o \in offers : ~OfferOf(o, i)
           /\ \A m \in Calls : ~Holds(call'[m], i)
  PROVE  Places'
<1>0. TypeInv /\ CallsWhole /\ OneHolder /\ OneOffer /\ OnePlace /\ LogWhole /\ log \in Seq(Event)
  BY DEF WholeInv, Places, TypeInv, TypeOK
<1>1. /\ log' \in Seq(Event)
      /\ \A i \in DOMAIN log : i \in DOMAIN log' /\ log'[i] = log[i]
      /\ \A i \in DOMAIN log' : i \in DOMAIN log \/ \E j \in 1 .. Len(s) : i = Len(log) + j
      /\ \A j \in 1 .. Len(s) : Len(log) + j \in DOMAIN log' /\ log'[Len(log) + j] = s[j]
  BY <1>0, Published
<1>2. Grown(log, log') /\ NoId \notin DOMAIN log' /\ NoId \notin DOMAIN log
  <2>1. DOMAIN log' = 1 .. Len(log') /\ Len(log') \in Nat /\ DOMAIN log = 1 .. Len(log) /\ Len(log) \in Nat
    BY <1>0, <1>1, LenProperties
  <2> QED
    BY <1>1, <2>1 DEF Grown, NoId
<1>3. \A i \in DOMAIN log' : log'[i].of \in DOMAIN log \cup {NoId}
  BY <1>0, <1>1 DEF LogWhole
<1>4. \A m \in Calls : CallWhole(log, call'[m]) /\ \A i : Holds(call'[m], i) => Holds(call[m], i)
  BY <1>0, NoCallWhole DEF CallsWhole
<1>5. CallsWhole'
  <2>1. \A m \in Calls : CallWhole(log', call'[m])
    BY <1>2, <1>4, WholeStays
  <2> QED
    BY <2>1 DEF CallsWhole
<1>6. \A m \in Calls : \A i \in DOMAIN log' : Holds(call'[m], i) => i \in DOMAIN log /\ Holds(call[m], i)
  BY <1>2, <1>4, HoldsKnown
<1>7. OneHolder'
  <2>1. \A i \in DOMAIN log' : \A k, m \in Calls : Holds(call'[k], i) /\ Holds(call'[m], i) => k = m
    BY <1>0, <1>6 DEF OneHolder
  <2> QED
    BY <2>1 DEF OneHolder
<1>8. /\ \A i \in DOMAIN log : \A o \in offers' : OfferOf(o, i) => o \in offers
      /\ \A i \in DOMAIN log' : \A o, p \in offers' : OfferOf(o, i) /\ OfferOf(p, i) => o = p
  BY <1>0, PublishOffers
<1>9. OneOffer'
  BY <1>8 DEF OneOffer
<1>10. ASSUME NEW i \in DOMAIN log', i \notin DOMAIN log PROVE Made(log', i) = {}
  BY <1>2, <1>3, <1>10 DEF Made
<1>11. ASSUME NEW i \in DOMAIN log, \A j \in 1 .. Len(s) : s[j].of # i
       PROVE  /\ Made(log', i) = Made(log, i)
              /\ \A j \in Made(log, i) : log'[j] = log[j]
              /\ Foreign(log', i) = Foreign(log, i)
  <2>1. ASSUME NEW n \in DOMAIN log', log'[n].of = i PROVE n \in DOMAIN log /\ log[n].of = i
    <3>1. ASSUME NEW j \in 1 .. Len(s), n = Len(log) + j PROVE FALSE
      <4>1. log'[n] = s[j]
        BY <1>1, <3>1
      <4> QED
        BY <1>11, <2>1, <4>1
    <3>2. n \in DOMAIN log
      BY <1>1, <3>1
    <3> QED
      BY <1>1, <2>1, <3>2
  <2>2. Made(log', i) = Made(log, i)
    BY <1>1, <2>1 DEF Made
  <2> QED
    BY <1>1, <2>2 DEF Made, Foreign
<1>12. ASSUME NEW i \in DOMAIN log'
       PROVE  /\ \A m \in Calls : Holds(call'[m], i) => Made(log', i) = {} /\ \A o \in offers' : ~OfferOf(o, i)
              /\ \A o \in offers' : OfferOf(o, i) => Made(log', i) = {}
  <2>1. CASE i \notin DOMAIN log
    BY <1>6, <1>10, <2>1
  <2>2. ASSUME i \in DOMAIN log, NEW j \in 1 .. Len(s), s[j].of = i
        PROVE  (\A m \in Calls : ~Holds(call'[m], i)) /\ \A o \in offers' : ~OfferOf(o, i)
    BY <1>8, <2>2
  <2>3. CASE i \in DOMAIN log /\ \A j \in 1 .. Len(s) : s[j].of # i
    <3>1. Made(log', i) = Made(log, i)
      BY <1>11, <2>3
    <3> QED
      BY <1>0, <1>6, <1>8, <2>3, <3>1 DEF OnePlace
  <2> QED
    BY <2>1, <2>2, <2>3
<1>13. OnePlace'
  BY <1>12 DEF OnePlace
<1>14. ASSUME NEW i \in DOMAIN log', Made(log', i) # {} PROVE EachOnce(log', i)
  <2>1. i \in DOMAIN log
    BY <1>10, <1>14
  <2>2. CASE \A j \in 1 .. Len(s) : s[j].of # i
    <3>1. /\ Made(log', i) = Made(log, i) /\ Foreign(log', i) = Foreign(log, i)
          /\ \A j \in Made(log, i) : log'[j] = log[j]
      BY <1>11, <2>1, <2>2
    <3>2. EachOnce(log, i)
      BY <1>0, <1>14, <2>1, <3>1 DEF LogWhole
    <3>3. \A lang : {n \in Made(log', i) : log'[n].lang = lang} = {n \in Made(log, i) : log[n].lang = lang}
      BY <3>1
    <3> QED
      BY <3>1, <3>2, <3>3 DEF EachOnce
  <2> QED
    BY <2>1, <2>2
<1>15. LogWhole'
  <2>1. \A i \in DOMAIN log' : log'[i].of \in DOMAIN log' \cup {NoId}
    BY <1>1, <1>3
  <2> QED
    BY <1>14, <2>1 DEF LogWhole
<1> QED
  BY <1>5, <1>7, <1>9, <1>13, <1>15 DEF Places

\* When a call goes on, an event stays where it is or moves from its offer to the call.
LEMMA GoesPlaces ==
  ASSUME WholeInv, NEW k \in Calls, UNCHANGED log, offers' \subseteq offers,
         NEW c, Goes(k, c), CallWhole(log, c),
         \A i \in DOMAIN log : Holds(c, i) =>
           Holds(call[k], i) \/ \E o \in offers \ offers' : OfferOf(o, i)
  PROVE  Places'
<1>0. /\ TypeInv /\ CallsWhole /\ OneHolder /\ OneOffer /\ OnePlace /\ LogWhole
      /\ call \in [Calls -> CallState]
  BY DEF WholeInv, Places, TypeInv, TypeOK
<1>1. \A m \in Calls : call'[m] = IF m = k THEN c ELSE call[m]
  BY <1>0 DEF Goes
<1>2. CallsWhole'
  BY <1>0, <1>1 DEF CallsWhole
<1>3. ASSUME NEW i \in DOMAIN log, NEW m \in Calls, Holds(call'[m], i)
      PROVE  \/ Holds(call[m], i)
             \/ m = k /\ \E o \in offers \ offers' : OfferOf(o, i)
  BY <1>1, <1>3
<1>4. OneHolder'
  <2>1. ASSUME NEW i \in DOMAIN log, NEW m \in Calls, NEW n \in Calls, Holds(call'[m], i), Holds(call'[n], i)
        PROVE  m = n
    BY <1>0, <1>3, <2>1 DEF OneHolder, OnePlace
  <2> QED
    BY <2>1 DEF OneHolder
<1>5. OneOffer' /\ LogWhole'
  BY <1>0 DEF OneOffer, LogWhole
<1>6. ASSUME NEW i \in DOMAIN log, NEW m \in Calls, Holds(call'[m], i)
      PROVE  Made(log, i) = {} /\ \A o \in offers' : ~OfferOf(o, i)
  BY <1>0, <1>3, <1>6 DEF OnePlace, OneOffer
<1>7. OnePlace'
  BY <1>0, <1>6 DEF OnePlace
<1> QED
  BY <1>2, <1>4, <1>5, <1>7 DEF Places

\* What others say translates nothing.
LEMMA TalksPlaces ==
  ASSUME WholeInv, Talks
  PROVE  Places'
<1>1. PICK s \in Seq(Event), others \in SUBSET offers :
         (\A j \in 1 .. Len(s) : s[j].of = NoId) /\ Publish(s, others)
  BY DEF Talks, Plain
<1>2. \A m \in Calls : call'[m] = call[m]
  BY DEF Talks
<1>3. \A i \in DOMAIN log : i # NoId
  BY ItemFields DEF WholeInv
<1> QED
  BY <1>1, <1>2, <1>3, PublishPlaces

\* A call that ends publishes, of each event that it has gone through, every translation once.
LEMMA AnsweredOnce ==
  ASSUME WholeInv, NEW k \in Calls, call[k].todo = <<>>,
         NEW s \in Seq(Event), Publish(s, offers),
         \A j \in 1 .. Len(s) : s[j] \in call[k].out,
         \A j, m \in 1 .. Len(s) : s[j] = s[m] => j = m,
         \A e \in call[k].out : \E j \in 1 .. Len(s) : s[j] = e,
         NEW i \in DOMAIN log, Holds(call[k], i)
  PROVE  EachOnce(log', i)
<1>0. TypeInv /\ CallWhole(log, call[k]) /\ Made(log, i) = {} /\ log \in Seq(Event)
  BY DEF WholeInv, Places, CallsWhole, OnePlace, TypeInv, TypeOK
<1>1. /\ log'[i] = log[i]
      /\ \A n \in DOMAIN log' : n \in DOMAIN log \/ \E j \in 1 .. Len(s) : n = Len(log) + j
      /\ \A j \in 1 .. Len(s) : Len(log) + j \in DOMAIN log' /\ log'[Len(log) + j] = s[j]
      /\ \A n \in DOMAIN log : log'[n] = log[n]
  BY <1>0, Published
<1>2. OutOf(call[k], i) = {Into(log, i, lang) : lang \in Foreign(log, i)}
  <2>1. Len(call[k].todo) = 0
    BY EmptySeq
  <2>2. i \notin TodoIds(call[k])
    BY <2>1 DEF TodoIds
  <2>3. Passed(call[k], i) = Range(Languages)
    BY <2>2 DEF Passed
  <2>4. Range(Languages) \cap Foreign(log, i) = Foreign(log, i)
    BY DEF Foreign
  <2> QED
    BY <1>0, <2>3, <2>4 DEF CallWhole, OutWhole
<1>3. Foreign(log, i) \subseteq Langs /\ Foreign(log', i) = Foreign(log, i)
  <2>1. Range(Languages) \subseteq Langs
    BY LanguagesDiffer, LenProperties, ElementOfSeq DEF Range
  <2> QED
    BY <1>1, <2>1 DEF Foreign
<1>4. \A lang \in Langs : Into(log, i, lang).of = i /\ Into(log, i, lang).lang = lang
  <2>1. [event |-> log[i], id |-> i, alone |-> FALSE] \in Item
    BY <1>0, ItemFields DEF Item
  <2> QED
    BY <2>1, TranslationFields DEF Into
<1>5. ASSUME NEW n \in Made(log', i)
      PROVE  \E j \in 1 .. Len(s) : n = Len(log) + j /\ log'[n] = s[j] /\ s[j] \in OutOf(call[k], i)
  <2>1. n \in DOMAIN log' /\ log'[n].of = i
    BY <1>5 DEF Made
  <2>2. n \notin DOMAIN log
    BY <1>0, <1>1, <2>1 DEF Made
  <2>3. PICK j \in 1 .. Len(s) : n = Len(log) + j
    BY <1>1, <2>1, <2>2
  <2>4. log'[n] = s[j]
    BY <1>1, <2>3
  <2> QED
    BY <2>1, <2>3, <2>4 DEF OutOf
<1>6. ASSUME NEW lang \in Foreign(log', i)
      PROVE  \E j \in Made(log', i) : {n \in Made(log', i) : log'[n].lang = lang} = {j}
  <2> DEFINE e == Into(log, i, lang)
  <2>1. e \in OutOf(call[k], i) /\ e.lang = lang /\ e.of = i
    BY <1>2, <1>3, <1>4, <1>6
  <2>2. PICK j \in 1 .. Len(s) : s[j] = e
    BY <2>1 DEF OutOf
  <2>3. Len(log) + j \in Made(log', i) /\ log'[Len(log) + j] = e
    BY <1>1, <2>1, <2>2 DEF Made
  <2>4. ASSUME NEW n \in Made(log', i), log'[n].lang = lang PROVE n = Len(log) + j
    <3>1. PICK m \in 1 .. Len(s) : n = Len(log) + m /\ log'[n] = s[m] /\ s[m] \in OutOf(call[k], i)
      BY <1>5
    <3>2. PICK other \in Foreign(log, i) : s[m] = Into(log, i, other)
      BY <1>2, <3>1
    <3>3. other = lang
      BY <1>3, <1>4, <2>4, <3>1, <3>2
    <3>4. s[m] = s[j]
      BY <2>2, <3>2, <3>3
    <3>5. m = j
      BY <3>4
    <3> QED
      BY <3>1, <3>5
  <2> HIDE DEF e
  <2> QED
    BY <2>1, <2>3, <2>4
<1> QED
  BY <1>6 DEF EachOnce

\* So an answer leaves each event one place.
LEMMA AnsweredPlaces ==
  ASSUME WholeInv, NEW k \in Calls, Answered(k)
  PROVE  Places'
<1>0. /\ TypeInv /\ CallWhole(log, call[k]) /\ OneHolder /\ OnePlace /\ call \in [Calls -> CallState]
  BY DEF WholeInv, Places, CallsWhole, TypeInv, TypeOK
<1>1. Goes(k, NoCall) /\ call[k].todo = <<>>
  BY <1>0, AnsweredPublishes
<1>2. \A m \in Calls : call'[m] = IF m = k THEN NoCall ELSE call[m]
  BY <1>0, <1>1 DEF Goes
<1>3. CASE UNCHANGED <<log, offers>>
  BY <1>1, <1>3, NoCallWhole, GoesPlaces
<1>4. ASSUME NEW s \in Seq(Event), Publish(s, offers),
             \A j \in 1 .. Len(s) : s[j] \in call[k].out,
             \A j, m \in 1 .. Len(s) : s[j] = s[m] => j = m,
             \A e \in call[k].out : \E j \in 1 .. Len(s) : s[j] = e
      PROVE  Places'
  <2>1. \A j \in 1 .. Len(s) : s[j].of \in DOMAIN log \cup {NoId}
    BY <1>0, <1>4 DEF CallWhole, OutKnown
  <2>2. ASSUME NEW i \in DOMAIN log, NEW j \in 1 .. Len(s), s[j].of = i
        PROVE  /\ EachOnce(log', i)
               /\ \A o \in offers : ~OfferOf(o, i)
               /\ \A m \in Calls : ~Holds(call'[m], i)
    <3>1. Holds(call[k], i)
      BY <1>4, <2>2 DEF Holds, OutOf
    <3>2. EachOnce(log', i)
      BY <1>1, <1>4, <3>1, AnsweredOnce
    <3>3. \A m \in Calls : ~Holds(call'[m], i)
      BY <1>0, <1>2, <3>1, NoCallWhole DEF OneHolder
    <3> QED
      BY <1>0, <3>1, <3>2, <3>3 DEF OnePlace
  <2>3. \A m \in Calls : call'[m] = call[m] \/ call'[m] = NoCall
    BY <1>2
  <2>4. offers \in SUBSET offers
    OBVIOUS
  <2> QED
    BY <1>4, <2>1, <2>2, <2>3, <2>4, PublishPlaces
<1> QED
  BY <1>0, <1>3, <1>4, AnsweredPublishes

\* When its process dies, what the translator had is gone.
LEMMA PanicPlaces ==
  ASSUME WholeInv, NEW k \in Calls, Panic(k)
  PROVE  Places'
<1>1. UNCHANGED <<log, offers>> /\ \A m \in Calls : call'[m] = NoCall
  BY DEF Panic
<1>2. \A m \in Calls : CallWhole(log, call'[m]) /\ \A i : ~Holds(call'[m], i)
  BY <1>1, NoCallWhole
<1>3. OneOffer /\ OnePlace /\ LogWhole
  BY DEF WholeInv, Places
<1> QED
  BY <1>1, <1>2, <1>3 DEF Places, CallsWhole, OneHolder, OneOffer, OnePlace, LogWhole

\* Every step leaves each event one place, with all of its translations there.
LEMMA PlacesNext == WholeInv /\ [Next]_vars => Places'
<1> SUFFICES ASSUME WholeInv, [Next]_vars PROVE Places'
  OBVIOUS
<1>0. TypeInv /\ CacheRead /\ CallsWhole
  BY DEF WholeInv, Places
<1>1. CASE Talks
  BY <1>1, TalksPlaces
<1>2. CASE Silent
  <2>1. UNCHANGED <<log, call>> /\ offers' \subseteq offers /\ Places
    BY <1>2 DEF Silent, WholeInv
  <2> QED
    BY <2>1 DEF Places, CallsWhole, OneHolder, OneOffer, OnePlace, LogWhole
<1>3. ASSUME NEW k \in Calls, NEW o \in offers, TranslatorHandles(k, o) PROVE Places'
  <2>1. PICK c : Goes(k, c) /\ CallWhole(log, c) /\ \A i \in DOMAIN log : Holds(c, i) => OfferOf(o, i)
    BY <1>0, <1>3, HandlesWhole
  <2>2. UNCHANGED log /\ offers' = offers \ {o}
    BY <1>3 DEF TranslatorHandles
  <2> QED
    BY <2>1, <2>2, GoesPlaces
<1>4. ASSUME NEW k \in Calls, TranslatorCron(k) PROVE Places'
  <2>1. PICK c : Goes(k, c) /\ CallWhole(log, c) /\ \A i \in DOMAIN log : ~Holds(c, i)
    BY <1>0, <1>4, CronWhole
  <2>2. UNCHANGED <<log, offers>>
    BY <1>4 DEF TranslatorCron
  <2> QED
    BY <2>1, <2>2, GoesPlaces
<1>5. ASSUME NEW k \in Calls, Cached(k) \/ Untranslated(k) \/ Translated(k) PROVE Places'
  <2>1. PICK c : Goes(k, c) /\ CallWhole(log, c) /\ \A i \in DOMAIN log : Holds(c, i) => Holds(call[k], i)
    BY <1>0, <1>5, AnswerWhole DEF CallsWhole
  <2>2. UNCHANGED <<log, offers>>
    BY <1>0, <1>5, AnswerGoes
  <2> QED
    BY <2>1, <2>2, GoesPlaces
<1>6. ASSUME NEW k \in Calls, Failed(k) PROVE Places'
  <2>1. PICK c : Goes(k, c) /\ CallWhole(log, c) /\ \A i \in DOMAIN log : Holds(c, i) => Holds(call[k], i)
    BY <1>0, <1>6, FailedWhole DEF CallsWhole
  <2>2. UNCHANGED <<log, offers>>
    BY <1>6 DEF Failed
  <2> QED
    BY <2>1, <2>2, GoesPlaces
<1>7. ASSUME NEW k \in Calls, Panic(k) \/ Answered(k) PROVE Places'
  BY <1>7, PanicPlaces, AnsweredPlaces
<1> QED
  BY <1>0, <1>1, <1>2, <1>3, <1>4, <1>5, <1>6, <1>7, StepKinds DEF Translates

-----------------------------------------------------------------------------
(* What readers of a language get is in it. *)

\* No entry of the cache is for the language that its text is in.
LEMMA CacheNext == TypeInv /\ CacheRead /\ [Next]_vars => CacheRead'
<1> SUFFICES ASSUME TypeInv, CacheRead, [Next]_vars PROVE CacheRead'
  OBVIOUS
<1>1. CASE Talks \/ Silent
  BY <1>1 DEF Talks, Silent, CacheRead
<1>2. ASSUME NEW k \in Calls, Translated(k) PROVE CacheRead'
  <2>1. SpokenIn[TextAt(k)] # LangAt(k)
    BY <1>2 DEF Translated
  <2>2. \A x \in cache' : x \in cache \/ (x.is = x.lang /\ x.lang = LangAt(k) /\ x.text = TextAt(k))
    BY <1>2, CacheStep
  <2> QED
    BY <2>1, <2>2 DEF CacheRead
<1>3. ASSUME NEW k \in Calls, Translates(k), ~Translated(k) PROVE CacheRead'
  <2>1. cache' = cache \/ cache' = {}
    BY <1>3 DEF Translates, TranslatorHandles, TranslatorCron, Cached, Untranslated, Failed, Panic, Answered
  <2> QED
    BY <2>1 DEF CacheRead
<1> QED
  BY <1>1, <1>2, <1>3, StepKinds

\* What a call adds is in the language of its readers, and was not before.
LEMMA CallReads ==
  ASSUME TypeInv, CacheRead, CallsRead, NEW k \in Calls, Translates(k), ~Panic(k)
  PROVE  \E c : Goes(k, c) /\ \A e \in c.out : Reads(e)
<1>0. \A e \in call[k].out : Reads(e)
  BY DEF CallsRead
<1>1. ASSUME NEW o \in offers, TranslatorHandles(k, o) PROVE \E c : Goes(k, c) /\ \A e \in c.out : Reads(e)
  <2>1. PICK c \in CallState :
          /\ Goes(k, c)
          /\ \A e \in c.out : \E i \in o.batch : i \in DOMAIN log /\ IsHelp(log[i]) /\ e = HelpAnswer(log[i])
    BY <1>1, HandlesGoes
  <2>2. \A i \in DOMAIN log : HelpAnswer(log[i]).name = "chat"
    BY ItemFields, HelpFields
  <2> QED
    BY <2>1, <2>2 DEF Reads
<1>2. ASSUME TranslatorCron(k) PROVE \E c : Goes(k, c) /\ \A e \in c.out : Reads(e)
  <2>1. PICK c \in CallState, e \in Event : Goes(k, c) /\ c.out = {e} /\ e.name = "chat"
    BY <1>2, CronGoes
  <2> QED
    BY <2>1 DEF Reads
<1>3. ASSUME Cached(k) \/ Untranslated(k) \/ Translated(k) PROVE \E c : Goes(k, c) /\ \A e \in c.out : Reads(e)
  <2>1. PICK c \in CallState : Goes(k, c) /\ c.out = call[k].out \cup Gained(k)
    BY <1>3, AnswerGains
  <2>2. ItemAt(k) \in Item /\ LangAt(k) \in Langs /\ TextAt(k) = ItemAt(k).event.message.text
    BY <1>3, AnswerGains, AtFields
  <2>3. ASSUME NEW e \in Gained(k) PROVE Reads(e)
    <3>1. LangAt(k) # SpokenIn[TextAt(k)] /\ e = Translation(ItemAt(k), LangAt(k), LangAt(k))
      BY <2>3 DEF Gained
    <3>2. /\ e.lang = LangAt(k) /\ e.message = ItemAt(k).event.message
          /\ \A v \in e.to : v.lang = LangAt(k)
      BY <2>2, <3>1, TranslationFields
    <3> QED
      BY <2>2, <3>1, <3>2 DEF Reads
  <2> QED
    BY <1>0, <2>1, <2>3
<1>4. ASSUME Failed(k) PROVE \E c : Goes(k, c) /\ \A e \in c.out : Reads(e)
  BY <1>0, <1>4, NoCallIs, FailedGoes
<1>5. ASSUME Answered(k) PROVE \E c : Goes(k, c) /\ \A e \in c.out : Reads(e)
  BY <1>5, NoCallIs, AnsweredPublishes
<1> QED
  BY <1>1, <1>2, <1>3, <1>4, <1>5 DEF Translates

\* Every step keeps what is in the log and in the calls for readers of its language.
LEMMA ReadNext == ReadInv /\ [Next]_vars => ReadInv'
<1> SUFFICES ASSUME ReadInv, [Next]_vars PROVE LogRead' /\ CallsRead'
  BY TypeNext, CacheNext DEF ReadInv
<1>0. /\ TypeInv /\ CacheRead /\ LogRead /\ CallsRead /\ call \in [Calls -> CallState]
      /\ log \in Seq(Event)
  BY DEF ReadInv, TypeInv, TypeOK
<1>p. ASSUME NEW s \in Seq(Event), NEW others, Publish(s, others), \A j \in 1 .. Len(s) : Reads(s[j])
      PROVE  LogRead'
  <2>1. /\ \A i \in DOMAIN log : log'[i] = log[i]
        /\ \A i \in DOMAIN log' : i \in DOMAIN log \/ \E j \in 1 .. Len(s) : i = Len(log) + j
        /\ \A j \in 1 .. Len(s) : log'[Len(log) + j] = s[j]
    BY <1>0, <1>p, Published
  <2>2. \A i \in DOMAIN log' : Reads(log'[i])
    BY <1>0, <1>p, <2>1 DEF LogRead
  <2> QED
    BY <2>2 DEF LogRead
<1>1. CASE Talks
  <2>1. PICK s \in Seq(Event), others \in SUBSET offers :
          (\A j \in 1 .. Len(s) : s[j].name # "translation") /\ Publish(s, others)
    BY <1>1 DEF Talks, Plain
  <2>2. \A j \in 1 .. Len(s) : Reads(s[j])
    BY <2>1 DEF Reads
  <2>3. LogRead'
    BY <1>p, <2>1, <2>2
  <2> QED
    BY <1>0, <1>1, <2>3 DEF Talks, CallsRead
<1>2. CASE Silent
  BY <1>0, <1>2 DEF Silent, LogRead, CallsRead
<1>3. ASSUME NEW k \in Calls, Panic(k) PROVE LogRead' /\ CallsRead'
  <2>1. UNCHANGED log /\ \A m \in Calls : call'[m] = NoCall
    BY <1>3 DEF Panic
  <2> QED
    BY <1>0, <2>1, NoCallIs DEF LogRead, CallsRead
<1>4. ASSUME NEW k \in Calls, Translates(k), ~Panic(k) PROVE LogRead' /\ CallsRead'
  <2>1. PICK c : Goes(k, c) /\ \A e \in c.out : Reads(e)
    BY <1>0, <1>4, CallReads
  <2>2. \A m \in Calls : call'[m] = IF m = k THEN c ELSE call[m]
    BY <1>0, <2>1 DEF Goes
  <2>3. \A m \in Calls : \A e \in call'[m].out : Reads(e)
    BY <1>0, <2>1, <2>2 DEF CallsRead
  <2>4. CASE UNCHANGED log
    BY <1>0, <2>3, <2>4 DEF LogRead, CallsRead
  <2>5. ASSUME NEW s \in Seq(Event), Publish(s, offers), \A j \in 1 .. Len(s) : s[j] \in call[k].out
        PROVE  LogRead'
    <3>1. \A j \in 1 .. Len(s) : Reads(s[j])
      BY <1>0, <2>5 DEF CallsRead
    <3> QED
      BY <1>p, <2>5, <3>1
  <2>6. ASSUME Answered(k) PROVE UNCHANGED log \/ LogRead'
    BY <1>0, <2>5, <2>6, AnsweredPublishes
  <2>7. ASSUME ~Answered(k) PROVE UNCHANGED log
    BY <1>4, <2>7 DEF Translates, TranslatorHandles, TranslatorCron, Cached, Untranslated, Translated, Failed
  <2>8. CallsRead'
    BY <2>3 DEF CallsRead
  <2> QED
    BY <2>4, <2>6, <2>7, <2>8
<1> QED
  BY <1>0, <1>1, <1>2, <1>3, <1>4, StepKinds

\* However the calls of the translator interleave, and wherever the service fails or the process
\* dies: of an event the log has every translation into a foreign language, each once, or none,
\* and no reader is given a translation that is not into his language, or was not needed.
THEOREM AllOrNone == Spec => []AllLanguagesOrNone
<1> DEFINE Inv == ReadInv /\ WholeInv
<1>1. Init => Inv
  <2> SUFFICES ASSUME Init PROVE CacheRead /\ LogRead /\ CallsRead /\ Places
    BY TypeInit DEF ReadInv, WholeInv
  <2>1. log = <<>> /\ DOMAIN <<>> = {} /\ cache = {} /\ \A k \in Calls : call[k] = NoCall
    BY DEF Init
  <2>2. CallsWhole /\ CallsRead
    BY <2>1, NoCallIs, NoCallWhole DEF CallsWhole, CallsRead
  <2> QED
    BY <2>1, <2>2 DEF CacheRead, LogRead, Places, OneHolder, OneOffer, OnePlace, LogWhole
<1>2. Inv /\ [Next]_vars => Inv'
  BY ReadNext, PlacesNext DEF ReadInv, WholeInv
<1>3. Inv => AllLanguagesOrNone
  <2> SUFFICES ASSUME ReadInv, WholeInv PROVE AllLanguagesOrNone
    OBVIOUS
  <2>1. \A j \in DOMAIN log : Reads(log[j])
    BY DEF ReadInv, LogRead
  <2>2. ASSUME NEW i \in DOMAIN log, Translations(i) # {},
               NEW lang \in Range(Languages) \ {SpokenIn[log[i].message.text]}
        PROVE  Cardinality({j \in Translations(i) : log[j].lang = lang}) = 1
    <3>1. Made(log, i) = Translations(i) /\ lang \in Foreign(log, i)
      BY <2>2 DEF Made, Translations, Foreign
    <3>2. EachOnce(log, i)
      BY <2>2, <3>1 DEF WholeInv, Places, LogWhole
    <3>3. PICK j \in Translations(i) : {n \in Translations(i) : log[n].lang = lang} = {j}
      BY <3>1, <3>2 DEF EachOnce
    <3> QED
      BY <3>3, FS_Singleton
  <2> QED
    BY <2>1, <2>2 DEF AllLanguagesOrNone, Reads
<1> QED
  BY <1>1, <1>2, <1>3, PTL DEF Spec
=============================================================================
