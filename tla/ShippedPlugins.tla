--------------------------- MODULE ShippedPlugins ---------------------------
(***************************************************************************)
(* The two plugins of the repository, base-commands and google-translate:    *)
(* what they answer to messages, commands and each other's answers, and whom  *)
(* the answers are for.  Calls of HandleEvents run next to each other; the    *)
(* translator goes through its languages one by one, asking a cache that all   *)
(* its calls share and then a service that may fail, and a panic ends its      *)
(* process, which nobody starts again.                                        *)
(*                                                                         *)
(* An event is offered to each plugin that is not in its chain; in which       *)
(* order handlePlugins does so and when it publishes is PluginPipeline's.      *)
(* A target filter is the set of viewers that it accepts, one that accepts     *)
(* everybody is the same as none.                                            *)
(***************************************************************************)
EXTENDS Naturals, Sequences, FiniteSets, SequencesExt

CONSTANTS
  Users, Langs,
  Nick,         \* the nick of each user; buntdb lets two users have the same
  Filters,      \* filters that a client may ask for
  Senders, Messages,   \* who sends something, and what
  Emitted,      \* batches that other plugins emit
  Texts,        \* what can be said, ...
  Slashed,      \* ... of which these begin with a slash
  SpokenIn,     \* the language that the service detects
  ActiveText, HelpText,   \* the plugins' own texts
  Languages,    \* the translator's languages
  CacheSize, Calls,
  MaxBegun, MaxEvents   \* messages that nothing led to, and events in all

Viewers   == [user : Users, lang : Langs]
Everybody == Viewers
Nicks     == {Nick[u] : u \in Users}
Plugins   == {"base-commands", "google-translate"}
\* What a message says: text, or a command with what it needs (whole) or without.
Message == [does : {"say", "/to", "/fg", "/help"}, nick : Nicks, whole : BOOLEAN, text : Texts]

ASSUME TextsTyped   == /\ Slashed \subseteq Texts /\ {ActiveText, HelpText} \subseteq Texts \ Slashed
                       /\ SpokenIn \in [Texts -> Langs]
ASSUME NicksTyped   == Nick \in [Users -> Nicks] /\ Users # {}
ASSUME FiltersTyped == Everybody \in Filters /\ Filters \subseteq SUBSET Viewers
\* No two of them begin with the same two letters: whoever reads one reads no other.
ASSUME LanguagesDiffer == Languages \in Seq(Langs) /\ IsInjective(Languages)
ASSUME MessagesTyped == Senders \subseteq Users /\ Messages \subseteq Message /\ Emitted \subseteq Seq(Texts)
ASSUME BoundsAreNat == {CacheSize, MaxBegun, MaxEvents} \subseteq Nat

VARIABLES
  log,       \* the events, in the order of their creation
  offers,    \* plugins and batches that handlePlugins has before it
  call,      \* the translator's calls of HandleEvents and Cron
  cache,     \* its ARC cache
  hasCache,  \* whether it was configured with a cache_size
  up         \* its process is alive

vars == <<log, offers, call, cache, hasCache, up>>

Ids    == 1 .. MaxEvents
NoId   == 0
\* An event with its filter (to), the one that a client asked for with a command (asked), whom
\* it comes from, the plugins it comes from, the message that began it and what it translates.
Event == [name : {"chat", "command", "translation"}, message : Message, to : SUBSET Viewers,
          asked : SUBSET Viewers, by : Users, lang : Langs, chain : SUBSET Plugins,
          root : Ids \cup {NoId}, of : Ids \cup {NoId}]
\* An event that a call has to translate; the help text, which is in no log yet, may fail alone.
Item == [event : Event, id : Ids \cup {NoId}, alone : BOOLEAN]
\* A call has items before it, and is at the next language of the first of them.
CallState == [todo : Seq(Item), next : Nat \ {0}, out : SUBSET Event, runs : BOOLEAN]
NoCall == [todo |-> <<>>, next |-> 1, out |-> {}, runs |-> FALSE]

TypeOK ==
  /\ log \in Seq(Event) /\ Len(log) <= MaxEvents
  /\ offers \subseteq [plugin : Plugins, batch : SUBSET Ids]
  /\ call \in [Calls -> CallState]
  /\ \A k \in Calls : call[k].todo # <<>> => call[k].next <= Len(Languages)
  /\ cache \subseteq [text : Texts, lang : Langs, is : Langs] /\ Cardinality(cache) <= CacheSize
  /\ hasCache \in BOOLEAN /\ up \in BOOLEAN

Init ==
  /\ log = <<>> /\ offers = {} /\ cache = {} /\ up = TRUE
  /\ call = [k \in Calls |-> NoCall]
  /\ hasCache \in BOOLEAN

-----------------------------------------------------------------------------
(* Creating events. *)

\* A batch as the sequence that it is.
InOrder(batch) ==
  LET places == 1 .. Cardinality(batch) IN
  CHOOSE s \in [places -> batch] : \A i, j \in places : i < j => s[i] < s[j]

Own(u)   == {v \in Viewers : v.user = u}
Named(n) == {v \in Viewers : Nick[v.user] = n}

\* A batch comes from one place.  The plugins that it does not come from are offered it,
\* after what else is offered.
Publish(events, others) ==
  /\ Len(log) + Len(events) <= MaxEvents
  /\ log' = log \o events
  /\ offers' = others \cup
       {[plugin |-> p, batch |-> Len(log) + 1 .. Len(log) + Len(events)] :
          p \in Plugins \ UNION {events[i].chain : i \in DOMAIN events}}

\* The bound of what is begun.
Begun  == {i \in DOMAIN log : log[i].root = i \/ (log[i].name = "chat" /\ log[i].root = NoId)}
Begins == Cardinality(Begun) < MaxBegun

\* ReadLoop: a chat message for whom the client asks, a command for its sender among them.
Say(u, m, asked) ==
  /\ Begins
  /\ m.does = "say" => m.text \notin Slashed
  /\ Publish(<<[name |-> IF m.does = "say" THEN "chat" ELSE "command", message |-> m,
                to |-> IF m.does = "say" THEN asked ELSE asked \cap Own(u),
                asked |-> asked, by |-> u, lang |-> SpokenIn[m.text], chain |-> {},
                root |-> Len(log) + 1, of |-> NoId]>>, offers)
  /\ UNCHANGED <<call, cache, hasCache, up>>

Chat(text, to, e, p) ==
  [e EXCEPT !.name = "chat", !.message = [@ EXCEPT !.does = "say", !.text = text],
            !.to = to, !.chain = @ \cup {p}, !.of = NoId]

\* What a plugin says of its own: from nobody, about nothing.
Spontaneous(text, chain) ==
  [name |-> "chat", message |-> [does |-> "say", nick |-> Nick[CHOOSE u \in Users : TRUE],
                                 whole |-> TRUE, text |-> text],
   to |-> Everybody, asked |-> Everybody, by |-> CHOOSE u \in Users : TRUE,
   lang |-> SpokenIn[text], chain |-> chain, root |-> NoId, of |-> NoId]

\* Another plugin emits a batch.
Emit ==
  /\ Begins
  /\ \E t \in Emitted : Publish([i \in DOMAIN t |-> Spontaneous(t[i], {})], offers)
  /\ UNCHANGED <<call, cache, hasCache, up>>

\* Its own HandleEvents has nothing to add.  Which plugin is skipped is another story.
BaseCron ==
  /\ Begins
  /\ \E p \in Plugins : Publish(<<Spontaneous(ActiveText, {p})>>, offers)
  /\ UNCHANGED <<call, cache, hasCache, up>>

-----------------------------------------------------------------------------
(* base-commands. *)

\* A bug for the properties to notice: the parentheses are forgotten, and && binds tighter.
ToFilterLoose(e) == Named(e.message.nick) \cup (Own(e.by) \cap e.asked)

\* "(nick || own) && (original_target_filter)"
ToFilter(e) == (Named(e.message.nick) \cup Own(e.by)) \cap e.asked

\* /to and /fg say nothing if something is missing.
HasAnswer(e) == e.name = "command" /\ (e.message.does \in {"/to", "/fg"} => e.message.whole)

\* /to, /fg and /help.  /fg forgets the filter that the sender asked for.
Command(e) ==
  LET m == e.message IN
    CASE m.does = "/to"   -> Chat(m.text, ToFilter(e), e, "base-commands")
      [] m.does = "/fg"   -> Chat(m.text, Everybody, e, "base-commands")
      [] m.does = "/help" -> Chat(HelpText, Own(e.by), e, "base-commands")

\* HandleEvents
BaseHandles(o) ==
  /\ o.plugin = "base-commands" /\ o \in offers
  /\ LET commands == InOrder({i \in o.batch : HasAnswer(log[i])})
     IN  IF commands = <<>> THEN offers' = offers \ {o} /\ UNCHANGED log
           ELSE Publish([j \in DOMAIN commands |-> Command(log[commands[j]])], offers \ {o})
  /\ UNCHANGED <<call, cache, hasCache, up>>

-----------------------------------------------------------------------------
(* google-translate. *)

Idle(k) == ~call[k].runs

\* A message is to be translated into every language, if it does not look like a command, and
\* so is the answer to /help.
HelpAnswer(e)   == Chat(HelpText, Own(e.by), e, "google-translate")
IsHelp(e)       == e.name = "command" /\ e.message.does = "/help"
Translatable(e) == e.name = "chat" /\ e.message.text \notin Slashed /\ Languages # <<>>
ItemOf(i) == IF IsHelp(log[i]) THEN [event |-> HelpAnswer(log[i]), id |-> NoId, alone |-> TRUE]
                               ELSE [event |-> log[i], id |-> i, alone |-> FALSE]

\* HandleEvents begins.
TranslatorHandles(k, o) ==
  /\ up /\ Idle(k) /\ o.plugin = "google-translate" /\ o \in offers /\ offers' = offers \ {o}
  /\ LET batch == InOrder({i \in o.batch : Translatable(ItemOf(i).event)}) IN
       call' = [call EXCEPT ![k] = [todo |-> [j \in DOMAIN batch |-> ItemOf(batch[j])],
                                    next |-> 1,
                                    out  |-> {HelpAnswer(log[i]) : i \in {j \in o.batch : IsHelp(log[j])}},
                                    runs |-> TRUE]]
  /\ UNCHANGED <<log, cache, hasCache, up>>

\* Cron: the text, and its translations.
TranslatorCron(k) ==
  /\ up /\ Idle(k) /\ Begins
  /\ LET e    == Spontaneous(ActiveText, {"google-translate"})
         todo == IF Translatable(e) THEN <<[event |-> e, id |-> NoId, alone |-> FALSE]>> ELSE <<>>
     IN  call' = [call EXCEPT ![k] = [todo |-> todo, next |-> 1, out |-> {e}, runs |-> TRUE]]
  /\ UNCHANGED <<log, offers, cache, hasCache, up>>

\* Without the process handlePlugins logs an error and goes on.
TranslatorIsDead(o) ==
  /\ ~up /\ o.plugin = "google-translate" /\ o \in offers /\ offers' = offers \ {o}
  /\ UNCHANGED <<log, call, cache, hasCache, up>>

Busy(k)   == call[k].runs /\ call[k].todo # <<>>
ItemAt(k) == Head(call[k].todo)
LangAt(k) == Languages[call[k].next]
TextAt(k) == ItemAt(k).event.message.text
Hits(k)   == {x \in cache : x.text = TextAt(k) /\ x.lang = LangAt(k)}

\* "(original) && language", from the same user.
Translation(t, lang, is) ==
  [t.event EXCEPT !.name = "translation", !.to = @ \cap {v \in Viewers : v.lang = lang},
                  !.lang = is, !.chain = @ \cup {"google-translate"}, !.of = t.id]

\* The inner loop goes on with the next language, the outer one with the next event.
Done(k, new) ==
  LET c    == [call[k] EXCEPT !.out = @ \cup new]
      last == c.next = Len(Languages)
  IN  call' = [call EXCEPT ![k] = IF last THEN [c EXCEPT !.todo = Tail(@), !.next = 1]
                                          ELSE [c EXCEPT !.next = @ + 1]]

Cached(k) ==
  /\ Busy(k) /\ hasCache
  /\ \E x \in Hits(k) : Done(k, {Translation(ItemAt(k), LangAt(k), x.is)})
  /\ UNCHANGED <<log, offers, cache, hasCache, up>>

Asks(k) == Busy(k) /\ hasCache /\ Hits(k) = {}

\* The service's answer.  What is in the language already is neither answered nor remembered.
Untranslated(k) ==
  /\ Asks(k) /\ SpokenIn[TextAt(k)] = LangAt(k)
  /\ Done(k, {})
  /\ UNCHANGED <<log, offers, cache, hasCache, up>>

\* A bug for the properties to notice.
PushedOutNever == {{}}

\* cache.Add pushes an entry out when there are cache_size of them.
PushedOut == IF Cardinality(cache) < CacheSize THEN {{}} ELSE {{x} : x \in cache}

Translated(k) ==
  /\ Asks(k)
  /\ SpokenIn[TextAt(k)] # LangAt(k)
  /\ Done(k, {Translation(ItemAt(k), LangAt(k), LangAt(k))})
  /\ \E y \in PushedOut :
       cache' = (cache \ y) \cup {[text |-> TextAt(k), lang |-> LangAt(k), is |-> LangAt(k)]}
  /\ UNCHANGED <<log, offers, hasCache, up>>

\* A bug for the properties to notice: what was done is returned without the error.
FailedKeepsOut(k) == [call[k] EXCEPT !.todo = <<>>]

\* The answer to the whole call is the error, and what it has is dropped; but for the help
\* text, whose translations end there.
AfterFailure(k) ==
  IF ItemAt(k).alone THEN [call[k] EXCEPT !.todo = Tail(@), !.next = 1] ELSE NoCall

Failed(k) ==
  /\ Asks(k)
  /\ call' = [call EXCEPT ![k] = AfterFailure(k)]
  /\ UNCHANGED <<log, offers, cache, hasCache, up>>

\* There is no cache if none was configured, and a language code may be shorter than the two
\* letters that are cut from it: the process dies, and all its calls fail.
Panic(k) ==
  /\ Busy(k) /\ (~hasCache \/ Asks(k))
  /\ up' = FALSE /\ cache' = {} /\ call' = [c \in Calls |-> NoCall]
  /\ UNCHANGED <<log, offers, hasCache>>

\* HandleEvents and Cron return, and the hub goes on with the answer.
Answered(k) ==
  /\ call[k].runs /\ call[k].todo = <<>>
  /\ call' = [call EXCEPT ![k] = NoCall]
  /\ IF call[k].out = {} THEN UNCHANGED <<log, offers>> ELSE Publish(SetToSeq(call[k].out), offers)
  /\ UNCHANGED <<cache, hasCache, up>>

Next ==
  \/ Emit \/ BaseCron
  \/ \E u \in Senders, m \in Messages, f \in Filters : Say(u, m, f)
  \/ \E o \in offers : BaseHandles(o) \/ TranslatorIsDead(o) \/ \E k \in Calls : TranslatorHandles(k, o)
  \/ \E k \in Calls : \/ TranslatorCron(k) \/ Cached(k) \/ Untranslated(k) \/ Translated(k)
                      \/ Failed(k) \/ Panic(k) \/ Answered(k)

Spec == Init /\ [][Next]_vars

-----------------------------------------------------------------------------
\* Whom the first message of a conversation lets its consequences reach.
Privy(m) ==
  CASE m.message.does = "say"   -> m.to
    [] m.message.does = "/to"   -> (Named(m.message.nick) \cup Own(m.by)) \cap m.asked
    [] m.message.does = "/help" -> Own(m.by)
    [] m.message.does = "/fg"   -> Everybody

\* Whatever the plugins make of a private message, of each other's answers and of their
\* translations, nobody sees any of it whom the message was not for.
PrivateStaysPrivate ==
  \A i \in DOMAIN log : log[i].root # NoId => log[i].to \subseteq Privy(log[log[i].root])

\* A message is translated into all languages but its own, each once, or, when the service
\* fails or the process dies halfway, into none; and what a language's readers get is in it.
Translations(i) == {j \in DOMAIN log : log[j].of = i}
AllLanguagesOrNone ==
  /\ \A i \in DOMAIN log : Translations(i) # {} =>
       \A l \in Range(Languages) \ {SpokenIn[log[i].message.text]} :
         Cardinality({j \in Translations(i) : log[j].lang = l}) = 1
  /\ \A j \in DOMAIN log : log[j].name = "translation" =>
       log[j].lang # SpokenIn[log[j].message.text] /\ \A v \in log[j].to : v.lang = log[j].lang
=============================================================================
