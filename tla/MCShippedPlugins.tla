-------------------------- MODULE MCShippedPlugins --------------------------
(* ShippedPlugins with a sender, somebody to write to, three languages, and  *)
(* one message of each sort.                                                   *)
EXTENDS ShippedPlugins

CONSTANTS ann, bob, english, german, spanish, hello, active, help, slash

MCNick      == [u \in {ann, bob} |-> u]
MCSpokenIn  == [t \in {hello, active, help, slash} |-> IF t = hello THEN german ELSE english]
MCLanguages == <<german, spanish>>
\* Nobody excluded, or all who do not read English.
MCFilters   == {Everybody, {v \in Viewers : v.lang = english}}
Says(does, whole, text) == [does |-> does, nick |-> bob, whole |-> whole, text |-> text]
MCEmitted   == {<<hello, hello>>, <<slash, hello>>}
MCMessages  == {Says("say", TRUE, hello), Says("/to", TRUE, hello), Says("/to", TRUE, slash),
                Says("/to", FALSE, hello), Says("/fg", TRUE, hello), Says("/help", TRUE, help)}

\* The translator's calls are interchangeable.
CallSymmetry == Permutations(Calls)
=============================================================================
