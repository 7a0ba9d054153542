------------------------- MODULE MCPluginPipeline -------------------------
(* PluginPipeline with two plugins, one of which has an event filter, and    *)
(* the kinds of events that the filters and the hub tell apart.              *)
EXTENDS PluginPipeline

CONSTANTS asks, picky   \* a plugin without an event filter, and one with

\* The filter and the hub look at different fields, so one kind can have both.
Plain  == [internal |-> FALSE, target |-> FALSE, fits |-> {asks}]
Hidden == [internal |-> TRUE,  target |-> TRUE,  fits |-> {asks}]
AllKinds  == {Plain, Hidden}
OnlyPlain == {Plain}
=============================================================================
