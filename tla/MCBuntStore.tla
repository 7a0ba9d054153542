---------------------------- MODULE MCBuntStore ----------------------------
(* For BuntStore: a tag that lists two items and one that is not there, with updates that *)
(* set a tag or an item, one whose result is no number, one beyond the end, one that panics. *)
EXTENDS BuntStore

CONSTANT blank

MCStored == {[topic |-> <<blank>>, list |-> <<Zero, blank>>]}
MCUpdates ==
  LET U(n, l, num, i, res) == [name |-> n, list |-> l, number |-> num, index |-> i, result |-> res]
  IN  {U("topic", FALSE, FALSE, 0, Zero), U("topic", FALSE, TRUE, 0, blank), U("topic", TRUE, FALSE, 2, Zero),
       U("list", TRUE, TRUE, 0, Zero), U("list", TRUE, FALSE, 1, Zero), U("list", TRUE, FALSE, -1, blank)}
=============================================================================
