----------------------------- MODULE MCDelivery -----------------------------
(* For Delivery: who is in the room at the start, and two filters: one for an account in a  *)
(* language, one that does not compile.  What the server tells is not filtered.             *)
EXTENDS Delivery

CONSTANTS c1, Ann, English, German

MCPresent == {c1}
MCFilters == {[compiles |-> TRUE, ids |-> {Ann}, langs |-> {English}],
              [compiles |-> FALSE, ids |-> {}, langs |-> {}]}
=============================================================================
