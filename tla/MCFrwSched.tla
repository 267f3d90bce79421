----------------------------- MODULE MCFrwSched -----------------------------
(* FrwSched on a small instance: one high and two normal queues, of        *)
(* different weights and lengths.                                          *)
EXTENDS FrwSched

CONSTANTS h, n1, n2

MCQueues == {h, n1, n2}
MCPolicy == [q \in MCQueues |-> IF q = h THEN "HI" ELSE "NORMAL"]
MCWeight == [q \in MCQueues |-> IF q = n1 THEN 2 ELSE 1]
MCMaxEvents == [q \in MCQueues |-> IF q = n1 THEN 2 ELSE 1]
=============================================================================
