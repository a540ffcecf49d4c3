----------------------------- MODULE MCOrderQueue -----------------------------
(* An instance of OrderQueue for TLC. *)
EXTENDS OrderQueue, TLC

CONSTANTS h1, h2, h3

(* h1 places two orders, one after the other; the others place one each. *)
TwoOneOne == [h \in Handler |-> IF h = h1 THEN 2 ELSE 1]
=============================================================================
