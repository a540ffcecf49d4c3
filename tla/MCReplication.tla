---------------------------- MODULE MCReplication -----------------------------
(* Instances of Replication for TLC. *)
EXTENDS Replication, TLC

CONSTANTS c1, c2

(* Transactions of one and of two orders, for two customers. *)
MixedWork  == << <<c1, c2>>, <<c1>>, <<c2, c1>> >>
(* The experiment's transactions: one order each. *)
SingleWork == << <<c1>>, <<c2>>, <<c1>> >>
=============================================================================
