--------------------------- MODULE MCTwoPhaseCommit ---------------------------
(* Instances of TwoPhaseCommit for TLC. *)
EXTENDS TwoPhaseCommit, TLC

CONSTANTS t1, t2, t3

(* Every client reads from the first RM, or clients t2 and t3 from the second. *)
ReadFromFirst == [t \in Txn |-> 0]
ReadFromBoth  == [t \in Txn |-> IF t = t1 THEN 0 ELSE NumRM - 1]

(* One order for each of two customers. *)
OneOrderEach == [t \in Txn |-> <<2, 1>>]
(* t1 orders twice for the first customer, the others once for each of two. *)
MixedOrders  == [t \in Txn |-> IF t = t1 THEN <<1, 2>> ELSE <<2, 1>>]

(* No thread of the experiment; one that chose the first customer; one that *)
(* chose the last.                                                         *)
ClientsOnly     == [t \in Txn |-> Absent]
LastChoosesZero == [t \in Txn |-> IF t = t3 THEN 0 ELSE Absent]
T2ChoosesLast   == [t \in Txn |-> IF t = t2 THEN NumCustomers - 1 ELSE Absent]
=============================================================================
