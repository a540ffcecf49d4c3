------------------------------- MODULE TxnData -------------------------------
(***************************************************************************)
(* The data of the laptop ordering service and the pure operations on it:  *)
(* customer records, the reads and writes of a transaction, and the        *)
(* transaction log of a resource manager (RM), in memory and in its file.  *)
(*                                                                         *)
(* A log line and an applied operation carry a history field "by": the     *)
(* transaction whose write it is.  The code has no such field; no guard    *)
(* reads it, only properties do.                                           *)
(***************************************************************************)
EXTENDS Integers, Sequences, FiniteSets

CONSTANTS
    NumCustomers,  \* customers are numbered 0 .. NumCustomers - 1
    Txn,           \* the transactions; each is issued by a client of its own
    Seed,          \* stands in "by" for a transaction committed in the past
    Absent,        \* a key that a map does not hold
    MaxTxnId       \* bound: transaction_id never passes MaxTxnId

ASSUME DataAssumption ==
    /\ NumCustomers \in Nat \ {0}
    /\ MaxTxnId \in Nat
    /\ Seed \notin Txn
    /\ Absent \notin Int

Customer == 0 .. NumCustomers - 1
Key      == Customer \cup {-1}        \* -1: the id a default record carries
Writer   == Txn \cup {Seed}
TxnId    == 0 .. MaxTxnId

(* One read and one write of a transaction. *)
CustomerRecord == [cust : Key, last : Int]
CustomerOrder  == [cust : Customer, num : Int]

(* A line of the transaction log: op is 1 prepare, 2 commit, 3 abort. *)
TxnLogRequest == [op : 1 .. 3, cust : Key, num : Int, by : Writer]
(* An entry of smr_log. *)
MapOp         == [cust : Key, num : Int, by : Writer]

(* customer_record, and txn_log, as std::map: every key is bound or Absent. *)
CustomerMap == [Key -> Int \cup {Absent}]
TxnLogMap   == [TxnId -> Seq(TxnLogRequest) \cup {Absent}]
LogFile     == [TxnId -> Seq(TxnLogRequest)]

ASSUME AbsentAssumption == Absent \notin Seq(TxnLogRequest)

EmptyRecords == [k \in Key |-> Absent]
EmptyLog     == [id \in TxnId |-> Absent]

-----------------------------------------------------------------------------
(* What a client does with what it read. *)

(* The record of a customer the RM does not know. *)
NoRecord == [cust |-> -1, last |-> -1]

(* The RM's answer to a read of customer c. *)
RecordOf(cr, c) == IF cr[c] = Absent THEN NoRecord
                                     ELSE [cust |-> c, last |-> cr[c]]

(* Mutant: the record next to the customer's own. *)
BaseOfNext(rds, c) == IF c + 1 < Len(rds) /\ rds[c + 2].last > 0 THEN rds[c + 2].last ELSE 0

(* The number a client's new orders for customer c start after. *)
Base(rds, c) == IF c < Len(rds) /\ rds[c + 1].last > 0 THEN rds[c + 1].last ELSE 0

(* One thread per customer pushes its k orders under a shared lock: every  *)
(* interleaving of the m threads is possible.                              *)
Schedules(m, k) ==
    {s \in [1 .. (m * k) -> 0 .. (m - 1)] :
        \A c \in 0 .. (m - 1) : Cardinality({i \in DOMAIN s : s[i] = c}) = k}

WriteSets(rds, m, k) ==
    {[i \in 1 .. (m * k) |->
        [cust |-> s[i],
         num  |-> Base(rds, s[i]) + Cardinality({j \in 1 .. i : s[j] = s[i]})]] :
     s \in Schedules(m, k)}

(* The experiment's single thread: k orders for customer c. *)
WriteSetOf(rds, c, k) == [i \in 1 .. k |-> [cust |-> c, num |-> Base(rds, c) + i]]

-----------------------------------------------------------------------------
(* What an RM does with a transaction. *)

(* Mutant: only a read from the future conflicts. *)
ConflictIfAhead(cr, rd) == cr[rd.cust] # Absent /\ rd.last > cr[rd.cust]

(* TMPrepare: a read conflicts when its customer exists with another value. *)
(* A customer that does not exist conflicts with nothing.                   *)
Conflict(cr, rd) == cr[rd.cust] # Absent /\ rd.last # cr[rd.cust]

Valid(cr, rds) == \A i \in 1 .. Len(rds) : ~Conflict(cr, rds[i])

(* store_txn_log_in_txn_map: one prepare record per write. *)
PrepareRecords(t, ws) ==
    [i \in 1 .. Len(ws) |->
        [op |-> 1, cust |-> ws[i].cust, num |-> ws[i].num, by |-> t]]

AbortRecord(t) == [op |-> 3, cust |-> -1, num |-> -1, by |-> t]

(* std::map::insert: an entry that is already there stays as it is. *)
Insert(log, id, recs) == IF log[id] = Absent THEN [log EXCEPT ![id] = recs] ELSE log

(* update_value: append to the entry, or create it. *)
UpdateValue(log, id, rec) ==
    [log EXCEPT ![id] = IF log[id] = Absent THEN <<rec>> ELSE Append(log[id], rec)]

(* Mutant: the first record is skipped. *)
EntryButFirst(log, id) == IF log[id] \in {Absent, <<>>} THEN <<>> ELSE Tail(log[id])

(* The records TMCommit iterates over. *)
Entry(log, id) == IF log[id] = Absent THEN <<>> ELSE log[id]

(* Mutant: commit records still marked as prepared. *)
CommitAsPrepare(recs) == recs

(* The commit records TMCommit derives from them. *)
CommitRecords(recs) == [i \in 1 .. Len(recs) |-> [recs[i] EXCEPT !.op = 2]]

(* new_txn_log: each record followed by its commit record, under one id,   *)
(* and no other id.                                                        *)
CommittedEntry(recs) ==
    [i \in 1 .. (2 * Len(recs)) |->
        IF i % 2 = 1 THEN recs[(i + 1) \div 2] ELSE [recs[i \div 2] EXCEPT !.op = 2]]

CommitLog(id, recs) ==
    [j \in TxnId |-> IF j = id /\ recs # <<>> THEN CommittedEntry(recs) ELSE Absent]

(* store_txn_log_record.  The file is one list of lines, each with its id;  *)
(* recovery groups the lines by id, so the model keeps one list per id.     *)
AppendLines(file, id, recs) == [file EXCEPT ![id] = @ \o recs]

(* recovery_txn_log: update_value for every line of the file. *)
Recovered(file) == [id \in TxnId |-> IF file[id] = <<>> THEN Absent ELSE file[id]]

(* AdminThread: the operation it appends to smr_log. *)
OpOf(rec) == [cust |-> rec.cust, num |-> rec.num, by |-> rec.by]
=============================================================================
