---------------------------- MODULE TxnData_proofs ----------------------------
(* What the operators of TxnData return: lemmas for the proofs about the    *)
(* modules that use them.                                                   *)
EXTENDS TxnData, FiniteSetTheorems, TLAPS

(* The answer to a read of a customer is a customer record. *)
LEMMA RecordOfType ==
    ASSUME NEW cr \in CustomerMap, NEW c \in Customer
    PROVE  RecordOf(cr, c) \in CustomerRecord
  BY DEF CustomerMap, Customer, Key, RecordOf, NoRecord, CustomerRecord

(* New orders are numbered by integers, whatever was read. *)
LEMMA BaseType ==
    ASSUME NEW rds \in Seq(CustomerRecord), NEW c \in Nat
    PROVE  Base(rds, c) \in Int
  <1>1. CASE c < Len(rds)
    <2>1. c + 1 \in 1 .. Len(rds)
      BY <1>1
    <2>2. rds[c + 1] \in CustomerRecord
      BY <2>1
    <2> QED
      BY <2>2 DEF Base, CustomerRecord
  <1>2. CASE ~(c < Len(rds))
    BY <1>2 DEF Base
  <1> QED
    BY <1>1, <1>2

(* Every write set of a client is a sequence of orders. *)
LEMMA WriteSetsType ==
    ASSUME NEW rds \in Seq(CustomerRecord), NEW m \in 1 .. NumCustomers,
           NEW k \in Nat, NEW ws \in WriteSets(rds, m, k)
    PROVE  ws \in Seq(CustomerOrder)
  <1> DEFINE n == m * k
  <1>1. m \in Nat /\ n \in Nat
    BY DataAssumption
  <1>2. PICK s \in Schedules(m, k) :
          ws = [i \in 1 .. n |->
                  [cust |-> s[i],
                   num  |-> Base(rds, s[i]) + Cardinality({j \in 1 .. i : s[j] = s[i]})]]
    BY DEF WriteSets
  <1>3. s \in [1 .. n -> 0 .. (m - 1)]
    BY DEF Schedules
  <1>4. ASSUME NEW i \in 1 .. n
        PROVE  [cust |-> s[i],
                num  |-> Base(rds, s[i]) + Cardinality({j \in 1 .. i : s[j] = s[i]})]
                 \in CustomerOrder
    <2>1. s[i] \in Customer /\ s[i] \in Nat
      BY <1>1, <1>3, DataAssumption DEF Customer
    <2>2. Cardinality({j \in 1 .. i : s[j] = s[i]}) \in Nat
      <3>1. IsFiniteSet(1 .. i)
        BY <1>1, FS_Interval
      <3> QED
        BY <3>1, FS_Subset, FS_CardinalityType
    <2>3. Base(rds, s[i]) \in Int
      BY <2>1, BaseType
    <2> QED
      BY <2>1, <2>2, <2>3 DEF CustomerOrder
  <1>5. ws \in [1 .. n -> CustomerOrder]
    BY <1>2, <1>4
  <1> QED
    BY <1>1, <1>5

(* So is what a thread of the experiment writes. *)
LEMMA WriteSetOfType ==
    ASSUME NEW rds \in Seq(CustomerRecord), NEW c \in Customer, NEW k \in Nat
    PROVE  WriteSetOf(rds, c, k) \in Seq(CustomerOrder)
  <1>1. c \in Nat
    BY DataAssumption DEF Customer
  <1>2. Base(rds, c) \in Int
    BY <1>1, BaseType
  <1>3. \A i \in 1 .. k : [cust |-> c, num |-> Base(rds, c) + i] \in CustomerOrder
    BY <1>2 DEF CustomerOrder
  <1>4. WriteSetOf(rds, c, k) \in [1 .. k -> CustomerOrder]
    BY <1>3 DEF WriteSetOf
  <1> QED
    BY <1>4

(* A client that reads at all also orders. *)
LEMMA WriteSetsOrder ==
    ASSUME NEW rds, NEW m \in 1 .. NumCustomers, NEW k \in Nat \ {0},
           NEW ws \in WriteSets(rds, m, k)
    PROVE  ws # <<>>
  <1> DEFINE n == m * k
  <1>1. n \in Nat /\ n > 0
    BY DataAssumption
  <1>2. DOMAIN ws = 1 .. n
    BY DEF WriteSets
  <1> HIDE DEF n
  <1>3. 1 \in DOMAIN ws
    BY <1>1, <1>2
  <1> QED
    BY <1>3

LEMMA WriteSetOfOrders ==
    ASSUME NEW rds, NEW c, NEW k \in Nat \ {0}
    PROVE  WriteSetOf(rds, c, k) # <<>>
  <1>1. 1 \in DOMAIN WriteSetOf(rds, c, k)
    BY DEF WriteSetOf
  <1> QED
    BY <1>1

(* The records made from a write set are prepare records of the log. *)
LEMMA PrepareRecordsType ==
    ASSUME NEW t \in Writer, NEW ws \in Seq(CustomerOrder)
    PROVE  PrepareRecords(t, ws) \in Seq(TxnLogRequest)
  <1>1. Len(ws) \in Nat /\ \A i \in 1 .. Len(ws) : ws[i] \in CustomerOrder
    OBVIOUS
  <1>2. \A i \in 1 .. Len(ws) :
          [op |-> 1, cust |-> ws[i].cust, num |-> ws[i].num, by |-> t] \in TxnLogRequest
    BY <1>1, DataAssumption DEF CustomerOrder, Customer, Key, TxnLogRequest
  <1>3. PrepareRecords(t, ws) \in [1 .. Len(ws) -> TxnLogRequest]
    BY <1>2 DEF PrepareRecords
  <1> QED
    BY <1>1, <1>3

LEMMA AbortRecordType ==
    ASSUME NEW t \in Txn
    PROVE  AbortRecord(t) \in TxnLogRequest
  BY DEF AbortRecord, TxnLogRequest, Key, Writer

(* A commit record differs from a log record in nothing but its op. *)
LEMMA CommittedType ==
    ASSUME NEW rec \in TxnLogRequest
    PROVE  [rec EXCEPT !.op = 2] \in TxnLogRequest
  BY DEF TxnLogRequest

LEMMA CommitRecordsType ==
    ASSUME NEW recs \in Seq(TxnLogRequest)
    PROVE  CommitRecords(recs) \in Seq(TxnLogRequest)
  <1>1. Len(recs) \in Nat /\ \A i \in 1 .. Len(recs) : recs[i] \in TxnLogRequest
    OBVIOUS
  <1>2. CommitRecords(recs) \in [1 .. Len(recs) -> TxnLogRequest]
    BY <1>1, CommittedType DEF CommitRecords
  <1> QED
    BY <1>1, <1>2

(* The entry TMCommit leaves: both halves of every pair are log records. *)
LEMMA CommittedEntryType ==
    ASSUME NEW recs \in Seq(TxnLogRequest)
    PROVE  CommittedEntry(recs) \in Seq(TxnLogRequest)
  <1> DEFINE n == 2 * Len(recs)
             e(i) == IF i % 2 = 1 THEN recs[(i + 1) \div 2]
                                  ELSE [recs[i \div 2] EXCEPT !.op = 2]
  <1>1. Len(recs) \in Nat /\ n \in Nat /\ \A i \in 1 .. Len(recs) : recs[i] \in TxnLogRequest
    OBVIOUS
  <1>2. ASSUME NEW i \in 1 .. n
        PROVE  e(i) \in TxnLogRequest
    <2>1. CASE i % 2 = 1
      <3>1. (i + 1) \div 2 \in 1 .. Len(recs)
        BY <1>1, <2>1
      <3> QED
        BY <1>1, <2>1, <3>1
    <2>2. CASE i % 2 # 1
      <3>1. i \div 2 \in 1 .. Len(recs)
        BY <1>1, <2>2
      <3> QED
        BY <1>1, <2>2, <3>1, CommittedType
    <2> QED
      BY <2>1, <2>2
  <1>3. CommittedEntry(recs) = [i \in 1 .. n |-> e(i)]
    BY DEF CommittedEntry
  <1>4. CommittedEntry(recs) \in [1 .. n -> TxnLogRequest]
    BY <1>2, <1>3
  <1> QED
    BY <1>1, <1>4

LEMMA CommitLogType ==
    ASSUME NEW id \in TxnId, NEW recs \in Seq(TxnLogRequest)
    PROVE  CommitLog(id, recs) \in TxnLogMap
  BY CommittedEntryType DEF CommitLog, TxnLogMap

LEMMA InsertType ==
    ASSUME NEW log \in TxnLogMap, NEW id \in TxnId, NEW recs \in Seq(TxnLogRequest)
    PROVE  Insert(log, id, recs) \in TxnLogMap
  BY DEF Insert, TxnLogMap

LEMMA UpdateValueType ==
    ASSUME NEW log \in TxnLogMap, NEW id \in TxnId, NEW rec \in TxnLogRequest
    PROVE  UpdateValue(log, id, rec) \in TxnLogMap
  BY DEF UpdateValue, TxnLogMap

LEMMA EntryType ==
    ASSUME NEW log \in TxnLogMap, NEW id \in TxnId
    PROVE  Entry(log, id) \in Seq(TxnLogRequest)
  BY DEF Entry, TxnLogMap

LEMMA AppendLinesType ==
    ASSUME NEW file \in LogFile, NEW id \in TxnId, NEW recs \in Seq(TxnLogRequest)
    PROVE  AppendLines(file, id, recs) \in LogFile
  BY DEF AppendLines, LogFile

LEMMA RecoveredType ==
    ASSUME NEW file \in LogFile
    PROVE  Recovered(file) \in TxnLogMap
  BY DEF Recovered, LogFile, TxnLogMap

LEMMA OpOfType ==
    ASSUME NEW rec \in TxnLogRequest
    PROVE  OpOf(rec) \in MapOp
  BY DEF OpOf, TxnLogRequest, MapOp

LEMMA EmptyTypes == EmptyRecords \in CustomerMap /\ EmptyLog \in TxnLogMap
  BY DEF EmptyRecords, CustomerMap, EmptyLog, TxnLogMap

-----------------------------------------------------------------------------
(* What a log holds, as a set: most facts about logs are not about order.   *)
Records(s)  == {s[i] : i \in DOMAIN s}
Lines(file) == UNION {Records(file[id]) : id \in TxnId}

LEMMA RecordsType ==
    ASSUME NEW recs \in Seq(TxnLogRequest)
    PROVE  Records(recs) \subseteq TxnLogRequest
  BY DEF Records

LEMMA LinesType ==
    ASSUME NEW file \in LogFile
    PROVE  Lines(file) \subseteq TxnLogRequest
  BY DEF Lines, LogFile, Records

(* Appending to a sequence adds what is appended and loses nothing. *)
LEMMA RecordsOfConcat ==
    ASSUME NEW a \in Seq(TxnLogRequest), NEW b \in Seq(TxnLogRequest)
    PROVE  Records(a \o b) = Records(a) \cup Records(b)
  <1>1. /\ a \o b \in Seq(TxnLogRequest) /\ Len(a \o b) = Len(a) + Len(b)
        /\ DOMAIN a = 1 .. Len(a) /\ DOMAIN b = 1 .. Len(b)
        /\ DOMAIN (a \o b) = 1 .. (Len(a) + Len(b)) /\ Len(a) \in Nat /\ Len(b) \in Nat
    OBVIOUS
  <1>2. \A i \in 1 .. (Len(a) + Len(b)) :
          (a \o b)[i] = IF i <= Len(a) THEN a[i] ELSE b[i - Len(a)]
    BY <1>1
  <1>3. ASSUME NEW i \in 1 .. (Len(a) + Len(b))
        PROVE  (a \o b)[i] \in Records(a) \cup Records(b)
    <2>1. CASE i <= Len(a)
      <3>1. i \in DOMAIN a /\ (a \o b)[i] = a[i]
        BY <1>1, <1>2, <2>1
      <3> QED
        BY <3>1 DEF Records
    <2>2. CASE ~(i <= Len(a))
      <3>1. i - Len(a) \in DOMAIN b /\ (a \o b)[i] = b[i - Len(a)]
        BY <1>1, <1>2, <2>2
      <3> QED
        BY <3>1 DEF Records
    <2> QED
      BY <2>1, <2>2
  <1>4. ASSUME NEW i \in DOMAIN a
        PROVE  a[i] \in Records(a \o b)
    <2>1. i \in DOMAIN (a \o b) /\ (a \o b)[i] = a[i]
      BY <1>1, <1>2
    <2> QED
      BY <2>1 DEF Records
  <1>5. ASSUME NEW i \in DOMAIN b
        PROVE  b[i] \in Records(a \o b)
    <2>1. i + Len(a) \in DOMAIN (a \o b) /\ (a \o b)[i + Len(a)] = b[i]
      <3>1. i + Len(a) \in 1 .. (Len(a) + Len(b)) /\ ~(i + Len(a) <= Len(a))
            /\ (i + Len(a)) - Len(a) = i
        BY <1>1
      <3> QED
        BY <1>1, <1>2, <3>1
    <2> QED
      BY <2>1 DEF Records
  <1> QED
    BY <1>1, <1>3, <1>4, <1>5 DEF Records

(* The log file grows by exactly the lines that are appended. *)
LEMMA AppendedLines ==
    ASSUME NEW file \in LogFile, NEW id \in TxnId, NEW recs \in Seq(TxnLogRequest)
    PROVE  /\ Lines(AppendLines(file, id, recs)) = Lines(file) \cup Records(recs)
           /\ \A j \in TxnId : Records(AppendLines(file, id, recs)[j]) =
                  IF j = id THEN Records(file[j]) \cup Records(recs) ELSE Records(file[j])
  <1>1. file[id] \in Seq(TxnLogRequest) /\ DOMAIN file = TxnId
    BY DEF LogFile
  <1>2. \A j \in TxnId : AppendLines(file, id, recs)[j] = IF j = id THEN file[j] \o recs ELSE file[j]
    BY <1>1 DEF AppendLines
  <1>3. Records(file[id] \o recs) = Records(file[id]) \cup Records(recs)
    BY <1>1, RecordsOfConcat
  <1>4. \A j \in TxnId : Records(AppendLines(file, id, recs)[j]) =
            IF j = id THEN Records(file[j]) \cup Records(recs) ELSE Records(file[j])
    BY <1>2, <1>3
  <1> QED
    BY <1>4 DEF Lines

(* Prepare records are marked 1, and are the orders of the transaction. *)
LEMMA PrepareRecordsHold ==
    ASSUME NEW t \in Writer, NEW ws \in Seq(CustomerOrder)
    PROVE  /\ \A rec \in Records(PrepareRecords(t, ws)) : rec.op = 1 /\ rec.by = t
           /\ ws # <<>> => Records(PrepareRecords(t, ws)) # {}
  <1>1. DOMAIN PrepareRecords(t, ws) = 1 .. Len(ws)
    BY DEF PrepareRecords
  <1>2. \A i \in 1 .. Len(ws) :
          PrepareRecords(t, ws)[i].op = 1 /\ PrepareRecords(t, ws)[i].by = t
    BY DEF PrepareRecords
  <1>3. ws # <<>> => 1 \in 1 .. Len(ws)
    OBVIOUS
  <1>4. ws # <<>> => PrepareRecords(t, ws)[1] \in Records(PrepareRecords(t, ws))
    BY <1>1, <1>3 DEF Records
  <1> QED
    BY <1>1, <1>2, <1>4 DEF Records

(* The commit records are the records with another mark. *)
LEMMA CommitRecordsHold ==
    ASSUME NEW recs \in Seq(TxnLogRequest)
    PROVE  Records(CommitRecords(recs)) = {[rec EXCEPT !.op = 2] : rec \in Records(recs)}
  <1>1. DOMAIN CommitRecords(recs) = DOMAIN recs
    BY DEF CommitRecords
  <1>2. \A i \in DOMAIN recs : CommitRecords(recs)[i] = [recs[i] EXCEPT !.op = 2]
    BY DEF CommitRecords
  <1> QED
    BY <1>1, <1>2 DEF Records

(* A marked record is still the write it was. *)
LEMMA CommittedOp ==
    ASSUME NEW rec \in TxnLogRequest
    PROVE  /\ [rec EXCEPT !.op = 2].op = 2
           /\ [rec EXCEPT !.op = 2].cust = rec.cust
           /\ [rec EXCEPT !.op = 2].num = rec.num
           /\ [rec EXCEPT !.op = 2].by = rec.by
  BY DEF TxnLogRequest

(* What TMCommit leaves in memory: the records and their commits. *)
LEMMA CommitLogHolds ==
    ASSUME NEW id \in TxnId, NEW recs \in Seq(TxnLogRequest), NEW j \in TxnId
    PROVE  /\ Records(Entry(CommitLog(id, recs), j)) \subseteq
                 Records(recs) \cup Records(CommitRecords(recs))
           /\ j # id => Records(Entry(CommitLog(id, recs), j)) = {}
  <1> DEFINE n == 2 * Len(recs)
  <1>1. Len(recs) \in Nat /\ DOMAIN recs = 1 .. Len(recs) /\ DOMAIN CommitRecords(recs) = 1 .. Len(recs)
        /\ DOMAIN CommittedEntry(recs) = 1 .. n
    BY DEF CommitRecords, CommittedEntry
  <1>2. ASSUME NEW i \in 1 .. n
        PROVE  CommittedEntry(recs)[i] \in Records(recs) \cup Records(CommitRecords(recs))
    <2>1. CASE i % 2 = 1
      <3>1. (i + 1) \div 2 \in 1 .. Len(recs)
        BY <1>1, <2>1
      <3>2. CommittedEntry(recs)[i] = recs[(i + 1) \div 2]
        BY <2>1 DEF CommittedEntry
      <3> QED
        BY <1>1, <3>1, <3>2 DEF Records
    <2>2. CASE i % 2 # 1
      <3>1. i \div 2 \in 1 .. Len(recs)
        BY <1>1, <2>2
      <3>2. CommittedEntry(recs)[i] = CommitRecords(recs)[i \div 2]
        BY <2>2, <3>1 DEF CommittedEntry, CommitRecords
      <3> QED
        BY <1>1, <3>1, <3>2 DEF Records
    <2> QED
      BY <2>1, <2>2
  <1>3. Records(<<>>) = {}
    BY DEF Records
  <1>4. CASE j = id /\ recs # <<>>
    <2>1. CommitLog(id, recs)[j] = CommittedEntry(recs)
      BY <1>4 DEF CommitLog
    <2>2. Records(CommittedEntry(recs)) \subseteq Records(recs) \cup Records(CommitRecords(recs))
      BY <1>1, <1>2 DEF Records
    <2> QED
      BY <1>3, <1>4, <2>1, <2>2 DEF Entry
  <1>5. CASE ~(j = id /\ recs # <<>>)
    <2>1. CommitLog(id, recs)[j] = Absent
      BY <1>5 DEF CommitLog
    <2> QED
      BY <1>3, <2>1 DEF Entry
  <1> QED
    BY <1>4, <1>5

(* A map of logs gains, under an id, at most what is put there. *)
LEMMA NothingAbsent ==
    ASSUME NEW log \in TxnLogMap, NEW j \in TxnId
    PROVE  log[j] = Absent => Records(Entry(log, j)) = {}
  BY DEF Entry, Records

LEMMA InsertHolds ==
    ASSUME NEW log \in TxnLogMap, NEW id \in TxnId, NEW recs \in Seq(TxnLogRequest),
           NEW j \in TxnId
    PROVE  Records(Entry(Insert(log, id, recs), j)) \subseteq
               Records(Entry(log, j)) \cup (IF j = id THEN Records(recs) ELSE {})
  <1>1. Insert(log, id, recs) \in TxnLogMap
    BY InsertType
  <1>2. CASE log[id] = Absent /\ j = id
    <2>1. Insert(log, id, recs)[j] = recs
      BY <1>2 DEF Insert, TxnLogMap
    <2> QED
      BY <1>1, <1>2, <2>1, NothingAbsent DEF Entry
  <1>3. CASE ~(log[id] = Absent /\ j = id)
    <2>1. Insert(log, id, recs)[j] = log[j]
      BY <1>3 DEF Insert, TxnLogMap
    <2> QED
      BY <2>1 DEF Entry
  <1> QED
    BY <1>2, <1>3

LEMMA UpdateValueHolds ==
    ASSUME NEW log \in TxnLogMap, NEW id \in TxnId, NEW rec \in TxnLogRequest,
           NEW j \in TxnId
    PROVE  Records(Entry(UpdateValue(log, id, rec), j)) \subseteq
               Records(Entry(log, j)) \cup (IF j = id THEN {rec} ELSE {})
  <1>1. UpdateValue(log, id, rec) \in TxnLogMap
    BY UpdateValueType
  <1>2. Records(<<rec>>) = {rec}
    BY DEF Records
  <1>3. CASE j # id
    BY <1>3 DEF UpdateValue, TxnLogMap, Entry
  <1>4. CASE j = id /\ log[id] = Absent
    <2>1. UpdateValue(log, id, rec)[j] = <<rec>>
      BY <1>4 DEF UpdateValue, TxnLogMap
    <2> QED
      BY <1>1, <1>2, <1>4, <2>1, NothingAbsent DEF Entry
  <1>5. CASE j = id /\ log[id] # Absent
    <2>1. UpdateValue(log, id, rec)[j] = Append(log[j], rec) /\ log[j] \in Seq(TxnLogRequest)
      BY <1>5 DEF UpdateValue, TxnLogMap
    <2>2. Append(log[j], rec) = log[j] \o <<rec>> /\ <<rec>> \in Seq(TxnLogRequest)
      BY <2>1
    <2>3. Records(Append(log[j], rec)) = Records(log[j]) \cup {rec}
      BY <1>2, <2>1, <2>2, RecordsOfConcat
    <2> QED
      BY <1>1, <1>5, <2>1, <2>3, NothingAbsent DEF Entry
  <1> QED
    BY <1>3, <1>4, <1>5

LEMMA RecoveredHolds ==
    ASSUME NEW file \in LogFile, NEW j \in TxnId
    PROVE  Records(Entry(Recovered(file), j)) \subseteq Records(file[j])
  <1>1. Records(<<>>) = {}
    BY DEF Records
  <1> QED
    BY <1>1 DEF Recovered, Entry

LEMMA EmptyLogHolds ==
    ASSUME NEW j \in TxnId
    PROVE  Records(Entry(EmptyLog, j)) = {}
  BY DEF EmptyLog, Entry, Records

(* How many of the first n orders (or operations) of s are for customer c. *)
CountOf(s, c, n) == Cardinality({j \in 1 .. n : s[j].cust = c})

LEMMA CountOfZero == \A s, c : CountOf(s, c, 0) = 0
  <1>1. \A s, c : {j \in 1 .. 0 : s[j].cust = c} = {}
    OBVIOUS
  <1> QED
    BY <1>1, FS_EmptySet DEF CountOf

LEMMA CountOfNext ==
    ASSUME NEW s, NEW c, NEW n \in Nat
    PROVE  /\ CountOf(s, c, n) \in Nat
           /\ CountOf(s, c, n + 1) = IF s[n + 1].cust = c THEN CountOf(s, c, n) + 1
                                                          ELSE CountOf(s, c, n)
  <1> DEFINE J(m) == {j \in 1 .. m : s[j].cust = c}
  <1>1. IsFiniteSet(J(n))
    <2>1. IsFiniteSet(1 .. n)
      BY FS_Interval
    <2> QED
      BY <2>1, FS_Subset
  <1>2. n + 1 \notin J(n)
    OBVIOUS
  <1>3. J(n + 1) = IF s[n + 1].cust = c THEN J(n) \cup {n + 1} ELSE J(n)
    OBVIOUS
  <1>4. Cardinality(J(n)) \in Nat
    BY <1>1, FS_CardinalityType
  <1>5. Cardinality(J(n) \cup {n + 1}) = Cardinality(J(n)) + 1
    BY <1>1, <1>2, FS_AddElement
  <1> QED
    BY <1>3, <1>4, <1>5 DEF CountOf

(* Of the first n at most n are for customer c. *)
LEMMA CountOfBound ==
    ASSUME NEW s, NEW c, NEW n \in Nat
    PROVE  CountOf(s, c, n) \in 0 .. n
  <1> DEFINE J == {j \in 1 .. n : s[j].cust = c}
  <1>1. IsFiniteSet(1 .. n) /\ Cardinality(1 .. n) = n
    BY FS_Interval
  <1>2. J \in SUBSET (1 .. n)
    OBVIOUS
  <1>3. IsFiniteSet(J) /\ Cardinality(J) <= Cardinality(1 .. n)
    BY <1>1, <1>2, FS_Subset
  <1>4. Cardinality(J) \in Nat
    BY <1>3, FS_CardinalityType
  <1> HIDE DEF J
  <1>5. Cardinality(J) \in 0 .. n
    BY <1>1, <1>3, <1>4
  <1> QED
    BY <1>5 DEF CountOf, J

(* The count depends on the first n only. *)
LEMMA CountOfSame ==
    ASSUME NEW s, NEW u, NEW c, NEW n \in Nat, \A j \in 1 .. n : s[j].cust = u[j].cust
    PROVE  CountOf(s, c, n) = CountOf(u, c, n)
  <1>1. {j \in 1 .. n : s[j].cust = c} = {j \in 1 .. n : u[j].cust = c}
    OBVIOUS
  <1> QED
    BY <1>1 DEF CountOf

(* A client submits as many orders as it was asked to. *)
LEMMA WriteSetsLength ==
    ASSUME NEW rds, NEW m \in 1 .. NumCustomers, NEW k \in Nat \ {0},
           NEW ws \in WriteSets(rds, m, k)
    PROVE  Len(ws) = m * k
  <1> DEFINE n == m * k
  <1>1. n \in Nat
    BY DataAssumption
  <1>2. PICK s : ws = [l \in 1 .. n |-> [cust |-> s[l],
                      num |-> Base(rds, s[l]) + Cardinality({j \in 1 .. l : s[j] = s[l]})]]
    BY DEF WriteSets
  <1> HIDE DEF n
  <1>3. Len(ws) = n
    BY <1>1, <1>2
  <1> QED
    BY <1>3 DEF n

(* The i-th order of a client for a customer is numbered Base + i, and for *)
(* one of the first m customers.                                           *)
LEMMA WriteSetsNumbered ==
    ASSUME NEW rds, NEW m \in 1 .. NumCustomers, NEW k \in Nat \ {0},
           NEW ws \in WriteSets(rds, m, k), NEW i \in 1 .. Len(ws)
    PROVE  /\ ws[i].cust \in 0 .. m - 1
           /\ ws[i].num = Base(rds, ws[i].cust) + CountOf(ws, ws[i].cust, i)
  <1>0. m * k \in Nat
    BY DataAssumption
  <1> DEFINE n == m * k
  <1>1. PICK s \in [1 .. n -> 0 .. m - 1] :
            ws = [l \in 1 .. n |-> [cust |-> s[l],
                      num |-> Base(rds, s[l]) + Cardinality({j \in 1 .. l : s[j] = s[l]})]]
    BY DEF WriteSets, Schedules
  <1> HIDE DEF n
  <1>2. n \in Nat
    BY <1>0 DEF n
  <1>3. Len(ws) = n
    BY <1>1, <1>2
  <1>4. \A j \in 1 .. i : j \in 1 .. n
    BY <1>2, <1>3
  <1>5. {j \in 1 .. i : ws[j].cust = s[i]} = {j \in 1 .. i : s[j] = s[i]}
    BY <1>1, <1>4
  <1>6. i \in 1 .. n
    BY <1>3
  <1>7. ws[i].cust = s[i] /\ s[i] \in 0 .. m - 1
        /\ ws[i].num = Base(rds, s[i]) + Cardinality({j \in 1 .. i : s[j] = s[i]})
    BY <1>1, <1>6
  <1> QED
    BY <1>5, <1>7 DEF CountOf

LEMMA WriteSetOfNumbered ==
    ASSUME NEW rds, NEW c, NEW k \in Nat, NEW i \in 1 .. Len(WriteSetOf(rds, c, k))
    PROVE  /\ WriteSetOf(rds, c, k)[i].cust = c
           /\ WriteSetOf(rds, c, k)[i].num = Base(rds, c) + CountOf(WriteSetOf(rds, c, k), c, i)
  <1> DEFINE ws == WriteSetOf(rds, c, k)
  <1>1. Len(ws) = k /\ i \in 1 .. k
    BY DEF WriteSetOf
  <1>2. \A j \in 1 .. i : ws[j].cust = c
    BY <1>1 DEF WriteSetOf
  <1>3. {j \in 1 .. i : ws[j].cust = c} = 1 .. i
    BY <1>2
  <1>4. Cardinality(1 .. i) = i
    BY <1>1, FS_Interval
  <1>5. ws[i].cust = c /\ ws[i].num = Base(rds, c) + i
    BY <1>1 DEF WriteSetOf
  <1> HIDE DEF ws
  <1>6. CountOf(ws, c, i) = i
    BY <1>3, <1>4 DEF CountOf
  <1> QED
    BY <1>5, <1>6 DEF ws
=============================================================================
