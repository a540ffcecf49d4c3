------------------------- MODULE TwoPhaseCommit_proofs -------------------------
(***************************************************************************)
(* Proofs about TwoPhaseCommit, for any number of transactions, RMs,       *)
(* customers and failures.                                                 *)
(*                                                                         *)
(* TypeOK alone is not inductive: that a step keeps it depends on where    *)
(* the TM, the clients and TMCommit are in their code (Bookkeeping).       *)
(***************************************************************************)
EXTENDS TwoPhaseCommit, TxnData_proofs

(* The TM has a transaction exactly while it is in transaction_manager; a  *)
(* client that reads has not read its last customer; the loop of TMCommit  *)
(* has a record left.                                                      *)
TMBusy      == /\ tmPc # "accept" => tmUp
               /\ tmPc # "accept" => tmTxn \in Txn
               /\ tmPc = "accept" => tmTxn = NoTxn
ReadsLeft   == \A t \in Txn : cpc[t] \in {"read", "lost"} => Len(reads[t]) < ReadCount
RecordsLeft == \A t \in Txn, r \in RM :
                   conn[t][r] = "apply" => applied[t][r] < Len(found[t][r])
Bookkeeping == TMBusy /\ ReadsLeft /\ RecordsLeft

TypeInv == TypeOK /\ Bookkeeping

(* The first RM of every loop. *)
LEMMA FirstRM == 0 \in RM /\ NumRM \in Nat
  BY ConfigAssumption DEF RM

-----------------------------------------------------------------------------
(* The seeded past has the right types. *)
LEMMA SeedTypes ==
    /\ SeedCustomers \in CustomerMap
    /\ SeedRecords \in Seq(TxnLogRequest)
    /\ SeedFile \in LogFile
    /\ [i \in 1 .. Seeded |-> OpOf(SeedRecords[i])] \in Seq(MapOp)
  <1> DEFINE orders == [i \in 1 .. Seeded |-> [cust |-> i - 1, num |-> 1]]
  <1>1. Seeded \in Nat /\ \A i \in 1 .. Seeded : i - 1 \in Customer
    BY ConfigAssumption, DataAssumption DEF Customer
  <1>2. orders \in Seq(CustomerOrder) /\ Len(orders) = Seeded
    <2>1. \A i \in 1 .. Seeded : [cust |-> i - 1, num |-> 1] \in CustomerOrder
      BY <1>1 DEF CustomerOrder
    <2>2. orders \in [1 .. Seeded -> CustomerOrder]
      BY <2>1
    <2> QED
      BY <1>1, <2>2
  <1>3. SeedRecords \in Seq(TxnLogRequest)
    BY <1>2, PrepareRecordsType DEF SeedRecords, Writer
  <1>4. Len(SeedRecords) = Seeded
    BY <1>1, <1>2 DEF SeedRecords, PrepareRecords
  <1>5. SeedCustomers \in CustomerMap
    BY DEF SeedCustomers, CustomerMap
  <1>6. SeedFile \in LogFile
    BY <1>3, CommitRecordsType DEF SeedFile, LogFile
  <1>7. [i \in 1 .. Seeded |-> OpOf(SeedRecords[i])] \in Seq(MapOp)
    <2>1. \A i \in 1 .. Seeded : OpOf(SeedRecords[i]) \in MapOp
      BY <1>3, <1>4, OpOfType
    <2>2. [i \in 1 .. Seeded |-> OpOf(SeedRecords[i])] \in [1 .. Seeded -> MapOp]
      BY <2>1
    <2> QED
      BY <1>1, <2>2
  <1> QED
    BY <1>3, <1>5, <1>6, <1>7

LEMMA InitTypeInv == Init => TypeInv
  <1> SUFFICES ASSUME Init PROVE TypeInv
    OBVIOUS
  <1>1. 0 \in TxnId /\ CommitLog(0, SeedRecords) \in TxnLogMap
    BY SeedTypes, CommitLogType, DataAssumption DEF TxnId
  <1>2. /\ customer_record \in [RM -> CustomerMap] /\ custFile \in [RM -> CustomerMap]
        /\ txn_log \in [RM -> TxnLogMap] /\ logFile \in [RM -> LogFile]
        /\ smr_log \in [RM -> Seq(MapOp)]
    BY <1>1, SeedTypes DEF Init
  <1>3. transaction_id \in 0 .. MaxTxnId + 1
    BY DataAssumption DEF Init
  <1>4. TypeOK
    BY <1>1, <1>2, <1>3, FirstRM DEF Init, TypeOK, ConnState
  <1>5. Bookkeeping
    BY ConfigAssumption DEF Init, Bookkeeping, TMBusy, ReadsLeft, RecordsLeft
  <1> QED
    BY <1>4, <1>5 DEF TypeInv

-----------------------------------------------------------------------------
(* The steps of a client. *)
LEMMA ClientTypeInv ==
    ASSUME TypeInv, NEW t \in Txn, ClientStep(t)
    PROVE  TypeInv'
  <1> USE DEF TypeInv, TypeOK, Bookkeeping, TMBusy, RecordsLeft, ReadsLeft,
              rmVars, memory, files, locals, tmVars, cliVars, failures
  <1>0. ASSUME NEW rec \in CustomerRecord, NEW again \in {"read", "lost"},
               cpc[t] \in {"read", "lost"}, GotRecord(t, rec, again)
        PROVE  /\ reads' \in [Txn -> Seq(CustomerRecord)]
               /\ cpc' \in [Txn -> {"read", "lost", "write", "wait", "done"}]
               /\ ReadsLeft'
    <2>1. /\ Append(reads[t], rec) \in Seq(CustomerRecord)
          /\ Len(Append(reads[t], rec)) = Len(reads[t]) + 1
      OBVIOUS
    <2>2. Len(reads[t]) < ReadCount /\ Len(reads[t]) \in Nat /\ ReadCount \in Nat
      BY <1>0, ConfigAssumption
    <2> QED
      BY <1>0, <2>1, <2>2 DEF GotRecord
  <1>1. CASE ReadRecord(t)
    <2> DEFINE rec == RecordOf(customer_record[ReadFrom[t]], Asked(t, Len(reads[t])))
    <2>1. ReadFrom[t] \in RM /\ Asked(t, Len(reads[t])) \in Customer
      <3>1. Len(reads[t]) \in Customer
        BY <1>1, ConfigAssumption, DataAssumption DEF ReadRecord, Customer
      <3> QED
        BY <3>1, ConfigAssumption DEF Asked, Experiment
    <2>2. rec \in CustomerRecord
      BY <2>1, RecordOfType
    <2>3. GotRecord(t, rec, "read")
      BY <1>1 DEF ReadRecord
    <2> QED
      BY <1>0, <1>1, <2>2, <2>3 DEF ReadRecord
  <1>2. CASE ReadRefused(t)
    BY <1>2 DEF ReadRefused
  <1>3. CASE ReadLost(t)
    <2>1. PICK rec \in {NoRecord, [cust |-> 0, last |-> 0]} : GotRecord(t, rec, "lost")
      BY <1>3 DEF ReadLost
    <2>2. rec \in CustomerRecord
      BY DataAssumption DEF NoRecord, CustomerRecord, Key, Customer
    <2> QED
      BY <1>0, <1>3, <2>1, <2>2 DEF ReadLost
  <1>4. CASE Submit(t)
    <2>1. PICK ws \in (IF Experiment(t)
                        THEN {WriteSetOf(reads[t], Chosen[t], WriteShape[t][2])}
                        ELSE WriteSets(reads[t], WriteShape[t][1], WriteShape[t][2])) :
            writes' = [writes EXCEPT ![t] = ws]
      BY <1>4 DEF Submit
    <2>2. WriteShape[t][1] \in 1 .. NumCustomers /\ WriteShape[t][2] \in Nat
      BY ConfigAssumption
    <2>3. ws \in Seq(CustomerOrder)
      <3>1. Experiment(t) => Chosen[t] \in Customer
        BY ConfigAssumption DEF Experiment
      <3>2. CASE Experiment(t)
        <4>1. ws = WriteSetOf(reads[t], Chosen[t], WriteShape[t][2])
          BY <2>1, <3>2
        <4> QED
          BY <2>2, <3>1, <3>2, <4>1, WriteSetOfType
      <3>3. CASE ~Experiment(t)
        <4>1. ws \in WriteSets(reads[t], WriteShape[t][1], WriteShape[t][2])
          BY <2>1, <3>3
        <4> QED
          BY <2>2, <4>1, WriteSetsType
      <3> QED
        BY <3>2, <3>3
    <2>4. Append(backlog, t) \in Seq(Txn)
      OBVIOUS
    <2> QED
      BY <1>4, <2>1, <2>3, <2>4 DEF Submit
  <1> QED
    BY <1>1, <1>2, <1>3, <1>4 DEF ClientStep

-----------------------------------------------------------------------------
(* The steps of the TM. *)
LEMMA TMTypeInv ==
    ASSUME TypeInv, TMStep
    PROVE  TypeInv'
  <1> USE DEF TypeInv, TypeOK, Bookkeeping, TMBusy, RecordsLeft, ReadsLeft,
              rmVars, memory, files, locals, tmVars, cliVars, failures
  <1>0. ASSUME tmPc # "accept", NEW s \in ConnState \ {"apply"}, SetSession(s)
        PROVE  /\ conn' \in [Txn -> [RM -> ConnState]]
               /\ \A t \in Txn, r \in RM : conn'[t][r] = "apply" => conn[t][r] = "apply"
    BY <1>0 DEF SetSession
  <1>a. ASSUME NEW again \in {"connect", "prepare", "decide"},
               NEW next \in {"prepare", "decide", "reply"}, NextRM(again, next)
        PROVE  /\ tmRM' \in RM
               /\ tmPc' \in {"connect", "prepare", "decide", "reply"}
    <2>1. CASE tmRM + 1 = NumRM
      BY <1>a, <2>1, FirstRM DEF NextRM
    <2>2. CASE tmRM + 1 # NumRM
      BY <1>a, <2>2, ConfigAssumption DEF NextRM, RM
    <2> QED
      BY <2>1, <2>2
  <1>b. ASSUME tmPc # "accept", NEW a \in {"Success", "Failed"}, Finish(a),
               tmUp' = tmUp, reads' = reads, found' = found, applied' = applied
        PROVE  /\ conn' \in [Txn -> [RM -> ConnState]]
               /\ outcome' \in [Txn -> {"none", "Success", "Failed", "ErrorNo", "error"}]
               /\ cpc' \in [Txn -> {"read", "lost", "write", "wait", "done"}]
               /\ tmPc' = "accept" /\ tmTxn' = NoTxn /\ tmRM' \in RM
               /\ ReadsLeft' /\ RecordsLeft'
    BY <1>b, FirstRM DEF Finish, ConnState
  <1>1. CASE Accept
    <2>1. Head(backlog) \in Txn /\ Tail(backlog) \in Seq(Txn)
      BY <1>1 DEF Accept
    <2>2. transaction_id \in TxnId /\ transaction_id + 1 \in 0 .. MaxTxnId + 1
      BY <1>1, DataAssumption DEF Accept, TxnId
    <2> QED
      BY <1>1, <2>1, <2>2, FirstRM, ConfigAssumption DEF Accept
  <1>2. CASE Connect
    <2>1. SetSession("idle") /\ NextRM("connect", "prepare")
      BY <1>2 DEF Connect
    <2>2. "idle" \in ConnState \ {"apply"}
      BY DEF ConnState
    <2> QED
      BY <1>0, <1>a, <1>2, <2>1, <2>2 DEF Connect
  <1>3. CASE ConnectFailed
    BY <1>b, <1>3 DEF ConnectFailed
  <1>4. CASE SendPrepare
    <2> DEFINE s == IF Session = "idle" THEN "prepare" ELSE Session
    <2>1. SetSession(s)
      BY <1>4 DEF SendPrepare
    <2>2. /\ conn' \in [Txn -> [RM -> ConnState]]
          /\ \A t \in Txn, r \in RM : conn'[t][r] = "apply" => conn[t][r] = "apply"
      BY <1>4, <2>1 DEF SendPrepare, SetSession, Session, ConnState, Handling
    <2> QED
      BY <1>4, <2>2 DEF SendPrepare
  <1>5. CASE RecvVote
    <2> DEFINE s == IF Session = "broken" THEN "broken" ELSE "idle"
    <2>1. PICK no \in BOOLEAN :
             /\ allOk' = ~no
             /\ IF no THEN tmPc' = "decide" /\ tmRM' = 0
                      ELSE NextRM("prepare", "decide")
      BY <1>5 DEF RecvVote, ReadsAsNo
    <2>2. tmRM' \in RM /\ tmPc' \in {"connect", "prepare", "decide", "reply"}
      BY <1>a, <2>1, FirstRM
    <2>3. SetSession(s) /\ s \in ConnState \ {"apply"}
      BY <1>5 DEF RecvVote, ConnState
    <2> QED
      BY <1>0, <1>5, <2>1, <2>2, <2>3 DEF RecvVote
  <1>6. CASE SendDecision
    <2> DEFINE s == IF Session # "idle" THEN Session
                    ELSE IF allOk THEN "commit" ELSE "abort"
    <2>1. SetSession(s)
      BY <1>6 DEF SendDecision
    <2>2. /\ conn' \in [Txn -> [RM -> ConnState]]
          /\ \A t \in Txn, r \in RM : conn'[t][r] = "apply" => conn[t][r] = "apply"
      BY <1>6, <2>1 DEF SendDecision, SetSession, Session, ConnState, Handling
    <2> QED
      BY <1>6, <2>2 DEF SendDecision
  <1>7. CASE RecvDone
    <2> DEFINE s == IF Session = "broken" THEN "broken" ELSE "idle"
    <2>1. SetSession(s) /\ s \in ConnState \ {"apply"} /\ NextRM("decide", "reply")
      BY <1>7 DEF RecvDone, ConnState
    <2> QED
      BY <1>0, <1>a, <1>7, <2>1 DEF RecvDone
  <1>8. CASE Reply
    <2>1. Finish(IF allOk THEN "Success" ELSE "Failed")
      BY <1>8 DEF Reply
    <2> QED
      BY <1>b, <1>8, <2>1 DEF Reply
  <1> QED
    BY <1>1, <1>2, <1>3, <1>4, <1>5, <1>6, <1>7, <1>8 DEF TMStep

-----------------------------------------------------------------------------
(* The steps of an RM's handlers. *)
LEMMA RMTypeInv ==
    ASSUME TypeInv, NEW t \in Txn, NEW r \in RM, RMStep(t, r)
    PROVE  TypeInv'
  <1> USE DEF TypeInv, TypeOK, Bookkeeping, TMBusy, RecordsLeft, ReadsLeft,
              rmVars, memory, files, locals, tmVars, cliVars, failures, AtHandler
  <1>0. ASSUME NEW s \in ConnState \ {"apply"},
               conn' = [conn EXCEPT ![t][r] = s]
        PROVE  /\ conn' \in [Txn -> [RM -> ConnState]]
               /\ \A u \in Txn, q \in RM :
                      conn'[u][q] = "apply" => conn[u][q] = "apply" /\ <<u, q>> # <<t, r>>
    BY <1>0
  <1>a. ASSUME NEW reply \in Replies, AnswerIs(t, r, reply)
        PROVE  /\ conn' \in [Txn -> [RM -> ConnState]]
               /\ \A u \in Txn, q \in RM :
                      conn'[u][q] = "apply" => conn[u][q] = "apply" /\ <<u, q>> # <<t, r>>
    <2> DEFINE s == IF tmTxn = t THEN reply ELSE "none"
    <2>1. s \in ConnState \ {"apply"}
      BY DEF ConnState, Replies
    <2> QED
      BY <1>0, <1>a, <2>1 DEF AnswerIs
  <1>b. txnId[t] \in TxnId /\ txn_log[r] \in TxnLogMap /\ logFile[r] \in LogFile
    OBVIOUS
  <1>c. PrepareRecords(t, writes[t]) \in Seq(TxnLogRequest)
    BY PrepareRecordsType DEF Writer
  <1>d. ASSUME NEW ids, Free(r, ids)
        PROVE  freed' \in [Txn -> [RM -> BOOLEAN]]
    BY <1>d DEF Free
  <1>1. CASE TMPrepare(t, r)
    <2>1. Insert(txn_log[r], txnId[t], PrepareRecords(t, writes[t])) \in TxnLogMap
      BY <1>b, <1>c, InsertType
    <2>2. txn_log' \in [RM -> TxnLogMap]
      BY <1>1, <2>1 DEF TMPrepare
    <2>3. "prelog" \in ConnState \ {"apply"} /\ "No" \in Replies
      BY DEF ConnState, Handling, InCommit, Replies
    <2>4. \/ conn' = [conn EXCEPT ![t][r] = "prelog"]
          \/ AnswerIs(t, r, "No")
      BY <1>1 DEF TMPrepare
    <2>5. /\ conn' \in [Txn -> [RM -> ConnState]]
          /\ \A u \in Txn, q \in RM :
                 conn'[u][q] = "apply" => conn[u][q] = "apply" /\ <<u, q>> # <<t, r>>
      BY <1>0, <1>a, <2>3, <2>4
    <2> QED
      BY <1>1, <2>2, <2>5 DEF TMPrepare
  <1>9. CASE LogPrepare(t, r)
    <2>1. AppendLines(logFile[r], txnId[t], PrepareRecords(t, writes[t])) \in LogFile
      BY <1>b, <1>c, AppendLinesType
    <2>2. logFile' \in [RM -> LogFile]
      BY <1>9, <2>1 DEF LogPrepare
    <2>3. "Ok" \in Replies /\ AnswerIs(t, r, "Ok")
      BY <1>9 DEF LogPrepare, Replies
    <2> QED
      BY <1>9, <1>a, <2>2, <2>3 DEF LogPrepare
  <1>2. CASE TMCommit(t, r)
    <2> DEFINE recs == Entry(txn_log[r], txnId[t])
    <2>1. recs \in Seq(TxnLogRequest)
      BY <1>b, EntryType
    <2>2. recs # <<>> => Len(recs) > 0
      BY <2>1
    <2>3. found' = [found EXCEPT ![t][r] = recs] /\ applied' = [applied EXCEPT ![t][r] = 0]
      BY <1>2 DEF TMCommit
    <2>4. /\ found' \in [Txn -> [RM -> Seq(TxnLogRequest)]]
          /\ applied' \in [Txn -> [RM -> Nat]]
          /\ freed' \in [Txn -> [RM -> BOOLEAN]]
      BY <1>2, <2>1, <2>3 DEF TMCommit
    <2>5. conn' = [conn EXCEPT ![t][r] = IF recs = <<>> THEN "log" ELSE "apply"]
      BY <1>2 DEF TMCommit
    <2>6. conn' \in [Txn -> [RM -> ConnState]]
      BY <2>5 DEF ConnState, Handling, InCommit
    <2>7. RecordsLeft'
      <3> SUFFICES ASSUME NEW u \in Txn, NEW q \in RM, conn'[u][q] = "apply"
                   PROVE  applied'[u][q] < Len(found'[u][q])
        OBVIOUS
      <3>1. CASE u = t /\ q = r
        BY <2>2, <2>3, <2>5, <3>1
      <3>2. CASE ~(u = t /\ q = r)
        BY <2>3, <2>5, <3>2
      <3> QED
        BY <3>1, <3>2
    <2> QED
      BY <1>2, <2>4, <2>6, <2>7 DEF TMCommit
  <1>3. CASE CreateRegularLaptop(t, r)
    <2> DEFINE i == applied[t][r] + 1
               rec == found[t][r][i]
    <2>1. /\ conn[t][r] = "apply"
          /\ customer_record' = [customer_record EXCEPT ![r][rec.cust] = rec.num]
          /\ smr_log' = [smr_log EXCEPT ![r] = Append(@, OpOf(rec))]
          /\ applied' = [applied EXCEPT ![t][r] = i]
          /\ conn' = [conn EXCEPT ![t][r] = IF i = Len(found[t][r]) THEN "log" ELSE "apply"]
      BY <1>3 DEF CreateRegularLaptop, AdminThread
    <2>2. i \in 1 .. Len(found[t][r]) /\ Len(found[t][r]) \in Nat
      BY <2>1
    <2>3. rec \in TxnLogRequest
      BY <2>2
    <2>4. rec.cust \in Key /\ rec.num \in Int
      BY <2>3 DEF TxnLogRequest
    <2>5. customer_record' \in [RM -> CustomerMap]
      BY <2>1, <2>4 DEF CustomerMap
    <2>6. smr_log' \in [RM -> Seq(MapOp)]
      <3>1. Append(smr_log[r], OpOf(rec)) \in Seq(MapOp)
        BY <2>3, OpOfType
      <3> QED
        BY <2>1, <3>1
    <2>7. applied' \in [Txn -> [RM -> Nat]]
      BY <2>1
    <2>8. conn' \in [Txn -> [RM -> ConnState]]
      BY <2>1 DEF ConnState, Handling, InCommit
    <2>9. RecordsLeft'
      <3> SUFFICES ASSUME NEW u \in Txn, NEW q \in RM, conn'[u][q] = "apply"
                   PROVE  applied'[u][q] < Len(found[u][q])
        BY <1>3 DEF CreateRegularLaptop
      <3>1. CASE u = t /\ q = r
        <4>1. i # Len(found[t][r])
          BY <2>1, <3>1
        <4> QED
          BY <2>1, <2>2, <3>1, <4>1
      <3>2. CASE ~(u = t /\ q = r)
        BY <2>1, <3>2
      <3> QED
        BY <3>1, <3>2
    <2> QED
      BY <1>3, <2>5, <2>6, <2>7, <2>8, <2>9 DEF CreateRegularLaptop
  <1>4. CASE LogCommit(t, r)
    <2>1. found[t][r] \in Seq(TxnLogRequest)
      OBVIOUS
    <2>2. /\ CommitLog(txnId[t], found[t][r]) \in TxnLogMap
          /\ AppendLines(logFile[r], txnId[t], CommitRecords(found[t][r])) \in LogFile
      BY <1>b, <2>1, CommitLogType, CommitRecordsType, AppendLinesType
    <2>3. txn_log' \in [RM -> TxnLogMap] /\ logFile' \in [RM -> LogFile]
      BY <1>4, <2>2 DEF LogCommit
    <2>4. "trunc" \in ConnState \ {"apply"}
      BY DEF ConnState, Handling, InCommit
    <2> QED
      BY <1>0, <1>4, <1>d, <2>3, <2>4 DEF LogCommit
  <1>5. CASE TruncateCust(t, r)
    <2>1. "store" \in ConnState \ {"apply"}
      BY DEF ConnState, Handling, InCommit
    <2> QED
      BY <1>0, <1>5, <2>1, EmptyTypes DEF TruncateCust
  <1>6. CASE StoreCust(t, r)
    <2>1. "Done" \in Replies /\ AnswerIs(t, r, "Done")
      BY <1>6 DEF StoreCust, Replies
    <2> QED
      BY <1>6, <1>a, <2>1 DEF StoreCust
  <1>7. CASE TMAbort(t, r)
    <2>1. AbortRecord(t) \in TxnLogRequest
      BY AbortRecordType
    <2>2. <<AbortRecord(t)>> \in Seq(TxnLogRequest)
      BY <2>1
    <2>3. /\ UpdateValue(txn_log[r], txnId[t], AbortRecord(t)) \in TxnLogMap
          /\ AppendLines(logFile[r], txnId[t], <<AbortRecord(t)>>) \in LogFile
      BY <1>b, <2>1, <2>2, UpdateValueType, AppendLinesType
    <2>4. txn_log' \in [RM -> TxnLogMap] /\ logFile' \in [RM -> LogFile]
      BY <1>7, <2>3 DEF TMAbort
    <2>5. "Done" \in Replies /\ AnswerIs(t, r, "Done")
      BY <1>7 DEF TMAbort, Replies
    <2> QED
      BY <1>7, <1>a, <1>d, <2>4, <2>5 DEF TMAbort
  <1>8. CASE TornRequest(t, r)
    <2>1. "trunc" \in ConnState \ {"apply"} /\ "none" \in ConnState \ {"apply"}
      BY DEF ConnState, Handling, InCommit
    <2>2. txn_log' \in [RM -> TxnLogMap]
      BY <1>8, EmptyTypes DEF TornRequest
    <2>3. /\ conn' \in [Txn -> [RM -> ConnState]]
          /\ \A u \in Txn, q \in RM :
                 conn'[u][q] = "apply" => conn[u][q] = "apply" /\ <<u, q>> # <<t, r>>
      BY <1>0, <1>8, <2>1 DEF TornRequest
    <2>4. freed' \in [Txn -> [RM -> BOOLEAN]]
      BY <1>8, <1>d DEF TornRequest
    <2> QED
      BY <1>8, <2>2, <2>3, <2>4 DEF TornRequest
  <1> QED
    BY <1>1, <1>2, <1>3, <1>4, <1>5, <1>6, <1>7, <1>8, <1>9 DEF RMStep

-----------------------------------------------------------------------------
(* A handler of one RM changes nothing at another. *)
LEMMA OtherRMs ==
    ASSUME TypeInv, NEW t \in Txn, NEW r \in RM, RMStep(t, r), NEW q \in RM, q # r
    PROVE  /\ customer_record'[q] = customer_record[q] /\ custFile'[q] = custFile[q]
           /\ smr_log'[q] = smr_log[q] /\ txn_log'[q] = txn_log[q]
           /\ logFile'[q] = logFile[q]
           /\ \A u \in Txn : /\ found'[u][q] = found[u][q] /\ applied'[u][q] = applied[u][q]
                             /\ conn'[u][q] = conn[u][q]
  <1> USE DEF TypeInv, TypeOK, rmVars, memory, files, locals
  <1>1. CASE TMPrepare(t, r)
    <2>1. /\ \/ \E log : txn_log' = [txn_log EXCEPT ![r] = log]
             \/ txn_log' = txn_log
          /\ \E s : conn' = [conn EXCEPT ![t][r] = s]
      BY <1>1 DEF TMPrepare, AnswerIs
    <2> QED
      BY <1>1, <2>1 DEF TMPrepare
  <1>9. CASE LogPrepare(t, r)
    BY <1>9 DEF LogPrepare, AnswerIs
  <1>2. CASE TMCommit(t, r)
    BY <1>2 DEF TMCommit
  <1>3. CASE CreateRegularLaptop(t, r)
    BY <1>3 DEF CreateRegularLaptop, AdminThread
  <1>4. CASE LogCommit(t, r)
    BY <1>4 DEF LogCommit
  <1>5. CASE TruncateCust(t, r)
    BY <1>5 DEF TruncateCust
  <1>6. CASE StoreCust(t, r)
    BY <1>6 DEF StoreCust, AnswerIs
  <1>7. CASE TMAbort(t, r)
    BY <1>7 DEF TMAbort, AnswerIs
  <1>8. CASE TornRequest(t, r)
    <2>1. /\ \/ \E log : txn_log' = [txn_log EXCEPT ![r] = log]
             \/ txn_log' = txn_log
          /\ \E s : conn' = [conn EXCEPT ![t][r] = s]
      BY <1>8 DEF TornRequest
    <2> QED
      BY <1>8, <2>1 DEF TornRequest
  <1> QED
    BY <1>1, <1>2, <1>3, <1>4, <1>5, <1>6, <1>7, <1>8, <1>9 DEF RMStep

(* The session of the handler is the only one that moves. *)
LEMMA OtherSessions ==
    ASSUME TypeInv, NEW t \in Txn, NEW r \in RM, RMStep(t, r), NEW u \in Txn, u # t
    PROVE  \A q \in RM : /\ found'[u][q] = found[u][q] /\ applied'[u][q] = applied[u][q]
                         /\ conn'[u][q] = conn[u][q]
  BY DEF TypeInv, TypeOK, locals, RMStep, TMPrepare, LogPrepare, TMCommit, CreateRegularLaptop, LogCommit,
         TruncateCust, StoreCust, TMAbort, TornRequest, AnswerIs, rmVars, memory, files

-----------------------------------------------------------------------------
(* Crashes and restarts. *)
LEMMA LeftoverType ==
    ASSUME TypeInv, NEW rec \in Leftover
    PROVE  rec \in TxnLogRequest
  <1>1. CASE rec = [op |-> 1, cust |-> -1, num |-> 0, by |-> Seed]
    BY <1>1 DEF TxnLogRequest, Key, Writer
  <1>2. ASSUME NEW u \in Txn, NEW i \in 1 .. Len(writes[u]), rec = PrepareRecords(u, writes[u])[i]
        PROVE  rec \in TxnLogRequest
    <2>1. writes[u] \in Seq(CustomerOrder) /\ u \in Writer
      BY DEF TypeInv, TypeOK, Writer
    <2>2. PrepareRecords(u, writes[u]) \in Seq(TxnLogRequest)
      BY <2>1, PrepareRecordsType
    <2>3. Len(PrepareRecords(u, writes[u])) = Len(writes[u])
      BY <2>1 DEF PrepareRecords
    <2> QED
      BY <1>2, <2>2, <2>3
  <1> QED
    BY <1>1, <1>2 DEF Leftover

LEMMA ReplaceInSeq ==
    ASSUME NEW S, NEW s \in Seq(S), NEW i \in 1 .. Len(s), NEW x \in S
    PROVE  [s EXCEPT ![i] = x] \in Seq(S) /\ Len([s EXCEPT ![i] = x]) = Len(s)
  OBVIOUS

LEMMA FaultTypeInv ==
    ASSUME TypeInv, Fault
    PROVE  TypeInv'
  <1> USE DEF TypeInv, TypeOK, Bookkeeping, TMBusy, RecordsLeft, ReadsLeft,
              rmVars, memory, files, locals, tmVars, cliVars, failures
  <1>0. ASSUME TMDies, tmCrashes' \in Nat
        PROVE  TypeInv'
    <2>1. /\ conn' \in [Txn -> [RM -> ConnState]]
          /\ \A t \in Txn, r \in RM : conn'[t][r] = "apply" => conn[t][r] = "apply"
      BY <1>0 DEF TMDies, ConnState
    <2>2. /\ outcome' \in [Txn -> {"none", "Success", "Failed", "ErrorNo", "error"}]
          /\ cpc' \in [Txn -> {"read", "lost", "write", "wait", "done"}]
          /\ \A t \in Txn : cpc'[t] \in {"read", "lost"} => cpc'[t] = cpc[t]
          /\ backlog' \in Seq(Txn)
      BY <1>0 DEF TMDies, DisconnectClients
    <2> QED
      BY <1>0, <2>1, <2>2, FirstRM DEF TMDies
  <1>1. CASE TMCrash
    <2>1. TMDies /\ tmCrashes' \in Nat
      BY <1>1 DEF TMCrash
    <2> HIDE DEF TypeInv
    <2> QED
      BY <1>0, <2>1
  <1>2. CASE TMSigPipe
    <2>1. TMDies /\ tmCrashes' \in Nat
      BY <1>2 DEF TMSigPipe
    <2> HIDE DEF TypeInv
    <2> QED
      BY <1>0, <2>1
  <1>3. CASE TMRestart
    <2>1. 0 \in 0 .. MaxTxnId + 1
      BY DataAssumption
    <2> QED
      BY <1>3, <2>1 DEF TMRestart
  <1>4. ASSUME NEW r \in RM, RMDies(r), rmCrashes' \in Nat
        PROVE  TypeInv'
    <2>1. /\ conn' \in [Txn -> [RM -> ConnState]]
          /\ \A t \in Txn, q \in RM : conn'[t][q] = "apply" => conn[t][q] = "apply" /\ q # r
      BY <1>4 DEF RMDies, ConnState
    <2>2. /\ found' \in [Txn -> [RM -> Seq(TxnLogRequest)]]
          /\ applied' \in [Txn -> [RM -> Nat]]
          /\ freed' \in [Txn -> [RM -> BOOLEAN]]
          /\ \A t \in Txn, q \in RM :
                 q # r => found'[t][q] = found[t][q] /\ applied'[t][q] = applied[t][q]
      BY <1>4 DEF RMDies
    <2>3. /\ customer_record' \in [RM -> CustomerMap] /\ txn_log' \in [RM -> TxnLogMap]
          /\ smr_log' \in [RM -> Seq(MapOp)] /\ rmUp' \in [RM -> BOOLEAN]
      BY <1>4, EmptyTypes DEF RMDies
    <2>4. /\ cpc' \in [Txn -> {"read", "lost", "write", "wait", "done"}]
          /\ \A t \in Txn : cpc'[t] \in {"read", "lost"} => cpc[t] \in {"read", "lost"}
      BY <1>4 DEF RMDies
    <2>5. RecordsLeft'
      BY <2>1, <2>2
    <2> QED
      BY <1>4, <2>1, <2>2, <2>3, <2>4, <2>5 DEF RMDies
  <1>5. ASSUME NEW r \in RM, RMRestart(r)
        PROVE  TypeInv'
    <2>1. Recovered(logFile[r]) \in TxnLogMap
      BY RecoveredType
    <2> QED
      BY <1>5, <2>1 DEF RMRestart
  <1>6. ASSUME NEW t \in Txn, NEW r \in RM, FreedMemory(t, r), ~RMDies(r)
        PROVE  TypeInv'
    <2> DEFINE i == applied[t][r] + 1
    <2>1. PICK rec \in Leftover : found' = [found EXCEPT ![t][r][i] = rec]
      BY <1>6 DEF FreedMemory
    <2>2. rec \in TxnLogRequest
      BY <2>1, LeftoverType
    <2>3. i \in 1 .. Len(found[t][r]) /\ found[t][r] \in Seq(TxnLogRequest)
      BY <1>6 DEF FreedMemory, AtHandler
    <2>4. UNCHANGED <<rmVars, conn, applied, freed, tmVars, backlog, cliVars, failures>>
      BY <1>6 DEF FreedMemory
    <2>5. /\ found' \in [Txn -> [RM -> Seq(TxnLogRequest)]]
          /\ \A u \in Txn, q \in RM : Len(found'[u][q]) = Len(found[u][q])
      <3> DEFINE new == [found[t][r] EXCEPT ![i] = rec]
      <3>1. new \in Seq(TxnLogRequest) /\ Len(new) = Len(found[t][r])
        BY <2>2, <2>3, ReplaceInSeq
      <3>2. found' = [found EXCEPT ![t][r] = new]
        BY <2>1
      <3> HIDE DEF new
      <3> QED
        BY <3>1, <3>2
    <2>6. RecordsLeft'
      BY <2>4, <2>5
    <2> QED
      BY <2>4, <2>5, <2>6
  <1>7. ASSUME NEW r \in RM, RMCrash(r)
        PROVE  RMDies(r) /\ rmCrashes' \in Nat
    BY <1>7 DEF RMCrash
  <1>8. ASSUME NEW t \in Txn, NEW r \in RM, FreedMemory(t, r), RMDies(r)
        PROVE  rmCrashes' \in Nat
    BY <1>8 DEF FreedMemory
  <1> QED
    BY <1>1, <1>2, <1>3, <1>4, <1>5, <1>6, <1>7, <1>8 DEF Fault

LEMMA NextTypeInv == TypeInv /\ [Next]_vars => TypeInv'
  <1> SUFFICES ASSUME TypeInv, [Next]_vars
               PROVE  TypeInv'
    OBVIOUS
  <1>1. CASE UNCHANGED vars
    BY <1>1 DEF vars, rmVars, memory, files, locals, tmVars, cliVars, failures, TypeInv,
                TypeOK, Bookkeeping, TMBusy, ReadsLeft, RecordsLeft
  <1> QED
    BY <1>1, ClientTypeInv, TMTypeInv, RMTypeInv, FaultTypeInv DEF Next, Terminating

(* Every reachable state has its types and its bookkeeping in order. *)
THEOREM TypeInvariant == Spec => []TypeInv
  BY InitTypeInv, NextTypeInv, PTL DEF Spec

(* Type correctness: in particular TMCommit never indexes past the records *)
(* it found and the TM never runs past its last RM.                        *)
THEOREM TypeCorrect == Spec => []TypeOK
  <1>1. TypeInv => TypeOK
    BY DEF TypeInv
  <1> QED
    BY <1>1, TypeInvariant, PTL

-----------------------------------------------------------------------------
(***************************************************************************)
(* Handlers never race while the TM is not restarted.  The TM, alone, is   *)
(* at the place where it waits for the one handler that runs; once it is   *)
(* dead nothing starts another.                                            *)
(***************************************************************************)
Waiting == \A t \in Txn, r \in RM :
               conn[t][r] \in Handling => t = tmTxn /\ r = tmRM /\ tmPc \in {"vote", "ack"}

Exclusion == OneHandler /\ (tmUp => Waiting)

(* So no handler takes a vector away from another that iterates over it. *)
NoneFreed == \A t \in Txn, r \in RM : ~freed[t][r]

HandlerInv == Exclusion /\ NoneFreed

(* A step that starts no handler and leaves the TM where it is. *)
LEMMA NoNewHandler ==
    ASSUME Exclusion,
           \A t \in Txn, r \in RM : conn'[t][r] \in Handling => conn[t][r] \in Handling,
           UNCHANGED tmVars
    PROVE  Exclusion'
  BY DEF Exclusion, OneHandler, Waiting, tmVars

LEMMA TMExclusion ==
    ASSUME TypeInv, Exclusion, TMStep
    PROVE  Exclusion'
  <1> USE DEF Exclusion, Waiting, OneHandler
  <1>0. tmUp /\ tmUp' /\ conn \in [Txn -> [RM -> ConnState]] /\ (tmPc # "accept" => tmTxn \in Txn)
    BY DEF TypeInv, TypeOK, Bookkeeping, TMBusy, TMStep, Accept, Connect, ConnectFailed,
           SendPrepare, RecvVote, SendDecision, RecvDone, Reply
  <1>1. SUFFICES Waiting'
    BY <1>0
  <1>2. ASSUME tmPc \notin {"vote", "ack"} PROVE \A t \in Txn, r \in RM : conn[t][r] \notin Handling
    BY <1>0, <1>2
  <1>3. CASE Accept
    BY <1>2, <1>3 DEF Accept
  <1>4. CASE Connect
    BY <1>0, <1>2, <1>4 DEF Connect, SetSession, Handling, InCommit
  <1>5. CASE ConnectFailed
    BY <1>0, <1>2, <1>5 DEF ConnectFailed, Finish, Handling, InCommit
  <1>6. CASE SendPrepare
    BY <1>0, <1>2, <1>6 DEF SendPrepare, SetSession
  <1>7. CASE RecvVote
    BY <1>0, <1>7 DEF RecvVote, SetSession, Session, Handling, InCommit
  <1>8. CASE SendDecision
    BY <1>0, <1>2, <1>8 DEF SendDecision, SetSession
  <1>9. CASE RecvDone
    BY <1>0, <1>9 DEF RecvDone, SetSession, Session, Handling, InCommit
  <1>10. CASE Reply
    BY <1>0, <1>2, <1>10 DEF Reply, Finish, Handling, InCommit
  <1> QED
    BY <1>3, <1>4, <1>5, <1>6, <1>7, <1>8, <1>9, <1>10 DEF TMStep

(* The TM disturbs no handler: it waits for its reply. *)
LEMMA TMLeavesHandlers ==
    ASSUME TypeInv, HandlerInv, TMStep
    PROVE  \A t \in Txn, r \in RM : conn[t][r] \in Handling => conn'[t][r] = conn[t][r]
  <1>1. tmUp /\ conn \in [Txn -> [RM -> ConnState]]
    BY DEF TypeInv, TypeOK, Bookkeeping, TMBusy, TMStep, Accept, Connect, ConnectFailed,
           SendPrepare, RecvVote, SendDecision, RecvDone, Reply
  <1> SUFFICES ASSUME NEW t \in Txn, NEW r \in RM, conn[t][r] \in Handling
               PROVE  conn'[t][r] = conn[t][r]
    OBVIOUS
  <1>2. t = tmTxn /\ r = tmRM /\ tmPc \in {"vote", "ack"}
    BY <1>1 DEF HandlerInv, Exclusion, Waiting
  <1>3. Session \in Handling
    BY <1>2 DEF Session
  <1> QED
    BY <1>2, <1>3 DEF TMStep, Accept, Connect, ConnectFailed, SendPrepare, RecvVote,
                      SendDecision, RecvDone, Reply, Handling, InCommit

LEMMA RMExclusion ==
    ASSUME TypeInv, Exclusion, NEW t \in Txn, NEW r \in RM, RMStep(t, r)
    PROVE  Exclusion'
  <1>1. conn \in [Txn -> [RM -> ConnState]]
    BY DEF TypeInv, TypeOK
  <1>2. UNCHANGED tmVars
    BY DEF RMStep, TMPrepare, LogPrepare, TMCommit, CreateRegularLaptop, LogCommit, TruncateCust,
           StoreCust, TMAbort, TornRequest
  <1>3. conn[t][r] \in Handling
    BY DEF RMStep, TMPrepare, LogPrepare, TMCommit, CreateRegularLaptop, LogCommit, TruncateCust,
           StoreCust, TMAbort, TornRequest, AtHandler, Handling, InCommit
  <1>4. \E s : conn' = [conn EXCEPT ![t][r] = s]
    BY DEF RMStep, TMPrepare, LogPrepare, TMCommit, CreateRegularLaptop, LogCommit, TruncateCust,
           StoreCust, TMAbort, TornRequest, AnswerIs
  <1>5. \A u \in Txn, q \in RM : conn'[u][q] \in Handling => conn[u][q] \in Handling
    BY <1>1, <1>3, <1>4
  <1> QED
    BY <1>2, <1>5, NoNewHandler

LEMMA FaultExclusion ==
    ASSUME TypeInv, Exclusion, MaxTMRestarts = 0, Fault
    PROVE  Exclusion'
  <1>0. conn \in [Txn -> [RM -> ConnState]] /\ tmRestarts \in Nat
    BY DEF TypeInv, TypeOK
  <1>1. ASSUME TMDies
        PROVE  Exclusion'
    <2>1. \A t \in Txn, r \in RM : conn'[t][r] \in Handling => conn[t][r] \in Handling
      BY <1>1 DEF TMDies, Handling, InCommit
    <2> QED
      BY <1>1, <2>1 DEF TMDies, Exclusion, OneHandler
  <1>2. ~TMRestart
    BY <1>0 DEF TMRestart
  <1>3. ASSUME NEW r \in RM, RMDies(r)
        PROVE  Exclusion'
    <2>1. \A t \in Txn, q \in RM : conn'[t][q] \in Handling => conn[t][q] \in Handling
      BY <1>0, <1>3 DEF RMDies, Handling, InCommit
    <2>2. UNCHANGED tmVars
      BY <1>3 DEF RMDies
    <2> QED
      BY <2>1, <2>2, NoNewHandler
  <1>4. ASSUME NEW r \in RM, RMRestart(r)
        PROVE  Exclusion'
    BY <1>4, NoNewHandler DEF RMRestart
  <1>5. ASSUME NEW t \in Txn, NEW r \in RM, FreedMemory(t, r)
        PROVE  Exclusion'
    BY <1>3, <1>5, NoNewHandler DEF FreedMemory
  <1> QED
    BY <1>1, <1>2, <1>3, <1>4, <1>5 DEF Fault, TMCrash, TMSigPipe, RMCrash

LEMMA NextExclusion ==
    ASSUME TypeInv, Exclusion, MaxTMRestarts = 0, [Next]_vars
    PROVE  Exclusion'
  <1>1. CASE UNCHANGED vars
    BY <1>1, NoNewHandler DEF vars
  <1>2. ASSUME NEW t \in Txn, ClientStep(t)
        PROVE  Exclusion'
    BY <1>2, NoNewHandler DEF ClientStep, ReadRecord, ReadRefused, ReadLost, Submit
  <1> QED
    BY <1>1, <1>2, TMExclusion, RMExclusion, FaultExclusion DEF Next, Terminating

(* Only a handler at r frees vectors of r, and then no other one iterates. *)
LEMMA NextNoneFreed ==
    ASSUME TypeInv, HandlerInv, [Next]_vars
    PROVE  NoneFreed'
  <1> USE DEF HandlerInv, NoneFreed
  <1>0. freed \in [Txn -> [RM -> BOOLEAN]]
    BY DEF TypeInv, TypeOK
  <1>1. CASE UNCHANGED freed
    BY <1>1
  <1>2. ASSUME NEW t \in Txn, NEW r \in RM, RMStep(t, r)
        PROVE  NoneFreed'
    <2>1. ASSUME NEW ids, Free(r, ids), conn[t][r] \in Handling \ {"apply"}
          PROVE  NoneFreed'
      <3>1. \A u \in Txn : conn[u][r] # "apply"
        BY <2>1 DEF Exclusion, OneHandler, Handling, InCommit
      <3> QED
        BY <1>0, <2>1, <3>1 DEF Free
    <2>2. CASE LogCommit(t, r)
      BY <2>1, <2>2 DEF LogCommit, AtHandler, Handling, InCommit
    <2>3. CASE TMAbort(t, r)
      BY <2>1, <2>3 DEF TMAbort, AtHandler, Handling
    <2>4. CASE TornRequest(t, r)
      BY <1>1, <2>1, <2>4 DEF TornRequest, AtHandler, Handling
    <2>5. CASE TMCommit(t, r)
      BY <1>0, <2>5 DEF TMCommit
    <2> QED
      BY <1>1, <1>2, <2>2, <2>3, <2>4, <2>5 DEF RMStep, TMPrepare, LogPrepare, CreateRegularLaptop,
            TruncateCust, StoreCust, locals
  <1>3. ASSUME NEW r \in RM, RMDies(r)
        PROVE  NoneFreed'
    BY <1>0, <1>3 DEF RMDies
  <1>4. CASE Fault
    BY <1>1, <1>3, <1>4 DEF Fault, TMCrash, TMSigPipe, TMRestart, TMDies, RMCrash, RMRestart,
          FreedMemory, locals
  <1>5. CASE TMStep
    BY <1>1, <1>5 DEF TMStep, Accept, Connect, ConnectFailed, SendPrepare, RecvVote,
          SendDecision, RecvDone, Reply, locals
  <1>6. ASSUME NEW t \in Txn, ClientStep(t)
        PROVE  NoneFreed'
    BY <1>1, <1>6 DEF ClientStep, ReadRecord, ReadRefused, ReadLost, Submit, locals
  <1>7. CASE UNCHANGED vars
    BY <1>1, <1>7 DEF vars, locals
  <1> QED
    BY <1>2, <1>4, <1>5, <1>6, <1>7 DEF Next, Terminating

LEMMA NothingFreed ==
    ASSUME HandlerInv, NEW t \in Txn, NEW r \in RM
    PROVE  ~FreedMemory(t, r)
  BY DEF HandlerInv, NoneFreed, FreedMemory

LEMMA NextHandlerInv ==
    ASSUME TypeInv, HandlerInv, MaxTMRestarts = 0, [Next]_vars
    PROVE  HandlerInv'
  <1>1. Exclusion
    BY DEF HandlerInv
  <1> QED
    BY <1>1, NextExclusion, NextNoneFreed DEF HandlerInv

LEMMA HandlerInvariant ==
    ASSUME MaxTMRestarts = 0
    PROVE  Spec => []HandlerInv
  <1>1. Init => HandlerInv
    BY DEF Init, HandlerInv, Exclusion, NoneFreed, OneHandler, Waiting, Handling, InCommit
  <1>2. TypeInv /\ HandlerInv /\ [Next]_vars => HandlerInv'
    BY NextHandlerInv
  <1> QED
    BY <1>1, <1>2, TypeInvariant, PTL DEF Spec

(* While the TM is not restarted, at most one handler runs in the whole    *)
(* system, whatever crashes: the unlocked parts of TMPrepare and TMCommit  *)
(* are safe.                                                               *)
THEOREM HandlersNeverRace ==
    ASSUME MaxTMRestarts = 0
    PROVE  Spec => []OneHandler
  <1>1. HandlerInv => OneHandler
    BY DEF HandlerInv, Exclusion
  <1> QED
    BY <1>1, HandlerInvariant, PTL
=============================================================================
