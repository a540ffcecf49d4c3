---------------------------- MODULE Commits_proofs ----------------------------
(***************************************************************************)
(* Proofs about what TwoPhaseCommit does while no RM crashes and the TM is *)
(* not restarted (it may end at any point, and leave a handler behind):    *)
(* the protocol implements AtomicCommit; a transaction whose client is     *)
(* told "Success" is applied whole at every RM; a commit is based on       *)
(* current reads; the RMs agree between two transactions; and the orders   *)
(* of a customer are numbered without gaps.                                *)
(***************************************************************************)
EXTENDS Decisions_proofs

(* The records of a transaction. *)
Ops(t) == PrepareRecords(t, writes[t])

(* The last n operations of an RM are the first n of t. *)
EndsWith(t, r, n) ==
    /\ n <= Len(smr_log[r])
    /\ \A i \in 1 .. n : smr_log[r][(Len(smr_log[r]) - n) + i] = OpOf(Ops(t)[i])

(* All of t is among the operations of an RM, in one piece. *)
InOnePiece(t, r) ==
    \E k \in 0 .. Len(smr_log[r]) - Len(writes[t]) : \A i \in 1 .. Len(writes[t]) :
        smr_log[r][k + i] = OpOf(Ops(t)[i])

-----------------------------------------------------------------------------
(* How far t has come at an RM, as the handlers of the RM have left it. *)
Unasked(t, r)   == txn_log[r][txnId[t]] = Absent
Entered(t, r)   == /\ txn_log[r][txnId[t]] = Ops(t)
                   /\ Valid(customer_record[r], reads[t])
Voted(t, r)     == Entered(t, r) /\ LineOf(t, r, 1)
Applying(t, r)  == /\ found[t][r] = Ops(t)
                   /\ EndsWith(t, r, applied[t][r])
Applied(t, r)   == found[t][r] = Ops(t) /\ InOnePiece(t, r)
Committed(t, r) == LineOf(t, r, 2) /\ InOnePiece(t, r)

Idle(t, r) == conn[t][r] = "idle"

(* Where the RMs are with the transaction t that the TM serves, by the     *)
(* place the TM has reached: its loops visit the RMs in order.             *)
Connecting(t) == \A r \in RM : /\ conn[t][r] = IF r < tmRM THEN "idle" ELSE "none"
                               /\ Unasked(t, r)
Preparing(t)  == \A r \in RM : /\ Idle(t, r)
                               /\ r < tmRM => Voted(t, r)
                               /\ r >= tmRM => Unasked(t, r)
Voting(t)     == \A r \in RM :
                     /\ r < tmRM => Idle(t, r) /\ Voted(t, r)
                     /\ r > tmRM => Idle(t, r) /\ Unasked(t, r)
                     /\ r = tmRM => \/ conn[t][r] \in {"prepare", "No"} /\ Unasked(t, r)
                                    \/ conn[t][r] = "prelog" /\ Entered(t, r)
                                    \/ conn[t][r] = "Ok" /\ Voted(t, r)
Deciding(t)   == \A r \in RM : /\ Idle(t, r)
                               /\ allOk /\ r < tmRM => Committed(t, r)
                               /\ allOk /\ r >= tmRM => Voted(t, r)
Acking(t)     == \A r \in RM :
                     /\ r # tmRM => Idle(t, r)
                     /\ allOk /\ r < tmRM => Committed(t, r)
                     /\ allOk /\ r > tmRM => Voted(t, r)
                     /\ r = tmRM => conn[t][r] \in {"commit", "abort", "Done"} \cup InCommit
                     /\ allOk /\ r = tmRM =>
                            \/ conn[t][r] = "commit" /\ Voted(t, r)
                            \/ conn[t][r] = "apply" /\ Applying(t, r)
                            \/ conn[t][r] = "log" /\ Applied(t, r)
                            \/ conn[t][r] \in {"trunc", "store", "Done"} /\ Committed(t, r)
Replying(t)   == \A r \in RM : Idle(t, r) /\ (allOk => Committed(t, r))

(* SuccessMeansApplied and the refinement need the loops of the TM and the *)
(* logs of the RMs side by side: an RM that acknowledged has committed all *)
(* that it was sent, because it had logged it when it voted and no other   *)
(* transaction has replaced its txn_log since.                             *)
Progress == \A t \in Txn : t = tmTxn =>
                /\ tmPc = "connect" => Connecting(t)
                /\ tmPc = "prepare" => Preparing(t)
                /\ tmPc = "vote"    => Voting(t)
                /\ tmPc = "decide"  => Deciding(t)
                /\ tmPc = "ack"     => Acking(t)
                /\ tmPc = "reply"   => Replying(t)

RMsUp         == \A r \in RM : rmUp[r]
LogsGiven     == \A r \in RM, id \in TxnId : txn_log[r][id] # Absent => id < transaction_id
OrdersPlaced  == \A t \in Txn : cpc[t] \in {"wait", "done"} => writes[t] # <<>>
VotesFirst    == \A t \in Txn, r \in RM : Commits(t) => LineOf(t, r, 1)
CommitsValid  == \A t \in Txn, r \in RM :
                     conn[t][r] = "commit" => Valid(customer_record[r], reads[t])
SuccessIsDone == \A t \in Txn, r \in RM : outcome[t] = "Success" => Committed(t, r)

CommitInv == RMsUp /\ LogsGiven /\ OrdersPlaced /\ VotesFirst /\ CommitsValid
             /\ SuccessIsDone /\ Progress

-----------------------------------------------------------------------------
(* The records of a transaction: as many as its orders, in their order. *)
LEMMA OpsFacts ==
    ASSUME TypeInv, NEW t \in Txn
    PROVE  /\ Ops(t) \in Seq(TxnLogRequest) /\ Ops(t) # Absent
           /\ Len(Ops(t)) = Len(writes[t]) /\ Len(writes[t]) \in Nat
           /\ DOMAIN Ops(t) = 1 .. Len(writes[t])
           /\ writes[t] # <<>> => Len(writes[t]) > 0 /\ Ops(t) # <<>>
           /\ \A rec \in Records(Ops(t)) : rec.op = 1 /\ rec.by = t
           /\ writes[t] # <<>> => Records(Ops(t)) # {}
  <1>1. writes[t] \in Seq(CustomerOrder) /\ t \in Writer
    BY DEF TypeInv, TypeOK, Writer
  <1>2. /\ Len(Ops(t)) = Len(writes[t]) /\ Len(writes[t]) \in Nat
        /\ DOMAIN Ops(t) = 1 .. Len(writes[t])
        /\ writes[t] # <<>> => Len(writes[t]) > 0
    BY <1>1 DEF Ops, PrepareRecords
  <1>3. Ops(t) \in Seq(TxnLogRequest) /\ Ops(t) # Absent
    BY <1>1, PrepareRecordsType, AbsentAssumption DEF Ops
  <1>4. writes[t] # <<>> => Ops(t) # <<>>
    BY <1>2, <1>3
  <1> QED
    BY <1>1, <1>2, <1>3, <1>4, PrepareRecordsHold DEF Ops

(* A log file never loses a line, nor an RM that does not crash an         *)
(* operation.                                                              *)
LEMMA RMKeeps ==
    ASSUME TypeInv, NEW t \in Txn, NEW r \in RM, RMStep(t, r)
    PROVE  /\ \A u \in Txn, q \in RM, op \in 1 .. 3 : LineOf(u, q, op) => LineOf(u, q, op)'
           /\ \A u \in Txn, q \in RM : InOnePiece(u, q) => InOnePiece(u, q)'
  <1>0. /\ logFile \in [RM -> LogFile] /\ logFile[r] \in LogFile /\ txnId[t] \in TxnId
        /\ smr_log \in [RM -> Seq(MapOp)]
        /\ found[t][r] \in Seq(TxnLogRequest) /\ writes[t] \in Seq(CustomerOrder) /\ t \in Writer
    BY DEF TypeInv, TypeOK, Writer
  <1>1. \/ logFile' = logFile
        \/ \E recs \in Seq(TxnLogRequest) : logFile'[r] = AppendLines(logFile[r], txnId[t], recs)
    <2>1. CASE LogPrepare(t, r)
      <3>1. PrepareRecords(t, writes[t]) \in Seq(TxnLogRequest)
        BY <1>0, PrepareRecordsType
      <3> QED
        BY <1>0, <2>1, <3>1 DEF LogPrepare
    <2>2. CASE LogCommit(t, r)
      <3>1. CommitRecords(found[t][r]) \in Seq(TxnLogRequest)
        BY <1>0, CommitRecordsType
      <3> QED
        BY <1>0, <2>2, <3>1 DEF LogCommit
    <2>3. CASE TMAbort(t, r)
      <3>1. <<AbortRecord(t)>> \in Seq(TxnLogRequest)
        BY AbortRecordType
      <3> QED
        BY <1>0, <2>3, <3>1 DEF TMAbort
    <2> QED
      BY <2>1, <2>2, <2>3 DEF RMStep, TMPrepare, TMCommit, CreateRegularLaptop, TruncateCust,
                              StoreCust, TornRequest, rmVars, files
  <1>2. Lines(logFile[r]) \subseteq Lines(logFile'[r])
    <2>1. ASSUME NEW recs \in Seq(TxnLogRequest),
                 logFile'[r] = AppendLines(logFile[r], txnId[t], recs)
          PROVE  Lines(logFile[r]) \subseteq Lines(logFile'[r])
      BY <1>0, <2>1, AppendedLines
    <2> QED
      BY <1>1, <2>1
  <1>3. \A q \in RM : Lines(logFile[q]) \subseteq Lines(logFile'[q])
    BY <1>2, OtherRMs
  <1>4. \A u \in Txn, q \in RM, op \in 1 .. 3 : LineOf(u, q, op) => LineOf(u, q, op)'
    BY <1>3 DEF LineOf
  <1>5. writes' = writes
    BY RMFrame DEF cliVars
  <1>6. ASSUME NEW u \in Txn, NEW q \in RM, InOnePiece(u, q)
        PROVE  InOnePiece(u, q)'
    <2>1. smr_log'[q] = smr_log[q] \/ \E x : smr_log'[q] = Append(smr_log[q], x)
      <3>1. CASE CreateRegularLaptop(t, r)
        BY <1>0, <3>1 DEF CreateRegularLaptop, AdminThread
      <3>2. CASE ~CreateRegularLaptop(t, r)
        BY <3>2 DEF RMStep, TMPrepare, LogPrepare, TMCommit, LogCommit, TruncateCust, StoreCust, TMAbort,
                    TornRequest, rmVars, memory
      <3> QED
        BY <3>1, <3>2
    <2>2. CASE smr_log'[q] = smr_log[q]
      BY <1>5, <1>6, <2>2 DEF InOnePiece, Ops
    <2>3. ASSUME NEW x, smr_log'[q] = Append(smr_log[q], x)
          PROVE  InOnePiece(u, q)'
      <3> DEFINE n == Len(writes[u])
                 old == smr_log[q]
                 new == smr_log'[q]
      <3>1. n \in Nat /\ old \in Seq(MapOp) /\ Len(old) \in Nat
        BY <1>0, OpsFacts
      <3>2. Len(new) = Len(old) + 1 /\ \A i \in 1 .. Len(old) : new[i] = old[i]
        BY <2>3, <3>1
      <3>3. PICK k \in 0 .. Len(old) - n : \A i \in 1 .. n : old[k + i] = OpOf(Ops(u)[i])
        BY <1>6 DEF InOnePiece
      <3> HIDE DEF n, old, new
      <3>4. k \in 0 .. Len(new) - n /\ \A i \in 1 .. n : k + i \in 1 .. Len(old)
        BY <3>1, <3>2, <3>3
      <3>5. \A i \in 1 .. n : new[k + i] = OpOf(Ops(u)[i])
        BY <3>2, <3>3, <3>4
      <3> QED
        BY <1>5, <3>4, <3>5 DEF InOnePiece, Ops, n, new
    <2> QED
      BY <2>1, <2>2, <2>3
  <1> QED
    BY <1>4, <1>6

-----------------------------------------------------------------------------
(* What each handler of an RM does to the stage of its transaction. *)
LEMMA PrepareEnters ==
    ASSUME TypeInv, NEW t \in Txn, NEW r \in RM, TMPrepare(t, r), tmTxn = t, Unasked(t, r)
    PROVE  \/ conn'[t][r] = "No" /\ Unasked(t, r)'
           \/ conn'[t][r] = "prelog" /\ Entered(t, r)'
  <1>0. /\ txn_log \in [RM -> TxnLogMap] /\ txn_log[r] \in TxnLogMap
        /\ conn \in [Txn -> [RM -> ConnState]] /\ txnId[t] \in TxnId
    BY DEF TypeInv, TypeOK
  <1>1. UNCHANGED <<reads, writes, txnId, customer_record>>
    BY DEF TMPrepare, cliVars
  <1>2. CASE ~Valid(customer_record[r], reads[t]) /\ txn_log' = txn_log /\ AnswerIs(t, r, "No")
    BY <1>0, <1>1, <1>2 DEF AnswerIs, Unasked
  <1>3. CASE /\ Valid(customer_record[r], reads[t])
             /\ conn' = [conn EXCEPT ![t][r] = "prelog"]
             /\ txn_log' = [txn_log EXCEPT ![r] = Insert(@, txnId[t], Ops(t))]
    <2>1. conn'[t][r] = "prelog"
      BY <1>0, <1>3
    <2>2. txn_log'[r][txnId[t]] = Ops(t)
      BY <1>0, <1>3 DEF Unasked, Insert, TxnLogMap
    <2> QED
      BY <1>1, <1>3, <2>1, <2>2 DEF Entered, Ops
  <1> QED
    BY <1>2, <1>3 DEF TMPrepare, Ops

LEMMA LogVotes ==
    ASSUME TypeInv, NEW t \in Txn, NEW r \in RM, LogPrepare(t, r), tmTxn = t,
           Entered(t, r), writes[t] # <<>>
    PROVE  conn'[t][r] = "Ok" /\ Voted(t, r)'
  <1>0. /\ logFile \in [RM -> LogFile] /\ logFile[r] \in LogFile
        /\ conn \in [Txn -> [RM -> ConnState]] /\ txnId[t] \in TxnId
    BY DEF TypeInv, TypeOK
  <1>1. /\ UNCHANGED <<reads, writes, txnId, customer_record, txn_log>>
        /\ logFile'[r] = AppendLines(logFile[r], txnId[t], Ops(t))
        /\ conn'[t][r] = "Ok"
    BY <1>0 DEF LogPrepare, AnswerIs, Ops, memory, cliVars
  <1>2. Lines(logFile'[r]) = Lines(logFile[r]) \cup Records(Ops(t))
    BY <1>0, <1>1, OpsFacts, AppendedLines
  <1>3. LineOf(t, r, 1)'
    BY <1>2, OpsFacts DEF LineOf
  <1> QED
    BY <1>1, <1>3 DEF Voted, Entered, Ops

LEMMA CommitFinds ==
    ASSUME TypeInv, NEW t \in Txn, NEW r \in RM, TMCommit(t, r), Voted(t, r), writes[t] # <<>>
    PROVE  conn'[t][r] = "apply" /\ Applying(t, r)'
  <1>0. /\ conn \in [Txn -> [RM -> ConnState]] /\ smr_log[r] \in Seq(MapOp)
        /\ found \in [Txn -> [RM -> Seq(TxnLogRequest)]]
        /\ applied \in [Txn -> [RM -> Nat]]
    BY DEF TypeInv, TypeOK
  <1>1. Entry(txn_log[r], txnId[t]) = Ops(t) /\ Ops(t) # <<>>
    BY OpsFacts DEF Voted, Entered, Entry
  <1>2. conn'[t][r] = "apply" /\ found'[t][r] = Ops(t) /\ applied'[t][r] = 0
        /\ smr_log' = smr_log /\ writes' = writes
    BY <1>0, <1>1 DEF TMCommit, rmVars, memory, cliVars
  <1> QED
    BY <1>0, <1>2 DEF Applying, EndsWith, Ops

LEMMA LaptopApplies ==
    ASSUME TypeInv, NEW t \in Txn, NEW r \in RM, CreateRegularLaptop(t, r), Applying(t, r)
    PROVE  \/ conn'[t][r] = "apply" /\ Applying(t, r)'
           \/ conn'[t][r] = "log" /\ Applied(t, r)'
  <1> DEFINE n   == applied[t][r]
             old == smr_log[r]
             new == smr_log'[r]
             op(i) == OpOf(Ops(t)[i])
             m   == Len(writes[t])
  <1>0. /\ conn \in [Txn -> [RM -> ConnState]] /\ old \in Seq(MapOp) /\ Len(old) \in Nat
        /\ n \in Nat /\ applied \in [Txn -> [RM -> Nat]]
        /\ smr_log \in [RM -> Seq(MapOp)]
    BY DEF TypeInv, TypeOK
  <1>1. conn[t][r] = "apply" /\ n < m /\ m \in Nat /\ Len(found[t][r]) = m
    BY OpsFacts DEF CreateRegularLaptop, AtHandler, Applying, TypeInv, Bookkeeping, RecordsLeft
  <1>2. /\ applied'[t][r] = n + 1 /\ found' = found /\ writes' = writes
        /\ new = Append(old, op(n + 1))
        /\ conn'[t][r] = IF n + 1 = m THEN "log" ELSE "apply"
    BY <1>0, <1>1 DEF CreateRegularLaptop, AdminThread, Applying, cliVars
  <1>3. n <= Len(old) /\ \A i \in 1 .. n : old[(Len(old) - n) + i] = op(i)
    BY DEF Applying, EndsWith
  <1> HIDE DEF old, new, op, n, m
  <1>4. Len(new) = Len(old) + 1 /\ new[Len(old) + 1] = op(n + 1)
        /\ \A i \in 1 .. Len(old) : new[i] = old[i]
    BY <1>0, <1>2
  <1>5. n + 1 <= Len(new) /\ \A i \in 1 .. n + 1 : new[(Len(new) - (n + 1)) + i] = op(i)
    <2>1. n + 1 <= Len(new) /\ Len(new) - (n + 1) = Len(old) - n
      BY <1>0, <1>3, <1>4
    <2>2. ASSUME NEW i \in 1 .. n
          PROVE  new[(Len(old) - n) + i] = op(i)
      <3>1. (Len(old) - n) + i \in 1 .. Len(old)
        BY <1>0, <1>3
      <3> QED
        BY <1>3, <1>4, <3>1
    <2>3. (Len(old) - n) + (n + 1) = Len(old) + 1
      BY <1>0
    <2>4. \A i \in 1 .. n + 1 : i \in 1 .. n \/ i = n + 1
      BY <1>0
    <2> QED
      BY <1>4, <2>1, <2>2, <2>3, <2>4
  <1>6. EndsWith(t, r, applied[t][r])'
    BY <1>2, <1>5 DEF EndsWith, Ops, new, op
  <1>7. CASE n + 1 = m
    <2>1. Len(new) - m \in 0 .. Len(new) - m /\ \A i \in 1 .. m : new[(Len(new) - m) + i] = op(i)
      <3>1. Len(new) - m >= 0 /\ Len(new) - m \in Int
        BY <1>0, <1>4, <1>5, <1>7
      <3> QED
        BY <1>5, <1>7, <3>1
    <2>2. InOnePiece(t, r)'
      BY <1>2, <2>1 DEF InOnePiece, Ops, m, new, op
    <2> QED
      BY <1>2, <1>7, <2>2 DEF Applied, Applying, Ops
  <1>8. CASE n + 1 # m
    BY <1>2, <1>6, <1>8 DEF Applying, Ops
  <1> QED
    BY <1>7, <1>8

LEMMA LogCommits ==
    ASSUME TypeInv, NEW t \in Txn, NEW r \in RM, LogCommit(t, r), Applied(t, r), writes[t] # <<>>
    PROVE  conn'[t][r] = "trunc" /\ Committed(t, r)'
  <1>0. /\ logFile \in [RM -> LogFile] /\ logFile[r] \in LogFile
        /\ conn \in [Txn -> [RM -> ConnState]] /\ txnId[t] \in TxnId
    BY DEF TypeInv, TypeOK
  <1>1. conn'[t][r] = "trunc" /\ InOnePiece(t, r)'
    BY <1>0, RMKeeps DEF RMStep, LogCommit, Applied
  <1>2. logFile'[r] = AppendLines(logFile[r], txnId[t], CommitRecords(Ops(t)))
    BY <1>0 DEF LogCommit, Applied
  <1>3. CommitRecords(Ops(t)) \in Seq(TxnLogRequest)
        /\ Records(CommitRecords(Ops(t))) = {[rec EXCEPT !.op = 2] : rec \in Records(Ops(t))}
    BY OpsFacts, CommitRecordsType, CommitRecordsHold
  <1>4. Lines(logFile'[r]) = Lines(logFile[r]) \cup Records(CommitRecords(Ops(t)))
    BY <1>0, <1>2, <1>3, AppendedLines
  <1>5. PICK rec \in Records(Ops(t)) : rec \in TxnLogRequest /\ rec.by = t
    BY OpsFacts, RecordsType
  <1>6. LineOf(t, r, 2)'
    BY <1>3, <1>4, <1>5, CommittedOp DEF LineOf
  <1> QED
    BY <1>1, <1>6 DEF Committed

-----------------------------------------------------------------------------
(* CommitInv is an invariant. *)

LEMMA InitCommits == Init => CommitInv
  <1> SUFFICES ASSUME Init PROVE CommitInv
    OBVIOUS
  <1>1. RMsUp /\ CommitsValid /\ SuccessIsDone /\ OrdersPlaced
    BY DEF Init, RMsUp, CommitsValid, SuccessIsDone, OrdersPlaced
  <1>2. Progress
    BY ConfigAssumption DEF Init, Progress
  <1>3. LogsGiven
    <2> SUFFICES ASSUME NEW r \in RM, NEW id \in TxnId, txn_log[r][id] # Absent
                 PROVE  id < transaction_id
      BY DEF LogsGiven
    <2>1. id = 0 /\ SeedRecords # <<>>
      BY DEF Init, CommitLog
    <2>2. Seeded > 0
      <3>1. CASE Seeded = 0
        <4>1. Len(SeedRecords) = 0 /\ SeedRecords \in Seq(TxnLogRequest)
          BY <3>1, SeedTypes DEF SeedRecords, PrepareRecords
        <4> QED
          BY <2>1, <4>1
      <3> QED
        BY <3>1, ConfigAssumption
    <2> QED
      BY <2>1, <2>2 DEF Init
  <1>4. VotesFirst
    BY SeedHeld, DataAssumption DEF Init, VotesFirst, Commits, LineOf, InCommit
  <1> QED
    BY <1>1, <1>2, <1>3, <1>4 DEF CommitInv

(* The stage of a transaction at an RM is in the RM's own logs. *)
LEMMA SameStage ==
    ASSUME NEW t \in Txn, NEW r \in RM,
           writes'[t] = writes[t], reads'[t] = reads[t], txnId'[t] = txnId[t],
           txn_log'[r] = txn_log[r], customer_record'[r] = customer_record[r],
           LineOf(t, r, 1) => LineOf(t, r, 1)', LineOf(t, r, 2) => LineOf(t, r, 2)',
           InOnePiece(t, r) => InOnePiece(t, r)'
    PROVE  /\ Unasked(t, r) => Unasked(t, r)'
           /\ Entered(t, r) => Entered(t, r)'
           /\ Voted(t, r) => Voted(t, r)'
           /\ Committed(t, r) => Committed(t, r)'
  BY DEF Unasked, Entered, Voted, Committed, Ops

(* The one handler that can run while the TM serves a transaction is that  *)
(* transaction's, at the RM the TM waits for.                              *)
LEMMA ServedHandler ==
    ASSUME TypeInv, HandlerInv, tmTxn \in Txn, NEW t \in Txn, NEW r \in RM, conn[t][r] \in Handling
    PROVE  t = tmTxn /\ r = tmRM /\ tmPc \in {"vote", "ack"} /\ tmUp
  <1>1. tmUp
    BY ConfigAssumption DEF TypeInv, Bookkeeping, TMBusy
  <1> QED
    BY <1>1 DEF HandlerInv, Exclusion, Waiting

LEMMA RMProgress ==
    ASSUME TypeInv, HandlerInv, IdInv, CommitInv, NEW t \in Txn, NEW r \in RM, RMStep(t, r)
    PROVE  Progress'
  <1>0. UNCHANGED <<tmTxn, tmPc, tmRM, allOk, reads, writes, txnId>>
    BY RMFrame DEF tmVars, cliVars
  <1> SUFFICES ASSUME tmTxn \in Txn PROVE Progress'
    BY <1>0 DEF Progress
  <1>1. conn[t][r] \in Handling
    BY RMWritesOwn
  <1>2. t = tmTxn /\ r = tmRM /\ tmPc \in {"vote", "ack"} /\ ~TornRequest(t, r)
    BY <1>1, ServedHandler DEF TornRequest
  <1>3. writes[t] # <<>>
    BY <1>2 DEF IdInv, InLine, ServedWaits, CommitInv, OrdersPlaced
  <1>4. \A q \in RM : q # r =>
            /\ conn'[t][q] = conn[t][q]
            /\ Unasked(t, q) => Unasked(t, q)'
            /\ Voted(t, q) => Voted(t, q)'
            /\ Committed(t, q) => Committed(t, q)'
    BY <1>0, OtherRMs, RMKeeps, SameStage
  <1>5. tmRM \in RM /\ \A q \in RM : (q < tmRM => q # r) /\ (q > tmRM => q # r)
    BY <1>2 DEF RM, TypeInv, TypeOK
  <1>6. CASE tmPc = "vote"
    <2>1. Voting(t)
      BY <1>2, <1>6 DEF CommitInv, Progress
    <2>2. \/ conn[t][r] = "prepare" /\ Unasked(t, r)
          \/ conn[t][r] = "prelog" /\ Entered(t, r)
      BY <1>1, <1>2, <2>1 DEF Voting, Handling, InCommit
    <2>3. \/ TMPrepare(t, r) /\ Unasked(t, r)
          \/ LogPrepare(t, r) /\ Entered(t, r)
      BY <1>2, <2>2 DEF RMStep, TMPrepare, LogPrepare, TMCommit, CreateRegularLaptop, LogCommit,
                        TruncateCust, StoreCust, TMAbort, AtHandler
    <2>4. \/ conn'[t][r] = "No" /\ Unasked(t, r)'
          \/ conn'[t][r] = "prelog" /\ Entered(t, r)'
          \/ conn'[t][r] = "Ok" /\ Voted(t, r)'
      BY <1>2, <1>3, <2>3, PrepareEnters, LogVotes
    <2>5. Voting(t)'
      BY <1>0, <1>2, <1>4, <1>5, <2>1, <2>4 DEF Voting, Idle
    <2> QED
      BY <1>0, <1>2, <1>6, <2>5 DEF Progress
  <1>7. CASE tmPc = "ack"
    <2>1. Acking(t)
      BY <1>2, <1>7 DEF CommitInv, Progress
    <2>2. conn[t][r] \in {"commit", "abort"} \cup InCommit
      BY <1>1, <1>2, <2>1 DEF Acking, Handling, InCommit
    <2>3. ~TMPrepare(t, r) /\ ~LogPrepare(t, r)
      BY <2>2 DEF TMPrepare, LogPrepare, AtHandler, InCommit
    <2>4. conn \in [Txn -> [RM -> ConnState]]
      BY DEF TypeInv, TypeOK
    <2>5. conn'[t][r] \in {"abort", "Done"} \cup InCommit
      BY <1>2, <2>3, <2>4 DEF RMStep, TMCommit, CreateRegularLaptop, LogCommit, TruncateCust,
                              StoreCust, TMAbort, AtHandler, AnswerIs, InCommit
    <2>6. ASSUME allOk
          PROVE  \/ conn'[t][r] = "apply" /\ Applying(t, r)'
                 \/ conn'[t][r] = "log" /\ Applied(t, r)'
                 \/ conn'[t][r] \in {"trunc", "store", "Done"} /\ Committed(t, r)'
      <3>1. \/ conn[t][r] = "commit" /\ Voted(t, r)
            \/ conn[t][r] = "apply" /\ Applying(t, r)
            \/ conn[t][r] = "log" /\ Applied(t, r)
            \/ conn[t][r] \in {"trunc", "store", "Done"} /\ Committed(t, r)
        BY <1>2, <2>1, <2>6 DEF Acking
      <3>2. CASE conn[t][r] = "commit" /\ Voted(t, r)
        <4>1. TMCommit(t, r)
          BY <1>2, <2>3, <3>2 DEF RMStep, CreateRegularLaptop, LogCommit, TruncateCust, StoreCust,
                                  TMAbort, AtHandler
        <4> QED
          BY <1>3, <3>2, <4>1, CommitFinds
      <3>3. CASE conn[t][r] = "apply" /\ Applying(t, r)
        <4>1. CreateRegularLaptop(t, r)
          BY <1>2, <2>3, <3>3 DEF RMStep, TMCommit, LogCommit, TruncateCust, StoreCust,
                                  TMAbort, AtHandler
        <4> QED
          BY <3>3, <4>1, LaptopApplies
      <3>4. CASE conn[t][r] = "log" /\ Applied(t, r)
        <4>1. LogCommit(t, r)
          BY <1>2, <2>3, <3>4 DEF RMStep, TMCommit, CreateRegularLaptop, TruncateCust, StoreCust,
                                  TMAbort, AtHandler
        <4> QED
          BY <1>3, <3>4, <4>1, LogCommits
      <3>5. CASE conn[t][r] \in {"trunc", "store", "Done"} /\ Committed(t, r)
        <4>1. TruncateCust(t, r) \/ StoreCust(t, r)
          BY <1>2, <2>3, <3>5 DEF RMStep, TMCommit, CreateRegularLaptop, LogCommit,
                                  TMAbort, AtHandler
        <4>2. conn'[t][r] \in {"trunc", "store", "Done"}
          BY <1>2, <2>4, <4>1 DEF TruncateCust, StoreCust, AnswerIs
        <4>3. Committed(t, r)'
          BY <3>5, RMKeeps DEF Committed
        <4> QED
          BY <4>2, <4>3
      <3> QED
        BY <3>1, <3>2, <3>3, <3>4, <3>5
    <2>7. Acking(t)'
      BY <1>0, <1>2, <1>4, <1>5, <2>1, <2>5, <2>6 DEF Acking, Idle
    <2> QED
      BY <1>0, <1>2, <1>7, <2>7 DEF Progress
  <1> QED
    BY <1>2, <1>6, <1>7

LEMMA RMCommits ==
    ASSUME TypeInv, HandlerInv, IdInv, CommitInv, NEW t \in Txn, NEW r \in RM, RMStep(t, r)
    PROVE  CommitInv'
  <1>0. /\ UNCHANGED <<tmTxn, transaction_id, reads, writes, txnId, cpc, outcome, rmUp>>
        /\ txn_log \in [RM -> TxnLogMap] /\ txn_log[r] \in TxnLogMap
        /\ conn \in [Txn -> [RM -> ConnState]]
    BY RMFrame DEF tmVars, cliVars, RMStep, TMPrepare, LogPrepare, TMCommit, CreateRegularLaptop, LogCommit,
                   TruncateCust, StoreCust, TMAbort, TornRequest, rmVars, memory, TypeInv, TypeOK
  <1>1. conn[t][r] \in Handling
    BY RMWritesOwn
  <1>2. RMsUp' /\ OrdersPlaced'
    BY <1>0 DEF CommitInv, RMsUp, OrdersPlaced
  <1>3. LogsGiven'
    <2>1. txnId[t] < transaction_id
      BY <1>1 DEF Live, IdInv, IdsGiven
    <2>2. \A id \in TxnId : id # txnId[t] =>
              txn_log'[r][id] = txn_log[r][id] \/ txn_log'[r][id] = Absent
      BY <1>0 DEF RMStep, TMPrepare, LogPrepare, TMCommit, CreateRegularLaptop, LogCommit, TruncateCust,
                  StoreCust, TMAbort, TornRequest, rmVars, memory, Insert, UpdateValue, CommitLog,
                  EmptyLog, TxnLogMap
    <2>3. \A q \in RM : q # r => txn_log'[q] = txn_log[q]
      BY OtherRMs
    <2> QED
      BY <1>0, <2>1, <2>2, <2>3 DEF CommitInv, LogsGiven
  <1>4. VotesFirst'
    BY RMDecidesNothing, RMKeeps DEF CommitInv, VotesFirst
  <1>5. CommitsValid'
    <2>1. conn'[t][r] # "commit"
      BY <1>0 DEF RMStep, TMPrepare, LogPrepare, TMCommit, CreateRegularLaptop, LogCommit, TruncateCust,
                  StoreCust, TMAbort, TornRequest, AnswerIs
    <2>2. ASSUME NEW u \in Txn, NEW q \in RM, conn'[u][q] = "commit"
          PROVE  FALSE
      <3>1. conn[u][q] = "commit"
        BY <2>1, <2>2, OtherRMs, OtherSessions
      <3>2. u = t /\ q = r
        BY <1>1, <3>1 DEF HandlerInv, Exclusion, OneHandler, Handling
      <3> QED
        BY <2>1, <2>2, <3>2
    <2> QED
      BY <2>2 DEF CommitsValid
  <1>6. SuccessIsDone'
    BY <1>0, RMKeeps DEF CommitInv, SuccessIsDone, Committed
  <1>7. Progress'
    BY RMProgress
  <1> QED
    BY <1>2, <1>3, <1>4, <1>5, <1>6, <1>7 DEF CommitInv

(* A step of the TM leaves the RMs as they are. *)
LEMMA TMFrame ==
    ASSUME TypeInv, TMStep
    PROVE  /\ UNCHANGED <<rmVars, locals, reads, writes>>
           /\ \A t \in Txn, r \in RM :
                  /\ \A op \in 1 .. 3 : LineOf(t, r, op)' <=> LineOf(t, r, op)
                  /\ InOnePiece(t, r)' <=> InOnePiece(t, r)
                  /\ Committed(t, r)' <=> Committed(t, r)
           /\ ~Accept => /\ txnId' = txnId
                         /\ \A t \in Txn, r \in RM : /\ Unasked(t, r)' <=> Unasked(t, r)
                                                     /\ Voted(t, r)' <=> Voted(t, r)
                                                     /\ Applying(t, r)' <=> Applying(t, r)
                                                     /\ Applied(t, r)' <=> Applied(t, r)
  <1>1. UNCHANGED <<rmVars, locals, reads, writes>> /\ (~Accept => txnId' = txnId)
    BY DEF TMStep, Accept, Connect, ConnectFailed, SendPrepare, RecvVote, SendDecision,
           RecvDone, Reply, cliVars
  <1>2. UNCHANGED <<customer_record, txn_log, smr_log, logFile, found, applied>>
    BY <1>1 DEF rmVars, memory, files, locals
  <1>3. \A t \in Txn, r \in RM :
            /\ \A op \in 1 .. 3 : LineOf(t, r, op)' <=> LineOf(t, r, op)
            /\ InOnePiece(t, r)' <=> InOnePiece(t, r)
    BY <1>1, <1>2 DEF LineOf, InOnePiece, Ops
  <1>4. \A t \in Txn, r \in RM : Committed(t, r)' <=> Committed(t, r)
    BY <1>3 DEF Committed
  <1>5. ASSUME ~Accept, NEW t \in Txn, NEW r \in RM
        PROVE  /\ Unasked(t, r)' <=> Unasked(t, r)
               /\ Voted(t, r)' <=> Voted(t, r)
               /\ Applying(t, r)' <=> Applying(t, r)
               /\ Applied(t, r)' <=> Applied(t, r)
    BY <1>1, <1>2, <1>3, <1>5 DEF Unasked, Entered, Voted, Applying, Applied, EndsWith, Ops
  <1> QED
    BY <1>1, <1>3, <1>4, <1>5

(* The RMs are visited in order. *)
LEMMA NextRMOrder ==
    ASSUME TypeInv, NEW again, NEW next, NextRM(again, next)
    PROVE  \/ /\ tmPc' = next /\ tmRM' = 0
              /\ \A r \in RM : r <= tmRM /\ ~(r < 0) /\ r >= 0
           \/ /\ tmPc' = again /\ tmRM' = tmRM + 1 /\ tmRM' \in RM
              /\ \A r \in RM : /\ r < tmRM' <=> r <= tmRM
                               /\ r >= tmRM' <=> r > tmRM
  <1>1. tmRM \in RM /\ NumRM \in Nat
    BY ConfigAssumption DEF TypeInv, TypeOK
  <1>2. CASE tmRM + 1 = NumRM
    BY <1>1, <1>2 DEF NextRM, RM
  <1>3. CASE tmRM + 1 # NumRM
    BY <1>1, <1>3 DEF NextRM, RM
  <1> QED
    BY <1>2, <1>3

LEMMA TMProgress ==
    ASSUME TypeInv, HandlerInv, IdInv, CommitInv, TMStep
    PROVE  Progress'
  <1>0. /\ conn \in [Txn -> [RM -> ConnState]] /\ tmRM \in RM
        /\ backlog \in Seq(Txn) /\ txnId \in [Txn -> TxnId]
        /\ tmPc # "accept" => tmTxn \in Txn
    BY DEF TypeInv, TypeOK, Bookkeeping, TMBusy
  <1>1. \A r \in RM : /\ r <= tmRM <=> r < tmRM \/ r = tmRM
                      /\ r >= tmRM <=> r > tmRM \/ r = tmRM
                      /\ r # tmRM => r < tmRM \/ r > tmRM
                      /\ ~(tmRM < tmRM) /\ ~(tmRM > tmRM)
    BY <1>0, ConfigAssumption DEF RM
  <1>2. CASE Accept
    <2>1. /\ tmUp /\ tmPc = "accept" /\ backlog # <<>> /\ conn' = conn
          /\ tmPc' = "connect" /\ tmRM' = 0 /\ transaction_id <= MaxTxnId /\ txn_log' = txn_log
      BY <1>2 DEF Accept, rmVars, memory
    <2>2. PICK t \in Txn : tmTxn' = t /\ txnId' = [txnId EXCEPT ![t] = transaction_id]
      <3>1. Head(backlog) \in Txn
        BY <1>0, <2>1
      <3> QED
        BY <1>2, <3>1 DEF Accept
    <2>3. \A r \in RM : conn[t][r] = "none"
      BY <2>1, <2>2, NoneLive DEF IdInv, SessionsLive, Live
    <2>4. transaction_id \in TxnId /\ ~(transaction_id < transaction_id)
      BY <2>1, DataAssumption DEF TypeInv, TypeOK, TxnId
    <2>5. \A r \in RM : txn_log[r][transaction_id] = Absent
      BY <2>4 DEF CommitInv, LogsGiven
    <2>6. \A r \in RM : Unasked(t, r)'
      BY <1>0, <2>1, <2>2, <2>5 DEF Unasked
    <2>7. \A r \in RM : ~(r < 0)
      BY ConfigAssumption DEF RM
    <2>8. Connecting(t)'
      BY <2>1, <2>3, <2>6, <2>7 DEF Connecting
    <2> QED
      BY <2>1, <2>2, <2>8 DEF Progress
  <1>3. CASE Connect
    <2>1. /\ tmPc = "connect" /\ tmTxn' = tmTxn /\ tmTxn \in Txn /\ Connecting(tmTxn) /\ ~Accept
      BY <1>0, <1>3 DEF Connect, Accept, CommitInv, Progress
    <2>2. \A r \in RM : conn'[tmTxn][r] = IF r = tmRM THEN "idle" ELSE conn[tmTxn][r]
      BY <1>0, <1>3, <2>1 DEF Connect, SetSession
    <2>3. \A r \in RM : Unasked(tmTxn, r)'
      BY <2>1, TMFrame DEF Connecting
    <2>4. \/ /\ tmPc' = "prepare" /\ tmRM' = 0 /\ \A r \in RM : r <= tmRM /\ ~(r < 0) /\ r >= 0
          \/ /\ tmPc' = "connect" /\ tmRM' = tmRM + 1
             /\ \A r \in RM : r < tmRM' <=> r <= tmRM
      BY <1>3, NextRMOrder DEF Connect
    <2>5. CASE tmPc' = "prepare"
      <3>1. Preparing(tmTxn)'
        BY <1>1, <2>1, <2>2, <2>3, <2>4, <2>5 DEF Preparing, Connecting, Idle
      <3> QED
        BY <2>1, <2>5, <3>1 DEF Progress
    <2>6. CASE tmPc' = "connect"
      <3>1. Connecting(tmTxn)'
        BY <1>1, <2>1, <2>2, <2>3, <2>4, <2>6 DEF Connecting
      <3> QED
        BY <2>1, <2>6, <3>1 DEF Progress
    <2> QED
      BY <2>4, <2>5, <2>6
  <1>4. CASE ConnectFailed \/ Reply
    BY <1>4, ConfigAssumption DEF ConnectFailed, Reply, Finish, Progress
  <1>5. CASE SendPrepare
    <2>1. /\ tmPc = "prepare" /\ tmPc' = "vote" /\ tmTxn' = tmTxn /\ tmTxn \in Txn /\ tmRM' = tmRM
          /\ Preparing(tmTxn) /\ ~Accept
      BY <1>0, <1>5 DEF SendPrepare, Accept, CommitInv, Progress
    <2>2. \A r \in RM : conn'[tmTxn][r] = IF r = tmRM THEN "prepare" ELSE conn[tmTxn][r]
      BY <1>0, <1>5, <2>1 DEF SendPrepare, SetSession, Session, Preparing, Idle
    <2>3. \A r \in RM : /\ Unasked(tmTxn, r)' <=> Unasked(tmTxn, r)
                        /\ Voted(tmTxn, r)' <=> Voted(tmTxn, r)
      BY <2>1, TMFrame
    <2>4. Voting(tmTxn)'
      BY <1>1, <2>1, <2>2, <2>3 DEF Voting, Preparing, Idle
    <2> QED
      BY <2>1, <2>4 DEF Progress
  <1>6. CASE RecvVote
    <2>1. /\ tmPc = "vote" /\ tmTxn' = tmTxn /\ tmTxn \in Txn /\ Voting(tmTxn) /\ ~Accept
      BY <1>0, <1>6 DEF RecvVote, Accept, CommitInv, Progress
    <2>2. /\ Session \in {"Ok", "No"}
          /\ Session = "Ok" => Voted(tmTxn, tmRM)
          /\ \A r \in RM : conn'[tmTxn][r] = IF r = tmRM THEN "idle" ELSE conn[tmTxn][r]
      BY <1>0, <1>6, <2>1 DEF RecvVote, SetSession, Session, Voting
    <2>3. \A r \in RM : /\ Unasked(tmTxn, r)' <=> Unasked(tmTxn, r)
                        /\ Voted(tmTxn, r)' <=> Voted(tmTxn, r)
      BY <2>1, TMFrame
    <2>4. \A r \in RM : conn'[tmTxn][r] = "idle"
      BY <1>1, <2>1, <2>2 DEF Voting, Idle
    <2>5. CASE Session = "No"
      <3>1. ~allOk' /\ tmPc' = "decide"
        BY <1>6, <2>5 DEF RecvVote, ReadsAsNo
      <3>2. Deciding(tmTxn)'
        BY <2>1, <2>4, <3>1 DEF Deciding, Idle
      <3> QED
        BY <2>1, <3>1, <3>2 DEF Progress
    <2>6. CASE Session = "Ok"
      <3>1. NextRM("prepare", "decide")
        BY <1>6, <2>6 DEF RecvVote, ReadsAsNo
      <3>2. \A r \in RM : r <= tmRM => Voted(tmTxn, r)'
        BY <1>1, <2>1, <2>2, <2>3, <2>6 DEF Voting
      <3>3. \A r \in RM : r > tmRM => Unasked(tmTxn, r)'
        BY <2>1, <2>3 DEF Voting
      <3>4. \/ /\ tmPc' = "decide" /\ tmRM' = 0
               /\ \A r \in RM : r <= tmRM /\ ~(r < 0) /\ r >= 0
            \/ /\ tmPc' = "prepare"
               /\ \A r \in RM : (r < tmRM' <=> r <= tmRM) /\ (r >= tmRM' <=> r > tmRM)
        BY <3>1, NextRMOrder
      <3>5. CASE tmPc' = "decide"
        <4>1. Deciding(tmTxn)'
          BY <2>1, <2>4, <3>2, <3>4, <3>5 DEF Deciding, Idle
        <4> QED
          BY <2>1, <3>5, <4>1 DEF Progress
      <3>6. CASE tmPc' = "prepare"
        <4>1. Preparing(tmTxn)'
          BY <2>1, <2>4, <3>2, <3>3, <3>4, <3>6 DEF Preparing, Idle
        <4> QED
          BY <2>1, <3>6, <4>1 DEF Progress
      <3> QED
        BY <3>4, <3>5, <3>6
    <2> QED
      BY <2>2, <2>5, <2>6
  <1>7. CASE SendDecision
    <2>1. /\ tmPc = "decide" /\ tmPc' = "ack" /\ tmTxn' = tmTxn /\ tmTxn \in Txn /\ tmRM' = tmRM
          /\ allOk' = allOk /\ Deciding(tmTxn) /\ ~Accept
      BY <1>0, <1>7 DEF SendDecision, Accept, CommitInv, Progress
    <2>2. \A r \in RM : conn'[tmTxn][r] = IF r # tmRM THEN conn[tmTxn][r]
                                          ELSE IF allOk THEN "commit" ELSE "abort"
      BY <1>0, <1>7, <2>1 DEF SendDecision, SetSession, Session, Deciding, Idle
    <2>3. \A r \in RM : /\ Committed(tmTxn, r)' <=> Committed(tmTxn, r)
                        /\ Voted(tmTxn, r)' <=> Voted(tmTxn, r)
      BY <2>1, TMFrame
    <2>4. Acking(tmTxn)'
      BY <1>1, <2>1, <2>2, <2>3 DEF Acking, Deciding, Idle
    <2> QED
      BY <2>1, <2>4 DEF Progress
  <1>8. CASE RecvDone
    <2>1. /\ tmPc = "ack" /\ tmTxn' = tmTxn /\ tmTxn \in Txn /\ allOk' = allOk
          /\ Acking(tmTxn) /\ ~Accept
      BY <1>0, <1>8 DEF RecvDone, Accept, CommitInv, Progress
    <2>2. /\ Session = "Done"
          /\ \A r \in RM : conn'[tmTxn][r] = IF r = tmRM THEN "idle" ELSE conn[tmTxn][r]
      BY <1>0, <1>8, <2>1 DEF RecvDone, SetSession, Session, Acking, InCommit
    <2>3. \A r \in RM : /\ Committed(tmTxn, r)' <=> Committed(tmTxn, r)
                        /\ Voted(tmTxn, r)' <=> Voted(tmTxn, r)
      BY <2>1, TMFrame
    <2>4. \A r \in RM : conn'[tmTxn][r] = "idle"
      BY <2>1, <2>2 DEF Acking, Idle
    <2>5. allOk /\ conn[tmTxn][tmRM] = "Done" => Committed(tmTxn, tmRM)
      BY <1>0, <2>1 DEF Acking
    <2>6. allOk => \A r \in RM : r <= tmRM => Committed(tmTxn, r)'
      BY <1>1, <2>1, <2>2, <2>3, <2>5 DEF Acking, Session
    <2>7. allOk => \A r \in RM : r > tmRM => Voted(tmTxn, r)'
      BY <2>1, <2>3 DEF Acking
    <2>8. \/ tmPc' = "reply" /\ \A r \in RM : r <= tmRM
          \/ /\ tmPc' = "decide"
             /\ \A r \in RM : (r < tmRM' <=> r <= tmRM) /\ (r >= tmRM' <=> r > tmRM)
      BY <1>8, NextRMOrder DEF RecvDone
    <2>9. CASE tmPc' = "reply"
      <3>1. Replying(tmTxn)'
        BY <2>1, <2>4, <2>6, <2>8, <2>9 DEF Replying, Idle
      <3> QED
        BY <2>1, <2>9, <3>1 DEF Progress
    <2>10. CASE tmPc' = "decide"
      <3>1. Deciding(tmTxn)'
        BY <2>1, <2>4, <2>6, <2>7, <2>8, <2>10 DEF Deciding, Idle
      <3> QED
        BY <2>1, <2>10, <3>1 DEF Progress
    <2> QED
      BY <2>8, <2>9, <2>10
  <1> QED
    BY <1>2, <1>3, <1>4, <1>5, <1>6, <1>7, <1>8 DEF TMStep

LEMMA TMCommits ==
    ASSUME TypeInv, HandlerInv, IdInv, CommitInv, TMStep
    PROVE  CommitInv'
  <1>0. /\ conn \in [Txn -> [RM -> ConnState]] /\ tmRM \in RM
        /\ cpc \in [Txn -> {"read", "lost", "write", "wait", "done"}]
        /\ outcome \in [Txn -> {"none", "Success", "Failed", "ErrorNo", "error"}]
        /\ transaction_id \in 0 .. MaxTxnId + 1
        /\ tmPc # "accept" => tmTxn \in Txn
    BY DEF TypeInv, TypeOK, Bookkeeping, TMBusy
  <1>1. UNCHANGED <<rmUp, txn_log, customer_record, reads, writes>>
    BY TMFrame DEF rmVars, memory
  <1>2. RMsUp'
    BY <1>1 DEF CommitInv, RMsUp
  <1>3. LogsGiven'
    <2>1. transaction_id' = transaction_id \/ transaction_id' = transaction_id + 1
      BY DEF TMStep, Accept, Connect, ConnectFailed, SendPrepare, RecvVote, SendDecision, RecvDone, Reply
    <2>2. \A id \in TxnId : id < transaction_id => id < transaction_id'
      BY <1>0, <2>1, DataAssumption DEF TxnId
    <2> QED
      BY <1>1, <2>2 DEF CommitInv, LogsGiven
  <1>4. /\ \A t \in Txn : cpc'[t] # cpc[t] => t = tmTxn /\ cpc[t] = "wait"
        /\ \A t \in Txn : outcome'[t] = "Success" =>
               outcome[t] = "Success" \/ (t = tmTxn /\ tmPc = "reply" /\ allOk)
    <2>1. CASE ConnectFailed \/ Reply
      BY <1>0, <2>1 DEF ConnectFailed, Reply, Finish, IdInv, InLine, ServedWaits
    <2>2. CASE ~(ConnectFailed \/ Reply)
      BY <2>2 DEF TMStep, Accept, Connect, SendPrepare, RecvVote, SendDecision, RecvDone, cliVars
    <2> QED
      BY <2>1, <2>2
  <1>5. OrdersPlaced'
    BY <1>1, <1>4 DEF CommitInv, OrdersPlaced
  <1>6. SendDecision => tmPc = "decide" /\ tmTxn \in Txn /\ Deciding(tmTxn)
    BY <1>0 DEF SendDecision, CommitInv, Progress
  <1>7. VotesFirst'
    <2> SUFFICES ASSUME NEW t \in Txn, NEW r \in RM, Commits(t)'
                 PROVE  LineOf(t, r, 1)
      BY TMFrame DEF VotesFirst
    <2>1. CASE Commits(t)
      BY <2>1 DEF CommitInv, VotesFirst
    <2>2. CASE ~Commits(t)
      <3>1. SendDecision /\ t = tmTxn /\ allOk
        BY <2>2, TMDecidesThere
      <3>2. \A q \in RM : q < tmRM => Commits(t)
        BY <1>6, <3>1 DEF Deciding, Committed, Commits
      <3>3. r >= tmRM
        BY <1>0, <2>2, <3>2 DEF RM
      <3> QED
        BY <1>6, <3>1, <3>3 DEF Deciding, Voted
    <2> QED
      BY <2>1, <2>2
  <1>8. CommitsValid'
    <2> SUFFICES ASSUME NEW t \in Txn, NEW r \in RM, conn'[t][r] = "commit"
                 PROVE  Valid(customer_record[r], reads[t])
      BY <1>1 DEF CommitsValid
    <2>1. CASE conn[t][r] = "commit"
      BY <2>1 DEF CommitInv, CommitsValid
    <2>2. CASE conn[t][r] # "commit"
      <3>1. SendDecision /\ t = tmTxn /\ r = tmRM /\ allOk
        BY <1>0, <2>2 DEF TMStep, Accept, Connect, ConnectFailed, SendPrepare, RecvVote,
               SendDecision, RecvDone, Reply, Finish, SetSession, Session
      <3>2. r >= tmRM
        BY <1>0, <3>1 DEF RM
      <3> QED
        BY <1>6, <3>1, <3>2 DEF Deciding, Voted, Entered
    <2> QED
      BY <2>1, <2>2
  <1>9. SuccessIsDone'
    <2> SUFFICES ASSUME NEW t \in Txn, NEW r \in RM, outcome'[t] = "Success"
                 PROVE  Committed(t, r)
      BY TMFrame DEF SuccessIsDone
    <2>1. CASE outcome[t] = "Success"
      BY <2>1 DEF CommitInv, SuccessIsDone
    <2>2. CASE t = tmTxn /\ tmPc = "reply" /\ allOk
      BY <2>2 DEF CommitInv, Progress, Replying
    <2> QED
      BY <1>4, <2>1, <2>2
  <1>10. Progress'
    BY TMProgress
  <1> QED
    BY <1>2, <1>3, <1>5, <1>7, <1>8, <1>9, <1>10 DEF CommitInv

(* Steps that touch no RM, nor what is ordered, move no transaction. *)
LEMMA SameLogs ==
    ASSUME NEW t \in Txn, NEW r \in RM,
           UNCHANGED <<customer_record, txn_log, smr_log, logFile, found, applied>>,
           writes'[t] = writes[t], reads'[t] = reads[t], txnId'[t] = txnId[t]
    PROVE  /\ LineOf(t, r, 1)' <=> LineOf(t, r, 1)
           /\ Unasked(t, r)' <=> Unasked(t, r)
           /\ Entered(t, r)' <=> Entered(t, r)
           /\ Voted(t, r)' <=> Voted(t, r)
           /\ Applying(t, r)' <=> Applying(t, r)
           /\ Applied(t, r)' <=> Applied(t, r)
           /\ Committed(t, r)' <=> Committed(t, r)
  <1>1. \A op \in 1 .. 3 : LineOf(t, r, op)' <=> LineOf(t, r, op)
    BY DEF LineOf
  <1>2. /\ InOnePiece(t, r)' <=> InOnePiece(t, r)
        /\ Unasked(t, r)' <=> Unasked(t, r)
    BY DEF InOnePiece, Ops, Unasked
  <1>3. /\ Entered(t, r)' <=> Entered(t, r)
        /\ Voted(t, r)' <=> Voted(t, r)
    BY <1>1 DEF Voted, Entered, Ops
  <1>4. Applying(t, r)' <=> Applying(t, r)
    BY DEF Applying, EndsWith, Ops
  <1>5. /\ Applied(t, r)' <=> Applied(t, r)
        /\ Committed(t, r)' <=> Committed(t, r)
    BY <1>1, <1>2 DEF Applied, Committed, Ops
  <1> QED
    BY <1>1, <1>2, <1>3, <1>4, <1>5

LEMMA SameProgress ==
    ASSUME Progress,
           UNCHANGED <<customer_record, txn_log, smr_log, logFile, found, applied>>,
           UNCHANGED <<conn, tmTxn, tmPc, tmRM, allOk>>,
           tmTxn \in Txn => /\ writes'[tmTxn] = writes[tmTxn]
                            /\ reads'[tmTxn] = reads[tmTxn]
                            /\ txnId'[tmTxn] = txnId[tmTxn]
    PROVE  Progress'
  <1> SUFFICES ASSUME NEW t \in Txn, t = tmTxn
               PROVE  /\ tmPc = "connect" => Connecting(t)'
                      /\ tmPc = "prepare" => Preparing(t)'
                      /\ tmPc = "vote"    => Voting(t)'
                      /\ tmPc = "decide"  => Deciding(t)'
                      /\ tmPc = "ack"     => Acking(t)'
                      /\ tmPc = "reply"   => Replying(t)'
    BY DEF Progress
  <1>1. \A r \in RM : /\ Unasked(t, r)' <=> Unasked(t, r)
                      /\ Entered(t, r)' <=> Entered(t, r)
                      /\ Voted(t, r)' <=> Voted(t, r)
                      /\ Applying(t, r)' <=> Applying(t, r)
                      /\ Applied(t, r)' <=> Applied(t, r)
                      /\ Committed(t, r)' <=> Committed(t, r)
    BY SameLogs
  <1>2. /\ Connecting(t)' <=> Connecting(t)
        /\ Preparing(t)' <=> Preparing(t)
        /\ Voting(t)' <=> Voting(t)
    BY <1>1 DEF Connecting, Preparing, Voting, Idle
  <1>3. /\ Deciding(t)' <=> Deciding(t)
        /\ Acking(t)' <=> Acking(t)
        /\ Replying(t)' <=> Replying(t)
    BY <1>1 DEF Deciding, Acking, Replying, Idle
  <1> QED
    BY <1>2, <1>3 DEF Progress

(* What a client reads and orders is settled before the TM has heard of it. *)
LEMMA ClientCommits ==
    ASSUME TypeInv, IdInv, CommitInv, HandlerInv, NEW t \in Txn, ClientStep(t), MaxTMRestarts = 0
    PROVE  CommitInv'
  <1>0. /\ cpc \in [Txn -> {"read", "lost", "write", "wait", "done"}]
        /\ outcome \in [Txn -> {"none", "Success", "Failed", "ErrorNo", "error"}]
        /\ writes \in [Txn -> Seq(CustomerOrder)] /\ reads \in [Txn -> Seq(CustomerRecord)]
    BY DEF TypeInv, TypeOK
  <1>1. /\ UNCHANGED <<rmUp, customer_record, txn_log, smr_log, logFile, conn, found, applied,
                       tmTxn, tmPc, tmRM, allOk, transaction_id, txnId>>
        /\ cpc[t] \in {"read", "lost", "write"}
        /\ outcome'[t] = outcome[t] \/ outcome'[t] = "error"
        /\ \A u \in Txn : u # t => /\ cpc'[u] = cpc[u] /\ outcome'[u] = outcome[u]
                                   /\ reads'[u] = reads[u] /\ writes'[u] = writes[u]
    BY <1>0 DEF ClientStep, ReadRecord, ReadRefused, ReadLost, Submit, GotRecord,
                rmVars, memory, files, locals, tmVars
  <1>2. ~Live(t) /\ t # tmTxn /\ outcome[t] = "none"
    BY <1>1 DEF Fresh, Live, IdInv, InLine, LiveLeft, NotTold
  <1>3. \A u \in Txn, r \in RM : u # t => (Committed(u, r)' <=> Committed(u, r))
    BY <1>1, SameLogs
  <1>4. RMsUp' /\ LogsGiven'
    BY <1>1 DEF CommitInv, RMsUp, LogsGiven
  <1>5. OrdersPlaced'
    <2>1. CASE Submit(t)
      <3>1. WriteShape[t][1] \in 1 .. NumCustomers /\ WriteShape[t][2] \in Nat \ {0}
        BY ConfigAssumption
      <3>2. writes'[t] # <<>>
        BY <1>0, <2>1, <3>1, WriteSetsOrder, WriteSetOfOrders DEF Submit
      <3> QED
        BY <1>1, <3>2 DEF CommitInv, OrdersPlaced
    <2>2. CASE ~Submit(t)
      <3>1. cpc'[t] \in {"read", "lost", "write"}
        BY <1>0, <2>2 DEF ClientStep, ReadRecord, ReadRefused, ReadLost, GotRecord
      <3> QED
        BY <1>1, <3>1 DEF CommitInv, OrdersPlaced
    <2> QED
      BY <2>1, <2>2
  <1>6. VotesFirst'
    BY <1>1, OthersDecideNothing DEF CommitInv, VotesFirst, LineOf
  <1>7. CommitsValid'
    <2>1. \A r \in RM : conn'[t][r] # "commit"
      BY <1>1, <1>2 DEF Live, Handling
    <2> QED
      BY <1>1, <2>1 DEF CommitInv, CommitsValid
  <1>8. SuccessIsDone'
    BY <1>1, <1>2, <1>3 DEF CommitInv, SuccessIsDone
  <1>9. Progress'
    BY <1>1, <1>2, SameProgress DEF CommitInv
  <1> QED
    BY <1>4, <1>5, <1>6, <1>7, <1>8, <1>9 DEF CommitInv

(* The end of the TM leaves every RM to the handler it has. *)
LEMMA OnlyTMFaults ==
    ASSUME TypeInv, HandlerInv, RMsUp, MaxTMRestarts = 0, MaxRMCrashes = 0, Fault
    PROVE  TMDies
  BY NothingFreed DEF Fault, TMCrash, TMSigPipe, TMRestart, RMCrash, RMRestart, TypeInv, TypeOK, RMsUp

LEMMA FaultCommits ==
    ASSUME TypeInv, HandlerInv, IdInv, CommitInv, MaxTMRestarts = 0, MaxRMCrashes = 0, Fault
    PROVE  CommitInv'
  <1>1. TMDies
    BY OnlyTMFaults DEF CommitInv
  <1>2. /\ UNCHANGED <<rmUp, customer_record, txn_log, smr_log, logFile, transaction_id,
                       reads, writes, txnId>>
        /\ tmTxn' \notin Txn
        /\ \A t \in Txn, r \in RM : conn'[t][r] = "commit" => conn[t][r] = "commit"
        /\ \A t \in Txn : cpc'[t] = cpc[t] \/ (cpc[t] = "wait" /\ cpc'[t] = "done")
        /\ \A t \in Txn : outcome'[t] = "Success" => outcome[t] = "Success"
    BY <1>1, ConfigAssumption DEF TMDies, DisconnectClients, rmVars, memory, files
  <1>3. RMsUp' /\ LogsGiven' /\ CommitsValid' /\ OrdersPlaced' /\ Progress'
    BY <1>2 DEF CommitInv, RMsUp, LogsGiven, CommitsValid, OrdersPlaced, Progress
  <1>4. VotesFirst'
    BY <1>2, OthersDecideNothing DEF CommitInv, VotesFirst, LineOf
  <1>5. SuccessIsDone'
    <2>1. \A t \in Txn, r \in RM : Committed(t, r) => Committed(t, r)'
      BY <1>2 DEF Committed, LineOf, InOnePiece, Ops
    <2> QED
      BY <1>2, <2>1 DEF CommitInv, SuccessIsDone
  <1> QED
    BY <1>3, <1>4, <1>5 DEF CommitInv

LEMMA NextCommits ==
    ASSUME TypeInv, HandlerInv, IdInv, CommitInv, MaxTMRestarts = 0, MaxRMCrashes = 0, [Next]_vars
    PROVE  CommitInv'
  <1>1. CASE UNCHANGED vars
    <2>1. /\ UNCHANGED <<rmUp, customer_record, txn_log, smr_log, logFile, conn, found, applied>>
          /\ UNCHANGED <<tmTxn, tmPc, tmRM, allOk, transaction_id, cpc, reads, writes, txnId, outcome>>
      BY <1>1 DEF vars, rmVars, memory, files, locals, tmVars, cliVars
    <2>2. \A t \in Txn, r \in RM : /\ LineOf(t, r, 1)' <=> LineOf(t, r, 1)
                                   /\ Committed(t, r)' <=> Committed(t, r)
      BY <2>1, SameLogs
    <2>3. RMsUp' /\ LogsGiven' /\ OrdersPlaced' /\ CommitsValid' /\ SuccessIsDone'
      BY <2>1, <2>2 DEF CommitInv, RMsUp, LogsGiven, OrdersPlaced, CommitsValid, SuccessIsDone
    <2>4. VotesFirst'
      BY <1>1, <2>2, OthersDecideNothing DEF CommitInv, VotesFirst
    <2>5. Progress'
      BY <2>1, SameProgress DEF CommitInv
    <2> QED
      BY <2>3, <2>4, <2>5 DEF CommitInv
  <1> QED
    BY <1>1, ClientCommits, TMCommits, RMCommits, FaultCommits DEF Next, Terminating

LEMMA CommitInvariant ==
    ASSUME MaxTMRestarts = 0, MaxRMCrashes = 0
    PROVE  Spec => [](TypeInv /\ HandlerInv /\ IdInv /\ DecisionInv /\ CommitInv)
  <1>1. Init => CommitInv
    BY InitCommits
  <1>2. TypeInv /\ HandlerInv /\ IdInv /\ DecisionInv /\ CommitInv /\ [Next]_vars => CommitInv'
    BY NextCommits
  <1>3. Spec => [](TypeInv /\ HandlerInv /\ IdInv /\ DecisionInv)
    BY DecisionInvariant
  <1> QED
    BY <1>1, <1>2, <1>3, PTL DEF Spec

-----------------------------------------------------------------------------
(* A client that is told "Success" finds its whole transaction, in one     *)
(* piece, among the operations of every RM, if no RM crashes; the TM may.  *)
THEOREM SuccessIsApplied ==
    ASSUME MaxTMRestarts = 0, MaxRMCrashes = 0
    PROVE  Spec => []SuccessMeansApplied
  <1>1. CommitInv => SuccessMeansApplied
    BY DEF CommitInv, SuccessIsDone, Committed, InOnePiece, Ops, SuccessMeansApplied
  <1> QED
    BY <1>1, CommitInvariant, PTL

-----------------------------------------------------------------------------
(* The protocol implements AtomicCommit. *)

LEMMA StateOfLines ==
    ASSUME NEW t \in Txn, NEW r \in RM
    PROVE  /\ StateAt(t, r) = IF LineOf(t, r, 2) THEN "committed"
                              ELSE IF LineOf(t, r, 3) THEN "aborted"
                              ELSE IF LineOf(t, r, 1) THEN "prepared"
                              ELSE "working"
           /\ StateAt(t, r)' = IF LineOf(t, r, 2)' THEN "committed"
                               ELSE IF LineOf(t, r, 3)' THEN "aborted"
                               ELSE IF LineOf(t, r, 1)' THEN "prepared"
                               ELSE "working"
  <1>1. \A op \in 1 .. 3 : /\ Logged(t, r, op) <=> LineOf(t, r, op)
                           /\ Logged(t, r, op)' <=> LineOf(t, r, op)'
    BY DEF Logged, LineOf, Lines, Records
  <1> QED
    BY <1>1 DEF StateAt

LEMMA InitAtomic == Init => AC!ACInit
  <1> SUFFICES ASSUME Init PROVE AC!ACInit
    OBVIOUS
  <1>1. ASSUME NEW t \in Txn, NEW r \in RM
        PROVE  StateAt(t, r) = "working"
    <2>1. \A op \in 1 .. 3 : ~LineOf(t, r, op)
      BY SeedHeld, DataAssumption DEF LineOf
    <2> QED
      BY <2>1, StateOfLines
  <1>2. \A t \in Txn : outcome[t] = "none"
    BY DEF Init
  <1> QED
    BY <1>1, <1>2 DEF AC!ACInit

(* Seen from AtomicCommit, a handler moves its transaction at its RM or     *)
(* does nothing.                                                            *)
LEMMA RMAtomic ==
    ASSUME TypeInv, HandlerInv, IdInv, DecisionInv, CommitInv,
           NEW t \in Txn, NEW r \in RM, RMStep(t, r)
    PROVE  [AC!ACNext]_(AC!acVars)
  <1>0. outcome' = outcome
    BY RMFrame DEF cliVars
  <1>1. \A line \in Lines(logFile[r])' :
            \/ line \in Lines(logFile[r])
            \/ line.by = t /\ (line.op = 2 => conn[t][r] = "log")
                           /\ (line.op = 3 => conn[t][r] = "abort")
    BY RMWritesOwn
  <1>2. \A u \in Txn, q \in RM, op \in 1 .. 3 : LineOf(u, q, op) => LineOf(u, q, op)'
    BY RMKeeps
  <1>3. \A u \in Txn, q \in RM : u # t \/ q # r => StateAt(u, q)' = StateAt(u, q)
    <2> SUFFICES ASSUME NEW u \in Txn, NEW q \in RM, u # t \/ q # r
                 PROVE  \A op \in 1 .. 3 : LineOf(u, q, op)' <=> LineOf(u, q, op)
      BY StateOfLines
    <2>1. CASE q # r
      BY <2>1, OtherRMs DEF LineOf
    <2>2. CASE q = r
      BY <1>1, <1>2, <2>2 DEF LineOf
    <2> QED
      BY <2>1, <2>2
  <1>4. /\ LineOf(t, r, 2)' => LineOf(t, r, 2) \/ conn[t][r] = "log"
        /\ LineOf(t, r, 3)' => LineOf(t, r, 3) \/ conn[t][r] = "abort"
    BY <1>1 DEF LineOf
  <1>5. ASSUME NEW s, StateAt(t, r)' = s
        PROVE  AC!Becomes(t, r, s)
    BY <1>0, <1>3, <1>5 DEF AC!Becomes
  <1>6. CASE StateAt(t, r)' = StateAt(t, r)
    <2>1. \A u \in Txn, q \in RM : StateAt(u, q)' = StateAt(u, q)
      BY <1>3, <1>6
    <2> QED
      BY <1>0, <2>1 DEF AC!acVars
  <1>7. CASE StateAt(t, r)' # StateAt(t, r) /\ StateAt(t, r)' = "committed"
    <2>1. LineOf(t, r, 2)' /\ ~LineOf(t, r, 2) /\ conn[t][r] = "log"
      BY <1>4, <1>7, StateOfLines
    <2>2. Commits(t)
      BY <2>1 DEF Commits, InCommit
    <2>3. \A q \in RM : LineOf(t, q, 1) /\ ~LineOf(t, q, 3)
      BY <2>2 DEF CommitInv, VotesFirst, DecisionInv, OneDecision, Aborts
    <2>4. StateAt(t, r) = "prepared" /\ \A q \in RM : StateAt(t, q) \in {"prepared", "committed"}
      BY <2>1, <2>3, StateOfLines
    <2>5. outcome[t] # "Failed"
      BY <2>2 DEF DecisionInv, ToldTruly
    <2>6. AC!Commit(t, r)
      BY <1>5, <1>7, <2>4, <2>5 DEF AC!Commit, AC!Everywhere
    <2> QED
      BY <2>6 DEF AC!ACNext
  <1>8. CASE StateAt(t, r)' # StateAt(t, r) /\ StateAt(t, r)' = "aborted"
    <2>1. LineOf(t, r, 3)' /\ ~LineOf(t, r, 3) /\ ~LineOf(t, r, 2) /\ conn[t][r] = "abort"
      BY <1>2, <1>4, <1>8, StateOfLines
    <2>2. Aborts(t)
      BY <2>1 DEF Aborts
    <2>3. \A q \in RM : ~LineOf(t, q, 2)
      BY <2>2 DEF DecisionInv, OneDecision, Commits
    <2>4. /\ StateAt(t, r) \in {"working", "prepared"}
          /\ \A q \in RM : StateAt(t, q) \in {"working", "prepared", "aborted"}
      BY <2>1, <2>3, StateOfLines
    <2>5. outcome[t] # "Success"
      BY <2>2 DEF DecisionInv, ToldTruly
    <2>6. AC!Abort(t, r)
      BY <1>5, <1>8, <2>4, <2>5 DEF AC!Abort, AC!Everywhere, AC!State
    <2> QED
      BY <2>6 DEF AC!ACNext
  <1>9. CASE StateAt(t, r)' # StateAt(t, r) /\ StateAt(t, r)' \notin {"committed", "aborted"}
    <2>1. StateAt(t, r)' = "prepared" /\ StateAt(t, r) = "working"
      BY <1>2, <1>9, StateOfLines
    <2>2. AC!Prepare(t, r)
      BY <1>5, <2>1 DEF AC!Prepare
    <2> QED
      BY <2>2 DEF AC!ACNext
  <1> QED
    BY <1>6, <1>7, <1>8, <1>9

(* The TM's answer is one step of AtomicCommit; nothing else it does shows. *)
LEMMA TMAtomic ==
    ASSUME TypeInv, IdInv, DecisionInv, CommitInv, TMStep
    PROVE  [AC!ACNext]_(AC!acVars)
  <1>0. /\ outcome \in [Txn -> {"none", "Success", "Failed", "ErrorNo", "error"}]
        /\ tmPc # "accept" => tmTxn \in Txn
    BY DEF TypeInv, TypeOK, Bookkeeping, TMBusy
  <1>1. \A t \in Txn, r \in RM : StateAt(t, r)' = StateAt(t, r)
    BY TMFrame, StateOfLines
  <1>2. CASE Reply
    <2>0. PICK a \in {"Success", "Failed"} : a = IF allOk THEN "Success" ELSE "Failed"
      OBVIOUS
    <2>1. /\ tmPc = "reply" /\ tmTxn \in Txn /\ outcome' = [outcome EXCEPT ![tmTxn] = a]
      BY <1>0, <1>2, <2>0 DEF Reply, Finish
    <2>2. outcome[tmTxn] = "none"
      BY <2>1 DEF IdInv, InLine, ServedWaits, NotTold
    <2>3. allOk => \A r \in RM : StateAt(tmTxn, r) = "committed"
      BY <2>1, StateOfLines DEF CommitInv, Progress, Replying, Committed
    <2>4. ~allOk => \A r \in RM : StateAt(tmTxn, r) \in {"working", "prepared", "aborted"}
      BY <2>1, StateOfLines DEF DecisionInv, TMDecides, Commits
    <2>5. AC!Everywhere(tmTxn, IF a = "Success" THEN {"committed"} ELSE AC!State \ {"committed"})
      BY <2>0, <2>1, <2>3, <2>4 DEF AC!Everywhere, AC!State
    <2>6. AC!Tell(tmTxn, a)
      BY <1>0, <1>1, <2>1, <2>2, <2>5 DEF AC!Tell
    <2>7. AC!ACNext
      BY <2>1, <2>6 DEF AC!ACNext
    <2> QED
      BY <2>7
  <1>3. CASE ~Reply
    <2>1. ~ConnectFailed
      BY <1>0 DEF ConnectFailed, CommitInv, RMsUp, TypeInv, TypeOK
    <2>2. outcome' = outcome
      BY <1>3, <2>1 DEF TMStep, Accept, Connect, SendPrepare, RecvVote, SendDecision, RecvDone, cliVars
    <2> QED
      BY <1>1, <2>2 DEF AC!acVars
  <1> QED
    BY <1>2, <1>3

(* A client that gives up, or loses its TM, is told nothing. *)
LEMMA OtherAtomic ==
    ASSUME TypeInv, HandlerInv, IdInv, CommitInv, MaxTMRestarts = 0, MaxRMCrashes = 0,
           Fault \/ UNCHANGED vars \/ \E t \in Txn : ClientStep(t)
    PROVE  [AC!ACNext]_(AC!acVars)
  <1>0. outcome \in [Txn -> {"none", "Success", "Failed", "ErrorNo", "error"}]
    BY DEF TypeInv, TypeOK
  <1>1. Fault => TMDies
    BY OnlyTMFaults DEF CommitInv
  <1>2. logFile' = logFile
    BY <1>1 DEF TMDies, vars, ClientStep, ReadRecord, ReadRefused, ReadLost, Submit, rmVars, files
  <1>3. \A t \in Txn, r \in RM : StateAt(t, r)' = StateAt(t, r)
    BY <1>2, StateOfLines DEF LineOf
  <1>4. ASSUME NEW t \in Txn
        PROVE  \/ outcome'[t] = outcome[t]
               \/ outcome[t] = "none" /\ outcome'[t] \in {"ErrorNo", "error"}
    <2>1. CASE TMDies
      BY <2>1 DEF TMDies, DisconnectClients, IdInv, InLine, NotTold
    <2>2. CASE UNCHANGED vars
      BY <2>2 DEF vars, cliVars
    <2>3. CASE \E u \in Txn : ClientStep(u)
      BY <1>0, <2>3 DEF ClientStep, ReadRecord, ReadRefused, ReadLost, Submit, IdInv, InLine, NotTold
    <2> QED
      BY <1>1, <2>1, <2>2, <2>3
  <1>5. \A t \in Txn : (IF outcome'[t] \in {"Success", "Failed"} THEN outcome'[t] ELSE "none")
                     = (IF outcome[t] \in {"Success", "Failed"} THEN outcome[t] ELSE "none")
    BY <1>4
  <1> QED
    BY <1>3, <1>5 DEF AC!acVars

(* Two-phase commit, seen through the log files, is an atomic commit: every *)
(* step of every behaviour in which no RM crashes and no second TM is       *)
(* started is a step of AtomicCommit or changes nothing there.              *)
THEOREM CommitIsAtomic ==
    ASSUME MaxTMRestarts = 0, MaxRMCrashes = 0
    PROVE  Spec => ImplementsAtomicCommit
  <1>1. Init => AC!ACInit
    BY InitAtomic
  <1>2. TypeInv /\ HandlerInv /\ IdInv /\ DecisionInv /\ CommitInv /\ [Next]_vars
            => [AC!ACNext]_(AC!acVars)
    <2> SUFFICES ASSUME TypeInv, HandlerInv, IdInv, DecisionInv, CommitInv, [Next]_vars
                 PROVE  [AC!ACNext]_(AC!acVars)
      OBVIOUS
    <2>1. CASE Fault \/ UNCHANGED vars \/ \E t \in Txn : ClientStep(t)
      BY <2>1, OtherAtomic
    <2> QED
      BY <2>1, RMAtomic, TMAtomic DEF Next, Terminating
  <1>3. Spec => [](TypeInv /\ HandlerInv /\ IdInv /\ DecisionInv /\ CommitInv)
    BY CommitInvariant
  <1> QED
    BY <1>1, <1>2, <1>3, PTL DEF Spec, ImplementsAtomicCommit, AC!ACSpec

-----------------------------------------------------------------------------
(* What a commit is based on.                                              *)

(* Every customer that a client or an experiment asks for exists already.  *)
AllSeeded == /\ ReadCount <= Seeded
             /\ \A t \in Txn : Experiment(t) => Chosen[t] < Seeded

(* A customer that exists is there for good, so a read answers with the    *)
(* customer that was asked for, and no client meets an RM that has crashed *)
(* between two of its reads.                                               *)
SeededKnown  == \A r \in RM, c \in 0 .. Seeded - 1 : customer_record[r][c] # Absent
ReadsInOrder == \A t \in Txn : \A i \in 1 .. Len(reads[t]) :
                    Asked(t, i - 1) \in 0 .. Seeded - 1 /\ reads[t][i].cust = Asked(t, i - 1)
NoneLost     == \A t \in Txn : cpc[t] # "lost"

ReadsInv == SeededKnown /\ ReadsInOrder /\ NoneLost

LEMMA InitReads == Init => ReadsInv
  <1>1. Init => SeededKnown
    BY ConfigAssumption, DataAssumption DEF Init, SeededKnown, SeedCustomers, Key, Customer
  <1> QED
    BY <1>1 DEF Init, ReadsInv, ReadsInOrder, NoneLost

(* An RM answers a read with a record of the customer that was asked for.  *)
LEMMA ReadAnswers ==
    ASSUME TypeInv, ReadsInv, AllSeeded, NEW t \in Txn, ReadRecord(t)
    PROVE  \E rec \in CustomerRecord : /\ rec.cust = Asked(t, Len(reads[t]))
                                       /\ Asked(t, Len(reads[t])) \in 0 .. Seeded - 1
                                       /\ GotRecord(t, rec, "read")
  <1>0. ReadFrom[t] \in RM /\ Seeded \in 0 .. NumCustomers /\ NumCustomers \in Nat /\ ReadCount \in Nat
    BY ConfigAssumption, DataAssumption
  <1>1. PICK n \in Nat : n = Len(reads[t]) /\ cpc[t] = "read"
    BY DEF ReadRecord, TypeInv, TypeOK
  <1>2. Asked(t, n) \in 0 .. Seeded - 1
    <2>1. n < ReadCount
      BY <1>1 DEF TypeInv, Bookkeeping, ReadsLeft
    <2>2. Experiment(t) => Chosen[t] \in Customer
      BY ConfigAssumption DEF Experiment
    <2> QED
      BY <1>0, <2>1, <2>2 DEF Asked, AllSeeded, Customer
  <1>3. customer_record[ReadFrom[t]][Asked(t, n)] \in Int
    <2>1. Asked(t, n) \in Key
      BY <1>0, <1>2 DEF Key, Customer
    <2> QED
      BY <1>0, <1>2, <2>1 DEF ReadsInv, SeededKnown, TypeInv, TypeOK, CustomerMap
  <1>4. PICK rec : rec = [cust |-> Asked(t, n), last |-> customer_record[ReadFrom[t]][Asked(t, n)]]
    OBVIOUS
  <1>5. rec \in CustomerRecord /\ rec.cust = Asked(t, n)
    BY <1>0, <1>2, <1>3, <1>4 DEF CustomerRecord, Key, Customer
  <1>6. GotRecord(t, rec, "read")
    BY <1>0, <1>1, <1>2, <1>4 DEF ReadRecord, RecordOf, ReadsInv, SeededKnown
  <1> QED
    BY <1>1, <1>2, <1>5, <1>6

(* Only a read of a client appends to its reads. *)
LEMMA ClientReads ==
    ASSUME TypeInv, RMsUp, ReadsInv, AllSeeded, NEW t \in Txn, ClientStep(t)
    PROVE  ReadsInv'
  <1>a. ReadFrom[t] \in RM /\ Seeded \in 0 .. NumCustomers /\ NumCustomers \in Nat /\ ReadCount \in Nat
    BY ConfigAssumption, DataAssumption
  <1>0. /\ reads \in [Txn -> Seq(CustomerRecord)] /\ ReadFrom[t] \in RM
        /\ cpc \in [Txn -> {"read", "lost", "write", "wait", "done"}]
        /\ Seeded \in 0 .. NumCustomers /\ NumCustomers \in Nat /\ ReadCount \in Nat
    BY <1>a DEF TypeInv, TypeOK
  <1>1. customer_record' = customer_record
    BY DEF ClientStep, ReadRecord, ReadRefused, ReadLost, Submit, rmVars, memory
  <1>2. SeededKnown'
    BY <1>1 DEF ReadsInv, SeededKnown
  <1>3. CASE ReadRecord(t)
    <2>1. PICK n \in Nat : n = Len(reads[t])
      BY <1>0
    <2>2. PICK rec \in CustomerRecord :
              rec.cust = Asked(t, n) /\ Asked(t, n) \in 0 .. Seeded - 1 /\ GotRecord(t, rec, "read")
      BY <1>3, <2>1, ReadAnswers
    <2>3. reads' = [reads EXCEPT ![t] = Append(@, rec)] /\ cpc'[t] # "lost"
          /\ \A u \in Txn : u # t => cpc'[u] = cpc[u]
      BY <1>0, <2>2 DEF GotRecord
    <2>4. /\ Len(Append(reads[t], rec)) = n + 1
          /\ Append(reads[t], rec)[n + 1] = rec
          /\ \A i \in 1 .. n : Append(reads[t], rec)[i] = reads[t][i]
      BY <1>0, <2>1
    <2>5. \A i \in 1 .. Len(reads'[t]) :
              Asked(t, i - 1) \in 0 .. Seeded - 1 /\ reads'[t][i].cust = Asked(t, i - 1)
      <3> SUFFICES ASSUME NEW i \in 1 .. (n + 1)
                   PROVE  Asked(t, i - 1) \in 0 .. Seeded - 1 /\ reads'[t][i].cust = Asked(t, i - 1)
        BY <1>0, <2>3, <2>4
      <3>1. CASE i = n + 1
        <4>1. i - 1 = n
          BY <3>1
        <4> QED
          BY <1>0, <2>2, <2>3, <2>4, <3>1, <4>1
      <3>2. CASE i \in 1 .. n
        BY <1>0, <2>1, <2>3, <2>4, <3>2 DEF ReadsInv, ReadsInOrder
      <3> QED
        BY <3>1, <3>2
    <2>6. ReadsInOrder'
      BY <1>0, <2>3, <2>5 DEF ReadsInv, ReadsInOrder, Asked, Experiment
    <2>7. NoneLost'
      BY <2>3 DEF ReadsInv, NoneLost
    <2> QED
      BY <1>2, <2>6, <2>7 DEF ReadsInv
  <1>4. CASE ReadRefused(t) \/ Submit(t)
    <2>1. reads' = reads /\ \A u \in Txn : cpc'[u] # "lost" \/ cpc'[u] = cpc[u]
      BY <1>0, <1>4 DEF ReadRefused, Submit
    <2> QED
      BY <1>2, <2>1 DEF ReadsInv, ReadsInOrder, NoneLost, Asked, Experiment
  <1>5. ~ReadLost(t)
    BY <1>0 DEF ReadLost, ReadsInv, NoneLost, RMsUp
  <1> QED
    BY <1>3, <1>4, <1>5 DEF ClientStep

(* An RM forgets no customer. *)
LEMMA RMReads ==
    ASSUME TypeInv, ReadsInv, NEW t \in Txn, NEW r \in RM, RMStep(t, r)
    PROVE  ReadsInv'
  <1>1. reads' = reads /\ cpc' = cpc
    BY DEF RMStep, TMPrepare, LogPrepare, TMCommit, CreateRegularLaptop, LogCommit, TruncateCust, StoreCust,
           TMAbort, TornRequest, cliVars
  <1>2. CASE customer_record' = customer_record
    BY <1>1, <1>2 DEF ReadsInv, SeededKnown, ReadsInOrder, NoneLost, Asked, Experiment
  <1>3. CASE CreateRegularLaptop(t, r)
    <2>1. PICK rec \in TxnLogRequest : AdminThread(r, rec)
      <3>1. PICK s \in Seq(TxnLogRequest) : s = found[t][r]
        BY DEF TypeInv, TypeOK
      <3>2. PICK i \in Nat : i = applied[t][r] + 1 /\ i <= Len(s) /\ i > 0
        BY <1>3, <3>1 DEF CreateRegularLaptop, AtHandler, TypeInv, TypeOK, Bookkeeping, RecordsLeft
      <3>3. s[i] \in TxnLogRequest
        BY <3>1, <3>2
      <3> QED
        BY <1>3, <3>1, <3>2, <3>3 DEF CreateRegularLaptop
    <2>2. rec.num \in Int
      BY <2>1 DEF TxnLogRequest
    <2>3. rec.num # Absent
      BY <2>2, DataAssumption
    <2>4. customer_record' = [customer_record EXCEPT ![r] = [@ EXCEPT ![rec.cust] = rec.num]]
      BY <2>1 DEF AdminThread
    <2>5. \A q \in RM, c \in 0 .. Seeded - 1 :
            customer_record[q][c] # Absent => customer_record'[q][c] # Absent
      <3> SUFFICES ASSUME NEW q \in RM, NEW c \in 0 .. Seeded - 1, customer_record[q][c] # Absent
                   PROVE  customer_record'[q][c] # Absent
        OBVIOUS
      <3>1. customer_record \in [RM -> CustomerMap]
        BY DEF TypeInv, TypeOK
      <3>2. PICK D, V : customer_record[q] \in [D -> V]
        BY <3>1 DEF CustomerMap
      <3>3. CASE q = r
        <4>1. customer_record'[q] = [customer_record[q] EXCEPT ![rec.cust] = rec.num]
          BY <2>4, <3>1, <3>3
        <4>2. \/ customer_record'[q][c] = customer_record[q][c]
              \/ customer_record'[q][c] = rec.num
              \/ c \notin D
          BY <3>2, <4>1
        <4>3. c \in D => customer_record'[q][c] # Absent
          BY <2>3, <4>2
        <4> QED
          BY <3>2, <4>1, <4>3
      <3>4. CASE q # r
        BY <2>4, <3>1, <3>4
      <3> QED
        BY <3>3, <3>4
    <2>6. SeededKnown'
      BY <2>5 DEF ReadsInv, SeededKnown
    <2> QED
      BY <1>1, <2>6 DEF ReadsInv, ReadsInOrder, NoneLost, Asked, Experiment
  <1> QED
    BY <1>2, <1>3 DEF RMStep, TMPrepare, LogPrepare, TMCommit, LogCommit, TruncateCust, StoreCust,
                      TMAbort, TornRequest, rmVars, memory

(* The TM, its end and the rest of the world leave reads alone. *)
LEMMA OtherReads ==
    ASSUME TypeInv, HandlerInv, RMsUp, ReadsInv, MaxTMRestarts = 0, MaxRMCrashes = 0,
           TMStep \/ Fault \/ UNCHANGED vars
    PROVE  ReadsInv'
  <1>0. cpc \in [Txn -> {"read", "lost", "write", "wait", "done"}]
    BY DEF TypeInv, TypeOK
  <1>1. TMStep \/ TMDies \/ UNCHANGED vars
    BY OnlyTMFaults
  <1>2. reads' = reads /\ customer_record' = customer_record
    BY <1>1 DEF TMStep, Accept, Connect, ConnectFailed, SendPrepare, RecvVote, SendDecision, RecvDone,
           Reply, TMDies, rmVars, memory, cliVars, vars
  <1>3. \A t \in Txn : cpc'[t] # "lost" \/ cpc'[t] = cpc[t]
    BY <1>0, <1>1 DEF TMStep, Accept, Connect, ConnectFailed, SendPrepare, RecvVote, SendDecision,
           RecvDone, Reply, Finish, TMDies, DisconnectClients, cliVars, vars
  <1> QED
    BY <1>2, <1>3 DEF ReadsInv, SeededKnown, ReadsInOrder, NoneLost, Asked, Experiment

LEMMA ReadsInvariant ==
    ASSUME MaxTMRestarts = 0, MaxRMCrashes = 0, AllSeeded
    PROVE  Spec => []ReadsInv
  <1>1. Init => ReadsInv
    BY InitReads
  <1>2. TypeInv /\ HandlerInv /\ CommitInv /\ ReadsInv /\ [Next]_vars => ReadsInv'
    BY ClientReads, RMReads, OtherReads DEF CommitInv, Next, Terminating
  <1>3. Spec => [](TypeInv /\ HandlerInv /\ CommitInv)
    BY CommitInvariant, PTL
  <1> QED
    BY <1>1, <1>2, <1>3, PTL DEF Spec

(* When a commit reaches an RM, every record that its client read, from    *)
(* this RM or another, is what the RM holds: while no RM crashes, no       *)
(* second TM runs and every customer that is asked for exists.             *)
THEOREM CommitReadsCurrent ==
    ASSUME MaxTMRestarts = 0, MaxRMCrashes = 0, AllSeeded
    PROVE  Spec => []CommitsOnCurrentReads
  <1>1. TypeInv /\ CommitInv /\ ReadsInv => CommitsOnCurrentReads
    <2> SUFFICES ASSUME TypeInv, CommitInv, ReadsInv,
                        NEW t \in Txn, NEW r \in RM, conn[t][r] = "commit",
                        NEW i \in 1 .. Len(reads[t])
                 PROVE  reads[t][i] = RecordOf(customer_record[r], Asked(t, i - 1))
      BY DEF CommitsOnCurrentReads
    <2>1. reads[t][i] \in CustomerRecord
      BY DEF TypeInv, TypeOK
    <2>2. /\ Asked(t, i - 1) \in 0 .. Seeded - 1
          /\ reads[t][i].cust = Asked(t, i - 1)
          /\ customer_record[r][Asked(t, i - 1)] # Absent
      BY DEF ReadsInv, ReadsInOrder, SeededKnown
    <2>3. reads[t][i].last = customer_record[r][Asked(t, i - 1)]
      BY <2>2 DEF CommitInv, CommitsValid, Valid, Conflict
    <2> QED
      BY <2>1, <2>2, <2>3 DEF RecordOf, CustomerRecord
  <1> QED
    BY <1>1, CommitInvariant, ReadsInvariant, PTL

-----------------------------------------------------------------------------
(* The RMs hold the same customer records between two transactions.        *)

(* How many of its orders the transaction that is served has applied at r. *)
Passed(t, r) == \/ conn[t][r] \in {"log", "trunc", "store", "Done"}
                \/ tmPc \in {"decide", "ack"} /\ r < tmRM
                \/ tmPc = "reply"
Count(t, r)  == IF conn[t][r] = "apply" THEN applied[t][r]
                ELSE IF allOk /\ Passed(t, r) THEN Len(writes[t])
                ELSE 0

(* None of the first n orders of t is for customer k; or the last of them  *)
(* that is gave k the number that r holds.                                 *)
Unwritten(t, k, n)  == \A i \in 1 .. n : writes[t][i].cust # k
Written(t, r, k, n) == \E i \in 1 .. n : /\ writes[t][i].cust = k
                                         /\ writes[t][i].num = customer_record[r][k]
                                         /\ \A j \in i + 1 .. n : writes[t][j].cust # k

(* ReplicasConverge speaks of the time between two transactions.  While t  *)
(* is served, each RM holds the same records overwritten by those of its   *)
(* orders that the RM has applied.                                         *)
Overlaid(t) == /\ \A r \in RM, k \in Key : \/ Unwritten(t, k, Count(t, r))
                                           \/ Written(t, r, k, Count(t, r))
               /\ \A r, q \in RM, k \in Key :
                      Unwritten(t, k, Count(t, r)) /\ Unwritten(t, k, Count(t, q))
                          => customer_record[r][k] = customer_record[q][k]

ReplicaInv == tmUp => /\ \A t \in Txn : t = tmTxn => Overlaid(t)
                      /\ tmTxn = NoTxn => ReplicasConverge

(* How many orders an RM has applied follows from the place of the TM.     *)
LEMMA CountAt ==
    ASSUME NEW t \in Txn, t = tmTxn, NEW r \in RM, Progress, tmRM \in RM
    PROVE  /\ tmPc \in {"connect", "prepare", "vote"} => Count(t, r) = 0
           /\ tmPc = "decide" => Count(t, r) = IF allOk /\ r < tmRM THEN Len(writes[t]) ELSE 0
           /\ tmPc = "ack" /\ conn[t][tmRM] \in {"commit", "abort"}
                  => Count(t, r) = IF allOk /\ r < tmRM THEN Len(writes[t]) ELSE 0
           /\ tmPc = "ack" /\ conn[t][tmRM] = "Done"
                  => Count(t, r) = IF allOk /\ r <= tmRM THEN Len(writes[t]) ELSE 0
           /\ tmPc = "reply" => Count(t, r) = IF allOk THEN Len(writes[t]) ELSE 0
  <1>0. /\ ~(tmRM < tmRM) /\ tmRM <= tmRM
        /\ r # tmRM => (r <= tmRM <=> r < tmRM)
    BY ConfigAssumption DEF RM
  <1>1. CASE tmPc = "connect"
    BY <1>1 DEF Progress, Connecting, Count, Passed
  <1>2. CASE tmPc = "prepare"
    BY <1>2 DEF Progress, Preparing, Idle, Count, Passed
  <1>3. CASE tmPc = "vote"
    <2>1. conn[t][r] \in {"prepare", "prelog", "No", "Ok", "idle"}
      BY <1>3, ConfigAssumption DEF Progress, Voting, Idle, RM
    <2> QED
      BY <1>3, <2>1 DEF Count, Passed
  <1>4. CASE tmPc = "decide"
    BY <1>4 DEF Progress, Deciding, Idle, Count, Passed
  <1>5. CASE tmPc = "ack"
    <2>1. r # tmRM => conn[t][r] = "idle"
      BY <1>5 DEF Progress, Acking, Idle
    <2> QED
      BY <1>0, <1>5, <2>1 DEF Count, Passed
  <1>6. CASE tmPc = "reply"
    BY <1>6 DEF Progress, Replying, Idle, Count, Passed
  <1> QED
    BY <1>1, <1>2, <1>3, <1>4, <1>5, <1>6

(* CountAt, after a step. *)
LEMMA NextCountAt ==
    ASSUME NEW t \in Txn, t = tmTxn', NEW r \in RM, Progress', tmRM' \in RM
    PROVE  /\ tmPc' \in {"connect", "prepare", "vote"} => Count(t, r)' = 0
           /\ tmPc' = "decide" => Count(t, r)' = IF allOk' /\ r < tmRM' THEN Len(writes'[t]) ELSE 0
           /\ tmPc' = "ack" /\ conn'[t][tmRM'] \in {"commit", "abort"}
                  => Count(t, r)' = IF allOk' /\ r < tmRM' THEN Len(writes'[t]) ELSE 0
           /\ tmPc' = "reply" => Count(t, r)' = IF allOk' THEN Len(writes'[t]) ELSE 0
  <1>0. ~(tmRM' < tmRM')
    BY ConfigAssumption DEF RM
  <1>1. CASE tmPc' = "connect"
    BY <1>1 DEF Progress, Connecting, Count, Passed
  <1>2. CASE tmPc' = "prepare"
    BY <1>2 DEF Progress, Preparing, Idle, Count, Passed
  <1>3. CASE tmPc' = "vote"
    <2>1. Voting(t)'
      BY <1>3 DEF Progress
    <2>2. r < tmRM' \/ r > tmRM' \/ r = tmRM'
      BY ConfigAssumption DEF RM
    <2>3. conn'[t][r] \in {"prepare", "prelog", "No", "Ok", "idle"}
      BY <2>1, <2>2 DEF Voting, Idle
    <2> QED
      BY <1>3, <2>3 DEF Count, Passed
  <1>4. CASE tmPc' = "decide"
    BY <1>4 DEF Progress, Deciding, Idle, Count, Passed
  <1>5. CASE tmPc' = "ack"
    <2>1. r # tmRM' => conn'[t][r] = "idle"
      BY <1>5 DEF Progress, Acking, Idle
    <2> QED
      BY <1>0, <1>5, <2>1 DEF Count, Passed
  <1>6. CASE tmPc' = "reply"
    BY <1>6 DEF Progress, Replying, Idle, Count, Passed
  <1> QED
    BY <1>1, <1>2, <1>3, <1>4, <1>5, <1>6

(* A step that applies no order changes nothing here. *)
LEMMA SameOverlay ==
    ASSUME NEW t \in Txn, Overlaid(t), customer_record' = customer_record, writes'[t] = writes[t],
           \A r \in RM : Count(t, r)' = Count(t, r)
    PROVE  Overlaid(t)'
  BY DEF Overlaid, Unwritten, Written

(* One more order is applied at r. *)
LEMMA OverlayGrows ==
    ASSUME NEW t \in Txn, NEW r \in RM, Overlaid(t), writes[t] \in Seq(CustomerOrder),
           customer_record \in [RM -> CustomerMap],
           NEW n \in Nat, n + 1 <= Len(writes[t]), Count(t, r) = n, Count(t, r)' = n + 1,
           \A q \in RM : q # r => Count(t, q)' = Count(t, q),
           writes'[t] = writes[t],
           customer_record' = [customer_record EXCEPT
               ![r][writes[t][n + 1].cust] = writes[t][n + 1].num]
    PROVE  Overlaid(t)'
  <1>1. PICK o \in CustomerOrder : o = writes[t][n + 1]
    OBVIOUS
  <1>2. \A k \in Key : customer_record'[r][k] = IF k = o.cust THEN o.num ELSE customer_record[r][k]
    BY <1>1 DEF CustomerMap
  <1>3. \A q \in RM : q # r => customer_record'[q] = customer_record[q]
    BY <1>1
  <1>4. \A i : i \in 1 .. n + 1 <=> i \in 1 .. n \/ i = n + 1
    OBVIOUS
  <1>5. ASSUME NEW k \in Key
        PROVE  Unwritten(t, k, n + 1)' <=> Unwritten(t, k, n) /\ k # o.cust
    BY <1>1, <1>4 DEF Unwritten
  <1>6. ASSUME NEW k \in Key, k # o.cust, Written(t, r, k, n)
        PROVE  Written(t, r, k, n + 1)'
    <2>1. PICK i \in 1 .. n : /\ writes[t][i].cust = k
                              /\ writes[t][i].num = customer_record[r][k]
                              /\ \A j \in i + 1 .. n : writes[t][j].cust # k
      BY <1>6 DEF Written
    <2>2. \A j \in i + 1 .. n + 1 : writes'[t][j].cust # k
      BY <1>1, <1>6, <2>1
    <2>3. i \in 1 .. n + 1 /\ writes'[t][i].cust = k /\ writes'[t][i].num = customer_record'[r][k]
      BY <1>2, <1>6, <2>1
    <2> QED
      BY <2>2, <2>3 DEF Written
  <1>7. Written(t, r, o.cust, n + 1)'
    <2>1. o.cust \in Key
      BY DEF CustomerOrder, Key
    <2>2. \A j \in (n + 1) + 1 .. n + 1 : writes'[t][j].cust # o.cust
      OBVIOUS
    <2> QED
      BY <1>1, <1>2, <1>4, <2>1, <2>2 DEF Written
  <1>8. ASSUME NEW q \in RM, NEW k \in Key
        PROVE  Unwritten(t, k, Count(t, q))' \/ Written(t, q, k, Count(t, q))'
    <2>1. CASE q = r
      BY <1>5, <1>6, <1>7, <2>1 DEF Overlaid
    <2>2. CASE q # r
      BY <1>3, <2>2 DEF Overlaid, Unwritten, Written
    <2> QED
      BY <2>1, <2>2
  <1>9. ASSUME NEW q \in RM, NEW k \in Key, Unwritten(t, k, Count(t, q))'
        PROVE  Unwritten(t, k, Count(t, q)) /\ customer_record'[q][k] = customer_record[q][k]
    <2>1. CASE q = r
      BY <1>2, <1>5, <1>9, <2>1
    <2>2. CASE q # r
      BY <1>3, <1>9, <2>2 DEF Unwritten
    <2> QED
      BY <2>1, <2>2
  <1> QED
    BY <1>8, <1>9 DEF Overlaid

(* Where no order has been applied, or the same ones everywhere, the RMs   *)
(* agree.                                                                  *)
LEMMA OverlayEqual ==
    ASSUME NEW t \in Txn, NEW n \in Nat, Overlaid(t), \A r \in RM : Count(t, r) = n,
           customer_record \in [RM -> CustomerMap]
    PROVE  \A r, q \in RM : customer_record[r] = customer_record[q]
  <1> SUFFICES ASSUME NEW r \in RM, NEW q \in RM, NEW k \in Key
               PROVE  customer_record[r][k] = customer_record[q][k]
    BY DEF CustomerMap
  <1>1. CASE Unwritten(t, k, n)
    BY <1>1 DEF Overlaid
  <1>2. CASE Written(t, r, k, n) /\ Written(t, q, k, n)
    <2>1. PICK i \in 1 .. n : /\ writes[t][i].cust = k
                              /\ writes[t][i].num = customer_record[r][k]
                              /\ \A j \in i + 1 .. n : writes[t][j].cust # k
      BY <1>2 DEF Written
    <2>2. PICK l \in 1 .. n : /\ writes[t][l].cust = k
                              /\ writes[t][l].num = customer_record[q][k]
                              /\ \A j \in l + 1 .. n : writes[t][j].cust # k
      BY <1>2 DEF Written
    <2>3. i = l
      <3>1. ~(l \in i + 1 .. n) /\ ~(i \in l + 1 .. n)
        BY <2>1, <2>2
      <3> QED
        BY <3>1
    <2> QED
      BY <2>1, <2>2, <2>3
  <1> QED
    BY <1>1, <1>2 DEF Overlaid

(* The handlers of the transaction that is served. *)
LEMMA RMReplicas ==
    ASSUME TypeInv, HandlerInv, IdInv, DecisionInv, CommitInv, ReplicaInv,
           NEW t \in Txn, NEW r \in RM, RMStep(t, r)
    PROVE  ReplicaInv'
  <1>0. /\ UNCHANGED <<tmUp, tmTxn, tmPc, tmRM, allOk, reads, writes>>
        /\ conn \in [Txn -> [RM -> ConnState]] /\ applied \in [Txn -> [RM -> Nat]]
        /\ writes[t] \in Seq(CustomerOrder) /\ customer_record \in [RM -> CustomerMap]
        /\ ~(tmRM < tmRM) /\ tmRM \in RM
    <2>1. UNCHANGED <<tmUp, tmTxn, tmPc, tmRM, allOk, reads, writes>>
      BY RMFrame DEF tmVars, cliVars
    <2>2. tmRM \in RM /\ ~(tmRM < tmRM)
      BY ConfigAssumption DEF TypeInv, TypeOK, RM
    <2> QED
      BY <2>1, <2>2 DEF TypeInv, TypeOK
  <1> SUFFICES ASSUME tmUp PROVE ReplicaInv'
    BY <1>0 DEF ReplicaInv
  <1>1. conn[t][r] \in Handling
    BY DEF RMStep, TMPrepare, LogPrepare, TMCommit, CreateRegularLaptop, LogCommit, TruncateCust, StoreCust,
           TMAbort, TornRequest, AtHandler, Handling, InCommit
  <1>2. t = tmTxn /\ r = tmRM /\ tmPc \in {"vote", "ack"} /\ Overlaid(t) /\ t # NoTxn
    BY <1>1, ConfigAssumption DEF HandlerInv, Exclusion, Waiting, ReplicaInv
  <1>3. ASSUME NEW q \in RM, q # r
        PROVE  Count(t, q)' = Count(t, q)
    <2>1. conn'[t][q] = conn[t][q] /\ applied'[t][q] = applied[t][q]
      BY <1>0, <1>3 DEF RMStep, TMPrepare, LogPrepare, TMCommit, CreateRegularLaptop, LogCommit, TruncateCust,
             StoreCust, TMAbort, TornRequest, AnswerIs, locals
    <2> QED
      BY <1>0, <2>1 DEF Count, Passed
  <1>4. conn[t][r] \in {"commit"} \cup InCommit => tmPc = "ack" /\ allOk /\ Acking(t)
    BY <1>2 DEF DecisionInv, TMDecides, Commits, CommitInv, Progress
  <1>5. conn[t][r] = "abort" => ~allOk
    BY <1>2 DEF DecisionInv, TMDecides, Aborts
  <1>6. CASE CreateRegularLaptop(t, r)
    <2>1. PICK n \in Nat : n = applied[t][r]
      BY <1>0
    <2>2. /\ conn[t][r] = "apply" /\ found[t][r] = Ops(t)
          /\ n < Len(writes[t]) /\ Len(found[t][r]) = Len(writes[t]) /\ Len(writes[t]) \in Nat
      BY <1>2, <1>4, <1>6, <2>1, OpsFacts DEF CreateRegularLaptop, AtHandler, InCommit, Acking,
         Applying, TypeInv, Bookkeeping, RecordsLeft
    <2>3. /\ applied'[t][r] = n + 1
          /\ conn'[t][r] = IF n + 1 = Len(writes[t]) THEN "log" ELSE "apply"
      BY <1>0, <1>6, <2>1, <2>2 DEF CreateRegularLaptop
    <2>4. Count(t, r) = n /\ Count(t, r)' = n + 1
      BY <1>0, <1>4, <2>1, <2>2, <2>3 DEF Count, Passed, InCommit
    <2>5. /\ Ops(t)[n + 1].cust = writes[t][n + 1].cust
          /\ Ops(t)[n + 1].num = writes[t][n + 1].num
      BY <1>0, <2>2 DEF Ops, PrepareRecords
    <2>6. customer_record' = [customer_record EXCEPT
               ![r][writes[t][n + 1].cust] = writes[t][n + 1].num]
      BY <1>6, <2>1, <2>2, <2>5 DEF CreateRegularLaptop, AdminThread
    <2>7. Overlaid(t)'
      <3>1. n + 1 <= Len(writes[t]) /\ writes'[t] = writes[t]
        BY <1>0, <2>2
      <3>2. \A q \in RM : q # r => Count(t, q)' = Count(t, q)
        BY <1>3
      <3> QED
        BY <1>0, <1>2, <2>4, <2>6, <3>1, <3>2, OverlayGrows
    <2> QED
      BY <1>0, <1>2, <2>7 DEF ReplicaInv
  <1>7. CASE ~CreateRegularLaptop(t, r)
    <2>1. customer_record' = customer_record
      BY <1>7 DEF RMStep, TMPrepare, LogPrepare, TMCommit, LogCommit, TruncateCust, StoreCust, TMAbort,
             TornRequest, rmVars, memory
    <2>2. Count(t, r)' = Count(t, r)
      <3>1. CASE TMCommit(t, r)
        <4>1. Voted(t, r) /\ conn[t][r] = "commit"
          BY <1>2, <1>4, <3>1 DEF TMCommit, AtHandler, Acking, InCommit
        <4>2. writes[t] # <<>>
          BY <1>2 DEF CommitInv, OrdersPlaced, IdInv, InLine, ServedWaits
        <4>3. conn'[t][r] = "apply"
          BY <3>1, <4>1, <4>2, CommitFinds
        <4>4. applied'[t][r] = 0
          BY <1>0, <3>1 DEF TMCommit
        <4> QED
          BY <1>0, <1>2, <1>4, <4>1, <4>3, <4>4 DEF Count, Passed
      <3>2. CASE LogCommit(t, r) \/ TruncateCust(t, r) \/ StoreCust(t, r)
        <4>1. conn[t][r] \in {"log", "trunc", "store"} /\ conn'[t][r] \in {"trunc", "store", "Done"}
          BY <1>0, <1>2, <3>2 DEF LogCommit, TruncateCust, StoreCust, AtHandler, AnswerIs
        <4> QED
          BY <1>0, <4>1 DEF Count, Passed
      <3>3. CASE TMAbort(t, r)
        <4>1. conn[t][r] = "abort" /\ conn'[t][r] = "Done"
          BY <1>0, <1>2, <3>3 DEF TMAbort, AtHandler, AnswerIs
        <4> QED
          BY <1>0, <1>5, <4>1 DEF Count
      <3>4. CASE TMPrepare(t, r)
        <4>1. conn[t][r] = "prepare" /\ conn'[t][r] \in {"prelog", "No"}
          BY <1>0, <1>2, <3>4 DEF TMPrepare, AtHandler, AnswerIs
        <4> QED
          BY <1>0, <1>2, <4>1 DEF Count, Passed
      <3>5. CASE LogPrepare(t, r)
        <4>1. conn[t][r] = "prelog" /\ conn'[t][r] = "Ok"
          BY <1>0, <1>2, <3>5 DEF LogPrepare, AtHandler, AnswerIs
        <4> QED
          BY <1>0, <1>2, <4>1 DEF Count, Passed
      <3> QED
        BY <1>2, <1>7, <3>1, <3>2, <3>3, <3>4, <3>5 DEF RMStep, TornRequest
    <2>3. Overlaid(t)'
      BY <1>0, <1>2, <1>3, <2>1, <2>2, SameOverlay
    <2> QED
      BY <1>0, <1>2, <2>3 DEF ReplicaInv
  <1> QED
    BY <1>6, <1>7

(* A transaction starts from equal RMs and leaves them equal.              *)
LEMMA TMReplicas ==
    ASSUME TypeInv, HandlerInv, IdInv, CommitInv, CommitInv', ReplicaInv, TMStep
    PROVE  ReplicaInv'
  <1>0. /\ customer_record' = customer_record /\ writes' = writes
        /\ customer_record \in [RM -> CustomerMap] /\ writes \in [Txn -> Seq(CustomerOrder)]
        /\ tmPc # "accept" => tmTxn \in Txn /\ tmUp
        /\ tmRM \in RM /\ tmRM' \in RM /\ NoTxn \notin Txn
    <2>1. customer_record' = customer_record /\ writes' = writes
      BY TMFrame DEF rmVars, memory
    <2>2. tmRM' \in RM
      BY TMTypeInv DEF TypeInv, TypeOK
    <2> QED
      BY <2>1, <2>2, ConfigAssumption DEF TypeInv, TypeOK, Bookkeeping, TMBusy
  <1>1. CASE Accept
    <2>1. /\ tmUp /\ tmPc = "accept" /\ tmTxn = NoTxn /\ tmPc' = "connect"
          /\ \A r, q \in RM : customer_record[r] = customer_record[q]
      BY <1>1 DEF Accept, TypeInv, Bookkeeping, TMBusy, ReplicaInv, ReplicasConverge
    <2>2. tmTxn' \in Txn
      BY <1>1 DEF Accept, TypeInv, TypeOK
    <2>3. ASSUME NEW t \in Txn, t = tmTxn', NEW r \in RM
          PROVE  Count(t, r)' = 0
      BY <1>0, <2>1, <2>3, NextCountAt DEF CommitInv
    <2>4. ASSUME NEW t \in Txn, t = tmTxn'
          PROVE  Overlaid(t)'
      <3>1. \A r \in RM : Count(t, r)' = 0
        BY <2>3, <2>4
      <3> QED
        BY <1>0, <2>1, <3>1 DEF Overlaid, Unwritten
    <2> QED
      BY <1>0, <2>2, <2>4 DEF ReplicaInv
  <1>2. CASE Reply \/ ConnectFailed
    <2>0. ~ConnectFailed
      BY <1>0 DEF ConnectFailed, CommitInv, RMsUp
    <2>1. /\ tmPc = "reply" /\ tmTxn \in Txn /\ tmUp /\ tmTxn' = NoTxn
      BY <1>0, <1>2, <2>0 DEF Reply, Finish
    <2>2. PICK t \in Txn : t = tmTxn
      BY <2>1
    <2>3. PICK n \in Nat : n = IF allOk THEN Len(writes[t]) ELSE 0
      <3>1. Len(writes[t]) \in Nat
        BY <1>0
      <3> QED
        BY <3>1
    <2>4. \A r \in RM : Count(t, r) = n
      BY <1>0, <2>1, <2>2, <2>3, CountAt DEF CommitInv
    <2>5. \A r, q \in RM : customer_record[r] = customer_record[q]
      BY <1>0, <2>1, <2>2, <2>4, OverlayEqual DEF ReplicaInv
    <2> QED
      BY <1>0, <2>1, <2>5 DEF ReplicaInv, ReplicasConverge
  <1>3. CASE Connect \/ SendPrepare \/ RecvVote \/ SendDecision \/ RecvDone
    <2>1. tmTxn' = tmTxn /\ tmTxn \in Txn /\ tmUp
      BY <1>0, <1>3 DEF Connect, SendPrepare, RecvVote, SendDecision, RecvDone
    <2>2. PICK t \in Txn : t = tmTxn /\ t = tmTxn'
      BY <2>1
    <2>3. ASSUME NEW r \in RM
          PROVE  Count(t, r)' = Count(t, r)
      <3>1. CASE Connect \/ SendPrepare
        <4>1. tmPc \in {"connect", "prepare"} /\ tmPc' \in {"connect", "prepare", "vote"}
          BY <3>1 DEF Connect, SendPrepare, NextRM
        <4> QED
          BY <1>0, <2>2, <4>1, CountAt, NextCountAt DEF CommitInv
      <3>2. CASE RecvVote
        <4>1. /\ tmPc = "vote"
              /\ tmPc' = "prepare" \/ (tmPc' = "decide" /\ tmRM' = 0)
          BY <3>2 DEF RecvVote, NextRM
        <4>2. ~(r < 0)
          BY ConfigAssumption DEF RM
        <4> QED
          BY <1>0, <2>2, <4>1, <4>2, CountAt, NextCountAt DEF CommitInv
      <3>3. CASE SendDecision
        <4>1. tmPc = "decide" /\ tmPc' = "ack" /\ tmRM' = tmRM /\ allOk' = allOk
          BY <3>3 DEF SendDecision
        <4>2. conn'[t][tmRM] \in {"commit", "abort"}
          BY <1>0, <2>2, <3>3, <4>1 DEF SendDecision, SetSession, Session, CommitInv, Progress,
                                    Deciding, Idle, TypeInv, TypeOK
        <4> QED
          BY <1>0, <2>2, <4>1, <4>2, CountAt, NextCountAt DEF CommitInv
      <3>4. CASE RecvDone
        <4>1. /\ tmPc = "ack" /\ allOk' = allOk
              /\ \/ tmPc' = "reply" /\ r <= tmRM
                 \/ tmPc' = "decide" /\ (r < tmRM' <=> r <= tmRM)
          BY <3>4, NextRMOrder DEF RecvDone
        <4>2. conn[t][tmRM] = "Done"
          BY <1>0, <2>2, <3>4, <4>1 DEF RecvDone, Session, CommitInv, Progress, Acking, InCommit
        <4> QED
          BY <1>0, <2>2, <4>1, <4>2, CountAt, NextCountAt DEF CommitInv
      <3> QED
        BY <1>3, <3>1, <3>2, <3>3, <3>4
    <2>4. Overlaid(t)'
      <3>1. Overlaid(t) /\ writes'[t] = writes[t]
        BY <1>0, <2>1, <2>2 DEF ReplicaInv
      <3> QED
        BY <1>0, <2>3, <3>1, SameOverlay
    <2> QED
      BY <1>0, <2>1, <2>2, <2>4 DEF ReplicaInv
  <1> QED
    BY <1>1, <1>2, <1>3 DEF TMStep

(* A client that submits is not the one that is served; after the TM's end *)
(* nothing is claimed.                                                     *)
LEMMA OtherReplicas ==
    ASSUME TypeInv, HandlerInv, IdInv, CommitInv, ReplicaInv, MaxTMRestarts = 0, MaxRMCrashes = 0,
           Fault \/ UNCHANGED vars \/ \E u \in Txn : ClientStep(u)
    PROVE  ReplicaInv'
  <1>1. CASE Fault
    BY <1>1, OnlyTMFaults DEF TMDies, CommitInv, ReplicaInv
  <1>2. CASE UNCHANGED vars \/ \E u \in Txn : ClientStep(u)
    <2>1. UNCHANGED <<customer_record, conn, applied, tmUp, tmPc, tmTxn, tmRM, allOk>>
      BY <1>2 DEF vars, ClientStep, ReadRecord, ReadRefused, ReadLost, Submit, rmVars, memory,
             locals, tmVars
    <2>2. ASSUME NEW t \in Txn, t = tmTxn
          PROVE  writes'[t] = writes[t]
      <3>1. CASE UNCHANGED vars
        BY <3>1 DEF vars, cliVars
      <3>2. ASSUME NEW u \in Txn, ClientStep(u)
            PROVE  writes'[t] = writes[t]
        <4>1. cpc[t] = "wait"
          BY <2>2 DEF IdInv, InLine, ServedWaits
        <4>2. writes \in [Txn -> Seq(CustomerOrder)]
          BY DEF TypeInv, TypeOK
        <4> QED
          BY <3>2, <4>1, <4>2 DEF ClientStep, ReadRecord, ReadRefused, ReadLost, Submit
      <3> QED
        BY <1>2, <3>1, <3>2
    <2>3. ASSUME NEW t \in Txn, t = tmTxn, Overlaid(t)
          PROVE  Overlaid(t)'
      <3>1. \A r \in RM : Count(t, r)' = Count(t, r)
        BY <2>1, <2>2, <2>3 DEF Count, Passed
      <3> QED
        BY <2>1, <2>2, <2>3, <3>1, SameOverlay
    <2> QED
      BY <2>1, <2>3 DEF ReplicaInv, ReplicasConverge
  <1> QED
    BY <1>1, <1>2

LEMMA ReplicaInvariant ==
    ASSUME MaxTMRestarts = 0, MaxRMCrashes = 0
    PROVE  Spec => []ReplicaInv
  <1>1. Init => ReplicaInv
    BY ConfigAssumption DEF Init, ReplicaInv, ReplicasConverge
  <1>2. /\ TypeInv /\ HandlerInv /\ IdInv /\ DecisionInv /\ CommitInv /\ CommitInv'
        /\ ReplicaInv /\ [Next]_vars
        => ReplicaInv'
    BY RMReplicas, TMReplicas, OtherReplicas DEF Next, Terminating
  <1>3. Spec => [](TypeInv /\ HandlerInv /\ IdInv /\ DecisionInv /\ CommitInv)
    BY CommitInvariant
  <1> QED
    BY <1>1, <1>2, <1>3, PTL DEF Spec

(* Between two transactions of the TM all RMs hold the same customer       *)
(* records, however many customers and orders the transactions have, and   *)
(* whatever was voted, while no RM crashes and no second TM runs.          *)
THEOREM ReplicasAgree ==
    ASSUME MaxTMRestarts = 0, MaxRMCrashes = 0
    PROVE  Spec => []ReplicasConverge
  <1>1. TypeInv /\ ReplicaInv => ReplicasConverge
    BY DEF TypeInv, Bookkeeping, TMBusy, ReplicaInv, ReplicasConverge
  <1> QED
    BY <1>1, CommitInvariant, ReplicaInvariant, PTL

-----------------------------------------------------------------------------
(* Order numbers.                                                          *)

(* A client orders only for customers it has read; an experiment finds     *)
(* what it read at index 0, which is right for customer 0 only.            *)
OrdersRead == \A t \in Txn : IF Experiment(t) THEN Chosen[t] = 0
                                              ELSE WriteShape[t][1] <= ReadCount

(* An RM holds for each customer the number of orders it has applied.      *)
CountsKept == \A r \in RM, c \in 0 .. Seeded - 1 :
                  customer_record[r][c] = CountOf(smr_log[r], c, Len(smr_log[r]))
Numbered   == \A r \in RM : \A i \in 1 .. Len(smr_log[r]) :
                  smr_log[r][i].num = CountOf(smr_log[r], smr_log[r][i].cust, i)

(* A client has read every customer it orders for, and numbers its orders  *)
(* from what it read on.                                                   *)
ReadsDone  == \A t \in Txn : cpc[t] = "write" =>
                  IF Experiment(t) THEN Len(reads[t]) >= 1 ELSE Len(reads[t]) = ReadCount
OrdersNext == \A t \in Txn : cpc[t] \in {"wait", "done"} =>
                  \A i \in 1 .. Len(writes[t]) : LET c == writes[t][i].cust IN
                      /\ c < Len(reads[t]) /\ Asked(t, c) = c
                      /\ writes[t][i].num = Base(reads[t], c) + CountOf(writes[t], c, i)

(* A commit finds all that was prepared, also when the TM has ended since; *)
(* its orders then continue those of the RM, as far as they are applied.   *)
CommitsHeld  == \A t \in Txn, r \in RM :
                    conn[t][r] = "commit" => txn_log[r][txnId[t]] = Ops(t)
ApplyingNext == \A t \in Txn, r \in RM : conn[t][r] = "apply" =>
                    /\ found[t][r] = Ops(t)
                    /\ \A i \in 1 .. Len(writes[t]) : LET c == writes[t][i].cust IN
                           customer_record[r][c] = Base(reads[t], c)
                                                   + CountOf(writes[t], c, applied[t][r])

NumberInv == CountsKept /\ Numbered /\ ReadsDone /\ OrdersNext /\ CommitsHeld /\ ApplyingNext

LEMMA InitNumbers ==
    ASSUME Init
    PROVE  NumberInv
  <1> DEFINE ops == [i \in 1 .. Seeded |-> OpOf(SeedRecords[i])]
  <1>0. Seeded \in Nat /\ \A r \in RM : smr_log[r] = ops
    BY ConfigAssumption, DataAssumption DEF Init
  <1>1. \A i \in 1 .. Seeded : ops[i].cust = i - 1 /\ ops[i].num = 1
    BY <1>0 DEF SeedRecords, PrepareRecords, OpOf
  <1>2. Len(ops) = Seeded
    BY <1>0
  <1> HIDE DEF ops
  <1>3. ASSUME NEW n \in 0 .. Seeded, NEW c \in 0 .. n - 1
        PROVE  CountOf(ops, c, n) = 1
    <2>1. {j \in 1 .. n : ops[j].cust = c} = {c + 1}
      BY <1>0, <1>1
    <2> QED
      BY <2>1, FS_Singleton DEF CountOf
  <1>4. CountsKept
    <2> SUFFICES ASSUME NEW r \in RM, NEW c \in 0 .. Seeded - 1
                 PROVE  customer_record[r][c] = CountOf(smr_log[r], c, Len(smr_log[r]))
      BY DEF CountsKept
    <2>1. c \in Key
      BY ConfigAssumption, DataAssumption DEF Key, Customer
    <2>2. customer_record[r][c] = 1
      BY <2>1 DEF Init, SeedCustomers
    <2> QED
      BY <1>0, <1>2, <1>3, <2>2
  <1>5. Numbered
    BY <1>0, <1>1, <1>2, <1>3 DEF Numbered
  <1> QED
    BY <1>4, <1>5 DEF Init, NumberInv, ReadsDone, OrdersNext, CommitsHeld, ApplyingNext

(* A client that has read everything numbers its orders.                   *)
LEMMA ClientNumbers ==
    ASSUME TypeInv, IdInv, RMsUp, ReadsInv, NumberInv, OrdersRead, AllSeeded,
           NEW t \in Txn, ClientStep(t)
    PROVE  NumberInv'
  <1>0. /\ cpc \in [Txn -> {"read", "lost", "write", "wait", "done"}]
        /\ writes \in [Txn -> Seq(CustomerOrder)] /\ reads \in [Txn -> Seq(CustomerRecord)]
    BY DEF TypeInv, TypeOK
  <1>1. /\ UNCHANGED <<customer_record, txn_log, smr_log, conn, found, applied, txnId>>
        /\ cpc[t] \in {"read", "write"} /\ ~ReadLost(t) /\ ~ReadRefused(t)
        /\ \A u \in Txn : u # t => /\ cpc'[u] = cpc[u]
                                   /\ reads'[u] = reads[u] /\ writes'[u] = writes[u]
    <2>1. ~ReadLost(t) /\ ~ReadRefused(t)
      <3>1. rmUp[ReadFrom[t]]
        BY ConfigAssumption DEF RMsUp
      <3> QED
        BY <3>1 DEF ReadLost, ReadRefused, ReadsInv, NoneLost
    <2> QED
      BY <1>0, <2>1 DEF ClientStep, ReadRecord, Submit, GotRecord, rmVars, memory, locals
  <1>2. \A r \in RM : conn[t][r] \notin {"commit", "apply"}
    BY <1>1 DEF Fresh, Live, IdInv, InLine, LiveLeft, Handling, InCommit
  <1>3. CountsKept' /\ Numbered'
    BY <1>1 DEF NumberInv, CountsKept, Numbered
  <1>4. CommitsHeld' /\ ApplyingNext'
    <2>1. ASSUME NEW u \in Txn, NEW r \in RM, conn'[u][r] \in {"commit", "apply"}
          PROVE  u # t /\ conn'[u][r] = conn[u][r]
      BY <1>1, <1>2, <2>1
    <2>2. CommitsHeld'
      BY <1>1, <2>1 DEF NumberInv, CommitsHeld, Ops
    <2>3. ApplyingNext'
      BY <1>1, <2>1 DEF NumberInv, ApplyingNext, Ops
    <2> QED
      BY <2>2, <2>3
  <1>5. CASE ReadRecord(t)
    <2>1. PICK rec \in CustomerRecord :
              rec.cust \in 0 .. Seeded - 1 /\ GotRecord(t, rec, "read") /\ writes' = writes
      <3>1. writes' = writes
        BY <1>5 DEF ReadRecord
      <3> QED
        BY <1>5, <3>1, ReadAnswers
    <2>2. /\ reads'[t] = Append(reads[t], rec) /\ cpc'[t] \in {"read", "write"}
          /\ cpc'[t] = "write" => \/ Experiment(t) \/ rec.cust = -1
                                  \/ Len(reads[t]) + 1 = ReadCount
      BY <1>0, <2>1 DEF GotRecord
    <2>3. Len(reads'[t]) = Len(reads[t]) + 1 /\ Len(reads[t]) \in Nat
      BY <1>0, <2>2
    <2>4. rec.cust # -1
      BY <2>1, ConfigAssumption
    <2>5. ReadsDone'
      <3>1. cpc'[t] = "write" => IF Experiment(t) THEN Len(reads'[t]) >= 1
                                                  ELSE Len(reads'[t]) = ReadCount
        BY <2>2, <2>3, <2>4
      <3>2. \A u \in Txn : u # t => reads'[u] = reads[u] /\ cpc'[u] = cpc[u]
        BY <1>1
      <3> QED
        BY <3>1, <3>2 DEF NumberInv, ReadsDone, Experiment
    <2>6. OrdersNext'
      <3> SUFFICES ASSUME NEW u \in Txn, cpc'[u] \in {"wait", "done"}, NEW i \in 1 .. Len(writes'[u])
                   PROVE  /\ writes'[u][i].cust < Len(reads'[u])
                          /\ Asked(u, writes'[u][i].cust) = writes'[u][i].cust
                          /\ writes'[u][i].num = Base(reads'[u], writes'[u][i].cust)
                                                 + CountOf(writes'[u], writes'[u][i].cust, i)
        BY DEF OrdersNext, Asked, Experiment
      <3>1. u # t
        BY <2>2
      <3> QED
        BY <1>1, <3>1 DEF NumberInv, OrdersNext
    <2> QED
      BY <1>3, <1>4, <2>5, <2>6 DEF NumberInv
  <1>6. CASE Submit(t)
    <2>1. cpc[t] = "write" /\ cpc'[t] \in {"wait", "done"} /\ reads' = reads
      BY <1>0, <1>6 DEF Submit
    <2>2. /\ WriteShape[t][1] \in 1 .. NumCustomers /\ WriteShape[t][2] \in Nat \ {0}
          /\ ReadCount \in Nat /\ Len(reads[t]) \in Nat
      BY <1>0, ConfigAssumption, DataAssumption
    <2>3. ASSUME NEW i \in 1 .. Len(writes'[t])
          PROVE  /\ writes'[t][i].cust < Len(reads[t])
                 /\ Asked(t, writes'[t][i].cust) = writes'[t][i].cust
                 /\ writes'[t][i].num = Base(reads[t], writes'[t][i].cust)
                                        + CountOf(writes'[t], writes'[t][i].cust, i)
      <3>1. CASE Experiment(t)
        <4>1. Chosen[t] = 0 /\ Len(reads[t]) >= 1
          BY <2>1, <3>1 DEF OrdersRead, NumberInv, ReadsDone
        <4>2. PICK ws : ws = WriteSetOf(reads[t], Chosen[t], WriteShape[t][2]) /\ writes'[t] = ws
          BY <1>0, <1>6, <3>1 DEF Submit
        <4>3. i \in 1 .. Len(WriteSetOf(reads[t], Chosen[t], WriteShape[t][2]))
          BY <2>3, <4>2
        <4>4. /\ ws[i].cust = Chosen[t]
              /\ ws[i].num = Base(reads[t], Chosen[t]) + CountOf(ws, Chosen[t], i)
          BY <2>2, <4>2, <4>3, WriteSetOfNumbered
        <4> QED
          BY <2>2, <3>1, <4>1, <4>2, <4>4 DEF Asked
      <3>2. CASE ~Experiment(t)
        <4>1. WriteShape[t][1] <= ReadCount /\ Len(reads[t]) = ReadCount
          BY <2>1, <3>2 DEF OrdersRead, NumberInv, ReadsDone
        <4>2. PICK ws \in WriteSets(reads[t], WriteShape[t][1], WriteShape[t][2]) : writes'[t] = ws
          BY <1>0, <1>6, <3>2 DEF Submit
        <4>3. /\ ws[i].cust \in 0 .. WriteShape[t][1] - 1
              /\ ws[i].num = Base(reads[t], ws[i].cust) + CountOf(ws, ws[i].cust, i)
          BY <2>2, <2>3, <4>2, WriteSetsNumbered
        <4> QED
          BY <2>2, <3>2, <4>1, <4>2, <4>3 DEF Asked
      <3> QED
        BY <3>1, <3>2
    <2>4. OrdersNext'
      <3> SUFFICES ASSUME NEW u \in Txn, cpc'[u] \in {"wait", "done"}, NEW i \in 1 .. Len(writes'[u])
                   PROVE  /\ writes'[u][i].cust < Len(reads'[u])
                          /\ Asked(u, writes'[u][i].cust) = writes'[u][i].cust
                          /\ writes'[u][i].num = Base(reads'[u], writes'[u][i].cust)
                                                 + CountOf(writes'[u], writes'[u][i].cust, i)
        BY DEF OrdersNext, Asked, Experiment
      <3>1. CASE u = t
        BY <2>1, <2>3, <3>1
      <3>2. CASE u # t
        BY <1>1, <3>2 DEF NumberInv, OrdersNext
      <3> QED
        BY <3>1, <3>2
    <2>5. ReadsDone'
      BY <1>1, <2>1 DEF NumberInv, ReadsDone, Experiment
    <2> QED
      BY <1>3, <1>4, <2>4, <2>5 DEF NumberInv
  <1> QED
    BY <1>1, <1>5, <1>6 DEF ClientStep

(* A customer that t orders for is one that it read, and is known.         *)
LEMMA OrderedKnown ==
    ASSUME TypeInv, IdInv, ReadsInv, NumberInv, NEW t \in Txn, NEW r \in RM,
           conn[t][r] \in Handling, NEW i \in 1 .. Len(writes[t])
    PROVE  /\ writes[t][i].cust \in 0 .. Seeded - 1 /\ writes[t][i].cust \in Key
           /\ writes[t][i].cust + 1 \in 1 .. Len(reads[t])
           /\ reads[t][writes[t][i].cust + 1].cust = writes[t][i].cust
           /\ writes[t][i].num = Base(reads[t], writes[t][i].cust)
                                 + CountOf(writes[t], writes[t][i].cust, i)
  <1>0. cpc[t] \in {"wait", "done"}
    BY DEF IdInv, InLine, LiveLeft, Live, Fresh, TypeInv, TypeOK
  <1>1. PICK c \in Nat : c = writes[t][i].cust /\ c \in Key /\ Len(reads[t]) \in Nat
    <2>1. writes[t][i] \in CustomerOrder /\ Len(reads[t]) \in Nat
      BY DEF TypeInv, TypeOK
    <2> QED
      BY <2>1, DataAssumption DEF CustomerOrder, Customer, Key
  <1>2. /\ c < Len(reads[t]) /\ Asked(t, c) = c
        /\ writes[t][i].num = Base(reads[t], c) + CountOf(writes[t], c, i)
    BY <1>0, <1>1 DEF NumberInv, OrdersNext
  <1>3. c + 1 \in 1 .. Len(reads[t]) /\ (c + 1) - 1 = c
    BY <1>1, <1>2
  <1>4. Asked(t, c) \in 0 .. Seeded - 1 /\ reads[t][c + 1].cust = c
    BY <1>2, <1>3 DEF ReadsInv, ReadsInOrder
  <1> QED
    BY <1>1, <1>2, <1>3, <1>4

(* What a client numbers from, when its commit arrives, is what the RM     *)
(* holds.                                                                  *)
LEMMA CommitContinues ==
    ASSUME TypeInv, IdInv, CommitInv, ReadsInv, NumberInv, NEW t \in Txn, NEW r \in RM,
           conn[t][r] = "commit", NEW i \in 1 .. Len(writes[t])
    PROVE  customer_record[r][writes[t][i].cust] = Base(reads[t], writes[t][i].cust)
                                                   + CountOf(writes[t], writes[t][i].cust, 0)
  <1>1. PICK c \in 0 .. Seeded - 1 : /\ c = writes[t][i].cust /\ c + 1 \in 1 .. Len(reads[t])
                                     /\ reads[t][c + 1].cust = c
    BY OrderedKnown DEF Handling
  <1>2. reads[t][c + 1].last = customer_record[r][c]
    BY <1>1 DEF CommitInv, CommitsValid, Valid, Conflict, ReadsInv, SeededKnown
  <1>3. customer_record[r][c] \in Nat
    <2>1. Len(smr_log[r]) \in Nat
      BY DEF TypeInv, TypeOK
    <2> QED
      BY <2>1, CountOfNext DEF NumberInv, CountsKept
  <1>4. Base(reads[t], c) = customer_record[r][c]
    <2>1. c < Len(reads[t])
      <3>1. Len(reads[t]) \in Nat /\ c \in Int
        BY ConfigAssumption DEF TypeInv, TypeOK
      <3> QED
        BY <1>1, <3>1
    <2> QED
      BY <1>2, <1>3, <2>1 DEF Base
  <1>5. CountOf(writes[t], c, 0) = 0
    BY CountOfZero
  <1> QED
    BY <1>1, <1>3, <1>4, <1>5

(* An order that is applied continues the numbers of its customer.         *)
LEMMA LaptopNumbers ==
    ASSUME TypeInv, IdInv, ReadsInv, NumberInv, NEW t \in Txn, NEW r \in RM,
           CreateRegularLaptop(t, r)
    PROVE  /\ CountsKept' /\ Numbered'
           /\ conn'[t][r] = "apply" =>
                  /\ found'[t][r] = Ops(t)'
                  /\ \A i \in 1 .. Len(writes'[t]) :
                         customer_record'[r][writes'[t][i].cust] = Base(reads'[t], writes'[t][i].cust)
                              + CountOf(writes'[t], writes'[t][i].cust, applied'[t][r])
  <1> DEFINE old == smr_log[r]
             new == smr_log'[r]
             L   == Len(smr_log[r])
             ws  == writes[t]
             B(c) == Base(reads[t], c)
             cr  == customer_record[r]
             n   == applied[t][r]
  <1>0. /\ old \in Seq(MapOp) /\ smr_log \in [RM -> Seq(MapOp)] /\ L \in Nat /\ n \in Nat
        /\ cr \in CustomerMap /\ customer_record \in [RM -> CustomerMap]
        /\ ws \in Seq(CustomerOrder) /\ applied \in [Txn -> [RM -> Nat]]
        /\ reads' = reads /\ writes' = writes /\ found' = found
    BY DEF TypeInv, TypeOK, CreateRegularLaptop, cliVars
  <1>1. conn[t][r] = "apply" /\ found[t][r] = Ops(t) /\ n + 1 \in 1 .. Len(ws)
    <2>1. conn[t][r] = "apply" /\ found[t][r] = Ops(t)
      BY DEF CreateRegularLaptop, AtHandler, NumberInv, ApplyingNext
    <2>2. n < Len(found[t][r]) /\ Len(found[t][r]) = Len(ws) /\ Len(ws) \in Nat
      BY <2>1, OpsFacts DEF TypeInv, Bookkeeping, RecordsLeft
    <2> QED
      BY <1>0, <2>1, <2>2
  <1>2. PICK o \in CustomerOrder : o = ws[n + 1]
    BY <1>0, <1>1
  <1>3. /\ Ops(t)[n + 1].cust = o.cust /\ Ops(t)[n + 1].num = o.num
        /\ OpOf(Ops(t)[n + 1]).cust = o.cust /\ OpOf(Ops(t)[n + 1]).num = o.num
    BY <1>1, <1>2 DEF Ops, PrepareRecords, OpOf
  <1>4. /\ \A q \in RM : q # r => smr_log'[q] = smr_log[q] /\ customer_record'[q] = customer_record[q]
        /\ \A k \in Key : customer_record'[r][k] = IF k = o.cust THEN o.num ELSE cr[k]
        /\ new = Append(old, OpOf(Ops(t)[n + 1])) /\ applied'[t][r] = n + 1
    BY <1>0, <1>1, <1>3 DEF CreateRegularLaptop, AdminThread, CustomerMap
  <1>5. /\ o.cust \in 0 .. Seeded - 1 /\ o.cust \in Key
        /\ o.num = B(o.cust) + CountOf(ws, o.cust, n + 1)
    BY <1>1, <1>2, OrderedKnown DEF Handling, InCommit
  <1>6. \A i \in 1 .. Len(ws) : /\ cr[ws[i].cust] = B(ws[i].cust) + CountOf(ws, ws[i].cust, n)
                                /\ ws[i].cust \in Key
    <2>1. \A i \in 1 .. Len(ws) : cr[ws[i].cust] = B(ws[i].cust) + CountOf(ws, ws[i].cust, n)
      BY <1>1 DEF NumberInv, ApplyingNext
    <2> QED
      BY <1>1, <2>1, OrderedKnown DEF Handling, InCommit
  <1>7. cr[o.cust] = CountOf(old, o.cust, L) /\ \A c \in 0 .. Seeded - 1 : cr[c] = CountOf(old, c, L)
    BY <1>5 DEF NumberInv, CountsKept
  <1>8. B(o.cust) \in Int
    <2>1. reads[t] \in Seq(CustomerRecord)
      BY DEF TypeInv, TypeOK
    <2> QED
      BY <1>5, <2>1, BaseType
  <1>9. Len(new) = L + 1 /\ new[L + 1].cust = o.cust /\ new[L + 1].num = o.num
        /\ \A i \in 1 .. L : new[i] = old[i]
    BY <1>0, <1>3, <1>4
  <1> HIDE DEF old, new, L, ws, B, cr, n
  <1>10. \A c : CountOf(ws, c, n + 1) = IF o.cust = c THEN CountOf(ws, c, n) + 1 ELSE CountOf(ws, c, n)
    BY <1>0, <1>2, CountOfNext
  <1>11. ASSUME NEW c, NEW i \in 0 .. L
         PROVE  CountOf(new, c, i) = CountOf(old, c, i)
    <2>1. i \in Nat /\ \A j \in 1 .. i : j \in 1 .. L
      BY <1>0
    <2>2. \A j \in 1 .. i : new[j].cust = old[j].cust
      BY <1>9, <2>1
    <2> QED
      BY <2>1, <2>2, CountOfSame
  <1>12. ASSUME NEW c
         PROVE  CountOf(new, c, L + 1) = IF o.cust = c THEN CountOf(old, c, L) + 1
                                                       ELSE CountOf(old, c, L)
    <2>1. CountOf(new, c, L + 1) = IF new[L + 1].cust = c THEN CountOf(new, c, L) + 1
                                                          ELSE CountOf(new, c, L)
      BY <1>0, CountOfNext
    <2>2. CountOf(new, c, L) = CountOf(old, c, L)
      BY <1>0, <1>11
    <2> QED
      BY <1>9, <2>1, <2>2
  <1>13. o.num = CountOf(new, o.cust, L + 1)
    <2>1. cr[o.cust] = B(o.cust) + CountOf(ws, o.cust, n) /\ CountOf(ws, o.cust, n) \in Nat
      BY <1>0, <1>1, <1>2, <1>6, CountOfNext
    <2>2. CountOf(ws, o.cust, n + 1) = CountOf(ws, o.cust, n) + 1
      BY <1>10
    <2>3. CountOf(new, o.cust, L + 1) = cr[o.cust] + 1
      BY <1>7, <1>12
    <2> QED
      BY <1>5, <1>8, <2>1, <2>2, <2>3
  <1>14. CountsKept'
    <2> SUFFICES ASSUME NEW q \in RM, NEW c \in 0 .. Seeded - 1
                 PROVE  customer_record'[q][c] = CountOf(smr_log'[q], c, Len(smr_log'[q]))
      BY DEF CountsKept
    <2>1. CASE q # r
      BY <1>4, <2>1 DEF NumberInv, CountsKept
    <2>2. CASE q = r
      <3>1. c \in Key
        BY ConfigAssumption, DataAssumption DEF Key, Customer
      <3>2. customer_record'[r][c] = CountOf(new, c, L + 1)
        BY <1>4, <1>7, <1>12, <1>13, <3>1
      <3> QED
        BY <1>9, <2>2, <3>2 DEF new
    <2> QED
      BY <2>1, <2>2
  <1>15. Numbered'
    <2> SUFFICES ASSUME NEW q \in RM, NEW i \in 1 .. Len(smr_log'[q])
                 PROVE  smr_log'[q][i].num = CountOf(smr_log'[q], smr_log'[q][i].cust, i)
      BY DEF Numbered
    <2>1. CASE q # r
      BY <1>4, <2>1 DEF NumberInv, Numbered
    <2>2. CASE q = r
      <3>1. \A j \in 1 .. L : old[j].num = CountOf(old, old[j].cust, j)
        BY DEF NumberInv, Numbered, old, L
      <3>2. \A j \in 1 .. L + 1 : new[j].num = CountOf(new, new[j].cust, j)
        <4> SUFFICES ASSUME NEW j \in 1 .. L + 1
                     PROVE  new[j].num = CountOf(new, new[j].cust, j)
          OBVIOUS
        <4>1. CASE j = L + 1
          BY <1>9, <1>13, <4>1
        <4>2. CASE j # L + 1
          <5>1. j \in 1 .. L /\ j \in 0 .. L
            BY <1>0, <4>2
          <5> QED
            BY <1>9, <1>11, <3>1, <5>1
        <4> QED
          BY <4>1, <4>2
      <3> QED
        BY <1>9, <2>2, <3>2 DEF new
    <2> QED
      BY <2>1, <2>2
  <1>16. \A i \in 1 .. Len(ws) :
             customer_record'[r][ws[i].cust] = B(ws[i].cust) + CountOf(ws, ws[i].cust, n + 1)
    BY <1>4, <1>5, <1>6, <1>10
  <1> QED
    BY <1>0, <1>1, <1>4, <1>14, <1>15, <1>16 DEF Ops, ws, B

LEMMA RMNumbers ==
    ASSUME TypeInv, HandlerInv, IdInv, CommitInv, ReadsInv, NumberInv,
           NEW t \in Txn, NEW r \in RM, RMStep(t, r)
    PROVE  NumberInv'
  <1>0. UNCHANGED <<cpc, reads, writes, txnId>> /\ conn \in [Txn -> [RM -> ConnState]]
    BY RMFrame DEF cliVars, TypeInv, TypeOK
  <1>1. conn[t][r] \in Handling
    BY DEF RMStep, TMPrepare, LogPrepare, TMCommit, CreateRegularLaptop, LogCommit, TruncateCust, StoreCust,
           TMAbort, TornRequest, AtHandler, Handling, InCommit
  <1>2. /\ conn'[t][r] # "commit"
        /\ conn'[t][r] = "apply" => TMCommit(t, r) \/ CreateRegularLaptop(t, r)
    BY <1>0 DEF RMStep, TMPrepare, LogPrepare, TMCommit, CreateRegularLaptop, LogCommit, TruncateCust, StoreCust,
           TMAbort, TornRequest, AnswerIs
  <1>3. ASSUME NEW u \in Txn, NEW q \in RM, conn'[u][q] \in {"commit", "apply"}
        PROVE  u = t /\ q = r
    <2> SUFFICES ASSUME ~(u = t /\ q = r) PROVE FALSE
      OBVIOUS
    <2>1. conn'[u][q] = conn[u][q]
      BY <1>0, OtherSessions DEF RMStep, TMPrepare, LogPrepare, TMCommit, CreateRegularLaptop, LogCommit,
             TruncateCust, StoreCust, TMAbort, TornRequest, AnswerIs
    <2> QED
      BY <1>1, <1>3, <2>1 DEF HandlerInv, Exclusion, OneHandler, Handling, InCommit
  <1>4. ReadsDone' /\ OrdersNext'
    BY <1>0 DEF NumberInv, ReadsDone, OrdersNext, Asked, Experiment
  <1>5. CommitsHeld'
    BY <1>2, <1>3 DEF CommitsHeld
  <1>6. CASE CreateRegularLaptop(t, r)
    <2>1. ApplyingNext'
      BY <1>3, <1>6, LaptopNumbers DEF ApplyingNext
    <2> QED
      BY <1>4, <1>5, <1>6, <2>1, LaptopNumbers DEF NumberInv
  <1>7. CASE ~CreateRegularLaptop(t, r)
    <2>1. customer_record' = customer_record /\ smr_log' = smr_log
      BY <1>7 DEF RMStep, TMPrepare, LogPrepare, TMCommit, LogCommit, TruncateCust, StoreCust, TMAbort,
             TornRequest, rmVars, memory
    <2>2. CountsKept' /\ Numbered'
      BY <2>1 DEF NumberInv, CountsKept, Numbered
    <2>3. ASSUME conn'[t][r] = "apply"
          PROVE  /\ found'[t][r] = Ops(t)' /\ applied'[t][r] = 0 /\ conn[t][r] = "commit"
      <3>1. TMCommit(t, r) /\ conn[t][r] = "commit"
        BY <1>2, <1>7, <2>3 DEF TMCommit, AtHandler
      <3>2. /\ found'[t][r] = Entry(txn_log[r], txnId[t]) /\ applied'[t][r] = 0
            /\ txn_log[r][txnId[t]] = Ops(t) /\ Ops(t)' = Ops(t)
        BY <1>0, <3>1 DEF TMCommit, NumberInv, CommitsHeld, Ops, TypeInv, TypeOK
      <3> QED
        BY <3>1, <3>2, OpsFacts DEF Entry
    <2>4. ApplyingNext'
      BY <1>0, <1>3, <2>1, <2>3, CommitContinues DEF ApplyingNext
    <2> QED
      BY <1>4, <1>5, <2>2, <2>4 DEF NumberInv
  <1> QED
    BY <1>6, <1>7

(* The TM sends a commit to RMs that have voted; nobody else sends one.    *)
LEMMA OtherNumbers ==
    ASSUME TypeInv, HandlerInv, IdInv, CommitInv, CommitInv', NumberInv,
           MaxTMRestarts = 0, MaxRMCrashes = 0, TMStep \/ Fault \/ UNCHANGED vars
    PROVE  NumberInv'
  <1>a. TMStep \/ TMDies \/ UNCHANGED vars
    BY OnlyTMFaults DEF CommitInv
  <1>0. /\ conn \in [Txn -> [RM -> ConnState]] /\ \A r \in RM : rmUp[r]
        /\ tmPc # "accept" => tmTxn \in Txn
        /\ cpc \in [Txn -> {"read", "lost", "write", "wait", "done"}]
    BY DEF TypeInv, TypeOK, Bookkeeping, TMBusy, CommitInv, RMsUp
  <1>1. UNCHANGED <<customer_record, txn_log, smr_log, found, applied, reads, writes>>
    BY <1>a DEF TMStep, Accept, Connect, ConnectFailed, SendPrepare, RecvVote, SendDecision, RecvDone,
           Reply, TMDies, rmVars, memory, locals, cliVars, vars
  <1>2. \A t \in Txn : \/ cpc'[t] = cpc[t]
                       \/ cpc'[t] = "done" /\ cpc[t] = "wait"
    BY <1>0, <1>a DEF TMStep, Accept, Connect, ConnectFailed, SendPrepare, RecvVote, SendDecision,
           RecvDone, Reply, Finish, TMDies, DisconnectClients, cliVars, vars, IdInv, InLine, ServedWaits
  <1>3. CountsKept' /\ Numbered' /\ ReadsDone' /\ OrdersNext'
    BY <1>1, <1>2 DEF NumberInv, CountsKept, Numbered, ReadsDone, OrdersNext, Asked, Experiment
  <1>4. ASSUME NEW t \in Txn, NEW r \in RM, conn'[t][r] \in {"commit", "apply"}
        PROVE  \/ conn[t][r] = conn'[t][r] /\ ~Accept
               \/ SendDecision /\ conn'[t][r] = "commit" /\ t = tmTxn /\ r = tmRM
    <2>1. CASE Accept
      <3>1. conn[t][r] \in Handling /\ tmUp /\ tmPc = "accept"
        BY <1>4, <2>1 DEF Accept, Handling, InCommit
      <3> QED
        BY <3>1 DEF HandlerInv, Exclusion, Waiting
    <2>2. CASE Connect \/ ConnectFailed \/ SendPrepare \/ RecvVote \/ RecvDone \/ Reply
      BY <1>0, <1>4, <2>2 DEF Connect, ConnectFailed, SendPrepare, RecvVote, RecvDone, Reply, Finish,
           SetSession, Session, Accept
    <2>3. CASE SendDecision
      BY <1>0, <1>4, <2>3 DEF SendDecision, SetSession, Session, Accept
    <2>4. CASE TMDies
      BY <1>4, <2>4 DEF TMDies, Accept
    <2>5. CASE UNCHANGED vars
      BY <1>0, <1>4, <2>5 DEF vars, Accept, tmVars
    <2> QED
      BY <1>a, <2>1, <2>2, <2>3, <2>4, <2>5 DEF TMStep
  <1>5. ApplyingNext'
    BY <1>1, <1>4 DEF NumberInv, ApplyingNext, Ops
  <1>6. CommitsHeld'
    <2> SUFFICES ASSUME NEW t \in Txn, NEW r \in RM, conn'[t][r] = "commit"
                 PROVE  txn_log'[r][txnId'[t]] = Ops(t)'
      BY DEF CommitsHeld
    <2>1. CASE conn[t][r] = "commit" /\ ~Accept
      <3>1. txnId' = txnId
        BY <1>a, <2>1 DEF TMStep, Connect, ConnectFailed, SendPrepare, RecvVote, SendDecision, RecvDone,
           Reply, TMDies, cliVars, vars
      <3> QED
        BY <1>1, <2>1, <3>1 DEF NumberInv, CommitsHeld, Ops
    <2>2. CASE SendDecision /\ t = tmTxn /\ r = tmRM
      <3>1. tmPc' = "ack" /\ t = tmTxn' /\ r = tmRM'
        BY <2>2 DEF SendDecision
      <3>2. allOk' \/ conn[t][r] = "commit"
        BY <1>0, <2>2 DEF SendDecision, SetSession, Session
      <3>3. conn[t][r] # "commit"
        BY <2>2 DEF SendDecision, CommitInv, Progress, Deciding, Idle
      <3>4. Voted(t, r)'
        BY <3>1, <3>2, <3>3 DEF CommitInv, Progress, Acking, InCommit
      <3> QED
        BY <3>4 DEF Voted, Entered
    <2> QED
      BY <1>4, <2>1, <2>2
  <1> QED
    BY <1>3, <1>5, <1>6 DEF NumberInv

LEMMA NumberInvariant ==
    ASSUME MaxTMRestarts = 0, MaxRMCrashes = 0, AllSeeded, OrdersRead
    PROVE  Spec => []NumberInv
  <1>1. Init => NumberInv
    BY InitNumbers
  <1>2. /\ TypeInv /\ HandlerInv /\ IdInv /\ CommitInv /\ CommitInv' /\ ReadsInv
        /\ NumberInv /\ [Next]_vars
        => NumberInv'
    BY ClientNumbers, RMNumbers, OtherNumbers DEF CommitInv, Next, Terminating
  <1>3. Spec => [](TypeInv /\ HandlerInv /\ IdInv /\ DecisionInv /\ CommitInv)
    BY CommitInvariant
  <1>4. Spec => []ReadsInv
    BY ReadsInvariant
  <1> QED
    BY <1>1, <1>2, <1>3, <1>4, PTL DEF Spec

(* The orders that an RM applies for a customer are numbered 1, 2, 3, ...: *)
(* no client's order overwrites another's and none is applied twice, for   *)
(* clients that order what they have read, while no RM crashes and no      *)
(* second TM runs.                                                         *)
THEOREM OrdersConsecutive ==
    ASSUME MaxTMRestarts = 0, MaxRMCrashes = 0, AllSeeded, OrdersRead
    PROVE  Spec => []OrderNumbersConsecutive
  <1>1. TypeInv /\ NumberInv => OrderNumbersConsecutive
    <2> SUFFICES ASSUME TypeInv, NumberInv, NEW r \in RM, NEW i \in DOMAIN smr_log[r]
                 PROVE  smr_log[r][i].num =
                            Cardinality({j \in 1 .. i : smr_log[r][j].cust = smr_log[r][i].cust})
      BY DEF OrderNumbersConsecutive
    <2>1. i \in 1 .. Len(smr_log[r])
      BY DEF TypeInv, TypeOK
    <2> QED
      BY <2>1 DEF NumberInv, Numbered, CountOf
  <1> QED
    BY <1>1, CommitInvariant, NumberInvariant, PTL
=============================================================================
