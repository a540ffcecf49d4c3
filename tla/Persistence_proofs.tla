-------------------------- MODULE Persistence_proofs --------------------------
(***************************************************************************)
(* Proofs about what TwoPhaseCommit keeps in an RM's two files: nothing is *)
(* done before it is in the log file, and the file of customer records     *)
(* holds committed orders only.                                            *)
(***************************************************************************)
EXTENDS Decisions_proofs

(* The writes of a sequence of log records, and those of the lines of a    *)
(* log file that are not commits.                                          *)
Ops(recs)      == {OpOf(rec) : rec \in Records(recs)}
Prepared(file) == {OpOf(line) : line \in {l \in Lines(file) : l.op # 2}}

(* The writes of the transactions that TMPrepare has entered into txn_log  *)
(* and not yet into the file.                                              *)
Inserted(r) == UNION {Ops(PrepareRecords(t, writes[t])) : t \in {u \in Txn : conn[u][r] = "prelog"}}

(* WriteAhead is not inductive: what an RM applies and commits it takes    *)
(* from txn_log, through the local found of TMCommit.  Both hold only      *)
(* writes that were logged, after a restart too; but txn_log is ahead of   *)
(* the file while a TMPrepare is between the two.                          *)
AppliedAhead(r) == Records(smr_log[r]) \subseteq Prepared(logFile[r])
FileAhead(r)    == {OpOf(line) : line \in Lines(logFile[r])} \subseteq Prepared(logFile[r])
LogAhead(r)     == \A id \in TxnId :
                       Ops(Entry(txn_log[r], id)) \subseteq Prepared(logFile[r]) \cup Inserted(r)
FoundAhead(r)   == \A t \in Txn : Ops(found[t][r]) \subseteq Prepared(logFile[r])

AheadInv == \A r \in RM : AppliedAhead(r) /\ FileAhead(r) /\ LogAhead(r) /\ FoundAhead(r)


(* What was logged stays logged, and prepare and abort lines are logged. *)
LEMMA PreparedGrows ==
    ASSUME NEW file \in LogFile, NEW id \in TxnId, NEW recs \in Seq(TxnLogRequest)
    PROVE  /\ Prepared(file) \subseteq Prepared(AppendLines(file, id, recs))
           /\ (\A rec \in Records(recs) : rec.op # 2) =>
                  Ops(recs) \subseteq Prepared(AppendLines(file, id, recs))
  BY AppendedLines DEF Prepared, Ops

(* A commit record is the same write as the record it comes from. *)
LEMMA CommitRecordsOps ==
    ASSUME NEW recs \in Seq(TxnLogRequest)
    PROVE  Ops(CommitRecords(recs)) = Ops(recs)
  <1>1. \A rec \in Records(recs) : OpOf([rec EXCEPT !.op = 2]) = OpOf(rec)
    BY RecordsType, CommittedOp DEF OpOf
  <1>2. Records(CommitRecords(recs)) = {[rec EXCEPT !.op = 2] : rec \in Records(recs)}
    BY CommitRecordsHold
  <1>3. Ops(CommitRecords(recs)) = {OpOf([rec EXCEPT !.op = 2]) : rec \in Records(recs)}
    BY <1>2 DEF Ops
  <1> QED
    BY <1>1, <1>3 DEF Ops

(* All parts of AheadInv survive appending lines of writes that are logged *)
(* or are just being logged.                                               *)
LEMMA AppendAhead ==
    ASSUME NEW r \in RM, NEW file \in LogFile, NEW id \in TxnId,
           NEW recs \in Seq(TxnLogRequest),
           {OpOf(line) : line \in Lines(file)} \subseteq Prepared(file),
           \/ \A rec \in Records(recs) : rec.op # 2
           \/ Ops(recs) \subseteq Prepared(file)
    PROVE  {OpOf(line) : line \in Lines(AppendLines(file, id, recs))}
               \subseteq Prepared(AppendLines(file, id, recs))
  <1> DEFINE new == AppendLines(file, id, recs)
  <1>1. Lines(new) = Lines(file) \cup Records(recs)
    BY AppendedLines
  <1>2. Prepared(file) \subseteq Prepared(new) /\ Ops(recs) \subseteq Prepared(new)
    BY PreparedGrows
  <1> QED
    BY <1>1, <1>2 DEF Ops

LEMMA InitAhead == Init => AheadInv
  <1> SUFFICES ASSUME Init, NEW r \in RM
               PROVE  AppliedAhead(r) /\ FileAhead(r) /\ LogAhead(r) /\ FoundAhead(r)
    BY DEF AheadInv
  <1> DEFINE seeds == [i \in 1 .. Seeded |-> [cust |-> i - 1, num |-> 1]]
  <1>1. /\ logFile[r] = SeedFile /\ txn_log[r] = CommitLog(0, SeedRecords)
        /\ smr_log[r] = [i \in 1 .. Seeded |-> OpOf(SeedRecords[i])]
        /\ \A t \in Txn : found[t][r] = <<>>
    BY DEF Init
  <1>2. SeedRecords \in Seq(TxnLogRequest) /\ CommitRecords(SeedRecords) \in Seq(TxnLogRequest)
    BY SeedTypes, CommitRecordsType
  <1>3. 0 \in TxnId
    BY DataAssumption DEF TxnId
  <1>4. Lines(SeedFile) = Records(SeedRecords) \cup Records(CommitRecords(SeedRecords))
    <2>1. Records(SeedFile[0]) = Records(SeedRecords) \cup Records(CommitRecords(SeedRecords))
      BY <1>2, <1>3, RecordsOfConcat DEF SeedFile
    <2>2. \A id \in TxnId : id # 0 => Records(SeedFile[id]) = {}
      BY DEF SeedFile, Records
    <2> QED
      BY <1>3, <2>1, <2>2 DEF Lines
  <1>5. DOMAIN SeedRecords = 1 .. Seeded /\ \A i \in 1 .. Seeded : SeedRecords[i].op = 1
    <2>1. Len(seeds) = Seeded
      BY ConfigAssumption
    <2> QED
      BY <2>1 DEF SeedRecords, PrepareRecords
  <1>6. Ops(SeedRecords) \subseteq Prepared(SeedFile)
    BY <1>4, <1>5 DEF Ops, Prepared, Records
  <1>7. Ops(CommitRecords(SeedRecords)) = Ops(SeedRecords)
    BY <1>2, CommitRecordsOps
  <1>8. AppliedAhead(r)
    BY <1>1, <1>5, <1>6 DEF AppliedAhead, Ops, Records
  <1>9. FileAhead(r)
    BY <1>1, <1>4, <1>6, <1>7 DEF FileAhead, Ops
  <1>10. LogAhead(r)
    BY <1>1, <1>2, <1>3, <1>6, <1>7, CommitLogHolds DEF LogAhead, Ops
  <1>11. FoundAhead(r)
    BY <1>1 DEF FoundAhead, Ops, Records
  <1> QED
    BY <1>8, <1>9, <1>10, <1>11

(* A handler that has yet to log what it inserted keeps its place. *)
LEMMA InsertedStays ==
    ASSUME NEW r \in RM,
           \A t \in Txn : conn[t][r] = "prelog" =>
               conn'[t][r] = "prelog" /\ writes'[t] = writes[t]
    PROVE  Inserted(r) \subseteq Inserted(r)'
  BY DEF Inserted

(* A step that touches neither the logs nor the locals. *)
LEMMA SameAhead ==
    ASSUME AheadInv, UNCHANGED <<smr_log, txn_log, logFile, found>>,
           \A t \in Txn, r \in RM : conn[t][r] = "prelog" =>
               conn'[t][r] = "prelog" /\ writes'[t] = writes[t]
    PROVE  AheadInv'
  <1>1. \A r \in RM : Inserted(r) \subseteq Inserted(r)'
    BY InsertedStays
  <1> HIDE DEF Inserted
  <1> QED
    BY <1>1 DEF AheadInv, AppliedAhead, FileAhead, LogAhead, FoundAhead

LEMMA RMAhead ==
    ASSUME TypeInv, OneHandler, AheadInv, NEW t \in Txn, NEW r \in RM, RMStep(t, r)
    PROVE  AheadInv'
  <1>1. /\ txn_log \in [RM -> TxnLogMap] /\ logFile \in [RM -> LogFile]
        /\ smr_log \in [RM -> Seq(MapOp)] /\ txnId[t] \in TxnId
        /\ found \in [Txn -> [RM -> Seq(TxnLogRequest)]]
        /\ conn \in [Txn -> [RM -> ConnState]]
    BY DEF TypeInv, TypeOK
  <1>2. txn_log[r] \in TxnLogMap /\ logFile[r] \in LogFile /\ found[t][r] \in Seq(TxnLogRequest)
    BY <1>1
  <1>3. AppliedAhead(r) /\ FileAhead(r) /\ LogAhead(r) /\ FoundAhead(r)
    BY DEF AheadInv
  <1>a. writes' = writes
    BY RMFrame DEF cliVars
  (* Only this RM changes. *)
  <1>4. SUFFICES AppliedAhead(r)' /\ FileAhead(r)' /\ LogAhead(r)' /\ FoundAhead(r)'
    <2>1. \A q \in RM : q # r =>
             /\ smr_log'[q] = smr_log[q] /\ txn_log'[q] = txn_log[q]
             /\ logFile'[q] = logFile[q]
             /\ \A u \in Txn : found'[u][q] = found[u][q] /\ conn'[u][q] = conn[u][q]
      BY OtherRMs
    <2>2. \A q \in RM : q # r => Inserted(q)' = Inserted(q)
      BY <1>a, <2>1 DEF Inserted
    <2> HIDE DEF Inserted
    <2> QED
      BY <1>4, <2>1, <2>2 DEF AheadInv, AppliedAhead, FileAhead, LogAhead, FoundAhead
  (* A handler inserts in TMPrepare and ends the gap in LogPrepare. *)
  <1>b. conn[t][r] # "prelog" => Inserted(r) \subseteq Inserted(r)'
    BY <1>a, OtherSessions, InsertedStays
  <1> USE DEF AppliedAhead, FileAhead, LogAhead, FoundAhead
  <1>5. ASSUME UNCHANGED <<smr_log, txn_log, logFile, found>>, conn[t][r] # "prelog"
        PROVE  AppliedAhead(r)' /\ FileAhead(r)' /\ LogAhead(r)' /\ FoundAhead(r)'
    BY <1>3, <1>5, <1>b
  <1>c. ASSUME NEW recs, recs = PrepareRecords(t, writes[t])
        PROVE  recs \in Seq(TxnLogRequest) /\ \A rec \in Records(recs) : rec.op # 2
    <2>1. writes[t] \in Seq(CustomerOrder) /\ t \in Writer
      BY DEF TypeInv, TypeOK, Writer
    <2> QED
      BY <1>c, <2>1, PrepareRecordsType, PrepareRecordsHold
  <1>6. CASE TMPrepare(t, r)
    <2> DEFINE recs == PrepareRecords(t, writes[t])
    <2>1. conn[t][r] = "prepare" /\ UNCHANGED <<smr_log, logFile, found>>
      BY <1>6 DEF TMPrepare, AtHandler, files, locals
    <2>2. Inserted(r) \subseteq Inserted(r)'
      BY <1>b, <2>1
    <2>3. CASE txn_log' = txn_log
      BY <1>5, <2>1, <2>3
    <2>4. CASE /\ txn_log' = [txn_log EXCEPT ![r] = Insert(@, txnId[t], recs)]
               /\ conn' = [conn EXCEPT ![t][r] = "prelog"]
      <3>1. recs \in Seq(TxnLogRequest)
        BY <1>c
      <3>2. txn_log'[r] = Insert(txn_log[r], txnId[t], recs)
        BY <1>1, <2>4
      <3>3. Ops(recs) \subseteq Inserted(r)'
        BY <1>1, <1>a, <2>4 DEF Inserted
      <3>4. ASSUME NEW id \in TxnId
            PROVE  Ops(Entry(txn_log'[r], id)) \subseteq Ops(Entry(txn_log[r], id)) \cup Ops(recs)
        BY <1>1, <1>2, <3>1, <3>2, InsertHolds DEF Ops
      <3>5. LogAhead(r)'
        BY <1>3, <2>1, <2>2, <3>3, <3>4
      <3> QED
        BY <1>3, <2>1, <3>5
    <2> QED
      BY <1>6, <2>3, <2>4 DEF TMPrepare
  <1>14. CASE LogPrepare(t, r)
    <2> DEFINE recs == PrepareRecords(t, writes[t])
    <2>1. /\ UNCHANGED <<smr_log, txn_log, found>>
          /\ logFile'[r] = AppendLines(logFile[r], txnId[t], recs)
      BY <1>1, <1>14 DEF LogPrepare, memory, locals
    <2>2. recs \in Seq(TxnLogRequest) /\ \A rec \in Records(recs) : rec.op # 2
      BY <1>c
    <2>3. /\ Prepared(logFile[r]) \subseteq Prepared(logFile'[r])
          /\ Ops(recs) \subseteq Prepared(logFile'[r])
          /\ FileAhead(r)'
      <3> HIDE DEF recs
      <3> QED
        BY <1>1, <1>2, <1>3, <2>1, <2>2, PreparedGrows, AppendAhead
    <2>4. Inserted(r) \subseteq Inserted(r)' \cup Ops(recs)
      <3> SUFFICES ASSUME NEW u \in Txn, conn[u][r] = "prelog", u # t
                   PROVE  conn'[u][r] = "prelog" /\ writes'[u] = writes[u]
        BY DEF Inserted
      <3> QED
        BY <1>a, OtherSessions
    <2>5. LogAhead(r)'
      BY <1>3, <2>1, <2>3, <2>4
    <2> QED
      BY <1>3, <2>1, <2>3, <2>5
  <1>7. CASE TMCommit(t, r)
    <2>1. /\ conn[t][r] = "commit" /\ UNCHANGED <<smr_log, txn_log, logFile>>
          /\ found' = [found EXCEPT ![t][r] = Entry(txn_log[r], txnId[t])]
      BY <1>7 DEF TMCommit, AtHandler, rmVars, memory, files
    (* What the entry holds is logged: no other handler is inserting. *)
    <2>2. Inserted(r) = {}
      BY <2>1 DEF Inserted, OneHandler, Handling
    <2>3. Ops(Entry(txn_log[r], txnId[t])) \subseteq Prepared(logFile[r])
      BY <1>1, <1>3, <2>2
    <2>4. FoundAhead(r)'
      BY <1>1, <1>3, <2>1, <2>3
    <2> QED
      BY <1>3, <1>b, <2>1, <2>4
  <1>8. CASE CreateRegularLaptop(t, r)
    <2> DEFINE i == applied[t][r] + 1
    <2>1. i \in DOMAIN found[t][r]
      BY <1>8 DEF CreateRegularLaptop, AtHandler, TypeInv, TypeOK, Bookkeeping, RecordsLeft
    <2>2. OpOf(found[t][r][i]) \in Prepared(logFile[r])
      BY <1>3, <2>1 DEF Ops, Records
    <2>3. smr_log'[r] = Append(smr_log[r], OpOf(found[t][r][i])) /\ smr_log[r] \in Seq(MapOp)
      BY <1>1, <1>8 DEF CreateRegularLaptop, AdminThread
    <2>4. Records(smr_log'[r]) \subseteq Records(smr_log[r]) \cup {OpOf(found[t][r][i])}
      BY <2>3 DEF Records
    <2> QED
      BY <1>3, <1>8, <1>b, <2>2, <2>4 DEF CreateRegularLaptop, AtHandler, files
  <1>9. CASE LogCommit(t, r)
    <2> DEFINE recs == found[t][r]
    <2>1. recs \in Seq(TxnLogRequest) /\ CommitRecords(recs) \in Seq(TxnLogRequest)
      BY <1>2, CommitRecordsType
    <2>2. Ops(CommitRecords(recs)) = Ops(recs) /\ Ops(recs) \subseteq Prepared(logFile[r])
      BY <1>2, <1>3, CommitRecordsOps
    <2>3. logFile'[r] = AppendLines(logFile[r], txnId[t], CommitRecords(recs))
      BY <1>1, <1>9 DEF LogCommit
    <2>4. Prepared(logFile[r]) \subseteq Prepared(logFile'[r])
      BY <1>1, <1>2, <2>1, <2>3, PreparedGrows
    <2>5. FileAhead(r)'
      BY <1>1, <1>2, <1>3, <2>1, <2>2, <2>3, AppendAhead
    <2>6. txn_log'[r] = CommitLog(txnId[t], recs)
      BY <1>1, <1>9 DEF LogCommit
    <2>7. ASSUME NEW id \in TxnId PROVE Ops(Entry(txn_log'[r], id)) \subseteq Ops(recs)
      BY <1>1, <2>1, <2>2, <2>6, CommitLogHolds DEF Ops
    <2>8. LogAhead(r)'
      BY <2>2, <2>4, <2>7
    <2> QED
      BY <1>3, <1>9, <2>4, <2>5, <2>8 DEF LogCommit
  <1>10. CASE TruncateCust(t, r)
    BY <1>5, <1>10 DEF TruncateCust, AtHandler, memory, locals
  <1>11. CASE StoreCust(t, r)
    BY <1>5, <1>11 DEF StoreCust, AtHandler, memory, locals
  <1>12. CASE TMAbort(t, r)
    <2> DEFINE rec == AbortRecord(t)
    <2>1. rec \in TxnLogRequest /\ <<rec>> \in Seq(TxnLogRequest) /\ rec.op # 2
      BY AbortRecordType DEF AbortRecord
    <2>2. Records(<<rec>>) = {rec}
      BY DEF Records
    <2>3. logFile'[r] = AppendLines(logFile[r], txnId[t], <<rec>>)
      BY <1>1, <1>12 DEF TMAbort
    <2>4. /\ Prepared(logFile[r]) \subseteq Prepared(logFile'[r])
          /\ OpOf(rec) \in Prepared(logFile'[r])
          /\ FileAhead(r)'
      BY <1>1, <1>2, <1>3, <2>1, <2>2, <2>3, PreparedGrows, AppendAhead DEF Ops
    <2>5. txn_log'[r] = UpdateValue(txn_log[r], txnId[t], rec)
      BY <1>1, <1>12 DEF TMAbort
    <2>6. \A id \in TxnId : Ops(Entry(txn_log'[r], id)) \subseteq
                               Ops(Entry(txn_log[r], id)) \cup {OpOf(rec)}
      BY <1>1, <1>2, <2>1, <2>5, UpdateValueHolds DEF Ops
    <2>7. Inserted(r) \subseteq Inserted(r)'
      BY <1>12, <1>b DEF TMAbort, AtHandler
    <2>8. LogAhead(r)'
      BY <1>3, <2>4, <2>6, <2>7
    <2> QED
      BY <1>3, <1>12, <2>4, <2>8 DEF TMAbort
  <1>13. CASE TornRequest(t, r)
    <2>1. txn_log'[r] = EmptyLog \/ txn_log'[r] = txn_log[r]
      BY <1>1, <1>13 DEF TornRequest
    <2>2. Inserted(r) \subseteq Inserted(r)'
      BY <1>13, <1>b DEF TornRequest, AtHandler
    <2>3. LogAhead(r)'
      BY <1>3, <1>13, <2>1, <2>2, EmptyLogHolds DEF TornRequest, files, Ops
    <2> QED
      BY <1>3, <1>13, <2>3 DEF TornRequest, files
  <1> QED
    BY <1>6, <1>7, <1>8, <1>9, <1>10, <1>11, <1>12, <1>13, <1>14 DEF RMStep

LEMMA FaultAhead ==
    ASSUME TypeInv, HandlerInv, AheadInv, Fault
    PROVE  AheadInv'
  <1>0. /\ txn_log \in [RM -> TxnLogMap] /\ logFile \in [RM -> LogFile]
        /\ smr_log \in [RM -> Seq(MapOp)]
        /\ found \in [Txn -> [RM -> Seq(TxnLogRequest)]]
        /\ conn \in [Txn -> [RM -> ConnState]]
    BY DEF TypeInv, TypeOK
  <1>1. CASE TMCrash \/ TMSigPipe \/ TMRestart
    <2>1. UNCHANGED <<smr_log, txn_log, logFile, found, writes>>
      BY <1>1 DEF TMCrash, TMSigPipe, TMRestart, TMDies, rmVars, memory, files, locals, cliVars
    <2>2. \A t \in Txn, r \in RM : conn[t][r] = "prelog" => conn'[t][r] = "prelog"
      BY <1>1 DEF TMCrash, TMSigPipe, TMRestart, TMDies, Handling
    <2> QED
      BY <2>1, <2>2, SameAhead
  <1>2. ASSUME NEW r \in RM, RMCrash(r)
        PROVE  AheadInv'
    <2>1. /\ smr_log' = [smr_log EXCEPT ![r] = <<>>] /\ logFile' = logFile
          /\ txn_log' = [txn_log EXCEPT ![r] = EmptyLog]
          /\ found' = [t \in Txn |-> [found[t] EXCEPT ![r] = <<>>]]
          /\ writes' = writes
      BY <1>2 DEF RMCrash, RMDies, files
    <2>2. Records(<<>>) = {} /\ Ops(<<>>) = {}
      BY DEF Records, Ops
    <2>3. \A id \in TxnId : Ops(Entry(EmptyLog, id)) = {}
      BY EmptyLogHolds DEF Ops
    <2>4. \A q \in RM : q # r => Inserted(q) \subseteq Inserted(q)'
      <3>1. \A t \in Txn, q \in RM : q # r => conn'[t][q] = conn[t][q]
        BY <1>0, <1>2 DEF RMCrash, RMDies
      <3> QED
        BY <2>1, <3>1, InsertedStays
    <2> HIDE DEF Inserted
    <2> QED
      BY <1>0, <2>1, <2>2, <2>3, <2>4 DEF AheadInv, AppliedAhead, FileAhead, LogAhead, FoundAhead
  <1>3. ASSUME NEW r \in RM, RMRestart(r)
        PROVE  AheadInv'
    <2>1. /\ smr_log' = smr_log /\ logFile' = logFile /\ found' = found
          /\ txn_log' = [txn_log EXCEPT ![r] = Recovered(logFile[r])]
          /\ UNCHANGED <<conn, writes>>
      BY <1>3 DEF RMRestart, files, locals, cliVars
    <2>2. ASSUME NEW id \in TxnId
          PROVE  Ops(Entry(Recovered(logFile[r]), id)) \subseteq Prepared(logFile[r])
      BY <1>0, RecoveredHolds DEF AheadInv, FileAhead, Ops, Lines
    <2>3. \A q \in RM : Inserted(q)' = Inserted(q)
      BY <2>1 DEF Inserted
    <2> HIDE DEF Inserted
    <2> QED
      BY <1>0, <2>1, <2>2, <2>3 DEF AheadInv, AppliedAhead, FileAhead, LogAhead, FoundAhead
  <1> QED
    BY <1>1, <1>2, <1>3, NothingFreed DEF Fault

LEMMA NextAhead ==
    ASSUME TypeInv, HandlerInv, IdInv, AheadInv, [Next]_vars
    PROVE  AheadInv'
  <1>0. OneHandler /\ writes \in [Txn -> Seq(CustomerOrder)]
    BY DEF HandlerInv, Exclusion, TypeInv, TypeOK
  <1>1. CASE UNCHANGED vars
    BY <1>1, SameAhead DEF vars, rmVars, memory, files, locals, cliVars
  <1>2. ASSUME NEW t \in Txn, ClientStep(t)
        PROVE  AheadInv'
    <2>1. UNCHANGED <<smr_log, txn_log, logFile, found, conn>>
      BY <1>2 DEF ClientStep, ReadRecord, ReadRefused, ReadLost, Submit,
                  rmVars, memory, files, locals
    (* A client whose transaction is being prepared has built its orders. *)
    <2>2. \A u \in Txn, r \in RM : conn[u][r] = "prelog" => cpc[u] # "write"
      BY DEF IdInv, InLine, LiveLeft, Live, Fresh, Handling
    <2>3. \A u \in Txn : cpc[u] # "write" => writes'[u] = writes[u]
      BY <1>0, <1>2 DEF ClientStep, ReadRecord, ReadRefused, ReadLost, Submit
    <2> QED
      BY <2>1, <2>2, <2>3, SameAhead
  <1>3. CASE TMStep
    <2>1. UNCHANGED <<smr_log, txn_log, logFile, found, writes>>
      BY <1>3 DEF TMStep, Accept, Connect, ConnectFailed, SendPrepare, RecvVote,
                  SendDecision, RecvDone, Reply, rmVars, memory, files, locals, cliVars
    <2>2. \A t \in Txn, r \in RM : conn[t][r] = "prelog" => conn'[t][r] = "prelog"
      BY <1>3, TMLeavesHandlers DEF Handling
    <2> QED
      BY <2>1, <2>2, SameAhead
  <1> QED
    BY <1>0, <1>1, <1>2, <1>3, RMAhead, FaultAhead DEF Next, Terminating

(* Nothing is applied, and no commit line is written, before the write is  *)
(* in the log file as a prepare or abort line, although TMPrepare releases *)
(* txn_log before it writes to the file: with any crashes of RMs and of    *)
(* the TM, as long as no second TM is started.                             *)
THEOREM LoggedBeforeApplied ==
    ASSUME MaxTMRestarts = 0
    PROVE  Spec => []WriteAhead
  <1>1. AheadInv => WriteAhead
    <2> DEFINE Before(r, cust, num, by) ==
                 \E id \in TxnId : \E i \in DOMAIN logFile[r][id] :
                   LET line == logFile[r][id][i] IN
                   line.op # 2 /\ line.cust = cust /\ line.num = num /\ line.by = by
    <2> SUFFICES ASSUME AheadInv, NEW r \in RM
                 PROVE  /\ \A i \in DOMAIN smr_log[r] :
                             Before(r, smr_log[r][i].cust, smr_log[r][i].num, smr_log[r][i].by)
                        /\ \A id \in TxnId : \A i \in DOMAIN logFile[r][id] :
                             LET line == logFile[r][id][i] IN Before(r, line.cust, line.num, line.by)
      BY DEF WriteAhead
    <2>1. ASSUME NEW o \in Prepared(logFile[r])
          PROVE  Before(r, o.cust, o.num, o.by)
      BY DEF Prepared, Lines, Records, OpOf
    <2>2. /\ \A i \in DOMAIN smr_log[r] : smr_log[r][i] \in Prepared(logFile[r])
          /\ \A id \in TxnId : \A i \in DOMAIN logFile[r][id] :
               OpOf(logFile[r][id][i]) \in Prepared(logFile[r])
      BY DEF AheadInv, AppliedAhead, FileAhead, Lines, Records
    <2>3. \A line : /\ OpOf(line).cust = line.cust /\ OpOf(line).num = line.num
                   /\ OpOf(line).by = line.by
      BY DEF OpOf
    <2> HIDE DEF Before
    <2>4. \A i \in DOMAIN smr_log[r] :
             Before(r, smr_log[r][i].cust, smr_log[r][i].num, smr_log[r][i].by)
      BY <2>1, <2>2
    <2>5. ASSUME NEW id \in TxnId, NEW i \in DOMAIN logFile[r][id]
          PROVE  Before(r, logFile[r][id][i].cust, logFile[r][id][i].num, logFile[r][id][i].by)
      <3> DEFINE o == OpOf(logFile[r][id][i])
      <3>1. Before(r, o.cust, o.num, o.by)
        BY <2>1, <2>2
      <3> QED
        BY <2>3, <3>1
    <2> QED
      BY <2>4, <2>5
  <1>2. Spec => [](TypeInv /\ HandlerInv /\ IdInv)
    BY DecisionInvariant, PTL
  <1>3. TypeInv /\ HandlerInv /\ IdInv /\ AheadInv /\ [Next]_vars => AheadInv'
    BY NextAhead
  <1> QED
    BY <1>1, <1>2, <1>3, InitAhead, PTL DEF Spec

-----------------------------------------------------------------------------
(* Only committed orders reach the disk: the values of the customer        *)
(* records, on disk or recovered from it, have commit lines; those a       *)
(* commit in progress has applied get theirs from LogCommit.               *)
CommittedValues(file) == {<<line.cust, line.num>> : line \in {l \in Lines(file) : l.op = 2}}

DiskCommitted(r) ==
    \A k \in Key : custFile[r][k] # Absent =>
        <<k, custFile[r][k]>> \in CommittedValues(logFile[r])
MemoryCommitted(r) ==
    \A k \in Key : customer_record[r][k] # Absent =>
        \/ <<k, customer_record[r][k]>> \in CommittedValues(logFile[r])
        \/ \E t \in Txn : /\ conn[t][r] \in {"apply", "log"}
                          /\ \E rec \in Records(found[t][r]) :
                                 rec.cust = k /\ rec.num = customer_record[r][k]

DiskInv == \A r \in RM : DiskCommitted(r) /\ MemoryCommitted(r)

(* Commit lines stay, and LogCommit writes one for every record found. *)
LEMMA CommittedGrows ==
    ASSUME NEW file \in LogFile, NEW id \in TxnId, NEW recs \in Seq(TxnLogRequest)
    PROVE  CommittedValues(file) \subseteq CommittedValues(AppendLines(file, id, recs))
  BY AppendedLines DEF CommittedValues

LEMMA CommitRecordsValues ==
    ASSUME NEW file \in LogFile, NEW id \in TxnId, NEW recs \in Seq(TxnLogRequest),
           NEW rec \in Records(recs)
    PROVE  <<rec.cust, rec.num>> \in CommittedValues(AppendLines(file, id, CommitRecords(recs)))
  <1> DEFINE line == [rec EXCEPT !.op = 2]
  <1>1. rec \in TxnLogRequest /\ CommitRecords(recs) \in Seq(TxnLogRequest)
    BY RecordsType, CommitRecordsType
  <1>2. line \in Lines(AppendLines(file, id, CommitRecords(recs)))
    BY <1>1, AppendedLines, CommitRecordsHold
  <1>3. line.op = 2 /\ line.cust = rec.cust /\ line.num = rec.num
    BY <1>1, CommittedOp
  <1> QED
    BY <1>2, <1>3 DEF CommittedValues

LEMMA InitDisk == Init => DiskInv
  <1> SUFFICES ASSUME Init, NEW r \in RM, NEW k \in Key, SeedCustomers[k] # Absent
               PROVE  <<k, SeedCustomers[k]>> \in CommittedValues(SeedFile)
    BY DEF Init, DiskInv, DiskCommitted, MemoryCommitted
  <1> DEFINE orders == [i \in 1 .. Seeded |-> [cust |-> i - 1, num |-> 1]]
             rec    == SeedRecords[k + 1]
             line   == [rec EXCEPT !.op = 2]
  <1>1. k \in 0 .. Seeded - 1 /\ SeedCustomers[k] = 1 /\ Seeded \in Nat
    BY ConfigAssumption DEF SeedCustomers
  <1>2. Len(orders) = Seeded /\ k + 1 \in 1 .. Seeded
    BY <1>1
  <1>3. DOMAIN SeedRecords = 1 .. Seeded /\ rec.cust = k /\ rec.num = 1
    BY <1>1, <1>2 DEF SeedRecords, PrepareRecords
  <1>4. SeedRecords \in Seq(TxnLogRequest) /\ CommitRecords(SeedRecords) \in Seq(TxnLogRequest)
    BY SeedTypes, CommitRecordsType
  <1>5. rec \in Records(SeedRecords) /\ rec \in TxnLogRequest
    BY <1>2, <1>3, <1>4, RecordsType DEF Records
  <1>6. line \in Records(CommitRecords(SeedRecords))
    BY <1>4, <1>5, CommitRecordsHold
  <1>7. line \in Lines(SeedFile)
    <2>1. 0 \in TxnId
      BY DataAssumption DEF TxnId
    <2>2. line \in Records(SeedFile[0])
      BY <1>4, <1>6, <2>1, RecordsOfConcat DEF SeedFile
    <2> QED
      BY <2>1, <2>2 DEF Lines
  <1>8. line.op = 2 /\ line.cust = k /\ line.num = SeedCustomers[k]
    BY <1>1, <1>3, <1>5, CommittedOp
  <1> HIDE DEF line
  <1> QED
    BY <1>7, <1>8 DEF CommittedValues

(* A step that leaves the records alone and takes no handler out of the    *)
(* part of TMCommit where it applies.                                      *)
LEMMA SameDisk ==
    ASSUME DiskInv, NEW q \in RM,
           customer_record'[q] = customer_record[q], custFile'[q] = custFile[q],
           CommittedValues(logFile[q]) \subseteq CommittedValues(logFile'[q]),
           \A t \in Txn : conn[t][q] \in {"apply", "log"} =>
               conn'[t][q] \in {"apply", "log"} /\ found'[t][q] = found[t][q]
    PROVE  DiskCommitted(q)' /\ MemoryCommitted(q)'
  <1>1. DiskCommitted(q) /\ MemoryCommitted(q)
    BY DEF DiskInv
  <1>2. DiskCommitted(q)'
    BY <1>1 DEF DiskCommitted
  <1>3. MemoryCommitted(q)'
    BY <1>1 DEF MemoryCommitted
  <1> QED
    BY <1>2, <1>3

LEMMA RMDisk ==
    ASSUME TypeInv, OneHandler, DiskInv, NEW t \in Txn, NEW r \in RM, RMStep(t, r)
    PROVE  DiskInv'
  <1>1. /\ customer_record \in [RM -> CustomerMap] /\ custFile \in [RM -> CustomerMap]
        /\ logFile \in [RM -> LogFile] /\ txnId[t] \in TxnId
        /\ conn \in [Txn -> [RM -> ConnState]]
        /\ found \in [Txn -> [RM -> Seq(TxnLogRequest)]]
    BY DEF TypeInv, TypeOK
  <1>2. \A q \in RM : q # r => DiskCommitted(q)' /\ MemoryCommitted(q)'
    BY OtherRMs, SameDisk
  <1>3. SUFFICES DiskCommitted(r)' /\ MemoryCommitted(r)'
    BY <1>2 DEF DiskInv
  <1>4. DiskCommitted(r) /\ MemoryCommitted(r)
    BY DEF DiskInv
  (* Steps after which a handler that was applying still is. *)
  <1>5. ASSUME customer_record'[r] = customer_record[r], custFile'[r] = custFile[r],
               \/ logFile' = logFile
               \/ \E recs \in Seq(TxnLogRequest) :
                      logFile' = [logFile EXCEPT ![r] = AppendLines(@, txnId[t], recs)],
               conn[t][r] \notin {"apply", "log"}
        PROVE  DiskCommitted(r)' /\ MemoryCommitted(r)'
    <2>1. CommittedValues(logFile[r]) \subseteq CommittedValues(logFile'[r])
      BY <1>1, <1>5, CommittedGrows
    <2>2. \A u \in Txn : conn[u][r] \in {"apply", "log"} =>
              conn'[u][r] \in {"apply", "log"} /\ found'[u][r] = found[u][r]
      BY <1>5, OtherSessions
    <2> QED
      BY <1>5, <2>1, <2>2, SameDisk
  <1>6. CASE TMPrepare(t, r)
    BY <1>5, <1>6 DEF TMPrepare, AtHandler, files
  <1>14. CASE LogPrepare(t, r)
    <2>1. PrepareRecords(t, writes[t]) \in Seq(TxnLogRequest)
      BY PrepareRecordsType DEF TypeInv, TypeOK, Writer
    <2> QED
      BY <1>5, <1>14, <2>1 DEF LogPrepare, AtHandler, memory
  <1>7. CASE TMCommit(t, r)
    BY <1>5, <1>7 DEF TMCommit, AtHandler, rmVars, memory, files
  <1>8. CASE CreateRegularLaptop(t, r)
    <2> DEFINE i == applied[t][r] + 1
               rec == found[t][r][i]
    <2>1. /\ conn[t][r] = "apply" /\ conn'[t][r] \in {"apply", "log"}
          /\ found' = found /\ custFile' = custFile /\ logFile' = logFile
          /\ customer_record' = [customer_record EXCEPT ![r][rec.cust] = rec.num]
      BY <1>1, <1>8 DEF CreateRegularLaptop, AtHandler, AdminThread, files
    <2>2. rec \in Records(found[t][r]) /\ rec \in TxnLogRequest
      <3>1. i \in DOMAIN found[t][r]
        BY <2>1 DEF TypeInv, TypeOK, Bookkeeping, RecordsLeft
      <3> QED
        BY <1>1, <3>1, RecordsType DEF Records
    <2>3. \A k \in Key : customer_record'[r][k] =
              IF k = rec.cust THEN rec.num ELSE customer_record[r][k]
      BY <1>1, <2>1 DEF CustomerMap
    <2>4. \A u \in Txn : conn[u][r] \in {"apply", "log"} => conn'[u][r] \in {"apply", "log"}
      BY <2>1, OtherSessions
    <2>5. MemoryCommitted(r)'
      <3> SUFFICES ASSUME NEW k \in Key, customer_record'[r][k] # Absent
                   PROVE  \/ <<k, customer_record'[r][k]>> \in CommittedValues(logFile[r])
                          \/ \E u \in Txn : /\ conn'[u][r] \in {"apply", "log"}
                                            /\ \E l \in Records(found[u][r]) :
                                                   l.cust = k /\ l.num = customer_record'[r][k]
        BY <2>1 DEF MemoryCommitted
      <3>1. CASE k = rec.cust
        BY <2>1, <2>2, <2>3, <3>1
      <3>2. CASE k # rec.cust
        BY <1>4, <2>3, <2>4, <3>2 DEF MemoryCommitted
      <3> QED
        BY <3>1, <3>2
    <2> QED
      BY <1>4, <2>1, <2>5 DEF DiskCommitted
  <1>9. CASE LogCommit(t, r)
    <2> DEFINE recs == found[t][r]
    <2>1. /\ customer_record' = customer_record /\ custFile' = custFile /\ found' = found
          /\ logFile'[r] = AppendLines(logFile[r], txnId[t], CommitRecords(recs))
      BY <1>1, <1>9 DEF LogCommit
    <2>2. recs \in Seq(TxnLogRequest) /\ CommitRecords(recs) \in Seq(TxnLogRequest)
          /\ logFile[r] \in LogFile
      BY <1>1, CommitRecordsType
    <2>3. /\ CommittedValues(logFile[r]) \subseteq CommittedValues(logFile'[r])
          /\ \A rec \in Records(recs) :
                 <<rec.cust, rec.num>> \in CommittedValues(logFile'[r])
      BY <1>1, <2>1, <2>2, CommittedGrows, CommitRecordsValues
    <2>4. DiskCommitted(r)'
      BY <1>4, <2>1, <2>3 DEF DiskCommitted
    <2>5. MemoryCommitted(r)'
      <3> SUFFICES ASSUME NEW k \in Key, customer_record[r][k] # Absent
                   PROVE  \/ <<k, customer_record[r][k]>> \in CommittedValues(logFile'[r])
                          \/ \E u \in Txn : /\ conn'[u][r] \in {"apply", "log"}
                                            /\ \E l \in Records(found[u][r]) :
                                                   l.cust = k /\ l.num = customer_record[r][k]
        BY <2>1 DEF MemoryCommitted
      <3>1. CASE \E rec \in Records(recs) : rec.cust = k /\ rec.num = customer_record[r][k]
        BY <2>3, <3>1
      <3>2. CASE ~\E rec \in Records(recs) : rec.cust = k /\ rec.num = customer_record[r][k]
        BY <1>4, <2>3, <3>2, OtherSessions DEF MemoryCommitted
      <3> QED
        BY <3>1, <3>2
    <2> QED
      BY <2>4, <2>5
  <1>10. CASE TruncateCust(t, r)
    <2>1. /\ customer_record' = customer_record /\ logFile' = logFile /\ found' = found
          /\ custFile'[r] = EmptyRecords /\ conn[t][r] = "trunc"
      BY <1>1, <1>10 DEF TruncateCust, AtHandler, memory, locals
    <2>2. DiskCommitted(r)'
      BY <2>1 DEF DiskCommitted, EmptyRecords
    <2>3. MemoryCommitted(r)'
      BY <1>4, <2>1, OtherSessions DEF MemoryCommitted
    <2> QED
      BY <2>2, <2>3
  <1>11. CASE StoreCust(t, r)
    <2>1. /\ customer_record' = customer_record /\ logFile' = logFile /\ found' = found
          /\ custFile'[r] = customer_record[r] /\ conn[t][r] = "store"
      BY <1>1, <1>11 DEF StoreCust, AtHandler, memory, locals
    <2>2. \A u \in Txn : conn[u][r] \notin {"apply", "log"}
      <3>1. ASSUME NEW u \in Txn, conn[u][r] \in {"apply", "log"}
            PROVE  u = t
        BY <2>1, <3>1 DEF OneHandler, Handling, InCommit
      <3> QED
        BY <2>1, <3>1
    <2>3. \A k \in Key : customer_record[r][k] # Absent =>
              <<k, customer_record[r][k]>> \in CommittedValues(logFile[r])
      BY <1>4, <2>2 DEF MemoryCommitted
    <2> QED
      BY <2>1, <2>3 DEF DiskCommitted, MemoryCommitted
  <1>12. CASE TMAbort(t, r)
    <2>1. <<AbortRecord(t)>> \in Seq(TxnLogRequest)
      BY AbortRecordType
    <2> QED
      BY <1>5, <1>12, <2>1 DEF TMAbort, AtHandler
  <1>13. CASE TornRequest(t, r)
    BY <1>5, <1>13 DEF TornRequest, AtHandler, files
  <1> QED
    BY <1>6, <1>7, <1>8, <1>9, <1>10, <1>11, <1>12, <1>13, <1>14 DEF RMStep

LEMMA FaultDisk ==
    ASSUME TypeInv, HandlerInv, DiskInv, Fault
    PROVE  DiskInv'
  <1>0. /\ customer_record \in [RM -> CustomerMap] /\ custFile \in [RM -> CustomerMap]
        /\ conn \in [Txn -> [RM -> ConnState]]
        /\ found \in [Txn -> [RM -> Seq(TxnLogRequest)]]
    BY DEF TypeInv, TypeOK
  <1>1. CASE TMCrash \/ TMSigPipe \/ TMRestart
    <2>1. UNCHANGED <<customer_record, custFile, logFile, found>>
      BY <1>1 DEF TMCrash, TMSigPipe, TMRestart, TMDies, rmVars, memory, files, locals
    <2>2. \A t \in Txn, q \in RM : conn[t][q] \in {"apply", "log"} => conn'[t][q] = conn[t][q]
      BY <1>1 DEF TMCrash, TMSigPipe, TMRestart, TMDies, Handling, InCommit
    <2> QED
      BY <2>1, <2>2, SameDisk DEF DiskInv
  <1>2. ASSUME NEW r \in RM, RMCrash(r)
        PROVE  DiskInv'
    <2>1. /\ UNCHANGED <<custFile, logFile>>
          /\ customer_record' = [customer_record EXCEPT ![r] = EmptyRecords]
      BY <1>2 DEF RMCrash, RMDies, files
    <2>2. \A q \in RM \ {r}, t \in Txn : conn'[t][q] = conn[t][q] /\ found'[t][q] = found[t][q]
      BY <1>0, <1>2 DEF RMCrash, RMDies
    <2>3. \A q \in RM \ {r} : DiskCommitted(q)' /\ MemoryCommitted(q)'
      BY <1>0, <2>1, <2>2, SameDisk
    <2>4. DiskCommitted(r)' /\ MemoryCommitted(r)'
      BY <1>0, <2>1 DEF DiskInv, DiskCommitted, MemoryCommitted, EmptyRecords
    <2> QED
      BY <2>3, <2>4 DEF DiskInv
  <1>3. ASSUME NEW r \in RM, RMRestart(r)
        PROVE  DiskInv'
    <2>1. /\ UNCHANGED <<custFile, logFile, conn, found>>
          /\ customer_record' = [customer_record EXCEPT ![r] = custFile[r]]
      BY <1>3 DEF RMRestart, files, locals
    <2>2. \A q \in RM \ {r} : DiskCommitted(q)' /\ MemoryCommitted(q)'
      BY <1>0, <2>1, SameDisk
    <2>3. DiskCommitted(r)' /\ MemoryCommitted(r)'
      BY <1>0, <2>1 DEF DiskInv, DiskCommitted, MemoryCommitted
    <2> QED
      BY <2>2, <2>3 DEF DiskInv
  <1> QED
    BY <1>1, <1>2, <1>3, NothingFreed DEF Fault

LEMMA NextDisk == TypeInv /\ HandlerInv /\ DiskInv /\ [Next]_vars => DiskInv'
  <1> SUFFICES ASSUME TypeInv, HandlerInv, DiskInv, [Next]_vars
               PROVE  DiskInv'
    OBVIOUS
  <1>0. OneHandler
    BY DEF HandlerInv, Exclusion
  <1>1. ASSUME UNCHANGED <<customer_record, custFile, logFile, found>>,
               \A t \in Txn, q \in RM : conn[t][q] \in {"apply", "log"} => conn'[t][q] = conn[t][q]
        PROVE  DiskInv'
    BY <1>1, SameDisk DEF DiskInv
  <1>2. CASE UNCHANGED vars
    BY <1>1, <1>2 DEF vars, rmVars, memory, files, locals
  <1>3. ASSUME NEW t \in Txn, ClientStep(t)
        PROVE  DiskInv'
    BY <1>1, <1>3 DEF ClientStep, ReadRecord, ReadRefused, ReadLost, Submit,
                      rmVars, memory, files, locals
  <1>4. CASE TMStep
    BY <1>1, <1>4, TMLeavesHandlers DEF Handling, InCommit, TMStep, Accept, Connect, ConnectFailed, SendPrepare,
                RecvVote, SendDecision, RecvDone, Reply, rmVars, memory, files, locals
  <1> QED
    BY <1>0, <1>2, <1>3, <1>4, RMDisk, FaultDisk DEF Next, Terminating

(* Only committed orders reach the file of customer records, as long as    *)
(* the TM is not restarted: StoreCust writes the customers of a moment at  *)
(* which no other handler has applied orders it has not logged.            *)
THEOREM DiskHoldsCommitted ==
    ASSUME MaxTMRestarts = 0
    PROVE  Spec => []OnlyCommittedOnDisk
  <1>1. DiskInv => OnlyCommittedOnDisk
    <2> SUFFICES ASSUME DiskInv, NEW r \in RM, NEW k \in Key, custFile[r][k] # Absent
                 PROVE  \E line \in Lines(logFile[r]) :
                            line.op = 2 /\ line.cust = k /\ line.num = custFile[r][k]
      BY DEF OnlyCommittedOnDisk, Lines, Records
    <2>1. <<k, custFile[r][k]>> \in CommittedValues(logFile[r])
      BY DEF DiskInv, DiskCommitted
    <2> QED
      BY <2>1 DEF CommittedValues
  <1>2. Spec => []HandlerInv
    BY HandlerInvariant
  <1> QED
    BY <1>1, <1>2, InitDisk, NextDisk, TypeInvariant, PTL DEF Spec
=============================================================================
