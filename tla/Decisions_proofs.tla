--------------------------- MODULE Decisions_proofs ---------------------------
(***************************************************************************)
(* Proofs about the decisions of TwoPhaseCommit while the TM is not        *)
(* restarted: no transaction is committed at one RM and aborted at         *)
(* another, and one whose client was told "Failed" is committed nowhere.   *)
(* RMs may crash and recover at any time, and so may the TM end.           *)
(***************************************************************************)
EXTENDS TwoPhaseCommit_proofs

(* A transaction the TM has not accepted. *)
Queued(t) == \E i \in DOMAIN backlog : backlog[i] = t
Fresh(t)  == cpc[t] \in {"read", "lost", "write"} \/ Queued(t)

(* The one transaction that can still get log records: the TM serves it,   *)
(* or a handler that has survived the TM does.                             *)
Live(t) == t = tmTxn \/ \E r \in RM : conn[t][r] \in Handling

(* Clients wait in line once each, are told nothing before the end, and    *)
(* wait for it while the TM serves them.                                   *)
LineWaits   == \A i \in DOMAIN backlog : cpc[backlog[i]] = "wait"
LineOnce    == \A i, j \in DOMAIN backlog : backlog[i] = backlog[j] => i = j
LiveLeft    == \A t \in Txn : Live(t) => ~Fresh(t)
ServedWaits == tmTxn \in Txn => cpc[tmTxn] = "wait"
NotTold     == \A t \in Txn : cpc[t] # "done" => outcome[t] = "none"

InLine == LineWaits /\ LineOnce /\ LiveLeft /\ ServedWaits /\ NotTold

(* Only the TM has sessions, and only handlers survive it. *)
SessionsLive == \A t \in Txn, r \in RM :
                    conn[t][r] # "none" => t = tmTxn \/ conn[t][r] \in Handling

(* What an RM holds under an id, in memory and on disk. *)
Held(r, id) == Records(Entry(txn_log[r], id)) \cup Records(logFile[r][id])

(* An id has been given out before anything is stored under it, and what   *)
(* is stored under the id of the live transaction is its own.  Without     *)
(* this a commit could write the commit lines of another transaction.      *)
IdsGiven == /\ \A r \in RM, id \in TxnId : Held(r, id) # {} => id < transaction_id
            /\ \A t \in Txn : Live(t) => txnId[t] < transaction_id
            /\ \A r \in RM, id \in TxnId : \A rec \in Held(r, id) :
                   rec.by \in Txn => ~Fresh(rec.by)
OwnRecords == \A t \in Txn : Live(t) =>
                  \A r \in RM : \A rec \in Held(r, txnId[t]) : rec.by = t
OwnFound   == \A t \in Txn, r \in RM : conn[t][r] \in {"apply", "log"} =>
                  \A rec \in Records(found[t][r]) : rec.by = t

IdInv == InLine /\ SessionsLive /\ IdsGiven /\ OwnRecords /\ OwnFound

(* A commit, or an abort, of t is in some log file or on its way there. *)
LineOf(t, r, op) == \E line \in Lines(logFile[r]) : line.by = t /\ line.op = op
Commits(t) == \E r \in RM : conn[t][r] \in {"commit"} \cup InCommit \/ LineOf(t, r, 2)
Aborts(t)  == \E r \in RM : conn[t][r] = "abort" \/ LineOf(t, r, 3)

(* Agreement is not inductive: the decision is made by the TM, in allOk,   *)
(* sent to one RM after the other, and outlives the TM in their handlers.  *)
OneDecision == \A t \in Txn : ~(Commits(t) /\ Aborts(t))
TMDecides   == \A t \in Txn : t = tmTxn =>
                   /\ Commits(t) => tmPc \in {"decide", "ack", "reply"} /\ allOk
                   /\ Aborts(t) => tmPc \in {"decide", "ack", "reply"} /\ ~allOk
ToldTruly   == \A t \in Txn : /\ outcome[t] = "Failed" => ~Commits(t)
                              /\ outcome[t] = "Success" => ~Aborts(t)

DecisionInv == OneDecision /\ TMDecides /\ ToldTruly

-----------------------------------------------------------------------------
(* At most one transaction is live. *)
LEMMA OneLive ==
    ASSUME TypeInv, HandlerInv, NEW t \in Txn, NEW u \in Txn, Live(t), Live(u)
    PROVE  t = u
  <1>1. CASE tmUp
    BY <1>1 DEF Live, HandlerInv, Exclusion, Waiting
  <1>2. CASE ~tmUp
    <2>1. tmTxn = NoTxn
      BY <1>2 DEF TypeInv, Bookkeeping, TMBusy
    <2>2. tmTxn \notin Txn
      BY <2>1, ConfigAssumption
    <2> QED
      BY <2>2 DEF Live, HandlerInv, Exclusion, OneHandler
  <1> QED
    BY <1>1, <1>2

(* None is while the TM waits for the next client. *)
LEMMA NoneLive ==
    ASSUME TypeInv, HandlerInv, tmUp, tmPc = "accept", NEW t \in Txn
    PROVE  ~Live(t)
  <1>1. tmTxn = NoTxn
    BY DEF TypeInv, Bookkeeping, TMBusy
  <1>2. tmTxn \notin Txn
    BY <1>1, ConfigAssumption
  <1> QED
    BY <1>2 DEF Live, HandlerInv, Exclusion, Waiting

LEMMA HeldType ==
    ASSUME TypeInv, NEW r \in RM, NEW id \in TxnId
    PROVE  Held(r, id) \subseteq TxnLogRequest
  <1>1. Entry(txn_log[r], id) \in Seq(TxnLogRequest) /\ logFile[r][id] \in Seq(TxnLogRequest)
    BY EntryType DEF TypeInv, TypeOK, LogFile
  <1> QED
    BY <1>1, RecordsType DEF Held

-----------------------------------------------------------------------------
(* What a step of an RM adds to its logs: records of the handler's own     *)
(* transaction, under its id, with the mark of what the handler does.      *)
LEMMA RMWritesOwn ==
    ASSUME TypeInv, IdInv, NEW t \in Txn, NEW r \in RM, RMStep(t, r)
    PROVE  /\ \A id \in TxnId : \A rec \in Held(r, id)' :
                  rec \in Held(r, id) \/ (id = txnId[t] /\ rec.by = t)
           /\ \A line \in Lines(logFile[r])' :
                  \/ line \in Lines(logFile[r])
                  \/ line.by = t /\ (line.op = 2 => conn[t][r] = "log")
                                 /\ (line.op = 3 => conn[t][r] = "abort")
           /\ conn'[t][r] \in {"apply", "log"} =>
                  \A rec \in Records(found'[t][r]) : rec.by = t
           /\ conn'[t][r] \in {"commit"} \cup InCommit => conn[t][r] \in {"commit"} \cup InCommit
           /\ conn'[t][r] # "abort"
           /\ conn[t][r] \in Handling
           /\ conn'[t][r] # "none" => t = tmTxn \/ conn'[t][r] \in Handling
  <1> DEFINE Logs == \A id \in TxnId : \A rec \in Held(r, id)' :
                         rec \in Held(r, id) \/ (id = txnId[t] /\ rec.by = t)
             File == \A line \in Lines(logFile[r])' :
                         \/ line \in Lines(logFile[r])
                         \/ line.by = t /\ (line.op = 2 => conn[t][r] = "log")
                                        /\ (line.op = 3 => conn[t][r] = "abort")
  <1>0. /\ txn_log \in [RM -> TxnLogMap] /\ logFile \in [RM -> LogFile]
        /\ txn_log[r] \in TxnLogMap /\ logFile[r] \in LogFile /\ txnId[t] \in TxnId
        /\ conn \in [Txn -> [RM -> ConnState]]
        /\ found \in [Txn -> [RM -> Seq(TxnLogRequest)]]
        /\ found[t][r] \in Seq(TxnLogRequest)
    BY DEF TypeInv, TypeOK
  <1>1. ASSUME UNCHANGED <<txn_log, logFile>>
        PROVE  Logs /\ File
    BY <1>1 DEF Held
  <1>2. ASSUME NEW recs \in Seq(TxnLogRequest), \A rec \in Records(recs) : rec.by = t,
               \A rec \in Records(recs) : rec.op = 2 => conn[t][r] = "log",
               \A rec \in Records(recs) : rec.op = 3 => conn[t][r] = "abort",
               logFile'[r] = AppendLines(logFile[r], txnId[t], recs)
        PROVE  /\ File
               /\ \A id \in TxnId : \A rec \in Records(logFile'[r][id]) :
                      rec \in Records(logFile[r][id]) \/ (id = txnId[t] /\ rec.by = t)
    <2>1. /\ Lines(logFile'[r]) = Lines(logFile[r]) \cup Records(recs)
          /\ \A j \in TxnId : Records(logFile'[r][j]) =
                 IF j = txnId[t] THEN Records(logFile[r][j]) \cup Records(recs)
                                 ELSE Records(logFile[r][j])
      <3> DEFINE new == AppendLines(logFile[r], txnId[t], recs)
      <3>1. /\ Lines(new) = Lines(logFile[r]) \cup Records(recs)
            /\ \A j \in TxnId : Records(new[j]) =
                   IF j = txnId[t] THEN Records(logFile[r][j]) \cup Records(recs)
                                   ELSE Records(logFile[r][j])
        BY <1>0, AppendedLines
      <3> HIDE DEF new
      <3>2. logFile'[r] = new
        BY <1>2 DEF new
      <3> QED
        BY <3>1, <3>2
    <2>2. File
      BY <1>2, <2>1
    <2>3. \A id \in TxnId : \A rec \in Records(logFile'[r][id]) :
              rec \in Records(logFile[r][id]) \/ (id = txnId[t] /\ rec.by = t)
      BY <1>2, <2>1
    <2> QED
      BY <2>2, <2>3
  <1>a. ASSUME NEW recs, recs = PrepareRecords(t, writes[t])
        PROVE  recs \in Seq(TxnLogRequest) /\ \A rec \in Records(recs) : rec.op = 1 /\ rec.by = t
    <2>1. writes[t] \in Seq(CustomerOrder) /\ t \in Writer
      BY DEF TypeInv, TypeOK, Writer
    <2> QED
      BY <1>a, <2>1, PrepareRecordsType, PrepareRecordsHold
  <1>3. CASE TMPrepare(t, r)
    <2> DEFINE recs == PrepareRecords(t, writes[t])
    <2>1. logFile' = logFile
      BY <1>3 DEF TMPrepare, files
    <2>2. Logs
      <3>1. CASE txn_log' = txn_log
        BY <1>1, <2>1, <3>1
      <3>2. CASE txn_log' = [txn_log EXCEPT ![r] = Insert(@, txnId[t], recs)]
        <4>1. txn_log'[r] = Insert(txn_log[r], txnId[t], recs)
          BY <1>0, <3>2
        <4>2. recs \in Seq(TxnLogRequest) /\ \A rec \in Records(recs) : rec.by = t
          BY <1>a
        <4>3. ASSUME NEW id \in TxnId, NEW rec \in Records(Entry(txn_log'[r], id))
              PROVE  rec \in Records(Entry(txn_log[r], id)) \/ (id = txnId[t] /\ rec.by = t)
          BY <1>0, <4>1, <4>2, <4>3, InsertHolds
        <4> QED
          BY <2>1, <4>3 DEF Held
      <3> QED
        BY <1>3, <3>1, <3>2 DEF TMPrepare
    <2>3. File
      BY <2>1
    <2> QED
      BY <1>0, <1>3, <2>2, <2>3 DEF TMPrepare, AtHandler, AnswerIs, Handling, InCommit
  <1>11. CASE LogPrepare(t, r)
    <2> DEFINE recs == PrepareRecords(t, writes[t])
    <2>1. /\ txn_log' = txn_log
          /\ logFile'[r] = AppendLines(logFile[r], txnId[t], recs)
      BY <1>0, <1>11 DEF LogPrepare, memory
    <2>2. recs \in Seq(TxnLogRequest) /\ \A rec \in Records(recs) : rec.op = 1 /\ rec.by = t
      BY <1>a
    <2>3. /\ File
          /\ \A id \in TxnId : \A rec \in Records(logFile'[r][id]) :
                 rec \in Records(logFile[r][id]) \/ (id = txnId[t] /\ rec.by = t)
      <3> HIDE DEF recs, File
      <3>1. /\ \A rec \in Records(recs) : rec.by = t
            /\ \A rec \in Records(recs) : rec.op = 2 => conn[t][r] = "log"
            /\ \A rec \in Records(recs) : rec.op = 3 => conn[t][r] = "abort"
        BY <2>2
      <3> QED
        BY <1>2, <2>1, <2>2, <3>1
    <2>4. Logs
      BY <2>1, <2>3 DEF Held
    <2> QED
      BY <1>0, <1>11, <2>3, <2>4 DEF LogPrepare, AtHandler, AnswerIs, Handling, InCommit
  <1>4. CASE TMCommit(t, r)
    <2>1. Logs /\ File
      BY <1>1, <1>4 DEF TMCommit, rmVars, memory, files
    <2>2. conn[t][r] = "commit" /\ found'[t][r] = Entry(txn_log[r], txnId[t])
          /\ conn'[t][r] \in {"apply", "log"}
      BY <1>0, <1>4 DEF TMCommit, AtHandler
    <2>3. Live(t)
      BY <2>2 DEF Live, Handling
    <2>4. \A rec \in Records(found'[t][r]) : rec.by = t
      BY <2>2, <2>3 DEF IdInv, OwnRecords, Held
    <2> QED
      BY <2>1, <2>2, <2>4 DEF Handling, InCommit
  <1>5. CASE CreateRegularLaptop(t, r)
    <2>1. Logs /\ File
      BY <1>1, <1>5 DEF CreateRegularLaptop, files
    <2>2. conn[t][r] = "apply" /\ found' = found /\ conn'[t][r] \in {"apply", "log"}
      BY <1>0, <1>5 DEF CreateRegularLaptop, AtHandler
    <2> QED
      BY <2>1, <2>2 DEF IdInv, OwnFound, Handling, InCommit
  <1>6. CASE LogCommit(t, r)
    <2> DEFINE recs == found[t][r]
    <2>1. conn[t][r] = "log" /\ conn'[t][r] = "trunc"
      BY <1>0, <1>6 DEF LogCommit, AtHandler
    <2>2. /\ logFile'[r] = AppendLines(logFile[r], txnId[t], CommitRecords(recs))
          /\ txn_log'[r] = CommitLog(txnId[t], recs)
      BY <1>0, <1>6 DEF LogCommit
    <2>3. \A rec \in Records(recs) : rec.by = t
      BY <2>1 DEF IdInv, OwnFound
    <2>4. CommitRecords(recs) \in Seq(TxnLogRequest)
      BY <1>0, CommitRecordsType
    <2>5. \A rec \in Records(CommitRecords(recs)) : rec.by = t /\ rec.op = 2
      <3>1. Records(CommitRecords(recs)) = {[rec EXCEPT !.op = 2] : rec \in Records(recs)}
        BY <1>0, CommitRecordsHold
      <3>2. ASSUME NEW rec \in Records(recs)
            PROVE  [rec EXCEPT !.op = 2].by = t /\ [rec EXCEPT !.op = 2].op = 2
        <4>1. rec \in TxnLogRequest
          BY <1>0, RecordsType
        <4> QED
          BY <2>3, <4>1, CommittedOp
      <3> QED
        BY <3>1, <3>2
    <2>6. /\ File
          /\ \A id \in TxnId : \A rec \in Records(logFile'[r][id]) :
                 rec \in Records(logFile[r][id]) \/ (id = txnId[t] /\ rec.by = t)
      BY <1>2, <2>1, <2>2, <2>4, <2>5
    <2>7. ASSUME NEW id \in TxnId, NEW rec \in Records(Entry(txn_log'[r], id))
          PROVE  id = txnId[t] /\ rec.by = t
      BY <1>0, <2>2, <2>3, <2>5, <2>7, CommitLogHolds
    <2>8. Logs
      BY <2>6, <2>7 DEF Held
    <2> QED
      BY <2>1, <2>6, <2>8 DEF Handling, InCommit
  <1>7. CASE TruncateCust(t, r)
    <2>1. Logs /\ File
      BY <1>1, <1>7 DEF TruncateCust, memory
    <2> QED
      BY <1>0, <1>7, <2>1 DEF TruncateCust, AtHandler, Handling, InCommit
  <1>8. CASE StoreCust(t, r)
    <2>1. Logs /\ File
      BY <1>1, <1>8 DEF StoreCust, memory
    <2> QED
      BY <1>0, <1>8, <2>1 DEF StoreCust, AtHandler, AnswerIs, Handling, InCommit
  <1>9. CASE TMAbort(t, r)
    <2> DEFINE rec == AbortRecord(t)
    <2>1. rec \in TxnLogRequest /\ <<rec>> \in Seq(TxnLogRequest) /\ rec.op = 3 /\ rec.by = t
      BY AbortRecordType DEF AbortRecord
    <2>2. Records(<<rec>>) = {rec}
      BY DEF Records
    <2>3. /\ logFile'[r] = AppendLines(logFile[r], txnId[t], <<rec>>)
          /\ txn_log'[r] = UpdateValue(txn_log[r], txnId[t], rec)
          /\ conn[t][r] = "abort" /\ conn'[t][r] = IF tmTxn = t THEN "Done" ELSE "none"
      BY <1>0, <1>9 DEF TMAbort, AtHandler, AnswerIs
    <2>4. /\ File
          /\ \A id \in TxnId : \A l \in Records(logFile'[r][id]) :
                 l \in Records(logFile[r][id]) \/ (id = txnId[t] /\ l.by = t)
      <3>1. /\ \A l \in Records(<<rec>>) : l.by = t
            /\ \A l \in Records(<<rec>>) : l.op = 2 => conn[t][r] = "log"
            /\ \A l \in Records(<<rec>>) : l.op = 3 => conn[t][r] = "abort"
        BY <2>1, <2>2, <2>3
      <3> HIDE DEF rec, File
      <3> QED
        BY <1>2, <2>1, <2>3, <3>1
    <2>5. ASSUME NEW id \in TxnId, NEW l \in Records(Entry(txn_log'[r], id))
          PROVE  l \in Records(Entry(txn_log[r], id)) \/ (id = txnId[t] /\ l.by = t)
      BY <1>0, <2>1, <2>3, <2>5, UpdateValueHolds
    <2>6. Logs
      BY <2>4, <2>5 DEF Held
    <2> QED
      BY <2>3, <2>4, <2>6 DEF Handling, InCommit
  <1>10. CASE TornRequest(t, r)
    <2>1. logFile' = logFile /\ (txn_log'[r] = EmptyLog \/ txn_log'[r] = txn_log[r])
      BY <1>0, <1>10 DEF TornRequest, files
    <2>2. Logs /\ File
      BY <2>1, EmptyLogHolds DEF Held
    <2> QED
      BY <1>0, <1>10, <2>2 DEF TornRequest, AtHandler, Handling, InCommit
  <1> QED
    BY <1>3, <1>4, <1>5, <1>6, <1>7, <1>8, <1>9, <1>10, <1>11 DEF RMStep

LEMMA RMFrame ==
    ASSUME NEW t \in Txn, NEW r \in RM, RMStep(t, r)
    PROVE  UNCHANGED <<tmVars, backlog, cliVars, failures>>
  BY DEF RMStep, TMPrepare, LogPrepare, TMCommit, CreateRegularLaptop, LogCommit, TruncateCust,
         StoreCust, TMAbort, TornRequest

-----------------------------------------------------------------------------
(* IdInv is an invariant. *)

(* All that an RM holds in the beginning is of the past. *)
LEMMA SeedHeld ==
    ASSUME Init, NEW r \in RM
    PROVE  /\ \A id \in TxnId : Held(r, id) # {} => id < transaction_id
           /\ \A id \in TxnId : \A rec \in Held(r, id) : rec.by = Seed
           /\ \A line \in Lines(logFile[r]) : line.by = Seed
  <1>1. txn_log[r] = CommitLog(0, SeedRecords) /\ logFile[r] = SeedFile
    BY DEF Init
  <1>2. SeedRecords \in Seq(TxnLogRequest) /\ CommitRecords(SeedRecords) \in Seq(TxnLogRequest)
        /\ 0 \in TxnId
    BY SeedTypes, CommitRecordsType, DataAssumption DEF TxnId
  <1>3. \A rec \in Records(SeedRecords) : rec.by = Seed /\ Seeded > 0
    <2> DEFINE orders == [i \in 1 .. Seeded |-> [cust |-> i - 1, num |-> 1]]
    <2>1. Seeded \in Nat /\ Len(orders) = Seeded
      BY ConfigAssumption
    <2>2. DOMAIN SeedRecords = 1 .. Seeded /\ \A i \in 1 .. Seeded : SeedRecords[i].by = Seed
      BY <2>1 DEF SeedRecords, PrepareRecords
    <2> QED
      BY <2>1, <2>2 DEF Records
  <1>4. \A rec \in Records(CommitRecords(SeedRecords)) : rec.by = Seed /\ Seeded > 0
    <2>1. Records(CommitRecords(SeedRecords)) = {[rec EXCEPT !.op = 2] : rec \in Records(SeedRecords)}
      BY <1>2, CommitRecordsHold
    <2>2. \A rec \in Records(SeedRecords) : [rec EXCEPT !.op = 2].by = Seed /\ Seeded > 0
      BY <1>2, <1>3, RecordsType, CommittedOp
    <2> QED
      BY <2>1, <2>2
  <1>5. ASSUME NEW id \in TxnId, NEW rec \in Held(r, id)
        PROVE  id = 0 /\ rec.by = Seed /\ Seeded > 0
    <2>1. CASE rec \in Records(Entry(txn_log[r], id))
      BY <1>1, <1>2, <1>3, <1>4, <2>1, CommitLogHolds
    <2>2. CASE rec \in Records(logFile[r][id])
      <3>1. id = 0
        BY <1>1, <2>2 DEF SeedFile, Records
      <3>2. rec \in Records(SeedRecords) \cup Records(CommitRecords(SeedRecords))
        BY <1>1, <1>2, <2>2, <3>1, RecordsOfConcat DEF SeedFile
      <3> QED
        BY <1>3, <1>4, <3>1, <3>2
    <2> QED
      BY <2>1, <2>2 DEF Held
  <1>6. \A line \in Lines(logFile[r]) : \E id \in TxnId : line \in Held(r, id)
    BY DEF Lines, Held
  <1>7. Seeded > 0 => transaction_id = 1
    BY DEF Init
  <1> QED
    BY <1>5, <1>6, <1>7

LEMMA InitIds == Init => IdInv /\ DecisionInv
  <1> SUFFICES ASSUME Init PROVE IdInv /\ DecisionInv
    OBVIOUS
  <1>1. \A t \in Txn : ~Live(t)
    BY ConfigAssumption DEF Init, Live, Handling, InCommit
  <1>2. InLine /\ SessionsLive /\ OwnRecords /\ OwnFound
    BY <1>1, ConfigAssumption DEF Init, InLine, LineWaits, LineOnce, LiveLeft, ServedWaits, NotTold, SessionsLive, OwnRecords, OwnFound
  <1>3. IdsGiven
    BY <1>1, SeedHeld, DataAssumption DEF IdsGiven
  <1>4. ASSUME NEW t \in Txn PROVE ~Commits(t) /\ ~Aborts(t)
    <2>1. \A r \in RM, op \in 1 .. 3 : ~LineOf(t, r, op)
      BY SeedHeld, DataAssumption DEF LineOf
    <2>2. \A r \in RM : conn[t][r] = "none"
      BY DEF Init
    <2> QED
      BY <2>1, <2>2 DEF Commits, Aborts, InCommit
  <1>5. DecisionInv
    BY <1>4 DEF DecisionInv, OneDecision, TMDecides, ToldTruly
  <1> QED
    BY <1>2, <1>3, <1>5 DEF IdInv

(* Steps that touch no log and give out no id. *)
LEMMA SameIds ==
    ASSUME IdInv, UNCHANGED <<txn_log, logFile, found, txnId, transaction_id>>,
           \A t \in Txn : (Live(t)' => Live(t)) /\ (Fresh(t)' => Fresh(t)),
           \A t \in Txn, r \in RM : conn'[t][r] \in {"apply", "log"} => conn[t][r] \in {"apply", "log"},
           InLine', SessionsLive'
    PROVE  IdInv'
  <1>1. IdsGiven'
    BY DEF IdInv, IdsGiven, Held
  <1>2. OwnRecords' /\ OwnFound'
    BY DEF IdInv, OwnRecords, OwnFound, Held
  <1> QED
    BY <1>1, <1>2 DEF IdInv

LEMMA RMIds ==
    ASSUME TypeInv, HandlerInv, IdInv, NEW t \in Txn, NEW r \in RM, RMStep(t, r)
    PROVE  IdInv'
  <1>1. UNCHANGED <<tmTxn, transaction_id, backlog, cpc, outcome, txnId>>
    BY RMFrame DEF tmVars, cliVars
  <1>2. /\ \A id \in TxnId : \A rec \in Held(r, id)' :
              rec \in Held(r, id) \/ (id = txnId[t] /\ rec.by = t)
        /\ conn'[t][r] \in {"apply", "log"} => \A rec \in Records(found'[t][r]) : rec.by = t
        /\ conn[t][r] \in Handling
        /\ conn'[t][r] # "none" => t = tmTxn \/ conn'[t][r] \in Handling
    BY RMWritesOwn
  <1>3. \A q \in RM : q # r =>
            /\ \A id \in TxnId : Held(q, id)' = Held(q, id)
            /\ \A u \in Txn : found'[u][q] = found[u][q] /\ conn'[u][q] = conn[u][q]
    BY OtherRMs DEF Held
  <1>4. \A u \in Txn : u # t =>
            \A q \in RM : found'[u][q] = found[u][q] /\ conn'[u][q] = conn[u][q]
    BY OtherSessions
  <1>5. \A u \in Txn : Live(u)' => Live(u)
    BY <1>1, <1>2, <1>3, <1>4 DEF Live
  <1>6. \A u \in Txn : Fresh(u)' <=> Fresh(u)
    BY <1>1 DEF Fresh, Queued
  <1>7. Live(t) /\ ~Fresh(t)
    BY <1>2 DEF Live, IdInv, InLine, LineWaits, LineOnce, LiveLeft, ServedWaits, NotTold
  <1>8. InLine'
    BY <1>1, <1>5, <1>6 DEF IdInv, InLine, LineWaits, LineOnce, LiveLeft, ServedWaits, NotTold
  <1>9. SessionsLive'
    BY <1>1, <1>2, <1>3, <1>4 DEF IdInv, SessionsLive
  <1>10. IdsGiven'
    <2>1. ASSUME NEW q \in RM, NEW id \in TxnId, NEW rec \in Held(q, id)'
          PROVE  id < transaction_id /\ (rec.by \in Txn => ~Fresh(rec.by))
      <3>1. CASE rec \in Held(q, id)
        BY <3>1 DEF IdInv, IdsGiven
      <3>2. CASE rec \notin Held(q, id)
        <4>1. id = txnId[t] /\ rec.by = t
          BY <1>2, <1>3, <3>2
        <4> QED
          BY <1>7, <4>1 DEF IdInv, IdsGiven
      <3> QED
        BY <3>1, <3>2
    <2> QED
      BY <1>1, <1>5, <1>6, <2>1 DEF IdInv, IdsGiven
  <1>11. OwnRecords'
    <2> SUFFICES ASSUME NEW u \in Txn, Live(u)', NEW q \in RM, NEW rec \in Held(q, txnId[u])'
                 PROVE  rec.by = u
      BY <1>1 DEF OwnRecords
    <2>1. u = t /\ Live(u)
      BY <1>5, <1>7, OneLive
    <2>2. txnId[t] \in TxnId
      BY DEF TypeInv, TypeOK
    <2>3. rec \in Held(q, txnId[t]) \/ rec.by = t
      BY <1>1, <1>2, <1>3, <2>1, <2>2
    <2> QED
      BY <2>1, <2>3 DEF IdInv, OwnRecords
  <1>12. OwnFound'
    BY <1>2, <1>3, <1>4 DEF IdInv, OwnFound
  <1> QED
    BY <1>8, <1>9, <1>10, <1>11, <1>12 DEF IdInv

LEMMA ClientIds ==
    ASSUME TypeInv, IdInv, NEW t \in Txn, ClientStep(t)
    PROVE  IdInv'
  <1>0. /\ cpc \in [Txn -> {"read", "lost", "write", "wait", "done"}]
        /\ outcome \in [Txn -> {"none", "Success", "Failed", "ErrorNo", "error"}]
        /\ backlog \in Seq(Txn)
    BY DEF TypeInv, TypeOK
  <1>1. /\ UNCHANGED <<txn_log, logFile, found, txnId, transaction_id, conn, tmTxn>>
        /\ cpc[t] \in {"read", "lost", "write"}
        /\ \A u \in Txn : u # t => cpc'[u] = cpc[u] /\ outcome'[u] = outcome[u]
    BY <1>0 DEF ClientStep, ReadRecord, ReadRefused, ReadLost, Submit, GotRecord,
                rmVars, memory, files, locals, tmVars
  <1>2. \A u \in Txn : Live(u)' <=> Live(u)
    BY <1>1 DEF Live
  <1>3. SessionsLive'
    BY <1>1 DEF IdInv, SessionsLive
  <1>4. Fresh(t) /\ ~Live(t) /\ t # tmTxn /\ outcome[t] = "none" /\ ~Queued(t)
    BY <1>1 DEF Fresh, Queued, Live, IdInv, InLine, LineWaits, LiveLeft, NotTold
  <1>5. CASE Submit(t) /\ tmUp
    <2>1. backlog' = Append(backlog, t) /\ cpc' = [cpc EXCEPT ![t] = "wait"] /\ outcome' = outcome
      BY <1>5 DEF Submit
    <2>2. /\ DOMAIN backlog = 1 .. Len(backlog) /\ Len(backlog) \in Nat
          /\ DOMAIN backlog' = 1 .. (Len(backlog) + 1)
          /\ \A i \in DOMAIN backlog : backlog'[i] = backlog[i] /\ backlog[i] \in Txn
          /\ backlog'[Len(backlog) + 1] = t
      BY <1>0, <2>1
    <2>3. /\ \A i \in DOMAIN backlog' : i \in DOMAIN backlog \/ i = Len(backlog) + 1
          /\ DOMAIN backlog \subseteq DOMAIN backlog'
      BY <2>2
    <2>4. \A i \in DOMAIN backlog : backlog[i] # t
      BY <1>4 DEF Queued
    <2>5. \A u \in Txn : Fresh(u)' => Fresh(u)
      <3>1. \A u \in Txn : Queued(u)' => Queued(u) \/ u = t
        BY <2>2, <2>3 DEF Queued
      <3> QED
        BY <1>1, <1>4, <3>1 DEF Fresh
    <2>6. LineWaits'
      BY <1>0, <2>1, <2>2, <2>3, <2>4 DEF IdInv, InLine, LineWaits
    <2>7. LineOnce'
      BY <2>2, <2>3, <2>4 DEF IdInv, InLine, LineOnce
    <2>8. LiveLeft' /\ ServedWaits' /\ NotTold'
      BY <1>0, <1>1, <1>2, <1>4, <2>1, <2>5
         DEF IdInv, InLine, LiveLeft, ServedWaits, NotTold
    <2> QED
      BY <1>1, <1>2, <1>3, <2>5, <2>6, <2>7, <2>8, SameIds DEF InLine
  <1>6. CASE ~(Submit(t) /\ tmUp)
    <2>1. /\ UNCHANGED backlog
          /\ cpc'[t] # "done" => outcome'[t] = outcome[t]
      BY <1>0, <1>6 DEF ClientStep, ReadRecord, ReadRefused, ReadLost, Submit, GotRecord
    <2>2. \A u \in Txn : Fresh(u)' => Fresh(u)
      BY <1>1, <1>4, <2>1 DEF Fresh, Queued
    <2>3. LineWaits' /\ LineOnce'
      <3>1. \A i \in DOMAIN backlog : backlog[i] # t /\ backlog[i] \in Txn
        BY <1>0, <1>4 DEF Queued
      <3> QED
        BY <1>1, <2>1, <3>1 DEF IdInv, InLine, LineWaits, LineOnce
    <2>4. LiveLeft' /\ ServedWaits' /\ NotTold'
      BY <1>1, <1>2, <1>4, <2>1, <2>2 DEF IdInv, InLine, LiveLeft, ServedWaits, NotTold
    <2> QED
      BY <1>1, <1>2, <1>3, <2>2, <2>3, <2>4, SameIds DEF InLine
  <1> QED
    BY <1>5, <1>6

(* The TM takes the head of the line and gives it an id under which no RM  *)
(* holds anything.                                                         *)
LEMMA AcceptIds ==
    ASSUME TypeInv, HandlerInv, IdInv, Accept
    PROVE  IdInv'
  <1> DEFINE t == Head(backlog)
  <1>0. /\ backlog \in Seq(Txn) /\ txnId \in [Txn -> TxnId]
        /\ transaction_id \in TxnId
    BY DataAssumption DEF Accept, TypeInv, TypeOK, TxnId
  <1>1. /\ tmUp /\ tmPc = "accept" /\ backlog # <<>> /\ backlog' = Tail(backlog)
        /\ tmTxn' = t /\ txnId' = [txnId EXCEPT ![t] = transaction_id]
        /\ transaction_id' = transaction_id + 1
        /\ UNCHANGED <<txn_log, logFile, found, conn, cpc, outcome>>
    BY DEF Accept, rmVars, memory, files, locals
  <1>2. /\ t \in Txn /\ 1 \in DOMAIN backlog /\ backlog[1] = t
        /\ \A i \in DOMAIN backlog' : /\ i \in Nat /\ i + 1 # 1
                                      /\ i + 1 \in DOMAIN backlog
                                      /\ backlog'[i] = backlog[i + 1]
    <2>1. /\ Len(backlog) \in Nat \ {0} /\ t = backlog[1] /\ t \in Txn
          /\ DOMAIN backlog = 1 .. Len(backlog)
          /\ DOMAIN backlog' = 1 .. (Len(backlog) - 1)
          /\ \A i \in 1 .. (Len(backlog) - 1) : backlog'[i] = backlog[i + 1]
      BY <1>0, <1>1
    <2> QED
      BY <2>1
  <1> HIDE DEF t
  <1>3. \A u \in Txn : ~Live(u) /\ (Live(u)' => u = t)
    BY <1>1, NoneLive DEF Live
  <1>4. cpc[t] = "wait"
    BY <1>2 DEF IdInv, InLine, LineWaits
  <1>5. \A u \in Txn : Queued(u)' => Queued(u) /\ u # t
    <2> SUFFICES ASSUME NEW i \in DOMAIN backlog'
                 PROVE  backlog'[i] # t /\ \E j \in DOMAIN backlog : backlog[j] = backlog'[i]
      BY DEF Queued
    <2> QED
      BY <1>2 DEF IdInv, InLine, LineOnce
  <1>6. \A u \in Txn : Fresh(u)' => Fresh(u) /\ u # t
    BY <1>1, <1>4, <1>5 DEF Fresh
  <1>7. InLine'
    <2>1. LineWaits'
      BY <1>1, <1>2 DEF IdInv, InLine, LineWaits
    <2>2. LineOnce'
      <3> SUFFICES ASSUME NEW i \in DOMAIN backlog', NEW j \in DOMAIN backlog',
                          backlog'[i] = backlog'[j]
                   PROVE  i = j
        BY DEF LineOnce
      <3>1. i + 1 = j + 1
        BY <1>2 DEF IdInv, InLine, LineOnce
      <3>2. i \in Nat /\ j \in Nat
        BY <1>2
      <3> QED
        BY <3>1, <3>2
    <2>3. LiveLeft' /\ ServedWaits' /\ NotTold'
      BY <1>1, <1>3, <1>4, <1>6 DEF IdInv, InLine, LiveLeft, ServedWaits, NotTold
    <2> QED
      BY <2>1, <2>2, <2>3 DEF InLine
  <1>8. SessionsLive'
    <2>1. \A u \in Txn, r \in RM : conn[u][r] = "none"
      BY <1>3 DEF IdInv, SessionsLive, Live
    <2> QED
      BY <1>1, <2>1 DEF SessionsLive
  <1>9. \A r \in RM, id \in TxnId : Held(r, id)' = Held(r, id)
    BY <1>1 DEF Held
  <1>10. txnId'[t] = transaction_id /\ transaction_id < transaction_id'
         /\ ~(transaction_id < transaction_id)
         /\ \A id \in TxnId : id < transaction_id => id < transaction_id'
    BY <1>0, <1>1, <1>2 DEF TxnId
  <1>11. IdsGiven'
    BY <1>3, <1>6, <1>9, <1>10 DEF IdInv, IdsGiven
  <1>12. OwnRecords'
    <2>1. \A r \in RM : Held(r, transaction_id) = {}
      BY <1>0, <1>10 DEF IdInv, IdsGiven
    <2>2. \A u \in Txn : Live(u)' => txnId'[u] = transaction_id
      BY <1>3, <1>10
    <2>3. \A u \in Txn : Live(u)' => \A r \in RM : Held(r, txnId[u])' = Held(r, transaction_id)
      BY <1>1, <2>2 DEF Held
    <2> QED
      BY <2>1, <2>3 DEF OwnRecords
  <1>13. OwnFound'
    BY <1>1 DEF IdInv, OwnFound
  <1> QED
    BY <1>7, <1>8, <1>11, <1>12, <1>13 DEF IdInv

LEMMA TMIds ==
    ASSUME TypeInv, HandlerInv, IdInv, TMStep
    PROVE  IdInv'
  <1>0. /\ conn \in [Txn -> [RM -> ConnState]] /\ tmRM \in RM
        /\ cpc \in [Txn -> {"read", "lost", "write", "wait", "done"}]
        /\ outcome \in [Txn -> {"none", "Success", "Failed", "ErrorNo", "error"}]
        /\ backlog \in Seq(Txn)
        /\ tmPc # "accept" => tmTxn \in Txn
    BY DEF TypeInv, TypeOK, Bookkeeping, TMBusy
  <1>1. CASE Accept
    BY <1>1, AcceptIds
  <1>2. CASE Connect \/ SendPrepare \/ RecvVote \/ SendDecision \/ RecvDone
    <2>1. /\ UNCHANGED <<txn_log, logFile, found, txnId, transaction_id, tmTxn, backlog, cpc, outcome>>
          /\ tmTxn \in Txn
      BY <1>0, <1>2 DEF Connect, SendPrepare, RecvVote, SendDecision, RecvDone,
                  rmVars, memory, files, locals, cliVars
    <2>2. /\ \A u \in Txn, r \in RM : u # tmTxn \/ r # tmRM => conn'[u][r] = conn[u][r]
          /\ conn'[tmTxn][tmRM] \in {"apply", "log"} => conn'[tmTxn][tmRM] = conn[tmTxn][tmRM]
      BY <1>0, <1>2, <2>1 DEF Connect, SendPrepare, RecvVote, SendDecision, RecvDone,
                              SetSession, Session
    <2>3. \A u \in Txn : Live(u)' => Live(u)
      BY <2>1, <2>2 DEF Live
    <2>4. \A u \in Txn, r \in RM :
             conn'[u][r] \in {"apply", "log"} => conn[u][r] \in {"apply", "log"}
      BY <2>1, <2>2
    <2>5. SessionsLive'
      BY <2>1, <2>2 DEF IdInv, SessionsLive
    <2>6. \A u \in Txn : Fresh(u)' <=> Fresh(u)
      BY <2>1 DEF Fresh, Queued
    <2>7. InLine'
      BY <2>1, <2>3, <2>6 DEF IdInv, InLine, LineWaits, LineOnce, LiveLeft, ServedWaits, NotTold
    <2> QED
      BY <2>1, <2>3, <2>4, <2>5, <2>6, <2>7, SameIds
  <1>3. CASE ConnectFailed \/ Reply
    <2>1. /\ UNCHANGED <<txn_log, logFile, found, txnId, transaction_id, backlog>>
          /\ tmTxn \in Txn /\ tmTxn' = NoTxn /\ tmTxn' \notin Txn
          /\ \E a : Finish(a)
      BY <1>0, <1>3, ConfigAssumption DEF ConnectFailed, Reply, Finish, rmVars, memory, files, locals
    <2>2. /\ \A r \in RM : conn'[tmTxn][r] = "none"
          /\ \A u \in Txn, r \in RM : u # tmTxn => conn'[u][r] = conn[u][r]
          /\ cpc' = [cpc EXCEPT ![tmTxn] = "done"]
          /\ \A u \in Txn : u # tmTxn => outcome'[u] = outcome[u]
      BY <1>0, <2>1 DEF Finish
    <2>3. \A u \in Txn : Live(u)' => Live(u) /\ u # tmTxn
      BY <2>1, <2>2 DEF Live, Handling, InCommit
    <2>4. \A u \in Txn, r \in RM :
             conn'[u][r] \in {"apply", "log"} => conn[u][r] \in {"apply", "log"}
      BY <2>2
    <2>5. SessionsLive'
      BY <2>1, <2>2 DEF IdInv, SessionsLive
    <2>6. ~Queued(tmTxn)
      BY <2>1 DEF IdInv, InLine, LiveLeft, Live, Fresh
    <2>7. /\ \A u \in Txn : Queued(u)' <=> Queued(u)
          /\ cpc'[tmTxn] = "done" /\ \A u \in Txn : u # tmTxn => cpc'[u] = cpc[u]
      BY <1>0, <2>1, <2>2 DEF Queued
    <2>8. \A u \in Txn : Fresh(u)' => Fresh(u)
      BY <2>6, <2>7 DEF Fresh
    <2>9. \A i \in DOMAIN backlog : backlog[i] # tmTxn /\ backlog[i] \in Txn
      BY <1>0, <2>6 DEF Queued
    <2>10. LineWaits' /\ LineOnce'
      BY <2>1, <2>7, <2>9 DEF IdInv, InLine, LineWaits, LineOnce
    <2>11. LiveLeft' /\ ServedWaits' /\ NotTold'
      BY <2>1, <2>2, <2>3, <2>7, <2>8 DEF IdInv, InLine, LiveLeft, ServedWaits, NotTold
    <2> QED
      BY <2>1, <2>3, <2>4, <2>5, <2>8, <2>10, <2>11, SameIds DEF InLine
  <1> QED
    BY <1>1, <1>2, <1>3 DEF TMStep

LEMMA FaultIds ==
    ASSUME TypeInv, HandlerInv, IdInv, MaxTMRestarts = 0, Fault
    PROVE  IdInv'
  <1>0. /\ conn \in [Txn -> [RM -> ConnState]]
        /\ found \in [Txn -> [RM -> Seq(TxnLogRequest)]]
        /\ txn_log \in [RM -> TxnLogMap] /\ logFile \in [RM -> LogFile]
        /\ backlog \in Seq(Txn) /\ txnId \in [Txn -> TxnId] /\ tmRestarts \in Nat
    BY DEF TypeInv, TypeOK
  <1>1. ASSUME TMDies
        PROVE  IdInv'
    <2>1. /\ UNCHANGED <<txn_log, logFile, found, txnId, transaction_id>>
          /\ tmTxn' = NoTxn /\ tmTxn' \notin Txn /\ backlog' = <<>>
          /\ \A t \in Txn, r \in RM :
                 conn'[t][r] = IF conn[t][r] \in Handling THEN conn[t][r] ELSE "none"
          /\ \A t \in Txn : cpc'[t] = IF cpc[t] = "wait" THEN "done" ELSE cpc[t]
          /\ \A t \in Txn : cpc[t] # "wait" => outcome'[t] = outcome[t]
      BY <1>1, ConfigAssumption DEF TMDies, DisconnectClients, rmVars, memory, files, locals
    <2>2. "none" \notin Handling
      BY DEF Handling, InCommit
    <2>3. \A t \in Txn : (Live(t)' => Live(t)) /\ (Fresh(t)' => Fresh(t))
      BY <2>1, <2>2 DEF Live, Fresh, Queued
    <2>4. SessionsLive'
      BY <2>1, <2>2 DEF SessionsLive
    <2>5. InLine'
      BY <2>1, <2>3 DEF IdInv, InLine, LineWaits, LineOnce, LiveLeft, ServedWaits, NotTold
    <2> QED
      BY <2>1, <2>3, <2>4, <2>5, SameIds
  <1>2. ~TMRestart
    BY <1>0 DEF TMRestart
  <1>3. ASSUME NEW r \in RM, RMCrash(r)
        PROVE  IdInv'
    <2>1. /\ UNCHANGED <<logFile, txnId, transaction_id, tmTxn, backlog, outcome>>
          /\ txn_log' = [txn_log EXCEPT ![r] = EmptyLog]
          /\ \A t \in Txn, q \in RM : q # r => conn'[t][q] = conn[t][q] /\ found'[t][q] = found[t][q]
          /\ \A t \in Txn : conn'[t][r] \in {"broken", "none"}
          /\ \A t \in Txn : conn'[t][r] # "none" => t = tmTxn
          /\ \A t \in Txn : \/ cpc'[t] = cpc[t]
                            \/ cpc[t] = "read" /\ cpc'[t] = "lost"
      BY <1>0, <1>3 DEF RMCrash, RMDies, files, tmVars
    <2>2. \A t \in Txn : Live(t)' => Live(t)
      BY <2>1 DEF Live, Handling, InCommit
    <2>3. \A t \in Txn : Fresh(t)' => Fresh(t)
      BY <2>1 DEF Fresh, Queued
    <2>4. SessionsLive'
      BY <2>1 DEF IdInv, SessionsLive
    <2>5. \A i \in DOMAIN backlog : backlog[i] \in Txn
      BY <1>0
    <2>6. LineWaits' /\ LineOnce'
      BY <2>1, <2>5 DEF IdInv, InLine, LineWaits, LineOnce
    <2>7. LiveLeft' /\ ServedWaits' /\ NotTold'
      BY <2>1, <2>2, <2>3 DEF IdInv, InLine, LiveLeft, ServedWaits, NotTold
    <2>8. \A q \in RM, id \in TxnId : Held(q, id)' \subseteq Held(q, id)
      BY <1>0, <2>1, EmptyLogHolds DEF Held
    <2>9. IdsGiven'
      BY <2>1, <2>2, <2>3, <2>8 DEF IdInv, IdsGiven
    <2>10. OwnRecords'
      <3> SUFFICES ASSUME NEW t \in Txn, Live(t)', NEW q \in RM, NEW rec \in Held(q, txnId[t])'
                   PROVE  rec.by = t
        BY DEF OwnRecords
      <3>1. txnId[t] \in TxnId /\ rec \in Held(q, txnId[t])
        BY <1>0, <2>1, <2>8
      <3> QED
        BY <2>2, <3>1 DEF IdInv, OwnRecords
    <2>11. OwnFound'
      BY <2>1 DEF IdInv, OwnFound
    <2> QED
      BY <2>4, <2>6, <2>7, <2>9, <2>10, <2>11 DEF IdInv, InLine
  <1>4. ASSUME NEW r \in RM, RMRestart(r)
        PROVE  IdInv'
    <2>1. /\ UNCHANGED <<logFile, txnId, transaction_id, tmTxn, backlog, outcome, conn, cpc, found>>
          /\ txn_log' = [txn_log EXCEPT ![r] = Recovered(logFile[r])]
      BY <1>4 DEF RMRestart, files, tmVars, locals, cliVars
    <2>2. \A t \in Txn : (Live(t)' <=> Live(t)) /\ (Fresh(t)' <=> Fresh(t))
      BY <2>1 DEF Live, Fresh, Queued
    <2>3. \A q \in RM, id \in TxnId : Held(q, id)' \subseteq Held(q, id)
      BY <1>0, <2>1, RecoveredHolds DEF Held
    <2>4. IdsGiven'
      BY <2>1, <2>2, <2>3 DEF IdInv, IdsGiven
    <2>5. OwnRecords'
      <3> SUFFICES ASSUME NEW t \in Txn, Live(t)', NEW q \in RM, NEW rec \in Held(q, txnId[t])'
                   PROVE  rec.by = t
        BY DEF OwnRecords
      <3>1. txnId[t] \in TxnId /\ rec \in Held(q, txnId[t])
        BY <1>0, <2>1, <2>3
      <3> QED
        BY <2>2, <3>1 DEF IdInv, OwnRecords
    <2>6. InLine'
      BY <2>1, <2>2 DEF IdInv, InLine, LineWaits, LineOnce, LiveLeft, ServedWaits, NotTold
    <2>7. SessionsLive' /\ OwnFound'
      BY <2>1 DEF IdInv, SessionsLive, OwnFound
    <2> QED
      BY <2>4, <2>5, <2>6, <2>7 DEF IdInv
  <1> QED
    BY <1>1, <1>2, <1>3, <1>4, NothingFreed DEF Fault, TMCrash, TMSigPipe

LEMMA NextIds ==
    ASSUME TypeInv, HandlerInv, IdInv, MaxTMRestarts = 0, [Next]_vars
    PROVE  IdInv'
  <1>1. CASE UNCHANGED vars
    <2>1. UNCHANGED <<txn_log, logFile, found, txnId, transaction_id, tmTxn, backlog, conn,
                      cpc, outcome>>
      BY <1>1 DEF vars, rmVars, memory, files, locals, tmVars, cliVars
    <2>2. \A t \in Txn : (Live(t)' <=> Live(t)) /\ (Fresh(t)' <=> Fresh(t))
      BY <2>1 DEF Live, Fresh, Queued
    <2>3. InLine' /\ SessionsLive'
      BY <2>1, <2>2 DEF IdInv, InLine, LineWaits, LineOnce, LiveLeft, ServedWaits, NotTold, SessionsLive
    <2> QED
      BY <2>1, <2>2, <2>3, SameIds
  <1> QED
    BY <1>1, ClientIds, TMIds, RMIds, FaultIds DEF Next, Terminating

-----------------------------------------------------------------------------
(* DecisionInv is an invariant. *)

(* Steps that neither decide nor tell a decision. *)
LEMMA SameDecisions ==
    ASSUME DecisionInv,
           \A t \in Txn : (Commits(t)' => Commits(t)) /\ (Aborts(t)' => Aborts(t)),
           \A t \in Txn : outcome'[t] \in {"Success", "Failed"} => outcome'[t] = outcome[t],
           UNCHANGED <<tmTxn, tmPc, allOk>> \/ tmTxn' \notin Txn
    PROVE  DecisionInv'
  <1>1. OneDecision' /\ ToldTruly'
    BY DEF DecisionInv, OneDecision, ToldTruly
  <1>2. TMDecides'
    BY DEF DecisionInv, TMDecides
  <1> QED
    BY <1>1, <1>2 DEF DecisionInv

(* A handler never turns into one that decides otherwise: it commits what   *)
(* it was told to commit.                                                   *)
LEMMA RMDecidesNothing ==
    ASSUME TypeInv, IdInv, NEW t \in Txn, NEW r \in RM, RMStep(t, r)
    PROVE  \A u \in Txn : (Commits(u)' => Commits(u)) /\ (Aborts(u)' => Aborts(u))
  <1>1. /\ \A line \in Lines(logFile[r])' :
               \/ line \in Lines(logFile[r])
               \/ line.by = t /\ (line.op = 2 => conn[t][r] = "log")
                              /\ (line.op = 3 => conn[t][r] = "abort")
        /\ conn'[t][r] \in {"commit"} \cup InCommit => conn[t][r] \in {"commit"} \cup InCommit
        /\ conn'[t][r] # "abort"
    BY RMWritesOwn
  <1>2. \A u \in Txn, q \in RM : u # t \/ q # r => conn'[u][q] = conn[u][q]
    BY OtherRMs, OtherSessions
  <1>3. \A q \in RM : q # r => Lines(logFile'[q]) = Lines(logFile[q])
    BY OtherRMs
  <1>4. ASSUME NEW u \in Txn, NEW q \in RM
        PROVE  /\ LineOf(u, q, 2)' => LineOf(u, q, 2) \/ conn[u][q] = "log"
               /\ LineOf(u, q, 3)' => LineOf(u, q, 3) \/ conn[u][q] = "abort"
    <2>1. CASE q = r
      BY <1>1, <2>1 DEF LineOf
    <2>2. CASE q # r
      BY <1>3, <2>2 DEF LineOf
    <2> QED
      BY <2>1, <2>2
  <1> QED
    BY <1>1, <1>2, <1>4 DEF Commits, Aborts, InCommit

LEMMA RMDecisions ==
    ASSUME TypeInv, IdInv, DecisionInv, NEW t \in Txn, NEW r \in RM, RMStep(t, r)
    PROVE  DecisionInv'
  <1>1. UNCHANGED <<tmTxn, tmPc, allOk, outcome>>
    BY RMFrame DEF tmVars, cliVars
  <1> QED
    BY <1>1, RMDecidesNothing, SameDecisions

(* A line that an RM has written is of a transaction the TM has accepted. *)
LEMMA FreshUnlogged ==
    ASSUME IdInv, NEW t \in Txn, Fresh(t), NEW r \in RM, NEW op
    PROVE  ~LineOf(t, r, op)
  <1> SUFFICES ASSUME NEW line \in Lines(logFile[r]), line.by = t
               PROVE  FALSE
    BY DEF LineOf
  <1>1. PICK id \in TxnId : line \in Held(r, id)
    BY DEF Lines, Held
  <1> QED
    BY <1>1 DEF IdInv, IdsGiven

(* The TM decides in SendDecision, and nowhere else. *)
LEMMA TMDecidesThere ==
    ASSUME TypeInv, TMStep
    PROVE  \A t \in Txn :
               /\ Commits(t)' => Commits(t) \/ (SendDecision /\ t = tmTxn /\ allOk)
               /\ Aborts(t)' => Aborts(t) \/ (SendDecision /\ t = tmTxn /\ ~allOk)
  <1>0. /\ conn \in [Txn -> [RM -> ConnState]] /\ tmRM \in RM
        /\ tmPc # "accept" => tmTxn \in Txn
    BY DEF TypeInv, TypeOK, Bookkeeping, TMBusy
  <1>1. logFile' = logFile
    BY DEF TMStep, Accept, Connect, ConnectFailed, SendPrepare, RecvVote, SendDecision,
           RecvDone, Reply, rmVars, files
  <1>2. \A t \in Txn, r \in RM, op \in 2 .. 3 : LineOf(t, r, op)' <=> LineOf(t, r, op)
    BY <1>1 DEF LineOf
  <1>3. ASSUME NEW t \in Txn, NEW r \in RM, conn'[t][r] \in {"commit", "abort"} \cup InCommit
        PROVE  \/ conn'[t][r] = conn[t][r]
               \/ SendDecision /\ t = tmTxn /\ conn'[t][r] = IF allOk THEN "commit" ELSE "abort"
    <2>1. CASE Accept
      BY <2>1 DEF Accept
    <2>2. CASE ConnectFailed \/ Reply
      BY <1>0, <1>3, <2>2 DEF ConnectFailed, Reply, Finish, InCommit
    <2>3. CASE SendDecision
      BY <1>0, <2>3 DEF SendDecision, SetSession, Session
    <2>4. CASE Connect \/ SendPrepare \/ RecvVote \/ RecvDone
      BY <1>0, <1>3, <2>4 DEF Connect, SendPrepare, RecvVote, RecvDone, SetSession, Session, InCommit
    <2> QED
      BY <2>1, <2>2, <2>3, <2>4 DEF TMStep
  <1> QED
    BY <1>2, <1>3 DEF Commits, Aborts, InCommit

LEMMA TMDecisions ==
    ASSUME TypeInv, HandlerInv, IdInv, DecisionInv, TMStep
    PROVE  DecisionInv'
  <1>0. /\ outcome \in [Txn -> {"none", "Success", "Failed", "ErrorNo", "error"}]
        /\ backlog \in Seq(Txn)
        /\ tmPc # "accept" => tmTxn \in Txn
    BY DEF TypeInv, TypeOK, Bookkeeping, TMBusy
  <1>1. \A t \in Txn :
            /\ Commits(t)' => Commits(t) \/ (SendDecision /\ t = tmTxn /\ allOk)
            /\ Aborts(t)' => Aborts(t) \/ (SendDecision /\ t = tmTxn /\ ~allOk)
    BY TMDecidesThere
  <1>2. SendDecision => tmPc = "decide"
    BY DEF SendDecision
  <1>3. CASE Accept
    <2>1. /\ tmUp /\ tmPc = "accept" /\ backlog # <<>> /\ tmTxn' = Head(backlog)
          /\ outcome' = outcome
      BY <1>3 DEF Accept
    <2>2. /\ Head(backlog) \in Txn /\ 1 \in DOMAIN backlog /\ backlog[1] = Head(backlog)
      BY <1>0, <2>1
    <2>3. Fresh(tmTxn') /\ ~Live(tmTxn')
      BY <2>1, <2>2, NoneLive DEF Fresh, Queued
    <2>4. ~Commits(tmTxn') /\ ~Aborts(tmTxn')
      BY <2>1, <2>2, <2>3, FreshUnlogged DEF Commits, Aborts, Live, Handling
    <2>5. TMDecides'
      BY <1>1, <1>2, <2>1, <2>2, <2>4 DEF TMDecides
    <2> QED
      BY <1>1, <1>2, <2>1, <2>5 DEF DecisionInv, OneDecision, ToldTruly
  <1>4. CASE Connect \/ SendPrepare \/ RecvVote
    <2>1. tmPc \in {"connect", "prepare", "vote"} /\ UNCHANGED <<tmTxn, outcome>>
      BY <1>4 DEF Connect, SendPrepare, RecvVote, cliVars
    <2>2. ~Commits(tmTxn) /\ ~Aborts(tmTxn) /\ tmTxn \in Txn
      BY <1>0, <2>1 DEF DecisionInv, TMDecides
    <2>3. TMDecides'
      BY <1>1, <1>2, <2>1, <2>2 DEF TMDecides
    <2> QED
      BY <1>1, <1>2, <2>1, <2>3 DEF DecisionInv, OneDecision, ToldTruly
  <1>5. CASE SendDecision \/ RecvDone
    <2>1. /\ tmPc \in {"decide", "ack"} /\ tmPc' \in {"decide", "ack", "reply"}
          /\ UNCHANGED <<tmTxn, outcome, allOk>>
      BY <1>5 DEF SendDecision, RecvDone, NextRM, cliVars
    <2>2. tmTxn \in Txn /\ outcome[tmTxn] = "none"
      BY <1>0, <2>1 DEF IdInv, InLine, ServedWaits, NotTold
    <2> QED
      BY <1>1, <2>1, <2>2 DEF DecisionInv, OneDecision, TMDecides, ToldTruly
  <1>6. CASE ConnectFailed \/ Reply
    <2>1. PICK a \in {"Success", "Failed"} :
              /\ Finish(a) /\ tmPc # "decide"
              /\ (tmPc = "connect" /\ a = "Failed") \/ (tmPc = "reply" /\ (a = "Success" <=> allOk))
      BY <1>6 DEF ConnectFailed, Reply
    <2>2. tmTxn \in Txn /\ tmTxn' \notin Txn
      BY <1>0, <2>1, ConfigAssumption DEF Finish
    <2>3. outcome'[tmTxn] = a /\ \A u \in Txn : u # tmTxn => outcome'[u] = outcome[u]
      BY <1>0, <2>1, <2>2 DEF Finish
    <2>4. /\ a = "Failed" => ~Commits(tmTxn)
          /\ a = "Success" => ~Aborts(tmTxn)
      BY <2>1, <2>2 DEF DecisionInv, TMDecides
    <2>5. ToldTruly'
      BY <1>1, <1>2, <2>1, <2>2, <2>3, <2>4 DEF DecisionInv, ToldTruly
    <2> QED
      BY <1>1, <1>2, <2>1, <2>2, <2>5 DEF DecisionInv, OneDecision, TMDecides
  <1> QED
    BY <1>3, <1>4, <1>5, <1>6 DEF TMStep

(* Crashes take sessions away; a client decides nothing. *)
LEMMA OthersDecideNothing ==
    ASSUME TypeInv, HandlerInv, MaxTMRestarts = 0,
           Fault \/ UNCHANGED vars \/ \E t \in Txn : ClientStep(t)
    PROVE  /\ \A t \in Txn : (Commits(t)' => Commits(t)) /\ (Aborts(t)' => Aborts(t))
           /\ \A t \in Txn : outcome'[t] \in {"Success", "Failed"} => outcome'[t] = outcome[t]
           /\ UNCHANGED <<tmTxn, tmPc, allOk>> \/ tmTxn' \notin Txn
  <1>0. /\ conn \in [Txn -> [RM -> ConnState]] /\ tmRestarts \in Nat
        /\ outcome \in [Txn -> {"none", "Success", "Failed", "ErrorNo", "error"}]
    BY DEF TypeInv, TypeOK
  <1> DEFINE Sessions == \A t \in Txn, r \in RM :
                 conn'[t][r] = conn[t][r] \/ conn'[t][r] \in {"none", "broken"}
             Told == \A t \in Txn : outcome'[t] \in {"Success", "Failed"} => outcome'[t] = outcome[t]
             TM   == UNCHANGED <<tmTxn, tmPc, allOk>> \/ tmTxn' \notin Txn
  <1> HIDE DEF Sessions, Told, TM
  <1>1. logFile' = logFile /\ Sessions /\ Told /\ TM
    <2> USE DEF Sessions, Told, TM
    <2>1. CASE TMCrash \/ TMSigPipe
      BY <1>0, <2>1, ConfigAssumption DEF TMCrash, TMSigPipe, TMDies, DisconnectClients, rmVars, files
    <2>2. ~TMRestart
      BY <1>0 DEF TMRestart
    <2>3. CASE \E r \in RM : RMCrash(r)
      BY <1>0, <2>3 DEF RMCrash, RMDies, files, tmVars
    <2>4. CASE \E r \in RM : RMRestart(r)
      BY <2>4 DEF RMRestart, files, tmVars, cliVars
    <2>5. CASE UNCHANGED vars
      BY <2>5 DEF vars, rmVars, files, tmVars, cliVars
    <2>6. CASE \E t \in Txn : ClientStep(t)
      BY <1>0, <2>6 DEF ClientStep, ReadRecord, ReadRefused, ReadLost, Submit, GotRecord,
                        rmVars, files, tmVars
    <2> QED
      BY <2>1, <2>2, <2>3, <2>4, <2>5, <2>6, NothingFreed DEF Fault
  <1>2. \A t \in Txn : (Commits(t)' => Commits(t)) /\ (Aborts(t)' => Aborts(t))
    BY <1>1 DEF Sessions, Commits, Aborts, InCommit, LineOf
  <1> QED
    BY <1>1, <1>2 DEF Told, TM

LEMMA DecisionInvariant ==
    ASSUME MaxTMRestarts = 0
    PROVE  Spec => [](TypeInv /\ HandlerInv /\ IdInv /\ DecisionInv)
  <1>1. Init => IdInv /\ DecisionInv
    BY InitIds
  <1>2. TypeInv /\ HandlerInv /\ IdInv /\ DecisionInv /\ [Next]_vars => IdInv' /\ DecisionInv'
    <2> SUFFICES ASSUME TypeInv, HandlerInv, IdInv, DecisionInv, [Next]_vars
                 PROVE  IdInv' /\ DecisionInv'
      OBVIOUS
    <2>1. IdInv'
      BY NextIds
    <2>2. DecisionInv'
      <3>1. CASE Fault \/ UNCHANGED vars \/ \E t \in Txn : ClientStep(t)
        BY <3>1, OthersDecideNothing, SameDecisions
      <3> QED
        BY <3>1, RMDecisions, TMDecisions DEF Next, Terminating
    <2> QED
      BY <2>1, <2>2
  <1>3. Spec => []TypeInv
    BY TypeInvariant
  <1>4. Spec => []HandlerInv
    BY HandlerInvariant
  <1> QED
    BY <1>1, <1>2, <1>3, <1>4, PTL DEF Spec

-----------------------------------------------------------------------------
LEMMA LoggedIsLine ==
    \A t \in Txn, r \in RM, op \in 1 .. 3 : Logged(t, r, op) <=> LineOf(t, r, op)
  BY DEF Logged, LineOf, Lines, Records

(* No transaction has a commit line at one RM and an abort line at another, *)
(* whichever RMs crash and recover, and whenever the TM ends, between its   *)
(* two loops of ServerThread.cpp too; as long as no second TM is started.   *)
THEOREM NoSplitDecision ==
    ASSUME MaxTMRestarts = 0
    PROVE  Spec => []Agreement
  <1>1. DecisionInv => Agreement
    BY LoggedIsLine DEF DecisionInv, OneDecision, Commits, Aborts, Agreement
  <1> QED
    BY <1>1, DecisionInvariant, PTL

(* A client that is told "Failed" was told the truth: its transaction is    *)
(* committed nowhere, and no handler will still commit it.                  *)
THEOREM FailedIsFinal ==
    ASSUME MaxTMRestarts = 0
    PROVE  Spec => []FailedNeverCommitted
  <1>1. DecisionInv => FailedNeverCommitted
    BY LoggedIsLine DEF DecisionInv, ToldTruly, Commits, FailedNeverCommitted
  <1> QED
    BY <1>1, DecisionInvariant, PTL
=============================================================================
