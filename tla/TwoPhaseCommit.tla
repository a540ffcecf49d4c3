---------------------------- MODULE TwoPhaseCommit ----------------------------
(***************************************************************************)
(* Clients, the transaction manager (TM) and the resource managers (RMs)   *)
(* running two-phase commit over TCP sessions, with crashes and restarts.  *)
(*                                                                         *)
(* An RM here is a cluster of one node: it was started with no peers, and  *)
(* nothing listens at the backup address the TM was given.                 *)
(*                                                                         *)
(* For every transaction the TM opens one session to each RM, and the RM   *)
(* serves each session in a thread of its own.  conn[t][r] is the state of *)
(* that session and of that thread together: a request on its way to the   *)
(* RM, the point a handler has reached, or a reply on its way back.        *)
(***************************************************************************)
EXTENDS TxnData

W == INSTANCE Wire

CONSTANTS
    NumRM,          \* number of RM clusters the TM is started with
    NoTxn,          \* the TM is serving no client
    ReadCount,      \* a client reads customers 0 .. ReadCount - 1
    ReadFrom,       \* ReadFrom[t]: the RM whose address client t was given
    WriteShape,     \* WriteShape[t] = <<m, k>>: k orders for each of m customers
    Chosen,         \* Chosen[t]: the one customer that t, if it is a thread of
                    \* the experiment, reads and orders for; Absent for a client
    Seeded,         \* customers 0 .. Seeded - 1 already have an order, number 1
    MaxRMCrashes, MaxTMCrashes, MaxTMRestarts   \* bounds on failures

RM == 0 .. NumRM - 1

ASSUME ConfigAssumption ==
    /\ NumRM \in Nat \ {0}
    /\ NoTxn \notin Txn
    /\ ReadCount \in 1 .. NumCustomers
    /\ ReadFrom \in [Txn -> RM]
    /\ WriteShape \in [Txn -> (1 .. NumCustomers) \X (Nat \ {0})]
    /\ Chosen \in [Txn -> Customer \cup {Absent}]
    /\ Seeded \in 0 .. NumCustomers
    /\ MaxRMCrashes \in Nat /\ MaxTMCrashes \in Nat /\ MaxTMRestarts \in Nat

VARIABLES
    (* the state of each RM: memory, then files *)
    rmUp, customer_record, txn_log, smr_log, custFile, logFile,
    (* sessions, and the locals of TMCommit: the records, how many are      *)
    (* applied, and whether txn_log has given up the vector they are in     *)
    conn, found, applied, freed,
    (* the TM: a single thread, its program counter, locals and global counter *)
    tmUp, tmPc, tmTxn, tmRM, allOk, transaction_id,
    (* connected clients the TM has not accepted yet *)
    backlog,
    (* the clients: program counter, transaction, and what they were told *)
    cpc, reads, writes, txnId, outcome,
    (* failures so far *)
    rmCrashes, tmCrashes, tmRestarts

memory   == <<rmUp, customer_record, txn_log, smr_log>>
files    == <<custFile, logFile>>
rmVars   == <<memory, files>>
locals   == <<found, applied, freed>>
tmVars   == <<tmUp, tmPc, tmTxn, tmRM, allOk, transaction_id>>
cliVars  == <<cpc, reads, writes, txnId, outcome>>
failures == <<rmCrashes, tmCrashes, tmRestarts>>
vars     == <<rmVars, conn, locals, tmVars, backlog, cliVars, failures>>

(* The handlers of an RM, and the points inside TMPrepare and TMCommit. *)
InCommit  == {"apply", "log", "trunc", "store"}
Handling  == {"prepare", "prelog", "commit", "abort"} \cup InCommit
Replies   == {"Ok", "No", "Done"}
ConnState == {"none", "idle", "broken"} \cup Handling \cup Replies

-----------------------------------------------------------------------------
(* Every RM starts from the same past: one transaction, with id 0, gave    *)
(* each of the first Seeded customers order number 1.                      *)
SeedRecords ==
    PrepareRecords(Seed, [i \in 1 .. Seeded |-> [cust |-> i - 1, num |-> 1]])

SeedCustomers == [k \in Key |-> IF k \in 0 .. Seeded - 1 THEN 1 ELSE Absent]
SeedFile      == [id \in TxnId |-> IF id = 0 THEN SeedRecords \o CommitRecords(SeedRecords)
                                             ELSE <<>>]

Init ==
    /\ rmUp = [r \in RM |-> TRUE]
    /\ customer_record = [r \in RM |-> SeedCustomers]
    /\ txn_log = [r \in RM |-> CommitLog(0, SeedRecords)]
    /\ smr_log = [r \in RM |-> [i \in 1 .. Seeded |-> OpOf(SeedRecords[i])]]
    /\ custFile = [r \in RM |-> SeedCustomers]
    /\ logFile = [r \in RM |-> SeedFile]
    /\ conn = [t \in Txn |-> [r \in RM |-> "none"]]
    /\ found = [t \in Txn |-> [r \in RM |-> <<>>]]
    /\ applied = [t \in Txn |-> [r \in RM |-> 0]]
    /\ freed = [t \in Txn |-> [r \in RM |-> FALSE]]
    /\ tmUp = TRUE
    /\ tmPc = "accept"
    /\ tmTxn = NoTxn
    /\ tmRM = 0
    /\ allOk = TRUE
    /\ transaction_id = (IF Seeded > 0 THEN 1 ELSE 0)
    /\ backlog = <<>>
    /\ cpc = [t \in Txn |-> "read"]
    /\ reads = [t \in Txn |-> <<>>]
    /\ writes = [t \in Txn |-> <<>>]
    /\ txnId = [t \in Txn |-> 0]              \* unset until setTxnId
    /\ outcome = [t \in Txn |-> "none"]
    /\ rmCrashes = 0 /\ tmCrashes = 0 /\ tmRestarts = 0

-----------------------------------------------------------------------------
(* Clients. *)

Experiment(t) == Chosen[t] # Absent

(* The customer a client asks for after n answers. *)
Asked(t, n) == IF Experiment(t) THEN Chosen[t] ELSE n

(* A record was appended to readRecords.  A client stops at the first       *)
(* unknown customer or after ReadCount records, the experiment after one.   *)
GotRecord(t, rec, again) ==
    /\ reads' = [reads EXCEPT ![t] = Append(@, rec)]
    /\ cpc' = [cpc EXCEPT ![t] =
                 IF Experiment(t) \/ rec.cust = -1 \/ Len(reads[t]) + 1 = ReadCount
                 THEN "write" ELSE again]

ReadRecord(t) ==
    LET r == ReadFrom[t] IN
    /\ cpc[t] = "read"
    /\ rmUp[r]
    /\ GotRecord(t, RecordOf(customer_record[r], Asked(t, Len(reads[t]))), "read")
    /\ UNCHANGED <<rmVars, conn, locals, tmVars, backlog, writes, txnId, outcome, failures>>

(* The RM cannot be reached: nothing is read, and the client goes on. *)
ReadRefused(t) ==
    /\ cpc[t] = "read"
    /\ reads[t] = <<>>
    /\ ~rmUp[ReadFrom[t]]
    /\ cpc' = [cpc EXCEPT ![t] = "write"]
    /\ UNCHANGED <<rmVars, conn, locals, tmVars, backlog, reads, writes, txnId, outcome, failures>>

(* The RM crashed after the client connected, before the first read or     *)
(* between two.  recv returns 0 and the record keeps its default, or it    *)
(* returns -1 and the record is an uninitialized buffer (of zeros, say)    *)
(* that the client takes for an answer.                                    *)
ReadLost(t) ==
    /\ \/ cpc[t] = "lost"
       \/ cpc[t] = "read" /\ reads[t] = <<>> /\ ~rmUp[ReadFrom[t]]
    /\ \E rec \in {NoRecord, [cust |-> 0, last |-> 0]} : GotRecord(t, rec, "lost")
    /\ UNCHANGED <<rmVars, conn, locals, tmVars, backlog, writes, txnId, outcome, failures>>

(* Build the write set, connect to the TM and send the transaction. *)
Submit(t) ==
    /\ cpc[t] = "write"
    /\ \E ws \in (IF Experiment(t)
                   THEN {WriteSetOf(reads[t], Chosen[t], WriteShape[t][2])}
                   ELSE WriteSets(reads[t], WriteShape[t][1], WriteShape[t][2])) :
           writes' = [writes EXCEPT ![t] = ws]
    /\ \/ /\ tmUp
          /\ backlog' = Append(backlog, t)
          /\ cpc' = [cpc EXCEPT ![t] = "wait"]
          /\ UNCHANGED outcome
       \/ /\ ~tmUp
          /\ outcome' = [outcome EXCEPT ![t] = "error"]
          /\ cpc' = [cpc EXCEPT ![t] = "done"]
          /\ UNCHANGED backlog
    /\ UNCHANGED <<rmVars, conn, locals, tmVars, reads, txnId, failures>>

-----------------------------------------------------------------------------
(* The transaction manager: one client at a time, one RM at a time. *)

(* Mutants of NextRM: one RM too many, one too few. *)
NextRMPast(again, next) ==
    IF tmRM = NumRM THEN tmPc' = next /\ tmRM' = 0
                    ELSE tmPc' = again /\ tmRM' = tmRM + 1
NextRMStopsEarly(again, next) ==
    IF tmRM + 2 >= NumRM THEN tmPc' = next /\ tmRM' = 0
                         ELSE tmPc' = again /\ tmRM' = tmRM + 1

(* One iteration of a loop over the RMs is over: go on with the next RM at *)
(* "again", or leave the loop for "next".                                  *)
NextRM(again, next) ==
    IF tmRM + 1 = NumRM THEN tmPc' = next /\ tmRM' = 0
                        ELSE tmPc' = again /\ tmRM' = tmRM + 1

Session    == conn[tmTxn][tmRM]
SetSession(s) == conn' = [conn EXCEPT ![tmTxn][tmRM] = s]

(* Answer the client.  Returning closes every socket of the transaction.   *)
Finish(answer) ==
    /\ outcome' = [outcome EXCEPT ![tmTxn] = answer]
    /\ cpc' = [cpc EXCEPT ![tmTxn] = "done"]
    /\ conn' = [conn EXCEPT ![tmTxn] = [r \in RM |-> "none"]]
    /\ tmPc' = "accept" /\ tmTxn' = NoTxn /\ tmRM' = 0

Accept ==
    /\ tmUp
    /\ tmPc = "accept"
    /\ backlog # <<>>
    /\ transaction_id <= MaxTxnId
    /\ tmTxn' = Head(backlog)
    /\ backlog' = Tail(backlog)
    /\ txnId' = [txnId EXCEPT ![Head(backlog)] = transaction_id]
    /\ transaction_id' = transaction_id + 1
    /\ tmPc' = "connect" /\ tmRM' = 0 /\ allOk' = TRUE
    /\ UNCHANGED <<rmVars, conn, locals, tmUp, cpc, reads, writes, outcome, failures>>

Connect ==
    /\ tmPc = "connect"
    /\ rmUp[tmRM]
    /\ SetSession("idle")
    /\ NextRM("connect", "prepare")
    /\ UNCHANGED <<rmVars, locals, tmUp, tmTxn, allOk, transaction_id, backlog, cliVars, failures>>

(* Neither the RM nor its backup answers: the client is told at once. *)
ConnectFailed ==
    /\ tmPc = "connect"
    /\ ~rmUp[tmRM]
    /\ Finish("Failed")
    /\ UNCHANGED <<rmVars, locals, tmUp, allOk, transaction_id, backlog, reads, writes, txnId, failures>>

SendPrepare ==
    /\ tmPc = "prepare"
    /\ SetSession(IF Session = "idle" THEN "prepare" ELSE Session)
    /\ tmPc' = "vote"
    /\ UNCHANGED <<rmVars, locals, tmUp, tmTxn, tmRM, allOk, transaction_id, backlog, cliVars, failures>>

(* Mutant: the vote is not looked at. *)
NeverReadsNo(s) == {FALSE}

(* How the TM may take a session's vote: TRUE is a "No".  A session that    *)
(* broke gives "ErrorNo" or "error" or, when recv fails, whatever the stack *)
(* buffer held.                                                             *)
ReadsAsNo(s) == IF s = "broken" THEN BOOLEAN ELSE {s = "No"}

(* Mutant: the TM waits for a vote however long. *)
RecvVoteOnly ==
    /\ tmPc = "vote"
    /\ Session \in {"Ok", "No"}
    /\ allOk' = (Session # "No")
    /\ IF Session = "No" THEN tmPc' = "decide" /\ tmRM' = 0
                         ELSE NextRM("prepare", "decide")
    /\ SetSession("idle")
    /\ UNCHANGED <<rmVars, locals, tmUp, tmTxn, transaction_id, backlog, cliVars, failures>>

RecvVote ==
    /\ tmPc = "vote"
    /\ Session \in {"Ok", "No", "broken"}
    /\ \E no \in ReadsAsNo(Session) :
           /\ allOk' = ~no
           /\ IF no THEN tmPc' = "decide" /\ tmRM' = 0
                    ELSE NextRM("prepare", "decide")
    /\ SetSession(IF Session = "broken" THEN "broken" ELSE "idle")
    /\ UNCHANGED <<rmVars, locals, tmUp, tmTxn, transaction_id, backlog, cliVars, failures>>

(* Mutant: the decision is sent without waiting for the acknowledgement. *)
SendDecisionNoWait ==
    /\ tmPc = "decide"
    /\ SetSession(IF allOk THEN "commit" ELSE "abort")
    /\ NextRM("decide", "reply")
    /\ UNCHANGED <<rmVars, locals, tmUp, tmTxn, allOk, transaction_id, backlog, cliVars, failures>>

(* The decision goes to every RM, asked or not. *)
SendDecision ==
    /\ tmPc = "decide"
    /\ SetSession(IF Session # "idle" THEN Session
                  ELSE IF allOk THEN "commit" ELSE "abort")
    /\ tmPc' = "ack"
    /\ UNCHANGED <<rmVars, locals, tmUp, tmTxn, tmRM, allOk, transaction_id, backlog, cliVars, failures>>

(* Mutant: an RM that does not acknowledge makes the TM abort the rest. *)
RecvDoneGivesUp ==
    /\ tmPc = "ack"
    /\ Session \in {"Done", "broken"}
    /\ allOk' = (allOk /\ Session = "Done")
    /\ SetSession(IF Session = "broken" THEN "broken" ELSE "idle")
    /\ NextRM("decide", "reply")
    /\ UNCHANGED <<rmVars, locals, tmUp, tmTxn, transaction_id, backlog, cliVars, failures>>

RecvDone ==
    /\ tmPc = "ack"
    /\ Session \in {"Done", "broken"}
    /\ SetSession(IF Session = "broken" THEN "broken" ELSE "idle")
    /\ NextRM("decide", "reply")
    /\ UNCHANGED <<rmVars, locals, tmUp, tmTxn, allOk, transaction_id, backlog, cliVars, failures>>

(* Mutant: "Failed" when some RM is gone, whatever was decided. *)
ReplyCautious ==
    /\ tmPc = "reply"
    /\ Finish(IF allOk /\ \A r \in RM : conn[tmTxn][r] # "broken" THEN "Success" ELSE "Failed")
    /\ UNCHANGED <<rmVars, locals, tmUp, allOk, transaction_id, backlog, reads, writes, txnId, failures>>

Reply ==
    /\ tmPc = "reply"
    /\ Finish(IF allOk THEN "Success" ELSE "Failed")
    /\ UNCHANGED <<rmVars, locals, tmUp, allOk, transaction_id, backlog, reads, writes, txnId, failures>>

(* Mutants: the client takes the end for a refusal; it does not see it. *)
DisconnectAsFailed ==
    /\ backlog' = <<>>
    /\ outcome' = [t \in Txn |-> IF cpc[t] = "wait" THEN "Failed" ELSE outcome[t]]
    /\ cpc' = [t \in Txn |-> IF cpc[t] = "wait" THEN "done" ELSE cpc[t]]
DisconnectUnseen == backlog' = <<>> /\ UNCHANGED <<outcome, cpc>>

(* Every client that is connected reads the end of its connection. *)
DisconnectClients ==
    /\ backlog' = <<>>
    /\ outcome' = [t \in Txn |-> IF cpc[t] = "wait" THEN "ErrorNo" ELSE outcome[t]]
    /\ cpc' = [t \in Txn |-> IF cpc[t] = "wait" THEN "done" ELSE cpc[t]]

(* The TM's process ends.  An RM thread finishes the request it has and     *)
(* then finds its session closed.                                           *)
TMDies ==
    /\ tmUp' = FALSE
    /\ tmPc' = "accept" /\ tmTxn' = NoTxn /\ tmRM' = 0 /\ allOk' = TRUE
    /\ DisconnectClients
    /\ conn' = [t \in Txn |-> [r \in RM |->
                  IF conn[t][r] \in Handling THEN conn[t][r] ELSE "none"]]
    /\ UNCHANGED <<rmVars, locals, transaction_id, reads, writes, txnId, rmCrashes, tmRestarts>>

TMCrash ==
    /\ tmUp
    /\ tmCrashes < MaxTMCrashes
    /\ tmCrashes' = tmCrashes + 1
    /\ TMDies

(* A second write to a session the RM has left raises SIGPIPE, and          *)
(* SendTxnId returns no value when the RM closes: either may end the TM.    *)
TMSigPipe ==
    /\ tmPc \in {"prepare", "decide", "ack"}
    /\ Session = "broken"
    /\ UNCHANGED tmCrashes
    /\ TMDies

(* A new process: transaction ids start over. *)
TMRestart ==
    /\ ~tmUp
    /\ tmRestarts < MaxTMRestarts
    /\ tmRestarts' = tmRestarts + 1
    /\ tmUp' = TRUE
    /\ transaction_id' = 0
    /\ UNCHANGED <<rmVars, conn, locals, tmPc, tmTxn, tmRM, allOk, backlog, cliVars, rmCrashes, tmCrashes>>

-----------------------------------------------------------------------------
(* Resource managers: the handlers, run by the session's thread. *)

(* Mutant: a refusal is not sent. *)
AnswerUnlessNo(t, r, reply) ==
    conn' = [conn EXCEPT ![t][r] = IF tmTxn # t THEN "none"
                                   ELSE IF reply = "No" THEN "idle" ELSE reply]

(* Send the reply and wait for the next request.  The TM of an orphaned     *)
(* session is gone: the thread finds it closed and ends.                    *)
AnswerIs(t, r, reply) ==
    conn' = [conn EXCEPT ![t][r] = IF tmTxn = t THEN reply ELSE "none"]

AtHandler(t, r, s) == conn[t][r] = s

(* Mutant: the prepare lines are not written. *)
TMPrepareInMemory(t, r) ==
    /\ AtHandler(t, r, "prepare")
    /\ \/ /\ Valid(customer_record[r], reads[t])
          /\ txn_log' = [txn_log EXCEPT ![r] =
                            Insert(@, txnId[t], PrepareRecords(t, writes[t]))]
          /\ AnswerIs(t, r, "Ok")
       \/ /\ ~Valid(customer_record[r], reads[t])
          /\ UNCHANGED txn_log
          /\ AnswerIs(t, r, "No")
    /\ UNCHANGED <<rmUp, customer_record, smr_log, files, locals, tmVars, backlog, cliVars, failures>>

(* TMPrepare: validate, and enter the transaction into txn_log ... *)
TMPrepare(t, r) ==
    /\ AtHandler(t, r, "prepare")
    /\ \/ /\ Valid(customer_record[r], reads[t])
          /\ txn_log' = [txn_log EXCEPT ![r] =
                            Insert(@, txnId[t], PrepareRecords(t, writes[t]))]
          /\ conn' = [conn EXCEPT ![t][r] = "prelog"]
       \/ /\ ~Valid(customer_record[r], reads[t])
          /\ UNCHANGED txn_log
          /\ AnswerIs(t, r, "No")
    /\ UNCHANGED <<rmUp, customer_record, smr_log, files, locals, tmVars, backlog, cliVars, failures>>

(* ... and, txn_log_mutex given back, write the lines to the file and vote. *)
LogPrepare(t, r) ==
    /\ AtHandler(t, r, "prelog")
    /\ logFile' = [logFile EXCEPT ![r] =
                     AppendLines(@, txnId[t], PrepareRecords(t, writes[t]))]
    /\ AnswerIs(t, r, "Ok")
    /\ UNCHANGED <<memory, custFile, locals, tmVars, backlog, cliVars, failures>>

(* TMCommit, first part: look the transaction up, and take the bounds of    *)
(* the vector to iterate over.                                              *)
TMCommit(t, r) ==
    LET recs == Entry(txn_log[r], txnId[t]) IN
    /\ AtHandler(t, r, "commit")
    /\ found' = [found EXCEPT ![t][r] = recs]
    /\ applied' = [applied EXCEPT ![t][r] = 0]
    /\ freed' = [freed EXCEPT ![t][r] = FALSE]
    /\ conn' = [conn EXCEPT ![t][r] = IF recs = <<>> THEN "log" ELSE "apply"]
    /\ UNCHANGED <<rmVars, tmVars, backlog, cliVars, failures>>

(* The vectors that txn_log of r holds for these ids are freed, or may have *)
(* been moved.  A TMCommit that is iterating over one goes on regardless.   *)
Free(r, ids) ==
    freed' = [u \in Txn |-> [freed[u] EXCEPT ![r] =
                 conn[u][r] = "apply" /\ (@ \/ txnId[u] \in ids)]]

(* AdminThread serves one request: it appends the operation to smr_log and *)
(* applies it; a cluster of one node has no peer to replicate to.          *)
AdminThread(r, rec) ==
    /\ smr_log' = [smr_log EXCEPT ![r] = Append(@, OpOf(rec))]
    /\ customer_record' = [customer_record EXCEPT ![r][rec.cust] = rec.num]

(* TMCommit hands its next record to the admin thread and waits for the    *)
(* promise.                                                                *)
CreateRegularLaptop(t, r) ==
    LET i == applied[t][r] + 1 IN
    /\ AtHandler(t, r, "apply")
    /\ AdminThread(r, found[t][r][i])
    /\ applied' = [applied EXCEPT ![t][r] = i]
    /\ conn' = [conn EXCEPT ![t][r] = IF i = Len(found[t][r]) THEN "log" ELSE "apply"]
    /\ UNCHANGED <<rmUp, txn_log, files, found, freed, tmVars, backlog, cliVars, failures>>

(* Mutant: the commit lines are not written. *)
LogCommitInMemory(t, r) ==
    /\ AtHandler(t, r, "log")
    /\ txn_log' = [txn_log EXCEPT ![r] = CommitLog(txnId[t], found[t][r])]
    /\ Free(r, TxnId)
    /\ conn' = [conn EXCEPT ![t][r] = "trunc"]
    /\ UNCHANGED <<rmUp, customer_record, smr_log, files, found, applied, tmVars, backlog, cliVars, failures>>

(* txn_log is replaced, whatever else it held; the commit lines are written. *)
LogCommit(t, r) ==
    /\ AtHandler(t, r, "log")
    /\ txn_log' = [txn_log EXCEPT ![r] = CommitLog(txnId[t], found[t][r])]
    /\ Free(r, TxnId)
    /\ logFile' = [logFile EXCEPT ![r] =
                     AppendLines(@, txnId[t], CommitRecords(found[t][r]))]
    /\ conn' = [conn EXCEPT ![t][r] = "trunc"]
    /\ UNCHANGED <<rmUp, customer_record, smr_log, custFile, found, applied, tmVars, backlog, cliVars, failures>>

(* store_cust_record_txn: opening the file empties it ... *)
TruncateCust(t, r) ==
    /\ AtHandler(t, r, "trunc")
    /\ \A u \in Txn : conn[u][r] # "store"        \* cust_write_file_mutex
    /\ custFile' = [custFile EXCEPT ![r] = EmptyRecords]
    /\ conn' = [conn EXCEPT ![t][r] = "store"]
    /\ UNCHANGED <<memory, logFile, locals, tmVars, backlog, cliVars, failures>>

(* ... and closing it writes the records out. *)
StoreCust(t, r) ==
    /\ AtHandler(t, r, "store")
    /\ custFile' = [custFile EXCEPT ![r] = customer_record[r]]
    /\ AnswerIs(t, r, "Done")
    /\ UNCHANGED <<memory, logFile, locals, tmVars, backlog, cliVars, failures>>

TMAbort(t, r) ==
    LET rec == AbortRecord(t) IN
    /\ AtHandler(t, r, "abort")
    /\ txn_log' = [txn_log EXCEPT ![r] = UpdateValue(@, txnId[t], rec)]
    /\ Free(r, {txnId[t]})
    /\ logFile' = [logFile EXCEPT ![r] = AppendLines(@, txnId[t], <<rec>>)]
    /\ AnswerIs(t, r, "Done")
    /\ UNCHANGED <<rmUp, customer_record, smr_log, custFile, found, applied, tmVars, backlog, cliVars, failures>>

(* The TM died between the identification message and the body.  The id of  *)
(* a decision is then what readInt leaves in a register, part of an address *)
(* and never an id in use.  A commit of it empties txn_log.  An abort of it *)
(* enters a record under that id, in memory and in the file; the maps of    *)
(* this model hold the ids of transactions, and nobody looks that one up.   *)
TornRequest(t, r) ==
    /\ tmTxn # t
    /\ \/ /\ AtHandler(t, r, "commit")
          /\ txn_log' = [txn_log EXCEPT ![r] = EmptyLog]
          /\ Free(r, TxnId)
          /\ conn' = [conn EXCEPT ![t][r] = "trunc"]
       \/ /\ conn[t][r] \in {"prepare", "abort"}
          /\ conn' = [conn EXCEPT ![t][r] = "none"]
          /\ UNCHANGED <<txn_log, freed>>
    /\ UNCHANGED <<rmUp, customer_record, smr_log, files, found, applied, tmVars, backlog,
                   cliVars, failures>>

(* The RM's process ends: memory is lost and every session of it breaks. *)
RMDies(r) ==
    /\ rmUp' = [rmUp EXCEPT ![r] = FALSE]
    /\ customer_record' = [customer_record EXCEPT ![r] = EmptyRecords]
    /\ txn_log' = [txn_log EXCEPT ![r] = EmptyLog]
    /\ smr_log' = [smr_log EXCEPT ![r] = <<>>]
    /\ found' = [t \in Txn |-> [found[t] EXCEPT ![r] = <<>>]]
    /\ applied' = [t \in Txn |-> [applied[t] EXCEPT ![r] = 0]]
    /\ freed' = [t \in Txn |-> [freed[t] EXCEPT ![r] = FALSE]]
    /\ conn' = [t \in Txn |-> [conn[t] EXCEPT ![r] =
                  IF tmTxn = t /\ @ # "none" THEN "broken" ELSE "none"]]
    /\ cpc' = [t \in Txn |->
                 IF cpc[t] = "read" /\ ReadFrom[t] = r /\ reads[t] # <<>> THEN "lost" ELSE cpc[t]]
    /\ UNCHANGED <<files, tmVars, backlog, reads, writes, txnId, outcome, tmCrashes, tmRestarts>>

RMCrash(r) ==
    /\ rmUp[r]
    /\ rmCrashes < MaxRMCrashes
    /\ rmCrashes' = rmCrashes + 1
    /\ RMDies(r)

(* What memory that was a vector of log records may hold once it is freed:  *)
(* a record of any transaction, or what is no record at all.                *)
Leftover ==
    {[op |-> 1, cust |-> -1, num |-> 0, by |-> Seed]} \cup
    UNION {{PrepareRecords(u, writes[u])[i] : i \in 1 .. Len(writes[u])} : u \in Txn}

(* Memory that TMCommit still iterates over is used for something else, or  *)
(* reading it ends the process.                                             *)
FreedMemory(t, r) ==
    /\ AtHandler(t, r, "apply")
    /\ freed[t][r]
    /\ \/ /\ \E rec \in Leftover : found' = [found EXCEPT ![t][r][applied[t][r] + 1] = rec]
          /\ UNCHANGED <<rmVars, conn, applied, freed, tmVars, backlog, cliVars, failures>>
       \/ RMDies(r) /\ UNCHANGED rmCrashes

(* The constructor: recovery_cust_rec, then recovery_txn_log. *)
RMRestart(r) ==
    /\ ~rmUp[r]
    /\ rmUp' = [rmUp EXCEPT ![r] = TRUE]
    /\ customer_record' = [customer_record EXCEPT ![r] = custFile[r]]
    /\ txn_log' = [txn_log EXCEPT ![r] = Recovered(logFile[r])]
    /\ UNCHANGED <<smr_log, files, conn, locals, tmVars, backlog, cliVars, failures>>

-----------------------------------------------------------------------------
ClientStep(t) == ReadRecord(t) \/ ReadRefused(t) \/ ReadLost(t) \/ Submit(t)

TMStep == \/ Accept \/ Connect \/ ConnectFailed \/ SendPrepare \/ RecvVote
          \/ SendDecision \/ RecvDone \/ Reply

RMStep(t, r) == \/ TMPrepare(t, r) \/ LogPrepare(t, r) \/ TMCommit(t, r)
                \/ CreateRegularLaptop(t, r) \/ LogCommit(t, r) \/ TruncateCust(t, r)
                \/ StoreCust(t, r) \/ TMAbort(t, r) \/ TornRequest(t, r)

Fault == \/ TMCrash \/ TMSigPipe \/ TMRestart
         \/ \E r \in RM : RMCrash(r) \/ RMRestart(r)
         \/ \E t \in Txn, r \in RM : FreedMemory(t, r)

(* Every client has its answer and no handler is left running. *)
Terminating ==
    /\ \A t \in Txn : cpc[t] = "done" /\ \A r \in RM : conn[t][r] \notin Handling
    /\ UNCHANGED vars

Next == \/ \E t \in Txn : ClientStep(t)
        \/ TMStep
        \/ \E t \in Txn, r \in RM : RMStep(t, r)
        \/ Fault
        \/ Terminating

Spec == Init /\ [][Next]_vars

(* A runnable thread or process runs; nothing forces a fault or a restart. *)
Fairness == /\ \A t \in Txn : WF_vars(ClientStep(t))
            /\ WF_vars(TMStep)
            /\ \A t \in Txn, r \in RM : WF_vars(RMStep(t, r))

FairSpec == Spec /\ Fairness

-----------------------------------------------------------------------------
(* Properties. *)

(* Every variable keeps its type.  TMCommit never indexes past the records *)
(* it found, and an RM that is down serves no session.                     *)
TypeOK ==
    /\ rmUp \in [RM -> BOOLEAN]
    /\ customer_record \in [RM -> CustomerMap] /\ custFile \in [RM -> CustomerMap]
    /\ txn_log \in [RM -> TxnLogMap] /\ logFile \in [RM -> LogFile]
    /\ smr_log \in [RM -> Seq(MapOp)]
    /\ conn \in [Txn -> [RM -> ConnState]]
    /\ found \in [Txn -> [RM -> Seq(TxnLogRequest)]]
    /\ applied \in [Txn -> [RM -> Nat]] /\ freed \in [Txn -> [RM -> BOOLEAN]]
    /\ tmUp \in BOOLEAN /\ allOk \in BOOLEAN
    /\ tmPc \in {"accept", "connect", "prepare", "vote", "decide", "ack", "reply"}
    /\ tmTxn \in Txn \cup {NoTxn} /\ tmRM \in RM
    /\ transaction_id \in 0 .. MaxTxnId + 1
    /\ backlog \in Seq(Txn)
    /\ cpc \in [Txn -> {"read", "lost", "write", "wait", "done"}]
    /\ reads \in [Txn -> Seq(CustomerRecord)]
    /\ writes \in [Txn -> Seq(CustomerOrder)]
    /\ txnId \in [Txn -> TxnId]
    /\ outcome \in [Txn -> {"none", "Success", "Failed", "ErrorNo", "error"}]
    /\ rmCrashes \in Nat /\ tmCrashes \in Nat /\ tmRestarts \in Nat

(* While the TM is the one process that was started first, at most one     *)
(* handler of the whole system is running: what the code leaves unlocked   *)
(* (validation, iteration over txn_log, txn_log = new_txn_log) never races. *)
OneHandler ==
    \A t, u \in Txn, r, s \in RM :
        conn[t][r] \in Handling /\ conn[u][s] \in Handling => t = u /\ r = s

(* When a commit request reaches an RM, everything its client read is      *)
(* still what the RM holds: what TMPrepare validated has not changed.      *)
CommitsOnCurrentReads ==
    \A t \in Txn, r \in RM : conn[t][r] = "commit" =>
        \A i \in 1 .. Len(reads[t]) : reads[t][i] = RecordOf(customer_record[r], Asked(t, i - 1))

(* What a client or the TM sends of a transaction. *)
Message(t) ==
    [id |-> txnId[t], reads |-> reads[t],
     writes |-> [i \in 1 .. Len(writes[t]) |->
                   [cust |-> writes[t][i].cust, num |-> writes[t][i].num, type |-> 1]]]

(* An RM decodes the transaction that the TM received and sent on; of one   *)
(* that arrives in pieces it sees the orders in the first piece, and for    *)
(* every other one an order number 0 of customer 0.                         *)
DecodesAsSent ==
    \A t \in Txn, r \in RM : conn[t][r] = "prepare" =>
        /\ W!Unmarshal(W!Recv(W!Marshal(Message(t)), W!Size(Message(t)))) = Message(t)
        /\ \A n \in 12 .. W!Size(Message(t)) : W!PieceDecodes(Message(t), n)

(* The orders an RM applies for a customer are numbered 1, 2, 3, ... : no   *)
(* client's orders overwrite another's, and none is applied twice.         *)
OrderNumbersConsecutive ==
    \A r \in RM : \A i \in DOMAIN smr_log[r] :
        smr_log[r][i].num =
            Cardinality({j \in 1 .. i : smr_log[r][j].cust = smr_log[r][i].cust})

(* Between two transactions of the TM all RMs hold the same orders.        *)
ReplicasConverge ==
    tmUp /\ tmPc = "accept" =>
        \A r, s \in RM : customer_record[r] = customer_record[s]

(* A client that is told "Success" finds its whole transaction, and nothing *)
(* in the middle of it, among the operations of every RM.                   *)
SuccessMeansApplied ==
    \A t \in Txn, r \in RM : outcome[t] = "Success" =>
        \E k \in 0 .. Len(smr_log[r]) - Len(writes[t]) : \A i \in 1 .. Len(writes[t]) :
            smr_log[r][k + i] = OpOf(PrepareRecords(t, writes[t])[i])

(* A line of transaction t with operation op is in the log file of r. *)
Logged(t, r, op) ==
    \E id \in TxnId : \E i \in DOMAIN logFile[r][id] :
        logFile[r][id][i].by = t /\ logFile[r][id][i].op = op

(* The log files never disagree: no transaction has a commit line at one   *)
(* RM and an abort line at another, whoever crashed in between.            *)
Agreement ==
    \A t \in Txn, r, s \in RM : ~(Logged(t, r, 2) /\ Logged(t, s, 3))

(* A transaction whose client was told "Failed" has a commit line nowhere. *)
FailedNeverCommitted ==
    \A t \in Txn : outcome[t] = "Failed" => \A r \in RM : ~Logged(t, r, 2)

(* A commit line at one RM means that every RM had logged the prepare: the  *)
(* TM commits only if all RMs voted.                                        *)
CommitNeedsEveryVote ==
    \A t \in Txn, r, s \in RM : Logged(t, r, 2) => Logged(t, s, 1)

(* The file of customer records never holds the value of a transaction     *)
(* whose commit is not in the log file.                                    *)
OnlyCommittedOnDisk ==
    \A r \in RM, k \in Key : custFile[r][k] # Absent =>
        \E id \in TxnId : \E i \in DOMAIN logFile[r][id] :
            LET line == logFile[r][id][i] IN
            line.op = 2 /\ line.cust = k /\ line.num = custFile[r][k]

(* An RM that is up and has nothing in progress holds every order that its *)
(* log file says was committed: a crash loses none.                        *)
RecoveryRestoresCommitted ==
    \A r \in RM :
        rmUp[r] /\ (\A t \in Txn : conn[t][r] \notin Handling) =>
            \A id \in TxnId : \A i \in DOMAIN logFile[r][id] :
                LET line == logFile[r][id][i]
                    last == customer_record[r][line.cust] IN
                line.op = 2 => last # Absent /\ last >= line.num

(* Nothing is applied, and no commit line is written, before the record it *)
(* comes from is in the log file as a prepare (or abort) line.  The lock   *)
(* is given back between txn_log and the file: what keeps a commit out of  *)
(* this gap is that no other handler runs.                                 *)
WriteAhead ==
    \A r \in RM :
        LET Before(cust, num, by) ==
                \E id \in TxnId : \E i \in DOMAIN logFile[r][id] :
                    LET line == logFile[r][id][i] IN
                    line.op # 2 /\ line.cust = cust /\ line.num = num /\ line.by = by
        IN /\ \A i \in DOMAIN smr_log[r] :
                 Before(smr_log[r][i].cust, smr_log[r][i].num, smr_log[r][i].by)
           /\ \A id \in TxnId : \A i \in DOMAIN logFile[r][id] :
                 LET line == logFile[r][id][i] IN Before(line.cust, line.num, line.by)

(* Every client gets an answer, even if RMs and the TM crash for good: no   *)
(* handler, and no wait of the TM for a vote or an acknowledgement, hangs.  *)
AllAnswered == \A t \in Txn : <>(cpc[t] = "done")

(* While nothing crashes, no RM is left in doubt: a transaction it has     *)
(* prepared is committed or aborted in its log file.                       *)
PreparedIsDecided ==
    \A t \in Txn, r \in RM : Logged(t, r, 1) ~> (Logged(t, r, 2) \/ Logged(t, r, 3))

-----------------------------------------------------------------------------
(* The commit protocol, seen through the log files, keeps AtomicCommit's    *)
(* promise.  A client that was told neither "Success" nor "Failed" was told *)
(* nothing.                                                                 *)
StateAt(t, r) == IF Logged(t, r, 2) THEN "committed"
                 ELSE IF Logged(t, r, 3) THEN "aborted"
                 ELSE IF Logged(t, r, 1) THEN "prepared"
                 ELSE "working"

AC == INSTANCE AtomicCommit WITH
        rmState <- [t \in Txn |-> [r \in RM |-> StateAt(t, r)]],
        answer  <- [t \in Txn |-> IF outcome[t] \in {"Success", "Failed"}
                                  THEN outcome[t] ELSE "none"]

ImplementsAtomicCommit == AC!ACSpec
=============================================================================
