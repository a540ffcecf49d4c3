----------------------------- MODULE Replication ------------------------------
(***************************************************************************)
(* One RM cluster: a primary (node 0), its backup (node 1), and the        *)
(* transaction manager (TM) that prepares and commits transactions at one  *)
(* of them.  The nodes run the same program; each knows the other as its   *)
(* only peer.                                                              *)
(*                                                                         *)
(* The TM serves one transaction at a time and waits for every answer, so  *)
(* its steps, those of the handler it has called and those of the admin    *)
(* thread the handler waits for form one thread of control, pc.  The       *)
(* threads that serve the peer's sessions run beside it.                   *)
(*                                                                         *)
(* sock[n] is the client socket peerNodes[0] of node n together with the   *)
(* thread that serves its session at the other node:                       *)
(*   off        not initialised                                            *)
(*   PrPrepare  a transaction on its way to, or in, PeerPrepare            *)
(*   Ok         PeerPrepare's answer on its way                            *)
(*   id         the thread waits for an identification message             *)
(*   badid      a replication request on its way to that thread            *)
(*   pfa        the thread waits for a replication request in IFAFlow      *)
(*   req        a replication request on its way to IFAFlow                *)
(*   done       IFAFlow's answer on its way                                *)
(*   dead       initialised, but the thread at the other end is gone       *)
(***************************************************************************)
EXTENDS Integers, Sequences, SequencesExt

CONSTANTS
    Work,        \* Work[t]: the customers of the orders of transaction t
    MaxOrders,   \* no transaction has more orders
    Absent,      \* a customer without a record
    Returns,     \* the nodes that may be started again after a crash
    MaxCrashes   \* bound on crashes

Txn      == DOMAIN Work
Customer == UNION {{Work[t][i] : i \in DOMAIN Work[t]} : t \in Txn}
Node     == {0, 1}
Peer(n)  == 1 - n

ASSUME ReplicationAssumption ==
    /\ MaxOrders \in Nat /\ MaxCrashes \in Nat
    /\ Work \in Seq(Seq(Customer)) \ {<<>>}
    /\ \A t \in Txn : Len(Work[t]) \in 1 .. MaxOrders
    /\ Absent \notin Int
    /\ Returns \subseteq Node

(* Clients number their orders so that a later one has a larger number. *)
MapOp        == [cust : Customer, num : Nat]
Order(t, i)  == [cust |-> Work[t][i], num |-> (t - 1) * MaxOrders + i]
EmptyRecords == [c \in Customer |-> Absent]

(* A replication request: committed_index and the operation.  The session   *)
(* an orphan thread serves has lost its other end.                         *)
Request == [idx : Int, op : MapOp]
Orphan  == [kind : {"prepare"}, txn : Txn] \cup [kind : {"req"}, r : Request]
             \cup [kind : {"eof"}]

VARIABLES
    (* memory of the nodes; last_index is always Len(smr_log) - 1 *)
    up, customer_record, smr_log, committed_index, primary_id, livePeers,
    (* their files: the records, and which lines <<txn, operation>> are logged *)
    custFile, logFile,
    (* sessions between them *)
    sock, request, orphans,
    (* the TM and what it waits for: its place, the transaction, the node   *)
    (* that serves it, how many orders are applied, sendAllRequests' index  *)
    pc, txn, at, applied, sent,
    (* whether the TM is there, and how many crashes there were *)
    tmUp, crashes

memory   == <<up, customer_record, smr_log, committed_index, primary_id, livePeers>>
files    == <<custFile, logFile>>
sessions == <<sock, request, orphans>>
control  == <<pc, txn, at, applied, sent>>
faults   == <<tmUp, crashes>>
vars     == <<memory, files, sessions, control, faults>>

last_index == [n \in Node |-> Len(smr_log[n]) - 1]

Init ==
    /\ up = [n \in Node |-> TRUE]
    /\ customer_record = [n \in Node |-> EmptyRecords]
    /\ smr_log = [n \in Node |-> <<>>]
    /\ committed_index = [n \in Node |-> -1]
    /\ primary_id = [n \in Node |-> -1]
    /\ livePeers = [n \in Node |-> FALSE]
    /\ custFile = [n \in Node |-> EmptyRecords]
    /\ logFile = [n \in Node |-> {}]
    /\ sock = [n \in Node |-> "off"]
    /\ request = [n \in Node |-> [idx |-> -1, op |-> Order(1, 1)]]
    /\ orphans = [n \in Node |-> <<>>]
    /\ pc = "connect" /\ txn = 1 /\ at = 0 /\ applied = 0 /\ sent = 0
    /\ tmUp = TRUE /\ crashes = 0

-----------------------------------------------------------------------------
(* The TM. *)

NextTxn == pc' = "connect" /\ txn' = txn + 1 /\ at' = 0 /\ applied' = 0 /\ sent' = 0

(* The primary first, then its backup; without both the client is refused. *)
Connect ==
    /\ tmUp
    /\ pc = "connect"
    /\ txn \in Txn
    /\ IF \E n \in Node : up[n]
       THEN /\ at' = IF up[0] THEN 0 ELSE 1
            /\ pc' = "prepare"
            /\ UNCHANGED <<txn, applied, sent>>
       ELSE NextTxn
    /\ UNCHANGED <<memory, files, sessions, faults>>

(* The other clusters' votes decide as much as this one's. *)
Decide ==
    /\ pc = "decide"
    /\ pc' \in {"order", "abort"}
    /\ UNCHANGED <<memory, files, sessions, txn, at, applied, sent, faults>>

-----------------------------------------------------------------------------
(* The handlers at the node the TM is connected to. *)

Log(n, t, operation) == logFile' = [logFile EXCEPT ![n] = @ \cup {<<t, operation>>}]

(* Validation depends on reads that are not modelled here. *)
TMPrepare ==
    /\ pc = "prepare"
    /\ \/ Log(at, txn, 1) /\ pc' = "copy"
       \/ UNCHANGED logFile /\ pc' = "abort"
    /\ UNCHANGED <<memory, custFile, sessions, txn, at, applied, sent, faults>>

(* ClientSocket::Init succeeds on an unused socket if the peer is up. *)
CanInit(n) == sock[n] = "off" /\ up[Peer(n)]

(* The transaction is sent only over a session that is opened for it.  The  *)
(* session is kept.                                                         *)
CopyTranlogReplica ==
    /\ pc = "copy"
    /\ IF CanInit(at)
       THEN /\ sock' = [sock EXCEPT ![at] = "PrPrepare"]
            /\ livePeers' = [livePeers EXCEPT ![at] = TRUE]
            /\ pc' = "copied"
       ELSE UNCHANGED <<sock, livePeers>> /\ pc' = "decide"
    /\ UNCHANGED <<up, customer_record, smr_log, committed_index, primary_id, files,
                   request, orphans, txn, at, applied, sent, faults>>

(* Whatever the peer answered, the vote is Ok. *)
Copied ==
    /\ pc = "copied"
    /\ sock[at] \in {"Ok", "dead"}
    /\ sock' = [sock EXCEPT ![at] = IF @ = "Ok" THEN "id" ELSE "off"]
    /\ pc' = "decide"
    /\ UNCHANGED <<memory, files, request, orphans, txn, at, applied, sent, faults>>

TMAbort ==
    /\ pc = "abort"
    /\ Log(at, txn, 3)
    /\ NextTxn
    /\ UNCHANGED <<memory, custFile, sessions, faults>>

(* TMCommit, its last part: the log file and the customer file. *)
TMCommit ==
    /\ pc = "persist"
    /\ Log(at, txn, 2)
    /\ custFile' = [custFile EXCEPT ![at] = customer_record[at]]
    /\ NextTxn
    /\ UNCHANGED <<memory, sessions, faults>>

-----------------------------------------------------------------------------
(* AdminThread, for each order of TMCommit. *)

(* Mutant: the loop goes round once more. *)
CatchUpOnceMore(n) ==
    IF committed_index[n] <= last_index[n] /\ smr_log[n] # <<>>
    THEN /\ customer_record' = [customer_record EXCEPT
                                  ![n][Last(smr_log[n]).cust] = Last(smr_log[n]).num]
         /\ committed_index' = [committed_index EXCEPT ![n] = last_index[n] + 1]
    ELSE UNCHANGED <<customer_record, committed_index>>

(* while (committed_index < last_index) updateCustomerRecord(smr_log[last_index]) *)
CatchUp(n) ==
    IF committed_index[n] < last_index[n]
    THEN /\ customer_record' = [customer_record EXCEPT
                                  ![n][Last(smr_log[n]).cust] = Last(smr_log[n]).num]
         /\ committed_index' = [committed_index EXCEPT ![n] = last_index[n]]
    ELSE UNCHANGED <<customer_record, committed_index>>

(* The handler waits meanwhile; so does, here, whatever the peer had sent.  *)
BecomePrimary ==
    /\ pc = "order"
    /\ pc' = "append"
    /\ IF primary_id[at] # at
       THEN /\ primary_id' = [primary_id EXCEPT ![at] = at]
            /\ IF CanInit(at)
               THEN /\ sock' = [sock EXCEPT ![at] = "pfa"]
                    /\ livePeers' = [livePeers EXCEPT ![at] = TRUE]
               ELSE UNCHANGED <<sock, livePeers>>
            /\ CatchUp(at)
       ELSE UNCHANGED <<primary_id, sock, livePeers, customer_record, committed_index>>
    /\ UNCHANGED <<up, smr_log, files, request, orphans, txn, at, applied, sent, faults>>

(* Mutant: the order is logged, and left for later. *)
AppendUnapplied ==
    LET op == Order(txn, applied + 1) IN
    /\ pc = "append"
    /\ smr_log' = [smr_log EXCEPT ![at] = Append(@, op)]
    /\ committed_index' = [committed_index EXCEPT ![at] = @ + 1]
    /\ pc' = "replicate"
    /\ UNCHANGED <<up, customer_record, primary_id, livePeers, files, sessions, txn, at,
                   applied, sent, faults>>

AppendOrder ==
    LET op == Order(txn, applied + 1) IN
    /\ pc = "append"
    /\ smr_log' = [smr_log EXCEPT ![at] = Append(@, op)]
    /\ customer_record' = [customer_record EXCEPT ![at][op.cust] = op.num]
    /\ committed_index' = [committed_index EXCEPT ![at] = @ + 1]
    /\ pc' = "replicate"
    /\ UNCHANGED <<up, primary_id, livePeers, files, sessions, txn, at, applied, sent, faults>>

(* The promise has its value: the next order, or the end of the commit. *)
Answer ==
    /\ applied' = applied + 1
    /\ pc' = IF applied' = Len(Work[txn]) THEN "persist" ELSE "order"
    /\ UNCHANGED <<txn, at>>

(* SendReplicationReq: an unused socket fails at once, a closed one when    *)
(* the answer is awaited.  A thread that waits for an identification        *)
(* message takes the request for one.                                       *)
SendReplicationReq(n, idx, op) ==
    /\ sock' = [sock EXCEPT ![n] = CASE @ = "pfa" -> "req"
                                     [] @ = "id"  -> "badid"
                                     [] OTHER     -> @]
    /\ request' = [request EXCEPT ![n] = [idx |-> idx, op |-> op]]

(* Mutant: only an answer ends the wait. *)
AnsweredDone(n) == sock[n] = "done"

(* The end of SendReplicationReq: "DONE" or "FAILED". *)
Answered(n) == sock[n] \in {"done", "dead", "off"}
AfterAnswer(n) == sock' = [sock EXCEPT ![n] = IF @ = "done" THEN "pfa" ELSE "off"]

(* Mutant: a reconnected backup is sent what follows from now on. *)
ReplicateNewest ==
    /\ pc = "replicate"
    /\ IF ~livePeers[at] /\ CanInit(at)
       THEN /\ sock' = [sock EXCEPT ![at] = "pfa"]
            /\ livePeers' = [livePeers EXCEPT ![at] = TRUE]
            /\ Answer
            /\ UNCHANGED <<request, sent>>
       ELSE IF ~livePeers[at]
       THEN Answer /\ UNCHANGED <<sock, livePeers, request, sent>>
       ELSE /\ SendReplicationReq(at, committed_index[at], Last(smr_log[at]))
            /\ pc' = "reply"
            /\ UNCHANGED <<livePeers, txn, at, applied, sent>>
    /\ UNCHANGED <<up, customer_record, smr_log, committed_index, primary_id, files,
                   orphans, faults>>

(* A live peer gets the order; another one is tried again, and is sent the  *)
(* whole log.                                                               *)
Replicate ==
    /\ pc = "replicate"
    /\ IF livePeers[at]
       THEN /\ SendReplicationReq(at, committed_index[at], Order(txn, applied + 1))
            /\ pc' = "reply"
            /\ UNCHANGED <<livePeers, txn, at, applied, sent>>
       ELSE IF CanInit(at)
       THEN /\ sock' = [sock EXCEPT ![at] = "pfa"]
            /\ livePeers' = [livePeers EXCEPT ![at] = TRUE]
            /\ sent' = 0
            /\ pc' = "sendAll"
            /\ UNCHANGED <<request, txn, at, applied>>
       ELSE Answer /\ UNCHANGED <<sock, livePeers, request, sent>>
    /\ UNCHANGED <<up, customer_record, smr_log, committed_index, primary_id, files,
                   orphans, faults>>

Replicated ==
    /\ pc = "reply"
    /\ Answered(at)
    /\ AfterAnswer(at)
    /\ livePeers' = [livePeers EXCEPT ![at] = sock[at] = "done"]
    /\ Answer
    /\ UNCHANGED <<up, customer_record, smr_log, committed_index, primary_id, files,
                   request, orphans, sent, faults>>

(* Mutant: the last entry is not sent. *)
SendAllButLast ==
    /\ pc = "sendAll"
    /\ IF sent + 1 < Len(smr_log[at])
       THEN /\ SendReplicationReq(at, sent - 1, smr_log[at][sent + 1])
            /\ pc' = "allReply"
            /\ UNCHANGED <<txn, at, applied>>
       ELSE Answer /\ UNCHANGED <<sock, request>>
    /\ UNCHANGED <<memory, files, orphans, sent, faults>>

(* sendAllRequests: committed_index is one behind; failures are ignored. *)
SendAllRequests ==
    /\ pc = "sendAll"
    /\ IF sent < Len(smr_log[at])
       THEN /\ SendReplicationReq(at, sent - 1, smr_log[at][sent + 1])
            /\ pc' = "allReply"
            /\ UNCHANGED <<txn, at, applied>>
       ELSE Answer /\ UNCHANGED <<sock, request>>
    /\ UNCHANGED <<memory, files, orphans, sent, faults>>

AllReplied ==
    /\ pc = "allReply"
    /\ Answered(at)
    /\ AfterAnswer(at)
    /\ sent' = sent + 1
    /\ pc' = "sendAll"
    /\ UNCHANGED <<memory, files, request, orphans, txn, at, applied, faults>>

-----------------------------------------------------------------------------
(* A node's process ends: memory and sessions are lost, and a thread at the *)
(* other node that served one of them is an orphan.  A TM that was being    *)
(* served here gives this cluster's part of the transaction up and goes on  *)
(* to the next, or its own process ends: by SIGPIPE at its second write, or *)
(* where SendTxnId gets no answer and returns no value.                     *)
OrphanOf(n) ==
    CASE sock[n] = "PrPrepare"       -> <<[kind |-> "prepare", txn |-> txn]>>
      [] sock[n] = "req"             -> <<[kind |-> "req", r |-> request[n]]>>
      [] sock[n] \in {"pfa", "done"} -> <<[kind |-> "eof"]>>
      [] OTHER                       -> <<>>

Dies(n) ==
    /\ up' = [up EXCEPT ![n] = FALSE]
    /\ customer_record' = [customer_record EXCEPT ![n] = EmptyRecords]
    /\ smr_log' = [smr_log EXCEPT ![n] = <<>>]
    /\ committed_index' = [committed_index EXCEPT ![n] = -1]
    /\ primary_id' = [primary_id EXCEPT ![n] = -1]
    /\ livePeers' = [livePeers EXCEPT ![n] = FALSE]
    /\ sock' = [m \in Node |-> IF m = n \/ sock[m] = "off" THEN "off" ELSE "dead"]
    /\ orphans' = [m \in Node |-> IF m = n THEN <<>> ELSE orphans[m] \o OrphanOf(n)]
    /\ IF at = n /\ pc # "connect"
       THEN NextTxn /\ tmUp' \in BOOLEAN
       ELSE UNCHANGED <<control, tmUp>>
    /\ UNCHANGED <<files, request>>

Crash(n) ==
    /\ up[n]
    /\ crashes < MaxCrashes
    /\ crashes' = crashes + 1
    /\ Dies(n)

(* The constructor reads the customer file; smr_log starts empty. *)
Restart(n) ==
    /\ n \in Returns
    /\ ~up[n]
    /\ up' = [up EXCEPT ![n] = TRUE]
    /\ customer_record' = [customer_record EXCEPT ![n] = custFile[n]]
    /\ UNCHANGED <<smr_log, committed_index, primary_id, livePeers, files, sessions,
                   control, faults>>

-----------------------------------------------------------------------------
(* The threads at node n that serve the peer's sessions. *)

PeerPrepare(n) ==
    /\ sock[Peer(n)] = "PrPrepare"
    /\ Log(n, txn, 1)
    /\ sock' = [sock EXCEPT ![Peer(n)] = "Ok"]
    /\ UNCHANGED <<memory, custFile, request, orphans, control, faults>>

(* A message that is no identification ends the thread. *)
UnknownID(n) ==
    /\ sock[Peer(n)] = "badid"
    /\ sock' = [sock EXCEPT ![Peer(n)] = "dead"]
    /\ UNCHANGED <<memory, files, request, orphans, control, faults>>

(* One request in IFAFlow: the operation is added to the log, and the one   *)
(* at the request's committed_index is applied.                             *)
Take(n, r) ==
    LET log == Append(smr_log[n], r.op)
        op  == log[r.idx + 1] IN
    /\ primary_id' = [primary_id EXCEPT ![n] = Peer(n)]
    /\ smr_log' = [smr_log EXCEPT ![n] = log]
    /\ IF r.idx >= 0
       THEN /\ customer_record' = [customer_record EXCEPT ![n][op.cust] = op.num]
            /\ committed_index' = [committed_index EXCEPT ![n] = @ + 1]
       ELSE UNCHANGED <<customer_record, committed_index>>
    /\ UNCHANGED <<up, livePeers>>

(* smr_log.at throws past the end; nothing catches it. *)
InRange(n, r) == r.idx <= Len(smr_log[n])

IFAFlow(n) ==
    /\ sock[Peer(n)] = "req"
    /\ IF InRange(n, request[Peer(n)])
       THEN /\ Take(n, request[Peer(n)])
            /\ sock' = [sock EXCEPT ![Peer(n)] = "done"]
            /\ UNCHANGED <<files, request, orphans, control, tmUp>>
       ELSE Dies(n)
    /\ UNCHANGED crashes

(* An orphan does what it was sent last; then it finds the session closed. *)
OrphanStep(n) ==
    /\ \E i \in DOMAIN orphans[n] :
         LET o == orphans[n][i] IN
         \/ /\ o.kind = "prepare"
            /\ Log(n, o.txn, 1)
            /\ orphans' = [orphans EXCEPT ![n] = RemoveAt(@, i)]
            /\ UNCHANGED <<memory, custFile, sock, request, control, tmUp>>
         \/ /\ o.kind = "req"
            /\ IF InRange(n, o.r)
               THEN /\ Take(n, o.r)
                    /\ orphans' = [orphans EXCEPT ![n][i] = [kind |-> "eof"]]
                    /\ UNCHANGED <<files, sock, request, control, tmUp>>
               ELSE Dies(n)
         \/ /\ o.kind = "eof"
            /\ primary_id' = [primary_id EXCEPT ![n] = -1]
            /\ orphans' = [orphans EXCEPT ![n] = RemoveAt(@, i)]
            /\ UNCHANGED <<up, customer_record, smr_log, committed_index, livePeers,
                           files, sock, request, control, tmUp>>
    /\ UNCHANGED crashes

-----------------------------------------------------------------------------
TMStep == \/ Connect \/ Decide \/ TMPrepare \/ CopyTranlogReplica \/ Copied
          \/ TMAbort \/ TMCommit \/ BecomePrimary \/ AppendOrder \/ Replicate
          \/ Replicated \/ SendAllRequests \/ AllReplied

SessionStep(n) == PeerPrepare(n) \/ UnknownID(n) \/ IFAFlow(n)

(* The TM has served every transaction, or is not there to go on. *)
Finished == pc = "connect" /\ (txn \notin Txn \/ ~tmUp)

Next == \/ TMStep
        \/ \E n \in Node : SessionStep(n) \/ OrphanStep(n) \/ Crash(n) \/ Restart(n)
        \/ Finished /\ UNCHANGED vars

Spec == Init /\ [][Next]_vars

(* A runnable thread runs; nothing forces a crash or a restart. *)
Fairness == WF_vars(TMStep) /\ \A n \in Node : WF_vars(SessionStep(n)) /\ WF_vars(OrphanStep(n))

FairSpec == Spec /\ Fairness

-----------------------------------------------------------------------------
(* Properties. *)

(* Every variable keeps its type; no index points past its log. *)
TypeOK ==
    /\ up \in [Node -> BOOLEAN] /\ livePeers \in [Node -> BOOLEAN]
    /\ customer_record \in [Node -> [Customer -> Nat \cup {Absent}]]
    /\ custFile \in [Node -> [Customer -> Nat \cup {Absent}]]
    /\ smr_log \in [Node -> Seq(MapOp)]
    /\ committed_index \in [Node -> Nat \cup {-1}]
    /\ primary_id \in [Node -> Node \cup {-1}]
    /\ logFile \in [Node -> SUBSET (Txn \X (1 .. 3))]
    /\ sock \in [Node -> {"off", "PrPrepare", "Ok", "id", "badid", "pfa", "req", "done", "dead"}]
    /\ request \in [Node -> Request]
    /\ orphans \in [Node -> Seq(Orphan)]
    /\ pc \in {"connect", "prepare", "copy", "copied", "decide", "abort", "order", "append",
               "replicate", "reply", "sendAll", "allReply", "persist"}
    /\ txn \in 1 .. Len(Work) + 1 /\ at \in Node
    /\ applied \in 0 .. MaxOrders /\ sent \in Nat
    /\ tmUp \in BOOLEAN /\ crashes \in Nat

(* What a node counts as committed it has in its log: committed_index      *)
(* never passes last_index.                                                *)
CommittedInLog == \A n \in Node : committed_index[n] <= last_index[n]

(* smr_log.at never throws: what the primary calls committed is in the     *)
(* backup's log when the request is taken, orphaned requests included.     *)
IndexInRange ==
    \A n \in Node :
        /\ sock[Peer(n)] = "req" => InRange(n, request[Peer(n)])
        /\ \A i \in DOMAIN orphans[n] :
               orphans[n][i].kind = "req" => InRange(n, orphans[n][i].r)

(* Between two orders, a backup that is connected for replication has the  *)
(* primary's log at the end of its own, however often either was lost.     *)
BackupInStep ==
    \A n \in Node :
        primary_id[n] = n /\ sock[n] = "pfa"
        /\ pc \in {"connect", "prepare", "copy", "decide", "abort", "order", "persist"} =>
            IsSuffix(smr_log[n], smr_log[Peer(n)])

(* A backup never shows an order that its primary has not applied.         *)
BackupNotAhead ==
    \A n \in Node, c \in Customer :
        primary_id[n] = n /\ primary_id[Peer(n)] = n /\ customer_record[Peer(n)][c] # Absent =>
            /\ customer_record[n][c] # Absent
            /\ customer_record[Peer(n)][c] <= customer_record[n][c]

(* Whichever node crashes, and when: the TM never waits for ever.  It gets  *)
(* through its transactions unless its own process ends with the node that  *)
(* was serving it.                                                          *)
EveryTxnEnds == <>Finished

(* Between two transactions, and while nothing crashes, the backup has the  *)
(* customer records of the primary.                                         *)
BackupSynchronized ==
    pc = "connect" /\ crashes = 0 => customer_record[0] = customer_record[1]

(* A node has applied its whole log: for every customer, the last of its    *)
(* entries.                                                                *)
LogApplied(n) ==
    \A i \in DOMAIN smr_log[n] :
        (\A j \in i + 1 .. Len(smr_log[n]) : smr_log[n][j].cust # smr_log[n][i].cust) =>
            customer_record[n][smr_log[n][i].cust] = smr_log[n][i].num

(* A backup becomes the primary: it begins the first order of its own, and  *)
(* nothing that the late primary has sent is still on its way to it.        *)
Takeover(n) ==
    /\ primary_id[n] # n /\ primary_id'[n] = n
    /\ orphans[n] = <<>>
    /\ applied = 0 /\ \A t \in Txn : <<t, 2>> \notin logFile[n]

(* A backup that becomes the primary has applied, before its own first      *)
(* order, whatever it had logged and not applied.                           *)
TakeoverAppliesLog == [][\A n \in Node : Takeover(n) => LogApplied(n)']_vars
=============================================================================
