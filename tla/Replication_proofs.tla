-------------------------- MODULE Replication_proofs --------------------------
(***************************************************************************)
(* Proofs about Replication, for any work, any number of crashes, and any  *)
(* restarts that the theorems allow.                                       *)
(***************************************************************************)
EXTENDS Replication, SequenceTheorems, TLAPS

(* How far the TM is in its transaction bounds txn and applied. *)
InOrders == pc \in {"order", "append", "replicate", "reply", "sendAll", "allReply"}

Progress ==
    /\ pc # "connect" => txn \in Txn
    /\ pc \in {"connect", "prepare", "copy", "copied", "decide", "abort"} => applied = 0
    /\ InOrders => applied < Len(Work[txn])
    /\ \A n \in Node : sock[n] = "PrPrepare" => pc = "copied" /\ at = n

TypeInv == TypeOK /\ Progress

-----------------------------------------------------------------------------
(* Data. *)

LEMMA PeerType == \A n \in Node : Peer(n) \in Node /\ Peer(n) # n /\ Peer(Peer(n)) = n
  BY DEF Node, Peer

LEMMA WorkFacts ==
    /\ Txn = 1 .. Len(Work) /\ Len(Work) \in Nat \ {0}
    /\ \A t \in Txn : /\ Work[t] \in Seq(Customer)
                      /\ Len(Work[t]) \in Nat \ {0} /\ Len(Work[t]) <= MaxOrders
    /\ MaxOrders \in Nat
  <1>1. Work \in Seq(Seq(Customer)) /\ Work # <<>>
    BY ReplicationAssumption
  <1>2. Txn = 1 .. Len(Work) /\ Len(Work) \in Nat \ {0}
    BY <1>1, LenProperties, EmptySeq DEF Txn
  <1>3. \A t \in Txn : Work[t] \in Seq(Customer)
    BY <1>1, <1>2, ElementOfSeq
  <1> QED
    BY <1>2, <1>3, ReplicationAssumption, LenProperties

LEMMA OrderType ==
  ASSUME NEW t \in Txn, NEW i \in 1 .. Len(Work[t])
  PROVE  Order(t, i) \in MapOp
  <1>1. Work[t][i] \in Customer
    BY WorkFacts, ElementOfSeq
  <1>2. (t - 1) * MaxOrders \in Nat
    <2>1. t - 1 \in Nat /\ MaxOrders \in Nat
      BY WorkFacts
    <2> QED
      BY <2>1
  <1>3. (t - 1) * MaxOrders + i \in Nat
    BY <1>2
  <1> QED
    BY <1>1, <1>3 DEF Order, MapOp

(* What RemoveAt leaves was there before. *)
LEMMA RemoveAtType ==
  ASSUME NEW S, NEW s \in Seq(S), NEW i \in DOMAIN s
  PROVE  /\ RemoveAt(s, i) \in Seq(S)
         /\ \A j \in DOMAIN RemoveAt(s, i) : \E k \in DOMAIN s : RemoveAt(s, i)[j] = s[k]
  <1> DEFINE a == SubSeq(s, 1, i - 1)
             b == SubSeq(s, i + 1, Len(s))
  <1>1. DOMAIN s = 1 .. Len(s) /\ Len(s) \in Nat /\ i \in 1 .. Len(s)
    BY LenProperties
  <1>2. /\ a \in Seq(S) /\ Len(a) = i - 1
        /\ \A j \in 1 .. i - 1 : a[j] = s[j]
    <2>1. \A j \in 1 .. i - 1 : s[j] \in S
      BY <1>1, ElementOfSeq
    <2>2. /\ a \in Seq(S)
          /\ Len(a) = IF 1 <= i - 1 THEN (i - 1) - 1 + 1 ELSE 0
          /\ \A j \in 1 .. (i - 1) - 1 + 1 : a[j] = s[1 + j - 1]
      BY <2>1, <1>1, SubSeqProperties
    <2> QED
      BY <2>2, <1>1
  <1>3. /\ b \in Seq(S) /\ Len(b) = Len(s) - i
        /\ \A j \in 1 .. Len(s) - i : b[j] = s[i + j]
    <2>1. \A j \in i + 1 .. Len(s) : s[j] \in S
      BY <1>1, ElementOfSeq
    <2>2. /\ b \in Seq(S)
          /\ Len(b) = IF i + 1 <= Len(s) THEN Len(s) - (i + 1) + 1 ELSE 0
          /\ \A j \in 1 .. Len(s) - (i + 1) + 1 : b[j] = s[(i + 1) + j - 1]
      BY <2>1, <1>1, SubSeqProperties
    <2> HIDE DEF b
    <2>3. Len(b) = Len(s) - i
      BY <2>2, <1>1
    <2>4. \A j \in 1 .. Len(s) - i : (i + 1) + j - 1 = i + j /\ j \in 1 .. Len(s) - (i + 1) + 1
      BY <1>1
    <2> QED
      BY <2>2, <2>3, <2>4
  <1> HIDE DEF a, b
  <1>4. /\ a \o b \in Seq(S) /\ Len(a \o b) = Len(s) - 1
        /\ \A j \in 1 .. Len(s) - 1 : (a \o b)[j] = IF j <= i - 1 THEN a[j] ELSE b[j - (i - 1)]
    <2>1. Len(a) + Len(b) = Len(s) - 1
      BY <1>1, <1>2, <1>3
    <2>2. /\ a \o b \in Seq(S) /\ Len(a \o b) = Len(a) + Len(b)
          /\ \A j \in 1 .. Len(a) + Len(b) : (a \o b)[j] =
                 IF j <= Len(a) THEN a[j] ELSE b[j - Len(a)]
      BY <1>2, <1>3, ConcatProperties
    <2> QED
      BY <1>2, <2>1, <2>2
  <1>5. DOMAIN (a \o b) = 1 .. Len(s) - 1
    BY <1>4, LenProperties
  <1>6. \A j \in 1 .. Len(s) - 1 : \E k \in DOMAIN s : (a \o b)[j] = s[k]
    <2> TAKE j \in 1 .. Len(s) - 1
    <2>1. CASE j <= i - 1
      <3>1. (a \o b)[j] = s[j] /\ j \in 1 .. Len(s)
        BY <2>1, <1>1, <1>2, <1>4
      <3> QED
        BY <3>1, <1>1
    <2>2. CASE ~(j <= i - 1)
      <3>1. j - (i - 1) \in 1 .. Len(s) - i /\ i + (j - (i - 1)) = j + 1 /\ j + 1 \in 1 .. Len(s)
        BY <2>2, <1>1
      <3>2. (a \o b)[j] = s[j + 1]
        BY <2>2, <3>1, <1>3, <1>4
      <3> QED
        BY <3>1, <3>2, <1>1
    <2> QED
      BY <2>1, <2>2
  <1> QED
    BY <1>4, <1>5, <1>6 DEF RemoveAt, a, b

-----------------------------------------------------------------------------
(* Type correctness. *)

LEMMA InitTypeInv == Init => TypeInv
  <1> SUFFICES ASSUME Init PROVE TypeInv
    OBVIOUS
  <1>1. Order(1, 1) \in MapOp
    BY WorkFacts, OrderType
  <1>2. [idx |-> -1, op |-> Order(1, 1)] \in Request
    BY <1>1 DEF Request
  <1>3. request \in [Node -> Request]
    BY <1>2 DEF Init
  <1>4. EmptyRecords \in [Customer -> Nat \cup {Absent}]
    BY DEF EmptyRecords
  <1>5. 1 \in 1 .. Len(Work) + 1 /\ 0 \in 0 .. MaxOrders
    <2>1. Len(Work) \in Nat /\ MaxOrders \in Nat
      BY WorkFacts
    <2> QED
      BY <2>1
  <1>6. smr_log \in [Node -> Seq(MapOp)] /\ orphans \in [Node -> Seq(Orphan)]
    BY DEF Init
  <1>7. /\ up \in [Node -> BOOLEAN] /\ livePeers \in [Node -> BOOLEAN]
        /\ customer_record \in [Node -> [Customer -> Nat \cup {Absent}]]
        /\ custFile \in [Node -> [Customer -> Nat \cup {Absent}]]
        /\ committed_index \in [Node -> Nat \cup {-1}]
        /\ primary_id \in [Node -> Node \cup {-1}]
        /\ logFile \in [Node -> SUBSET (Txn \X (1 .. 3))]
    BY <1>4 DEF Init
  <1> QED
    BY <1>3, <1>5, <1>6, <1>7 DEF Init, TypeInv, TypeOK, Progress, InOrders, Node

(* The record of one operation is added to the records of a node. *)
LEMMA ApplyType ==
  ASSUME TypeOK, NEW n \in Node, NEW op \in MapOp
  PROVE  [customer_record EXCEPT ![n][op.cust] = op.num]
             \in [Node -> [Customer -> Nat \cup {Absent}]]
  BY DEF TypeOK, MapOp

LEMMA AppendType ==
  ASSUME TypeOK, NEW n \in Node, NEW op \in MapOp
  PROVE  [smr_log EXCEPT ![n] = Append(@, op)] \in [Node -> Seq(MapOp)]
  <1>1. Append(smr_log[n], op) \in Seq(MapOp)
    BY AppendProperties DEF TypeOK
  <1> QED
    BY <1>1 DEF TypeOK

(* The end of a transaction, wherever it was. *)
LEMMA NextTxnType ==
  ASSUME TypeInv, pc # "connect", NextTxn
  PROVE  /\ pc' = "connect" /\ txn' \in 1 .. Len(Work) + 1 /\ at' \in Node
         /\ applied' = 0 /\ applied' \in 0 .. MaxOrders /\ sent' \in Nat
  <1>1. txn \in 1 .. Len(Work) /\ Len(Work) \in Nat /\ MaxOrders \in Nat
    BY WorkFacts DEF TypeInv, Progress
  <1> QED
    BY <1>1 DEF NextTxn, Node

(* The promise has its value: the transaction has orders left, or is done. *)
LEMMA AnswerType ==
  ASSUME TypeInv, InOrders, Answer
  PROVE  /\ pc' \in {"order", "persist"} /\ txn' = txn /\ at' = at
         /\ applied' \in 0 .. MaxOrders
         /\ InOrders' => applied' < Len(Work[txn'])
  <1>1. txn \in Txn /\ applied < Len(Work[txn]) /\ applied \in 0 .. MaxOrders
    BY DEF TypeInv, Progress, TypeOK, InOrders
  <1>2. Len(Work[txn]) \in Nat /\ Len(Work[txn]) <= MaxOrders /\ MaxOrders \in Nat
    BY <1>1, WorkFacts
  <1>3. applied' = applied + 1 /\ txn' = txn /\ at' = at
        /\ pc' = IF applied' = Len(Work[txn]) THEN "persist" ELSE "order"
    BY DEF Answer
  <1>4. applied' \in 0 .. MaxOrders /\ (applied' # Len(Work[txn]) => applied' < Len(Work[txn]))
    BY <1>1, <1>2, <1>3
  <1> QED
    BY <1>3, <1>4 DEF InOrders

LEMMA LogType ==
  ASSUME TypeOK, NEW n \in Node, NEW t \in Txn, NEW k \in 1 .. 3, Log(n, t, k)
  PROVE  logFile' \in [Node -> SUBSET (Txn \X (1 .. 3))]
  <1>1. <<t, k>> \in Txn \X (1 .. 3)
    OBVIOUS
  <1> QED
    BY <1>1 DEF TypeOK, Log

LEMMA NextIndexType ==
  ASSUME TypeOK, NEW n \in Node
  PROVE  /\ [committed_index EXCEPT ![n] = @ + 1] \in [Node -> Nat \cup {-1}]
         /\ committed_index[n] \in Int /\ committed_index[n] + 1 \in Nat
  <1>1. committed_index[n] \in Int /\ committed_index[n] + 1 \in Nat
    BY DEF TypeOK
  <1> QED
    BY <1>1 DEF TypeOK

LEMMA SendType ==
  ASSUME TypeOK, NEW n \in Node, NEW idx \in Int, NEW op \in MapOp,
         SendReplicationReq(n, idx, op)
  PROVE  /\ sock' \in [Node -> {"off", "PrPrepare", "Ok", "id", "badid", "pfa", "req", "done", "dead"}]
         /\ request' \in [Node -> Request]
         /\ \A m \in Node : sock'[m] = "PrPrepare" => sock[m] = "PrPrepare"
  BY DEF TypeOK, SendReplicationReq, Request

LEMMA TMStepType ==
  ASSUME TypeInv, TMStep
  PROVE  TypeInv'
  <1> USE DEF memory, files, sessions
  <1>w. /\ Txn = 1 .. Len(Work) /\ Len(Work) \in Nat /\ MaxOrders \in Nat
        /\ \A t \in Txn : Len(Work[t]) \in Nat \ {0}
    BY WorkFacts
  <1>1. CASE Connect
    <2>1. CASE NextTxn
      <3>1. txn' \in 1 .. Len(Work) + 1 /\ 0 \in 0 .. MaxOrders
        BY <1>1, <2>1, <1>w DEF Connect, NextTxn
      <3> QED
        BY <1>1, <2>1, <3>1 DEF Connect, NextTxn, faults, TypeInv, TypeOK, Progress, InOrders, Node
    <2>2. CASE ~NextTxn
      BY <1>1, <2>2 DEF Connect, faults, TypeInv, TypeOK, Progress, InOrders, Node
    <2> QED
      BY <2>1, <2>2
  <1>2. CASE Decide
    BY <1>2, <1>w DEF Decide, faults, TypeInv, TypeOK, Progress, InOrders
  <1>3. CASE TMPrepare
    <2>1. logFile' \in [Node -> SUBSET (Txn \X (1 .. 3))]
      <3>1. txn \in Txn /\ at \in Node
        BY <1>3 DEF TMPrepare, TypeInv, TypeOK, Progress
      <3>2. CASE Log(at, txn, 1)
        BY <3>1, <3>2, LogType DEF TypeInv
      <3>3. CASE UNCHANGED logFile
        BY <3>3 DEF TypeInv, TypeOK
      <3> QED
        BY <1>3, <3>2, <3>3 DEF TMPrepare
    <2> QED
      BY <1>3, <2>1 DEF TMPrepare, faults, TypeInv, TypeOK, Progress, InOrders
  <1>4. CASE CopyTranlogReplica
    BY <1>4 DEF CopyTranlogReplica, faults, TypeInv, TypeOK, Progress, InOrders
  <1>5. CASE Copied
    BY <1>5 DEF Copied, faults, TypeInv, TypeOK, Progress, InOrders
  <1>6. CASE TMAbort
    <2>1. pc # "connect" /\ NextTxn
      BY <1>6 DEF TMAbort
    <2>2. logFile' \in [Node -> SUBSET (Txn \X (1 .. 3))]
      BY <1>6, LogType DEF TMAbort, TypeInv, TypeOK, Progress
    <2> QED
      BY <1>6, <2>1, <2>2, NextTxnType DEF TMAbort, faults, TypeInv, TypeOK, Progress, InOrders
  <1>7. CASE TMCommit
    <2>1. pc # "connect" /\ NextTxn
      BY <1>7 DEF TMCommit
    <2>2. logFile' \in [Node -> SUBSET (Txn \X (1 .. 3))]
      BY <1>7, LogType DEF TMCommit, TypeInv, TypeOK, Progress
    <2> QED
      BY <1>7, <2>1, <2>2, NextTxnType DEF TMCommit, faults, TypeInv, TypeOK, Progress, InOrders
  <1>8. CASE BecomePrimary
    <2>1. /\ customer_record' \in [Node -> [Customer -> Nat \cup {Absent}]]
          /\ committed_index' \in [Node -> Nat \cup {-1}]
      <3>1. CASE UNCHANGED <<customer_record, committed_index>>
        BY <3>1 DEF TypeInv, TypeOK
      <3>2. CASE CatchUp(at) /\ committed_index[at] < last_index[at]
        <4>1. /\ at \in Node /\ smr_log[at] \in Seq(MapOp)
              /\ Len(smr_log[at]) \in Nat \ {0} /\ last_index[at] = Len(smr_log[at]) - 1
          <5>1. at \in Node /\ smr_log[at] \in Seq(MapOp) /\ committed_index[at] \in Nat \cup {-1}
            BY DEF TypeInv, TypeOK
          <5>2. last_index[at] = Len(smr_log[at]) - 1 /\ Len(smr_log[at]) \in Nat
            BY <5>1, LenProperties DEF last_index
          <5> QED
            BY <5>1, <5>2, <3>2
        <4>2. Last(smr_log[at]) \in MapOp
          BY <4>1, ElementOfSeq DEF Last
        <4>3. last_index[at] \in Nat
          BY <4>1
        <4>4. [committed_index EXCEPT ![at] = last_index[at]] \in [Node -> Nat \cup {-1}]
          BY <4>3 DEF TypeInv, TypeOK
        <4>5. [customer_record EXCEPT ![at][Last(smr_log[at]).cust] = Last(smr_log[at]).num]
                  \in [Node -> [Customer -> Nat \cup {Absent}]]
          BY <4>1, <4>2, ApplyType DEF TypeInv
        <4> QED
          BY <4>4, <4>5, <3>2 DEF CatchUp
      <3> QED
        BY <1>8, <3>1, <3>2 DEF BecomePrimary, CatchUp
    <2> QED
      BY <1>8, <2>1 DEF BecomePrimary, faults, TypeInv, TypeOK, Progress, InOrders
  <1>9. CASE AppendOrder
    <2>1. Order(txn, applied + 1) \in MapOp
      <3>1. txn \in Txn /\ applied + 1 \in 1 .. Len(Work[txn])
        BY <1>9, <1>w DEF AppendOrder, faults, TypeInv, TypeOK, Progress, InOrders
      <3> QED
        BY <3>1, OrderType
    <2>2. committed_index' \in [Node -> Nat \cup {-1}]
      BY <1>9, NextIndexType DEF AppendOrder, TypeInv, TypeOK
    <2>3. /\ smr_log' \in [Node -> Seq(MapOp)]
          /\ customer_record' \in [Node -> [Customer -> Nat \cup {Absent}]]
      BY <1>9, <2>1, AppendType, ApplyType DEF AppendOrder, TypeInv, TypeOK
    <2> QED
      BY <1>9, <2>2, <2>3 DEF AppendOrder, faults, TypeInv, TypeOK, Progress, InOrders
  <1>10. CASE Replicate
    <2>1. Order(txn, applied + 1) \in MapOp
      <3>1. txn \in Txn /\ applied + 1 \in 1 .. Len(Work[txn])
        BY <1>10, <1>w DEF Replicate, faults, TypeInv, TypeOK, Progress, InOrders
      <3> QED
        BY <3>1, OrderType
    <2>2. CASE livePeers[at]
      <3>1. at \in Node /\ committed_index[at] \in Int
        BY NextIndexType DEF TypeInv, TypeOK
      <3>2. SendReplicationReq(at, committed_index[at], Order(txn, applied + 1))
        BY <1>10, <2>2 DEF Replicate
      <3> QED
        BY <1>10, <2>1, <2>2, <3>1, <3>2, SendType
           DEF Replicate, faults, TypeInv, TypeOK, Progress, InOrders
    <2>3. CASE ~livePeers[at] /\ CanInit(at)
      <3>1. /\ sock' = [sock EXCEPT ![at] = "pfa"] /\ livePeers' = [livePeers EXCEPT ![at] = TRUE]
            /\ sent' = 0 /\ pc' = "sendAll" /\ pc = "replicate"
            /\ UNCHANGED <<request, txn, at, applied, up, customer_record, smr_log,
                           committed_index, primary_id, custFile, logFile, orphans, tmUp, crashes>>
        BY <1>10, <2>3 DEF Replicate, files, faults
      <3> QED
        BY <3>1 DEF faults, TypeInv, TypeOK, Progress, InOrders
    <2>4. CASE ~livePeers[at] /\ ~CanInit(at)
      <3>1. Answer /\ InOrders
        BY <1>10, <2>4 DEF Replicate, InOrders
      <3> QED
        BY <1>10, <2>4, <3>1, AnswerType DEF Replicate, faults, TypeInv, TypeOK, Progress, InOrders
    <2> QED
      BY <2>2, <2>3, <2>4
  <1>11. CASE Replicated
    <2>1. Answer /\ InOrders
      BY <1>11 DEF Replicated, InOrders
    <2> QED
      BY <1>11, <2>1, AnswerType
         DEF Replicated, AfterAnswer, faults, TypeInv, TypeOK, Progress, InOrders
  <1>12. CASE SendAllRequests
    <2>1. CASE sent < Len(smr_log[at])
      <3>1. smr_log[at][sent + 1] \in MapOp /\ sent - 1 \in Int
        <4>1. smr_log[at] \in Seq(MapOp) /\ sent \in Nat
          BY DEF TypeInv, TypeOK
        <4>2. sent + 1 \in 1 .. Len(smr_log[at])
          BY <4>1, <2>1, LenProperties
        <4> QED
          BY <4>1, <4>2, ElementOfSeq
      <3> QED
        BY <1>12, <2>1, <3>1, SendType DEF SendAllRequests, faults, TypeInv, TypeOK, Progress, InOrders
    <2>2. CASE ~(sent < Len(smr_log[at]))
      <3>1. Answer /\ InOrders
        BY <1>12, <2>2 DEF SendAllRequests, InOrders
      <3> QED
        BY <1>12, <2>2, <3>1, AnswerType DEF SendAllRequests, faults, TypeInv, TypeOK, Progress, InOrders
    <2> QED
      BY <2>1, <2>2
  <1>13. CASE AllReplied
    BY <1>13 DEF AllReplied, AfterAnswer, faults, TypeInv, TypeOK, Progress, InOrders
  <1> QED
    BY <1>1, <1>2, <1>3, <1>4, <1>5, <1>6, <1>7, <1>8, <1>9, <1>10, <1>11, <1>12, <1>13 DEF TMStep

LEMMA OrphanOfType ==
  ASSUME TypeInv, NEW n \in Node
  PROVE  OrphanOf(n) \in Seq(Orphan)
  <1>1. request[n] \in Request
    BY DEF TypeInv, TypeOK
  <1>2. sock[n] = "PrPrepare" => txn \in Txn
    BY DEF TypeInv, Progress
  <1>3. /\ sock[n] = "PrPrepare" => [kind |-> "prepare", txn |-> txn] \in Orphan
        /\ [kind |-> "req", r |-> request[n]] \in Orphan
        /\ [kind |-> "eof"] \in Orphan
    BY <1>1, <1>2 DEF Orphan
  <1> QED
    BY <1>3 DEF OrphanOf

LEMMA DiesType ==
  ASSUME TypeInv, NEW n \in Node, Dies(n), crashes' \in Nat
  PROVE  TypeInv'
  <1>1. orphans' \in [Node -> Seq(Orphan)]
    <2>1. \A m \in Node : orphans[m] \o OrphanOf(n) \in Seq(Orphan)
      BY OrphanOfType, ConcatProperties DEF TypeInv, TypeOK
    <2> QED
      BY <2>1 DEF Dies
  <1>2. /\ smr_log' \in [Node -> Seq(MapOp)]
        /\ customer_record' \in [Node -> [Customer -> Nat \cup {Absent}]]
        /\ committed_index' \in [Node -> Nat \cup {-1}]
        /\ primary_id' \in [Node -> Node \cup {-1}]
    <2>1. EmptyRecords \in [Customer -> Nat \cup {Absent}] /\ <<>> \in Seq(MapOp)
      BY DEF EmptyRecords
    <2> QED
      BY <2>1 DEF Dies, TypeInv, TypeOK
  <1>3. /\ up' \in [Node -> BOOLEAN] /\ livePeers' \in [Node -> BOOLEAN]
        /\ sock' \in [Node -> {"off", "PrPrepare", "Ok", "id", "badid", "pfa", "req", "done", "dead"}]
        /\ \A m \in Node : sock'[m] # "PrPrepare"
        /\ UNCHANGED <<custFile, logFile, request>>
        /\ tmUp' \in BOOLEAN
    BY DEF Dies, files, TypeInv, TypeOK
  <1>4. CASE at = n /\ pc # "connect"
    <2>1. NextTxn
      BY <1>4 DEF Dies
    <2> QED
      BY <1>1, <1>2, <1>3, <1>4, <2>1, NextTxnType DEF faults, TypeInv, TypeOK, Progress, InOrders
  <1>5. CASE ~(at = n /\ pc # "connect")
    <2>1. UNCHANGED <<pc, txn, at, applied, sent>>
      BY <1>5 DEF Dies, control
    <2> QED
      BY <1>1, <1>2, <1>3, <2>1 DEF faults, TypeInv, TypeOK, Progress, InOrders
  <1> QED
    BY <1>4, <1>5

LEMMA FaultType ==
  ASSUME TypeInv, NEW n \in Node, Crash(n) \/ Restart(n)
  PROVE  TypeInv'
  <1>1. CASE Crash(n)
    <2>1. Dies(n) /\ crashes' \in Nat
      BY <1>1 DEF Crash, TypeInv, TypeOK
    <2> QED
      BY <2>1, DiesType
  <1>2. CASE Restart(n)
    BY <1>2 DEF Restart, files, sessions, control, faults, TypeInv, TypeOK, Progress, InOrders
  <1> QED
    BY <1>1, <1>2

(* The entry that smr_log.at returns is one of the log or the new one.      *)
LEMMA TakeType ==
  ASSUME TypeInv, NEW n \in Node, NEW r \in Request, InRange(n, r), Take(n, r)
  PROVE  /\ up' = up /\ livePeers' = livePeers
         /\ smr_log' \in [Node -> Seq(MapOp)]
         /\ customer_record' \in [Node -> [Customer -> Nat \cup {Absent}]]
         /\ committed_index' \in [Node -> Nat \cup {-1}]
         /\ primary_id' \in [Node -> Node \cup {-1}]
  <1> DEFINE log == Append(smr_log[n], r.op)
  <1>1. r.op \in MapOp /\ r.idx \in Int /\ smr_log[n] \in Seq(MapOp)
    BY DEF Request, TypeInv, TypeOK
  <1>2. log \in Seq(MapOp) /\ Len(log) = Len(smr_log[n]) + 1 /\ Len(smr_log[n]) \in Nat
    BY <1>1, AppendProperties, LenProperties
  <1>3. smr_log' = [smr_log EXCEPT ![n] = log]
    BY DEF Take
  <1>4. primary_id' \in [Node -> Node \cup {-1}]
    BY PeerType DEF Take, TypeInv, TypeOK
  <1>5. CASE r.idx >= 0
    <2>1. r.idx + 1 \in 1 .. Len(log)
      BY <1>1, <1>2, <1>5 DEF InRange
    <2> DEFINE op == log[r.idx + 1]
    <2>2. op \in MapOp
      BY <1>2, <2>1, ElementOfSeq
    <2>3. /\ customer_record' = [customer_record EXCEPT ![n][op.cust] = op.num]
          /\ committed_index' = [committed_index EXCEPT ![n] = @ + 1]
      BY <1>5 DEF Take
    <2>4. UNCHANGED <<up, livePeers>>
      BY DEF Take
    <2>5. /\ smr_log \in [Node -> Seq(MapOp)]
          /\ customer_record \in [Node -> [Customer -> Nat \cup {Absent}]]
          /\ committed_index \in [Node -> Nat \cup {-1}]
      BY DEF TypeInv, TypeOK
    <2> HIDE DEF op, log
    <2>6. customer_record' \in [Node -> [Customer -> Nat \cup {Absent}]]
      BY <2>2, <2>3, <2>5, ApplyType DEF TypeInv
    <2>7. committed_index' \in [Node -> Nat \cup {-1}]
      BY <2>3, <2>5, NextIndexType
    <2>8. smr_log' \in [Node -> Seq(MapOp)]
      BY <1>2, <1>3, <2>5
    <2> QED
      BY <1>4, <2>4, <2>6, <2>7, <2>8
  <1>6. CASE ~(r.idx >= 0)
    BY <1>2, <1>3, <1>4, <1>6 DEF Take, TypeInv, TypeOK
  <1> QED
    BY <1>5, <1>6

LEMMA SessionType ==
  ASSUME TypeInv, NEW n \in Node, SessionStep(n)
  PROVE  TypeInv'
  <1>1. CASE PeerPrepare(n)
    <2>1. txn \in Txn /\ Peer(n) \in Node
      BY <1>1, PeerType DEF PeerPrepare, TypeInv, Progress
    <2>2. logFile' \in [Node -> SUBSET (Txn \X (1 .. 3))]
      BY <1>1, <2>1, LogType DEF PeerPrepare, TypeInv
    <2> QED
      BY <1>1, <2>1, <2>2 DEF PeerPrepare, memory, control, faults, TypeInv, TypeOK, Progress, InOrders
  <1>2. CASE UnknownID(n)
    BY <1>2, PeerType
       DEF UnknownID, memory, files, control, faults, TypeInv, TypeOK, Progress, InOrders
  <1>3. CASE IFAFlow(n) /\ InRange(n, request[Peer(n)])
    <2>1. request[Peer(n)] \in Request /\ Peer(n) \in Node
      BY PeerType DEF TypeInv, TypeOK
    <2>2. Take(n, request[Peer(n)])
      BY <1>3 DEF IFAFlow
    <2> QED
      BY <1>3, <2>1, <2>2, TakeType
         DEF IFAFlow, files, control, faults, TypeInv, TypeOK, Progress, InOrders
  <1>4. CASE IFAFlow(n) /\ ~InRange(n, request[Peer(n)])
    BY <1>4, DiesType DEF IFAFlow, TypeInv, TypeOK
  <1> QED
    BY <1>1, <1>2, <1>3, <1>4 DEF SessionStep

LEMMA OrphanType ==
  ASSUME TypeInv, NEW n \in Node, OrphanStep(n)
  PROVE  TypeInv'
  <1> PICK i \in DOMAIN orphans[n] :
        LET o == orphans[n][i] IN
         \/ /\ o.kind = "prepare"
            /\ Log(n, o.txn, 1)
            /\ orphans' = [orphans EXCEPT ![n] = RemoveAt(@, i)]
            /\ UNCHANGED <<memory, custFile, sock, request, control, tmUp>>
         \/ /\ o.kind = "req"
            /\ IF InRange(n, o.r)
               THEN /\ Take(n, o.r)
                    /\ orphans' = [orphans EXCEPT ![n][i] = [kind |-> "eof"]]
                    /\ UNCHANGED <<files, sock, request, control, tmUp>>
               ELSE Dies(n)
         \/ /\ o.kind = "eof"
            /\ primary_id' = [primary_id EXCEPT ![n] = -1]
            /\ orphans' = [orphans EXCEPT ![n] = RemoveAt(@, i)]
            /\ UNCHANGED <<up, customer_record, smr_log, committed_index, livePeers,
                           files, sock, request, control, tmUp>>
    BY DEF OrphanStep
  <1> DEFINE o == orphans[n][i]
  <1>1. crashes' = crashes
    BY DEF OrphanStep
  <1>2. orphans[n] \in Seq(Orphan) /\ i \in 1 .. Len(orphans[n])
    <2>1. orphans[n] \in Seq(Orphan)
      BY DEF TypeInv, TypeOK
    <2> QED
      BY <2>1, LenProperties
  <1>3. o \in Orphan
    BY <1>2, ElementOfSeq
  <1>4. [orphans EXCEPT ![n] = RemoveAt(@, i)] \in [Node -> Seq(Orphan)]
    <2>1. RemoveAt(orphans[n], i) \in Seq(Orphan)
      BY <1>2, RemoveAtType
    <2> QED
      BY <2>1 DEF TypeInv, TypeOK
  <1>5. [orphans EXCEPT ![n][i] = [kind |-> "eof"]] \in [Node -> Seq(Orphan)]
    <2>1. [kind |-> "eof"] \in Orphan
      BY DEF Orphan
    <2>2. [orphans[n] EXCEPT ![i] = [kind |-> "eof"]] \in Seq(Orphan)
      BY <1>2, <2>1, ExceptSeq
    <2> QED
      BY <2>2 DEF TypeInv, TypeOK
  <1>6. CASE o.kind = "prepare"
    <2>1. o.txn \in Txn
      BY <1>3, <1>6 DEF Orphan
    <2>2. logFile' \in [Node -> SUBSET (Txn \X (1 .. 3))]
      BY <1>6, <2>1, LogType DEF TypeInv
    <2> QED
      BY <1>1, <1>4, <1>6, <2>2 DEF memory, control, faults, TypeInv, TypeOK, Progress, InOrders
  <1>7. CASE o.kind = "req" /\ InRange(n, o.r)
    <2>1. o.r \in Request
      BY <1>3, <1>7 DEF Orphan
    <2>2. Take(n, o.r)
      BY <1>7
    <2> QED
      BY <1>1, <1>5, <1>7, <2>1, <2>2, TakeType
         DEF files, control, faults, TypeInv, TypeOK, Progress, InOrders
  <1>8. CASE o.kind = "req" /\ ~InRange(n, o.r)
    BY <1>1, <1>8, DiesType DEF TypeInv, TypeOK
  <1>9. CASE o.kind = "eof"
    BY <1>1, <1>4, <1>9 DEF files, control, faults, TypeInv, TypeOK, Progress, InOrders
  <1> QED
    BY <1>6, <1>7, <1>8, <1>9

(* Every variable keeps its type, whatever crashes and restarts there are. *)
THEOREM ReplicationTypeCorrect == Spec => []TypeInv
  <1>1. TypeInv /\ [Next]_vars => TypeInv'
    <2> SUFFICES ASSUME TypeInv, [Next]_vars
                 PROVE  TypeInv'
      OBVIOUS
    <2>1. CASE UNCHANGED vars
      BY <2>1 DEF vars, memory, files, sessions, control, faults, TypeInv, TypeOK, Progress, InOrders
    <2> QED
      BY <2>1, TMStepType, SessionType, OrphanType, FaultType DEF Next
  <1> QED
    BY <1>1, InitTypeInv, PTL DEF Spec

-----------------------------------------------------------------------------
(* committed_index never passes last_index. *)

LEMMA IndexTypes ==
  ASSUME TypeOK, NEW n \in Node
  PROVE  /\ smr_log[n] \in Seq(MapOp) /\ Len(smr_log[n]) \in Nat
         /\ committed_index[n] \in Int /\ committed_index[n] >= -1
         /\ last_index[n] = Len(smr_log[n]) - 1
  <1>1. smr_log[n] \in Seq(MapOp) /\ committed_index[n] \in Nat \cup {-1}
    BY DEF TypeOK
  <1>2. Len(smr_log[n]) \in Nat
    BY <1>1, LenProperties
  <1> QED
    BY <1>1, <1>2 DEF last_index

LEMMA TakeCommits ==
  ASSUME TypeInv, CommittedInLog, NEW n \in Node, NEW r \in Request, Take(n, r)
  PROVE  CommittedInLog'
  <1>1. r.op \in MapOp
    BY DEF Request
  <1>2. /\ smr_log' = [smr_log EXCEPT ![n] = Append(smr_log[n], r.op)]
        /\ \/ committed_index' = committed_index
           \/ committed_index' = [committed_index EXCEPT ![n] = @ + 1]
    BY DEF Take
  <1>3. Len(Append(smr_log[n], r.op)) = Len(smr_log[n]) + 1
    BY <1>1, IndexTypes, AppendProperties DEF TypeInv
  <1> SUFFICES ASSUME NEW m \in Node PROVE committed_index'[m] <= Len(smr_log'[m]) - 1
    BY DEF CommittedInLog, last_index
  <1>4. /\ committed_index \in [Node -> Nat \cup {-1}] /\ smr_log \in [Node -> Seq(MapOp)]
        /\ committed_index[m] <= Len(smr_log[m]) - 1
        /\ committed_index[m] \in Int /\ Len(smr_log[m]) \in Nat
    BY IndexTypes DEF TypeInv, TypeOK, CommittedInLog
  <1>5. CASE m = n
    <2>1. smr_log'[m] = Append(smr_log[n], r.op)
      BY <1>2, <1>4, <1>5
    <2>2. committed_index'[m] \in {committed_index[m], committed_index[m] + 1}
      BY <1>2, <1>4, <1>5
    <2> QED
      BY <1>3, <1>4, <1>5, <2>1, <2>2
  <1>6. CASE m # n
    BY <1>2, <1>4, <1>6
  <1> QED
    BY <1>5, <1>6

LEMMA DiesCommits ==
  ASSUME TypeInv, CommittedInLog, NEW n \in Node, Dies(n)
  PROVE  CommittedInLog'
  <1> SUFFICES ASSUME NEW m \in Node PROVE committed_index'[m] <= Len(smr_log'[m]) - 1
    BY DEF CommittedInLog, last_index
  <1>1. /\ committed_index \in [Node -> Nat \cup {-1}] /\ smr_log \in [Node -> Seq(MapOp)]
        /\ committed_index[m] <= Len(smr_log[m]) - 1
    BY IndexTypes DEF TypeInv, TypeOK, CommittedInLog
  <1>2. CASE m = n
    <2>1. smr_log'[m] = <<>> /\ committed_index'[m] = -1
      BY <1>1, <1>2 DEF Dies
    <2> QED
      BY <2>1, EmptySeq
  <1>3. CASE m # n
    BY <1>1, <1>3 DEF Dies
  <1> QED
    BY <1>2, <1>3

(* The TM's steps other than AdminThread's leave logs and indices alone. *)
LEMMA TMCommits ==
  ASSUME TypeInv, CommittedInLog, TMStep
  PROVE  CommittedInLog'
  <1> USE DEF memory
  <1>1. CASE UNCHANGED <<smr_log, committed_index>>
    BY <1>1 DEF CommittedInLog, last_index
  <1>2. CASE BecomePrimary
    <2>1. /\ smr_log' = smr_log
          /\ \/ committed_index' = committed_index
             \/ committed_index' = [committed_index EXCEPT ![at] = last_index[at]]
      BY <1>2 DEF BecomePrimary, CatchUp
    <2> SUFFICES ASSUME NEW m \in Node PROVE committed_index'[m] <= Len(smr_log[m]) - 1
      BY <2>1 DEF CommittedInLog, last_index
    <2>2. /\ committed_index \in [Node -> Nat \cup {-1}] /\ at \in Node
          /\ committed_index[m] <= Len(smr_log[m]) - 1 /\ Len(smr_log[m]) \in Nat
          /\ last_index[m] = Len(smr_log[m]) - 1
      BY IndexTypes DEF TypeInv, TypeOK, CommittedInLog
    <2> QED
      BY <2>1, <2>2
  <1>3. CASE AppendOrder
    <2> DEFINE op == Order(txn, applied + 1)
    <2>1. op \in MapOp
      <3>1. txn \in Txn /\ applied + 1 \in 1 .. Len(Work[txn])
        BY <1>3, WorkFacts DEF AppendOrder, faults, TypeInv, TypeOK, Progress, InOrders
      <3> QED
        BY <3>1, OrderType
    <2>2. at \in Node
      BY DEF TypeInv, TypeOK
    <2>3. /\ smr_log' = [smr_log EXCEPT ![at] = Append(smr_log[at], op)]
          /\ committed_index' = [committed_index EXCEPT ![at] = committed_index[at] + 1]
      BY <1>3 DEF AppendOrder
    <2> HIDE DEF op
    <2>4. Len(Append(smr_log[at], op)) = Len(smr_log[at]) + 1
      BY <2>1, <2>2, IndexTypes, AppendProperties DEF TypeInv
    <2> SUFFICES ASSUME NEW m \in Node PROVE committed_index'[m] <= Len(smr_log'[m]) - 1
      BY DEF CommittedInLog, last_index
    <2>5. /\ committed_index \in [Node -> Nat \cup {-1}] /\ smr_log \in [Node -> Seq(MapOp)]
          /\ committed_index[m] <= Len(smr_log[m]) - 1 /\ Len(smr_log[m]) \in Nat
          /\ committed_index[m] \in Int
      BY IndexTypes DEF TypeInv, TypeOK, CommittedInLog
    <2>6. CASE m = at
      <3>1. smr_log'[m] = Append(smr_log[at], op) /\ committed_index'[m] = committed_index[m] + 1
        BY <2>2, <2>3, <2>5, <2>6
      <3> QED
        BY <2>4, <2>5, <2>6, <3>1
    <2>7. CASE m # at
      BY <2>3, <2>5, <2>7
    <2> QED
      BY <2>6, <2>7
  <1> QED
    BY <1>1, <1>2, <1>3
       DEF TMStep, Connect, Decide, TMPrepare, CopyTranlogReplica, Copied, TMAbort, TMCommit,
           Replicate, Replicated, SendAllRequests, AllReplied

(* What an orphan does, with its message named. *)
LEMMA OrphanCases ==
  ASSUME TypeInv, NEW n \in Node, OrphanStep(n)
  PROVE  \E i \in DOMAIN orphans[n] :
            LET o == orphans[n][i] IN
            \/ /\ o.kind \in {"prepare", "eof"}
               /\ UNCHANGED <<up, customer_record, smr_log, committed_index, livePeers, sock,
                              request, control>>
               /\ primary_id' \in {primary_id, [primary_id EXCEPT ![n] = -1]}
               /\ orphans' = [orphans EXCEPT ![n] = RemoveAt(@, i)]
            \/ /\ o.kind = "req" /\ o.r \in Request
               /\ InRange(n, o.r)
               /\ Take(n, o.r)
               /\ orphans' = [orphans EXCEPT ![n][i] = [kind |-> "eof"]]
               /\ UNCHANGED <<sock, request, control>>
            \/ /\ o.kind = "req" /\ o.r \in Request
               /\ ~InRange(n, o.r)
               /\ Dies(n)
  <1>1. orphans[n] \in Seq(Orphan)
    BY DEF TypeInv, TypeOK
  <1>2. \A i \in DOMAIN orphans[n] : orphans[n][i] \in Orphan
    BY <1>1, LenProperties, ElementOfSeq
  <1>3. \A o \in Orphan : o.kind = "req" => o.r \in Request
    BY DEF Orphan
  <1> QED
    BY <1>2, <1>3 DEF OrphanStep, memory

LEMMA CommittedStep ==
  ASSUME TypeInv, CommittedInLog, [Next]_vars
  PROVE  CommittedInLog'
  <1>1. CASE UNCHANGED <<smr_log, committed_index>>
    BY <1>1 DEF CommittedInLog, last_index
  <1>2. CASE TMStep
    BY <1>2, TMCommits
  <1>3. ASSUME NEW n \in Node, SessionStep(n)
        PROVE  CommittedInLog'
    <2>1. Peer(n) \in Node /\ request[Peer(n)] \in Request
      BY PeerType DEF TypeInv, TypeOK
    <2>2. CASE Take(n, request[Peer(n)])
      BY <2>1, <2>2, TakeCommits
    <2>3. CASE Dies(n)
      BY <2>3, DiesCommits
    <2> QED
      BY <1>1, <1>3, <2>2, <2>3 DEF SessionStep, PeerPrepare, UnknownID, IFAFlow, memory
  <1>4. ASSUME NEW n \in Node, OrphanStep(n)
        PROVE  CommittedInLog'
    BY <1>1, <1>4, OrphanCases, TakeCommits, DiesCommits
  <1>5. ASSUME NEW n \in Node, Crash(n) \/ Restart(n)
        PROVE  CommittedInLog'
    BY <1>1, <1>5, DiesCommits DEF Crash, Restart
  <1> QED
    BY <1>1, <1>2, <1>3, <1>4, <1>5 DEF Next, vars, memory

(* No node counts as committed more entries than it has logged, whatever    *)
(* requests are taken and whoever crashes.                                  *)
THEOREM ReplicationCommitsItsLog == Spec => []CommittedInLog
  <1>1. Init => CommittedInLog
    BY EmptySeq DEF Init, CommittedInLog, last_index
  <1>2. TypeInv /\ CommittedInLog /\ [Next]_vars => CommittedInLog'
    BY CommittedStep
  <1> QED
    BY <1>1, <1>2, ReplicationTypeCorrect, PTL DEF Spec
-----------------------------------------------------------------------------
(* The backup's log, while the primary has not returned from a crash with   *)
(* its own log empty.                                                       *)

InOrderAt(n) == at = n /\ pc \in {"append", "replicate", "reply", "sendAll", "allReply"}

(* Node 0 is the primary for as long as it lives, and it lives once: only  *)
(* node 0 opens sessions, and node 1 serves the TM, or has orphans, only   *)
(* after it.                                                               *)
OnePrimary ==
    /\ sock[1] = "off" /\ ~livePeers[1] /\ orphans[0] = <<>>
    /\ pc # "connect" => up[at] /\ (at = 1 => ~up[0])
    /\ up[0] => orphans[1] = <<>> /\ custFile[1] = EmptyRecords
    /\ ~up[0] => sock[0] = "off" /\ smr_log[0] = <<>> /\ primary_id[0] = -1
    /\ primary_id[0] \in {-1, 0}
    /\ primary_id[0] = -1 => smr_log[0] = <<>>
    /\ InOrderAt(0) => primary_id[0] = 0
    /\ committed_index[0] = Len(smr_log[0]) - 1

(* How many entries of its log the primary has replicated, or has given up *)
(* replicating.                                                            *)
Sent == IF pc \in {"replicate", "reply"} THEN Len(smr_log[0]) - 1
        ELSE IF pc \in {"sendAll", "allReply"} THEN sent
        ELSE Len(smr_log[0])

SentBound ==
    at = 0 =>
        /\ pc \in {"replicate", "reply"} =>
               /\ smr_log[0] # <<>>
               /\ smr_log[0][Len(smr_log[0])] = Order(txn, applied + 1)
        /\ pc = "sendAll" => sent <= Len(smr_log[0])
        /\ pc = "allReply" => sent < Len(smr_log[0])

(* Log b ends with the first m entries of log p. *)
EndsWith(b, p, m) == m <= Len(b) /\ \A i \in 1 .. m : b[Len(b) - m + i] = p[i]

Awaiting == at = 0 /\ pc \in {"reply", "allReply"}

(* What the state of the session says of the two logs. *)
SessionInv ==
    /\ sock[0] = "pfa" => livePeers[0] /\ EndsWith(smr_log[1], smr_log[0], Sent) /\ ~Awaiting
    /\ sock[0] = "req" => /\ livePeers[0] /\ EndsWith(smr_log[1], smr_log[0], Sent) /\ Awaiting
                          /\ request[0].idx <= Sent
                          /\ request[0].op = smr_log[0][Sent + 1]
    /\ sock[0] = "done" => livePeers[0] /\ EndsWith(smr_log[1], smr_log[0], Sent + 1) /\ Awaiting

(* A request that outlives the primary still fits the log. *)
OrphansFit ==
    \A i \in DOMAIN orphans[1] :
        orphans[1][i].kind = "req" => InRange(1, orphans[1][i].r)

StepInv == OnePrimary /\ SentBound /\ SessionInv /\ OrphansFit

-----------------------------------------------------------------------------
(* Logs of which one follows the other. *)

LEMMA EndsWithNothing ==
  ASSUME NEW S, NEW b \in Seq(S), NEW p
  PROVE  EndsWith(b, p, 0)
  BY LenProperties DEF EndsWith

(* What the longer log has beyond m does not matter. *)
LEMMA EndsWithGrown ==
  ASSUME NEW S, NEW b, NEW p \in Seq(S), NEW x \in S, NEW m \in Nat, m <= Len(p),
         EndsWith(b, p, m)
  PROVE  EndsWith(b, Append(p, x), m)
  <1>1. \A i \in 1 .. m : Append(p, x)[i] = p[i]
    <2>1. Len(p) \in Nat
      BY LenProperties
    <2> QED
      BY <2>1, AppendProperties
  <1> QED
    BY <1>1 DEF EndsWith

(* The next entry continues the match. *)
LEMMA EndsWithNext ==
  ASSUME NEW S, NEW b \in Seq(S), NEW p, NEW m \in Nat, NEW x \in S, x = p[m + 1],
         EndsWith(b, p, m)
  PROVE  EndsWith(Append(b, x), p, m + 1)
  <1> DEFINE c == Append(b, x)
  <1>1. /\ Len(c) = Len(b) + 1 /\ Len(b) \in Nat /\ c[Len(b) + 1] = x
        /\ \A j \in 1 .. Len(b) : c[j] = b[j]
    BY AppendProperties, LenProperties
  <1> HIDE DEF c
  <1>2. m <= Len(b) /\ \A i \in 1 .. m : b[Len(b) - m + i] = p[i]
    BY DEF EndsWith
  <1>3. ASSUME NEW i \in 1 .. m + 1
        PROVE  c[Len(c) - (m + 1) + i] = p[i]
    <2>1. Len(c) - (m + 1) + i = Len(b) - m + i
      BY <1>1
    <2>2. CASE i \in 1 .. m
      <3>1. Len(b) - m + i \in 1 .. Len(b)
        BY <1>1, <1>2, <2>2
      <3> QED
        BY <1>1, <1>2, <2>1, <2>2, <3>1
    <2>3. CASE i = m + 1
      <3>1. Len(b) - m + i = Len(b) + 1
        BY <1>1, <2>3
      <3> QED
        BY <1>1, <2>1, <2>3, <3>1
    <2> QED
      BY <2>2, <2>3
  <1>4. m + 1 <= Len(c)
    BY <1>1, <1>2
  <1> QED
    BY <1>3, <1>4 DEF EndsWith, c

(* A log that ends with all of another has it as a suffix. *)
LEMMA EndsWithAll ==
  ASSUME NEW S, NEW b \in Seq(S), NEW p \in Seq(S), EndsWith(b, p, Len(p))
  PROVE  IsSuffix(p, b)
  <1> DEFINE rp == Reverse(p)
             rb == Reverse(b)
             n  == Len(p)
  <1>1. /\ Len(p) \in Nat /\ Len(b) \in Nat /\ n <= Len(b)
        /\ \A i \in 1 .. n : b[Len(b) - n + i] = p[i]
    BY LenProperties DEF EndsWith
  <1>2. /\ rp \in Seq(S) /\ Len(rp) = n /\ \A i \in 1 .. n : rp[i] = p[(n - i) + 1]
    <2>1. \A i \in 1 .. n : (n - i) + 1 \in 1 .. n
      BY <1>1
    <2>2. \A i \in 1 .. n : p[(n - i) + 1] \in S
      BY <2>1, ElementOfSeq
    <2>3. rp = [i \in 1 .. n |-> p[(n - i) + 1]]
      BY DEF Reverse
    <2> HIDE DEF rp
    <2>4. rp \in Seq(S)
      BY <1>1, <2>2, <2>3, IsASeq
    <2> QED
      BY <1>1, <2>3, <2>4, LenProperties
  <1>3. /\ rb \in Seq(S) /\ Len(rb) = Len(b) /\ \A i \in 1 .. Len(b) : rb[i] = b[(Len(b) - i) + 1]
    <2>1. \A i \in 1 .. Len(b) : (Len(b) - i) + 1 \in 1 .. Len(b)
      BY <1>1
    <2>2. \A i \in 1 .. Len(b) : b[(Len(b) - i) + 1] \in S
      BY <2>1, ElementOfSeq
    <2>3. rb = [i \in 1 .. Len(b) |-> b[(Len(b) - i) + 1]]
      BY DEF Reverse
    <2> HIDE DEF rb
    <2>4. rb \in Seq(S)
      BY <1>1, <2>2, <2>3, IsASeq
    <2> QED
      BY <1>1, <2>3, <2>4, LenProperties
  <1> HIDE DEF rp, rb
  <1>4. ASSUME NEW i \in 1 .. n
        PROVE  rp[i] = rb[i] /\ rb[i] \in S
    <2>1. (n - i) + 1 \in 1 .. n /\ i \in 1 .. Len(b)
      BY <1>1
    <2>2. b[Len(b) - n + ((n - i) + 1)] = p[(n - i) + 1]
      BY <1>1, <2>1
    <2>3. Len(b) - n + ((n - i) + 1) = (Len(b) - i) + 1
      BY <1>1
    <2>4. rb[i] \in S
      BY <1>3, <2>1, ElementOfSeq
    <2> QED
      BY <1>2, <1>3, <2>1, <2>2, <2>3, <2>4
  <1> DEFINE sp == SubSeq(rp, 1, n)
             sb == SubSeq(rb, 1, n)
  <1>5. \A i \in 1 .. n : rp[i] \in S /\ rb[i] \in S
    BY <1>4
  <1>6. /\ sp \in Seq(S) /\ Len(sp) = (IF 1 <= n THEN n - 1 + 1 ELSE 0)
        /\ \A i \in 1 .. n - 1 + 1 : sp[i] = rp[1 + i - 1]
    <2> HIDE DEF n
    <2> QED
      BY <1>1, <1>5, SubSeqProperties DEF n
  <1>7. /\ sb \in Seq(S) /\ Len(sb) = (IF 1 <= n THEN n - 1 + 1 ELSE 0)
        /\ \A i \in 1 .. n - 1 + 1 : sb[i] = rb[1 + i - 1]
    BY <1>1, <1>5, SubSeqProperties
  <1> HIDE DEF sp, sb
  <1>8. Len(sp) = n /\ Len(sb) = n /\ \A i \in 1 .. n : sp[i] = sb[i]
    BY <1>1, <1>4, <1>6, <1>7
  <1>9. sp = sb
    BY <1>6, <1>7, <1>8, SeqEqual
  <1> QED
    BY <1>1, <1>2, <1>3, <1>9 DEF IsSuffix, IsPrefix, rp, rb, sp, sb

-----------------------------------------------------------------------------
(* The backup has the primary's log: each kind of step. *)

LEMMA NodeFacts ==
  ASSUME TypeInv
  PROVE  /\ at \in Node /\ Node = {0, 1} /\ Peer(0) = 1 /\ Peer(1) = 0 /\ sent \in Nat
         /\ \A n \in Node : smr_log[n] \in Seq(MapOp) /\ Len(smr_log[n]) \in Nat
         /\ DOMAIN smr_log = Node /\ DOMAIN sock = Node /\ DOMAIN livePeers = Node
         /\ DOMAIN committed_index = Node /\ DOMAIN primary_id = Node
         /\ DOMAIN custFile = Node /\ DOMAIN up = Node /\ DOMAIN request = Node
  BY LenProperties DEF TypeInv, TypeOK, Node, Peer

LEMMA InitStep == Init => StepInv
  <1> SUFFICES ASSUME Init PROVE StepInv
    OBVIOUS
  <1>1. OnePrimary
    <2>1. Len(<<>>) = 0
      OBVIOUS
    <2> QED
      BY <2>1 DEF Init, OnePrimary, InOrderAt, Node
  <1>2. SentBound /\ SessionInv /\ OrphansFit
    BY DEF Init, SentBound, SessionInv, OrphansFit, Node
  <1> QED
    BY <1>1, <1>2 DEF StepInv

LEMMA OnePrimaryTM ==
  ASSUME TypeInv, StepInv, TMStep
  PROVE  OnePrimary'
  <1>0. OnePrimary /\ (InOrderAt(0) => primary_id[0] = 0)
    BY DEF StepInv, OnePrimary
  <1> USE NodeFacts DEF memory, files, sessions, OnePrimary, InOrderAt
  <1>1. CASE Connect
    BY <1>0, <1>1 DEF Connect, NextTxn
  <1>2. CASE Decide
    BY <1>0, <1>2 DEF Decide
  <1>3. CASE TMPrepare
    BY <1>0, <1>3 DEF TMPrepare
  <1>4. CASE CopyTranlogReplica
    BY <1>0, <1>4 DEF CopyTranlogReplica, CanInit
  <1>5. CASE Copied
    BY <1>0, <1>5 DEF Copied
  <1>6. CASE TMAbort
    BY <1>0, <1>6 DEF TMAbort, NextTxn
  <1>7. CASE TMCommit
    BY <1>0, <1>7 DEF TMCommit, NextTxn
  <1>8. CASE BecomePrimary
    <2>1. /\ smr_log' = smr_log /\ custFile' = custFile /\ up' = up /\ orphans' = orphans /\ at' = at
          /\ pc' = "append"
          /\ \/ primary_id' = primary_id /\ primary_id[at] = at
                 /\ sock' = sock /\ livePeers' = livePeers
             \/ /\ primary_id' = [primary_id EXCEPT ![at] = at] /\ primary_id[at] # at
                /\ \/ sock' = sock /\ livePeers' = livePeers
                   \/ /\ up[Peer(at)] /\ sock' = [sock EXCEPT ![at] = "pfa"]
                      /\ livePeers' = [livePeers EXCEPT ![at] = TRUE]
      BY <1>8 DEF BecomePrimary, CanInit
    <2>2. committed_index'[0] = committed_index[0]
      <3>1. CASE at = 0
        <4>1. ~(committed_index[at] < last_index[at])
          BY <1>0, <3>1 DEF last_index
        <4> QED
          BY <1>8, <4>1 DEF BecomePrimary, CatchUp
      <3>2. CASE at = 1
        BY <1>8, <3>2 DEF BecomePrimary, CatchUp
      <3> QED
        BY <3>1, <3>2
    <2> QED
      BY <1>0, <1>8, <2>1, <2>2 DEF BecomePrimary
  <1>9. CASE AppendOrder
    <2> DEFINE op == Order(txn, applied + 1)
    <2>1. op \in MapOp
      <3>1. txn \in Txn /\ applied + 1 \in 1 .. Len(Work[txn])
        BY <1>9, WorkFacts DEF AppendOrder, faults, TypeInv, TypeOK, Progress, InOrders
      <3> QED
        BY <3>1, OrderType
    <2>2. /\ smr_log' = [smr_log EXCEPT ![at] = Append(smr_log[at], op)]
          /\ committed_index' = [committed_index EXCEPT ![at] = committed_index[at] + 1]
          /\ pc' = "replicate" /\ pc = "append"
          /\ UNCHANGED <<up, primary_id, livePeers, custFile, sock, orphans, at>>
      BY <1>9 DEF AppendOrder
    <2> HIDE DEF op
    <2>3. Len(Append(smr_log[at], op)) = Len(smr_log[at]) + 1
      BY <2>1, AppendProperties
    <2>4. CASE at = 0
      <3>1. smr_log'[0] = Append(smr_log[0], op) /\ committed_index'[0] = committed_index[0] + 1
        BY <2>2, <2>4
      <3>2. primary_id[0] = 0 /\ up[0]
        BY <1>0, <2>2, <2>4
      <3>3. committed_index'[0] = Len(smr_log'[0]) - 1
        BY <1>0, <2>3, <2>4, <3>1
      <3> QED
        BY <1>0, <2>2, <2>4, <3>2, <3>3
    <2>5. CASE at = 1
      BY <1>0, <2>2, <2>5
    <2> QED
      BY <2>4, <2>5
  <1>10. CASE Replicate
    BY <1>0, <1>10 DEF Replicate, SendReplicationReq, Answer, CanInit
  <1>11. CASE Replicated
    BY <1>0, <1>11 DEF Replicated, AfterAnswer, Answer, Answered
  <1>12. CASE SendAllRequests
    BY <1>0, <1>12 DEF SendAllRequests, SendReplicationReq, Answer
  <1>13. CASE AllReplied
    BY <1>0, <1>13 DEF AllReplied, AfterAnswer, Answered
  <1> QED
    BY <1>1, <1>2, <1>3, <1>4, <1>5, <1>6, <1>7, <1>8, <1>9, <1>10, <1>11, <1>12, <1>13 DEF TMStep

LEMMA SentBoundTM ==
  ASSUME TypeInv, StepInv, TMStep
  PROVE  SentBound'
  <1>0. SentBound
    BY DEF StepInv
  <1> USE NodeFacts DEF memory, SentBound
  <1>1. CASE pc' \notin {"replicate", "reply", "sendAll", "allReply"}
    BY <1>1
  <1>2. CASE AppendOrder
    <2> DEFINE op == Order(txn, applied + 1)
    <2>1. op \in MapOp
      <3>1. txn \in Txn /\ applied + 1 \in 1 .. Len(Work[txn])
        BY <1>2, WorkFacts DEF AppendOrder, faults, TypeInv, TypeOK, Progress, InOrders
      <3> QED
        BY <3>1, OrderType
    <2>2. /\ smr_log' = [smr_log EXCEPT ![at] = Append(smr_log[at], op)]
          /\ op = Order(txn', applied' + 1)
          /\ pc' = "replicate" /\ at' = at
      BY <1>2 DEF AppendOrder
    <2> HIDE DEF op
    <2>3. Len(Append(smr_log[at], op)) = Len(smr_log[at]) + 1
          /\ Append(smr_log[at], op)[Len(smr_log[at]) + 1] = op
          /\ Append(smr_log[at], op) # <<>>
      BY <2>1, AppendProperties
    <2> QED
      BY <2>2, <2>3
  <1>3. CASE Replicate
    BY <1>0, <1>3 DEF Replicate, Answer
  <1>4. CASE SendAllRequests
    BY <1>0, <1>4 DEF SendAllRequests, Answer
  <1>5. CASE AllReplied
    BY <1>0, <1>5 DEF AllReplied
  <1> QED
    BY <1>1, <1>2, <1>3, <1>4, <1>5
       DEF TMStep, Connect, Decide, TMPrepare, CopyTranlogReplica, Copied, TMAbort, TMCommit,
           BecomePrimary, Replicated, Answer, NextTxn

(* The orphans at the backup wait while the TM goes on. *)
LEMMA OrphansFitTM ==
  ASSUME TypeInv, StepInv, TMStep
  PROVE  OrphansFit'
  <1>1. OrphansFit
    BY DEF StepInv
  <1>2. orphans' = orphans
    BY DEF TMStep, Connect, Decide, TMPrepare, CopyTranlogReplica, Copied, TMAbort, TMCommit,
           BecomePrimary, AppendOrder, Replicate, Replicated, SendAllRequests, AllReplied,
           sessions
  <1>3. Len(smr_log[1]) <= Len(smr_log'[1])
    <2>1. CASE AppendOrder
      <3> DEFINE op == Order(txn, applied + 1)
      <3>1. op \in MapOp
        <4>1. txn \in Txn /\ applied + 1 \in 1 .. Len(Work[txn])
          BY <2>1, WorkFacts DEF AppendOrder, faults, TypeInv, TypeOK, Progress, InOrders
        <4> QED
          BY <4>1, OrderType
      <3>2. smr_log' = [smr_log EXCEPT ![at] = Append(smr_log[at], op)]
        BY <2>1 DEF AppendOrder
      <3> HIDE DEF op
      <3>3. Len(Append(smr_log[at], op)) = Len(smr_log[at]) + 1
        BY <3>1, NodeFacts, AppendProperties
      <3> QED
        BY <3>2, <3>3, NodeFacts
    <2>2. CASE smr_log' = smr_log
      BY <2>2, NodeFacts
    <2> QED
      BY <2>1, <2>2
         DEF TMStep, Connect, Decide, TMPrepare, CopyTranlogReplica, Copied, TMAbort, TMCommit,
             BecomePrimary, Replicate, Replicated, SendAllRequests, AllReplied, memory
  <1>4. ASSUME NEW i \in DOMAIN orphans[1], orphans[1][i].kind = "req"
        PROVE  orphans[1][i].r.idx <= Len(smr_log'[1])
    <2>1. orphans[1][i] \in Orphan
      BY LenProperties, ElementOfSeq DEF TypeInv, TypeOK, Node
    <2>2. orphans[1][i].r.idx \in Int
      BY <2>1, <1>4 DEF Orphan, Request
    <2>3. orphans[1][i].r.idx <= Len(smr_log[1])
      BY <1>1, <1>4 DEF OrphansFit, InRange
    <2>4. Len(smr_log[1]) \in Nat /\ Len(smr_log'[1]) \in Nat
      <3>1. TypeInv'
        BY TMStepType
      <3>2. smr_log'[1] \in Seq(MapOp)
        BY <3>1 DEF TypeInv, TypeOK, Node
      <3> QED
        BY <3>2, NodeFacts, LenProperties
    <2> QED
      BY <1>3, <2>2, <2>3, <2>4
  <1> QED
    BY <1>2, <1>4 DEF OrphansFit, InRange

(* The session, when the step leaves the logs and node 0's session alone. *)
LEMMA SessionQuiet ==
  ASSUME StepInv, smr_log' = smr_log, sock' = sock, livePeers' = livePeers,
         sock[0] \in {"pfa", "req", "done"} => Sent' = Sent /\ (Awaiting' <=> Awaiting),
         sock[0] = "req" => request' = request
  PROVE  SessionInv'
  BY DEF StepInv, SessionInv

LEMMA SessionTM ==
  ASSUME TypeInv, StepInv, TMStep
  PROVE  SessionInv'
  <1>0. /\ SessionInv /\ SentBound
        /\ sock[1] = "off" /\ ~livePeers[1]
        /\ pc # "connect" => up[at] /\ (at = 1 => ~up[0])
        /\ ~up[0] => sock[0] = "off"
        /\ primary_id[0] \in {-1, 0}
        /\ primary_id[0] = -1 => smr_log[0] = <<>>
        /\ committed_index[0] = Len(smr_log[0]) - 1
    BY DEF StepInv, OnePrimary
  <1> USE NodeFacts DEF memory, files, sessions
  <1>1. CASE Connect \/ Decide \/ TMPrepare \/ TMAbort \/ TMCommit
    <2>1. /\ smr_log' = smr_log /\ sock' = sock /\ livePeers' = livePeers /\ request' = request
          /\ Sent' = Sent /\ ~Awaiting /\ ~Awaiting'
      BY <1>1 DEF Connect, Decide, TMPrepare, TMAbort, TMCommit, NextTxn, Sent, Awaiting
    <2> QED
      BY <2>1, SessionQuiet
  <1>2. CASE CopyTranlogReplica \/ Copied
    <2>1. /\ smr_log' = smr_log /\ request' = request
          /\ sock'[0] = sock[0] \/ sock'[0] \in {"PrPrepare", "id", "off"}
          /\ livePeers[0] => livePeers'[0]
          /\ Sent' = Sent /\ ~Awaiting /\ ~Awaiting'
      BY <1>2 DEF CopyTranlogReplica, Copied, Sent, Awaiting
    <2>2. sock'[0] = sock[0] => sock'[0] \in {"off", "dead", "PrPrepare", "Ok", "id", "badid"}
                                \/ (sock'[0] = "pfa" /\ livePeers[0] /\ EndsWith(smr_log[1], smr_log[0], Sent))
      BY <1>0, <2>1 DEF SessionInv, TypeInv, TypeOK
    <2> QED
      BY <2>1, <2>2 DEF SessionInv
  <1>3. CASE BecomePrimary
    <2>1. /\ smr_log' = smr_log /\ request' = request /\ at' = at
          /\ Sent' = Sent /\ Sent = Len(smr_log[0]) /\ ~Awaiting /\ ~Awaiting'
      BY <1>3 DEF BecomePrimary, Sent, Awaiting
    <2>2. CASE sock'[0] = sock[0] /\ (livePeers[0] => livePeers'[0])
      BY <1>0, <2>1, <2>2 DEF SessionInv
    <2>3. CASE sock'[0] = "pfa" /\ livePeers'[0] /\ primary_id[0] # 0
      <3>1. smr_log[0] = <<>> /\ Sent' = 0
        BY <1>0, <2>1, <2>3
      <3>2. EndsWith(smr_log[1], smr_log[0], 0)
        BY EndsWithNothing
      <3> QED
        BY <2>1, <2>3, <3>1, <3>2 DEF SessionInv
    <2>4. \/ sock'[0] = sock[0] /\ (livePeers[0] => livePeers'[0])
          \/ sock'[0] = "pfa" /\ livePeers'[0] /\ primary_id[0] # 0
      BY <1>0, <1>3 DEF BecomePrimary
    <2> QED
      BY <2>2, <2>3, <2>4
  <1>4. CASE AppendOrder
    <2> DEFINE op == Order(txn, applied + 1)
    <2>1. op \in MapOp
      <3>1. txn \in Txn /\ applied + 1 \in 1 .. Len(Work[txn])
        BY <1>4, WorkFacts DEF AppendOrder, faults, TypeInv, TypeOK, Progress, InOrders
      <3> QED
        BY <3>1, OrderType
    <2>2. /\ smr_log' = [smr_log EXCEPT ![at] = Append(smr_log[at], op)]
          /\ pc = "append" /\ pc' = "replicate" /\ at' = at
          /\ sock' = sock /\ livePeers' = livePeers
      BY <1>4 DEF AppendOrder
    <2> HIDE DEF op
    <2>3. ~Awaiting /\ ~Awaiting'
      BY <2>2 DEF Awaiting
    <2>4. sock[0] \in {"pfa", "req", "done"} =>
              sock[0] = "pfa" /\ livePeers[0] /\ EndsWith(smr_log[1], smr_log[0], Len(smr_log[0]))
      BY <1>0, <2>2, <2>3 DEF SessionInv, Sent
    <2>5. CASE at = 0
      <3>1. /\ smr_log'[0] = Append(smr_log[0], op) /\ smr_log'[1] = smr_log[1]
            /\ Len(Append(smr_log[0], op)) = Len(smr_log[0]) + 1
        BY <2>1, <2>2, <2>5, AppendProperties
      <3>2. Sent' = Len(smr_log[0])
        BY <2>2, <3>1 DEF Sent
      <3>3. sock[0] = "pfa" => EndsWith(smr_log[1], Append(smr_log[0], op), Len(smr_log[0]))
        BY <2>1, <2>4, EndsWithGrown
      <3> QED
        BY <2>2, <2>3, <2>4, <3>1, <3>2, <3>3 DEF SessionInv
    <2>6. CASE at = 1
      BY <1>0, <2>2, <2>6 DEF SessionInv
    <2> QED
      BY <2>5, <2>6
  <1>5. CASE Replicate
    <2>0. pc = "replicate" /\ smr_log' = smr_log /\ at' = at
      BY <1>5 DEF Replicate, Answer
    <2>1. CASE at = 1
      BY <1>0, <1>5, <2>0, <2>1 DEF Replicate, SendReplicationReq, CanInit, SessionInv
    <2>2. CASE at = 0 /\ livePeers[0]
      <3>1. /\ pc' = "reply" /\ livePeers' = livePeers /\ Awaiting' /\ ~Awaiting
            /\ request'[0] = [idx |-> committed_index[0], op |-> Order(txn, applied + 1)]
            /\ sock'[0] = CASE sock[0] = "pfa" -> "req" [] sock[0] = "id" -> "badid"
                            [] OTHER -> sock[0]
            /\ Sent' = Sent /\ Sent = Len(smr_log[0]) - 1
        BY <1>5, <2>0, <2>2 DEF Replicate, SendReplicationReq, Awaiting, Sent
      <3>2. sock[0] \notin {"req", "done"}
        BY <1>0, <3>1 DEF SessionInv
      <3>3. sock'[0] = "req" => EndsWith(smr_log[1], smr_log[0], Sent)
        BY <1>0, <3>1, <3>2 DEF SessionInv
      <3>4. request'[0].idx = Sent /\ request'[0].op = smr_log[0][Sent + 1]
        BY <1>0, <2>0, <2>2, <3>1 DEF SentBound
      <3>5. sock'[0] \notin {"pfa", "done"}
        BY <3>1, <3>2
      <3>6. Sent \in Int
        BY <3>1
      <3> QED
        BY <2>0, <2>2, <3>1, <3>3, <3>4, <3>5, <3>6 DEF SessionInv
    <2>3. CASE at = 0 /\ ~livePeers[0] /\ CanInit(0)
      <3>1. sock'[0] = "pfa" /\ livePeers'[0] /\ Sent' = 0 /\ ~Awaiting'
        BY <1>5, <2>3 DEF Replicate, Sent, Awaiting
      <3>2. EndsWith(smr_log[1], smr_log[0], 0)
        BY EndsWithNothing
      <3> QED
        BY <2>0, <3>1, <3>2 DEF SessionInv
    <2>4. CASE at = 0 /\ ~livePeers[0] /\ ~CanInit(0)
      <3>1. sock' = sock /\ sock[0] \notin {"pfa", "req", "done"}
        BY <1>0, <1>5, <2>4 DEF Replicate, SessionInv
      <3> QED
        BY <3>1 DEF SessionInv
    <2> QED
      BY <2>1, <2>2, <2>3, <2>4
  <1>6. CASE Replicated
    <2>0. pc = "reply" /\ smr_log' = smr_log /\ Answer /\ at' = at
          /\ livePeers' = [livePeers EXCEPT ![at] = sock[at] = "done"]
          /\ sock' = [sock EXCEPT ![at] = IF @ = "done" THEN "pfa" ELSE "off"]
      BY <1>6 DEF Replicated, Answer, AfterAnswer
    <2>1. CASE at = 1
      BY <1>0, <2>0, <2>1 DEF SessionInv
    <2>2. CASE at = 0 /\ sock[0] = "done"
      <3>1. sock'[0] = "pfa" /\ livePeers'[0] /\ ~Awaiting'
        BY <2>0, <2>2 DEF Answer, Awaiting
      <3>2. Sent' = Sent + 1
        BY <2>0 DEF Answer, Sent
      <3> QED
        BY <1>0, <2>0, <2>2, <3>1, <3>2 DEF SessionInv
    <2>3. CASE at = 0 /\ sock[0] # "done"
      <3>1. sock'[0] = "off"
        BY <2>0, <2>3
      <3> QED
        BY <3>1 DEF SessionInv
    <2> QED
      BY <2>1, <2>2, <2>3
  <1>7. CASE SendAllRequests
    <2>0. pc = "sendAll" /\ smr_log' = smr_log /\ livePeers' = livePeers /\ sent' = sent /\ at' = at
      BY <1>7 DEF SendAllRequests, Answer
    <2>1. CASE at = 1
      BY <1>0, <1>7, <2>0, <2>1 DEF SendAllRequests, SendReplicationReq, SessionInv
    <2>2. CASE at = 0 /\ sent < Len(smr_log[0])
      <3>1. /\ pc' = "allReply" /\ Awaiting' /\ ~Awaiting
            /\ request'[0] = [idx |-> sent - 1, op |-> smr_log[0][sent + 1]]
            /\ sock'[0] = CASE sock[0] = "pfa" -> "req" [] sock[0] = "id" -> "badid"
                            [] OTHER -> sock[0]
            /\ Sent' = sent /\ Sent = sent
        BY <1>7, <2>0, <2>2 DEF SendAllRequests, SendReplicationReq, Awaiting, Sent
      <3>2. sock[0] \notin {"req", "done"}
        BY <1>0, <3>1 DEF SessionInv
      <3>3. sock'[0] = "req" => livePeers[0] /\ EndsWith(smr_log[1], smr_log[0], sent)
        BY <1>0, <3>1, <3>2 DEF SessionInv
      <3>4. request'[0].idx <= sent /\ request'[0].op = smr_log[0][sent + 1]
        BY <3>1
      <3>5. sock'[0] \notin {"pfa", "done"}
        BY <3>1, <3>2
      <3> QED
        BY <2>0, <2>2, <3>1, <3>3, <3>4, <3>5 DEF SessionInv
    <2>3. CASE at = 0 /\ ~(sent < Len(smr_log[0]))
      <3>1. sock' = sock /\ request' = request /\ ~Awaiting /\ ~Awaiting'
        BY <1>7, <2>3 DEF SendAllRequests, Answer, Awaiting
      <3>2. Sent = sent /\ Sent' = Len(smr_log[0]) /\ sent <= Len(smr_log[0])
        BY <1>0, <1>7, <2>0, <2>3 DEF SendAllRequests, Answer, Sent, SentBound
      <3>3. Sent' = Sent
        BY <2>3, <3>2
      <3> QED
        BY <2>0, <3>1, <3>3, SessionQuiet
    <2> QED
      BY <2>1, <2>2, <2>3
  <1>8. CASE AllReplied
    <2>0. /\ pc = "allReply" /\ pc' = "sendAll" /\ smr_log' = smr_log /\ livePeers' = livePeers
          /\ sent' = sent + 1 /\ at' = at
          /\ sock' = [sock EXCEPT ![at] = IF @ = "done" THEN "pfa" ELSE "off"]
      BY <1>8 DEF AllReplied, AfterAnswer
    <2>1. CASE at = 1
      BY <1>0, <2>0, <2>1 DEF SessionInv
    <2>2. CASE at = 0 /\ sock[0] = "done"
      <3>1. sock'[0] = "pfa" /\ ~Awaiting' /\ Sent' = Sent + 1
        BY <2>0, <2>2 DEF Awaiting, Sent
      <3> QED
        BY <1>0, <2>0, <2>2, <3>1 DEF SessionInv
    <2>3. CASE at = 0 /\ sock[0] # "done"
      <3>1. sock'[0] = "off"
        BY <2>0, <2>3
      <3> QED
        BY <3>1 DEF SessionInv
    <2> QED
      BY <2>1, <2>2, <2>3
  <1> QED
    BY <1>1, <1>2, <1>3, <1>4, <1>5, <1>6, <1>7, <1>8 DEF TMStep

LEMMA TakeFacts ==
  ASSUME TypeInv, NEW r, Take(1, r)
  PROVE  /\ smr_log' = [smr_log EXCEPT ![1] = Append(smr_log[1], r.op)]
         /\ primary_id' = [primary_id EXCEPT ![1] = 0]
         /\ committed_index'[0] = committed_index[0]
         /\ UNCHANGED <<up, livePeers>>
  <1>1. /\ smr_log' = [smr_log EXCEPT ![1] = Append(smr_log[1], r.op)]
        /\ primary_id' = [primary_id EXCEPT ![1] = Peer(1)]
        /\ \/ committed_index' = committed_index
           \/ committed_index' = [committed_index EXCEPT ![1] = @ + 1]
        /\ UNCHANGED <<up, livePeers>>
    BY DEF Take
  <1>2. committed_index'[0] = committed_index[0]
    <2>1. 0 \in DOMAIN committed_index
      BY NodeFacts
    <2> QED
      BY <1>1, <2>1
  <1>3. Peer(1) = 0
    BY NodeFacts
  <1> QED
    BY <1>1, <1>2, <1>3

(* The backup takes a request: its log goes on as the primary's does. *)
LEMMA IFAFlowStep ==
  ASSUME TypeInv, StepInv, NEW n \in Node, IFAFlow(n)
  PROVE  n = 1 /\ InRange(1, request[0]) /\ Take(1, request[0]) /\ StepInv'
  <1>0. /\ OnePrimary /\ SentBound /\ SessionInv /\ OrphansFit
        /\ sock[1] = "off" /\ (~up[0] => sock[0] = "off") /\ (up[0] => orphans[1] = <<>>)
    BY DEF StepInv, OnePrimary
  <1> USE NodeFacts
  <1>1. n = 1 /\ sock[0] = "req"
    BY <1>0 DEF IFAFlow
  <1>2. /\ livePeers[0] /\ EndsWith(smr_log[1], smr_log[0], Sent) /\ Awaiting
        /\ request[0].idx <= Sent /\ request[0].op = smr_log[0][Sent + 1]
    BY <1>0, <1>1 DEF SessionInv
  <1>3. request[0] \in Request /\ request[0].idx \in Int /\ request[0].op \in MapOp
    BY DEF TypeInv, TypeOK, Request
  <1>4. Sent \in Nat /\ Sent < Len(smr_log[0])
    <2>1. CASE pc = "reply"
      <3>1. smr_log[0] # <<>>
        BY <1>0, <1>2, <2>1 DEF Awaiting, SentBound
      <3>2. Len(smr_log[0]) # 0
        BY <3>1, EmptySeq
      <3> QED
        BY <2>1, <3>2 DEF Sent
    <2>2. CASE pc = "allReply"
      BY <1>0, <1>2, <2>2 DEF Awaiting, SentBound, Sent
    <2> QED
      BY <1>2, <2>1, <2>2 DEF Awaiting
  <1>5. InRange(1, request[0])
    BY <1>2, <1>3, <1>4 DEF InRange, EndsWith
  <1>6. /\ Take(1, request[0]) /\ sock' = [sock EXCEPT ![0] = "done"]
        /\ UNCHANGED <<custFile, request, orphans, pc, txn, at, applied, sent>>
    BY <1>1, <1>5 DEF IFAFlow, files, control
  <1>7. /\ smr_log' = [smr_log EXCEPT ![1] = Append(smr_log[1], request[0].op)]
        /\ primary_id' = [primary_id EXCEPT ![1] = 0]
        /\ committed_index'[0] = committed_index[0]
        /\ UNCHANGED <<up, livePeers>>
    BY <1>6, TakeFacts
  <1>8. smr_log'[0] = smr_log[0] /\ smr_log'[1] = Append(smr_log[1], request[0].op)
    BY <1>7
  <1>9. OnePrimary'
    BY <1>0, <1>1, <1>6, <1>7, <1>8 DEF OnePrimary, InOrderAt
  <1>10. SentBound'
    BY <1>0, <1>6, <1>8 DEF SentBound
  <1>11. SessionInv'
    <2>1. Sent' = Sent /\ Awaiting'
      BY <1>2, <1>6, <1>8 DEF Sent, Awaiting
    <2>2. EndsWith(Append(smr_log[1], request[0].op), smr_log[0], Sent + 1)
      BY <1>2, <1>3, <1>4, EndsWithNext
    <2> QED
      BY <1>2, <1>6, <1>7, <1>8, <2>1, <2>2 DEF SessionInv
  <1>12. OrphansFit'
    BY <1>0, <1>1, <1>6 DEF OrphansFit
  <1> QED
    BY <1>1, <1>5, <1>6, <1>9, <1>10, <1>11, <1>12 DEF StepInv

(* A crash of the primary leaves at most the request that was on its way.   *)
LEMMA DiesStep ==
  ASSUME TypeInv, StepInv, NEW n \in Node, up[n], Dies(n)
  PROVE  StepInv'
  <1>0. /\ OnePrimary /\ SentBound /\ SessionInv /\ OrphansFit
    BY DEF StepInv
  <1> USE NodeFacts
  <1>1. /\ up' = [up EXCEPT ![n] = FALSE] /\ smr_log' = [smr_log EXCEPT ![n] = <<>>]
        /\ committed_index' = [committed_index EXCEPT ![n] = -1]
        /\ primary_id' = [primary_id EXCEPT ![n] = -1]
        /\ livePeers' = [livePeers EXCEPT ![n] = FALSE]
        /\ sock'[0] = (IF 0 = n \/ sock[0] = "off" THEN "off" ELSE "dead")
        /\ sock'[1] = (IF 1 = n \/ sock[1] = "off" THEN "off" ELSE "dead")
        /\ orphans'[0] = (IF 0 = n THEN <<>> ELSE orphans[0] \o OrphanOf(n))
        /\ orphans'[1] = (IF 1 = n THEN <<>> ELSE orphans[1] \o OrphanOf(n))
        /\ custFile' = custFile
        /\ \/ at = n /\ pc # "connect" /\ NextTxn
           \/ ~(at = n /\ pc # "connect") /\ UNCHANGED <<pc, txn, at, applied, sent>>
    BY DEF Dies, control, files
  <1>2. SessionInv'
    BY <1>1 DEF SessionInv
  <1>3. CASE n = 0
    <2>1. /\ smr_log'[0] = <<>> /\ smr_log'[1] = smr_log[1] /\ ~up'[0]
          /\ sock'[0] = "off" /\ sock'[1] = "off" /\ orphans'[0] = <<>>
          /\ primary_id'[0] = -1 /\ committed_index'[0] = -1 /\ ~livePeers'[1]
          /\ Len(smr_log'[0]) = 0
      BY <1>0, <1>1, <1>3 DEF OnePrimary
    <2>2. pc' = "connect"
      BY <1>0, <1>1, <1>3 DEF OnePrimary, NextTxn
    <2>3. OnePrimary'
      BY <2>1, <2>2 DEF OnePrimary, InOrderAt
    <2>4. SentBound'
      BY <2>2 DEF SentBound
    <2>5. OrphansFit'
      <3>1. orphans'[1] = OrphanOf(0) /\ OrphanOf(0) \in Seq(Orphan)
        <4>1. orphans[1] = <<>> /\ OrphanOf(0) \in Seq(Orphan)
          BY <1>0, <1>3, OrphanOfType DEF OnePrimary
        <4> QED
          BY <1>1, <1>3, <4>1, ConcatEmptySeq
      <3>2. ASSUME sock[0] = "req"
            PROVE  request[0].idx <= Len(smr_log[1])
        <4>1. EndsWith(smr_log[1], smr_log[0], Sent) /\ request[0].idx <= Sent /\ Sent \in Int
          BY <1>0, <3>2 DEF SessionInv, Sent
        <4>2. request[0].idx \in Int
          BY DEF TypeInv, TypeOK, Request
        <4> QED
          BY <4>1, <4>2 DEF EndsWith
      <3>3. ASSUME NEW i \in DOMAIN OrphanOf(0), OrphanOf(0)[i].kind = "req"
            PROVE  OrphanOf(0)[i].r.idx <= Len(smr_log[1])
        <4>1. CASE sock[0] = "req"
          <5>1. OrphanOf(0) = <<[kind |-> "req", r |-> request[0]]>>
            BY <4>1 DEF OrphanOf
          <5>2. OrphanOf(0)[i].r = request[0]
            BY <5>1, <3>3
          <5> QED
            BY <3>2, <4>1, <5>2
        <4>2. CASE sock[0] # "req"
          <5>1. \/ OrphanOf(0) = <<[kind |-> "prepare", txn |-> txn]>>
                \/ OrphanOf(0) = <<[kind |-> "eof"]>>
                \/ OrphanOf(0) = <<>>
            BY <4>2 DEF OrphanOf
          <5> QED
            BY <3>3, <5>1
        <4> QED
          BY <4>1, <4>2
      <3> QED
        BY <2>1, <3>1, <3>3 DEF OrphansFit, InRange
    <2> QED
      BY <1>2, <2>3, <2>4, <2>5 DEF StepInv
  <1>4. CASE n = 1
    <2>1. /\ smr_log'[0] = smr_log[0] /\ orphans'[1] = <<>> /\ sock'[1] = "off"
          /\ up'[0] = up[0] /\ primary_id'[0] = primary_id[0]
          /\ committed_index'[0] = committed_index[0] /\ ~livePeers'[1]
          /\ sock'[0] = "off" <=> sock[0] = "off"
      BY <1>0, <1>1, <1>4 DEF OnePrimary
    <2>2. orphans'[0] = <<>>
      <3>1. OrphanOf(1) = <<>> /\ orphans[0] = <<>>
        BY <1>0 DEF OrphanOf, OnePrimary
      <3> QED
        BY <1>1, <1>4, <3>1, ConcatEmptySeq
    <2>3. pc' # "connect" => at' = 0 /\ pc' = pc /\ UNCHANGED <<at, txn, applied, sent>>
      BY <1>1, <1>4 DEF NextTxn
    <2>4. OnePrimary'
      BY <1>0, <1>1, <1>4, <2>1, <2>2, <2>3 DEF OnePrimary, InOrderAt
    <2>5. SentBound'
      BY <1>0, <2>1, <2>3 DEF SentBound
    <2>6. OrphansFit'
      BY <2>1 DEF OrphansFit
    <2> QED
      BY <1>2, <2>4, <2>5, <2>6 DEF StepInv
  <1> QED
    BY <1>3, <1>4

LEMMA OrphanFits ==
  ASSUME TypeInv, StepInv, NEW n \in Node, OrphanStep(n)
  PROVE  n = 1 /\ ~up[0] /\ up' = up /\ StepInv'
  <1>0. /\ OnePrimary /\ SentBound /\ SessionInv /\ OrphansFit
        /\ orphans[0] = <<>> /\ (up[0] => orphans[1] = <<>>)
        /\ ~up[0] => sock[0] = "off" /\ smr_log[0] = <<>> /\ primary_id[0] = -1
        /\ pc # "connect" => up[at]
    BY DEF StepInv, OnePrimary
  <1> USE NodeFacts
  <1>1. n = 1 /\ ~up[0]
    BY <1>0 DEF OrphanStep
  <1> PICK i \in DOMAIN orphans[n] :
            LET o == orphans[n][i] IN
            \/ /\ o.kind \in {"prepare", "eof"}
               /\ UNCHANGED <<up, customer_record, smr_log, committed_index, livePeers, sock,
                              request, control>>
               /\ primary_id' \in {primary_id, [primary_id EXCEPT ![n] = -1]}
               /\ orphans' = [orphans EXCEPT ![n] = RemoveAt(@, i)]
            \/ /\ o.kind = "req" /\ o.r \in Request
               /\ InRange(n, o.r)
               /\ Take(n, o.r)
               /\ orphans' = [orphans EXCEPT ![n][i] = [kind |-> "eof"]]
               /\ UNCHANGED <<sock, request, control>>
            \/ /\ o.kind = "req" /\ o.r \in Request
               /\ ~InRange(n, o.r)
               /\ Dies(n)
    BY OrphanCases
  <1> DEFINE o == orphans[1][i]
  <1>2. ~(o.kind = "req" /\ ~InRange(1, o.r))
    BY <1>0, <1>1 DEF OrphansFit
  <1>3. /\ orphans[1] \in Seq(Orphan) /\ i \in DOMAIN orphans[1]
        /\ DOMAIN orphans = Node /\ DOMAIN orphans[1] = 1 .. Len(orphans[1])
        /\ Len(orphans[1]) \in Nat
    <2>1. orphans[1] \in Seq(Orphan) /\ DOMAIN orphans = Node
      BY DEF TypeInv, TypeOK
    <2> QED
      BY <1>1, <2>1, LenProperties
  <1>4. custFile' = custFile \/ ~up'[0]
    BY <1>1, <1>2 DEF OrphanStep, Take, memory, files
  <1>5. /\ up' = up /\ livePeers' = livePeers /\ sock' = sock /\ request' = request
        /\ UNCHANGED <<pc, txn, at, applied, sent>>
        /\ smr_log'[0] = smr_log[0] /\ committed_index'[0] = committed_index[0]
        /\ primary_id'[0] = primary_id[0] /\ orphans'[0] = orphans[0]
    <2>1. CASE /\ UNCHANGED <<up, customer_record, smr_log, committed_index, livePeers, sock,
                              request, control>>
               /\ primary_id' \in {primary_id, [primary_id EXCEPT ![1] = -1]}
               /\ orphans' = [orphans EXCEPT ![1] = RemoveAt(@, i)]
      BY <1>3, <2>1 DEF control
    <2>2. CASE /\ Take(1, o.r)
               /\ orphans' = [orphans EXCEPT ![1][i] = [kind |-> "eof"]]
               /\ UNCHANGED <<sock, request, control>>
      <3>1. /\ smr_log' = [smr_log EXCEPT ![1] = Append(smr_log[1], o.r.op)]
            /\ primary_id' = [primary_id EXCEPT ![1] = 0]
            /\ committed_index'[0] = committed_index[0]
            /\ UNCHANGED <<up, livePeers>>
        BY <2>2, TakeFacts
      <3> QED
        BY <1>3, <2>2, <3>1 DEF control
    <2> QED
      BY <1>1, <1>2, <2>1, <2>2
  <1>6. OnePrimary'
    BY <1>0, <1>1, <1>4, <1>5 DEF OnePrimary, InOrderAt
  <1>7. SentBound'
    BY <1>0, <1>5 DEF SentBound
  <1>8. SessionInv'
    BY <1>0, <1>1, <1>5 DEF SessionInv
  <1>9. Len(smr_log[1]) <= Len(smr_log'[1]) /\ Len(smr_log'[1]) \in Nat
    <2>1. CASE smr_log' = smr_log
      BY <2>1
    <2>2. CASE o.r \in Request /\ Take(1, o.r)
      <3>1. o.r.op \in MapOp /\ smr_log'[1] = Append(smr_log[1], o.r.op)
        BY <2>2 DEF Take, Request
      <3>2. Len(smr_log'[1]) = Len(smr_log[1]) + 1
        BY <3>1, AppendProperties
      <3> QED
        BY <3>2
    <2> QED
      BY <1>1, <1>2, <2>1, <2>2
  <1>10. ASSUME NEW j \in DOMAIN orphans[1], orphans[1][j].kind = "req"
         PROVE  orphans[1][j].r.idx <= Len(smr_log'[1])
    <2>1. orphans[1][j] \in Orphan
      BY <1>3, ElementOfSeq
    <2>2. orphans[1][j].r.idx \in Int /\ orphans[1][j].r.idx <= Len(smr_log[1])
      BY <1>0, <1>10, <2>1 DEF Orphan, Request, OrphansFit, InRange
    <2> QED
      BY <1>9, <2>2
  <1>11. \A j \in DOMAIN orphans'[1] : orphans'[1][j].kind = "req" =>
             \E k \in DOMAIN orphans[1] : orphans'[1][j] = orphans[1][k]
    <2>1. CASE orphans' = [orphans EXCEPT ![1] = RemoveAt(@, i)]
      <3>1. orphans'[1] = RemoveAt(orphans[1], i)
        BY <1>3, <2>1
      <3>2. ASSUME NEW s \in Seq(Orphan), NEW h \in DOMAIN s
            PROVE  \A j \in DOMAIN RemoveAt(s, h) : \E k \in DOMAIN s : RemoveAt(s, h)[j] = s[k]
        BY RemoveAtType
      <3>3. \A j \in DOMAIN RemoveAt(orphans[1], i) :
                \E k \in DOMAIN orphans[1] : RemoveAt(orphans[1], i)[j] = orphans[1][k]
        BY <1>3, <3>2
      <3> QED
        BY <3>1, <3>3
    <2>2. CASE orphans' = [orphans EXCEPT ![1][i] = [kind |-> "eof"]]
      <3>1. orphans'[1] = [orphans[1] EXCEPT ![i] = [kind |-> "eof"]]
        BY <1>3, <2>2
      <3>2. ASSUME NEW j \in DOMAIN orphans'[1], orphans'[1][j].kind = "req"
            PROVE  j \in DOMAIN orphans[1] /\ orphans'[1][j] = orphans[1][j]
        <4>1. j \in DOMAIN orphans[1]
          BY <3>1
        <4>2. j # i
          <5>1. ASSUME j = i PROVE FALSE
            <6>1. orphans'[1][j] = [kind |-> "eof"]
              BY <3>1, <4>1, <5>1
            <6> QED
              BY <3>2, <6>1
          <5> QED
            BY <5>1
        <4> QED
          BY <3>1, <4>1, <4>2
      <3> QED
        BY <3>2
    <2> QED
      BY <1>1, <1>2, <2>1, <2>2
  <1>12. OrphansFit'
    BY <1>10, <1>11 DEF OrphansFit, InRange
  <1> QED
    BY <1>1, <1>5, <1>6, <1>7, <1>8, <1>12 DEF StepInv

LEMMA StepInvStep ==
  ASSUME 0 \notin Returns, TypeInv, StepInv, [Next]_vars
  PROVE  StepInv'
  <1>0. OnePrimary /\ SentBound /\ SessionInv /\ OrphansFit
    BY DEF StepInv
  <1> USE NodeFacts
  <1>1. CASE UNCHANGED vars
    BY <1>0, <1>1 DEF vars, memory, files, sessions, control, StepInv, OnePrimary, InOrderAt,
           SentBound, SessionInv, Sent, Awaiting, OrphansFit, InRange
  <1>2. CASE TMStep
    BY <1>2, OnePrimaryTM, SentBoundTM, SessionTM, OrphansFitTM DEF StepInv
  <1>3. ASSUME NEW n \in Node, SessionStep(n) \/ OrphanStep(n) \/ Crash(n) \/ Restart(n)
        PROVE  StepInv'
    <2>1. CASE PeerPrepare(n) \/ UnknownID(n)
      <3>1. /\ sock[0] \in {"PrPrepare", "badid"} /\ n = 1 /\ sock'[1] = "off"
            /\ sock'[0] \in {"Ok", "dead"}
            /\ UNCHANGED <<memory, custFile, request, orphans, control>>
        BY <1>0, <2>1 DEF PeerPrepare, UnknownID, OnePrimary, files
      <3>2. OnePrimary'
        BY <1>0, <3>1 DEF memory, control, OnePrimary, InOrderAt
      <3> QED
        BY <1>0, <3>1, <3>2 DEF memory, control, StepInv, SentBound, SessionInv, OrphansFit, InRange
    <2>2. CASE IFAFlow(n)
      BY <2>2, IFAFlowStep
    <2>3. CASE OrphanStep(n)
      BY <2>3, OrphanFits
    <2>4. CASE Crash(n)
      BY <2>4, DiesStep DEF Crash
    <2>5. CASE Restart(n)
      <3>0. n = 1
        BY <2>5 DEF Restart
      <3>1. up' = [up EXCEPT ![1] = TRUE]
            /\ UNCHANGED <<smr_log, committed_index, primary_id, livePeers, custFile, sock,
                           request, orphans, pc, txn, at, applied, sent>>
        BY <2>5, <3>0 DEF Restart, files, sessions, control
      <3>2. up'[0] = up[0] /\ (up[at] => up'[at])
        BY <3>1 DEF TypeInv, TypeOK
      <3>3. OnePrimary'
        BY <1>0, <3>1, <3>2 DEF OnePrimary, InOrderAt
      <3> QED
        BY <1>0, <3>1, <3>3 DEF StepInv, SentBound, SessionInv, Sent, Awaiting, OrphansFit, InRange
    <2> QED
      BY <1>3, <2>1, <2>2, <2>3, <2>4, <2>5 DEF SessionStep
  <1> QED
    BY <1>1, <1>2, <1>3 DEF Next

(* While node 0, once it has crashed, stays down: node 1 serves the TM, or   *)
(* requests that outlive node 0, only after it; whatever the session between *)
(* them has reached, the backup's log ends with the part of the primary's   *)
(* that has been sent; and every request on its way fits the log it meets.  *)
THEOREM ClusterInvariant ==
  ASSUME 0 \notin Returns
  PROVE  Spec => []StepInv
  <1>1. TypeInv /\ StepInv /\ [Next]_vars => StepInv'
    BY StepInvStep
  <1> QED
    BY <1>1, InitStep, ReplicationTypeCorrect, PTL DEF Spec

(* smr_log.at never throws at a backup: the index that the primary sends    *)
(* is in the backup's log, also when the request outlives the primary.      *)
THEOREM IndexNeverThrows ==
  ASSUME 0 \notin Returns
  PROVE  Spec => []IndexInRange
  <1>1. TypeInv /\ StepInv => IndexInRange
    <2> SUFFICES ASSUME TypeInv, StepInv PROVE IndexInRange
      OBVIOUS
    <2>1. sock[1] = "off" /\ orphans[0] = <<>> /\ SessionInv /\ OrphansFit
      BY DEF StepInv, OnePrimary
    <2>2. sock[0] = "req" => InRange(1, request[0])
      <3>1. sock[0] = "req" => /\ EndsWith(smr_log[1], smr_log[0], Sent) /\ Sent \in Int
                               /\ request[0].idx <= Sent /\ request[0].idx \in Int
        BY <2>1, NodeFacts DEF SessionInv, Sent, TypeInv, TypeOK, Request
      <3> QED
        BY <3>1, NodeFacts DEF EndsWith, InRange
    <2>3. \A i \in DOMAIN orphans[1] :
              orphans[1][i].kind = "req" => InRange(1, orphans[1][i].r)
      BY <2>1 DEF OrphansFit
    <2>4. ASSUME NEW n \in Node
          PROVE  /\ sock[Peer(n)] = "req" => InRange(n, request[Peer(n)])
                 /\ \A i \in DOMAIN orphans[n] :
                        orphans[n][i].kind = "req" => InRange(n, orphans[n][i].r)
      <3>1. CASE n = 0
        BY <2>1, <3>1, NodeFacts
      <3>2. CASE n = 1
        BY <2>2, <2>3, <3>2, NodeFacts
      <3> QED
        BY <3>1, <3>2, NodeFacts
    <2> QED
      BY <2>4 DEF IndexInRange
  <1> QED
    BY <1>1, ClusterInvariant, ReplicationTypeCorrect, PTL

(* Between two orders, the log of a backup that is connected for            *)
(* replication ends with all of the primary's log.                          *)
THEOREM BackupFollows ==
  ASSUME 0 \notin Returns
  PROVE  Spec => []BackupInStep
  <1>1. TypeInv /\ StepInv => BackupInStep
    <2> SUFFICES ASSUME TypeInv, StepInv, primary_id[0] = 0, sock[0] = "pfa",
                        pc \in {"connect", "prepare", "copy", "decide", "abort", "order", "persist"}
                 PROVE  IsSuffix(smr_log[0], smr_log[1])
      BY NodeFacts DEF BackupInStep, StepInv, OnePrimary
    <2>1. EndsWith(smr_log[1], smr_log[0], Len(smr_log[0]))
      BY DEF StepInv, SessionInv, Sent
    <2> QED
      BY <2>1, NodeFacts, EndsWithAll
  <1> QED
    BY <1>1, ClusterInvariant, ReplicationTypeCorrect, PTL

-----------------------------------------------------------------------------
(* What the backup shows. *)

(* The records show the order op, or a later one of its customer. *)
ShownIn(records, op) == records[op.cust] # Absent /\ op.num <= records[op.cust]

(* No number that the primary has applied is larger. *)
Numbers == (txn - 1) * MaxOrders + applied + (IF InOrderAt(0) /\ pc # "append" THEN 1 ELSE 0)

(* What either log holds, and what the backup shows, the primary shows; and *)
(* its numbers grow.                                                        *)
AheadInv ==
    up[0] =>
        /\ \A n \in Node : \A i \in DOMAIN smr_log[n] : ShownIn(customer_record[0], smr_log[n][i])
        /\ \A c \in Customer : customer_record[1][c] # Absent =>
               ShownIn(customer_record[0], [cust |-> c, num |-> customer_record[1][c]])
        /\ \A c \in Customer : customer_record[0][c] # Absent => customer_record[0][c] <= Numbers

LEMMA NumbersType ==
  ASSUME TypeInv
  PROVE  /\ Numbers \in Nat /\ (txn - 1) * MaxOrders \in Nat /\ applied \in Nat
         /\ applied <= MaxOrders /\ MaxOrders \in Nat
         /\ txn * MaxOrders = (txn - 1) * MaxOrders + MaxOrders
  <1>1. txn \in Nat /\ txn >= 1 /\ applied \in Nat /\ applied <= MaxOrders /\ MaxOrders \in Nat
    BY WorkFacts DEF TypeInv, TypeOK
  <1>2. txn - 1 \in Nat
    BY <1>1
  <1>3. \A a, b \in Nat : a * b \in Nat
    OBVIOUS
  <1>4. (txn - 1) * MaxOrders \in Nat
    BY <1>1, <1>2, <1>3
  <1>5. \A a, b \in Nat : (a + 1) * b = a * b + b
    OBVIOUS
  <1>6. ((txn - 1) + 1) * MaxOrders = (txn - 1) * MaxOrders + MaxOrders
    BY <1>1, <1>2, <1>5
  <1>7. (txn - 1) + 1 = txn
    BY <1>1
  <1> QED
    BY <1>1, <1>4, <1>6, <1>7 DEF Numbers

(* A step that changes neither logs nor records, and whose numbers go on.   *)
LEMMA AheadQuiet ==
  ASSUME TypeInv, AheadInv, up'[0] => up[0], customer_record' = customer_record,
         smr_log' = smr_log, up[0] => Numbers' \in Nat /\ Numbers <= Numbers'
  PROVE  AheadInv'
  <1> SUFFICES ASSUME up[0]
               PROVE  /\ \A n \in Node : \A i \in DOMAIN smr_log[n] :
                             ShownIn(customer_record[0], smr_log[n][i])
                      /\ \A c \in Customer : customer_record[1][c] # Absent =>
                             ShownIn(customer_record[0], [cust |-> c, num |-> customer_record[1][c]])
                      /\ \A c \in Customer : customer_record[0][c] # Absent =>
                             customer_record[0][c] <= Numbers'
    BY DEF AheadInv
  <1>1. \A c \in Customer : customer_record[0][c] \in Nat \cup {Absent}
    BY DEF TypeInv, TypeOK, Node
  <1>2. Numbers \in Nat /\ Numbers' \in Nat /\ Numbers <= Numbers'
    BY NumbersType
  <1>3. ASSUME NEW c \in Customer, customer_record[0][c] # Absent
        PROVE  customer_record[0][c] <= Numbers'
    <2>1. customer_record[0][c] \in Nat /\ customer_record[0][c] <= Numbers
      BY <1>1, <1>3 DEF AheadInv
    <2> QED
      BY <1>2, <2>1
  <1> QED
    BY <1>3 DEF AheadInv

LEMMA AheadTM ==
  ASSUME TypeInv, StepInv, AheadInv, TMStep
  PROVE  AheadInv'
  <1>0. /\ pc # "connect" => up[at] /\ (at = 1 => ~up[0])
        /\ primary_id[0] \in {-1, 0} /\ (primary_id[0] = -1 => smr_log[0] = <<>>)
        /\ committed_index[0] = Len(smr_log[0]) - 1
    BY DEF StepInv, OnePrimary
  <1> USE NodeFacts
  <1>t. /\ Numbers \in Nat /\ (txn - 1) * MaxOrders \in Nat /\ applied \in Nat
        /\ applied <= MaxOrders /\ MaxOrders \in Nat
        /\ txn * MaxOrders = (txn - 1) * MaxOrders + MaxOrders
    BY NumbersType
  <1>u. up' = up
    BY DEF TMStep, Connect, Decide, TMPrepare, CopyTranlogReplica, Copied, TMAbort, TMCommit,
           BecomePrimary, AppendOrder, Replicate, Replicated, SendAllRequests, AllReplied, memory
  <1>1. CASE AppendOrder
    <2> DEFINE op  == Order(txn, applied + 1)
               rec == customer_record[0]
               new == [rec EXCEPT ![op.cust] = op.num]
    <2>1. op \in MapOp /\ op.num = (txn - 1) * MaxOrders + (applied + 1)
      <3>1. txn \in Txn /\ applied + 1 \in 1 .. Len(Work[txn])
        BY <1>1, WorkFacts DEF AppendOrder, faults, TypeInv, TypeOK, Progress, InOrders
      <3> QED
        BY <3>1, OrderType DEF Order
    <2> SUFFICES ASSUME up[0]
                 PROVE  /\ \A n \in Node : \A i \in DOMAIN smr_log'[n] :
                               ShownIn(customer_record'[0], smr_log'[n][i])
                        /\ \A c \in Customer : customer_record'[1][c] # Absent =>
                               ShownIn(customer_record'[0], [cust |-> c, num |-> customer_record'[1][c]])
                        /\ \A c \in Customer : customer_record'[0][c] # Absent =>
                               customer_record'[0][c] <= Numbers'
      BY <1>u DEF AheadInv
    <2>2. at = 0 /\ pc = "append" /\ pc' = "replicate" /\ UNCHANGED <<txn, at, applied>>
      BY <1>0, <1>1 DEF AppendOrder
    <2>3. Numbers = (txn - 1) * MaxOrders + applied /\ Numbers' = op.num
      <3>1. ~(InOrderAt(0) /\ pc # "append") /\ InOrderAt(0)' /\ pc' # "append"
        BY <2>2 DEF InOrderAt
      <3>2. Numbers = (txn - 1) * MaxOrders + applied + 0
        BY <3>1 DEF Numbers
      <3>3. Numbers' = (txn - 1) * MaxOrders + applied + 1
        BY <2>2, <3>1 DEF Numbers
      <3> QED
        BY <1>t, <2>1, <3>2, <3>3
    <2>4. /\ smr_log'[0] = Append(smr_log[0], op) /\ smr_log'[1] = smr_log[1]
          /\ customer_record'[0] = new /\ customer_record'[1] = customer_record[1]
      <3>1. /\ smr_log' = [smr_log EXCEPT ![0] = Append(smr_log[0], op)]
            /\ customer_record' = [customer_record EXCEPT ![0][op.cust] = op.num]
        BY <1>1, <2>2 DEF AppendOrder
      <3>2. DOMAIN customer_record = Node
        BY DEF TypeInv, TypeOK
      <3> HIDE DEF op
      <3> QED
        BY <3>1, <3>2
    <2>5. rec \in [Customer -> Nat \cup {Absent}] /\ customer_record[1] \in [Customer -> Nat \cup {Absent}]
      BY DEF TypeInv, TypeOK
    <2>6. op.cust \in Customer /\ op.num \in Nat /\ op.num # Absent
      BY <2>1, ReplicationAssumption DEF MapOp
    <2> HIDE DEF op, rec
    <2>7. \A c \in Customer : new[c] = IF c = op.cust THEN op.num ELSE rec[c]
      BY <2>5
    <2>8. \A c \in Customer : rec[c] # Absent => rec[c] \in Nat /\ rec[c] <= Numbers
      BY <2>5 DEF AheadInv, rec
    <2>9. \A c \in Customer : rec[c] # Absent => rec[c] \in Nat /\ rec[c] < op.num
      BY <1>t, <2>1, <2>3, <2>8
    <2> HIDE DEF new
    <2>10. ASSUME NEW x, x.cust \in Customer, x.num \in Nat, ShownIn(rec, x)
           PROVE  ShownIn(new, x)
      BY <2>6, <2>7, <2>9, <2>10 DEF ShownIn
    <2>11. ShownIn(new, op)
      BY <2>6, <2>7 DEF ShownIn
    <2>12. ASSUME NEW n \in Node, NEW i \in DOMAIN smr_log'[n]
           PROVE  ShownIn(new, smr_log'[n][i])
      <3>1. CASE i \in DOMAIN smr_log[n] /\ smr_log'[n][i] = smr_log[n][i]
        <4>1. smr_log[n][i] \in MapOp
          BY <3>1, LenProperties, ElementOfSeq
        <4>2. ShownIn(rec, smr_log[n][i])
          BY <3>1 DEF AheadInv, rec
        <4> QED
          BY <2>10, <3>1, <4>1, <4>2 DEF MapOp
      <3>2. CASE smr_log'[n][i] = op
        BY <2>11, <3>2
      <3>3. \/ i \in DOMAIN smr_log[n] /\ smr_log'[n][i] = smr_log[n][i]
            \/ smr_log'[n][i] = op
        <4>1. CASE n = 1
          BY <2>4, <2>12, <4>1
        <4>2. CASE n = 0
          <5>1. /\ Append(smr_log[0], op) \in Seq(MapOp)
                /\ Len(Append(smr_log[0], op)) = Len(smr_log[0]) + 1
                /\ \A j \in 1 .. Len(smr_log[0]) : Append(smr_log[0], op)[j] = smr_log[0][j]
                /\ Append(smr_log[0], op)[Len(smr_log[0]) + 1] = op
            BY <2>1, AppendProperties
          <5>2. /\ DOMAIN Append(smr_log[0], op) = 1 .. Len(smr_log[0]) + 1
                /\ DOMAIN smr_log[0] = 1 .. Len(smr_log[0])
            BY <5>1, LenProperties
          <5> QED
            BY <2>4, <2>12, <4>2, <5>1, <5>2
        <4> QED
          BY <4>1, <4>2
      <3> QED
        BY <3>1, <3>2, <3>3
    <2>13. ASSUME NEW c \in Customer, customer_record[1][c] # Absent
           PROVE  ShownIn(new, [cust |-> c, num |-> customer_record[1][c]])
      <3>1. ShownIn(rec, [cust |-> c, num |-> customer_record[1][c]])
        BY <2>13 DEF AheadInv, rec
      <3>2. customer_record[1][c] \in Nat
        BY <2>5, <2>13
      <3> QED
        BY <2>10, <3>1, <3>2
    <2>14. ASSUME NEW c \in Customer, new[c] # Absent
           PROVE  new[c] <= op.num
      BY <2>6, <2>7, <2>9, <2>14
    <2> QED
      BY <2>3, <2>4, <2>12, <2>13, <2>14
  <1>2. CASE ~AppendOrder /\ up[0]
    <2>1. smr_log' = smr_log
      BY <1>2 DEF TMStep, Connect, Decide, TMPrepare, CopyTranlogReplica, Copied, TMAbort,
             TMCommit, BecomePrimary, Replicate, Replicated, SendAllRequests, AllReplied, memory
    <2>2. customer_record' = customer_record
      <3>1. CASE BecomePrimary
        <4>1. at = 0
          BY <1>0, <1>2, <3>1 DEF BecomePrimary
        <4>2. ~(committed_index[at] < last_index[at])
          BY <1>0, <4>1 DEF last_index
        <4> QED
          BY <3>1, <4>2 DEF BecomePrimary, CatchUp
      <3> QED
        BY <1>2, <3>1
           DEF TMStep, Connect, Decide, TMPrepare, CopyTranlogReplica, Copied, TMAbort,
               TMCommit, Replicate, Replicated, SendAllRequests, AllReplied, memory
    <2>3. \/ /\ NextTxn /\ ~InOrders
          \/ /\ Answer /\ InOrderAt(0) /\ pc # "append"
          \/ /\ UNCHANGED <<txn, applied>>
             /\ (InOrderAt(0) /\ pc # "append") <=> (InOrderAt(0) /\ pc # "append")'
      BY <1>0, <1>2
         DEF TMStep, Connect, Decide, TMPrepare, CopyTranlogReplica, Copied, TMAbort, TMCommit,
             BecomePrimary, Replicate, Replicated, SendAllRequests, AllReplied, InOrderAt,
             InOrders, Answer
    <2>4. Numbers' \in Nat /\ Numbers <= Numbers'
      <3>1. CASE NextTxn /\ ~InOrders
        <4>1. Numbers = (txn - 1) * MaxOrders + applied + 0
          BY <3>1 DEF Numbers, InOrders, InOrderAt
        <4>2. txn' - 1 = txn /\ applied' = 0 /\ ~(InOrderAt(0))'
          BY <3>1 DEF NextTxn, InOrderAt, TypeInv, TypeOK
        <4>3. Numbers' = txn * MaxOrders + 0 + 0
          BY <4>2 DEF Numbers
        <4> QED
          BY <1>t, <4>1, <4>3
      <3>2. CASE Answer /\ InOrderAt(0) /\ pc # "append"
        <4>1. Numbers = (txn - 1) * MaxOrders + applied + 1
          BY <3>2 DEF Numbers
        <4>2. txn' = txn /\ applied' = applied + 1 /\ ~(InOrderAt(0))'
          BY <3>2 DEF Answer, InOrderAt
        <4>3. Numbers' = (txn - 1) * MaxOrders + (applied + 1) + 0
          BY <4>2 DEF Numbers
        <4> QED
          BY <1>t, <4>1, <4>3
      <3>3. CASE /\ UNCHANGED <<txn, applied>>
                 /\ (InOrderAt(0) /\ pc # "append") <=> (InOrderAt(0) /\ pc # "append")'
        <4>1. Numbers' = Numbers
          BY <3>3 DEF Numbers
        <4> QED
          BY <1>t, <4>1
      <3> QED
        BY <2>3, <3>1, <3>2, <3>3
    <2> QED
      BY <1>u, <2>1, <2>2, <2>4, AheadQuiet
  <1>3. CASE ~up[0]
    BY <1>u, <1>3 DEF AheadInv
  <1> QED
    BY <1>1, <1>2, <1>3

(* The backup logs an order of the primary, and applies one that is in a    *)
(* log.                                                                     *)
LEMMA AheadTake ==
  ASSUME TypeInv, StepInv, AheadInv, IFAFlow(1), up[0]
  PROVE  AheadInv'
  <1> USE NodeFacts
  <1> DEFINE r   == request[0]
             b   == smr_log[1]
             log == Append(b, r.op)
             op  == log[r.idx + 1]
             rec == customer_record[0]
  <1>1. InRange(1, r) /\ Take(1, r) /\ StepInv'
    BY IFAFlowStep
  <1>2. /\ sock[0] = "req" /\ Awaiting /\ r.op = smr_log[0][Sent + 1]
        /\ r.idx \in Int /\ r.op \in MapOp
    <2>1. r \in Request /\ SessionInv
      BY DEF TypeInv, TypeOK, StepInv
    <2>2. sock[0] = "req"
      BY DEF IFAFlow
    <2> QED
      BY <2>1, <2>2 DEF SessionInv, Request
  <1>3. Sent + 1 \in DOMAIN smr_log[0]
    <2>1. SentBound
      BY DEF StepInv
    <2>2. DOMAIN smr_log[0] = 1 .. Len(smr_log[0])
      BY LenProperties
    <2>3. CASE pc = "reply"
      <3>1. Len(smr_log[0]) # 0
        BY <1>2, <2>1, <2>3, EmptySeq DEF Awaiting, SentBound
      <3> QED
        BY <2>2, <2>3, <3>1 DEF Sent
    <2>4. CASE pc = "allReply"
      BY <1>2, <2>1, <2>2, <2>4 DEF Awaiting, SentBound, Sent
    <2> QED
      BY <1>2, <2>3, <2>4 DEF Awaiting
  <1>4. ShownIn(rec, r.op)
    BY <1>2, <1>3 DEF AheadInv
  <1>5. /\ log \in Seq(MapOp) /\ DOMAIN log = 1 .. Len(b) + 1 /\ DOMAIN b = 1 .. Len(b)
        /\ \A j \in 1 .. Len(b) : log[j] = b[j]
        /\ log[Len(b) + 1] = r.op
    <2>1. /\ log \in Seq(MapOp) /\ Len(log) = Len(b) + 1
          /\ \A j \in 1 .. Len(b) : log[j] = b[j] /\ log[Len(b) + 1] = r.op
      BY <1>2, AppendProperties
    <2>2. log[Len(b) + 1] = r.op
      BY <1>2, AppendProperties
    <2> HIDE DEF log
    <2> QED
      BY <2>1, <2>2, LenProperties
  <1>6. \A j \in DOMAIN log : ShownIn(rec, log[j])
    <2> HIDE DEF log
    <2> TAKE j \in DOMAIN log
    <2>1. CASE j \in 1 .. Len(b)
      <3>1. ShownIn(rec, b[j])
        BY <1>5, <2>1 DEF AheadInv
      <3> QED
        BY <1>5, <2>1, <3>1
    <2>2. CASE j = Len(b) + 1
      BY <1>4, <1>5, <2>2
    <2> QED
      BY <1>5, <2>1, <2>2
  <1>7. /\ smr_log' = [smr_log EXCEPT ![1] = log]
        /\ \/ customer_record' = customer_record
           \/ r.idx >= 0 /\ customer_record' = [customer_record EXCEPT ![1][op.cust] = op.num]
        /\ up' = up
    BY <1>1 DEF Take
  <1>8. Numbers' = Numbers
    <2>1. UNCHANGED <<pc, txn, at, applied>>
      BY <1>1 DEF IFAFlow, control
    <2> QED
      BY <2>1 DEF Numbers, InOrderAt
  <1>9. DOMAIN customer_record = Node /\ customer_record[1] \in [Customer -> Nat \cup {Absent}]
    BY DEF TypeInv, TypeOK
  <1> PICK k, v : \/ customer_record' = customer_record
                  \/ /\ r.idx >= 0 /\ k = op.cust /\ v = op.num
                     /\ customer_record' = [customer_record EXCEPT ![1][k] = v]
    BY <1>7
  <1>10. customer_record'[0] = rec
    BY <1>9
  <1>11. r.idx >= 0 => op \in MapOp /\ ShownIn(rec, op)
    <2>1. r.idx >= 0 => r.idx + 1 \in DOMAIN log
      BY <1>1, <1>2, <1>5 DEF InRange
    <2> HIDE DEF log, r, rec
    <2> QED
      BY <1>5, <1>6, <2>1, ElementOfSeq, LenProperties
  <1>12. ASSUME NEW c \in Customer, customer_record'[1][c] # Absent
         PROVE  ShownIn(rec, [cust |-> c, num |-> customer_record'[1][c]])
    <2>1. CASE customer_record'[1][c] = customer_record[1][c]
      BY <1>12, <2>1 DEF AheadInv
    <2>2. CASE r.idx >= 0 /\ c = op.cust /\ customer_record'[1][c] = op.num
      <3> HIDE DEF op, rec
      <3> QED
        BY <1>11, <2>2 DEF ShownIn
    <2>3. \/ customer_record'[1][c] = customer_record[1][c]
          \/ r.idx >= 0 /\ c = op.cust /\ customer_record'[1][c] = op.num
      <3> HIDE DEF op, r, log, rec
      <3> QED
        BY <1>9, <1>12
    <2> QED
      BY <2>1, <2>2, <2>3
  <1>13. \A n \in Node : \A i \in DOMAIN smr_log'[n] : ShownIn(rec, smr_log'[n][i])
    <2>1. smr_log'[0] = smr_log[0] /\ smr_log'[1] = log
      <3> HIDE DEF log
      <3> QED
        BY <1>7
    <2>2. \A i \in DOMAIN smr_log[0] : ShownIn(rec, smr_log[0][i])
      BY DEF AheadInv
    <2> HIDE DEF log, rec
    <2> QED
      BY <1>6, <2>1, <2>2
  <1>14. \A c \in Customer : rec[c] # Absent => rec[c] <= Numbers
    BY DEF AheadInv
  <1> HIDE DEF rec
  <1> QED
    BY <1>8, <1>10, <1>12, <1>13, <1>14 DEF AheadInv

LEMMA AheadStep ==
  ASSUME 0 \notin Returns, TypeInv, StepInv, AheadInv, [Next]_vars
  PROVE  AheadInv'
  <1>0. /\ pc # "connect" => up[at] /\ (at = 1 => ~up[0])
        /\ up[0] => custFile[1] = EmptyRecords
        /\ sock[1] = "off"
    BY DEF StepInv, OnePrimary
  <1> USE NodeFacts
  <1>t. Numbers \in Nat /\ DOMAIN customer_record = Node /\ DOMAIN up = Node
    BY NumbersType DEF TypeInv, TypeOK
  <1>1. ASSUME UNCHANGED <<up, smr_log, customer_record, pc, txn, at, applied>>
        PROVE  AheadInv'
    <2>1. Numbers' = Numbers
      BY <1>1 DEF Numbers, InOrderAt
    <2>2. Numbers' \in Nat /\ Numbers <= Numbers' /\ up' = up
      BY <1>1, <1>t, <2>1
    <2>3. customer_record' = customer_record /\ smr_log' = smr_log
      BY <1>1
    <2> QED
      BY <2>2, <2>3, AheadQuiet
  <1>2. ASSUME /\ up' = [up EXCEPT ![1] = TRUE] \/ up' = [up EXCEPT ![1] = FALSE]
               /\ smr_log'[0] = smr_log[0] /\ (smr_log'[1] = smr_log[1] \/ smr_log'[1] = <<>>)
               /\ customer_record'[0] = customer_record[0]
               /\ up[0] => customer_record'[1] = EmptyRecords
               /\ up[0] => UNCHANGED <<pc, txn, at, applied>>
        PROVE  AheadInv'
    <2> SUFFICES ASSUME up[0]
                 PROVE  /\ \A n \in Node : \A i \in DOMAIN smr_log'[n] :
                               ShownIn(customer_record'[0], smr_log'[n][i])
                        /\ \A c \in Customer : customer_record'[1][c] # Absent =>
                               ShownIn(customer_record'[0], [cust |-> c, num |-> customer_record'[1][c]])
                        /\ \A c \in Customer : customer_record'[0][c] # Absent =>
                               customer_record'[0][c] <= Numbers'
      <3>1. up'[0] = up[0]
        BY <1>2, <1>t
      <3> QED
        BY <3>1 DEF AheadInv
    <2>1. Numbers' = Numbers
      BY <1>2 DEF Numbers, InOrderAt
    <2>2. \A c \in Customer : customer_record'[1][c] = Absent
      BY <1>2 DEF EmptyRecords
    <2>3. ASSUME NEW n \in Node, NEW i \in DOMAIN smr_log'[n]
          PROVE  ShownIn(customer_record'[0], smr_log'[n][i])
      <3>e. DOMAIN << >> = {}
        BY EmptySeq
      <3>a. ASSUME n = 0 PROVE smr_log'[n] = smr_log[n]
        BY <1>2, <3>a
      <3>b. ASSUME n = 1 PROVE smr_log'[n] = smr_log[n]
        <4>1. smr_log'[1] # << >>
          BY <2>3, <3>b, <3>e
        <4> QED
          BY <1>2, <3>b, <4>1
      <3>0. n = 0 \/ n = 1
        BY <2>3
      <3>1. smr_log'[n] = smr_log[n]
        BY <3>0, <3>a, <3>b
      <3> QED
        BY <1>2, <2>3, <3>1 DEF AheadInv
    <2> QED
      BY <1>2, <2>1, <2>2, <2>3 DEF AheadInv
  <1>3. ASSUME NEW n \in Node, up[n], Dies(n)
        PROVE  AheadInv'
    <2>1. CASE n = 0
      <3>1. ~up'[0]
        BY <1>3, <1>t, <2>1 DEF Dies
      <3> QED
        BY <3>1 DEF AheadInv
    <2>2. CASE n = 1
      <3>1. /\ up' = [up EXCEPT ![1] = FALSE] /\ smr_log' = [smr_log EXCEPT ![1] = <<>>]
            /\ customer_record' = [customer_record EXCEPT ![1] = EmptyRecords]
            /\ up[0] => UNCHANGED <<pc, txn, at, applied, sent>>
        BY <1>0, <1>3, <2>2 DEF Dies, control
      <3> QED
        BY <1>2, <1>t, <3>1
    <2> QED
      BY <2>1, <2>2
  <1>4. CASE UNCHANGED vars
    BY <1>1, <1>4 DEF vars, memory, control
  <1>5. CASE TMStep
    BY <1>5, AheadTM
  <1>6. ASSUME NEW n \in Node, SessionStep(n) \/ OrphanStep(n) \/ Crash(n) \/ Restart(n)
        PROVE  AheadInv'
    <2>1. CASE PeerPrepare(n) \/ UnknownID(n)
      BY <1>1, <2>1 DEF PeerPrepare, UnknownID, memory, control
    <2>2. CASE IFAFlow(n)
      <3>1. n = 1 /\ Take(1, request[0])
        BY <2>2, IFAFlowStep
      <3>2. CASE up[0]
        BY <2>2, <3>1, <3>2, AheadTake
      <3>3. CASE ~up[0]
        BY <3>1, <3>3 DEF Take, AheadInv
      <3> QED
        BY <3>2, <3>3
    <2>3. CASE OrphanStep(n)
      <3>1. ~up'[0]
        BY <2>3, OrphanFits
      <3> QED
        BY <3>1 DEF AheadInv
    <2>4. CASE Crash(n)
      BY <1>3, <2>4 DEF Crash
    <2>5. CASE Restart(n)
      <3>1. n = 1
        BY <2>5 DEF Restart
      <3>2. /\ up' = [up EXCEPT ![1] = TRUE]
            /\ customer_record' = [customer_record EXCEPT ![1] = custFile[1]]
            /\ UNCHANGED <<smr_log, pc, txn, at, applied>>
        BY <2>5, <3>1 DEF Restart, control
      <3> QED
        BY <1>0, <1>2, <1>t, <3>2
    <2> QED
      BY <1>6, <2>1, <2>2, <2>3, <2>4, <2>5 DEF SessionStep
  <1> QED
    BY <1>4, <1>5, <1>6 DEF Next

(* A backup never shows an order that its primary has not applied, whoever  *)
(* crashes and however often the backup returns.                            *)
THEOREM BackupNeverAhead ==
  ASSUME 0 \notin Returns
  PROVE  Spec => []BackupNotAhead
  <1>1. Init => AheadInv
    <2> SUFFICES ASSUME Init PROVE AheadInv
      OBVIOUS
    <2>1. /\ \A n \in Node : smr_log[n] = <<>>
          /\ \A n \in Node : \A c \in Customer : customer_record[n][c] = Absent
      BY DEF Init, EmptyRecords
    <2> QED
      BY <2>1 DEF AheadInv, Node
  <1>2. TypeInv /\ StepInv /\ AheadInv /\ [Next]_vars => AheadInv'
    BY AheadStep
  <1>3. TypeInv /\ StepInv /\ AheadInv => BackupNotAhead
    <2> SUFFICES ASSUME TypeInv, StepInv, AheadInv
                 PROVE  BackupNotAhead
      OBVIOUS
    <2>1. /\ Node = {0, 1} /\ Peer(0) = 1 /\ Peer(1) = 0
          /\ primary_id[0] \in {-1, 0} /\ (primary_id[0] = 0 => up[0])
      BY NodeFacts DEF StepInv, OnePrimary
    <2>2. ASSUME NEW c \in Customer, primary_id[0] = 0, customer_record[1][c] # Absent
          PROVE  /\ customer_record[0][c] # Absent
                 /\ customer_record[1][c] <= customer_record[0][c]
      <3>1. ShownIn(customer_record[0], [cust |-> c, num |-> customer_record[1][c]])
        BY <2>1, <2>2 DEF AheadInv
      <3> QED
        BY <3>1 DEF ShownIn
    <2>3. ASSUME NEW n \in Node, NEW c \in Customer, primary_id[n] = n, primary_id[Peer(n)] = n,
                 customer_record[Peer(n)][c] # Absent
          PROVE  /\ customer_record[n][c] # Absent
                 /\ customer_record[Peer(n)][c] <= customer_record[n][c]
      <3>1. n = 0
        BY <2>1, <2>3
      <3> QED
        BY <2>1, <2>2, <2>3, <3>1
    <2> QED
      BY <2>3 DEF BackupNotAhead
  <1> QED
    BY <1>1, <1>2, <1>3, ClusterInvariant, ReplicationTypeCorrect, PTL DEF Spec
=============================================================================
