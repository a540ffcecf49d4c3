-------------------------- MODULE OrderQueue_proofs ---------------------------
(***************************************************************************)
(* Proofs about OrderQueue, for any number of handlers and of orders.      *)
(***************************************************************************)
EXTENDS OrderQueue, SequenceTheorems, TLAPS

(* Who is between taking and giving up the mutex holds it, and nobody else. *)
HandlerInside(h) == hpc[h] \in {"push", "notify", "unlock"}
AdminInside      == apc \in {"test", "sleep", "pop", "unlock"}

LockInv ==
    /\ \A h \in Handler : HandlerInside(h) <=> arq_lock = h
    /\ AdminInside <=> arq_lock = Admin

(* The admin thread acts on what it saw: the queue is as it found it.      *)
AdminInv ==
    /\ apc = "pop" => arq # <<>>
    /\ apc = "sleep" => arq = <<>>
    /\ apc \in {"unlock", "serve", "answer"} => req \in Request

(* A request r that is queued or in hand is the one its thread waits for,  *)
(* and no thread has two.                                                  *)
Waiting(r) ==
    /\ hpc[r[1]] \in {"notify", "unlock", "get"}
    /\ ~promise[r[1]]
    /\ r[2] = returned[r[1]] + 1

HasRequest == apc \in {"unlock", "serve", "answer"}

RequestInv ==
    /\ \A i \in DOMAIN arq : Waiting(arq[i])
    /\ HasRequest => Waiting(req)
    /\ \A i, j \in DOMAIN arq : arq[i][1] = arq[j][1] => i = j
    /\ HasRequest => \A i \in DOMAIN arq : arq[i][1] # req[1]

(* A thread that has not pushed its request yet has an unused promise. *)
FreshPromise == \A h \in Handler : hpc[h] \in {"lock", "push"} => ~promise[h]

QueueInv == TypeOK /\ LockInv /\ AdminInv /\ NothingLost /\ NoLostWakeup
            /\ RequestInv /\ FreshPromise

-----------------------------------------------------------------------------
(* Type correctness. *)

LEMMA InitType == Init => TypeOK
  BY QueueAssumption DEF Init, TypeOK, HandlerPc, AdminPc, Thread

(* The request that Push adds. *)
LEMMA RequestType ==
  ASSUME TypeOK, NEW h \in Handler
  PROVE  <<h, returned[h] + 1>> \in Request
  BY DEF TypeOK, Request

LEMMA HandlerType ==
  ASSUME TypeOK, NEW h \in Handler, HandlerStep(h)
  PROVE  TypeOK'
  <1> USE DEF TypeOK, HandlerPc, AdminPc, Thread, Goto, handlerVars, adminVars
  <1>1. CASE NewRequest(h)
    BY <1>1 DEF NewRequest
  <1>2. CASE Lock(h)
    BY <1>2 DEF Lock, Acquire
  <1>3. CASE Push(h)
    <2>1. <<h, returned[h] + 1>> \in Request
      BY RequestType
    <2>2. arq' \in Seq(Request) /\ pushed' \in Seq(Request)
      BY <1>3, <2>1, AppendProperties DEF Push
    <2> QED
      BY <1>3, <2>2 DEF Push
  <1>4. CASE Notify(h)
    BY <1>4 DEF Notify
  <1>5. CASE Unlock(h)
    BY <1>5 DEF Unlock, Release
  <1>6. CASE Get(h)
    BY <1>6 DEF Get
  <1> QED
    BY <1>1, <1>2, <1>3, <1>4, <1>5, <1>6 DEF HandlerStep

LEMMA AdminType ==
  ASSUME TypeOK, AdminInv, AdminStep \/ Spurious
  PROVE  TypeOK'
  <1> USE DEF TypeOK, HandlerPc, AdminPc, Thread, AGoto, handlerVars, adminVars
  <1>1. CASE AdminLock
    BY <1>1 DEF AdminLock, Acquire
  <1>2. CASE Test
    BY <1>2 DEF Test
  <1>3. CASE Sleep
    BY <1>3 DEF Sleep, Release
  <1>4. CASE Pop
    BY <1>4, HeadTailProperties DEF Pop, AdminInv
  <1>5. CASE AdminUnlock
    BY <1>5 DEF AdminUnlock, Release
  <1>6. CASE Serve
    BY <1>6 DEF Serve, AdminInv
  <1>7. CASE SetValue
    BY <1>7 DEF SetValue
  <1>8. CASE Spurious
    BY <1>8 DEF Spurious
  <1> QED
    BY <1>1, <1>2, <1>3, <1>4, <1>5, <1>6, <1>7, <1>8 DEF AdminStep

-----------------------------------------------------------------------------
(* The mutex excludes. *)

LEMMA InitLock == Init => LockInv
  BY QueueAssumption DEF Init, LockInv, HandlerInside, AdminInside

LEMMA LockStep ==
  ASSUME TypeOK, LockInv, (\E h \in Handler : HandlerStep(h)) \/ AdminStep \/ Spurious
  PROVE  LockInv'
  <1> USE QueueAssumption
      DEF TypeOK, LockInv, HandlerInside, AdminInside, Goto, AGoto, handlerVars, adminVars
  <1>1. ASSUME NEW h \in Handler, HandlerStep(h)
        PROVE  LockInv'
    <2>1. CASE NewRequest(h)
      BY <2>1 DEF NewRequest
    <2>2. CASE Lock(h)
      BY <2>2 DEF Lock, Acquire
    <2>3. CASE Push(h)
      BY <2>3 DEF Push
    <2>4. CASE Notify(h)
      BY <2>4 DEF Notify
    <2>5. CASE Unlock(h)
      BY <2>5 DEF Unlock, Release
    <2>6. CASE Get(h)
      BY <2>6 DEF Get
    <2> QED
      BY <1>1, <2>1, <2>2, <2>3, <2>4, <2>5, <2>6 DEF HandlerStep
  <1>2. CASE AdminLock
    BY <1>2 DEF AdminLock, Acquire
  <1>3. CASE Test
    BY <1>3 DEF Test
  <1>4. CASE Sleep
    BY <1>4 DEF Sleep, Release
  <1>5. CASE Pop
    BY <1>5 DEF Pop
  <1>6. CASE AdminUnlock
    BY <1>6 DEF AdminUnlock, Release
  <1>7. CASE Serve
    BY <1>7 DEF Serve
  <1>8. CASE SetValue
    BY <1>8 DEF SetValue
  <1>9. CASE Spurious
    BY <1>9 DEF Spurious
  <1> QED
    BY <1>1, <1>2, <1>3, <1>4, <1>5, <1>6, <1>7, <1>8, <1>9 DEF AdminStep
-----------------------------------------------------------------------------
(* What the admin thread acts on. *)

LEMMA InitAdmin == Init => AdminInv
  BY DEF Init, AdminInv

LEMMA AdminInvStep ==
  ASSUME TypeOK, LockInv, AdminInv, (\E h \in Handler : HandlerStep(h)) \/ AdminStep \/ Spurious
  PROVE  AdminInv'
  <1> USE DEF AdminInv, Goto, AGoto, handlerVars, adminVars
  <1>1. ASSUME NEW h \in Handler, HandlerStep(h)
        PROVE  AdminInv'
    <2>1. CASE Push(h)
      <3>1. ~AdminInside
        BY <2>1, QueueAssumption DEF Push, LockInv, HandlerInside
      <3> QED
        BY <2>1, <3>1 DEF Push, AdminInside
    <2>2. CASE Notify(h)
      BY <2>2 DEF Notify
    <2>3. CASE NewRequest(h) \/ Lock(h) \/ Unlock(h) \/ Get(h)
      BY <2>3 DEF NewRequest, Lock, Unlock, Get
    <2> QED
      BY <1>1, <2>1, <2>2, <2>3 DEF HandlerStep
  <1>2. CASE AdminLock
    BY <1>2 DEF AdminLock
  <1>3. CASE Test
    BY <1>3 DEF Test
  <1>4. CASE Sleep
    BY <1>4 DEF Sleep
  <1>5. CASE Pop
    <2>1. Head(arq) \in Request
      BY <1>5, HeadTailProperties DEF Pop, TypeOK
    <2> QED
      BY <1>5, <2>1 DEF Pop
  <1>6. CASE AdminUnlock
    BY <1>6 DEF AdminUnlock
  <1>7. CASE Serve
    BY <1>7 DEF Serve
  <1>8. CASE SetValue
    BY <1>8 DEF SetValue
  <1>9. CASE Spurious
    BY <1>9 DEF Spurious
  <1> QED
    BY <1>1, <1>2, <1>3, <1>4, <1>5, <1>6, <1>7, <1>8, <1>9 DEF AdminStep

-----------------------------------------------------------------------------
(* Nothing is lost between the queue and the log. *)

LEMMA InitNothingLost == Init => NothingLost
  BY DEF Init, NothingLost, InHand

LEMMA NothingLostStep ==
  ASSUME TypeOK, AdminInv, NothingLost,
         (\E h \in Handler : HandlerStep(h)) \/ AdminStep \/ Spurious
  PROVE  NothingLost'
  <1> USE DEF Goto, AGoto, handlerVars, adminVars
  <1>t. /\ arq \in Seq(Request) /\ smr_log \in Seq(Request) /\ InHand \in Seq(Request)
        /\ smr_log \o InHand \in Seq(Request)
    <2>1. InHand \in Seq(Request)
      BY DEF AdminInv, InHand
    <2> QED
      BY <2>1, ConcatProperties DEF TypeOK
  <1>1. ASSUME NEW h \in Handler, HandlerStep(h)
        PROVE  NothingLost'
    <2>1. CASE Push(h)
      <3> DEFINE r == <<h, returned[h] + 1>>
      <3>1. r \in Request
        BY RequestType
      <3>2. Append(pushed, r) = (smr_log \o InHand \o arq) \o <<r>>
        BY <3>1, AppendIsConcat DEF NothingLost, TypeOK
      <3>3. (smr_log \o InHand \o arq) \o <<r>> = smr_log \o InHand \o (arq \o <<r>>)
        BY <3>1, <1>t, ConcatAssociative
      <3>4. arq \o <<r>> = Append(arq, r)
        BY <3>1, <1>t, AppendIsConcat
      <3>5. smr_log' = smr_log /\ InHand' = InHand /\ arq' = Append(arq, r)
            /\ pushed' = Append(pushed, r)
        BY <2>1 DEF Push, InHand
      <3> QED
        BY <3>2, <3>3, <3>4, <3>5 DEF NothingLost
    <2>2. CASE NewRequest(h) \/ Lock(h) \/ Notify(h) \/ Unlock(h) \/ Get(h)
      <3>1. UNCHANGED <<pushed, smr_log, arq, req>> /\ InHand' = InHand
        BY <2>2 DEF NewRequest, Lock, Notify, Unlock, Get, InHand
      <3> QED
        BY <3>1 DEF NothingLost
    <2> QED
      BY <1>1, <2>1, <2>2 DEF HandlerStep
  <1>2. CASE Pop
    <2>1. arq # <<>> /\ InHand = <<>>
      BY <1>2 DEF Pop, AdminInv, InHand
    <2>2. Head(arq) \in Request /\ Tail(arq) \in Seq(Request)
      BY <2>1, <1>t, HeadTailProperties
    <2>3. arq = <<Head(arq)>> \o Tail(arq)
      <3>1. SubSeq(arq, 1, Len(arq)) = <<arq[1]>> \o SubSeq(arq, 2, Len(arq))
        BY <2>1, <1>t, SubSeqRecursiveFirst, EmptySeq
      <3> QED
        BY <3>1, <2>1, <1>t, SubSeqFull, TailIsSubSeq
    <2>4. smr_log \o InHand = smr_log
      BY <2>1, <1>t, ConcatEmptySeq
    <2>5. smr_log \o (<<Head(arq)>> \o Tail(arq)) = smr_log \o <<Head(arq)>> \o Tail(arq)
      BY <2>2, <1>t, ConcatAssociative
    <2>6. pushed' = pushed /\ smr_log' = smr_log /\ InHand' = <<Head(arq)>> /\ arq' = Tail(arq)
      BY <1>2 DEF Pop, InHand
    <2> QED
      BY <2>3, <2>4, <2>5, <2>6 DEF NothingLost
  <1>3. CASE Serve
    <2>1. InHand = <<req>> /\ InHand' = <<>> /\ req \in Request
      BY <1>3 DEF Serve, InHand, AdminInv
    <2>2. smr_log' = smr_log \o <<req>>
      BY <1>3, <2>1, <1>t, AppendIsConcat DEF Serve
    <2>3. smr_log' \o InHand' = smr_log'
      BY <2>1, <2>2, <1>t, ConcatEmptySeq
    <2> QED
      BY <1>3, <2>1, <2>2, <2>3 DEF Serve, NothingLost
  <1>4. CASE AdminLock \/ Test \/ Sleep \/ AdminUnlock \/ SetValue \/ Spurious
    <2>1. UNCHANGED <<pushed, smr_log, arq>> /\ InHand' = InHand
      BY <1>4 DEF AdminLock, Test, Sleep, AdminUnlock, SetValue, Spurious, InHand
    <2> QED
      BY <2>1 DEF NothingLost
  <1> QED
    BY <1>1, <1>2, <1>3, <1>4 DEF AdminStep

-----------------------------------------------------------------------------
(* No wake-up is lost: the queue grows only under the mutex, which the      *)
(* admin thread gives up in the step in which it falls asleep.              *)

LEMMA InitNoLostWakeup == Init => NoLostWakeup
  BY DEF Init, NoLostWakeup

LEMMA NoLostWakeupStep ==
  ASSUME TypeOK, LockInv, AdminInv, NoLostWakeup,
         (\E h \in Handler : HandlerStep(h)) \/ AdminStep \/ Spurious
  PROVE  NoLostWakeup'
  <1> USE DEF NoLostWakeup, Goto, AGoto, handlerVars, adminVars
  <1>1. ASSUME NEW h \in Handler, HandlerStep(h)
        PROVE  NoLostWakeup'
    <2>1. CASE Push(h)
      BY <2>1 DEF Push, TypeOK
    <2>2. CASE Notify(h)
      BY <2>2 DEF Notify
    <2>3. CASE NewRequest(h) \/ Lock(h) \/ Unlock(h) \/ Get(h)
      <3>1. UNCHANGED <<apc, arq>>
        BY <2>3 DEF NewRequest, Lock, Unlock, Get
      <3>2. \A g \in Handler : hpc[g] = "notify" => hpc'[g] = "notify"
        BY <2>3 DEF NewRequest, Lock, Unlock, Get, TypeOK
      <3> QED
        BY <3>1, <3>2
    <2> QED
      BY <1>1, <2>1, <2>2, <2>3 DEF HandlerStep
  <1>2. CASE Sleep
    BY <1>2 DEF Sleep, AdminInv
  <1>3. CASE AdminLock \/ Test \/ Pop \/ AdminUnlock \/ Serve \/ SetValue \/ Spurious
    BY <1>3 DEF AdminLock, Test, Pop, AdminUnlock, Serve, SetValue, Spurious
  <1> QED
    BY <1>1, <1>2, <1>3 DEF AdminStep

-----------------------------------------------------------------------------
(* Every queued request belongs to a thread that waits for it. *)

LEMMA InitRequest == Init => RequestInv
  BY DEF Init, RequestInv, HasRequest

(* A step that leaves the queue, the promises and the request in hand      *)
(* alone, and moves no waiting thread elsewhere, keeps RequestInv.         *)
LEMMA RequestFrame ==
  ASSUME RequestInv, UNCHANGED <<arq, promise, returned, req>>, HasRequest' <=> HasRequest,
         \A h \in Handler : hpc[h] \in {"notify", "unlock", "get"} =>
                            hpc'[h] \in {"notify", "unlock", "get"},
         arq \in Seq(Request), HasRequest => req \in Request
  PROVE  RequestInv'
  <1>1. \A r \in Request : Waiting(r) => Waiting(r)'
    BY DEF Waiting, Request
  <1>2. \A i \in DOMAIN arq : arq[i] \in Request
    BY ElementOfSeq, LenProperties
  <1> QED
    BY <1>1, <1>2 DEF RequestInv

LEMMA InitFresh == Init => FreshPromise
  BY DEF Init, FreshPromise

LEMMA FreshStep ==
  ASSUME TypeOK, AdminInv, RequestInv, FreshPromise,
         (\E h \in Handler : HandlerStep(h)) \/ AdminStep \/ Spurious
  PROVE  FreshPromise'
  <1> USE DEF FreshPromise, Goto, AGoto, handlerVars, adminVars, TypeOK
  <1>1. ASSUME NEW h \in Handler, HandlerStep(h)
        PROVE  FreshPromise'
    BY <1>1 DEF HandlerStep, NewRequest, Lock, Push, Notify, Unlock, Get
  <1>2. CASE SetValue
    <2>1. hpc[req[1]] \in {"notify", "unlock", "get"} /\ req[1] \in Handler
      BY <1>2 DEF SetValue, RequestInv, HasRequest, Waiting, AdminInv, Request
    <2> QED
      BY <1>2, <2>1 DEF SetValue
  <1>3. CASE AdminLock \/ Test \/ Sleep \/ Pop \/ AdminUnlock \/ Serve \/ Spurious
    BY <1>3 DEF AdminLock, Test, Sleep, Pop, AdminUnlock, Serve, Spurious
  <1> QED
    BY <1>1, <1>2, <1>3 DEF AdminStep

LEMMA RequestStep ==
  ASSUME TypeOK, LockInv, AdminInv, RequestInv, FreshPromise,
         (\E h \in Handler : HandlerStep(h)) \/ AdminStep \/ Spurious
  PROVE  RequestInv'
  <1> USE DEF Goto, AGoto, handlerVars, adminVars
  <1>t. /\ arq \in Seq(Request) /\ (HasRequest => req \in Request)
        /\ \A i \in DOMAIN arq : arq[i] \in Request
        /\ DOMAIN arq = 1 .. Len(arq) /\ Len(arq) \in Nat
    <2>1. arq \in Seq(Request)
      BY DEF TypeOK
    <2> QED
      BY <2>1, ElementOfSeq, LenProperties DEF AdminInv, HasRequest
  <1>1. ASSUME NEW h \in Handler, HandlerStep(h)
        PROVE  RequestInv'
    <2>1. CASE NewRequest(h)
      <3>1. \A r \in Request : Waiting(r) => r[1] # h
        BY <2>1 DEF NewRequest, Waiting
      <3>2. \A r \in Request : Waiting(r) => Waiting(r)'
        BY <2>1, <3>1 DEF NewRequest, Waiting, Request, TypeOK
      <3>3. arq' = arq /\ req' = req /\ apc' = apc
        BY <2>1 DEF NewRequest
      <3> QED
        BY <1>t, <3>2, <3>3 DEF RequestInv, HasRequest
    <2>2. CASE Push(h)
      <3> DEFINE r == <<h, returned[h] + 1>>
      <3>1. r \in Request
        BY RequestType
      <3>2. /\ arq' = Append(arq, r) /\ Len(arq') = Len(arq) + 1
            /\ DOMAIN arq' = 1 .. Len(arq) + 1
            /\ \A i \in 1 .. Len(arq) : arq'[i] = arq[i]
            /\ arq'[Len(arq) + 1] = r
        BY <2>2, <3>1, <1>t, AppendProperties, LenProperties DEF Push
      <3>3. \A q \in Request : Waiting(q) => q[1] # h /\ Waiting(q)'
        BY <2>2 DEF Push, Waiting, Request, TypeOK
      <3>4. Waiting(r)'
        <4>1. ~promise[h]
          BY <2>2 DEF Push, TypeOK, FreshPromise
        <4> QED
          BY <2>2, <4>1 DEF Push, Waiting, TypeOK
      <3>5. req' = req /\ apc' = apc
        BY <2>2 DEF Push
      <3>6. \A i \in DOMAIN arq : arq[i][1] # h
        BY <3>3, <1>t DEF RequestInv
      <3>7. HasRequest => req[1] # h
        BY <3>3, <1>t DEF RequestInv
      <3>8. (\A i \in DOMAIN arq : Waiting(arq[i]))'
        <4>1. ASSUME NEW i \in 1 .. Len(arq)
              PROVE  Waiting(arq[i])'
          <5>1. PICK q \in Request : q = arq[i] /\ Waiting(q)
            BY <1>t DEF RequestInv
          <5>2. Waiting(q)' /\ arq'[i] = q
            BY <5>1, <3>2, <3>3
          <5> QED
            BY <5>2 DEF Waiting
        <4>2. ASSUME NEW i, i = Len(arq) + 1
              PROVE  Waiting(arq[i])'
          <5>1. arq'[i] = <<h, returned[h] + 1>> /\ returned' = returned
            BY <2>2, <4>2, <3>2 DEF Push
          <5> QED
            BY <3>4, <5>1 DEF Waiting
        <4>3. \A i \in DOMAIN arq' : i \in 1 .. Len(arq) \/ i = Len(arq) + 1
          BY <3>2, <1>t
        <4> QED
          BY <4>1, <4>2, <4>3
      <3>9. \A i, j \in DOMAIN arq' : arq'[i][1] = arq'[j][1] => i = j
        BY <3>2, <3>6, <1>t DEF RequestInv
      <3>10. HasRequest => \A i \in DOMAIN arq' : arq'[i][1] # req[1]
        BY <3>2, <3>7, <1>t DEF RequestInv
      <3> QED
        BY <3>3, <3>5, <3>8, <3>9, <3>10, <1>t DEF RequestInv, HasRequest
    <2>3. CASE Lock(h) \/ Notify(h) \/ Unlock(h)
      BY <2>3, <1>t, RequestFrame DEF Lock, Notify, Unlock, HasRequest, TypeOK
    <2>4. CASE Get(h)
      <3>1. \A r \in Request : Waiting(r) => r[1] # h
        BY <2>4 DEF Get, Waiting
      <3>2. \A r \in Request : Waiting(r) => Waiting(r)'
        BY <2>4, <3>1 DEF Get, Waiting, Request, TypeOK
      <3>3. arq' = arq /\ req' = req /\ apc' = apc
        BY <2>4 DEF Get
      <3> QED
        BY <1>t, <3>2, <3>3 DEF RequestInv, HasRequest
    <2> QED
      BY <1>1, <2>1, <2>2, <2>3, <2>4 DEF HandlerStep
  <1>2. CASE Pop
    <2>1. arq # <<>> /\ ~HasRequest
      BY <1>2 DEF Pop, AdminInv, HasRequest
    <2>2. /\ req' = arq[1] /\ arq' = Tail(arq) /\ UNCHANGED <<hpc, promise, returned>>
          /\ DOMAIN arq' = 1 .. Len(arq) - 1
          /\ \A i \in DOMAIN arq' : arq'[i] = arq[i + 1]
          /\ 1 \in DOMAIN arq
      BY <1>2, <2>1, <1>t, HeadTailProperties, LenProperties, EmptySeq DEF Pop
    <2>3. \A r \in Request : Waiting(r) => Waiting(r)'
      BY <2>2 DEF Waiting
    <2> QED
      BY <2>2, <2>3, <1>t DEF RequestInv
  <1>3. CASE SetValue
    <2>1. HasRequest /\ ~HasRequest' /\ req[1] \in Handler
      BY <1>3, <1>t DEF SetValue, HasRequest, Request
    <2>2. \A r \in Request : Waiting(r) /\ r[1] # req[1] => Waiting(r)'
      BY <1>3, <2>1 DEF SetValue, Waiting, Request, TypeOK
    <2>3. arq' = arq
      BY <1>3 DEF SetValue
    <2> QED
      BY <2>1, <2>2, <2>3, <1>t DEF RequestInv
  <1>4. CASE AdminLock \/ Test \/ Sleep \/ AdminUnlock \/ Serve \/ Spurious
    BY <1>4, <1>t, RequestFrame
       DEF AdminLock, Test, Sleep, AdminUnlock, Serve, Spurious, HasRequest
  <1> QED
    BY <1>1, <1>2, <1>3, <1>4 DEF AdminStep

-----------------------------------------------------------------------------
(* The theorems. *)

LEMMA StutterKeeps == QueueInv /\ UNCHANGED vars => QueueInv'
  <1> SUFFICES ASSUME QueueInv, UNCHANGED vars
               PROVE  QueueInv'
    OBVIOUS
  <1> USE DEF vars, handlerVars, adminVars, QueueInv
  <1>1. TypeOK' /\ LockInv' /\ AdminInv' /\ FreshPromise'
    BY DEF TypeOK, LockInv, AdminInv, FreshPromise, HandlerInside, AdminInside
  <1>2. NothingLost' /\ NoLostWakeup' /\ RequestInv'
    BY DEF NothingLost, InHand, NoLostWakeup, RequestInv, HasRequest, Waiting
  <1> QED
    BY <1>1, <1>2

(* Init and every step keep the queue's invariant. *)
THEOREM QueueInvariant == Spec => []QueueInv
  <1>1. Init => QueueInv
    BY InitType, InitLock, InitAdmin, InitNothingLost, InitNoLostWakeup, InitRequest, InitFresh
       DEF QueueInv
  <1>2. QueueInv /\ [Next]_vars => QueueInv'
    <2> SUFFICES ASSUME QueueInv, [Next]_vars
                 PROVE  QueueInv'
      OBVIOUS
    <2>1. CASE (\E h \in Handler : HandlerStep(h)) \/ AdminStep \/ Spurious
      <3>1. TypeOK'
        BY <2>1, HandlerType, AdminType DEF QueueInv
      <3>2. LockInv' /\ AdminInv' /\ NothingLost' /\ NoLostWakeup' /\ RequestInv' /\ FreshPromise'
        BY <2>1, LockStep, AdminInvStep, NothingLostStep, NoLostWakeupStep, RequestStep, FreshStep
           DEF QueueInv
      <3> QED
        BY <3>1, <3>2 DEF QueueInv
    <2>2. CASE UNCHANGED vars
      BY <2>2, StutterKeeps
    <2> QED
      BY <2>1, <2>2 DEF Next, Terminating
  <1> QED
    BY <1>1, <1>2, PTL DEF Spec

(* No request is lost, doubled or overtaken, whatever the number of        *)
(* threads that commit at the same time.                                   *)
THEOREM QueueLosesNothing == Spec => []NothingLost
  <1>1. QueueInv => NothingLost
    BY DEF QueueInv
  <1> QED
    BY <1>1, QueueInvariant, PTL

(* The admin thread never sleeps through a request. *)
THEOREM QueueLosesNoWakeup == Spec => []NoLostWakeup
  <1>1. QueueInv => NoLostWakeup
    BY DEF QueueInv
  <1> QED
    BY <1>1, QueueInvariant, PTL

-----------------------------------------------------------------------------
(* The queue implements the service. *)

MappedState == [h \in Handler |-> IF hpc[h] = "idle" THEN "idle"
                                  ELSE IF Served(h) THEN "served" ELSE "waiting"]

LEMMA InitRefines == Init => OS!OSInit
  BY DEF Init, OS!OSInit, Served

LEMMA HandlerRefines ==
  ASSUME QueueInv, NEW h \in Handler, HandlerStep(h)
  PROVE  [OS!OSNext]_OS!osVars
  <1> USE DEF QueueInv, Goto, handlerVars, adminVars
  <1>1. CASE NewRequest(h)
    <2>1. ~Served(h)'
      <3>1. apc = "answer" => req[1] # h
        BY <1>1 DEF NewRequest, RequestInv, HasRequest, Waiting
      <3> QED
        BY <1>1, <3>1 DEF NewRequest, Served, TypeOK
    <2>2. \A g \in Handler \ {h} : Served(g)' <=> Served(g)
      BY <1>1 DEF NewRequest, Served, TypeOK
    <2>3. MappedState[h] = "idle" /\ MappedState' = [MappedState EXCEPT ![h] = "waiting"]
      BY <1>1, <2>1, <2>2 DEF NewRequest, MappedState, TypeOK
    <2>4. OS!Call(h)
      BY <1>1, <2>3 DEF NewRequest, OS!Call, OS!Becomes, MappedState
    <2> QED
      BY <2>4 DEF OS!OSNext
  <1>2. CASE Lock(h) \/ Push(h) \/ Notify(h) \/ Unlock(h)
    <2>1. \A g \in Handler : Served(g)' <=> Served(g)
      BY <1>2 DEF Lock, Push, Notify, Unlock, Served
    <2>2. \A g \in Handler : hpc[g] = "idle" <=> hpc'[g] = "idle"
      BY <1>2 DEF Lock, Push, Notify, Unlock, TypeOK
    <2>3. MappedState' = MappedState
      BY <2>1, <2>2 DEF MappedState
    <2>4. UNCHANGED <<returned, smr_log>>
      BY <1>2 DEF Lock, Push, Notify, Unlock
    <2> QED
      BY <2>3, <2>4 DEF OS!osVars, MappedState
  <1>3. CASE Get(h)
    <2>1. \A g \in Handler : Served(g)' <=> Served(g)
      BY <1>3 DEF Get, Served
    <2>2. MappedState[h] = "served" /\ MappedState' = [MappedState EXCEPT ![h] = "idle"]
      BY <1>3, <2>1 DEF Get, MappedState, Served, TypeOK
    <2>3. OS!Return(h)
      BY <1>3, <2>2 DEF Get, OS!Return, OS!Becomes, MappedState
    <2> QED
      BY <2>3 DEF OS!OSNext
  <1> QED
    BY <1>1, <1>2, <1>3 DEF HandlerStep

LEMMA AdminRefines ==
  ASSUME QueueInv, AdminStep \/ Spurious
  PROVE  [OS!OSNext]_OS!osVars
  <1> USE DEF QueueInv, AGoto, handlerVars, adminVars
  <1>1. CASE Serve
    <2>1. Waiting(req) /\ req \in Request
      BY <1>1 DEF Serve, AdminInv, RequestInv, HasRequest
    <2>2. PICK h \in Handler : req[1] = h /\ req = <<h, returned[h] + 1>>
      BY <2>1 DEF Waiting, Request
    <2>3. MappedState[h] = "waiting"
      BY <1>1, <2>1, <2>2 DEF Serve, Waiting, MappedState, Served
    <2>4. \A g \in Handler : Served(g)' <=> Served(g) \/ g = h
      BY <1>1, <2>2 DEF Serve, Served
    <2>5. MappedState' = [MappedState EXCEPT ![h] = "served"]
      BY <1>1, <2>1, <2>2, <2>4 DEF Serve, Waiting, MappedState
    <2>6. OS!Serve(h)
      BY <1>1, <2>2, <2>3, <2>5 DEF Serve, OS!Serve, OS!Becomes, MappedState
    <2> QED
      BY <2>6 DEF OS!OSNext
  <1>2. CASE (AdminStep /\ ~Serve) \/ Spurious
    <2>1. UNCHANGED <<hpc, returned, smr_log>>
      BY <1>2 DEF AdminStep, AdminLock, Test, Sleep, Pop, AdminUnlock, SetValue, Spurious
    <2>2. \A g \in Handler : Served(g)' <=> Served(g)
      <3>1. CASE SetValue
        BY <3>1 DEF SetValue, Served, TypeOK, AdminInv, Request
      <3>2. CASE AdminLock \/ Test \/ Sleep \/ Pop \/ AdminUnlock \/ Spurious
        BY <3>2 DEF AdminLock, Test, Sleep, Pop, AdminUnlock, Spurious, Served
      <3> QED
        BY <1>2, <3>1, <3>2 DEF AdminStep
    <2>3. MappedState' = MappedState
      BY <2>1, <2>2 DEF MappedState
    <2> QED
      BY <2>1, <2>3 DEF OS!osVars, MappedState
  <1> QED
    BY <1>1, <1>2

(* Every behaviour of the queue is one of the service: each order is in    *)
(* the log once, and only then does CreateRegularLaptop return.            *)
THEOREM QueueImplementsService == Spec => OS!OSSafety
  <1>1. QueueInv /\ [Next]_vars => [OS!OSNext]_OS!osVars
    <2> SUFFICES ASSUME QueueInv, [Next]_vars
                 PROVE  [OS!OSNext]_OS!osVars
      OBVIOUS
    <2>1. CASE UNCHANGED vars
      BY <2>1 DEF vars, handlerVars, adminVars, OS!osVars, Served
    <2> QED
      BY <2>1, HandlerRefines, AdminRefines DEF Next, Terminating
  <1> QED
    BY <1>1, InitRefines, QueueInvariant, PTL DEF Spec, OS!OSSafety
=============================================================================
