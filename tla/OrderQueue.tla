------------------------------ MODULE OrderQueue ------------------------------
(***************************************************************************)
(* The admin request queue of a resource manager: the threads that run     *)
(* TMCommit hand their orders to the one admin thread through arq, under   *)
(* arq_lock, with the condition variable arq_cv, and wait for a promise.   *)
(*                                                                         *)
(* What the admin thread does to serve a request is one step here, the     *)
(* addition to smr_log; Replication opens it up.                           *)
(***************************************************************************)
EXTENDS Naturals, Sequences

CONSTANTS
    Handler,       \* the threads that run CreateRegularLaptop
    Admin,         \* the thread that runs AdminThread
    Nobody,        \* stands for "no thread" and "no request"
    Calls,         \* Calls[h]: how many orders h places
    MaxSpurious    \* bound: wake-ups of the admin thread without a notification

ASSUME QueueAssumption ==
    /\ Admin \notin Handler
    /\ Nobody \notin Handler \cup {Admin}
    /\ Nobody \notin Handler \X Nat
    /\ Calls \in [Handler -> Nat]
    /\ MaxSpurious \in Nat

VARIABLES
    arq,           \* the queue of requests, <<h, i>>: the i-th order of h
    arq_lock,      \* the thread that holds the mutex
    hpc,           \* where each handler is in CreateRegularLaptop
    promise,       \* promise[h]: the promise of h's request has its value
    returned,      \* returned[h]: how many calls of h have returned
    apc,           \* where AdminThread is
    req,           \* the request it has popped
    smr_log,       \* the operations it has served
    spurious,      \* spurious wake-ups so far
    pushed         \* history: all requests in the order they were pushed

handlerVars == <<hpc, promise, returned>>
adminVars   == <<apc, req, smr_log, spurious>>
vars        == <<arq, arq_lock, pushed, handlerVars, adminVars>>

Thread  == Handler \cup {Admin}
Request == Handler \X (Nat \ {0})

Init ==
    /\ arq = <<>> /\ pushed = <<>>
    /\ arq_lock = Nobody
    /\ hpc = [h \in Handler |-> "idle"]
    /\ promise = [h \in Handler |-> FALSE]
    /\ returned = [h \in Handler |-> 0]
    /\ apc = "lock" /\ req = Nobody
    /\ smr_log = <<>>
    /\ spurious = 0

Acquire(t) == arq_lock = Nobody /\ arq_lock' = t
Release(t) == arq_lock = t /\ arq_lock' = Nobody

-----------------------------------------------------------------------------
(* CreateRegularLaptop, run by handler h. *)

Goto(h, from, to) == hpc[h] = from /\ hpc' = [hpc EXCEPT ![h] = to]

(* A request with a fresh promise. *)
NewRequest(h) ==
    /\ returned[h] < Calls[h]
    /\ Goto(h, "idle", "lock")
    /\ promise' = [promise EXCEPT ![h] = FALSE]
    /\ UNCHANGED <<arq, arq_lock, pushed, returned, adminVars>>

Lock(h) ==
    /\ Goto(h, "lock", "push")
    /\ Acquire(h)
    /\ UNCHANGED <<arq, pushed, promise, returned, adminVars>>

(* Mutant: the newest request goes first. *)
PushFront(h) ==
    /\ Goto(h, "push", "notify")
    /\ arq' = <<<<h, returned[h] + 1>>>> \o arq
    /\ pushed' = Append(pushed, <<h, returned[h] + 1>>)
    /\ UNCHANGED <<arq_lock, promise, returned, adminVars>>

Push(h) ==
    /\ Goto(h, "push", "notify")
    /\ arq' = Append(arq, <<h, returned[h] + 1>>)
    /\ pushed' = Append(pushed, <<h, returned[h] + 1>>)
    /\ UNCHANGED <<arq_lock, promise, returned, adminVars>>

(* notify_one wakes the admin thread if it waits, and is lost if it does not. *)
Notify(h) ==
    /\ Goto(h, "notify", "unlock")
    /\ apc' = IF apc = "asleep" THEN "lock" ELSE apc
    /\ UNCHANGED <<arq, arq_lock, pushed, promise, returned, req, smr_log, spurious>>

Unlock(h) ==
    /\ Goto(h, "unlock", "get")
    /\ Release(h)
    /\ UNCHANGED <<arq, pushed, promise, returned, adminVars>>

(* Mutant: the future is not waited for. *)
NoGet(h) ==
    /\ Goto(h, "get", "idle")
    /\ returned' = [returned EXCEPT ![h] = @ + 1]
    /\ UNCHANGED <<arq, arq_lock, pushed, promise, adminVars>>

(* fut.get() *)
Get(h) ==
    /\ Goto(h, "get", "idle")
    /\ promise[h]
    /\ returned' = [returned EXCEPT ![h] = @ + 1]
    /\ UNCHANGED <<arq, arq_lock, pushed, promise, adminVars>>

-----------------------------------------------------------------------------
(* AdminThread. *)

AGoto(from, to) == apc = from /\ apc' = to

AdminLock ==
    /\ AGoto("lock", "test")
    /\ Acquire(Admin)
    /\ UNCHANGED <<arq, pushed, handlerVars, req, smr_log, spurious>>

(* arq.empty(), before the wait and as its predicate. *)
Test ==
    /\ AGoto("test", IF arq = <<>> THEN "sleep" ELSE "pop")
    /\ UNCHANGED <<arq, arq_lock, pushed, handlerVars, req, smr_log, spurious>>

(* Mutant: the mutex is given up before the thread is waiting. *)
SleepLater ==
    \/ /\ AGoto("sleep", "drowsy")
       /\ Release(Admin)
       /\ UNCHANGED <<arq, pushed, handlerVars, req, smr_log, spurious>>
    \/ /\ AGoto("drowsy", "asleep")
       /\ UNCHANGED <<arq, arq_lock, pushed, handlerVars, req, smr_log, spurious>>

(* arq_cv.wait gives the mutex up and waits in one step. *)
Sleep ==
    /\ AGoto("sleep", "asleep")
    /\ Release(Admin)
    /\ UNCHANGED <<arq, pushed, handlerVars, req, smr_log, spurious>>

Spurious ==
    /\ AGoto("asleep", "lock")
    /\ spurious < MaxSpurious
    /\ spurious' = spurious + 1
    /\ UNCHANGED <<arq, arq_lock, pushed, handlerVars, req, smr_log>>

Pop ==
    /\ AGoto("pop", "unlock")
    /\ req' = Head(arq)
    /\ arq' = Tail(arq)
    /\ UNCHANGED <<arq_lock, pushed, handlerVars, smr_log, spurious>>

AdminUnlock ==
    /\ AGoto("unlock", "serve")
    /\ Release(Admin)
    /\ UNCHANGED <<arq, pushed, handlerVars, req, smr_log, spurious>>

(* smr_log, customer_record and the indices; replication follows. *)
Serve ==
    /\ AGoto("serve", "answer")
    /\ smr_log' = Append(smr_log, req)
    /\ UNCHANGED <<arq, arq_lock, pushed, handlerVars, req, spurious>>

(* req->prom.set_value; the request is destroyed at the end of the loop. *)
SetValue ==
    /\ AGoto("answer", "lock")
    /\ promise' = [promise EXCEPT ![req[1]] = TRUE]
    /\ req' = Nobody
    /\ UNCHANGED <<arq, arq_lock, pushed, hpc, returned, smr_log, spurious>>

-----------------------------------------------------------------------------
HandlerStep(h) == \/ NewRequest(h) \/ Lock(h) \/ Push(h) \/ Notify(h)
                  \/ Unlock(h) \/ Get(h)

AdminStep == \/ AdminLock \/ Test \/ Sleep \/ Pop \/ AdminUnlock
             \/ Serve \/ SetValue

(* All orders have been placed; the admin thread waits for more. *)
Finished == \A h \in Handler : hpc[h] = "idle" /\ returned[h] = Calls[h]

Terminating == Finished /\ apc = "asleep" /\ UNCHANGED vars

Next == \/ \E h \in Handler : HandlerStep(h)
        \/ AdminStep
        \/ Spurious
        \/ Terminating

Spec == Init /\ [][Next]_vars

(* A runnable thread runs, and a free mutex goes to somebody; nothing makes *)
(* a spurious wake-up happen.                                               *)
Fairness == WF_vars(AdminStep) /\ \A h \in Handler : WF_vars(HandlerStep(h))

FairSpec == Spec /\ Fairness

-----------------------------------------------------------------------------
(* Properties. *)

HandlerPc == {"idle", "lock", "push", "notify", "unlock", "get"}
AdminPc   == {"lock", "test", "sleep", "asleep", "pop", "unlock", "serve", "answer"}

(* Every variable keeps its type. *)
TypeOK ==
    /\ arq \in Seq(Request) /\ pushed \in Seq(Request) /\ smr_log \in Seq(Request)
    /\ arq_lock \in Thread \cup {Nobody}
    /\ hpc \in [Handler -> HandlerPc]
    /\ promise \in [Handler -> BOOLEAN]
    /\ returned \in [Handler -> Nat]
    /\ apc \in AdminPc
    /\ req \in Request \cup {Nobody}
    /\ spurious \in Nat

(* Nothing is lost, doubled or overtaken between the queue and the log:    *)
(* what was served, what the admin thread has in hand and what is queued   *)
(* is what was pushed, in that order.                                      *)
InHand == IF apc \in {"unlock", "serve"} THEN <<req>> ELSE <<>>

NothingLost == pushed = smr_log \o InHand \o arq

(* The admin thread never sleeps on a queue that holds a request, unless   *)
(* the handler that pushed it is still about to notify.                    *)
NoLostWakeup ==
    apc = "asleep" /\ arq # <<>> => \E h \in Handler : hpc[h] = "notify"

-----------------------------------------------------------------------------
(* The queue implements the service: an order counts as served from the    *)
(* moment it is in the log.                                                *)
Served(h) == promise[h] \/ (apc = "answer" /\ req[1] = h)

OS == INSTANCE OrderService WITH
        state <- [h \in Handler |-> IF hpc[h] = "idle" THEN "idle"
                                    ELSE IF Served(h) THEN "served" ELSE "waiting"],
        log   <- smr_log

ImplementsOrderService == OS!OSSpec
=============================================================================
