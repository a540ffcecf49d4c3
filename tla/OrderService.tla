----------------------------- MODULE OrderService -----------------------------
(***************************************************************************)
(* What a resource manager promises to the threads that place orders: each *)
(* call of CreateRegularLaptop adds one operation to the log, once, and    *)
(* only then returns; and every call returns.                              *)
(***************************************************************************)
EXTENDS Naturals, Sequences

CONSTANTS
    Handler,   \* the threads that place orders
    Calls      \* Calls[h]: how many orders h places, one after the other

VARIABLES
    state,     \* state[h]: idle, waiting for its order, or served
    returned,  \* returned[h]: how many calls of h have returned
    log        \* the operations served, each the i-th order of a thread h

osVars == <<state, returned, log>>

OSInit == /\ state = [h \in Handler |-> "idle"]
          /\ returned = [h \in Handler |-> 0]
          /\ log = <<>>

Becomes(h, from, to) == state[h] = from /\ state' = [state EXCEPT ![h] = to]

Call(h) == /\ returned[h] < Calls[h]
           /\ Becomes(h, "idle", "waiting")
           /\ UNCHANGED <<returned, log>>

Serve(h) == /\ Becomes(h, "waiting", "served")
            /\ log' = Append(log, <<h, returned[h] + 1>>)
            /\ UNCHANGED returned

Return(h) == /\ Becomes(h, "served", "idle")
             /\ returned' = [returned EXCEPT ![h] = @ + 1]
             /\ UNCHANGED log

OSNext == \E h \in Handler : Call(h) \/ Serve(h) \/ Return(h)

OSSafety == OSInit /\ [][OSNext]_osVars

OSSpec == /\ OSSafety
          /\ \A h \in Handler : WF_osVars(Serve(h)) /\ WF_osVars(Return(h))
=============================================================================
