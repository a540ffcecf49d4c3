----------------------------- MODULE AtomicCommit -----------------------------
(***************************************************************************)
(* What two-phase commit promises: every transaction ends the same way at  *)
(* every RM, it commits only where every RM had prepared it, and a client  *)
(* that is told how it ended is told the truth, now and later.             *)
(***************************************************************************)
CONSTANTS Txn, RM

VARIABLES
    rmState,   \* rmState[t][r]: how far transaction t has come at RM r
    answer     \* answer[t]: what the client of t was told

acVars == <<rmState, answer>>

State   == {"working", "prepared", "committed", "aborted"}
Answers == {"none", "Success", "Failed"}

ACInit == /\ rmState = [t \in Txn |-> [r \in RM |-> "working"]]
          /\ answer = [t \in Txn |-> "none"]

Everywhere(t, S) == \A r \in RM : rmState[t][r] \in S

Becomes(t, r, s) == rmState' = [rmState EXCEPT ![t][r] = s] /\ UNCHANGED answer

Prepare(t, r) == /\ rmState[t][r] = "working"
                 /\ Becomes(t, r, "prepared")

Commit(t, r) == /\ rmState[t][r] = "prepared"
                /\ Everywhere(t, {"prepared", "committed"})
                /\ answer[t] # "Failed"
                /\ Becomes(t, r, "committed")

Abort(t, r) == /\ rmState[t][r] \in {"working", "prepared"}
               /\ Everywhere(t, State \ {"committed"})
               /\ answer[t] # "Success"
               /\ Becomes(t, r, "aborted")

(* "Success" is said after the last commit, "Failed" only of a transaction *)
(* that has committed nowhere; neither is taken back.                      *)
Tell(t, a) == /\ answer[t] = "none"
              /\ Everywhere(t, IF a = "Success" THEN {"committed"} ELSE State \ {"committed"})
              /\ answer' = [answer EXCEPT ![t] = a]
              /\ UNCHANGED rmState

ACNext == \E t \in Txn : \/ \E r \in RM : Prepare(t, r) \/ Commit(t, r) \/ Abort(t, r)
                         \/ \E a \in {"Success", "Failed"} : Tell(t, a)

ACSpec == ACInit /\ [][ACNext]_acVars
=============================================================================
