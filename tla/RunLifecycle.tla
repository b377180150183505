---------------------------- MODULE RunLifecycle ----------------------------
(***************************************************************************)
(* What a Run promises to the rest of the system, whatever its plan: which  *)
(* step occurrences are dispatched, how many attempts each has had, and     *)
(* whether the Run is over.  Runtime (the interpreter of plans) and         *)
(* ControlPlane (the server that drives a Run from Worker facts) both       *)
(* implement it.                                                            *)
(***************************************************************************)
EXTENDS Naturals

CONSTANT Occurrence     \* the occurrences a Run may ever activate

VARIABLES
    runStatus,          \* Run.status
    occurrence,         \* StepOccurrence.status, by occurrence
    attempts            \* the number of the current ExecutionAttempt, 0 before the first

vars == <<runStatus, occurrence, attempts>>

Status == {"pending", "dispatched", "completed", "failed"}

Init ==
    /\ runStatus = "running"
    /\ occurrence \in [Occurrence -> {"pending", "dispatched"}]
    /\ attempts = [o \in Occurrence |-> IF occurrence[o] = "dispatched" THEN 1 ELSE 0]

(* A dispatched occurrence completes.  The Run goes on and may start         *)
(* occurrences that were pending, or is completed because nothing is left    *)
(* running, or fails because an Until is exhausted; a Run that ends starts   *)
(* nothing.                                                                  *)
Complete(o) ==
    /\ runStatus = "running" /\ occurrence[o] = "dispatched"
    /\ runStatus' \in {"running", "completed", "failed"}
    /\ occurrence' \in [Occurrence -> Status]
    /\ occurrence'[o] = "completed"
    /\ \A p \in Occurrence \ {o} :
          \/ occurrence'[p] = occurrence[p]
          \/ /\ occurrence[p] = "pending" /\ occurrence'[p] = "dispatched"
             /\ runStatus' = "running"
    /\ runStatus' = "completed" => \A p \in Occurrence : occurrence'[p] # "dispatched"
    /\ attempts' = [p \in Occurrence |->
                      IF occurrence'[p] # occurrence[p] /\ p # o THEN 1 ELSE attempts[p]]

(* Another attempt of the same occurrence: a retry or a recovery.            *)
Retry(o) ==
    /\ runStatus = "running" /\ occurrence[o] = "dispatched"
    /\ attempts' = [attempts EXCEPT ![o] = @ + 1]
    /\ UNCHANGED <<runStatus, occurrence>>

(* A dispatched occurrence fails for good, and the Run with it.              *)
Fail(o) ==
    /\ runStatus = "running" /\ occurrence[o] = "dispatched"
    /\ runStatus' = "failed"
    /\ occurrence' = [occurrence EXCEPT ![o] = "failed"]
    /\ UNCHANGED attempts

Next == \E o \in Occurrence : Complete(o) \/ Retry(o) \/ Fail(o)

Spec == Init /\ [][Next]_vars
=============================================================================
