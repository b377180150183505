------------------------------- MODULE Worker --------------------------------
(***************************************************************************)
(* The Worker process: its session with the control plane (WorkerSession)   *)
(* and the executor of its dispatches (DispatchExecutor over                *)
(* DispatchRegistry), side by side with the variables and constants of      *)
(* each. They share no state that either of them models.                    *)
(***************************************************************************)

CONSTANTS
    \* WorkerSession
    MaxGeneration, MaxMessages,
    \* DispatchExecutor
    Action, NoAction, Lineage, Mode, Logical, Occurrence, Source, Gated, Observes, Commands,
    Faults, MaxCrashes, MaxDisconnects, MaxRecoveries

VARIABLES
    \* WorkerSession
    generation, active, registered, reply, registration, publication, readyGeneration, dirty,
    heartbeat, claims, turn, messages, control, stopping, storesClosed,
    \* DispatchExecutor
    reg, pc, recovery, sent, stopped, native, result, prompts, server, online, crashes,
    disconnects

Session == INSTANCE WorkerSession WITH recovery <- control

Executor == INSTANCE DispatchExecutor

(* An Attempt is prompted at most once, however its Worker crashes, loses    *)
(* its backend and recovers (DispatchExecutor.PromptedAtMostOnce).           *)
PromptedAtMostOnce == Executor!PromptedAtMostOnce

(* What the Worker believes acknowledged is what the server has recorded     *)
(* (DispatchExecutor.AcknowledgedIsAccepted), or a completion that was       *)
(* withdrawn (DispatchExecutor.AcknowledgedOrWithdrawn).                     *)
AcknowledgedIsAccepted == Executor!AcknowledgedIsAccepted
AcknowledgedOrWithdrawn == Executor!AcknowledgedOrWithdrawn

(* Two Attempts never drive the process of one lineage at a time             *)
(* (DispatchExecutor.OneDriverPerLineage).                                   *)
OneDriverPerLineage == Executor!OneDriverPerLineage

(* Readiness belongs to the registered connection that acknowledged the      *)
(* reconciliation (WorkerSession.ReadyIsReconciled).                         *)
ReadyIsReconciled == Session!ReadyIsReconciled
=============================================================================
