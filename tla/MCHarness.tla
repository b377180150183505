------------------------------ MODULE MCHarness ------------------------------
(***************************************************************************)
(* What surrounds the native harness of an Attempt, for TLC: the questions  *)
(* it asks and the result it publishes, two of the adapters, and the sign-in *)
(* of a provider account and of a harness.                                   *)
(* The modules share no state that they model: Init chooses one of them, and *)
(* the others keep their initial state.                                      *)
(***************************************************************************)
EXTENDS Harness, Naturals

VARIABLE case

(* A sign-in with three commands and one cancellation in flight; the bounds  *)
(* of Account are two of each.                                              *)
Commands == INSTANCE AccountSetup WITH
    Cancels <- {1}, MaxCommands <- 3, MaxRestarts <- 1

attention == <<generation, recoverable, token, binds, request, projected, waiter, ledger,
               receiving, wait, running>>
completion == <<context, binding, bound, ctx, file, results, publisher, runs, crashes>>
antigravity == <<dispatch, conversation, submission, readiness, started, pc, process, line,
                 submitted, log, result, restarts>>
claude == <<turns, stored, current, reopened, at, life, turn, outcome, reboots>>
account == <<rec, live, login, stream, env, prep, envop, recon, monitor, cancels, writing,
             count>>
setup == <<row, signin, active, op, cancel, cleanup, tally>>
vars == <<case, attention, completion, antigravity, claude, account, setup>>

ASSUME HarnessAssumption ==
    /\ Attention!AttentionAssumption /\ Completion!CompletionAssumption
    /\ Antigravity!PromptAssumption /\ Claude!TurnsAssumption
    /\ Account!AccountAssumption /\ Commands!AccountAssumption

Init ==
    /\ case \in {"attention", "completion", "antigravity", "claude", "account", "commands",
                "setup"}
    /\ Attention!Init /\ Completion!Init /\ Antigravity!Init /\ Claude!Init /\ Setup!Init
    /\ IF case = "account" THEN Account!Init ELSE Commands!Init
    /\ case # "attention" => ~recoverable

Next ==
    \/ /\ case = "attention" /\ Attention!Next
       /\ UNCHANGED <<case, completion, antigravity, claude, account, setup>>
    \/ /\ case = "completion" /\ Completion!Next
       /\ UNCHANGED <<case, attention, antigravity, claude, account, setup>>
    \/ /\ case = "antigravity" /\ Antigravity!Next
       /\ UNCHANGED <<case, attention, completion, claude, account, setup>>
    \/ /\ case = "claude" /\ Claude!Next
       /\ UNCHANGED <<case, attention, completion, antigravity, account, setup>>
    \/ /\ case = "account" /\ Account!Next
       /\ UNCHANGED <<case, attention, completion, antigravity, claude, setup>>
    \/ /\ case = "commands" /\ Commands!Next
       /\ UNCHANGED <<case, attention, completion, antigravity, claude, setup>>
    \/ /\ case = "setup" /\ Setup!Next
       /\ UNCHANGED <<case, attention, completion, antigravity, claude, account>>

Spec == Init /\ [][Next]_vars
=============================================================================
