------------------------------- MODULE Harness -------------------------------
(***************************************************************************)
(* What surrounds the native harness of an Attempt: the questions it asks   *)
(* (HumanAttention), the result it publishes (StructuredCompletion), two of *)
(* the adapters that prompt it (AntigravityPrompt, ClaudeSdkTurns), the     *)
(* sign-in of a provider account (AccountSetup) and of the harness          *)
(* (HarnessSetup), side by side with the variables and bounds of each. They *)
(* share no state that they model.                                          *)
(***************************************************************************)

CONSTANTS
    None,
    \* HumanAttention
    MaxRequests, MaxBinds, MaxRestarts,
    \* StructuredCompletion
    MaxContexts, ContextRestarts, MaxStopEnforcements,
    \* AntigravityPrompt
    Attempts, HumanTypes, MaxLog, MaxProcess, PromptRestarts,
    \* ClaudeSdkTurns
    Turns, MaxWrapper, TurnRestarts,
    \* AccountSetup
    Cancels, AccountCommands, AccountRestarts,
    \* HarnessSetup
    SetupCommands, SetupRestarts

VARIABLES
    \* HumanAttention
    generation, recoverable, token, binds, request, projected, waiter, ledger, receiving,
    wait, running,
    \* StructuredCompletion
    context, binding, bound, ctx, file, results, publisher, runs, crashes,
    \* AntigravityPrompt
    dispatch, conversation, submission, readiness, started, pc, process, line, submitted,
    log, result, restarts,
    \* ClaudeSdkTurns
    turns, stored, current, reopened, at, life, turn, outcome, reboots,
    \* HarnessSetup
    row, signin, active, op, cancel, cleanup, tally,
    \* AccountSetup
    rec, live, login, stream, env, prep, envop, recon, monitor, cancels, writing, count

Attention == INSTANCE HumanAttention WITH native <- wait

Completion == INSTANCE StructuredCompletion WITH
    token <- context, binds <- bound, running <- runs, restarts <- crashes,
    MaxBinds <- MaxContexts, MaxRestarts <- ContextRestarts

Antigravity == INSTANCE AntigravityPrompt WITH MaxRestarts <- PromptRestarts

Claude == INSTANCE ClaudeSdkTurns WITH
    dispatch <- turns, active <- current, pc <- at, result <- outcome, restarts <- reboots,
    Attempts <- Turns, MaxRestarts <- TurnRestarts

Setup == INSTANCE HarnessSetup WITH
    rec <- row, login <- signin, count <- tally,
    MaxCommands <- SetupCommands, MaxRestarts <- SetupRestarts

Account == INSTANCE AccountSetup WITH
    MaxCommands <- AccountCommands, MaxRestarts <- AccountRestarts

(* A human's answer reaches the native wait at most once                     *)
(* (HumanAttention.AnswerDeliveredAtMostOnce).                               *)
AnswerDeliveredAtMostOnce == Attention!AnswerDeliveredAtMostOnce

(* An Attempt publishes one result (StructuredCompletion.OneResultPerAttempt). *)
OneResultPerAttempt == Completion!OneResultPerAttempt

(* A prompt reported as refused had no effect                                *)
(* (AntigravityPrompt.RefusalHadNoSideEffect).                               *)
RefusalHadNoSideEffect == Antigravity!RefusalHadNoSideEffect

(* One wrapper at a time drives a native session                             *)
(* (ClaudeSdkTurns.OneWrapperPerSession).                                    *)
OneWrapperPerSession == Claude!OneWrapperPerSession

(* The login of a setup is begun at most once                                *)
(* (HarnessSetup.LoginBegunAtMostOnce).                                      *)
LoginBegunAtMostOnce == Setup!LoginBegunAtMostOnce

(* The environment of a sign-in in progress is left alone                    *)
(* (AccountSetup.LoginIsUndisturbed).                                        *)
LoginIsUndisturbed == Account!LoginIsUndisturbed
==============================================================================
