-------------------------- MODULE AntigravityPrompt --------------------------
(***************************************************************************)
(* How the Antigravity adapter gets one authorized prompt into a live TUI: *)
(* readiness, the durable submission record, a fenced paste and a separate *)
(* Enter over Herdr, and the native log that alone proves acceptance       *)
(* (harnesses/antigravity/adapter.ts, session-host/herdr/session-host.ts,  *)
(* harnesses/turn-lifecycle.ts).                                           *)
(*                                                                         *)
(* The model follows one PhysicalLineage used by Attempts 1, 2, ...: each  *)
(* later one continues the conversation of the one before.  Fencing and    *)
(* sending are two calls, and the TUI takes its input later: between them  *)
(* the process may be replaced, the answer lost, the Worker restarted, and *)
(* a person attached to the session may type.  Abstract: SBX preparation,  *)
(* the control bridge, and the tokens of the fence other than the process. *)
(***************************************************************************)
EXTENDS Naturals, Sequences

CONSTANTS
  Attempts,      \* bound: Attempts of the lineage
  HumanTypes,    \* a person may type into the session
  None,          \* no process, no readiness, no text
  MaxLog,        \* bound: native log entries
  MaxProcess,    \* bound: foreground processes of the pane
  MaxRestarts    \* bound: Worker restarts

Attempt == 1 .. Attempts
Human == 0                    \* the author of what a person types

PromptAssumption ==
  /\ Attempts \in Nat \ {0} /\ HumanTypes \in BOOLEAN
  /\ MaxLog \in Nat /\ MaxProcess \in Nat \ {0} /\ MaxRestarts \in Nat
  /\ None \notin {Human} \union Attempt

VARIABLES
  dispatch,     \* registry rows, durable
  conversation, \* lineage.nativeSession, durable
  submission,   \* interactive-prompt-submission.json, durable
  readiness,    \* promptReadiness: the Attempt and process it was proved for
  started,      \* promptSubmissionStarted has the lineage
  pc,           \* where the execution of the current Attempt is
  process,      \* foreground process of the pane, counted
  line,         \* text in the input line of the TUI: its author
  submitted,    \* Enter was pressed on this text, the TUI has not handled it
  log,          \* the native log: author and verdict of each message
  result,       \* the structured result of an Attempt exists
  restarts

vars == <<dispatch, conversation, submission, readiness, started, pc, process,
          line, submitted, log, result, restarts>>
native == <<process, line, submitted, log, result>>
store == <<dispatch, conversation, submission>>

NoDispatch == [state |-> "absent", intent |-> FALSE, cursor |-> None,
               accepted |-> None, failure |-> "none"]

Init ==
  /\ dispatch = [a \in Attempt |-> NoDispatch]
  /\ conversation = FALSE
  /\ submission = [attempt |-> None, phase |-> "absent"]
  /\ readiness = None /\ started = FALSE
  /\ pc = "idle"
  /\ process = 1 /\ line = None /\ submitted = None /\ log = <<>>
  /\ result = {}
  /\ restarts = 0

Settled == {"completed", "failed", "uncertain"}

(* The Attempt the lineage is occupied by. *)
Current(a) ==
  /\ dispatch[a].state \notin Settled
  /\ \A b \in 1 .. a - 1 : dispatch[b].state = "completed"
Fails(a, why) == dispatch' = [dispatch EXCEPT ![a].state = "failed", ![a].failure = why]

(* uncertainPrompt: failAndReport leaves the dispatch uncertain. *)
Uncertain(a) ==
  dispatch' = [dispatch EXCEPT ![a].state = "uncertain", ![a].failure = "prompt_uncertain"]

(* A conversation exists natively once a message was accepted. *)
NativeSession == \E i \in DOMAIN log : log[i].ok

Phase(p) == submission' = [submission EXCEPT !.phase = p]

(* The pane runs the process that readiness observed (paneProcessIdentityDigest). *)
ProcessIsObserved == readiness.process = process

(* validatePromptInputFence over what Herdr answers now. *)
FenceHolds == ProcessIsObserved
-----------------------------------------------------------------------------
(* Readiness and authorization.                                              *)

(* ready() of a dispatch without prompt intent. *)
ReadinessRefuses(a) ==
  IF submission.phase \notin {"absent", "not_submitted"} THEN "duplicate_prompt"
  ELSE IF NativeSession /\ ~conversation THEN "native_activity"
  ELSE IF conversation /\ ~NativeSession THEN "conversation_mismatch"
  ELSE "none"

(* start or continue, then ready; the dispatch waits for authorization. *)
Prepare(a) ==
  /\ pc = "idle" /\ Current(a)
  /\ dispatch[a].state = "absent"
  /\ IF ReadinessRefuses(a) # "none"
     THEN Fails(a, ReadinessRefuses(a)) /\ UNCHANGED <<submission, readiness>>
     ELSE /\ dispatch' = [dispatch EXCEPT ![a].state = "accepted"]
          /\ submission' = [attempt |-> a, phase |-> "not_submitted"]
          /\ readiness' = [attempt |-> a, process |-> process]
  /\ UNCHANGED <<conversation, started, pc, native, restarts>>

(* authorizePrompt, then recoverOne: recover, ready, continue, ready again, *)
(* and markPromptIntent before sendInputAndCollect.                         *)
AuthorizePrompt(a) ==
  /\ pc = "idle" /\ Current(a)
  /\ dispatch[a].state = "accepted" /\ ~dispatch[a].intent
  /\ IF ReadinessRefuses(a) # "none"
     THEN Fails(a, ReadinessRefuses(a)) /\ UNCHANGED <<submission, readiness, pc>>
     ELSE /\ dispatch' = [dispatch EXCEPT ![a].intent = TRUE]
          /\ submission' = [attempt |-> a, phase |-> "not_submitted"]
          /\ readiness' = [attempt |-> a, process |-> process]
          /\ pc' = "baseline"
  /\ UNCHANGED <<conversation, started, native, restarts>>

(* promptEvidenceCursor and the prompt_baseline event. *)
Baseline(a) ==
  /\ pc = "baseline" /\ Current(a)
  /\ dispatch' = [dispatch EXCEPT ![a].cursor = Len(log)]
  /\ pc' = "check"
  /\ UNCHANGED <<conversation, submission, readiness, started, native, restarts>>
-----------------------------------------------------------------------------
(* submitAndCollect.                                                          *)

(* The transition of the submission record is not written: an error of no   *)
(* known kind ends the dispatch as failed.                                   *)
NotRecorded(a) == Fails(a, "store_failed") /\ pc' = "idle"

(* Everything submitAndCollect verifies before it consumes the submission;  *)
(* Herdr may not answer.                                                     *)
CheckSubmission(a) ==
  /\ pc = "check" /\ Current(a)
  /\ \E observed \in BOOLEAN :
       LET refusal == IF started THEN "duplicate_prompt"
                      ELSE IF ~observed \/ ~ProcessIsObserved THEN "input_fence"
                      ELSE IF submission # [attempt |-> a, phase |-> "not_submitted"]
                           THEN "duplicate_prompt" ELSE "none"
       IN \/ /\ refusal # "none" /\ Fails(a, refusal) /\ pc' = "idle"
             /\ UNCHANGED <<started, submission>>
          \/ /\ refusal = "none" /\ started' = TRUE
             /\ \/ /\ Phase("text_stage_requested") /\ pc' = "stage_fence"
                   /\ UNCHANGED dispatch
                \/ NotRecorded(a) /\ UNCHANGED submission
  /\ UNCHANGED <<conversation, readiness, native, restarts>>

(* assertInteractivePromptAuthority before pane.send_text: a mismatch, or   *)
(* Herdr that cannot be observed, is a known rejection without side effect. *)
FenceStage(a) ==
  /\ pc = "stage_fence" /\ Current(a)
  /\ \/ FenceHolds /\ pc' = "stage_send" /\ UNCHANGED <<dispatch, submission>>
     \/ pc' = "idle" /\ Phase("text_stage_rejected") /\ Fails(a, "input_fence")
  /\ UNCHANGED <<conversation, readiness, started, native, restarts>>

(* Mutant: a lost acknowledgement of the paste is reported as a rejection. *)
SendText_rejected(a, delivered, acknowledged) ==
  /\ pc = "stage_send" /\ Current(a)
  /\ acknowledged => delivered
  /\ line' = IF delivered THEN a ELSE line
  /\ IF acknowledged
     THEN Phase("submit_requested") /\ pc' = "submit_fence" /\ UNCHANGED dispatch
     ELSE Phase("text_stage_rejected") /\ pc' = "idle" /\ Fails(a, "input_fence")
  /\ UNCHANGED <<conversation, readiness, started, process, submitted, log,
                 result, restarts>>

(* pane.send_text: the text reaches whatever the pane runs, or not, and the *)
(* acknowledgement comes back and is recorded, or not.  The request of      *)
(* Enter is recorded next, outside of the try block.                        *)
SendText(a, delivered, acknowledged) ==
  /\ pc = "stage_send" /\ Current(a)
  /\ acknowledged => delivered
  /\ line' = IF delivered THEN a ELSE line
  /\ \/ acknowledged /\ Phase("submit_requested") /\ pc' = "submit_fence" /\ UNCHANGED dispatch
     \/ acknowledged /\ Phase("text_staged") /\ NotRecorded(a)
     \/ ~acknowledged /\ Phase("text_stage_uncertain") /\ pc' = "idle" /\ Uncertain(a)
  /\ UNCHANGED <<conversation, readiness, started, process, submitted, log,
                 result, restarts>>

(* The same fence before pane.send_keys: any failure here is uncertain. *)
FenceSubmit(a) ==
  /\ pc = "submit_fence" /\ Current(a)
  /\ \/ FenceHolds /\ pc' = "submit_send" /\ UNCHANGED submission
     \/ pc' = "inspect" /\ Phase("submit_uncertain")
  /\ UNCHANGED <<dispatch, conversation, readiness, started, native, restarts>>

SendEnter(a, delivered, acknowledged) ==
  /\ pc = "submit_send" /\ Current(a)
  /\ acknowledged => delivered
  /\ IF delivered /\ line # None /\ submitted = None
     THEN submitted' = line /\ line' = None
     ELSE UNCHANGED <<submitted, line>>
  /\ Phase(IF acknowledged THEN "submit_sent" ELSE "submit_uncertain")
  /\ pc' = "inspect"
  /\ UNCHANGED <<dispatch, conversation, readiness, started, process, log,
                 result, restarts>>

(* The pane is seen to run the observed process, or the outcome is uncertain. *)
InspectProcess(a) ==
  /\ pc = "inspect" /\ Current(a)
  /\ \/ ProcessIsObserved /\ pc' = "await" /\ UNCHANGED dispatch
     \/ pc' = "idle" /\ Uncertain(a)
  /\ UNCHANGED <<conversation, submission, readiness, started, native, restarts>>
-----------------------------------------------------------------------------
(* Native evidence.                                                           *)

(* observeAntigravityPromptDispatch: the first entry after the baseline. *)
Evidence(a) == dispatch[a].cursor + 1
EvidenceExists(a) == dispatch[a].cursor # None /\ Evidence(a) \in DOMAIN log

(* What an accepted or rejected entry makes of the dispatch. *)
ObserveEvidence(a) ==
  /\ EvidenceExists(a)
  /\ IF log[Evidence(a)].ok
     THEN /\ dispatch' = [dispatch EXCEPT ![a].state = "running",
                                          ![a].accepted = Evidence(a)]
          /\ conversation' = TRUE
          /\ pc' = "wait"
     ELSE Fails(a, "dispatch_rejected") /\ pc' = "idle" /\ UNCHANGED conversation

(* awaitNativePromptAcceptance. *)
AwaitAcceptance(a) ==
  /\ pc = "await" /\ Current(a)
  /\ ObserveEvidence(a)
  /\ IF log[Evidence(a)].ok THEN Phase("conversation_identity_observed")
     ELSE UNCHANGED submission
  /\ UNCHANGED <<readiness, started, native, restarts>>

AcceptanceTimesOut(a) ==
  /\ pc = "await" /\ Current(a)
  /\ ~EvidenceExists(a)
  /\ Uncertain(a) /\ pc' = "idle"
  /\ UNCHANGED <<conversation, submission, readiness, started, native, restarts>>

(* reconcileAmbiguousPrompt after a restart, for a dispatch whose acceptance *)
(* is not recorded.                                                          *)
Reconcile(a) ==
  /\ pc = "reconcile" /\ Current(a)
  /\ \/ /\ a \in result
        /\ dispatch' = [dispatch EXCEPT ![a].state = "completed"]
        /\ pc' = "idle" /\ UNCHANGED conversation
     \/ a \notin result /\ ObserveEvidence(a)
     \/ /\ a \notin result /\ ~EvidenceExists(a)
        /\ Uncertain(a) /\ pc' = "idle" /\ UNCHANGED conversation
  /\ UNCHANGED <<submission, readiness, started, native, restarts>>

(* waitForAuthorizedResult *)
CollectResult(a) ==
  /\ pc = "wait" /\ Current(a)
  /\ a \in result
  /\ dispatch' = [dispatch EXCEPT ![a].state = "completed"]
  /\ pc' = "idle"
  /\ UNCHANGED <<conversation, submission, readiness, started, native, restarts>>
-----------------------------------------------------------------------------
(* Worker restart, the terminal, and the person at it.                       *)

Crash ==
  /\ restarts < MaxRestarts
  /\ restarts' = restarts + 1
  /\ readiness' = None /\ started' = FALSE
  /\ pc' = "recover"
  /\ UNCHANGED <<store, native>>

(* recoverOne: without prompt intent the dispatch is prepared again; with it *)
(* nothing is sent, and a missing baseline is taken from the log as it is.   *)
Recover ==
  /\ pc = "recover"
  /\ IF \E a \in Attempt : Current(a) /\ dispatch[a].intent
     THEN LET a == CHOOSE b \in Attempt : Current(b) /\ dispatch[b].intent
          IN /\ readiness' = [attempt |-> a, process |-> process]
             /\ pc' = IF dispatch[a].accepted # None THEN "wait" ELSE "reconcile"
             /\ dispatch' = IF dispatch[a].cursor = None
                            THEN [dispatch EXCEPT ![a].cursor = Len(log)]
                            ELSE dispatch
     ELSE pc' = "idle" /\ UNCHANGED <<readiness, dispatch>>
  /\ UNCHANGED <<conversation, submission, started, native, restarts>>

(* The TUI handles a submitted line: it sends it to the conversation, or     *)
(* logs that SendUserMessage failed.                                         *)
NativeHandles(ok) ==
  /\ submitted # None /\ Len(log) < MaxLog
  /\ log' = Append(log, [from |-> submitted, ok |-> ok])
  /\ submitted' = None
  /\ UNCHANGED <<store, readiness, started, pc, process, line, result, restarts>>

(* The turn that works on the prompt of a calls qe_complete_step. *)
NativeCompletes(a) ==
  /\ a \notin result /\ dispatch[a].intent
  /\ \E i \in DOMAIN log : log[i] = [from |-> a, ok |-> TRUE]
  /\ result' = result \union {a}
  /\ UNCHANGED <<store, readiness, started, pc, process, line, submitted, log, restarts>>

(* The foreground process of the pane is replaced; its input is gone. *)
ReplaceProcess ==
  /\ process < MaxProcess
  /\ process' = process + 1
  /\ line' = None /\ submitted' = None
  /\ UNCHANGED <<store, readiness, started, pc, log, result, restarts>>

(* A person presses Enter, on text of their own or on what is staged. *)
HumanSubmits ==
  /\ HumanTypes /\ submitted = None /\ Len(log) < MaxLog
  /\ submitted' = (IF line = None THEN Human ELSE line)
  /\ line' = None
  /\ UNCHANGED <<store, readiness, started, pc, process, log, result, restarts>>

Sends(a) ==
  \E delivered, acknowledged \in BOOLEAN :
    SendText(a, delivered, acknowledged) \/ SendEnter(a, delivered, acknowledged)

Adapter(a) ==
  \/ Prepare(a) \/ AuthorizePrompt(a) \/ Baseline(a) \/ CheckSubmission(a)
  \/ FenceStage(a) \/ FenceSubmit(a) \/ Sends(a) \/ InspectProcess(a)
  \/ AwaitAcceptance(a) \/ AcceptanceTimesOut(a) \/ Reconcile(a) \/ CollectResult(a)

Next ==
  \/ \E a \in Attempt : Adapter(a) \/ NativeCompletes(a)
  \/ \E ok \in BOOLEAN : NativeHandles(ok)
  \/ Crash \/ Recover \/ ReplaceProcess \/ HumanSubmits

Spec == Init /\ [][Next]_vars
-----------------------------------------------------------------------------
(* Properties.                                                               *)

TypeOK ==
  /\ dispatch \in [Attempt -> [state : {"absent", "accepted", "running"} \union Settled,
                               intent : BOOLEAN,
                               cursor : {None} \union (0 .. MaxLog),
                               accepted : {None} \union (1 .. MaxLog),
                               failure : {"none", "duplicate_prompt", "native_activity",
                                          "conversation_mismatch", "input_fence",
                                          "dispatch_rejected", "store_failed",
                                          "prompt_uncertain"}]]
  /\ conversation \in BOOLEAN /\ started \in BOOLEAN
  /\ submission.attempt \in {None} \union Attempt
  /\ line \in {None} \union Attempt /\ submitted \in {None, Human} \union Attempt
  /\ process \in 1 .. MaxProcess /\ result \subseteq Attempt

(* An Attempt that QE itself refused (a duplicate, a failed input fence,     *)
(* earlier native activity) is reported with input_side_effect none and zero *)
(* provider cycles, and a fresh Attempt may follow.  Then none of its text   *)
(* reached the session, where Enter (its own, delayed, or a person's) could  *)
(* still submit it.  A rejection by the TUI itself, and a submission record  *)
(* that could not be written after the paste, are not reported so.           *)
RefusalHadNoSideEffect ==
  \A a \in Attempt :
    dispatch[a].state = "failed" =>
      \/ dispatch[a].failure \in {"dispatch_rejected", "store_failed"}
      \/ /\ line # a /\ submitted # a
         /\ \A i \in DOMAIN log : log[i].from # a

(* The comment of observeAntigravityPromptDispatch: the first message after  *)
(* the baseline belongs to the exclusively owned TUI and proves that the     *)
(* prompt of the Attempt was accepted.                                       *)
AcceptanceIsOfThePrompt ==
  \A a \in Attempt : dispatch[a].accepted # None => log[dispatch[a].accepted].from = a

(* docs/antigravity-sbx.md: a retained live process uses the same pane       *)
(* transport for a later authorized message, so an Attempt that has sent     *)
(* nothing is not refused as a duplicate.                                    *)
ContinuationIsAccepted ==
  \A a \in Attempt : dispatch[a].failure = "duplicate_prompt" => dispatch[a].intent
=============================================================================
