---------------------------- MODULE ClaudeSdkTurns ----------------------------
(***************************************************************************)
(* How the Claude Agent SDK adapter drives the native session of a lineage *)
(* through wrapper processes: the transport binding (query and submission) *)
(* in memory and in the registry, the authorized prompt, the corrective    *)
(* continuations after a settled turn, and the recovery of all this when   *)
(* the Worker restarts (harnesses/claude-agent-sdk/adapter.ts, with the    *)
(* recovery of dispatch/executor.ts and the profile's claude-wrapper.mjs). *)
(*                                                                         *)
(* Attempt 1 starts the lineage; each later one continues it when the one  *)
(* before has completed.  Every prompt waits for an authorization.         *)
(* Abstract: SBX preparation, identities and digests (never mismatched),   *)
(* HumanAttention, usage, cancellation, and what the completion authority  *)
(* decides (StructuredCompletion models it).                               *)
(***************************************************************************)
EXTENDS Naturals

CONSTANTS
  Attempts,      \* bound: Attempts of the lineage
  MaxWrapper,    \* bound: wrapper processes
  MaxRestarts,   \* bound: Worker restarts
  None           \* no binding

Attempt == 1 .. Attempts
Wrapper == 1 .. MaxWrapper
MaxContinuations == 2

(* ClaudeAgentSdkTransportBinding: how far the query and the turn have come. *)
Binding == [wrapper : Wrapper,
            query : {"not_invoked", "requested", "acknowledged", "uncertain"},
            submission : {"not_submitted", "submitted", "native_accepted", "settled"},
            continuations : 0 .. MaxContinuations]

TurnsAssumption ==
  /\ Attempts \in Nat \ {0} /\ MaxWrapper \in Nat \ {0} /\ MaxRestarts \in Nat
  /\ None \notin Binding

VARIABLES
  dispatch,    \* registry rows, durable
  stored,      \* lineage.transportBinding, durable
  active,      \* the binding of the active execution, in memory
  reopened,    \* settledRecovery of the active execution
  pc,          \* where the execution of the current Attempt is
  life,        \* the wrapper processes
  turn,        \* how far the turn a wrapper was given has come
  result,      \* what the completion authority has of an Attempt
  restarts

vars == <<dispatch, stored, active, reopened, pc, life, turn, result, restarts>>
native == <<life, turn>>
memory == <<active, reopened>>

NoDispatch == [state |-> "absent", authorized |-> FALSE, intent |-> FALSE,
               failure |-> "none"]

Init ==
  /\ dispatch = [a \in Attempt |-> NoDispatch]
  /\ stored = None /\ active = None /\ reopened = FALSE
  /\ pc = "idle"
  /\ life = [w \in Wrapper |-> "unused"] /\ turn = [w \in Wrapper |-> "none"]
  /\ result = [a \in Attempt |-> "none"]
  /\ restarts = 0

Settled == {"completed", "failed", "uncertain"}
Current(a) ==
  /\ dispatch[a].state \notin Settled
  /\ \A b \in 1 .. a - 1 : dispatch[b].state = "completed"

Ends(a, state, why) ==
  /\ dispatch' = [dispatch EXCEPT ![a].state = state, ![a].failure = why]
  /\ pc' = "idle"
Fails(a, why) == Ends(a, "failed", why)

(* onEvent with an inspection: the registry records the binding. *)
Persist(b) == active' = b /\ stored' = b
-----------------------------------------------------------------------------
(* Wrappers of the lineage.                                                  *)

NextWrapper == CHOOSE w \in Wrapper : life[w] = "unused" /\ \A v \in 1 .. w - 1 : life[v] # "unused"

(* What spawn makes of the binding it replaces. *)
SpawnBinding(w, b) ==
  [wrapper |-> w, query |-> "not_invoked",
   submission |-> IF b # None /\ b.submission = "settled" THEN "settled" ELSE "not_submitted",
   continuations |-> IF b # None /\ (b.submission = "settled" \/ b.query = "not_invoked")
                     THEN b.continuations ELSE 0]

(* The process starts, then it initializes or the Attempt fails; a process   *)
(* that failed to initialize is left behind.                                 *)
Spawn(a, b) ==
  /\ \E w \in Wrapper : life[w] = "unused"
  /\ \/ /\ life' = [life EXCEPT ![NextWrapper] = "live"]
        /\ active' = SpawnBinding(NextWrapper, b)
        /\ reopened' = (b # None /\ b.submission = "settled")
        /\ pc' = "record"
        /\ dispatch' = [dispatch EXCEPT ![a].state = "accepted"]
     \/ /\ \/ life' = [life EXCEPT ![NextWrapper] = "live"]
           \/ UNCHANGED life
        /\ Fails(a, "not_initialized") /\ UNCHANGED memory
  /\ UNCHANGED turn

(* Mutant: a replacement does not ask whether the process is still there. *)
Replace_blind(a, b) ==
  \/ Spawn(a, b)
  \/ Fails(a, "stream_lost") /\ UNCHANGED <<native, memory>>

(* prepareReplacement, then spawn: only over a process that is gone. *)
Replace(a, b) ==
  \/ life[b.wrapper] = "gone" /\ Spawn(a, b)
  \/ Fails(a, "stream_lost") /\ UNCHANGED <<native, memory>>

(* What continue accepts of an execution that is still in memory. *)
Continuable(b) ==
  \/ b.query = "acknowledged" /\ b.submission = "settled"
  \/ b.query = "not_invoked" /\ b.submission = "not_submitted"
Continued(b) ==
  IF b.submission = "settled"
  THEN [b EXCEPT !.submission = "not_submitted", !.continuations = 0] ELSE b
-----------------------------------------------------------------------------
(* Preparation, authorization and recovery.                                  *)

(* execute: start, or continue over what memory or the registry has. *)
Begin(a) ==
  /\ pc = "idle" /\ Current(a)
  /\ IF active # None
     THEN IF Continuable(active)
          THEN /\ active' = Continued(active) /\ UNCHANGED <<reopened, native>>
               /\ dispatch' = [dispatch EXCEPT ![a].state = "accepted"]
               /\ pc' = "record"
          ELSE Fails(a, "continuation_refused") /\ UNCHANGED <<memory, native>>
     ELSE CASE stored = None -> Spawn(a, None)
            [] stored # None /\ stored.submission = "settled" -> Replace(a, stored)
            [] OTHER -> Fails(a, "continuation_refused") /\ UNCHANGED <<memory, native>>
  /\ UNCHANGED <<stored, result, restarts>>

(* recordExecution, then the gate of the prompt, the continuation that an    *)
(* authorized prompt still needs, or the collection of what was sent.        *)
Record(a) ==
  /\ pc = "record" /\ Current(a)
  /\ Persist(active)
  /\ pc' = IF dispatch[a].intent THEN "attach"
           ELSE IF dispatch[a].authorized THEN "renew" ELSE "gate"
  /\ UNCHANGED <<dispatch, reopened, native, result, restarts>>

(* authorizePrompt starts the dispatch again, as a recovery. *)
AuthorizePrompt(a) ==
  /\ pc = "gate" /\ Current(a)
  /\ dispatch' = [dispatch EXCEPT ![a].authorized = TRUE]
  /\ pc' = "recover"
  /\ UNCHANGED <<stored, memory, native, result, restarts>>

(* A binding whose turn may be at work. *)
InFlight(b) ==
  /\ b.submission # "settled"
  /\ ~(b.query = "acknowledged" /\ b.submission = "not_submitted")
  /\ b.query # "not_invoked" \/ b.submission \in {"submitted", "native_accepted"}

(* recoverOne: recover, then ready, which asks for the active execution. *)
Recover(a) ==
  /\ pc = "recover" /\ Current(a)
  /\ CASE active # None -> pc' = "record" /\ UNCHANGED <<dispatch, memory, native>>
       [] active = None /\ result[a] = "exported" ->
            Fails(a, "stream_lost") /\ UNCHANGED <<memory, native>>
       [] active = None /\ result[a] # "exported" /\ InFlight(stored) ->
            Fails(a, "submission_uncertain") /\ UNCHANGED <<memory, native>>
       [] OTHER -> Replace(a, stored)
  /\ UNCHANGED <<stored, result, restarts>>

(* continueExecution and recordExecution of an authorized prompt. *)
Renew(a) ==
  /\ pc = "renew" /\ Current(a)
  /\ IF Continuable(active)
     THEN Persist(Continued(active)) /\ pc' = "intent" /\ UNCHANGED dispatch
     ELSE Fails(a, "continuation_refused") /\ UNCHANGED <<stored, active>>
  /\ UNCHANGED <<reopened, native, result, restarts>>

MarkPromptIntent(a) ==
  /\ pc = "intent" /\ Current(a)
  /\ dispatch' = [dispatch EXCEPT ![a].intent = TRUE]
  /\ pc' = "submit"
  /\ UNCHANGED <<stored, memory, native, result, restarts>>
-----------------------------------------------------------------------------
(* Turns.                                                                    *)

(* The binding that is persisted before execute_turn is written. *)
Submitted(b, n) ==
  [b EXCEPT !.query = IF b.query = "not_invoked" THEN "requested" ELSE b.query,
            !.submission = "submitted", !.continuations = n]

SubmitPrompt(a) ==
  /\ pc = "submit" /\ Current(a)
  /\ active.submission = "not_submitted"
  /\ Persist(Submitted(active, 0))
  /\ pc' = "send"
  /\ UNCHANGED <<dispatch, reopened, native, result, restarts>>

(* client.send: the wrapper has the turn or not, the answer comes or not. *)
Send(a, delivered, acknowledged) ==
  /\ pc = "send" /\ Current(a)
  /\ acknowledged => delivered
  /\ delivered => life[active.wrapper] = "live"
  /\ turn' = IF ~delivered THEN turn
             ELSE [turn EXCEPT ![active.wrapper] =
                     IF active.query = "requested" THEN "sent" ELSE "started"]
  /\ IF acknowledged
     THEN pc' = "collect" /\ UNCHANGED <<dispatch, stored, active>>
     ELSE /\ Persist(IF active.query = "requested"
                     THEN [active EXCEPT !.query = "uncertain"] ELSE active)
          /\ Ends(a, "uncertain", "submission_uncertain")
  /\ UNCHANGED <<reopened, life, result, restarts>>

(* waitAndCollect after a recovery, up to its first event. *)
Attach(a) ==
  /\ pc = "attach" /\ Current(a)
  /\ IF result[a] = "exported" THEN Ends(a, "completed", "none") /\ UNCHANGED reopened
     ELSE /\ pc' = IF reopened THEN "stopped" ELSE "collect"
          /\ reopened' = FALSE /\ UNCHANGED dispatch
  /\ UNCHANGED <<stored, active, native, result, restarts>>

Collecting(a) == pc = "collect" /\ Current(a)

(* query_started *)
ObserveQueryStarted(a) ==
  /\ Collecting(a) /\ active.query = "requested"
  /\ turn[active.wrapper] \in {"started", "accepted", "settled", "fatal"}
  /\ Persist([active EXCEPT !.query = "acknowledged"])
  /\ UNCHANGED <<dispatch, reopened, pc, native, result, restarts>>

(* native_activity: native_accepted *)
ObserveAccepted(a) ==
  /\ Collecting(a) /\ active.query = "acknowledged" /\ active.submission = "submitted"
  /\ turn[active.wrapper] \in {"accepted", "settled"}
  /\ Persist([active EXCEPT !.submission = "native_accepted"])
  /\ dispatch' = [dispatch EXCEPT ![a].state = "running"]
  /\ UNCHANGED <<reopened, pc, native, result, restarts>>

(* qe_complete_step, accepted by the completion authority. *)
CompleteStep(a) ==
  /\ Collecting(a) /\ active.submission = "native_accepted"
  /\ result[a] = "none"
  /\ result' = [result EXCEPT ![a] = "accepted"]
  /\ UNCHANGED <<dispatch, stored, memory, pc, native, restarts>>

(* turn_settled *)
ObserveSettled(a) ==
  /\ Collecting(a) /\ active.submission = "native_accepted"
  /\ turn[active.wrapper] = "settled"
  /\ Persist([active EXCEPT !.submission = "settled"])
  /\ pc' = "stopped"
  /\ UNCHANGED <<dispatch, reopened, native, result, restarts>>

(* fatal_error: a query that was not invoked takes the submission back. *)
ObserveFatal(a) ==
  /\ Collecting(a)
  /\ \/ /\ active.query = "requested" /\ turn[active.wrapper] = "rejected"
        /\ Persist([active EXCEPT !.query = "not_invoked", !.submission = "not_submitted",
                                  !.continuations = 0])
     \/ /\ active.query = "acknowledged" /\ turn[active.wrapper] = "fatal"
        /\ Persist(active)
  /\ Fails(a, "fatal_error")
  /\ UNCHANGED <<reopened, native, result, restarts>>

(* The stream ends with nothing left to read. *)
ObserveStreamLost(a) ==
  /\ Collecting(a) /\ life[active.wrapper] = "gone"
  /\ turn[active.wrapper] = IF active.query = "requested" THEN "sent"
                            ELSE IF active.submission = "native_accepted" THEN "accepted"
                            ELSE "started"
  /\ Persist(IF active.query = "requested"
             THEN [active EXCEPT !.query = "uncertain"] ELSE active)
  /\ Fails(a, "submission_uncertain")
  /\ UNCHANGED <<reopened, native, result, restarts>>

(* afterSettlement: the result is awaited, a correction is submitted, or the *)
(* contract is violated.                                                     *)
AfterSettlement(a) ==
  /\ pc = "stopped" /\ Current(a)
  /\ \/ /\ result[a] # "none"
        /\ pc' = "export" /\ UNCHANGED <<dispatch, stored, active>>
     \/ /\ result[a] = "none" /\ active.continuations < MaxContinuations
        /\ Persist(Submitted(active, active.continuations + 1))
        /\ pc' = "send" /\ UNCHANGED dispatch
     \/ /\ result[a] = "none"
        /\ Fails(a, "contract_violation") /\ UNCHANGED <<stored, active>>
  /\ UNCHANGED <<reopened, native, result, restarts>>

(* waitForResult, for 30 seconds. *)
AwaitExport(a) ==
  /\ pc = "export" /\ Current(a)
  /\ IF result[a] = "exported" THEN Ends(a, "completed", "none")
     ELSE Fails(a, "completion_export_timeout")
  /\ UNCHANGED <<stored, memory, native, result, restarts>>

ExportResult(a) ==
  /\ result[a] = "accepted"
  /\ result' = [result EXCEPT ![a] = "exported"]
  /\ UNCHANGED <<dispatch, stored, memory, pc, native, restarts>>
-----------------------------------------------------------------------------
(* The wrapper, and the Worker process.                                      *)

(* executeTurn: the query starts, the prompt is accepted, the turn settles,  *)
(* or the wrapper fails and exits.                                           *)
After(stage) ==
  CASE stage = "sent" -> {"started", "rejected"}
    [] stage = "started" -> {"accepted", "fatal"}
    [] stage = "accepted" -> {"settled", "fatal"}
    [] OTHER -> {}

WrapperAdvances(w) ==
  /\ life[w] = "live"
  /\ \E stage \in After(turn[w]) :
       /\ turn' = [turn EXCEPT ![w] = stage]
       /\ life' = [life EXCEPT ![w] = IF stage \in {"rejected", "fatal"} THEN "gone" ELSE @]
  /\ UNCHANGED <<dispatch, stored, memory, pc, result, restarts>>

WrapperExits(w) ==
  /\ life[w] = "live"
  /\ life' = [life EXCEPT ![w] = "gone"]
  /\ UNCHANGED <<dispatch, stored, memory, pc, turn, result, restarts>>

(* The Worker restarts.  Its wrappers lose their input and may live on.      *)
(* shouldRecover: a lineage with a handle is recovered, others execute again.*)
Crash ==
  /\ restarts < MaxRestarts
  /\ restarts' = restarts + 1
  /\ active' = None /\ reopened' = FALSE
  /\ pc' = IF \E a \in Attempt : Current(a) /\ dispatch[a].state # "absent" /\ stored # None
           THEN "recover" ELSE "idle"
  /\ UNCHANGED <<dispatch, stored, native, result>>

Adapter(a) ==
  \/ Begin(a) \/ Record(a) \/ AuthorizePrompt(a) \/ Recover(a) \/ Renew(a)
  \/ MarkPromptIntent(a) \/ SubmitPrompt(a) \/ Attach(a)
  \/ \E delivered, acknowledged \in BOOLEAN : Send(a, delivered, acknowledged)
  \/ ObserveQueryStarted(a) \/ ObserveAccepted(a) \/ CompleteStep(a) \/ ObserveSettled(a)
  \/ ObserveFatal(a) \/ ObserveStreamLost(a) \/ AfterSettlement(a) \/ AwaitExport(a)
  \/ ExportResult(a)

Next ==
  \/ \E a \in Attempt : Adapter(a)
  \/ \E w \in Wrapper : WrapperAdvances(w) \/ WrapperExits(w)
  \/ Crash

Spec == Init /\ [][Next]_vars
-----------------------------------------------------------------------------
(* Properties.                                                               *)

TypeOK ==
  /\ stored \in {None} \union Binding /\ active \in {None} \union Binding
  /\ reopened \in BOOLEAN
  /\ dispatch \in [Attempt -> [state : {"absent", "accepted", "running"} \union Settled,
                               authorized : BOOLEAN, intent : BOOLEAN,
                               failure : {"none", "not_initialized", "stream_lost",
                                          "continuation_refused", "submission_uncertain",
                                          "fatal_error", "contract_violation",
                                          "completion_export_timeout"}]]
  /\ life \in [Wrapper -> {"unused", "live", "gone"}]
  /\ turn \in [Wrapper -> {"none", "sent", "started", "accepted", "settled",
                           "rejected", "fatal"}]
  /\ result \in [Attempt -> {"none", "accepted", "exported"}]

(* docs/claude-agent-sdk.md: attached-only stdio cannot be invented and a    *)
(* process that may still run is not replaced.  Across restarts, lost        *)
(* answers and continuations, no two living wrappers have been given a turn  *)
(* of the lineage, so no turn the Worker lost works beside a new one.        *)
OneWrapperPerSession ==
  \A v, w \in Wrapper :
    life[v] = "live" /\ life[w] = "live" /\ turn[v] # "none" /\ turn[w] # "none" => v = w

(* The recovery table of the same document: a settled session is continued,  *)
(* and a continuation that has not been submitted starts its query after the *)
(* authorization.  A continuation is refused only for a turn in doubt.       *)
ContinuationStarts ==
  \A a \in Attempt :
    dispatch[a].failure = "continuation_refused" =>
      stored.submission \notin {"settled", "not_submitted"}

(* The same table: a recovery collects an authoritative result, and the      *)
(* settlement of the provider is not required.                               *)
ResultIsCollected ==
  [][\A a \in Attempt :
       pc = "recover" /\ Current(a) /\ result[a] = "exported" =>
         dispatch'[a].state # "failed"]_vars

(* The comment in collect: a process exit or a protocol event settles the    *)
(* wait, so what is collected has been given to the wrapper.                 *)
CollectedTurnsExist ==
  pc = "collect" => turn[active.wrapper] # "none"
=============================================================================
