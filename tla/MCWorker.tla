------------------------------ MODULE MCWorker ------------------------------
(***************************************************************************)
(* The Worker's executor and its session with the control plane, for TLC.   *)
(* They share no state that either module models, so a behaviour of this    *)
(* module is a behaviour of one of them: Init chooses which; the other      *)
(* keeps its initial state.                                                 *)
(***************************************************************************)
EXTENDS Worker, Naturals, FiniteSets

CONSTANT Cases   \* the cases to check: "contended", "lone", "executor", "session"

VARIABLE case

(* One Attempt alone.                                                       *)
One == {"a"}
OneMode == [a \in One |-> "fresh"]
OneLogical == [a \in One |-> "builder"]
OneOccurrence == [a \in One |-> 1]
OneSource == [a \in One |-> "none"]

(* A second Attempt that a human recovers from the first one.               *)
Two == {"a", "b"}
TwoMode == [a \in Two |-> IF a = "b" THEN "retained" ELSE "fresh"]
TwoLogical == [a \in Two |-> "builder"]
TwoOccurrence == [a \in Two |-> 1]
TwoSource == [a \in Two |-> IF a = "b" THEN "a" ELSE "none"]

(* Two Attempts that have nothing in common but their Worker.               *)
PairMode == [a \in Two |-> "fresh"]
PairLogical == [a \in Two |-> IF a = "b" THEN "reviewer" ELSE "builder"]
PairOccurrence == [a \in Two |-> IF a = "b" THEN 2 ELSE 1]
PairSource == [a \in Two |-> "none"]

AllFaults == {"backend", "observation", "prepare", "contract", "other"}

(* One gated Attempt whose harness sees native activity before the prompt,  *)
(* cancelled, authorized again or retired for recovery.                     *)
Contended == INSTANCE DispatchExecutor WITH
    Action <- One, NoAction <- "none", Lineage <- {1},
    Mode <- OneMode, Logical <- OneLogical, Occurrence <- OneOccurrence, Source <- OneSource,
    Gated <- One, Observes <- TRUE,
    Commands <- {"cancel", "retire", "replay"}, Faults <- {"observation"},
    MaxCrashes <- 1, MaxDisconnects <- 0, MaxRecoveries <- 1

(* One gated Attempt under every fault, cancelled, over a crash and a lost  *)
(* connection.                                                              *)
Lone == INSTANCE DispatchExecutor WITH
    Action <- One, NoAction <- "none", Lineage <- {1},
    Mode <- OneMode, Logical <- OneLogical, Occurrence <- OneOccurrence, Source <- OneSource,
    Gated <- One, Observes <- FALSE, Commands <- {"cancel"}, Faults <- AllFaults,
    MaxCrashes <- 1, MaxDisconnects <- 1, MaxRecoveries <- 1

executor == <<reg, pc, recovery, sent, stopped, native, result, prompts, server, online,
              crashes, disconnects>>
session == <<generation, active, registered, reply, registration, publication,
             readyGeneration, dirty, heartbeat, claims, turn, messages, control, stopping,
             storesClosed>>
vars == <<case, executor, session>>

ASSUME WorkerAssumption ==
    /\ Contended!RegistryAssumption /\ Contended!ExecutorAssumption
    /\ Lone!RegistryAssumption /\ Lone!ExecutorAssumption
    /\ Executor!RegistryAssumption /\ Executor!ExecutorAssumption
    /\ Session!BoundsAssumption

Init ==
    /\ case \in Cases
    /\ CASE case = "contended" -> Contended!Init
         [] case = "lone" -> Lone!Init
         [] OTHER -> Executor!Init
    /\ Session!Init

Next ==
    \/ case = "contended" /\ Contended!Next /\ UNCHANGED <<case, session>>
    \/ case = "lone" /\ Lone!Next /\ UNCHANGED <<case, session>>
    \/ case = "executor" /\ Executor!Next /\ UNCHANGED <<case, session>>
    \/ case = "session" /\ Session!Next /\ UNCHANGED <<case, executor>>

Spec == Init /\ [][Next]_vars

(* The fairness of the executors and of the session, each while it is the   *)
(* case.  That of an executor is weaker than DispatchExecutor.Fairness: an  *)
(* Attempt that could go on is not left alone for ever while the Worker     *)
(* does not reconcile either; which of its threads goes on is left open.    *)
Executes(name, A) == case = name /\ A /\ UNCHANGED <<case, session>>
Serves(A) == case = "session" /\ A /\ UNCHANGED <<case, executor>>

LoneWorks ==
    \/ Lone!Execution("a") \/ Lone!Handlers("a") \/ Lone!Reconcile
    \/ \E t \in Lone!Thread : Lone!Report("a", t) \/ Lone!Acknowledged("a", t)
Works(a) ==
    \/ Executor!Execution(a) \/ Executor!Handlers(a) \/ Executor!Reconcile
    \/ \E t \in Executor!Thread : Executor!Report(a, t) \/ Executor!Acknowledged(a, t)

Fairness ==
    /\ WF_vars(Executes("lone", LoneWorks))
    /\ \A a \in Action : WF_vars(Executes("executor", Works(a)))
    /\ WF_vars(Serves(Session!Connect))
    /\ WF_vars(Serves(Session!CloseStores))
    /\ WF_vars(Serves(Session!TurnEnds))
    /\ \A g \in Session!Generations :
          WF_vars(Serves(Session!Resume(g))) /\ WF_vars(Serves(Session!Answer(g)))

FairSpec == Spec /\ Fairness

(* A terminal fact of the Worker is acknowledged in the end, unless the      *)
(* Worker holds an outcome that the server contradicts                       *)
(* (DispatchExecutor.AcknowledgedUnlessContradicted).                        *)
AcknowledgedUnlessContradicted == Executor!AcknowledgedUnlessContradicted

(* One refused fact does not keep the others from being acknowledged         *)
(* (DispatchExecutor.AcceptableFactsAreAcknowledged).                        *)
AcceptableFactsAreAcknowledged == Executor!AcceptableFactsAreAcknowledged

(* The Worker recovers its session from every loss                           *)
(* (WorkerSession.EventuallyReady, while the session is the case).           *)
EventuallyReady == <>[](case = "session" => stopping \/ Session!controlPlaneReady)
=============================================================================
