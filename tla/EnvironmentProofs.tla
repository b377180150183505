-------------------------- MODULE EnvironmentProofs --------------------------
(***************************************************************************)
(* Theorems about the execution environment: a sandbox that exists has its  *)
(* record (SbxEnvironment), and what a caller is told of its writes to a     *)
(* process, and of the end of its output, is true (StreamedProcess).        *)
(***************************************************************************)
EXTENDS Environment, Integers, Sequences, TLAPS

-----------------------------------------------------------------------------
(* The sandbox of an owner (SbxEnvironment).                                *)

(* The phases of a process that creates the sandbox, and those of one that  *)
(* works on a sandbox that is bound.                                        *)
Creating == {"find", "create", "initialize", "initialize_created", "undo"}
Working == {"exact", "start", "verify", "observe", "fence", "native", "project", "survey",
            "locate", "rm", "absent"}

Operation == [ph : Creating \cup Working \cup {"wait"}, rec : Nat, env : Nat, stop : Nat]

Box == [id : Nat, rec : Nat, status : {"running", "stopping", "stopped"}]

SandboxType ==
    /\ nrec \in Nat /\ nbox \in Nat /\ run \in [Workers -> Nat]
    /\ envRow = None \/ (envRow \in Sandbox!Row /\ envRow.rec \in 1 .. nrec)
    /\ box = None \/ box \in Box
    /\ lifecycle \in [Workers -> Operation \cup {None}]
    /\ \A w \in Workers : lifecycle[w] # None => lifecycle[w].rec \in 1 .. nrec

(* One process creates the sandbox of a record: the one whose token the     *)
(* record has, and until it binds the sandbox nobody else works on it.      *)
CreatorHasTheToken ==
    \A w \in Workers : lifecycle[w] # None /\ lifecycle[w].ph \in Creating =>
        /\ envRow # None /\ envRow.rec = lifecycle[w].rec /\ envRow.env = 0
        /\ envRow.token = <<w, run[w]>>

(* Who works on a sandbox of a record found it bound.                       *)
WorkersFoundIt ==
    \A w \in Workers :
        lifecycle[w] # None /\ lifecycle[w].ph \in Working
          /\ envRow # None /\ envRow.rec = lifecycle[w].rec => envRow.env # 0

OperationsFit == SandboxType /\ CreatorHasTheToken /\ WorkersFoundIt

SandboxInv == OperationsFit /\ Sandbox!NoOrphanedSandbox

(* No record and no sandbox exist.                                          *)
LEMMA SandboxInit == Sandbox!Init => SandboxInv
  BY DEF Sandbox!Init, SandboxInv, OperationsFit, SandboxType, CreatorHasTheToken,
         WorkersFoundIt, Sandbox!NoOrphanedSandbox

(* What the writers of stop events and states leave alone.                  *)
Same(r, s) ==
    /\ r \in Sandbox!Row /\ s \in Sandbox!Row
    /\ s.rec = r.rec /\ s.env = r.env /\ s.token = r.token

(* An event of a stop attempt is appended.                                  *)
LEMMA EventAppended ==
    ASSUME NEW r \in Sandbox!Row, NEW id \in Nat, NEW type \in Sandbox!StopEvent
    PROVE  Same(r, Sandbox!appendStopEvent(r, id, type))
<1>1. CASE id = 0
  BY <1>1 DEF Same, Sandbox!appendStopEvent
<1>2. CASE id # 0
  <2> DEFINE stops == [r.stops EXCEPT ![id] = @ \cup {type}]
  <2>1. r.stops \in Seq(SUBSET Sandbox!StopEvent)
    BY DEF Sandbox!Row
  <2>2. stops \in Seq(SUBSET Sandbox!StopEvent)
    <3>1. PICK n \in Nat : r.stops \in [1 .. n -> SUBSET Sandbox!StopEvent]
      BY <2>1
    <3>2. stops \in [1 .. n -> SUBSET Sandbox!StopEvent]
      BY <3>1
    <3> QED
      BY <3>2
  <2>3. Sandbox!appendStopEvent(r, id, type) = [r EXCEPT !.stops = stops, !.latest = id]
    BY <1>2 DEF Sandbox!appendStopEvent, Sandbox!Row
  <2> HIDE DEF stops
  <2> QED
    BY <2>2, <2>3 DEF Same, Sandbox!Row
<1> QED
  BY <1>1, <1>2

(* The outcome of a stop attempt that nobody recorded becomes ambiguous.    *)
LEMMA StopReconciled ==
    ASSUME NEW r \in Sandbox!Row, NEW rec
    PROVE  Same(r, Sandbox!reconcileStopRecord(r, rec))
<1>1. r.latest \in Nat /\ "ambiguous" \in Sandbox!StopEvent
  BY DEF Sandbox!Row, Sandbox!StopEvent
<1> QED
  BY <1>1, EventAppended DEF Same, Sandbox!reconcileStopRecord

(* A stop attempt begins.                                                   *)
LEMMA StopBegun ==
    ASSUME NEW r \in Sandbox!Row PROVE Same(r, Sandbox!beginStop(r))
<1> DEFINE stops == Append(r.stops, {})
           latest == Len(r.stops) + 1
<1>1. stops \in Seq(SUBSET Sandbox!StopEvent) /\ latest \in Nat
  BY DEF Sandbox!Row
<1>2. [r EXCEPT !.stops = Append(@, {}), !.latest = Len(r.stops) + 1]
        = [r EXCEPT !.stops = stops, !.latest = latest]
  BY DEF Sandbox!Row
<1> HIDE DEF stops, latest
<1> QED
  BY <1>1, <1>2 DEF Same, Sandbox!beginStop, Sandbox!Row, stops, latest

(* A later stop gets a new identity.                                        *)
LEMMA CycleReopened ==
    ASSUME NEW r \in Sandbox!Row PROVE Same(r, Sandbox!reopenStopCycle(r))
<1>1. r.latest \in Nat /\ "reopened" \in Sandbox!StopEvent
  BY DEF Sandbox!Row, Sandbox!StopEvent
<1> QED
  BY <1>1, EventAppended DEF Same, Sandbox!reopenStopCycle

(* A state is written.                                                      *)
LEMMA StateMarked ==
    ASSUME NEW r \in Sandbox!Row, NEW s \in {"creating", "running", "unusable"}
    PROVE  Same(r, [r EXCEPT !.state = s])
  BY DEF Same, Sandbox!Row

(* What one writer and then another leave alone, both leave alone.          *)
LEMMA SameTwice == ASSUME NEW q, NEW r, NEW s, Same(q, r), Same(r, s) PROVE Same(q, s)
  BY DEF Same

(* What an operation may be in next.                                        *)
Fits(w, next) ==
    \/ next = None
    \/ /\ next \in Operation /\ next.rec \in 1 .. nrec
       /\ next.ph \in Creating =>
            /\ envRow # None /\ envRow.rec = next.rec /\ envRow.env = 0
            /\ envRow.token = <<w, run[w]>>
       /\ next.ph \in Working /\ envRow # None /\ envRow.rec = next.rec => envRow.env # 0

(* The record keeps its identity.                                           *)
RowKept == envRow' = envRow \/ Same(envRow, envRow')

(* An operation moves on and leaves the identity of the record alone.       *)
LEMMA OperationMoves ==
    ASSUME Sandbox!SandboxAssumption, OperationsFit, NEW w \in Workers, NEW next, Fits(w, next),
           lifecycle' = [lifecycle EXCEPT ![w] = next], RowKept, UNCHANGED <<nrec, run>>,
           nbox' \in Nat, box' = None \/ box' \in Box
    PROVE  OperationsFit'
<1> USE DEF OperationsFit, SandboxType, RowKept, Same, Sandbox!SandboxAssumption
<1>1. SandboxType'
  <2>1. lifecycle' \in [Workers -> Operation \cup {None}]
    BY DEF Fits
  <2>2. \A x \in Workers : lifecycle'[x] # None => lifecycle'[x].rec \in 1 .. nrec
    BY DEF Fits
  <2>3. envRow' = None \/ (envRow' \in Sandbox!Row /\ envRow'.rec \in 1 .. nrec)
    OBVIOUS
  <2> QED
    BY <2>1, <2>2, <2>3
<1>2. CreatorHasTheToken'
  BY DEF CreatorHasTheToken, Fits
<1>3. WorkersFoundIt'
  BY DEF WorkersFoundIt, Fits
<1> QED
  BY <1>1, <1>2, <1>3

(* The sandbox keeps its incarnation, is gone or somebody else's, or is the *)
(* one of the record.                                                       *)
BoxKept ==
    \/ box' = box
    \/ box' = None
    \/ box' \in Box /\ box'.rec = 0
    \/ box # None /\ box' \in Box /\ box'.rec = box.rec
    \/ envRow # None /\ box' \in Box /\ box'.rec = envRow.rec

(* An operation moves on, whatever happens to the sandbox meanwhile.        *)
LEMMA SandboxMoves ==
    ASSUME Sandbox!SandboxAssumption, SandboxInv, NEW w \in Workers, NEW next, Fits(w, next),
           lifecycle' = [lifecycle EXCEPT ![w] = next], RowKept, UNCHANGED <<nrec, run>>,
           nbox' \in Nat, BoxKept
    PROVE  SandboxInv'
<1>1. box' = None \/ box' \in Box
  BY DEF SandboxInv, OperationsFit, SandboxType, BoxKept
<1>2. OperationsFit'
  BY <1>1, OperationMoves DEF SandboxInv
<1>3. Sandbox!NoOrphanedSandbox'
  BY DEF SandboxInv, Sandbox!NoOrphanedSandbox, Sandbox!IsCurrent, BoxKept, RowKept, Same,
         Sandbox!SandboxAssumption
<1> QED
  BY <1>2, <1>3 DEF SandboxInv

(* No operation moves.                                                      *)
LEMMA SandboxIdles ==
    ASSUME Sandbox!SandboxAssumption, SandboxInv, UNCHANGED <<lifecycle, nrec, run>>, RowKept,
           nbox' \in Nat, BoxKept
    PROVE  SandboxInv'
<1> USE DEF SandboxInv, OperationsFit, SandboxType, RowKept, Same, Sandbox!SandboxAssumption
<1>1. SandboxType'
  BY DEF BoxKept
<1>2. CreatorHasTheToken' /\ WorkersFoundIt'
  BY DEF CreatorHasTheToken, WorkersFoundIt
<1>3. Sandbox!NoOrphanedSandbox'
  BY DEF Sandbox!NoOrphanedSandbox, Sandbox!IsCurrent, BoxKept
<1> QED
  BY <1>1, <1>2, <1>3

(* The phases of an operation.                                              *)
LEMMA PhaseChanges ==
    ASSUME SandboxInv, NEW w \in Workers, lifecycle[w] # None,
           NEW ph \in Creating \cup Working,
           ph \in Creating => lifecycle[w].ph \in Creating,
           ph \in Working => lifecycle[w].ph \in Working
    PROVE  Fits(w, [lifecycle[w] EXCEPT !.ph = ph])
<1>1. lifecycle[w] \in Operation /\ lifecycle[w].rec \in 1 .. nrec
  BY DEF SandboxInv, OperationsFit, SandboxType
<1>2. /\ [lifecycle[w] EXCEPT !.ph = ph] \in Operation
      /\ [lifecycle[w] EXCEPT !.ph = ph].rec = lifecycle[w].rec
      /\ [lifecycle[w] EXCEPT !.ph = ph].ph = ph
  BY <1>1 DEF Operation
<1>3. Creating \cap Working = {}
  BY DEF Creating, Working
<1> DEFINE next == [lifecycle[w] EXCEPT !.ph = ph]
<1> HIDE DEF next
<1>4. next \in Operation /\ next.rec = lifecycle[w].rec /\ next.ph = ph
  BY <1>2 DEF next
<1>5. Fits(w, next)
  BY <1>1, <1>3, <1>4 DEF Fits, SandboxInv, OperationsFit, CreatorHasTheToken, WorkersFoundIt
<1> QED
  BY <1>5 DEF next

(* An operation on the bound sandbox of the record begins.                  *)
LEMMA OperationBegins ==
    ASSUME SandboxInv, NEW w \in Workers, envRow # None, envRow.env # 0, NEW ph \in Working
    PROVE  Fits(w, [ph |-> ph, rec |-> envRow.rec, env |-> envRow.env, stop |-> 0])
<1>1. envRow.rec \in 1 .. nrec /\ envRow.env \in Nat
  BY DEF SandboxInv, OperationsFit, SandboxType, Sandbox!Row
<1>2. ph \notin Creating
  BY DEF Creating, Working
<1> QED
  BY <1>1, <1>2 DEF Fits, Operation, SandboxInv, OperationsFit, SandboxType

(* Writing a state to the record of an operation.                           *)
LEMMA MarkKeeps ==
    ASSUME SandboxInv, NEW rec, NEW s \in {"creating", "running", "unusable"},
           Sandbox!markState(rec, s)
    PROVE  RowKept
  BY StateMarked DEF SandboxInv, OperationsFit, SandboxType, Sandbox!markState, RowKept,
                     Sandbox!IsCurrent

(* The sandbox is observed at the end of a stop.                            *)
LEMMA ProjectionKeeps ==
    ASSUME SandboxInv, NEW rec, NEW seen, NEW attempted \in BOOLEAN,
           Sandbox!projectStopObservation(rec, seen, attempted)
    PROVE  RowKept
<1> DEFINE state == IF seen = "exact" /\ box.status = "running" THEN "running" ELSE "unusable"
           r == [envRow EXCEPT !.state = state]
<1>1. CASE Sandbox!IsCurrent(rec)
  <2>1. envRow \in Sandbox!Row /\ Same(envRow, r)
    BY <1>1, StateMarked DEF SandboxInv, OperationsFit, SandboxType, Sandbox!IsCurrent
  <2>2. r.latest \in Nat /\ r \in Sandbox!Row
    BY <2>1 DEF Same, Sandbox!Row
  <2>3. envRow' = r \/ envRow' = Sandbox!appendStopEvent(r, r.latest, "confirmed")
    BY <1>1 DEF Sandbox!projectStopObservation
  <2> HIDE DEF r
  <2>4. Same(r, Sandbox!appendStopEvent(r, r.latest, "confirmed"))
    BY <2>2, EventAppended DEF Sandbox!StopEvent
  <2> QED
    BY <2>1, <2>3, <2>4, SameTwice DEF RowKept
<1>2. CASE ~Sandbox!IsCurrent(rec)
  BY <1>2 DEF Sandbox!projectStopObservation, RowKept
<1> QED
  BY <1>1, <1>2

(* A stop that was asked for before is taken up.                            *)
LEMMA TakingUpKeeps ==
    ASSUME SandboxInv, envRow # None, NEW r, r = envRow \/ Same(envRow, r)
    PROVE  /\ Same(envRow, r) /\ r \in Sandbox!Row
           /\ \A rec : Same(envRow, Sandbox!reconcileStopRecord(r, rec))
<1>1. Same(envRow, r) /\ r \in Sandbox!Row
  BY DEF SandboxInv, OperationsFit, SandboxType, Same
<1> QED
  BY <1>1, StopReconciled, SameTwice

(* A process takes the creation over: no other one is creating.             *)
LEMMA CreationClaimed ==
    ASSUME Sandbox!SandboxAssumption, SandboxInv, NEW w \in Workers,
           NEW r \in Sandbox!Row, r.env = 0, NEW next \in Operation,
           \/ envRow = None /\ nrec' = nrec + 1 /\ r.rec = nrec'
           \/ envRow # None /\ nrec' = nrec /\ r = envRow,
           Sandbox!acquireCreationOwnership(w, r),
           next.ph = "find", next.rec = r.rec, lifecycle' = [lifecycle EXCEPT ![w] = next],
           envRow' = [r EXCEPT !.token = <<w, run[w]>>], UNCHANGED <<box, nbox, run>>
    PROVE  SandboxInv'
<1> USE DEF SandboxInv, OperationsFit, SandboxType
<1>1. /\ envRow' \in Sandbox!Row /\ envRow' # None /\ envRow'.rec = r.rec
      /\ envRow'.env = 0 /\ envRow'.token = <<w, run[w]>>
  <2>1. <<w, run[w]>> \in Workers \X Nat
    OBVIOUS
  <2> QED
    BY <2>1 DEF Sandbox!Row, Sandbox!SandboxAssumption
<1>2. r.rec \in 1 .. nrec' /\ nrec' \in Nat /\ \A n \in 1 .. nrec : n \in 1 .. nrec'
  OBVIOUS
<1>3. \A x \in Workers : x # w =>
        ~(lifecycle[x] # None /\ lifecycle[x].ph \in Creating)
  <2> SUFFICES ASSUME NEW x \in Workers, x # w, lifecycle[x] # None,
                      lifecycle[x].ph \in Creating
               PROVE  FALSE
    OBVIOUS
  <2>1. envRow # None /\ envRow.token = <<x, run[x]>> /\ r = envRow
    BY DEF CreatorHasTheToken
  <2> QED
    BY <2>1 DEF Sandbox!acquireCreationOwnership
<1>4. SandboxType'
  <2>1. lifecycle' \in [Workers -> Operation \cup {None}]
    OBVIOUS
  <2>2. \A x \in Workers : lifecycle'[x] # None => lifecycle'[x].rec \in 1 .. nrec'
    BY <1>2
  <2> QED
    BY <1>1, <1>2, <2>1, <2>2
<1>5. CreatorHasTheToken'
  BY <1>1, <1>3 DEF CreatorHasTheToken
<1>6. WorkersFoundIt'
  <2> SUFFICES ASSUME NEW x \in Workers, lifecycle'[x] # None, lifecycle'[x].ph \in Working,
                      envRow'.rec = lifecycle'[x].rec
               PROVE  FALSE
    BY DEF WorkersFoundIt
  <2>1. "find" \notin Working
    BY DEF Working
  <2>2. x # w /\ lifecycle[x] = lifecycle'[x] /\ lifecycle[x].rec \in 1 .. nrec
    BY <2>1
  <2>3. envRow # None /\ envRow.rec = lifecycle[x].rec /\ envRow.env = 0
    BY <1>1, <2>2
  <2> QED
    BY <2>2, <2>3 DEF WorkersFoundIt
<1>7. Sandbox!NoOrphanedSandbox'
  BY <1>1 DEF Sandbox!NoOrphanedSandbox, Sandbox!IsCurrent
<1> QED
  BY <1>4, <1>5, <1>6, <1>7

(* The creator is the only one that works on its record.                    *)
LEMMA CreatorIsAlone ==
    ASSUME SandboxInv, NEW w \in Workers, lifecycle[w] # None, lifecycle[w].ph \in Creating
    PROVE  /\ envRow # None /\ envRow.rec = lifecycle[w].rec /\ envRow.env = 0
           /\ \A x \in Workers : lifecycle[x] # None /\ lifecycle[x].ph \in Creating => x = w
           /\ \A x \in Workers : lifecycle[x] # None /\ lifecycle[x].ph \in Working =>
                 lifecycle[x].rec # envRow.rec
<1>1. \A x \in Workers : lifecycle[x] # None /\ lifecycle[x].ph \in Creating =>
        envRow.token = <<x, run[x]>> /\ envRow.token = <<w, run[w]>>
  BY DEF SandboxInv, OperationsFit, CreatorHasTheToken
<1>2. \A x \in Workers : lifecycle[x] # None /\ lifecycle[x].ph \in Creating => x = w
  BY <1>1
<1> QED
  BY <1>2 DEF SandboxInv, OperationsFit, CreatorHasTheToken, WorkersFoundIt

(* Creation: claiming the record, waiting for its creator, the native       *)
(* create, the binding of what was created, and undoing it.                 *)
LEMMA SandboxCreates ==
    ASSUME Sandbox!SandboxAssumption, SandboxInv, NEW w \in Workers,
           \/ Sandbox!ensure(w) \/ Sandbox!waitForPhysicalBinding(w)
           \/ Sandbox!findUnboundSandbox(w) \/ Sandbox!create(w) \/ Sandbox!initialize(w)
           \/ Sandbox!undoCreation(w)
    PROVE  SandboxInv'
<1> USE DEF Sandbox!physical, Sandbox!leases, Sandbox!Do, Sandbox!Goto, Sandbox!Throw,
            Sandbox!At, Sandbox!IsCurrent
<1>0. /\ nbox \in Nat /\ nrec \in Nat /\ run \in [Workers -> Nat] /\ Fits(w, None)
      /\ envRow # None => envRow \in Sandbox!Row /\ envRow.rec \in 1 .. nrec
      /\ lifecycle[w] # None => lifecycle[w] \in Operation /\ lifecycle[w].rec \in 1 .. nrec
      /\ box = None \/ box \in Box
  BY DEF SandboxInv, OperationsFit, SandboxType, Fits
<1>1. CASE Sandbox!ensure(w)
  <2> DEFINE r == Sandbox!claimCreation(w)
  <2>1. /\ r \in Sandbox!Row
        /\ \/ envRow = None /\ nrec' = nrec + 1 /\ r.rec = nrec' /\ r.env = 0
              /\ Sandbox!acquireCreationOwnership(w, r)
           \/ envRow # None /\ nrec' = nrec /\ r = envRow
    <3>1. <<w, run[w]>> \in Workers \X Nat /\ <<>> \in Seq(SUBSET Sandbox!StopEvent)
      BY <1>0
    <3> QED
      BY <1>0, <1>1, <3>1 DEF Sandbox!ensure, Sandbox!claimCreation, Sandbox!Row,
                              Sandbox!acquireCreationOwnership
  <2>2. UNCHANGED <<box, nbox, run>> /\ BoxKept
    BY <1>1 DEF Sandbox!ensure, BoxKept
  <2> HIDE DEF r
  <2>3. CASE /\ r.env # 0 /\ envRow' = r
             /\ Sandbox!Do(w, [ph |-> "exact", rec |-> r.rec, env |-> r.env, stop |-> 0])
    <3>1. envRow # None /\ r = envRow /\ nrec' = nrec /\ RowKept
      BY <2>1, <2>3 DEF RowKept
    <3>2. Fits(w, [ph |-> "exact", rec |-> r.rec, env |-> r.env, stop |-> 0])
      BY <2>3, <3>1, OperationBegins DEF Working
    <3> QED
      BY <1>0, <2>2, <2>3, <3>1, <3>2, SandboxMoves
  <2>4. CASE /\ r.env = 0 /\ Sandbox!acquireCreationOwnership(w, r)
             /\ envRow' = [r EXCEPT !.token = <<w, run[w]>>]
             /\ Sandbox!Do(w, [ph |-> "find", rec |-> r.rec, env |-> 0, stop |-> 0])
    <3>1. [ph |-> "find", rec |-> r.rec, env |-> 0, stop |-> 0] \in Operation
      BY <2>1 DEF Operation, Creating, Sandbox!Row
    <3> QED
      BY <2>1, <2>2, <2>4, <3>1, CreationClaimed
  <2>5. CASE /\ r.env = 0 /\ ~Sandbox!acquireCreationOwnership(w, r) /\ envRow' = r
             /\ Sandbox!Do(w, [ph |-> "wait", rec |-> r.rec, env |-> 0, stop |-> 0])
    <3>1. envRow # None /\ r = envRow /\ nrec' = nrec /\ RowKept
      BY <2>1, <2>5 DEF RowKept
    <3>2. Fits(w, [ph |-> "wait", rec |-> r.rec, env |-> 0, stop |-> 0])
      BY <1>0, <3>1 DEF Fits, Operation, Creating, Working, Sandbox!Row
    <3> QED
      BY <1>0, <2>2, <2>5, <3>1, <3>2, SandboxMoves
  <2> QED
    BY <1>1, <2>3, <2>4, <2>5 DEF Sandbox!ensure, r
<1>2. CASE Sandbox!waitForPhysicalBinding(w)
  <2>1. lifecycle[w] # None /\ lifecycle[w].ph = "wait" /\ UNCHANGED <<nrec, box, nbox, run>>
    BY <1>2 DEF Sandbox!waitForPhysicalBinding
  <2>2. BoxKept /\ (envRow' = envRow => RowKept)
    BY <2>1 DEF BoxKept, RowKept
  <2>3. CASE /\ envRow # None /\ envRow.rec = lifecycle[w].rec /\ envRow.env # 0
             /\ Sandbox!Do(w, [lifecycle[w] EXCEPT !.ph = "exact", !.env = envRow.env])
             /\ UNCHANGED envRow
    <3> DEFINE next == [lifecycle[w] EXCEPT !.ph = "exact", !.env = envRow.env]
    <3>1. envRow.env \in Nat /\ "exact" \in Working
      BY <1>0, <2>3 DEF Sandbox!Row, Working
    <3>2. next \in Operation /\ next.ph = "exact" /\ next.rec = envRow.rec
      BY <1>0, <2>1, <2>3, <3>1 DEF Operation
    <3>3. lifecycle' = [lifecycle EXCEPT ![w] = next]
      BY <2>3
    <3> HIDE DEF next
    <3>4. Fits(w, next)
      BY <1>0, <2>3, <3>2 DEF Fits, Creating
    <3> QED
      BY <1>0, <2>1, <2>2, <2>3, <3>3, <3>4, SandboxMoves
  <2>4. CASE /\ envRow # None /\ envRow.rec = lifecycle[w].rec /\ envRow.env = 0
             /\ Sandbox!acquireCreationOwnership(w, envRow)
             /\ envRow' = [envRow EXCEPT !.token = <<w, run[w]>>] /\ Sandbox!Goto(w, "find")
    <3> DEFINE next == [lifecycle[w] EXCEPT !.ph = "find"]
    <3>1. next \in Operation /\ next.ph = "find" /\ next.rec = envRow.rec
      BY <1>0, <2>1, <2>4 DEF Operation, Creating
    <3>2. lifecycle' = [lifecycle EXCEPT ![w] = next]
      BY <2>4
    <3> HIDE DEF next
    <3> QED
      BY <1>0, <2>1, <2>4, <3>1, <3>2, CreationClaimed
  <2>5. CASE Sandbox!Throw(w) /\ UNCHANGED envRow
    BY <1>0, <2>1, <2>2, <2>5, SandboxMoves
  <2> QED
    BY <1>2, <2>3, <2>4, <2>5 DEF Sandbox!waitForPhysicalBinding
<1>3. CASE Sandbox!findUnboundSandbox(w)
  <2>1. UNCHANGED <<envRow, nrec, box, nbox, run>> /\ BoxKept /\ RowKept
    BY <1>3 DEF Sandbox!findUnboundSandbox, BoxKept, RowKept
  <2>2. PICK next : Fits(w, next) /\ lifecycle' = [lifecycle EXCEPT ![w] = next]
    <3>1. lifecycle[w] # None /\ lifecycle[w].ph = "find"
      BY <1>3 DEF Sandbox!findUnboundSandbox
    <3>2. /\ Fits(w, [lifecycle[w] EXCEPT !.ph = "create"])
          /\ Fits(w, [lifecycle[w] EXCEPT !.ph = "initialize"])
      BY <3>1, PhaseChanges DEF Creating, Working
    <3> QED
      BY <1>0, <1>3, <3>2 DEF Sandbox!findUnboundSandbox
  <2> QED
    BY <1>0, <2>1, <2>2, SandboxMoves
<1>4. CASE Sandbox!create(w)
  <2>1. /\ lifecycle[w] # None /\ lifecycle[w].ph = "create" /\ "create" \in Creating
        /\ UNCHANGED <<nrec, run>>
    BY <1>4 DEF Sandbox!create, Creating
  <2>2. envRow # None /\ envRow.rec = lifecycle[w].rec
    BY <2>1, CreatorIsAlone
  <2>3. Fits(w, [lifecycle[w] EXCEPT !.ph = "initialize_created"])
    BY <2>1, PhaseChanges DEF Creating, Working
  <2>4. CASE /\ nbox' = nbox + 1 /\ UNCHANGED envRow
             /\ box' = [id |-> nbox + 1, rec |-> lifecycle[w].rec, status |-> "running"]
             /\ Sandbox!Goto(w, "initialize_created")
    <3>1. BoxKept /\ RowKept /\ nbox' \in Nat
      BY <1>0, <2>1, <2>2, <2>4 DEF BoxKept, RowKept, Box, Operation
    <3> QED
      BY <2>1, <2>3, <2>4, <3>1, SandboxMoves
  <2>5. CASE UNCHANGED <<envRow, box, nbox>> /\ Sandbox!Goto(w, "initialize_created")
    <3>1. BoxKept /\ RowKept /\ nbox' \in Nat
      BY <1>0, <2>5 DEF BoxKept, RowKept
    <3> QED
      BY <2>1, <2>3, <2>5, <3>1, SandboxMoves
  <2>6. CASE /\ Sandbox!markState(lifecycle[w].rec, "unusable") /\ Sandbox!Throw(w)
             /\ UNCHANGED <<box, nbox>>
    <3>1. BoxKept /\ RowKept /\ nbox' \in Nat
      BY <1>0, <2>6, MarkKeeps DEF BoxKept
    <3> QED
      BY <1>0, <2>1, <2>6, <3>1, SandboxMoves
  <2> QED
    BY <1>4, <2>4, <2>5, <2>6 DEF Sandbox!create
<1>5. CASE Sandbox!initialize(w)
  <2>1. /\ lifecycle[w] # None /\ lifecycle[w].ph \in {"initialize", "initialize_created"}
        /\ lifecycle[w].ph \in Creating /\ UNCHANGED <<nrec, box, nbox, run>>
    BY <1>5 DEF Sandbox!initialize, Creating
  <2>2. CASE /\ Sandbox!verifyCreationIdentity(lifecycle[w].rec)
             /\ envRow' = Sandbox!bindPhysical(envRow, box.id) /\ Sandbox!Throw(w)
    <3>1. /\ envRow # None /\ envRow \in Sandbox!Row /\ envRow.rec \in 1 .. nrec
          /\ box.id \in Nat
      BY <1>0, <2>1, <2>2, CreatorIsAlone DEF Sandbox!verifyCreationIdentity, Box
    <3>2. /\ envRow' \in Sandbox!Row /\ envRow'.rec = envRow.rec
      BY <2>2, <3>1 DEF Sandbox!bindPhysical, Sandbox!Row
    <3>3. SandboxType'
      <4>1. lifecycle' \in [Workers -> Operation \cup {None}]
        BY <2>2 DEF SandboxInv, OperationsFit, SandboxType
      <4> QED
        BY <2>1, <2>2, <3>1, <3>2, <4>1 DEF SandboxInv, OperationsFit, SandboxType
    <3>4. \A x \in Workers : lifecycle'[x] # None =>
            lifecycle'[x] = lifecycle[x] /\ x # w /\ lifecycle[x].ph \notin Creating
            /\ (lifecycle[x].ph \in Working => lifecycle[x].rec # envRow.rec)
      BY <2>1, <2>2, CreatorIsAlone DEF SandboxInv, OperationsFit, SandboxType
    <3>5. CreatorHasTheToken' /\ WorkersFoundIt'
      BY <3>2, <3>4 DEF CreatorHasTheToken, WorkersFoundIt
    <3>6. Sandbox!NoOrphanedSandbox'
      BY <2>1, <3>1, <3>2
      DEF SandboxInv, Sandbox!NoOrphanedSandbox, Sandbox!SandboxAssumption
    <3> QED
      BY <3>3, <3>5, <3>6 DEF SandboxInv, OperationsFit
  <2>3. CASE /\ Sandbox!markState(lifecycle[w].rec, "unusable")
             /\ Sandbox!Goto(w, "undo") \/ Sandbox!Throw(w)
    <3>1. BoxKept /\ RowKept /\ nbox' \in Nat
      BY <1>0, <2>1, <2>3, MarkKeeps DEF BoxKept
    <3>2. Fits(w, [lifecycle[w] EXCEPT !.ph = "undo"])
      BY <2>1, PhaseChanges DEF Creating, Working
    <3>3. CASE Sandbox!Goto(w, "undo")
      BY <2>1, <3>1, <3>2, <3>3, SandboxMoves
    <3>4. CASE Sandbox!Throw(w)
      BY <1>0, <2>1, <3>1, <3>4, SandboxMoves
    <3> QED
      BY <2>3, <3>3, <3>4
  <2> QED
    BY <1>5, <2>2, <2>3 DEF Sandbox!initialize
<1>6. CASE Sandbox!undoCreation(w)
  <2>1. /\ lifecycle[w] # None /\ lifecycle[w].ph \in Creating /\ Sandbox!Throw(w)
        /\ UNCHANGED <<nrec, nbox, run>>
    BY <1>6 DEF Sandbox!undoCreation, Creating
  <2>2. CASE box' = None /\ Sandbox!retire(lifecycle[w].rec)
    <3>1. envRow' = None
      BY <2>1, <2>2, CreatorIsAlone DEF Sandbox!retire
    <3>2. \A x \in Workers : lifecycle'[x] # None =>
            lifecycle'[x] = lifecycle[x] /\ lifecycle[x].ph \notin Creating
      BY <2>1, CreatorIsAlone DEF SandboxInv, OperationsFit, SandboxType
    <3>3. lifecycle' \in [Workers -> Operation \cup {None}]
      BY <2>1 DEF SandboxInv, OperationsFit, SandboxType
    <3> QED
      BY <2>1, <2>2, <3>1, <3>2, <3>3
      DEF SandboxInv, OperationsFit, SandboxType, CreatorHasTheToken, WorkersFoundIt,
          Sandbox!NoOrphanedSandbox
  <2>3. CASE UNCHANGED <<box, envRow>>
    BY <1>0, <2>1, <2>3, SandboxMoves DEF BoxKept, RowKept
  <2> QED
    BY <1>6, <2>2, <2>3 DEF Sandbox!undoCreation
<1> QED
  BY <1>1, <1>2, <1>3, <1>4, <1>5, <1>6

(* The status of the sandbox changes.                                       *)
LEMMA StatusChanges ==
    ASSUME SandboxInv, box # None, NEW s \in {"running", "stopping", "stopped"}
    PROVE  /\ [box EXCEPT !.status = s] \in Box
           /\ [box EXCEPT !.status = s].rec = box.rec
  BY DEF SandboxInv, OperationsFit, SandboxType, Box

(* Running a command in a sandbox starts it.                                *)
LEMMA StartKeeps == ASSUME SandboxInv, box' = Sandbox!Started PROVE BoxKept
  BY StatusChanges DEF Sandbox!Started, BoxKept

(* The bound sandbox is used, looked at or begins to be stopped or removed. *)
LEMMA SandboxUsed ==
    ASSUME Sandbox!SandboxAssumption, SandboxInv, NEW w \in Workers,
           \/ Sandbox!recover(w) \/ Sandbox!requireExactSandbox(w)
           \/ Sandbox!startIfStopped(w) \/ Sandbox!verify(w) \/ Sandbox!remove(w)
           \/ Sandbox!locateForRemoval(w) \/ Sandbox!nativeRemove(w)
    PROVE  SandboxInv'
<1> USE DEF Sandbox!physical, Sandbox!leases, Sandbox!Do, Sandbox!Goto, Sandbox!Throw,
            Sandbox!At
<1>0. nbox \in Nat /\ Fits(w, None)
  BY DEF SandboxInv, OperationsFit, SandboxType, Fits
<1>1. CASE Sandbox!recover(w) \/ Sandbox!remove(w)
  <2>1. UNCHANGED <<envRow, nrec, box, nbox, run>> /\ envRow # None /\ envRow.env # 0
    BY <1>1 DEF Sandbox!recover, Sandbox!remove
  <2>2. PICK ph \in Working :
          lifecycle' = [lifecycle EXCEPT ![w] =
                          [ph |-> ph, rec |-> envRow.rec, env |-> envRow.env, stop |-> 0]]
    BY <1>1 DEF Sandbox!recover, Sandbox!remove, Working
  <2> QED
    BY <1>0, <2>1, <2>2, OperationBegins, SandboxMoves DEF BoxKept, RowKept
<1>2. ASSUME lifecycle[w] # None, lifecycle[w].ph \in Working, RowKept, BoxKept,
             UNCHANGED <<nrec, nbox, run>>,
             Sandbox!Throw(w) \/ \E ph \in Working : Sandbox!Goto(w, ph)
      PROVE  SandboxInv'
  <2>1. CASE Sandbox!Throw(w)
    BY <1>0, <1>2, <2>1, SandboxMoves
  <2>2. CASE \E ph \in Working : Sandbox!Goto(w, ph)
    <3>1. PICK ph \in Working : Sandbox!Goto(w, ph)
      BY <2>2
    <3>2. Fits(w, [lifecycle[w] EXCEPT !.ph = ph])
      <4>1. ph \notin Creating
        BY DEF Creating, Working
      <4> QED
        BY <1>2, <4>1, PhaseChanges
    <3> QED
      BY <1>0, <1>2, <3>1, <3>2, SandboxMoves
  <2> QED
    BY <1>2, <2>1, <2>2
<1>3. CASE Sandbox!requireExactSandbox(w)
  <2>1. /\ lifecycle[w] # None /\ lifecycle[w].ph \in Working
        /\ UNCHANGED <<nrec, nbox, run>> /\ BoxKept
    BY <1>3 DEF Sandbox!requireExactSandbox, Working, BoxKept
  <2>2. RowKept
    BY <1>3, MarkKeeps DEF Sandbox!requireExactSandbox, RowKept
  <2>3. Sandbox!Throw(w) \/ \E ph \in Working : Sandbox!Goto(w, ph)
    BY <1>3 DEF Sandbox!requireExactSandbox, Working
  <2> QED
    BY <1>2, <2>1, <2>2, <2>3
<1>4. CASE Sandbox!startIfStopped(w)
  <2>1. /\ lifecycle[w] # None /\ lifecycle[w].ph \in Working
        /\ UNCHANGED <<nrec, nbox, run>> /\ RowKept
        /\ Sandbox!Throw(w) \/ \E ph \in Working : Sandbox!Goto(w, ph)
    BY <1>4 DEF Sandbox!startIfStopped, Working, RowKept
  <2>2. BoxKept
    BY <1>4, StartKeeps DEF Sandbox!startIfStopped, BoxKept
  <2> QED
    BY <1>2, <2>1, <2>2
<1>5. CASE Sandbox!verify(w)
  <2>1. /\ lifecycle[w] # None /\ lifecycle[w].ph \in Working
        /\ UNCHANGED <<nrec, nbox, run>> /\ BoxKept /\ Sandbox!Throw(w)
    BY <1>5 DEF Sandbox!verify, Working, BoxKept
  <2>2. RowKept
    <3>1. CASE Sandbox!markState(lifecycle[w].rec, "unusable")
      BY <3>1, MarkKeeps
    <3>2. CASE /\ Sandbox!IsCurrent(lifecycle[w].rec)
               /\ envRow' = Sandbox!reopenStopCycle([envRow EXCEPT !.state = "running"])
      <4> DEFINE r == [envRow EXCEPT !.state = "running"]
      <4>1. Same(envRow, r)
        BY <3>2, StateMarked DEF SandboxInv, OperationsFit, SandboxType, Sandbox!IsCurrent
      <4> HIDE DEF r
      <4>2. Same(r, Sandbox!reopenStopCycle(r))
        BY <4>1, CycleReopened DEF Same
      <4> QED
        BY <3>2, <4>1, <4>2, SameTwice DEF RowKept, r
    <3> QED
      BY <1>5, <3>1, <3>2 DEF Sandbox!verify
  <2> QED
    BY <1>2, <2>1, <2>2
<1>6. CASE Sandbox!locateForRemoval(w) \/ Sandbox!nativeRemove(w)
  <2>1. /\ lifecycle[w] # None /\ lifecycle[w].ph \in Working
        /\ UNCHANGED <<nrec, nbox, run>> /\ RowKept /\ BoxKept
    BY <1>6 DEF Sandbox!locateForRemoval, Sandbox!nativeRemove, Working, RowKept, BoxKept
  <2>2. Sandbox!Throw(w) \/ \E ph \in Working : Sandbox!Goto(w, ph)
    BY <1>6 DEF Sandbox!locateForRemoval, Sandbox!nativeRemove, Working
  <2> QED
    BY <1>2, <2>1, <2>2
<1> QED
  BY <1>1, <1>3, <1>4, <1>5, <1>6

(* A stop: its intent, its claim, the native request, and what is seen      *)
(* afterwards.                                                              *)
LEMMA SandboxStops ==
    ASSUME Sandbox!SandboxAssumption, SandboxInv, NEW w \in Workers,
           \/ Sandbox!stop(w) \/ Sandbox!reconcileStop(w) \/ Sandbox!observeAndBegin(w)
           \/ Sandbox!claimStopInvocation(w) \/ Sandbox!nativeStop(w)
           \/ Sandbox!projectStop(w) \/ Sandbox!surveyUnstopped(w)
    PROVE  SandboxInv'
<1> USE DEF Sandbox!physical, Sandbox!leases, Sandbox!Do, Sandbox!Goto, Sandbox!Throw,
            Sandbox!At
<1>0. /\ nbox \in Nat /\ Fits(w, None)
      /\ envRow # None => envRow \in Sandbox!Row
      /\ lifecycle[w] # None => lifecycle[w] \in Operation
  BY DEF SandboxInv, OperationsFit, SandboxType, Fits
<1>1. CASE Sandbox!stop(w) \/ Sandbox!reconcileStop(w)
  <2>1. UNCHANGED <<nrec, box, nbox, run>> /\ envRow # None /\ envRow.env # 0
    BY <1>1 DEF Sandbox!stop, Sandbox!reconcileStop
  <2>2. PICK ph \in Working :
          lifecycle' = [lifecycle EXCEPT ![w] =
                          [ph |-> ph, rec |-> envRow.rec, env |-> envRow.env, stop |-> 0]]
    BY <1>1 DEF Sandbox!stop, Sandbox!reconcileStop, Working
  <2>3. RowKept
    BY <1>0, <1>1, <2>1, StopReconciled DEF Sandbox!stop, Sandbox!reconcileStop, RowKept
  <2> QED
    BY <1>0, <2>1, <2>2, <2>3, OperationBegins, SandboxMoves DEF BoxKept
<1>2. CASE Sandbox!observeAndBegin(w)
  <2>1. /\ lifecycle[w] # None /\ lifecycle[w].ph \in Working
        /\ UNCHANGED <<nrec, box, nbox, run>> /\ BoxKept
    BY <1>2 DEF Sandbox!observeAndBegin, Working, BoxKept
  <2> DEFINE begun == Sandbox!beginStop(envRow)
  <2>2. CASE /\ Sandbox!IsCurrent(lifecycle[w].rec)
             /\ envRow' = IF begun = envRow THEN Sandbox!reconcileStopRecord(envRow, envRow.rec)
                          ELSE begun
             /\ Sandbox!Do(w, [lifecycle[w] EXCEPT !.stop = begun.latest,
                                 !.ph = IF begun = envRow THEN "project" ELSE "fence"])
    <3>1. envRow \in Sandbox!Row /\ Same(envRow, begun)
      BY <1>0, <2>2, StopBegun DEF Sandbox!IsCurrent
    <3>2. begun.latest \in Nat
      BY <3>1 DEF Same, Sandbox!Row
    <3> DEFINE ph == IF begun = envRow THEN "project" ELSE "fence"
               next == [lifecycle[w] EXCEPT !.stop = begun.latest, !.ph = ph]
    <3>3. lifecycle' = [lifecycle EXCEPT ![w] = next]
      BY <2>2
    <3>4. RowKept
      BY <2>2, <3>1, StopReconciled DEF RowKept
    <3> HIDE DEF begun
    <3>5. ph \in Working /\ ph \notin Creating
      BY DEF Working, Creating
    <3> HIDE DEF ph
    <3>6. next \in Operation /\ next.ph = ph /\ next.rec = lifecycle[w].rec
      BY <1>0, <2>1, <3>2, <3>5 DEF Operation
    <3> HIDE DEF next
    <3>7. Fits(w, next)
      BY <2>1, <3>5, <3>6
      DEF Fits, SandboxInv, OperationsFit, SandboxType, WorkersFoundIt
    <3> QED
      BY <1>0, <2>1, <3>3, <3>4, <3>7, SandboxMoves
  <2>3. CASE /\ Sandbox!Throw(w)
             /\ \/ UNCHANGED envRow
                \/ \E seen : Sandbox!projectStopObservation(lifecycle[w].rec, seen, FALSE)
    <3>1. RowKept
      BY <2>3, ProjectionKeeps DEF RowKept
    <3> QED
      BY <1>0, <2>1, <2>3, <3>1, SandboxMoves
  <2> QED
    BY <1>2, <2>2, <2>3 DEF Sandbox!observeAndBegin
<1>3. ASSUME lifecycle[w] # None, lifecycle[w].ph \in Working, RowKept, BoxKept,
             UNCHANGED <<nrec, nbox, run>>,
             Sandbox!Throw(w) \/ Sandbox!Goto(w, "native") \/ Sandbox!Goto(w, "project")
      PROVE  SandboxInv'
  <2>1. \A ph \in {"native", "project"} : Fits(w, [lifecycle[w] EXCEPT !.ph = ph])
    <3>1. \A ph \in {"native", "project"} : ph \in Working /\ ph \notin Creating
      BY DEF Creating, Working
    <3> QED
      BY <1>3, <3>1, PhaseChanges
  <2> QED
    BY <1>0, <1>3, <2>1, SandboxMoves
<1>4. CASE Sandbox!claimStopInvocation(w)
  <2>1. /\ lifecycle[w] # None /\ lifecycle[w].ph \in Working
        /\ UNCHANGED <<nrec, box, nbox, run>> /\ BoxKept
        /\ Sandbox!Goto(w, "native") \/ Sandbox!Goto(w, "project")
    BY <1>4 DEF Sandbox!claimStopInvocation, Working, BoxKept
  <2> DEFINE id == lifecycle[w].stop
  <2>2. id \in Nat
    BY <1>0, <2>1 DEF Operation
  <2>3. RowKept
    <3>1. CASE ~Sandbox!IsCurrent(lifecycle[w].rec)
      BY <1>4, <3>1 DEF Sandbox!claimStopInvocation, RowKept
    <3>2. CASE Sandbox!IsCurrent(lifecycle[w].rec)
      <4>1. envRow \in Sandbox!Row /\ envRow # None
        BY <1>0, <3>2 DEF Sandbox!IsCurrent
      <4>2. \A type \in Sandbox!StopEvent :
              Same(envRow, Sandbox!appendStopEvent(envRow, id, type))
        BY <2>2, <4>1, EventAppended
      <4>3. \A type \in Sandbox!StopEvent :
              LET r == Sandbox!appendStopEvent(envRow, id, type)
              IN Same(envRow, Sandbox!reconcileStopRecord(r, envRow.rec))
        BY <4>1, <4>2, TakingUpKeeps
      <4>4. \E type \in Sandbox!StopEvent :
              LET r == Sandbox!appendStopEvent(envRow, id, type)
              IN envRow' = r \/ envRow' = Sandbox!reconcileStopRecord(r, envRow.rec)
        <5>1. {"started", "not_started", "ambiguous"} \subseteq Sandbox!StopEvent
          BY DEF Sandbox!StopEvent
        <5> QED
          BY <1>4, <3>2, <5>1 DEF Sandbox!claimStopInvocation
      <4> QED
        BY <4>2, <4>3, <4>4 DEF RowKept
    <3> QED
      BY <3>1, <3>2
  <2> QED
    BY <1>3, <2>1, <2>3
<1>5. CASE Sandbox!nativeStop(w)
  <2>1. /\ lifecycle[w] # None /\ lifecycle[w].ph \in Working
        /\ UNCHANGED <<nrec, nbox, run>> /\ Sandbox!Goto(w, "project")
    BY <1>5 DEF Sandbox!nativeStop, Working
  <2>2. BoxKept
    <3>1. PICK effect \in BOOLEAN :
            box' = IF box = None THEN box
                   ELSE [box EXCEPT !.status = IF effect /\ @ = "running" THEN "stopping" ELSE @]
      BY <1>5 DEF Sandbox!nativeStop
    <3>2. CASE box = None
      BY <3>1, <3>2 DEF BoxKept
    <3>3. CASE box # None
      <4> DEFINE status == IF effect /\ box.status = "running" THEN "stopping" ELSE box.status
      <4>1. box \in Box /\ status \in {"running", "stopping", "stopped"}
        BY <3>3 DEF SandboxInv, OperationsFit, SandboxType, Box
      <4>2. box' = [box EXCEPT !.status = status]
        BY <3>1, <3>3
      <4> HIDE DEF status
      <4> QED
        BY <3>3, <4>1, <4>2, StatusChanges DEF BoxKept
    <3> QED
      BY <3>2, <3>3
  <2>3. RowKept
    <3>1. lifecycle[w].stop \in Nat
      BY <1>0, <2>1 DEF Operation
    <3>2. {"acknowledged", "ambiguous"} \subseteq Sandbox!StopEvent
      BY DEF Sandbox!StopEvent
    <3> QED
      BY <1>0, <1>5, <3>1, <3>2, EventAppended
      DEF Sandbox!nativeStop, Sandbox!IsCurrent, RowKept
  <2> QED
    BY <1>3, <2>1, <2>2, <2>3
<1>6. CASE Sandbox!projectStop(w) \/ Sandbox!surveyUnstopped(w)
  <2>1. /\ lifecycle[w] # None /\ lifecycle[w].ph \in Working
        /\ UNCHANGED <<nrec, box, nbox, run>> /\ BoxKept /\ Sandbox!Throw(w)
    BY <1>6 DEF Sandbox!projectStop, Sandbox!surveyUnstopped, Working, BoxKept
  <2>2. RowKept
    BY <1>6, ProjectionKeeps DEF Sandbox!projectStop, Sandbox!surveyUnstopped
  <2> QED
    BY <1>3, <2>1, <2>2
<1> QED
  BY <1>1, <1>2, <1>4, <1>5, <1>6

(* The record is retired when its sandbox was seen to be gone.              *)
LEMMA AbsenceIsProved ==
    ASSUME Sandbox!SandboxAssumption, SandboxInv, NEW w \in Workers, Sandbox!proveAbsence(w)
    PROVE  SandboxInv'
<1> USE DEF Sandbox!physical, Sandbox!leases, Sandbox!Do, Sandbox!Throw, Sandbox!At
<1>0. nbox \in Nat /\ Fits(w, None)
  BY DEF SandboxInv, OperationsFit, SandboxType, Fits
<1>1. /\ lifecycle[w] # None /\ lifecycle[w].ph \in Working
      /\ UNCHANGED <<nrec, box, nbox, run>> /\ lifecycle' = [lifecycle EXCEPT ![w] = None]
  BY DEF Sandbox!proveAbsence, Working
<1>2. CASE UNCHANGED envRow
  BY <1>0, <1>1, <1>2, SandboxMoves DEF BoxKept, RowKept
<1>3. CASE box = None /\ envRow' = None /\ Sandbox!IsCurrent(lifecycle[w].rec)
  <2>1. envRow # None /\ envRow.env # 0
    BY <1>1, <1>3 DEF SandboxInv, OperationsFit, WorkersFoundIt, Sandbox!IsCurrent
  <2>2. \A x \in Workers : ~(lifecycle[x] # None /\ lifecycle[x].ph \in Creating)
    BY <2>1 DEF SandboxInv, OperationsFit, CreatorHasTheToken
  <2>3. /\ lifecycle' \in [Workers -> Operation \cup {None}]
        /\ \A x \in Workers : lifecycle'[x] # None => lifecycle'[x] = lifecycle[x]
    BY <1>1 DEF SandboxInv, OperationsFit, SandboxType
  <2> QED
    BY <1>1, <1>3, <2>2, <2>3
    DEF SandboxInv, OperationsFit, SandboxType, CreatorHasTheToken, WorkersFoundIt,
        Sandbox!NoOrphanedSandbox
<1> QED
  BY <1>2, <1>3 DEF Sandbox!proveAbsence, Sandbox!retire, Sandbox!locateSandbox,
                    Sandbox!Observations

(* Observing the sandbox, using it through a lease, and what the daemon and *)
(* other users of it do.                                                    *)
LEMMA SandboxLeased ==
    ASSUME Sandbox!SandboxAssumption, SandboxInv,
           \/ \E w \in Workers :
                \/ Sandbox!inspect(w) \/ Sandbox!requireUsableLease(w)
                \/ Sandbox!listForLease(w) \/ Sandbox!leaseExec(w)
           \/ Sandbox!daemonStops \/ Sandbox!outsideChange
    PROVE  SandboxInv'
<1> USE DEF Sandbox!physical, Sandbox!leases
<1>1. UNCHANGED <<lifecycle, nrec, run>>
  BY DEF Sandbox!inspect, Sandbox!requireUsableLease, Sandbox!listForLease,
         Sandbox!leaseExec, Sandbox!daemonStops, Sandbox!outsideChange
<1>2. RowKept
  <2>1. CASE \E w \in Workers : Sandbox!inspect(w)
    <3>1. PICK state \in {"unusable", "running"} : Sandbox!markState(envRow.rec, state)
      BY <2>1 DEF Sandbox!inspect
    <3> QED
      BY <3>1, MarkKeeps
  <2>2. CASE \E w \in Workers : Sandbox!listForLease(w)
    BY <2>2, MarkKeeps DEF Sandbox!listForLease, RowKept
  <2>3. CASE UNCHANGED envRow
    BY <2>3 DEF RowKept
  <2> QED
    BY <2>1, <2>2, <2>3
    DEF Sandbox!requireUsableLease, Sandbox!leaseExec, Sandbox!daemonStops,
        Sandbox!outsideChange
<1>3. nbox' \in Nat /\ BoxKept
  <2>0. nbox \in Nat
    BY DEF SandboxInv, OperationsFit, SandboxType
  <2>1. CASE UNCHANGED <<box, nbox>>
    BY <2>0, <2>1 DEF BoxKept
  <2>2. CASE \E w \in Workers : Sandbox!leaseExec(w)
    BY <2>0, <2>2, StartKeeps DEF Sandbox!leaseExec, BoxKept
  <2>3. CASE Sandbox!daemonStops
    BY <2>0, <2>3, StatusChanges DEF Sandbox!daemonStops, BoxKept
  <2>4. CASE Sandbox!outsideChange
    <3>1. CASE box' = [box EXCEPT !.status = "stopped"] /\ UNCHANGED nbox
      BY <2>0, <2>4, <3>1, StatusChanges DEF Sandbox!outsideChange, BoxKept
    <3>2. CASE box' = None /\ UNCHANGED nbox
      BY <2>0, <3>2 DEF BoxKept
    <3>3. CASE /\ box' = [id |-> nbox + 1, rec |-> 0, status |-> "running"]
               /\ nbox' = nbox + 1
      BY <2>0, <3>3 DEF BoxKept, Box
    <3> QED
      BY <2>4, <3>1, <3>2, <3>3 DEF Sandbox!outsideChange
  <2> QED
    BY <2>1, <2>2, <2>3, <2>4
    DEF Sandbox!inspect, Sandbox!requireUsableLease, Sandbox!listForLease
<1> QED
  BY <1>1, <1>2, <1>3, SandboxIdles

(* A process dies: nobody else may do what it was doing, but for a creation *)
(* that is now up for being taken over.                                     *)
LEMMA SandboxCrashes ==
    ASSUME Sandbox!SandboxAssumption, SandboxInv, NEW w \in Workers, Sandbox!crash(w)
    PROVE  SandboxInv'
<1> USE DEF SandboxInv, OperationsFit, SandboxType
<1>1. /\ UNCHANGED <<envRow, nrec, box, nbox>> /\ run' = [run EXCEPT ![w] = @ + 1]
      /\ lifecycle' = [lifecycle EXCEPT ![w] = None]
  BY DEF Sandbox!crash, Sandbox!physical, Sandbox!Throw, Sandbox!Do
<1>2. SandboxType'
  <2>1. run' \in [Workers -> Nat] /\ lifecycle' \in [Workers -> Operation \cup {None}]
    BY <1>1
  <2> QED
    BY <1>1, <2>1
<1>3. \A x \in Workers : lifecycle'[x] # None =>
        x # w /\ lifecycle'[x] = lifecycle[x] /\ run'[x] = run[x]
  BY <1>1
<1>4. CreatorHasTheToken' /\ WorkersFoundIt'
  BY <1>1, <1>3 DEF CreatorHasTheToken, WorkersFoundIt
<1>5. Sandbox!NoOrphanedSandbox'
  BY <1>1 DEF Sandbox!NoOrphanedSandbox, Sandbox!IsCurrent
<1> QED
  BY <1>2, <1>4, <1>5

(* Every step keeps the invariant.                                          *)
LEMMA SandboxStep ==
    ASSUME Sandbox!SandboxAssumption
    PROVE  SandboxInv /\ [Sandbox!Next]_(Sandbox!vars) => SandboxInv'
<1> SUFFICES ASSUME SandboxInv, [Sandbox!Next]_(Sandbox!vars) PROVE SandboxInv'
  OBVIOUS
<1>1. ASSUME UNCHANGED Sandbox!vars PROVE SandboxInv'
  <2>1. UNCHANGED <<lifecycle, nrec, run, envRow, nbox, box>>
    BY <1>1 DEF Sandbox!vars
  <2>2. nbox' \in Nat /\ RowKept /\ BoxKept
    BY <2>1 DEF SandboxInv, OperationsFit, SandboxType, RowKept, BoxKept
  <2> QED
    BY <2>1, <2>2, SandboxIdles
<1> QED
  BY <1>1, SandboxCreates, SandboxUsed, SandboxStops, AbsenceIsProved, SandboxLeased,
     SandboxCrashes DEF Sandbox!Next

(* As long as a sandbox created for the owner exists, the unretired record  *)
(* of its incarnation does, however many Workers create, stop, remove,      *)
(* recover and die at once, and whatever the daemon and its other users do  *)
(* to it meanwhile (undoCreation, proveAbsence).                            *)
THEOREM NoSandboxEverOrphaned ==
    ASSUME Sandbox!SandboxAssumption PROVE Sandbox!Spec => []NoOrphanedSandbox
<1>1. Sandbox!Spec => []SandboxInv
  BY SandboxInit, SandboxStep, PTL DEF Sandbox!Spec
<1>2. SandboxInv => NoOrphanedSandbox
  BY DEF SandboxInv, NoOrphanedSandbox
<1> QED
  BY <1>1, <1>2, PTL

-----------------------------------------------------------------------------
(* The standard input of a streamed process (StreamedProcess).              *)

Frames == [kind : Streams \cup Process!Kinds,
           of : Nat \cup Streams \cup {None}]

ProcessType ==
    /\ writes \in Seq([close : BOOLEAN, at : {"queued", "submitted"} \cup Process!Settled])
    /\ inq \in Seq(Nat) /\ delivered \in Seq(Nat) /\ outq \in Seq(Frames)
    /\ reply \in Frames \cup {None} /\ produced \in [Streams -> Nat]
    /\ DOMAIN att = {"terminal", "disconnected", "writeClosed", "targetExited", "eof"}
    /\ att.writeClosed \in BOOLEAN

IsWrite(w) == w \in 1 .. Len(writes)

(* Writes leave the queue in call order, one at a time, and none does after *)
(* an uncertain one.                                                        *)
WritesInOrder ==
    \A w \in 1 .. Len(writes) :
        /\ writes[w].at # "queued" => \A v \in 1 .. (w - 1) : writes[v].at \in Process!Settled
        /\ writes[w].at = "ambiguous" =>
             /\ att.writeClosed
             /\ \A v \in (w + 1) .. Len(writes) : writes[v].at \in {"queued", "rejected"}

(* Of the writes at most one is in the pipe, behind those that arrived.     *)
OneInThePipe ==
    \A i \in 1 .. Len(inq) : inq[i] # 0 =>
        /\ IsWrite(inq[i]) /\ writes[inq[i]].at \in {"submitted", "ambiguous"}
        /\ \A j \in 1 .. Len(delivered) : delivered[j] < inq[i]
        /\ \A j \in 1 .. Len(inq) : inq[j] # 0 => j = i

(* What arrived was not rejected, arrived in order, and was acknowledged if *)
(* anything was.                                                            *)
ArrivedInOrder ==
    /\ \A j \in 1 .. Len(delivered) :
         /\ IsWrite(delivered[j])
         /\ writes[delivered[j]].at \in {"submitted", "acknowledged", "ambiguous"}
    /\ \A i, j \in 1 .. Len(delivered) : i < j => delivered[i] < delivered[j]
    /\ \A w \in 1 .. Len(writes) : writes[w].at = "acknowledged" =>
         \E j \in 1 .. Len(delivered) : delivered[j] = w

(* An answer of the relay is true of the write it names.                    *)
TrueAnswer(f) == f.kind \in Process!Settled =>
    /\ IsWrite(f.of) /\ writes[f.of].at # "queued"
    /\ f.kind = "acknowledged" => \E j \in 1 .. Len(delivered) : delivered[j] = f.of
    /\ f.kind = "rejected" =>
         /\ \A j \in 1 .. Len(delivered) : delivered[j] # f.of
         /\ \A i \in 1 .. Len(inq) : inq[i] # f.of

InputInv ==
    /\ ProcessType /\ WritesInOrder /\ OneInThePipe /\ ArrivedInOrder
    /\ reply # None => TrueAnswer(reply)
    /\ \A i \in 1 .. Len(outq) : TrueAnswer(outq[i])

(* Nothing was written.                                                     *)
LEMMA InputInit == Process!StreamedProcessAssumption /\ Process!Init => InputInv
<1> SUFFICES ASSUME Process!StreamedProcessAssumption, Process!Init PROVE InputInv
  OBVIOUS
<1>1. /\ writes = <<>> /\ inq = <<>> /\ delivered = <<>> /\ outq = <<>> /\ reply = None
      /\ produced \in [Streams -> Nat]
      /\ DOMAIN att = {"terminal", "disconnected", "writeClosed", "targetExited", "eof"}
      /\ att.writeClosed = FALSE
  BY DEF Process!Init
<1>2. ProcessType
  <2>1. \A S : <<>> \in Seq(S)
    OBVIOUS
  <2>2. writes \in Seq([close : BOOLEAN, at : {"queued", "submitted"} \cup Process!Settled])
    BY <1>1, <2>1
  <2>3. inq \in Seq(Nat) /\ delivered \in Seq(Nat) /\ outq \in Seq(Frames)
    BY <1>1, <2>1
  <2> QED
    BY <1>1, <2>2, <2>3 DEF ProcessType
<1>3. Len(writes) = 0 /\ Len(inq) = 0 /\ Len(delivered) = 0 /\ Len(outq) = 0
  BY <1>1
<1> QED
  BY <1>1, <1>2, <1>3 DEF InputInv, WritesInOrder, OneInThePipe, ArrivedInOrder, IsWrite

(* The attachment changes otherwise, and frames that answer no write come   *)
(* and go.                                                                  *)
LEMMA FramesCome ==
    ASSUME InputInv, UNCHANGED <<writes, inq, delivered, reply>>,
           produced' \in [Streams -> Nat],
           DOMAIN att' = DOMAIN att, att'.writeClosed = att.writeClosed,
           outq' \in Seq(Frames),
           \A i \in 1 .. Len(outq') :
               \/ outq'[i].kind \notin Process!Settled
               \/ \E j \in 1 .. Len(outq) : outq'[i] = outq[j]
    PROVE  InputInv'
<1>1. ProcessType'
  BY DEF InputInv, ProcessType
<1>2. WritesInOrder' /\ OneInThePipe' /\ ArrivedInOrder'
  BY DEF InputInv, WritesInOrder, OneInThePipe, ArrivedInOrder, IsWrite
<1>3. \A i \in 1 .. Len(outq') : TrueAnswer(outq[i])'
  BY DEF InputInv, TrueAnswer, IsWrite
<1>4. reply' # None => TrueAnswer(reply)'
  BY DEF InputInv, TrueAnswer, IsWrite
<1> QED
  BY <1>1, <1>2, <1>3, <1>4 DEF InputInv

(* At most one write awaits its answer, and those behind it are queued.     *)
LEMMA OneSubmitted ==
    ASSUME InputInv, NEW w \in Process!Submitted
    PROVE  /\ IsWrite(w) /\ writes[w].at = "submitted" /\ Process!Submitted = {w}
           /\ \A v \in (w + 1) .. Len(writes) : writes[v].at = "queued"
<1>1. DOMAIN writes = 1 .. Len(writes)
  BY DEF InputInv, ProcessType
<1>2. IsWrite(w) /\ writes[w].at = "submitted" /\ w \in Nat
  BY <1>1 DEF Process!Submitted, IsWrite
<1>3. \A v \in (w + 1) .. Len(writes) : writes[v].at = "queued"
  <2> SUFFICES ASSUME NEW v \in (w + 1) .. Len(writes), writes[v].at # "queued" PROVE FALSE
    OBVIOUS
  <2>1. v \in 1 .. Len(writes) /\ w \in 1 .. (v - 1)
    BY <1>2 DEF IsWrite
  <2> QED
    BY <1>2, <2>1 DEF InputInv, WritesInOrder, Process!Settled
<1>4. ASSUME NEW v \in Process!Submitted PROVE v = w
  <2>1. v \in 1 .. Len(writes) /\ writes[v].at = "submitted"
    BY <1>1, <1>4 DEF Process!Submitted
  <2>2. ~(v > w)
    BY <1>3, <2>1, <1>2 DEF IsWrite
  <2>3. ~(v < w)
    BY <1>2, <2>1 DEF InputInv, WritesInOrder, IsWrite, Process!Settled
  <2> QED
    BY <2>1, <2>2, <2>3, <1>2
<1> QED
  BY <1>2, <1>3, <1>4

(* The write that awaits it gets its answer (resolveWaiter), which is true  *)
(* of it, or uncertain.                                                     *)
LEMMA WriteAnswered ==
    ASSUME InputInv, NEW answer \in Process!Settled,
           writes' = Process!Answered(answer),
           UNCHANGED <<inq, delivered, reply, produced>>,
           DOMAIN att' = DOMAIN att,
           att'.writeClosed = (att.writeClosed \/ Process!InputEnds(answer)),
           outq' \in Seq(Frames),
           \A i \in 1 .. Len(outq') : \E j \in 1 .. Len(outq) : outq'[i] = outq[j],
           answer = "acknowledged" => \A w \in Process!Submitted :
               \E j \in 1 .. Len(delivered) : delivered[j] = w,
           answer = "rejected" => \A w \in Process!Submitted :
               /\ \A j \in 1 .. Len(delivered) : delivered[j] # w
               /\ \A i \in 1 .. Len(inq) : inq[i] # w
    PROVE  InputInv'
<1> DEFINE Op == [close : BOOLEAN, at : {"queued", "submitted"} \cup Process!Settled]
<1>1. writes \in Seq(Op) /\ DOMAIN writes = 1 .. Len(writes) /\ Len(writes) \in Nat
      /\ att.writeClosed \in BOOLEAN
  BY DEF InputInv, ProcessType
<1>0. ASSUME NEW r \in Op
      PROVE  [r EXCEPT !.at = answer] \in Op /\ [r EXCEPT !.at = answer].at = answer
  OBVIOUS
<1> HIDE DEF Op
<1>2. ASSUME NEW w \in 1 .. Len(writes)
      PROVE  /\ writes'[w] \in Op
             /\ w \in Process!Submitted => writes'[w].at = answer
             /\ w \notin Process!Submitted => writes'[w] = writes[w]
  <2>1. writes[w] \in Op
    BY <1>1
  <2>2. writes'[w] = IF w \in Process!Submitted THEN [writes[w] EXCEPT !.at = answer] ELSE writes[w]
    BY <1>1 DEF Process!Answered
  <2> QED
    BY <2>1, <2>2, <1>0
<1>3. writes' \in Seq(Op) /\ Len(writes') = Len(writes)
  <2>1. DOMAIN writes' = 1 .. Len(writes)
    BY <1>1 DEF Process!Answered
  <2> DEFINE next(w) ==
               IF w \in Process!Submitted THEN [writes[w] EXCEPT !.at = answer] ELSE writes[w]
  <2>2. writes' = [w \in 1 .. Len(writes) |-> next(w)]
    BY <1>1 DEF Process!Answered
  <2>3. \A w \in 1 .. Len(writes) : next(w) \in Op
    BY <1>0, <1>1
  <2>4. writes' \in [1 .. Len(writes) -> Op]
    BY <2>2, <2>3
  <2> QED
    BY <1>1, <2>4, <2>1
<1>4. att'.writeClosed \in BOOLEAN /\ (att.writeClosed => att'.writeClosed)
  BY <1>1 DEF Process!InputEnds
<1>5. ProcessType'
  BY <1>3, <1>4 DEF InputInv, ProcessType, Op
<1>6. ASSUME NEW w \in 1 .. Len(writes)
      PROVE  w \in Process!Submitted <=> writes[w].at = "submitted"
  BY <1>1 DEF Process!Submitted
<1>7. WritesInOrder'
  <2> SUFFICES ASSUME NEW w \in 1 .. Len(writes)
               PROVE  /\ writes'[w].at # "queued" =>
                           \A v \in 1 .. (w - 1) : writes'[v].at \in Process!Settled
                      /\ writes'[w].at = "ambiguous" =>
                           /\ att'.writeClosed
                           /\ \A v \in (w + 1) .. Len(writes) :
                                writes'[v].at \in {"queued", "rejected"}
    BY <1>3 DEF WritesInOrder
  <2>1. writes'[w].at # "queued" => \A v \in 1 .. (w - 1) : writes'[v].at \in Process!Settled
    <3>1. writes'[w].at # "queued" => writes[w].at # "queued"
      BY <1>2, <1>6
    <3>2. ASSUME writes[w].at # "queued", NEW v \in 1 .. (w - 1)
          PROVE  writes'[v].at \in Process!Settled
      BY <3>2, <1>2 DEF InputInv, WritesInOrder, Process!Settled
    <3> QED
      BY <3>1, <3>2
  <2>2. ASSUME w \in Process!Submitted, answer = "ambiguous"
        PROVE  /\ att'.writeClosed
               /\ \A v \in (w + 1) .. Len(writes) : writes'[v].at \in {"queued", "rejected"}
    <3>1. att'.writeClosed
      BY <2>2 DEF Process!InputEnds
    <3>2. \A v \in (w + 1) .. Len(writes) : writes[v].at = "queued"
      BY <2>2, OneSubmitted
    <3>3. ASSUME NEW v \in (w + 1) .. Len(writes) PROVE writes'[v].at = "queued"
      <4>1. v \in 1 .. Len(writes) /\ writes[v].at = "queued"
        BY <3>2
      <4> QED
        BY <4>1, <1>2, <1>6
    <3> QED
      BY <3>1, <3>3
  <2>3. ASSUME w \notin Process!Submitted, writes[w].at = "ambiguous"
        PROVE  /\ att'.writeClosed
               /\ \A v \in (w + 1) .. Len(writes) : writes'[v].at \in {"queued", "rejected"}
    <3>1. att.writeClosed
          /\ \A v \in (w + 1) .. Len(writes) : writes[v].at \in {"queued", "rejected"}
      BY <2>3 DEF InputInv, WritesInOrder
    <3>2. ASSUME NEW v \in (w + 1) .. Len(writes) PROVE writes'[v].at \in {"queued", "rejected"}
      <4>1. v \in 1 .. Len(writes) /\ writes[v].at # "submitted"
        BY <3>1
      <4> QED
        BY <4>1, <3>1, <1>2, <1>6
    <3> QED
      BY <3>1, <3>2, <1>4
  <2> QED
    BY <2>1, <2>2, <2>3, <1>2
<1>8. OneInThePipe'
  <2> SUFFICES ASSUME NEW i \in 1 .. Len(inq), inq[i] # 0
               PROVE  /\ inq[i] \in 1 .. Len(writes)
                      /\ writes'[inq[i]].at \in {"submitted", "ambiguous"}
                      /\ \A j \in 1 .. Len(delivered) : delivered[j] < inq[i]
                      /\ \A j \in 1 .. Len(inq) : inq[j] # 0 => j = i
    BY <1>3 DEF OneInThePipe, IsWrite
  <2>1. /\ inq[i] \in 1 .. Len(writes) /\ writes[inq[i]].at \in {"submitted", "ambiguous"}
        /\ \A j \in 1 .. Len(delivered) : delivered[j] < inq[i]
        /\ \A j \in 1 .. Len(inq) : inq[j] # 0 => j = i
    BY DEF InputInv, OneInThePipe, IsWrite
  <2>2. inq[i] \in Process!Submitted => answer = "ambiguous"
    <3>1. ASSUME inq[i] \in Process!Submitted, answer = "acknowledged" PROVE FALSE
      BY <3>1, <2>1
    <3>2. ASSUME inq[i] \in Process!Submitted, answer = "rejected" PROVE FALSE
      BY <3>2
    <3> QED
      BY <3>1, <3>2 DEF Process!Settled
  <2> QED
    BY <2>1, <2>2, <1>2
<1>9. ArrivedInOrder'
  <2>1. ASSUME NEW j \in 1 .. Len(delivered)
        PROVE  /\ delivered[j] \in 1 .. Len(writes)
               /\ writes'[delivered[j]].at \in {"submitted", "acknowledged", "ambiguous"}
    <3>1. /\ delivered[j] \in 1 .. Len(writes)
          /\ writes[delivered[j]].at \in {"submitted", "acknowledged", "ambiguous"}
      BY DEF InputInv, ArrivedInOrder, IsWrite
    <3>2. delivered[j] \in Process!Submitted => answer # "rejected"
      OBVIOUS
    <3> QED
      BY <3>1, <3>2, <1>2 DEF Process!Settled
  <2>2. ASSUME NEW w \in 1 .. Len(writes), writes'[w].at = "acknowledged"
        PROVE  \E j \in 1 .. Len(delivered) : delivered[j] = w
    <3>1. CASE w \in Process!Submitted
      BY <3>1, <2>2, <1>2
    <3>2. CASE w \notin Process!Submitted
      BY <3>2, <2>2, <1>2 DEF InputInv, ArrivedInOrder
    <3> QED
      BY <3>1, <3>2
  <2> QED
    BY <2>1, <2>2, <1>3 DEF InputInv, ArrivedInOrder, IsWrite
<1>10. ASSUME NEW w \in 1 .. Len(writes), writes[w].at # "queued"
       PROVE  writes'[w].at # "queued"
  BY <1>10, <1>2 DEF Process!Settled
<1>11. \A i \in 1 .. Len(outq') : TrueAnswer(outq[i])'
  <2> SUFFICES ASSUME NEW i \in 1 .. Len(outq') PROVE TrueAnswer(outq[i])'
    OBVIOUS
  <2>1. PICK j \in 1 .. Len(outq) : outq'[i] = outq[j]
    OBVIOUS
  <2>2. TrueAnswer(outq[j])
    BY DEF InputInv
  <2> QED
    BY <2>1, <2>2, <1>3, <1>10 DEF TrueAnswer, IsWrite
<1>12. reply' # None => TrueAnswer(reply)'
  <2> SUFFICES ASSUME reply # None PROVE TrueAnswer(reply)'
    OBVIOUS
  <2>1. TrueAnswer(reply)
    BY DEF InputInv
  <2> QED
    BY <2>1, <1>3, <1>10 DEF TrueAnswer, IsWrite
<1> QED
  BY <1>5, <1>7, <1>8, <1>9, <1>11, <1>12 DEF InputInv

(* A write is called (writeInput, closeInput).                              *)
LEMMA WriteQueued ==
    ASSUME InputInv, NEW close \in BOOLEAN, Process!Write(close) PROVE InputInv'
<1> DEFINE Op == [close : BOOLEAN, at : {"queued", "submitted"} \cup Process!Settled]
           op == [close |-> close, at |-> "queued"]
<1>1. /\ writes' = Append(writes, op)
      /\ UNCHANGED <<inq, delivered, reply, produced, outq, att>>
  BY DEF Process!Write, Process!guest
<1>2. op \in Op /\ op.at = "queued"
  OBVIOUS
<1> HIDE DEF op
<1>3. writes \in Seq(Op) /\ Len(writes) \in Nat
  BY DEF InputInv, ProcessType
<1>4. /\ writes' \in Seq(Op) /\ Len(writes') = Len(writes) + 1
      /\ \A w \in 1 .. Len(writes) : writes'[w] = writes[w]
      /\ writes'[Len(writes) + 1] = op
  <2> HIDE DEF Op
  <2> QED
    BY <1>1, <1>2, <1>3
<1>5. ProcessType'
  BY <1>1, <1>4 DEF InputInv, ProcessType
<1>6. WritesInOrder'
  BY <1>1, <1>2, <1>3, <1>4 DEF InputInv, WritesInOrder
<1>7. OneInThePipe'
  BY <1>1, <1>3, <1>4 DEF InputInv, OneInThePipe, IsWrite
<1>8. ArrivedInOrder'
  BY <1>1, <1>2, <1>3, <1>4 DEF InputInv, ArrivedInOrder, IsWrite
<1>9. ASSUME NEW f, TrueAnswer(f)
      PROVE  f.kind \in Process!Settled =>
               f.of \in 1 .. Len(writes') /\ writes'[f.of].at # "queued"
  BY <1>9, <1>3, <1>4 DEF TrueAnswer, IsWrite
<1>10. \A i \in 1 .. Len(outq') : TrueAnswer(outq[i])'
  <2> SUFFICES ASSUME NEW i \in 1 .. Len(outq) PROVE TrueAnswer(outq[i])'
    BY <1>1
  <2>1. TrueAnswer(outq[i])
    BY DEF InputInv
  <2> QED
    BY <2>1, <1>1, <1>9 DEF TrueAnswer, IsWrite
<1>11. reply' # None => TrueAnswer(reply)'
  <2> SUFFICES ASSUME reply # None PROVE TrueAnswer(reply)'
    BY <1>1
  <2>1. TrueAnswer(reply)
    BY DEF InputInv
  <2> QED
    BY <2>1, <1>1, <1>9 DEF TrueAnswer, IsWrite
<1> QED
  BY <1>5, <1>6, <1>7, <1>8, <1>10, <1>11 DEF InputInv

(* The next write was neither sent nor answered, and nothing is before it.  *)
LEMMA NextIsAlone ==
    ASSUME InputInv, NEW w \in 1 .. Len(writes), Process!NextWrite(w)
    PROVE  /\ writes[w].at = "queued"
           /\ \A v \in 1 .. Len(writes) : writes[v].at # "queued" => v < w
           /\ \A j \in 1 .. Len(delivered) : delivered[j] < w
           /\ \A i \in 1 .. Len(inq) : inq[i] # w
           /\ ~att.writeClosed => \A i \in 1 .. Len(inq) : inq[i] = 0
<1>1. /\ writes[w].at = "queued"
      /\ \A v \in 1 .. (w - 1) : writes[v].at \in Process!Settled
  BY DEF Process!NextWrite
<1>2. \A v \in 1 .. Len(writes) : writes[v].at # "queued" => v < w
  <2> SUFFICES ASSUME NEW v \in 1 .. Len(writes), writes[v].at # "queued", v > w PROVE FALSE
    BY <1>1
  <2>1. w \in 1 .. (v - 1)
    OBVIOUS
  <2> QED
    BY <2>1, <1>1 DEF InputInv, WritesInOrder, Process!Settled
<1>3. \A j \in 1 .. Len(delivered) : delivered[j] < w
  BY <1>2 DEF InputInv, ArrivedInOrder, IsWrite
<1>4. \A i \in 1 .. Len(inq) : inq[i] # w
  BY <1>1 DEF InputInv, OneInThePipe, IsWrite
<1>5. ASSUME ~att.writeClosed, NEW i \in 1 .. Len(inq) PROVE inq[i] = 0
  <2> SUFFICES ASSUME inq[i] # 0 PROVE FALSE
    OBVIOUS
  <2>1. inq[i] \in 1 .. Len(writes) /\ writes[inq[i]].at \in {"submitted", "ambiguous"}
    BY DEF InputInv, OneInThePipe, IsWrite
  <2>2. writes[inq[i]].at = "submitted"
    BY <2>1, <1>5 DEF InputInv, WritesInOrder
  <2>3. inq[i] \in 1 .. (w - 1)
    BY <2>1, <1>2
  <2> QED
    BY <2>2, <2>3, <1>1 DEF Process!Settled
<1> QED
  BY <1>1, <1>2, <1>3, <1>4, <1>5

(* The next write leaves the queue: sent, or refused without a byte.        *)
LEMMA WriteSubmitted ==
    ASSUME InputInv, NEW w \in DOMAIN writes, Process!SubmitWrite(w) PROVE InputInv'
<1> DEFINE Op == [close : BOOLEAN, at : {"queued", "submitted"} \cup Process!Settled]
<1>1. /\ writes \in Seq(Op) /\ Len(writes) \in Nat /\ w \in 1 .. Len(writes)
      /\ inq \in Seq(Nat)
  BY DEF InputInv, ProcessType
<1>2. /\ Process!NextWrite(w)
      /\ UNCHANGED <<delivered, reply, produced, outq, att>>
  BY DEF Process!SubmitWrite, Process!guest
<1>3. PICK at \in {"submitted", "rejected"} :
        /\ writes' = [writes EXCEPT ![w].at = at]
        /\ at = "submitted" => inq' = Append(inq, w) /\ ~att.writeClosed
        /\ at = "rejected" => inq' = inq
  <2>1. CASE /\ ~att.writeClosed /\ writes' = [writes EXCEPT ![w].at = "submitted"]
             /\ inq' = Append(inq, w)
    BY <2>1
  <2>2. CASE writes' = [writes EXCEPT ![w].at = "rejected"] /\ inq' = inq
    BY <2>2
  <2> QED
    BY <2>1, <2>2 DEF Process!SubmitWrite
<1>4. ASSUME NEW r \in Op PROVE [r EXCEPT !.at = at] \in Op /\ [r EXCEPT !.at = at].at = at
  BY DEF Process!Settled
<1>5. /\ writes' \in Seq(Op) /\ Len(writes') = Len(writes) /\ writes'[w].at = at
      /\ \A v \in 1 .. Len(writes) : v # w => writes'[v] = writes[v]
  <2> DEFINE next == [writes[w] EXCEPT !.at = at]
  <2> HIDE DEF Op
  <2>1. next \in Op /\ next.at = at
    BY <1>1, <1>4
  <2>2. writes' = [writes EXCEPT ![w] = next]
    BY <1>3
  <2> HIDE DEF next
  <2> QED
    BY <1>1, <2>1, <2>2
<1>6. /\ inq' \in Seq(Nat) /\ Len(inq) \in Nat
      /\ at = "submitted" => /\ Len(inq') = Len(inq) + 1 /\ inq'[Len(inq) + 1] = w
                             /\ \A i \in 1 .. Len(inq) : inq'[i] = inq[i]
  <2>1. inq \in Seq(Nat) /\ w \in Nat /\ Len(inq) \in Nat
    BY <1>1
  <2>2. CASE at = "submitted"
    <3>1. inq' = Append(inq, w)
      BY <2>2, <1>3
    <3> QED
      BY <2>1, <3>1
  <2>3. CASE at = "rejected"
    BY <2>1, <2>3, <1>3
  <2> QED
    BY <2>2, <2>3
<1>7. ProcessType'
  BY <1>2, <1>5, <1>6 DEF InputInv, ProcessType
<1>8. /\ writes[w].at = "queued"
      /\ \A v \in 1 .. Len(writes) : writes[v].at # "queued" => v < w
      /\ \A j \in 1 .. Len(delivered) : delivered[j] < w
      /\ \A i \in 1 .. Len(inq) : inq[i] # w
      /\ ~att.writeClosed => \A i \in 1 .. Len(inq) : inq[i] = 0
  BY <1>1, <1>2, NextIsAlone
<1>9. WritesInOrder'
  <2> SUFFICES ASSUME NEW u \in 1 .. Len(writes)
               PROVE  /\ writes'[u].at # "queued" =>
                           \A v \in 1 .. (u - 1) : writes'[v].at \in Process!Settled
                      /\ writes'[u].at = "ambiguous" =>
                           /\ att.writeClosed
                           /\ \A v \in (u + 1) .. Len(writes) :
                                writes'[v].at \in {"queued", "rejected"}
    BY <1>2, <1>5 DEF WritesInOrder
  <2>1. CASE u = w
    <3>1. \A v \in 1 .. (w - 1) : writes[v].at \in Process!Settled
      BY <1>2 DEF Process!NextWrite
    <3> QED
      BY <2>1, <3>1, <1>5, <1>1
  <2>2. CASE u # w
    <3>1. writes'[u] = writes[u]
      BY <2>2, <1>5
    <3>2. writes[u].at # "queued" =>
            u < w /\ \A v \in 1 .. (u - 1) : writes[v].at \in Process!Settled
      BY <1>8 DEF InputInv, WritesInOrder
    <3>3. writes[u].at = "ambiguous" =>
            /\ att.writeClosed
            /\ \A v \in (u + 1) .. Len(writes) : writes[v].at \in {"queued", "rejected"}
      BY DEF InputInv, WritesInOrder
    <3>4. att.writeClosed => at = "rejected"
      BY <1>3
    <3>5. ASSUME writes[u].at # "queued", NEW v \in 1 .. (u - 1)
          PROVE  writes'[v].at \in Process!Settled
      <4>1. v \in 1 .. Len(writes) /\ v # w
        BY <3>2, <3>5
      <4> QED
        BY <4>1, <3>2, <3>5, <1>5
    <3>6. ASSUME writes[u].at = "ambiguous", NEW v \in (u + 1) .. Len(writes)
          PROVE  writes'[v].at \in {"queued", "rejected"}
      <4>1. v \in 1 .. Len(writes) /\ at = "rejected"
        BY <3>3, <3>4, <3>6
      <4>2. CASE v = w
        BY <4>1, <4>2, <1>5
      <4>3. CASE v # w
        BY <4>1, <4>3, <3>3, <3>6, <1>5
      <4> QED
        BY <4>2, <4>3
    <3> QED
      BY <3>1, <3>3, <3>5, <3>6
  <2> QED
    BY <2>1, <2>2
<1>10. OneInThePipe'
  <2>1. CASE at = "submitted"
    <3>1. \A i \in 1 .. Len(inq) : inq'[i] = 0
      BY <2>1, <1>3, <1>6, <1>8
    <3> QED
      BY <2>1, <3>1, <1>1, <1>2, <1>5, <1>6, <1>8 DEF OneInThePipe, IsWrite
  <2>2. CASE at = "rejected"
    <3>1. inq' = inq
      BY <2>2, <1>3
    <3> QED
      BY <2>2, <3>1, <1>2, <1>5, <1>8 DEF InputInv, OneInThePipe, IsWrite
  <2> QED
    BY <2>1, <2>2
<1>11. ArrivedInOrder'
  BY <1>1, <1>2, <1>5, <1>8 DEF InputInv, ArrivedInOrder, IsWrite
<1>12. ASSUME NEW f, TrueAnswer(f), f.kind \in Process!Settled
       PROVE  /\ f.of \in 1 .. Len(writes') /\ writes'[f.of].at # "queued"
              /\ (\A i \in 1 .. Len(inq) : inq[i] # f.of) =>
                   \A i \in 1 .. Len(inq') : inq'[i] # f.of
  <2>1. f.of \in 1 .. Len(writes) /\ writes[f.of].at # "queued" /\ f.of # w
    BY <1>12, <1>8 DEF TrueAnswer, IsWrite
  <2> QED
    BY <2>1, <1>3, <1>5, <1>6
<1>13. \A i \in 1 .. Len(outq') : TrueAnswer(outq[i])'
  <2> SUFFICES ASSUME NEW i \in 1 .. Len(outq) PROVE TrueAnswer(outq[i])'
    BY <1>2
  <2>1. TrueAnswer(outq[i])
    BY DEF InputInv
  <2> QED
    BY <2>1, <1>2, <1>12 DEF TrueAnswer, IsWrite
<1>14. reply' # None => TrueAnswer(reply)'
  <2> SUFFICES ASSUME reply # None PROVE TrueAnswer(reply)'
    BY <1>2
  <2>1. TrueAnswer(reply)
    BY DEF InputInv
  <2> QED
    BY <2>1, <1>2, <1>12 DEF TrueAnswer, IsWrite
<1> QED
  BY <1>7, <1>9, <1>10, <1>11, <1>13, <1>14 DEF InputInv

(* The cancellation is sent behind the write.                               *)
LEMMA CancelSent ==
    ASSUME InputInv, inq' = Append(inq, 0),
           UNCHANGED <<writes, att, delivered, reply, produced, outq>>
    PROVE  InputInv'
<1>1. /\ inq \in Seq(Nat) /\ inq' \in Seq(Nat) /\ Len(inq') = Len(inq) + 1
      /\ \A i \in 1 .. Len(inq) : inq'[i] = inq[i]
      /\ inq'[Len(inq) + 1] = 0
  BY DEF InputInv, ProcessType
<1>2. ProcessType' /\ WritesInOrder'
  BY <1>1 DEF InputInv, ProcessType, WritesInOrder
<1>3. OneInThePipe' /\ ArrivedInOrder'
  BY <1>1 DEF InputInv, OneInThePipe, ArrivedInOrder, IsWrite
<1>4. ASSUME NEW f, TrueAnswer(f), f.kind = "rejected"
      PROVE  \A i \in 1 .. Len(inq') : inq'[i] # f.of
  BY <1>1, <1>4 DEF TrueAnswer, IsWrite, Process!Settled
<1>5. \A i \in 1 .. Len(outq') : TrueAnswer(outq[i])'
  <2> SUFFICES ASSUME NEW i \in 1 .. Len(outq) PROVE TrueAnswer(outq[i])'
    OBVIOUS
  <2>1. TrueAnswer(outq[i])
    BY DEF InputInv
  <2> QED
    BY <2>1, <1>4 DEF TrueAnswer, IsWrite
<1>6. reply' # None => TrueAnswer(reply)'
  <2> SUFFICES ASSUME reply # None PROVE TrueAnswer(reply)'
    OBVIOUS
  <2>1. TrueAnswer(reply)
    BY DEF InputInv
  <2> QED
    BY <2>1, <1>4 DEF TrueAnswer, IsWrite
<1> QED
  BY <1>2, <1>3, <1>5, <1>6 DEF InputInv

(* The first of a pipe is taken from it.                                    *)
LEMMA TailTaken ==
    ASSUME NEW S, NEW q \in Seq(S), q # <<>>
    PROVE  /\ Head(q) = q[1] /\ q[1] \in S /\ Len(q) \in Nat /\ Len(q) >= 1
           /\ Tail(q) \in Seq(S) /\ Len(Tail(q)) = Len(q) - 1
           /\ \A i \in 1 .. Len(Tail(q)) : i + 1 \in 1 .. Len(q) /\ Tail(q)[i] = q[i + 1]
OBVIOUS

(* A command leaves the pipe, and the answers on their way stay true.       *)
LEMMA CommandTaken ==
    ASSUME InputInv, inq # <<>>, inq' = Tail(inq),
           UNCHANGED <<writes, att, produced, outq>>,
           \/ delivered' = delivered
           \/ Head(inq) # 0 /\ delivered' = Append(delivered, Head(inq)),
           reply' \in Frames, TrueAnswer(reply)'
    PROVE  InputInv'
<1>1. /\ Head(inq) = inq[1] /\ inq[1] \in Nat /\ Len(inq) \in Nat /\ Len(inq) >= 1
      /\ inq' \in Seq(Nat) /\ Len(inq') = Len(inq) - 1
      /\ \A i \in 1 .. Len(inq') : i + 1 \in 1 .. Len(inq) /\ inq'[i] = inq[i + 1]
  <2>1. inq \in Seq(Nat)
    BY DEF InputInv, ProcessType
  <2> QED
    BY <2>1, TailTaken
<1>2. delivered \in Seq(Nat) /\ Len(delivered) \in Nat
  BY DEF InputInv, ProcessType
<1>3. CASE delivered' = delivered
  <2>1. ProcessType' /\ WritesInOrder'
    BY <1>1, <1>3 DEF InputInv, ProcessType, WritesInOrder
  <2>2. OneInThePipe'
    <3> SUFFICES ASSUME NEW i \in 1 .. Len(inq'), inq'[i] # 0
                 PROVE  /\ inq'[i] \in 1 .. Len(writes)
                        /\ writes[inq'[i]].at \in {"submitted", "ambiguous"}
                        /\ \A j \in 1 .. Len(delivered) : delivered[j] < inq'[i]
                        /\ \A j \in 1 .. Len(inq') : inq'[j] # 0 => j = i
      BY <1>3 DEF OneInThePipe, IsWrite
    <3>1. i + 1 \in 1 .. Len(inq) /\ inq'[i] = inq[i + 1]
      BY <1>1
    <3>2. /\ inq[i + 1] \in 1 .. Len(writes)
          /\ writes[inq[i + 1]].at \in {"submitted", "ambiguous"}
          /\ \A j \in 1 .. Len(delivered) : delivered[j] < inq[i + 1]
          /\ \A j \in 1 .. Len(inq) : inq[j] # 0 => j = i + 1
      BY <3>1 DEF InputInv, OneInThePipe, IsWrite
    <3>3. ASSUME NEW j \in 1 .. Len(inq'), inq'[j] # 0 PROVE j = i
      <4>1. j + 1 \in 1 .. Len(inq) /\ inq'[j] = inq[j + 1]
        BY <1>1
      <4>2. j + 1 = i + 1
        BY <4>1, <3>2, <3>3
      <4> QED
        BY <4>2
    <3> QED
      BY <3>1, <3>2, <3>3
  <2>3. ArrivedInOrder'
    BY <1>3 DEF InputInv, ArrivedInOrder, IsWrite
  <2>4. ASSUME NEW i \in 1 .. Len(outq) PROVE TrueAnswer(outq[i])'
    <3>1. TrueAnswer(outq[i])
      BY DEF InputInv
    <3> QED
      BY <3>1, <1>1, <1>3 DEF TrueAnswer, IsWrite
  <2> QED
    BY <2>1, <2>2, <2>3, <2>4 DEF InputInv
<1>4. CASE Head(inq) # 0 /\ delivered' = Append(delivered, Head(inq))
  <2>1. /\ delivered' \in Seq(Nat) /\ Len(delivered') = Len(delivered) + 1
        /\ \A j \in 1 .. Len(delivered) : delivered'[j] = delivered[j]
        /\ delivered'[Len(delivered) + 1] = inq[1]
    BY <1>1, <1>2, <1>4
  <2>2. /\ inq[1] \in 1 .. Len(writes) /\ writes[inq[1]].at \in {"submitted", "ambiguous"}
        /\ \A j \in 1 .. Len(delivered) : delivered[j] < inq[1]
        /\ \A j \in 1 .. Len(inq) : inq[j] # 0 => j = 1
    BY <1>1, <1>4 DEF InputInv, OneInThePipe, IsWrite
  <2>3. ProcessType' /\ WritesInOrder'
    BY <1>1, <2>1 DEF InputInv, ProcessType, WritesInOrder
  <2>4. OneInThePipe'
    BY <1>1, <2>2 DEF OneInThePipe
  <2>5. ArrivedInOrder'
    <3>1. ASSUME NEW j \in 1 .. Len(delivered')
          PROVE  /\ delivered'[j] \in 1 .. Len(writes)
                 /\ writes[delivered'[j]].at \in {"submitted", "acknowledged", "ambiguous"}
      <4>1. CASE j \in 1 .. Len(delivered)
        BY <4>1, <2>1 DEF InputInv, ArrivedInOrder, IsWrite
      <4>2. CASE j = Len(delivered) + 1
        BY <4>2, <2>1, <2>2
      <4> QED
        BY <4>1, <4>2, <1>2, <2>1
    <3>2. ASSUME NEW i \in 1 .. Len(delivered'), NEW j \in 1 .. Len(delivered'), i < j
          PROVE  delivered'[i] < delivered'[j]
      <4>1. i \in 1 .. Len(delivered) /\ delivered'[i] = delivered[i]
        BY <3>2, <1>2, <2>1
      <4>2. CASE j \in 1 .. Len(delivered)
        BY <3>2, <4>1, <4>2, <2>1 DEF InputInv, ArrivedInOrder
      <4>3. CASE j = Len(delivered) + 1
        BY <4>1, <4>3, <2>1, <2>2
      <4> QED
        BY <4>2, <4>3, <1>2, <2>1
    <3>3. ASSUME NEW w \in 1 .. Len(writes), writes[w].at = "acknowledged"
          PROVE  \E j \in 1 .. Len(delivered') : delivered'[j] = w
      <4>1. PICK j \in 1 .. Len(delivered) : delivered[j] = w
        BY <3>3 DEF InputInv, ArrivedInOrder
      <4>2. j \in 1 .. Len(delivered') /\ delivered'[j] = w
        BY <4>1, <1>2, <2>1
      <4> QED
        BY <4>2
    <3> QED
      BY <3>1, <3>2, <3>3 DEF ArrivedInOrder, IsWrite
  <2>6. ASSUME NEW i \in 1 .. Len(outq) PROVE TrueAnswer(outq[i])'
    <3>1. TrueAnswer(outq[i])
      BY DEF InputInv
    <3>2. 1 \in 1 .. Len(inq)
      BY <1>1
    <3>3. ASSUME \E j \in 1 .. Len(delivered) : delivered[j] = outq[i].of
          PROVE  \E j \in 1 .. Len(delivered') : delivered'[j] = outq[i].of
      <4>1. PICK j \in 1 .. Len(delivered) : delivered[j] = outq[i].of
        BY <3>3
      <4>2. j \in 1 .. Len(delivered') /\ delivered'[j] = outq[i].of
        BY <4>1, <1>2, <2>1
      <4> QED
        BY <4>2
    <3>4. ASSUME \A j \in 1 .. Len(delivered) : delivered[j] # outq[i].of,
                 \A j \in 1 .. Len(inq) : inq[j] # outq[i].of
          PROVE  /\ \A j \in 1 .. Len(delivered') : delivered'[j] # outq[i].of
                 /\ \A j \in 1 .. Len(inq') : inq'[j] # outq[i].of
      <4>1. \A j \in 1 .. Len(inq') : inq'[j] # outq[i].of
        BY <3>4, <1>1
      <4>2. ASSUME NEW j \in 1 .. Len(delivered') PROVE delivered'[j] # outq[i].of
        <5>1. CASE j \in 1 .. Len(delivered)
          BY <3>4, <5>1, <2>1
        <5>2. CASE j = Len(delivered) + 1
          BY <3>4, <5>2, <3>2, <2>1
        <5> QED
          BY <5>1, <5>2, <1>2, <2>1
      <4> QED
        BY <4>1, <4>2
    <3> QED
      BY <3>1, <3>3, <3>4 DEF TrueAnswer, IsWrite
  <2> QED
    BY <2>3, <2>4, <2>5, <2>6 DEF InputInv
<1> QED
  BY <1>3, <1>4

(* The relay takes a command: a write it passes on or refuses, or the       *)
(* cancellation (input_loop).                                               *)
LEMMA CommandRead == ASSUME InputInv, Process!RelayInput PROVE InputInv'
<1>1. /\ inq # <<>> /\ inq' = Tail(inq)
      /\ UNCHANGED <<writes, att, produced, outq>>
  BY DEF Process!RelayInput, Process!host
<1>2. /\ Head(inq) = inq[1] /\ inq[1] \in Nat /\ Len(inq) \in Nat /\ Len(inq) >= 1
      /\ Len(inq') = Len(inq) - 1
      /\ \A i \in 1 .. Len(inq') : i + 1 \in 1 .. Len(inq) /\ inq'[i] = inq[i + 1]
  <2>1. inq \in Seq(Nat)
    BY DEF InputInv, ProcessType
  <2> QED
    BY <2>1, <1>1, TailTaken
<1>3. CASE Head(inq) = 0
  <2>1. PICK kind \in {"cancel_ack", "cancel_rejected"} : reply' = [kind |-> kind, of |-> None]
    BY <1>3 DEF Process!RelayInput, Process!CancelFrame, Process!CancelCommand, Process!Frame
  <2>2. delivered' = delivered
    BY <1>3 DEF Process!RelayInput, Process!CancelFrame
  <2>3. reply' \in Frames
    BY <2>1 DEF Frames, Process!Kinds
  <2>4. TrueAnswer(reply)'
    BY <2>1 DEF TrueAnswer, Process!Settled
  <2> QED
    BY <1>1, <2>2, <2>3, <2>4, CommandTaken
<1>4. CASE Head(inq) # 0
  <2>0. Process!WriteCommand(inq[1])
    BY <1>2, <1>4 DEF Process!RelayInput, Process!CancelFrame
  <2>1. /\ inq[1] \in 1 .. Len(writes) /\ writes[inq[1]].at \in {"submitted", "ambiguous"}
        /\ \A j \in 1 .. Len(delivered) : delivered[j] < inq[1]
        /\ \A j \in 1 .. Len(inq) : inq[j] # 0 => j = 1
    BY <1>2, <1>4 DEF InputInv, OneInThePipe, IsWrite
  <2>2. CASE /\ delivered' = Append(delivered, inq[1])
             /\ \E answer \in {"acknowledged", "ambiguous"} :
                  reply' = [kind |-> answer, of |-> inq[1]]
    <3>1. delivered \in Seq(Nat) /\ Len(delivered) \in Nat
      BY DEF InputInv, ProcessType
    <3>2. Len(delivered') = Len(delivered) + 1 /\ delivered'[Len(delivered) + 1] = inq[1]
      BY <2>2, <3>1, <1>2
    <3>3. reply' \in Frames
      BY <2>2, <1>2 DEF Frames, Process!Kinds, Process!Settled
    <3>4. TrueAnswer(reply)'
      <4>1. reply'.of = inq[1] /\ reply'.kind # "rejected"
        BY <2>2
      <4>2. Len(delivered) + 1 \in 1 .. Len(delivered')
        BY <3>1, <3>2
      <4> QED
        BY <2>1, <3>2, <4>1, <4>2, <1>1 DEF TrueAnswer, IsWrite
    <3> QED
      BY <2>2, <3>3, <3>4, <1>1, <1>2, <1>4, CommandTaken
  <2>3. CASE delivered' = delivered /\ reply' = [kind |-> "rejected", of |-> inq[1]]
    <3>1. reply' \in Frames
      BY <2>3, <1>2 DEF Frames, Process!Kinds, Process!Settled
    <3>2. \A i \in 1 .. Len(inq') : inq'[i] # inq[1]
      <4> SUFFICES ASSUME NEW i \in 1 .. Len(inq'), inq'[i] = inq[1] PROVE FALSE
        OBVIOUS
      <4>1. i + 1 \in 1 .. Len(inq) /\ inq[i + 1] # 0
        BY <1>2, <1>4
      <4>2. i + 1 = 1
        BY <4>1, <2>1
      <4> QED
        BY <4>2
    <3>3. \A j \in 1 .. Len(delivered) : delivered[j] # inq[1]
      BY <2>1, <1>2
    <3>4. TrueAnswer(reply)'
      BY <2>1, <2>3, <3>2, <3>3, <1>1 DEF TrueAnswer, IsWrite
    <3> QED
      BY <2>3, <3>1, <3>4, <1>1, CommandTaken
  <2> QED
    BY <2>0, <2>2, <2>3 DEF Process!WriteCommand, Process!Frame
<1> QED
  BY <1>3, <1>4

(* The relay's answer enters the pipe to the Worker.                        *)
LEMMA AnswerSent == ASSUME InputInv, Process!RelayReply PROVE InputInv'
<1>1. /\ reply # None /\ outq' = Append(outq, reply) /\ reply' = None
      /\ UNCHANGED <<writes, att, inq, produced, delivered>>
  BY DEF Process!RelayReply, Process!send, Process!host
<1>2. /\ outq \in Seq(Frames) /\ reply \in Frames /\ Len(outq) \in Nat
      /\ TrueAnswer(reply)
  BY <1>1 DEF InputInv, ProcessType
<1>3. /\ outq' \in Seq(Frames) /\ Len(outq') = Len(outq) + 1
      /\ \A i \in 1 .. Len(outq) : outq'[i] = outq[i]
      /\ outq'[Len(outq) + 1] = reply
  BY <1>1, <1>2
<1>4. ProcessType' /\ WritesInOrder' /\ OneInThePipe' /\ ArrivedInOrder'
  BY <1>1, <1>3 DEF InputInv, ProcessType, WritesInOrder, OneInThePipe, ArrivedInOrder, IsWrite
<1>5. ASSUME NEW i \in 1 .. Len(outq') PROVE TrueAnswer(outq[i])'
  <2>1. TrueAnswer(outq'[i])
    BY <1>2, <1>3 DEF InputInv
  <2> QED
    BY <2>1, <1>1 DEF TrueAnswer, IsWrite
<1> QED
  BY <1>1, <1>4, <1>5 DEF InputInv

(* The write that awaits its answer is uncertain: none came in time, or the *)
(* transport is gone.                                                       *)
LEMMA WriteUncertain ==
    ASSUME InputInv, writes' = Process!Answered("ambiguous"),
           UNCHANGED <<inq, delivered, reply, produced>>,
           DOMAIN att' = DOMAIN att,
           att'.writeClosed = (att.writeClosed \/ Process!InputEnds("ambiguous")),
           outq' = outq \/ outq' = <<>>
    PROVE  InputInv'
<1>1. outq' \in Seq(Frames)
  <2>1. <<>> \in Seq(Frames)
    OBVIOUS
  <2> QED
    BY <2>1 DEF InputInv, ProcessType
<1>2. \A i \in 1 .. Len(outq') : \E j \in 1 .. Len(outq) : outq'[i] = outq[j]
  BY Len(<<>>) = 0
<1>3. "ambiguous" \in Process!Settled
  BY DEF Process!Settled
<1> QED
  BY <1>1, <1>2, <1>3, WriteAnswered

(* The Worker handles the first frame of the pipe (run).                    *)
LEMMA FrameHandled == ASSUME InputInv, Process!HandleFrame PROVE InputInv'
<1>1. /\ outq # <<>> /\ outq' = Tail(outq)
      /\ UNCHANGED <<inq, reply, delivered, produced>>
  BY DEF Process!HandleFrame, Process!guest
<1> DEFINE f == Head(outq)
<1>2. /\ f = outq[1] /\ f \in Frames /\ Len(outq) \in Nat /\ Len(outq) >= 1
      /\ outq' \in Seq(Frames) /\ Len(outq') = Len(outq) - 1
      /\ \A i \in 1 .. Len(outq') : i + 1 \in 1 .. Len(outq) /\ outq'[i] = outq[i + 1]
  <2>1. outq \in Seq(Frames)
    BY DEF InputInv, ProcessType
  <2> QED
    BY <2>1, <1>1, TailTaken
<1>3. \A i \in 1 .. Len(outq') : \E j \in 1 .. Len(outq) : outq'[i] = outq[j]
  BY <1>2
<1>4. TrueAnswer(f)
  BY <1>2 DEF InputInv
<1>5. DOMAIN att = {"terminal", "disconnected", "writeClosed", "targetExited", "eof"}
  BY DEF InputInv, ProcessType
<1>6. produced' \in [Streams -> Nat]
  BY <1>1 DEF InputInv, ProcessType
<1> HIDE DEF f
<1>7. CASE Process!HandleOutput(f)
  <2>1. writes' = writes /\ DOMAIN att' = DOMAIN att /\ att'.writeClosed = att.writeClosed
    BY <1>5, <1>7 DEF Process!HandleOutput
  <2> QED
    BY <2>1, <1>1, <1>2, <1>3, <1>6, FramesCome
<1>8. CASE Process!HandleCancelAnswer(f)
  <2>1. writes' = writes /\ att' = att
    BY <1>8 DEF Process!HandleCancelAnswer
  <2> QED
    BY <2>1, <1>1, <1>2, <1>3, <1>6, FramesCome
<1>9. CASE Process!HandleExit(f)
  <2>1. writes' = writes /\ DOMAIN att' = DOMAIN att /\ att'.writeClosed = att.writeClosed
    BY <1>5, <1>9 DEF Process!HandleExit
  <2> QED
    BY <2>1, <1>1, <1>2, <1>3, <1>6, FramesCome
<1>10. CASE Process!HandleAnswer(f)
  <2>1. f.kind \in Process!Settled
    BY <1>10 DEF Process!HandleAnswer
  <2>2. CASE f.of \notin Process!Submitted
    <3>1. writes' = writes
      BY <2>2, <1>10 DEF Process!HandleAnswer
    <3>2. DOMAIN att' = DOMAIN att /\ att'.writeClosed = att.writeClosed
      BY <2>2, <1>5, <1>10 DEF Process!HandleAnswer, InputInv, ProcessType
    <3> QED
      BY <3>1, <3>2, <1>1, <1>2, <1>3, <1>6, FramesCome
  <2>3. CASE f.of \in Process!Submitted
    <3>1. writes' = Process!Answered(f.kind)
      BY <2>3, <1>10 DEF Process!HandleAnswer
    <3>2. /\ DOMAIN att' = DOMAIN att
          /\ att'.writeClosed = (att.writeClosed \/ Process!InputEnds(f.kind))
      BY <2>3, <1>5, <1>10 DEF Process!HandleAnswer
    <3>3. Process!Submitted = {f.of}
      BY <2>3, OneSubmitted
    <3>4. f.kind = "acknowledged" => \A w \in Process!Submitted :
            \E j \in 1 .. Len(delivered) : delivered[j] = w
      BY <3>3, <2>1, <1>4 DEF TrueAnswer
    <3>5. f.kind = "rejected" => \A w \in Process!Submitted :
            /\ \A j \in 1 .. Len(delivered) : delivered[j] # w
            /\ \A i \in 1 .. Len(inq) : inq[i] # w
      BY <3>3, <2>1, <1>4 DEF TrueAnswer
    <3> QED
      BY <2>1, <3>1, <3>2, <3>4, <3>5, <1>1, <1>2, <1>3, WriteAnswered
  <2> QED
    BY <2>2, <2>3
<1> QED
  BY <1>7, <1>8, <1>9, <1>10 DEF Process!HandleFrame, f

(* A frame that answers no write is sent.                                   *)
LEMMA FrameSent ==
    ASSUME InputInv, NEW f \in Frames, f.kind \notin Process!Settled,
           outq' = Append(outq, f), UNCHANGED <<writes, inq, delivered, reply, att>>,
           produced' \in [Streams -> Nat]
    PROVE  InputInv'
<1>1. outq \in Seq(Frames) /\ Len(outq) \in Nat
  BY DEF InputInv, ProcessType
<1>2. /\ outq' \in Seq(Frames) /\ Len(outq') = Len(outq) + 1
      /\ \A i \in 1 .. Len(outq) : outq'[i] = outq[i]
      /\ outq'[Len(outq) + 1] = f
  BY <1>1
<1>3. ASSUME NEW i \in 1 .. Len(outq')
      PROVE  \/ outq'[i].kind \notin Process!Settled
             \/ \E j \in 1 .. Len(outq) : outq'[i] = outq[j]
  <2>1. CASE i \in 1 .. Len(outq)
    BY <2>1, <1>2
  <2>2. CASE i = Len(outq) + 1
    BY <2>2, <1>2
  <2> QED
    BY <2>1, <2>2, <1>1, <1>2
<1> QED
  BY <1>2, <1>3, FramesCome

(* Nothing about the input changes, and no frame enters the pipe.           *)
LEMMA InputIdles ==
    ASSUME InputInv, UNCHANGED <<writes, inq, delivered, reply, produced>>,
           outq' = outq \/ outq' = <<>>,
           DOMAIN att' = DOMAIN att, att'.writeClosed = att.writeClosed
    PROVE  InputInv'
<1>1. outq' \in Seq(Frames)
  <2>1. <<>> \in Seq(Frames)
    OBVIOUS
  <2> QED
    BY <2>1 DEF InputInv, ProcessType
<1>2. \A i \in 1 .. Len(outq') : \E j \in 1 .. Len(outq) : outq'[i] = outq[j]
  BY Len(<<>>) = 0
<1>3. produced' \in [Streams -> Nat]
  BY DEF InputInv, ProcessType
<1> QED
  BY <1>1, <1>2, <1>3, FramesCome

(* The attachment is disconnected (disconnectState).                        *)
LEMMA Disconnected ==
    ASSUME InputInv, Process!disconnectState, UNCHANGED <<inq, delivered, reply, produced>>
    PROVE  InputInv'
<1>1. DOMAIN att = {"terminal", "disconnected", "writeClosed", "targetExited", "eof"}
  BY DEF InputInv, ProcessType
<1>2. CASE att.disconnected
  <2>1. UNCHANGED <<writes, att, outq>>
    BY <1>2 DEF Process!disconnectState
  <2> QED
    BY <2>1, InputIdles
<1>3. CASE ~att.disconnected
  <2>1. /\ writes' = Process!Answered("ambiguous") /\ outq' = <<>>
        /\ DOMAIN att' = DOMAIN att
        /\ att'.writeClosed = (att.writeClosed \/ Process!InputEnds("ambiguous"))
    BY <1>1, <1>3 DEF Process!disconnectState
  <2> QED
    BY <2>1, WriteUncertain
<1> QED
  BY <1>2, <1>3

(* The other frames of the guest: output, the end of a stream and the exit. *)
LEMMA GuestSpeaks ==
    ASSUME Process!StreamedProcessAssumption, InputInv,
           \/ Process!RelayExit
           \/ \E s \in Streams : Process!TargetOutput(s) \/ Process!RelayEof(s)
    PROVE  InputInv'
<1>0. produced \in [Streams -> Nat]
  BY DEF InputInv, ProcessType
<1>1. CASE Process!RelayExit
  <2> DEFINE f == [kind |-> "exit", of |-> None]
  <2>1. f \in Frames /\ f.kind \notin Process!Settled
    BY DEF Frames, Process!Kinds, Process!Settled
  <2>2. outq' = Append(outq, f)
    BY <1>1 DEF Process!RelayExit, Process!send, Process!Frame
  <2>3. UNCHANGED <<writes, inq, delivered, reply, att, produced>>
    BY <1>1 DEF Process!RelayExit, Process!host, Process!guest
  <2> QED
    BY <2>1, <2>2, <2>3, <1>0, FrameSent
<1>2. ASSUME NEW s \in Streams, Process!RelayEof(s) PROVE InputInv'
  <2> DEFINE f == [kind |-> "eof", of |-> s]
  <2>1. f \in Frames /\ f.kind \notin Process!Settled
    BY DEF Frames, Process!Kinds, Process!Settled
  <2>2. outq' = Append(outq, f)
    BY <1>2 DEF Process!RelayEof, Process!send, Process!Frame
  <2>3. UNCHANGED <<writes, inq, delivered, reply, att, produced>>
    BY <1>2 DEF Process!RelayEof, Process!host
  <2> QED
    BY <2>1, <2>2, <2>3, <1>0, FrameSent
<1>3. ASSUME NEW s \in Streams, Process!TargetOutput(s) PROVE InputInv'
  <2>1. /\ produced' = [produced EXCEPT ![s] = @ + 1]
        /\ outq' = Append(outq, [kind |-> s, of |-> produced'[s]])
        /\ UNCHANGED <<writes, inq, delivered, reply, att>>
    BY <1>3 DEF Process!TargetOutput, Process!send, Process!Frame, Process!host
  <2>2. produced' \in [Streams -> Nat]
    BY <2>1, <1>0
  <2> DEFINE f == [kind |-> s, of |-> produced'[s]]
  <2>3. f \in Frames /\ f.kind \notin Process!Settled
    BY <2>2 DEF Frames, Process!StreamedProcessAssumption, Process!Kinds
  <2> QED
    BY <2>1, <2>2, <2>3, FrameSent
<1> QED
  BY <1>1, <1>2, <1>3

(* Cancellation, by the caller or by retirement (cancelState).              *)
LEMMA CancelMoves ==
    ASSUME InputInv, Process!Cancel \/ Process!Retire PROVE InputInv'
<1>1. UNCHANGED <<writes, att, delivered, reply, produced, outq>>
  BY DEF Process!Cancel, Process!Retire, Process!guest
<1>2. inq' = inq \/ inq' = Append(inq, 0)
  BY DEF Process!Cancel, Process!Retire, Process!cancelState, Process!CancelFrame
<1> QED
  BY <1>1, <1>2, CancelSent, InputIdles

(* Every step of the process keeps the invariant.                           *)
LEMMA InputStep ==
    Process!StreamedProcessAssumption /\ InputInv /\ [Process!Next]_Process!vars => InputInv'
<1> SUFFICES ASSUME Process!StreamedProcessAssumption, InputInv, [Process!Next]_Process!vars
             PROVE  InputInv'
  OBVIOUS
<1>0. DOMAIN att = {"terminal", "disconnected", "writeClosed", "targetExited", "eof"}
  BY DEF InputInv, ProcessType
<1>1. CASE Process!RelayInput
  BY <1>1, CommandRead
<1>2. CASE Process!RelayReply
  BY <1>2, AnswerSent
<1>3. CASE Process!RelayExit \/ \E s \in Streams : Process!TargetOutput(s) \/ Process!RelayEof(s)
  BY <1>3, GuestSpeaks
<1>4. CASE \/ Process!TargetExit \/ Process!Spawn \/ Process!Open \/ Process!Attach
           \/ Process!CancelTimeout \/ Process!RetireDone
           \/ Process!ChildExits \/ Process!ChildDies \/ Process!EnvironmentLost
           \/ \E s \in Streams : Process!Read(s)
  <2>1. UNCHANGED <<writes, att, inq, delivered, reply, produced>> /\ (outq' = outq \/ outq' = <<>>)
    BY <1>4 DEF Process!TargetExit, Process!Spawn, Process!Open, Process!Attach,
         Process!CancelTimeout, Process!RetireDone, Process!ChildExits, Process!ChildDies,
         Process!EnvironmentLost, Process!Read, Process!host, Process!guest
  <2> QED
    BY <2>1, InputIdles
<1>5. CASE \E close \in BOOLEAN : Process!Write(close)
  BY <1>5, WriteQueued
<1>6. CASE \E w \in DOMAIN writes : Process!SubmitWrite(w)
  BY <1>6, WriteSubmitted
<1>7. CASE Process!AckTimeout
  <2>1. /\ writes' = Process!Answered("ambiguous")
        /\ att' = [att EXCEPT !.writeClosed = @ \/ Process!InputEnds("ambiguous")]
        /\ UNCHANGED <<inq, delivered, reply, produced, outq>>
    BY <1>7 DEF Process!AckTimeout, Process!guest
  <2>2. /\ DOMAIN att' = DOMAIN att
        /\ att'.writeClosed = (att.writeClosed \/ Process!InputEnds("ambiguous"))
    BY <2>1, <1>0
  <2> QED
    BY <2>1, <2>2, WriteUncertain
<1>8. CASE Process!Cancel \/ Process!Retire
  BY <1>8, CancelMoves
<1>9. CASE Process!HandleFrame
  BY <1>9, FrameHandled
<1>10. CASE Process!RunEnds
  <2>1. /\ writes' = Process!Answered("ambiguous")
        /\ att' = [att EXCEPT !.terminal = Process!settleExit("unavailable"),
                              !.writeClosed = @ \/ Process!InputEnds("ambiguous")]
        /\ UNCHANGED <<inq, delivered, reply, produced, outq>>
    BY <1>10 DEF Process!RunEnds, Process!guest
  <2>2. /\ DOMAIN att' = DOMAIN att
        /\ att'.writeClosed = (att.writeClosed \/ Process!InputEnds("ambiguous"))
    BY <2>1, <1>0
  <2> QED
    BY <2>1, <2>2, WriteUncertain
<1>11. CASE Process!Disconnect \/ Process!RetireDisconnects
  <2>1. Process!disconnectState /\ UNCHANGED <<inq, delivered, reply, produced>>
    BY <1>11 DEF Process!Disconnect, Process!RetireDisconnects, Process!guest
  <2> QED
    BY <2>1, Disconnected
<1>12. CASE Process!DisconnectSettles
  <2>1. /\ UNCHANGED <<writes, inq, delivered, reply, produced, outq>>
        /\ att' = [att EXCEPT !.terminal = Process!settleExit("unavailable")]
    BY <1>12 DEF Process!DisconnectSettles, Process!guest
  <2>2. DOMAIN att' = DOMAIN att /\ att'.writeClosed = att.writeClosed
    BY <2>1, <1>0
  <2> QED
    BY <2>1, <2>2, InputIdles
<1>13. CASE UNCHANGED Process!vars
  <2>1. UNCHANGED <<writes, att, inq, delivered, reply, produced, outq>>
    BY <1>13 DEF Process!vars
  <2> QED
    BY <2>1, InputIdles
<1> QED
  BY <1>1, <1>2, <1>3, <1>4, <1>5, <1>6, <1>7, <1>8, <1>9, <1>10, <1>11, <1>12, <1>13
     DEF Process!Next

(* Whatever the delays of the two pipes, an expired wait, a late answer, a  *)
(* cancellation, a disconnection and the loss of the launcher do to it, a   *)
(* caller told that its write was acknowledged wrote to the target, one     *)
(* told that it was rejected did not, and nothing follows an uncertain one  *)
(* (request, resolveWaiter).                                                *)
THEOREM CertaintyIsAlwaysTrue ==
    ASSUME Process!StreamedProcessAssumption PROVE Process!Spec => []CertaintyIsTrue
<1>1. Process!Spec => []InputInv
  BY InputInit, InputStep, PTL DEF Process!Spec
<1>2. InputInv => CertaintyIsTrue
  <2> SUFFICES ASSUME InputInv PROVE CertaintyIsTrue
    OBVIOUS
  <2>1. DOMAIN writes = 1 .. Len(writes) /\ DOMAIN delivered = 1 .. Len(delivered)
    BY DEF InputInv, ProcessType
  <2>2. \A w : Process!Contains(delivered, w) <=> \E j \in 1 .. Len(delivered) : delivered[j] = w
    BY DEF Process!Contains
  <2>3. ASSUME NEW w \in 1 .. Len(writes)
        PROVE  /\ writes[w].at = "acknowledged" => Process!Contains(delivered, w)
               /\ writes[w].at = "rejected" => ~Process!Contains(delivered, w)
               /\ writes[w].at = "ambiguous" =>
                    \A v \in 1 .. Len(writes) : v > w => writes[v].at \in {"queued", "rejected"}
    <3>1. writes[w].at = "acknowledged" => Process!Contains(delivered, w)
      BY <2>2 DEF InputInv, ArrivedInOrder
    <3>2. writes[w].at = "rejected" => ~Process!Contains(delivered, w)
      BY <2>2 DEF InputInv, ArrivedInOrder
    <3>3. writes[w].at = "ambiguous" =>
            \A v \in 1 .. Len(writes) : v > w => writes[v].at \in {"queued", "rejected"}
      BY DEF InputInv, WritesInOrder
    <3> QED
      BY <3>1, <3>2, <3>3
  <2> QED
    BY <2>1, <2>3 DEF CertaintyIsTrue, Process!CertaintyIsTrue, InputInv, ArrivedInOrder
<1> QED
  BY <1>1, <1>2, PTL
-----------------------------------------------------------------------------
(* The output of a streamed process (StreamedProcess).                      *)

Marks == {Process!Eof, Process!Error, Process!Done}

(* Of what a reader got and what its stream still buffers, the first n are  *)
(* the first n chunks, and the rest tells of an end.                        *)
InOrder(got, items, n) ==
    /\ n <= Len(got) + Len(items)
    /\ \A i \in 1 .. Len(got) : IF i <= n THEN got[i] = i ELSE got[i] \in Marks
    /\ \A i \in 1 .. Len(items) :
         IF Len(got) + i <= n THEN items[i] = Len(got) + i ELSE items[i] \in Marks

Told(got, items, mark) ==
    \/ \E i \in 1 .. Len(got) : got[i] = mark
    \/ \E i \in 1 .. Len(items) : items[i] = mark

StreamType(s) ==
    /\ received[s] \in Seq(Int)
    /\ stream[s] \in [items : Seq(Int), reader : BOOLEAN, closed : BOOLEAN]

(* The first n chunks are all that the target printed, and it printed its   *)
(* last one.                                                                *)
AllPassed(s, n) == n = produced[s] /\ target = "exited"

(* The Worker took n chunks of a stream out of the pipe.  What its reader    *)
(* is told of the end of the stream is true.                                *)
Passed(s, n) ==
    /\ InOrder(received[s], stream[s].items, n)
    /\ Told(received[s], stream[s].items, Process!Eof) => AllPassed(s, n)
    /\ s \in att.eof /\ ~att.disconnected => AllPassed(s, n)
    /\ Told(received[s], stream[s].items, Process!Error) => stream[s].closed
    /\ Told(received[s], stream[s].items, Process!Done) =>
         stream[s].closed /\ stream[s].items = <<>>
    /\ stream[s].reader => stream[s].items = <<>> /\ ~stream[s].closed
    /\ stream[s].closed =>
         \/ att.disconnected \/ AllPassed(s, n)
         \/ Told(received[s], stream[s].items, Process!Error)
    /\ att.disconnected => stream[s].closed

(* The chunks behind the first n are in the pipe, in order and before the   *)
(* end of their stream; all of them, unless the launcher was lost.          *)
Piped(s, n) ==
    /\ stream[s].closed => outq = <<>> /\ child # "up" /\ spawn \in {"attached", "gone"}
    /\ \A i \in 1 .. Len(outq) : outq[i].kind = s =>
         /\ outq[i].of \in (n + 1) .. produced[s]
         /\ \A j \in 1 .. (i - 1) :
              /\ outq[j].kind = s => outq[j].of < outq[i].of
              /\ ~(outq[j].kind = "eof" /\ outq[j].of = s)
         /\ \A m \in (n + 1) .. (outq[i].of - 1) :
              \E j \in 1 .. (i - 1) : outq[j].kind = s /\ outq[j].of = m
    /\ \A i \in 1 .. Len(outq) : outq[i].kind = "eof" /\ outq[i].of = s => target = "exited"
    /\ child \in {"none", "up"} \/ target = "exited" =>
         \/ spawn = "failed" \/ stream[s].closed
         \/ \A m \in (n + 1) .. produced[s] :
              \E i \in 1 .. Len(outq) : outq[i].kind = s /\ outq[i].of = m

OutputType ==
    /\ DOMAIN received = Streams /\ DOMAIN stream = Streams
    /\ DOMAIN att = {"terminal", "disconnected", "writeClosed", "targetExited", "eof"}
    /\ att.disconnected \in BOOLEAN
    /\ outq \in Seq(Frames) /\ produced \in [Streams -> Nat]
    /\ \A s \in Streams : StreamType(s)

OutputInv ==
    /\ OutputType
    /\ spawn \in {"idle", "requested"} => child = "none" /\ target = "none"
    /\ spawn = "failed" => child = "dead"
    /\ retire \in {"disconnecting", "cancelling"} => spawn \in {"attached", "gone"}
    /\ reply # None => reply \in Frames /\ reply.kind \in Process!Kinds \ {"eof", "exit"}
    /\ \A s \in Streams : \E n \in 0 .. produced[s] : Passed(s, n) /\ Piped(s, n)

(* A reader takes the first item its stream buffers.                        *)
LEMMA ItemTaken ==
    ASSUME NEW got \in Seq(Int), NEW items \in Seq(Int), items # <<>>, NEW n \in Nat,
           InOrder(got, items, n)
    PROVE  /\ Append(got, Head(items)) \in Seq(Int) /\ Tail(items) \in Seq(Int)
           /\ InOrder(Append(got, Head(items)), Tail(items), n)
           /\ \A mark \in Marks : Told(Append(got, Head(items)), Tail(items), mark)
                                    <=> Told(got, items, mark)
<1> DEFINE got1 == Append(got, Head(items))
           items1 == Tail(items)
<1>1. /\ items[1] \in Int /\ Len(items) \in Nat /\ Len(items) >= 1 /\ Head(items) = items[1]
      /\ items1 \in Seq(Int) /\ Len(items1) = Len(items) - 1
      /\ \A i \in 1 .. Len(items1) : i + 1 \in 1 .. Len(items) /\ items1[i] = items[i + 1]
  BY TailTaken
<1>2. /\ got1 \in Seq(Int) /\ Len(got) \in Nat /\ Len(got1) = Len(got) + 1
      /\ got1[Len(got) + 1] = items[1] /\ \A i \in 1 .. Len(got) : got1[i] = got[i]
  BY <1>1
<1> HIDE DEF got1, items1
<1>3. ASSUME NEW i \in 1 .. Len(got1)
      PROVE  IF i <= n THEN got1[i] = i ELSE got1[i] \in Marks
  <2>1. CASE i \in 1 .. Len(got)
    BY <2>1, <1>2 DEF InOrder
  <2>2. CASE i = Len(got) + 1
    BY <2>2, <1>1, <1>2 DEF InOrder
  <2> QED
    BY <2>1, <2>2, <1>2
<1>4. ASSUME NEW i \in 1 .. Len(items1)
      PROVE  IF Len(got1) + i <= n THEN items1[i] = Len(got1) + i ELSE items1[i] \in Marks
  <2>1. Len(got1) + i = Len(got) + (i + 1)
    BY <1>2
  <2> QED
    BY <2>1, <1>1 DEF InOrder
<1>5. n <= Len(got1) + Len(items1)
  BY <1>1, <1>2 DEF InOrder
<1>6. ASSUME NEW mark \in Marks PROVE Told(got1, items1, mark) <=> Told(got, items, mark)
  <2>1. ASSUME NEW i \in 1 .. Len(got1), got1[i] = mark PROVE Told(got, items, mark)
    <3>1. CASE i \in 1 .. Len(got)
      BY <3>1, <2>1, <1>2 DEF Told
    <3>2. CASE i = Len(got) + 1
      <4>1. 1 \in 1 .. Len(items) /\ items[1] = mark
        BY <3>2, <2>1, <1>1, <1>2
      <4> QED
        BY <4>1 DEF Told
    <3> QED
      BY <3>1, <3>2, <1>2
  <2>2. ASSUME NEW i \in 1 .. Len(items1), items1[i] = mark PROVE Told(got, items, mark)
    BY <2>2, <1>1 DEF Told
  <2>3. ASSUME NEW i \in 1 .. Len(got), got[i] = mark PROVE Told(got1, items1, mark)
    <3>1. i \in 1 .. Len(got1) /\ got1[i] = mark
      BY <2>3, <1>2
    <3> QED
      BY <3>1 DEF Told
  <2>4. ASSUME NEW i \in 1 .. Len(items), items[i] = mark PROVE Told(got1, items1, mark)
    <3>1. CASE i = 1
      <4>1. Len(got1) \in 1 .. Len(got1) /\ got1[Len(got1)] = mark
        BY <2>4, <3>1, <1>1, <1>2
      <4> QED
        BY <4>1 DEF Told
    <3>2. CASE i # 1
      <4>1. i - 1 \in 1 .. Len(items1) /\ (i - 1) + 1 = i
        BY <3>2, <1>1
      <4>2. items1[i - 1] = mark
        BY <4>1, <2>4, <1>1
      <4> QED
        BY <4>1, <4>2 DEF Told
    <3> QED
      BY <3>1, <3>2
  <2> QED
    BY <2>1, <2>2, <2>3, <2>4 DEF Told
<1> QED
  BY <1>1, <1>2, <1>3, <1>4, <1>5, <1>6 DEF InOrder, got1, items1

(* An item is buffered: a mark, or the next chunk before any mark.          *)
LEMMA ItemBuffered ==
    ASSUME NEW got \in Seq(Int), NEW items \in Seq(Int), NEW n \in Nat, NEW k \in Nat,
           InOrder(got, items, n), NEW item \in Int,
           \/ k = n /\ item \in Marks
           \/ k = n + 1 /\ item = k /\ n = Len(got) + Len(items)
    PROVE  /\ Append(items, item) \in Seq(Int)
           /\ InOrder(got, Append(items, item), k)
           /\ \A mark \in Marks : Told(got, Append(items, item), mark)
                                    <=> Told(got, items, mark) \/ mark = item
<1> DEFINE items1 == Append(items, item)
<1>1. /\ items1 \in Seq(Int) /\ Len(items) \in Nat /\ Len(got) \in Nat
      /\ Len(items1) = Len(items) + 1 /\ items1[Len(items) + 1] = item
      /\ \A i \in 1 .. Len(items) : items1[i] = items[i]
  OBVIOUS
<1> HIDE DEF items1
<1>2. /\ n <= Len(got) + Len(items)
      /\ \A i \in 1 .. Len(got) : IF i <= n THEN got[i] = i ELSE got[i] \in Marks
      /\ \A i \in 1 .. Len(items) :
           IF Len(got) + i <= n THEN items[i] = Len(got) + i ELSE items[i] \in Marks
  BY DEF InOrder
<1>3. /\ k <= Len(got) + Len(items1)
      /\ \A i \in 1 .. Len(got) : IF i <= k THEN got[i] = i ELSE got[i] \in Marks
  BY <1>1, <1>2
<1>4. ASSUME NEW i \in 1 .. Len(items1)
      PROVE  IF Len(got) + i <= k THEN items1[i] = Len(got) + i ELSE items1[i] \in Marks
  <2>1. CASE i \in 1 .. Len(items)
    <3>1. items1[i] = items[i] /\ (Len(got) + i <= k <=> Len(got) + i <= n)
      BY <2>1, <1>1, <1>2
    <3> QED
      BY <2>1, <3>1, <1>2
  <2>2. CASE i = Len(items) + 1
    <3>1. items1[i] = item /\ (Len(got) + i <= k <=> k = n + 1)
      BY <2>2, <1>1, <1>2
    <3>2. k = n + 1 => item = Len(got) + i
      BY <2>2, <1>1
    <3> QED
      BY <3>1, <3>2
  <2> QED
    BY <2>1, <2>2, <1>1
<1>5. ASSUME NEW mark \in Marks
      PROVE  Told(got, items1, mark) <=> Told(got, items, mark) \/ mark = item
  <2>1. ASSUME NEW i \in 1 .. Len(items1), items1[i] = mark
        PROVE  mark = item \/ \E j \in 1 .. Len(items) : items[j] = mark
    <3>1. i \in 1 .. Len(items) \/ i = Len(items) + 1
      BY <1>1
    <3> QED
      BY <2>1, <3>1, <1>1
  <2>2. ASSUME NEW i \in 1 .. Len(items), items[i] = mark
        PROVE  \E j \in 1 .. Len(items1) : items1[j] = mark
    BY <2>2, <1>1
  <2>3. mark = item => \E j \in 1 .. Len(items1) : items1[j] = mark
    BY <1>1
  <2> QED
    BY <2>1, <2>2, <2>3 DEF Told
<1> QED
  BY <1>1, <1>3, <1>4, <1>5 DEF InOrder, items1

(* An item is given to a waiting reader, which had taken all others.        *)
LEMMA ItemGiven ==
    ASSUME NEW got \in Seq(Int), NEW n \in Nat, NEW k \in Nat,
           InOrder(got, <<>>, n), NEW item \in Int,
           (k = n /\ item \in Marks) \/ (k = n + 1 /\ item = k /\ n = Len(got))
    PROVE  /\ Append(got, item) \in Seq(Int)
           /\ InOrder(Append(got, item), <<>>, k)
           /\ \A mark \in Marks : Told(Append(got, item), <<>>, mark)
                                    <=> Told(got, <<>>, mark) \/ mark = item
<1> DEFINE got1 == Append(got, item)
<1>1. /\ got1 \in Seq(Int) /\ Len(got) \in Nat /\ Len(<<>>) = 0
      /\ Len(got1) = Len(got) + 1 /\ got1[Len(got) + 1] = item
      /\ \A i \in 1 .. Len(got) : got1[i] = got[i]
  OBVIOUS
<1> HIDE DEF got1
<1>2. /\ n <= Len(got)
      /\ \A i \in 1 .. Len(got) : IF i <= n THEN got[i] = i ELSE got[i] \in Marks
  BY <1>1 DEF InOrder
<1>3. /\ k <= Len(got1)
      /\ \A i \in 1 .. Len(got1) : IF i <= k THEN got1[i] = i ELSE got1[i] \in Marks
  <2>1. k <= Len(got1)
    BY <1>1, <1>2
  <2>2. ASSUME NEW i \in 1 .. Len(got)
        PROVE  IF i <= k THEN got1[i] = i ELSE got1[i] \in Marks
    <3>1. i <= k <=> i <= n
      BY <1>1
    <3> QED
      BY <3>1, <1>1, <1>2
  <2>3. IF Len(got1) <= k THEN got1[Len(got1)] = Len(got1) ELSE got1[Len(got1)] \in Marks
    BY <1>1, <1>2
  <2>4. \A i \in 1 .. Len(got1) : i \in 1 .. Len(got) \/ i = Len(got1)
    BY <1>1
  <2> QED
    BY <2>1, <2>2, <2>3, <2>4
<1>4. ASSUME NEW mark \in Marks
      PROVE  Told(got1, <<>>, mark) <=> Told(got, <<>>, mark) \/ mark = item
  <2>1. ASSUME NEW i \in 1 .. Len(got1), got1[i] = mark
        PROVE  mark = item \/ \E j \in 1 .. Len(got) : got[j] = mark
    <3>1. i \in 1 .. Len(got) \/ i = Len(got) + 1
      BY <1>1
    <3> QED
      BY <2>1, <3>1, <1>1
  <2>2. ASSUME NEW i \in 1 .. Len(got), got[i] = mark
        PROVE  \E j \in 1 .. Len(got1) : got1[j] = mark
    BY <2>2, <1>1
  <2>3. mark = item => \E j \in 1 .. Len(got1) : got1[j] = mark
    BY <1>1
  <2>4. \A i \in 1 .. Len(<<>>) : FALSE
    BY <1>1
  <2> QED
    BY <2>1, <2>2, <2>3, <2>4 DEF Told
<1>5. InOrder(got1, <<>>, k)
  BY <1>1, <1>3 DEF InOrder
<1> QED
  BY <1>1, <1>4, <1>5 DEF got1

(* The buffered items are dropped.                                          *)
LEMMA ItemsDropped ==
    ASSUME NEW got \in Seq(Int), NEW items \in Seq(Int), NEW n \in Nat, InOrder(got, items, n)
    PROVE  /\ InOrder(got, <<>>, IF n <= Len(got) THEN n ELSE Len(got))
           /\ \A mark \in Marks : Told(got, <<>>, mark) => Told(got, items, mark) /\ n <= Len(got)
<1>1. Len(<<>>) = 0 /\ Len(got) \in Nat
  OBVIOUS
<1>2. \A i \in 1 .. Len(got) : got[i] \in Marks => n <= Len(got)
  BY <1>1 DEF InOrder, Marks, Process!Eof, Process!Error, Process!Done
<1>3. InOrder(got, <<>>, IF n <= Len(got) THEN n ELSE Len(got))
  BY <1>1 DEF InOrder
<1>4. \A mark \in Marks : Told(got, <<>>, mark) => Told(got, items, mark) /\ n <= Len(got)
  BY <1>1, <1>2 DEF Told
<1> QED
  BY <1>3, <1>4

(* As long as nothing was told of the end, all that passed are chunks.      *)
LEMMA OnlyChunks ==
    ASSUME NEW got \in Seq(Int), NEW items \in Seq(Int), NEW n \in Nat, InOrder(got, items, n),
           \A mark \in Marks : ~Told(got, items, mark)
    PROVE  n = Len(got) + Len(items)
<1>1. Len(got) \in Nat /\ Len(items) \in Nat /\ n <= Len(got) + Len(items)
  BY DEF InOrder
<1> SUFFICES ASSUME n + 1 <= Len(got) + Len(items) PROVE FALSE
  BY <1>1
<1>2. CASE n + 1 <= Len(got)
  BY <1>1, <1>2 DEF InOrder, Told
<1>3. CASE n >= Len(got)
  <2> DEFINE i == n + 1 - Len(got)
  <2>1. i \in 1 .. Len(items) /\ Len(got) + i = n + 1
    BY <1>1, <1>3
  <2>2. items[i] \in Marks
    BY <2>1, <1>1 DEF InOrder
  <2> QED
    BY <2>1, <2>2 DEF Told
<1> QED
  BY <1>1, <1>2, <1>3

(* Nothing enters or leaves the pipe.                                       *)
LEMMA PipeRests ==
    ASSUME NEW s \in Streams, NEW n \in Nat, Piped(s, n), UNCHANGED outq,
           produced'[s] = produced[s], stream'[s].closed = stream[s].closed,
           target = "exited" => target' = "exited",
           stream[s].closed => child' # "up" /\ spawn' \in {"attached", "gone"},
           spawn = "failed" => spawn' = "failed",
           child' \in {"none", "up"} \/ target' = "exited" =>
             child \in {"none", "up"} \/ target = "exited" \/ spawn' = "failed"
    PROVE  Piped(s, n)'
  BY DEF Piped

(* The pipe is lost, with a process that failed, was abandoned or died.     *)
LEMMA PipeEmptied ==
    ASSUME NEW s \in Streams, NEW n \in Nat, outq' = <<>>,
           stream'[s].closed => child' # "up" /\ spawn' \in {"attached", "gone"},
           \/ spawn' = "failed" \/ stream'[s].closed
           \/ child' \notin {"none", "up"} /\ target' # "exited"
    PROVE  Piped(s, n)'
<1>1. Len(outq') = 0
  OBVIOUS
<1> QED
  BY <1>1 DEF Piped

(* The first frame leaves the pipe.                                         *)
LEMMA FirstFrame ==
    ASSUME outq \in Seq(Frames), outq # <<>>, outq' = Tail(outq)
    PROVE  /\ Head(outq) = outq[1] /\ outq[1] \in Frames
           /\ Len(outq) \in Nat /\ 1 \in 1 .. Len(outq)
           /\ outq' \in Seq(Frames) /\ Len(outq') = Len(outq) - 1
           /\ \A i \in 1 .. Len(outq') : i + 1 \in 2 .. Len(outq) /\ outq'[i] = outq[i + 1]
           /\ \A i \in 2 .. Len(outq) : i - 1 \in 1 .. Len(outq') /\ outq'[i - 1] = outq[i]
<1>1. /\ Head(outq) = outq[1] /\ outq[1] \in Frames /\ Len(outq) \in Nat /\ Len(outq) >= 1
      /\ outq' \in Seq(Frames) /\ Len(outq') = Len(outq) - 1
      /\ \A i \in 1 .. Len(outq') : i + 1 \in 1 .. Len(outq) /\ outq'[i] = outq[i + 1]
  BY TailTaken
<1>2. ASSUME NEW i \in 2 .. Len(outq)
      PROVE  i - 1 \in 1 .. Len(outq') /\ outq'[i - 1] = outq[i]
  <2>1. i - 1 \in 1 .. Len(outq') /\ (i - 1) + 1 = i
    BY <1>1
  <2> QED
    BY <2>1, <1>1
<1> QED
  BY <1>1, <1>2

(* It is of another stream: what is behind it stays as it is.               *)
LEMMA OtherFrameTaken ==
    ASSUME outq \in Seq(Frames), outq # <<>>, outq' = Tail(outq),
           NEW s \in Streams, NEW n \in Nat, Piped(s, n), outq[1].kind # s,
           UNCHANGED <<target, child, spawn>>, produced'[s] = produced[s],
           stream'[s].closed = stream[s].closed
    PROVE  Piped(s, n)'
<1> USE FirstFrame
<1>1. ~stream[s].closed
  BY DEF Piped
<1>2. ASSUME NEW i \in 1 .. Len(outq'), outq'[i].kind = s
      PROVE  /\ outq'[i].of \in (n + 1) .. produced[s]
             /\ \A j \in 1 .. (i - 1) :
                  /\ outq'[j].kind = s => outq'[j].of < outq'[i].of
                  /\ ~(outq'[j].kind = "eof" /\ outq'[j].of = s)
             /\ \A m \in (n + 1) .. (outq'[i].of - 1) :
                  \E j \in 1 .. (i - 1) : outq'[j].kind = s /\ outq'[j].of = m
  <2>1. PICK k \in 2 .. Len(outq) : k = i + 1 /\ outq'[i] = outq[k] /\ outq[k].kind = s
    BY <1>2
  <2>0. \A m \in (n + 1) .. (outq[k].of - 1) :
          \E j \in 1 .. (k - 1) : outq[j].kind = s /\ outq[j].of = m
    <3>1. k \in 1 .. Len(outq) /\ outq[k].kind = s
      BY <2>1
    <3> QED
      BY <3>1 DEF Piped
  <2>2. ASSUME NEW j \in 1 .. (i - 1)
        PROVE  /\ outq'[j].kind = s => outq'[j].of < outq'[i].of
               /\ ~(outq'[j].kind = "eof" /\ outq'[j].of = s)
    <3>1. j + 1 \in 1 .. (k - 1) /\ outq'[j] = outq[j + 1]
      BY <2>1
    <3> QED
      BY <2>1, <3>1 DEF Piped
  <2>3. ASSUME NEW m \in (n + 1) .. (outq'[i].of - 1)
        PROVE  \E j \in 1 .. (i - 1) : outq'[j].kind = s /\ outq'[j].of = m
    <3>1. PICK j \in 1 .. (k - 1) : outq[j].kind = s /\ outq[j].of = m
      BY <2>0, <2>1
    <3>2. j # 1
      BY <3>1
    <3>3. j \in 2 .. Len(outq) /\ j - 1 \in 1 .. (i - 1) /\ outq'[j - 1] = outq[j]
      BY <2>1, <3>2
    <3> QED
      BY <3>1, <3>3
  <2>4. outq'[i].of \in (n + 1) .. produced[s]
    BY <2>1 DEF Piped
  <2> QED
    BY <2>2, <2>3, <2>4
<1>3. ASSUME NEW i \in 1 .. Len(outq'), outq'[i].kind = "eof", outq'[i].of = s
      PROVE  target = "exited"
  BY <1>3 DEF Piped
<1>4. ASSUME child \in {"none", "up"} \/ target = "exited", spawn # "failed",
             NEW m \in (n + 1) .. produced[s]
      PROVE  \E i \in 1 .. Len(outq') : outq'[i].kind = s /\ outq'[i].of = m
  <2>1. PICK i \in 1 .. Len(outq) : outq[i].kind = s /\ outq[i].of = m
    BY <1>1, <1>4 DEF Piped
  <2>2. i \in 2 .. Len(outq)
    BY <2>1
  <2> QED
    BY <2>1, <2>2
<1> QED
  BY <1>1, <1>2, <1>3, <1>4 DEF Piped

(* It is a chunk: the next one, and the others are behind it.               *)
LEMMA ChunkTaken ==
    ASSUME outq \in Seq(Frames), outq # <<>>, outq' = Tail(outq),
           NEW s \in Streams, produced[s] \in Nat, NEW n \in Nat, Piped(s, n), outq[1].kind = s,
           UNCHANGED <<target, child, spawn>>, produced'[s] = produced[s],
           stream'[s].closed = stream[s].closed
    PROVE  outq[1].of = n + 1 /\ n + 1 <= produced[s] /\ Piped(s, n + 1)'
<1> USE FirstFrame
<1>1. ~stream[s].closed
  BY DEF Piped
<1>2. outq[1].of \in (n + 1) .. produced[s]
  BY DEF Piped
<1>3. outq[1].of = n + 1
  <2> SUFFICES ASSUME n + 1 \in (n + 1) .. (outq[1].of - 1) PROVE FALSE
    BY <1>2
  <2> QED
    BY DEF Piped
<1>4. ASSUME NEW i \in 1 .. Len(outq'), outq'[i].kind = s
      PROVE  /\ outq'[i].of \in (n + 2) .. produced[s]
             /\ \A j \in 1 .. (i - 1) :
                  /\ outq'[j].kind = s => outq'[j].of < outq'[i].of
                  /\ ~(outq'[j].kind = "eof" /\ outq'[j].of = s)
             /\ \A m \in (n + 2) .. (outq'[i].of - 1) :
                  \E j \in 1 .. (i - 1) : outq'[j].kind = s /\ outq'[j].of = m
  <2>1. PICK k \in 2 .. Len(outq) : k = i + 1 /\ outq'[i] = outq[k] /\ outq[k].kind = s
    BY <1>4
  <2>0. \A m \in (n + 1) .. (outq[k].of - 1) :
          \E j \in 1 .. (k - 1) : outq[j].kind = s /\ outq[j].of = m
    <3>1. k \in 1 .. Len(outq) /\ outq[k].kind = s
      BY <2>1
    <3> QED
      BY <3>1 DEF Piped
  <2>2. outq[k].of \in (n + 1) .. produced[s] /\ outq[1].of < outq[k].of
    <3>1. 1 \in 1 .. (k - 1)
      BY <2>1
    <3> QED
      BY <2>1, <3>1 DEF Piped
  <2>3. ASSUME NEW j \in 1 .. (i - 1)
        PROVE  /\ outq'[j].kind = s => outq'[j].of < outq'[i].of
               /\ ~(outq'[j].kind = "eof" /\ outq'[j].of = s)
    <3>1. j + 1 \in 1 .. (k - 1) /\ outq'[j] = outq[j + 1]
      BY <2>1
    <3> QED
      BY <2>1, <3>1 DEF Piped
  <2>4. ASSUME NEW m \in (n + 2) .. (outq'[i].of - 1)
        PROVE  \E j \in 1 .. (i - 1) : outq'[j].kind = s /\ outq'[j].of = m
    <3>1. PICK j \in 1 .. (k - 1) : outq[j].kind = s /\ outq[j].of = m
      BY <2>0, <2>1, <2>2
    <3>2. j # 1
      BY <3>1, <1>3
    <3>3. j \in 2 .. Len(outq) /\ j - 1 \in 1 .. (i - 1) /\ outq'[j - 1] = outq[j]
      BY <2>1, <3>2
    <3> QED
      BY <3>1, <3>3
  <2>5. outq'[i].of \in (n + 2) .. produced[s]
    BY <1>3, <2>1, <2>2
  <2> QED
    BY <2>3, <2>4, <2>5
<1>5. ASSUME NEW i \in 1 .. Len(outq'), outq'[i].kind = "eof", outq'[i].of = s
      PROVE  target = "exited"
  BY <1>5 DEF Piped
<1>6. ASSUME child \in {"none", "up"} \/ target = "exited", spawn # "failed",
             NEW m \in (n + 2) .. produced[s]
      PROVE  \E i \in 1 .. Len(outq') : outq'[i].kind = s /\ outq'[i].of = m
  <2>1. PICK i \in 1 .. Len(outq) : outq[i].kind = s /\ outq[i].of = m
    BY <1>1, <1>6 DEF Piped
  <2>2. i \in 2 .. Len(outq)
    BY <2>1, <1>3
  <2> QED
    BY <2>1, <2>2
<1> QED
  <2>1. n + 1 + 1 = n + 2 /\ n + 1 <= produced[s]
    BY <1>2, <1>3
  <2>2. Piped(s, n + 1)'
    <3>1. \A i \in 1 .. Len(outq') : outq'[i].kind = s =>
            /\ outq'[i].of \in (n + 1 + 1) .. produced'[s]
            /\ \A j \in 1 .. (i - 1) :
                 /\ outq'[j].kind = s => outq'[j].of < outq'[i].of
                 /\ ~(outq'[j].kind = "eof" /\ outq'[j].of = s)
            /\ \A m \in (n + 1 + 1) .. (outq'[i].of - 1) :
                 \E j \in 1 .. (i - 1) : outq'[j].kind = s /\ outq'[j].of = m
      BY <1>4, <2>1
    <3>2. child \in {"none", "up"} \/ target = "exited" =>
            \/ spawn = "failed"
            \/ \A m \in (n + 1 + 1) .. produced'[s] :
                 \E i \in 1 .. Len(outq') : outq'[i].kind = s /\ outq'[i].of = m
      BY <1>6, <2>1
    <3> QED
      BY <1>1, <1>5, <3>1, <3>2 DEF Piped
  <2> QED
    BY <1>3, <2>1, <2>2

(* It is the end of the stream: no chunk is behind it.                      *)
LEMMA EndTaken ==
    ASSUME outq \in Seq(Frames), outq # <<>>, NEW s \in Streams, NEW n \in 0 .. produced[s],
           produced[s] \in Nat, Piped(s, n), outq[1].kind = "eof", outq[1].of = s,
           "eof" \notin Streams, spawn # "failed"
    PROVE  AllPassed(s, n)
<1>1. Len(outq) \in Nat /\ 1 \in 1 .. Len(outq)
  BY Len(outq) \in Nat
<1>2. target = "exited" /\ ~stream[s].closed
  BY <1>1 DEF Piped
<1>3. n = produced[s]
  <2> SUFFICES ASSUME n + 1 \in (n + 1) .. produced[s] PROVE FALSE
    OBVIOUS
  <2>1. PICK i \in 1 .. Len(outq) : outq[i].kind = s /\ outq[i].of = n + 1
    BY <1>2 DEF Piped
  <2>2. 1 \in 1 .. (i - 1)
    BY <2>1, <1>1
  <2> QED
    BY <2>1, <2>2 DEF Piped
<1> QED
  BY <1>2, <1>3 DEF AllPassed

(* A frame enters the pipe that is no chunk of the stream.                  *)
LEMMA OtherFrameSent ==
    ASSUME outq \in Seq(Frames), NEW f \in Frames, outq' = Append(outq, f),
           NEW s \in Streams, NEW n \in Nat, Piped(s, n), f.kind # s,
           f.kind = "eof" /\ f.of = s => target = "exited", child = "up",
           UNCHANGED <<target, child, spawn, stream>>, produced'[s] = produced[s]
    PROVE  Piped(s, n)'
<1>1. /\ Len(outq) \in Nat /\ Len(outq') = Len(outq) + 1 /\ outq'[Len(outq) + 1] = f
      /\ \A i \in 1 .. Len(outq) : i \in 1 .. Len(outq') /\ outq'[i] = outq[i]
      /\ \A i \in 1 .. Len(outq') : i \in 1 .. Len(outq) \/ i = Len(outq) + 1
  OBVIOUS
<1>2. ~stream[s].closed
  BY DEF Piped
<1>3. ASSUME NEW i \in 1 .. Len(outq'), outq'[i].kind = s
      PROVE  /\ i \in 1 .. Len(outq) /\ outq'[i] = outq[i]
             /\ \A j \in 1 .. (i - 1) : j \in 1 .. Len(outq) /\ outq'[j] = outq[j]
  BY <1>1, <1>3
<1>4. ASSUME NEW i \in 1 .. Len(outq'), outq'[i].kind = s
      PROVE  /\ outq'[i].of \in (n + 1) .. produced[s]
             /\ \A j \in 1 .. (i - 1) :
                  /\ outq'[j].kind = s => outq'[j].of < outq'[i].of
                  /\ ~(outq'[j].kind = "eof" /\ outq'[j].of = s)
             /\ \A m \in (n + 1) .. (outq'[i].of - 1) :
                  \E j \in 1 .. (i - 1) : outq'[j].kind = s /\ outq'[j].of = m
  BY <1>3, <1>4 DEF Piped
<1>5. ASSUME NEW i \in 1 .. Len(outq'), outq'[i].kind = "eof", outq'[i].of = s
      PROVE  target = "exited"
  BY <1>1, <1>5 DEF Piped
<1>6. ASSUME spawn # "failed", NEW m \in (n + 1) .. produced[s]
      PROVE  \E i \in 1 .. Len(outq') : outq'[i].kind = s /\ outq'[i].of = m
  <2>1. PICK i \in 1 .. Len(outq) : outq[i].kind = s /\ outq[i].of = m
    BY <1>2, <1>6 DEF Piped
  <2> QED
    BY <2>1, <1>1
<1> QED
  BY <1>2, <1>4, <1>5, <1>6 DEF Piped

(* The next chunk of the stream enters the pipe.                            *)
LEMMA ChunkSent ==
    ASSUME outq \in Seq(Frames), NEW f \in Frames, outq' = Append(outq, f),
           NEW s \in Streams, NEW n \in 0 .. produced[s], produced[s] \in Nat, Piped(s, n),
           f.kind = s, f.of = produced[s] + 1, "eof" \notin Streams,
           child = "up", spawn # "failed", target # "exited",
           UNCHANGED <<target, child, spawn, stream>>, produced'[s] = produced[s] + 1
    PROVE  Piped(s, n)'
<1>1. /\ Len(outq) \in Nat /\ Len(outq') = Len(outq) + 1 /\ outq'[Len(outq) + 1] = f
      /\ \A i \in 1 .. Len(outq) : i \in 1 .. Len(outq') /\ outq'[i] = outq[i]
      /\ \A i \in 1 .. Len(outq') : i \in 1 .. Len(outq) \/ i = Len(outq) + 1
  OBVIOUS
<1>2. ~stream[s].closed
  BY DEF Piped
<1>3. ASSUME NEW i \in 1 .. Len(outq), outq[i].kind = "eof", outq[i].of = s PROVE FALSE
  BY <1>3 DEF Piped
<1>4. ASSUME NEW m \in (n + 1) .. produced[s]
      PROVE  \E j \in 1 .. Len(outq) : outq[j].kind = s /\ outq[j].of = m
  BY <1>2, <1>4 DEF Piped
<1>5. ASSUME NEW i \in 1 .. Len(outq'), outq'[i].kind = s
      PROVE  /\ outq'[i].of \in (n + 1) .. produced'[s]
             /\ \A j \in 1 .. (i - 1) :
                  /\ outq'[j].kind = s => outq'[j].of < outq'[i].of
                  /\ ~(outq'[j].kind = "eof" /\ outq'[j].of = s)
             /\ \A m \in (n + 1) .. (outq'[i].of - 1) :
                  \E j \in 1 .. (i - 1) : outq'[j].kind = s /\ outq'[j].of = m
  <2>0. ASSUME NEW j \in 1 .. (i - 1) PROVE j \in 1 .. Len(outq) /\ outq'[j] = outq[j]
    BY <1>1
  <2>1. CASE i \in 1 .. Len(outq)
    <3>1. outq[i].kind = s /\ outq'[i] = outq[i]
      BY <2>1, <1>1, <1>5
    <3>2. /\ outq[i].of \in (n + 1) .. produced[s]
          /\ \A j \in 1 .. (i - 1) :
               outq[j].kind = s => outq[j].of < outq[i].of
          /\ \A m \in (n + 1) .. (outq[i].of - 1) :
               \E j \in 1 .. (i - 1) : outq[j].kind = s /\ outq[j].of = m
      BY <2>1, <3>1 DEF Piped
    <3>3. outq'[i].of \in (n + 1) .. produced'[s]
      BY <3>1, <3>2
    <3> QED
      BY <2>0, <3>1, <3>2, <3>3, <1>3
  <2>2. CASE i = Len(outq) + 1
    <3>1. outq'[i].of = produced[s] + 1
      BY <2>2, <1>1
    <3>2. \A j \in 1 .. Len(outq) : outq[j].kind = s => outq[j].of \in (n + 1) .. produced[s]
      BY DEF Piped
    <3>3. ASSUME NEW j \in 1 .. (i - 1)
          PROVE  /\ outq'[j].kind = s => outq'[j].of < outq'[i].of
                 /\ ~(outq'[j].kind = "eof" /\ outq'[j].of = s)
      BY <2>0, <3>1, <3>2, <1>3
    <3>4. \A m \in (n + 1) .. (outq'[i].of - 1) :
            \E j \in 1 .. (i - 1) : outq'[j].kind = s /\ outq'[j].of = m
      BY <2>2, <3>1, <1>1, <1>4
    <3>5. outq'[i].of \in (n + 1) .. produced'[s]
      BY <3>1
    <3> QED
      BY <3>3, <3>4, <3>5
  <2> QED
    BY <2>1, <2>2, <1>1
<1>6. ASSUME NEW m \in (n + 1) .. produced'[s]
      PROVE  \E i \in 1 .. Len(outq') : outq'[i].kind = s /\ outq'[i].of = m
  <2>1. CASE m \in (n + 1) .. produced[s]
    BY <2>1, <1>1, <1>4
  <2>2. CASE m = produced[s] + 1
    <3>1. Len(outq) + 1 \in 1 .. Len(outq')
      BY <1>1
    <3> QED
      BY <2>2, <3>1, <1>1
  <2>3. m \in (n + 1) .. (produced[s] + 1)
    OBVIOUS
  <2>4. m \in (n + 1) .. produced[s] \/ m = produced[s] + 1
    BY <2>3
  <2> QED
    BY <2>1, <2>2, <2>4
<1>7. ASSUME NEW i \in 1 .. Len(outq'), outq'[i].kind = "eof", outq'[i].of = s PROVE FALSE
  BY <1>1, <1>3, <1>7
<1> QED
  BY <1>2, <1>5, <1>6, <1>7 DEF Piped

(* A stream and what its reader got stay as they are.                       *)
LEMMA PassedRests ==
    ASSUME NEW s \in Streams, NEW n \in Nat, StreamType(s), Passed(s, n),
           received'[s] = received[s], stream'[s] = stream[s],
           att'.disconnected = att.disconnected,
           s \in att'.eof => s \in att.eof \/ AllPassed(s, n),
           AllPassed(s, n) => AllPassed(s, n)'
    PROVE  StreamType(s)' /\ Passed(s, n)'
<1> DEFINE got == received[s]
           str == stream[s]
           all == AllPassed(s, n)
<1>1. StreamType(s)'
  BY DEF StreamType
<1>2. AllPassed(s, n) => AllPassed(s, n)'
  OBVIOUS
<1> QED
  BY <1>1, <1>2 DEF Passed

(* The end of a stream, when it closes, is not told yet.                    *)
LEMMA OpenStream ==
    ASSUME NEW s \in Streams, NEW n \in Nat, Passed(s, n), ~stream[s].closed
    PROVE  /\ ~Told(received[s], stream[s].items, Process!Error)
           /\ ~Told(received[s], stream[s].items, Process!Done)
           /\ ~att.disconnected
  BY DEF Passed

(* The consumer of a stream asks for the next item (next).                  *)
LEMMA StreamRead ==
    ASSUME NEW s \in Streams, NEW n \in Nat, StreamType(s), Passed(s, n), Process!Read(s),
           DOMAIN stream = Streams, DOMAIN received = Streams
    PROVE  StreamType(s)' /\ Passed(s, n)' /\ stream'[s].closed = stream[s].closed
<1> USE DEF StreamType
<1>1. /\ UNCHANGED <<att, produced, target>> /\ ~stream[s].reader
      /\ AllPassed(s, n)' <=> AllPassed(s, n)
  BY DEF Process!Read, Process!guest, AllPassed
<1>2. Marks = {Process!Eof, Process!Error, Process!Done} /\ Process!Done \in Int
      /\ Process!Done # Process!Eof /\ Process!Done # Process!Error
  BY DEF Marks, Process!Eof, Process!Error, Process!Done
<1>3. CASE stream[s].items # <<>>
  <2>1. /\ received'[s] = Append(received[s], Head(stream[s].items))
        /\ stream'[s] = [stream[s] EXCEPT !.items = Tail(stream[s].items)]
    BY <1>3 DEF Process!Read
  <2>2. /\ stream'[s].items = Tail(stream[s].items) /\ stream'[s].reader = stream[s].reader
        /\ stream'[s].closed = stream[s].closed
    BY <2>1
  <2>3. InOrder(received[s], stream[s].items, n)
    BY DEF Passed
  <2>4. /\ received'[s] \in Seq(Int) /\ stream'[s].items \in Seq(Int)
        /\ InOrder(received'[s], stream'[s].items, n)
        /\ \A mark \in Marks : Told(received'[s], stream'[s].items, mark)
                                 <=> Told(received[s], stream[s].items, mark)
    BY <1>3, <2>1, <2>2, <2>3, ItemTaken
  <2>5. StreamType(s)'
    BY <2>1, <2>4
  <2>6. ~Told(received[s], stream[s].items, Process!Done)
    BY <1>3 DEF Passed
  <2> QED
    BY <1>1, <1>2, <2>2, <2>4, <2>5, <2>6 DEF Passed
<1>4. CASE stream[s].items = <<>> /\ stream[s].closed
  <2>1. received'[s] = Append(received[s], Process!Done) /\ stream' = stream
    BY <1>4 DEF Process!Read
  <2>2. InOrder(received[s], <<>>, n)
    BY <1>4 DEF Passed
  <2>3. /\ received'[s] \in Seq(Int)
        /\ InOrder(received'[s], <<>>, n)
        /\ \A mark \in Marks : Told(received'[s], <<>>, mark)
                                 <=> Told(received[s], <<>>, mark) \/ mark = Process!Done
    BY <1>2, <2>1, <2>2, ItemGiven
  <2> QED
    BY <1>1, <1>2, <1>4, <2>1, <2>3 DEF Passed
<1>5. CASE stream[s].items = <<>> /\ ~stream[s].closed
  <2>1. received' = received /\ stream'[s] = [stream[s] EXCEPT !.reader = TRUE]
    BY <1>5 DEF Process!Read
  <2>2. /\ stream'[s].items = stream[s].items /\ stream'[s].reader = TRUE
        /\ stream'[s].closed = stream[s].closed /\ StreamType(s)'
    BY <2>1
  <2> QED
    BY <1>1, <1>5, <2>1, <2>2 DEF Passed
<1> QED
  BY <1>3, <1>4, <1>5

(* An item is pushed to an open stream: given to the reader that waits, or  *)
(* buffered.                                                                *)
LEMMA ItemPushed ==
    ASSUME NEW s \in Streams, NEW n \in Nat, NEW k \in Nat, StreamType(s), Passed(s, n),
           ~stream[s].closed, NEW item \in Int,
           \/ k = n /\ item \in Marks
           \/ k = n + 1 /\ item = k /\ n = Len(received[s]) + Len(stream[s].items)
    PROVE  LET got == Process!Given(s, item)
               str == Process!Pushed(s, item)
           IN  /\ got \in Seq(Int)
               /\ str \in [items : Seq(Int), reader : BOOLEAN, closed : BOOLEAN]
               /\ InOrder(got, str.items, k)
               /\ \A mark \in Marks : Told(got, str.items, mark)
                                        <=> Told(received[s], stream[s].items, mark) \/ mark = item
               /\ ~str.closed /\ ~str.reader
<1> USE DEF StreamType
<1>1. InOrder(received[s], stream[s].items, n)
  BY DEF Passed
<1>2. CASE stream[s].reader
  <2>1. stream[s].items = <<>>
    BY <1>2 DEF Passed
  <2>2. /\ Process!Given(s, item) = Append(received[s], item)
        /\ Process!Pushed(s, item) = [stream[s] EXCEPT !.reader = FALSE]
    BY <1>2 DEF Process!Given, Process!Pushed
  <2>3. Len(stream[s].items) = 0 /\ Len(received[s]) \in Nat
    BY <2>1
  <2>4. /\ Append(received[s], item) \in Seq(Int)
        /\ InOrder(Append(received[s], item), <<>>, k)
        /\ \A mark \in Marks : Told(Append(received[s], item), <<>>, mark)
                                 <=> Told(received[s], <<>>, mark) \/ mark = item
    BY <1>1, <2>1, <2>3, ItemGiven
  <2> QED
    BY <2>1, <2>2, <2>4
<1>3. CASE ~stream[s].reader
  <2>1. /\ Process!Given(s, item) = received[s]
        /\ Process!Pushed(s, item) = [stream[s] EXCEPT !.items = Append(stream[s].items, item)]
    BY <1>3 DEF Process!Given, Process!Pushed
  <2>2. /\ Append(stream[s].items, item) \in Seq(Int)
        /\ InOrder(received[s], Append(stream[s].items, item), k)
        /\ \A mark \in Marks : Told(received[s], Append(stream[s].items, item), mark)
                                 <=> Told(received[s], stream[s].items, mark) \/ mark = item
    <3>1. received[s] \in Seq(Int) /\ stream[s].items \in Seq(Int)
      OBVIOUS
    <3> HIDE DEF StreamType
    <3> QED
      BY <1>1, <3>1, ItemBuffered
  <2> QED
    BY <1>3, <2>1, <2>2
<1> QED
  BY <1>2, <1>3

(* The Worker handles a frame of output, which a closed stream would drop.  *)
LEMMA OutputHandled ==
    ASSUME NEW s \in Streams, NEW n \in Nat, NEW k \in Nat, StreamType(s), Passed(s, n),
           ~stream[s].closed, NEW item \in Int,
           \/ k = n /\ item = Process!Eof /\ AllPassed(s, n)
           \/ k = n + 1 /\ item = k /\ k <= produced[s],
           stream'[s] = Process!Pushed(s, item), received'[s] = Process!Given(s, item),
           s \in att'.eof => s \in att.eof \/ AllPassed(s, k),
           att'.disconnected = att.disconnected,
           produced'[s] = produced[s], produced[s] \in Nat, target' = target
    PROVE  StreamType(s)' /\ Passed(s, k)' /\ ~stream'[s].closed
<1>1. /\ ~Told(received[s], stream[s].items, Process!Error)
      /\ ~Told(received[s], stream[s].items, Process!Done)
      /\ ~att.disconnected
  BY OpenStream
<1>2. /\ Marks = {Process!Eof, Process!Error, Process!Done}
      /\ Process!Error # Process!Eof /\ Process!Done # Process!Eof
      /\ \A m \in Marks : m \notin Nat
  BY DEF Marks, Process!Eof, Process!Error, Process!Done
<1>3. k = n + 1 => ~AllPassed(s, n) /\ ~Told(received[s], stream[s].items, Process!Eof)
                   /\ s \notin att.eof
  <2>1. k = n + 1 => n # produced[s]
    OBVIOUS
  <2> QED
    BY <1>1, <2>1 DEF AllPassed, Passed
<1>0. k = n \/ (k = n + 1 /\ k # n /\ item = k)
  OBVIOUS
<1>4. \/ k = n /\ item \in Marks
      \/ k = n + 1 /\ item = k /\ n = Len(received[s]) + Len(stream[s].items)
  <2>1. CASE k = n
    <3>1. item = Process!Eof
      BY <2>1
    <3> QED
      BY <2>1, <3>1, <1>2
  <2>2. CASE k = n + 1
    <3>1. InOrder(received[s], stream[s].items, n)
      BY DEF Passed
    <3>2. \A mark \in Marks : ~Told(received[s], stream[s].items, mark)
      BY <2>2, <1>1, <1>2, <1>3
    <3>3. n = Len(received[s]) + Len(stream[s].items)
      BY <3>1, <3>2, OnlyChunks DEF StreamType
    <3>4. item = k
      BY <2>2, <1>0
    <3> QED
      BY <2>2, <3>3, <3>4
  <2> QED
    BY <2>1, <2>2, <1>0
<1>5. /\ received'[s] \in Seq(Int)
      /\ stream'[s] \in [items : Seq(Int), reader : BOOLEAN, closed : BOOLEAN]
      /\ InOrder(received'[s], stream'[s].items, k)
      /\ \A mark \in Marks : Told(received'[s], stream'[s].items, mark)
                               <=> Told(received[s], stream[s].items, mark) \/ mark = item
      /\ ~stream'[s].closed /\ ~stream'[s].reader
  <2> DEFINE got == Process!Given(s, item)
             str == Process!Pushed(s, item)
  <2>1. /\ got \in Seq(Int)
        /\ str \in [items : Seq(Int), reader : BOOLEAN, closed : BOOLEAN]
        /\ InOrder(got, str.items, k)
        /\ \A mark \in Marks : Told(got, str.items, mark)
                                 <=> Told(received[s], stream[s].items, mark) \/ mark = item
        /\ ~str.closed /\ ~str.reader
    BY <1>4, ItemPushed
  <2>2. stream'[s] = str /\ received'[s] = got
    OBVIOUS
  <2> HIDE DEF got, str
  <2> QED
    BY <2>1, <2>2
<1>6. Told(received'[s], stream'[s].items, Process!Eof) => AllPassed(s, k)
  <2>1. CASE k = n
    BY <2>1, <1>2, <1>5 DEF Passed
  <2>2. CASE k = n + 1
    <3>1. item # Process!Eof
      BY <2>2, <1>2
    <3> QED
      BY <2>2, <3>1, <1>2, <1>3, <1>5
  <2> QED
    BY <2>1, <2>2
<1>7. /\ ~Told(received'[s], stream'[s].items, Process!Error)
      /\ ~Told(received'[s], stream'[s].items, Process!Done)
  <2>1. item # Process!Error /\ item # Process!Done
    BY <1>2
  <2> QED
    BY <2>1, <1>1, <1>2, <1>5
<1>8. s \in att'.eof => AllPassed(s, k)
  BY <1>1, <1>3 DEF Passed
<1>9. AllPassed(s, k)' <=> AllPassed(s, k)
  BY DEF AllPassed
<1> QED
  BY <1>1, <1>5, <1>6, <1>7, <1>8, <1>9 DEF StreamType, Passed

(* The run of an attachment ends: a stream that is complete is finished,    *)
(* and the reader of another one is told of an error first.                 *)
LEMMA StreamFinished ==
    ASSUME NEW s \in Streams, NEW n \in Nat, StreamType(s), Passed(s, n), Process!RunEnds,
           DOMAIN att = {"terminal", "disconnected", "writeClosed", "targetExited", "eof"}
    PROVE  StreamType(s)' /\ Passed(s, n)'
<1> DEFINE got == IF Process!Complete THEN received[s] ELSE Process!Given(s, Process!Error)
           str == IF Process!Complete THEN stream[s] ELSE Process!Pushed(s, Process!Error)
           Str == [items : Seq(Int), reader : BOOLEAN, closed : BOOLEAN]
<1>1. /\ stream'[s] = Process!finish(str) /\ received'[s] = Process!Ended(str, got)
      /\ att'.eof = att.eof /\ att'.disconnected = att.disconnected
      /\ UNCHANGED <<produced, target>>
  BY DEF Process!RunEnds, Process!guest
<1>2. /\ Marks = {Process!Eof, Process!Error, Process!Done} /\ Process!Done \in Int
      /\ Process!Error \in Int
      /\ Process!Error # Process!Eof /\ Process!Error # Process!Done
      /\ Process!Done # Process!Eof
  BY DEF Marks, Process!Eof, Process!Error, Process!Done
<1>3. AllPassed(s, n)' <=> AllPassed(s, n)
  BY <1>1 DEF AllPassed
<1>4. /\ got \in Seq(Int) /\ str \in Str /\ InOrder(got, str.items, n)
      /\ Told(got, str.items, Process!Eof) => AllPassed(s, n)
      /\ Told(got, str.items, Process!Done) => str.closed /\ str.items = <<>>
      /\ str.reader => str.items = <<>> /\ ~str.closed
      /\ \/ att.disconnected \/ AllPassed(s, n) \/ Told(got, str.items, Process!Error)
  <2>1. CASE stream[s].closed
    <3>1. got = received[s] /\ str = stream[s]
      BY <2>1 DEF Process!Given, Process!Pushed, Passed
    <3> QED
      BY <2>1, <3>1 DEF Passed, StreamType
  <2>2. CASE ~stream[s].closed /\ Process!Complete
    <3>1. got = received[s] /\ str = stream[s]
      BY <2>2
    <3>2. s \in att.eof /\ ~att.disconnected
      BY <2>2, OpenStream DEF Process!Complete
    <3> QED
      BY <2>2, <3>1, <3>2 DEF Passed, StreamType
  <2>3. CASE ~stream[s].closed /\ ~Process!Complete
    <3>1. got = Process!Given(s, Process!Error) /\ str = Process!Pushed(s, Process!Error)
      BY <2>3
    <3>2. /\ got \in Seq(Int) /\ str \in Str /\ InOrder(got, str.items, n)
          /\ \A mark \in Marks : Told(got, str.items, mark)
               <=> Told(received[s], stream[s].items, mark) \/ mark = Process!Error
          /\ ~str.closed /\ ~str.reader
      <4>1. Process!Error \in Marks
        BY <1>2
      <4> HIDE DEF got, str
      <4> QED
        BY <2>3, <3>1, <4>1, <1>2, ItemPushed
    <3>3. ~Told(received[s], stream[s].items, Process!Done)
      BY <2>3, OpenStream
    <3> HIDE DEF got, str
    <3> QED
      BY <1>2, <3>2, <3>3 DEF Passed
  <2> QED
    BY <2>1, <2>2, <2>3
<1> HIDE DEF got, str
<1>5. /\ stream'[s] \in Str /\ stream'[s].items = str.items
      /\ stream'[s].closed = TRUE /\ stream'[s].reader = FALSE
  BY <1>1, <1>4 DEF Process!finish
<1>6. CASE ~str.reader
  <2>1. received'[s] = got
    BY <1>1, <1>6 DEF Process!Ended
  <2> QED
    BY <2>1, <1>1, <1>3, <1>4, <1>5 DEF StreamType, Passed
<1>7. CASE str.reader
  <2>1. received'[s] = Append(got, Process!Done) /\ str.items = <<>>
    BY <1>1, <1>4, <1>7 DEF Process!Ended
  <2>2. /\ received'[s] \in Seq(Int) /\ InOrder(received'[s], <<>>, n)
        /\ \A mark \in Marks : Told(received'[s], <<>>, mark)
                                 <=> Told(got, <<>>, mark) \/ mark = Process!Done
    <3>1. InOrder(got, <<>>, n) /\ Process!Done \in Marks
      BY <2>1, <1>2, <1>4
    <3> QED
      BY <2>1, <3>1, <1>2, <1>4, ItemGiven
  <2> QED
    BY <2>1, <2>2, <1>1, <1>2, <1>3, <1>4, <1>5 DEF StreamType, Passed
<1> QED
  BY <1>6, <1>7

(* A disconnected stream drops what it buffers, and its reader is released. *)
LEMMA StreamAborted ==
    ASSUME NEW s \in Streams, NEW n \in 0 .. produced[s], produced[s] \in Nat,
           StreamType(s), Passed(s, n),
           stream'[s] = Process!abort,
           received'[s] = Process!Ended(stream[s], received[s]),
           att'.disconnected = TRUE, produced'[s] = produced[s], target' = target
    PROVE  StreamType(s)' /\ \E m \in 0 .. produced[s] : Passed(s, m)'
<1>1. /\ Marks = {Process!Eof, Process!Error, Process!Done} /\ Process!Done \in Int
      /\ Process!Done # Process!Eof /\ Process!Done # Process!Error
  BY DEF Marks, Process!Eof, Process!Error, Process!Done
<1>2. received[s] \in Seq(Int) /\ stream[s].items \in Seq(Int) /\ Len(received[s]) \in Nat
  BY DEF StreamType
<1>3. PICK m \in 0 .. produced[s] : m = IF n <= Len(received[s]) THEN n ELSE Len(received[s])
  BY <1>2
<1>4. /\ InOrder(received[s], <<>>, m)
      /\ \A mark \in Marks : Told(received[s], <<>>, mark) =>
           Told(received[s], stream[s].items, mark) /\ m = n
  <2>1. InOrder(received[s], stream[s].items, n) /\ n \in Nat
    BY DEF Passed
  <2> QED
    BY <1>2, <1>3, <2>1, ItemsDropped
<1>5. /\ stream'[s].items = <<>> /\ stream'[s].reader = FALSE /\ stream'[s].closed = TRUE
      /\ stream'[s] \in [items : Seq(Int), reader : BOOLEAN, closed : BOOLEAN]
  <2>1. <<>> \in Seq(Int)
    OBVIOUS
  <2> QED
    BY <2>1 DEF Process!abort
<1>6. /\ received'[s] \in Seq(Int) /\ InOrder(received'[s], <<>>, m)
      /\ \A mark \in Marks : Told(received'[s], <<>>, mark)
           => Told(received[s], <<>>, mark) \/ mark = Process!Done
  <2>1. CASE ~stream[s].reader
    BY <2>1, <1>2, <1>4 DEF Process!Ended
  <2>2. CASE stream[s].reader
    <3>1. received'[s] = Append(received[s], Process!Done)
      BY <2>2 DEF Process!Ended
    <3>2. Process!Done \in Marks /\ m \in Nat /\ m \in {m, m + 1}
      BY <1>1, <1>3
    <3> QED
      BY <3>1, <3>2, <1>1, <1>2, <1>4, ItemGiven
  <2> QED
    BY <2>1, <2>2
<1>7. Told(received'[s], <<>>, Process!Eof) => AllPassed(s, m)'
  <2>1. ASSUME Told(received'[s], <<>>, Process!Eof)
        PROVE  Told(received[s], stream[s].items, Process!Eof) /\ m = n
    <3>1. Told(received[s], <<>>, Process!Eof)
      BY <2>1, <1>1, <1>6
    <3> QED
      BY <3>1, <1>1, <1>4
  <2> QED
    BY <2>1 DEF Passed, AllPassed
<1>8. StreamType(s)'
  BY <1>5, <1>6 DEF StreamType
<1>9. Passed(s, m)'
  BY <1>5, <1>6, <1>7 DEF Passed
<1> QED
  BY <1>3, <1>8, <1>9

-----------------------------------------------------------------------------
(* A step that leaves the streams alone, and the pipe but for its loss.     *)
LEMMA StreamsRest ==
    ASSUME OutputInv, UNCHANGED <<received, stream, produced>>,
           att'.eof = att.eof, att'.disconnected = att.disconnected,
           target = "exited" => target' = "exited",
           \/ /\ UNCHANGED outq
              /\ spawn = "failed" => spawn' = "failed"
              /\ child' \in {"none", "up"} \/ target' = "exited" =>
                   child \in {"none", "up"} \/ target = "exited" \/ spawn' = "failed"
           \/ /\ outq' = <<>>
              /\ spawn' = "failed" \/ (child' \notin {"none", "up"} /\ target' # "exited"),
           child # "up" /\ spawn \in {"attached", "gone"} =>
             child' # "up" /\ spawn' \in {"attached", "gone"}
    PROVE  \A s \in Streams :
             StreamType(s)' /\ \E n \in 0 .. produced'[s] : Passed(s, n)' /\ Piped(s, n)'
<1> SUFFICES ASSUME NEW s \in Streams
             PROVE  StreamType(s)' /\ \E n \in 0 .. produced'[s] : Passed(s, n)' /\ Piped(s, n)'
  OBVIOUS
<1>1. StreamType(s) /\ produced[s] \in Nat
  BY DEF OutputInv, OutputType
<1>2. PICK n \in 0 .. produced[s] : Passed(s, n) /\ Piped(s, n)
  BY DEF OutputInv
<1>3. n \in Nat /\ n \in 0 .. produced'[s]
  BY <1>1, <1>2
<1>4. StreamType(s)' /\ Passed(s, n)'
  <2>1. AllPassed(s, n) => AllPassed(s, n)'
    BY DEF AllPassed
  <2> QED
    BY <1>1, <1>2, <1>3, <2>1, PassedRests
<1>5. stream[s].closed => child' # "up" /\ spawn' \in {"attached", "gone"}
  BY <1>2 DEF Piped
<1>6. Piped(s, n)'
  <2>1. CASE /\ UNCHANGED outq
             /\ spawn = "failed" => spawn' = "failed"
             /\ child' \in {"none", "up"} \/ target' = "exited" =>
                  child \in {"none", "up"} \/ target = "exited" \/ spawn' = "failed"
    BY <2>1, <1>2, <1>3, <1>5, PipeRests
  <2>2. CASE /\ outq' = <<>>
             /\ spawn' = "failed" \/ (child' \notin {"none", "up"} /\ target' # "exited")
    BY <2>2, <1>2, <1>3, <1>5, PipeEmptied
  <2> QED
    BY <2>1, <2>2
<1> QED
  BY <1>3, <1>4, <1>6

(* The relay sends a frame that is no chunk.                                *)
LEMMA NoChunkSent ==
    ASSUME OutputInv, Process!StreamedProcessAssumption,
           NEW f \in Frames, Process!send(f), f.kind \in Process!Kinds,
           f.kind = "eof" => target = "exited",
           UNCHANGED <<received, stream, att, produced, target, child, spawn>>
    PROVE  \A s \in Streams :
             StreamType(s)' /\ \E n \in 0 .. produced'[s] : Passed(s, n)' /\ Piped(s, n)'
<1> SUFFICES ASSUME NEW s \in Streams
             PROVE  StreamType(s)' /\ \E n \in 0 .. produced'[s] : Passed(s, n)' /\ Piped(s, n)'
  OBVIOUS
<1>1. StreamType(s) /\ produced[s] \in Nat /\ outq \in Seq(Frames)
  BY DEF OutputInv, OutputType
<1>2. PICK n \in 0 .. produced[s] : Passed(s, n) /\ Piped(s, n)
  BY DEF OutputInv
<1>3. n \in Nat /\ n \in 0 .. produced'[s]
  BY <1>1, <1>2
<1>4. StreamType(s)' /\ Passed(s, n)'
  <2>1. AllPassed(s, n) => AllPassed(s, n)'
    BY DEF AllPassed
  <2> QED
    BY <1>1, <1>2, <1>3, <2>1, PassedRests
<1>5. child = "up" /\ outq' = Append(outq, f) /\ f.kind # s
  BY DEF Process!send, Process!PipeOpen, Process!StreamedProcessAssumption
<1>6. Piped(s, n)'
  BY <1>1, <1>2, <1>3, <1>5, OtherFrameSent
<1> QED
  BY <1>3, <1>4, <1>6

(* The target prints a chunk.                                               *)
LEMMA ChunkPrinted ==
    ASSUME OutputInv, Process!StreamedProcessAssumption,
           NEW t \in Streams, Process!TargetOutput(t)
    PROVE  \A s \in Streams :
             StreamType(s)' /\ \E n \in 0 .. produced'[s] : Passed(s, n)' /\ Piped(s, n)'
<1> SUFFICES ASSUME NEW s \in Streams
             PROVE  StreamType(s)' /\ \E n \in 0 .. produced'[s] : Passed(s, n)' /\ Piped(s, n)'
  OBVIOUS
<1>1. /\ StreamType(s) /\ produced[s] \in Nat /\ produced[t] \in Nat /\ outq \in Seq(Frames)
      /\ produced \in [Streams -> Nat]
  BY DEF OutputInv, OutputType
<1>2. PICK n \in 0 .. produced[s] : Passed(s, n) /\ Piped(s, n)
  BY DEF OutputInv
<1>3. /\ target \in {"running", "signalled"}
      /\ produced' = [produced EXCEPT ![t] = produced[t] + 1]
      /\ Process!send(Process!Frame(t, produced'[t]))
      /\ UNCHANGED <<received, stream, att, target, child, spawn>>
  BY DEF Process!TargetOutput, Process!host
<1>4. PICK f \in Frames : f.kind = t /\ f.of = produced[t] + 1 /\ outq' = Append(outq, f)
  <2>1. Process!Frame(t, produced'[t]) \in Frames
    BY <1>1, <1>3 DEF Frames, Process!Frame
  <2> QED
    BY <2>1, <1>1, <1>3 DEF Process!send, Process!Frame
<1>5. child = "up" /\ spawn # "failed" /\ target # "exited" /\ "eof" \notin Streams
  BY <1>3 DEF Process!send, Process!PipeOpen, OutputInv, Process!StreamedProcessAssumption,
              Process!Kinds
<1>6. n \in Nat /\ n \in 0 .. produced'[s]
  BY <1>1, <1>2, <1>3
<1>7. StreamType(s)' /\ Passed(s, n)'
  <2>1. AllPassed(s, n) => AllPassed(s, n)'
    BY <1>5 DEF AllPassed
  <2> QED
    BY <1>1, <1>2, <1>3, <1>6, <2>1, PassedRests
<1>8. CASE s = t
  <2>1. produced'[s] = produced[s] + 1
    BY <1>1, <1>3, <1>8
  <2>2. Piped(s, n)'
    BY <1>1, <1>2, <1>3, <1>4, <1>5, <1>8, <2>1, ChunkSent
  <2> QED
    BY <1>6, <1>7, <2>2
<1>9. CASE s # t
  <2>1. produced'[s] = produced[s] /\ f.kind # s /\ f.kind # "eof"
    BY <1>1, <1>3, <1>4, <1>5, <1>9
  <2>2. Piped(s, n)'
    BY <1>1, <1>2, <1>3, <1>4, <1>5, <1>6, <2>1, OtherFrameSent
  <2> QED
    BY <1>6, <1>7, <2>2
<1> QED
  BY <1>8, <1>9

(* The Worker handles a frame that is no output.                            *)
LEMMA AnswerHandled ==
    ASSUME OutputInv, Process!StreamedProcessAssumption,
           outq # <<>>, outq' = Tail(outq), outq[1].kind \in Process!Kinds \ {"eof"},
           UNCHANGED <<received, stream, produced, target, child, spawn>>,
           att'.eof = att.eof, att'.disconnected = att.disconnected
    PROVE  \A s \in Streams :
             StreamType(s)' /\ \E n \in 0 .. produced'[s] : Passed(s, n)' /\ Piped(s, n)'
<1> SUFFICES ASSUME NEW s \in Streams
             PROVE  StreamType(s)' /\ \E n \in 0 .. produced'[s] : Passed(s, n)' /\ Piped(s, n)'
  OBVIOUS
<1>1. StreamType(s) /\ produced[s] \in Nat /\ outq \in Seq(Frames)
  BY DEF OutputInv, OutputType
<1>2. PICK n \in 0 .. produced[s] : Passed(s, n) /\ Piped(s, n)
  BY DEF OutputInv
<1>3. n \in Nat /\ n \in 0 .. produced'[s] /\ outq[1].kind # s
  BY <1>1, <1>2 DEF Process!StreamedProcessAssumption
<1>4. AllPassed(s, n) => AllPassed(s, n)'
  BY DEF AllPassed
<1>5. StreamType(s)' /\ Passed(s, n)'
  BY <1>1, <1>2, <1>3, <1>4, PassedRests
<1>6. Piped(s, n)'
  BY <1>1, <1>2, <1>3, OtherFrameTaken
<1> QED
  BY <1>3, <1>5, <1>6

(* The Worker handles a frame of output: the next chunk of a stream, or the *)
(* end of one.                                                              *)
LEMMA FrameOfOutputHandled ==
    ASSUME OutputInv, Process!StreamedProcessAssumption,
           outq # <<>>, outq' = Tail(outq), Process!HandleOutput(outq[1]),
           UNCHANGED <<produced, target, child, spawn>>, spawn = "attached"
    PROVE  \A s \in Streams :
             StreamType(s)' /\ \E n \in 0 .. produced'[s] : Passed(s, n)' /\ Piped(s, n)'
<1> SUFFICES ASSUME NEW s \in Streams
             PROVE  StreamType(s)' /\ \E n \in 0 .. produced'[s] : Passed(s, n)' /\ Piped(s, n)'
  OBVIOUS
<1>1. /\ StreamType(s) /\ produced[s] \in Nat /\ outq \in Seq(Frames)
      /\ DOMAIN received = Streams /\ DOMAIN stream = Streams
      /\ DOMAIN att = {"terminal", "disconnected", "writeClosed", "targetExited", "eof"}
  BY DEF OutputInv, OutputType
<1>2. PICK n \in 0 .. produced[s] : Passed(s, n) /\ Piped(s, n)
  BY DEF OutputInv
<1>3. n \in Nat /\ n \in 0 .. produced'[s] /\ ~stream[s].closed
  BY <1>1, <1>2 DEF Piped
<1>4. "eof" \notin Streams /\ Process!Eof \in Int /\ spawn # "failed"
  BY DEF Process!StreamedProcessAssumption, Process!Kinds, Process!Eof
<1>5. ASSUME NEW item PROVE Process!Pushed(s, item).closed = stream[s].closed
  <2>1. stream[s] \in [items : Seq(Int), reader : BOOLEAN, closed : BOOLEAN]
    BY <1>1 DEF StreamType
  <2> QED
    BY <2>1 DEF Process!Pushed
<1>6. ASSUME stream'[s] = stream[s], received'[s] = received[s],
             att'.disconnected = att.disconnected, s \in att'.eof => s \in att.eof,
             outq[1].kind # s
      PROVE  StreamType(s)' /\ \E k \in 0 .. produced'[s] : Passed(s, k)' /\ Piped(s, k)'
  <2>1. AllPassed(s, n) => AllPassed(s, n)'
    BY DEF AllPassed
  <2>2. StreamType(s)' /\ Passed(s, n)'
    BY <1>1, <1>2, <1>3, <1>6, <2>1, PassedRests
  <2>3. Piped(s, n)'
    BY <1>1, <1>2, <1>3, <1>6, OtherFrameTaken
  <2> QED
    BY <1>3, <2>2, <2>3
<1>7. CASE outq[1].kind \in Streams
  <2> DEFINE t == outq[1].kind
             item == outq[1].of
  <2>1. /\ stream' = [stream EXCEPT ![t] = Process!Pushed(t, item)]
        /\ received' = [received EXCEPT ![t] = Process!Given(t, item)]
        /\ att' = att
    BY <1>4, <1>7 DEF Process!HandleOutput
  <2>2. CASE s # t
    BY <1>1, <1>6, <2>1, <2>2
  <2>3. CASE s = t
    <3>1. stream'[s] = Process!Pushed(s, item) /\ received'[s] = Process!Given(s, item)
      BY <1>1, <2>1, <2>3
    <3>2. stream'[s].closed = stream[s].closed
      BY <1>5, <3>1
    <3>3. item = n + 1 /\ n + 1 <= produced[s] /\ Piped(s, n + 1)'
      BY <1>1, <1>2, <1>3, <2>3, <3>2, ChunkTaken
    <3>4. PICK k \in Nat : k = n + 1
      BY <1>3
    <3>5. StreamType(s)' /\ Passed(s, k)'
      <4>1. k = n + 1 /\ item = k /\ k <= produced[s] /\ item \in Int
        BY <3>3, <3>4
      <4>2. s \in att'.eof => s \in att.eof \/ AllPassed(s, k)
        BY <2>1
      <4> HIDE DEF item, t
      <4> QED
        BY <1>1, <1>2, <1>3, <2>1, <3>1, <4>1, <4>2, OutputHandled
    <3>6. k \in 0 .. produced'[s] /\ Piped(s, k)'
      BY <1>1, <3>3, <3>4
    <3> QED
      BY <3>5, <3>6
  <2> QED
    BY <2>2, <2>3
<1>8. CASE outq[1].kind = "eof"
  <2> DEFINE t == outq[1].of
  <2>1. /\ stream' = [stream EXCEPT ![t] = Process!Pushed(t, Process!Eof)]
        /\ received' = [received EXCEPT ![t] = Process!Given(t, Process!Eof)]
        /\ att'.eof = att.eof \cup {t} /\ att'.disconnected = att.disconnected
    BY <1>1, <1>8 DEF Process!HandleOutput
  <2>2. CASE s # t
    <3>1. stream'[s] = stream[s] /\ received'[s] = received[s] /\ outq[1].kind # s
      BY <1>1, <1>4, <1>8, <2>1, <2>2
    <3> QED
      BY <1>6, <2>1, <2>2, <3>1
  <2>3. CASE s = t
    <3>1. /\ stream'[s] = Process!Pushed(s, Process!Eof)
          /\ received'[s] = Process!Given(s, Process!Eof)
      BY <1>1, <2>1, <2>3
    <3>2. stream'[s].closed = stream[s].closed
      BY <1>5, <3>1
    <3>3. AllPassed(s, n)
      BY <1>1, <1>2, <1>4, <1>8, <2>3, EndTaken
    <3>4. StreamType(s)' /\ Passed(s, n)'
      BY <1>1, <1>2, <1>3, <1>4, <2>1, <3>1, <3>3, OutputHandled
    <3>5. Piped(s, n)'
      BY <1>1, <1>2, <1>3, <1>4, <1>8, <3>2, OtherFrameTaken
    <3> QED
      BY <1>3, <3>4, <3>5
  <2> QED
    BY <2>2, <2>3
<1> QED
  BY <1>7, <1>8 DEF Process!HandleOutput

(* The Worker handles a frame.                                              *)
LEMMA PipeRead ==
    ASSUME OutputInv, Process!StreamedProcessAssumption, Process!HandleFrame
    PROVE  \A s \in Streams :
             StreamType(s)' /\ \E n \in 0 .. produced'[s] : Passed(s, n)' /\ Piped(s, n)'
<1>1. /\ outq # <<>> /\ outq' = Tail(outq) /\ spawn = "attached"
      /\ UNCHANGED <<produced, target, child, spawn>>
  BY DEF Process!HandleFrame, Process!guest, Process!Attached
<1>2. /\ outq \in Seq(Frames)
      /\ DOMAIN att = {"terminal", "disconnected", "writeClosed", "targetExited", "eof"}
  BY DEF OutputInv, OutputType
<1>3. Head(outq) = outq[1]
  BY <1>1, <1>2
<1>4. \/ Process!HandleOutput(outq[1])
      \/ Process!HandleAnswer(outq[1])
      \/ Process!HandleCancelAnswer(outq[1])
      \/ Process!HandleExit(outq[1])
  BY <1>3 DEF Process!HandleFrame
<1>5. CASE ~Process!HandleOutput(outq[1])
  <2>1. /\ outq[1].kind \in Process!Kinds \ {"eof"} /\ UNCHANGED <<received, stream>>
        /\ att'.eof = att.eof /\ att'.disconnected = att.disconnected
    BY <1>2, <1>4, <1>5 DEF Process!HandleAnswer, Process!HandleCancelAnswer,
       Process!HandleExit, Process!Kinds, Process!Settled
  <2> QED
    BY <1>1, <2>1, AnswerHandled
<1> QED
  BY <1>1, <1>5, FrameOfOutputHandled

(* The attachment is dropped (disconnectState), if it was not before.       *)
LEMMA StreamsDropped ==
    ASSUME OutputInv, Process!disconnectState, spawn \in {"attached", "gone"},
           UNCHANGED <<spawn, produced, target>>
    PROVE  \A s \in Streams :
             StreamType(s)' /\ \E n \in 0 .. produced'[s] : Passed(s, n)' /\ Piped(s, n)'
<1>1. CASE att.disconnected
  <2>1. UNCHANGED <<att, stream, received, child, outq>>
    BY <1>1 DEF Process!disconnectState
  <2> QED
    BY <2>1, StreamsRest
<1>2. CASE ~att.disconnected
  <2> SUFFICES ASSUME NEW s \in Streams
               PROVE  StreamType(s)' /\ \E n \in 0 .. produced'[s] : Passed(s, n)' /\ Piped(s, n)'
    OBVIOUS
  <2>1. /\ StreamType(s) /\ produced[s] \in Nat
        /\ DOMAIN att = {"terminal", "disconnected", "writeClosed", "targetExited", "eof"}
    BY DEF OutputInv, OutputType
  <2>2. PICK n \in 0 .. produced[s] : Passed(s, n) /\ Piped(s, n)
    BY DEF OutputInv
  <2>3. /\ stream'[s] = Process!abort
        /\ received'[s] = Process!Ended(stream[s], received[s])
        /\ child' = IF child = "up" THEN "killed" ELSE child
        /\ outq' = <<>>
    BY <1>2 DEF Process!disconnectState
  <2>4. att'.disconnected = TRUE
    BY <1>2, <2>1 DEF Process!disconnectState
  <2>5. StreamType(s)'
    BY <2>1, <2>2, <2>3, <2>4, StreamAborted
  <2>6. PICK m \in 0 .. produced[s] : Passed(s, m)'
    BY <2>1, <2>2, <2>3, <2>4, StreamAborted
  <2>7. stream'[s].closed = TRUE /\ child' # "up" /\ m \in Nat
    BY <2>1, <2>3, <2>6 DEF Process!abort
  <2>8. Piped(s, m)'
    BY <2>3, <2>7, PipeEmptied
  <2> QED
    BY <2>5, <2>6, <2>8
<1> QED
  BY <1>1, <1>2

(* The run of an attachment ends.                                           *)
LEMMA StreamsEnd ==
    ASSUME OutputInv, Process!RunEnds
    PROVE  \A s \in Streams :
             StreamType(s)' /\ \E n \in 0 .. produced'[s] : Passed(s, n)' /\ Piped(s, n)'
<1> SUFFICES ASSUME NEW s \in Streams
             PROVE  StreamType(s)' /\ \E n \in 0 .. produced'[s] : Passed(s, n)' /\ Piped(s, n)'
  OBVIOUS
<1>1. /\ StreamType(s) /\ produced[s] \in Nat
      /\ DOMAIN att = {"terminal", "disconnected", "writeClosed", "targetExited", "eof"}
  BY DEF OutputInv, OutputType
<1>2. PICK n \in 0 .. produced[s] : Passed(s, n) /\ Piped(s, n)
  BY DEF OutputInv
<1>3. /\ outq' = <<>> /\ child' = "dead" /\ spawn' = "gone" /\ produced' = produced
      /\ \E str : stream'[s] = Process!finish(str)
  BY DEF Process!RunEnds, Process!guest
<1>4. n \in Nat /\ n \in 0 .. produced'[s]
  BY <1>1, <1>2, <1>3
<1>5. StreamType(s)' /\ Passed(s, n)'
  BY <1>1, <1>2, <1>4, StreamFinished
<1>6. stream'[s].closed
  BY <1>3 DEF Process!finish
<1>7. Piped(s, n)'
  BY <1>3, <1>4, <1>6, PipeEmptied
<1> QED
  BY <1>4, <1>5, <1>7

(* Nothing was printed.                                                     *)
LEMMA OutputInit == Process!StreamedProcessAssumption /\ Process!Init => OutputInv
<1> SUFFICES ASSUME Process!StreamedProcessAssumption, Process!Init PROVE OutputInv
  OBVIOUS
<1>1. /\ spawn = "idle" /\ retire = "idle" /\ child = "none" /\ target = "none"
      /\ outq = <<>> /\ reply = None /\ produced = [s \in Streams |-> 0]
      /\ stream = [s \in Streams |-> [items |-> <<>>, reader |-> FALSE, closed |-> FALSE]]
      /\ received = [s \in Streams |-> <<>>]
      /\ DOMAIN att = {"terminal", "disconnected", "writeClosed", "targetExited", "eof"}
      /\ att.disconnected = FALSE /\ att.eof = {}
  BY DEF Process!Init
<1>2. <<>> \in Seq(Int) /\ <<>> \in Seq(Frames) /\ Len(<<>>) = 0
  OBVIOUS
<1>3. OutputType
  BY <1>1, <1>2 DEF OutputType, StreamType
<1>4. ASSUME NEW s \in Streams
      PROVE  0 \in 0 .. produced[s] /\ Passed(s, 0) /\ Piped(s, 0)
  <2>1. /\ received[s] = <<>> /\ stream[s].items = <<>> /\ produced[s] = 0
        /\ stream[s].reader = FALSE /\ stream[s].closed = FALSE
    BY <1>1
  <2>2. Passed(s, 0)
    BY <1>1, <1>2, <2>1 DEF Passed, InOrder, Told
  <2>3. Piped(s, 0)
    BY <1>1, <1>2, <2>1 DEF Piped
  <2> QED
    BY <2>1, <2>2, <2>3
<1> QED
  BY <1>1, <1>3, <1>4 DEF OutputInv

(* What the steps do to the progress of the process keeps the parts of the  *)
(* invariant that are not about one stream.                                 *)
LEMMA ProgressKept ==
    ASSUME OutputInv, InputInv, [Process!Next]_(Process!vars)
    PROVE  /\ DOMAIN received' = Streams /\ DOMAIN stream' = Streams
           /\ att'.disconnected \in BOOLEAN
           /\ spawn' \in {"idle", "requested"} => child' = "none" /\ target' = "none"
           /\ spawn' = "failed" => child' = "dead"
           /\ retire' \in {"disconnecting", "cancelling"} => spawn' \in {"attached", "gone"}
           /\ reply' # None => reply' \in Frames /\ reply'.kind \in Process!Kinds \ {"eof", "exit"}
<1>1. /\ DOMAIN received = Streams /\ DOMAIN stream = Streams
      /\ DOMAIN att = {"terminal", "disconnected", "writeClosed", "targetExited", "eof"}
      /\ att.disconnected \in BOOLEAN
      /\ spawn \in {"idle", "requested"} => child = "none" /\ target = "none"
      /\ spawn = "failed" => child = "dead"
      /\ retire \in {"disconnecting", "cancelling"} => spawn \in {"attached", "gone"}
      /\ reply # None => reply \in Frames /\ reply.kind \in Process!Kinds \ {"eof", "exit"}
  BY DEF OutputInv, OutputType
<1>2. CASE Process!RelayInput
  <2>1. inq # <<>> /\ inq \in Seq(Nat) /\ target # "none" /\ UNCHANGED Process!host
    BY <1>2 DEF Process!RelayInput, InputInv, ProcessType
  <2>2. Head(inq) \in Nat
    BY <2>1
  <2>3. reply' \in Frames /\ reply'.kind \in Process!Kinds \ {"eof", "exit"}
    BY <1>2, <2>2 DEF Process!RelayInput, Process!CancelCommand, Process!WriteCommand,
       Process!Frame, Frames, Process!Kinds, Process!Settled
  <2> QED
    BY <1>1, <2>1, <2>3 DEF Process!host
<1>3. CASE \/ Process!RelayReply \/ Process!TargetExit \/ Process!RelayExit
           \/ \E s \in Streams : Process!TargetOutput(s) \/ Process!RelayEof(s)
           \/ UNCHANGED Process!vars
  <2>1. UNCHANGED Process!host /\ (reply' = reply \/ reply' = None)
        /\ (target' = target \/ child = "up")
    BY <1>3 DEF Process!RelayReply, Process!TargetExit, Process!RelayExit,
       Process!TargetOutput, Process!RelayEof, Process!vars, Process!host, Process!guest
  <2> QED
    BY <1>1, <2>1 DEF Process!host
<1>4. CASE \/ \E s \in Streams : Process!Read(s)
           \/ \E close \in BOOLEAN : Process!Write(close)
           \/ \E w \in DOMAIN writes : Process!SubmitWrite(w)
           \/ Process!AckTimeout \/ Process!Cancel \/ Process!CancelTimeout
           \/ Process!DisconnectSettles \/ Process!EnvironmentLost
  <2>1. /\ UNCHANGED <<spawn, child, target, retire, reply>>
        /\ DOMAIN received' = Streams /\ DOMAIN stream' = Streams
        /\ att'.disconnected = att.disconnected
    BY <1>1, <1>4 DEF Process!Read, Process!Write, Process!SubmitWrite, Process!AckTimeout,
       Process!Cancel, Process!CancelTimeout, Process!DisconnectSettles,
       Process!EnvironmentLost, Process!guest
  <2> QED
    BY <1>1, <2>1
<1>5. CASE Process!Spawn \/ Process!Open \/ Process!Attach
  <2>1. UNCHANGED <<received, stream, att, retire, reply>>
    BY <1>5 DEF Process!Spawn, Process!Open, Process!Attach, Process!guest
  <2>2. CASE Process!Spawn
    BY <1>1, <2>1, <2>2 DEF Process!Spawn, Process!guest
  <2>3. CASE Process!Open
    BY <1>1, <2>1, <2>3 DEF Process!Open
  <2>4. CASE Process!Attach
    BY <1>1, <2>1, <2>4 DEF Process!Attach
  <2> QED
    BY <1>5, <2>2, <2>3, <2>4
<1>6. CASE Process!HandleFrame
  <2>1. UNCHANGED <<spawn, child, target, retire, reply>>
    BY <1>6 DEF Process!HandleFrame, Process!guest
  <2>2. PICK f : \/ Process!HandleOutput(f) \/ Process!HandleAnswer(f)
                 \/ Process!HandleCancelAnswer(f) \/ Process!HandleExit(f)
    BY <1>6 DEF Process!HandleFrame
  <2>3. /\ DOMAIN received' = Streams /\ DOMAIN stream' = Streams
        /\ att'.disconnected = att.disconnected
    BY <1>1, <2>2 DEF Process!HandleOutput, Process!HandleAnswer,
       Process!HandleCancelAnswer, Process!HandleExit
  <2> QED
    BY <1>1, <2>1, <2>3
<1>7. CASE Process!RunEnds
  BY <1>1, <1>7 DEF Process!RunEnds, Process!guest, Process!Attached
<1>8. CASE Process!Disconnect \/ Process!RetireDisconnects
  <2>1. /\ UNCHANGED <<spawn, target, reply>> /\ Process!disconnectState
        /\ retire' = retire \/ retire' = "settling"
        /\ spawn \in {"attached", "gone"}
    BY <1>1, <1>8 DEF Process!Disconnect, Process!RetireDisconnects, Process!guest,
       Process!Attached
  <2>2. /\ DOMAIN received' = Streams /\ DOMAIN stream' = Streams
        /\ att'.disconnected \in BOOLEAN
    BY <1>1, <2>1 DEF Process!disconnectState
  <2> QED
    BY <1>1, <2>1, <2>2
<1>9. CASE Process!Retire \/ Process!RetireDone \/ Process!ChildExits \/ Process!ChildDies
  <2>1. UNCHANGED <<received, stream, att, target, reply, spawn>>
    BY <1>9 DEF Process!Retire, Process!RetireDone, Process!ChildExits, Process!ChildDies,
       Process!guest
  <2>2. CASE Process!Retire
    BY <1>1, <2>1, <2>2 DEF Process!Retire, Process!Attached
  <2>3. CASE Process!RetireDone \/ Process!ChildExits \/ Process!ChildDies
    BY <1>1, <2>1, <2>3 DEF Process!RetireDone, Process!ChildExits, Process!ChildDies
  <2> QED
    BY <1>9, <2>2, <2>3
<1> QED
  BY <1>2, <1>3, <1>4, <1>5, <1>6, <1>7, <1>8, <1>9 DEF Process!Next

(* Every step keeps what the output streams tell true.                      *)
LEMMA OutputStep ==
    ASSUME Process!StreamedProcessAssumption, OutputInv, InputInv,
           [Process!Next]_(Process!vars), InputInv'
    PROVE  OutputInv'
<1> SUFFICES \A s \in Streams :
               StreamType(s)' /\ \E n \in 0 .. produced'[s] : Passed(s, n)' /\ Piped(s, n)'
  <2>1. /\ outq' \in Seq(Frames) /\ produced' \in [Streams -> Nat]
        /\ DOMAIN att' = {"terminal", "disconnected", "writeClosed", "targetExited", "eof"}
    BY DEF InputInv, ProcessType
  <2> QED
    BY <2>1, ProgressKept DEF OutputInv, OutputType
<1>0. /\ DOMAIN received = Streams /\ DOMAIN stream = Streams /\ produced \in [Streams -> Nat]
      /\ DOMAIN att = {"terminal", "disconnected", "writeClosed", "targetExited", "eof"}
      /\ spawn \in {"idle", "requested"} => child = "none" /\ target = "none"
      /\ spawn = "failed" => child = "dead"
      /\ retire \in {"disconnecting", "cancelling"} => spawn \in {"attached", "gone"}
      /\ reply # None => reply \in Frames /\ reply.kind \in Process!Kinds \ {"eof", "exit"}
  BY DEF OutputInv, OutputType
<1>1. CASE Process!RelayInput
  <2>1. UNCHANGED <<received, stream, produced, att, outq, spawn, child>>
    BY <1>1 DEF Process!RelayInput, Process!host
  <2>2. target = "exited" => target' = "exited"
    BY <1>1 DEF Process!RelayInput, Process!CancelCommand
  <2>3. child' \in {"none", "up"} \/ target' = "exited" =>
          child \in {"none", "up"} \/ target = "exited"
    BY <1>1, <2>1 DEF Process!RelayInput, Process!CancelCommand
  <2> QED
    BY <2>1, <2>2, <2>3, StreamsRest
<1>2. CASE Process!RelayReply
  <2>1. /\ reply # None /\ Process!send(reply)
        /\ UNCHANGED <<received, stream, att, produced, target, child, spawn>>
    BY <1>2 DEF Process!RelayReply, Process!host
  <2>2. reply \in Frames /\ reply.kind \in Process!Kinds /\ reply.kind # "eof"
    BY <1>0, <2>1
  <2> QED
    BY <2>1, <2>2, NoChunkSent
<1>3. CASE \E s \in Streams : Process!RelayEof(s)
  <2>1. PICK s \in Streams : Process!RelayEof(s)
    BY <1>3
  <2>2. /\ Process!send(Process!Frame("eof", s)) /\ target = "exited"
        /\ UNCHANGED <<received, stream, att, produced, target, child, spawn>>
    BY <2>1 DEF Process!RelayEof, Process!host
  <2>3. PICK f : f = Process!Frame("eof", s)
    OBVIOUS
  <2>4. f \in Frames /\ f.kind \in Process!Kinds
    BY <2>3 DEF Process!Frame, Frames, Process!Kinds
  <2>5. Process!send(f)
    BY <2>2, <2>3
  <2> QED
    BY <2>2, <2>4, <2>5, NoChunkSent
<1>4. CASE Process!RelayExit
  <2>1. /\ Process!send(Process!Frame("exit", None))
        /\ UNCHANGED <<received, stream, att, produced, target, child, spawn>>
    BY <1>4 DEF Process!RelayExit, Process!host, Process!guest
  <2>2. PICK f : f = Process!Frame("exit", None)
    OBVIOUS
  <2>3. f \in Frames /\ f.kind \in Process!Kinds /\ f.kind # "eof"
    BY <2>2 DEF Process!Frame, Frames, Process!Kinds
  <2>4. Process!send(f)
    BY <2>1, <2>2
  <2> QED
    BY <2>1, <2>3, <2>4, NoChunkSent
<1>5. CASE \E s \in Streams : Process!TargetOutput(s)
  BY <1>5, ChunkPrinted
<1>6. CASE Process!TargetExit
  <2>1. /\ child = "up" /\ target # "exited" /\ target' = "exited"
        /\ UNCHANGED <<received, stream, produced, att, outq, spawn, child>>
    BY <1>6 DEF Process!TargetExit, Process!host
  <2> QED
    BY <2>1, StreamsRest
<1>7. CASE \E s \in Streams : Process!Read(s)
  <2>1. PICK t \in Streams : Process!Read(t)
    BY <1>7
  <2>2. UNCHANGED <<att, outq, spawn, child, target, produced>>
    BY <2>1 DEF Process!Read, Process!guest
  <2> SUFFICES ASSUME NEW s \in Streams
               PROVE  StreamType(s)' /\ \E n \in 0 .. produced'[s] : Passed(s, n)' /\ Piped(s, n)'
    OBVIOUS
  <2>3. PICK n \in 0 .. produced[s] : Passed(s, n) /\ Piped(s, n)
    BY DEF OutputInv
  <2>4. StreamType(s) /\ n \in Nat /\ n \in 0 .. produced'[s]
    BY <1>0, <2>2, <2>3 DEF OutputInv, OutputType
  <2>5. StreamType(s)' /\ Passed(s, n)' /\ stream'[s].closed = stream[s].closed
    <3>1. CASE s = t
      BY <1>0, <2>1, <2>3, <2>4, <3>1, StreamRead
    <3>2. CASE s # t
      <4>1. stream'[s] = stream[s] /\ received'[s] = received[s]
        BY <1>0, <2>1, <3>2 DEF Process!Read
      <4>2. AllPassed(s, n) => AllPassed(s, n)'
        BY <2>2 DEF AllPassed
      <4> QED
        BY <2>2, <2>3, <2>4, <4>1, <4>2, PassedRests
    <3> QED
      BY <3>1, <3>2
  <2>6. stream[s].closed => child # "up" /\ spawn \in {"attached", "gone"}
    BY <2>3 DEF Piped
  <2>7. Piped(s, n)'
    BY <2>2, <2>3, <2>4, <2>5, <2>6, PipeRests
  <2> QED
    BY <2>4, <2>5, <2>7
<1>8. CASE Process!Spawn
  <2>1. /\ UNCHANGED <<received, stream, produced, att, outq, target, child>>
        /\ spawn = "idle" /\ spawn' = "requested"
    BY <1>8 DEF Process!Spawn, Process!guest
  <2> QED
    BY <2>1, StreamsRest
<1>9. CASE Process!Open
  <2>1. /\ UNCHANGED <<received, stream, produced, att, outq>> /\ spawn = "requested"
        /\ spawn' = "opened" \/ spawn' = "failed"
    BY <1>9 DEF Process!Open
  <2>2. target # "exited" /\ child = "none"
    BY <1>0, <2>1
  <2> QED
    BY <2>1, <2>2, StreamsRest
<1>10. CASE Process!Attach
  <2>1. /\ UNCHANGED <<received, stream, produced, att, target>> /\ spawn = "opened"
        /\ \/ spawn' = "attached" /\ UNCHANGED <<child, outq>>
           \/ spawn' = "failed" /\ outq' = <<>>
    BY <1>10 DEF Process!Attach, Process!guest
  <2>2. \/ /\ UNCHANGED outq
           /\ spawn = "failed" => spawn' = "failed"
           /\ child' \in {"none", "up"} \/ target' = "exited" =>
                child \in {"none", "up"} \/ target = "exited" \/ spawn' = "failed"
        \/ /\ outq' = <<>>
           /\ spawn' = "failed" \/ (child' \notin {"none", "up"} /\ target' # "exited")
    BY <2>1
  <2>3. child # "up" /\ spawn \in {"attached", "gone"} =>
          child' # "up" /\ spawn' \in {"attached", "gone"}
    BY <2>1
  <2> QED
    BY <2>1, <2>2, <2>3, StreamsRest
<1>11. CASE \/ \E close \in BOOLEAN : Process!Write(close)
            \/ \E w \in DOMAIN writes : Process!SubmitWrite(w)
            \/ Process!AckTimeout \/ Process!Cancel \/ Process!CancelTimeout
            \/ Process!DisconnectSettles \/ Process!EnvironmentLost
            \/ Process!Retire \/ Process!RetireDone \/ UNCHANGED Process!vars
  <2>1. /\ UNCHANGED <<received, stream, produced, outq, target, spawn, child>>
        /\ att'.eof = att.eof /\ att'.disconnected = att.disconnected
    BY <1>0, <1>11 DEF Process!Write, Process!SubmitWrite, Process!AckTimeout,
       Process!Cancel, Process!CancelTimeout, Process!DisconnectSettles,
       Process!EnvironmentLost, Process!Retire, Process!RetireDone, Process!vars,
       Process!guest
  <2> QED
    BY <2>1, StreamsRest
<1>12. CASE Process!HandleFrame
  BY <1>12, PipeRead
<1>13. CASE Process!RunEnds
  BY <1>13, StreamsEnd
<1>14. CASE Process!Disconnect \/ Process!RetireDisconnects
  <2>1. /\ Process!disconnectState /\ UNCHANGED <<spawn, produced, target>>
        /\ spawn \in {"attached", "gone"}
    BY <1>0, <1>14 DEF Process!Disconnect, Process!RetireDisconnects, Process!Attached,
       Process!guest
  <2> QED
    BY <2>1, StreamsDropped
<1>15. CASE Process!ChildExits
  <2>1. /\ UNCHANGED <<received, stream, produced, att, outq, target, spawn>>
        /\ child = "killed" /\ child' = "dead"
    BY <1>15 DEF Process!ChildExits, Process!guest
  <2> QED
    BY <2>1, StreamsRest
<1>16. CASE Process!ChildDies
  <2>1. /\ UNCHANGED <<received, stream, produced, att, target, spawn>>
        /\ child = "up" /\ child' = "dead"
        /\ outq' = outq \/ (target # "exited" /\ outq' = <<>>)
    BY <1>16 DEF Process!ChildDies, Process!guest
  <2>2. \/ /\ UNCHANGED outq
           /\ spawn = "failed" => spawn' = "failed"
           /\ child' \in {"none", "up"} \/ target' = "exited" =>
                child \in {"none", "up"} \/ target = "exited" \/ spawn' = "failed"
        \/ /\ outq' = <<>>
           /\ spawn' = "failed" \/ (child' \notin {"none", "up"} /\ target' # "exited")
    BY <2>1
  <2> QED
    BY <2>1, <2>2, StreamsRest
<1> QED
  BY <1>1, <1>2, <1>3, <1>4, <1>5, <1>6, <1>7, <1>8, <1>9, <1>10, <1>11, <1>12, <1>13,
     <1>14, <1>15, <1>16 DEF Process!Next

(* Whatever the other stream, the pipes, the deadlines and the loss of the  *)
(* launcher do, a reader that was told of the end of its stream and of no   *)
(* error before a disconnection has read all that the target printed to it, *)
(* in order (push, finish and next of BoundedProcessStream, run).           *)
THEOREM StreamsAlwaysComplete ==
    ASSUME Process!StreamedProcessAssumption PROVE Process!Spec => []StreamsAreComplete
<1>1. Process!Spec => [](InputInv /\ OutputInv)
  <2>1. Process!Init => InputInv /\ OutputInv
    BY InputInit, OutputInit
  <2>2. (InputInv /\ OutputInv) /\ [Process!Next]_(Process!vars) => (InputInv /\ OutputInv)'
    BY InputStep, OutputStep
  <2> QED
    BY <2>1, <2>2, PTL DEF Process!Spec
<1>2. OutputInv => StreamsAreComplete
  <2> SUFFICES ASSUME OutputInv, NEW s \in Streams
               PROVE  /\ \E n \in 0 .. Len(received[s]) : Process!Chunks(s) = 1 .. n
                      /\ \A i \in Process!Chunks(s) : received[s][i] = i
                      /\ (Process!Contains(received[s], Process!Eof) \/
                           (Process!Contains(received[s], Process!Done) /\ ~att.disconnected
                            /\ ~Process!Contains(received[s], Process!Error)))
                         => Process!Chunks(s) = 1 .. produced[s] /\ target = "exited"
    BY DEF StreamsAreComplete, Process!StreamsAreComplete, OutputInv, OutputType
  <2>1. /\ received[s] \in Seq(Int) /\ Len(received[s]) \in Nat
        /\ DOMAIN received[s] = 1 .. Len(received[s]) /\ Len(<<>>) = 0
        /\ produced[s] \in Nat
    BY DEF OutputInv, OutputType, StreamType
  <2>2. PICK n \in 0 .. produced[s] : Passed(s, n)
    BY DEF OutputInv
  <2>3. \A i \in 1 .. Len(received[s]) :
          IF i <= n THEN received[s][i] = i ELSE received[s][i] \in Marks
    BY <2>2 DEF Passed, InOrder
  <2>4. Marks = {Process!Eof, Process!Error, Process!Done} /\ \A m \in Marks : m \notin Nat
    BY DEF Marks, Process!Eof, Process!Error, Process!Done
  <2>5. PICK m \in 0 .. Len(received[s]) :
          m = IF n <= Len(received[s]) THEN n ELSE Len(received[s])
    BY <2>1
  <2>6. Process!Chunks(s) = 1 .. m
    <3>1. ASSUME NEW i \in 1 .. Len(received[s]), i <= m PROVE received[s][i] \notin Marks
      BY <2>1, <2>3, <2>4, <2>5, <3>1
    <3>2. ASSUME NEW i \in 1 .. Len(received[s]), i > m PROVE received[s][i] \in Marks
      BY <2>1, <2>3, <2>5, <3>2
    <3> QED
      BY <2>1, <2>4, <2>5, <3>1, <3>2 DEF Process!Chunks
  <2>7. \A i \in 1 .. m : received[s][i] = i
    BY <2>1, <2>3, <2>5
  <2>8. ASSUME NEW mark \in Marks, Process!Contains(received[s], mark)
        PROVE  Told(received[s], stream[s].items, mark) /\ m = n
    <3>1. PICK i \in 1 .. Len(received[s]) : received[s][i] = mark
      BY <2>8 DEF Process!Contains
    <3>2. i > n
      BY <2>3, <2>4, <3>1
    <3> QED
      BY <2>1, <2>5, <3>1, <3>2 DEF Told
  <2>9. ASSUME Process!Contains(received[s], Process!Eof) PROVE m = n /\ AllPassed(s, n)
    <3>1. Told(received[s], stream[s].items, Process!Eof) /\ m = n
      BY <2>4, <2>8, <2>9
    <3> QED
      BY <2>2, <3>1 DEF Passed
  <2>10. ASSUME Process!Contains(received[s], Process!Done), ~att.disconnected,
                ~Process!Contains(received[s], Process!Error)
         PROVE  m = n /\ AllPassed(s, n)
    <3>1. Told(received[s], stream[s].items, Process!Done) /\ m = n
      BY <2>4, <2>8, <2>10
    <3>2. stream[s].closed /\ stream[s].items = <<>>
      BY <2>2, <3>1 DEF Passed
    <3>3. ~Told(received[s], stream[s].items, Process!Error)
      BY <2>1, <2>10, <3>2 DEF Told, Process!Contains
    <3> QED
      BY <2>2, <2>10, <3>1, <3>2, <3>3 DEF Passed
  <2> QED
    BY <2>5, <2>6, <2>7, <2>9, <2>10 DEF AllPassed
<1> QED
  BY <1>1, <1>2, PTL

=============================================================================
