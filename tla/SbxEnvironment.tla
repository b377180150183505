--------------------------- MODULE SbxEnvironment ---------------------------
(***************************************************************************)
(* The durable Docker Sandboxes environment of one owner (a Run or a        *)
(* provider account): sbx-backend.ts over store.ts and sbx-client.ts.       *)
(* Several Worker processes share the SQLite store; withOwner serializes    *)
(* the lifecycle operations of one process, nothing serializes two          *)
(* processes, and the lease operations of a process run beside its          *)
(* lifecycle operations.  A step is the code between two awaits; an         *)
(* inventory request, a native command and a process can each fail.         *)
(*                                                                          *)
(*   row    the unretired row of execution_environments with the events of  *)
(*          its stop attempts (only those its readers distinguish) and the  *)
(*          attempt of the last event, which is the one they read; the      *)
(*          states stopped, missing, incompatible and degraded, which no    *)
(*          reader tells apart, are "unusable";                             *)
(*   box    the sandbox that has the owner's deterministic name: "rec" is   *)
(*          the incarnation it was created with (0: not created by QE);     *)
(*   op     the lifecycle operation a process is in and what it will do     *)
(*          next;  lease  the incarnation a process holds a lease on;       *)
(*   exec   how far a lease command of the process has come;                *)
(*   run    the instance of a process (its creation token and PID).         *)
(***************************************************************************)
EXTENDS Naturals, Sequences

CONSTANTS Workers, MaxRecords, MaxBoxes, MaxStops, MaxCrashes, None

VARIABLES row, nrec, box, nbox, op, lease, exec, run

StopEvent == {"started", "acknowledged", "ambiguous", "not_started", "confirmed", "reopened"}

(* The columns of an unretired row that its readers tell apart.             *)
Row == [rec : Nat, env : Nat, state : {"creating", "running", "unusable"},
        token : Workers \X Nat, stops : Seq(SUBSET StopEvent), latest : Nat]

SandboxAssumption == None \notin Row

vars == <<row, nrec, box, nbox, op, lease, exec, run>>
physical == <<box, nbox>>
leases == <<lease, exec>>

Init ==
  /\ row = None /\ nrec = 0 /\ box = None /\ nbox = 0
  /\ op = [w \in Workers |-> None]
  /\ lease = [w \in Workers |-> 0]
  /\ exec = [w \in Workers |-> "idle"]
  /\ run = [w \in Workers |-> 0]

(* requiredStopAttempt: what the events of an attempt say. *)
latestStopAttempt(r) == IF r.latest = 0 THEN {"reopened"} ELSE r.stops[r.latest]
Pending(r)   == "reopened" \notin latestStopAttempt(r)
Confirmed(r) == "confirmed" \in latestStopAttempt(r)
Invocation(events) ==
  IF "acknowledged" \in events THEN "acknowledged"
  ELSE IF "ambiguous" \in events THEN "ambiguous"
  ELSE IF "started" \in events THEN "started" ELSE "not_invoked"

IsCurrent(rec) == row # None /\ row.rec = rec
Do(w, next) == op' = [op EXCEPT ![w] = next]
Throw(w) == Do(w, None)
Goto(w, phase) == Do(w, [op[w] EXCEPT !.ph = phase])
At(w, phase) == op[w] # None /\ op[w].ph = phase

markState(rec, state) ==
  row' = IF IsCurrent(rec) THEN [row EXCEPT !.state = state] ELSE row

retire(rec) == row' = IF IsCurrent(rec) THEN None ELSE row

appendStopEvent(r, id, type) ==
  IF id = 0 THEN r ELSE [r EXCEPT !.stops[id] = @ \cup {type}, !.latest = id]

locateSandbox(env) ==
  IF box = None THEN "missing"
  ELSE IF env \in {0, box.id} THEN "exact" ELSE "mismatch"

Observations(env) == {locateSandbox(env), "unavailable"}

-----------------------------------------------------------------------------
(* ensure and recover *)

claimCreation(w) ==
  IF row = None
  THEN [rec |-> nrec + 1, env |-> 0, state |-> "creating", token |-> <<w, run[w]>>,
        stops |-> <<>>, latest |-> 0]
  ELSE row

assertStopRecoverable(r) == ~Pending(r) \/ Confirmed(r)

(* The intent of a creator that is no longer alive may be taken over. *)
acquireCreationOwnership(w, r) ==
  r.token = <<w, run[w]>> \/ run[r.token[1]] # r.token[2]

ensure(w) ==
  /\ op[w] = None
  /\ row = None => nrec < MaxRecords
  /\ LET r == claimCreation(w) IN
     /\ nrec' = IF row = None THEN nrec + 1 ELSE nrec
     /\ \/ /\ r.env # 0 /\ assertStopRecoverable(r)
           /\ row' = r
           /\ Do(w, [ph |-> "exact", rec |-> r.rec, env |-> r.env, stop |-> 0])
        \/ /\ r.env = 0 /\ r.state = "creating" /\ acquireCreationOwnership(w, r)
           /\ row' = [r EXCEPT !.token = <<w, run[w]>>]
           /\ Do(w, [ph |-> "find", rec |-> r.rec, env |-> 0, stop |-> 0])
        \/ /\ r.env = 0 /\ r.state = "creating" /\ ~acquireCreationOwnership(w, r)
           /\ row' = r
           /\ Do(w, [ph |-> "wait", rec |-> r.rec, env |-> 0, stop |-> 0])
  /\ UNCHANGED <<physical, leases, run>>

waitForPhysicalBinding(w) ==
  /\ At(w, "wait")
  /\ \/ /\ IsCurrent(op[w].rec) /\ row.env # 0 /\ assertStopRecoverable(row)
        /\ Do(w, [op[w] EXCEPT !.ph = "exact", !.env = row.env])
        /\ UNCHANGED row
     \/ /\ IsCurrent(op[w].rec) /\ row.state = "creating" /\ row.env = 0
        /\ acquireCreationOwnership(w, row)
        /\ row' = [row EXCEPT !.token = <<w, run[w]>>]
        /\ Goto(w, "find")
     \/ Throw(w) /\ UNCHANGED row
  /\ UNCHANGED <<nrec, physical, leases, run>>

findUnboundSandbox(w) ==
  /\ At(w, "find")
  /\ \/ box = None /\ Goto(w, "create")
     \/ box # None /\ Goto(w, "initialize")
     \/ Throw(w)
  /\ UNCHANGED <<row, nrec, physical, leases, run>>

(* The native create may fail before, or be lost after, it takes effect. *)
create(w) ==
  /\ At(w, "create")
  /\ \/ /\ box = None /\ nbox < MaxBoxes
        /\ nbox' = nbox + 1
        /\ box' = [id |-> nbox + 1, rec |-> op[w].rec, status |-> "running"]
        /\ Goto(w, "initialize_created")
        /\ UNCHANGED row
     \/ /\ box # None /\ Goto(w, "initialize_created")
        /\ UNCHANGED <<row, physical>>
     \/ /\ box = None /\ markState(op[w].rec, "unusable") /\ Throw(w)
        /\ UNCHANGED physical
  /\ UNCHANGED <<nrec, leases, run>>

(* The verifier's identity checks: the incarnation a sandbox was created    *)
(* with, and the marker (with the native id) found in a bound one.          *)
verifyCreationIdentity(rec) == box # None /\ box.status = "running" /\ box.rec = rec
MarkerVerifies(env) == box # None /\ box.status = "running" /\ box.id = env

bindPhysical(r, id) == [r EXCEPT !.env = id, !.state = "running"]

(* denyNetwork, provision and verifier.initialize; any of their other       *)
(* checks may also fail.                                                    *)
initialize(w) ==
  /\ At(w, "initialize") \/ At(w, "initialize_created")
  /\ \/ /\ verifyCreationIdentity(op[w].rec)
        /\ IsCurrent(op[w].rec) /\ row.env \in {0, box.id}
        /\ row' = bindPhysical(row, box.id)
        /\ lease' = [lease EXCEPT ![w] = op[w].rec]
        /\ Throw(w)
     \/ /\ markState(op[w].rec, "unusable")
        /\ IF At(w, "initialize_created") THEN Goto(w, "undo") ELSE Throw(w)
        /\ UNCHANGED lease
  /\ UNCHANGED <<nrec, physical, exec, run>>

undoCreation(w) ==
  /\ At(w, "undo") /\ Throw(w)
  /\ \/ box' = None /\ retire(op[w].rec)
     \/ UNCHANGED <<box, row>>
  /\ UNCHANGED <<nrec, nbox, leases, run>>

recover(w) ==
  /\ op[w] = None /\ row # None
  /\ row.env # 0 /\ assertStopRecoverable(row)
  /\ Do(w, [ph |-> "exact", rec |-> row.rec, env |-> row.env, stop |-> 0])
  /\ UNCHANGED <<row, nrec, physical, leases, run>>

requireExactSandbox(w) ==
  /\ At(w, "exact")
  /\ \E seen \in Observations(op[w].env) :
       /\ IF seen = "missing" THEN markState(op[w].rec, "unusable") ELSE UNCHANGED row
       /\ IF seen # "exact" \/ box.status = "stopping" THEN Throw(w)
          ELSE Goto(w, IF box.status = "running" THEN "verify" ELSE "start")
  /\ UNCHANGED <<nrec, physical, leases, run>>

(* A stopped sandbox starts when a command is run in it. *)
Started == IF box = None \/ box.status = "running" THEN box
           ELSE [box EXCEPT !.status = "running"]

startIfStopped(w) ==
  /\ At(w, "start")
  /\ \/ box' = Started /\ (Goto(w, "verify") \/ Throw(w))
     \/ UNCHANGED box /\ Throw(w)
  /\ UNCHANGED <<row, nrec, nbox, leases, run>>

reopenStopCycle(r) ==
  IF Pending(r) /\ Confirmed(r) THEN appendStopEvent(r, r.latest, "reopened") ELSE r

verify(w) ==
  /\ At(w, "verify") /\ Throw(w)
  /\ \/ /\ MarkerVerifies(op[w].env) /\ IsCurrent(op[w].rec)
        /\ row' = reopenStopCycle([row EXCEPT !.state = "running"])
        /\ lease' = [lease EXCEPT ![w] = op[w].rec]
     \/ /\ markState(op[w].rec, "unusable")
        /\ UNCHANGED lease
  /\ UNCHANGED <<nrec, physical, exec, run>>

-----------------------------------------------------------------------------
(* stop, reconcileStop and the background reconciler *)

(* reconcileStopRecord up to its inventory request: a claimed request whose *)
(* outcome nobody recorded is ambiguous.                                    *)
reconcileStopRecord(r, rec) ==
  IF r # None /\ r.rec = rec /\ Invocation(latestStopAttempt(r)) = "started"
  THEN appendStopEvent(r, r.latest, "ambiguous") ELSE r

stop(w) ==
  /\ op[w] = None /\ row # None /\ row.env # 0
  /\ Do(w, [ph |-> IF Pending(row) THEN "project" ELSE "observe",
            rec |-> row.rec, env |-> row.env, stop |-> 0])
  /\ row' = IF Pending(row) THEN reconcileStopRecord(row, row.rec) ELSE row
  /\ UNCHANGED <<nrec, physical, leases, run>>

projectStopObservation(rec, seen, attempted) ==
  LET state == IF seen = "exact" /\ box.status = "running" THEN "running" ELSE "unusable"
      gone == seen = "missing" \/ (seen = "exact" /\ box.status = "stopped")
      r == [row EXCEPT !.state = state]
  IN row' = IF ~IsCurrent(rec) THEN row
            ELSE IF attempted /\ gone THEN appendStopEvent(r, r.latest, "confirmed") ELSE r

beginStop(r) ==
  IF Pending(r) THEN r
  ELSE [r EXCEPT !.stops = Append(@, {}), !.latest = Len(r.stops) + 1]

observeAndBegin(w) ==
  /\ At(w, "observe")
  /\ \E seen \in Observations(op[w].env) :
       IF seen = "exact" /\ box.status = "running" /\ IsCurrent(op[w].rec)
       THEN LET begun == beginStop(row) IN
            /\ Len(begun.stops) <= MaxStops
            /\ row' = IF begun = row THEN reconcileStopRecord(row, row.rec) ELSE begun
            /\ Do(w, [op[w] EXCEPT !.stop = begun.latest,
                        !.ph = IF begun = row THEN "project" ELSE "fence"])
       ELSE /\ Throw(w)
            /\ IF seen = "mismatch" THEN UNCHANGED row
               ELSE projectStopObservation(op[w].rec, seen, FALSE)
  /\ UNCHANGED <<nrec, physical, leases, run>>

(* The pre-spawn callback of the native request: the second identity fence  *)
(* and the claim.  A refusal records that nothing was sent.                 *)
claimStopInvocation(w) ==
  /\ At(w, "fence")
  /\ \E seen \in Observations(op[w].env) :
       LET id == op[w].stop
           current == IsCurrent(op[w].rec)
           claimed == /\ seen = "exact" /\ box.status = "running" /\ current
                      /\ Invocation(row.stops[id]) = "not_invoked"
       IN /\ Goto(w, IF claimed THEN "native" ELSE "project")
          /\ row' = IF claimed THEN appendStopEvent(row, id, "started")
                    ELSE IF ~current THEN row
                    ELSE reconcileStopRecord(appendStopEvent(row, id,
                           IF Invocation(latestStopAttempt(row)) = "not_invoked"
                           THEN "not_started" ELSE "ambiguous"), row.rec)
  /\ UNCHANGED <<nrec, physical, leases, run>>

(* The sandbox named by the owner is stopped, whichever it is by now; the   *)
(* request may time out with or without effect.                             *)
nativeStop(w) ==
  /\ At(w, "native") /\ Goto(w, "project")
  /\ \E effect \in BOOLEAN, event \in {"acknowledged", "ambiguous"} :
       /\ box' = IF box = None THEN box
                 ELSE [box EXCEPT !.status = IF effect /\ @ = "running" THEN "stopping" ELSE @]
       /\ row' = IF IsCurrent(op[w].rec) THEN appendStopEvent(row, op[w].stop, event)
                 ELSE row
  /\ UNCHANGED <<nrec, nbox, leases, run>>

projectStop(w) ==
  /\ At(w, "project") /\ Throw(w)
  /\ \E seen \in Observations(op[w].env) : projectStopObservation(op[w].rec, seen, TRUE)
  /\ UNCHANGED <<nrec, physical, leases, run>>

reconcileStop(w) ==
  /\ op[w] = None /\ row # None /\ row.env # 0
  /\ Do(w, [rec |-> row.rec, env |-> row.env, stop |-> 0,
            ph |-> IF Pending(row) THEN "project" ELSE "survey"])
  /\ row' = IF Pending(row) THEN reconcileStopRecord(row, row.rec) ELSE row
  /\ UNCHANGED <<nrec, physical, leases, run>>

surveyUnstopped(w) ==
  /\ At(w, "survey") /\ Throw(w)
  /\ \E seen \in Observations(op[w].env) : projectStopObservation(op[w].rec, seen, FALSE)
  /\ UNCHANGED <<nrec, physical, leases, run>>

-----------------------------------------------------------------------------
(* remove and inspect *)

remove(w) ==
  /\ op[w] = None /\ row # None /\ row.env # 0
  /\ Pending(row) => Confirmed(row)
  /\ Do(w, [ph |-> "locate", rec |-> row.rec, env |-> row.env, stop |-> 0])
  /\ UNCHANGED <<row, nrec, physical, leases, run>>

locateForRemoval(w) ==
  /\ At(w, "locate")
  /\ \E seen \in Observations(op[w].env) :
       CASE seen = "exact" -> Goto(w, "rm")
         [] seen = "missing" -> Goto(w, "absent")
         [] OTHER -> Throw(w)
  /\ UNCHANGED <<row, nrec, physical, leases, run>>

nativeRemove(w) ==
  /\ At(w, "rm") /\ Goto(w, "absent")
  /\ box' \in {None, box}
  /\ UNCHANGED <<row, nrec, nbox, leases, run>>

proveAbsence_assumed(w) ==   (* Mutant: removal retires without proving absence. *)
  /\ At(w, "absent") /\ Throw(w) /\ retire(op[w].rec)
  /\ UNCHANGED <<nrec, physical, leases, run>>
proveAbsence(w) ==
  /\ At(w, "absent") /\ Throw(w)
  /\ \E seen \in Observations(op[w].env) :
       IF seen = "missing" THEN retire(op[w].rec) ELSE UNCHANGED row
  /\ UNCHANGED <<nrec, physical, leases, run>>

(* inspect is not serialized; its verification verdict is one observation. *)
inspect(w) ==
  /\ row # None /\ row.env # 0
  /\ \E seen \in Observations(row.env) :
     \E state \in {"unusable"} \cup
                 IF seen = "exact" /\ box.status = "running" THEN {"running"} ELSE {} :
       markState(row.rec, state)
  /\ UNCHANGED <<nrec, physical, op, leases, run>>

-----------------------------------------------------------------------------
(* Lease operations *)

requireUsableLease(w) ==
  /\ exec[w] = "idle" /\ lease[w] # 0 /\ IsCurrent(lease[w])
  /\ ~Pending(row) /\ row.state = "running"
  /\ exec' = [exec EXCEPT ![w] = "listing"]
  /\ UNCHANGED <<row, nrec, physical, op, lease, run>>

listForLease(w) ==
  /\ exec[w] = "listing"
  /\ LET r == IF IsCurrent(lease[w]) THEN row.env ELSE 0 IN
     \E seen \in Observations(r) :
       IF seen = "exact" /\ box.status = "running"
       THEN exec' = [exec EXCEPT ![w] = "submit"] /\ UNCHANGED row
       ELSE /\ exec' = [exec EXCEPT ![w] = "idle"]
            /\ IF seen \in {"missing", "exact"} THEN markState(lease[w], "unusable")
               ELSE UNCHANGED row
  /\ UNCHANGED <<nrec, physical, op, lease, run>>

leaseExec(w) ==
  /\ exec[w] = "submit"
  /\ exec' = [exec EXCEPT ![w] = "idle"]
  /\ box' = IF box # None /\ box.status = "stopping" THEN box ELSE Started
  /\ UNCHANGED <<row, nrec, nbox, op, lease, run>>

-----------------------------------------------------------------------------
(* The sandbox daemon, its other users, and process death *)

daemonStops ==
  /\ box # None /\ box.status = "stopping"
  /\ box' = [box EXCEPT !.status = "stopped"]
  /\ UNCHANGED <<row, nrec, nbox, op, leases, run>>

(* Somebody else stops, removes or replaces the sandbox. *)
outsideChange ==
  /\ box # None /\ nbox < MaxBoxes
  /\ \/ box' = [box EXCEPT !.status = "stopped"] /\ UNCHANGED nbox
     \/ box' = None /\ UNCHANGED nbox
     \/ box' = [id |-> nbox + 1, rec |-> 0, status |-> "running"]
        /\ nbox' = nbox + 1
  /\ UNCHANGED <<row, nrec, op, leases, run>>

crash(w) ==
  /\ \A x \in Workers : run[x] < MaxCrashes
  /\ run' = [run EXCEPT ![w] = @ + 1]
  /\ Throw(w)
  /\ lease' = [lease EXCEPT ![w] = 0]
  /\ exec' = [exec EXCEPT ![w] = "idle"]
  /\ UNCHANGED <<row, nrec, physical>>

Next ==
  \/ \E w \in Workers :
       \/ ensure(w) \/ waitForPhysicalBinding(w) \/ findUnboundSandbox(w)
       \/ create(w) \/ initialize(w) \/ undoCreation(w)
       \/ recover(w) \/ requireExactSandbox(w) \/ startIfStopped(w) \/ verify(w)
       \/ stop(w) \/ observeAndBegin(w) \/ claimStopInvocation(w) \/ nativeStop(w)
       \/ projectStop(w) \/ reconcileStop(w)
       \/ surveyUnstopped(w)
       \/ remove(w) \/ locateForRemoval(w) \/ nativeRemove(w) \/ proveAbsence(w)
       \/ inspect(w)
       \/ requireUsableLease(w) \/ listForLease(w) \/ leaseExec(w) \/ crash(w)
  \/ daemonStops \/ outsideChange

Spec == Init /\ [][Next]_vars

-----------------------------------------------------------------------------
(* Safety: as long as a sandbox created for the owner exists, the unretired *)
(* row of that incarnation exists too, so that somebody can still stop and  *)
(* remove it (undoCreation, proveAbsence).                                  *)
NoOrphanedSandbox == box # None /\ box.rec # 0 => IsCurrent(box.rec)

(* What docs/execution-environment-backend.md says of leases: "A pending    *)
(* stop immediately fences the lease."  A command of a lease is submitted   *)
(* (leaseExec) after the inventory request that followed its check.         *)
PendingStopFencesLease ==
  [][\A w \in Workers : (exec[w] = "submit" /\ exec'[w] = "idle" /\ lease'[w] # 0)
        => ~(row # None /\ row.rec = lease[w] /\ Pending(row))]_vars

(* What the same document says of recovery: it "appends                     *)
(* `stop_cycle_reopened` so a later intentional stop has a new identity".   *)
(* A process that recorded its intent before another process saw the        *)
(* sandbox stopped and recovered it still claims the old identity.          *)
ReopenedCycleIsClosed ==
  [][\A w \in Workers : (At(w, "fence") /\ op'[w] # None /\ op'[w].ph = "native")
        => "reopened" \notin row.stops[op[w].stop]]_vars

(* What the same document says of remove: it "targets only that stopped     *)
(* incarnation".                                                            *)
RemoveTargetsStopped ==
  [][\A w \in Workers : (At(w, "rm") /\ box # None /\ box' = None)
        => box.status # "running"]_vars
=============================================================================
