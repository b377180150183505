--------------------------- MODULE LocalObservation ---------------------------
(***************************************************************************)
(* The desktop client's observation of one execution session: the store     *)
(* (attachLiveSession, detachSession, reconcileLocalObservation), the native *)
(* registry of the app (main.rs) and, for each local session, the launcher  *)
(* in a Terminal window with the attach client it has started.              *)
(***************************************************************************)
EXTENDS Naturals, Sequences

CONSTANTS
    None,
    MaxOpenings,       \* bound: local sessions (new_local_session_id never repeats one)
    MaxDetaches        \* closes the user asks for

VARIABLES
    child,             \* attach client: "none", "running" or "reaped"
    launcher,          \* [phase, reason, deadline]: run_attachment_pid_lifecycle
    queue,             \* its events, oldest first
    closed,            \* the Closed message on the control stream, or None
    native,            \* LocalObservationStatus.state, "none" if not registered
    events,            \* emitted, not yet delivered: [o, state]
    closing,           \* calls of close_live_session: [o, by, phase, state]
    opening,           \* localObservationOpenings: [o, phase] or None
    shown,             \* localObservations of the session: [o, state] or None
    pending,           \* pendingLocalObservationEvents
    detaches,          \* bounded: detaches asked for
    astray             \* history: a signal was sent to a pid already reaped

vars == <<child, launcher, queue, closed, native, events, closing, opening, shown, pending,
          detaches, astray>>

Openings == 1 .. MaxOpenings
Over == {"detached", "unavailable"}

Opening == [o : Openings, phase : {"asked", "recording", "undoing"}]

OpeningsAssumption == MaxOpenings \in Nat /\ None \notin Over /\ None \notin Opening

NoLauncher == [phase |-> "none", reason |-> "exited", deadline |-> FALSE]

TypeOK ==
    /\ child \in [Openings -> {"none", "running", "reaped"}]
    /\ launcher \in [Openings -> [phase : {"none", "monitoring", "done"}, deadline : BOOLEAN,
                                  reason : {"exited", "explicit_close", "terminal_closed"}]]
    /\ \A o \in Openings : queue[o] \in Seq({"detach", "terminal", "exit_0", "exit_1"})
    /\ closed \in [Openings -> Over \cup {None}]
    /\ native \in [Openings -> Over \cup {"none", "attached", "detaching"}]
    /\ events \in Seq([o : Openings, state : Over])
    /\ closing \subseteq [o : Openings, by : {"user", "opening"}, state : Over \cup {None},
                          phase : {"called", "waiting", "replied"}]
    /\ opening \in Opening \cup {None}
    /\ shown \in [o : Openings, state : Over \cup {"attached", "detaching"}] \cup {None}
    /\ pending \in [Openings -> Over \cup {None}]

Init ==
    /\ child = [o \in Openings |-> "none"]
    /\ launcher = [o \in Openings |-> NoLauncher]
    /\ queue = [o \in Openings |-> <<>>]
    /\ closed = [o \in Openings |-> None]
    /\ native = [o \in Openings |-> "none"]
    /\ events = <<>> /\ closing = {} /\ opening = None /\ shown = None
    /\ pending = [o \in Openings |-> None]
    /\ detaches = 0 /\ astray = FALSE

store == <<opening, shown, pending, detaches>>

-----------------------------------------------------------------------------
(* The launcher: one thread waits for the attach client and reaps it, one    *)
(* reads the control stream, a handler hears the Terminal close.             *)

ChildExits(o) ==
    /\ child[o] = "running"
    /\ child' = [child EXCEPT ![o] = "reaped"]
    /\ \E status \in {"exit_0", "exit_1"} : queue' = [queue EXCEPT ![o] = Append(@, status)]
    /\ UNCHANGED <<launcher, closed, native, events, closing, store, astray>>

TerminalCloses(o) ==
    /\ launcher[o].phase = "monitoring" /\ launcher[o].reason # "terminal_closed"
    /\ \A i \in DOMAIN queue[o] : queue[o][i] # "terminal"
    /\ queue' = [queue EXCEPT ![o] = Append(@, "terminal")]
    /\ UNCHANGED <<child, launcher, closed, native, events, closing, store, astray>>

(* request_attachment_child_exit: SIGTERM once, to the pid                   *)
RequestExit(o, reason) ==
    /\ launcher' = [launcher EXCEPT ![o].reason = reason, ![o].deadline = TRUE]
    /\ astray' = (astray \/ (~launcher[o].deadline /\ child[o] = "reaped"))
    /\ UNCHANGED closed

Outcome(o, state) ==
    /\ launcher' = [launcher EXCEPT ![o].phase = "done"]
    /\ closed' = [closed EXCEPT ![o] = state]
    /\ UNCHANGED astray

LauncherStep(o) ==
    /\ launcher[o].phase = "monitoring" /\ queue[o] # <<>>
    /\ queue' = [queue EXCEPT ![o] = Tail(@)]
    /\ CASE Head(queue[o]) = "detach" -> RequestExit(o, "explicit_close")
         [] Head(queue[o]) = "terminal" -> RequestExit(o, "terminal_closed")
         [] Head(queue[o]) = "exit_0" ->
              Outcome(o, IF launcher[o].reason = "exited" THEN "unavailable" ELSE "detached")
         [] Head(queue[o]) = "exit_1" -> Outcome(o, "unavailable")
    /\ UNCHANGED <<child, native, events, closing, store>>

(* the deadline: SIGKILL, and at most one more second for the exit           *)
LauncherTimeout(o) ==
    /\ launcher[o].phase = "monitoring" /\ launcher[o].deadline /\ queue[o] = <<>>
    /\ Outcome(o, "unavailable")
    /\ child' \in {child, [child EXCEPT ![o] = "reaped"]}
    /\ UNCHANGED <<queue, native, events, closing, store>>

-----------------------------------------------------------------------------
(* The native side of the app.                                              *)

(* open_live_session up to the Started message, and its registration         *)
OpenNative ==
    /\ opening # None /\ opening.phase = "asked"
    /\ LET o == opening.o
       IN /\ child' = [child EXCEPT ![o] = "running"]
          /\ launcher' = [launcher EXCEPT ![o].phase = "monitoring"]
          /\ native' = [native EXCEPT ![o] = "attached"]
    /\ opening' = [opening EXCEPT !.phase = "recording"]
    /\ UNCHANGED <<queue, closed, events, closing, shown, pending, detaches, astray>>

OpenFails ==
    /\ opening # None /\ opening.phase = "asked"
    /\ opening' = None
    /\ UNCHANGED <<child, launcher, queue, closed, native, events, closing, shown, pending,
                   detaches, astray>>

(* the monitor thread of a registered observation                            *)
Monitor(o) ==
    /\ closed[o] # None
    /\ closed' = [closed EXCEPT ![o] = None]
    /\ native' = [native EXCEPT ![o] = closed[o]]
    /\ events' = Append(events, [o |-> o, state |-> closed[o]])
    /\ UNCHANGED <<child, launcher, queue, closing, store, astray>>

Replied(k, state) == (closing \ {k}) \cup {[k EXCEPT !.phase = "replied", !.state = state]}

(* close_local_observation under the status lock: the request cannot be      *)
(* written once the launcher is gone                                         *)
CloseNative(k) ==
    /\ k \in closing /\ k.phase = "called"
    /\ \/ /\ native[k.o] \in Over
          /\ closing' = Replied(k, native[k.o])
          /\ UNCHANGED <<native, queue>>
       \/ /\ native[k.o] = "attached" /\ launcher[k.o].phase = "monitoring"
          /\ native' = [native EXCEPT ![k.o] = "detaching"]
          /\ queue' = [queue EXCEPT ![k.o] = Append(@, "detach")]
          /\ closing' = (closing \ {k}) \cup {[k EXCEPT !.phase = "waiting"]}
       \/ /\ native[k.o] = "attached" /\ launcher[k.o].phase = "done"
          /\ native' = [native EXCEPT ![k.o] = "unavailable"]
          /\ closing' = Replied(k, "unavailable")
          /\ UNCHANGED queue
       \/ /\ native[k.o] = "detaching"
          /\ closing' = (closing \ {k}) \cup {[k EXCEPT !.phase = "waiting"]}
          /\ UNCHANGED <<native, queue>>
    /\ UNCHANGED <<child, launcher, closed, events, store, astray>>

(* the wait for the condition, and its seven seconds                         *)
CloseEnds(k) ==
    /\ k \in closing /\ k.phase = "waiting"
    /\ native' = IF native[k.o] = "detaching"
                 THEN [native EXCEPT ![k.o] = "unavailable"] ELSE native
    /\ closing' = Replied(k, native'[k.o])
    /\ UNCHANGED <<child, launcher, queue, closed, events, store, astray>>

-----------------------------------------------------------------------------
(* The store.                                                               *)

Attached == shown # None /\ shown.state \in {"attached", "detaching"}
Used == {o \in Openings : native[o] # "none"} \cup (IF opening = None THEN {} ELSE {opening.o})

(* attachLiveSession: one opening at a time, none while one is attached      *)
OpenSession ==
    /\ opening = None /\ ~Attached
    /\ Openings # Used
    /\ opening' = [o |-> CHOOSE o \in Openings \ Used : \A x \in Openings \ Used : o <= x,
                   phase |-> "asked"]
    /\ UNCHANGED <<child, launcher, queue, closed, native, events, closing, shown, pending,
                   detaches, astray>>

(* Mutant: events that came first are not looked at *)
Reconciled_fresh(o) == "attached"

(* an event that came before the observation was recorded says more          *)
Reconciled(o) == IF pending[o] # None THEN pending[o] ELSE "attached"

(* recordSessionOpened answers                                               *)
Opened ==
    /\ opening # None /\ opening.phase = "recording"
    /\ shown' = [o |-> opening.o, state |-> Reconciled(opening.o)]
    /\ pending' = [pending EXCEPT ![opening.o] = None]
    /\ opening' = None
    /\ UNCHANGED <<child, launcher, queue, closed, native, events, closing, detaches, astray>>

RecordFails ==
    /\ opening # None /\ opening.phase = "recording"
    /\ opening' = [opening EXCEPT !.phase = "undoing"]
    /\ closing' = closing \cup {[o |-> opening.o, by |-> "opening", phase |-> "called",
                                 state |-> None]}
    /\ UNCHANGED <<child, launcher, queue, closed, native, events, shown, pending, detaches,
                   astray>>

Undone(k) ==
    /\ k \in closing /\ k.phase = "replied" /\ k.by = "opening"
    /\ closing' = closing \ {k}
    /\ pending' = [pending EXCEPT ![k.o] = None]
    /\ opening' = None
    /\ UNCHANGED <<child, launcher, queue, closed, native, events, shown, detaches, astray>>

DetachSession ==
    /\ shown # None /\ detaches < MaxDetaches
    /\ detaches' = detaches + 1
    /\ closing' = closing \cup {[o |-> shown.o, by |-> "user", phase |-> "called",
                                 state |-> None]}
    /\ UNCHANGED <<child, launcher, queue, closed, native, events, opening, shown, pending,
                   astray>>

Detached(k) ==
    /\ k \in closing /\ k.phase = "replied" /\ k.by = "user"
    /\ closing' = closing \ {k}
    /\ shown' = IF shown # None /\ shown.o = k.o THEN [shown EXCEPT !.state = k.state]
                ELSE shown
    /\ UNCHANGED <<child, launcher, queue, closed, native, events, opening, pending, detaches,
                   astray>>

(* reconcileLocalObservation                                                 *)
Observed ==
    /\ events # <<>>
    /\ events' = Tail(events)
    /\ LET e == Head(events)
       IN IF shown # None /\ shown.o = e.o
          THEN shown' = [shown EXCEPT !.state = e.state] /\ UNCHANGED pending
          ELSE pending' = [pending EXCEPT ![e.o] = e.state] /\ UNCHANGED shown
    /\ UNCHANGED <<child, launcher, queue, closed, native, closing, opening, detaches, astray>>

-----------------------------------------------------------------------------
Next ==
    \/ \E o \in Openings : ChildExits(o) \/ TerminalCloses(o) \/ LauncherStep(o)
                           \/ LauncherTimeout(o) \/ Monitor(o)
    \/ OpenNative \/ OpenFails \/ OpenSession \/ Opened \/ RecordFails \/ DetachSession
    \/ Observed
    \/ \E k \in closing : CloseNative(k) \/ CloseEnds(k) \/ Undone(k) \/ Detached(k)

Spec == Init /\ [][Next]_vars

-----------------------------------------------------------------------------
(* What is still on its way to the store about local session o               *)
News(o) == (\E i \in DOMAIN events : events[i].o = o) \/ (\E k \in closing : k.o = o)

(* An observation that is over is not shown as attached once the store has    *)
(* all the news of it, though an event may overtake the answer of the call    *)
(* that opened it (attachLiveSessionOnce, reconcileLocalObservation).        *)
OverIsShown ==
    shown # None /\ native[shown.o] \in Over /\ ~News(shown.o) => shown.state \in Over

(* What is shown in the end is what the native side says of the observation  *)
(* (closeLocalLiveSession, register_local_observation).                      *)
NativeIsAuthoritative ==
    shown # None /\ closed[shown.o] = None /\ ~News(shown.o) => shown.state = native[shown.o]

(* Only the attach client the launcher has started is signalled: its pid is  *)
(* not signalled once it was reaped (request_attachment_child_exit).         *)
OnlyItsChild == ~astray
=============================================================================
