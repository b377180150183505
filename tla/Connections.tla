---------------------------- MODULE Connections ----------------------------
(***************************************************************************)
(* How the channel processes of one Worker come and go (WorkerChannel,      *)
(* WorkerConnections, the registration part of WorkerStore).                *)
(*                                                                          *)
(* A Worker that reconnects gets a new channel process while the old one    *)
(* may still live.  Joining is a sequence of transactions and one call to   *)
(* the routing process, so the joins of two channels interleave.  The       *)
(* routing process keeps one route per Worker, tells the channel it         *)
(* replaces to stop, and monitors every channel it was given; it lives in   *)
(* memory and may be restarted alone.  The row and the bindings are in      *)
(* PostgreSQL and survive everything.  Channels are named by generation.    *)
(***************************************************************************)
EXTENDS Naturals

CONSTANTS
    Binding,         \* Workspace bindings of the Worker
    NoBinding,       \* "not recording a binding"
    MaxGeneration,   \* bound: registrations of the Worker
    MaxRestarts      \* bound: restarts of the routing process alone

ASSUME ConnectionsAssumption ==
    /\ MaxGeneration \in Nat /\ MaxRestarts \in Nat /\ NoBinding \notin Binding

Generations == 1 .. MaxGeneration

VARIABLES
    generation, connected, ready,   \* the workers row, as in WorkerRow
    seen,        \* last_seen_generation of an available binding, 0 for unavailable
    phase,       \* where the channel process of a generation is
    todo,        \* advertised bindings it has still to reconcile
    told,        \* bindings the Worker told of on this connection
    recording,   \* the binding it is recording, between fence and write
    route,       \* WorkerConnections.workers: the generation routed to, 0 for none
    calls,       \* activate calls in the mailbox of the routing process
    refs,        \* WorkerConnections.refs: the channels it monitors
    downs,       \* DOWN messages in its mailbox
    restarts     \* restarts of the routing process so far

rowVars == <<generation, connected, ready>>
channelVars == <<phase, todo, told, recording>>
routingVars == <<route, calls, refs, downs, restarts>>
vars == <<rowVars, seen, channelVars, routingVars>>

Phase == {"none", "joining", "reconciled", "calling", "active", "superseded", "dead"}
Live == {g \in Generations : phase[g] \notin {"none", "dead"}}

(* a channel that has joined and is between two messages                    *)
Handling(g) == phase[g] \in {"active", "superseded"} /\ recording[g] = NoBinding

Init ==
    /\ generation = 0 /\ connected = FALSE /\ ready = 0
    /\ seen = [b \in Binding |-> 0]
    /\ phase = [g \in Generations |-> "none"]
    /\ todo = [g \in Generations |-> {}]
    /\ told = [g \in Generations |-> {}]
    /\ recording = [g \in Generations |-> NoBinding]
    /\ route = 0 /\ calls = {} /\ refs = {} /\ downs = {} /\ restarts = 0

----------------------------------------------------------------------------
(* Joining: WorkerChannel.join.                                             *)

(* Mutant: no fence.                                                        *)
with_current_any(g) == TRUE

(* WorkerStore.with_current                                                 *)
with_current(g) == g = generation

(* register: the generation advances, readiness and bindings are cleared    *)
Register(advertised) ==
    /\ generation < MaxGeneration
    /\ generation' = generation + 1
    /\ connected' = TRUE
    /\ ready' = 0
    /\ seen' = [b \in Binding |-> 0]
    /\ phase' = [phase EXCEPT ![generation'] = "joining"]
    /\ todo' = [todo EXCEPT ![generation'] = advertised]
    /\ told' = [told EXCEPT ![generation'] = advertised]
    /\ UNCHANGED <<recording, routingVars>>

(* reconcile_workspace_binding: accepted, or a conflict or an archived        *)
(* Workspace that leaves the row as it was                                  *)
ReconcileBinding(g, b, accepted) ==
    /\ phase[g] = "joining" /\ b \in todo[g]
    /\ with_current(g)
    /\ seen' = [seen EXCEPT ![b] = IF accepted THEN generation ELSE @]
    /\ todo' = [todo EXCEPT ![g] = @ \ {b}]
    /\ UNCHANGED <<rowVars, phase, told, recording, routingVars>>

(* mark_unadvertised_bindings                                               *)
MarkUnadvertised(g) ==
    /\ phase[g] = "joining" /\ todo[g] = {}
    /\ with_current(g)
    /\ seen' = [b \in Binding |-> IF b \in told[g] THEN seen[b] ELSE 0]
    /\ phase' = [phase EXCEPT ![g] = "reconciled"]
    /\ UNCHANGED <<rowVars, todo, told, recording, routingVars>>

(* a stale generation: the join is refused and the channel ends             *)
JoinRefused(g) ==
    /\ phase[g] = "joining" /\ ~with_current(g)
    /\ phase' = [phase EXCEPT ![g] = "dead"]
    /\ UNCHANGED <<rowVars, seen, todo, told, recording, routingVars>>

CallActivate(g) ==
    /\ phase[g] = "reconciled"
    /\ phase' = [phase EXCEPT ![g] = "calling"]
    /\ calls' = calls \cup {g}
    /\ UNCHANGED <<rowVars, seen, todo, told, recording, route, refs, downs, restarts>>

----------------------------------------------------------------------------
(* The routing process: WorkerConnections.                                  *)

(* Mutant: the channel that is replaced is not told.                        *)
supersede_silently(c, p) == p

(* supersede_existing: the channel routed to is told to stop                *)
supersede_existing(c, p) ==
    [g \in Generations |-> IF g = c /\ p[g] = "active" THEN "superseded" ELSE p[g]]

(* Mutant: the channel is routed to but not monitored.                      *)
activate_unmonitored(g) ==
    /\ g \in calls
    /\ calls' = calls \ {g}
    /\ phase' = [supersede_existing(route, phase) EXCEPT
                   ![g] = IF @ = "calling" THEN "active" ELSE @]
    /\ route' = g
    /\ UNCHANGED <<rowVars, seen, todo, told, recording, refs, downs, restarts>>

(* Mutant: the map of monitors is made anew.                                *)
activate_forgetting(g) ==
    /\ g \in calls
    /\ calls' = calls \ {g}
    /\ phase' = [supersede_existing(route, phase) EXCEPT
                   ![g] = IF @ = "calling" THEN "active" ELSE @]
    /\ route' = g
    /\ refs' = {g}
    /\ downs' = IF phase[g] = "dead" THEN downs \cup {g} ELSE downs
    /\ UNCHANGED <<rowVars, seen, todo, told, recording, restarts>>

(* handle_call {:activate, ...}.  The caller may have died since it called:  *)
(* it is routed to all the same, and its DOWN follows at once.              *)
activate(g) ==
    /\ g \in calls
    /\ calls' = calls \ {g}
    /\ phase' = [supersede_existing(route, phase) EXCEPT
                   ![g] = IF @ = "calling" THEN "active" ELSE @]
    /\ route' = g
    /\ refs' = refs \cup {g}
    /\ downs' = IF phase[g] = "dead" THEN downs \cup {g} ELSE downs
    /\ UNCHANGED <<rowVars, seen, todo, told, recording, restarts>>

(* Mutant: the row is disconnected whatever its generation.                 *)
disconnect_unfenced(g) == connected' = FALSE /\ ready' = 0 /\ UNCHANGED generation

(* WorkerStore.disconnect                                                   *)
disconnect(g) ==
    /\ connected' = IF g = generation THEN FALSE ELSE connected
    /\ ready' = IF g = generation THEN 0 ELSE ready
    /\ UNCHANGED generation

(* handle_info {:DOWN, ...}: the channel routed to is down; safe_disconnect *)
(* swallows an unavailable database                                         *)
DownRouted(g, written) ==
    /\ g \in downs /\ route = g
    /\ IF written THEN disconnect(g) ELSE UNCHANGED rowVars
    /\ route' = 0
    /\ downs' = downs \ {g} /\ refs' = refs \ {g}
    /\ UNCHANGED <<seen, channelVars, calls, restarts>>

(* ... a channel that was replaced is down                                  *)
DownReplaced(g) ==
    /\ g \in downs /\ route # g
    /\ downs' = downs \ {g} /\ refs' = refs \ {g}
    /\ UNCHANGED <<rowVars, seen, channelVars, route, calls, restarts>>

(* The routing process dies - safe_disconnect lets a DBConnection error of   *)
(* any Worker through - and the supervisor restarts it alone, empty.        *)
RoutingRestarts ==
    /\ restarts < MaxRestarts
    /\ restarts' = restarts + 1
    /\ route' = 0 /\ calls' = {} /\ refs' = {} /\ downs' = {}
    /\ UNCHANGED <<rowVars, seen, channelVars>>

(* the server restarts with nothing but the database                        *)
ServerRestarts ==
    /\ Live # {}
    /\ phase' = [g \in Generations |-> IF g \in Live THEN "dead" ELSE phase[g]]
    /\ recording' = [g \in Generations |-> NoBinding]
    /\ route' = 0 /\ calls' = {} /\ refs' = {} /\ downs' = {}
    /\ UNCHANGED <<rowVars, seen, todo, told, restarts>>

----------------------------------------------------------------------------
(* Joined channels: WorkerChannel.handle_in and handle_info.                *)

MarkReady(g) ==
    /\ Handling(g) /\ with_current(g)
    /\ ready' = g
    /\ UNCHANGED <<generation, connected, seen, channelVars, routingVars>>

(* workspace_binding_ready: the heartbeat passes the fence ...              *)
ReportBinding(g, b) ==
    /\ Handling(g) /\ with_current(g)
    /\ recording' = [recording EXCEPT ![g] = b]
    /\ told' = [told EXCEPT ![g] = @ \cup {b}]
    /\ UNCHANGED <<rowVars, seen, phase, todo, routingVars>>

(* ... and WorkspaceControl.record_binding writes, without one              *)
RecordBinding(g) ==
    /\ recording[g] # NoBinding
    /\ seen' = [seen EXCEPT ![recording[g]] = g]
    /\ recording' = [recording EXCEPT ![g] = NoBinding]
    /\ UNCHANGED <<rowVars, phase, todo, told, routingVars>>

(* the end of a channel process, and the DOWN of one that is monitored      *)
Ends(g) ==
    /\ phase' = [phase EXCEPT ![g] = "dead"]
    /\ recording' = [recording EXCEPT ![g] = NoBinding]
    /\ downs' = IF g \in refs THEN downs \cup {g} ELSE downs
    /\ UNCHANGED <<rowVars, seen, todo, told, route, calls, refs, restarts>>

(* handle_info {:worker_superseded, ...}                                    *)
HandleSuperseded(g) == phase[g] = "superseded" /\ Handling(g) /\ Ends(g)

(* the call of a join that the routing process did not live to answer        *)
CallerExits(g) == phase[g] = "calling" /\ g \notin calls /\ Ends(g)

(* the socket closes or the process crashes, at any point                   *)
Dies(g) == g \in Live /\ Ends(g)

----------------------------------------------------------------------------
JoinStep(g) ==
    \/ \E b \in Binding, accepted \in BOOLEAN : ReconcileBinding(g, b, accepted)
    \/ MarkUnadvertised(g)
    \/ JoinRefused(g)
    \/ CallActivate(g)

Down(g) == (\E written \in BOOLEAN : DownRouted(g, written)) \/ DownReplaced(g)

Next ==
    \/ \E advertised \in SUBSET Binding : Register(advertised)
    \/ \E g \in Generations : JoinStep(g)
    \/ \E g \in Generations : activate(g)
    \/ \E g \in Generations : Down(g)
    \/ \E g \in Generations : MarkReady(g)
    \/ \E g \in Generations, b \in Binding : ReportBinding(g, b)
    \/ \E g \in Generations : RecordBinding(g)
    \/ \E g \in Generations : HandleSuperseded(g)
    \/ \E g \in Generations : CallerExits(g)
    \/ \E g \in Generations : Dies(g)
    \/ RoutingRestarts
    \/ ServerRestarts

Spec == Init /\ [][Next]_vars

(* Processes that can run do, mailboxes are read, transactions end; nothing  *)
(* makes a Worker connect or a channel die.  Fairness of HandleSuperseded    *)
(* is strong: a channel reads its mailbox in order, and only finitely many   *)
(* messages of the Worker are ahead of the one that tells it to stop.        *)
Fairness ==
    \A g \in Generations :
        /\ WF_vars(JoinStep(g))
        /\ WF_vars(activate(g))
        /\ WF_vars(Down(g))
        /\ WF_vars(RecordBinding(g))
        /\ SF_vars(HandleSuperseded(g))
        /\ WF_vars(CallerExits(g))

FairSpec == Spec /\ Fairness

----------------------------------------------------------------------------
(* Properties.                                                              *)

(* Rows, processes and mailboxes hold what the code puts there, and a call   *)
(* or a DOWN belongs to a channel that was there.                           *)
TypeOK ==
    /\ generation \in 0 .. MaxGeneration /\ ready \in 0 .. MaxGeneration
    /\ connected \in BOOLEAN
    /\ seen \in [Binding -> 0 .. MaxGeneration]
    /\ phase \in [Generations -> Phase]
    /\ todo \in [Generations -> SUBSET Binding] /\ told \in [Generations -> SUBSET Binding]
    /\ recording \in [Generations -> Binding \cup {NoBinding}]
    /\ route \in 0 .. MaxGeneration /\ restarts \in 0 .. MaxRestarts
    /\ calls \subseteq Generations /\ refs \subseteq Generations
    /\ downs \subseteq refs

(* A binding that counts as usable - available and last seen by the current  *)
(* connection - was told of by the Worker on that very connection: a join    *)
(* that was overtaken by a newer registration makes nothing usable.          *)
UsableBindingsAreTold ==
    \A b \in Binding :
        seen[b] = generation /\ generation # 0 => b \in told[generation]

(* As long as the routing process is not restarted, every joined channel but *)
(* the one routed to has been told to stop, in whatever order joins          *)
(* interleave: supersede_existing loses nobody.                              *)
OneActiveChannel ==
    restarts = 0 => \A g \in Generations : phase[g] = "active" => route = g

(* A route to a channel that has ended is released: the DOWN cannot be       *)
(* missed, not even by a channel that ends before it is activated.           *)
RoutesAreReleased ==
    \A g \in Generations : (route = g /\ phase[g] = "dead") ~> (route # g)

(* Of the channels of a Worker only the one routed to stays: every other     *)
(* becomes it or ends, be it still joining, unless the routing process was   *)
(* restarted meanwhile.                                                      *)
OneChannelRemains ==
    \A g \in Generations :
        (g \in Live /\ route # g) ~> (route = g \/ g \notin Live \/ restarts > 0)

(* The row and the live channels, as ControlPlane sees them.                 *)
Row == INSTANCE WorkerRow WITH channels <- Live

(* Whatever the joins, supersessions, monitors and restarts do, the row      *)
(* changes only as WorkerRow allows; it keeps its fences.                    *)
ImplementsRow == Row!RowSpec

(* The channel that the routing process tells to stop is never the           *)
(* authoritative one, that of the last registration.                         *)
AuthoritativeChannelStays ==
    \A g \in Generations : phase[g] = "superseded" => g # generation

(* A binding is available only to the connection that last registered: a     *)
(* registration makes every binding unavailable and an older connection      *)
(* cannot make one available again.                                          *)
BindingsAreCurrent == \A b \in Binding : seen[b] # 0 => seen[b] = generation
=============================================================================
