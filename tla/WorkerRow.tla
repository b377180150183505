----------------------------- MODULE WorkerRow -----------------------------
(***************************************************************************)
(* The `workers` row of one Worker (WorkerStore) and the channel processes  *)
(* that may still speak for it.  Registration advances the connection       *)
(* generation, the fence of everything the Worker says; a channel process   *)
(* ends on its own, and that the row is told so is another transaction,     *)
(* which may come late or never.                                            *)
(*                                                                          *)
(* ControlPlane extends this module; Connections, which models how channel  *)
(* processes join, supersede each other and are monitored, implements it.   *)
(***************************************************************************)
EXTENDS Naturals

CONSTANT MaxGeneration   \* bound: registrations of the Worker

VARIABLES
    generation,      \* workers.connection_generation
    connected,       \* workers.status = "connected"
    ready,           \* workers.ready_generation, 0 for nil
    channels         \* generations whose channel process still handles messages

workerVars == <<generation, connected, ready, channels>>

Generations == 1 .. MaxGeneration

RowInit == generation = 0 /\ connected = FALSE /\ ready = 0 /\ channels = {}

Register ==
    /\ generation < MaxGeneration
    /\ generation' = generation + 1
    /\ connected' = TRUE
    /\ ready' = 0
    /\ channels' = channels \cup {generation + 1}

(* the end of a channel process                                             *)
ChannelEnds(g) ==
    /\ g \in channels
    /\ channels' = channels \ {g}
    /\ UNCHANGED <<generation, connected, ready>>

(* the server restarts: its channels are gone, the row stays as it was       *)
ServerRestarts ==
    /\ channels # {}
    /\ channels' = {}
    /\ UNCHANGED <<generation, connected, ready>>

(* Mutant: whichever channel ended, the Worker is disconnected.             *)
Disconnect_unfenced(g) ==
    /\ g \notin channels /\ g <= generation
    /\ connected' = FALSE
    /\ ready' = 0
    /\ UNCHANGED <<generation, channels>>

(* WorkerStore.disconnect for an ended channel: a stale one changes nothing *)
Disconnect(g) ==
    /\ g \notin channels /\ g = generation
    /\ connected' = FALSE
    /\ ready' = 0
    /\ UNCHANGED <<generation, channels>>

(* Mutant: whatever channel is still alive speaks for the Worker.           *)
FromAnyChannel(g) == g \in channels

(* with_current and lock_generation!: a fact of a live channel of the       *)
(* current generation                                                       *)
FromWorker(g) == g \in channels /\ g = generation

MarkReady(g) ==
    /\ FromWorker(g)
    /\ ready' = g
    /\ UNCHANGED <<generation, connected, channels>>

RowNext ==
    \/ Register
    \/ \E g \in Generations : ChannelEnds(g)
    \/ ServerRestarts
    \/ \E g \in Generations : Disconnect(g)
    \/ \E g \in Generations : MarkReady(g)

RowSpec == RowInit /\ [][RowNext]_workerVars

(* A Worker is ready only for its current connection and only until that is *)
(* told to be down, and it is not told so while the channel of the current  *)
(* connection lives: a channel that was superseded can neither make the     *)
(* Worker ready nor disconnect its successor, however late it ends.         *)
ReadinessIsFenced ==
    /\ ready # 0 => ready = generation /\ connected
    /\ generation \in channels => connected
=============================================================================
