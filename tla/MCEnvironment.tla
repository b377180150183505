---------------------------- MODULE MCEnvironment ----------------------------
(***************************************************************************)
(* The execution environment's sandbox and the processes streamed through   *)
(* it, for TLC.  The two modules share no state: Init chooses a component    *)
(* and its bounds, and the other component keeps its initial state.          *)
(***************************************************************************)
EXTENDS Environment, Naturals, TLC

CONSTANTS Pair   \* two output streams

VARIABLE case

(* Two Worker processes over one store, with a sandbox that is replaced.    *)
Replacing == INSTANCE SbxEnvironment WITH
    row <- envRow, op <- lifecycle, exec <- leased, MaxBoxes <- 2, MaxCrashes <- 0

(* Two output streams; and one with two writes instead of output.           *)
Output == INSTANCE StreamedProcess WITH
    env <- validity, Streams <- Pair, MaxWrites <- 0
Input == INSTANCE StreamedProcess WITH
    env <- validity, MaxWrites <- 2, MaxChunks <- 0

sandbox == <<envRow, nrec, box, nbox, lifecycle, lease, leased, run>>
process == <<validity, spawn, att, writes, cancel, retire, stream, received, child, inq, outq,
             reply, target, produced, eofs, delivered>>
vars == <<case, sandbox, process>>

ASSUME EnvironmentAssumption ==
    /\ Sandbox!SandboxAssumption
    /\ Process!StreamedProcessAssumption
    /\ Output!StreamedProcessAssumption
    /\ Input!StreamedProcessAssumption

Symmetry == Permutations(Workers) \cup Permutations(Pair)

Init ==
    /\ case \in {"crashing", "replacing", "output", "both", "input"}
    /\ Sandbox!Init
    /\ IF case = "output" THEN Output!Init ELSE Process!Init

Next ==
    \/ case = "crashing" /\ Sandbox!Next /\ UNCHANGED <<case, process>>
    \/ case = "replacing" /\ Replacing!Next /\ UNCHANGED <<case, process>>
    \/ case = "output" /\ Output!Next /\ UNCHANGED <<case, sandbox>>
    \/ case = "both" /\ Process!Next /\ UNCHANGED <<case, sandbox>>
    \/ case = "input" /\ Input!Next /\ UNCHANGED <<case, sandbox>>

Spec == Init /\ [][Next]_vars
=============================================================================
