----------------------------- MODULE Environment -----------------------------
(***************************************************************************)
(* The execution environment of an owner (a Run or a provider account): its *)
(* durable sandbox (SbxEnvironment) and a process streamed through it        *)
(* (StreamedProcess), side by side with the variables and bounds of each.   *)
(* They share no state that either of them models.                          *)
(***************************************************************************)

CONSTANTS
    None,
    \* SbxEnvironment
    Workers, MaxRecords, MaxBoxes, MaxStops, MaxCrashes,
    \* StreamedProcess
    Streams, BufferItems, PipeFrames, MaxWrites, MaxChunks

VARIABLES
    \* SbxEnvironment
    envRow, nrec, box, nbox, lifecycle, lease, leased, run,
    \* StreamedProcess
    validity, spawn, att, writes, cancel, retire, stream, received, child, inq, outq, reply,
    target, produced, eofs, delivered

Sandbox == INSTANCE SbxEnvironment WITH row <- envRow, op <- lifecycle, exec <- leased

Process == INSTANCE StreamedProcess WITH env <- validity

(* While a sandbox of the owner exists, so does its unretired record         *)
(* (SbxEnvironment.NoOrphanedSandbox).                                       *)
NoOrphanedSandbox == Sandbox!NoOrphanedSandbox

(* A reader told of the end of its stream has read all of it                 *)
(* (StreamedProcess.StreamsAreComplete).                                     *)
StreamsAreComplete == Process!StreamsAreComplete

(* What a caller is told of its writes is true                               *)
(* (StreamedProcess.CertaintyIsTrue).                                        *)
CertaintyIsTrue == Process!CertaintyIsTrue
=============================================================================
