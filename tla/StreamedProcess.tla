---------------------------- MODULE StreamedProcess ----------------------------
(***************************************************************************)
(* One streamed process of an execution environment                        *)
(* (execution-environment/streamed-process.ts and its SBX transport        *)
(* sbx-streamed-process.ts): the attachment the Worker keeps, with its     *)
(* serialized stdin writes, its one cancellation, two bounded output       *)
(* streams and retirement, and the relay inside the sandbox               *)
(* (sbx-streamed-process-relay.py) at the other end of two pipes.          *)
(*                                                                         *)
(* Everything the guest says travels over one pipe, so an output stream    *)
(* nobody reads also holds back acknowledgements and the exit.  A frame    *)
(* the Worker is handling is still the head of that pipe.                  *)
(***************************************************************************)
EXTENDS Integers, Sequences, SequencesExt

CONSTANTS
  None,            \* no value (null)
  Streams,         \* the output streams, stdout and stderr
  BufferItems,     \* capacity of a bounded stream, in chunks
  PipeFrames,      \* capacity of the guest's output pipe, in frames
  MaxWrites,       \* bound: stdin operations of the caller
  MaxChunks        \* bound: chunks the target prints per stream

(* what the relay answers to a write, and the other frames but the output   *)
Settled == {"acknowledged", "rejected", "ambiguous"}
Kinds == Settled \cup {"eof", "exit", "cancel_ack", "cancel_rejected"}

StreamedProcessAssumption ==
  /\ Streams # {} /\ Streams \cap Kinds = {}
  /\ {BufferItems, PipeFrames} \subseteq Nat \ {0}
  /\ MaxWrites \in Nat /\ MaxChunks \in Nat

VARIABLES
  env,                 \* whether the environment still validates
  spawn,               \* requested, opened, attached, failed or gone
  att,                 \* ManagedProcessState: terminal, disconnected, writeClosed
  writes,              \* outcome of each stdin operation, in call order
  cancel,              \* the one cancellation: its owner and outcome
  retire,              \* progress of retire
  stream,              \* BoundedProcessStream of each output
  received,            \* what the consumer of each stream has read
  child,               \* the host side launcher process of the attachment
  inq, outq, reply,    \* the pipes, and the answer the relay is sending
  target, produced, eofs, delivered

vars == <<env, spawn, att, writes, cancel, retire, stream, received, child, inq,
          outq, reply, target, produced, eofs, delivered>>
host == <<env, spawn, att, writes, cancel, retire, stream, received, child>>
guest == <<reply, target, produced, eofs, delivered>>

(* Stream items are chunk numbers or one of these; stdin commands are write *)
(* numbers or the cancellation.                                             *)
Eof == -1
Error == -2
Done == -3
CancelFrame == 0

Init ==
  /\ env = "current" /\ spawn = "idle" /\ retire = "idle"
  /\ att = [terminal |-> None, disconnected |-> FALSE, writeClosed |-> FALSE,
            targetExited |-> FALSE, eof |-> {}]
  /\ writes = <<>> /\ cancel = None
  /\ stream = [s \in Streams |-> [items |-> <<>>, reader |-> FALSE, closed |-> FALSE]]
  /\ received = [s \in Streams |-> <<>>]
  /\ child = "none" /\ inq = <<>> /\ outq = <<>> /\ reply = None
  /\ target = "none" /\ produced = [s \in Streams |-> 0]
  /\ eofs = {} /\ delivered = <<>>

Valid == env = "current"
Attached == spawn = "attached"

(* validateState, after its await *)
validateState == Valid /\ att.terminal = None /\ ~att.disconnected
-----------------------------------------------------------------------------
(* The relay and its target.  It writes to a pipe that is full or broken    *)
(* only once the Worker reads, or never.                                    *)

PipeOpen == child = "up" /\ Len(outq) < PipeFrames
Frame(kind, of) == [kind |-> kind, of |-> of]
send(frame) == PipeOpen /\ outq' = Append(outq, frame)

(* input_loop: one command at a time; its answer waits for the output lock *)
WriteCommand(w) ==
  \/ /\ target = "running" /\ delivered' = Append(delivered, w)
     /\ \E answer \in {"acknowledged", "ambiguous"} : reply' = Frame(answer, w)
  \/ reply' = Frame("rejected", w) /\ UNCHANGED delivered

CancelCommand ==
  /\ reply' = Frame(IF target = "exited" THEN "cancel_rejected" ELSE "cancel_ack", None)
  /\ target' = IF target = "exited" THEN target ELSE "signalled"

RelayInput ==
  /\ target # "none" /\ inq # <<>> /\ reply = None
  /\ inq' = Tail(inq)
  /\ IF Head(inq) = CancelFrame
     THEN CancelCommand /\ UNCHANGED delivered
     ELSE WriteCommand(Head(inq)) /\ UNCHANGED target
  /\ UNCHANGED <<host, outq, produced, eofs>>

RelayReply ==
  /\ reply # None /\ send(reply) /\ reply' = None
  /\ UNCHANGED <<host, inq, target, produced, eofs, delivered>>

TargetOutput(s) ==
  /\ target \in {"running", "signalled"} /\ produced[s] < MaxChunks
  /\ produced' = [produced EXCEPT ![s] = @ + 1]
  /\ send(Frame(s, produced'[s]))
  /\ UNCHANGED <<host, inq, reply, target, eofs, delivered>>

TargetExit ==
  /\ target \in {"running", "signalled"} /\ child = "up" /\ target' = "exited"
  /\ UNCHANGED <<host, inq, outq, reply, produced, eofs, delivered>>

RelayEof(s) ==
  /\ target = "exited" /\ s \notin eofs
  /\ send(Frame("eof", s)) /\ eofs' = eofs \cup {s}
  /\ UNCHANGED <<host, inq, reply, target, produced, delivered>>

(* main: the exit is reported once both output threads have ended *)
RelayExit ==
  /\ target = "exited" /\ eofs = Streams
  /\ ~\E i \in DOMAIN outq : outq[i].kind = "exit"
  /\ ~att.targetExited
  /\ send(Frame("exit", None))
  /\ UNCHANGED <<host, inq, guest>>
-----------------------------------------------------------------------------
(* Attachment *)

Spawn ==
  /\ spawn = "idle" /\ Valid
  /\ spawn' = "requested"
  /\ UNCHANGED <<env, att, writes, cancel, retire, stream, received, child, inq,
                 outq, guest>>

(* open: the launcher starts and the relay reports the target's identity,   *)
(* or the handshake fails and the launcher is killed.                       *)
Open ==
  /\ spawn = "requested"
  /\ \/ spawn' = "opened" /\ child' = "up" /\ target' = "running"
     \/ /\ spawn' = "failed" /\ child' = "dead"
        /\ target' \in {"none", "running"}
  /\ UNCHANGED <<env, att, writes, cancel, retire, stream, received, inq, outq,
                 reply, produced, eofs, delivered>>

(* the second validation fences a replacement that raced the physical spawn *)
Attach ==
  /\ spawn = "opened"
  /\ IF Valid
     THEN spawn' = "attached" /\ UNCHANGED <<child, outq>>
     ELSE spawn' = "failed" /\ child' = "dead" /\ outq' = <<>>
  /\ UNCHANGED <<env, att, writes, cancel, retire, stream, received, inq, guest>>

settleExit(outcome) == IF att.terminal = None THEN outcome ELSE att.terminal
-----------------------------------------------------------------------------
(* Bounded streams.  A reader waits only while nothing is buffered. *)

CanPush(s) ==
  stream[s].closed \/ stream[s].reader \/ Len(stream[s].items) < BufferItems

(* push: a closed stream drops the item, a waiting reader takes it *)
Pushed(s, item) ==
  IF stream[s].closed THEN stream[s]
  ELSE IF stream[s].reader THEN [stream[s] EXCEPT !.reader = FALSE]
  ELSE [stream[s] EXCEPT !.items = Append(@, item)]

Given(s, item) ==
  IF stream[s].reader THEN Append(received[s], item) ELSE received[s]

(* Mutant: the end of the process discards what its streams still buffer. *)
finish_discarding(str) == [items |-> <<>>, reader |-> FALSE, closed |-> TRUE]

finish(str) == [str EXCEPT !.closed = TRUE, !.reader = FALSE]

abort == [items |-> <<>>, reader |-> FALSE, closed |-> TRUE]

(* flushReaders *)
Ended(str, got) == IF str.reader THEN Append(got, Done) ELSE got

(* next of the one iterator of a stream *)
Read(s) ==
  /\ spawn \in {"attached", "gone"}
  /\ ~stream[s].reader /\ Done \notin Range(received[s])
  /\ IF stream[s].items # <<>>
     THEN /\ received' = [received EXCEPT ![s] = Append(@, Head(stream[s].items))]
          /\ stream' = [stream EXCEPT ![s].items = Tail(@)]
     ELSE IF stream[s].closed
     THEN received' = [received EXCEPT ![s] = Append(@, Done)] /\ UNCHANGED stream
     ELSE stream' = [stream EXCEPT ![s].reader = TRUE] /\ UNCHANGED received
  /\ UNCHANGED <<env, spawn, att, writes, cancel, retire, child, inq, outq, guest>>
-----------------------------------------------------------------------------
(* Standard input: writes and the close are serialized by writeTail *)

Write(close) ==
  /\ Attached /\ Len(writes) < MaxWrites
  /\ writes' = Append(writes, [close |-> close, at |-> "queued"])
  /\ UNCHANGED <<env, spawn, att, cancel, retire, stream, received, child, inq,
                 outq, guest>>

Submitted == {w \in DOMAIN writes : writes[w].at = "submitted"}
NextWrite(w) == writes[w].at = "queued" /\ \A v \in 1..(w - 1) : writes[v].at \in Settled

(* request: refused without a physical byte once either end is gone *)
TransportOpen == child = "up" /\ ~att.targetExited /\ ~att.disconnected

(* the validated write runs its caller's precondition and is sent *)
SubmitWrite(w) ==
  /\ NextWrite(w)
  /\ \/ /\ validateState /\ ~att.writeClosed /\ TransportOpen
        /\ writes' = [writes EXCEPT ![w].at = "submitted"]
        /\ inq' = Append(inq, w)
     \/ writes' = [writes EXCEPT ![w].at = "rejected"] /\ UNCHANGED inq
  /\ UNCHANGED <<env, spawn, att, cancel, retire, stream, received, child, outq, guest>>

(* resolveWaiter: the answer of the pending write.  An acknowledged close   *)
(* and an uncertain write both end the input.                               *)
Answered(answer) ==
  [w \in DOMAIN writes |->
     IF w \in Submitted THEN [writes[w] EXCEPT !.at = answer] ELSE writes[w]]

(* Mutant: an uncertain write leaves the input open. *)
InputEnds_ifClosed(answer) ==
  \E w \in Submitted : writes[w].close /\ answer = "acknowledged"

InputEnds(answer) ==
  \E w \in Submitted : answer = "ambiguous" \/ (writes[w].close /\ answer = "acknowledged")

AckTimeout ==
  /\ Submitted # {}
  /\ writes' = Answered("ambiguous")
  /\ att' = [att EXCEPT !.writeClosed = @ \/ InputEnds("ambiguous")]
  /\ UNCHANGED <<env, spawn, cancel, retire, stream, received, child, inq, outq, guest>>
-----------------------------------------------------------------------------
(* Cancellation: the first operation owns it, any other is refused *)

cancelState(owner) ==
  IF validateState /\ TransportOpen
  THEN cancel' = [by |-> owner, at |-> "pending"] /\ inq' = Append(inq, CancelFrame)
  ELSE cancel' = [by |-> owner, at |-> "rejected"] /\ UNCHANGED inq

CancelAnswered(answer) ==
  IF cancel # None /\ cancel.at = "pending" THEN [cancel EXCEPT !.at = answer] ELSE cancel

Cancel ==
  /\ Attached /\ cancel = None /\ cancelState("caller")
  /\ UNCHANGED <<env, spawn, att, writes, retire, stream, received, child, outq, guest>>

CancelTimeout ==
  /\ cancel # None /\ cancel.at = "pending"
  /\ cancel' = CancelAnswered("ambiguous")
  /\ UNCHANGED <<env, spawn, att, writes, retire, stream, received, child, inq, outq,
                 guest>>
-----------------------------------------------------------------------------
(* run: the frames of the guest, one at a time, each after its push *)

HandleOutput(f) ==
  /\ f.kind \in Streams \cup {"eof"}
  /\ LET s == IF f.kind = "eof" THEN f.of ELSE f.kind
         item == IF f.kind = "eof" THEN Eof ELSE f.of
     IN /\ CanPush(s)
        /\ stream' = [stream EXCEPT ![s] = Pushed(s, item)]
        /\ received' = [received EXCEPT ![s] = Given(s, item)]
        /\ att' = IF f.kind = "eof" THEN [att EXCEPT !.eof = @ \cup {s}] ELSE att
  /\ UNCHANGED <<writes, cancel>>

HandleAnswer(f) ==
  /\ f.kind \in Settled
  /\ LET late == f.of \notin Submitted
     IN /\ writes' = IF late THEN writes ELSE Answered(f.kind)
        /\ att' = [att EXCEPT !.writeClosed = @ \/ (~late /\ InputEnds(f.kind))]
  /\ UNCHANGED <<stream, received, cancel>>

HandleCancelAnswer(f) ==
  /\ f.kind \in {"cancel_ack", "cancel_rejected"}
  /\ cancel' = CancelAnswered(IF f.kind = "cancel_ack" THEN "acknowledged" ELSE "rejected")
  /\ UNCHANGED <<stream, received, att, writes>>

HandleExit(f) ==
  /\ f.kind = "exit"
  /\ att' = [att EXCEPT !.targetExited = TRUE, !.terminal = settleExit("exited")]
  /\ UNCHANGED <<stream, received, writes, cancel>>

HandleFrame ==
  /\ Attached /\ outq # <<>> /\ outq' = Tail(outq)
  /\ \E f \in {Head(outq)} :
       HandleOutput(f) \/ HandleAnswer(f) \/ HandleCancelAnswer(f) \/ HandleExit(f)
  /\ UNCHANGED <<env, spawn, retire, child, inq, guest>>

(* The pipe has ended.  Without a complete exit both streams are told,      *)
(* which waits for room in them, before the exit is settled.                *)
Complete == att.disconnected \/ (att.targetExited /\ att.eof = Streams)

RunEnds ==
  /\ Attached /\ child = "dead" /\ outq = <<>>
  /\ Complete \/ \A s \in Streams : CanPush(s)
  /\ LET last(s) == IF Complete THEN stream[s] ELSE Pushed(s, Error)
         got(s) == IF Complete THEN received[s] ELSE Given(s, Error)
     IN /\ stream' = [s \in Streams |-> finish(last(s))]
        /\ received' = [s \in Streams |-> Ended(last(s), got(s))]
  /\ att' = [att EXCEPT !.terminal = settleExit("unavailable"),
                        !.writeClosed = @ \/ InputEnds("ambiguous")]
  /\ writes' = Answered("ambiguous") /\ cancel' = CancelAnswered("ambiguous")
  /\ spawn' = "gone"
  /\ UNCHANGED <<env, retire, child, inq, outq, guest>>
-----------------------------------------------------------------------------
(* Disconnection and retirement *)

disconnectState ==
  IF att.disconnected THEN UNCHANGED <<att, stream, received, writes, cancel, child, outq>>
  ELSE /\ att' = [att EXCEPT !.disconnected = TRUE,
                             !.writeClosed = @ \/ InputEnds("ambiguous")]
       /\ stream' = [s \in Streams |-> abort]
       /\ received' = [s \in Streams |-> Ended(stream[s], received[s])]
       /\ writes' = Answered("ambiguous") /\ cancel' = CancelAnswered("ambiguous")
       /\ child' = IF child = "up" THEN "killed" ELSE child
       /\ outq' = <<>>

(* disconnect of the caller, and return of a stream's iterator *)
Disconnect ==
  /\ Attached /\ ~att.disconnected /\ disconnectState
  /\ UNCHANGED <<env, spawn, retire, inq, guest>>

(* the transport's disconnect is bounded, then the exit is settled *)
DisconnectSettles ==
  /\ att.disconnected /\ att.terminal = None
  /\ att' = [att EXCEPT !.terminal = settleExit("unavailable")]
  /\ UNCHANGED <<env, spawn, writes, cancel, retire, stream, received, child, inq,
                 outq, guest>>

Retire ==
  /\ retire = "idle" /\ Valid /\ spawn # "idle"
  /\ IF ~Attached THEN retire' = "done" /\ UNCHANGED <<cancel, inq>>
     ELSE IF att.terminal = None /\ cancel = None
     THEN retire' = "cancelling" /\ cancelState("retire")
     ELSE retire' = "disconnecting" /\ UNCHANGED <<cancel, inq>>
  /\ UNCHANGED <<env, spawn, att, writes, stream, received, child, outq, guest>>

(* Mutant: the attachment is only dropped once its cancellation was obeyed. *)
RetireDisconnects_ifAcknowledged ==
  /\ \/ retire = "disconnecting"
     \/ retire = "cancelling" /\ cancel.at = "acknowledged"
  /\ disconnectState /\ retire' = "settling"
  /\ UNCHANGED <<env, spawn, inq, guest>>

RetireDisconnects ==
  /\ \/ retire = "disconnecting"
     \/ retire = "cancelling" /\ cancel.at \in Settled
  /\ disconnectState /\ retire' = "settling"
  /\ UNCHANGED <<env, spawn, inq, guest>>

RetireDone ==
  /\ retire = "settling" /\ att.terminal # None /\ spawn = "gone"
  /\ retire' = "done"
  /\ UNCHANGED <<env, spawn, att, writes, cancel, stream, received, child, inq, outq,
                 guest>>
-----------------------------------------------------------------------------
(* The world outside *)

ChildExits ==
  /\ child = "killed" /\ child' = "dead"
  /\ UNCHANGED <<env, spawn, att, writes, cancel, retire, stream, received, inq, outq,
                 guest>>

(* the relay ended, or the launcher or its sandbox was lost with the frames *)
(* still in the pipe                                                        *)
ChildDies ==
  /\ child = "up" /\ Attached /\ child' = "dead"
  /\ \/ UNCHANGED outq
     \/ target # "exited" /\ outq # <<>> /\ outq' = <<>>
  /\ UNCHANGED <<env, spawn, att, writes, cancel, retire, stream, received, inq, guest>>

EnvironmentLost ==
  /\ Valid /\ spawn \in {"opened", "attached"} /\ env' = "lost"
  /\ UNCHANGED <<spawn, att, writes, cancel, retire, stream, received, child, inq,
                 outq, guest>>

Next ==
  \/ RelayInput \/ RelayReply \/ TargetExit \/ RelayExit
  \/ \E s \in Streams : TargetOutput(s) \/ RelayEof(s) \/ Read(s)
  \/ Spawn \/ Open \/ Attach
  \/ \E close \in BOOLEAN : Write(close)
  \/ \E w \in DOMAIN writes : SubmitWrite(w)
  \/ AckTimeout \/ Cancel \/ CancelTimeout \/ HandleFrame \/ RunEnds
  \/ Disconnect \/ DisconnectSettles
  \/ Retire \/ RetireDisconnects \/ RetireDone
  \/ ChildExits \/ ChildDies \/ EnvironmentLost

(* The Worker's own steps and timers, and the exit of a launcher it killed; *)
(* nothing is assumed of the guest or of the readers of the streams.        *)
Fairness ==
  /\ WF_vars(\E w \in DOMAIN writes : SubmitWrite(w))
  /\ WF_vars(AckTimeout) /\ WF_vars(CancelTimeout) /\ WF_vars(HandleFrame)
  /\ WF_vars(RunEnds) /\ WF_vars(DisconnectSettles)
  /\ WF_vars(RetireDisconnects) /\ WF_vars(RetireDone) /\ WF_vars(ChildExits)

Spec == Init /\ [][Next]_vars
FairSpec == Spec /\ Fairness
-----------------------------------------------------------------------------
(* Properties *)

(* What the caller is told of its stdin operations is true: an acknowledged *)
(* one reached the target, a rejected one did not, they arrive in call      *)
(* order, and after an uncertain one nothing more is sent.                  *)
CertaintyIsTrue ==
  /\ \A w \in DOMAIN writes :
       /\ writes[w].at = "acknowledged" => Contains(delivered, w)
       /\ writes[w].at = "rejected" => ~Contains(delivered, w)
       /\ writes[w].at = "ambiguous" =>
            \A v \in DOMAIN writes : v > w => writes[v].at \in {"queued", "rejected"}
  /\ \A i, j \in DOMAIN delivered : i < j => delivered[i] < delivered[j]

(* A reader that was told of the end of its stream, and neither of an error *)
(* nor by a disconnection, has read every chunk the target printed, in      *)
(* order, whatever the other stream's reader did.                           *)
Chunks(s) == {i \in DOMAIN received[s] : received[s][i] \notin {Eof, Error, Done}}
StreamsAreComplete ==
  \A s \in DOMAIN received :
    /\ \E n \in 0..Len(received[s]) : Chunks(s) = 1..n
    /\ \A i \in Chunks(s) : received[s][i] = i
    /\ (Contains(received[s], Eof) \/
         (Contains(received[s], Done) /\ ~att.disconnected
          /\ ~Contains(received[s], Error)))
       => Chunks(s) = 1..produced[s] /\ target = "exited"

(* Retirement ends the attachment and settles its exit, although nobody     *)
(* reads the streams and the guest never answers.                           *)
RetireSettles ==
  (retire \in {"cancelling", "disconnecting"}) ~>
    (retire = "done" /\ spawn = "gone" /\ att.terminal # None)
=============================================================================
