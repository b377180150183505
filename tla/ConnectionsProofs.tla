------------------------- MODULE ConnectionsProofs -------------------------
(***************************************************************************)
(* Theorems about the connections of a Worker, for every number of          *)
(* registrations, bindings and restarts.                                    *)
(***************************************************************************)
EXTENDS Connections, TLAPS

(* A generation that was not registered yet has no channel.                 *)
FutureIsNone ==
    \A g \in Generations : g > generation => phase[g] = "none" /\ recording[g] = NoBinding

(* A DOWN is the DOWN of a channel that has ended.                          *)
DownsAreDead == \A g \in downs : phase[g] = "dead"

(* What a channel reconciles or records it was told.                        *)
WorkIsTold ==
    \A g \in Generations :
        /\ todo[g] \subseteq told[g]
        /\ recording[g] # NoBinding => recording[g] \in told[g]

IInv == /\ TypeOK /\ FutureIsNone /\ DownsAreDead /\ WorkIsTold
        /\ UsableBindingsAreTold /\ OneActiveChannel

USE ConnectionsAssumption

LEMMA InitIInv == Init => IInv
<1> SUFFICES ASSUME Init PROVE IInv
  OBVIOUS
<1> USE DEF Init
<1>1. TypeOK
  <2>1. 0 \in 0 .. MaxGeneration /\ 0 \in 0 .. MaxRestarts
    OBVIOUS
  <2>2. "none" \in Phase
    BY DEF Phase
  <2>3. connected \in BOOLEAN
    BY Zenon
  <2> QED
    BY <2>1, <2>2, <2>3 DEF TypeOK
<1>2. FutureIsNone /\ DownsAreDead /\ WorkIsTold
  BY DEF FutureIsNone, DownsAreDead, WorkIsTold
<1>3. UsableBindingsAreTold /\ OneActiveChannel
  BY DEF UsableBindingsAreTold, OneActiveChannel
<1> QED
  BY <1>1, <1>2, <1>3 DEF IInv

(* One step per operation; each disturbs a few parts of the invariant.      *)
LEMMA NextIInv == IInv /\ [Next]_vars => IInv'
<1> SUFFICES ASSUME IInv, [Next]_vars PROVE IInv'
  OBVIOUS
<1> USE DEF IInv
<1>1. ASSUME NEW A \in SUBSET Binding, Register(A) PROVE IInv'
  <2>0. generation' = generation + 1 /\ generation + 1 \in Generations
    BY <1>1 DEF Register, TypeOK, Generations
  <2>1. TypeOK'
    BY <1>1, <2>0 DEF Register, TypeOK, Phase, routingVars, Generations
  <2>2. FutureIsNone'
    BY <1>1, <2>0 DEF Register, FutureIsNone, TypeOK, Generations
  <2>3. DownsAreDead'
    <3>1. downs' = downs /\ downs \subseteq Generations /\ generation + 1 > generation
      BY <1>1 DEF Register, routingVars, TypeOK
    <3>2. generation + 1 \notin downs
      BY <2>0, <3>1 DEF FutureIsNone, DownsAreDead
    <3>3. \A g \in Generations \ {generation + 1} : phase'[g] = phase[g]
      BY <1>1, <2>0 DEF Register, TypeOK
    <3> QED
      BY <3>1, <3>2, <3>3 DEF DownsAreDead
  <2>4. WorkIsTold'
    <3>1. \A g \in Generations : recording'[g] = recording[g] /\ generation + 1 > generation
      BY <1>1 DEF Register, TypeOK
    <3>2. recording[generation + 1] = NoBinding
      BY <2>0, <3>1 DEF FutureIsNone
    <3>3. \A g \in Generations : g # generation + 1 => todo'[g] = todo[g] /\ told'[g] = told[g]
      BY <1>1, <2>0 DEF Register, TypeOK
    <3>4. todo'[generation + 1] = A /\ told'[generation + 1] = A
      BY <1>1, <2>0 DEF Register, TypeOK
    <3> QED
      BY <3>1, <3>2, <3>3, <3>4 DEF WorkIsTold
  <2>5. UsableBindingsAreTold'
    BY <1>1, <2>0 DEF Register, UsableBindingsAreTold, TypeOK, Generations
  <2>6. OneActiveChannel'
    BY <1>1, <2>0 DEF Register, OneActiveChannel, TypeOK, routingVars
  <2> QED
    BY <2>1, <2>2, <2>3, <2>4, <2>5, <2>6
<1>2. ASSUME NEW g \in Generations, NEW b \in Binding, NEW x \in BOOLEAN,
             ReconcileBinding(g, b, x)
      PROVE  IInv'
  <2> USE <1>2 DEF ReconcileBinding, rowVars, routingVars, with_current
  <2>1. TypeOK'
    BY DEF TypeOK
  <2>2. FutureIsNone' /\ DownsAreDead' /\ OneActiveChannel'
    BY DEF FutureIsNone, DownsAreDead, OneActiveChannel
  <2>3. WorkIsTold'
    BY DEF WorkIsTold, TypeOK
  <2>4. UsableBindingsAreTold'
    BY DEF UsableBindingsAreTold, WorkIsTold, TypeOK
  <2> QED
    BY <2>1, <2>2, <2>3, <2>4
<1>3. ASSUME NEW g \in Generations, MarkUnadvertised(g) PROVE IInv'
  <2> USE <1>3 DEF MarkUnadvertised, rowVars, routingVars
  <2>1. TypeOK'
    BY DEF TypeOK, Phase
  <2>2. FutureIsNone' /\ DownsAreDead' /\ OneActiveChannel' /\ WorkIsTold'
    BY DEF FutureIsNone, DownsAreDead, OneActiveChannel, WorkIsTold, TypeOK
  <2>3. UsableBindingsAreTold'
    BY DEF UsableBindingsAreTold, TypeOK
  <2> QED
    BY <2>1, <2>2, <2>3
<1>4. ASSUME NEW g \in Generations, JoinRefused(g) PROVE IInv'
  BY <1>4 DEF JoinRefused, rowVars, routingVars, TypeOK, Phase, FutureIsNone, DownsAreDead,
              WorkIsTold, UsableBindingsAreTold, OneActiveChannel
<1>5. ASSUME NEW g \in Generations, CallActivate(g) PROVE IInv'
  BY <1>5 DEF CallActivate, rowVars, TypeOK, Phase, FutureIsNone, DownsAreDead,
              WorkIsTold, UsableBindingsAreTold, OneActiveChannel
<1>6. ASSUME NEW g \in Generations, activate(g) PROVE IInv'
  <2> USE <1>6 DEF activate, rowVars, supersede_existing
  <2>1. TypeOK'
    BY DEF TypeOK, Phase, Generations
  <2>2. FutureIsNone' /\ DownsAreDead'
    BY DEF FutureIsNone, DownsAreDead, TypeOK, Phase
  <2>3. WorkIsTold' /\ UsableBindingsAreTold'
    BY DEF WorkIsTold, UsableBindingsAreTold
  <2>4. OneActiveChannel'
    BY DEF OneActiveChannel, TypeOK
  <2> QED
    BY <2>1, <2>2, <2>3, <2>4
<1>7. ASSUME NEW g \in Generations, NEW x \in BOOLEAN, DownRouted(g, x) PROVE IInv'
  <2> USE <1>7 DEF DownRouted, channelVars
  <2>1. generation' = generation /\ ready' \in 0 .. MaxGeneration /\ connected' \in BOOLEAN
    <3>1. CASE x
      <4>1. connected' \in BOOLEAN
        <5>1. CASE g = generation
          BY <3>1, <5>1, Zenon DEF disconnect
        <5>2. CASE g # generation
          BY <3>1, <5>2 DEF disconnect, TypeOK
        <5> QED
          BY <5>1, <5>2
      <4>2. generation' = generation
        BY <3>1 DEF disconnect
      <4>3. ready' = 0 \/ ready' = ready
        BY <3>1 DEF disconnect
      <4>4. ready' \in 0 .. MaxGeneration
        BY <4>3 DEF TypeOK
      <4> QED
        BY <4>1, <4>2, <4>4
    <3>2. CASE ~x
      BY <3>2 DEF rowVars, TypeOK
    <3> QED
      BY <3>1, <3>2
  <2>2. TypeOK'
    BY <2>1 DEF TypeOK
  <2>3. FutureIsNone' /\ DownsAreDead' /\ WorkIsTold' /\ UsableBindingsAreTold'
    BY <2>1 DEF FutureIsNone, DownsAreDead, WorkIsTold, UsableBindingsAreTold
  <2>4. OneActiveChannel'
    BY DEF OneActiveChannel, DownsAreDead, TypeOK
  <2> QED
    BY <2>2, <2>3, <2>4
<1>8. ASSUME NEW g \in Generations, DownReplaced(g) PROVE IInv'
  BY <1>8 DEF DownReplaced, rowVars, channelVars, TypeOK, FutureIsNone, DownsAreDead,
              WorkIsTold, UsableBindingsAreTold, OneActiveChannel
<1>9. ASSUME NEW g \in Generations, MarkReady(g) PROVE IInv'
  BY <1>9 DEF MarkReady, channelVars, routingVars, Generations, TypeOK, FutureIsNone,
              DownsAreDead, WorkIsTold, UsableBindingsAreTold, OneActiveChannel
<1>10. ASSUME NEW g \in Generations, NEW b \in Binding, ReportBinding(g, b) PROVE IInv'
  <2> USE <1>10 DEF ReportBinding, rowVars, routingVars
  <2>1. TypeOK'
    BY DEF TypeOK
  <2>2. FutureIsNone' /\ DownsAreDead' /\ OneActiveChannel'
    BY DEF FutureIsNone, DownsAreDead, OneActiveChannel, TypeOK, with_current
  <2>3. WorkIsTold' /\ UsableBindingsAreTold'
    BY DEF WorkIsTold, UsableBindingsAreTold, TypeOK, Generations
  <2> QED
    BY <2>1, <2>2, <2>3
<1>11. ASSUME NEW g \in Generations, RecordBinding(g) PROVE IInv'
  <2> USE <1>11 DEF RecordBinding, rowVars, routingVars
  <2>1. TypeOK'
    BY DEF TypeOK, Generations
  <2>2. FutureIsNone' /\ DownsAreDead' /\ OneActiveChannel'
    BY DEF FutureIsNone, DownsAreDead, OneActiveChannel, TypeOK, with_current
  <2>3. WorkIsTold' /\ UsableBindingsAreTold'
    BY DEF WorkIsTold, UsableBindingsAreTold, TypeOK, Generations
  <2> QED
    BY <2>1, <2>2, <2>3
<1>12. ASSUME NEW g \in Generations, g \in Live, Ends(g) PROVE IInv'
  <2> USE <1>12 DEF Ends, rowVars
  <2>1. TypeOK'
    BY DEF TypeOK, Phase
  <2>2. FutureIsNone' /\ DownsAreDead' /\ OneActiveChannel'
    BY DEF FutureIsNone, DownsAreDead, OneActiveChannel, TypeOK, Live
  <2>3. WorkIsTold' /\ UsableBindingsAreTold'
    BY DEF WorkIsTold, UsableBindingsAreTold, TypeOK
  <2> QED
    BY <2>1, <2>2, <2>3
<1>13. CASE RoutingRestarts
  BY <1>13 DEF RoutingRestarts, rowVars, channelVars, TypeOK, FutureIsNone, DownsAreDead,
               WorkIsTold, UsableBindingsAreTold, OneActiveChannel
<1>14. CASE ServerRestarts
  <2> USE <1>14 DEF ServerRestarts, rowVars
  <2>1. TypeOK'
    BY DEF TypeOK, Phase
  <2>2. FutureIsNone' /\ DownsAreDead' /\ OneActiveChannel'
    BY DEF FutureIsNone, DownsAreDead, OneActiveChannel, TypeOK, Live
  <2>3. WorkIsTold' /\ UsableBindingsAreTold'
    BY DEF WorkIsTold, UsableBindingsAreTold, TypeOK
  <2> QED
    BY <2>1, <2>2, <2>3
<1>15. CASE UNCHANGED vars
  BY <1>15 DEF vars, rowVars, channelVars, routingVars, TypeOK, FutureIsNone, DownsAreDead,
               WorkIsTold, UsableBindingsAreTold, OneActiveChannel
<1>16. ASSUME NEW g \in Generations, HandleSuperseded(g) \/ CallerExits(g) \/ Dies(g)
       PROVE  g \in Live /\ Ends(g)
  BY <1>16 DEF HandleSuperseded, CallerExits, Dies, Live
<1>17. ASSUME NEW g \in Generations, JoinStep(g) PROVE IInv'
  BY <1>2, <1>3, <1>4, <1>5, <1>17 DEF JoinStep
<1>18. ASSUME NEW g \in Generations, Down(g) PROVE IInv'
  BY <1>7, <1>8, <1>18 DEF Down
<1> QED
  BY <1>1, <1>6, <1>9, <1>10, <1>11, <1>12, <1>13, <1>14, <1>15, <1>16, <1>17, <1>18 DEF Next

THEOREM Invariance == Spec => []IInv
BY InitIInv, NextIInv, PTL DEF Spec

(* Rows, channels and mailboxes are always well formed.                     *)
THEOREM TypeCorrect == Spec => []TypeOK
BY Invariance, PTL DEF IInv

(* reconcile_workspace_bindings under its fence, and record_binding even      *)
(* without one, make a binding usable only for the connection that told it.  *)
THEOREM UsableBindingsAlwaysTold == Spec => []UsableBindingsAreTold
BY Invariance, PTL DEF IInv

(* Until the routing process restarts, supersede_existing has told every     *)
(* joined channel but the routed one to stop.                               *)
THEOREM OneChannelActive == Spec => []OneActiveChannel
BY Invariance, PTL DEF IInv

----------------------------------------------------------------------------
(* Live channels after a step that moves one channel.                       *)
LEMMA LiveAfter ==
    ASSUME IInv, NEW g \in Generations, NEW p \in Phase, phase' = [phase EXCEPT ![g] = p]
    PROVE  Live' = IF p \in {"none", "dead"} THEN Live \ {g} ELSE Live \cup {g}
BY DEF Live, IInv, TypeOK

(* Every step is a step of the row or leaves it and the live channels.      *)
LEMMA NextRow == IInv /\ [Next]_vars => [Row!RowNext]_(Row!workerVars)
<1> SUFFICES ASSUME IInv, [Next]_vars PROVE Row!RowNext \/ UNCHANGED Row!workerVars
  OBVIOUS
<1> USE DEF Row!workerVars
<1>0. Generations = Row!Generations /\ Live \subseteq Generations
  BY DEF Generations, Row!Generations, Live
<1>1. ASSUME NEW A \in SUBSET Binding, Register(A) PROVE Row!RowNext
  <2>1. generation' = generation + 1 /\ generation + 1 \in Generations
    BY <1>1 DEF Register, IInv, TypeOK, Generations
  <2>2. Live' = Live \cup {generation + 1}
    BY <1>1, <2>1, LiveAfter DEF Register, Phase
  <2>3. Row!Register
    BY <1>1, <2>2 DEF Register, Row!Register
  <2> QED
    BY <2>3 DEF Row!RowNext
<1>2. ASSUME NEW g \in Generations, JoinStep(g) PROVE Row!RowNext \/ UNCHANGED Row!workerVars
  <2>1. ASSUME NEW b \in Binding, NEW x \in BOOLEAN, ReconcileBinding(g, b, x)
        PROVE  UNCHANGED Row!workerVars
    BY <2>1 DEF ReconcileBinding, rowVars, Live
  <2>2. CASE MarkUnadvertised(g)
    <3>1. Live' = Live \cup {g} /\ g \in Live
      BY <2>2, LiveAfter DEF MarkUnadvertised, Phase, Live
    <3> QED
      BY <2>2, <3>1 DEF MarkUnadvertised, rowVars
  <2>3. CASE JoinRefused(g)
    <3>1. Live' = Live \ {g} /\ g \in Live
      BY <2>3, LiveAfter DEF JoinRefused, Phase, Live
    <3> QED
      BY <1>0, <2>3, <3>1 DEF JoinRefused, rowVars, Row!RowNext, Row!ChannelEnds
  <2>4. CASE CallActivate(g)
    <3>1. Live' = Live \cup {g} /\ g \in Live
      BY <2>4, LiveAfter DEF CallActivate, Phase, Live
    <3> QED
      BY <2>4, <3>1 DEF CallActivate, rowVars
  <2> QED
    BY <1>2, <2>1, <2>2, <2>3, <2>4 DEF JoinStep
<1>3. ASSUME NEW g \in Generations, activate(g) PROVE UNCHANGED Row!workerVars
  <2>1. \A h \in Generations : phase'[h] \in {"none", "dead"} <=> phase[h] \in {"none", "dead"}
    BY <1>3 DEF activate, supersede_existing, IInv, TypeOK
  <2>2. Live' = Live
    BY <2>1 DEF Live
  <2> QED
    BY <1>3, <2>2 DEF activate, rowVars
<1>4. ASSUME NEW g \in Generations, Down(g) PROVE Row!RowNext \/ UNCHANGED Row!workerVars
  <2>1. UNCHANGED phase /\ Live' = Live
    BY <1>4 DEF Down, DownRouted, DownReplaced, channelVars, Live
  <2>2. g \notin Live
    BY <1>4 DEF Down, DownRouted, DownReplaced, IInv, DownsAreDead, Live
  <2>3. CASE DownRouted(g, TRUE) /\ g = generation
    BY <1>0, <2>1, <2>2, <2>3 DEF DownRouted, disconnect, Row!RowNext, Row!Disconnect
  <2>4. CASE DownRouted(g, TRUE) /\ g # generation
    BY <2>1, <2>4 DEF DownRouted, disconnect
  <2>5. CASE DownRouted(g, FALSE)
    BY <2>1, <2>5 DEF DownRouted, rowVars
  <2>6. CASE DownReplaced(g)
    BY <2>1, <2>6 DEF DownReplaced, rowVars
  <2> QED
    BY <1>4, <2>3, <2>4, <2>5, <2>6 DEF Down
<1>5. ASSUME NEW g \in Generations, MarkReady(g) PROVE Row!RowNext
  <2>1. g \in Live /\ Live' = Live /\ g = generation
    BY <1>5 DEF MarkReady, Handling, Live, channelVars, with_current
  <2>2. Row!MarkReady(g)
    BY <1>5, <2>1 DEF MarkReady, Row!MarkReady, Row!FromWorker
  <2> QED
    BY <1>0, <2>2 DEF Row!RowNext
<1>6. ASSUME NEW g \in Generations, NEW b \in Binding, ReportBinding(g, b)
      PROVE  UNCHANGED Row!workerVars
  BY <1>6 DEF ReportBinding, rowVars, Live
<1>7. ASSUME NEW g \in Generations, RecordBinding(g) PROVE UNCHANGED Row!workerVars
  BY <1>7 DEF RecordBinding, rowVars, Live
<1>8. ASSUME NEW g \in Generations, HandleSuperseded(g) \/ CallerExits(g) \/ Dies(g)
      PROVE  Row!RowNext
  <2>1. g \in Live /\ Ends(g)
    BY <1>8 DEF HandleSuperseded, CallerExits, Dies, Live
  <2>2. Live' = Live \ {g}
    BY <2>1, LiveAfter DEF Ends, Phase
  <2>3. Row!ChannelEnds(g)
    BY <2>1, <2>2 DEF Ends, rowVars, Row!ChannelEnds
  <2> QED
    BY <1>0, <2>3 DEF Row!RowNext
<1>9. CASE RoutingRestarts
  BY <1>9 DEF RoutingRestarts, rowVars, channelVars, Live
<1>10. CASE ServerRestarts
  <2>1. Live' = {}
    BY <1>10 DEF ServerRestarts, Live, IInv, TypeOK
  <2>2. Row!ServerRestarts
    BY <1>10, <2>1 DEF ServerRestarts, rowVars, Row!ServerRestarts
  <2> QED
    BY <2>2 DEF Row!RowNext
<1>11. CASE UNCHANGED vars
  BY <1>11 DEF vars, rowVars, channelVars, Live
<1> QED
  BY <1>1, <1>2, <1>3, <1>4, <1>5, <1>6, <1>7, <1>8, <1>9, <1>10, <1>11 DEF Next

(* The joins, supersessions, monitors and restarts of any number of channels *)
(* change the workers row only as WorkerRow - and so ControlPlane - allows.  *)
THEOREM RowRefinement == Spec => ImplementsRow
<1>1. Init => Row!RowInit
  BY DEF Init, Row!RowInit, Live
<1> QED
  BY <1>1, Invariance, NextRow, PTL DEF Spec, ImplementsRow, Row!RowSpec
=============================================================================
