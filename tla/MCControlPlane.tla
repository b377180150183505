--------------------------- MODULE MCControlPlane ---------------------------
(***************************************************************************)
(* Runs on which TLC checks the control plane.                              *)
(***************************************************************************)
EXTENDS ControlPlane

(* one step                                                                 *)
Single == {1}
SingleNeeds == [o \in Single |-> {}]
SingleContinues == [o \in Single |-> 0]

(* two parallel steps                                                       *)
Pair == {1, 2}
PairNeeds == [o \in Pair |-> {}]
PairContinues == [o \in Pair |-> 0]
=============================================================================
