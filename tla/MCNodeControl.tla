---------------------------- MODULE MCNodeControl ----------------------------
(* Instances of NodeControl for TLC.  Connections are interchangeable, so   *)
(* they are a symmetry set in the runs that check no liveness.              *)
EXTENDS NodeControl, TLC

Symmetry == Permutations(Conns)
=============================================================================
