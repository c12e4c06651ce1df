---------------------------- MODULE MCHopSession ----------------------------
(* Instances of HopSession for TLC.                                         *)
EXTENDS HopSession

CONSTANTS call_1, call_2

(* A provider that asks for several tools at once.                          *)
ManyCalls == {<<>>, <<call_1>>, <<call_1, call_2>>}
=============================================================================
