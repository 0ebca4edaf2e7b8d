---------------------------- MODULE MCControlPlane ----------------------------
(* An instance of ControlPlane for TLC. *)
EXTENDS ControlPlane, TLC

CONSTANTS p1, p2, r1, t1, t2

\* With both environment tokens or with none.
OpenOrNot == {{"operate", "read"}, {}}
===============================================================================
