------------------------------ MODULE MCEventHub ------------------------------
(* The streams of TLC's instance of EventHub. *)
EXTENDS EventHub, TLC

CONSTANTS c1, c2, c3
===============================================================================
