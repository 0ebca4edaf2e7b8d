---------------------------- MODULE SingleFlight ----------------------------
(***************************************************************************)
(* What a sweep lease promises: of the worker replicas, at most one is     *)
(* inside the sweep.  It says nothing of one replica entering twice.       *)
(***************************************************************************)
CONSTANT Workers
VARIABLE active          \* the replicas inside the sweep

Init == active = {}

Enter(w) == active \subseteq {w} /\ active' = {w}

Leave(w) == active' = active \ {w}

Next == \E w \in Workers : Enter(w) \/ Leave(w)

Spec == Init /\ [][Next]_active

AtMostOne == \A v, w \in active : v = w
=============================================================================
