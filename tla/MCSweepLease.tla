----------------------------- MODULE MCSweepLease -----------------------------
(* Instances of SweepLease for TLC. *)
EXTENDS SweepLease, TLC

\* One replica's clock is ahead of the others'.
OneAhead == [w \in Workers |-> IF w = CHOOSE v \in Workers : TRUE THEN 1 ELSE 0]

SlotSymmetry == Permutations(Slots)
===============================================================================
