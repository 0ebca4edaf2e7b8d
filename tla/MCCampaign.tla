------------------------------ MODULE MCCampaign ------------------------------
(* Instances of Campaign for TLC: how often what may happen. *)
EXTENDS Campaign, TLC

\* A push, a tag moved before and one after the end of the dry run, a failing
\* call, a crash, two applies at once.
Everything == [k \in Kinds |-> IF k = "apply" THEN 2 ELSE 1]

\* Any two kinds, with a crash or without: a second proposal after a merge may
\* take a crash before the record, the branch deleted and something new to pin.
PairsAndCrash == {kinds \in SUBSET Kinds : Cardinality(kinds \ {"crash"}) <= 2}

\* Repositories are alike, and so are apply requests.
Symmetry == Permutations(Repos) \cup Permutations(Appliers)
===============================================================================
