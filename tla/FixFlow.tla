------------------------------- MODULE FixFlow -------------------------------
(***************************************************************************)
(* What a campaign promises for each repository: a change is reviewed      *)
(* before it is proposed, and one proposal is open at a time.  A proposal  *)
(* that was taken or withdrawn may be made again, but each request makes   *)
(* it at most once, and no request that began after it was on record.      *)
(***************************************************************************)
CONSTANTS Repos, Requests

VARIABLES
  stage,     \* where each repository is
  asked,     \* the repositories that each request may still propose
  recorded   \* the repositories whose proposal is on record

vars == <<stage, asked, recorded>>

Init ==
  /\ stage = [r \in Repos |-> "new"]
  /\ asked = [q \in Requests |-> {}]
  /\ recorded = {}

\* The dry run shows all its diffs together.
Review(S) ==
  /\ \A r \in S : stage[r] = "new"
  /\ stage' = [r \in Repos |-> IF r \in S THEN "reviewed" ELSE stage[r]]
  /\ UNCHANGED <<asked, recorded>>

Ask(q, S) ==
  /\ asked[q] = {} /\ S \cap recorded = {}
  /\ \A r \in S : stage[r] # "new"
  /\ asked' = [asked EXCEPT ![q] = S]
  /\ UNCHANGED <<stage, recorded>>

Propose(q, r) ==
  /\ r \in asked[q] /\ stage[r] \notin {"new", "proposed"}
  /\ stage' = [stage EXCEPT ![r] = "proposed"]
  /\ asked' = [asked EXCEPT ![q] = asked[q] \ {r}]
  /\ UNCHANGED recorded

\* Nothing to change, a refusal, a failure, the end of the request.
Drop(q, S) ==
  /\ asked' = [asked EXCEPT ![q] = asked[q] \ S]
  /\ UNCHANGED <<stage, recorded>>

Answer(r, answer) ==
  /\ stage[r] = "proposed"
  /\ stage' = [stage EXCEPT ![r] = answer]
  /\ UNCHANGED <<asked, recorded>>

Record(S) ==
  /\ \A r \in S : stage[r] \notin {"new", "reviewed"}
  /\ recorded' = recorded \cup S
  /\ UNCHANGED <<stage, asked>>

Next ==
  \/ \E S \in SUBSET Repos : Review(S) \/ Record(S)
  \/ \E q \in Requests, S \in SUBSET Repos : Ask(q, S) \/ Drop(q, S)
  \/ \E q \in Requests, r \in Repos : Propose(q, r)
  \/ \E r \in Repos, answer \in {"landed", "withdrawn"} : Answer(r, answer)

Spec == Init /\ [][Next]_vars
=============================================================================
