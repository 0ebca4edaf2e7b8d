--------------------------- MODULE MCEventPipeline ---------------------------
(* Instances of EventPipeline for TLC. *)
EXTENDS EventPipeline, TLC

Version_(t, s) == [ts |-> t, state |-> s]

\* A run that is reported while it runs and when it has failed.
FailingTimeline ==
  [r \in Runs |-> <<Version_(1, "in_progress"), Version_(2, "failure")>>]

\* updated_at has a resolution of one second: a run that fails at once is
\* reported twice with the same timestamp.
SameSecondFailing ==
  [r \in Runs |-> <<Version_(1, "in_progress"), Version_(1, "failure")>>]

OneVersion == [r \in Runs |-> <<Version_(1, "in_progress")>>]

JobStates == [j \in Jobs |-> <<"queued", "success">>]
NoJobStates == [j \in Jobs |-> <<>>]

OnlyRun == [j \in Jobs |-> CHOOSE r \in Runs : TRUE]

Slots == Permutations(Requests) \cup Permutations(Workers)
=============================================================================
