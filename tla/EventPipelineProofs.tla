------------------------- MODULE EventPipelineProofs -------------------------
(***************************************************************************)
(* Theorems about EventPipeline, for any runs, jobs, timelines, requests,  *)
(* workers and bounds that satisfy TimelineAssumption.                     *)
(***************************************************************************)
EXTENDS EventPipeline, TLAPS

StoredRun == {NoRun} \cup RunRow
StoredJob == {NoJob} \cup RunState
-----------------------------------------------------------------------------
(* The guards *)

\* upsert_run keeps a well-formed row and never moves its timestamp back.
LEMMA UpsertRunMonotone ==
  ASSUME NEW s \in StoredRun, NEW n \in RunRow
  PROVE  /\ UpsertRun(s, n) \in RunRow
         /\ UpsertRun(s, n) \in {s, n}
         /\ UpsertRun(s, n).ts >= s.ts
         /\ UpsertRun(s, n).ts >= n.ts
  BY DEF StoredRun, UpsertRun, RunGuard, RunRow, NoRun, NoTs, RunState

\* Two versions of a run with different timestamps can be applied in either
\* order: the order of the webhooks does not show in the table.
THEOREM UpsertRunCommutes ==
  ASSUME NEW s \in StoredRun, NEW a \in RunRow, NEW b \in RunRow,
         a.ts > NoTs, b.ts > NoTs, a.ts # b.ts
  PROVE  UpsertRun(UpsertRun(s, a), b) = UpsertRun(UpsertRun(s, b), a)
  BY DEF StoredRun, UpsertRun, RunGuard, RunRow, NoRun, NoTs, RunState

\* Applying an event again right away changes nothing.
LEMMA UpsertRunIdempotent ==
  ASSUME NEW s \in StoredRun, NEW n \in RunRow
  PROVE  UpsertRun(UpsertRun(s, n), n) = UpsertRun(s, n)
  BY DEF StoredRun, UpsertRun, RunGuard, RunRow, NoRun, NoTs, RunState

LEMMA JobRankType ==
  ASSUME NEW s \in StoredJob
  PROVE  JobRank(s) \in 0..2
  BY DEF StoredJob, JobRank, Completed, RunState, NoJob

\* upsert_job never lowers the rank of a job's status.
LEMMA UpsertJobMonotone ==
  ASSUME NEW s \in StoredJob, NEW n \in RunState
  PROVE  /\ UpsertJob(s, n) \in RunState
         /\ JobRank(UpsertJob(s, n)) >= JobRank(s)
         /\ JobRank(UpsertJob(s, n)) >= JobRank(n)
<1>1. JobRank(NoJob) = 0
  BY DEF JobRank, Completed, NoJob
<1>2. JobRank(s) \in 0..2 /\ JobRank(n) \in 0..2
  BY JobRankType DEF StoredJob
<1>3. QED
  BY <1>1, <1>2 DEF UpsertJob, StoredJob
-----------------------------------------------------------------------------
(* Types *)

LEMMA InitTypeOK == Init => TypeOK
<1> SUFFICES ASSUME Init PROVE TypeOK
  OBVIOUS
<1>1. \A r \in LegacyRuns : 1 \in 1..RunVers
  BY TimelineAssumption
<1>2. row \in [Runs -> {NoRun} \cup RunRow]
  <2>1. ASSUME NEW r \in LegacyRuns
        PROVE  [ts |-> NoTs, state |-> Timeline[r][1].state] \in RunRow
    <3>1. Timeline[r][1] \in RunRow
      BY <1>1, TimelineAssumption
    <3>2. QED
      BY <3>1 DEF RunRow, NoTs
  <2>2. QED
    BY <2>1 DEF Init
<1>3. QED
  <2>1. /\ truth \in [Runs -> 0..RunVers]
        /\ jobTruth \in [Jobs -> 0..JobVers]
        /\ sends \in [Delivery -> 0..MaxSends]
        /\ crashes \in 0..MaxCrashes
    BY <1>1, TimelineAssumption DEF Init
  <2>2. job \in [Delivery -> JobStatus] /\ alerts \in [Runs -> Nat]
    BY DEF Init, JobStatus
  <2>3. QED
    BY <1>2, <2>1, <2>2 DEF Init, TypeOK

LEMMA DeliveryVersion ==
  ASSUME NEW d \in Delivery
  PROVE  /\ d.kind = "run" => /\ d \in RunDelivery /\ d.of \in Runs
                              /\ d.ver \in 1..RunVers
                              /\ Version(d) \in RunRow /\ Version(d).ts > NoTs
         /\ d.kind # "run" => /\ d \in JobDelivery /\ d.of \in Jobs
                              /\ d.ver \in 1..JobVers
                              /\ JobVersion(d) \in RunState
  BY TimelineAssumption
  DEF Delivery, RunDelivery, JobDelivery, Version, JobVersion

\* What the upserts do to the tables in any step, from which both the action
\* property and the stability of Applied follow.
RowStep ==
  /\ row' \in [Runs -> StoredRun]
  /\ jobRow' \in [Jobs -> StoredJob]
  /\ \A r \in Runs : /\ row'[r].ts >= row[r].ts
                     /\ row[r] # NoRun => row'[r] # NoRun
  /\ \A j \in Jobs : /\ JobRank(jobRow'[j]) >= JobRank(jobRow[j])
                     /\ jobRow[j] # NoJob => jobRow'[j] # NoJob

LEMMA UnchangedRows ==
  ASSUME TypeOK, UNCHANGED <<row, jobRow>>
  PROVE  RowStep
<1>1. \A r \in Runs : row[r].ts \in Nat
  BY DEF TypeOK, RunRow, NoRun, NoTs
<1>2. \A j \in Jobs : JobRank(jobRow[j]) \in 0..2
  BY JobRankType DEF TypeOK, StoredJob
<1>3. QED
  BY <1>1, <1>2 DEF RowStep, TypeOK, StoredRun, StoredJob

LEMMA StoreRows ==
  ASSUME TypeOK, NEW d \in Delivery, Store(d)
  PROVE  RowStep /\ Applied(d)'
<1>1. CASE d.kind = "run"
  <2> DEFINE new == UpsertRun(row[d.of], Version(d))
  <2>1. d.of \in Runs /\ Version(d) \in RunRow /\ row[d.of] \in StoredRun
    BY <1>1, DeliveryVersion DEF TypeOK, StoredRun
  <2>2. new \in RunRow /\ new.ts >= row[d.of].ts /\ new.ts >= Version(d).ts
    BY <2>1, UpsertRunMonotone
  <2>3. row' = [row EXCEPT ![d.of] = new] /\ jobRow' = jobRow
    BY <1>1 DEF Store
  <2>4. NoRun \notin RunRow
    BY DEF NoRun, RunRow, RunState
  <2>5. \A r \in Runs : row[r].ts \in Nat /\ row[r] \in StoredRun
    BY DEF TypeOK, RunRow, NoRun, NoTs, StoredRun
  <2>6. \A j \in Jobs : JobRank(jobRow[j]) \in 0..2
    BY JobRankType DEF TypeOK, StoredJob
  <2>7. row' \in [Runs -> StoredRun]
    BY <2>1, <2>2, <2>3 DEF TypeOK, StoredRun
  <2>8. \A r \in Runs : row'[r].ts >= row[r].ts /\ (row[r] # NoRun => row'[r] # NoRun)
    BY <2>1, <2>2, <2>3, <2>4, <2>5 DEF TypeOK
  <2>9. RowStep
    BY <2>3, <2>6, <2>7, <2>8 DEF RowStep, TypeOK, StoredJob
  <2>10. Applied(d)'
    BY <1>1, <2>1, <2>2, <2>3, <2>4 DEF Applied, TypeOK, Version
  <2>11. QED
    BY <2>9, <2>10
<1>2. CASE d.kind # "run"
  <2> DEFINE new == UpsertJob(jobRow[d.of], JobVersion(d))
  <2>1. d.of \in Jobs /\ JobVersion(d) \in RunState /\ jobRow[d.of] \in StoredJob
    BY <1>2, DeliveryVersion DEF TypeOK, StoredJob
  <2>2. /\ new \in RunState
        /\ JobRank(new) >= JobRank(jobRow[d.of])
        /\ JobRank(new) >= JobRank(JobVersion(d))
    BY <2>1, UpsertJobMonotone
  <2>3. jobRow' = [jobRow EXCEPT ![d.of] = new] /\ row' = row
    BY <1>2 DEF Store
  <2>4. NoJob \notin RunState
    BY DEF NoJob, RunState
  <2>5. \A r \in Runs : row[r].ts \in Nat
    BY DEF TypeOK, RunRow, NoRun, NoTs
  <2>6. \A j \in Jobs : JobRank(jobRow[j]) \in 0..2
    BY JobRankType DEF TypeOK, StoredJob
  <2>7. jobRow' \in [Jobs -> StoredJob]
    BY <2>1, <2>2, <2>3 DEF TypeOK, StoredJob
  <2>8. \A j \in Jobs : /\ JobRank(jobRow'[j]) >= JobRank(jobRow[j])
                        /\ jobRow[j] # NoJob => jobRow'[j] # NoJob
    BY <2>1, <2>2, <2>3, <2>4, <2>6 DEF TypeOK
  <2>9. RowStep
    BY <2>3, <2>5, <2>7, <2>8 DEF RowStep, TypeOK, StoredRun
  <2>10. Applied(d)'
    BY <1>2, <2>1, <2>2, <2>3, <2>4 DEF Applied, TypeOK, JobVersion
  <2>11. QED
    BY <2>9, <2>10
<1>3. QED
  BY <1>1, <1>2

LEMMA ReconcileRows ==
  ASSUME TypeOK, ReconcileWrite
  PROVE  RowStep
<1>1. PICK R \in SUBSET Runs : listing \in [R -> RunRow]
  BY DEF TypeOK, ReconcileWrite
<1>2. \A r \in Runs : row[r] \in StoredRun /\ row[r].ts \in Nat
  BY DEF TypeOK, StoredRun, RunRow, NoRun, NoTs
<1>3. DOMAIN row = Runs
  BY DEF TypeOK
<1>4. NoRun \notin RunRow
  BY DEF NoRun, RunRow, RunState
<1>5. \A r \in R : /\ UpsertRun(row[r], listing[r]) \in RunRow
                   /\ UpsertRun(row[r], listing[r]).ts >= row[r].ts
  BY <1>1, <1>2, UpsertRunMonotone
<1>6. row' = [r \in Runs |-> IF r \in R THEN UpsertRun(row[r], listing[r]) ELSE row[r]]
  BY <1>1, <1>3 DEF ReconcileWrite, UpsertRuns
<1>7. \A j \in Jobs : JobRank(jobRow[j]) \in 0..2
  BY JobRankType DEF TypeOK, StoredJob
<1>8. row' \in [Runs -> StoredRun]
  BY <1>2, <1>5, <1>6 DEF StoredRun
<1>9. \A r \in Runs : row'[r].ts >= row[r].ts /\ (row[r] # NoRun => row'[r] # NoRun)
  BY <1>2, <1>4, <1>5, <1>6
<1>10. jobRow' = jobRow
  BY DEF ReconcileWrite
<1>11. QED
  BY <1>7, <1>8, <1>9, <1>10 DEF RowStep, TypeOK, StoredJob

LEMMA NextTypeOK == TypeOK /\ [Next]_vars => TypeOK'
<1> SUFFICES ASSUME TypeOK, [Next]_vars PROVE TypeOK'
  OBVIOUS
<1> USE TimelineAssumption DEF InFlight, OpenTxn, Alerting
<1>1. ASSUME NEW r \in Runs, AdvanceRun(r) PROVE TypeOK'
  BY <1>1 DEF TypeOK, AdvanceRun, ingest, db, hist
<1>2. ASSUME NEW r \in Runs, AgeRun(r) PROVE TypeOK'
  BY <1>2 DEF TypeOK, AgeRun, ingest, db, hist
<1>3. ASSUME NEW j \in Jobs, AdvanceJob(j) PROVE TypeOK'
  BY <1>3 DEF TypeOK, AdvanceJob, ingest, db, hist
<1>4. ASSUME NEW q \in Requests, NEW d \in Delivery, Receive(q, d) PROVE TypeOK'
  <2>1. sends' \in [Delivery -> 0..MaxSends]
    BY <1>4 DEF TypeOK, Receive
  <2>2. req' \in [Requests -> {Idle} \cup InFlight]
    <3>1. [pc |-> "checked", d |-> d] \in InFlight
      OBVIOUS
    <3> HIDE DEF InFlight
    <3>2. QED
      BY <1>4, <3>1 DEF TypeOK, Receive
  <2>3. acked' \subseteq Delivery
    BY <1>4 DEF TypeOK, Receive
  <2>4. QED
    BY <1>4, <2>1, <2>2, <2>3 DEF TypeOK, Receive, db, hist
<1>5. ASSUME NEW q \in Requests, Enqueue(q) PROVE TypeOK'
  <2>1. req[q].d \in Delivery
    BY <1>5 DEF TypeOK, Enqueue, Idle
  <2>2. job' \in [Delivery -> JobStatus]
    BY <1>5, <2>1 DEF TypeOK, Enqueue, JobStatus
  <2>3. req' \in [Requests -> {Idle} \cup InFlight]
    BY <1>5, <2>1 DEF TypeOK, Enqueue
  <2>4. QED
    BY <1>5, <2>2, <2>3 DEF TypeOK, Enqueue, github, db, hist
<1>6. ASSUME NEW q \in Requests, Record(q) PROVE TypeOK'
  <2>1. req[q].d \in Delivery
    BY <1>6 DEF TypeOK, Record, Idle
  <2>2. QED
    BY <1>6, <2>1 DEF TypeOK, Record, github, db, hist
<1>7. ASSUME NEW q \in Requests, RequestFails(q) PROVE TypeOK'
  BY <1>7 DEF TypeOK, RequestFails, github, db, hist
<1>8. ASSUME NEW d \in Delivery, PruneDelivery(d) PROVE TypeOK'
  BY <1>8 DEF TypeOK, PruneDelivery, github, db, hist
<1>9. ASSUME NEW d \in Delivery, ExpireResult(d) PROVE TypeOK'
  BY <1>9 DEF TypeOK, ExpireResult, JobStatus, github, ingest, db, hist
<1>10. ASSUME NEW w \in Workers, Commit(w) PROVE TypeOK'
  <2>1. txn[w].d \in Delivery
    BY <1>10 DEF TypeOK, Commit, Idle, Delivery
  <2>2. RowStep
    BY <1>10, <2>1, StoreRows DEF Commit
  <2>3. QED
    BY <1>10, <2>1, <2>2
    DEF TypeOK, Commit, Finish, RowStep, StoredRun, StoredJob, JobStatus, github, ingest, hist
<1>11. ASSUME NEW w \in Workers, CommitFailedRun(w) PROVE TypeOK'
  <2>1. txn[w].d \in RunDelivery /\ txn[w].d \in Delivery /\ txn[w].d.of \in Runs
    BY <1>11 DEF TypeOK, CommitFailedRun, Idle, Delivery, FailedRun, RunDelivery, JobDelivery
  <2>2. RowStep
    BY <1>11, <2>1, StoreRows DEF CommitFailedRun
  <2>3. row' \in [Runs -> {NoRun} \cup RunRow] /\ jobRow' \in [Jobs -> {NoJob} \cup RunState]
    BY <2>2 DEF RowStep, StoredRun, StoredJob
  <2>4. notified' \subseteq Runs
    BY <1>11, <2>1 DEF TypeOK, CommitFailedRun
  <2>5. /\ job' \in [Delivery -> JobStatus]
        /\ txn' \in [Workers -> {Idle} \cup OpenTxn \cup Alerting]
    <3>1. [pc |-> "alerting", d |-> txn[w].d] \in Alerting
      BY <2>1
    <3> HIDE DEF OpenTxn, Alerting
    <3>2. CASE txn[w].d.of \in notified
      BY <1>11, <2>1, <3>2 DEF TypeOK, CommitFailedRun, Finish, JobStatus
    <3>3. CASE txn[w].d.of \notin notified
      BY <1>11, <3>1, <3>3 DEF TypeOK, CommitFailedRun
    <3>4. QED
      BY <3>2, <3>3
  <2>6. QED
    BY <1>11, <2>3, <2>4, <2>5 DEF TypeOK, CommitFailedRun, github, ingest, hist
<1>12. ASSUME NEW w \in Workers, SendAlert(w) PROVE TypeOK'
  <2>1. txn[w].d \in Delivery /\ txn[w].d.of \in Runs
    BY <1>12 DEF TypeOK, SendAlert, Idle, Delivery, RunDelivery
  <2>2. QED
    BY <1>12, <2>1 DEF TypeOK, SendAlert, Finish, JobStatus, github, ingest, db
<1>13. ASSUME NEW w \in Workers, WorkerCrash(w) PROVE TypeOK'
  <2>1. txn[w].d \in Delivery
    BY <1>13 DEF TypeOK, WorkerCrash, Delivery
  <2>2. alerts' \in [Runs -> Nat]
    <3>1. CASE UNCHANGED alerts
      BY <3>1 DEF TypeOK
    <3>2. CASE /\ txn[w].pc = "alerting"
               /\ alerts' = [alerts EXCEPT ![txn[w].d.of] = @ + 1]
      <4>1. txn[w].d.of \in Runs
        BY <3>2, <1>13 DEF TypeOK, WorkerCrash, RunDelivery
      <4>2. QED
        BY <3>2, <4>1 DEF TypeOK
    <3>3. QED
      BY <1>13, <3>1, <3>2 DEF WorkerCrash
  <2>3. QED
    BY <1>13, <2>1, <2>2 DEF TypeOK, WorkerCrash, JobStatus, github, ingest, db
<1>14. ASSUME NEW w \in Workers, NEW d \in Delivery, Begin(w, d) PROVE TypeOK'
  BY <1>14 DEF TypeOK, Begin, JobStatus, github, ingest, db, hist
<1>15. ASSUME NEW w \in Workers, NEW d \in Delivery, RejectOrphan(w, d) PROVE TypeOK'
  BY <1>15 DEF TypeOK, RejectOrphan, Raise, JobStatus, github, ingest, db
<1>16. ASSUME NEW w \in Workers, NEW d \in Delivery, PublishFails(w, d) PROVE TypeOK'
  BY <1>16 DEF TypeOK, PublishFails, Raise, JobStatus, github, ingest, db
<1>17. CASE ReconcileFetch
  <2> DEFINE R == {r \in Runs : truth[r] > 0 /\ r \notin aged}
  <2>1. listing' \in [R -> RunRow]
    BY <1>17 DEF TypeOK, ReconcileFetch
  <2>2. R \in SUBSET Runs
    OBVIOUS
  <2>3. \E S \in SUBSET Runs : listing' \in [S -> RunRow]
    BY <2>1, <2>2
  <2>4. QED
    BY <1>17, <2>3 DEF TypeOK, ReconcileFetch, github, ingest, db, hist
<1>18. CASE ReconcileWrite
  <2>1. RowStep
    BY <1>18, ReconcileRows
  <2>2. QED
    BY <1>18, <2>1
    DEF TypeOK, ReconcileWrite, RowStep, StoredRun, StoredJob, github, ingest, hist
<1>19. CASE ReconcileCrash
  BY <1>19 DEF TypeOK, ReconcileCrash, github, ingest, db, hist
<1>20. CASE UNCHANGED vars
  BY <1>20 DEF TypeOK, vars, github, ingest, db, hist
<1>21. QED
  BY <1>1, <1>2, <1>3, <1>4, <1>5, <1>6, <1>7, <1>8, <1>9, <1>10, <1>11, <1>12, <1>13,
     <1>14, <1>15, <1>16, <1>17, <1>18, <1>19, <1>20
  DEF Next, GitHub, Ingestor, Worker, Reconcile

\* Every reachable state is well typed.
THEOREM TypeCorrect == Spec => []TypeOK
<1>1. QED
  BY InitTypeOK, NextTypeOK, PTL DEF Spec
-----------------------------------------------------------------------------
(* No row goes back *)

LEMMA NextRowStep == TypeOK /\ [Next]_vars => RowStep
<1> SUFFICES ASSUME TypeOK, [Next]_vars PROVE RowStep
  OBVIOUS
<1>1. CASE UNCHANGED <<row, jobRow>>
  BY <1>1, UnchangedRows
<1>2. ASSUME NEW w \in Workers, Commit(w) PROVE RowStep
  <2>1. txn[w].d \in Delivery
    BY <1>2 DEF TypeOK, Commit, Idle, Delivery, OpenTxn, Alerting
  <2>2. QED
    BY <1>2, <2>1, StoreRows DEF Commit
<1>3. ASSUME NEW w \in Workers, CommitFailedRun(w) PROVE RowStep
  <2>1. txn[w].d \in Delivery
    BY <1>3 DEF TypeOK, CommitFailedRun, Idle, Delivery, OpenTxn, Alerting
  <2>2. QED
    BY <1>3, <2>1, StoreRows DEF CommitFailedRun
<1>4. CASE ReconcileWrite
  BY <1>4, ReconcileRows
<1>5. QED
  BY <1>1, <1>2, <1>3, <1>4
  DEF Next, GitHub, Ingestor, Worker, Reconcile, vars, db, AdvanceRun, AgeRun, AdvanceJob,
      Receive, Enqueue, Record, RequestFails, PruneDelivery, ExpireResult, SendAlert,
      WorkerCrash, Begin, RejectOrphan, PublishFails, ReconcileFetch, ReconcileCrash

\* upsert_run and upsert_job: whatever the interleaving, a stored run never
\* goes back in time and a stored job never goes back in rank.
THEOREM RowsNeverRegressThm == Spec => RowsNeverRegress
<1>1. TypeOK /\ [Next]_vars =>
        [/\ \A r \in Runs : row'[r].ts >= row[r].ts /\ (row[r] # NoRun => row'[r] # NoRun)
         /\ \A j \in Jobs : JobRank(jobRow'[j]) >= JobRank(jobRow[j])]_vars
  BY NextRowStep DEF RowStep
<1>2. QED
  BY <1>1, TypeCorrect, PTL DEF Spec, RowsNeverRegress

\* When no two versions of a run share a timestamp, an earlier version never
\* replaces a later one (upsert_run's guard).
THEOREM StaleNeverOverwritesThm ==
  ASSUME \A r \in Runs, k, l \in 1..RunVers :
            k < l => Timeline[r][k].ts < Timeline[r][l].ts
  PROVE  Spec => StaleNeverOverwrites
<1>1. TypeOK /\ [Next]_vars =>
        [\A r \in Runs : \A k, l \in 1..RunVers :
            (row[r] = Timeline[r][k] /\ row'[r] = Timeline[r][l]) => k <= l]_vars
  <2> SUFFICES ASSUME TypeOK, [Next]_vars, NEW r \in Runs,
                      NEW k \in 1..RunVers, NEW l \in 1..RunVers,
                      row[r] = Timeline[r][k], row'[r] = Timeline[r][l]
               PROVE  k <= l
    OBVIOUS
  <2>1. row'[r].ts >= row[r].ts
    BY NextRowStep DEF RowStep
  <2>2. Timeline[r][k].ts \in Nat /\ Timeline[r][l].ts \in Nat
    BY TimelineAssumption DEF RunRow
  <2>3. k \in Int /\ l \in Int
    BY TimelineAssumption
  <2>4. QED
    BY <2>1, <2>2, <2>3
<1>2. QED
  BY <1>1, TypeCorrect, PTL DEF Spec, StaleNeverOverwrites

\* Once reflected in the tables, always reflected.
LEMMA AppliedStable ==
  ASSUME TypeOK, RowStep, NEW d \in Delivery, Applied(d)
  PROVE  Applied(d)'
<1>1. CASE d.kind = "run"
  <2>1. d.of \in Runs /\ Version(d).ts \in Nat
    BY <1>1, DeliveryVersion DEF RunRow
  <2>2. row[d.of].ts \in Nat /\ row'[d.of].ts \in Nat
    BY <2>1 DEF TypeOK, RowStep, StoredRun, RunRow, NoRun, NoTs
  <2>3. row'[d.of].ts >= Version(d).ts /\ row'[d.of] # NoRun
    BY <1>1, <2>1, <2>2 DEF Applied, RowStep
  <2>4. QED
    BY <1>1, <2>3 DEF Applied, Version
<1>2. CASE d.kind # "run"
  <2>1. d.of \in Jobs /\ JobVersion(d) \in StoredJob
    BY <1>2, DeliveryVersion DEF StoredJob
  <2>2. /\ JobRank(jobRow[d.of]) \in 0..2 /\ JobRank(jobRow'[d.of]) \in 0..2
        /\ JobRank(JobVersion(d)) \in 0..2
    BY <2>1, JobRankType DEF TypeOK, RowStep, StoredJob
  <2>3. JobRank(jobRow'[d.of]) >= JobRank(JobVersion(d)) /\ jobRow'[d.of] # NoJob
    BY <1>2, <2>1, <2>2 DEF Applied, RowStep
  <2>4. QED
    BY <1>2, <2>3 DEF Applied, JobVersion
<1>3. QED
  BY <1>1, <1>2
-----------------------------------------------------------------------------
(* No acknowledged delivery is lost *)

\* Where an event can be once the ingestor has enqueued it.
Safe(d) == job[d] \in {"queued", "running"} \/ d \in lost \/ Applied(d)

\* The strengthening of AckedNotLost that is inductive: arq forgets results
\* and the ledger is pruned, so what job and recorded say is not enough by
\* itself; a finished job has left its mark in the tables or in lost.
PipelineInv ==
  /\ TypeOK
  /\ \A d \in Delivery : job[d] = "done" => Applied(d)
  /\ \A d \in Delivery : job[d] = "failed" => d \in lost
  /\ \A w \in Workers : txn[w].pc = "alerting" => Applied(txn[w].d)
  /\ \A q \in Requests : req[q].pc = "enqueued" => Safe(req[q].d)
  /\ \A d \in recorded \cup acked : Safe(d)

\* What a step must do to the jobs for Safe to be stable.
JobStep ==
  \A d \in Delivery :
    /\ job[d] \in {"queued", "running"} /\ job'[d] \notin {"queued", "running"} =>
         d \in lost' \/ Applied(d)'
    /\ job'[d] = "done" => Applied(d)'
    /\ job'[d] = "failed" => d \in lost'

LEMMA SafeStable ==
  ASSUME PipelineInv, RowStep, JobStep, lost \subseteq lost', NEW d \in Delivery, Safe(d)
  PROVE  Safe(d)'
<1>1. CASE Applied(d)
  BY <1>1, AppliedStable DEF PipelineInv, Safe
<1>2. CASE d \in lost
  BY <1>2 DEF Safe
<1>3. CASE job[d] \in {"queued", "running"}
  BY <1>3 DEF JobStep, Safe
<1>4. QED
  BY <1>1, <1>2, <1>3 DEF Safe

LEMMA NextJobStep ==
  ASSUME PipelineInv, [Next]_vars
  PROVE  JobStep /\ lost \subseteq lost'
<1> USE DEF PipelineInv
<1>0. RowStep
  BY NextRowStep
<1>1. CASE UNCHANGED <<job, lost, row, jobRow>>
  BY <1>1, AppliedStable, <1>0 DEF JobStep
<1>2. ASSUME NEW q \in Requests, Enqueue(q) PROVE JobStep /\ lost \subseteq lost'
  <2>1. req[q].d \in Delivery
    BY <1>2 DEF TypeOK, Enqueue, Idle, InFlight
  <2>2. \A d \in Delivery : job'[d] # job[d] => job'[d] = "queued"
    BY <1>2, <2>1 DEF TypeOK, Enqueue
  <2>3. \A d \in Delivery : Applied(d) => Applied(d)'
    BY <1>0, AppliedStable
  <2>4. QED
    BY <1>2, <2>2, <2>3 DEF JobStep, Enqueue, hist
<1>3. ASSUME NEW d \in Delivery, ExpireResult(d) PROVE JobStep /\ lost \subseteq lost'
  <2>1. \A e \in Delivery : Applied(e) => Applied(e)'
    BY <1>0, AppliedStable
  <2>2. QED
    BY <1>3, <2>1 DEF JobStep, ExpireResult, hist, TypeOK
<1>4. ASSUME NEW w \in Workers, Commit(w) \/ CommitFailedRun(w) PROVE JobStep /\ lost \subseteq lost'
  <2>1. txn[w].d \in Delivery /\ Store(txn[w].d) /\ lost' = lost
    BY <1>4 DEF TypeOK, Commit, CommitFailedRun, Idle, Delivery, OpenTxn, Alerting, hist
  <2>2. \A e \in Delivery : e = txn[w].d => Applied(e)'
    <3> SUFFICES ASSUME NEW e \in Delivery, e = txn[w].d PROVE Applied(e)'
      OBVIOUS
    <3>1. Store(e)
      BY <2>1 DEF Store
    <3>2. QED
      BY <3>1, StoreRows
  <2>3. \A e \in Delivery : e # txn[w].d => job'[e] = job[e]
    BY <1>4, <2>1 DEF Commit, CommitFailedRun, Finish, TypeOK
  <2>4. \A e \in Delivery : Applied(e) => Applied(e)'
    BY <1>0, AppliedStable
  <2>5. job'[txn[w].d] \in {"done", job[txn[w].d]}
    BY <1>4, <2>1 DEF Commit, CommitFailedRun, Finish, TypeOK
  <2>6. QED
    BY <2>1, <2>2, <2>3, <2>4, <2>5 DEF JobStep
<1>5. ASSUME NEW w \in Workers, SendAlert(w) PROVE JobStep /\ lost \subseteq lost'
  <2>1. txn[w].d \in Delivery /\ Applied(txn[w].d) /\ lost' = lost
    BY <1>5 DEF TypeOK, SendAlert, Delivery, Alerting, OpenTxn, Idle
  <2>2. \A e \in Delivery : e # txn[w].d => job'[e] = job[e]
    BY <1>5, <2>1 DEF SendAlert, Finish, TypeOK
  <2>3. \A e \in Delivery : Applied(e) => Applied(e)'
    BY <1>0, AppliedStable
  <2>4. job'[txn[w].d] = "done"
    BY <1>5, <2>1 DEF SendAlert, Finish, TypeOK
  <2>5. QED
    BY <2>1, <2>2, <2>3, <2>4 DEF JobStep
<1>6. ASSUME NEW w \in Workers, WorkerCrash(w) PROVE JobStep /\ lost \subseteq lost'
  <2>1. txn[w].d \in Delivery
    BY <1>6 DEF TypeOK, WorkerCrash, Delivery, Alerting, OpenTxn, Idle
  <2>2. \A e \in Delivery : Applied(e) => Applied(e)'
    BY <1>0, AppliedStable
  <2>3. QED
    BY <1>6, <2>1, <2>2 DEF JobStep, WorkerCrash, TypeOK
<1>7. ASSUME NEW w \in Workers, NEW d \in Delivery, Begin(w, d) PROVE JobStep /\ lost \subseteq lost'
  <2>1. \A e \in Delivery : Applied(e) => Applied(e)'
    BY <1>0, AppliedStable
  <2>2. QED
    BY <1>7, <2>1 DEF JobStep, Begin, TypeOK, hist
<1>8. ASSUME NEW d \in Delivery, Raise(d) PROVE JobStep /\ lost \subseteq lost'
  <2>1. \A e \in Delivery : Applied(e) => Applied(e)'
    BY <1>0, AppliedStable
  <2>2. QED
    BY <1>8, <2>1 DEF JobStep, Raise, TypeOK
<1>9. CASE ReconcileWrite
  <2>1. \A e \in Delivery : Applied(e) => Applied(e)'
    BY <1>0, AppliedStable
  <2>2. QED
    BY <1>9, <2>1 DEF JobStep, ReconcileWrite, hist
<1>10. QED
  BY <1>1, <1>2, <1>3, <1>4, <1>5, <1>6, <1>7, <1>8, <1>9
  DEF Next, GitHub, Ingestor, Worker, Reconcile, vars, db, hist, AdvanceRun, AgeRun, AdvanceJob,
      Receive, Record, RequestFails, PruneDelivery, RejectOrphan, PublishFails,
      ReconcileFetch, ReconcileCrash

LEMMA InitPipelineInv == Init => PipelineInv
<1> SUFFICES ASSUME Init PROVE PipelineInv
  OBVIOUS
<1>1. TypeOK
  BY InitTypeOK
<1>2. QED
  BY <1>1 DEF Init, PipelineInv, Idle

LEMMA NextPipelineInv == PipelineInv /\ [Next]_vars => PipelineInv'
<1> SUFFICES ASSUME PipelineInv, [Next]_vars PROVE PipelineInv'
  OBVIOUS
<1>1. TypeOK /\ TypeOK' /\ RowStep
  BY NextTypeOK, NextRowStep DEF PipelineInv
<1>2. JobStep /\ lost \subseteq lost'
  BY NextJobStep
<1>3. \A d \in Delivery : Safe(d) => Safe(d)'
  BY <1>1, <1>2, SafeStable
<1>4. \A d \in Delivery : Applied(d) => Applied(d)'
  BY <1>1, AppliedStable
<1>5. \A d \in Delivery : job'[d] = "done" => Applied(d)'
  BY <1>2 DEF JobStep
<1>6. \A d \in Delivery : job'[d] = "failed" => d \in lost'
  BY <1>2 DEF JobStep
<1>7. ASSUME NEW w \in Workers, txn'[w].pc = "alerting", NEW d \in Delivery, d = txn'[w].d
      PROVE  Applied(d)'
  <2>1. CASE txn'[w] = txn[w]
    BY <1>4, <1>7, <2>1 DEF PipelineInv
  <2>2. ASSUME NEW v \in Workers, CommitFailedRun(v), txn'[w] # txn[w] PROVE Applied(d)'
    <3>1. v = w /\ d = txn[w].d
      BY <1>1, <1>7, <2>2 DEF TypeOK, CommitFailedRun, Finish, Idle
    <3>2. Store(d)
      BY <2>2, <3>1 DEF CommitFailedRun, Store
    <3>3. QED
      BY <1>1, <3>2, StoreRows
  <2>3. ASSUME NEW v \in Workers, NEW e \in Delivery, Begin(v, e) PROVE txn'[w] = txn[w]
    BY <1>1, <1>7, <2>3 DEF TypeOK, Begin
  <2>4. ASSUME NEW v \in Workers, Commit(v) \/ SendAlert(v) \/ WorkerCrash(v)
        PROVE  txn'[w] = txn[w]
    BY <1>1, <1>7, <2>4 DEF TypeOK, Commit, SendAlert, WorkerCrash, Finish, Idle
  <2>5. CASE UNCHANGED txn
    BY <2>1, <2>5
  <2>6. QED
    BY <2>1, <2>2, <2>3, <2>4, <2>5
    DEF Next, GitHub, Ingestor, Worker, Reconcile, vars, AdvanceRun, AgeRun, AdvanceJob,
        Receive, Enqueue, Record, RequestFails, PruneDelivery, ExpireResult, RejectOrphan,
        PublishFails, ReconcileFetch, ReconcileWrite, ReconcileCrash
<1>8. ASSUME NEW q \in Requests, req'[q].pc = "enqueued", NEW d \in Delivery, d = req'[q].d
      PROVE  Safe(d)'
  <2>1. CASE req'[q] = req[q]
    BY <1>3, <1>8, <2>1 DEF PipelineInv
  <2>2. ASSUME NEW p \in Requests, Enqueue(p), req'[q] # req[q] PROVE Safe(d)'
    <3>1. p = q /\ d = req[q].d
      BY <1>1, <1>8, <2>2 DEF TypeOK, Enqueue
    <3>2. CASE job[d] = "none"
      BY <2>2, <3>1, <3>2, <1>1 DEF Enqueue, Safe, TypeOK
    <3>3. CASE job[d] # "none"
      <4>1. Safe(d)
        BY <3>3, <1>1 DEF PipelineInv, Safe, TypeOK, JobStatus
      <4>2. QED
        BY <4>1, <1>3
    <3>4. QED
      BY <3>2, <3>3
  <2>3. ASSUME NEW p \in Requests, Record(p) \/ RequestFails(p) PROVE req'[q] = req[q]
    BY <1>1, <1>8, <2>3 DEF TypeOK, Record, RequestFails, Idle
  <2>4. ASSUME NEW p \in Requests, NEW e \in Delivery, Receive(p, e) PROVE req'[q] = req[q]
    BY <1>1, <1>8, <2>4 DEF TypeOK, Receive
  <2>5. CASE UNCHANGED req
    BY <2>1, <2>5
  <2>6. QED
    BY <2>1, <2>2, <2>3, <2>4, <2>5
    DEF Next, GitHub, Ingestor, Worker, Reconcile, vars, ingest, AdvanceRun, AgeRun, AdvanceJob,
        PruneDelivery, ExpireResult, Begin, RejectOrphan, PublishFails, Commit,
        CommitFailedRun, SendAlert, WorkerCrash, ReconcileFetch, ReconcileWrite, ReconcileCrash
<1>9. ASSUME NEW d \in recorded' \cup acked' PROVE Safe(d)'
  <2>1. d \in Delivery
    BY <1>1, <1>9 DEF TypeOK
  <2>2. CASE d \in recorded \cup acked
    BY <1>3, <2>1, <2>2 DEF PipelineInv
  <2>3. ASSUME NEW q \in Requests, Record(q), d \notin recorded \cup acked PROVE Safe(d)
    BY <1>9, <2>3 DEF Record, PipelineInv
  <2>4. ASSUME NEW q \in Requests, NEW e \in Delivery, Receive(q, e)
        PROVE  d \in recorded \cup acked
    BY <1>9, <2>4 DEF Receive
  <2>5. ASSUME NEW e \in Delivery, PruneDelivery(e) PROVE d \in recorded \cup acked
    BY <1>9, <2>5 DEF PruneDelivery
  <2>6. CASE UNCHANGED <<recorded, acked>>
    BY <1>9, <2>2, <2>6
  <2>7. QED
    BY <1>3, <2>1, <2>2, <2>3, <2>4, <2>5, <2>6
    DEF Next, GitHub, Ingestor, Worker, Reconcile, vars, ingest, AdvanceRun, AgeRun, AdvanceJob,
        Enqueue, RequestFails, ExpireResult, Begin, RejectOrphan, PublishFails, Commit,
        CommitFailedRun, SendAlert, WorkerCrash, ReconcileFetch, ReconcileWrite, ReconcileCrash
<1>10. \A w \in Workers : txn'[w].pc = "alerting" => txn'[w].d \in Delivery
  BY <1>1 DEF TypeOK, Idle, OpenTxn, Alerting, Delivery
<1>11. \A q \in Requests : req'[q].pc = "enqueued" => req'[q].d \in Delivery
  BY <1>1 DEF TypeOK, Idle, InFlight
<1>12. ASSUME NEW w \in Workers, txn'[w].pc = "alerting" PROVE Applied(txn[w].d)'
  BY <1>7, <1>10, <1>12 DEF Applied
<1>13. ASSUME NEW q \in Requests, req'[q].pc = "enqueued" PROVE Safe(req[q].d)'
  BY <1>8, <1>11, <1>13 DEF Safe, Applied
<1>14. QED
  BY <1>1, <1>5, <1>6, <1>9, <1>12, <1>13 DEF PipelineInv

\* ingestor/app.py, enqueue before record: at every moment an acknowledged
\* delivery is queued, or running, or in the tables, or its job raised.
THEOREM AckedNotLostThm == Spec => []AckedNotLost
<1>1. PipelineInv => AckedNotLost
  BY DEF PipelineInv, AckedNotLost, Safe
<1>2. QED
  BY <1>1, InitPipelineInv, NextPipelineInv, PTL DEF Spec
-----------------------------------------------------------------------------
(* Alerts *)

\* The tables show a failure of the run, or something newer.
FailureStored(r) ==
  \E k \in 1..RunVers : Timeline[r][k].state = "failure" /\ row[r].ts >= Timeline[r][k].ts

\* AlertAtMostOnce is not inductive: a worker between its claim and its send
\* is about to add an alert.  The claim is what keeps it alone.
AlertInv ==
  /\ \A r \in Runs : alerts[r] <= 1
  /\ \A r \in Runs : alerts[r] > 0 => r \in notified
  /\ \A r \in notified : FailureStored(r)
  /\ \A w \in Workers : txn[w].pc = "alerting" =>
        /\ txn[w].d.of \in notified
        /\ alerts[txn[w].d.of] = 0
        /\ \A v \in Workers \ {w} :
              ~(txn[v].pc = "alerting" /\ txn[v].d.of = txn[w].d.of)

LEMMA FailureStoredStable ==
  ASSUME TypeOK, RowStep, NEW r \in Runs, FailureStored(r)
  PROVE  FailureStored(r)'
<1>1. row[r].ts \in Nat /\ row'[r].ts \in Nat
  BY DEF TypeOK, RowStep, StoredRun, RunRow, NoRun, NoTs
<1>2. \A k \in 1..RunVers : Timeline[r][k].ts \in Nat
  BY TimelineAssumption DEF RunRow
<1>3. QED
  BY <1>1, <1>2 DEF FailureStored, RowStep

LEMMA NextAlertInv == TypeOK /\ AlertInv /\ [Next]_vars => AlertInv'
<1> SUFFICES ASSUME TypeOK, AlertInv, [Next]_vars PROVE AlertInv'
  OBVIOUS
<1>1. RowStep /\ TypeOK'
  BY NextRowStep, NextTypeOK
<1>2. \A r \in Runs : FailureStored(r) => FailureStored(r)'
  BY <1>1, FailureStoredStable
<1>3. \A r \in Runs : alerts[r] \in Nat /\ alerts'[r] \in Nat
  BY <1>1 DEF TypeOK
<1>4. CASE UNCHANGED <<alerts, notified, txn>>
  <2>1. \A r \in notified' : FailureStored(r)'
    BY <1>2, <1>4 DEF AlertInv, TypeOK
  <2>2. QED
    BY <1>4, <2>1 DEF AlertInv
<1>5. ASSUME NEW w \in Workers, txn' = [txn EXCEPT ![w] = Idle], UNCHANGED <<alerts, notified>>
      PROVE  AlertInv'
  <2>1. \A r \in notified' : FailureStored(r)'
    BY <1>2, <1>5 DEF AlertInv, TypeOK
  <2>2. \A v \in Workers : txn'[v].pc = "alerting" => v # w /\ txn'[v] = txn[v]
    BY <1>5 DEF TypeOK, Idle
  <2>3. QED
    BY <1>5, <2>1, <2>2 DEF AlertInv
<1>6. ASSUME NEW w \in Workers, txn' = [txn EXCEPT ![w] = Idle], UNCHANGED notified,
             txn[w].pc = "alerting",
             alerts' = [alerts EXCEPT ![txn[w].d.of] = @ + 1]
      PROVE  AlertInv'
  <2> DEFINE r == txn[w].d.of
  <2>1. r \in Runs /\ r \in notified /\ alerts[r] = 0
    BY <1>6 DEF AlertInv, TypeOK, Alerting, RunDelivery, OpenTxn, Idle
  <2>2. \A s \in notified' : FailureStored(s)'
    BY <1>2, <1>6 DEF AlertInv, TypeOK
  <2>3. \A v \in Workers : txn'[v].pc = "alerting" =>
           v # w /\ txn'[v] = txn[v] /\ txn[v].d.of # r /\ txn[v].d.of \in Runs
    BY <1>6 DEF TypeOK, Idle, AlertInv, Alerting, RunDelivery, OpenTxn
  <2>4. alerts'[r] = 1 /\ \A s \in Runs : s # r => alerts'[s] = alerts[s]
    BY <1>6, <2>1 DEF TypeOK
  <2>5. \A s \in Runs : alerts'[s] <= 1 /\ (alerts'[s] > 0 => s \in notified')
    BY <1>6, <2>1, <2>4 DEF AlertInv
  <2>6. QED
    BY <1>6, <2>2, <2>3, <2>4, <2>5 DEF AlertInv
<1>7. ASSUME NEW w \in Workers, CommitFailedRun(w) PROVE AlertInv'
  <2> DEFINE r == txn[w].d.of
  <2>1. /\ txn[w].d \in Delivery /\ txn[w].d \in RunDelivery /\ r \in Runs
        /\ txn[w].d.ver \in 1..RunVers /\ txn[w].d.kind = "run"
    BY <1>7 DEF TypeOK, CommitFailedRun, FailedRun, Idle, OpenTxn, Alerting, Delivery,
                RunDelivery, JobDelivery
  <2>2. ASSUME NEW d \in Delivery, d = txn[w].d PROVE FailureStored(d.of)'
    <3>1. Store(d)
      BY <1>7, <2>2 DEF CommitFailedRun, Store
    <3>2. Applied(d)'
      BY <3>1, StoreRows
    <3>3. Version(d).state = "failure" /\ d.kind = "run" /\ d.ver \in 1..RunVers
      BY <1>7, <2>1, <2>2 DEF CommitFailedRun, FailedRun
    <3>4. QED
      BY <3>2, <3>3 DEF Applied, FailureStored, Version
  <2>3. notified' = notified \cup {r} /\ alerts' = alerts
    BY <1>7 DEF CommitFailedRun, hist
  <2>4. \A s \in notified' : FailureStored(s)'
    <3> SUFFICES ASSUME NEW s \in notified' PROVE FailureStored(s)'
      OBVIOUS
    <3>1. CASE s \in notified
      BY <1>2, <3>1 DEF AlertInv, TypeOK
    <3>2. CASE s = r
      BY <2>1, <2>2, <3>2
    <3>3. QED
      BY <2>3, <3>1, <3>2
  <2>5. CASE r \in notified
    <3>1. txn' = [txn EXCEPT ![w] = Idle] /\ UNCHANGED <<alerts, notified>>
      BY <1>7, <2>3, <2>5 DEF CommitFailedRun, Finish
    <3>2. QED
      BY <3>1, <1>5
  <2>6. CASE r \notin notified
    <3>1. txn' = [txn EXCEPT ![w] = [pc |-> "alerting", d |-> txn[w].d]]
      BY <1>7, <2>6 DEF CommitFailedRun
    <3>2. \A v \in Workers \ {w} : txn'[v] = txn[v]
      BY <3>1 DEF TypeOK
    <3>3. txn'[w].pc = "alerting" /\ txn'[w].d.of = r
      BY <3>1 DEF TypeOK
    <3>4. \A v \in Workers : txn[v].pc = "alerting" => txn[v].d.of # r
      BY <2>6 DEF AlertInv
    <3>5. alerts[r] = 0
      BY <1>3, <2>1, <2>6 DEF AlertInv
    <3>6. \A v \in Workers : txn'[v].pc = "alerting" =>
            /\ txn'[v].d.of \in notified'
            /\ alerts'[txn'[v].d.of] = 0
            /\ \A u \in Workers \ {v} :
                  ~(txn'[u].pc = "alerting" /\ txn'[u].d.of = txn'[v].d.of)
      BY <2>3, <3>2, <3>3, <3>4, <3>5 DEF AlertInv
    <3>7. QED
      BY <2>3, <2>4, <3>6 DEF AlertInv
  <2>7. QED
    BY <2>5, <2>6
<1>8. ASSUME NEW w \in Workers, NEW d \in Delivery, Begin(w, d) PROVE AlertInv'
  <2>1. txn' = [txn EXCEPT ![w] = [pc |-> "open", d |-> d]] /\ UNCHANGED <<alerts, notified>>
    BY <1>8 DEF Begin, db, hist
  <2>2. \A r \in notified' : FailureStored(r)'
    BY <1>2, <2>1 DEF AlertInv, TypeOK
  <2>3. \A v \in Workers : txn'[v].pc = "alerting" => v # w /\ txn'[v] = txn[v]
    BY <2>1 DEF TypeOK
  <2>4. QED
    BY <2>1, <2>2, <2>3 DEF AlertInv
<1>9. ASSUME NEW w \in Workers, Commit(w) PROVE AlertInv'
  BY <1>5, <1>9 DEF Commit, Finish, hist
<1>10. ASSUME NEW w \in Workers, SendAlert(w) PROVE AlertInv'
  BY <1>5, <1>6, <1>10 DEF SendAlert, Finish, db
<1>11. ASSUME NEW w \in Workers, WorkerCrash(w) PROVE AlertInv'
  BY <1>5, <1>6, <1>11 DEF WorkerCrash, db
<1>12. QED
  BY <1>4, <1>7, <1>8, <1>9, <1>10, <1>11
  DEF Next, GitHub, Ingestor, Worker, Reconcile, vars, db, hist, AdvanceRun, AgeRun, AdvanceJob,
      Receive, Enqueue, Record, RequestFails, PruneDelivery, ExpireResult, RejectOrphan,
      PublishFails, ReconcileFetch, ReconcileWrite, ReconcileCrash

\* dispatch_once: a failed run alerts at most once, and only when the tables
\* already show the failure.
THEOREM AlertAtMostOnceThm == Spec => []AlertAtMostOnce
<1>1. Init => AlertInv
  BY DEF Init, AlertInv, Idle
<1>2. AlertInv => AlertAtMostOnce
  BY DEF AlertInv, AlertAtMostOnce, FailureStored
<1>3. QED
  BY <1>1, <1>2, NextAlertInv, TypeCorrect, PTL DEF Spec
=============================================================================
