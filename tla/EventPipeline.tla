---------------------------- MODULE EventPipeline ----------------------------
(***************************************************************************)
(* From GitHub's webhooks to the run and job tables.                       *)
(*                                                                         *)
(*   GitHub  --webhook-->  ingestor  --arq job-->  worker  -->  Postgres   *)
(*      \_______________ REST listing (reconcile) ______________/          *)
(*                                                                         *)
(* The ingestor handles a delivery in three separate steps (look it up,    *)
(* enqueue it, record it), on several pods at once; arq runs a job at      *)
(* least once; a worker persists an event in one transaction that is open  *)
(* while it publishes and, for a failed run, claims an alert; and the      *)
(* reconciler reads GitHub's listing first and writes it later.            *)
(***************************************************************************)
EXTENDS RowGuards, FiniteSets

CONSTANTS
  Runs, Jobs,        \* workflow runs and jobs
  RunOf,             \* the run a job belongs to
  RunVers, JobVers,  \* how many versions of each GitHub produces
  Timeline,          \* Timeline[r][k]: the k-th version of run r on GitHub
  JobTimeline,       \* JobTimeline[j][k]: the k-th state of job j on GitHub
  LegacyRuns,        \* runs already stored with a NULL updated_at
  Requests,          \* webhook requests that can be in flight at once
  Workers,           \* arq job slots
  MaxSends,          \* bound: how often GitHub sends one delivery
  MaxCrashes,        \* bound: how many crashes and outages occur
  None

ASSUME TimelineAssumption ==
  /\ RunVers \in Nat /\ JobVers \in Nat
  /\ RunOf \in [Jobs -> Runs]
  /\ Timeline \in [Runs -> [1..RunVers -> RunRow]]
  /\ \A r \in Runs, k \in 1..RunVers : Timeline[r][k].ts > NoTs
  /\ \A r \in Runs, k, l \in 1..RunVers :
        k <= l => Timeline[r][k].ts <= Timeline[r][l].ts
  /\ JobTimeline \in [Jobs -> [1..JobVers -> RunState]]
  /\ LegacyRuns \subseteq Runs /\ (LegacyRuns # {} => RunVers > 0)
  /\ MaxSends \in Nat /\ MaxCrashes \in Nat

\* An X-GitHub-Delivery: one per version, the same id on every redelivery.
RunDelivery == [kind : {"run"}, of : Runs, ver : 1..RunVers]
JobDelivery == [kind : {"job"}, of : Jobs, ver : 1..JobVers]
Delivery    == RunDelivery \cup JobDelivery

VARIABLES
  truth, jobTruth,   \* GitHub: the latest version of each run and job
  aged,              \* runs the REST listing no longer returns
  sends,             \* how often each delivery was sent
  req,               \* webhook requests in flight
  recorded,          \* processed_deliveries
  acked,             \* deliveries answered 2xx
  job,               \* arq: the state of the job whose id is the delivery id
  txn,               \* worker slots: the open transaction or the alert to send
  crashes,
  row, jobRow,       \* workflow_runs, workflow_jobs (committed)
  notified,          \* notification_sent keys run:{id}
  alerts,            \* alerts sent per run
  lost,              \* deliveries whose job ended with an exception
  listing            \* the listing reconcile fetched and has not written yet

github == <<truth, jobTruth, aged, sends>>
ingest == <<req, recorded, acked>>
db     == <<row, jobRow, notified>>
hist   == <<alerts, lost>>
vars   == <<github, ingest, job, txn, crashes, db, hist, listing>>

Idle == [pc |-> "idle", d |-> None]

InFlight == [pc : {"checked", "enqueued"}, d : Delivery]
OpenTxn  == [pc : {"open"}, d : Delivery]
Alerting == [pc : {"alerting"}, d : RunDelivery]

JobStatus == {"none", "queued", "running", "done", "failed"}

TypeOK ==
  /\ truth \in [Runs -> 0..RunVers]
  /\ jobTruth \in [Jobs -> 0..JobVers]
  /\ aged \subseteq Runs
  /\ sends \in [Delivery -> 0..MaxSends]
  /\ req \in [Requests -> {Idle} \cup InFlight]
  /\ recorded \subseteq Delivery
  /\ acked \subseteq Delivery
  /\ job \in [Delivery -> JobStatus]
  /\ txn \in [Workers -> {Idle} \cup OpenTxn \cup Alerting]
  /\ crashes \in 0..MaxCrashes
  /\ row \in [Runs -> {NoRun} \cup RunRow]
  /\ jobRow \in [Jobs -> {NoJob} \cup RunState]
  /\ notified \subseteq Runs
  /\ alerts \in [Runs -> Nat]
  /\ lost \subseteq Delivery
  /\ \/ listing = None
     \/ \E R \in SUBSET Runs : listing \in [R -> RunRow]

Init ==
  /\ truth = [r \in Runs |-> IF r \in LegacyRuns THEN 1 ELSE 0]
  /\ jobTruth = [j \in Jobs |-> 0]
  /\ aged = {}
  /\ sends = [d \in Delivery |-> 0]
  /\ req = [q \in Requests |-> Idle]
  /\ recorded = {} /\ acked = {}
  /\ job = [d \in Delivery |-> "none"]
  /\ txn = [w \in Workers |-> Idle]
  /\ crashes = 0
  /\ row = [r \in Runs |-> IF r \in LegacyRuns
                           THEN [ts |-> NoTs, state |-> Timeline[r][1].state]
                           ELSE NoRun]
  /\ jobRow = [j \in Jobs |-> NoJob]
  /\ notified = {}
  /\ alerts = [r \in Runs |-> 0]
  /\ lost = {}
  /\ listing = None
-----------------------------------------------------------------------------
(* GitHub *)

\* A run moves on; its webhook may now be sent, in any order and more than
\* once, or never.
AdvanceRun(r) ==
  /\ truth[r] < RunVers
  /\ truth' = [truth EXCEPT ![r] = @ + 1]
  /\ UNCHANGED <<jobTruth, aged, sends, ingest, job, txn, crashes, db, hist, listing>>

\* A job belongs to a run that exists.
AdvanceJob(j) ==
  /\ jobTruth[j] < JobVers
  /\ truth[RunOf[j]] > 0
  /\ jobTruth' = [jobTruth EXCEPT ![j] = @ + 1]
  /\ UNCHANGED <<truth, aged, sends, ingest, job, txn, crashes, db, hist, listing>>

\* The run falls out of the lookback window, or out of the newest 100.
AgeRun(r) ==
  /\ r \notin aged
  /\ truth[r] > 0
  /\ aged' = aged \cup {r}
  /\ UNCHANGED <<truth, jobTruth, sends, ingest, job, txn, crashes, db, hist, listing>>

Emitted(d) == IF d.kind = "run" THEN d.ver <= truth[d.of] ELSE d.ver <= jobTruth[d.of]
-----------------------------------------------------------------------------
(* The ingestor: POST /webhook, one request q at a time per slot *)

\* Mutant: the delivery is recorded, and the request answered, up front.
Receive_RecordFirst(q, d) ==
  /\ req[q] = Idle
  /\ Emitted(d)
  /\ sends[d] < MaxSends
  /\ d \notin recorded
  /\ sends' = [sends EXCEPT ![d] = @ + 1]
  /\ req' = [req EXCEPT ![q] = [pc |-> "checked", d |-> d]]
  /\ recorded' = recorded \cup {d}
  /\ acked' = acked \cup {d}
  /\ UNCHANGED <<truth, jobTruth, aged, job, txn, crashes, db, hist, listing>>

\* The signed request arrives; a delivery already recorded is acknowledged
\* as a duplicate, any other goes on to be enqueued.
Receive(q, d) ==
  /\ req[q] = Idle
  /\ Emitted(d)
  /\ sends[d] < MaxSends
  /\ sends' = [sends EXCEPT ![d] = @ + 1]
  /\ \/ /\ d \in recorded
        /\ acked' = acked \cup {d}
        /\ UNCHANGED req
     \/ /\ d \notin recorded
        /\ req' = [req EXCEPT ![q] = [pc |-> "checked", d |-> d]]
        /\ UNCHANGED acked
  /\ UNCHANGED <<truth, jobTruth, aged, recorded, job, txn, crashes, db, hist, listing>>

\* enqueue_job(_job_id=delivery): arq drops it while the job or its result
\* is still known, and the handler does not look at the difference.
Enqueue(q) ==
  /\ req[q].pc = "checked"
  /\ LET d == req[q].d IN
       /\ job' = [job EXCEPT ![d] = IF @ = "none" THEN "queued" ELSE @]
       /\ req' = [req EXCEPT ![q] = [pc |-> "enqueued", d |-> d]]
  /\ UNCHANGED <<github, recorded, acked, txn, crashes, db, hist, listing>>

\* try_record_delivery commits, and the 2xx answer leaves.
Record(q) ==
  /\ req[q].pc = "enqueued"
  /\ recorded' = recorded \cup {req[q].d}
  /\ acked' = acked \cup {req[q].d}
  /\ req' = [req EXCEPT ![q] = Idle]
  /\ UNCHANGED <<github, job, txn, crashes, db, hist, listing>>

\* Redis refuses the job (500), or the pod dies: no answer, no record.
RequestFails(q) ==
  /\ req[q] # Idle
  /\ crashes < MaxCrashes
  /\ crashes' = crashes + 1
  /\ req' = [req EXCEPT ![q] = Idle]
  /\ UNCHANGED <<github, recorded, acked, job, txn, db, hist, listing>>

\* prune_deliveries: the dedup horizon passes.
PruneDelivery(d) ==
  /\ d \in recorded
  /\ recorded' = recorded \ {d}
  /\ UNCHANGED <<github, req, acked, job, txn, crashes, db, hist, listing>>

\* keep_result passes: arq forgets the job id.
ExpireResult(d) ==
  /\ job[d] \in {"done", "failed"}
  /\ job' = [job EXCEPT ![d] = "none"]
  /\ UNCHANGED <<github, ingest, txn, crashes, db, hist, listing>>
-----------------------------------------------------------------------------
(* The worker: process_event, one transaction per job *)

Version(d) == Timeline[d.of][d.ver]
JobVersion(d) == JobTimeline[d.of][d.ver]

\* An uncommitted upsert holds the lock of its row.
RowLocked(kind, x) ==
  \E w \in Workers : txn[w].pc = "open" /\ txn[w].d.kind = kind /\ txn[w].d.of = x

\* The parent row a statement needs to exist and be committed.
ParentStored(d) == d.kind = "job" => row[RunOf[d.of]] # NoRun

\* The job is taken, its upsert executes (waiting for the row lock) and its
\* envelope is published; nothing is committed yet.
Begin(w, d) ==
  /\ txn[w] = Idle
  /\ job[d] = "queued"
  /\ ~RowLocked(d.kind, d.of)
  /\ ParentStored(d)
  /\ txn' = [txn EXCEPT ![w] = [pc |-> "open", d |-> d]]
  /\ job' = [job EXCEPT ![d] = "running"]
  /\ UNCHANGED <<github, ingest, crashes, db, hist, listing>>

\* process_event raises: the transaction rolls back and arq stores a failed
\* result; it does not retry on an ordinary exception.
Raise(d) ==
  /\ job' = [job EXCEPT ![d] = "failed"]
  /\ lost' = lost \cup {d}

\* A job event whose run is not stored breaks the foreign key.
RejectOrphan(w, d) ==
  /\ txn[w] = Idle
  /\ job[d] = "queued"
  /\ ~ParentStored(d)
  /\ Raise(d)
  /\ UNCHANGED <<github, ingest, txn, crashes, db, alerts, listing>>

\* The upsert executed but Redis refuses the envelope.
PublishFails(w, d) ==
  /\ txn[w] = Idle
  /\ job[d] = "queued"
  /\ ~RowLocked(d.kind, d.of)
  /\ ParentStored(d)
  /\ crashes < MaxCrashes
  /\ crashes' = crashes + 1
  /\ Raise(d)
  /\ UNCHANGED <<github, ingest, txn, db, alerts, listing>>

FailedRun(d) == d.kind = "run" /\ Version(d).state = "failure"

\* What the transaction's upsert leaves in the tables once committed.
Store(d) ==
  IF d.kind = "run"
  THEN /\ row' = [row EXCEPT ![d.of] = UpsertRun(@, Version(d))]
       /\ UNCHANGED jobRow
  ELSE /\ jobRow' = [jobRow EXCEPT ![d.of] = UpsertJob(@, JobVersion(d))]
       /\ UNCHANGED row

Finish(w, d) ==
  /\ txn' = [txn EXCEPT ![w] = Idle]
  /\ job' = [job EXCEPT ![d] = "done"]

\* session.commit at the end of process_event.
Commit(w) ==
  /\ txn[w].pc = "open"
  /\ LET d == txn[w].d IN
       /\ ~FailedRun(d)
       /\ Store(d)
       /\ Finish(w, d)
  /\ UNCHANGED <<github, ingest, crashes, notified, hist, listing>>

\* Mutant: dispatch instead of dispatch_once.
CommitFailedRun_NoLedger(w) ==
  /\ txn[w].pc = "open"
  /\ FailedRun(txn[w].d)
  /\ Store(txn[w].d)
  /\ notified' = notified \cup {txn[w].d.of}
  /\ txn' = [txn EXCEPT ![w].pc = "alerting"]
  /\ UNCHANGED <<github, ingest, job, crashes, hist, listing>>

\* A failed run: dispatch_once claims the key run:{id} and commits it with
\* the row; only the claimant goes on to send.
CommitFailedRun(w) ==
  /\ txn[w].pc = "open"
  /\ LET d == txn[w].d IN
       /\ FailedRun(d)
       /\ Store(d)
       /\ notified' = notified \cup {d.of}
       /\ IF d.of \in notified
          THEN Finish(w, d)
          ELSE /\ txn' = [txn EXCEPT ![w] = [pc |-> "alerting", d |-> d]]
               /\ UNCHANGED job
  /\ UNCHANGED <<github, ingest, crashes, hist, listing>>

\* dispatch: the alert goes out, or alerts are off or every channel refuses
\* it (logged and swallowed).
SendAlert(w) ==
  /\ txn[w].pc = "alerting"
  /\ LET d == txn[w].d IN
       /\ \/ alerts' = [alerts EXCEPT ![d.of] = @ + 1]
          \/ UNCHANGED alerts
       /\ Finish(w, d)
  /\ UNCHANGED <<github, ingest, crashes, db, lost, listing>>

\* Mutant: the slot keeps the job it was running.
WorkerCrash_KeepsJob(w) ==
  /\ txn[w] # Idle
  /\ crashes < MaxCrashes
  /\ crashes' = crashes + 1
  /\ job' = [job EXCEPT ![txn[w].d] = "queued"]
  /\ txn' = [txn EXCEPT ![w].pc = "idle"]
  /\ UNCHANGED <<github, ingest, db, hist, listing>>

\* The worker process dies: what is open rolls back and arq runs the job
\* again (MaxCrashes stays below arq's max_tries).
WorkerCrash(w) ==
  /\ txn[w] # Idle
  /\ crashes < MaxCrashes
  /\ crashes' = crashes + 1
  /\ job' = [job EXCEPT ![txn[w].d] = "queued"]
  /\ txn' = [txn EXCEPT ![w] = Idle]
  /\ \/ UNCHANGED alerts
     \/ /\ txn[w].pc = "alerting"       \* the alert left, its job did not end
        /\ alerts' = [alerts EXCEPT ![txn[w].d.of] = @ + 1]
  /\ UNCHANGED <<github, ingest, db, lost, listing>>
-----------------------------------------------------------------------------
(* reconcile: read the listing, then write it *)

\* list_workflow_runs(created >= now - lookback, max_runs = 100).
ReconcileFetch ==
  /\ listing = None
  /\ LET R == {r \in Runs : truth[r] > 0 /\ r \notin aged} IN
       /\ R # {}
       /\ listing' = [r \in R |-> Timeline[r][truth[r]]]
  /\ UNCHANGED <<github, ingest, job, txn, crashes, db, hist>>

\* upsert_runs in a transaction of its own, waiting for the row locks.
ReconcileWrite ==
  /\ listing # None
  /\ \A r \in DOMAIN listing : ~RowLocked("run", r)
  /\ row' = UpsertRuns(row, listing)
  /\ listing' = None
  /\ UNCHANGED <<github, ingest, job, txn, crashes, jobRow, notified, hist>>

ReconcileCrash ==
  /\ listing # None
  /\ crashes < MaxCrashes
  /\ crashes' = crashes + 1
  /\ listing' = None
  /\ UNCHANGED <<github, ingest, job, txn, db, hist>>
-----------------------------------------------------------------------------
GitHub == \/ \E r \in Runs : AdvanceRun(r) \/ AgeRun(r)
          \/ \E j \in Jobs : AdvanceJob(j)

Ingestor == \/ \E q \in Requests : Enqueue(q) \/ Record(q) \/ RequestFails(q)
            \/ \E q \in Requests, d \in Delivery : Receive(q, d)
            \/ \E d \in Delivery : PruneDelivery(d) \/ ExpireResult(d)

Worker == \/ \E w \in Workers : Commit(w) \/ CommitFailedRun(w) \/ SendAlert(w)
                                  \/ WorkerCrash(w)
          \/ \E w \in Workers, d \in Delivery :
                Begin(w, d) \/ RejectOrphan(w, d) \/ PublishFails(w, d)

Reconcile == ReconcileFetch \/ ReconcileWrite \/ ReconcileCrash

Next == GitHub \/ Ingestor \/ Worker \/ Reconcile

Spec == Init /\ [][Next]_vars

\* What the schedulers run: a request and a job, once started, go on; arq
\* takes every queued job; cron starts reconcile every few minutes.  GitHub,
\* retention and crashes owe nothing.
Fairness ==
  /\ \A q \in Requests : WF_vars(Enqueue(q) \/ Record(q))
  /\ \A d \in Delivery : WF_vars(\E w \in Workers : Begin(w, d) \/ RejectOrphan(w, d))
  /\ \A w \in Workers : WF_vars(Commit(w) \/ CommitFailedRun(w) \/ SendAlert(w))
  /\ WF_vars(ReconcileFetch) /\ WF_vars(ReconcileWrite)

FairSpec == Spec /\ Fairness
-----------------------------------------------------------------------------
(* Properties *)

\* The tables reflect the delivery: its version, or one at least as recent.
Applied(d) ==
  IF d.kind = "run"
  THEN row[d.of] # NoRun /\ row[d.of].ts >= Version(d).ts
  ELSE jobRow[d.of] # NoJob /\ JobRank(jobRow[d.of]) >= JobRank(JobVersion(d))

\* Enqueue-before-record (ingestor/app.py): a delivery that was answered 2xx
\* is waiting in arq, or is reflected in the tables, unless its job raised.
AckedNotLost ==
  \A d \in acked : job[d] \in {"queued", "running"} \/ d \in lost \/ Applied(d)

\* upsert_run and upsert_job: no interleaving of webhooks, redeliveries,
\* retries and a late reconcile listing moves a run back in GitHub's time,
\* or reopens a completed job.
RowsNeverRegress ==
  [][/\ \A r \in Runs : row'[r].ts >= row[r].ts /\ (row[r] # NoRun => row'[r] # NoRun)
     /\ \A j \in Jobs : JobRank(jobRow'[j]) >= JobRank(jobRow[j])]_vars

\* upsert_run: "never letting a stale event overwrite a fresher row": the
\* stored version of a run is never replaced by an earlier one.
StaleNeverOverwrites ==
  [][\A r \in Runs : \A k, l \in 1..RunVers :
        (row[r] = Timeline[r][k] /\ row'[r] = Timeline[r][l]) => k <= l]_vars

\* dispatch_once: however often a failed run is delivered, processed, pruned
\* and retried, its alert leaves at most once, and never before the tables
\* show the failure or something newer.
AlertAtMostOnce ==
  \A r \in Runs :
    /\ alerts[r] <= 1
    /\ alerts[r] > 0 => /\ r \in notified
                        /\ \E k \in 1..RunVers : /\ Timeline[r][k].state = "failure"
                                                 /\ row[r].ts >= Timeline[r][k].ts

\* reconcile: a run the listing still returns ends up as GitHub has it,
\* whatever the webhooks did.
Converges ==
  \A r \in Runs : <>[](r \in aged \/ truth[r] = 0 \/ row[r] = Timeline[r][truth[r]])

\* ingestor/app.py: "one job, no lost event": an acknowledged event is
\* reflected in the tables in the end.
AckedEventuallyApplied ==
  \A d \in Delivery : (d \in acked) ~> Applied(d)
=============================================================================
