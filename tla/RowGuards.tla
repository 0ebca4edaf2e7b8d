------------------------------ MODULE RowGuards ------------------------------
(***************************************************************************)
(* The ordering guards of db/repository.py: which incoming version of a    *)
(* workflow run or of a workflow job replaces the stored row.  A row is    *)
(* the pair of what the guard looks at: GitHub's updated_at and the pair   *)
(* (status, conclusion), merged into one "state".                          *)
(***************************************************************************)
EXTENDS Integers

NoTs == 0                  \* updated_at IS NULL (rows older than migration 0008)

RunState == {"queued", "in_progress", "success", "failure"}
RunRow   == [ts : Nat, state : RunState]

\* No row of that id in workflow_runs / workflow_jobs.
NoRun == [ts |-> NoTs, state |-> "absent"]
NoJob == "absent"

Completed(state) == state \in {"success", "failure"}

\* Mutants.
RunGuard_Always(stored, new) == TRUE
RunGuard_StrictOnly(stored, new) == stored.ts = NoTs \/ stored.ts < new.ts

\* _run_upsert_where: a comparison with NULL is never true in SQL, so an
\* incoming NULL timestamp replaces only a stored NULL one.
RunGuard(stored, new) ==
  \/ stored.ts = NoTs
  \/ stored.ts < new.ts
  \/ stored.ts = new.ts /\ stored.state # new.state

\* INSERT ... ON CONFLICT (id) DO UPDATE ... WHERE guard.
UpsertRun(stored, new) ==
  IF stored = NoRun \/ RunGuard(stored, new) THEN new ELSE stored

\* The batch form: one statement, one row per distinct id of the snapshot.
UpsertRuns(rows, snapshot) ==
  [r \in DOMAIN rows |-> IF r \in DOMAIN snapshot
                         THEN UpsertRun(rows[r], snapshot[r])
                         ELSE rows[r]]

\* _JOB_STATUS_RANK; a job's conclusion does not take part in its rank.
JobRank(state) == IF Completed(state) THEN 2
                  ELSE IF state = "in_progress" THEN 1 ELSE 0

UpsertJob(stored, new) ==
  IF stored = NoJob \/ JobRank(stored) <= JobRank(new) THEN new ELSE stored
=============================================================================
