# ActionsPlane in TLA+

ActionsPlane watches the GitHub Actions of an organisation. It receives
webhooks, keeps an event-sourced copy of runs and jobs, audits workflow files,
opens fix pull requests in bulk ("campaigns") and alerts people. This directory
holds its formal model: TLA+ modules translated from the code under
`src/actionsplane/`, TLC configurations that model-check them, and proofs that
TLAPS checks. Paths below are relative to `src/actionsplane/`.

Run a model with `tlc -config <run>.cfg <module>.tla` and the proofs with
`tlapm <module>.tla`; `PROJECT.json` lists the runs, the mutants that show each
property can fail, the source lines of every definition, the hazards and the
theorems.

## 1. Inventory

| Component | State it keeps | Operations | Talks to | What is hard | What makes it correct |
|---|---|---|---|---|---|
| Webhook ingestor (`ingestor/app.py`, `sync/queue.py`) | `processed_deliveries` | `POST /webhook`: verify, look the delivery up, enqueue, record, answer | GitHub, Redis (arq), Postgres | several pods, redelivery, death between two steps | an answered delivery is never lost, a repeated one has no second effect |
| Worker: events (`sync/worker.py` `process_event`) | none of its own | upsert run / job / repo / installation, publish, alert, enqueue an audit | Redis, Postgres, channels | 10 jobs at once, any order, retry after a crash | rows follow GitHub's order, one transaction per event |
| Worker: sweeps (`reconcile`, `audit_all`, `drift_sweep`, `prune_retention`, `radar_alert_sweep`, `advisory_watch_sweep`) | `leases` | claim lease, heartbeat, fan out over repos, stop when the rate budget is low | GitHub, Postgres | replicas, slow and dead holders, stale snapshots | one replica at a time, a dead holder is replaced, dropped events are made good |
| Event store (`db/repository.py`, `db/models.py`) | all tables | guarded upserts, ledgers, leases, pruning | Postgres | NULL timestamps, equal timestamps, races on unique keys | a fresher row is never overwritten by a staler one |
| Audit (`audit/service.py`, `audit/engine.py`, `audit/pins.py`, ...) | `audit_findings`, `workflow_relations` | fetch files, run rules, upsert findings, resolve what is gone, alert | GitHub, Postgres | fetch long before write, two audits of one repo, a file that cannot be read | an open finding exists exactly for what the repo shows |
| SARIF (`audit/sarif*.py`) | rows of `audit_findings` with a `tool:` type | ingest a document, upload open findings | API, Code Scanning | two sources share one table | one source's pass leaves the other's findings alone |
| Campaigns (`executor/*.py`) | `campaigns`, `campaign_targets`, `campaign_findings` | create and snapshot, dry run, apply, verify | GitHub, Postgres | two applies, crash in the middle, repos and tags that move after the review | only the reviewed change lands, only by pull request, once |
| Notifications (`notifications/service.py`) | `notification_sent`, `notification_channels` | claim a key, send to the channels | Slack, webhook, SMTP | claim and send are two steps | at most one alert per key |
| Live events (`events/bus.py`, `frontend/src/hooks/useEventStream.ts`) | subscriber queues, reader task | subscribe, fan out, unsubscribe | Redis pub/sub, browsers | start and stop of the shared reader, full queues, Redis outages | one reader while anybody listens; a connected client hears every envelope or shows it anyway |
| GitHub client (`github/client.py`, `factory.py`, `app_auth.py`, `sync/concurrency.py`) | ETag LRU, rate budget, token cache, mint locks | conditional GET, paginated listing, token mint, fan-out over repositories | GitHub | shared by concurrent sweeps, limits of size and bytes, pages that move | one mint at a time, a bounded cache, listings without holes, failures that stay with their repository |
| Templates and drift (`drift/*.py`) | `workflow_templates`, `template_bindings` | upsert template, bind, score drift | GitHub, Postgres | get-then-insert without a unique key; files and templates that change under a sweep | the drift that is shown is today's, in the end |
| Radar, advisories and alerts (`audit/deprecation*.py`, `audit/advisory*.py`, `notifications/service.py`) | `advisories`, `notification_sent`, `notification_channels` | poll, join with the fleet, claim a key, deliver | GHSA, Slack, webhook, SMTP | the claim is committed before anything is delivered; channels fail or change meanwhile | an alert once, to every channel that was due it, also when polls fail |
| API: requests, tokens, trail (`api/app.py`, `api/auth.py`) | `api_tokens`, `write_audit_log`, `repos.watched`, the cached fleet graph | resolve the caller, write, record, commit | Postgres, GitHub | a connection held across GitHub's answers, tokens revoked in between, a cache checked outside its lock | the trail tells the state and who did it; nobody waits for ever |
| Offline sync (`offline/sync.py`) | module-level last result | walk the configured repos | GitHub, Postgres | overlap with itself and with other requests | same upserts as above |
| Engines (rules, operations, drift diff, policy simulator, scorecard) | none | pure functions of a workflow file | - | two that must agree: what a fix edits and what a rule sees | a fix closes what it is meant to, severities are distances |
| Read side (API lists, metrics, relations, reporting, GitLab provider, CLI) | none | pure functions of stored rows | - | boundaries of percentiles and limits | agree with a reference definition |

Interactions in one line: GitHub -> ingestor -> arq -> worker -> Postgres, with
reconcile reading GitHub's REST listing into the same rows; worker -> Redis
pub/sub -> EventHub -> dashboards; API -> campaigns -> GitHub pull requests ->
merges -> audit -> findings -> "verified closed".


## 2. Modules and plan

| # | Modules | Part of the code | State |
|---|---|---|---|
| 1 | `RowGuards`, `EventPipeline` | ingestor, arq, `process_event`, `upsert_run` / `upsert_job`, reconcile's fetch and write, the alert of a failed run | checked, proved |
| 2 | `SweepLease`, abstract `SingleFlight` | `_sweep_lease`, `claim_lease`, cron, arq's timeout and retry | checked, proved |
| 3 | `Campaign`, abstract `FixFlow` | dry run and apply of a pin-shas campaign, GitHub's branches and pull requests | checked, proved |
| 4 | `AuditLifecycle` | `audit_repo`, the findings table, SARIF ingest, a campaign's snapshot and verified-closed count | checked, proved |
| 5 | `EventHub`, abstract `Broadcast` | `events/bus.py` and the dashboard that listens: cap, lock, start, clean-up, reader, full queues, publish before commit | checked, proved |
| 6 | `GitHubAccess` | `bounded_gather`, the rate gate, the token cache and its mint locks, the ETag cache, paginated listings | checked, proved |
| 7 | `FleetAlerts` | the radar and the advisory watch, `dispatch_once` to several channels, channel endpoints | checked, proved |
| 8 | `ControlPlane` | the API's requests with their connections, tokens, watch flags, the write-audit trail, the cached graph | checked, proved |
| 9 | `Workflows`, `TemplateDrift` | pin classifier, rules, operations, drift diff, simulation and score as operators; templates, bindings and the drift sweep over them | checked, proved |

Each `MC*` module EXTENDS one of these and holds what TLC needs: values for the
function-valued constants and the symmetry sets. Each `*Proofs` module EXTENDS
one and holds its theorems; `AuditSweepProofs` EXTENDS two, `SweepLease` and
`AuditLifecycle`, since it is under the lease "audit" (`worker.py` 298) that
repositories are swept. `EventPipeline` takes the run and job guards from
`RowGuards`, and the leases, the campaigns and the hub are compared with their
abstract specifications by `INSTANCE`; `TemplateDrift` EXTENDS `Workflows`. What the
modules share is stated once and taken as given by the others: `SweepLease`
shows that sweeps do not overlap, which `EventPipeline`, `FleetAlerts` and
`TemplateDrift` assume of theirs; `GitHubAccess` shows that a repository's
failure stays its own, which the sweeps of `TemplateDrift` and `AuditLifecycle`
use; `FleetAlerts` covers the claim that `EventPipeline` and `Campaign` take as
one step.

Left of the plan: an abstract specification of the cache ("an LRU map of bounded
weight", of which `CacheBounded` states the bounds); as operators, the relations
graph and the percentiles of the metrics.

## 3. How the modules correspond to the code

`PROJECT.json` names the source lines of every definition; this section says
what a reader has to know beside them. A definition whose name ends in
`_Something` is a mutant: a plausible bug that a property must notice.

### 3.1 `EventPipeline`

One run or job has a sequence of versions on GitHub (`Timeline`, `JobTimeline`);
`truth` says how far GitHub is. A delivery is the webhook of one version, and
its id doubles as arq's job id, as in `sync/queue.py`. The handler of
`POST /webhook` is three steps because other pods run between them: `Receive`
(the lookup in `processed_deliveries`), `Enqueue`, `Record` (with the answer).
`process_event` is one transaction: `Begin` executes the upsert, which takes
the row lock, and publishes; `Commit` / `CommitFailedRun` make it visible;
`SendAlert` follows the commit of the claimed key. `RejectOrphan` is the
foreign key `workflow_jobs.run_id`, `PublishFails` the envelope Redis refuses;
both end the arq job without a retry, which `lost` remembers. `WorkerCrash`
rolls back and requeues. `ReconcileFetch` and `ReconcileWrite` are two steps
because the REST listing is read long before it is written. `PruneDelivery`
and `ExpireResult` are retention and arq's `keep_result`: they are what makes
a late redelivery run a job twice. `RowGuards` is the WHERE clause of the
upserts, NULL timestamps included, and the rank that `upsert_job` compares.

Left out: requests refused before they change anything (size, signature,
headers), the `installation` and `push` events, and fields that no guard reads.

### 3.2 `SweepLease`

Time is counted in units and every clock is kept as the time left, so that the
state space is finite. `Refreshed` and `MayClaim` are the upsert of
`claim_lease`; each replica uses its own clock (`Skew`), and a heartbeat may
run up to `Jitter` late. `Take` and `Retake` are the body of a sweep job up to
the yield of `_sweep_lease`: entered, skipped, or failed on a database error.
`Leave` is the end of the sweep or arq's cancellation at `JobTimeout`; as in
the code it does not release the lease. `BeatFails` ends the heartbeat task
without the sweep's notice; `Healthy` are the executions it has not happened to. A holder is `host:pid`, so the same
process may enter again while it still sweeps. `TTLAssumption` is the
dimensioning of `worker.py`: a heartbeat well inside the TTL (reconcile), or a
TTL beyond the job timeout (every other sweep).

### 3.3 `Campaign`

`dry` is the dry run in memory and `apply[a]` an apply request in memory; the
rows (`status`, `resolved`, `target`) change only at their single commits,
while GitHub (`head`, `branch`, `pr`, `tag`) changes call by call. The SHA map
that `run_dry_run` merges over the targets is `dry.acc`, and the map that an
apply uses is the one it loaded. `PutFile` is GitHub's compare-and-swap: a
file is committed when the branch still has the blob that the edit was computed
from. Git names a blob by its content, so content stands for the blob sha.
`CommitApply` writes only the columns that the session set, for only the
targets that the loop touched. What the owners of a repository do is external:
`Push`, `Merge`, `Close`, `DeleteBranch`. GitHub refuses a pull request only
while one is open for the branch or the branch has no commits of its own
(`Propose`), so a repository whose pull request was merged or closed before it
was on record can be proposed again; `FixFlow` says when.

Abstractions: a repository's files are read in one step; an action ref is used
or not by a file, without its place in the text; reading the default branch's
head and creating the branch are one step. Left out: the settings that
switch applying off, repositories that have vanished, operations other than
pin-shas (they need no SHA map), closed pull requests that are reopened.

### 3.4 `AuditLifecycle`

One repository, whose branch `head` gives every file the findings its text
would show. An audit lists, reads file by file (`ReadFile`, or `SkipFile` when
a read or parse fails), then writes in one transaction (`WriteFindings`): the
findings it saw are opened or reopened, every other open one is resolved. The
alerts follow the commit one by one. `Ingest` is a SARIF document of one tool;
it may be an old one, so `found` is any subset of that tool's findings.
`CreateCampaign` is `snapshot_campaign_findings` and `VerifiedClosed` what
`campaign_verification` counts. A flaw with `Needs` is a dangling reference,
which `detect_dangling_references` raises from two files; `Exempt` are the
flaws about immutable releases. `shown`, `absent` and `landed` are history
variables of the properties.

Abstractions: the write transaction is one step, so READ COMMITTED
interleavings inside two such transactions, and the deadlock that Postgres
breaks by aborting one of them (`CrashAudit` has its effect), are not explored;
a SARIF document has one tool; the LIKE pattern that selects a tool's rows
matches exactly that tool.

### 3.5 `EventHub`

A stream (`GET /events/stream`) is in one phase of `subscribe()`: it looks at
the cap, asks for the lock, adds its queue, starts the reader if it is the first,
listens, and cleans up, stopping the reader if it was the last. `lock` is the
line of an `asyncio.Lock`. A start opens a connection, a stop closes the current
one, and both await Redis with the lock in hand; `readers` are the connections
whose `_read_loop` runs. A start sends SUBSCRIBE and awaits no confirmation:
`Confirmed` is Redis processing it, before the start returns or later, when
streams are on already; `subscribed` are the connections that Redis delivers to,
and what is published before reaches nobody. A "fault" is a Redis error or a cancellation inside a
start or a clean-up. `Publish` precedes `Commit`, as in `process_event`; the
dashboard refetches once after a burst, and an "overtake" is a refetch that
comes between the two. `waited`, `since` and `missed` are history. `Broadcast` is what the
streams are together: a listener is `Tuned` in while it is on and Redis serves the
connection, so that several may tune in at once; it hears the next of what has been said, and skips
something only if it is marked as lossy (its queue was full, its dashboard read
too early) or the bus as broken (a Redis error, a cut clean-up); in `Bus` only
`Receive` and the steps that let a stream on or off the air are visible. Left out:
the keep-alive comments and what an envelope says.

### 3.6 `GitHubAccess`

A task is one repository of one sweep inside `bounded_gather`: gate, token
(looked up, then looked up again inside the mint lock), request, answer. What a
process shares is keyed by installation: `minter`, `cache` with `bytes`,
`budget`. `bytes` is the counter that the code keeps beside the entries, and
`BodiesSize` what it should be: the bodies' bytes, counted one by one. Time
passes so that tokens and the sweep's one App JWT lapse. The
answer to a conditional request is matched against the ETag that was sent, so an
entry replaced or evicted meanwhile shows. `NewRun` pushes a listing's pages on
while a task walks them. Left out: the write calls and other endpoints, which
have neither cache nor pages.

### 3.7 `FleetAlerts`

`relation` is what the last audit stored of each file. The radar joins it with
the feed and the day; the advisory sweep polls, upserts (PostgreSQL refuses one
statement that touches a key twice), then joins what is stored. `Claim`,
`Commit`, `ReadChannels` and `Deliver` are the steps of `dispatch_once`, which
audits take with their own keys; `Free` is the unique key, on which a second
insert waits. `owed` is history: who had to get a claimed alert. Left out: the
destinations and their validation, rendering, the test message of a channel,
which claims nothing.

### 3.8 `ControlPlane`

A request is resolved, then takes its steps, each of them what lies between two
awaits that matter: a connection is taken at the first query and kept to the
commit or the end; GitHub is waited for with the connection in hand. `Fits` is
the pool, `PoolTimeout` its timeout. A row that a transaction has written is
locked until the transaction ends. `trail` is appended in the transaction of the
write. `Restart` may change the environment tokens and forgets the cache.
`Discovered` is a webhook or sweep that upserts the repository's row. A new
repository and the offline ones take the steps of `sync_repo` (`StoreRepo`,
`ListRuns`, `RepoSynced`); the offline sync has one session for all of them, so
`RepoFails` leaves the transaction of a failed listing open, and `lost`, once
set, fails what follows up to the trail's row. Named tokens have any of `Roles`:
an admin's mints and revokes. Repositories keep their names. Requests
that are refused or need no connection are left out, and so are the reads that
only reshape rows.

### 3.9 `Workflows` and `TemplateDrift`

`Workflows` has no state: a file keeps what the engines tell apart (references
by spelling, permissions, runners, concurrency, steps), `IsWorkflow`, `Steps` and
`Uses` say what a file is, and each function of the code is an operator on it. The
key `concurrency` is read in three ways, so a file has it or not, null, empty or
with a group: the audit flags a value of `None`, which an absent key and a null
one both give; the operation looks for the key; the drift (`Grouped`) asks
whether the value is true. A
scorecard's penalty counts the findings of each severity. `TemplateDrift` has the files on GitHub, the tables
`workflow_templates` and `template_bindings` as sequences of rows without a
unique key, requests that look up and commit later, and the drift sweep, which
copies the templates, then per repository lists, reads file by file, looks the
bindings up and commits, the new ones after the others. `Rebound` and
`NewBinding` are `create_binding`, for a request and for the sweep alike. The ORM
writes a column only if it is assigned another value than the one it was loaded
with (`Loaded`, `Assigned`), so what another transaction commits between look-up
and write may survive it. A text `Broken` does not parse. A campaign's landing is
`LandFix` or `LandSync`, the operators applied to a file; a sync never parses
what it replaces, so it overwrites `Broken` too. Left out: the
`version` column, the wording of the changes, parameters of operations other
than the one in the constants.

## 4. What TLC checks

Every passing run finishes within five minutes on two workers.

| Run | Bounds | What it shows |
|---|---|---|
| `ep_order` | a run and a job, two versions each with distinct timestamps, 2 pods, 2 workers, each delivery once | whatever the order of webhooks and of a stale listing, rows move only forward and a completed job is not reopened (`RowsNeverRegress`) |
| `ep_redelivery` | a run with two versions in the same second, from a NULL timestamp, 2 sends, 2 pods, 2 workers, a crash | redelivery, pruning, forgotten results and a crash lose nothing and alert once; reconcile makes the row what GitHub has (`TypeOK`, `AckedNotLost`, `AlertAtMostOnce`, `Converges`) |
| `sl_reconcile` | `worker.py`'s numbers in units of 30 s: TTL 6, heartbeat 2 (up to 1 late), timeout 30, period 10; 2 replicas, one clock ahead by a unit; 2 executions; a crash, a failed claim | one replica at a time (`SingleFlight`), a live holder keeps its lease, no long gap after a crash or a failed claim (`LeaseTypeOK`, `LiveHolderNeverLapses`, `GapBounded`, `ImplementsSingleFlight`) |
| `ca_anything` | 2 repositories of one file, one ref, two SHAs; at most one push, one deletion of a branch, one retag during and one after the dry run, one failing call, any two of these and a crash together; 2 applies | branches carry only recorded SHAs; review before proposal, one proposal at a time, one per request, none of what is on record (`FixFlow`); the pull requests are the reviewed diffs while nothing moves, and none is forgotten unless a call failed or the API died (`TypeOK`, `ReviewedShas`, `QuietDiffAsReviewed`, `PRsRecorded`, `ImplementsFixFlow`) |
| `au_lifecycle` | 2 audits at once, a file that calls another one, a push, a failed read, a crash | findings are opened and closed on evidence, end up as the branch is, and alert (`Evidence`, `Converges`, `AlertsCome`) |
| `eh_streams` | 3 streams, a cap of 2, queues of 1, 2 rows, one fault, one overtaking refetch | one reader exactly while needed, the cap is passed only by streams that waited together, every envelope is heard, what browsers are sent is a broadcast, dashboards show what is committed (`ReaderWhileNeeded`, `CapCountsStreams`, `HearsAll`, `ImplementsBroadcast`, `DashboardsConverge`) |
| `gh_sweeps` | 2 sweeps, 3 repositories of one installation, one of them in both; 2 slots, 2 pages, a cache of 2 entries and 2 bytes, a budget of 4 over a floor of 2, tokens of 2 units with a margin of 1; a failed or retried call, a new run | one mint at a time and no lock left behind, the cache within its caps, listings without holes, failures that stay with their task (`TokenDiscipline`, `CacheBounded`, `Complete`, `FailuresStayLocal`) |
| `fa_alerts` | 3 days, a missed and a coming deadline, an advisory that GHSA revises, 2 channels, 2 audits with one finding; 2 outside events of any kind | nothing is heard twice, every channel that was due an alert gets it, what warrants an alert is claimed although polls fail (`AlertOnce`, `HeardByAll`, `AlertsCome`) |
| `cp_requests` | any 3 requests of 11 kinds, 2 at a time, 2 connections, 2 named tokens of any role, a restart or lost transaction, 2 units of time over a TTL of 1 | the trail tells fleet, tokens and actors; no graph older than TTL and build; nobody waits for a waiter, and every request is answered (`TypeOK`, `WaitsEnd`, `TrailTellsState`, `ActorsAccountedFor`, `ServedFresh`, `EveryRequestAnswered`) |
| `wf_drift` | 2 files with a template name each, 1 push or landing, 2 requests at once, 1 failure | once all rests, every autobound file shows today's drift (`TypeOK`, `DriftConverges`) |
| `wf_files` | 264 shapes of a file next to 24 others, before and after any landing | fixes close what they are counted for and open nothing; severities are distances; a simulated policy's campaign works (`FixesClose`, `DriftIsDistance`, `SimulationHolds`) |

Two of each actor, because the races here are between two: two pods with one
delivery, two workers on one row, two replicas at one lease, two applies of one
campaign, two audits of one repository. Two versions, because the guards
compare a stored version with an incoming one. Three streams, because a third one
can come while the first still starts and the second waits. One crash, because nothing is
kept in memory and a second one meets committed states like the first; one push,
which may change every file at once to anything. What is proved (section 5)
holds for any number of each. The new modules share one small allowance of
faults or outside events among all kinds, because two of them already combine
every pair, and each pair is what the code has to survive.

`Everything`, `Once` and the like are in the MC modules; `MaxSends`,
`MaxCrashes`, `MaxQueued`, `MaxErrors`, `GapCap`, `Events`, `MaxTime`, `Total`,
`MaxFaults`, `MaxRequests`, `MaxPushes` and `Together` are the bounds.
`Together` lets any two kinds of events meet, and a crash with them, because a
second proposal after a merge takes that many: a crash before the first is
recorded, a push that asks for the fix again, and the deletion of the merged
branch. `GapCap` is above the
bound that `GapBounded` claims. Deadlock is not checked where a bounded history
ends (GitHub is done, every stream was used, every request answered); the leases
run for ever, and there it is checked.

`au_lifecycle` has no scanner's findings, so `Ingest` does nothing there, and
`ca_anything` no immutable release; the theorems about `Evidence`,
`ReviewedShas` and `QuietDiffAsReviewed` cover any number of either. `eh_streams` has one fault and one
overtaking refetch between them; the theorems about the hub cover any number.
The type invariants of `AuditLifecycle`, `EventHub`, `GitHubAccess` and
`FleetAlerts` are in no run's list, which is for what could be wrong; they are
the theorems `AuditTypeCorrect`, `HubTypeCorrect`, `AccessTypeCorrect` and
`AlertsTypeCorrect`.

### Fairness

Only what a scheduler owes:

- `EventPipeline`: a request that has started goes on, arq takes every queued
  job, a transaction ends, cron starts reconcile. GitHub need not send
  anything, and retention and crashes need not happen.
- `AuditLifecycle`: the sweep starts an audit again and again, and an audit in
  progress takes its next step. Reads may fail, pushes need not come.
- `EventHub`: the event loop runs every stream and the reader, Redis answers,
  the worker commits what it published. No browser need come or stay.
- `FleetAlerts`: days go by, both cron jobs get their turn again and again (SF:
  arq's queue is first in, first out, so a slot that is busy at times is not
  busy for ever), and a job takes its next step. GHSA may fail at every poll.
- `ControlPlane`: the event loop runs every request, and every call ends in an
  answer or a timeout. No request need come.
- `TemplateDrift`: the sweep is started again and again and goes on, a request
  commits. Pushes and requests need not come; failures are bounded, so that
  convergence means "once GitHub answers".
- `Campaign`, `SweepLease`, `GitHubAccess`: none. Operators owe nothing, nothing
  resumes a campaign, and the properties of the other two are safety.

### Where the code departs from what it says

`au_false_close` ends in a counterexample: `models.py` calls `resolved_at` "proof
the fix actually landed", but a file that cannot be read counts as a file
without findings, and the campaign as verified-closed.

The modules also define what other sentences of the repository claim, and TLC
refutes each when the run's properties are replaced by it:

| Definition | Run | The sentence | What happens |
|---|---|---|---|
| `AckedEventuallyApplied` | `ep_order`, with `FairSpec` and without symmetry | "one job, no lost event" (`ingestor/app.py`) | a job event that is processed before its run breaks the foreign key; arq does not retry, the redelivery is a duplicate, reconcile reads no jobs |
| `ShasAsReviewed` | `ca_anything` | "the SHAs that land are exactly the ones the reviewer saw" (`executor/service.py`) | the map is shared by all repositories and the last one wins: a tag that moves during the dry run lands in a repository whose diff showed the old SHA |
| `RetriesGoOn` | `ca_anything` | "reuse it rather than failing the retry" (`executor/service.py`) | the branch of an interrupted attempt has other blobs than the default branch, from which the retry takes its blob shas: conflict, for good |
| `DiffAsReviewed` | `ca_anything` | "the reviewed diff is exactly what lands" (`README.md`) | a push between dry run and apply changes what is proposed |
| `ClosedBySource` | `au_false_close`, with `Reports = {z1}` | "lifecycle-managed per source" (`audit/sarif_ingest.py`) | a native audit resolves every open finding that it did not raise, a scanner's too |
| `NextSubscriberRestarts` | `eh_streams` | "the next subscriber restarts" (`events/bus.py`) | only the first stream of an empty set starts the reader; a failed start leaves its queue behind, a dead reader leaves its streams |
| `PollNotFatal` | `fa_alerts` | "a poll failure is non-fatal" (`sync/worker.py`) | an advisory with two ranges for one action makes the upsert fail, the session is not rolled back, and the scan raises, every day |
| `StaleNeverOverwrites` | `ep_order`, with `SameSecondFailing` | "never letting a stale event overwrite a fresher row" (`db/repository.py`) | a late event of the same second replaces the newer row until reconcile comes round |

Others were met on the way and bound the models:

- Leases: a heartbeat that meets a database error dies silently and the live
  sweep loses its lease, which `Healthy` leaves out of the properties.
- Campaigns: a pull request that was not recorded (a crash, a lost answer) and
  then merged or closed does not keep a later apply from opening another one; nor
  does one that a concurrent apply has opened meanwhile, when it is merged or
  closed at once. The row then names the one that was recorded last.
- Live events: `_start` does not wait for the confirmation of its SUBSCRIBE, so
  an envelope that the worker publishes in between is lost to streams that are
  on, with no full queue and no failure; a dashboard that it would have moved
  stays as it was until the next one. The properties begin at `Confirmed`.
- GitHub: `RateGate.note` runs only after a listing that came through, so the
  tasks already admitted each meet the refusal of an exhausted budget; the App
  JWT of a sweep lives 540 s and the sweep may run 900 s, after which mints fail.
- API: a transaction is held open while GitHub is called (re-run, required
  check, upload, verify, apply), and `idle_in_transaction_session_timeout` may
  cut it: GitHub has changed and no trail row says so. The offline sync never
  rolls back: after one repository's database error the later ones fail too, and
  the request ends in an error, though "one bad repo must not sink the whole
  sweep". Two or more verifications
  can hold the whole pool and wait for each other until its timeout. A failed
  add leaves the repository watched and unrecorded. Actor labels are cut at 64
  characters by a column that token names (255) can exceed. Revoking the last
  token opens reading again when there is no environment token. Requests in
  progress outlive their token.
- Fixes: `pin-shas` edits steps and not the reusable workflows that jobs call,
  nor references that resolve to nothing, which the audit flags; pinning a
  deprecated major hides its deprecation; `bump-action-version` may replace a
  commit by a tag; `set-permissions` leaves the blocks of jobs;
  `add-concurrency` leaves a file alone that has the key without a value, which
  the audit goes on flagging, while an empty block or string satisfies the audit
  and counts as no block in a diff. A bumped action
  that a job calls stays as it is, and a bump to a ref that is itself deprecated
  opens what it closes; the proof of `FixesClose` stopped at these two, which no
  file of the runs had. `Leaves` and `bumped` name them all.
- Drift: the diff ignores job-level `uses`, scripts, runners and triggers, so
  "identical" can hide them; a binding by hand whose file has no template's name
  is never scored, and the sweep rebinds the others; re-pointing a binding
  leaves its old severity; names and bindings are not unique, so two requests
  make duplicates of which either is found later; one file that cannot be read,
  or one template that does not parse, keeps its whole repository from being
  scored.

## 5. What TLAPS proves

For every value of the constants that satisfies the named assumptions:

| Module | Theorems | Assumes |
|---|---|---|
| `EventPipelineProofs` | `TypeCorrect`, `RowsNeverRegressThm`, `StaleNeverOverwritesThm`, `AckedNotLostThm`, `AlertAtMostOnceThm`, `UpsertRunCommutes` | `TimelineAssumption`: versions in the order of their timestamps, equal ones allowed; `StaleNeverOverwritesThm` only unequal ones |
| `AuditSweepProofs` | of `SweepLease`: `SweepTypeCorrect`, `LiveHolderNeverLapsesThm`, `ImplementsSingleFlightThm`, `GapBoundedThm`; of `AuditLifecycle`: `AuditTypeCorrect`, `EvidenceThm` | `TimesAssumption`: finitely many execution slots, at least one, and room for one queued job; the middle two of the lease also `TTLAssumption`, the dimensioning of `worker.py`'s settings; `AuditAssumption` |
| `CampaignProofs` | `CampaignTypeCorrect`, `ReviewedShasThm`, `PRsRecordedThm`, `QuietDiffAsReviewedThm`, `ImplementsFixFlowThm` | `CampaignAssumption` |
| `EventHubProofs` | `HubTypeCorrect`, `ReaderWhileNeededThm`, `CapCountsStreamsThm`, `HearsAllThm`, `ImplementsBroadcastThm` | `HubAssumption`: finitely many streams, a cap and queues of at least one |
| `GitHubAccessProofs` | `AccessTypeCorrect`, `TokenDisciplineThm`, `CacheBoundedThm`, `CompleteThm`, `FailuresStayLocalThm` | `AccessAssumption`: finitely many tasks, positive slots, pages and cache entries; a token lives longer than the margin |
| `FleetAlertsProofs` | `AlertsTypeCorrect`, `AlertOnceThm`, `HeardByAllThm` | `AlertsAssumption`: channels are numbered and finitely many, an advisory's id names one advisory of the feed |
| `ControlPlaneProofs` | `ControlPlaneTypeCorrect`, `ServedFreshThm`, `TrailTellsStateThm`, `ActorsAccountedForThm`, `WaitsEndThm` | `ControlPlaneAssumption`: a pool of at least one connection, tokens of the database and of the environment are different |
| `TemplateDriftProofs` | `DriftTypeCorrect`, `FixesCloseThm`, `DriftIsDistanceThm`, `SimulationHoldsThm` | `WorkflowsAssumption`: the kinds of refs are disjoint and told from the absence of one, tags and branches point to commits, no commit is a deprecated ref; `TemplateDriftAssumption`: every text but `Broken` is a workflow, every path has a basename |

The arguments, and why the bare properties are not inductive:

- *Nothing acknowledged is lost.* `recorded` may be pruned and arq's result
  forgotten, so neither says by itself what became of a delivery.
  `PipelineInv` adds that a finished job has left its mark in the tables, that
  a failed one is in `lost`, that a worker sending an alert has committed, and
  that a request past its enqueue is already safe. Stability rests on
  `RowStep`: rows never regress, so what is applied stays applied.
- *One alert.* `AlertInv` says that a worker about to send is alone for its run
  and that the run's counter is still zero; the key alone would not tell a
  claim from a completed send. That a run's row shows the failure when its key
  is claimed is preserved by `RowStep` again.
- *The lease.* Mutual exclusion alone says nothing about time. `LeaseCovers`:
  the row names the sweeping replica, and its time left exceeds, beyond the
  largest skew, the time until that replica refreshes it (with a heartbeat) or
  until arq cancels it (without). A sweep whose heartbeat died is left out, so
  no assumption on failures is needed: it claims no more and harms no other. From that, nobody else may claim, which gives
  the refinement of `SingleFlight`. It covers the sweeps without a heartbeat,
  whose numbers no run has.
- *The gap.* How long nobody has swept says nothing of how long it will go on.
  `Gaps` adds what is left: until the lease runs out, the gap and its remainder
  are within the lease's length; from then on the gap and the time to the next
  cron tick are within the bound, by a period more once that tick's job is
  queued, which a free slot takes before time passes; each failed claim costs a
  period. Nothing is asked of the lease's dimensioning.
- *The campaign.* `ReviewedShas` speaks of branches, but a branch is written
  from an edit computed earlier from a map loaded earlier still. `Review` adds:
  before the dry run's commit nothing is resolved, previewed or in hand;
  an apply holds the recorded map or the empty one, works only on previewed
  targets, and its edit is the pinning of what it read by the recorded map.
  The refinement of `FixFlow` needs two more facts (`Kept`): a request has
  targets only while it works (`Held`), and what is on record or in an outcome
  was proposed, with a status that no later apply takes up (`OnceRecorded`).
  What keeps a request from proposing a repository twice is `Turn`, below.
- *Records.* Between opening a pull request and the end of its request only
  memory knows of it. `OnRecord` says that the request which opened it still
  does (`Knows`) until the row says so, and that no outcome is overwritten,
  since a repository not gone through yet has none (`Turn`).
- *The reviewed diff.* A preview is made with the map as far as the dry run has
  come, the edit with the whole. `AsPreviewed` says that the map has the tags
  of every repository previewed (`Drafted`), so that both give the same
  (`MapsAgree`); that each file of a branch is the old or the new one of the
  preview, all of them new once it is proposed (`Branched`); and that the default
  branch has the old files of the preview or, after a merge, the new ones
  (`Previewed`), which leave nothing to pin (`PinnedAgain`), so that a later
  apply proposes nothing else. TLC checked it and `OnRecord` on `ca_anything`'s
  instance before they were proved.
- *Evidence.* `Reads` says what an audit in progress knows: the history
  variables contain the present, a flaw in a file it read has been shown, and a
  flaw that it did not meet where it looked was absent at some time. The last
  one is what the write's `resolve` rests on, and needs that no read failed.
- *The hub.* That a reader runs exactly while somebody listens fails in the
  middle of every start and stop. `LockKept` says that the lock's line holds
  exactly the streams between asking for it and giving it back, each once, and
  that whoever waits for Redis is at its head; `Members` and `Served` then say
  what is so while that one opens or closes a connection and what is so when
  nobody does. `Counted` says that whoever is waiting for the lock is in `waited`:
  the others add their queue in the step that looked at the cap. `Silent` says
  that nothing reaches a stream before Redis serves the connection, so that it
  starts with nothing behind it. `Heard` is about more than queues: what a stream has had
  and what its queue and the connection's buffer still hold is in order, and,
  unless something failed or the queue overflowed, without a gap since then.
- *The token and the gate.* A token may lapse in a task's hand. `Handed` says
  that it had more than the margin left when it was handed out, so a `401` means
  that the margin has passed since; `Warned` and `Excused` say that a task is
  skipped only after some answer showed the budget below the floor, and failed
  only when its own call did.
- *The cache.* `CachesRight` says that no key is in a cache twice and that the
  counter is the number of its bodies' bytes. An entry that is replaced, moved to the end or
  put last keeps it so (`SizesAdd`, `WithoutIs`, `PutLast`); `EvictedIs` says
  that the eviction loop leaves the longest rest that fits. It exists because a
  nonempty set of numbers has a least one, and no induction over the loop is
  needed.
- *The broadcast.* The refinement needs `Heard` at one place: the head of a
  stream's queue is the earliest of what is published, since the stream was tuned in,
  and not yet sent, because what was sent, the queue and the connection's buffer
  are together in order and without a hole. Every other step moves envelopes where
  no browser sees them, or marks who lost one.
- *Listings.* New runs push a listing down while a task walks it. `Walk`
  compares what has been collected with the length of the listing when the last
  page was read: everything above that page is in hand. Later the same page
  begins higher up, so the walk sees runs twice and passes over none.
- *Alerts.* `Alerts` adds to the two properties that a key in a dispatcher's
  hand is in no other's, is in the ledger exactly from the commit on, has not
  been heard by any channel still to be served (`Unheard`), and that whoever is
  owed an alert is still on and subscribed (`OwedStands`), since an edit or the
  switch of a channel takes it off.
- *The trail.* A trail with uncommitted rows tells less than the state.
  `Waiting`, `Announced` and `Ordered` say that a row of an open transaction
  belongs to a request about to commit, says what that request does, and comes
  after every committed row about the same repository, because the row lock
  (`Exclusive`) keeps the others out. A rollback therefore takes off the last
  word on that repository and no other. `Answered` says by index that each row's
  actor had been shown, by an earlier committed row, to have the role. `Told` is
  the state by the greatest such index; that a nonempty set of indices has one is
  the only arithmetic in it.
- *Waits.* `Left` says what the trail's invariant does not: who has been answered
  has no connection, who has the cache's lock works in it, who builds has the
  connection for it. With it every wait is one long: the holder of a row is about
  to record or commit, with its connection in hand; the holder of the cache's
  lock builds, or waits for a connection at most until the pool's timeout. That
  every request is then answered needs fairness and stays with TLC.
- *The graph.* `Timed`: a build begun is not older than `BuildTime`, and a
  cached graph was not older than that when it was stored.
- *The edits.* `FixesClose` compares two passes over any file of any size, with
  no induction: `SameSteps` and `EditParts` say that an edit keeps the jobs, their
  steps and the actions, so that each reference of the edited file comes from one
  of the old file (`EditedUses`), and `FindingIs` says what a finding is about.
  What a fix leaves or opens follows operation by operation. That the score does
  not fall is `PenaltyMonotone`, cardinalities of fewer findings per severity,
  and `ScoreMonotone`, with Python's rounding of halves to even.
- *The distance.* `DiffIs` says that a severity is decided by three relations of
  two files: the same jobs and steps, the same content, the same name. They are
  equivalences, so the severity is symmetric and obeys the triangle inequality.
- *The simulation.* Of the rules of a policy at most one has a given operation
  (`FixOperation`), and what that leaves is what `FixesClose` says.
- *The rows.* `DriftInv` says that the tables' rows only grow and keep their site
  and name (`Grown`), so that a row which a request or a sweep found earlier is,
  when it is written, still the row of the same file; that a part scores only
  files whose name a template had when the sweep began; that texts and templates
  are files.

Only model-checked:

- liveness (`Converges` in both modules, `AlertsCome` in both, `DashboardsConverge`,
  `EveryRequestAnswered`, `DriftConverges`), because ENABLED and fairness are
  out of the prover's reach.

Every invariant, action property and refinement that a passing run checks is
also proved.

## 6. Not modelled

The relations graph, the percentiles and cost advice of the metrics, reports and
the GitLab provider are pure functions that no other part's state depends on;
operators for them are left of the plan. Left out for good: YAML parsing and
the rules' wording, request building of the GitHub client, rendering of alerts,
reports and pages, the traffic recorder, the command line, configuration,
migrations, deployment and seed scripts: they keep no state that another part
reads, or only move data in and out. Of retention, only the delivery ledger's
is modelled, whose effect another part can notice. Databases are taken at their
word: a committed transaction is durable, a unique key unique, a row lock
exclusive. Clocks of different API processes are taken to agree on the order of
the trail.
