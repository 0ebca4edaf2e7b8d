----------------------------- MODULE SweepLease -----------------------------
(***************************************************************************)
(* The lease that keeps a cron sweep single-flight across worker replicas  *)
(* (sync/worker.py, claim_lease in db/repository.py).                      *)
(*                                                                         *)
(* Time is counted in units, and every clock value is kept as the time     *)
(* left until it: a lease that expires at expires_at has left =            *)
(* expires_at - now.  A replica's clock runs Skew[w] ahead of the slowest  *)
(* one.  The lease is never released: it is refreshed or it runs out.      *)
(***************************************************************************)
EXTENDS Integers, FiniteSets

CONSTANTS
  Workers,       \* holder identities, host:pid
  Slots,         \* executions of the sweep that can overlap
  Skew,          \* how far ahead each replica's clock is
  MaxSkew,
  TTL,           \* ttl_seconds
  Heartbeat,     \* heartbeat_seconds; 0 for a sweep without one
  Jitter,        \* bound: how late the event loop may run a heartbeat
  JobTimeout,    \* arq's job_timeout
  Period,        \* the cron period
  MaxQueued,     \* bound: sweep jobs waiting in arq
  MaxCrashes,    \* bound: worker crashes
  MaxErrors,     \* bound: database errors
  GapCap,        \* bound: how far the gap between sweeps is counted
  Nobody

ASSUME TimesAssumption ==
  /\ TTL \in Nat /\ Heartbeat \in Nat /\ Jitter \in Nat /\ JobTimeout \in Nat
  /\ Period \in Nat \ {0} /\ MaxSkew \in Nat
  /\ Skew \in [Workers -> 0..MaxSkew]
  /\ Nobody \notin Workers /\ IsFiniteSet(Slots) /\ Slots # {}
  /\ MaxQueued \in Nat \ {0} /\ MaxCrashes \in Nat /\ MaxErrors \in Nat /\ GapCap \in Nat

\* How the two kinds of lease are dimensioned (worker.py): a heartbeat that
\* beats well within the TTL, or a TTL above the job timeout.
ASSUME TTLAssumption ==
  IF Heartbeat > 0 THEN TTL > Heartbeat + Jitter + MaxSkew
                   ELSE TTL > JobTimeout + MaxSkew

VARIABLES
  lease,     \* the row of the leases table
  sweep,     \* the executions in flight
  up,        \* worker processes alive
  cron,      \* time left until the next cron tick
  queued,    \* sweep jobs waiting in arq
  retries,   \* jobs of crashed workers, which arq runs again some time
  crashes, errors,
  gap        \* history: for how long no replica has been sweeping

leaseVars == <<lease, sweep, up, cron, queued, retries, crashes, errors, gap>>

NoLease == [holder |-> Nobody, left |-> 0]
Idle    == [worker |-> Nobody, rest |-> 0, beating |-> FALSE, wait |-> 0]

Lease == [holder : Workers, left : 0..(TTL + MaxSkew)]
Sweep == [worker : Workers, rest : 0..JobTimeout, beating : BOOLEAN,
          wait : 0..(Heartbeat + Jitter)]

LeaseTypeOK ==
  /\ lease \in {NoLease} \cup Lease
  /\ sweep \in [Slots -> {Idle} \cup Sweep]
  /\ up \subseteq Workers
  /\ cron \in 0..Period
  /\ queued \in 0..MaxQueued
  /\ retries \in Nat
  /\ crashes \in 0..MaxCrashes
  /\ errors \in 0..MaxErrors
  /\ gap \in 0..GapCap

LeaseInit ==
  /\ lease = NoLease
  /\ sweep = [s \in Slots |-> Idle]
  /\ up = Workers
  /\ cron = 0
  /\ queued = 0 /\ retries = 0 /\ crashes = 0 /\ errors = 0 /\ gap = 0

Sweeping == {s \in Slots : sweep[s] # Idle}

\* The executions whose heartbeat, if they have one, has not died.
Healthy == {s \in Sweeping : Heartbeat > 0 => sweep[s].beating}
Active  == {sweep[s].worker : s \in Healthy}
-----------------------------------------------------------------------------
(* claim_lease *)

\* Mutants.
MayClaim_AnyHolder(w) == TRUE
MayClaim_NeverExpires(w) == lease = NoLease \/ lease.holder = w

\* The WHERE of the upsert: no row, expired by the claimant's clock, or own.
MayClaim(w) ==
  \/ lease = NoLease
  \/ lease.left <= Skew[w]
  \/ lease.holder = w

\* Mutant: the refresh extends the old expiry.
Refreshed_Added(w) == [holder |-> w, left |-> lease.left + TTL]

\* expires_at = now + ttl_seconds, by the claimant's clock.
Refreshed(w) == [holder |-> w, left |-> TTL + Skew[w]]
-----------------------------------------------------------------------------
(* arq and the worker processes *)

NewSweep(w) == [worker |-> w, rest |-> JobTimeout, beating |-> Heartbeat > 0,
                wait |-> Heartbeat + Jitter]

\* The body of a sweep job up to the yield of _sweep_lease: it goes on, is
\* skipped because another replica has the lease, or fails on a database
\* error.
Enter(w, s) ==
  \/ /\ MayClaim(w)
     /\ lease' = Refreshed(w)
     /\ sweep' = [sweep EXCEPT ![s] = NewSweep(w)]
     /\ gap' = 0
     /\ UNCHANGED errors
  \/ /\ ~MayClaim(w)
     /\ UNCHANGED <<lease, sweep, errors, gap>>
  \/ /\ errors < MaxErrors
     /\ errors' = errors + 1
     /\ UNCHANGED <<lease, sweep, gap>>

\* A process takes the job of a cron tick.  The next tick's job may be taken
\* by the process that is still busy with the last one's.
Take(w, s) ==
  /\ w \in up /\ sweep[s] = Idle /\ queued > 0
  /\ queued' = queued - 1
  /\ Enter(w, s)
  /\ UNCHANGED <<up, cron, retries, crashes>>

\* A process takes the job of one that crashed.
Retake(w, s) ==
  /\ w \in up /\ sweep[s] = Idle /\ retries > 0
  /\ retries' = retries - 1
  /\ Enter(w, s)
  /\ UNCHANGED <<up, cron, queued, crashes>>

\* Mutant: the heartbeat goes on without refreshing the lease.
Beat_NoRefresh(s) ==
  /\ sweep[s].beating /\ sweep[s].wait <= Jitter
  /\ sweep' = [sweep EXCEPT ![s] = [@ EXCEPT !.wait = Heartbeat + Jitter]]
  /\ UNCHANGED <<lease, up, cron, queued, retries, crashes, errors, gap>>

\* The heartbeat task: sleep, claim again, ignore the answer.
Beat(s) ==
  /\ sweep[s].beating /\ sweep[s].wait <= Jitter
  /\ LET w == sweep[s].worker IN
       lease' = IF MayClaim(w) THEN Refreshed(w) ELSE lease
  /\ sweep' = [sweep EXCEPT ![s] = [@ EXCEPT !.wait = Heartbeat + Jitter]]
  /\ UNCHANGED <<up, cron, queued, retries, crashes, errors, gap>>

\* A claim that raises ends the heartbeat task; the sweep does not notice
\* before it awaits the task at its end.
BeatFails(s) ==
  /\ sweep[s].beating /\ sweep[s].wait <= Jitter
  /\ errors < MaxErrors
  /\ errors' = errors + 1
  /\ sweep' = [sweep EXCEPT ![s] = [@ EXCEPT !.beating = FALSE]]
  /\ UNCHANGED <<lease, up, cron, queued, retries, crashes, gap>>

\* The sweep ends, or arq cancels it; the lease stays as it is.
Leave(s) ==
  /\ sweep[s] # Idle
  /\ sweep' = [sweep EXCEPT ![s] = Idle]
  /\ UNCHANGED <<lease, up, cron, queued, retries, crashes, errors, gap>>

\* A worker process dies with every sweep it runs.
Crash(w) ==
  /\ w \in up
  /\ crashes < MaxCrashes
  /\ crashes' = crashes + 1
  /\ up' = up \ {w}
  /\ retries' = retries + Cardinality({s \in Slots : sweep[s].worker = w})
  /\ sweep' = [s \in Slots |-> IF sweep[s].worker = w THEN Idle ELSE sweep[s]]
  /\ gap' = IF up' = {} THEN 0 ELSE gap
  /\ UNCHANGED <<lease, cron, queued, errors>>

\* It comes back under the same host:pid (a container restarts in its pod).
Restart(w) ==
  /\ w \in Workers \ up
  /\ up' = up \cup {w}
  /\ UNCHANGED <<lease, sweep, cron, queued, retries, crashes, errors, gap>>

\* arq's cron enqueues one job per tick, whichever process gets there first.
CronFires ==
  /\ cron = 0
  /\ cron' = Period
  /\ queued' = IF up # {} /\ queued < MaxQueued THEN queued + 1 ELSE queued
  /\ UNCHANGED <<lease, sweep, up, retries, crashes, errors, gap>>

\* A unit of time passes: no cron tick, no job timeout and no heartbeat is
\* overdue, and no job waits for an idle slot.
Pass ==
  /\ cron > 0
  /\ \A s \in Sweeping : /\ sweep[s].rest > 0
                         /\ sweep[s].beating => sweep[s].wait > 0
  /\ queued = 0 \/ up = {} \/ Sweeping = Slots
  /\ cron' = cron - 1
  /\ lease' = IF lease.left > 0 THEN [lease EXCEPT !.left = @ - 1] ELSE lease
  /\ sweep' = [s \in Slots |->
                 IF sweep[s] = Idle THEN Idle
                 ELSE [worker  |-> sweep[s].worker,
                       rest    |-> sweep[s].rest - 1,
                       beating |-> sweep[s].beating,
                       wait    |-> IF sweep[s].wait > 0 THEN sweep[s].wait - 1 ELSE 0]]
  /\ gap' = IF Sweeping # {} \/ up = {} THEN 0
            ELSE IF gap < GapCap THEN gap + 1 ELSE gap
  /\ UNCHANGED <<up, queued, retries, crashes, errors>>

LeaseNext ==
  \/ \E w \in Workers, s \in Slots : Take(w, s) \/ Retake(w, s)
  \/ \E s \in Slots : Beat(s) \/ BeatFails(s) \/ Leave(s)
  \/ \E w \in Workers : Crash(w) \/ Restart(w)
  \/ CronFires
  \/ Pass

LeaseSpec == LeaseInit /\ [][LeaseNext]_leaseVars
-----------------------------------------------------------------------------
(* Properties *)

SF == INSTANCE SingleFlight WITH active <- Active

\* "only the claimant proceeds" (worker.py): the lease keeps the replicas'
\* sweeps apart through crashes, restarts, skewed clocks, late heartbeats,
\* slow sweeps and claims that fail, those whose heartbeat died of a failed
\* claim excepted.
ImplementsSingleFlight == SF!Spec

\* "a live holder never lapses mid-sweep" (worker.py): while a replica sweeps
\* and its heartbeat is alive, the row names it and has not expired by any
\* replica's clock, also if another sweep has lost its heartbeat and its lease.
LiveHolderNeverLapses ==
  \A s \in Healthy : lease.holder = sweep[s].worker /\ lease.left > MaxSkew

\* "a crashed holder can never wedge a sweep permanently" (worker.py): while
\* a replica is alive, no more than the lease's remainder and one cron
\* period, and one more for each claim that failed, pass without a sweep.
GapBounded == gap <= TTL + MaxSkew + Period * (1 + errors)
=============================================================================
