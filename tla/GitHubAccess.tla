---------------------------- MODULE GitHubAccess ----------------------------
(***************************************************************************)
(* How the sweeps talk to GitHub (github/client.py, factory.py,            *)
(* app_auth.py, sync/concurrency.py, RateGate of sync/worker.py).          *)
(*                                                                         *)
(* A sweep visits many repositories, a few at a time.  Its tasks share a   *)
(* token cache and a gate, and all sweeps of a process share, for each     *)
(* installation, a mint lock, the last rate budget GitHub reported and an  *)
(* LRU cache of bodies with their ETags.  A task walks the pages of a      *)
(* listing, newest first, while new runs come in at its front.             *)
(***************************************************************************)
EXTENDS Integers, Sequences, FiniteSets, SequencesExt

CONSTANTS
  Sweeps,
  Tasks,            \* pairs of a sweep and a repository
  Inst,             \* the installation of each repository
  Slots,            \* fetch_concurrency
  Floor,            \* rate_limit_floor
  CacheCap, MaxBytes,
  MaxPages, MaxRuns,
  PageSize,
  Life, Skew,       \* lifetime of an installation token, and the margin
  JwtLife,          \* lifetime of the App JWT, which a sweep mints once
  Early,            \* the runs GitHub lists at first, newest first, by number
  Budget,           \* requests GitHub grants
  Keeps,            \* sweeps that pass a token cache
  MaxTime, Limit,   \* bounds
  None

Repos == {t[2] : t \in Tasks}
Insts == {Inst[r] : r \in Repos}
SweepOf(t) == t[1]
InstOf(t) == Inst[t[2]]

\* GitHub fails or asks to retry later; a run starts.
Kinds == {"trouble", "run"}

ASSUME AccessAssumption ==
  /\ IsFiniteSet(Sweeps) /\ IsFiniteSet(Tasks) /\ \A t \in Tasks : t[1] \in Sweeps
  /\ None \notin Tasks \cup Nat \cup Seq(Nat)
  /\ Inst \in [Repos -> Insts] /\ Keeps \subseteq Sweeps
  /\ {Slots, MaxPages, MaxRuns, PageSize, CacheCap, JwtLife} \subseteq Nat \ {0}
  /\ {Floor, MaxBytes, Skew, MaxTime, Budget} \subseteq Nat
  /\ Life \in Nat /\ Skew < Life
  /\ Early \in [Repos -> Seq(Nat)]
  /\ \A r \in Repos : \A n \in 1..Len(Early[r]) : Early[r][n] = Len(Early[r]) + 1 - n
  /\ Limit \in [Kinds -> Nat]

VARIABLES
  now, used,
  listing,    \* GitHub: the runs of each repository, newest first
  remaining,  \* GitHub: requests left, per installation
  jwt,        \* when each sweep minted its App JWT, or None
  gate,       \* RateGate.tripped
  tokens,     \* token caches: when the token of an installation expires
  minter,     \* the task in the locked block, per installation
  cache,      \* etag_cache, least recently used first
  bytes,      \* _bytes
  budget,     \* rate_budget.remaining, or None
  task,
  begun,      \* history: what a task's repository listed when it began,
  hit,        \*          tasks that a failure or a refusal of GitHub's met,
  low         \*          installations that reported less than the floor

github  == <<listing, remaining>>
process == <<minter, cache, bytes, budget>>
sweep   == <<jwt, gate, tokens>>
history == <<begun, hit, low>>
vars    == <<now, used, github, process, sweep, task, history>>

\* A task in memory; cut: the walk ended with pages left.
Idle == [pc |-> "queued", page |-> 1, again |-> FALSE, want |-> None, inbox |-> None,
         runs |-> <<>>, cut |-> FALSE, token |-> None, handed |-> None]

Over == {"done", "skipped", "failed"}
Active == {"locking", "minting", "ready", "waiting"}

Answer(status, body, left, more) ==
  [status |-> status, body |-> body, left |-> left, more |-> more]

\* An answer as it is received, and an entry of the cache.
Answers == [status : {"200", "304", "401", "403"}, body : Seq(Nat) \cup {None},
            left : 0..Budget, more : BOOLEAN]
Entries == [key : Repos \X (1..MaxPages), body : Seq(Nat), size : Nat]

TypeOK ==
  /\ now \in 0..MaxTime /\ used \in [Kinds -> Nat] /\ \A k \in Kinds : used[k] <= Limit[k]
  /\ listing \in [Repos -> Seq(Nat)] /\ remaining \in [Insts -> 0..Budget]
  /\ jwt \in [Sweeps -> {None} \cup 0..MaxTime] /\ gate \in [Sweeps -> BOOLEAN]
  /\ tokens \in [Sweeps -> [Insts -> {None} \cup Nat]]
  /\ minter \in [Insts -> Tasks \cup {None}] /\ budget \in [Insts -> {None} \cup 0..Budget]
  /\ cache \in [Insts -> Seq(Entries)]
  /\ task \in [Tasks ->
       [pc : {"queued"} \cup Active \cup Over, page : 1..MaxPages, again : BOOLEAN,
        want : Seq(Nat) \cup {None}, inbox : Answers \cup {None}, runs : Seq(Nat),
        cut : BOOLEAN, token : Nat \cup {None}, handed : 0..MaxTime \cup {None}]]
  /\ \A t \in Tasks : Len(task[t].runs) <= MaxRuns
  /\ \A s \in Sweeps : Cardinality({t \in Tasks : t[1] = s /\ task[t].pc \in Active}) <= Slots
  /\ begun \in [Tasks -> SUBSET Nat] /\ hit \subseteq Tasks /\ low \subseteq Insts

Init ==
  /\ now = 0 /\ used = [k \in Kinds |-> 0]
  /\ listing = Early /\ remaining = [i \in Insts |-> Budget]
  /\ jwt = [s \in Sweeps |-> None] /\ gate = [s \in Sweeps |-> FALSE]
  /\ tokens = [s \in Sweeps |-> [i \in Insts |-> None]]
  /\ minter = [i \in Insts |-> None]
  /\ cache = [i \in Insts |-> <<>>] /\ bytes = [i \in Insts |-> 0]
  /\ budget = [i \in Insts |-> None]
  /\ task = [t \in Tasks |-> Idle]
  /\ begun = [t \in Tasks |-> {}] /\ hit = {} /\ low = {}

Happens(k) == used[k] < Limit[k] /\ used' = [used EXCEPT ![k] = @ + 1]

Becomes(t, rec) == task' = [task EXCEPT ![t] = rec]
Ends(t, pc) == Becomes(t, [Idle EXCEPT !.pc = pc])
-----------------------------------------------------------------------------
(* The ETag cache *)

Keys(q) == {q[n].key : n \in 1..Len(q)}
Place(q, k) == CHOOSE n \in 1..Len(q) : q[n].key = k
EntryOf(q, k) == q[Place(q, k)]
Without(q, k) == IF k \in Keys(q) THEN RemoveAt(q, Place(q, k)) ELSE q

\* The bytes of all bodies, counted one by one.
Bytes(q) == UNION {{n} \X (1..q[n].size) : n \in 1..Len(q)}
BodiesSize(q) == Cardinality(Bytes(q))

\* A body's size: here a page counts its runs.
SizeOf(body) == Len(body)

\* get: a hit becomes the most recently used one.
Touched(q, k) == IF k \in Keys(q) THEN Append(Without(q, k), EntryOf(q, k)) ELSE q

\* The evictions of store, the oldest first, until both caps hold.
Evicted(q, total) ==
  LET Fits(n) == /\ Len(q) - n <= CacheCap
                 /\ total - BodiesSize(SubSeq(q, 1, n)) <= MaxBytes
      n == CHOOSE n \in 0..Len(q) : (Fits(n) \/ n = Len(q)) /\ \A m \in 0..(n - 1) : ~Fits(m)
  IN [queue |-> SubSeq(q, n + 1, Len(q)), total |-> total - BodiesSize(SubSeq(q, 1, n))]

Stored_LeaksOld(q, total, k, body) ==
  Evicted(Append(Without(q, k), [key |-> k, body |-> body, size |-> SizeOf(body)]),
          total + SizeOf(body))

Stored(q, total, k, body) ==
  LET old == IF k \in Keys(q) THEN EntryOf(q, k).size ELSE 0
  IN Evicted(Append(Without(q, k), [key |-> k, body |-> body, size |-> SizeOf(body)]),
             total - old + SizeOf(body))
-----------------------------------------------------------------------------
(* GitHub *)

Key(t) == <<t[2], task[t].page>>

Page(r, p) ==
  LET first == (p - 1) * PageSize + 1
      last  == IF p * PageSize < Len(listing[r]) THEN p * PageSize ELSE Len(listing[r])
  IN SubSeq(listing[r], first, last)

HasNext(r, p) == p * PageSize < Len(listing[r])

\* A run starts: it is listed first.
NewRun(r) ==
  /\ Happens("run")
  /\ listing' = [listing EXCEPT ![r] = <<Len(@) + 1>> \o @]
  /\ UNCHANGED <<now, remaining, process, sweep, task, history>>

\* Time passes between requests: the first one follows the token at once, and
\* no answer takes longer than the margin.
Tick ==
  /\ now < MaxTime
  /\ \A t \in Tasks : task[t].pc = "waiting" \/ task[t].pc = "ready" => task[t].page > 1
  /\ now' = now + 1
  /\ UNCHANGED <<used, github, process, sweep, task, history>>
-----------------------------------------------------------------------------
(* A sweep and its tasks: bounded_gather, client_for_installation *)

StartSweep(s) ==
  /\ jwt[s] = None
  /\ jwt' = [jwt EXCEPT ![s] = now]
  /\ UNCHANGED <<now, used, github, process, gate, tokens, task, history>>

IsExpired_NoSkew(expiry) == now >= expiry
IsExpired(expiry) == now >= expiry - Skew

Usable(s, i) == tokens[s][i] # None /\ ~IsExpired(tokens[s][i])

HasToken(t, expiry) ==
  [task[t] EXCEPT !.pc = "ready", !.token = expiry, !.handed = now]

\* With the lock: look again before minting.
Recheck_Mints(t) ==
  /\ minter' = [minter EXCEPT ![InstOf(t)] = t]
  /\ Becomes(t, [task[t] EXCEPT !.pc = "minting"])

Recheck(t) ==
  IF Usable(SweepOf(t), InstOf(t))
  THEN /\ Becomes(t, HasToken(t, tokens[SweepOf(t)][InstOf(t)]))
       /\ UNCHANGED minter
  ELSE /\ minter' = [minter EXCEPT ![InstOf(t)] = t]
       /\ Becomes(t, [task[t] EXCEPT !.pc = "minting"])

\* The semaphore of bounded_gather.
FreeSlot(s) == Cardinality({d \in Tasks : d[1] = s /\ task[d].pc \in Active}) < Slots

\* A slot is free: the gate is looked at once, before anything is sent.  A lock
\* that is free is taken without a pause.
Begin(t) ==
  LET s == SweepOf(t) i == InstOf(t) IN
  /\ jwt[s] # None /\ task[t].pc = "queued"
  /\ FreeSlot(s)
  /\ IF gate[s] THEN Ends(t, "skipped") /\ UNCHANGED minter
     ELSE IF Usable(s, i) \/ minter[i] = None THEN Recheck(t)
     ELSE Becomes(t, [task[t] EXCEPT !.pc = "locking"]) /\ UNCHANGED minter
  /\ UNCHANGED <<now, used, github, cache, bytes, budget, sweep, history>>

Lock(t) ==
  /\ task[t].pc = "locking" /\ minter[InstOf(t)] = None
  /\ Recheck(t)
  /\ UNCHANGED <<now, used, github, cache, bytes, budget, sweep, history>>

JwtGood(s) == now < jwt[s] + JwtLife

Mint(t) ==
  LET s == SweepOf(t) i == InstOf(t) IN
  /\ task[t].pc = "minting" /\ JwtGood(s)
  /\ tokens' = IF s \in Keeps THEN [tokens EXCEPT ![s][i] = now + Life] ELSE tokens
  /\ minter' = [minter EXCEPT ![i] = None]
  /\ Becomes(t, HasToken(t, now + Life))
  /\ UNCHANGED <<now, used, github, cache, bytes, budget, jwt, gate, history>>

MintFails(t) ==
  /\ task[t].pc = "minting"
  /\ IF JwtGood(SweepOf(t)) THEN Happens("trouble") ELSE UNCHANGED used
  /\ minter' = [minter EXCEPT ![InstOf(t)] = None]
  /\ Ends(t, "failed") /\ hit' = hit \cup {t}
  /\ UNCHANGED <<now, github, cache, bytes, budget, sweep, begun, low>>
-----------------------------------------------------------------------------
(* _get_cached and _get_paginated *)

\* GitHub's answer to a request for a page with an ETag.  A 304 costs nothing;
\* an exhausted budget is a 403 without Retry-After.
Reply(t, etag) ==
  LET left == remaining[InstOf(t)]
      body == Page(t[2], task[t].page)
      more == HasNext(t[2], task[t].page)
  IN  CASE now >= task[t].token -> Answer("401", None, left, FALSE)
        [] now < task[t].token /\ etag = body -> Answer("304", None, left, more)
        [] now < task[t].token /\ etag # body /\ left = 0 -> Answer("403", None, 0, FALSE)
        [] OTHER -> Answer("200", body, left - 1, more)

\* The cache is asked once per page; a retry sends the same headers again.
Want(t) ==
  IF task[t].again THEN task[t].want
  ELSE IF Key(t) \in Keys(cache[InstOf(t)]) THEN EntryOf(cache[InstOf(t)], Key(t)).body
  ELSE None

Ask(t) ==
  /\ task[t].pc = "ready"
  /\ cache' = [cache EXCEPT ![InstOf(t)] = IF task[t].again THEN @ ELSE Touched(@, Key(t))]
  /\ begun' = IF task[t].page = 1 /\ ~task[t].again
              THEN [begun EXCEPT ![t] = ToSet(listing[t[2]])] ELSE begun

Send(t) ==
  LET i == InstOf(t) a == Reply(t, Want(t)) IN
  /\ Ask(t)
  /\ Becomes(t, [task[t] EXCEPT !.pc = "waiting", !.want = Want(t), !.inbox = a])
  /\ remaining' = [remaining EXCEPT ![i] = a.left]
  /\ low' = IF a.left < Floor THEN low \cup {i} ELSE low
  /\ UNCHANGED <<now, used, listing, minter, bytes, budget, sweep, hit>>

\* GitHub answers 429 with Retry-After: once.
SendLater(t) ==
  /\ Happens("trouble") /\ ~task[t].again
  /\ Ask(t)
  /\ Becomes(t, [task[t] EXCEPT !.again = TRUE, !.want = Want(t)])
  /\ budget' = [budget EXCEPT ![InstOf(t)] = remaining[InstOf(t)]]
  /\ low' = IF remaining[InstOf(t)] < Floor THEN low \cup {InstOf(t)} ELSE low
  /\ UNCHANGED <<now, github, minter, bytes, sweep, hit>>

\* Something breaks, or it is the second 429.
SendFails(t) ==
  /\ Happens("trouble")
  /\ Ask(t)
  /\ Ends(t, "failed") /\ hit' = hit \cup {t}
  /\ UNCHANGED <<now, github, minter, bytes, budget, sweep, low>>

\* The gate is noted only behind a listing that came through.
Note(t) ==
  gate' = [gate EXCEPT ![SweepOf(t)] = @ \/ (budget'[InstOf(t)] # None /\ budget'[InstOf(t)] < Floor)]

\* The page joins the listing; the walk goes on while GitHub names a next page
\* and neither cap is reached.
TakePage(t, body) ==
  LET runs == task[t].runs \o body
      more == task[t].inbox.more
  IN IF more /\ task[t].page < MaxPages /\ Len(runs) < MaxRuns
     THEN /\ Becomes(t, [task[t] EXCEPT !.pc = "ready", !.page = @ + 1, !.again = FALSE,
                                        !.want = None, !.inbox = None, !.runs = runs])
          /\ UNCHANGED gate
     ELSE /\ Becomes(t, [Idle EXCEPT !.pc = "done", !.cut = more \/ Len(runs) > MaxRuns,
                           !.runs = IF Len(runs) > MaxRuns THEN SubSeq(runs, 1, MaxRuns)
                                    ELSE runs])
          /\ Note(t)

Body304_FromCache(t) ==
  IF Key(t) \in Keys(cache[InstOf(t)]) THEN EntryOf(cache[InstOf(t)], Key(t)).body ELSE <<>>

\* The body that was cached with the ETag that was sent.
Body304(t) == task[t].want

Receive(t) ==
  LET i == InstOf(t)
      a == task[t].inbox
      put == Stored(cache[i], bytes[i], Key(t), a.body)
  IN
  /\ task[t].pc = "waiting"
  /\ budget' = [budget EXCEPT ![i] = a.left]
  /\ \/ /\ a.status = "304" /\ TakePage(t, Body304(t))
        /\ UNCHANGED <<cache, bytes, hit>>
     \/ /\ a.status = "200" /\ TakePage(t, a.body)
        /\ cache' = [cache EXCEPT ![i] = put.queue] /\ bytes' = [bytes EXCEPT ![i] = put.total]
        /\ UNCHANGED hit
     \/ /\ a.status = "403" /\ Ends(t, "failed") /\ hit' = hit \cup {t}
        /\ UNCHANGED <<cache, bytes, gate>>
     \/ /\ a.status = "401" /\ Ends(t, "failed")
        /\ hit' = IF now - task[t].handed > Skew THEN hit \cup {t} ELSE hit
        /\ UNCHANGED <<cache, bytes, gate>>
  /\ UNCHANGED <<now, used, github, minter, jwt, tokens, begun, low>>

TaskStep(t) ==
  Begin(t) \/ Lock(t) \/ Mint(t) \/ MintFails(t) \/ Send(t) \/ Receive(t)

Next ==
  \/ \E t \in Tasks : TaskStep(t) \/ SendLater(t) \/ SendFails(t)
  \/ \E s \in Sweeps : StartSweep(s)
  \/ \E r \in Repos : NewRun(r)
  \/ Tick

Spec == Init /\ [][Next]_vars
-----------------------------------------------------------------------------
(* Properties *)

\* At most one token is minted at a time for an installation, in all sweeps of
\* a process; a sweep never mints one while it has one that is good; and the
\* lock is never left with a task that is over, which would stop every later
\* sweep of the installation (client_for_installation, _lock_for).
TokenDiscipline ==
  /\ \A t \in Tasks : task[t].pc = "minting" =>
        minter[InstOf(t)] = t /\ ~Usable(SweepOf(t), InstOf(t))
  /\ \A i \in Insts : minter[i] # None =>
        task[minter[i]].pc = "minting" /\ InstOf(minter[i]) = i

\* After any interleaving of reads, replacements and evictions the byte count
\* is the sum over the entries, no key is there twice, and both caps hold
\* (InstallationCache).
CacheBounded ==
  \A i \in Insts :
    /\ bytes[i] = BodiesSize(cache[i]) /\ bytes[i] <= MaxBytes
    /\ Len(cache[i]) <= CacheCap /\ Cardinality(Keys(cache[i])) = Len(cache[i])

\* A listing that came through has no holes: it has every run that existed when
\* the walk began, down to where a cap ended it, whatever was cached, evicted or
\* replaced meanwhile and however many runs pushed the pages on ("the cap keeps
\* the most recent", list_workflow_runs).
Complete ==
  \A t \in Tasks : task[t].pc = "done" =>
    \A x \in begun[t] :
      x \in ToSet(task[t].runs)
      \/ (task[t].cut /\ \A y \in ToSet(task[t].runs) : x < y)

\* "One repo raising must never abort the whole fleet sweep" (bounded_gather): a
\* task fails only when GitHub failed or refused that task itself, never on a
\* token that lapsed within the margin after it was handed out, and is skipped
\* only when the budget was reported low.
FailuresStayLocal ==
  \A t \in Tasks : /\ task[t].pc = "failed" => t \in hit
                   /\ task[t].pc = "skipped" => low # {}

=============================================================================
