---------------------------- MODULE ControlPlane ----------------------------
(***************************************************************************)
(* The requests of the API (api/app.py, api/auth.py), the write-audit      *)
(* trail they leave (record_write_audit), the fleet's watch flags, the     *)
(* named tokens, and the cached fleet graph.                               *)
(*                                                                         *)
(* A request resolves its caller, then works in one session.  The session  *)
(* takes a pooled connection at its first query and keeps it until it      *)
(* commits or ends, also while the request waits for GitHub or for the     *)
(* cache's lock.  What a transaction wrote, the trail's row included, is   *)
(* seen by the others when it commits.                                     *)
(***************************************************************************)
EXTENDS Integers, Sequences, FiniteSets, FiniteSetsExt

CONSTANTS
  Requests,      \* requests in progress at one time
  Repos,
  OfflineRepos,  \* Settings.offline_repos
  Tokens,        \* secrets of named tokens
  Settings,      \* sets of environment tokens the process may be started with
  PoolSize,      \* connections of the pool
  TTL,           \* pipelines_cache_ttl_seconds
  BuildTime,     \* the longest a graph takes to build
  MaxTime,       \* bound on the clock
  Total,         \* bound on requests
  MaxFaults,     \* bound on crashes and lost connections
  None, Gone

Roles == {"viewer", "operator", "admin"}
Rank == [viewer |-> 0, operator |-> 1, admin |-> 2]

EnvTokens == {"operate", "read"}

\* What a caller presents: an environment token, a named one, or nothing.
Credentials == EnvTokens \cup Tokens \cup {None}

Actions == {"repo.add", "repo.remove", "token.create", "token.revoke", "run.rerun",
            "sarif.upload", "governance.require_check", "campaign.verify", "campaign.export",
            "offline.sync", "graph"}

Needed(action) ==
  CASE action = "graph" -> "viewer"
    [] action \in {"token.create", "token.revoke"} -> "admin"
    [] OTHER -> "operator"

\* The rows that a request may have locked.
Rows == ({"repo"} \X Repos) \cup ({"token"} \X Tokens)

ASSUME ControlPlaneAssumption ==
  /\ IsFiniteSet(Requests) /\ OfflineRepos \subseteq Repos
  /\ {PoolSize, TTL, BuildTime, MaxTime, Total, MaxFaults} \subseteq Nat
  /\ PoolSize > 0 /\ Settings \subseteq SUBSET EnvTokens
  /\ None # Gone /\ None \notin BOOLEAN
  /\ {None, Gone} \cap Requests = {} /\ {None, Gone} \cap Roles = {} /\ None \notin Rows
  /\ Tokens \cap (EnvTokens \cup {None, "open"}) = {}

VARIABLES
  clock, faults,
  env,      \* environment tokens the process was started with
  watched,  \* repos.watched, None without a row
  token,    \* api_tokens: a role, None before and Gone after
  trail,    \* write_audit_log in the order of occurred_at; of: the request that
            \* has not committed the row, None if it has, Gone if it never will
  req,
  cache,    \* _pipelines_cache: when it was stored, when its build began
  lock,     \* the request that holds _pipelines_lock
  arrived   \* requests so far

vars == <<clock, faults, env, watched, token, trail, req, cache, lock, arrived>>

\* A request: its step, endpoint, argument and actor, the connections it holds,
\* the row its transaction locked, whether that transaction is lost, the
\* repositories left to sync, when its build began, and the age of the graph it
\* was served.
Free == [pc |-> "idle", action |-> None, arg |-> None, actor |-> None, conns |-> 0, row |-> None, lost |-> FALSE, todo |-> {},
         begun |-> 0, age |-> 0]

Steps == {"resolved", "fetch", "stored", "runs", "reread", "write", "record", "commit",
          "github", "targets", "audit", "sync", "wait", "locked", "build"}

\* The connections that sessions hold.
Taken == Cardinality({s \in Requests \X {1, 2} : s[2] <= req[s[1]].conns})

\* What the trail's rows are about.
Targets == Rows \cup {<<action>> : action \in Actions}

Args == Repos \cup Roles \cup Tokens \cup {None}
Actors == Credentials \cup {"open"}

TypeOK ==
  /\ clock \in 0..MaxTime /\ faults \in 0..MaxFaults /\ arrived \in 0..Total
  /\ env \in Settings
  /\ watched \in [Repos -> BOOLEAN \cup {None}]
  /\ token \in [Tokens -> Roles \cup {None, Gone}]
  /\ trail \in Seq([of : Requests \cup {None, Gone}, actor : Actors, action : Actions,
                    target : Targets, arg : Args])
  /\ req \in [Requests ->
       [pc : Steps \cup {"idle"}, action : Actions \cup {None}, arg : Args,
        actor : Actors, conns : 0..2, row : Rows \cup {None}, lost : BOOLEAN,
        todo : SUBSET Repos, begun : 0..MaxTime, age : 0..MaxTime]]
  /\ Taken <= PoolSize
  /\ lock \in Requests \cup {None}
  /\ cache \in {None} \cup [at : 0..MaxTime, begun : 0..MaxTime]

Init ==
  /\ clock = 0 /\ faults = 0 /\ arrived = 0
  /\ env \in Settings
  /\ watched \in [Repos -> {TRUE, None}]
  /\ token = [t \in Tokens |-> None]
  /\ trail = <<>>
  /\ req = [p \in Requests |-> Free]
  /\ cache = None /\ lock = None

\* Mutant: the pool opens as many connections as it is asked for.
Fits_Unbounded(p, n) == n >= 0

\* The session of p may have n connections from now on; others wait at a full pool.
Fits(p, n) == Taken - req[p].conns + n <= PoolSize

\* p goes to step pc with n connections.
Goes(p, pc, n) == req' = [req EXCEPT ![p].pc = pc, ![p].conns = n]

\* Mutant: the lock is given back by the build only.
Answer_KeepsLock(p, age) == req' = [req EXCEPT ![p] = [Free EXCEPT !.age = age]] /\ lock' = lock

\* p is answered, and its session ends; its row of the trail was not written yet.
Answer(p, age) ==
  /\ req' = [req EXCEPT ![p] = [Free EXCEPT !.age = age]]
  /\ lock' = IF lock = p THEN None ELSE lock
Refuse(p) ==
  Answer(p, 0) /\ UNCHANGED <<clock, faults, env, watched, token, trail, cache, arrived>>

\* The rows of the requests P are committed, or rolled back.
Settled(P, of) ==
  [i \in DOMAIN trail |-> [trail[i] EXCEPT !.of = IF @ \in P THEN of ELSE @]]

\* Steps of p that change nothing but p.
Alone == UNCHANGED <<clock, faults, env, watched, token, trail, cache, lock, arrived>>
-----------------------------------------------------------------------------
(* Who is asking *)

Open == env = {} /\ \A t \in Tokens : token[t] \notin Roles

NoIdentity == [actor |-> None, role |-> None]

\* resolve_identity: environment tokens, named tokens, open mode.
Identity(cred) ==
  CASE cred \in env -> [actor |-> cred, role |-> IF cred = "operate" THEN "admin" ELSE "viewer"]
    [] cred \in Tokens /\ token[cred] \in Roles -> [actor |-> cred, role |-> token[cred]]
    [] cred \notin env /\ (cred \in Tokens => token[cred] \notin Roles) /\ Open ->
         [actor |-> "open", role |-> "viewer"]
    [] OTHER -> NoIdentity

\* Environment tokens are compared without a query.
Queries(cred) == cred \notin env /\ (cred # None \/ env = {})

\* Mutant: writes ask for an identity, not for a role.
Allowed_AnyIdentity(identity, action) == identity # NoIdentity

\* require_role.
Allowed(identity, action) ==
  identity # NoIdentity /\ Rank[identity.role] >= Rank[Needed(action)]

Arguments(action) ==
  CASE action \in {"repo.add", "repo.remove"} -> Repos
    [] action = "token.create" -> Roles
    [] action = "token.revoke" -> Tokens
    [] OTHER -> {None}

\* Bound: secrets no request has drawn or is about to draw.
Unminted == {t \in Tokens : token[t] = None /\ \A p \in Requests :
                                                   req[p].action # "token.create"}

\* A request comes in on one of the interchangeable free places and resolves its
\* caller, with a connection if that takes a query.  A request that is refused
\* here, or gets no connection, changes nothing and is left out.
Arrive(p, action, arg, cred) ==
  LET conns == IF Queries(cred) THEN 1 ELSE 0 IN
  /\ arrived < Total /\ Allowed(Identity(cred), action)
  /\ p = CHOOSE q \in Requests : req[q].pc = "idle"
  /\ Fits(p, conns)
  /\ action = "token.create" => Unminted # {}
  /\ arrived' = arrived + 1
  /\ req' = [req EXCEPT ![p] = [Free EXCEPT !.pc = "resolved", !.action = action, !.arg = arg,
                                            !.actor = Identity(cred).actor, !.conns = conns]]
  /\ UNCHANGED <<clock, faults, env, watched, token, trail, cache, lock>>

\* p begins its endpoint with its first query.
Begins(p, actions) == req[p].pc = "resolved" /\ req[p].action \in actions /\ Fits(p, 1)
-----------------------------------------------------------------------------
(* The fleet *)

\* Mutant: the upsert sets every column.
Upserted_Watch(r) == [watched EXCEPT ![r] = TRUE]

\* upsert_repo: a new row is watched, an existing one keeps its flag.
Upserted(r) == [watched EXCEPT ![r] = IF @ = None THEN TRUE ELSE @]

\* A webhook, a sweep or the initial sync stores a repository.
Discovered(r) ==
  /\ watched' = Upserted(r)
  /\ UNCHANGED <<clock, faults, env, token, trail, req, cache, lock, arrived>>

\* add_repo_endpoint: a known repository is watched again; for a new one the
\* installation row is committed and the repository is fetched.
AddRepo(p) ==
  /\ Begins(p, {"repo.add"})
  /\ \/ watched[req[p].arg] # None /\ Goes(p, "write", 1)
     \/ watched[req[p].arg] = None /\ Goes(p, "fetch", 0)
  /\ Alone

\* sync_repo, for a new repository or for one of the offline ones: it commits the
\* repository, which is read again, and the transaction of that read stays open
\* while GitHub lists the runs.  The runs are committed, the audit follows.
StoreRepo(p, r) ==
  /\ \/ req[p].pc = "fetch" /\ r = req[p].arg
     \/ req[p].pc = "sync" /\ r \in req[p].todo
  /\ ~req[p].lost /\ Fits(p, 1)
  /\ watched' = Upserted(r)
  /\ req' = [req EXCEPT ![p].pc = "stored", ![p].conns = 0, ![p].todo = @ \ {r}]
  /\ UNCHANGED <<clock, faults, env, token, trail, cache, lock, arrived>>

ListRuns(p) == req[p].pc = "stored" /\ Fits(p, 1) /\ Goes(p, "runs", 1) /\ Alone

RepoSynced(p) ==
  /\ req[p].pc = "runs" /\ ~req[p].lost
  /\ Goes(p, IF req[p].action = "repo.add" THEN "reread" ELSE "sync", 0) /\ Alone

FetchFails(p) ==
  req[p].action = "repo.add" /\ req[p].pc \in {"fetch", "runs", "reread"} /\ Refuse(p)

Reread(p) == req[p].pc = "reread" /\ Fits(p, 1) /\ Goes(p, "write", 1) /\ Alone

RemoveRepo(p) ==
  /\ Begins(p, {"repo.remove"})
  /\ \/ watched[req[p].arg] # None /\ Goes(p, "write", 1) /\ Alone
     \/ watched[req[p].arg] = None /\ Refuse(p)

\* sync_offline: one session for all repositories.
OfflineSync(p) ==
  /\ Begins(p, {"offline.sync"})
  /\ \/ OfflineRepos = {} /\ Refuse(p)
     \/ /\ OfflineRepos # {}
        /\ req' = [req EXCEPT ![p].pc = "sync", ![p].conns = 0, ![p].todo = OfflineRepos]
        /\ Alone

\* What one repository raises is noted and the next one follows, without a
\* rollback: an open transaction stays open, and a lost one fails all that follow.
RepoFails(p) ==
  /\ \/ req[p].pc = "sync" /\ \E r \in req[p].todo : req' = [req EXCEPT ![p].todo = @ \ {r}]
     \/ req[p].pc = "runs" /\ req[p].action = "offline.sync" /\ Goes(p, "sync", 1)
  /\ Alone

Synced(p) ==
  /\ req[p].pc = "sync" /\ req[p].todo = {} /\ Fits(p, 1)
  /\ Goes(p, "record", 1) /\ Alone
-----------------------------------------------------------------------------
(* Named tokens *)

Locked(row) == \E q \in Requests : req[q].row = row

\* create_token_endpoint draws a new secret, one of the interchangeable free ones.
CreateToken(p) ==
  LET free == {t \in Tokens : token[t] = None /\ ~Locked(<<"token", t>>)} IN
  /\ Begins(p, {"token.create"}) /\ free # {}
  /\ req' = [req EXCEPT ![p].pc = "record", ![p].conns = 1,
                        ![p].row = <<"token", CHOOSE t \in free : TRUE>>]
  /\ Alone

RevokeToken(p) == Begins(p, {"token.revoke"}) /\ Goes(p, "write", 1) /\ Alone
-----------------------------------------------------------------------------
(* Writes to GitHub, and reads that are recorded *)

\* The row a write needs is looked up, and GitHub called while the session's
\* transaction stays open.
CallsGitHub(p) == Goes(p, "github", 1) /\ Alone

Rerun(p) == Begins(p, {"run.rerun"}) /\ CallsGitHub(p)

\* Refused unless security_events_enabled and bulk_edits_enabled.
UploadSarif(p) == Begins(p, {"sarif.upload"}) /\ (CallsGitHub(p) \/ Refuse(p))
RequireCheck(p) == Begins(p, {"governance.require_check"}) /\ (CallsGitHub(p) \/ Refuse(p))

GitHubDone(p) == req[p].pc = "github" /\ Goes(p, "record", 1) /\ Alone

\* A rejection ends the request, but the fleet action notes it and goes on.
GitHubRejects(p) ==
  req[p].pc = "github" /\ req[p].action # "governance.require_check" /\ Refuse(p)

\* verify_campaign_endpoint audits each target in a session of its own, while
\* the request's session keeps its connection.
VerifyCampaign(p) == Begins(p, {"campaign.verify"}) /\ Goes(p, "targets", 1) /\ Alone

AuditTarget(p) == req[p].pc = "targets" /\ Fits(p, 2) /\ Goes(p, "audit", 2) /\ Alone

TargetDone(p) == req[p].pc = "audit" /\ Goes(p, "record", 1) /\ Alone

ExportEvidence(p) == Begins(p, {"campaign.export"}) /\ Goes(p, "record", 1) /\ Alone
-----------------------------------------------------------------------------
(* The row of the trail, and the commit *)

RowOf(p) == <<IF req[p].action = "token.revoke" THEN "token" ELSE "repo", req[p].arg>>

\* set_repo_watched and delete_api_token wait for the row; a token may be gone.
WriteRow(p) ==
  /\ req[p].pc = "write" /\ ~Locked(RowOf(p))
  /\ IF req[p].action = "token.revoke" /\ token[req[p].arg] \notin Roles
     THEN Refuse(p)
     ELSE req' = [req EXCEPT ![p].pc = "record", ![p].row = RowOf(p)] /\ Alone

TargetOf(p) == IF req[p].row # None THEN req[p].row ELSE <<req[p].action>>

\* record_write_audit; it raises in a transaction the database gave up.
Record(p) ==
  /\ req[p].pc = "record"
  /\ \/ req[p].lost /\ Refuse(p)
     \/ /\ ~req[p].lost
        /\ trail' = Append(trail, [of |-> p, actor |-> req[p].actor,
                                   action |-> req[p].action, target |-> TargetOf(p),
                                   arg |-> req[p].arg])
        /\ Goes(p, "commit", 1)
        /\ UNCHANGED <<clock, faults, env, watched, token, cache, lock, arrived>>

Commit(p) ==
  LET row == req[p].row IN
  /\ req[p].pc = "commit"
  /\ trail' = Settled({p}, None)
  /\ watched' = IF req[p].action \in {"repo.add", "repo.remove"}
                THEN [watched EXCEPT ![row[2]] = req[p].action = "repo.add"] ELSE watched
  /\ token' = CASE req[p].action = "token.create" -> [token EXCEPT ![row[2]] = req[p].arg]
                [] req[p].action = "token.revoke" -> [token EXCEPT ![row[2]] = Gone]
                [] OTHER -> token
  /\ req' = [req EXCEPT ![p] = Free]
  /\ UNCHANGED <<clock, faults, env, cache, lock, arrived>>
-----------------------------------------------------------------------------
(* The cached graph *)

\* Mutant: the entry lives a moment too long.
Fresh_Late == cache # None /\ clock - cache.at <= TTL

Fresh == cache # None /\ clock - cache.at < TTL

Serve(p) == /\ Answer(p, clock - cache.begun)
            /\ UNCHANGED <<clock, faults, env, watched, token, trail, cache, arrived>>

\* get_pipelines: the cache, else the lock, in which the cache is looked at again.
GetGraph(p) ==
  /\ req[p].pc = "resolved" /\ req[p].action = "graph"
  /\ \/ Fresh /\ Serve(p)
     \/ ~Fresh /\ Goes(p, "wait", req[p].conns) /\ Alone

Acquire(p) ==
  /\ req[p].pc = "wait" /\ lock = None
  /\ \/ Fresh /\ Serve(p)
     \/ /\ ~Fresh
        /\ lock' = p
        /\ Goes(p, "locked", req[p].conns)
        /\ UNCHANGED <<clock, faults, env, watched, token, trail, cache, arrived>>

BuildStart(p) ==
  /\ req[p].pc = "locked" /\ Fits(p, 1)
  /\ req' = [req EXCEPT ![p].pc = "build", ![p].conns = 1, ![p].begun = clock]
  /\ Alone

BuildEnd(p) ==
  /\ req[p].pc = "build"
  /\ cache' = [at |-> clock, begun |-> req[p].begun]
  /\ Answer(p, clock - req[p].begun)
  /\ UNCHANGED <<clock, faults, env, watched, token, trail, arrived>>
-----------------------------------------------------------------------------
(* Faults and time *)

\* The step of p waits for a connection it does not have.
NeedsOneMore(p) ==
  \/ /\ req[p].pc \in {"resolved", "fetch", "stored", "reread", "sync", "locked"}
     /\ req[p].conns = 0 /\ (req[p].pc = "resolved" => req[p].action # "graph")
     /\ (req[p].pc = "sync" => req[p].todo = {})
  \/ req[p].pc = "targets"

\* Mutant: the pool waits for as long as it takes.
PoolTimeout_Never(p) == FALSE /\ req' = req

\* p notes the failure and goes on: a campaign's target, an offline repository.
GoesOnWithout(p) ==
  \/ req[p].pc = "targets"
  \/ req[p].pc = "stored" /\ req[p].action = "offline.sync"

\* The pool gives up after 30 seconds: any other request ends in an error.
PoolTimeout(p) ==
  /\ NeedsOneMore(p) /\ ~Fits(p, req[p].conns + 1)
  /\ \/ /\ GoesOnWithout(p) /\ Alone
        /\ Goes(p, IF req[p].pc = "targets" THEN "record" ELSE "sync", req[p].conns)
     \/ ~GoesOnWithout(p) /\ Refuse(p)

\* idle_in_transaction_session_timeout strikes while p waits for GitHub.
TransactionLost(p) ==
  /\ req[p].pc \in {"github", "targets", "audit", "runs", "sync"} /\ req[p].conns > 0
  /\ ~req[p].lost /\ faults < MaxFaults
  /\ faults' = faults + 1
  /\ req' = [req EXCEPT ![p].lost = TRUE]
  /\ UNCHANGED <<clock, env, watched, token, trail, cache, lock, arrived>>

\* The process dies and is started again, maybe with other settings.
Restart ==
  /\ faults < MaxFaults /\ faults' = faults + 1
  /\ env' \in Settings
  /\ req' = [p \in Requests |-> Free]
  /\ trail' = Settled(Requests, Gone)
  /\ cache' = None /\ lock' = None
  /\ UNCHANGED <<clock, watched, token, arrived>>

\* Only the cache and a build are timed.
Tick ==
  /\ cache # None \/ \E p \in Requests : req[p].pc = "build"
  /\ clock < MaxTime /\ clock' = clock + 1
  /\ \A p \in Requests : req[p].pc = "build" => clock - req[p].begun < BuildTime
  /\ UNCHANGED <<faults, env, watched, token, trail, req, cache, lock, arrived>>
-----------------------------------------------------------------------------
Endpoint(p) ==
  \/ AddRepo(p) \/ FetchFails(p) \/ Reread(p) \/ RemoveRepo(p)
  \/ (\E r \in Repos : StoreRepo(p, r)) \/ ListRuns(p) \/ RepoSynced(p)
  \/ OfflineSync(p) \/ RepoFails(p) \/ Synced(p)
  \/ CreateToken(p) \/ RevokeToken(p)
  \/ Rerun(p) \/ UploadSarif(p) \/ RequireCheck(p) \/ GitHubDone(p) \/ GitHubRejects(p)
  \/ VerifyCampaign(p) \/ AuditTarget(p) \/ TargetDone(p) \/ ExportEvidence(p)
  \/ WriteRow(p) \/ Record(p) \/ Commit(p)
  \/ GetGraph(p) \/ Acquire(p) \/ BuildStart(p) \/ BuildEnd(p)

Step(p) == Endpoint(p) \/ PoolTimeout(p)

Next ==
  \/ \E p \in Requests :
       \/ \E action \in Actions, cred \in Credentials :
            \E arg \in Arguments(action) :
              req[p].pc = "idle" /\ Arrive(p, action, arg, cred)
       \/ Step(p) \/ TransactionLost(p)
  \/ \E r \in Repos : Discovered(r)
  \/ Restart \/ Tick

Spec == Init /\ [][Next]_vars

\* The event loop runs every request; every call a request makes ends, in an
\* answer or in a timeout.
FairSpec == Spec /\ \A p \in Requests : WF_vars(Step(p))
-----------------------------------------------------------------------------
(* Properties *)

Recorded(actions, target) ==
  {i \in DOMAIN trail : trail[i].of = None /\ trail[i].action \in actions /\ trail[i].target = target}

\* The trail tells the state: the last row about a repository says whether it is
\* watched, the rows about a token say whether it is valid and for which role.
\* Requests overlap, syncs and webhooks store repositories meanwhile, and any of
\* them may die between two statements (app.py 216-285, 819-860; the docstring
\* of set_repo_watched: nothing else resurrects a removed repository).
TrailTellsState ==
  /\ \A r \in Repos :
       LET rows == Recorded({"repo.add", "repo.remove"}, <<"repo", r>>) IN
       rows # {} => watched[r] = (trail[Max(rows)].action = "repo.add")
  /\ \A t \in Tokens :
       LET created == Recorded({"token.create"}, <<"token", t>>)
           revoked == Recorded({"token.revoke"}, <<"token", t>>) IN
       /\ token[t] = None <=> created = {}
       /\ token[t] = Gone <=> revoked # {}
       /\ token[t] \in Roles => \E i \in created : token[t] = trail[i].arg

\* Every recorded action is answered for: its actor is the operate token, or a
\* named token whose creation, with a role that allows the action, the trail
\* shows before it (auth.py 103-172, over any history of restarts, creations and
\* revocations).
ActorsAccountedFor ==
  \A i \in DOMAIN trail : trail[i].of = None =>
    \/ trail[i].actor = "operate"
    \/ \E j \in 1..(i - 1) :
         /\ j \in Recorded({"token.create"}, <<"token", trail[i].actor>>)
         /\ Rank[trail[j].arg] >= Rank[Needed(trail[i].action)]

\* A served graph was begun no more than one build ago, or less than one build
\* and the TTL, whoever built it and however long the request waited for the lock
\* (app.py 642-660, and the same for the cost report, 422-444).
ServedFresh == \A p \in Requests : req[p].age <= BuildTime \/ req[p].age < TTL + BuildTime

\* Whom p waits for: the request that has locked its row, or the cache.
WaitsFor(p) == {q \in Requests : \/ req[p].pc = "write" /\ req[q].row = RowOf(p)
                                 \/ req[p].pc = "wait" /\ lock = q}

\* Nobody waits for a waiter.  Whoever has been answered, however it ended, left
\* no connection taken, no row and no cache locked; and whoever a request waits for
\* waits for nobody itself: it has its connection, gets it, or gives up at the
\* pool's timeout (base.py 40-65, app.py 650-660, repository.py 376-379 and 930-933).
WaitsEnd ==
  \A p \in Requests :
    /\ req[p].pc = "idle" => req[p].conns = 0 /\ req[p].row = None /\ lock # p
    /\ \A q \in WaitsFor(p) : WaitsFor(q) = {} /\ (Fits(q, 1) \/ NeedsOneMore(q))

\* Every request is answered.  Requests wait for row locks, for the lock of the
\* cache and for connections, and hold connections while they wait: a request
\* that verifies a campaign needs a second one, and the builder of the graph may
\* need the one that a request waiting for its lock holds.
EveryRequestAnswered == \A p \in Requests : []<>(req[p].pc = "idle")
=============================================================================
