------------------------- MODULE ControlPlaneProofs -------------------------
(***************************************************************************)
(* Theorems about ControlPlane: its types with the size of the pool, the   *)
(* age of a served graph, the trail that tells the fleet and the tokens,   *)
(* and the actor that every recorded action is answered for by.            *)
(*                                                                         *)
(* The trail holds rows that are committed, rows that never will be, and   *)
(* rows whose request has yet to commit.  The argument is about the last:  *)
(* such a row belongs to a request that is about to commit and holds the   *)
(* lock of the row it changes, so it is the last of the trail about that   *)
(* row, and nobody else can change the row under it.                       *)
(***************************************************************************)
EXTENDS ControlPlane, TLAPS, FiniteSetTheorems

RepoActions == {"repo.add", "repo.remove"}
TokenActions == {"token.create", "token.revoke"}
GitHubActions == {"run.rerun", "sarif.upload", "governance.require_check"}

\* The actions whose requests pass through a step.
Through(pc) ==
  CASE pc \in {"fetch", "reread"} -> {"repo.add"}
    [] pc \in {"stored", "runs"} -> {"repo.add", "offline.sync"}
    [] pc = "write" -> RepoActions \cup {"token.revoke"}
    [] pc = "github" -> GitHubActions
    [] pc \in {"targets", "audit"} -> {"campaign.verify"}
    [] pc = "sync" -> {"offline.sync"}
    [] pc \in {"wait", "locked", "build"} -> {"graph"}
    [] pc \in {"record", "commit"} -> Actions \ {"graph"}
    [] OTHER -> Actions

\* A request is on the path of its endpoint, with an argument of that endpoint,
\* and where it works in a transaction it has one connection.
OnPath(p) ==
  /\ req[p].pc # "idle" => /\ req[p].action \in Through(req[p].pc)
                           /\ req[p].arg \in Arguments(req[p].action)
  /\ req[p].pc \in {"write", "record", "commit", "github", "targets", "runs"} => req[p].conns = 1
  /\ req[p].pc = "audit" => req[p].conns = 2

\* The row a request has locked is the one it is about to change.
Holds(p) ==
  /\ req[p].pc \notin {"record", "commit"} => req[p].row = None
  /\ req[p].pc \in {"record", "commit"} =>
       /\ req[p].action \in RepoActions => req[p].row = <<"repo", req[p].arg>>
       /\ req[p].action = "token.revoke" =>
            req[p].row = <<"token", req[p].arg>> /\ token[req[p].arg] \in Roles
       /\ req[p].action = "token.create" =>
            \E t \in Tokens : req[p].row = <<"token", t>> /\ token[t] = None
       /\ req[p].action \notin RepoActions \cup TokenActions => req[p].row = None

Paths == \A p \in Requests : OnPath(p) /\ Holds(p)

\* No row is locked twice.
Exclusive ==
  \A p, q \in Requests : p # q /\ req[p].row # None => req[p].row # req[q].row

\* A row that waits for its commit says what its request does, a request that is
\* about to commit has such a row, and it comes after the committed rows about
\* the same repository.
Waiting ==
  \A i \in DOMAIN trail : trail[i].of \in Requests =>
    LET p == trail[i].of IN
    /\ req[p].pc = "commit" /\ trail[i].action = req[p].action
    /\ trail[i].target = TargetOf(p) /\ trail[i].arg = req[p].arg
Announced ==
  \A p \in Requests : req[p].pc = "commit" => \E i \in DOMAIN trail : trail[i].of = p
Ordered ==
  \A i, j \in DOMAIN trail :
    /\ trail[i].of \in Requests /\ trail[j].of = None
    /\ trail[i].action \in RepoActions /\ trail[j].action \in RepoActions
    /\ trail[i].target = trail[j].target
    => j < i

\* A trail shows before n that the actor may do the action.
Entitled(shown, actor, action, n) ==
  \/ actor = "operate"
  \/ \E j \in DOMAIN shown :
       /\ j < n /\ shown[j].of = None /\ shown[j].action = "token.create"
       /\ shown[j].target = <<"token", actor>>
       /\ Rank[shown[j].arg] >= Rank[Needed(action)]

\* Every request that writes, and every row, committed or not, is answered for.
Answered ==
  /\ \A p \in Requests : req[p].pc # "idle" /\ req[p].action # "graph" =>
       Entitled(trail, req[p].actor, req[p].action, Len(trail) + 1)
  /\ \A i \in DOMAIN trail : Entitled(trail, trail[i].actor, trail[i].action, i)

\* What is being built, and what is cached, is one build old at the most.
Timed ==
  /\ \A p \in Requests : req[p].pc = "build" =>
       req[p].begun <= clock /\ clock - req[p].begun <= BuildTime
  /\ cache # None =>
       cache.begun <= cache.at /\ cache.at <= clock /\ cache.at - cache.begun <= BuildTime

\* The trail that tells the state, by the greatest index and not with Max.
Told ==
  /\ \A r \in Repos : \A i \in Recorded(RepoActions, <<"repo", r>>) :
       (\A j \in Recorded(RepoActions, <<"repo", r>>) : j <= i) =>
         watched[r] = (trail[i].action = "repo.add")
  /\ \A t \in Tokens :
       /\ token[t] = None <=> Recorded({"token.create"}, <<"token", t>>) = {}
       /\ token[t] = Gone <=> Recorded({"token.revoke"}, <<"token", t>>) # {}
       /\ token[t] \in Roles =>
            \E i \in Recorded({"token.create"}, <<"token", t>>) : token[t] = trail[i].arg

IInv ==
  /\ TypeOK /\ Paths /\ Exclusive /\ Waiting /\ Announced /\ Ordered
  /\ Answered /\ Timed /\ ServedFresh /\ Told
-----------------------------------------------------------------------------
(* The pool *)

Request == [pc : Steps \cup {"idle"}, action : Actions \cup {None}, arg : Args,
            actor : Actors, conns : 0..2, row : Rows \cup {None}, lost : BOOLEAN,
            todo : SUBSET Repos, begun : 0..MaxTime, age : 0..MaxTime]

\* The slots of the pool, when request q has c[q] connections.
Slots(c) == {s \in Requests \X {1, 2} : s[2] <= c[s[1]]}

\* Slots are finitely many.
LEMMA SlotsFinite ==
  ASSUME NEW c PROVE IsFiniteSet(Slots(c))
<1>1. IsFiniteSet({1, 2})
  <2>1. IsFiniteSet({}) /\ IsFiniteSet({1}) BY FS_EmptySet, FS_AddElement
  <2> QED BY <2>1, FS_AddElement
<1>2. IsFiniteSet(Requests \X {1, 2}) BY <1>1, FS_Product, ControlPlaneAssumption
<1>3. Slots(c) \subseteq Requests \X {1, 2} BY DEF Slots
<1> QED BY <1>2, <1>3, FS_Subset

\* A request's own slots are as many as its connections.
LEMMA OwnSlots ==
  ASSUME NEW p, NEW k \in 0..2
  PROVE  /\ IsFiniteSet({<<p, n>> : n \in 1..k})
         /\ Cardinality({<<p, n>> : n \in 1..k}) = k
<1> DEFINE Own == {<<p, n>> : n \in 1..k}
           f == [n \in 1..k |-> <<p, n>>]
<1>1. IsFiniteSet(1..k) /\ Cardinality(1..k) = k
  <2>1. /\ IsFiniteSet(1..k)
        /\ Cardinality(1..k) = IF 1 > k THEN 0 ELSE k - 1 + 1
    BY 1 \in Int, k \in Int, FS_Interval
  <2> QED BY <2>1
<1>2. f \in Bijection(1..k, Own)
  <2>1. f \in [1..k -> Own] OBVIOUS
  <2>2. \A m, n \in 1..k : f[m] = f[n] => m = n OBVIOUS
  <2>3. \A s \in Own : \E n \in 1..k : f[n] = s OBVIOUS
  <2> QED BY <2>1, <2>2, <2>3 DEF Bijection, Injection, Surjection, IsInjective
<1>3. ExistsBijection(1..k, Own) BY <1>2 DEF ExistsBijection
<1> HIDE DEF Own
<1>4. IsFiniteSet(Own) /\ Cardinality(Own) = Cardinality(1..k) BY <1>1, <1>3, FS_Bijection
<1> QED BY <1>1, <1>4 DEF Own

\* When one request's connections change, the others' stay.
LEMMA SlotsChange ==
  ASSUME NEW c \in [Requests -> 0..2], NEW d \in [Requests -> 0..2], NEW p \in Requests,
         \A q \in Requests \ {p} : d[q] = c[q]
  PROVE  Cardinality(Slots(d)) = Cardinality(Slots(c)) - c[p] + d[p]
<1> DEFINE Others == {s \in Requests \X {1, 2} : s[1] # p /\ s[2] <= c[s[1]]}
           Own(k) == {<<p, n>> : n \in 1..k}
<1>1. /\ Slots(c) = Others \cup Own(c[p])
      /\ Slots(d) = Others \cup Own(d[p])
  <2>1. Slots(c) = Others \cup Own(c[p]) BY DEF Slots
  <2>2. Slots(d) = Others \cup Own(d[p]) BY DEF Slots
  <2> QED BY <2>1, <2>2
<1>2. IsFiniteSet(Others)
  <2>1. Others \subseteq Slots(c) BY DEF Slots
  <2> QED BY <2>1, SlotsFinite, FS_Subset
<1>3. Others \cap Own(c[p]) = {} /\ Others \cap Own(d[p]) = {} OBVIOUS
<1>4. c[p] \in 0..2 /\ d[p] \in 0..2 OBVIOUS
<1>5. /\ IsFiniteSet(Own(c[p])) /\ Cardinality(Own(c[p])) = c[p]
      /\ IsFiniteSet(Own(d[p])) /\ Cardinality(Own(d[p])) = d[p]
  BY <1>4, OwnSlots
<1>6. Cardinality(Others) \in Nat BY <1>2, FS_CardinalityType
<1> HIDE DEF Others, Own
<1>7. Cardinality({}) = 0 BY FS_EmptySet
<1>8. /\ Cardinality(Slots(c)) = Cardinality(Others) + c[p]
      /\ Cardinality(Slots(d)) = Cardinality(Others) + d[p]
  <2>1. Cardinality(Slots(c)) = Cardinality(Others) + c[p] - 0
    BY <1>1, <1>2, <1>3, <1>5, <1>7, FS_Union
  <2>2. Cardinality(Slots(d)) = Cardinality(Others) + d[p] - 0
    BY <1>1, <1>2, <1>3, <1>5, <1>7, FS_Union
  <2> QED BY <2>1, <2>2, <1>4, <1>6
<1> QED BY <1>4, <1>6, <1>8

\* The pool is not exceeded by a request that gives connections back, or that
\* finds room for those it takes.
LEMMA PoolKept ==
  ASSUME req \in [Requests -> Request], req' \in [Requests -> Request], NEW p \in Requests,
         \A q \in Requests \ {p} : req'[q] = req[q], Taken <= PoolSize,
         req'[p].conns <= req[p].conns \/ Fits(p, req'[p].conns)
  PROVE  Taken' <= PoolSize
<1> DEFINE c == [q \in Requests |-> req[q].conns]
           d == [q \in Requests |-> req'[q].conns]
<1>1. c \in [Requests -> 0..2] /\ d \in [Requests -> 0..2] BY DEF Request
<1>2. \A q \in Requests \ {p} : d[q] = c[q] OBVIOUS
<1>3. Cardinality(Slots(d)) = Cardinality(Slots(c)) - c[p] + d[p]
  BY <1>1, <1>2, SlotsChange
<1>4. Taken = Cardinality(Slots(c)) /\ Taken' = Cardinality(Slots(d))
  <2>1. Slots(c) = {s \in Requests \X {1, 2} : s[2] <= req[s[1]].conns} BY DEF Slots
  <2>2. Slots(d) = {s \in Requests \X {1, 2} : s[2] <= req'[s[1]].conns} BY DEF Slots
  <2> QED BY <2>1, <2>2 DEF Taken
<1>5. Cardinality(Slots(c)) \in Nat /\ Cardinality(Slots(d)) \in Nat
  BY SlotsFinite, FS_CardinalityType
<1>6. c[p] \in 0..2 /\ d[p] \in 0..2 /\ c[p] = req[p].conns /\ d[p] = req'[p].conns
  BY <1>1
<1> HIDE DEF c, d
<1> QED BY <1>3, <1>4, <1>5, <1>6, ControlPlaneAssumption DEF Fits
-----------------------------------------------------------------------------
(* What a request's step may do *)

\* What a step of a request does to the rest.
Beside ==
  /\ lock' \in Requests \cup {None}
  /\ \/ cache' = cache
     \/ \E b \in 0..MaxTime : /\ b <= clock /\ clock - b <= BuildTime
                              /\ cache' = [at |-> clock, begun |-> b]
  /\ watched' = watched \/ \E r \in Repos : watched' = Upserted(r)
  /\ faults' \in 0..MaxFaults /\ arrived' \in 0..Total
  /\ UNCHANGED <<clock, env, token, trail>>

\* A step of a request that leaves the trail and the tokens alone.
Works(p) ==
  /\ req' \in [Requests -> Request]
  /\ \A q \in Requests \ {p} : req'[q] = req[q]
  /\ req[p].pc # "commit" /\ req'[p].pc # "commit"
  /\ req'[p].pc # "idle" /\ req'[p].action # "graph" =>
       Entitled(trail, req'[p].actor, req'[p].action, Len(trail) + 1)
  /\ req'[p].row \in {None, req[p].row} \/ ~Locked(req'[p].row)
  /\ OnPath(p)' /\ Holds(p)'
  /\ req'[p].conns <= req[p].conns \/ Fits(p, req'[p].conns)
  /\ req'[p].pc = "build" => req'[p].begun = clock
  /\ req'[p].age <= BuildTime \/ req'[p].age < TTL + BuildTime
  /\ Beside

\* The types of the state and the size of the pool, with requests named.
LEMMA Typed ==
  TypeOK <=> /\ clock \in 0..MaxTime /\ faults \in 0..MaxFaults /\ arrived \in 0..Total
             /\ env \in Settings
             /\ watched \in [Repos -> BOOLEAN \cup {None}]
             /\ token \in [Tokens -> Roles \cup {None, Gone}]
             /\ trail \in Seq([of : Requests \cup {None, Gone}, actor : Actors,
                               action : Actions, target : Targets, arg : Args])
             /\ req \in [Requests -> Request]
             /\ Taken <= PoolSize
             /\ lock \in Requests \cup {None}
             /\ cache \in {None} \cup [at : 0..MaxTime, begun : 0..MaxTime]
BY DEF TypeOK, Request

\* A free place has none of it.
LEMMA FreeTyped ==
  /\ Free \in Request
  /\ Free.pc = "idle" /\ Free.action = None /\ Free.actor = None /\ Free.conns = 0
  /\ Free.row = None /\ Free.begun = 0 /\ Free.age = 0
BY ControlPlaneAssumption DEF Free, Request, Args, Actors, Credentials

\* A request that moves on, and changes a field besides, is a request.
LEMMA Updated ==
  ASSUME NEW r \in Request, NEW pc \in Steps, NEW n \in 0..2
  PROVE  /\ \A row \in Rows : [r EXCEPT !.pc = pc, !.conns = n, !.row = row] \in Request
         /\ \A todo \in SUBSET Repos :
              [r EXCEPT !.pc = pc, !.conns = n, !.todo = todo] \in Request
         /\ \A begun \in 0..MaxTime :
              [r EXCEPT !.pc = pc, !.conns = n, !.begun = begun] \in Request
<1> DEFINE m == [r EXCEPT !.pc = pc, !.conns = n]
<1>1. m \in Request BY DEF Request
<1>2. \A row : [r EXCEPT !.pc = pc, !.conns = n, !.row = row] = [m EXCEPT !.row = row]
  OBVIOUS
<1>3. \A todo : [r EXCEPT !.pc = pc, !.conns = n, !.todo = todo] = [m EXCEPT !.todo = todo]
  OBVIOUS
<1>4. \A begun : [r EXCEPT !.pc = pc, !.conns = n, !.begun = begun] = [m EXCEPT !.begun = begun]
  OBVIOUS
<1> HIDE DEF m
<1>5. \A row \in Rows : [m EXCEPT !.row = row] \in Request BY <1>1 DEF Request
<1>6. \A todo \in SUBSET Repos : [m EXCEPT !.todo = todo] \in Request BY <1>1 DEF Request
<1>7. \A begun \in 0..MaxTime : [m EXCEPT !.begun = begun] \in Request BY <1>1 DEF Request
<1> QED BY <1>2, <1>3, <1>4, <1>5, <1>6, <1>7

\* Nothing but p changes with Alone.
LEMMA AloneBeside ==
  TypeOK /\ Alone => Beside
BY DEF TypeOK, Alone, Beside

\* A request that goes on stays a request, and the others stay as they are.
LEMMA GoesTyped ==
  ASSUME req \in [Requests -> Request], NEW p \in Requests, NEW pc \in Steps, NEW n \in 0..2,
         Goes(p, pc, n)
  PROVE  /\ req' \in [Requests -> Request]
         /\ \A q \in Requests \ {p} : req'[q] = req[q]
<1>1. [req[p] EXCEPT !.pc = pc, !.conns = n] \in Request BY DEF Request
<1>2. req' = [req EXCEPT ![p] = [req[p] EXCEPT !.pc = pc, !.conns = n]] BY DEF Goes
<1> QED BY <1>1, <1>2

\* A request that goes on is on its path and holds no row until it records.
LEMMA GoesWorks ==
  ASSUME IInv, NEW p \in Requests, NEW pc \in Steps \ {"commit", "build"}, NEW n \in 0..2,
         Goes(p, pc, n), Beside,
         req[p].pc \notin {"idle", "record", "commit"},
         n <= req[p].conns \/ Fits(p, n),
         req[p].action \in Through(pc),
         pc = "record" => req[p].action \notin RepoActions \cup TokenActions,
         pc \in {"write", "record", "github", "targets", "runs"} => n = 1,
         pc = "audit" => n = 2
  PROVE  Works(p)
<1>1. /\ req \in [Requests -> Request] /\ req[p] \in Request
      /\ OnPath(p) /\ Holds(p)
  BY Typed DEF IInv, Paths
<1>2. /\ req' \in [Requests -> Request]
      /\ \A q \in Requests \ {p} : req'[q] = req[q]
  BY <1>1, GoesTyped
<1>3. /\ req'[p].pc = pc /\ req'[p].conns = n
      /\ req'[p].action = req[p].action /\ req'[p].arg = req[p].arg
      /\ req'[p].actor = req[p].actor /\ req'[p].row = req[p].row
      /\ req'[p].age = req[p].age
  BY <1>1 DEF Goes, Request
<1>4. req[p].row = None BY <1>1 DEF Holds
<1>5. OnPath(p)' BY <1>1, <1>3 DEF OnPath
<1>6. Holds(p)' BY <1>3, <1>4 DEF Holds, TokenActions
<1>7. req[p].action # "graph" => Entitled(trail, req[p].actor, req[p].action, Len(trail) + 1)
  BY DEF IInv, Answered
<1>8. req'[p].age <= BuildTime \/ req'[p].age < TTL + BuildTime
  BY <1>3 DEF IInv, ServedFresh
<1> QED BY <1>2, <1>3, <1>4, <1>5, <1>6, <1>7, <1>8 DEF Works

\* A request that is answered leaves its place free.
LEMMA AnswerWorks ==
  ASSUME IInv, NEW p \in Requests, NEW age \in 0..MaxTime, Answer(p, age),
         age <= BuildTime \/ age < TTL + BuildTime,
         req[p].pc # "commit", Beside
  PROVE  Works(p)
<1>1. /\ req \in [Requests -> Request] /\ req[p] \in Request
  BY Typed DEF IInv
<1>2. req' = [req EXCEPT ![p] = [Free EXCEPT !.age = age]] BY DEF Answer
<1>3. [Free EXCEPT !.age = age] \in Request BY FreeTyped DEF Request
<1>4. /\ req' \in [Requests -> Request]
      /\ \A q \in Requests \ {p} : req'[q] = req[q]
      /\ req'[p] = [Free EXCEPT !.age = age]
  BY <1>1, <1>2, <1>3
<1>5. /\ req'[p].pc = "idle" /\ req'[p].conns = 0 /\ req'[p].row = None /\ req'[p].age = age
  BY <1>4 DEF Free
<1>6. OnPath(p)' /\ Holds(p)' BY <1>5 DEF OnPath, Holds
<1>7. req'[p].conns <= req[p].conns BY <1>1, <1>5 DEF Request
<1> QED BY <1>4, <1>5, <1>6, <1>7 DEF Works

\* So does one that is refused.
LEMMA RefuseWorks ==
  ASSUME IInv, NEW p \in Requests, Refuse(p), req[p].pc # "commit"
  PROVE  Works(p)
<1>1. Answer(p, 0) /\ 0 \in 0..MaxTime /\ 0 <= BuildTime
  BY ControlPlaneAssumption DEF Refuse
<1>2. lock' \in Requests \cup {None} BY DEF Refuse, Answer, IInv, TypeOK
<1>3. Beside BY <1>2 DEF Refuse, Beside, IInv, TypeOK
<1> QED BY <1>1, <1>3, AnswerWorks

\* The steps of a request that only moves on.
LEMMA MovesWork ==
  ASSUME IInv, NEW p \in Requests,
         \/ AddRepo(p) \/ ListRuns(p) \/ RepoSynced(p) \/ Reread(p) \/ Synced(p)
         \/ RevokeToken(p) \/ Rerun(p) \/ GitHubDone(p)
         \/ VerifyCampaign(p) \/ AuditTarget(p) \/ TargetDone(p) \/ ExportEvidence(p)
  PROVE  Works(p)
<1> USE DEF Begins
<1>0. /\ req \in [Requests -> Request] /\ req[p] \in Request
      /\ OnPath(p) /\ Holds(p) /\ TypeOK
  BY Typed DEF IInv, Paths
<1>1. CASE AddRepo(p)
  <2>1. Beside /\ req[p].pc = "resolved" /\ Fits(p, 1) /\ req[p].action = "repo.add"
    BY <1>0, <1>1, AloneBeside DEF AddRepo
  <2>2. CASE Goes(p, "write", 1)
    BY <2>1, <2>2, GoesWorks DEF Steps, Through, RepoActions
  <2>3. CASE Goes(p, "fetch", 0)
    BY <1>0, <2>1, <2>3, GoesWorks DEF Steps, Through, Request
  <2> QED BY <1>1, <2>2, <2>3 DEF AddRepo
<1>2. CASE ListRuns(p) \/ RepoSynced(p)
  <2>1. Beside /\ req[p].action \in {"repo.add", "offline.sync"}
    BY <1>0, <1>2, AloneBeside DEF ListRuns, RepoSynced, OnPath, Through
  <2>2. CASE ListRuns(p)
    BY <2>1, <2>2, GoesWorks DEF ListRuns, Steps, Through
  <2>3. CASE RepoSynced(p)
    <3>1. 0 <= req[p].conns BY <1>0 DEF Request
    <3>2. CASE req[p].action = "repo.add"
      BY <2>1, <2>3, <3>1, <3>2, GoesWorks DEF RepoSynced, Steps, Through
    <3>3. CASE req[p].action = "offline.sync"
      BY <2>1, <2>3, <3>1, <3>3, GoesWorks DEF RepoSynced, Steps, Through
    <3> QED BY <2>1, <3>2, <3>3
  <2> QED BY <1>2, <2>2, <2>3
<1>3. CASE Reread(p)
  <2>1. Beside /\ req[p].action = "repo.add"
    BY <1>0, <1>3, AloneBeside DEF Reread, OnPath, Through
  <2> QED BY <1>3, <2>1, GoesWorks DEF Reread, Steps, Through, RepoActions
<1>4. CASE Synced(p)
  <2>1. Beside /\ req[p].action = "offline.sync"
    BY <1>0, <1>4, AloneBeside DEF Synced, OnPath, Through
  <2> QED
    BY <1>4, <2>1, GoesWorks DEF Synced, Steps, Through, Actions, RepoActions, TokenActions
<1>5. CASE RevokeToken(p)
  <2>1. Beside BY <1>0, <1>5, AloneBeside DEF RevokeToken
  <2> QED BY <1>5, <2>1, GoesWorks DEF RevokeToken, Steps, Through
<1>6. CASE Rerun(p)
  <2>1. Beside BY <1>0, <1>6, AloneBeside DEF Rerun, CallsGitHub
  <2> QED
    BY <1>6, <2>1, GoesWorks DEF Rerun, CallsGitHub, Steps, Through, GitHubActions
<1>7. CASE GitHubDone(p)
  <2>1. Beside /\ req[p].action \in GitHubActions /\ req[p].conns = 1
    BY <1>0, <1>7, AloneBeside DEF GitHubDone, OnPath, Through
  <2> QED
    BY <1>7, <2>1, GoesWorks
    DEF GitHubDone, Steps, Through, Actions, GitHubActions, RepoActions, TokenActions
<1>8. CASE VerifyCampaign(p)
  <2>1. Beside BY <1>0, <1>8, AloneBeside DEF VerifyCampaign
  <2> QED BY <1>8, <2>1, GoesWorks DEF VerifyCampaign, Steps, Through
<1>9. CASE AuditTarget(p)
  <2>1. Beside /\ req[p].action = "campaign.verify"
    BY <1>0, <1>9, AloneBeside DEF AuditTarget, OnPath, Through
  <2> QED BY <1>9, <2>1, GoesWorks DEF AuditTarget, Steps, Through
<1>10. CASE TargetDone(p)
  <2>1. Beside /\ req[p].action = "campaign.verify" /\ req[p].conns = 2
    BY <1>0, <1>10, AloneBeside DEF TargetDone, OnPath, Through
  <2> QED
    BY <1>10, <2>1, GoesWorks DEF TargetDone, Steps, Through, Actions, RepoActions, TokenActions
<1>11. CASE ExportEvidence(p)
  <2>1. Beside BY <1>0, <1>11, AloneBeside DEF ExportEvidence
  <2> QED
    BY <1>11, <2>1, GoesWorks
    DEF ExportEvidence, Steps, Through, Actions, RepoActions, TokenActions
<1> QED
  BY <1>1, <1>2, <1>3, <1>4, <1>5, <1>6, <1>7, <1>8, <1>9, <1>10, <1>11

\* The steps that may end a request with an error.
LEMMA RefusalsWork ==
  ASSUME IInv, NEW p \in Requests,
         \/ FetchFails(p) \/ RemoveRepo(p) \/ UploadSarif(p) \/ RequireCheck(p)
         \/ GitHubRejects(p) \/ PoolTimeout(p)
  PROVE  Works(p)
<1> USE DEF Begins
<1>0. /\ req \in [Requests -> Request] /\ req[p] \in Request
      /\ OnPath(p) /\ Holds(p) /\ TypeOK
  BY Typed DEF IInv, Paths
<1>1. CASE Refuse(p) /\ req[p].pc # "commit"
  BY <1>1, RefuseWorks
<1>2. CASE RemoveRepo(p)
  <2>1. CASE Goes(p, "write", 1) /\ Alone
    BY <1>0, <1>2, <2>1, AloneBeside, GoesWorks
    DEF RemoveRepo, Steps, Through, RepoActions
  <2> QED BY <1>1, <1>2, <2>1 DEF RemoveRepo
<1>3. CASE UploadSarif(p) \/ RequireCheck(p)
  <2>1. CASE CallsGitHub(p)
    <3>1. Beside /\ Goes(p, "github", 1) BY <1>0, <2>1, AloneBeside DEF CallsGitHub
    <3>2. req[p].pc = "resolved" /\ Fits(p, 1) /\ req[p].action \in GitHubActions
      BY <1>3 DEF UploadSarif, RequireCheck, GitHubActions
    <3> QED BY <3>1, <3>2, GoesWorks DEF Steps, Through
  <2> QED BY <1>1, <1>3, <2>1 DEF UploadSarif, RequireCheck
<1>4. CASE PoolTimeout(p)
  <2>1. CASE req[p].pc = "targets" /\ Goes(p, "record", 1) /\ Alone
    <3>1. Beside /\ req[p].action = "campaign.verify" /\ req[p].conns = 1
      BY <1>0, <2>1, AloneBeside DEF OnPath, Through
    <3> QED BY <2>1, <3>1, GoesWorks DEF Steps, Through, Actions, RepoActions, TokenActions
  <2>2. CASE req[p].pc = "stored" /\ Goes(p, "sync", req[p].conns) /\ Alone /\ req[p].action = "offline.sync"
    <3>1. Beside /\ req[p].conns \in 0..2 /\ req[p].conns <= req[p].conns
      BY <1>0, <2>2, AloneBeside DEF Request
    <3> QED BY <2>2, <3>1, GoesWorks DEF Steps, Through
  <2>3. req[p].pc # "commit" BY <1>4 DEF PoolTimeout, NeedsOneMore
  <2>4. req[p].pc = "targets" => req[p].conns = 1 BY <1>0 DEF OnPath
  <2> QED BY <1>1, <1>4, <2>1, <2>2, <2>3, <2>4 DEF PoolTimeout, GoesOnWithout
<1>5. CASE FetchFails(p) BY <1>1, <1>5 DEF FetchFails
<1>6. CASE GitHubRejects(p) BY <1>1, <1>6 DEF GitHubRejects
<1> QED BY <1>2, <1>3, <1>4, <1>5, <1>6

\* Requests for the graph: an entry that is served is fresh, and a build that
\* ends was begun no more than BuildTime ago.
LEMMA GraphWorks ==
  ASSUME IInv, NEW p \in Requests,
         GetGraph(p) \/ Acquire(p) \/ BuildStart(p) \/ BuildEnd(p)
  PROVE  Works(p)
<1>0. /\ req \in [Requests -> Request] /\ req[p] \in Request
      /\ OnPath(p) /\ Holds(p) /\ TypeOK /\ Timed
      /\ clock \in 0..MaxTime /\ cache \in {None} \cup [at : 0..MaxTime, begun : 0..MaxTime]
      /\ lock \in Requests \cup {None}
  BY Typed DEF IInv, Paths
<1>1. ASSUME Fresh, Serve(p), req[p].pc # "commit" PROVE Works(p)
  <2>1. cache # None /\ cache \in [at : 0..MaxTime, begun : 0..MaxTime]
    BY <1>0, <1>1 DEF Fresh
  <2>2. /\ clock - cache.begun \in 0..MaxTime
        /\ clock - cache.begun < TTL + BuildTime
    BY <1>0, <1>1, <2>1, ControlPlaneAssumption DEF Fresh, Timed
  <2>3. Answer(p, clock - cache.begun) BY <1>1 DEF Serve
  <2>4. lock' \in Requests \cup {None} BY <1>0, <2>3 DEF Answer
  <2>5. Beside BY <1>0, <1>1, <2>4 DEF Serve, Beside, TypeOK
  <2> QED BY <1>1, <2>2, <2>3, <2>5, AnswerWorks
<1>2. ASSUME NEW pc \in {"wait", "locked"}, Goes(p, pc, req[p].conns), Beside,
             req[p].pc \in {"resolved", "wait"}, req[p].action = "graph"
      PROVE  Works(p)
  <2>1. req[p].conns \in 0..2 /\ req[p].conns <= req[p].conns BY <1>0 DEF Request
  <2> QED BY <1>2, <2>1, GoesWorks DEF Steps, Through
<1>3. CASE GetGraph(p)
  <2>1. CASE Fresh /\ Serve(p) BY <1>1, <1>3, <2>1 DEF GetGraph
  <2>2. CASE Goes(p, "wait", req[p].conns) /\ Alone
    BY <1>0, <1>2, <1>3, <2>2, AloneBeside DEF GetGraph
  <2> QED BY <1>3, <2>1, <2>2 DEF GetGraph
<1>4. CASE Acquire(p)
  <2>1. CASE Fresh /\ Serve(p) BY <1>1, <1>4, <2>1 DEF Acquire
  <2>2. CASE /\ lock' = p /\ Goes(p, "locked", req[p].conns)
             /\ UNCHANGED <<clock, faults, env, watched, token, trail, cache, arrived>>
    <3>1. Beside BY <1>0, <2>2 DEF Beside, TypeOK
    <3>2. req[p].action = "graph" BY <1>0, <1>4 DEF Acquire, OnPath, Through
    <3> QED BY <1>2, <1>4, <2>2, <3>1, <3>2 DEF Acquire
  <2> QED BY <1>4, <2>1, <2>2 DEF Acquire
<1>5. CASE BuildStart(p)
  <2>1. req' = [req EXCEPT ![p].pc = "build", ![p].conns = 1, ![p].begun = clock]
    BY <1>5 DEF BuildStart
  <2>2. /\ req' \in [Requests -> Request]
        /\ \A q \in Requests \ {p} : req'[q] = req[q]
    <3>1. [req[p] EXCEPT !.pc = "build", !.conns = 1, !.begun = clock] \in Request
      <4>1. "build" \in Steps BY DEF Steps
      <4>2. 1 \in 0..2 OBVIOUS
      <4> QED BY <1>0, <4>1, <4>2, Updated, Zenon
    <3>2. req' = [req EXCEPT ![p] = [req[p] EXCEPT !.pc = "build", !.conns = 1, !.begun = clock]]
      BY <2>1
    <3> QED BY <1>0, <3>1, <3>2
  <2>3. /\ req'[p].pc = "build" /\ req'[p].conns = 1 /\ req'[p].begun = clock
        /\ req'[p].action = req[p].action /\ req'[p].arg = req[p].arg
        /\ req'[p].row = req[p].row /\ req'[p].age = req[p].age
    BY <1>0, <2>1 DEF Request
  <2>4. req[p].action = "graph" /\ req[p].arg \in Arguments("graph") /\ req[p].row = None
    BY <1>0, <1>5 DEF BuildStart, OnPath, Holds, Through
  <2>5. OnPath(p)' BY <2>3, <2>4 DEF OnPath, Through
  <2>6. Holds(p)' BY <2>3, <2>4 DEF Holds
  <2>7. Beside BY <1>0, <1>5, AloneBeside DEF BuildStart
  <2>8. req'[p].age <= BuildTime \/ req'[p].age < TTL + BuildTime
    BY <2>3 DEF IInv, ServedFresh
  <2> QED
    BY <1>5, <2>2, <2>3, <2>4, <2>5, <2>6, <2>7, <2>8 DEF Works, BuildStart
<1>6. CASE BuildEnd(p)
  <2>1. req[p].begun \in 0..MaxTime /\ req[p].begun <= clock /\ clock - req[p].begun <= BuildTime
    BY <1>0, <1>6 DEF BuildEnd, Timed, Request
  <2>2. clock - req[p].begun \in 0..MaxTime BY <1>0, <2>1, ControlPlaneAssumption
  <2>3. Answer(p, clock - req[p].begun) BY <1>6 DEF BuildEnd
  <2>4. lock' \in Requests \cup {None} BY <1>0, <2>3 DEF Answer
  <2>5. Beside BY <1>0, <1>6, <2>1, <2>4 DEF BuildEnd, Beside, TypeOK
  <2> QED BY <1>6, <2>1, <2>2, <2>3, <2>5, AnswerWorks DEF BuildEnd
<1> QED BY <1>3, <1>4, <1>5, <1>6

\* A new repository, and the offline ones one after the other.
LEMMA SyncWorks ==
  ASSUME IInv, NEW p \in Requests,
         OfflineSync(p) \/ (\E r \in Repos : StoreRepo(p, r)) \/ RepoFails(p) \/ TransactionLost(p)
  PROVE  Works(p)
<1>0. /\ req \in [Requests -> Request] /\ req[p] \in Request
      /\ OnPath(p) /\ Holds(p) /\ TypeOK
  BY Typed DEF IInv, Paths
<1>1. ASSUME NEW pc \in {"sync", "stored", "runs", "github", "targets", "audit"},
             req[p].pc \in {"resolved", "fetch", "sync", pc}, req[p].action \in Through(pc),
             req' \in [Requests -> Request],
             \A q \in Requests \ {p} : req'[q] = req[q],
             req'[p].pc = pc, req'[p].action = req[p].action, req'[p].arg = req[p].arg,
             req'[p].actor = req[p].actor, req'[p].row = req[p].row,
             req'[p].age = req[p].age, req'[p].conns <= req[p].conns,
             pc \notin {"sync", "stored"} => req[p].pc = pc /\ req'[p].conns = req[p].conns, Beside
      PROVE  Works(p)
  <2>1. req[p].row = None /\ req[p].arg \in Arguments(req[p].action)
    BY <1>0, <1>1 DEF Holds, OnPath
  <2>2. OnPath(p)' BY <1>0, <1>1, <2>1 DEF OnPath
  <2>3. Holds(p)' BY <1>1, <2>1 DEF Holds
  <2>4. req[p].action # "graph" => Entitled(trail, req[p].actor, req[p].action, Len(trail) + 1)
    BY <1>1 DEF IInv, Answered
  <2>5. req'[p].age <= BuildTime \/ req'[p].age < TTL + BuildTime
    BY <1>1 DEF IInv, ServedFresh
  <2> QED BY <1>1, <2>2, <2>3, <2>4, <2>5 DEF Works
<1>2. CASE OfflineSync(p)
  <2>1. CASE Refuse(p) BY <1>2, <2>1, RefuseWorks DEF OfflineSync, Begins
  <2>2. CASE /\ req' = [req EXCEPT ![p].pc = "sync", ![p].conns = 0, ![p].todo = OfflineRepos]
             /\ Alone
    <3>1. OfflineRepos \in SUBSET Repos BY ControlPlaneAssumption
    <3>2. /\ req' \in [Requests -> Request]
          /\ \A q \in Requests \ {p} : req'[q] = req[q]
      <4>1. [req[p] EXCEPT !.pc = "sync", !.conns = 0, !.todo = OfflineRepos] \in Request
        <5>1. "sync" \in Steps BY DEF Steps
        <5>2. 0 \in 0..2 OBVIOUS
        <5> QED BY <1>0, <3>1, <5>1, <5>2, Updated, Zenon
      <4>2. req' = [req EXCEPT ![p] =
                      [req[p] EXCEPT !.pc = "sync", !.conns = 0, !.todo = OfflineRepos]]
        BY <2>2
      <4> QED BY <1>0, <4>1, <4>2
    <3>3. /\ req'[p].pc = "sync" /\ req'[p].conns = 0
          /\ req'[p].action = req[p].action /\ req'[p].arg = req[p].arg
          /\ req'[p].actor = req[p].actor /\ req'[p].row = req[p].row
          /\ req'[p].age = req[p].age
      BY <1>0, <2>2 DEF Request
    <3>4. req[p].pc = "resolved" /\ req[p].action \in Through("sync")
      BY <1>2 DEF OfflineSync, Begins, Through
    <3>5. 0 <= req[p].conns BY <1>0 DEF Request
    <3>6. Beside BY <1>0, <2>2, AloneBeside
    <3> QED BY <1>1, <3>2, <3>3, <3>4, <3>5, <3>6
  <2> QED BY <1>2, <2>1, <2>2 DEF OfflineSync
<1>3. CASE \E r \in Repos : StoreRepo(p, r)
  <2> PICK r \in Repos : StoreRepo(p, r) BY <1>3
  <2>1. req' = [req EXCEPT ![p].pc = "stored", ![p].conns = 0, ![p].todo = @ \ {r}]
    BY DEF StoreRepo
  <2>2. /\ req' \in [Requests -> Request]
        /\ \A q \in Requests \ {p} : req'[q] = req[q]
    <3>1. "stored" \in Steps /\ 0 \in 0..2 /\ req[p].todo \ {r} \in SUBSET Repos
      BY <1>0 DEF Steps, Request
    <3>2. [req[p] EXCEPT !.pc = "stored", !.conns = 0, !.todo = req[p].todo \ {r}] \in Request
      BY <1>0, <3>1, Updated, Zenon
    <3>3. req' = [req EXCEPT ![p] =
                    [req[p] EXCEPT !.pc = "stored", !.conns = 0, !.todo = req[p].todo \ {r}]]
      BY <1>0, <2>1
    <3> QED BY <1>0, <3>2, <3>3
  <2>3. /\ req'[p].pc = "stored" /\ req'[p].conns = 0
        /\ req'[p].action = req[p].action /\ req'[p].arg = req[p].arg
        /\ req'[p].actor = req[p].actor /\ req'[p].row = req[p].row
        /\ req'[p].age = req[p].age
    BY <1>0, <2>1 DEF Request
  <2>4. req[p].pc \in {"fetch", "sync"} /\ req[p].action \in Through("stored")
    BY <1>0 DEF StoreRepo, OnPath, Through
  <2>5. Beside BY <1>0 DEF StoreRepo, Beside, TypeOK
  <2>6. req'[p].conns <= req[p].conns BY <1>0, <2>3 DEF Request
  <2> QED BY <1>1, <2>2, <2>3, <2>4, <2>5, <2>6
<1>4. CASE RepoFails(p)
  <2>0. Beside BY <1>0, <1>4, AloneBeside DEF RepoFails
  <2>1. CASE req[p].pc = "runs" /\ req[p].action = "offline.sync" /\ Goes(p, "sync", 1)
    <3>1. req[p].conns = 1 BY <1>0, <2>1 DEF OnPath
    <3> QED BY <2>0, <2>1, <3>1, GoesWorks DEF Steps, Through
  <2>2. ASSUME NEW r \in req[p].todo, req[p].pc = "sync",
               req' = [req EXCEPT ![p].todo = @ \ {r}]
        PROVE  Works(p)
    <3>1. /\ req' \in [Requests -> Request]
          /\ \A q \in Requests \ {p} : req'[q] = req[q]
      BY <1>0, <2>2 DEF Request
    <3>2. /\ req'[p].pc = req[p].pc /\ req'[p].conns = req[p].conns
          /\ req'[p].action = req[p].action /\ req'[p].arg = req[p].arg
          /\ req'[p].actor = req[p].actor /\ req'[p].row = req[p].row
          /\ req'[p].age = req[p].age
      BY <1>0, <2>2 DEF Request
    <3>3. req[p].action \in Through("sync") BY <1>0, <2>2 DEF OnPath
    <3>4. req'[p].conns <= req[p].conns BY <1>0, <3>2 DEF Request
    <3> QED BY <1>1, <2>0, <2>2, <3>1, <3>2, <3>3, <3>4
  <2> QED BY <1>4, <2>1, <2>2 DEF RepoFails
<1>5. CASE TransactionLost(p)
  <2>1. req' = [req EXCEPT ![p].lost = TRUE] BY <1>5 DEF TransactionLost
  <2>2. /\ req' \in [Requests -> Request]
        /\ \A q \in Requests \ {p} : req'[q] = req[q]
    BY <1>0, <2>1 DEF Request
  <2>3. /\ req'[p].pc = req[p].pc /\ req'[p].conns = req[p].conns
        /\ req'[p].action = req[p].action /\ req'[p].arg = req[p].arg
        /\ req'[p].actor = req[p].actor /\ req'[p].row = req[p].row
        /\ req'[p].age = req[p].age
    BY <1>0, <2>1 DEF Request
  <2>4. req[p].pc \in {"github", "targets", "audit", "runs", "sync"} /\ req[p].action \in Through(req[p].pc)
    BY <1>0, <1>5 DEF TransactionLost, OnPath
  <2>5. faults' \in 0..MaxFaults
    BY <1>0, <1>5, ControlPlaneAssumption DEF TransactionLost, TypeOK
  <2>6. Beside BY <1>0, <1>5, <2>5 DEF TransactionLost, Beside, TypeOK
  <2>7. req'[p].conns <= req[p].conns BY <1>0, <2>3 DEF Request
  <2> QED BY <1>1, <2>2, <2>3, <2>4, <2>6, <2>7
<1> QED BY <1>2, <1>3, <1>4, <1>5

\* A request that draws a token, or writes its row, has the lock to itself.
LEMMA LocksWork ==
  ASSUME IInv, NEW p \in Requests, CreateToken(p) \/ WriteRow(p)
  PROVE  Works(p)
<1>0. /\ req \in [Requests -> Request] /\ req[p] \in Request
      /\ OnPath(p) /\ Holds(p) /\ TypeOK
  BY Typed DEF IInv, Paths
<1>1. ASSUME NEW row \in Rows, ~Locked(row), Alone,
             req' = [req EXCEPT ![p].pc = "record", ![p].conns = 1, ![p].row = row],
             Fits(p, 1) \/ req[p].conns = 1, req[p].pc \in {"resolved", "write"},
             \/ req[p].action \in RepoActions /\ row = <<"repo", req[p].arg>>
             \/ /\ req[p].action = "token.revoke" /\ row = <<"token", req[p].arg>>
                /\ token[req[p].arg] \in Roles
             \/ /\ req[p].action = "token.create"
                /\ \E t \in Tokens : row = <<"token", t>> /\ token[t] = None
      PROVE  Works(p)
  <2> DEFINE new == [req[p] EXCEPT !.pc = "record", !.conns = 1, !.row = row]
  <2>1. req' = [req EXCEPT ![p] = new] BY <1>1
  <2>2. new \in Request
    <3>1. "record" \in Steps BY DEF Steps
    <3>2. 1 \in 0..2 OBVIOUS
    <3> QED BY <1>0, <3>1, <3>2, Updated, Zenon DEF new
  <2>3. /\ req' \in [Requests -> Request]
        /\ \A q \in Requests \ {p} : req'[q] = req[q]
        /\ req'[p] = new
    BY <1>0, <2>1, <2>2
  <2>4. /\ new.pc = "record" /\ new.conns = 1 /\ new.row = row
        /\ new.action = req[p].action /\ new.arg = req[p].arg
        /\ new.actor = req[p].actor /\ new.age = req[p].age
    BY <1>0 DEF Request
  <2> HIDE DEF new
  <2>5. token' = token BY <1>1 DEF Alone
  <2>6. OnPath(p)'
    BY <1>0, <1>1, <2>3, <2>4 DEF OnPath, Through, Actions, RepoActions
  <2>7. Holds(p)'
    BY <1>1, <2>3, <2>4, <2>5 DEF Holds, RepoActions, TokenActions
  <2>8. req[p].action # "graph" => Entitled(trail, req[p].actor, req[p].action, Len(trail) + 1)
    BY <1>1 DEF IInv, Answered
  <2>9. req'[p].age <= BuildTime \/ req'[p].age < TTL + BuildTime
    BY <2>3, <2>4 DEF IInv, ServedFresh
  <2>10. Beside BY <1>0, <1>1, AloneBeside
  <2> QED BY <1>1, <2>3, <2>4, <2>6, <2>7, <2>8, <2>9, <2>10 DEF Works
<1>2. CASE CreateToken(p)
  <2>1. /\ req[p].pc = "resolved" /\ req[p].action = "token.create" /\ Fits(p, 1) /\ Alone
    BY <1>2 DEF CreateToken, Begins
  <2> DEFINE free == {t \in Tokens : token[t] = None /\ ~Locked(<<"token", t>>)}
             t == CHOOSE t \in free : TRUE
  <2>2. /\ free # {}
        /\ req' = [req EXCEPT ![p].pc = "record", ![p].conns = 1, ![p].row = <<"token", t>>]
    BY <1>2 DEF CreateToken
  <2>3. t \in free BY <2>2
  <2>4. t \in Tokens /\ token[t] = None /\ ~Locked(<<"token", t>>) BY <2>3
  <2> HIDE DEF t, free
  <2>5. <<"token", t>> \in Rows BY <2>4 DEF Rows
  <2> QED BY <1>1, <2>1, <2>2, <2>4, <2>5
<1>3. CASE WriteRow(p)
  <2>1. CASE Refuse(p) BY <1>3, <2>1, RefuseWorks DEF WriteRow
  <2>2. CASE /\ ~(req[p].action = "token.revoke" /\ token[req[p].arg] \notin Roles)
             /\ req' = [req EXCEPT ![p].pc = "record", ![p].row = RowOf(p)] /\ Alone
    <3>1. /\ req[p].pc = "write" /\ req[p].conns = 1 /\ ~Locked(RowOf(p))
          /\ req[p].action \in RepoActions \cup {"token.revoke"}
          /\ req[p].arg \in Arguments(req[p].action)
      BY <1>0, <1>3 DEF WriteRow, OnPath, Through
    <3>2. CASE req[p].action \in RepoActions
      <4>1. RowOf(p) = <<"repo", req[p].arg>> /\ req[p].arg \in Repos
        BY <3>1, <3>2 DEF RowOf, RepoActions, Arguments
      <4>2. RowOf(p) \in Rows BY <4>1 DEF Rows
      <4>3. req' = [req EXCEPT ![p].pc = "record", ![p].conns = 1, ![p].row = RowOf(p)]
        BY <1>0, <2>2, <3>1 DEF Request
      <4> QED BY <1>1, <2>2, <3>1, <3>2, <4>1, <4>2, <4>3
    <3>3. CASE req[p].action = "token.revoke"
      <4>1. RowOf(p) = <<"token", req[p].arg>> /\ req[p].arg \in Tokens
        BY <3>1, <3>3 DEF RowOf, Arguments
      <4>2. RowOf(p) \in Rows BY <4>1 DEF Rows
      <4>3. req' = [req EXCEPT ![p].pc = "record", ![p].conns = 1, ![p].row = RowOf(p)]
        BY <1>0, <2>2, <3>1 DEF Request
      <4> QED BY <1>1, <2>2, <3>1, <3>3, <4>1, <4>2, <4>3
    <3> QED BY <3>1, <3>2, <3>3
  <2> QED BY <1>3, <2>1, <2>2 DEF WriteRow
<1> QED BY <1>2, <1>3

\* Whoever is allowed a write at the door is the operate token, or a named token
\* whose creation the trail shows.
LEMMA ArriveWorks ==
  ASSUME IInv, NEW p \in Requests, NEW action \in Actions, NEW cred \in Credentials,
         NEW arg \in Arguments(action), req[p].pc = "idle", Arrive(p, action, arg, cred)
  PROVE  Works(p)
<1> DEFINE who == Identity(cred)
           conns == IF Queries(cred) THEN 1 ELSE 0
           new == [Free EXCEPT !.pc = "resolved", !.action = action, !.arg = arg,
                               !.actor = who.actor, !.conns = conns]
<1>0. /\ req \in [Requests -> Request] /\ req[p] \in Request /\ TypeOK
  BY Typed DEF IInv
<1>1. /\ req' = [req EXCEPT ![p] = new] /\ Fits(p, conns) /\ Allowed(who, action)
      /\ arrived' = arrived + 1 /\ arrived < Total
      /\ UNCHANGED <<clock, faults, env, watched, token, trail, cache, lock>>
  BY DEF Arrive
<1>2. arg \in Args
  BY DEF Args, Arguments, Roles, Actions
<1>3. env \subseteq EnvTokens BY <1>0, ControlPlaneAssumption DEF TypeOK
<1>4. \/ cred \in env /\ who = [actor |-> cred, role |-> IF cred = "operate" THEN "admin" ELSE "viewer"]
      \/ /\ cred \in Tokens /\ token[cred] \in Roles
         /\ who = [actor |-> cred, role |-> token[cred]]
      \/ who = [actor |-> "open", role |-> "viewer"]
  <2>1. who # NoIdentity BY <1>1 DEF Allowed
  <2>2. cred \in env => cred \notin Tokens BY <1>3, ControlPlaneAssumption
  <2> HIDE DEF who
  <2>3. CASE cred \in env
    BY <2>2, <2>3 DEF who, Identity
  <2>4. CASE cred \in Tokens /\ token[cred] \in Roles
    BY <2>2, <2>4 DEF who, Identity
  <2>5. CASE cred \notin env /\ ~(cred \in Tokens /\ token[cred] \in Roles)
    BY <2>1, <2>5 DEF who, Identity
  <2> QED BY <2>3, <2>4, <2>5
<1>5. who.actor \in Actors BY <1>4 DEF Actors
<1>6. Entitled(trail, who.actor, action, Len(trail) + 1) \/ action = "graph"
  <2>1. Rank[who.role] >= Rank[Needed(action)] BY <1>1 DEF Allowed
  <2>2. CASE who.role = "viewer"
    BY <2>1, <2>2 DEF Rank, Needed
  <2>3. CASE cred = "operate" /\ who = [actor |-> cred, role |-> "admin"]
    BY <2>3 DEF Entitled
  <2>4. CASE cred \in Tokens /\ token[cred] \in Roles /\ who = [actor |-> cred, role |-> token[cred]]
    <3>1. PICK i \in Recorded({"token.create"}, <<"token", cred>>) : token[cred] = trail[i].arg
      BY <2>4 DEF IInv, Told
    <3>2. i \in DOMAIN trail /\ trail[i].of = None /\ trail[i].action = "token.create"
          /\ trail[i].target = <<"token", cred>>
      BY DEF Recorded
    <3>3. i < Len(trail) + 1 BY <1>0, <3>2 DEF TypeOK
    <3>4. who.actor = cred /\ Rank[trail[i].arg] >= Rank[Needed(action)]
      BY <2>1, <2>4, <3>1
    <3> QED BY <3>2, <3>3, <3>4 DEF Entitled
  <2>5. CASE cred # "operate" /\ who = [actor |-> cred, role |-> "viewer"]
    BY <2>2, <2>5
  <2> HIDE DEF who
  <2> QED BY <1>4, <2>2, <2>3, <2>4, <2>5
<1> HIDE DEF who
<1>7. conns \in 0..2 OBVIOUS
<1> HIDE DEF conns
<1>8. new \in Request BY <1>2, <1>5, <1>7, FreeTyped DEF Request, Steps
<1>9. /\ new.pc = "resolved" /\ new.action = action /\ new.arg = arg /\ new.actor = who.actor
      /\ new.conns = conns /\ new.row = None /\ new.age = 0
  BY DEF Free
<1> HIDE DEF new
<1>10. /\ req' \in [Requests -> Request]
       /\ \A q \in Requests \ {p} : req'[q] = req[q]
       /\ req'[p] = new
  BY <1>0, <1>1, <1>8
<1>11. OnPath(p)' BY <1>9, <1>10 DEF OnPath, Through
<1>12. Holds(p)' BY <1>9, <1>10 DEF Holds
<1>13. arrived' \in 0..Total BY <1>0, <1>1, ControlPlaneAssumption DEF TypeOK
<1>14. Beside BY <1>0, <1>1, <1>13 DEF Beside, TypeOK
<1>15. req'[p].age <= BuildTime BY <1>9, <1>10, ControlPlaneAssumption
<1> QED BY <1>1, <1>6, <1>9, <1>10, <1>11, <1>12, <1>14, <1>15 DEF Works
-----------------------------------------------------------------------------
(* Every step keeps the invariant *)

\* The records of the trail.
Entries == [of : Requests \cup {None, Gone}, actor : Actors, action : Actions,
            target : Targets, arg : Args]

\* What the trail says of a set of actions depends on the trail alone.
LEMMA SameTrail ==
  ASSUME trail' = trail
  PROVE  \A actions, target : Recorded(actions, target)' = Recorded(actions, target)
BY DEF Recorded

\* The fleet and the tokens are told when no row is committed, and a new
\* repository is at most stored.
LEMMA ToldKept ==
  ASSUME TypeOK, Told, token' = token,
         \A actions, target : Recorded(actions, target)' = Recorded(actions, target),
         \A i \in DOMAIN trail : trail'[i].action = trail[i].action /\ trail'[i].arg = trail[i].arg,
         watched' = watched \/ \E r \in Repos : watched' = Upserted(r)
  PROVE  Told'
<1> DEFINE Rec(r) == Recorded(RepoActions, <<"repo", r>>)
<1>1. ASSUME NEW r \in Repos, NEW i \in Rec(r)', \A j \in Rec(r)' : j <= i
      PROVE  watched'[r] = (trail'[i].action = "repo.add")
  <2>1. i \in Rec(r) /\ \A j \in Rec(r) : j <= i BY <1>1
  <2>2. watched[r] = (trail[i].action = "repo.add") BY <2>1 DEF Told
  <2>3. i \in DOMAIN trail BY <2>1 DEF Recorded
  <2>4. watched[r] # None
    <3>1. (trail[i].action = "repo.add") \in BOOLEAN OBVIOUS
    <3> QED BY <2>2, <3>1, ControlPlaneAssumption
  <2>5. watched'[r] = watched[r]
    BY <2>4 DEF Upserted, TypeOK
  <2> QED BY <2>2, <2>3, <2>5
<1>2. ASSUME NEW t \in Tokens
      PROVE  /\ token'[t] = None <=> Recorded({"token.create"}, <<"token", t>>)' = {}
             /\ token'[t] = Gone <=> Recorded({"token.revoke"}, <<"token", t>>)' # {}
             /\ token'[t] \in Roles =>
                  \E i \in Recorded({"token.create"}, <<"token", t>>)' : token'[t] = trail'[i].arg
  <2>1. \A i \in Recorded({"token.create"}, <<"token", t>>) : trail'[i].arg = trail[i].arg
    BY DEF Recorded
  <2> QED BY <2>1 DEF Told
<1> QED BY <1>1, <1>2 DEF Told

\* A step of a request that leaves trail and tokens alone keeps the invariant.
LEMMA WorksKeeps ==
  ASSUME IInv, NEW p \in Requests, Works(p)
  PROVE  IInv'
<1>0. /\ TypeOK /\ Paths /\ Exclusive /\ Waiting /\ Announced /\ Ordered
      /\ Answered /\ Timed /\ ServedFresh /\ Told
  BY DEF IInv
<1>1. /\ req \in [Requests -> Request] /\ req' \in [Requests -> Request]
      /\ \A q \in Requests \ {p} : req'[q] = req[q]
      /\ req[p].pc # "commit" /\ req'[p].pc # "commit"
      /\ UNCHANGED <<clock, env, token, trail>>
  BY <1>0, Typed DEF Works, Beside
<1>2. \A actions, target : Recorded(actions, target)' = Recorded(actions, target)
  BY <1>1, SameTrail
<1>3. /\ watched' = watched \/ \E r \in Repos : watched' = Upserted(r)
      /\ lock' \in Requests \cup {None} /\ faults' \in 0..MaxFaults /\ arrived' \in 0..Total
      /\ \/ cache' = cache
         \/ \E b \in 0..MaxTime : /\ b <= clock /\ clock - b <= BuildTime
                                  /\ cache' = [at |-> clock, begun |-> b]
  BY DEF Works, Beside
<1>4. TypeOK'
  <2>1. Taken' <= PoolSize
    <3>1. Taken <= PoolSize BY <1>0 DEF TypeOK
    <3>2. req'[p].conns <= req[p].conns \/ Fits(p, req'[p].conns) BY DEF Works
    <3> QED BY <1>1, <3>1, <3>2, PoolKept
  <2>2. watched' \in [Repos -> BOOLEAN \cup {None}]
    BY <1>0, <1>3 DEF TypeOK, Upserted
  <2>3. cache' \in {None} \cup [at : 0..MaxTime, begun : 0..MaxTime]
    BY <1>0, <1>3 DEF TypeOK
  <2> QED BY <1>0, <1>1, <1>3, <2>1, <2>2, <2>3 DEF TypeOK, Request
<1>5. Paths'
  <2>1. ASSUME NEW q \in Requests PROVE OnPath(q)' /\ Holds(q)'
    <3>1. CASE q = p BY <3>1 DEF Works
    <3>2. CASE q # p
      <4>1. req'[q] = req[q] /\ token' = token BY <1>1, <3>2
      <4>2. OnPath(q) /\ Holds(q) BY <1>0 DEF Paths
      <4>3. OnPath(q)' BY <4>1, <4>2 DEF OnPath
      <4>4. Holds(q)' BY <4>1, <4>2 DEF Holds
      <4> QED BY <4>3, <4>4
    <3> QED BY <3>1, <3>2
  <2> QED BY <2>1 DEF Paths
<1>6. Exclusive'
  <2>1. req'[p].row \in {None, req[p].row} \/ ~Locked(req'[p].row) BY DEF Works
  <2> QED BY <1>0, <1>1, <2>1 DEF Exclusive, Locked
<1>7. Waiting'
  <2>1. ASSUME NEW i \in DOMAIN trail, trail[i].of \in Requests
        PROVE  /\ req'[trail[i].of].pc = "commit"
               /\ trail[i].action = req'[trail[i].of].action
               /\ trail[i].target = TargetOf(trail[i].of)' /\ trail[i].arg = req'[trail[i].of].arg
    <3>1. /\ req[trail[i].of].pc = "commit" /\ trail[i].action = req[trail[i].of].action
          /\ trail[i].target = TargetOf(trail[i].of) /\ trail[i].arg = req[trail[i].of].arg
      BY <1>0, <2>1 DEF Waiting
    <3>2. req'[trail[i].of] = req[trail[i].of] BY <1>1, <2>1, <3>1
    <3> QED BY <1>1, <3>1, <3>2 DEF TargetOf
  <2> QED BY <1>1, <2>1 DEF Waiting
<1>8. Announced' BY <1>0, <1>1 DEF Announced
<1>9. Ordered' BY <1>0, <1>1 DEF Ordered
<1>10. Answered'
  <2>1. req'[p].pc # "idle" /\ req'[p].action # "graph" =>
          Entitled(trail, req'[p].actor, req'[p].action, Len(trail) + 1)
    BY DEF Works
  <2> QED BY <1>0, <1>1, <2>1 DEF Answered
<1>11. Timed'
  <2>1. req'[p].pc = "build" => req'[p].begun = clock BY DEF Works
  <2>2. clock \in Nat BY <1>0, ControlPlaneAssumption DEF TypeOK
  <2>3. ASSUME NEW q \in Requests, req'[q].pc = "build"
        PROVE  req'[q].begun <= clock /\ clock - req'[q].begun <= BuildTime
    BY <1>0, <1>1, <2>1, <2>2, <2>3, ControlPlaneAssumption DEF Timed
  <2>4. cache' # None => /\ cache'.begun <= cache'.at /\ cache'.at <= clock
                         /\ cache'.at - cache'.begun <= BuildTime
    BY <1>0, <1>3, <2>2 DEF Timed
  <2> QED BY <1>1, <2>3, <2>4 DEF Timed
<1>12. ServedFresh'
  <2>1. req'[p].age <= BuildTime \/ req'[p].age < TTL + BuildTime BY DEF Works
  <2> QED BY <1>0, <1>1, <2>1 DEF ServedFresh
<1>13. Told' BY <1>0, <1>1, <1>2, <1>3, ToldKept
<1> QED
  BY <1>4, <1>5, <1>6, <1>7, <1>8, <1>9, <1>10, <1>11, <1>12, <1>13 DEF IInv

\* A row is recorded last, by a request that waits for nobody and has entitled
\* itself before.
LEMMA RecordKeeps ==
  ASSUME IInv, NEW p \in Requests, Record(p), ~Refuse(p)
  PROVE  IInv'
<1>0. /\ TypeOK /\ Paths /\ Exclusive /\ Waiting /\ Announced /\ Ordered
      /\ Answered /\ Timed /\ ServedFresh /\ Told
  BY DEF IInv
<1>1. /\ req \in [Requests -> Request] /\ req[p] \in Request /\ trail \in Seq(Entries)
      /\ OnPath(p) /\ Holds(p)
  BY <1>0, Typed DEF Paths, Entries
<1> PICK n \in Nat \ {0} : n = Len(trail) + 1
  BY <1>1
<1> PICK e : e = [of |-> p, actor |-> req[p].actor, action |-> req[p].action,
                 target |-> TargetOf(p), arg |-> req[p].arg]
  OBVIOUS
<1>2. /\ req[p].pc = "record" /\ trail' = Append(trail, e) /\ Goes(p, "commit", 1)
      /\ UNCHANGED <<clock, faults, env, watched, token, cache, lock, arrived>>
  BY DEF Record
<1>3. /\ req[p].conns = 1 /\ req[p].action \in Actions \ {"graph"}
      /\ req[p].arg \in Arguments(req[p].action)
  BY <1>1, <1>2 DEF OnPath, Through
<1>4. /\ req' \in [Requests -> Request]
      /\ \A q \in Requests \ {p} : req'[q] = req[q]
  <2>1. "commit" \in Steps /\ 1 \in 0..2 BY DEF Steps
  <2> QED BY <1>1, <1>2, <2>1, GoesTyped
<1>5. /\ req'[p].pc = "commit" /\ req'[p].conns = 1
      /\ req'[p].action = req[p].action /\ req'[p].arg = req[p].arg
      /\ req'[p].actor = req[p].actor /\ req'[p].row = req[p].row
      /\ req'[p].age = req[p].age
  BY <1>1, <1>2 DEF Goes, Request
<1>6. e \in Entries
  <2>1. TargetOf(p) \in Targets BY <1>1, <1>3 DEF TargetOf, Targets, Request
  <2> QED BY <1>1, <1>3, <2>1 DEF Entries, Request
<1>7. /\ e.of = p /\ e.actor = req[p].actor /\ e.action = req[p].action
      /\ e.target = TargetOf(p) /\ e.arg = req[p].arg
  OBVIOUS
<1>8. /\ trail' \in Seq(Entries) /\ Len(trail') = n
      /\ DOMAIN trail = 1..(n - 1) /\ DOMAIN trail' = 1..n
      /\ trail'[n] = e /\ \A i \in DOMAIN trail : trail'[i] = trail[i]
  BY <1>1, <1>2, <1>6
<1>9. p # None BY ControlPlaneAssumption
<1>10. \A actions, target : Recorded(actions, target)' = Recorded(actions, target)
  BY <1>7, <1>8, <1>9 DEF Recorded
<1>11. \A actor, action : \A m \in Nat :
          Entitled(trail, actor, action, m) => Entitled(trail', actor, action, m) /\ Entitled(trail', actor, action, m + 1)
  BY <1>8 DEF Entitled
<1>12. TypeOK'
  <2>1. Taken' <= PoolSize
    <3>1. Taken <= PoolSize /\ req'[p].conns <= req[p].conns BY <1>0, <1>3, <1>5 DEF TypeOK
    <3> QED BY <1>1, <1>4, <3>1, PoolKept
  <2> QED BY <1>0, <1>2, <1>4, <1>8, <2>1 DEF TypeOK, Request, Entries
<1>13. Paths'
  <2>1. ASSUME NEW q \in Requests PROVE OnPath(q)' /\ Holds(q)'
    <3>1. OnPath(q) /\ Holds(q) BY <1>0 DEF Paths
    <3>2. CASE q = p
      <4>1. OnPath(p)' BY <1>3, <1>5 DEF OnPath, Through
      <4>2. Holds(p)' BY <1>1, <1>2, <1>5 DEF Holds
      <4> QED BY <3>2, <4>1, <4>2
    <3>3. CASE q # p
      <4>1. req'[q] = req[q] BY <1>4, <3>3
      <4>2. OnPath(q)' BY <3>1, <4>1 DEF OnPath
      <4>3. Holds(q)' BY <1>2, <3>1, <4>1 DEF Holds
      <4> QED BY <4>2, <4>3
    <3> QED BY <3>2, <3>3
  <2> QED BY <2>1 DEF Paths
<1>14. Exclusive'
  <2>1. \A q \in Requests : req'[q].row = req[q].row BY <1>4, <1>5
  <2> QED BY <1>0, <2>1 DEF Exclusive
<1>15. Waiting'
  <2>1. TargetOf(p)' = TargetOf(p) BY <1>5 DEF TargetOf
  <2>2. ASSUME NEW i \in DOMAIN trail, NEW q \in Requests, trail[i].of = q
        PROVE  /\ req'[q].pc = "commit" /\ trail[i].action = req'[q].action
               /\ trail[i].target = TargetOf(q)' /\ trail[i].arg = req'[q].arg
    <3>1. /\ req[q].pc = "commit" /\ trail[i].action = req[q].action
          /\ trail[i].target = TargetOf(q) /\ trail[i].arg = req[q].arg
      BY <1>0, <2>2 DEF Waiting
    <3>2. req'[q] = req[q] BY <1>2, <1>4, <3>1
    <3> QED BY <3>1, <3>2 DEF TargetOf
  <2>3. \A i \in DOMAIN trail' : i \in DOMAIN trail \/ i = n BY <1>8
  <2>4. ASSUME NEW i \in DOMAIN trail', NEW q \in Requests, trail'[i].of = q
        PROVE  /\ req'[q].pc = "commit" /\ trail'[i].action = req'[q].action
               /\ trail'[i].target = TargetOf(q)' /\ trail'[i].arg = req'[q].arg
    <3>1. CASE i \in DOMAIN trail
      <4>1. trail'[i] = trail[i] BY <1>8, <3>1
      <4> QED BY <2>2, <2>4, <3>1, <4>1
    <3>2. CASE i = n
      <4>1. trail'[i] = e /\ q = p BY <1>7, <1>8, <2>4, <3>2
      <4> QED BY <1>5, <1>7, <2>1, <4>1
    <3> QED BY <2>3, <3>1, <3>2
  <2> QED BY <2>4 DEF Waiting
<1>16. Announced'
  <2>1. n \in DOMAIN trail' /\ trail'[n].of = p BY <1>7, <1>8
  <2>2. \A i \in DOMAIN trail : i \in DOMAIN trail' BY <1>8
  <2> QED BY <1>0, <1>4, <1>8, <2>1, <2>2 DEF Announced
<1>17. Ordered'
  <2>1. \A i \in DOMAIN trail' : i \in DOMAIN trail \/ i = n BY <1>8
  <2>2. \A j \in DOMAIN trail : j < n BY <1>8
  <2> QED BY <1>0, <1>7, <1>8, <1>9, <2>1, <2>2 DEF Ordered
<1>18. Answered'
  <2>1. ASSUME NEW q \in Requests, req'[q].pc # "idle", req'[q].action # "graph"
        PROVE  Entitled(trail', req'[q].actor, req'[q].action, n + 1)
    <3>1. /\ req[q].pc # "idle" /\ req'[q].action = req[q].action
          /\ req'[q].actor = req[q].actor
      BY <1>2, <1>4, <1>5, <2>1
    <3>2. Entitled(trail, req[q].actor, req[q].action, n)
      BY <1>0, <2>1, <3>1 DEF Answered
    <3> QED BY <1>11, <3>1, <3>2
  <2>2. Entitled(trail, e.actor, e.action, n)
    BY <1>0, <1>2, <1>3, <1>7 DEF Answered
  <2>3. ASSUME NEW i \in DOMAIN trail'
        PROVE  Entitled(trail', trail'[i].actor, trail'[i].action, i)
    <3>1. i \in DOMAIN trail \/ i = n BY <1>8
    <3>2. i \in Nat BY <1>8
    <3>3. Entitled(trail, trail'[i].actor, trail'[i].action, i)
      BY <1>0, <1>8, <2>2, <3>1 DEF Answered
    <3> QED BY <1>11, <3>2, <3>3
  <2> QED BY <1>8, <2>1, <2>3 DEF Answered
<1>19. Timed'
  <2>1. \A q \in Requests : req'[q].pc = "build" => req'[q] = req[q] BY <1>4, <1>5
  <2> QED BY <1>0, <1>2, <2>1 DEF Timed
<1>20. ServedFresh'
  <2>1. \A q \in Requests : req'[q].age = req[q].age BY <1>4, <1>5
  <2> QED BY <1>0, <2>1 DEF ServedFresh
<1>21. Told' BY <1>0, <1>2, <1>8, <1>10, ToldKept
<1> QED
  BY <1>12, <1>13, <1>14, <1>15, <1>16, <1>17, <1>18, <1>19, <1>20, <1>21 DEF IInv

\* Settling the rows of some requests changes who waits, and nothing else.
LEMMA SettledRows ==
  ASSUME trail \in Seq(Entries), NEW P \in SUBSET Requests, NEW of \in {None, Gone},
         trail' = Settled(P, of)
  PROVE  /\ trail' \in Seq(Entries)
         /\ DOMAIN trail' = DOMAIN trail /\ Len(trail') = Len(trail)
         /\ \A i \in DOMAIN trail :
              /\ trail'[i].of = IF trail[i].of \in P THEN of ELSE trail[i].of
              /\ trail'[i].actor = trail[i].actor /\ trail'[i].action = trail[i].action
              /\ trail'[i].target = trail[i].target /\ trail'[i].arg = trail[i].arg
<1>1. /\ DOMAIN trail = 1..Len(trail) /\ Len(trail) \in Nat
      /\ \A i \in DOMAIN trail : trail[i] \in Entries
  OBVIOUS
<1>2. /\ DOMAIN trail' = DOMAIN trail
      /\ \A i \in DOMAIN trail :
           trail'[i] = [trail[i] EXCEPT !.of = IF trail[i].of \in P THEN of ELSE trail[i].of]
  BY DEF Settled
<1>3. \A i \in DOMAIN trail :
        /\ trail'[i] \in Entries
        /\ trail'[i].of = IF trail[i].of \in P THEN of ELSE trail[i].of
        /\ trail'[i].actor = trail[i].actor /\ trail'[i].action = trail[i].action
        /\ trail'[i].target = trail[i].target /\ trail'[i].arg = trail[i].arg
  BY <1>1, <1>2 DEF Entries
<1>4. trail' = [i \in 1..Len(trail) |-> trail'[i]] BY <1>1, <1>2 DEF Settled
<1>5. trail' \in Seq(Entries)
  BY <1>1, <1>2, <1>3, <1>4
<1> QED BY <1>1, <1>2, <1>3, <1>5

\* A commit makes its request's row the last word about what it changes.
LEMMA CommitTells ==
  ASSUME IInv, NEW p \in Requests, Commit(p)
  PROVE  Told'
<1>0. /\ TypeOK /\ Paths /\ Exclusive /\ Waiting /\ Announced /\ Ordered /\ Told
  BY DEF IInv
<1>1. /\ trail \in Seq(Entries) /\ OnPath(p) /\ Holds(p)
      /\ watched \in [Repos -> BOOLEAN \cup {None}]
      /\ token \in [Tokens -> Roles \cup {None, Gone}]
  BY <1>0, Typed DEF Paths, Entries
<1>2. /\ req[p].pc = "commit" /\ trail' = Settled({p}, None)
      /\ req[p].action \in Actions \ {"graph"} /\ req[p].arg \in Arguments(req[p].action)
  BY <1>1 DEF Commit, OnPath, Through
<1>3. /\ DOMAIN trail' = DOMAIN trail
      /\ \A i \in DOMAIN trail :
           /\ trail'[i].of = IF trail[i].of = p THEN None ELSE trail[i].of
           /\ trail'[i].action = trail[i].action
           /\ trail'[i].target = trail[i].target /\ trail'[i].arg = trail[i].arg
  <2>1. {p} \in SUBSET Requests /\ None \in {None, Gone} OBVIOUS
  <2>2. /\ DOMAIN trail' = DOMAIN trail
        /\ \A i \in DOMAIN trail :
             /\ trail'[i].of = IF trail[i].of \in {p} THEN None ELSE trail[i].of
             /\ trail'[i].actor = trail[i].actor /\ trail'[i].action = trail[i].action
             /\ trail'[i].target = trail[i].target /\ trail'[i].arg = trail[i].arg
    BY <1>1, <1>2, <2>1, SettledRows, Zenon
  <2> QED BY <2>2
<1>4. PICK k \in DOMAIN trail : trail[k].of = p BY <1>0, <1>2 DEF Announced
<1>5. \A i \in DOMAIN trail : trail[i].of = p =>
        /\ trail[i].action = req[p].action /\ trail[i].target = TargetOf(p)
        /\ trail[i].arg = req[p].arg
  BY <1>0 DEF Waiting
<1>6. ASSUME NEW actions, NEW target
      PROVE  Recorded(actions, target)' =
               Recorded(actions, target) \cup
               {i \in DOMAIN trail : trail[i].of = p /\ trail[i].action \in actions
                                                     /\ trail[i].target = target}
  BY <1>3, ControlPlaneAssumption DEF Recorded
<1>7. ASSUME NEW actions, NEW target, req[p].action \notin actions \/ TargetOf(p) # target
      PROVE  Recorded(actions, target)' = Recorded(actions, target)
  BY <1>5, <1>6, <1>7
<1>8. \A actions, target : \A i \in Recorded(actions, target) :
        trail'[i].action = trail[i].action /\ trail'[i].arg = trail[i].arg
  BY <1>3 DEF Recorded
<1>9. ASSUME NEW r \in Repos, NEW i \in Recorded(RepoActions, <<"repo", r>>)',
             \A j \in Recorded(RepoActions, <<"repo", r>>)' : j <= i
      PROVE  watched'[r] = (trail'[i].action = "repo.add")
  <2>1. CASE req[p].action \in RepoActions /\ req[p].arg = r
    <3>1. req[p].row = <<"repo", r>> /\ TargetOf(p) = <<"repo", r>>
      BY <1>1, <1>2, <2>1, ControlPlaneAssumption DEF Holds, TargetOf, Rows
    <3>2. watched'[r] = (req[p].action = "repo.add")
      BY <1>1, <2>1, <3>1 DEF Commit, RepoActions
    <3>3. k \in Recorded(RepoActions, <<"repo", r>>)'
      BY <1>4, <1>5, <1>6, <2>1, <3>1
    <3>4. CASE trail[i].of = p
      BY <1>3, <1>5, <1>9, <3>2, <3>4 DEF Recorded
    <3>5. CASE trail[i].of # p
      <4>1. i \in Recorded(RepoActions, <<"repo", r>>) BY <1>6, <1>9, <3>5
      <4>2. i < k
        BY <1>0, <1>4, <1>5, <2>1, <3>1, <4>1 DEF Ordered, Recorded
      <4>3. k <= i BY <1>9, <3>3
      <4>4. i \in Nat /\ k \in Nat BY <1>1, <1>4, <4>1 DEF Recorded
      <4> QED BY <4>2, <4>3, <4>4
    <3> QED BY <3>4, <3>5
  <2>2. CASE ~(req[p].action \in RepoActions /\ req[p].arg = r)
    <3>1. Recorded(RepoActions, <<"repo", r>>)' = Recorded(RepoActions, <<"repo", r>>)
      <4>1. CASE req[p].action \notin RepoActions BY <1>7, <4>1
      <4>2. CASE req[p].action \in RepoActions
        <5>1. TargetOf(p) = <<"repo", req[p].arg>> /\ req[p].arg # r
          BY <1>1, <1>2, <2>2, <4>2, ControlPlaneAssumption
          DEF Holds, TargetOf, Rows, Arguments, RepoActions
        <5>2. TargetOf(p) # <<"repo", r>> BY <5>1
        <5> QED BY <1>7, <5>2
      <4> QED BY <4>1, <4>2
    <3>2. watched'[r] = watched[r]
      <4>1. CASE req[p].action \notin RepoActions BY <4>1 DEF Commit, RepoActions
      <4>2. CASE req[p].action \in RepoActions
        <5>1. req[p].row = <<"repo", req[p].arg>> /\ req[p].arg # r
          BY <1>1, <1>2, <2>2, <4>2 DEF Holds
        <5> QED BY <1>1, <4>2, <5>1 DEF Commit, RepoActions
      <4> QED BY <4>1, <4>2
    <3>3. trail'[i].action = trail[i].action BY <1>8, <1>9, <3>1
    <3> QED BY <1>0, <1>9, <3>1, <3>2, <3>3 DEF Told
  <2> QED BY <2>1, <2>2
<1>10. ASSUME NEW t \in Tokens
       PROVE  /\ token'[t] = None <=> Recorded({"token.create"}, <<"token", t>>)' = {}
              /\ token'[t] = Gone <=> Recorded({"token.revoke"}, <<"token", t>>)' # {}
              /\ token'[t] \in Roles =>
                   \E i \in Recorded({"token.create"}, <<"token", t>>)' : token'[t] = trail'[i].arg
  <2> DEFINE C == Recorded({"token.create"}, <<"token", t>>)
             R == Recorded({"token.revoke"}, <<"token", t>>)
  <2>0. /\ token[t] = None <=> C = {}
        /\ token[t] = Gone <=> R # {}
        /\ token[t] \in Roles => \E i \in C : token[t] = trail[i].arg
    BY <1>0 DEF Told
  <2>1. CASE req[p].row # <<"token", t>> \/ req[p].action \notin TokenActions
    <3>1. C' = C /\ R' = R
      <4>1. req[p].action \in TokenActions => TargetOf(p) # <<"token", t>>
        BY <2>1 DEF TargetOf
      <4>2. "token.create" \in TokenActions /\ "token.revoke" \in TokenActions
        BY DEF TokenActions
      <4>3. req[p].action \notin {"token.create"} \/ TargetOf(p) # <<"token", t>>
        BY <4>1, <4>2
      <4>4. req[p].action \notin {"token.revoke"} \/ TargetOf(p) # <<"token", t>>
        BY <4>1, <4>2
      <4> QED BY <1>7, <4>3, <4>4
    <3>2. token'[t] = token[t]
      <4>1. CASE req[p].action \notin TokenActions
        BY <4>1 DEF Commit, TokenActions
      <4>2. CASE req[p].action = "token.create" /\ req[p].row # <<"token", t>>
        BY <1>1, <1>2, <4>2 DEF Holds, Commit
      <4>3. CASE req[p].action = "token.revoke" /\ req[p].row # <<"token", t>>
        BY <1>1, <1>2, <4>3 DEF Holds, Commit
      <4> QED BY <2>1, <4>1, <4>2, <4>3 DEF TokenActions
    <3> QED BY <1>8, <2>0, <3>1, <3>2
  <2>2. CASE req[p].row = <<"token", t>> /\ req[p].action = "token.create"
    <3>1. /\ token' = [token EXCEPT ![t] = req[p].arg] /\ req[p].arg \in Roles
          /\ token[t] = None
      BY <1>1, <1>2, <2>2 DEF Holds, Commit, Arguments, TokenActions
    <3>2. TargetOf(p) = <<"token", t>>
      BY <2>2, ControlPlaneAssumption DEF TargetOf, Rows
    <3>3. k \in C' /\ trail'[k].arg = req[p].arg
      BY <1>3, <1>4, <1>5, <1>6, <2>2, <3>2
    <3>4. R' = R BY <1>7, <2>2
    <3>5. token'[t] = req[p].arg /\ req[p].arg \in Roles
      BY <1>1, <3>1
    <3>6. token'[t] \notin {None, Gone} BY <3>5, ControlPlaneAssumption
    <3>7. R = {} BY <2>0, <3>1, ControlPlaneAssumption
    <3> QED BY <3>3, <3>4, <3>5, <3>6, <3>7
  <2>3. CASE req[p].row = <<"token", t>> /\ req[p].action = "token.revoke"
    <3>1. req[p].row = <<"token", req[p].arg>> /\ token[req[p].arg] \in Roles
      BY <1>1, <1>2, <2>3 DEF Holds, TokenActions
    <3>2. req[p].arg = t BY <2>3, <3>1
    <3>3. token'[t] = Gone BY <1>1, <2>3 DEF Commit
    <3>4. TargetOf(p) = <<"token", t>>
      BY <2>3, ControlPlaneAssumption DEF TargetOf, Rows
    <3>5. k \in R' BY <1>4, <1>5, <1>6, <2>3, <3>4
    <3>6. C' = C BY <1>7, <2>3
    <3>7. C # {}
      <4>1. token[t] # None BY <3>1, <3>2, ControlPlaneAssumption
      <4> QED BY <2>0, <4>1
    <3> QED BY <3>3, <3>5, <3>6, <3>7, ControlPlaneAssumption
  <2> QED BY <2>1, <2>2, <2>3 DEF TokenActions
<1> QED BY <1>9, <1>10 DEF Told

\* A commit lets go of the row it changes; whoever has another row is not
\* disturbed, and whoever waits to commit waits on.
LEMMA CommitKeeps ==
  ASSUME IInv, NEW p \in Requests, Commit(p)
  PROVE  IInv'
<1>0. /\ TypeOK /\ Paths /\ Exclusive /\ Waiting /\ Announced /\ Ordered
      /\ Answered /\ Timed /\ ServedFresh /\ Told
  BY DEF IInv
<1>1. /\ trail \in Seq(Entries) /\ OnPath(p) /\ Holds(p)
      /\ req \in [Requests -> Request] /\ req[p] \in Request
      /\ watched \in [Repos -> BOOLEAN \cup {None}]
      /\ token \in [Tokens -> Roles \cup {None, Gone}]
  BY <1>0, Typed DEF Paths, Entries
<1>2. /\ req[p].pc = "commit" /\ trail' = Settled({p}, None)
      /\ req[p].action \in Actions \ {"graph"} /\ req[p].arg \in Arguments(req[p].action)
      /\ req' = [req EXCEPT ![p] = Free]
      /\ UNCHANGED <<clock, faults, env, cache, lock, arrived>>
  BY <1>1 DEF Commit, OnPath, Through
<1>3. /\ trail' \in Seq(Entries) /\ DOMAIN trail' = DOMAIN trail /\ Len(trail') = Len(trail)
      /\ \A i \in DOMAIN trail :
           /\ trail'[i].of = IF trail[i].of \in {p} THEN None ELSE trail[i].of
           /\ trail'[i].actor = trail[i].actor /\ trail'[i].action = trail[i].action
           /\ trail'[i].target = trail[i].target /\ trail'[i].arg = trail[i].arg
  <2>1. {p} \in SUBSET Requests /\ None \in {None, Gone} OBVIOUS
  <2> QED BY <1>1, <1>2, <2>1, SettledRows, Zenon
<1>4. /\ req' \in [Requests -> Request] /\ req'[p] = Free
      /\ \A q \in Requests \ {p} : req'[q] = req[q]
  BY <1>1, <1>2, FreeTyped
<1>5. TypeOK'
  <2>1. Taken' <= PoolSize
    <3>1. Taken <= PoolSize /\ req'[p].conns <= req[p].conns
      BY <1>0, <1>1, <1>4, FreeTyped DEF TypeOK, Request
    <3> QED BY <1>1, <1>4, <3>1, PoolKept
  <2>2. watched' \in [Repos -> BOOLEAN \cup {None}]
    BY <1>1 DEF Commit
  <2>3. token' \in [Tokens -> Roles \cup {None, Gone}]
    <3>1. req[p].action = "token.create" => req[p].arg \in Roles
      BY <1>2 DEF Arguments
    <3> QED BY <1>1, <3>1 DEF Commit
  <2> QED BY <1>0, <1>2, <1>3, <1>4, <2>1, <2>2, <2>3 DEF TypeOK, Request, Entries
<1>6. Paths'
  <2>1. ASSUME NEW q \in Requests PROVE OnPath(q)' /\ Holds(q)'
    <3>1. OnPath(q) /\ Holds(q) BY <1>0 DEF Paths
    <3>2. CASE q = p BY <1>4, <3>2, FreeTyped DEF OnPath, Holds
    <3>3. CASE q # p
      <4>1. req'[q] = req[q] BY <1>4, <3>3
      <4>2. OnPath(q)' BY <3>1, <4>1 DEF OnPath
      <4>3. ASSUME NEW t \in Tokens, req[q].row = <<"token", t>> PROVE token'[t] = token[t]
        <5>1. req[p].row # <<"token", t>>
          <6>1. req[q].row # None BY <4>3, ControlPlaneAssumption DEF Rows
          <6> QED BY <1>0, <3>3, <4>3, <6>1 DEF Exclusive
        <5>2. CASE req[p].action \notin TokenActions BY <5>2 DEF Commit, TokenActions
        <5>3. CASE req[p].action \in TokenActions
          <6>1. PICK u \in Tokens : req[p].row = <<"token", u>>
            BY <1>1, <1>2, <5>3 DEF Holds, TokenActions, Arguments
          <6>2. u # t BY <5>1, <6>1
          <6> QED BY <1>1, <5>3, <6>1, <6>2 DEF Commit, TokenActions
        <5> QED BY <5>2, <5>3
      <4>4. Holds(q)'
        <5>1. req[q].action = "token.revoke" /\ req[q].pc \in {"record", "commit"} =>
                req[q].arg \in Tokens
          BY <3>1 DEF OnPath, Arguments
        <5> QED BY <3>1, <4>1, <4>3, <5>1 DEF Holds
      <4> QED BY <4>2, <4>4
    <3> QED BY <3>2, <3>3
  <2> QED BY <2>1 DEF Paths
<1>7. Exclusive' BY <1>0, <1>4, FreeTyped DEF Exclusive
<1>8. Waiting'
  <2>1. ASSUME NEW i \in DOMAIN trail, NEW q \in Requests, trail'[i].of = q
        PROVE  /\ req'[q].pc = "commit" /\ trail'[i].action = req'[q].action
               /\ trail'[i].target = TargetOf(q)' /\ trail'[i].arg = req'[q].arg
    <3>1. trail[i].of = q /\ q # p BY <1>3, <2>1, ControlPlaneAssumption
    <3>2. /\ req[q].pc = "commit" /\ trail[i].action = req[q].action
          /\ trail[i].target = TargetOf(q) /\ trail[i].arg = req[q].arg
      BY <1>0, <3>1 DEF Waiting
    <3>3. req'[q] = req[q] BY <1>4, <3>1
    <3> QED BY <1>3, <3>2, <3>3 DEF TargetOf
  <2> QED BY <1>3, <2>1 DEF Waiting
<1>9. Announced'
  <2>1. ASSUME NEW q \in Requests, req'[q].pc = "commit"
        PROVE  \E i \in DOMAIN trail : trail'[i].of = q
    <3>1. q # p /\ req[q].pc = "commit" BY <1>4, <2>1, FreeTyped
    <3>2. PICK i \in DOMAIN trail : trail[i].of = q BY <1>0, <3>1 DEF Announced
    <3> QED BY <1>3, <3>1, <3>2
  <2> QED BY <1>3, <2>1 DEF Announced
<1>10. Ordered'
  <2>1. ASSUME NEW i \in DOMAIN trail, NEW j \in DOMAIN trail,
               trail'[i].of \in Requests, trail'[j].of = None,
               trail'[i].action \in RepoActions, trail'[j].action \in RepoActions,
               trail'[i].target = trail'[j].target
        PROVE  j < i
    <3>1. /\ trail[i].of \in Requests \ {p} /\ trail[j].of \in {p, None}
          /\ trail[i].action \in RepoActions /\ trail[j].action \in RepoActions
          /\ trail[i].target = trail[j].target
      BY <1>3, <2>1, ControlPlaneAssumption
    <3>2. trail[j].of # p
      <4> SUFFICES ASSUME trail[j].of = p PROVE FALSE
        OBVIOUS
      <4> PICK q \in Requests \ {p} : trail[i].of = q BY <3>1
      <4>1. /\ req[q].pc = "commit" /\ req[q].action \in RepoActions
            /\ req[p].action \in RepoActions /\ TargetOf(q) = TargetOf(p)
        BY <1>0, <3>1 DEF Waiting
      <4>2. OnPath(q) /\ Holds(q) BY <1>0 DEF Paths
      <4>3. req[q].arg \in Repos /\ req[p].arg \in Repos
        BY <1>2, <4>1, <4>2 DEF OnPath, Arguments, RepoActions
      <4>4. req[q].row \in Rows /\ req[p].row \in Rows
        <5>1. req[q].row = <<"repo", req[q].arg>> BY <4>1, <4>2 DEF Holds
        <5>2. req[p].row = <<"repo", req[p].arg>> BY <1>1, <1>2, <4>1 DEF Holds
        <5> QED BY <4>3, <5>1, <5>2 DEF Rows
      <4>5. req[q].row = req[p].row /\ req[q].row # None
        BY <4>1, <4>4, ControlPlaneAssumption DEF TargetOf
      <4> QED BY <1>0, <4>5 DEF Exclusive
    <3> QED BY <1>0, <3>1, <3>2 DEF Ordered
  <2> QED BY <1>3, <2>1 DEF Ordered
<1>11. Answered'
  <2>1. ASSUME NEW actor, NEW action, NEW n, Entitled(trail, actor, action, n)
        PROVE  Entitled(trail', actor, action, n)
    BY <1>3, <2>1, ControlPlaneAssumption DEF Entitled
  <2> QED BY <1>0, <1>3, <1>4, <2>1, FreeTyped DEF Answered
<1>12. Timed'
  <2>1. \A q \in Requests : req'[q].pc = "build" => req'[q] = req[q] BY <1>4, FreeTyped
  <2> QED BY <1>0, <1>2, <2>1 DEF Timed
<1>13. ServedFresh'
  <2>1. req'[p].age <= BuildTime BY <1>4, FreeTyped, ControlPlaneAssumption
  <2> QED BY <1>0, <1>4, <2>1 DEF ServedFresh
<1>14. Told' BY CommitTells
<1> QED
  BY <1>5, <1>6, <1>7, <1>8, <1>9, <1>10, <1>11, <1>12, <1>13, <1>14 DEF IInv

\* A restart empties every place, and what waited for its commit never comes.
LEMMA RestartKeeps ==
  ASSUME IInv, Restart
  PROVE  IInv'
<1>0. TypeOK /\ Ordered /\ Answered /\ Told BY DEF IInv
<1>1. /\ trail \in Seq(Entries) /\ trail' = Settled(Requests, Gone)
      /\ req' = [p \in Requests |-> Free] /\ cache' = None /\ lock' = None
      /\ faults' \in 0..MaxFaults /\ env' \in Settings
      /\ UNCHANGED <<clock, watched, token, arrived>>
  BY <1>0, ControlPlaneAssumption, Typed DEF Restart, Entries, TypeOK
<1>2. /\ trail' \in Seq(Entries) /\ DOMAIN trail' = DOMAIN trail /\ Len(trail') = Len(trail)
      /\ \A i \in DOMAIN trail :
           /\ trail'[i].of = IF trail[i].of \in Requests THEN Gone ELSE trail[i].of
           /\ trail'[i].actor = trail[i].actor /\ trail'[i].action = trail[i].action
           /\ trail'[i].target = trail[i].target /\ trail'[i].arg = trail[i].arg
  <2>1. Requests \in SUBSET Requests /\ Gone \in {None, Gone} OBVIOUS
  <2> QED BY <1>1, <2>1, SettledRows, Zenon
<1>3. \A i \in DOMAIN trail : trail'[i].of \notin Requests /\ (trail'[i].of = None <=> trail[i].of = None)
  BY <1>2, ControlPlaneAssumption
<1>4. /\ req' \in [Requests -> Request] /\ \A p \in Requests : req'[p] = Free
  BY <1>1, FreeTyped
<1>5. TypeOK'
  <2>1. {s \in Requests \X {1, 2} : s[2] <= req'[s[1]].conns} = {}
    BY <1>4, FreeTyped
  <2>2. Taken' = Cardinality({}) BY <2>1 DEF Taken
  <2>3. Taken' <= PoolSize BY <2>2, FS_EmptySet, ControlPlaneAssumption
  <2> QED BY <1>0, <1>1, <1>2, <1>4, <2>3 DEF TypeOK, Request, Entries
<1>6. Paths' /\ Exclusive' /\ Announced'
  BY <1>4, FreeTyped DEF Paths, OnPath, Holds, Exclusive, Announced
<1>7. Waiting' /\ Ordered' BY <1>2, <1>3 DEF Waiting, Ordered
<1>8. Answered'
  <2>1. ASSUME NEW actor, NEW action, NEW n, Entitled(trail, actor, action, n)
        PROVE  Entitled(trail', actor, action, n)
    BY <1>2, <1>3, <2>1 DEF Entitled
  <2> QED BY <1>0, <1>2, <1>4, <2>1, FreeTyped DEF Answered
<1>9. Timed' /\ ServedFresh'
  BY <1>1, <1>4, FreeTyped, ControlPlaneAssumption DEF Timed, ServedFresh
<1>10. Told'
  <2>1. \A actions, target : Recorded(actions, target)' = Recorded(actions, target)
    BY <1>2, <1>3 DEF Recorded
  <2> QED BY <1>0, <1>1, <1>2, <2>1, ToldKept
<1> QED
  BY <1>5, <1>6, <1>7, <1>8, <1>9, <1>10 DEF IInv

\* Other writers store repositories, and time passes no further than the build
\* that is under way.
LEMMA AroundKeeps ==
  ASSUME IInv, (\E r \in Repos : Discovered(r)) \/ Tick \/ UNCHANGED vars
  PROVE  IInv'
<1>0. /\ TypeOK /\ Paths /\ Exclusive /\ Waiting /\ Announced /\ Ordered
      /\ Answered /\ Timed /\ ServedFresh /\ Told
  BY DEF IInv
<1>1. /\ UNCHANGED <<faults, env, token, trail, req, cache, lock, arrived>>
      /\ watched' = watched \/ \E r \in Repos : watched' = Upserted(r)
  BY DEF Discovered, Tick, vars
<1>2. Taken' = Taken BY <1>1 DEF Taken
<1>3. clock' \in 0..MaxTime /\ clock <= clock' /\ (clock' = clock \/ Tick)
  BY <1>0, ControlPlaneAssumption DEF TypeOK, Discovered, Tick, vars
<1>4. TypeOK'
  <2>1. watched' \in [Repos -> BOOLEAN \cup {None}]
    BY <1>0, <1>1 DEF TypeOK, Upserted
  <2> QED BY <1>0, <1>1, <1>2, <1>3, <2>1 DEF TypeOK
<1>5. Paths' BY <1>0, <1>1 DEF Paths, OnPath, Holds
<1>6. Exclusive' BY <1>0, <1>1 DEF Exclusive
<1>7. Waiting' BY <1>0, <1>1 DEF Waiting, TargetOf
<1>8. Announced' BY <1>0, <1>1 DEF Announced
<1>9. Ordered' BY <1>0, <1>1 DEF Ordered
<1>10. Answered' BY <1>0, <1>1 DEF Answered
<1>11. Timed'
  <2>1. clock \in 0..MaxTime /\ cache \in {None} \cup [at : 0..MaxTime, begun : 0..MaxTime]
        /\ \A p \in Requests : req[p].begun \in 0..MaxTime
    BY <1>0, Typed DEF Request
  <2>2. ASSUME NEW p \in Requests, req[p].pc = "build"
        PROVE  req[p].begun <= clock' /\ clock' - req[p].begun <= BuildTime
    <3>1. req[p].begun <= clock /\ clock - req[p].begun <= BuildTime BY <1>0, <2>2 DEF Timed
    <3>2. CASE clock' = clock BY <3>1, <3>2
    <3>3. CASE Tick BY <2>1, <2>2, <3>1, <3>3, ControlPlaneAssumption DEF Tick
    <3> QED BY <1>3, <3>2, <3>3
  <2>3. cache # None => cache.begun <= cache.at /\ cache.at <= clock' /\ cache.at - cache.begun <= BuildTime
    BY <1>0, <1>3, <2>1, ControlPlaneAssumption DEF Timed
  <2> QED BY <1>1, <2>2, <2>3 DEF Timed
<1>12. ServedFresh' BY <1>0, <1>1 DEF ServedFresh
<1>13. Told' BY <1>0, <1>1, SameTrail, ToldKept
<1> QED
  BY <1>4, <1>5, <1>6, <1>7, <1>8, <1>9, <1>10, <1>11, <1>12, <1>13 DEF IInv

\* At first every place is free and the trail is empty.
LEMMA InitInv ==
  ASSUME Init PROVE IInv
<1>1. /\ trail = <<>> /\ DOMAIN trail = {} /\ Len(trail) = 0
      /\ req = [p \in Requests |-> Free] /\ \A p \in Requests : req[p] = Free
      /\ clock = 0 /\ cache = None /\ token = [t \in Tokens |-> None]
  BY DEF Init
<1>2. TypeOK
  <2>1. {s \in Requests \X {1, 2} : s[2] <= req[s[1]].conns} = {}
    BY <1>1, FreeTyped
  <2>2. Taken <= PoolSize
    <3>1. Taken = Cardinality({}) BY <2>1 DEF Taken
    <3> QED BY <3>1, FS_EmptySet, ControlPlaneAssumption
  <2>3. req \in [Requests -> Request] BY <1>1, FreeTyped
  <2>4. /\ watched \in [Repos -> BOOLEAN \cup {None}]
        /\ token \in [Tokens -> Roles \cup {None, Gone}]
    BY DEF Init
  <2> QED BY <2>2, <2>3, <2>4, ControlPlaneAssumption DEF Init, TypeOK, Request
<1>3. Paths /\ Exclusive /\ Announced
  BY <1>1, FreeTyped DEF Paths, OnPath, Holds, Exclusive, Announced
<1>4. Waiting /\ Ordered BY <1>1 DEF Waiting, Ordered
<1>5. Answered BY <1>1, FreeTyped DEF Answered
<1>6. Timed /\ ServedFresh
  BY <1>1, FreeTyped, ControlPlaneAssumption DEF Timed, ServedFresh
<1>7. Told
  <2>1. \A actions, target : Recorded(actions, target) = {} BY <1>1 DEF Recorded
  <2>2. \A t \in Tokens : token[t] = None BY <1>1
  <2> QED BY <2>1, <2>2, ControlPlaneAssumption DEF Told
<1> QED BY <1>2, <1>3, <1>4, <1>5, <1>6, <1>7 DEF IInv

\* The invariant is inductive.
LEMMA StepInv ==
  ASSUME IInv, [Next]_vars PROVE IInv'
<1>1. ASSUME NEW p \in Requests, Step(p) PROVE IInv'
  <2>1. CASE Commit(p) BY <2>1, CommitKeeps
  <2>2. CASE Record(p)
    <3>1. CASE Refuse(p)
      <4>1. req[p].pc # "commit" BY <2>2 DEF Record
      <4> QED BY <3>1, <4>1, RefuseWorks, WorksKeeps
    <3> QED BY <2>2, <3>1, RecordKeeps
  <2>3. CASE Works(p) BY <2>3, WorksKeeps
  <2> QED
    BY <1>1, <2>1, <2>2, <2>3, MovesWork, RefusalsWork, GraphWorks, SyncWorks, LocksWork
    DEF Step, Endpoint
<1>2. ASSUME NEW p \in Requests, NEW action \in Actions, NEW cred \in Credentials,
             NEW arg \in Arguments(action), req[p].pc = "idle", Arrive(p, action, arg, cred)
      PROVE  IInv'
  BY <1>2, ArriveWorks, WorksKeeps
<1>3. ASSUME NEW p \in Requests, TransactionLost(p) PROVE IInv'
  BY <1>3, SyncWorks, WorksKeeps
<1>4. CASE Restart BY <1>4, RestartKeeps
<1>5. CASE (\E r \in Repos : Discovered(r)) \/ Tick \/ UNCHANGED vars BY <1>5, AroundKeeps
<1> QED BY <1>1, <1>2, <1>3, <1>4, <1>5 DEF Next

LEMMA Invariance == Spec => []IInv
<1>1. Init => IInv BY InitInv
<1>2. IInv /\ [Next]_vars => IInv' BY StepInv
<1> QED BY <1>1, <1>2, PTL DEF Spec
-----------------------------------------------------------------------------
(* Theorems *)

\* Indices of the trail, if any, have a greatest one.
LEMMA LastIndex ==
  ASSUME NEW n \in Nat, NEW S \in SUBSET (1..n), S # {}
  PROVE  Max(S) \in S /\ \A m \in S : m <= Max(S)
<1> DEFINE From(k) == {m \in S : m >= k}
           Sets == {From(k) : k \in S}
<1>1. \A m \in S : m \in Nat OBVIOUS
<1>2. IsFiniteSet(S)
  <2>1. IsFiniteSet(1..n) BY 1 \in Int, n \in Int, FS_Interval
  <2> QED BY <2>1, FS_Subset
<1>3. Sets \subseteq FiniteSubsetsOf(S) BY <1>2, FS_Subset DEF FiniteSubsetsOf
<1>4. IsWellFoundedOn(StrictSubsetOrdering(S), FiniteSubsetsOf(S))
  BY FS_StrictSubsetOrderingWellFounded
<1>5. PICK T \in Sets : \A U \in Sets : <<U, T>> \notin StrictSubsetOrdering(S)
  <2>1. Sets # {} OBVIOUS
  <2> HIDE DEF Sets
  <2> QED BY <1>3, <1>4, <2>1, WFMin
<1>6. PICK k \in S : T = From(k) OBVIOUS
<1>7. ASSUME NEW m \in S PROVE m <= k
  <2>1. CASE m > k
    <3>1. From(m) \subseteq From(k) /\ k \in From(k) /\ k \notin From(m)
      <4>1. k \in Nat /\ m \in Nat BY <1>1
      <4>2. \A j \in S : j >= m => j >= k BY <1>1, <2>1, <4>1
      <4>3. From(m) \subseteq From(k) BY <4>2
      <4>4. k \in From(k) BY <4>1
      <4>5. k \notin From(m) BY <2>1, <4>1
      <4> QED BY <4>3, <4>4, <4>5
    <3>2. <<From(m), T>> \in StrictSubsetOrdering(S) BY <1>6, <3>1 DEF StrictSubsetOrdering
    <3> QED BY <1>5, <3>2
  <2> QED BY <1>1, <2>1
<1>8. k \in S /\ \A m \in S : k >= m BY <1>1, <1>7
<1>9. Max(S) \in S /\ \A m \in S : Max(S) >= m BY <1>8 DEF Max
<1> QED BY <1>1, <1>9

\* The state has its types, and the sessions never hold more connections than
\* the pool has.
THEOREM ControlPlaneTypeCorrect == Spec => []TypeOK
<1>1. IInv => TypeOK BY DEF IInv
<1> QED BY <1>1, Invariance, PTL

\* A served graph was begun no more than one build ago, or less than one build
\* and the TTL, however the requests queue for the cache's lock.
THEOREM ServedFreshThm == Spec => []ServedFresh
<1>1. IInv => ServedFresh BY DEF IInv
<1> QED BY <1>1, Invariance, PTL

\* The last committed row about a repository says whether it is watched, and the
\* rows about a token whether it is valid and for which role.
THEOREM TrailTellsStateThm == Spec => []TrailTellsState
<1>1. ASSUME IInv PROVE TrailTellsState
  <2>1. Told /\ trail \in Seq(Entries) BY <1>1, Typed DEF IInv, Entries
  <2>2. ASSUME NEW r \in Repos, Recorded(RepoActions, <<"repo", r>>) # {}
        PROVE  watched[r] =
                 (trail[Max(Recorded(RepoActions, <<"repo", r>>))].action = "repo.add")
    <3>1. Recorded(RepoActions, <<"repo", r>>) \in SUBSET (1..Len(trail)) /\ Len(trail) \in Nat
      BY <2>1 DEF Recorded
    <3>2. /\ Max(Recorded(RepoActions, <<"repo", r>>)) \in Recorded(RepoActions, <<"repo", r>>)
          /\ \A j \in Recorded(RepoActions, <<"repo", r>>) :
               j <= Max(Recorded(RepoActions, <<"repo", r>>))
      BY <2>2, <3>1, LastIndex
    <3> QED BY <2>1, <3>2 DEF Told
  <2> QED BY <2>1, <2>2 DEF TrailTellsState, Told, RepoActions
<1> QED BY <1>1, Invariance, PTL

\* The actor of every recorded action is the operate token, or a named token
\* whose creation, with a role that allows the action, the trail shows before.
THEOREM ActorsAccountedForThm == Spec => []ActorsAccountedFor
<1>1. ASSUME IInv PROVE ActorsAccountedFor
  <2>1. Answered /\ trail \in Seq(Entries) BY <1>1, Typed DEF IInv, Entries
  <2>2. ASSUME NEW i \in DOMAIN trail, trail[i].actor # "operate"
        PROVE  \E j \in 1..(i - 1) :
                 /\ j \in Recorded({"token.create"}, <<"token", trail[i].actor>>)
                 /\ Rank[trail[j].arg] >= Rank[Needed(trail[i].action)]
    <3>1. PICK j \in DOMAIN trail :
            /\ j < i /\ trail[j].of = None /\ trail[j].action = "token.create"
            /\ trail[j].target = <<"token", trail[i].actor>>
            /\ Rank[trail[j].arg] >= Rank[Needed(trail[i].action)]
      BY <2>1, <2>2 DEF Answered, Entitled
    <3>2. j \in 1..(i - 1) BY <2>1, <3>1
    <3> QED BY <3>1, <3>2 DEF Recorded
  <2> QED BY <2>2 DEF ActorsAccountedFor
<1> QED BY <1>1, Invariance, PTL
-----------------------------------------------------------------------------
(* Waits *)

\* Whoever has been answered has no connection, whoever has the cache's lock is
\* at work in it, and whoever builds has the connection for it.
Left ==
  \A p \in Requests :
    /\ req[p].pc = "idle" => req[p].conns = 0
    /\ req[p].pc = "build" => req[p].conns = 1
    /\ lock = p => req[p].pc \in {"locked", "build"}

\* A request that is not in the lock goes on, and does not begin to build.
LEMMA MovesOn ==
  ASSUME Left, NEW p \in Requests, lock' = lock, \A q \in Requests \ {p} : req'[q] = req[q],
         req[p].pc \notin {"locked", "build"}, req'[p].pc \notin {"idle", "build"}
  PROVE  Left'
BY DEF Left

LEMMA GoesOn ==
  ASSUME TypeOK, Left, NEW p \in Requests, NEW pc \in Steps \ {"build"}, NEW n \in 0..2,
         Goes(p, pc, n), lock' = lock, req[p].pc \notin {"locked", "build"}
  PROVE  Left'
<1>1. req \in [Requests -> Request] BY Typed
<1>2. /\ req'[p].pc = pc /\ pc # "idle"
      /\ \A q \in Requests \ {p} : req'[q] = req[q]
  BY <1>1 DEF Goes, Request, Steps
<1> QED BY <1>2, MovesOn

\* A request that is answered gives the lock back.
LEMMA Ends ==
  ASSUME TypeOK, Left, NEW p \in Requests, NEW age, Answer(p, age)
  PROVE  Left'
<1>1. req \in [Requests -> Request] BY Typed
<1>2. /\ req'[p].pc = "idle" /\ req'[p].conns = 0
      /\ \A q \in Requests \ {p} : req'[q] = req[q]
      /\ lock' # p /\ lock' \in {None, lock}
  BY <1>1, ControlPlaneAssumption DEF Answer, Free
<1> QED BY <1>2, ControlPlaneAssumption DEF Left

\* The steps outside the lock.
LEMMA OutsideLeft ==
  ASSUME TypeOK, Left, NEW p \in Requests,
         \/ AddRepo(p) \/ ListRuns(p) \/ RepoSynced(p) \/ FetchFails(p) \/ Reread(p) \/ RemoveRepo(p)
         \/ Synced(p) \/ RevokeToken(p)
         \/ Rerun(p) \/ UploadSarif(p) \/ RequireCheck(p) \/ GitHubDone(p) \/ GitHubRejects(p)
         \/ VerifyCampaign(p) \/ AuditTarget(p) \/ TargetDone(p) \/ ExportEvidence(p)
  PROVE  Left'
<1>1. CASE Refuse(p) BY <1>1, Ends DEF Refuse
<1>2. CASE /\ lock' = lock /\ req[p].pc \notin {"locked", "build"}
           /\ \E pc \in Steps \ {"build"}, n \in 0..2 : Goes(p, pc, n)
  BY <1>2, GoesOn
<1>3. {"write", "fetch", "runs", "sync", "reread", "record", "github", "targets", "audit"} \subseteq Steps \ {"build"}
      /\ {0, 1, 2} \subseteq 0..2
  BY DEF Steps
<1>4. CASE AddRepo(p) \/ ListRuns(p) \/ RepoSynced(p) \/ Reread(p) \/ Synced(p)
  BY <1>2, <1>3, <1>4 DEF AddRepo, ListRuns, RepoSynced, Reread, Synced, Begins, Alone
<1>5. CASE RevokeToken(p) \/ VerifyCampaign(p) \/ ExportEvidence(p) \/ AuditTarget(p) \/ TargetDone(p)
  BY <1>2, <1>3, <1>5 DEF RevokeToken, VerifyCampaign, ExportEvidence, AuditTarget, TargetDone, Begins, Alone
<1>6. CASE Rerun(p) \/ GitHubDone(p)
  BY <1>2, <1>3, <1>6 DEF Rerun, GitHubDone, CallsGitHub, Begins, Alone
<1>7. CASE UploadSarif(p) \/ RequireCheck(p) \/ RemoveRepo(p)
  BY <1>1, <1>2, <1>3, <1>7 DEF UploadSarif, RequireCheck, RemoveRepo, CallsGitHub, Begins, Alone
<1>8. CASE FetchFails(p) \/ GitHubRejects(p)
  BY <1>1, <1>8 DEF FetchFails, GitHubRejects
<1> QED BY <1>4, <1>5, <1>6, <1>7, <1>8

\* The steps that change other fields too.
LEMMA WritesLeft ==
  ASSUME TypeOK, Left, NEW p \in Requests,
         \/ OfflineSync(p) \/ (\E r \in Repos : StoreRepo(p, r)) \/ RepoFails(p)
         \/ CreateToken(p) \/ WriteRow(p) \/ Record(p) \/ Commit(p)
         \/ TransactionLost(p)
         \/ \E action \in Actions, cred \in Credentials :
              \E arg \in Arguments(action) : req[p].pc = "idle" /\ Arrive(p, action, arg, cred)
  PROVE  Left'
<1>0. req \in [Requests -> Request] BY Typed
<1>1. CASE Refuse(p) BY <1>1, Ends DEF Refuse
<1>2. CASE OfflineSync(p)
  <2>1. CASE /\ req' = [req EXCEPT ![p].pc = "sync", ![p].conns = 0, ![p].todo = OfflineRepos]
             /\ lock' = lock /\ req[p].pc = "resolved"
    <3>1. req'[p].pc = "sync" /\ \A q \in Requests \ {p} : req'[q] = req[q]
      BY <1>0, <2>1 DEF Request
    <3> QED BY <2>1, <3>1, MovesOn
  <2> QED BY <1>1, <1>2, <2>1 DEF OfflineSync, Begins, Alone
<1>3. CASE \E r \in Repos : StoreRepo(p, r)
  <2> PICK r \in Repos : StoreRepo(p, r) BY <1>3
  <2>0. req' = [req EXCEPT ![p].pc = "stored", ![p].conns = 0, ![p].todo = @ \ {r}]
    BY DEF StoreRepo
  <2>1. /\ req'[p].pc = "stored" /\ req[p].pc \in {"fetch", "sync"} /\ lock' = lock
        /\ \A q \in Requests \ {p} : req'[q] = req[q]
    BY <1>0, <2>0 DEF StoreRepo, Request
  <2> QED BY <2>1, MovesOn
<1>4. CASE CreateToken(p)
  <2>1. req'[p].pc = "record" /\ \A q \in Requests \ {p} : req'[q] = req[q]
    BY <1>0, <1>4 DEF CreateToken, Request
  <2> QED BY <1>4, <2>1, MovesOn DEF CreateToken, Begins, Alone
<1>5. CASE WriteRow(p)
  <2>1. CASE req' = [req EXCEPT ![p].pc = "record", ![p].row = RowOf(p)] /\ Alone /\ req[p].pc = "write"
    <3>1. req'[p].pc = "record" /\ \A q \in Requests \ {p} : req'[q] = req[q]
      BY <1>0, <2>1 DEF Request
    <3> QED BY <2>1, <3>1, MovesOn DEF Alone
  <2> QED BY <1>1, <1>5, <2>1 DEF WriteRow
<1>6. CASE Record(p)
  <2>1. "commit" \in Steps \ {"build"} /\ 1 \in 0..2 BY DEF Steps
  <2> QED BY <1>1, <1>6, <2>1, GoesOn DEF Record
<1>7. CASE Commit(p)
  <2>1. /\ req'[p].pc = "idle" /\ req'[p].conns = 0 /\ req[p].pc = "commit" /\ lock' = lock
        /\ \A q \in Requests \ {p} : req'[q] = req[q]
    BY <1>0, <1>7 DEF Commit, Free
  <2> QED BY <2>1 DEF Left
<1>8. CASE TransactionLost(p)
  <2>1. /\ req'[p].pc = req[p].pc /\ \A q \in Requests \ {p} : req'[q] = req[q]
    BY <1>0, <1>8 DEF TransactionLost, Request
  <2> QED BY <1>8, <2>1, MovesOn DEF TransactionLost
<1>9. CASE \E action \in Actions, cred \in Credentials :
             \E arg \in Arguments(action) : req[p].pc = "idle" /\ Arrive(p, action, arg, cred)
  <2>1. PICK action \in Actions, cred \in Credentials :
               \E arg \in Arguments(action) : Arrive(p, action, arg, cred)
    BY <1>9
  <2>2. PICK arg \in Arguments(action) : Arrive(p, action, arg, cred)
    BY <2>1
  <2> DEFINE who == Identity(cred).actor
             conns == IF Queries(cred) THEN 1 ELSE 0
  <2>3. req' = [req EXCEPT ![p] = [Free EXCEPT !.pc = "resolved", !.action = action, !.arg = arg,
                                               !.actor = who, !.conns = conns]]
    BY <2>2 DEF Arrive
  <2> HIDE DEF who, conns
  <2>4. req'[p].pc = "resolved" /\ \A q \in Requests \ {p} : req'[q] = req[q]
    BY <1>0, <2>3 DEF Free
  <2> QED BY <1>9, <2>4, MovesOn DEF Arrive
<1>10. CASE RepoFails(p)
  <2>1. /\ req'[p].pc = "sync" /\ req[p].pc \in {"runs", "sync"} /\ lock' = lock
        /\ \A q \in Requests \ {p} : req'[q] = req[q]
    BY <1>0, <1>10 DEF RepoFails, Goes, Request, Alone
  <2> QED BY <2>1, MovesOn
<1> QED BY <1>2, <1>3, <1>4, <1>5, <1>6, <1>7, <1>8, <1>9, <1>10

\* The lock and the pool.
LEMMA LockLeft ==
  ASSUME TypeOK, Left, NEW p \in Requests,
         GetGraph(p) \/ Acquire(p) \/ BuildStart(p) \/ BuildEnd(p) \/ PoolTimeout(p)
  PROVE  Left'
<1>0. req \in [Requests -> Request] /\ req[p] \in Request BY Typed
<1>1. CASE \E age : Answer(p, age) BY <1>1, Ends
<1>2. CASE GetGraph(p)
  <2>1. "wait" \in Steps \ {"build"} /\ req[p].conns \in 0..2 BY <1>0 DEF Steps, Request
  <2> QED BY <1>1, <1>2, <2>1, GoesOn DEF GetGraph, Serve, Alone
<1>3. CASE Acquire(p)
  <2>1. CASE lock' = p /\ lock = None /\ Goes(p, "locked", req[p].conns)
    <3>1. req'[p].pc = "locked" /\ \A q \in Requests \ {p} : req'[q] = req[q]
      BY <1>0, <2>1 DEF Goes, Request
    <3> QED BY <2>1, <3>1 DEF Left
  <2> QED BY <1>1, <1>3, <2>1 DEF Acquire, Serve
<1>4. CASE BuildStart(p)
  <2>1. /\ req'[p].pc = "build" /\ req'[p].conns = 1 /\ lock' = lock
        /\ \A q \in Requests \ {p} : req'[q] = req[q]
    BY <1>0, <1>4 DEF BuildStart, Request, Alone
  <2> QED BY <2>1 DEF Left
<1>5. CASE BuildEnd(p) BY <1>1, <1>5 DEF BuildEnd
<1>6. CASE PoolTimeout(p)
  <2>1. {"record", "sync"} \subseteq Steps \ {"build"} /\ req[p].conns \in 0..2
    BY <1>0 DEF Steps, Request
  <2> QED BY <1>1, <1>6, <2>1, GoesOn DEF PoolTimeout, GoesOnWithout, Refuse, Alone
<1> QED BY <1>2, <1>3, <1>4, <1>5, <1>6

LEMMA LeftHolds == Spec => []Left
<1>1. Init => Left BY FreeTyped, ControlPlaneAssumption DEF Init, Left
<1>2. TypeOK /\ Left /\ [Next]_vars => Left'
  <2> SUFFICES ASSUME TypeOK, Left, [Next]_vars PROVE Left'
    OBVIOUS
  <2>1. ASSUME NEW p \in Requests, Step(p) PROVE Left'
    BY <2>1, OutsideLeft, WritesLeft, LockLeft DEF Step, Endpoint
  <2>2. CASE Restart
    BY <2>2, FreeTyped, ControlPlaneAssumption DEF Restart, Left
  <2>3. CASE (\E r \in Repos : Discovered(r)) \/ Tick \/ UNCHANGED vars
    BY <2>3 DEF Discovered, Tick, vars, Left
  <2> QED BY <2>1, <2>2, <2>3, WritesLeft DEF Next
<1>3. IInv => TypeOK BY DEF IInv
<1> QED BY <1>1, <1>2, <1>3, Invariance, PTL DEF Spec

\* Nobody waits for a waiter: whoever is answered leaves nothing taken or locked,
\* and whoever a request waits for can go on or gives up.
THEOREM WaitsEndThm == Spec => []WaitsEnd
<1>1. IInv /\ Left => WaitsEnd
  <2> SUFFICES ASSUME IInv, Left, NEW p \in Requests
               PROVE  /\ req[p].pc = "idle" => req[p].conns = 0 /\ req[p].row = None /\ lock # p
                      /\ \A q \in WaitsFor(p) : WaitsFor(q) = {} /\ (Fits(q, 1) \/ NeedsOneMore(q))
    BY DEF WaitsEnd
  <2>0. req \in [Requests -> Request] /\ Paths /\ Taken <= PoolSize BY Typed DEF IInv
  <2>1. req[p].pc = "idle" => req[p].conns = 0 /\ req[p].row = None /\ lock # p
    BY <2>0 DEF Left, Paths, Holds
  <2>2. ASSUME NEW q \in WaitsFor(p)
        PROVE  \/ req[q].pc \in {"record", "commit", "build"} /\ req[q].conns = 1
               \/ req[q].pc = "locked"
    <3>1. q \in Requests BY DEF WaitsFor
    <3>2. CASE req[p].pc = "write" /\ req[q].row = RowOf(p)
      <4>1. req[p].action \in RepoActions \cup {"token.revoke"} /\ req[p].arg \in Arguments(req[p].action)
        BY <2>0, <3>2 DEF Paths, OnPath, Through
      <4>2. RowOf(p) \in Rows BY <4>1 DEF RowOf, RepoActions, Arguments, Rows
      <4>3. req[q].pc \in {"record", "commit"}
        BY <2>0, <3>1, <3>2, <4>2, ControlPlaneAssumption DEF Paths, Holds
      <4> QED BY <2>0, <3>1, <4>3 DEF Paths, OnPath
    <3>3. CASE lock = q BY <3>1, <3>3 DEF Left
    <3> QED BY <3>2, <3>3 DEF WaitsFor
  <2>3. ASSUME NEW q \in WaitsFor(p) PROVE WaitsFor(q) = {} BY <2>2, <2>3 DEF WaitsFor
  <2>4. ASSUME NEW q \in WaitsFor(p) PROVE Fits(q, 1) \/ NeedsOneMore(q)
    <3>1. q \in Requests /\ req[q].conns \in 0..2 BY <2>0 DEF WaitsFor, Request
    <3>2. CASE req[q].conns = 0
      BY <2>2, <3>1, <3>2 DEF NeedsOneMore
    <3>3. CASE req[q].conns > 0
      <4>1. Taken \in Nat
        <5>1. IsFiniteSet({s \in Requests \X {1, 2} : s[2] <= req[s[1]].conns})
          <6> DEFINE c == [r \in Requests |-> req[r].conns]
          <6>1. Slots(c) = {s \in Requests \X {1, 2} : s[2] <= req[s[1]].conns} BY DEF Slots
          <6> QED BY <6>1, SlotsFinite
        <5> QED BY <5>1, FS_CardinalityType DEF Taken
      <4> QED BY <2>0, <3>1, <3>3, <4>1, ControlPlaneAssumption DEF Fits
    <3> QED BY <3>1, <3>2, <3>3
  <2> QED BY <2>1, <2>3, <2>4
<1> QED BY <1>1, Invariance, LeftHolds, PTL
=============================================================================
