------------------------------ MODULE Campaign ------------------------------
(***************************************************************************)
(* A pin-shas campaign (executor/campaigns.py, executor/service.py): the   *)
(* dry run computes a diff per repository and the tag -> SHA map; apply,   *)
(* requested by an operator and possibly by several at once, recomputes    *)
(* the edits with that map and opens a pull request per repository.        *)
(*                                                                         *)
(* Both are single database transactions around many GitHub calls: the     *)
(* calls take effect one by one, the rows change only at the commit.       *)
(* Git names a blob by its content, so a file's content stands for its     *)
(* blob sha.  A repository's files are read in one step.                   *)
(***************************************************************************)
EXTENDS Integers, FiniteSets

CONSTANTS
  Repos, Files, Refs,  \* target repositories, workflow files, action refs
  Shas,                \* commits of the actions
  Immutable,           \* refs backed by an immutable release
  Appliers,            \* apply requests that can be in flight at once
  Mutable, Unused,     \* how a file uses a ref when not by a SHA
  None,
  Limit,               \* how often each kind of event may happen
  Together             \* which kinds of events, applies aside, in one behaviour

Kinds == {"early", "retag", "push", "delete", "failure", "crash", "apply"}

Content  == [Refs -> Shas \cup {Mutable, Unused}]
Tree     == [Files -> Content]
Resolved == [Refs -> Shas \cup {None}]

ASSUME CampaignAssumption ==
  /\ Mutable \notin Shas /\ Unused \notin Shas /\ Mutable # Unused
  /\ None \notin Shas \cup {Mutable, Unused} \cup Repos \cup Tree
  /\ Immutable \subseteq Refs
  /\ Limit \in [Kinds -> Nat] /\ Together \subseteq SUBSET Kinds

\* What a diff shows: every file before and after.
Diff   == [old : Tree, new : Tree]
NoDiff == [old |-> None, new |-> None]

VARIABLES
  tag,            \* GitHub: the commit each action ref points at
  head,           \* GitHub: the default branch of each repository
  branch, base,   \* GitHub: the campaign's branch, and what it started from
  pr,             \* GitHub: the last pull request of that branch
  dry,            \* the dry run in progress
  status, resolved,   \* campaigns: status, params.resolved
  target,         \* campaign_targets
  apply,          \* apply requests in progress
  announced,      \* notification_sent campaign:{id}: None, or the repositories
                  \* with a pull request when the alert was sent
  used            \* how often each kind of event has happened

github == <<tag, head, branch, base, pr>>
db     == <<status, resolved, target, announced>>
vars   == <<github, dry, db, apply, used>>

NotResolved == [x \in Refs |-> None]

IdleApply == [pc |-> "idle", resolved |-> NotResolved, todo |-> {}, repo |-> None,
              diff |-> NoDiff, left |-> {}, outcome |-> [r \in Repos |-> "same"]]

Target == [status : {"pending", "dry-run-ok", "failed", "pr-opened", "conflict"},
           preview : Diff \cup {NoDiff}, pr : BOOLEAN]

\* The dry run in memory: repositories to go, the SHA map, the rows' new values.
Dry == [pc : {"running", "done"}, todo : SUBSET Repos, acc : Resolved,
        draft : [Repos -> Target]]

\* An apply in memory: the map and the targets it loaded, the repository in
\* hand with its edits and the files yet to commit, the outcomes so far.
Apply ==
  [pc : {"idle", "loaded", "looping", "branching", "putting", "announcing"},
   resolved : Resolved, todo : SUBSET Repos, repo : Repos \cup {None},
   diff : Diff \cup {NoDiff}, left : SUBSET Files,
   outcome : [Repos -> {"same", "pr-opened", "conflict"}]]

TypeOK ==
  /\ tag \in [Refs -> Shas]
  /\ head \in [Repos -> Tree]
  /\ branch \in [Repos -> Tree \cup {None}]
  /\ base \in [Repos -> Tree \cup {None}]
  /\ pr \in [Repos -> {"none", "open", "merged", "closed"}]
  /\ dry \in Dry
  /\ status \in {"pending", "dry-run-ok", "applied"}
  /\ resolved \in Resolved
  /\ target \in [Repos -> Target]
  /\ apply \in [Appliers -> Apply]
  /\ announced \in {None} \cup SUBSET Repos
  /\ used \in [Kinds -> Nat] /\ \A k \in Kinds : used[k] <= Limit[k]

Init ==
  /\ tag \in [Refs -> Shas]
  /\ head \in [Repos -> [Files -> [Refs -> {Mutable, Unused}]]]
  /\ branch = [r \in Repos |-> None] /\ base = [r \in Repos |-> None]
  /\ pr = [r \in Repos |-> "none"]
  /\ target = [r \in Repos |-> [status |-> "pending", preview |-> NoDiff, pr |-> FALSE]]
  /\ dry = [pc |-> "running", todo |-> Repos, acc |-> NotResolved, draft |-> target]
  /\ status = "pending" /\ resolved = NotResolved
  /\ apply = [a \in Appliers |-> IdleApply]
  /\ announced = None
  /\ used = [k \in Kinds |-> 0]
-----------------------------------------------------------------------------
Happens(k) ==
  /\ used[k] < Limit[k]
  /\ used' = [used EXCEPT ![k] = @ + 1]
  /\ {j \in Kinds \ {"apply"} : used'[j] > 0} \in Together

(* GitHub *)

\* An action's tag moves, "early" when that is during the dry run.
Retag(x, s) ==
  /\ x \notin Immutable /\ tag[x] # s
  /\ Happens(IF dry.pc = "running" THEN "early" ELSE "retag")
  /\ tag' = [tag EXCEPT ![x] = s]
  /\ UNCHANGED <<head, branch, base, pr, dry, db, apply>>

\* Somebody changes a workflow on the default branch.
Push(r, f, c) ==
  /\ head[r][f] # c
  /\ Happens("push")
  /\ head' = [head EXCEPT ![r] = [head[r] EXCEPT ![f] = c]]
  /\ UNCHANGED <<tag, branch, base, pr, dry, db, apply>>

\* The repository's owners merge the pull request, if git can: only one side
\* changed a file, or both made the same of it.
Merge(r) ==
  /\ pr[r] = "open"
  /\ \A f \in Files : branch[r][f] # base[r][f] => head[r][f] \in {base[r][f], branch[r][f]}
  /\ pr' = [pr EXCEPT ![r] = "merged"]
  /\ head' = [head EXCEPT ![r] = [f \in Files |-> IF branch[r][f] # base[r][f]
                                                  THEN branch[r][f] ELSE head[r][f]]]
  /\ UNCHANGED <<tag, branch, base, dry, db, apply, used>>

\* Or they close it.
Close(r) ==
  /\ pr[r] = "open"
  /\ pr' = [pr EXCEPT ![r] = "closed"]
  /\ UNCHANGED <<tag, head, branch, base, dry, db, apply, used>>

\* Or they, or GitHub after a merge, delete the branch, which closes what is open.
DeleteBranch(r) ==
  /\ branch[r] # None
  /\ Happens("delete")
  /\ branch' = [branch EXCEPT ![r] = None] /\ base' = [base EXCEPT ![r] = None]
  /\ pr' = IF pr[r] = "open" THEN [pr EXCEPT ![r] = "closed"] ELSE pr
  /\ UNCHANGED <<tag, head, dry, db, apply>>
-----------------------------------------------------------------------------
(* dry_run_repo *)

\* pin_workflow_to_sha over every file, with the map as resolver.
Pinned(tree, map) ==
  [f \in Files |-> [x \in Refs |-> IF tree[f][x] = Mutable /\ map[x] # None
                                   THEN map[x] ELSE tree[f][x]]]

\* _resolve_pin_refs: the mutable refs in use, except those proven immutable.
PinRefs(tree, proven) ==
  [x \in Refs |-> IF (\E f \in Files : tree[f][x] = Mutable) /\ x \notin proven
                  THEN tag[x] ELSE None]

\* dict.update
Merged(map, more) == [x \in Refs |-> IF more[x] # None THEN more[x] ELSE map[x]]

DiffOf(tree, map) ==
  IF Pinned(tree, map) = tree THEN NoDiff ELSE [old |-> tree, new |-> Pinned(tree, map)]
-----------------------------------------------------------------------------
(* run_dry_run *)

\* One target is previewed.  A failed release lookup counts as "not proven
\* immutable".
PreviewRepo(r) ==
  /\ dry.pc = "running" /\ r \in dry.todo
  /\ \E proven \in SUBSET Immutable :
       /\ IF proven = Immutable THEN UNCHANGED used ELSE Happens("failure")
       /\ LET map == PinRefs(head[r], proven) IN
            dry' = [pc    |-> "running",
                    todo  |-> dry.todo \ {r},
                    acc   |-> Merged(dry.acc, map),
                    draft |-> [dry.draft EXCEPT ![r] =
                                 [status |-> "dry-run-ok",
                                  preview |-> DiffOf(head[r], map), pr |-> FALSE]]]
  /\ UNCHANGED <<github, db, apply>>

\* A GitHub call raises: this target fails, the others go on.
FailPreview(r) ==
  /\ dry.pc = "running" /\ r \in dry.todo
  /\ Happens("failure")
  /\ dry' = [pc    |-> "running",
             todo  |-> dry.todo \ {r},
             acc   |-> dry.acc,
             draft |-> [dry.draft EXCEPT ![r] =
                          [status |-> "failed", preview |-> NoDiff, pr |-> FALSE]]]
  /\ UNCHANGED <<github, db, apply>>

\* The one commit of the dry run.  The session writes the columns it set.
CommitPreview ==
  /\ dry.pc = "running" /\ dry.todo = {}
  /\ dry' = [dry EXCEPT !.pc = "done"]
  /\ resolved' = dry.acc
  /\ status' = "dry-run-ok"
  /\ target' = [r \in Repos |-> [status  |-> dry.draft[r].status,
                                 preview |-> dry.draft[r].preview,
                                 pr      |-> target[r].pr]]
  /\ UNCHANGED <<github, announced, apply, used>>

\* The API process dies: the campaign stays pending, nothing resumes it.
CrashPreview ==
  /\ dry.pc = "running"
  /\ Happens("crash")
  /\ dry' = [dry EXCEPT !.pc = "done"]
  /\ UNCHANGED <<github, db, apply>>
-----------------------------------------------------------------------------
(* apply_campaign, request a *)

Becomes(a, request) == apply' = [apply EXCEPT ![a] = request]

\* POST /campaigns/{id}/apply loads the campaign, whatever its status.
LoadCampaign(a) ==
  /\ apply[a].pc = "idle"
  /\ Happens("apply")
  /\ Becomes(a, [IdleApply EXCEPT !.pc = "loaded", !.resolved = resolved])
  /\ UNCHANGED <<github, dry, db>>

\* Mutant: every target is applied, previewed or not.
LoadTargets_All(a) ==
  /\ apply[a].pc = "loaded"
  /\ Becomes(a, [apply[a] EXCEPT !.pc = "looping", !.todo = Repos])
  /\ UNCHANGED <<github, dry, db, used>>

\* list_targets, and which of them the loop takes.
LoadTargets(a) ==
  /\ apply[a].pc = "loaded"
  /\ Becomes(a, [apply[a] EXCEPT
       !.pc = "looping",
       !.todo = {r \in Repos : /\ target[r].status = "dry-run-ok"
                               /\ target[r].preview # NoDiff}])
  /\ UNCHANGED <<github, dry, db, used>>

\* The edits map gives repository r as it is now; no edits, no pull request.
Edit(a, r, map) ==
  /\ apply[a].pc = "looping" /\ r \in apply[a].todo
  /\ LET diff == DiffOf(head[r], map)
         rest == apply[a].todo \ {r} IN
       IF diff = NoDiff
       THEN Becomes(a, [apply[a] EXCEPT !.todo = rest])
       ELSE Becomes(a, [apply[a] EXCEPT
              !.pc = "branching", !.todo = rest, !.repo = r, !.diff = diff,
              !.left = {f \in Files : diff.new[f] # diff.old[f]}])
  /\ UNCHANGED <<github, dry, db, used>>

\* Mutant: the tags are resolved again.
ReadRepo_Resolve(a, r) == Edit(a, r, PinRefs(head[r], Immutable))

\* dry_run_repo with the SHAs of the dry run.
ReadRepo(a, r) == Edit(a, r, apply[a].resolved)

ReadFails(a, r) ==
  /\ apply[a].pc = "looping" /\ r \in apply[a].todo
  /\ Happens("failure")
  /\ Becomes(a, [apply[a] EXCEPT
       !.todo = apply[a].todo \ {r},
       !.outcome = [apply[a].outcome EXCEPT ![r] = "conflict"]])
  /\ UNCHANGED <<github, dry, db>>

\* Back to the loop with the current repository's outcome.
Settle(a, outcome) ==
  Becomes(a, [apply[a] EXCEPT
    !.pc = "looping", !.repo = None, !.diff = NoDiff, !.left = {},
    !.outcome = [apply[a].outcome EXCEPT ![apply[a].repo] = outcome]])

\* create_branch at the head of the default branch; a branch that exists is
\* reused (422).
CreateBranch(a) ==
  /\ apply[a].pc = "branching"
  /\ LET r == apply[a].repo IN
       IF branch[r] = None
       THEN /\ branch' = [branch EXCEPT ![r] = head[r]]
            /\ base' = [base EXCEPT ![r] = head[r]]
       ELSE UNCHANGED <<branch, base>>
  /\ Becomes(a, [apply[a] EXCEPT !.pc = "putting"])
  /\ UNCHANGED <<tag, head, pr, dry, db, used>>

\* put_file: GitHub commits it when the branch still has the blob the edit
\* was computed from, and answers 409 otherwise, or 404 without a branch.
PutFile(a, f) ==
  /\ apply[a].pc = "putting" /\ f \in apply[a].left
  /\ LET r == apply[a].repo IN
       IF branch[r] # None /\ branch[r][f] = apply[a].diff.old[f]
       THEN /\ branch' = [branch EXCEPT
                 ![r] = [branch[r] EXCEPT ![f] = apply[a].diff.new[f]]]
            /\ Becomes(a, [apply[a] EXCEPT !.left = apply[a].left \ {f}])
       ELSE /\ Settle(a, "conflict")
            /\ UNCHANGED branch
  /\ UNCHANGED <<tag, head, base, pr, dry, db, used>>

\* create_pull_request: GitHub refuses while one is open for the branch, and
\* without a branch that has commits of its own; whether one that was merged
\* has any depends on how.  The call may take effect and its answer be lost.
Propose(a) ==
  LET r == apply[a].repo IN
    IF pr[r] = "open" \/ branch[r] \in {None, base[r]}
    THEN Settle(a, "conflict") /\ UNCHANGED <<pr, used>>
    ELSE \/ /\ pr' = [pr EXCEPT ![r] = "open"]
            /\ \/ Settle(a, "pr-opened") /\ UNCHANGED used
               \/ Settle(a, "conflict") /\ Happens("failure")
         \/ pr[r] = "merged" /\ Settle(a, "conflict") /\ UNCHANGED <<pr, used>>

OpenPR(a) ==
  /\ apply[a].pc = "putting" /\ apply[a].left = {}
  /\ Propose(a)
  /\ UNCHANGED <<tag, head, branch, base, dry, db>>

\* Any other GitHub call on behalf of the current repository fails.
CallFails(a) ==
  /\ apply[a].pc \in {"branching", "putting"}
  /\ Happens("failure")
  /\ Settle(a, "conflict")
  /\ UNCHANGED <<github, dry, db>>

\* Mutant: the rows of the targets that the loop passed over are written too.
Committed_Every(a, keep) ==
  [r \in Repos |-> [status  |-> apply[a].outcome[r],
                    preview |-> target[r].preview,
                    pr      |-> (keep /\ target[r].pr)
                                  \/ apply[a].outcome[r] = "pr-opened"]]

\* The rows after the apply's only commit.
Committed(a, keep) ==
  [r \in Repos |-> LET o == apply[a].outcome[r] IN
     [status  |-> IF o = "same" THEN target[r].status ELSE o,
      preview |-> target[r].preview,
      pr      |-> (keep /\ target[r].pr) \/ o = "pr-opened"]]

Commit(a, rows) ==
  /\ apply[a].pc = "looping" /\ apply[a].todo = {}
  /\ target' = rows
  /\ status' = "applied"
  /\ Becomes(a, [apply[a] EXCEPT !.pc = "announcing"])
  /\ UNCHANGED <<github, dry, resolved, announced, used>>

\* Mutant: the session writes back columns it did not set.
CommitApply_AllColumns(a) == Commit(a, Committed(a, FALSE))

CommitApply(a) == Commit(a, Committed(a, TRUE))

\* dispatch_once with the campaign's key, counting the pull requests that the
\* session's rows show: its own, and perhaps those of other requests.
Announce(a) ==
  /\ apply[a].pc = "announcing"
  /\ \E seen \in SUBSET {r \in Repos : target[r].pr} :
       /\ {r \in Repos : apply[a].outcome[r] = "pr-opened"} \subseteq seen
       /\ announced' = IF announced = None THEN seen ELSE announced
  /\ Becomes(a, IdleApply)
  /\ UNCHANGED <<github, dry, status, resolved, target, used>>

\* The API process dies in the middle of the request: the transaction rolls
\* back, what GitHub did stays.
CrashApply(a) ==
  /\ apply[a].pc # "idle"
  /\ Happens("crash")
  /\ Becomes(a, IdleApply)
  /\ UNCHANGED <<github, dry, db>>
-----------------------------------------------------------------------------
Next ==
  \/ \E x \in Refs, s \in Shas : Retag(x, s)
  \/ \E r \in Repos, f \in Files, c \in Content : Push(r, f, c)
  \/ \E r \in Repos : \/ Merge(r) \/ Close(r) \/ DeleteBranch(r)
                      \/ PreviewRepo(r) \/ FailPreview(r)
  \/ CommitPreview \/ CrashPreview
  \/ \E a \in Appliers : \/ LoadCampaign(a) \/ LoadTargets(a)
                         \/ \E r \in Repos : ReadRepo(a, r) \/ ReadFails(a, r)
                         \/ CreateBranch(a) \/ OpenPR(a) \/ CallFails(a)
                         \/ \E f \in Files : PutFile(a, f)
                         \/ CommitApply(a) \/ Announce(a) \/ CrashApply(a)

Spec == Init /\ [][Next]_vars
-----------------------------------------------------------------------------
(* Properties *)

\* Whatever pushes, failures, crashes and concurrent applies do, a campaign's
\* branch differs from what it started from only where a mutable ref became
\* the SHA that the dry run recorded for it (apply_campaign: "no fresh HEAD
\* resolution").
ReviewedShas ==
  \A r \in Repos : branch[r] # None =>
    \A f \in Files, x \in Refs : branch[r][f][x] # base[r][f][x] =>
      base[r][f][x] = Mutable /\ branch[r][f][x] = resolved[x]

Stage(r) == CASE pr[r] = "open" -> "proposed"
              [] pr[r] = "merged" -> "landed"
              [] pr[r] = "closed" -> "withdrawn"
              [] OTHER -> IF target[r].preview = NoDiff THEN "new" ELSE "reviewed"

\* What a request has yet to go through.
Asked(a) == apply[a].todo \cup ({apply[a].repo} \ {None})

\* Dry run first, all edits by pull request: a repository is proposed only after
\* its review, one proposal at a time, at most once by each request, and by no
\* request that began after the proposal was on record.
Flow == INSTANCE FixFlow WITH
          Requests <- Appliers,
          stage    <- [r \in Repos |-> Stage(r)],
          asked    <- [a \in Appliers |-> Asked(a)],
          recorded <- {r \in Repos : target[r].pr}

ImplementsFixFlow == Flow!Spec

\* The change a tree makes to another one.
Change(old, new) == {<<f, x, new[f][x]>> : f \in Files, x \in Refs}
                      \ {<<f, x, old[f][x]>> : f \in Files, x \in Refs}

Proposed(r) == Change(base[r], branch[r])
Reviewed(r) == IF target[r].preview = NoDiff THEN {}
               ELSE Change(target[r].preview.old, target[r].preview.new)

\* "The reviewed diff is exactly what lands."
DiffAsReviewed == \A r \in Repos : pr[r] = "open" => Proposed(r) = Reviewed(r)

\* That holds when no tag moves during the dry run, nobody pushes or deletes a
\* branch, and no call fails; tags that move after the dry run, crashes in the
\* middle of an apply, concurrent applies, merges and closings do not matter.
QuietDiffAsReviewed ==
  (\A k \in {"early", "push", "delete", "failure"} : used[k] = 0) => DiffAsReviewed

\* "The SHAs that land are exactly the ones the reviewer saw."
ShasAsReviewed ==
  \A r \in Repos : pr[r] = "open" =>
    \A p \in Proposed(r), q \in Reviewed(r) :
      p[1] = q[1] /\ p[2] = q[2] => p[3] = q[3]

Quiet == \A a \in Appliers : apply[a].pc = "idle"

\* When the applies are over, every repository with a pull request on GitHub has
\* one on record, unless a crash or a lost answer kept it from being recorded: of
\* two applies, the one that met the other's branch does not erase its record.
PRsRecorded ==
  Quiet /\ used["crash"] = 0 /\ used["failure"] = 0 =>
    \A r \in Repos : pr[r] # "none" => target[r].pr

\* "Reuse it rather than failing the retry": with one apply at a time, no push
\* and no failing call, no target ends in conflict.
RetriesGoOn ==
  Quiet /\ used["push"] = 0 /\ used["failure"] = 0 =>
    \A r \in Repos : target[r].status # "conflict"

=============================================================================
