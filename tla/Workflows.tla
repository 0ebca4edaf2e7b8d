----------------------------- MODULE Workflows -----------------------------
(***************************************************************************)
(* A workflow file as the engines see it, and what they compute from it:   *)
(* the pin classifier and the audit rules (audit/), the bulk edits of a    *)
(* campaign (executor/operations.py), the drift from a template (drift/),  *)
(* the policy simulation (policy/) and the scorecard.                      *)
(*                                                                         *)
(* A file keeps what these tell apart.  A reference is an action with a    *)
(* ref; a local or docker action has no name.  A step uses a reference or  *)
(* runs a script, of which only a deprecated command is noticed.           *)
(***************************************************************************)
EXTENDS Integers, Sequences, FiniteSets, FiniteSetsExt, SequencesExt

CONSTANTS
  None,
  Actions,               \* actions and reusable workflows, by name
  Tags, Branches, Shas,  \* refs by their spelling,
  Unknown,               \* and those of any other
  Deprecated,            \* DEPRECATED_MAJORS, as pairs of an action and a ref
  Immutable,             \* pairs of an action and a tag of an immutable release
  CommitOf,              \* the commit a tag or a branch of an action points to
  OldRunner, NewRunner,  \* swap-runs-on: from, to
  BumpTo                 \* bump-action-version: action, to

Severities == <<"identical", "minor", "content", "structural">>

\* A reference: a local or docker action has no name, an action may lack a ref.
Uses == [action : Actions \cup {None}, ref : Tags \cup Branches \cup Shas \cup Unknown \cup {None}]

Permissions == {None, "read", "write"}

\* The value of the key concurrency: none, null, an empty block or string, a group.
Concurrency == {None, "null", "empty", "group"}

Steps == [uses : Uses \cup {None}, command : BOOLEAN]

IsJob(job) ==
  /\ job = [perms |-> job.perms, runsOn |-> job.runsOn, call |-> job.call, steps |-> job.steps]
  /\ job.perms \in Permissions /\ job.call \in Uses \cup {None} /\ job.steps \in Seq(Steps)

\* What parse_workflow makes of a file.
IsWorkflow(f) ==
  /\ f = [name |-> f.name, perms |-> f.perms, concurrency |-> f.concurrency,
          triggers |-> f.triggers, jobs |-> f.jobs]
  /\ f.perms \in Permissions /\ f.concurrency \in Concurrency
  /\ f.jobs = [j \in DOMAIN f.jobs |-> f.jobs[j]]
  /\ IsFiniteSet(DOMAIN f.jobs) /\ None \notin DOMAIN f.jobs
  /\ \A j \in DOMAIN f.jobs : IsJob(f.jobs[j])

\* Every kind of ref and every named thing is told from the absence of one.
ASSUME WorkflowsAssumption ==
  /\ Tags \cap Branches = {} /\ Shas \cap (Tags \cup Branches) = {}
  /\ Unknown \cap (Tags \cup Branches \cup Shas) = {}
  /\ None \notin Actions \cup Tags \cup Branches \cup Shas \cup Unknown
  /\ None \notin Uses \cup {"read", "write", "null", "empty", "group"}
  /\ CommitOf \in [Actions \X (Tags \cup Branches) -> Shas]
  /\ \A pair \in Deprecated : pair[2] \notin Shas
  /\ BumpTo \in Actions \X (Tags \cup Branches \cup Shas \cup Unknown)
-----------------------------------------------------------------------------
(* The audit rules *)

Pair(u) == <<u.action, u.ref>>

\* classify, without a proof of immutability.
Classify(u) ==
  IF u.action = None THEN "local"
  ELSE IF u.ref = None THEN "unpinned"
  ELSE CASE u.ref \in Shas -> "sha"
         [] u.ref \in Tags -> "tag"
         [] u.ref \in Branches -> "branch"
         [] OTHER -> "unknown"

JobUses(job) ==
  ({s.uses : s \in ToSet(job.steps)} \cup {job.call}) \ {None}

\* Workflow.all_uses: the steps and the reusable workflows that jobs call.
AllUses(f) == UNION {JobUses(f.jobs[j]) : j \in DOMAIN f.jobs}

\* A finding is about a reference, a job, or the whole file.
Finding(type, severity, use, job) ==
  [type |-> type, severity |-> severity, use |-> use, job |-> job]

AuditPins(f) ==
  {Finding("unpinned_action", IF Classify(u) = "tag" THEN "medium" ELSE "high", u, None) :
     u \in {v \in AllUses(f) : /\ Classify(v) \in {"unpinned", "branch", "unknown", "tag"}
                               /\ Pair(v) \notin Immutable}}

Broad(perms) == perms = "write"

AuditPermissions(f) ==
  {Finding("missing_permissions", "medium", None, None) : x \in {f.perms} \cap {None}}
  \cup {Finding("broad_permissions", "high", None, None) : x \in {f.perms} \cap {"write"}}
  \cup {Finding("broad_permissions", "medium", None, j) :
          j \in {k \in DOMAIN f.jobs : Broad(f.jobs[k].perms)}}

AuditDeprecations(f) ==
  {Finding("deprecated_action", "medium", u, None) :
     u \in {v \in AllUses(f) : Pair(v) \in Deprecated}}
  \cup {Finding("deprecated_action", "medium", None, j) :
          j \in {k \in DOMAIN f.jobs : \E s \in ToSet(f.jobs[k].steps) : s.command}}

\* The parser tells no key from a null one.
AuditConcurrency(f) ==
  {Finding("missing_concurrency", "low", None, None) : x \in {f.concurrency} \cap {None, "null"}}

AuditWorkflow(f) ==
  AuditPins(f) \cup AuditPermissions(f) \cup AuditDeprecations(f) \cup AuditConcurrency(f)

Weight == [high |-> 10, medium |-> 4, low |-> 1]

Penalty(findings) ==
  LET Count(severity) == Cardinality({x \in findings : x.severity = severity}) IN
  Weight.high * Count("high") + Weight.medium * Count("medium") + Weight.low * Count("low")

\* build_scorecard rounds half to even.
Score(findings, repos) ==
  LET twice == 2 * (100 * repos - Penalty(findings)) + repos
      up == twice \div (2 * repos)
      score == IF twice % (2 * repos) = 0 /\ up % 2 = 1 THEN up - 1 ELSE up IN
  IF repos = 0 THEN Max({0, 100 - Penalty(findings)}) ELSE Max({0, score})
-----------------------------------------------------------------------------
(* The operations of a campaign *)

\* Every reference of a step is edited.
EditSteps(f, Edit(_)) ==
  LET Edited(s) == IF s.uses = None THEN s ELSE [s EXCEPT !.uses = Edit(@)] IN
  [f EXCEPT !.jobs = [j \in DOMAIN f.jobs |->
     [f.jobs[j] EXCEPT !.steps = [i \in DOMAIN @ |-> Edited(@[i])]]]]

\* _resolve_pin_refs: proven immutable tags are not resolved.
Resolved(u) == Classify(u) \in {"tag", "branch"} /\ Pair(u) \notin Immutable

\* Mutant: branches are left alone.
Pinned_TagsOnly(u) ==
  IF Resolved(u) /\ Classify(u) = "tag" THEN [u EXCEPT !.ref = CommitOf[Pair(u)]] ELSE u

Pinned(u) == IF Resolved(u) THEN [u EXCEPT !.ref = CommitOf[Pair(u)]] ELSE u

\* pin_workflow_to_sha edits the steps, not the calls of reusable workflows.
PinShas(f) == EditSteps(f, Pinned)

\* set_workflow_permissions: the workflow's own block, not those of its jobs.
SetPermissions(f) == [f EXCEPT !.perms = "read"]

SwapRunsOn(f) ==
  [f EXCEPT !.jobs = [j \in DOMAIN f.jobs |->
     [f.jobs[j] EXCEPT !.runsOn = IF @ = OldRunner THEN NewRunner ELSE @]]]

\* bump_action_version takes any other ref of the action, a commit too.
Bumped(u) == IF u.action = BumpTo[1] THEN [u EXCEPT !.ref = BumpTo[2]] ELSE u

BumpVersion(f) == EditSteps(f, Bumped)

\* add_concurrency leaves a file that has the key as it is, whatever its value.
AddConcurrency(f) == [f EXCEPT !.concurrency = IF @ = None THEN "group" ELSE @]

FixOperations == {"pin-shas", "set-permissions", "swap-runs-on", "bump-action-version",
                  "add-concurrency"}

\* OPERATIONS; sync_to_template replaces the whole file.
Apply(operation, f) ==
  CASE operation = "pin-shas" -> PinShas(f)
    [] operation = "set-permissions" -> SetPermissions(f)
    [] operation = "swap-runs-on" -> SwapRunsOn(f)
    [] operation = "bump-action-version" -> BumpVersion(f)
    [] operation = "add-concurrency" -> AddConcurrency(f)

\* OPERATION_FINDING_TYPES.
Closes(operation) ==
  CASE operation = "pin-shas" -> {"unpinned_action"}
    [] operation = "set-permissions" -> {"missing_permissions", "broad_permissions"}
    [] operation = "add-concurrency" -> {"missing_concurrency"}
    [] operation = "bump-action-version" -> {"deprecated_action"}
    [] OTHER -> {}
-----------------------------------------------------------------------------
(* Drift from a template *)

\* _step_signatures, whole and without the refs.
Signature(job) == [i \in DOMAIN job.steps |-> job.steps[i].uses]
Sequence(job) ==
  [i \in DOMAIN job.steps |-> IF job.steps[i].uses = None THEN "run:" ELSE job.steps[i].uses.action]

\* What the diff takes for a concurrency block.
Grouped(f) == f.concurrency = "group"

\* What each comparison of the walk over canonical and candidate comes to, in
\* its order; 1 where they agree.
Bumps(c, d) ==
  LET shared == DOMAIN c.jobs \cap DOMAIN d.jobs IN
  <<IF DOMAIN c.jobs # DOMAIN d.jobs THEN 4 ELSE 1,
    IF \E j \in shared : Sequence(c.jobs[j]) # Sequence(d.jobs[j]) THEN 4 ELSE 1,
    IF \E j \in shared : Signature(c.jobs[j]) # Signature(d.jobs[j]) THEN 3 ELSE 1,
    IF \E j \in shared : c.jobs[j].perms # d.jobs[j].perms THEN 3 ELSE 1,
    IF c.perms # d.perms THEN 3 ELSE 1,
    IF Grouped(c) # Grouped(d) THEN 3 ELSE 1,
    IF c.name # d.name THEN 2 ELSE 1>>

\* Mutant: the last difference decides, not the worst.
Worst_Last(bumps) ==
  LET drifts == SelectSeq(bumps, LAMBDA severity : severity > 1) IN
  IF drifts = <<>> THEN 1 ELSE Last(drifts)

Worst(bumps) == Max(ToSet(bumps))

\* diff: the severity as a rank in Severities.
Diff(c, d) == Worst(Bumps(c, d))
-----------------------------------------------------------------------------
(* Policy simulation *)

Rules == {"require_sha_pinned", "disallowed_trigger", "require_permissions"}

\* _FIX_OPERATION.
FixOperation(rule) ==
  CASE rule = "require_sha_pinned" -> "pin-shas"
    [] rule = "require_permissions" -> "set-permissions"
    [] OTHER -> None

\* gather_fleet_facts, of a file the audit has seen.
Facts(f) ==
  LET types == {x.type : x \in AuditWorkflow(f)} IN
  [unpinned |-> "unpinned_action" \in types, missing |-> "missing_permissions" \in types,
   triggers |-> f.triggers]

\* evaluate: a policy is its rules and its disallowed triggers.
Evaluate(policy, facts) ==
  {rule \in policy.rules :
     \/ rule = "require_sha_pinned" /\ facts.unpinned
     \/ rule = "disallowed_trigger" /\ facts.triggers \cap policy.disallowed # {}
     \/ rule = "require_permissions" /\ facts.missing}

Violating(rule, policy, fleet) == {s \in DOMAIN fleet : rule \in Evaluate(policy, fleet[s])}

\* Mutant: every repository with a violation is offered the fix.
Fixable_AnyRule(rule, policy, fleet) ==
  {s[1] : s \in {t \in DOMAIN fleet : Evaluate(policy, fleet[t]) # {}}}

\* simulate: the repositories a one-click campaign for the rule goes to.
Fixable(rule, policy, fleet) ==
  IF FixOperation(rule) = None THEN {} ELSE {s[1] : s \in Violating(rule, policy, fleet)}

=============================================================================
