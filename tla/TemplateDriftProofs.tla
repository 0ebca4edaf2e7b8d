------------------------- MODULE TemplateDriftProofs -------------------------
(***************************************************************************)
(* Fixes close what they answer for, drift is a distance, a simulated      *)
(* policy's campaign works, and rows stay right: for every file that       *)
(* parses, any fleet, and whatever is pushed, bound, rewritten or lost.    *)
(***************************************************************************)
EXTENDS TemplateDrift, FiniteSetTheorems, TLAPS

-----------------------------------------------------------------------------
(* The edits *)

\* What every edit keeps of a file: its jobs, and of their steps everything but
\* the refs.
SameSteps(f, g) ==
  /\ DOMAIN g.jobs = DOMAIN f.jobs
  /\ \A j \in DOMAIN f.jobs :
       /\ g.jobs[j].perms = f.jobs[j].perms /\ g.jobs[j].call = f.jobs[j].call
       /\ DOMAIN g.jobs[j].steps = DOMAIN f.jobs[j].steps
       /\ \A i \in DOMAIN f.jobs[j].steps :
            LET s == f.jobs[j].steps[i]
                t == g.jobs[j].steps[i] IN
            /\ t.command = s.command
            /\ t.uses = None <=> s.uses = None
            /\ s.uses # None => t.uses.action = s.uses.action

SameHead(f, g) ==
  g.name = f.name /\ g.perms = f.perms /\ g.concurrency = f.concurrency /\ g.triggers = f.triggers

\* A reference of an action is classified by what its ref is.
LEMMA Classified ==
  ASSUME NEW u \in Uses
  PROVE  /\ Classify(u) = "sha" <=> u.action # None /\ u.ref \in Shas
         /\ Classify(u) = "tag" <=> u.action # None /\ u.ref \in Tags
         /\ Classify(u) = "branch" <=> u.action # None /\ u.ref \in Branches
         /\ Classify(u) = "unpinned" <=> u.action # None /\ u.ref = None
         /\ Classify(u) \in {"local", "unpinned", "sha", "tag", "branch", "unknown"}
<1>1. CASE u.action = None \/ u.ref = None
  BY <1>1, WorkflowsAssumption DEF Classify
<1>2. CASE u.action # None /\ u.ref # None
  BY <1>2, WorkflowsAssumption DEF Classify
<1> QED BY <1>1, <1>2

\* A pinned reference is one of the same action.
LEMMA PinnedUse ==
  ASSUME NEW u \in Uses
  PROVE  /\ Pinned(u) \in Uses /\ Pinned(u).action = u.action
         /\ Resolved(u) => Classify(Pinned(u)) = "sha"
<1>1. CASE Resolved(u)
  <2>1. u.action \in Actions /\ u.ref \in Tags \cup Branches
    BY <1>1, WorkflowsAssumption, Classified DEF Resolved, Uses
  <2>2. CommitOf[Pair(u)] \in Shas
    BY <2>1, WorkflowsAssumption DEF Pair
  <2>3. Pinned(u) = [action |-> u.action, ref |-> CommitOf[Pair(u)]]
    BY <1>1 DEF Pinned, Uses
  <2>4. Pinned(u) \in Uses
    BY <2>1, <2>2, <2>3 DEF Uses
  <2> QED BY <2>1, <2>2, <2>3, <2>4, Classified, WorkflowsAssumption
<1>2. CASE ~Resolved(u)
  BY <1>2 DEF Pinned
<1> QED BY <1>1, <1>2

\* So is a bumped one.
LEMMA BumpedUse ==
  ASSUME NEW u \in Uses PROVE Bumped(u) \in Uses /\ Bumped(u).action = u.action
BY WorkflowsAssumption DEF Bumped, Uses

\* A step with another reference is a step.
LEMMA StepType ==
  ASSUME NEW s \in Steps, NEW u \in Uses
  PROVE  /\ [s EXCEPT !.uses = u] \in Steps
         /\ [s EXCEPT !.uses = u].uses = u /\ [s EXCEPT !.uses = u].command = s.command
BY DEF Steps

LEMMA StepOf ==
  ASSUME NEW f, IsWorkflow(f), NEW j \in DOMAIN f.jobs, NEW i \in DOMAIN f.jobs[j].steps
  PROVE  f.jobs[j].steps[i] \in Steps
BY DEF IsWorkflow, IsJob

\* EditSteps, with the edit as a function.
Rewritten(f, edit) ==
  [f EXCEPT !.jobs = [j \in DOMAIN f.jobs |-> [f.jobs[j] EXCEPT !.steps =
     [i \in DOMAIN f.jobs[j].steps |->
        IF f.jobs[j].steps[i].uses = None THEN f.jobs[j].steps[i]
        ELSE [f.jobs[j].steps[i] EXCEPT !.uses = edit[f.jobs[j].steps[i].uses]]]]]]

\* What an edit makes of each part of a file.
LEMMA EditParts ==
  ASSUME NEW f, IsWorkflow(f), NEW edit \in [Uses -> Uses],
         \A u \in Uses : edit[u].action = u.action
  PROVE  LET g == Rewritten(f, edit) IN
         /\ IsWorkflow(g) /\ SameSteps(f, g) /\ SameHead(f, g)
         /\ \A j \in DOMAIN f.jobs : \A i \in DOMAIN f.jobs[j].steps :
              f.jobs[j].steps[i].uses # None =>
                g.jobs[j].steps[i].uses = edit[f.jobs[j].steps[i].uses]
<1> DEFINE g == Rewritten(f, edit)
           Edited(s) == IF s.uses = None THEN s ELSE [s EXCEPT !.uses = edit[s.uses]]
           jobs == [j \in DOMAIN f.jobs |-> [f.jobs[j] EXCEPT !.steps =
                      [i \in DOMAIN f.jobs[j].steps |-> Edited(f.jobs[j].steps[i])]]]
<1>0. g = [f EXCEPT !.jobs = jobs]
  BY DEF Rewritten
<1>1. /\ SameHead(f, g) /\ DOMAIN g.jobs = DOMAIN f.jobs
      /\ g = [name |-> g.name, perms |-> g.perms, concurrency |-> g.concurrency,
              triggers |-> g.triggers, jobs |-> g.jobs]
      /\ g.jobs = jobs
  <2>1. DOMAIN jobs = DOMAIN f.jobs OBVIOUS
  <2> HIDE DEF jobs, g
  <2> QED BY <1>0, <2>1 DEF IsWorkflow, SameHead
<1>2. ASSUME NEW j \in DOMAIN f.jobs
      PROVE  /\ IsJob(g.jobs[j])
             /\ g.jobs[j].perms = f.jobs[j].perms /\ g.jobs[j].call = f.jobs[j].call
             /\ g.jobs[j].steps = [i \in DOMAIN f.jobs[j].steps |-> Edited(f.jobs[j].steps[i])]
  <2>1. IsJob(f.jobs[j]) BY DEF IsWorkflow
  <2>2. g.jobs[j] = [perms |-> f.jobs[j].perms, runsOn |-> f.jobs[j].runsOn, call |-> f.jobs[j].call,
                     steps |-> [i \in DOMAIN f.jobs[j].steps |-> Edited(f.jobs[j].steps[i])]]
    <3> HIDE DEF Edited
    <3> QED BY <1>1, <2>1 DEF IsJob
  <2>3. \A i \in DOMAIN f.jobs[j].steps : Edited(f.jobs[j].steps[i]) \in Steps
    <3> SUFFICES ASSUME NEW i \in DOMAIN f.jobs[j].steps PROVE Edited(f.jobs[j].steps[i]) \in Steps
      OBVIOUS
    <3>1. f.jobs[j].steps[i] \in Steps BY <2>1 DEF IsJob
    <3> QED BY <3>1, StepType DEF Steps
  <2>4. [i \in DOMAIN f.jobs[j].steps |-> Edited(f.jobs[j].steps[i])] \in Seq(Steps)
    <3> HIDE DEF Edited
    <3> QED BY <2>1, <2>3 DEF IsJob
  <2> HIDE DEF Edited, g
  <2> QED BY <2>1, <2>2, <2>4 DEF IsJob
<1>3. ASSUME NEW j \in DOMAIN f.jobs, NEW i \in DOMAIN f.jobs[j].steps
      PROVE  LET s == f.jobs[j].steps[i]
                 t == g.jobs[j].steps[i] IN
             /\ t.command = s.command /\ (t.uses = None <=> s.uses = None)
             /\ s.uses # None => t.uses.action = s.uses.action /\ t.uses = edit[s.uses]
  <2>1. f.jobs[j].steps[i] \in Steps BY DEF IsWorkflow, IsJob
  <2>2. g.jobs[j].steps[i] = Edited(f.jobs[j].steps[i]) BY <1>2
  <2> QED BY <2>1, <2>2, StepType, WorkflowsAssumption DEF Steps
<1>4. SameSteps(f, g)
  BY <1>1, <1>2, <1>3 DEF SameSteps
<1>5. IsWorkflow(g)
  <2>1. g.jobs = [j \in DOMAIN g.jobs |-> g.jobs[j]] BY <1>1
  <2> HIDE DEF g
  <2> QED BY <1>1, <1>2, <2>1 DEF IsWorkflow, SameHead
<1> QED BY <1>1, <1>3, <1>4, <1>5

LEMMA PinParts ==
  ASSUME NEW f, IsWorkflow(f)
  PROVE  LET g == PinShas(f) IN
         /\ IsWorkflow(g) /\ SameSteps(f, g) /\ SameHead(f, g)
         /\ \A j \in DOMAIN f.jobs : \A i \in DOMAIN f.jobs[j].steps :
              f.jobs[j].steps[i].uses # None =>
                g.jobs[j].steps[i].uses = Pinned(f.jobs[j].steps[i].uses)
<1> DEFINE edit == [u \in Uses |-> Pinned(u)]
<1>1. edit \in [Uses -> Uses] /\ \A u \in Uses : edit[u] = Pinned(u) /\ edit[u].action = u.action
  BY PinnedUse
<1>2. \A j \in DOMAIN f.jobs : \A i \in DOMAIN f.jobs[j].steps :
        f.jobs[j].steps[i].uses \in Uses \cup {None}
  BY StepOf DEF Steps
<1> HIDE DEF edit
<1>3. PinShas(f) = Rewritten(f, edit)
  BY <1>1, <1>2 DEF PinShas, EditSteps, Rewritten
<1> QED BY <1>1, <1>2, <1>3, EditParts

LEMMA BumpParts ==
  ASSUME NEW f, IsWorkflow(f)
  PROVE  LET g == BumpVersion(f) IN
         /\ IsWorkflow(g) /\ SameSteps(f, g) /\ SameHead(f, g)
         /\ \A j \in DOMAIN f.jobs : \A i \in DOMAIN f.jobs[j].steps :
              f.jobs[j].steps[i].uses # None =>
                g.jobs[j].steps[i].uses = Bumped(f.jobs[j].steps[i].uses)
<1> DEFINE edit == [u \in Uses |-> Bumped(u)]
<1>1. edit \in [Uses -> Uses] /\ \A u \in Uses : edit[u] = Bumped(u) /\ edit[u].action = u.action
  BY BumpedUse
<1>2. \A j \in DOMAIN f.jobs : \A i \in DOMAIN f.jobs[j].steps :
        f.jobs[j].steps[i].uses \in Uses \cup {None}
  BY StepOf DEF Steps
<1> HIDE DEF edit
<1>3. BumpVersion(f) = Rewritten(f, edit)
  BY <1>1, <1>2 DEF BumpVersion, EditSteps, Rewritten
<1> QED BY <1>1, <1>2, <1>3, EditParts

\* swap-runs-on leaves every step as it is; the other two do not touch the jobs.
LEMMA SwapParts ==
  ASSUME NEW f, IsWorkflow(f)
  PROVE  LET g == SwapRunsOn(f) IN
         /\ IsWorkflow(g) /\ SameSteps(f, g) /\ SameHead(f, g)
         /\ \A j \in DOMAIN f.jobs : g.jobs[j].steps = f.jobs[j].steps
<1> DEFINE g == SwapRunsOn(f)
           jobs == [j \in DOMAIN f.jobs |->
                      [f.jobs[j] EXCEPT !.runsOn = IF @ = OldRunner THEN NewRunner ELSE @]]
<1>1. g = [f EXCEPT !.jobs = jobs]
  BY DEF SwapRunsOn
<1>2. /\ SameHead(f, g) /\ g.jobs = jobs /\ DOMAIN jobs = DOMAIN f.jobs
      /\ g = [name |-> g.name, perms |-> g.perms, concurrency |-> g.concurrency,
              triggers |-> g.triggers, jobs |-> g.jobs]
  <2>1. DOMAIN jobs = DOMAIN f.jobs OBVIOUS
  <2> HIDE DEF jobs, g
  <2> QED BY <1>1, <2>1 DEF IsWorkflow, SameHead
<1>3. ASSUME NEW j \in DOMAIN f.jobs
      PROVE  /\ IsJob(g.jobs[j]) /\ g.jobs[j].perms = f.jobs[j].perms
             /\ g.jobs[j].call = f.jobs[j].call /\ g.jobs[j].steps = f.jobs[j].steps
  <2>1. IsJob(f.jobs[j]) BY DEF IsWorkflow
  <2>2. g.jobs[j] = [perms |-> f.jobs[j].perms, call |-> f.jobs[j].call, steps |-> f.jobs[j].steps,
                     runsOn |-> IF f.jobs[j].runsOn = OldRunner THEN NewRunner ELSE f.jobs[j].runsOn]
    BY <1>2, <2>1 DEF IsJob
  <2> QED BY <2>1, <2>2 DEF IsJob
<1>4. g.jobs = [j \in DOMAIN g.jobs |-> g.jobs[j]] BY <1>2
<1> HIDE DEF g
<1>5. IsWorkflow(g) BY <1>2, <1>3, <1>4 DEF IsWorkflow, SameHead
<1>6. SameSteps(f, g) BY <1>2, <1>3 DEF SameSteps
<1> QED BY <1>2, <1>3, <1>5, <1>6 DEF g

LEMMA HeadParts ==
  ASSUME NEW f, IsWorkflow(f)
  PROVE  /\ LET g == SetPermissions(f) IN
            /\ IsWorkflow(g) /\ SameSteps(f, g) /\ g.jobs = f.jobs
            /\ g.perms = "read" /\ g.concurrency = f.concurrency
            /\ g.name = f.name /\ g.triggers = f.triggers
         /\ LET g == AddConcurrency(f) IN
            /\ IsWorkflow(g) /\ SameSteps(f, g) /\ g.jobs = f.jobs
            /\ g.perms = f.perms
            /\ g.concurrency = IF f.concurrency = None THEN "group" ELSE f.concurrency
            /\ g.name = f.name /\ g.triggers = f.triggers
<1> DEFINE p == SetPermissions(f)
           c == AddConcurrency(f)
<1>1. /\ p = [name |-> f.name, perms |-> "read", concurrency |-> f.concurrency,
              triggers |-> f.triggers, jobs |-> f.jobs]
      /\ c = [name |-> f.name, perms |-> f.perms,
              concurrency |-> IF f.concurrency = None THEN "group" ELSE f.concurrency,
              triggers |-> f.triggers, jobs |-> f.jobs]
  <2>1. PICK n, m, l, t, jobs :
          f = [name |-> n, perms |-> m, concurrency |-> l, triggers |-> t, jobs |-> jobs]
    BY DEF IsWorkflow
  <2>2. /\ f.name = n /\ f.perms = m /\ f.concurrency = l /\ f.triggers = t /\ f.jobs = jobs
    BY <2>1
  <2>3. p = [name |-> n, perms |-> "read", concurrency |-> l, triggers |-> t, jobs |-> jobs]
    BY <2>1 DEF SetPermissions
  <2> DEFINE k == IF l = None THEN "group" ELSE l
  <2>4. c = [name |-> n, perms |-> m, concurrency |-> k, triggers |-> t, jobs |-> jobs]
    <3>1. c = [f EXCEPT !.concurrency = k] BY <2>2 DEF AddConcurrency
    <3> HIDE DEF c, k
    <3> QED BY <2>1, <3>1
  <2> QED BY <2>2, <2>3, <2>4
<1> HIDE DEF p, c
<1>2. SameSteps(f, p) /\ SameSteps(f, c)
  BY <1>1 DEF SameSteps
<1>3. IsWorkflow(p) /\ IsWorkflow(c)
  BY <1>1 DEF IsWorkflow, Permissions, Concurrency
<1> QED BY <1>1, <1>2, <1>3 DEF p, c

\* An edited file is a file that parses, with the same steps but for the refs.
LEMMA Edits ==
  ASSUME NEW f, IsWorkflow(f), NEW operation \in FixOperations
  PROVE  /\ IsWorkflow(Apply(operation, f)) /\ SameSteps(f, Apply(operation, f))
         /\ Apply(operation, f).name = f.name /\ Apply(operation, f).triggers = f.triggers
<1>1. CASE operation = "pin-shas" BY <1>1, PinParts DEF Apply, SameHead
<1>2. CASE operation = "set-permissions" BY <1>2, HeadParts DEF Apply
<1>3. CASE operation = "swap-runs-on" BY <1>3, SwapParts DEF Apply, SameHead
<1>4. CASE operation = "bump-action-version" BY <1>4, BumpParts DEF Apply, SameHead
<1>5. CASE operation = "add-concurrency" BY <1>5, HeadParts DEF Apply
<1> QED BY <1>1, <1>2, <1>3, <1>4, <1>5 DEF FixOperations
-----------------------------------------------------------------------------
(* Drift *)

\* The worst of the seven comparisons.
LEMMA WorstIs ==
  ASSUME NEW a \in 1..4, NEW b \in 1..4, NEW c \in 1..4, NEW d \in 1..4,
         NEW e \in 1..4, NEW g \in 1..4, NEW h \in 1..4
  PROVE  LET w == Worst(<<a, b, c, d, e, g, h>>) IN
         w \in {a, b, c, d, e, g, h} /\ \A x \in {a, b, c, d, e, g, h} : x <= w
<1> DEFINE s == <<a, b, c, d, e, g, h>>
           S == {a, b, c, d, e, g, h}
<1>1. ToSet(s) = S
  <2>1. DOMAIN s = {1, 2, 3, 4, 5, 6, 7} OBVIOUS
  <2>2. ToSet(s) = {s[1], s[2], s[3], s[4], s[5], s[6], s[7]} BY <2>1 DEF ToSet
  <2> QED BY <2>2
<1>2. \E x \in S : \A y \in S : y <= x
  <2> HIDE DEF S
  <2>1. S \subseteq 1..4 /\ S # {} BY DEF S
  <2>2. CASE 4 \in S BY <2>1, <2>2
  <2>3. CASE 4 \notin S /\ 3 \in S
    <3>1. S \subseteq 1..3 BY <2>1, <2>3
    <3> QED BY <2>3, <3>1
  <2>4. CASE 4 \notin S /\ 3 \notin S /\ 2 \in S
    <3>1. S \subseteq 1..2 BY <2>1, <2>4
    <3> QED BY <2>4, <3>1
  <2>5. CASE 4 \notin S /\ 3 \notin S /\ 2 \notin S
    <3>1. \A x \in S : x = 1 BY <2>1, <2>5
    <3>2. PICK x \in S : TRUE BY <2>1
    <3>3. \A y \in S : y <= x BY <3>1, <3>2
    <3> QED BY <3>3
  <2> QED BY <2>2, <2>3, <2>4, <2>5
<1> HIDE DEF S
<1>3. Max(S) \in S /\ \A y \in S : y <= Max(S)
  <2>1. \E x \in S : \A y \in S : x >= y
    <3>1. S \subseteq Int BY DEF S
    <3> QED BY <1>2, <3>1
  <2>2. S \subseteq Int BY DEF S
  <2> QED BY <2>1, <2>2 DEF Max
<1> QED BY <1>1, <1>3 DEF Worst, S

\* Which two files are told apart structurally, by content, or by name.
SameJobs(c, d) ==
  /\ DOMAIN c.jobs = DOMAIN d.jobs
  /\ \A j \in DOMAIN c.jobs : Sequence(c.jobs[j]) = Sequence(d.jobs[j])

SameContent(c, d) ==
  /\ \A j \in DOMAIN c.jobs \cap DOMAIN d.jobs :
       Signature(c.jobs[j]) = Signature(d.jobs[j]) /\ c.jobs[j].perms = d.jobs[j].perms
  /\ c.perms = d.perms /\ (Grouped(c) <=> Grouped(d))

LEMMA DiffIs ==
  ASSUME NEW c, NEW d
  PROVE  Diff(c, d) = IF ~SameJobs(c, d) THEN 4 ELSE IF ~SameContent(c, d) THEN 3
                      ELSE IF c.name # d.name THEN 2 ELSE 1
<1> DEFINE shared == DOMAIN c.jobs \cap DOMAIN d.jobs
           domains == IF DOMAIN c.jobs # DOMAIN d.jobs THEN 4 ELSE 1
           sequences == IF \E j \in shared : Sequence(c.jobs[j]) # Sequence(d.jobs[j]) THEN 4 ELSE 1
           signatures == IF \E j \in shared : Signature(c.jobs[j]) # Signature(d.jobs[j]) THEN 3 ELSE 1
           blocks == IF \E j \in shared : c.jobs[j].perms # d.jobs[j].perms THEN 3 ELSE 1
           perms == IF c.perms # d.perms THEN 3 ELSE 1
           concurrency == IF Grouped(c) # Grouped(d) THEN 3 ELSE 1
           name == IF c.name # d.name THEN 2 ELSE 1
<1>1. /\ domains \in {1, 4} /\ sequences \in {1, 4} /\ signatures \in {1, 3} /\ blocks \in {1, 3}
      /\ perms \in {1, 3} /\ concurrency \in {1, 3} /\ name \in {1, 2}
  OBVIOUS
<1>2. Diff(c, d) = Worst(<<domains, sequences, signatures, blocks, perms, concurrency, name>>)
  BY DEF Diff, Bumps
<1>3. SameJobs(c, d) <=> domains = 1 /\ sequences = 1
  BY DEF SameJobs
<1>4. SameContent(c, d) <=> signatures = 1 /\ blocks = 1 /\ perms = 1 /\ concurrency = 1
  BY DEF SameContent, Grouped
<1>5. c.name = d.name <=> name = 1
  OBVIOUS
<1> HIDE DEF domains, sequences, signatures, blocks, perms, concurrency, name
<1>6. LET w == Worst(<<domains, sequences, signatures, blocks, perms, concurrency, name>>)
          S == {domains, sequences, signatures, blocks, perms, concurrency, name} IN
      w \in S /\ \A x \in S : x <= w
  <2>1. /\ domains \in 1..4 /\ sequences \in 1..4 /\ signatures \in 1..4 /\ blocks \in 1..4
        /\ perms \in 1..4 /\ concurrency \in 1..4 /\ name \in 1..4
    BY <1>1
  <2> QED BY <2>1, WorstIs
<1> DEFINE w == Diff(c, d)
<1>7. /\ w \in {domains, sequences, signatures, blocks, perms, concurrency, name}
      /\ domains <= w /\ sequences <= w /\ signatures <= w /\ blocks <= w
      /\ perms <= w /\ concurrency <= w /\ name <= w
  BY <1>2, <1>6
<1> HIDE DEF w
<1>8. CASE ~SameJobs(c, d)
  <2>1. domains = 4 \/ sequences = 4 BY <1>1, <1>3, <1>8
  <2>2. w = 4 BY <1>1, <1>7, <2>1
  <2> QED BY <1>8, <2>2 DEF w
<1>9. CASE SameJobs(c, d) /\ ~SameContent(c, d)
  <2>1. domains = 1 /\ sequences = 1 /\ (signatures = 3 \/ blocks = 3 \/ perms = 3 \/ concurrency = 3)
    BY <1>1, <1>3, <1>4, <1>9
  <2>2. w = 3 BY <1>1, <1>7, <2>1
  <2> QED BY <1>9, <2>2 DEF w
<1>10. CASE SameJobs(c, d) /\ SameContent(c, d)
  <2>1. /\ domains = 1 /\ sequences = 1 /\ signatures = 1 /\ blocks = 1 /\ perms = 1
        /\ concurrency = 1
    BY <1>3, <1>4, <1>10
  <2>2. w = name BY <1>1, <1>7, <2>1
  <2> QED BY <1>1, <1>5, <1>10, <2>2 DEF w
<1> QED BY <1>8, <1>9, <1>10

LEMMA DiffType == ASSUME NEW c, NEW d PROVE Diff(c, d) \in 1..4
BY DiffIs

LEMMA MaxOfTwo ==
  ASSUME NEW x \in Int, NEW y \in Int
  PROVE  Max({x, y}) = IF x >= y THEN x ELSE y
<1>1. \E m \in {x, y} : \A z \in {x, y} : m >= z
  <2>1. CASE x >= y BY <2>1
  <2>2. CASE y >= x BY <2>2
  <2> QED BY <2>1, <2>2
<1>2. Max({x, y}) \in {x, y} /\ \A z \in {x, y} : Max({x, y}) >= z
  BY <1>1 DEF Max
<1> QED BY <1>2

\* Drift is the same from either side, and never longer by a detour: for any
\* three files, also such as no text parses to.
LEMMA DiffSymmetric == ASSUME NEW a, NEW b PROVE Diff(a, b) = Diff(b, a)
<1>1. (SameJobs(a, b) <=> SameJobs(b, a)) /\ (SameContent(a, b) <=> SameContent(b, a))
  BY DEF SameJobs, SameContent
<1>2. Diff(a, b) = IF ~SameJobs(a, b) THEN 4 ELSE IF ~SameContent(a, b) THEN 3
                   ELSE IF a.name # b.name THEN 2 ELSE 1
  BY DiffIs
<1>3. Diff(b, a) = IF ~SameJobs(b, a) THEN 4 ELSE IF ~SameContent(b, a) THEN 3
                   ELSE IF b.name # a.name THEN 2 ELSE 1
  BY DiffIs
<1> QED BY <1>1, <1>2, <1>3

LEMMA DiffTriangle ==
  ASSUME NEW a, NEW b, NEW c PROVE Diff(a, c) <= Max({Diff(a, b), Diff(b, c)})
<1>1. SameJobs(a, b) /\ SameJobs(b, c) => SameJobs(a, c)
  BY DEF SameJobs
<1>2. SameJobs(a, b) /\ SameJobs(b, c) /\ SameContent(a, b) /\ SameContent(b, c) => SameContent(a, c)
  BY DEF SameJobs, SameContent
<1>3. /\ Diff(a, b) = IF ~SameJobs(a, b) THEN 4 ELSE IF ~SameContent(a, b) THEN 3
                      ELSE IF a.name # b.name THEN 2 ELSE 1
      /\ Diff(b, c) = IF ~SameJobs(b, c) THEN 4 ELSE IF ~SameContent(b, c) THEN 3
                      ELSE IF b.name # c.name THEN 2 ELSE 1
      /\ Diff(a, c) = IF ~SameJobs(a, c) THEN 4 ELSE IF ~SameContent(a, c) THEN 3
                      ELSE IF a.name # c.name THEN 2 ELSE 1
  BY DiffIs
<1>4. Diff(a, b) \in 1..4 /\ Diff(b, c) \in 1..4 /\ Diff(a, c) \in 1..4
  BY DiffType
<1>5. Diff(a, c) <= Diff(a, b) \/ Diff(a, c) <= Diff(b, c)
  <2>1. CASE SameJobs(a, b) /\ SameJobs(b, c) /\ SameContent(a, b) /\ SameContent(b, c)
    BY <1>1, <1>2, <1>3, <2>1
  <2>2. CASE ~SameJobs(a, b) \/ ~SameJobs(b, c)
    BY <1>3, <1>4, <2>2
  <2>3. CASE SameJobs(a, b) /\ SameJobs(b, c) /\ (~SameContent(a, b) \/ ~SameContent(b, c))
    BY <1>1, <1>3, <2>3
  <2> QED BY <2>1, <2>2, <2>3
<1> QED BY <1>4, <1>5, MaxOfTwo

\* An edit leaves the jobs and the order of their steps.
LEMMA EditDiff ==
  ASSUME NEW f, NEW g, SameSteps(f, g) PROVE Diff(f, g) <= 3
<1>1. SameJobs(f, g)
  BY DEF SameSteps, SameJobs, Sequence
<1> QED BY <1>1, DiffIs

\* A swap of runners leaves all that drift compares.
LEMMA SwapDiff ==
  ASSUME NEW f, IsWorkflow(f) PROVE Diff(f, SwapRunsOn(f)) = 1
<1> DEFINE g == SwapRunsOn(f)
<1>1. SameSteps(f, g) /\ SameHead(f, g) /\ \A j \in DOMAIN f.jobs : g.jobs[j].steps = f.jobs[j].steps
  BY SwapParts
<1> HIDE DEF g
<1>2. SameJobs(f, g)
  BY <1>1 DEF SameSteps, SameJobs, Sequence
<1>3. SameContent(f, g) /\ f.name = g.name
  BY <1>1 DEF SameSteps, SameHead, SameContent, Signature, Grouped
<1>4. Diff(f, g) = 1
  BY <1>2, <1>3, DiffIs
<1> QED BY <1>4 DEF g
-----------------------------------------------------------------------------
(* The findings of a file *)

\* The values of a function of finitely many things are finitely many.
LEMMA FiniteValues ==
  ASSUME NEW g, IsFiniteSet(DOMAIN g), g = [x \in DOMAIN g |-> g[x]]
  PROVE  IsFiniteSet({g[x] : x \in DOMAIN g})
<1> DEFINE T == {g[x] : x \in DOMAIN g}
<1>1. g \in Surjection(DOMAIN g, T)
  BY DEF Surjection
<1> QED BY <1>1, FS_Surjection

\* A file makes finitely many references.
LEMMA JobUsesType ==
  ASSUME NEW job, IsJob(job) PROVE JobUses(job) \subseteq Uses /\ IsFiniteSet(JobUses(job))
<1>1. JobUses(job) \subseteq Uses
  <2>1. \A i \in DOMAIN job.steps : job.steps[i] \in Steps BY DEF IsJob
  <2> QED BY <2>1 DEF IsJob, JobUses, ToSet, Steps
<1>2. IsFiniteSet(JobUses(job))
  <2> DEFINE g == [i \in DOMAIN job.steps |-> job.steps[i].uses]
             V == {g[i] : i \in DOMAIN g}
  <2>1. IsFiniteSet(DOMAIN g)
    <3>1. DOMAIN job.steps = 1..Len(job.steps) /\ Len(job.steps) \in Nat BY DEF IsJob
    <3> QED BY <3>1, FS_Interval
  <2>2. g = [x \in DOMAIN g |-> g[x]] OBVIOUS
  <2>3. IsFiniteSet(V)
    <3> HIDE DEF g
    <3> QED BY <2>1, <2>2, FiniteValues
  <2>4. IsFiniteSet(V \cup {job.call})
    BY <2>3, FS_AddElement
  <2>5. JobUses(job) \subseteq V \cup {job.call}
    BY DEF JobUses, ToSet
  <2> QED BY <2>4, <2>5, FS_Subset
<1> QED BY <1>1, <1>2

LEMMA UsesFinite ==
  ASSUME NEW f, IsWorkflow(f) PROVE AllUses(f) \subseteq Uses /\ IsFiniteSet(AllUses(f))
<1>1. \A j \in DOMAIN f.jobs : JobUses(f.jobs[j]) \subseteq Uses /\ IsFiniteSet(JobUses(f.jobs[j]))
  BY JobUsesType DEF IsWorkflow
<1> DEFINE g == [j \in DOMAIN f.jobs |-> JobUses(f.jobs[j])]
<1>2. IsFiniteSet(DOMAIN g) /\ g = [j \in DOMAIN g |-> g[j]]
  BY DEF IsWorkflow
<1>3. AllUses(f) = UNION {g[j] : j \in DOMAIN g}
  BY DEF AllUses
<1>4. \A j \in DOMAIN g : g[j] \subseteq Uses /\ IsFiniteSet(g[j])
  BY <1>1
<1> HIDE DEF g
<1>5. IsFiniteSet({g[j] : j \in DOMAIN g})
  BY <1>2, FiniteValues
<1> QED BY <1>3, <1>4, <1>5, FS_UNION

\* Which references the pin rule flags, and the finding it makes of one.
Flagged(u) == Classify(u) \in {"unpinned", "branch", "unknown", "tag"} /\ Pair(u) \notin Immutable
PinFinding(u) ==
  Finding("unpinned_action", IF Classify(u) = "tag" THEN "medium" ELSE "high", u, None)
DeprecatedUse(u) == Finding("deprecated_action", "medium", u, None)
DeprecatedCommand(j) == Finding("deprecated_action", "medium", None, j)
BroadJob(j) == Finding("broad_permissions", "medium", None, j)
BroadFile == Finding("broad_permissions", "high", None, None)
NoPermissions == Finding("missing_permissions", "medium", None, None)
NoConcurrency == Finding("missing_concurrency", "low", None, None)
Commands(job) == \E s \in ToSet(job.steps) : s.command

\* The findings of a file, one kind after the other.
LEMMA FindingIs ==
  ASSUME NEW f, NEW x
  PROVE  x \in AuditWorkflow(f) <=>
           \/ \E u \in AllUses(f) : Flagged(u) /\ x = PinFinding(u)
           \/ \E u \in AllUses(f) : Pair(u) \in Deprecated /\ x = DeprecatedUse(u)
           \/ \E j \in DOMAIN f.jobs : Commands(f.jobs[j]) /\ x = DeprecatedCommand(j)
           \/ \E j \in DOMAIN f.jobs : Broad(f.jobs[j].perms) /\ x = BroadJob(j)
           \/ f.perms = "write" /\ x = BroadFile
           \/ f.perms = None /\ x = NoPermissions
           \/ f.concurrency \in {None, "null"} /\ x = NoConcurrency
<1>1. x \in AuditPins(f) <=> \E u \in AllUses(f) : Flagged(u) /\ x = PinFinding(u)
  BY DEF AuditPins, Flagged, PinFinding
<1>2. x \in AuditDeprecations(f) <=>
        \/ \E u \in AllUses(f) : Pair(u) \in Deprecated /\ x = DeprecatedUse(u)
        \/ \E j \in DOMAIN f.jobs : Commands(f.jobs[j]) /\ x = DeprecatedCommand(j)
  BY DEF AuditDeprecations, Commands, DeprecatedUse, DeprecatedCommand
<1>3. x \in AuditPermissions(f) <=>
        \/ \E j \in DOMAIN f.jobs : Broad(f.jobs[j].perms) /\ x = BroadJob(j)
        \/ f.perms = "write" /\ x = BroadFile
        \/ f.perms = None /\ x = NoPermissions
  BY DEF AuditPermissions, BroadJob, BroadFile, NoPermissions
<1>4. x \in AuditConcurrency(f) <=> f.concurrency \in {None, "null"} /\ x = NoConcurrency
  BY DEF AuditConcurrency, NoConcurrency
<1> QED BY <1>1, <1>2, <1>3, <1>4 DEF AuditWorkflow

\* They are finitely many.
LEMMA FindingsFinite ==
  ASSUME NEW f, IsWorkflow(f) PROVE IsFiniteSet(AuditWorkflow(f))
<1> DEFINE p == [u \in AllUses(f) |-> PinFinding(u)]
           d == [u \in AllUses(f) |-> DeprecatedUse(u)]
           c == [j \in DOMAIN f.jobs |-> DeprecatedCommand(j)]
           b == [j \in DOMAIN f.jobs |-> BroadJob(j)]
           P == {p[u] : u \in DOMAIN p}
           D == {d[u] : u \in DOMAIN d}
           C == {c[j] : j \in DOMAIN c}
           B == {b[j] : j \in DOMAIN b}
           W == {BroadFile, NoPermissions, NoConcurrency}
<1>1. IsFiniteSet(DOMAIN p) /\ p = [x \in DOMAIN p |-> p[x]] BY UsesFinite
<1>2. IsFiniteSet(DOMAIN d) /\ d = [x \in DOMAIN d |-> d[x]] BY UsesFinite
<1>3. IsFiniteSet(DOMAIN c) /\ c = [x \in DOMAIN c |-> c[x]] BY DEF IsWorkflow
<1>4. IsFiniteSet(DOMAIN b) /\ b = [x \in DOMAIN b |-> b[x]] BY DEF IsWorkflow
<1>5. IsFiniteSet(W)
  <2>1. IsFiniteSet({BroadFile} \cup {NoPermissions} \cup {NoConcurrency})
    BY FS_Singleton, FS_AddElement
  <2> QED BY <2>1
<1>6. AuditWorkflow(f) \subseteq P \cup D \cup C \cup B \cup W
  <2> SUFFICES ASSUME NEW x \in AuditWorkflow(f) PROVE x \in P \cup D \cup C \cup B \cup W
    OBVIOUS
  <2>1. \A u \in AllUses(f) : PinFinding(u) \in P /\ DeprecatedUse(u) \in D
    BY DEF PinFinding, DeprecatedUse
  <2>2. \A j \in DOMAIN f.jobs : DeprecatedCommand(j) \in C /\ BroadJob(j) \in B
    BY DEF DeprecatedCommand, BroadJob
  <2> HIDE DEF P, D, C, B
  <2> QED BY <2>1, <2>2, FindingIs
<1> HIDE DEF p, d, c, b, W
<1>7. IsFiniteSet(P) /\ IsFiniteSet(D) /\ IsFiniteSet(C) /\ IsFiniteSet(B)
  BY <1>1, <1>2, <1>3, <1>4, FiniteValues
<1> HIDE DEF P, D, C, B
<1>8. IsFiniteSet(P \cup D \cup C \cup B \cup W)
  BY <1>5, <1>7, FS_Union
<1> QED BY <1>6, <1>8, FS_Subset

\* Fewer findings weigh less ...
LEMMA PenaltyMonotone ==
  ASSUME NEW S, IsFiniteSet(S), NEW T \in SUBSET S
  PROVE  Penalty(T) \in Nat /\ Penalty(S) \in Nat /\ Penalty(T) <= Penalty(S)
<1> DEFINE Count(R, severity) == Cardinality({x \in R : x.severity = severity})
<1>1. ASSUME NEW severity
      PROVE  /\ Count(T, severity) \in Nat /\ Count(S, severity) \in Nat
             /\ Count(T, severity) <= Count(S, severity)
  <2>1. IsFiniteSet({x \in S : x.severity = severity}) BY FS_Subset
  <2>2. {x \in T : x.severity = severity} \subseteq {x \in S : x.severity = severity} OBVIOUS
  <2> QED BY <2>1, <2>2, FS_Subset, FS_CardinalityType
<1>2. /\ Penalty(T) = 10 * Count(T, "high") + 4 * Count(T, "medium") + Count(T, "low")
      /\ Penalty(S) = 10 * Count(S, "high") + 4 * Count(S, "medium") + Count(S, "low")
  <2>1. Weight.high = 10 /\ Weight.medium = 4 /\ Weight.low = 1
    BY DEF Weight
  <2>2. \A R : Penalty(R) = Weight.high * Count(R, "high") + Weight.medium * Count(R, "medium")
                            + Weight.low * Count(R, "low")
    BY DEF Penalty
  <2> HIDE DEF Count
  <2> QED BY <1>1, <2>1, <2>2
<1> HIDE DEF Count
<1> QED BY <1>1, <1>2

\* ... and score no lower.
LEMMA ScoreMonotone ==
  ASSUME NEW S, IsFiniteSet(S), NEW T \in SUBSET S, NEW repos \in 1..2
  PROVE  Score(T, repos) >= Score(S, repos)
<1> DEFINE s == Penalty(S)
           t == Penalty(T)
           Twice(p) == 2 * (100 * repos - p) + repos
           Up(p) == Twice(p) \div (2 * repos)
           Round(p) == IF Twice(p) % (2 * repos) = 0 /\ Up(p) % 2 = 1 THEN Up(p) - 1 ELSE Up(p)
<1>1. s \in Nat /\ t \in Nat /\ t <= s BY PenaltyMonotone
<1>2. Score(S, repos) = Max({0, Round(s)}) /\ Score(T, repos) = Max({0, Round(t)})
  BY DEF Score
<1> HIDE DEF s, t
<1>3. Round(s) \in Int /\ Round(t) \in Int /\ Round(t) >= Round(s)
  <2>1. CASE repos = 1 BY <1>1, <2>1
  <2>2. CASE repos = 2 BY <1>1, <2>2
  <2> QED BY <2>1, <2>2
<1> HIDE DEF Round
<1> QED BY <1>2, <1>3, MaxOfTwo
-----------------------------------------------------------------------------
(* What a fix closes *)

\* Which findings are new or left after an operation: the two sides of
\* FixesClose, for one file.
Left(operation, f, after) ==
  \A x \in after : x.type \in Closes(operation) => Leaves(operation, f, x)
New(operation, after) ==
  {x \in after : operation = "bump-action-version" /\ x.use # None /\ Pair(x.use) = BumpTo}

\* A finding that answers to the reference it is about.
LEMMA AboutUse ==
  ASSUME NEW u \in Uses
  PROVE  /\ PinFinding(u).use = u /\ PinFinding(u).type = "unpinned_action"
         /\ DeprecatedUse(u).use = u /\ DeprecatedUse(u).type = "deprecated_action"
         /\ u # None /\ u.ref = Pair(u)[2]
BY WorkflowsAssumption DEF PinFinding, DeprecatedUse, Finding, Pair

\* ... or to a job, or to the file.
LEMMA AboutJob ==
  ASSUME NEW j
  PROVE  /\ DeprecatedCommand(j).job = j /\ DeprecatedCommand(j).type = "deprecated_action"
         /\ BroadJob(j).job = j /\ BroadJob(j).type = "broad_permissions"
         /\ BroadFile.type = "broad_permissions" /\ NoPermissions.type = "missing_permissions"
         /\ NoConcurrency.type = "missing_concurrency"
BY DEF DeprecatedCommand, BroadJob, BroadFile, NoPermissions, NoConcurrency, Finding

\* Files with the same steps make the same findings about their jobs.
LEMMA SameJobFindings ==
  ASSUME NEW f, NEW g, SameSteps(f, g), NEW j \in DOMAIN f.jobs
  PROVE  /\ Commands(g.jobs[j]) <=> Commands(f.jobs[j])
         /\ Broad(g.jobs[j].perms) <=> Broad(f.jobs[j].perms)
<1>1. Commands(f.jobs[j]) <=> \E i \in DOMAIN f.jobs[j].steps : f.jobs[j].steps[i].command
  BY DEF Commands, ToSet
<1>2. Commands(g.jobs[j]) <=> \E i \in DOMAIN f.jobs[j].steps : g.jobs[j].steps[i].command
  BY DEF Commands, ToSet, SameSteps
<1> QED BY <1>1, <1>2 DEF SameSteps, Broad

\* A reference of an edited file is that of a call, or one of an edited step.
LEMMA EditedUses ==
  ASSUME NEW f, NEW g, SameSteps(f, g), NEW u \in AllUses(g)
  PROVE  \/ u \in AllUses(f) /\ \E j \in DOMAIN f.jobs : f.jobs[j].call = u
         \/ \E j \in DOMAIN f.jobs : \E i \in DOMAIN f.jobs[j].steps :
              /\ f.jobs[j].steps[i].uses # None /\ f.jobs[j].steps[i].uses \in AllUses(f)
              /\ u = g.jobs[j].steps[i].uses
<1>1. PICK j \in DOMAIN f.jobs : u \in JobUses(g.jobs[j])
  BY DEF AllUses, SameSteps
<1>2. JobUses(f.jobs[j]) \subseteq AllUses(f)
  BY DEF AllUses
<1>3. CASE u = g.jobs[j].call
  BY <1>1, <1>2, <1>3 DEF JobUses, SameSteps
<1>4. CASE u # g.jobs[j].call
  <2>1. PICK i \in DOMAIN f.jobs[j].steps : u = g.jobs[j].steps[i].uses
    BY <1>1, <1>4 DEF JobUses, ToSet, SameSteps
  <2>2. f.jobs[j].steps[i].uses # None
    BY <1>1, <2>1 DEF JobUses, SameSteps
  <2>3. f.jobs[j].steps[i].uses \in JobUses(f.jobs[j])
    BY <2>2 DEF JobUses, ToSet
  <2> QED BY <1>2, <2>1, <2>2, <2>3
<1> QED BY <1>3, <1>4

\* pin-shas: a reference that stays flagged is a call, or resolves to nothing.
LEMMA PinCloses ==
  ASSUME NEW f, IsWorkflow(f)
  PROVE  LET after == AuditWorkflow(PinShas(f)) IN
         Left("pin-shas", f, after) /\ after \subseteq AuditWorkflow(f)
<1> DEFINE g == PinShas(f)
<1>1. IsWorkflow(g) /\ SameSteps(f, g) /\ SameHead(f, g)
      /\ \A j \in DOMAIN f.jobs : \A i \in DOMAIN f.jobs[j].steps :
           f.jobs[j].steps[i].uses # None => g.jobs[j].steps[i].uses = Pinned(f.jobs[j].steps[i].uses)
  BY PinParts
<1> HIDE DEF g
<1>2. ASSUME NEW u \in AllUses(g), Flagged(u) \/ Pair(u) \in Deprecated
      PROVE  /\ u \in AllUses(f)
             /\ Flagged(u) => \/ Classify(u) \in {"unpinned", "unknown"}
                              \/ \E j \in DOMAIN f.jobs : f.jobs[j].call = u
  <2>1. CASE u \in AllUses(f) /\ \E j \in DOMAIN f.jobs : f.jobs[j].call = u
    BY <2>1
  <2>2. CASE \E j \in DOMAIN f.jobs : \E i \in DOMAIN f.jobs[j].steps :
               /\ f.jobs[j].steps[i].uses # None /\ f.jobs[j].steps[i].uses \in AllUses(f)
               /\ u = g.jobs[j].steps[i].uses
    <3>1. PICK v \in AllUses(f) : u = Pinned(v)
      BY <1>1, <2>2
    <3>2. u \in Uses /\ v \in Uses
      BY <1>1, UsesFinite
    <3>3. CASE Resolved(v)
      <4>1. Classify(u) = "sha" BY <3>1, <3>2, <3>3, PinnedUse
      <4>2. ~Flagged(u) BY <4>1 DEF Flagged
      <4>3. u.ref \in Shas BY <3>2, <4>1, Classified
      <4>4. Pair(u) \notin Deprecated BY <3>2, <4>3, AboutUse, WorkflowsAssumption
      <4> QED BY <1>2, <4>2, <4>4
    <3>4. CASE ~Resolved(v)
      <4>1. u = v BY <3>1, <3>4 DEF Pinned
      <4> QED BY <3>4, <4>1 DEF Resolved, Flagged
    <3> QED BY <3>3, <3>4
  <2> QED BY <1>1, <2>1, <2>2, EditedUses
<1>3. AuditWorkflow(g) \subseteq AuditWorkflow(f)
  <2> SUFFICES ASSUME NEW x \in AuditWorkflow(g) PROVE x \in AuditWorkflow(f)
    OBVIOUS
  <2>1. DOMAIN g.jobs = DOMAIN f.jobs /\ g.perms = f.perms /\ g.concurrency = f.concurrency
    BY <1>1 DEF SameSteps, SameHead
  <2> QED BY <1>1, <1>2, <2>1, FindingIs, SameJobFindings
<1>4. Left("pin-shas", f, AuditWorkflow(g))
  <2> SUFFICES ASSUME NEW x \in AuditWorkflow(g), x.type = "unpinned_action"
               PROVE  Leaves("pin-shas", f, x)
    BY DEF Left, Closes
  <2>1. AllUses(g) \subseteq Uses BY <1>1, UsesFinite
  <2>2. PICK u \in AllUses(g) : Flagged(u) /\ x = PinFinding(u)
    BY <2>1, FindingIs, AboutUse, AboutJob
  <2>3. x.use = u BY <2>1, <2>2, AboutUse
  <2> QED BY <1>2, <2>2, <2>3 DEF Leaves
<1> QED BY <1>3, <1>4 DEF g

\* bump-action-version: a finding is an old one, or about the target.
LEMMA BumpCloses ==
  ASSUME NEW f, IsWorkflow(f)
  PROVE  LET after == AuditWorkflow(BumpVersion(f)) IN
         /\ Left("bump-action-version", f, after)
         /\ after \subseteq AuditWorkflow(f) \cup New("bump-action-version", after)
<1> DEFINE g == BumpVersion(f)
<1>1. IsWorkflow(g) /\ SameSteps(f, g) /\ SameHead(f, g)
      /\ \A j \in DOMAIN f.jobs : \A i \in DOMAIN f.jobs[j].steps :
           f.jobs[j].steps[i].uses # None => g.jobs[j].steps[i].uses = Bumped(f.jobs[j].steps[i].uses)
  BY BumpParts
<1> HIDE DEF g
<1>2. ASSUME NEW u \in AllUses(g)
      PROVE  /\ u \in AllUses(f) \/ Pair(u) = BumpTo
             /\ \/ Pair(u) = BumpTo
                \/ u.action # BumpTo[1]
                \/ \E j \in DOMAIN f.jobs : f.jobs[j].call = u
  <2>1. CASE u \in AllUses(f) /\ \E j \in DOMAIN f.jobs : f.jobs[j].call = u
    BY <2>1
  <2>2. CASE \E j \in DOMAIN f.jobs : \E i \in DOMAIN f.jobs[j].steps :
               /\ f.jobs[j].steps[i].uses # None /\ f.jobs[j].steps[i].uses \in AllUses(f)
               /\ u = g.jobs[j].steps[i].uses
    <3>1. PICK v \in AllUses(f) : u = Bumped(v)
      BY <1>1, <2>2
    <3>2. v \in Uses
      BY UsesFinite
    <3>3. CASE v.action = BumpTo[1]
      <4>1. u.action = BumpTo[1] /\ u.ref = BumpTo[2]
        BY <3>1, <3>2, <3>3 DEF Bumped, Uses
      <4> QED BY <4>1, WorkflowsAssumption DEF Pair
    <3>4. CASE v.action # BumpTo[1]
      BY <3>1, <3>4 DEF Bumped
    <3> QED BY <3>3, <3>4
  <2> QED BY <1>1, <2>1, <2>2, EditedUses
<1>0. AllUses(g) \subseteq Uses BY <1>1, UsesFinite
<1>3. ASSUME NEW x \in AuditWorkflow(g)
      PROVE  x \in AuditWorkflow(f) \/ x \in New("bump-action-version", AuditWorkflow(g))
  <2>1. DOMAIN g.jobs = DOMAIN f.jobs /\ g.perms = f.perms /\ g.concurrency = f.concurrency
    BY <1>1 DEF SameSteps, SameHead
  <2>2. CASE \E u \in AllUses(g) : Flagged(u) /\ x = PinFinding(u)
    BY <1>0, <1>2, <2>2, FindingIs, AboutUse DEF New
  <2>3. CASE \E u \in AllUses(g) : Pair(u) \in Deprecated /\ x = DeprecatedUse(u)
    BY <1>0, <1>2, <2>3, FindingIs, AboutUse DEF New
  <2> QED BY <1>1, <2>1, <2>2, <2>3, FindingIs, SameJobFindings
<1>4. Left("bump-action-version", f, AuditWorkflow(g))
  <2> SUFFICES ASSUME NEW x \in AuditWorkflow(g), x.type = "deprecated_action"
               PROVE  Leaves("bump-action-version", f, x)
    BY DEF Left, Closes
  <2>1. CASE \E u \in AllUses(g) : Pair(u) \in Deprecated /\ x = DeprecatedUse(u)
    <3>1. PICK u \in AllUses(g) : Pair(u) \in Deprecated /\ x = DeprecatedUse(u)
      BY <2>1
    <3>2. x.use = u BY <1>0, <3>1, AboutUse
    <3> QED BY <1>2, <3>1, <3>2 DEF Leaves
  <2>2. CASE \E j \in DOMAIN g.jobs : x = DeprecatedCommand(j)
    <3>1. x.job # None BY <1>1, <2>2, AboutJob DEF IsWorkflow
    <3> QED BY <3>1 DEF Leaves
  <2> QED BY <1>0, <2>1, <2>2, FindingIs, AboutUse, AboutJob
<1> QED BY <1>3, <1>4 DEF g

\* The others: a file keeps its steps, so all its findings but one kind.
LEMMA SameUses ==
  ASSUME NEW f, NEW g, SameSteps(f, g),
         \A j \in DOMAIN f.jobs : g.jobs[j].steps = f.jobs[j].steps
  PROVE  AllUses(g) = AllUses(f)
<1>1. \A j \in DOMAIN f.jobs : JobUses(g.jobs[j]) = JobUses(f.jobs[j])
  BY DEF SameSteps, JobUses
<1> QED BY <1>1 DEF SameSteps, AllUses

LEMMA SwapCloses ==
  ASSUME NEW f, IsWorkflow(f)
  PROVE  LET after == AuditWorkflow(SwapRunsOn(f)) IN
         Left("swap-runs-on", f, after) /\ after \subseteq AuditWorkflow(f)
<1> DEFINE g == SwapRunsOn(f)
<1>1. SameSteps(f, g) /\ SameHead(f, g) /\ \A j \in DOMAIN f.jobs : g.jobs[j].steps = f.jobs[j].steps
  BY SwapParts
<1> HIDE DEF g
<1>2. AllUses(g) = AllUses(f) /\ DOMAIN g.jobs = DOMAIN f.jobs
      /\ g.perms = f.perms /\ g.concurrency = f.concurrency
  BY <1>1, SameUses DEF SameSteps, SameHead
<1>3. AuditWorkflow(g) \subseteq AuditWorkflow(f)
  BY <1>1, <1>2, FindingIs, SameJobFindings
<1> QED BY <1>3 DEF g, Left, Closes

LEMMA PermissionsCloses ==
  ASSUME NEW f, IsWorkflow(f)
  PROVE  LET after == AuditWorkflow(SetPermissions(f)) IN
         Left("set-permissions", f, after) /\ after \subseteq AuditWorkflow(f)
<1> DEFINE g == SetPermissions(f)
<1>1. SameSteps(f, g) /\ g.jobs = f.jobs /\ g.perms = "read" /\ g.concurrency = f.concurrency
  BY HeadParts
<1> HIDE DEF g
<1>2. AllUses(g) = AllUses(f)
  BY <1>1 DEF AllUses
<1>3. g.perms # None /\ g.perms # "write"
  BY <1>1, WorkflowsAssumption
<1>4. AuditWorkflow(g) \subseteq AuditWorkflow(f)
  BY <1>1, <1>2, <1>3, FindingIs
<1>5. Left("set-permissions", f, AuditWorkflow(g))
  <2> SUFFICES ASSUME NEW x \in AuditWorkflow(g), x.type \in {"missing_permissions", "broad_permissions"}
               PROVE  Leaves("set-permissions", f, x)
    BY DEF Left, Closes
  <2>1. AllUses(f) \subseteq Uses BY UsesFinite
  <2>2. PICK j \in DOMAIN f.jobs : x = BroadJob(j)
    BY <1>1, <1>2, <1>3, <2>1, FindingIs, AboutUse, AboutJob
  <2>3. x.job # None BY <2>2, AboutJob DEF IsWorkflow
  <2> QED BY <2>3 DEF Leaves
<1> QED BY <1>4, <1>5 DEF g

LEMMA ConcurrencyCloses ==
  ASSUME NEW f, IsWorkflow(f)
  PROVE  LET after == AuditWorkflow(AddConcurrency(f)) IN
         Left("add-concurrency", f, after) /\ after \subseteq AuditWorkflow(f)
<1> DEFINE g == AddConcurrency(f)
<1>1. /\ SameSteps(f, g) /\ g.jobs = f.jobs /\ g.perms = f.perms
      /\ g.concurrency = IF f.concurrency = None THEN "group" ELSE f.concurrency
  BY HeadParts
<1> HIDE DEF g
<1>2. AllUses(g) = AllUses(f)
  BY <1>1 DEF AllUses
<1>3. AuditWorkflow(g) \subseteq AuditWorkflow(f)
  BY <1>1, <1>2, FindingIs
<1>4. Left("add-concurrency", f, AuditWorkflow(g))
  <2> SUFFICES ASSUME NEW x \in AuditWorkflow(g), x.type = "missing_concurrency"
               PROVE  Leaves("add-concurrency", f, x)
    BY DEF Left, Closes
  <2>1. AllUses(f) \subseteq Uses BY UsesFinite
  <2>2. g.concurrency \in {None, "null"}
    BY <1>1, <1>2, <2>1, FindingIs, AboutUse, AboutJob
  <2>3. f.concurrency = "null" BY <1>1, <2>2, WorkflowsAssumption
  <2> QED BY <2>3 DEF Leaves
<1> QED BY <1>3, <1>4 DEF g

\* Any operation: FixesClose, for one file.
LEMMA FixCloses ==
  ASSUME NEW f, IsWorkflow(f), NEW operation \in FixOperations
  PROVE  LET before == AuditWorkflow(f)
             after == AuditWorkflow(Apply(operation, f)) IN
         /\ Left(operation, f, after)
         /\ after \subseteq before \cup New(operation, after)
         /\ New(operation, after) = {} =>
              \A repos \in 1..2 : Score(after, repos) >= Score(before, repos)
<1> DEFINE before == AuditWorkflow(f)
           after == AuditWorkflow(Apply(operation, f))
<1>1. Left(operation, f, after) /\ after \subseteq before \cup New(operation, after)
  <2>1. CASE operation = "pin-shas" BY <2>1, PinCloses DEF Apply
  <2>2. CASE operation = "set-permissions" BY <2>2, PermissionsCloses DEF Apply
  <2>3. CASE operation = "swap-runs-on" BY <2>3, SwapCloses DEF Apply
  <2>4. CASE operation = "bump-action-version" BY <2>4, BumpCloses DEF Apply
  <2>5. CASE operation = "add-concurrency" BY <2>5, ConcurrencyCloses DEF Apply
  <2> QED BY <2>1, <2>2, <2>3, <2>4, <2>5 DEF FixOperations
<1>2. IsFiniteSet(before)
  BY FindingsFinite
<1> HIDE DEF before, after
<1>3. New(operation, after) = {} =>
        \A repos \in 1..2 : Score(after, repos) >= Score(before, repos)
  BY <1>1, <1>2, ScoreMonotone
<1> QED BY <1>1, <1>3 DEF before, after
-----------------------------------------------------------------------------
(* Rows and sweeps *)

TemplateRow == [name : Names, text : Texts]
BindingRow == [site : Sites, template : Nat, severity : 1..4 \cup {None}]

\* A file that can be read has parsed.
FilesRight ==
  /\ file = [s \in Sites |-> file[s]]
  /\ \A s \in Sites : file[s] \in {None, Broken} \/ IsWorkflow(file[s])

\* Rows are only ever added, so a row that was found is there when it is used.
RowsRight ==
  /\ template \in Seq(TemplateRow) /\ binding \in Seq(BindingRow)
  /\ \A i \in DOMAIN binding : binding[i].template \in DOMAIN template

RequestRight(x) ==
  /\ x.pc \in {"idle", "commit"}
  /\ x.pc = "commit" =>
       \/ /\ x.kind = "template" /\ x.key \in Names /\ x.value \in Texts
          /\ x.found \in DOMAIN template \cup {0}
       \/ /\ x.kind = "binding" /\ x.key \in Sites /\ x.value \in DOMAIN template
          /\ x.found \in DOMAIN binding \cup {0}

RequestsRight ==
  /\ req = [q \in Requests |-> req[q]]
  /\ \A q \in Requests : RequestRight(req[q])

\* The templates a sweep copied are there; rows keep their ids.
CanonRight ==
  /\ sweep = [canon |-> sweep.canon, part |-> sweep.part]
  /\ DOMAIN sweep.canon \subseteq Names
  /\ \A n \in DOMAIN sweep.canon : sweep.canon[n].id \in DOMAIN template

\* A repository's part of the sweep: it scores files that have the name of a
\* template, and writes to rows of its own files.
PartRight(r, part) ==
  /\ DOMAIN part = {"pc", "todo", "scored", "found", "loaded"}
  /\ part.pc \in {"idle", "list", "fetch", "write"}
  /\ part.todo \cup DOMAIN part.scored \subseteq Paths /\ IsFiniteSet(DOMAIN part.scored)
  /\ \A p \in part.todo \cup DOMAIN part.scored : Basename[p] \in DOMAIN sweep.canon
  /\ \A p \in DOMAIN part.scored : part.scored[p] \in 1..4
  /\ part.pc = "write" =>
       /\ part.todo = {} /\ DOMAIN part.found = DOMAIN part.scored
       /\ \A p \in DOMAIN part.found :
            part.found[p] = 0
            \/ (part.found[p] \in DOMAIN binding /\ binding[part.found[p]].site = <<r, p>>)

PartsRight ==
  /\ sweep.part = [r \in Repos |-> sweep.part[r]]
  /\ \A r \in Repos : PartRight(r, sweep.part[r])

CountersRight == requests \in 0..MaxRequests /\ pushes \in 0..MaxPushes /\ faults \in 0..MaxFaults

DriftInv ==
  FilesRight /\ RowsRight /\ RequestsRight /\ CanonRight /\ PartsRight /\ CountersRight

LEMMA DriftInit == Init => DriftInv
<1> SUFFICES ASSUME Init PROVE DriftInv OBVIOUS
<1> USE DEF Init
<1>1. FilesRight
  BY TemplateDriftAssumption DEF FilesRight
<1>2. RowsRight
  BY DEF RowsRight
<1>3. RequestsRight
  BY DEF RequestsRight, RequestRight, NoRequest
<1>4. CanonRight
  BY DEF CanonRight, NoSweep
<1>5. PartsRight
  <2>1. DOMAIN <<>> = {} OBVIOUS
  <2>2. \A r \in Repos : sweep.part[r] = Idle BY DEF NoSweep
  <2>3. \A r \in Repos : PartRight(r, Idle) BY <2>1, FS_EmptySet DEF PartRight, Idle
  <2> QED BY <2>2, <2>3 DEF PartsRight, NoSweep
<1>6. CountersRight
  BY TemplateDriftAssumption DEF CountersRight
<1> QED BY <1>1, <1>2, <1>3, <1>4, <1>5, <1>6 DEF DriftInv

\* Rows are added after the others, and none changes its site.
Grown ==
  /\ DOMAIN template \subseteq DOMAIN template' /\ DOMAIN binding \subseteq DOMAIN binding'
  /\ \A i \in DOMAIN binding : binding'[i].site = binding[i].site

LEMMA CommitTemplateRows ==
  ASSUME DriftInv, NEW q \in Requests, CommitTemplate(q) PROVE RowsRight' /\ Grown
<1>1. /\ template \in Seq(TemplateRow) /\ binding \in Seq(BindingRow) /\ binding' = binding
      /\ \A i \in DOMAIN binding : binding[i].template \in DOMAIN template
  BY DEF DriftInv, RowsRight, CommitTemplate
<1>2. req[q].key \in Names /\ req[q].value \in Texts /\ req[q].found \in DOMAIN template \cup {0}
  <2>1. RequestRight(req[q]) BY DEF DriftInv, RequestsRight
  <2> QED BY <2>1 DEF RequestRight, CommitTemplate
<1> DEFINE row == [name |-> req[q].key, text |-> req[q].value]
<1>3. template' \in Seq(TemplateRow) /\ DOMAIN template \subseteq DOMAIN template'
  <2>1. CASE req[q].found = 0
    <3>1. row \in TemplateRow BY <1>2 DEF TemplateRow
    <3>2. template' = Append(template, row) BY <2>1 DEF CommitTemplate
    <3> QED BY <1>1, <3>1, <3>2
  <2>2. CASE req[q].found # 0
    <3> DEFINE i == req[q].found
    <3>1. i \in DOMAIN template BY <1>2, <2>2
    <3>2. template[i] \in TemplateRow BY <1>1, <3>1
    <3> DEFINE text == Assigned(template[i].text, req[q].loaded, req[q].value)
    <3>3. text \in Texts
      BY <1>2, <3>2 DEF TemplateRow, Assigned
    <3>4. template' = [template EXCEPT ![i] = [template[i] EXCEPT !.text = text]]
      BY <2>2 DEF CommitTemplate
    <3> HIDE DEF i, text
    <3>5. [template[i] EXCEPT !.text = text] \in TemplateRow
      BY <3>2, <3>3 DEF TemplateRow
    <3> QED BY <1>1, <3>1, <3>4, <3>5
  <2> QED BY <2>1, <2>2
<1> QED BY <1>1, <1>3 DEF RowsRight, Grown

\* A row that is bound again goes to its new template or stays with its own.
LEMMA ReboundRow ==
  ASSUME NEW row \in BindingRow, row.template \in DOMAIN template, NEW loaded,
         NEW t \in DOMAIN template, t \in Nat
  PROVE  LET new == Rebound(row, loaded, t) IN
         new \in BindingRow /\ new.template \in DOMAIN template /\ new.site = row.site
<1>1. Assigned(row.template, loaded, t) \in {row.template, t} BY DEF Assigned
<1>2. ASSUME NEW u \in DOMAIN template, u \in Nat
      PROVE  LET new == [row EXCEPT !.template = u] IN
             new \in BindingRow /\ new.template \in DOMAIN template /\ new.site = row.site
  BY <1>2 DEF BindingRow
<1>3. row.template \in Nat BY DEF BindingRow
<1> QED BY <1>1, <1>2, <1>3 DEF Rebound

LEMMA CommitBindingRows ==
  ASSUME DriftInv, NEW q \in Requests, CommitBinding(q) PROVE RowsRight' /\ Grown
<1>1. /\ template \in Seq(TemplateRow) /\ binding \in Seq(BindingRow) /\ template' = template
      /\ \A i \in DOMAIN binding : binding[i].template \in DOMAIN template
  BY DEF DriftInv, RowsRight, CommitBinding
<1>2. req[q].key \in Sites /\ req[q].value \in DOMAIN template
      /\ req[q].found \in DOMAIN binding \cup {0}
  <2>1. RequestRight(req[q]) BY DEF DriftInv, RequestsRight
  <2> QED BY <2>1 DEF RequestRight, CommitBinding
<1>3. req[q].value \in Nat
  BY <1>1, <1>2
<1> DEFINE row == NewBinding(req[q].key, req[q].value)
<1>4. CASE req[q].found = 0
  <2>1. row \in BindingRow /\ row.template = req[q].value
    BY <1>2, <1>3 DEF BindingRow, NewBinding
  <2>2. binding' = Append(binding, row) BY <1>4 DEF CommitBinding
  <2> HIDE DEF row
  <2>3. binding' \in Seq(BindingRow) /\ DOMAIN binding' = 1..(Len(binding) + 1)
        /\ \A i \in DOMAIN binding : binding'[i] = binding[i]
    BY <1>1, <2>1, <2>2
  <2>4. binding'[Len(binding) + 1] = row
    BY <1>1, <2>1, <2>2
  <2>5. \A i \in DOMAIN binding' : i \in DOMAIN binding \/ i = Len(binding) + 1
    BY <1>1, <2>3
  <2> QED BY <1>1, <1>2, <2>1, <2>3, <2>4, <2>5 DEF RowsRight, Grown
<1>5. CASE req[q].found # 0
  <2> DEFINE k == req[q].found
             new == Rebound(binding[k], req[q].loaded, req[q].value)
  <2>1. k \in DOMAIN binding BY <1>2, <1>5
  <2>2. binding[k] \in BindingRow BY <1>1, <2>1
  <2>3. new \in BindingRow /\ new.template \in DOMAIN template /\ new.site = binding[k].site
    BY <1>1, <1>2, <1>3, <2>1, <2>2, ReboundRow
  <2>4. binding' = [binding EXCEPT ![k] = new]
    BY <1>5 DEF CommitBinding
  <2> HIDE DEF k, new
  <2> QED BY <1>1, <1>2, <2>1, <2>3, <2>4 DEF RowsRight, Grown
<1> QED BY <1>4, <1>5

\* The elements of a finite set, in some order.
LEMMA SetInOrder ==
  ASSUME NEW S, IsFiniteSet(S) PROVE SetToSeq(S) \in [1..Cardinality(S) -> S] /\ Cardinality(S) \in Nat
<1>1. PICK g : g \in Bijection(1..Cardinality(S), S)
  BY FS_CardinalityType DEF ExistsBijection
<1>2. g \in [1..Cardinality(S) -> S] /\ IsInjective(g)
  BY <1>1 DEF Bijection, Injection
<1> QED BY <1>2, FS_CardinalityType DEF SetToSeq

LEMMA WriteDriftRows ==
  ASSUME DriftInv, NEW r \in Repos, WriteDrift(r) PROVE RowsRight' /\ Grown
<1> DEFINE part == sweep.part[r]
           Id(p) == sweep.canon[Basename[p]].id
           added == {p \in DOMAIN part.scored : part.found[p] = 0}
           new == SetToSeq(added)
           old == [i \in DOMAIN binding |->
                     IF \E p \in DOMAIN part.found : part.found[p] = i
                     THEN LET p == binding[i].site[2] IN
                          Scored(Rebound(binding[i], part.loaded[p], Id(p)), part.scored)
                     ELSE binding[i]]
           Row(k) == Scored(NewBinding(<<r, new[k]>>, Id(new[k])), part.scored)
           appended == [k \in DOMAIN new |-> Row(k)]
<1>1. /\ template \in Seq(TemplateRow) /\ binding \in Seq(BindingRow) /\ template' = template
      /\ \A i \in DOMAIN binding : binding[i].template \in DOMAIN template
  BY DEF DriftInv, RowsRight, WriteDrift
<1>2. /\ DOMAIN part.scored \subseteq Paths /\ IsFiniteSet(DOMAIN part.scored)
      /\ DOMAIN part.found = DOMAIN part.scored
      /\ \A p \in DOMAIN part.scored : part.scored[p] \in 1..4 /\ Basename[p] \in DOMAIN sweep.canon
      /\ \A p \in DOMAIN part.scored : part.found[p] # 0 =>
           part.found[p] \in DOMAIN binding /\ binding[part.found[p]].site = <<r, p>>
  <2>1. PartRight(r, part) /\ part.pc = "write" BY DEF DriftInv, PartsRight, WriteDrift
  <2> HIDE DEF part
  <2> QED BY <2>1 DEF PartRight
<1>3. binding' = old \o appended
  BY DEF WriteDrift
<1> HIDE DEF part
<1>4. \A p \in DOMAIN part.scored : Id(p) \in DOMAIN template
  BY <1>2 DEF DriftInv, CanonRight
<1>5. DOMAIN template \subseteq Nat
  BY <1>1
<1> HIDE DEF Id
<1>6. ASSUME NEW row \in BindingRow, row.site[2] \in DOMAIN part.scored,
             row.template \in DOMAIN template
      PROVE  /\ Scored(row, part.scored) \in BindingRow
             /\ Scored(row, part.scored).template = row.template
             /\ Scored(row, part.scored).site = row.site
  BY <1>2, <1>6 DEF BindingRow, Scored
<1>7. ASSUME NEW i \in DOMAIN binding
      PROVE  old[i] \in BindingRow /\ old[i].template \in DOMAIN template
             /\ old[i].site = binding[i].site
  <2>1. binding[i] \in BindingRow /\ binding[i].template \in DOMAIN template BY <1>1
  <2>2. CASE \E p \in DOMAIN part.found : part.found[p] = i
    <3>1. PICK p \in DOMAIN part.scored : part.found[p] = i BY <1>2, <2>2
    <3>2. i # 0 BY <1>1
    <3>3. binding[i].site = <<r, p>> BY <1>2, <3>1, <3>2
    <3> DEFINE row == Rebound(binding[i], part.loaded[p], Id(p))
    <3>4. row \in BindingRow /\ row.site = <<r, p>> /\ row.template \in DOMAIN template
      BY <1>4, <1>5, <2>1, <3>3, ReboundRow
    <3> HIDE DEF row
    <3>5. row.site[2] = p BY <3>4
    <3>6. old[i] = Scored(row, part.scored) BY <2>2, <3>3 DEF row
    <3> QED BY <1>4, <1>6, <3>3, <3>4, <3>5, <3>6
  <2>3. CASE ~\E p \in DOMAIN part.found : part.found[p] = i
    BY <2>1, <2>3
  <2> QED BY <2>2, <2>3
<1>8. old \in Seq(BindingRow) /\ Len(old) = Len(binding) /\ Len(binding) \in Nat
  <2>1. DOMAIN old = 1..Len(binding) BY <1>1
  <2> HIDE DEF old
  <2>2. old \in [1..Len(binding) -> BindingRow]
    <3>1. old = [i \in DOMAIN old |-> old[i]] BY DEF old
    <3> QED BY <1>1, <1>7, <2>1, <3>1
  <2> QED BY <1>1, <2>1, <2>2
<1>9. IsFiniteSet(added) /\ added \subseteq DOMAIN part.scored
  BY <1>2, FS_Subset
<1>10. new \in [1..Cardinality(added) -> added] /\ Cardinality(added) \in Nat
  BY <1>9, SetInOrder
<1> HIDE DEF new
<1>11. ASSUME NEW k \in DOMAIN new
       PROVE  Row(k) \in BindingRow /\ Row(k).template \in DOMAIN template
  <2>1. new[k] \in DOMAIN part.scored BY <1>9, <1>10
  <2> DEFINE row == NewBinding(<<r, new[k]>>, Id(new[k]))
  <2>2. row \in BindingRow /\ row.site = <<r, new[k]>> /\ row.template = Id(new[k])
    BY <1>2, <1>4, <1>5, <2>1 DEF BindingRow, NewBinding, Sites
  <2>3. Row(k) = Scored(row, part.scored) OBVIOUS
  <2> HIDE DEF row, Row
  <2>4. row.site[2] = new[k] BY <2>2
  <2> QED BY <1>4, <1>6, <2>1, <2>2, <2>3, <2>4
<1> HIDE DEF old, Row
<1>12. appended \in Seq(BindingRow) /\ Len(appended) = Cardinality(added)
       /\ \A k \in 1..Len(appended) : appended[k] = Row(k) /\ k \in DOMAIN new
  <2>1. appended \in [1..Cardinality(added) -> BindingRow] BY <1>10, <1>11
  <2>2. \A k \in 1..Cardinality(added) : appended[k] = Row(k) /\ k \in DOMAIN new BY <1>10
  <2>3. DOMAIN appended = 1..Cardinality(added) BY <1>10
  <2> HIDE DEF appended, added
  <2>4. appended \in Seq(BindingRow) BY <1>10, <2>1, <2>3
  <2>5. Len(appended) = Cardinality(added) BY <1>10, <2>3, <2>4
  <2> QED BY <2>2, <2>4, <2>5
<1> HIDE DEF appended, added
<1>13. binding' \in Seq(BindingRow) /\ DOMAIN binding' = 1..(Len(old) + Len(appended))
       /\ Len(appended) \in Nat
  BY <1>3, <1>8, <1>12
<1>14. \A i \in DOMAIN binding : i \in DOMAIN binding' /\ binding'[i] = old[i]
  BY <1>1, <1>3, <1>8, <1>12
<1>15. \A i \in DOMAIN binding' : i \in DOMAIN binding
         \/ (i - Len(old) \in 1..Len(appended) /\ binding'[i] = appended[i - Len(old)])
  BY <1>1, <1>3, <1>8, <1>12, <1>13
<1>16. \A i \in DOMAIN binding' : binding'[i].template \in DOMAIN template
  BY <1>7, <1>11, <1>12, <1>14, <1>15
<1> QED BY <1>1, <1>7, <1>13, <1>14, <1>16 DEF RowsRight, Grown

\* What a step of the system is, of which only the files, the rows, the requests
\* or the sweep change.
Moves ==
  \/ \E s \in Sites : \E text : Push(s, text) /\ (text \in {None, Broken} \/ IsWorkflow(text))
  \/ \E q \in Requests : \/ \E n \in Names, text \in Written : Look(q, "template", n, text, TemplateRows(n))
                         \/ \E s \in Sites, t \in DOMAIN template : Look(q, "binding", s, t, BindingRows(s))
                         \/ CommitTemplate(q)
                         \/ CommitBinding(q)
  \/ StartSweep
  \/ \E r \in Repos : ListFiles(r) \/ (\E p \in Paths : FetchFile(r, p)) \/ LookUp(r) \/ WriteDrift(r)
  \/ \E r \in Repos : RepoFails(r)
  \/ SweepDies
  \/ UNCHANGED vars

LEMMA NextMoves == ASSUME DriftInv, [Next]_vars PROVE Moves
<1>1. ASSUME NEW s \in Sites, NEW text \in Written \cup {None}, Push(s, text)
      PROVE  text \in {None, Broken} \/ IsWorkflow(text)
  BY TemplateDriftAssumption
<1>2. ASSUME NEW s \in Sites, NEW operation \in FixOperations, LandFix(s, operation)
      PROVE  \E text : Push(s, text) /\ IsWorkflow(text)
  <2>1. IsWorkflow(file[s]) BY <1>2 DEF LandFix, DriftInv, FilesRight
  <2>2. IsWorkflow(Apply(operation, file[s])) BY <2>1, Edits
  <2> QED BY <1>2, <2>2 DEF LandFix, Land
<1>3. ASSUME NEW s \in Sites, LandSync(s)
      PROVE  \E text : Push(s, text) /\ (text = Broken \/ IsWorkflow(text))
  <2>1. PICK i \in DOMAIN template : Push(s, template[i].text) BY <1>3 DEF LandSync, Land
  <2>2. template[i] \in TemplateRow BY DEF DriftInv, RowsRight
  <2>3. template[i].text \in Texts BY <2>2 DEF TemplateRow
  <2> QED BY <2>1, <2>3, TemplateDriftAssumption
<1> QED BY <1>1, <1>2, <1>3 DEF Next, Sweep, Answer, Moves

LEMMA RowsStep == ASSUME DriftInv, Moves PROVE RowsRight' /\ Grown
<1>1. ASSUME UNCHANGED <<template, binding>> PROVE RowsRight' /\ Grown
  BY <1>1 DEF DriftInv, RowsRight, Grown
<1>2. CASE \E s \in Sites : \E text : Push(s, text)
  BY <1>1, <1>2 DEF Push
<1>3. CASE \E q \in Requests : \/ \E n \in Names, text \in Written : Look(q, "template", n, text, TemplateRows(n))
                               \/ \E s \in Sites, t \in DOMAIN template : Look(q, "binding", s, t, BindingRows(s))
  BY <1>1, <1>3 DEF Look
<1>4. CASE StartSweep \/ SweepDies \/ \E r \in Repos : RepoFails(r)
  BY <1>1, <1>4 DEF StartSweep, SweepDies, RepoFails
<1>5. CASE \E r \in Repos : ListFiles(r) \/ (\E p \in Paths : FetchFile(r, p)) \/ LookUp(r)
  BY <1>1, <1>5 DEF ListFiles, FetchFile, LookUp
<1>6. CASE UNCHANGED vars
  BY <1>1, <1>6 DEF vars
<1> QED BY <1>2, <1>3, <1>4, <1>5, <1>6, CommitTemplateRows, CommitBindingRows, WriteDriftRows DEF Moves

LEMMA FilesStep == ASSUME DriftInv, Moves PROVE FilesRight'
<1>1. ASSUME UNCHANGED file PROVE FilesRight'
  BY <1>1 DEF DriftInv, FilesRight
<1>2. CASE \E s \in Sites : \E text : Push(s, text) /\ (text \in {None, Broken} \/ IsWorkflow(text))
  BY <1>2 DEF Push, DriftInv, FilesRight
<1>3. CASE \E q \in Requests : \/ \E n \in Names, text \in Written : Look(q, "template", n, text, TemplateRows(n))
                               \/ \E s \in Sites, t \in DOMAIN template : Look(q, "binding", s, t, BindingRows(s))
                               \/ CommitTemplate(q)
                               \/ CommitBinding(q)
  BY <1>1, <1>3 DEF Look, CommitTemplate, CommitBinding
<1>4. CASE StartSweep \/ SweepDies \/ \E r \in Repos : RepoFails(r)
  BY <1>1, <1>4 DEF StartSweep, SweepDies, RepoFails
<1>5. CASE \E r \in Repos : ListFiles(r) \/ (\E p \in Paths : FetchFile(r, p)) \/ LookUp(r) \/ WriteDrift(r)
  BY <1>1, <1>5 DEF ListFiles, FetchFile, LookUp, WriteDrift
<1>6. CASE UNCHANGED vars
  BY <1>1, <1>6 DEF vars
<1> QED BY <1>2, <1>3, <1>4, <1>5, <1>6 DEF Moves

LEMMA RequestsStep == ASSUME DriftInv, Moves PROVE RequestsRight'
<1>0. Grown /\ RequestsRight
  BY RowsStep DEF DriftInv
<1>1. ASSUME NEW x, RequestRight(x) PROVE RequestRight(x)'
  BY <1>0, <1>1 DEF RequestRight, Grown
<1>2. ASSUME NEW q \in Requests, NEW x, RequestRight(x), req' = [req EXCEPT ![q] = x]
      PROVE  RequestsRight'
  <2>1. \A p \in Requests : RequestRight(req'[p])
    BY <1>0, <1>2 DEF RequestsRight
  <2>2. \A p \in Requests : RequestRight(req[p])'
    BY <1>1, <2>1
  <2>3. req' = [p \in Requests |-> req'[p]]
    BY <1>0, <1>2 DEF RequestsRight
  <2> QED BY <2>2, <2>3 DEF RequestsRight
<1>3. ASSUME UNCHANGED req PROVE RequestsRight'
  <2>1. \A p \in Requests : RequestRight(req'[p]) BY <1>0, <1>3 DEF RequestsRight
  <2>2. \A p \in Requests : RequestRight(req[p])' BY <1>1, <2>1
  <2> QED BY <1>0, <1>3, <2>2 DEF RequestsRight
<1>4. CASE \E s \in Sites : \E text : Push(s, text)
  BY <1>3, <1>4 DEF Push
<1>5. ASSUME NEW q \in Requests, NEW n \in Names, NEW text \in Written,
             Look(q, "template", n, text, TemplateRows(n))
      PROVE  RequestsRight'
  <2>1. PICK i \in TemplateRows(n) :
          req' = [req EXCEPT ![q] = [pc |-> "commit", kind |-> "template", key |-> n,
                                     value |-> text, found |-> i, loaded |-> Loaded("template", i)]]
    BY <1>5 DEF Look
  <2>2. i \in DOMAIN template \cup {0} BY DEF TemplateRows, Found
  <2>3. text \in Texts BY TemplateDriftAssumption
  <2> DEFINE x == [pc |-> "commit", kind |-> "template", key |-> n, value |-> text, found |-> i,
                   loaded |-> Loaded("template", i)]
  <2>4. RequestRight(x) BY <2>2, <2>3 DEF RequestRight
  <2> QED BY <1>2, <2>1, <2>4
<1>6. ASSUME NEW q \in Requests, NEW s \in Sites, NEW t \in DOMAIN template,
             Look(q, "binding", s, t, BindingRows(s))
      PROVE  RequestsRight'
  <2>1. PICK i \in BindingRows(s) :
          req' = [req EXCEPT ![q] = [pc |-> "commit", kind |-> "binding", key |-> s,
                                     value |-> t, found |-> i, loaded |-> Loaded("binding", i)]]
    BY <1>6 DEF Look
  <2>2. i \in DOMAIN binding \cup {0} BY DEF BindingRows, Found
  <2> DEFINE x == [pc |-> "commit", kind |-> "binding", key |-> s, value |-> t, found |-> i,
                   loaded |-> Loaded("binding", i)]
  <2>3. RequestRight(x) BY <2>2 DEF RequestRight
  <2> QED BY <1>2, <2>1, <2>3
<1>7. ASSUME NEW q \in Requests, CommitTemplate(q) \/ CommitBinding(q) PROVE RequestsRight'
  <2>1. req' = [req EXCEPT ![q] = NoRequest] BY <1>7 DEF CommitTemplate, CommitBinding
  <2>2. RequestRight(NoRequest) BY DEF RequestRight, NoRequest
  <2> QED BY <1>2, <2>1, <2>2
<1>8. CASE StartSweep \/ SweepDies \/ \E r \in Repos : RepoFails(r)
  BY <1>3, <1>8 DEF StartSweep, SweepDies, RepoFails
<1>9. CASE \E r \in Repos : ListFiles(r) \/ (\E p \in Paths : FetchFile(r, p)) \/ LookUp(r) \/ WriteDrift(r)
  BY <1>3, <1>9 DEF ListFiles, FetchFile, LookUp, WriteDrift
<1>10. CASE UNCHANGED vars
  BY <1>3, <1>10 DEF vars
<1> QED BY <1>4, <1>5, <1>6, <1>7, <1>8, <1>9, <1>10 DEF Moves

\* The sweep copies its templates when it starts; a part of it ends idle.
LEMMA IdleRight == ASSUME NEW r PROVE PartRight(r, Idle)
BY FS_EmptySet DEF PartRight, Idle

LEMMA CanonStep == ASSUME DriftInv, Moves PROVE CanonRight'
<1>0. CanonRight /\ Grown
  BY RowsStep DEF DriftInv
<1>1. ASSUME UNCHANGED sweep PROVE CanonRight'
  BY <1>0, <1>1 DEF CanonRight, Grown
<1>2. ASSUME NEW r, NEW part, Part(r, part) PROVE CanonRight'
  <2>1. sweep'.canon = sweep.canon /\ sweep' = [canon |-> sweep'.canon, part |-> sweep'.part]
    BY <1>0, <1>2 DEF Part, CanonRight
  <2> QED BY <1>0, <2>1 DEF CanonRight, Grown
<1>3. CASE StartSweep
  <2>1. PICK pick \in [{template[i].name : i \in DOMAIN template} -> DOMAIN template] :
          sweep' = [canon |-> [n \in DOMAIN pick |-> [id |-> pick[n], text |-> template[pick[n]].text]],
                    part |-> [r \in Repos |-> [Idle EXCEPT !.pc = "list"]]]
    BY <1>3 DEF StartSweep
  <2>2. DOMAIN sweep'.canon = DOMAIN pick /\ \A n \in DOMAIN pick : sweep'.canon[n].id = pick[n]
    BY <2>1
  <2>3. DOMAIN pick \subseteq Names
    <3>1. \A i \in DOMAIN template : template[i] \in TemplateRow BY DEF DriftInv, RowsRight
    <3>2. \A i \in DOMAIN template : template[i].name \in Names BY <3>1 DEF TemplateRow
    <3> QED BY <3>2
  <2>4. \A n \in DOMAIN pick : pick[n] \in DOMAIN template'
    BY <1>0 DEF Grown
  <2>5. \A n \in DOMAIN sweep'.canon : sweep'.canon[n].id \in DOMAIN template'
    BY <2>2, <2>4
  <2>6. DOMAIN sweep'.canon \subseteq Names
    BY <2>2, <2>3
  <2>7. sweep' = [canon |-> sweep'.canon, part |-> sweep'.part]
    <3>1. PICK canon, part : sweep' = [canon |-> canon, part |-> part] BY <2>1
    <3> QED BY <3>1
  <2> QED BY <2>5, <2>6, <2>7 DEF CanonRight
<1>4. CASE SweepDies
  BY <1>4 DEF SweepDies, NoSweep, CanonRight
<1>5. CASE \E r \in Repos : RepoFails(r)
  BY <1>2, <1>5 DEF RepoFails
<1>6. CASE \E r \in Repos : ListFiles(r) \/ (\E p \in Paths : FetchFile(r, p)) \/ LookUp(r) \/ WriteDrift(r)
  BY <1>2, <1>6 DEF ListFiles, FetchFile, LookUp, WriteDrift
<1>7. CASE \E s \in Sites : \E text : Push(s, text)
  BY <1>1, <1>7 DEF Push
<1>8. CASE \E q \in Requests : \/ \E n \in Names, text \in Written : Look(q, "template", n, text, TemplateRows(n))
                               \/ \E s \in Sites, t \in DOMAIN template : Look(q, "binding", s, t, BindingRows(s))
                               \/ CommitTemplate(q)
                               \/ CommitBinding(q)
  BY <1>1, <1>8 DEF Look, CommitTemplate, CommitBinding
<1>9. CASE UNCHANGED vars
  BY <1>1, <1>9 DEF vars
<1> QED BY <1>3, <1>4, <1>5, <1>6, <1>7, <1>8, <1>9 DEF Moves

\* An idle part, as a record whose fields a step may change.
LEMMA IdleIs ==
  /\ DOMAIN Idle = {"pc", "todo", "scored", "found", "loaded"}
  /\ Idle.pc = "idle" /\ Idle.todo = {} /\ DOMAIN Idle.scored = {} /\ IsFiniteSet({})
<1>1. DOMAIN <<>> = {} OBVIOUS
<1> QED BY <1>1, FS_EmptySet DEF Idle

\* What a part says stays true while rows are added.
LEMMA PartKept ==
  ASSUME Grown, sweep'.canon = sweep.canon, NEW r, NEW part, PartRight(r, part)
  PROVE  PartRight(r, part)'
<1> DEFINE Row(rows, p) == part.found[p] \in DOMAIN rows /\ rows[part.found[p]].site = <<r, p>>
<1>1. \A p : Row(binding, p) => Row(binding', p)
  BY DEF Grown
<1> QED BY <1>1 DEF PartRight

LEMMA PartsStep == ASSUME DriftInv, Moves PROVE PartsRight'
<1>0. PartsRight /\ Grown /\ CanonRight
  BY RowsStep DEF DriftInv
<1>1. ASSUME UNCHANGED sweep PROVE PartsRight'
  <2>1. \A r \in Repos : PartRight(r, sweep'.part[r]) BY <1>0, <1>1 DEF PartsRight
  <2>2. \A r \in Repos : PartRight(r, sweep.part[r])' BY <1>0, <1>1, <2>1, PartKept
  <2> QED BY <1>0, <1>1, <2>2 DEF PartsRight
<1>2. ASSUME NEW r \in Repos, NEW part, Part(r, part), PartRight(r, part) PROVE PartsRight'
  <2>1. /\ sweep'.canon = sweep.canon
        /\ sweep'.part = [sweep.part EXCEPT ![r] = part]
    BY <1>0, <1>2 DEF Part, CanonRight
  <2>2. /\ sweep'.part = [x \in Repos |-> sweep'.part[x]]
        /\ \A x \in Repos : sweep'.part[x] = IF x = r THEN part ELSE sweep.part[x]
    BY <1>0, <2>1 DEF PartsRight
  <2>3. \A x \in Repos : PartRight(x, sweep'.part[x])
    BY <1>0, <1>2, <2>2 DEF PartsRight
  <2>4. \A x \in Repos : PartRight(x, sweep.part[x])'
    BY <1>0, <2>1, <2>3, PartKept
  <2> QED BY <2>2, <2>4 DEF PartsRight
<1>3. CASE StartSweep
  <2>1. sweep'.part = [r \in Repos |-> [Idle EXCEPT !.pc = "list"]]
    BY <1>3 DEF StartSweep
  <2>2. \A r \in Repos : PartRight(r, [Idle EXCEPT !.pc = "list"])'
    BY IdleIs DEF PartRight
  <2> QED BY <2>1, <2>2 DEF PartsRight
<1>4. CASE SweepDies
  <2>1. sweep'.part = [r \in Repos |-> Idle]
    BY <1>4 DEF SweepDies, NoSweep
  <2>2. \A r \in Repos : PartRight(r, Idle)'
    BY FS_EmptySet DEF PartRight, Idle
  <2> QED BY <2>1, <2>2 DEF PartsRight
<1>5. CASE \E r \in Repos : RepoFails(r)
  BY <1>2, <1>5, IdleRight DEF RepoFails
<1>6. ASSUME NEW r \in Repos, ListFiles(r) PROVE PartsRight'
  <2> DEFINE bound == {p \in Paths : file[<<r, p>>] # None /\ Autobound(p, DOMAIN sweep.canon)}
             part == [Idle EXCEPT !.pc = "fetch", !.todo = bound]
  <2>1. PartRight(r, part)
    <3>1. /\ DOMAIN part = {"pc", "todo", "scored", "found", "loaded"}
          /\ part.pc = "fetch" /\ part.todo = bound /\ part.scored = Idle.scored
      BY IdleIs
    <3>2. bound \subseteq Paths /\ \A p \in bound : Basename[p] \in DOMAIN sweep.canon
      BY DEF Autobound
    <3> HIDE DEF bound, part
    <3> QED BY <3>1, <3>2, IdleIs DEF PartRight
  <2>2. Part(r, IF bound = {} THEN Idle ELSE part) BY <1>6 DEF ListFiles
  <2> HIDE DEF part
  <2> QED BY <1>2, <2>1, <2>2, IdleRight
<1>7. ASSUME NEW r \in Repos, NEW p \in Paths, FetchFile(r, p) PROVE PartsRight'
  <2> DEFINE old == sweep.part[r]
             canonical == sweep.canon[Basename[p]].text
             severity == Diff(canonical, file[<<r, p>>])
             scored == With(old.scored, p, severity)
             part == [old EXCEPT !.todo = @ \ {p}, !.scored = scored]
  <2>1. PartRight(r, old) /\ old.pc = "fetch" /\ p \in old.todo
    BY <1>0, <1>7 DEF PartsRight, FetchFile
  <2>2. \/ Part(r, part) \/ Part(r, Idle)
    BY <1>7 DEF FetchFile
  <2>3. severity \in 1..4 BY DiffType
  <2> HIDE DEF severity, old
  <2>4. /\ DOMAIN scored = DOMAIN old.scored \cup {p}
        /\ \A x \in DOMAIN scored : scored[x] = IF x = p THEN severity ELSE old.scored[x]
    BY DEF With
  <2> HIDE DEF scored
  <2>5. /\ DOMAIN part = {"pc", "todo", "scored", "found", "loaded"}
        /\ part.pc = "fetch" /\ part.todo = old.todo \ {p} /\ part.scored = scored
    BY <2>1 DEF PartRight
  <2>6. IsFiniteSet(DOMAIN scored)
    BY <2>1, <2>4, FS_AddElement DEF PartRight
  <2> HIDE DEF part
  <2>7. PartRight(r, part)
    BY <2>1, <2>3, <2>4, <2>5, <2>6 DEF PartRight
  <2> QED BY <1>2, <2>2, <2>7, IdleRight
<1>8. ASSUME NEW r \in Repos, LookUp(r) PROVE PartsRight'
  <2> DEFINE old == sweep.part[r]
  <2>1. PartRight(r, old) /\ old.pc = "fetch" /\ old.todo = {}
    BY <1>0, <1>8 DEF PartsRight, LookUp, AllRead
  <2>2. PICK found \in [DOMAIN old.scored -> 0..Len(binding)] :
          /\ \A p \in DOMAIN found : found[p] \in BindingRows(<<r, p>>)
          /\ Part(r, [old EXCEPT !.pc = "write", !.found = found,
                                 !.loaded = [p \in DOMAIN found |-> Loaded("binding", found[p])]])
    BY <1>8 DEF LookUp
  <2> DEFINE loaded == [p \in DOMAIN found |-> Loaded("binding", found[p])]
             part == [old EXCEPT !.pc = "write", !.found = found, !.loaded = loaded]
  <2> HIDE DEF old, loaded
  <2>3. /\ DOMAIN part = {"pc", "todo", "scored", "found", "loaded"} /\ part.pc = "write"
        /\ part.todo = old.todo /\ part.scored = old.scored /\ part.found = found
    BY <2>1 DEF PartRight
  <2>4. \A p \in DOMAIN found : found[p] = 0
           \/ (found[p] \in DOMAIN binding /\ binding[found[p]].site = <<r, p>>)
    BY <2>2 DEF BindingRows, Found
  <2>5. DOMAIN found = DOMAIN old.scored BY <2>2
  <2>6. Part(r, part) BY <2>2 DEF loaded
  <2> HIDE DEF part
  <2>7. PartRight(r, part)
    BY <2>1, <2>3, <2>4, <2>5 DEF PartRight
  <2> QED BY <1>2, <2>6, <2>7
<1>9. ASSUME NEW r \in Repos, WriteDrift(r) PROVE PartsRight'
  BY <1>2, <1>9, IdleRight DEF WriteDrift
<1>10. CASE \E s \in Sites : \E text : Push(s, text)
  BY <1>1, <1>10 DEF Push
<1>11. CASE \E q \in Requests : \/ \E n \in Names, text \in Written : Look(q, "template", n, text, TemplateRows(n))
                                \/ \E s \in Sites, t \in DOMAIN template : Look(q, "binding", s, t, BindingRows(s))
                                \/ CommitTemplate(q)
                                \/ CommitBinding(q)
  BY <1>1, <1>11 DEF Look, CommitTemplate, CommitBinding
<1>12. CASE UNCHANGED vars
  BY <1>1, <1>12 DEF vars
<1> QED BY <1>3, <1>4, <1>5, <1>6, <1>7, <1>8, <1>9, <1>10, <1>11, <1>12 DEF Moves

LEMMA CountersStep == ASSUME DriftInv, [Next]_vars PROVE CountersRight'
<1> USE TemplateDriftAssumption DEF DriftInv, CountersRight
<1>1. CASE \E s \in Sites : \E text : Push(s, text)
  BY <1>1 DEF Push
<1>2. CASE \E q \in Requests : \E kind, key, value, rows : Look(q, kind, key, value, rows)
  BY <1>2 DEF Look
<1>3. CASE \E q \in Requests : Answer(q)
  BY <1>3 DEF Answer, CommitTemplate, CommitBinding
<1>4. CASE Sweep
  BY <1>4 DEF Sweep, StartSweep, ListFiles, FetchFile, LookUp, WriteDrift
<1>5. CASE SweepDies \/ \E r \in Repos : RepoFails(r)
  BY <1>5 DEF SweepDies, RepoFails
<1>6. CASE UNCHANGED vars
  BY <1>6 DEF vars
<1>7. ASSUME NEW s \in Sites, (\E operation \in FixOperations : LandFix(s, operation)) \/ LandSync(s)
      PROVE  \E text : Push(s, text)
  BY <1>7 DEF LandFix, LandSync, Land
<1> QED BY <1>1, <1>2, <1>3, <1>4, <1>5, <1>6, <1>7 DEF Next

THEOREM DriftInvariance == Spec => []DriftInv
<1>1. DriftInv /\ [Next]_vars => DriftInv'
  BY NextMoves, FilesStep, RowsStep, RequestsStep, CanonStep, PartsStep, CountersStep DEF DriftInv
<1> QED BY DriftInit, <1>1, PTL DEF Spec

\* A binding belongs to a site and a template that there is, a sweep scores only
\* files it may, and the bounds hold: a binding's row is found in one
\* transaction and written in another (repository.py 598-655).
THEOREM DriftTypeCorrect == Spec => []TypeOK
<1>1. DriftInv => TypeOK
  <2> SUFFICES ASSUME DriftInv PROVE TypeOK OBVIOUS
  <2>1. \A i \in DOMAIN template : template[i].name \in Names
    <3>1. \A i \in DOMAIN template : template[i] \in TemplateRow BY DEF DriftInv, RowsRight
    <3> QED BY <3>1 DEF TemplateRow
  <2>2. \A i \in DOMAIN binding : /\ binding[i].site \in Sites
                                  /\ binding[i].template \in DOMAIN template
                                  /\ binding[i].severity \in DOMAIN Severities \cup {None}
    <3>1. \A i \in DOMAIN binding : binding[i] \in BindingRow /\ binding[i].template \in DOMAIN template
      BY DEF DriftInv, RowsRight
    <3>2. DOMAIN Severities = 1..4 BY DEF Severities
    <3> QED BY <3>1, <3>2 DEF BindingRow
  <2>3. DOMAIN sweep.canon \subseteq Names
    BY DEF DriftInv, CanonRight
  <2>4. \A r \in Repos : PartRight(r, sweep.part[r])
    BY DEF DriftInv, PartsRight
  <2>5. \A r \in Repos : LET part == sweep.part[r] IN
          /\ part.pc \in {"idle", "list", "fetch", "write"}
          /\ part.todo \cup DOMAIN part.scored \subseteq Paths
          /\ part.pc = "write" => part.todo = {} /\ DOMAIN part.found = DOMAIN part.scored
    BY <2>4 DEF PartRight
  <2>6. \A q \in Requests : req[q].pc \in {"idle", "commit"}
    BY DEF DriftInv, RequestsRight, RequestRight
  <2> QED BY <2>1, <2>2, <2>3, <2>5, <2>6 DEF TypeOK, DriftInv, CountersRight
<1> QED BY <1>1, DriftInvariance, PTL
-----------------------------------------------------------------------------
(* What holds of the files there are *)

\* An operation leaves of its findings only what FixesClose names, opens none but
\* a bump's own, and does not lower the score: for every file that parses, so
\* for those of any history of commits and campaigns (operations.py, engine.py).
THEOREM FixesCloseThm == Spec => []FixesClose
<1>1. DriftInv => FixesClose
  <2> SUFFICES ASSUME DriftInv, NEW f \in Files, NEW operation \in FixOperations
               PROVE  LET before == AuditWorkflow(f)
                          after == AuditWorkflow(Apply(operation, f)) IN
                      /\ \A x \in after : x.type \in Closes(operation) => Leaves(operation, f, x)
                      /\ after \subseteq before \cup New(operation, after)
                      /\ New(operation, after) = {} =>
                           \A repos \in 1..2 : Score(after, repos) >= Score(before, repos)
    BY DEF FixesClose, New
  <2>1. IsWorkflow(f) BY DEF DriftInv, FilesRight, Files
  <2> QED BY <2>1, FixCloses DEF Left
<1> QED BY <1>1, DriftInvariance, PTL

\* Severities are distances, and no fix moves a file by more than content drift
\* (drift/engine.py 50-98, executor/operations.py).
THEOREM DriftIsDistanceThm == Spec => []DriftIsDistance
<1>1. DriftInv => DriftIsDistance
  <2> SUFFICES ASSUME DriftInv PROVE DriftIsDistance OBVIOUS
  <2>1. \A f \in Files : IsWorkflow(f) BY DEF DriftInv, FilesRight, Files
  <2>2. \A a, b, c : Diff(a, b) = Diff(b, a) /\ Diff(a, c) <= Max({Diff(a, b), Diff(b, c)})
    BY DiffSymmetric, DiffTriangle
  <2>3. \A f \in Files : \A operation \in FixOperations : Diff(f, Apply(operation, f)) <= 3
    BY <2>1, Edits, EditDiff
  <2>4. \A f \in Files : Diff(f, SwapRunsOn(f)) = 1
    BY <2>1, SwapDiff
  <2> QED BY <2>2, <2>3, <2>4 DEF DriftIsDistance
<1> QED BY <1>1, DriftInvariance, PTL

\* The campaign of a simulated rule reaches all that need it, and simulating
\* again reports only what its operation leaves (policy/simulator.py,
\* policy/service.py): for any fleet.
THEOREM SimulationHoldsThm == Spec => []SimulationHolds
<1>1. DriftInv => SimulationHolds
  <2> DEFINE Parsed == {t \in Sites : file[t] \notin {None, Broken}}
             fleet == [s \in Parsed |-> file[s]]
             facts == [s \in DOMAIN fleet |-> Facts(fleet[s])]
  <2> SUFFICES ASSUME DriftInv,
                      NEW rules \in {{"require_sha_pinned"}, {"require_permissions"}, Rules},
                      NEW operation \in {FixOperation(rule) : rule \in rules} \ {None}
               PROVE  LET policy == [rules |-> rules, disallowed |-> {"pull_request_target"}]
                          rule == CHOOSE x \in rules : FixOperation(x) = operation
                          repos == Fixable(rule, policy, facts)
                          fixed == [s \in {t \in DOMAIN fleet : t[1] \in repos} |->
                                      Apply(operation, fleet[s])] IN
                      /\ \A r \in repos : \E s \in DOMAIN fixed :
                           s[1] = r /\ rule \in Evaluate(policy, facts[s])
                      /\ \A s \in DOMAIN fleet \ DOMAIN fixed : rule \notin Evaluate(policy, facts[s])
                      /\ \A s \in Violating(rule, policy, [t \in DOMAIN fixed |-> Facts(fixed[t])]) :
                           \E x \in AuditWorkflow(fixed[s]) :
                             x.type \in Closes(operation) /\ Leaves(operation, fleet[s], x)
    BY DEF SimulationHolds
  <2> DEFINE policy == [rules |-> rules, disallowed |-> {"pull_request_target"}]
             rule == CHOOSE x \in rules : FixOperation(x) = operation
             repos == Fixable(rule, policy, facts)
             fixed == [s \in {t \in DOMAIN fleet : t[1] \in repos} |-> Apply(operation, fleet[s])]
             again == [t \in DOMAIN fixed |-> Facts(fixed[t])]
  <2>1. \A s \in DOMAIN fleet : IsWorkflow(fleet[s]) BY DEF DriftInv, FilesRight
  <2>2. rule \in rules /\ FixOperation(rule) = operation /\ operation # None
    OBVIOUS
  <2>3. \/ rule = "require_sha_pinned" /\ operation = "pin-shas"
        \/ rule = "require_permissions" /\ operation = "set-permissions"
    BY <2>2 DEF FixOperation, Rules
  <2> HIDE DEF rule, fleet
  <2>4. repos = {s[1] : s \in Violating(rule, policy, facts)}
    BY <2>2 DEF Fixable
  <2>5. \A s : s \in Violating(rule, policy, facts) <=>
                 s \in DOMAIN fleet /\ rule \in Evaluate(policy, facts[s])
    BY DEF Violating
  <2>6. \A s : s \in Violating(rule, policy, again) <=>
                 s \in DOMAIN fixed /\ rule \in Evaluate(policy, again[s])
    BY DEF Violating
  <2>7. /\ DOMAIN fixed = {t \in DOMAIN fleet : t[1] \in repos}
        /\ \A s \in DOMAIN fixed : s \in DOMAIN fleet /\ fixed[s] = Apply(operation, fleet[s])
        /\ DOMAIN again = DOMAIN fixed /\ \A s \in DOMAIN fixed : again[s] = Facts(fixed[s])
    OBVIOUS
  <2> HIDE DEF facts, repos, fixed, again
  <2>8. \A r \in repos : \E s \in DOMAIN fixed : s[1] = r /\ rule \in Evaluate(policy, facts[s])
    BY <2>4, <2>5, <2>7
  <2>9. \A s \in DOMAIN fleet \ DOMAIN fixed : rule \notin Evaluate(policy, facts[s])
    BY <2>4, <2>5, <2>7
  <2>10. ASSUME NEW s \in Violating(rule, policy, again)
         PROVE  \E x \in AuditWorkflow(fixed[s]) :
                  x.type \in Closes(operation) /\ Leaves(operation, fleet[s], x)
    <3>1. s \in DOMAIN fleet /\ fixed[s] = Apply(operation, fleet[s])
          /\ rule \in Evaluate(policy, Facts(fixed[s]))
      BY <2>6, <2>7
    <3>2. \E x \in AuditWorkflow(fixed[s]) : x.type \in Closes(operation)
      BY <2>3, <3>1 DEF Evaluate, Facts, Closes
    <3>3. operation \in FixOperations BY <2>3 DEF FixOperations
    <3>4. Left(operation, fleet[s], AuditWorkflow(fixed[s]))
      BY <2>1, <3>1, <3>3, FixCloses
    <3> QED BY <3>2, <3>4 DEF Left
  <2> QED BY <2>8, <2>9, <2>10 DEF policy, rule, repos, fixed, again
<1> QED BY <1>1, DriftInvariance, PTL
=============================================================================
