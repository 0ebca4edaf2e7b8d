-------------------------- MODULE MCTemplateDrift --------------------------
EXTENDS TemplateDrift

CONSTANTS r1, r2

MCTags == {"v3", "v4"}
MCBranches == {"main"}
MCShas == {"c3", "c4", "c5"}
MCDeprecated == {<<"checkout", "v3">>}
MCImmutable == {<<"node", "v4">>}
MCActions == {"checkout", "node", "flow"}
MCCommitOf == [x \in MCActions \X {"v3", "v4", "main"} |->
                 CASE x[2] = "v3" -> "c3" [] x[2] = "v4" -> "c4" [] OTHER -> "c5"]
MCBumpTo == <<"checkout", "v4">>
MCBasename == [p \in Paths |-> IF p = "workflows/ci.yml" THEN "ci.yml" ELSE "lint.yml"]

Use(a, r) == [action |-> a, ref |-> r]
Step(a, r) == [uses |-> Use(a, r), command |-> FALSE]
Run(command) == [uses |-> None, command |-> command]

Job(perms, runsOn, call, steps) ==
  [perms |-> perms, runsOn |-> runsOn, call |-> call, steps |-> steps]
File(name, perms, concurrency, triggers, jobs) ==
  [name |-> name, perms |-> perms, concurrency |-> concurrency, triggers |-> triggers, jobs |-> jobs]

\* The texts that are written while the system runs.
Good == File("ci", "read", "group", {"push"},
             [build |-> Job(None, "new", None, <<Step("checkout", "c4"), Run(FALSE)>>)])
Stale == File("ci", None, None, {"push", "pull_request_target"},
              [build |-> Job("write", "old", None, <<Step("checkout", "v3"), Run(TRUE)>>),
               call |-> Job(None, None, Use("flow", "main"), <<>>)])
MCTexts == {Good, Stale, Broken}
MCWritten == {Stale, Broken}

\* Files of one job, to study the rules and the operations on.
StepLists == {<<Step("checkout", ref), Run(FALSE)>> : ref \in {"v3", "v4", "main", "stable", None, "c4"}}
             \cup {<<Step("node", "v4")>>, <<Step(None, None)>>, <<Run(TRUE)>>}
Jobs == {Job(None, "old", None, steps) : steps \in StepLists}
        \cup {Job("write", "new", None, <<Step("checkout", "v4"), Run(FALSE)>>),
              Job(None, None, Use("flow", "v4"), <<>>)}
Studied == {File(kind[1], perms, concurrency, kind[2], [build |-> job]) :
              kind \in {<<"ci", {"push"}>>, <<"build", {"pull_request_target"}>>},
              perms \in {None, "read", "write"}, concurrency \in Concurrency, job \in Jobs}

Templates(texts) == [i \in DOMAIN texts |-> [name |-> texts[i][1], text |-> texts[i][2]]]

Rest == binding = <<>> /\ sweep = NoSweep /\ req = [q \in Requests |-> NoRequest]
        /\ requests = 0 /\ pushes = 0 /\ faults = 0

\* The system runs, from two good files.
MCInit ==
  /\ Rest
  /\ template \in {<<>>, Templates(<<<<"ci.yml", Good>>, <<"lint.yml", Stale>>>>)}
  /\ file = [s \in Sites |-> Good]
MCSpec == MCInit /\ [][Next]_vars /\ Fairness

\* Any two files in one repository, and others in a second one.
StudyInit ==
  /\ Rest
  /\ template = <<>>
  /\ \E a \in Studied, b \in {Good, Stale} \cup {f \in Studied : f.perms = "read" /\ f.concurrency = "group"} :
       file = [s \in Sites |-> IF s[1] = r1 THEN IF s[2] = "workflows/ci.yml" THEN a ELSE b
                               ELSE IF s[2] = "workflows/ci.yml" THEN Stale ELSE None]
StudySpec == StudyInit /\ [][Next]_vars
=============================================================================
