--------------------------- MODULE TemplateDrift ---------------------------
(***************************************************************************)
(* Canonical templates, the bindings of workflow files to them, and the    *)
(* drift sweep (drift_sweep in sync/worker.py, db/repository.py 598-655,   *)
(* the template endpoints of api/app.py), while the files change on GitHub *)
(* under the fleet's own campaigns and its developers.                     *)
(*                                                                         *)
(* A request looks a row up and commits later; the sweep copies the        *)
(* templates first, then lists and reads each repository's files, and      *)
(* commits a repository's severities at its end.  Nothing makes a binding  *)
(* or the name of a template unique.                                       *)
(***************************************************************************)
EXTENDS Workflows

CONSTANTS
  Repos, Paths,
  Names,        \* of templates
  Basename,     \* the last part of a path
  Texts,        \* files and templates there are, Broken included
  Written,      \* bound on the texts that are written from now on
  Broken,       \* a text that does not parse
  Requests,     \* requests in progress at one time
  MaxRequests,  \* bound on requests
  MaxPushes,    \* bound on commits to default branches
  MaxFaults     \* bound on failed calls of GitHub and lost sweeps

Sites == Repos \X Paths

ASSUME TemplateDriftAssumption ==
  /\ Broken \in Texts /\ Written \subseteq Texts /\ \A text \in Texts \ {Broken} : IsWorkflow(text)
  /\ {MaxRequests, MaxPushes, MaxFaults} \subseteq Nat
  /\ \A p \in Paths : p \in DOMAIN Basename

VARIABLES
  file,      \* the text at each site, None without a file
  template,  \* workflow_templates: rows of name and text
  binding,   \* template_bindings: rows of site, template, severity
  sweep,     \* drift_sweep: the copied templates, and each repository's part
  req,       \* requests: to write a template, or to bind a file
  requests, pushes, faults

vars == <<file, template, binding, sweep, req, requests, pushes, faults>>

\* A repository without a part in a sweep.
Idle == [pc |-> "idle", todo |-> {}, scored |-> <<>>, found |-> <<>>, loaded |-> <<>>]
NoSweep == [canon |-> <<>>, part |-> [r \in Repos |-> Idle]]
NoRequest == [pc |-> "idle", kind |-> None, key |-> None, value |-> None, found |-> 0, loaded |-> None]

\* A function of finitely many names or paths; <<>> is the empty one.
With(f, k, v) == [x \in DOMAIN f \cup {k} |-> IF x = k THEN v ELSE f[x]]

TypeOK ==
  /\ \A i \in DOMAIN template : template[i].name \in Names
  /\ \A i \in DOMAIN binding : /\ binding[i].site \in Sites
                               /\ binding[i].template \in DOMAIN template
                               /\ binding[i].severity \in DOMAIN Severities \cup {None}
  /\ DOMAIN sweep.canon \subseteq Names
  /\ \A r \in Repos : LET part == sweep.part[r] IN
       /\ part.pc \in {"idle", "list", "fetch", "write"}
       /\ part.todo \cup DOMAIN part.scored \subseteq Paths
       /\ part.pc = "write" => part.todo = {} /\ DOMAIN part.found = DOMAIN part.scored
  /\ \A q \in Requests : req[q].pc \in {"idle", "commit"}
  /\ requests \in 0..MaxRequests /\ pushes \in 0..MaxPushes /\ faults \in 0..MaxFaults

Init ==
  /\ file \in [Sites -> Texts \cup {None}]
  /\ template = <<>> /\ binding = <<>>
  /\ sweep = NoSweep
  /\ req = [q \in Requests |-> NoRequest]
  /\ requests = 0 /\ pushes = 0 /\ faults = 0
-----------------------------------------------------------------------------
(* The repositories *)

\* A developer commits, or deletes, a workflow file.
Push(s, text) ==
  /\ pushes < MaxPushes /\ pushes' = pushes + 1
  /\ file' = [file EXCEPT ![s] = text]
  /\ UNCHANGED <<template, binding, sweep, req, requests, faults>>

\* A pull request of a campaign lands.
Land(s, text) == file[s] # None /\ text # file[s] /\ Push(s, text)

LandFix(s, operation) == file[s] \notin {None, Broken} /\ Land(s, Apply(operation, file[s]))

\* sync-template: the canonical text the campaign was given, whatever it replaces.
LandSync(s) == \E i \in DOMAIN template : Land(s, template[i].text)
-----------------------------------------------------------------------------
(* Requests: create_template and add_binding *)

\* The row a get-then-insert finds first, if there is one.
Found(rows) == IF rows = {} THEN {0} ELSE rows

TemplateRows(n) == Found({i \in DOMAIN template : template[i].name = n})
BindingRows(s) == Found({i \in DOMAIN binding : binding[i].site = s})

\* What a session knows of the row it has found, before it assigns to it.
Loaded(kind, i) ==
  IF i = 0 THEN None ELSE IF kind = "template" THEN template[i].text ELSE binding[i].template

\* A column is written if it is assigned another value than the one loaded.
Assigned(stored, loaded, value) == IF value = loaded THEN stored ELSE value

\* A request comes in on one of the interchangeable free places and looks its
\* row up.
Look(q, kind, key, value, rows) ==
  /\ req[q].pc = "idle" /\ requests < MaxRequests
  /\ q = CHOOSE p \in Requests : req[p].pc = "idle"
  /\ requests' = requests + 1
  /\ \E i \in rows :
       req' = [req EXCEPT ![q] = [pc |-> "commit", kind |-> kind, key |-> key,
                                  value |-> value, found |-> i, loaded |-> Loaded(kind, i)]]
  /\ UNCHANGED <<file, template, binding, sweep, pushes, faults>>

\* upsert_template.
CommitTemplate(q) ==
  /\ req[q].pc = "commit" /\ req[q].kind = "template"
  /\ template' = IF req[q].found = 0
                 THEN Append(template, [name |-> req[q].key, text |-> req[q].value])
                 ELSE [template EXCEPT ![req[q].found].text =
                                         Assigned(@, req[q].loaded, req[q].value)]
  /\ req' = [req EXCEPT ![q] = NoRequest]
  /\ UNCHANGED <<file, binding, sweep, requests, pushes, faults>>

\* Mutant: a binding that exists is left as it is.
Rebound_KeepsTemplate(row, loaded, t) == row

\* create_binding, of a row that exists and of a new one.
Rebound(row, loaded, t) == [row EXCEPT !.template = Assigned(@, loaded, t)]
NewBinding(s, t) == [site |-> s, template |-> t, severity |-> None]

CommitBinding(q) ==
  /\ req[q].pc = "commit" /\ req[q].kind = "binding"
  /\ binding' = IF req[q].found = 0 THEN Append(binding, NewBinding(req[q].key, req[q].value))
                ELSE [binding EXCEPT ![req[q].found] = Rebound(@, req[q].loaded, req[q].value)]
  /\ req' = [req EXCEPT ![q] = NoRequest]
  /\ UNCHANGED <<file, template, sweep, requests, pushes, faults>>
-----------------------------------------------------------------------------
(* The sweep *)

Sweeping == \E r \in Repos : sweep.part[r].pc # "idle"

\* One entry per name: of rows with the same name the last one listed stays.
StartSweep ==
  /\ ~Sweeping /\ template # <<>>
  /\ \E pick \in [{template[i].name : i \in DOMAIN template} -> DOMAIN template] :
       /\ \A n \in DOMAIN pick : template[pick[n]].name = n
       /\ sweep' = [canon |-> [n \in DOMAIN pick |-> [id |-> pick[n], text |-> template[pick[n]].text]],
                    part |-> [r \in Repos |-> [Idle EXCEPT !.pc = "list"]]]
  /\ UNCHANGED <<file, template, binding, req, requests, pushes, faults>>

\* autobind_paths.
Autobound(p, names) == Basename[p] \in names

Part(r, part) == sweep' = [sweep EXCEPT !.part[r] = part]

ListFiles(r) ==
  LET bound == {p \in Paths : file[<<r, p>>] # None /\ Autobound(p, DOMAIN sweep.canon)} IN
  /\ sweep.part[r].pc = "list"
  /\ Part(r, IF bound = {} THEN Idle ELSE [Idle EXCEPT !.pc = "fetch", !.todo = bound])
  /\ UNCHANGED <<file, template, binding, req, requests, pushes, faults>>

Readable(texts) == Broken \notin texts /\ None \notin texts

\* get_file_text and compute_drift, file by file; a file that is gone, or a text that does not
\* parse, ends the repository's part, and what it scored is dropped.
FetchFile(r, p) ==
  LET part == sweep.part[r]
      canonical == sweep.canon[Basename[p]].text IN
  /\ part.pc = "fetch" /\ part.todo # {}
  /\ p = CHOOSE x \in part.todo : TRUE
  /\ Part(r, IF Readable({file[<<r, p>>], canonical})
             THEN [part EXCEPT !.todo = @ \ {p}, !.scored = With(@, p, Diff(canonical, file[<<r, p>>]))]
             ELSE Idle)
  /\ UNCHANGED <<file, template, binding, req, requests, pushes, faults>>

\* Mutant: a repository is written with what has been read so far.
AllRead_Some(part) == part.scored # <<>>

AllRead(part) == part.todo = {}

\* The transaction of the repository looks its bindings up ...
LookUp(r) ==
  LET part == sweep.part[r] IN
  /\ part.pc = "fetch" /\ AllRead(part)
  /\ \E found \in [DOMAIN part.scored -> 0..Len(binding)] :
       /\ \A p \in DOMAIN found : found[p] \in BindingRows(<<r, p>>)
       /\ Part(r, [part EXCEPT !.pc = "write", !.found = found,
                               !.loaded = [p \in DOMAIN found |-> Loaded("binding", found[p])]])
  /\ UNCHANGED <<file, template, binding, req, requests, pushes, faults>>

\* update_binding_drift.
Scored(row, scored) == [row EXCEPT !.severity = scored[row.site[2]]]

\* ... and commits them with their severities, the new ones after the others.
WriteDrift(r) ==
  LET part == sweep.part[r]
      Id(p) == sweep.canon[Basename[p]].id
      Row(row, p) == Scored(Rebound(row, part.loaded[p], Id(p)), part.scored)
      new == SetToSeq({p \in DOMAIN part.scored : part.found[p] = 0}) IN
  /\ part.pc = "write"
  /\ binding' = [i \in DOMAIN binding |->
                   IF \E p \in DOMAIN part.found : part.found[p] = i
                   THEN Row(binding[i], binding[i].site[2])
                   ELSE binding[i]]
                \o [k \in DOMAIN new |-> Scored(NewBinding(<<r, new[k]>>, Id(new[k])), part.scored)]
  /\ Part(r, Idle)
  /\ UNCHANGED <<file, template, req, requests, pushes, faults>>

\* A call of GitHub fails: the repository waits for the next sweep.
RepoFails(r) ==
  /\ sweep.part[r].pc \in {"list", "fetch"}
  /\ faults < MaxFaults /\ faults' = faults + 1
  /\ Part(r, Idle)
  /\ UNCHANGED <<file, template, binding, req, requests, pushes>>

\* The worker dies, or the job reaches its timeout.
SweepDies ==
  /\ Sweeping /\ faults < MaxFaults /\ faults' = faults + 1
  /\ sweep' = NoSweep
  /\ UNCHANGED <<file, template, binding, req, requests, pushes>>
-----------------------------------------------------------------------------
Sweep ==
  \/ StartSweep
  \/ \E r \in Repos : ListFiles(r) \/ (\E p \in Paths : FetchFile(r, p)) \/ LookUp(r) \/ WriteDrift(r)

Answer(q) == CommitTemplate(q) \/ CommitBinding(q)

Next ==
  \/ \E s \in Sites : \/ \E text \in Written \cup {None} : Push(s, text)
                      \/ \E operation \in FixOperations : LandFix(s, operation)
                      \/ LandSync(s)
  \/ \E q \in Requests :
       \/ \E n \in Names, text \in Written : Look(q, "template", n, text, TemplateRows(n))
       \/ \E s \in Sites, t \in DOMAIN template : Look(q, "binding", s, t, BindingRows(s))
       \/ Answer(q)
  \/ Sweep
  \/ \E r \in Repos : RepoFails(r)
  \/ SweepDies

Spec == Init /\ [][Next]_vars

\* arq runs the cron job every six hours and a job's steps follow each other;
\* the event loop of the API runs every request.
Fairness == WF_vars(Sweep) /\ \A q \in Requests : WF_vars(Answer(q))
FairSpec == Spec /\ Fairness
-----------------------------------------------------------------------------
(* Properties *)

\* The templates that a name has.
Canonical(n) == {i \in DOMAIN template : template[i].name = n}

\* Every autobound file and its template can be read: one that cannot keeps its
\* whole repository from being scored.
RepoReadable(r) ==
  \A p \in Paths : file[<<r, p>>] # None =>
    \A i \in Canonical(Basename[p]) : Readable({file[<<r, p>>], template[i].text})

\* A binding of the site to the one template of its name tells the drift there is.
DriftTold(s) ==
  \A i \in Canonical(Basename[s[2]]) :
    file[s] # None /\ Canonical(Basename[s[2]]) = {i} =>
      \E b \in DOMAIN binding : binding[b] = [site |-> s, template |-> i,
                                              severity |-> Diff(template[i].text, file[s])]

\* The dashboard's drift is right in the end: once files and templates rest, each
\* file that has the name of a template has a binding with the severity of today's
\* file against today's template, whatever was pushed, landed, bound by hand or
\* rewritten during earlier sweeps, and whichever of them died (worker.py 343-396).
DriftConverges == \A s \in Sites : <>[](RepoReadable(s[1]) => DriftTold(s))

Files == {file[s] : s \in Sites} \ {None, Broken}
Canons == {template[i].text : i \in DOMAIN template} \ {Broken}

\* What an operation may leave of the findings it answers for: references that
\* resolve to nothing, those made by a job and not by a step, permissions and
\* commands of jobs, other actions, a bump's own target if it is deprecated, and
\* a concurrency key without a value.
Leaves(operation, f, x) ==
  \/ operation = "pin-shas" /\ Classify(x.use) \in {"unpinned", "unknown"}
  \/ /\ operation \in {"set-permissions", "bump-action-version"}
     /\ x.job # None
  \/ /\ operation \in {"pin-shas", "bump-action-version"}
     /\ \E j \in DOMAIN f.jobs : f.jobs[j].call = x.use
  \/ /\ operation = "bump-action-version"
     /\ x.use.action # BumpTo[1] \/ BumpTo \in Deprecated
  \/ operation = "add-concurrency" /\ f.concurrency = "null"

\* A fix closes the findings a campaign counts as its own, but for those above,
\* and opens none, except that a bump puts its tag where anything may have been; it
\* never lowers the score but by that (operations.py, engine.py: two passes over
\* the same file that share no code but the classifier).
FixesClose ==
  \A f \in Files, operation \in FixOperations :
    LET before == AuditWorkflow(f)
        after == AuditWorkflow(Apply(operation, f))
        bumped == {x \in after : operation = "bump-action-version" /\ x.use # None
                                 /\ Pair(x.use) = BumpTo} IN
    /\ \A x \in after : x.type \in Closes(operation) => Leaves(operation, f, x)
    /\ after \subseteq before \cup bumped
    /\ bumped = {} => \A repos \in 1..2 : Score(after, repos) >= Score(before, repos)

\* Severities are distances: a file drifts no further from the new text of a
\* template than from the old one or the old one from the new, to both sides
\* alike; and a fix never moves a bound file further than content drift, nor a
\* swap of runners at all (drift/engine.py 50-98).
DriftIsDistance ==
  /\ \A a, b, c \in Files \cup Canons :
       /\ Diff(a, b) = Diff(b, a)
       /\ Diff(a, c) <= Max({Diff(a, b), Diff(b, c)})
  /\ \A f \in Files : /\ \A operation \in FixOperations : Diff(f, Apply(operation, f)) <= 3
                      /\ Diff(f, SwapRunsOn(f)) = 1

\* The one-click campaign of a simulated rule goes to the repositories that need
\* it: simulating again afterwards reports of the rule only what its operation
\* leaves behind, and files elsewhere stay as they are (policy/simulator.py,
\* policy/service.py, and the registry of operations.py).
SimulationHolds ==
  LET fleet == [s \in {t \in Sites : file[t] \notin {None, Broken}} |-> file[s]]
      facts == [s \in DOMAIN fleet |-> Facts(fleet[s])] IN
  \A rules \in {{"require_sha_pinned"}, {"require_permissions"}, Rules} :
  \A operation \in {FixOperation(rule) : rule \in rules} \ {None} :
    LET policy == [rules |-> rules, disallowed |-> {"pull_request_target"}]
        rule == CHOOSE x \in rules : FixOperation(x) = operation
        repos == Fixable(rule, policy, facts)
        fixed == [s \in {t \in DOMAIN fleet : t[1] \in repos} |-> Apply(operation, fleet[s])] IN
    /\ \A r \in repos : \E s \in DOMAIN fixed : s[1] = r /\ rule \in Evaluate(policy, facts[s])
    /\ \A s \in DOMAIN fleet \ DOMAIN fixed : rule \notin Evaluate(policy, facts[s])
    /\ \A s \in Violating(rule, policy, [t \in DOMAIN fixed |-> Facts(fixed[t])]) :
         \E x \in AuditWorkflow(fixed[s]) : x.type \in Closes(operation) /\ Leaves(operation, fleet[s], x)
=============================================================================
