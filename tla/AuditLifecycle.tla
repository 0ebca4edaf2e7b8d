--------------------------- MODULE AuditLifecycle ---------------------------
(***************************************************************************)
(* The life of audit findings (audit/service.py, sarif_ingest_service.py,  *)
(* the findings of db/repository.py) and what campaigns conclude from it.  *)
(*                                                                         *)
(* An audit of a repository lists its workflow files, reads them one by    *)
(* one, and only then writes: in one transaction it opens what it found    *)
(* and closes every open finding that it did not find.  Nothing keeps two  *)
(* audits of one repository apart: the sweep, a push, and an operator who  *)
(* verifies a campaign each start one.  Other scanners' findings share the *)
(* table and come in by SARIF documents.                                   *)
(***************************************************************************)
EXTENDS Integers, FiniteSets

CONSTANTS
  Files,      \* workflow files of one repository
  Flaws,      \* findings the engine can raise (type, file and ref)
  FileOf,     \* the file a flaw is in
  Needs,      \* a flaw that is a dangling reference: the file it refers to
  Exempt,     \* flaws about a ref that is an immutable release
  High,       \* flaws that alert
  Closable,   \* flaws of the types that the campaign's operation closes
  Reports,    \* findings of other scanners
  Tools, ToolOf,
  Audits,     \* audits that can be in flight at once
  None,
  Limit       \* how often each kind of event may happen

Kinds == {"push", "failure", "crash"}

FlawsOf(f) == {x \in Flaws : FileOf[x] = f}
ReportsOf(t) == {x \in Reports : ToolOf[x] = t}

\* A repository: each file with the flaws that its text would show, or None.
Repo == {h \in [Files -> ({None} \cup SUBSET Flaws)] :
           \A f \in Files : h[f] # None => h[f] \subseteq FlawsOf(f)}

ASSUME AuditAssumption ==
  /\ None \notin Files /\ \A S \in SUBSET Flaws : None # S
  /\ FileOf \in [Flaws -> Files]
  /\ Needs \in [Flaws -> Files \cup {None}]
  /\ Exempt \subseteq Flaws /\ High \subseteq Flaws /\ Closable \subseteq Flaws
  /\ Flaws \cap Reports = {}
  /\ ToolOf \in [Reports -> Tools]
  /\ Limit \in [Kinds -> Nat]

VARIABLES
  head,       \* GitHub: the default branch
  row,        \* audit_findings
  relation,   \* workflow_relations: the descriptor stored per path
  audit,      \* audits in flight
  targeted,   \* campaign_findings of one campaign, or None before it exists
  alerted,    \* notification_sent, the keys finding:{fingerprint}
  used,       \* how often each kind of event has happened
  shown,      \* history: what the branch has shown since each audit began,
  absent,     \*          what it has not shown at some time since then,
  landed      \*          and of the targeted ones since the campaign was created

db      == <<row, relation, targeted, alerted>>
history == <<shown, absent, landed>>
vars    == <<head, db, audit, used, history>>

IdleAudit == [pc |-> "idle", todo |-> {}, got |-> [f \in Files |-> None], alerts |-> {}]

\* An audit in memory: the paths to read, the parsed files, the alerts to send.
Audit == [pc : {"idle", "reading", "alerting"}, todo : SUBSET Files,
          got : Repo, alerts : SUBSET Flaws]

TypeOK ==
  /\ head \in Repo
  /\ row \in [Flaws \cup Reports -> {"none", "open", "resolved"}]
  /\ relation \in Repo
  /\ audit \in [Audits -> Audit]
  /\ targeted \in {None} \cup SUBSET Flaws
  /\ alerted \subseteq Flaws
  /\ used \in [Kinds -> Nat] /\ \A k \in Kinds : used[k] <= Limit[k]
  /\ shown \in [Audits -> SUBSET Flaws]
  /\ absent \in [Audits -> SUBSET Flaws]
  /\ landed \subseteq Flaws

Init ==
  /\ head \in Repo
  /\ row = [x \in Flaws \cup Reports |-> "none"]
  /\ relation = [f \in Files |-> None]
  /\ audit = [a \in Audits |-> IdleAudit]
  /\ targeted = None /\ alerted = {}
  /\ used = [k \in Kinds |-> 0]
  /\ shown = [a \in Audits |-> {}] /\ absent = [a \in Audits |-> {}]
  /\ landed = {}
-----------------------------------------------------------------------------
Has(h, x) == h[FileOf[x]] # None /\ x \in h[FileOf[x]]

\* audit_workflow over every parsed file, then detect_dangling_references
\* over all of them.
Raised(h) ==
  {x \in Flaws : Has(h, x) /\ (Needs[x] # None => h[Needs[x]] = None)}

\* What an audit of exactly this content should find.
Shows(h) == Raised(h) \ Exempt

Targeted == IF targeted = None THEN {} ELSE targeted

Happens(k) == used[k] < Limit[k] /\ used' = [used EXCEPT ![k] = @ + 1]

Becomes(a, rec) == audit' = [audit EXCEPT ![a] = rec]

\* A push changes any number of files at once.
Push(h) ==
  /\ h # head
  /\ Happens("push")
  /\ head' = h
  /\ shown' = [a \in Audits |-> IF audit[a].pc = "reading"
                                THEN shown[a] \cup Shows(h) ELSE shown[a]]
  /\ absent' = [a \in Audits |-> IF audit[a].pc = "reading"
                                 THEN absent[a] \cup (Flaws \ Shows(h)) ELSE absent[a]]
  /\ landed' = landed \cup (Targeted \ Shows(h))
  /\ UNCHANGED <<db, audit>>
-----------------------------------------------------------------------------
(* audit_repo *)

\* Mutant: only the first page is listed.
ListFiles_FirstPage == {f \in Files : /\ head[f] # None
                                      /\ f = CHOOSE g \in Files : head[g] # None}

ListFiles == {f \in Files : head[f] # None}

\* audit_all, audit_repo_task or a campaign's verify: the audit starts with
\* list_workflow_files.
StartAudit(a) ==
  /\ audit[a].pc = "idle"
  /\ Becomes(a, [IdleAudit EXCEPT !.pc = "reading", !.todo = ListFiles])
  /\ shown' = [shown EXCEPT ![a] = Shows(head)]
  /\ absent' = [absent EXCEPT ![a] = Flaws \ Shows(head)]
  /\ UNCHANGED <<head, db, used, landed>>

\* get_file_text and parse_workflow.  A file that is gone by now is skipped.
ReadFile(a, f) ==
  /\ audit[a].pc = "reading" /\ f \in audit[a].todo
  /\ Becomes(a, [audit[a] EXCEPT
       !.todo = audit[a].todo \ {f},
       !.got = [audit[a].got EXCEPT ![f] = head[f]]])
  /\ UNCHANGED <<head, db, used, history>>

\* "One bad file should not abort the whole repo audit".
SkipFile(a, f) ==
  /\ audit[a].pc = "reading" /\ f \in audit[a].todo
  /\ Happens("failure")
  /\ Becomes(a, [audit[a] EXCEPT !.todo = audit[a].todo \ {f}])
  /\ UNCHANGED <<head, db, history>>

\* Mutant: a finding that is seen again stays closed.
Upserted_StaysClosed(rows, seen) ==
  [x \in DOMAIN rows |-> IF x \in seen /\ rows[x] = "none" THEN "open" ELSE rows[x]]

\* upsert_finding for each: new or reopened.
Upserted(rows, seen) ==
  [x \in DOMAIN rows |-> IF x \in seen THEN "open" ELSE rows[x]]

\* resolve_stale_findings, whose scope is the repository, and
\* resolve_stale_findings_for_source.
Resolved(rows, scope, seen) ==
  [x \in DOMAIN rows |-> IF rows[x] = "open" /\ x \in scope \ seen
                         THEN "resolved" ELSE rows[x]]

\* After the commit: the alerts that are left, or the end.
Alerting(alerts) == IF alerts = {} THEN IdleAudit
                    ELSE [IdleAudit EXCEPT !.pc = "alerting", !.alerts = alerts]

\* Phase 2 in one transaction.  A failed lookup of an immutable release counts
\* as "not immutable".
Write(a, alerts) ==
  /\ audit[a].pc = "reading" /\ audit[a].todo = {}
  /\ \E proven \in SUBSET Exempt :
       /\ IF proven = Exempt THEN UNCHANGED used ELSE Happens("failure")
       /\ LET seen == Raised(audit[a].got) \ proven IN
            /\ row' = Resolved(Upserted(row, seen), DOMAIN row, seen)
            /\ Becomes(a, Alerting(alerts[seen]))
  /\ relation' = [f \in Files |-> IF audit[a].got[f] # None
                                  THEN audit[a].got[f] ELSE relation[f]]
  /\ shown' = [shown EXCEPT ![a] = {}]
  /\ absent' = [absent EXCEPT ![a] = {}]
  /\ UNCHANGED <<head, targeted, alerted, landed>>

\* Mutant: only findings that were not open before alert.
WriteFindings_AlertNew(a) ==
  Write(a, [seen \in SUBSET Flaws |-> {x \in seen \cap High : row[x] # "open"}])

WriteFindings(a) == Write(a, [seen \in SUBSET Flaws |-> seen \cap High])

\* dispatch_once for one critical or high finding; the key is claimed once.
Alert(a, x) ==
  /\ audit[a].pc = "alerting" /\ x \in audit[a].alerts
  /\ alerted' = alerted \cup {x}
  /\ Becomes(a, Alerting(audit[a].alerts \ {x}))
  /\ UNCHANGED <<head, row, relation, targeted, used, history>>

\* The process dies, the job times out, or the database gives up the
\* transaction: what is not committed is lost.
CrashAudit(a) ==
  /\ audit[a].pc # "idle"
  /\ Happens("crash")
  /\ Becomes(a, IdleAudit)
  /\ shown' = [shown EXCEPT ![a] = {}]
  /\ absent' = [absent EXCEPT ![a] = {}]
  /\ UNCHANGED <<head, db, landed>>
-----------------------------------------------------------------------------
\* ingest_sarif: a document with what one tool found, now or some time ago.
Ingest(t, found) ==
  /\ row' = Resolved(Upserted(row, found), ReportsOf(t), found)
  /\ UNCHANGED <<head, relation, targeted, alerted, audit, used, history>>

\* A campaign is created: snapshot_campaign_findings.
CreateCampaign ==
  /\ targeted = None
  /\ targeted' = {x \in Closable : row[x] = "open"}
  /\ landed' = targeted' \ Shows(head)
  /\ UNCHANGED <<head, row, relation, alerted, audit, used, shown, absent>>

\* campaign_verification: the targeted findings that count as closed.
VerifiedClosed == {x \in Targeted : row[x] = "resolved"}
-----------------------------------------------------------------------------
Step(a) == \/ WriteFindings(a)
           \/ \E f \in Files : ReadFile(a, f)
           \/ \E x \in High : Alert(a, x)

Next ==
  \/ \E h \in Repo : Push(h)
  \/ \E a \in Audits : \/ StartAudit(a) \/ Step(a) \/ CrashAudit(a)
                       \/ \E f \in Files : SkipFile(a, f)
  \/ \E t \in Tools : \E found \in SUBSET ReportsOf(t) : Ingest(t, found)
  \/ CreateCampaign

Spec == Init /\ [][Next]_vars

\* The sweep comes round, and an audit that runs goes on.
Fairness == /\ WF_vars(\E a \in Audits : StartAudit(a))
            /\ \A a \in Audits : WF_vars(Step(a))

FairSpec == Spec /\ Fairness
-----------------------------------------------------------------------------
(* Properties *)

\* However pushes, audits and crashes interleave, and although the files of an
\* audit are read at different times: as long as no read fails, an audit closes
\* a finding only if the branch was without it at some time since the audit
\* began, and opens one (a dangling reference apart, which two commits can
\* appear to make) only if the branch showed it at some time since then.
Evidence ==
  [][used'["failure"] = 0 =>
       \A x \in Flaws : row'[x] # row[x] =>
         \E a \in Audits :
           /\ audit[a].pc = "reading" /\ audit'[a].pc # "reading"
           /\ row'[x] = "resolved" => x \in absent[a]
           /\ row'[x] = "open" /\ Needs[x] = None => x \in shown[a]]_vars

\* When pushes and failures have come to an end, the open findings are in the
\* end exactly what the default branch shows.
Converges == <>[](\A x \in Flaws : row[x] = "open" <=> x \in Shows(head))

\* "Notify on new critical/high findings": a finding that stays open is
\* alerted, also if the process dies between the commit and the alert.
AlertsCome == \A x \in High : row[x] = "open" ~> (row[x] # "open" \/ x \in alerted)

\* "Proof the fix actually landed, not just that a PR opened" (models.py): a
\* targeted finding counts as closed only if the branch has been without it
\* since the campaign was created.
VerifiedIsProof == VerifiedClosed \subseteq landed

\* Ingested findings "can be lifecycle-managed per source" (sarif_ingest.py):
\* a scanner's finding is closed by that scanner's document, no other pass.
ClosedBySource ==
  [][\A x \in Reports : row[x] = "open" /\ row'[x] = "resolved" =>
       \E found \in SUBSET ReportsOf(ToolOf[x]) : Ingest(ToolOf[x], found)]_vars
=============================================================================
