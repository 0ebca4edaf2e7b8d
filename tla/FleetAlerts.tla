---------------------------- MODULE FleetAlerts ----------------------------
(***************************************************************************)
(* The deprecation radar, the advisory watch and the alerts                *)
(* (audit/deprecation_radar.py, deprecation_feed.py, advisory_watch.py,    *)
(* advisory_feed.py, notifications/service.py, the two daily sweeps of     *)
(* sync/worker.py and the channel endpoints of api/app.py).                *)
(*                                                                         *)
(* The sweeps join a feed with the facts the audits stored of each         *)
(* workflow file.  Whatever warrants an alert goes through dispatch_once:  *)
(* claim its key in a ledger, commit, read the channels, deliver to one    *)
(* after the other.  Audits dispatch their own findings the same way.      *)
(***************************************************************************)
EXTENDS Integers, Sequences, FiniteSets, SequencesExt, FiniteSetsExt

CONSTANTS
  Files,         \* workflow files
  Descriptors,   \* what a file's relation row may say of it
  Feed,          \* the deprecations: id, kind, target, major, deadline
  Catalogue,     \* advisories GHSA may list: id and vulnerabilities
  UrgentDays, LastDay,
  PageCap,       \* advisories a poll reads
  Channels,      \* channel ids, in creation order
  EventSets,     \* subscriptions a channel may have
  Auditors, Findings,
  MaxJobs,       \* jobs that run at once
  Total,         \* bound on outside events: edits, failures, crashes
  None, Gone

RadarEvent == "radar.deadline"
AdvisoryEvent == "advisory.match"
FindingEvent == "finding.high"
EVENT_TYPES == {RadarEvent, AdvisoryEvent, FindingEvent}

Jobs == {"radar", "advisory"} \cup Auditors

ASSUME AlertsAssumption ==
  /\ \A d \in Descriptors : d.uses \in SUBSET [action : STRING, major : STRING]
  /\ \A e, f \in Feed : e.id = f.id => e = f
  /\ Channels \subseteq Nat /\ IsFiniteSet(Channels)
  /\ EventSets \subseteq SUBSET EVENT_TYPES
  /\ {UrgentDays, LastDay, PageCap, MaxJobs, Total} \subseteq Nat

VARIABLES
  today, used,
  enabled,     \* notifications_enabled
  relation,    \* workflow_relations: a descriptor per file, or None
  ghsa,        \* GHSA's listing, newest first
  advisories,  \* table advisories
  sent,        \* notification_sent
  channel,     \* notification_channels: None before, Gone after it
  job,
  inbox,       \* the messages each channel got, per key
  owed         \* history: the channels each claimed key still has to reach

db   == <<relation, advisories, sent, channel>>
vars == <<today, used, enabled, ghsa, db, job, inbox, owed>>

\* Keys of the ledger.
RadarKey(e, status) == <<RadarEvent, e.id, status>>
AdvisoryKey(a) == <<AdvisoryEvent, a.id, a.pkg>>
FindingKey(x) == <<FindingEvent, x, "">>
EventOf(key) == key[1]

\* parse_advisories: one record per vulnerability, so an advisory that gives a
\* package several version ranges yields several records with one key.
Parsed(listing) ==
  UNION {{[id |-> a.id, pkg |-> v.pkg, range |-> v.range, severity |-> a.severity] :
            v \in {x \in a.vulns : x.ecosystem = "actions"}} : a \in listing}

Records == Parsed(Catalogue)

AdvisoryKeys == {AdvisoryKey(r) : r \in Records}

Keys == {RadarKey(e, s) : e \in Feed, s \in {"overdue", "urgent"}}
        \cup AdvisoryKeys \cup {FindingKey(x) : x \in Findings}

\* A job in memory: the polled records, the alerts left, the key in hand, the
\* channels left for it.
IdleJob == [pc |-> "idle", got |-> {}, todo |-> {}, key |-> None, left |-> {}]

TypeOK ==
  /\ today \in 0..LastDay /\ used \in 0..Total /\ enabled \in BOOLEAN
  /\ relation \in [Files -> Descriptors \cup {None}]
  /\ ToSet(ghsa) \subseteq Catalogue
  /\ \A r, s \in advisories : r \in Records /\ (AdvisoryKey(r) = AdvisoryKey(s) => r = s)
  /\ sent \subseteq Keys
  /\ \A j \in Jobs : /\ job[j].pc \in {"idle", "poll", "store", "scan", "aborted",
                                       "dispatch", "claimed", "read", "deliver"}
                     /\ job[j].key \in Keys \cup {None}
                     /\ job[j].left \subseteq Channels
  /\ inbox \in [Channels -> [Keys -> Nat]]
  /\ owed \in [Keys -> SUBSET Channels]

Init ==
  /\ today = 0 /\ used = 0
  /\ enabled = TRUE
  /\ relation \in [Files -> Descriptors \cup {None}]
  /\ ghsa = <<>> /\ advisories = {} /\ sent = {}
  /\ \E n \in Channels \cup {0}, events \in [Channels -> EventSets] :
       channel = [c \in Channels |-> IF c > n THEN None
                                     ELSE [enabled |-> TRUE, events |-> events[c]]]
  /\ job = [j \in Jobs |-> IdleJob]
  /\ inbox = [c \in Channels |-> [k \in Keys |-> 0]]
  /\ owed = [k \in Keys |-> {}]

\* One more outside event.
Happens == used < Total /\ used' = used + 1

\* Only MaxJobs jobs run at once.
Starts(j) == /\ job[j].pc = "idle"
             /\ Cardinality({i \in Jobs : job[i].pc # "idle"}) < MaxJobs

Becomes(j, rec) == job' = [job EXCEPT ![j] = rec]

\* A job goes on with the alerts todo, or ends.
Dispatching(todo) == IF todo = {} THEN IdleJob
                     ELSE [IdleJob EXCEPT !.pc = "dispatch", !.todo = todo]
-----------------------------------------------------------------------------
(* The feeds and their matchers *)

\* match_facts: a label by name, an action by name and major version.
HitBy(desc, e) ==
  \/ e.kind = "runner-label" /\ e.target \in desc.runs_on
  \/ e.kind = "action-version" /\ [action |-> e.target, major |-> e.major] \in desc.uses

\* match_advisories: the action, whatever its version.
Affects(desc, adv) == \E u \in desc.uses : u.action = adv.pkg

Rows == {relation[f] : f \in Files} \ {None}

\* RadarEntry.status on a day.
Status(e, day) == LET days == e.deadline - day IN
  CASE e.deadline = None -> "no-date"
    [] e.deadline # None /\ days < 0 -> "overdue"
    [] e.deadline # None /\ days \in 0..UrgentDays -> "urgent"
    [] OTHER -> "upcoming"

\* The entries scan_fleet reports: what nothing in the fleet hits is left out.
RadarReport == {e \in Feed : \E d \in Rows : HitBy(d, e)}
AdvisoryReport == {a \in advisories : \E d \in Rows : Affects(d, a)}

Affecting == {AdvisoryKey(a) : a \in AdvisoryReport}

\* What the radar sweep alerts on.
Warranted == {RadarKey(e, Status(e, today)) :
                e \in {x \in RadarReport : Status(x, today) \in {"overdue", "urgent"}}}

\* What poll_advisories reads: the newest, up to its page cap.
Polled == Parsed({ghsa[n] : n \in {m \in DOMAIN ghsa : m <= PageCap}})

\* Two rows of one INSERT with the same (ghsa_id, package): PostgreSQL rejects
\* the statement, ON CONFLICT DO UPDATE cannot affect a row a second time.
Clashes(records) == \E r, s \in records : r # s /\ AdvisoryKey(r) = AdvisoryKey(s)

\* upsert_advisories.
Upserted(records) == records \cup {a \in advisories :
                                     AdvisoryKey(a) \notin {AdvisoryKey(r) : r \in records}}
-----------------------------------------------------------------------------
(* The world: days, audits, GHSA, the switch *)

Tick == /\ today < LastDay /\ today' = today + 1
        /\ UNCHANGED <<used, enabled, ghsa, db, job, inbox, owed>>

\* An audit stores what a file says now; a row is never removed.
Reaudit(f) ==
  /\ Happens
  /\ \E d \in Descriptors \ {relation[f]} : relation' = [relation EXCEPT ![f] = d]
  /\ UNCHANGED <<today, enabled, ghsa, advisories, sent, channel, job, inbox, owed>>

\* GHSA publishes an advisory, or revises one where it stands in the list.
Publish(a) ==
  /\ Happens /\ a \notin ToSet(ghsa)
  /\ ghsa' = IF \E n \in DOMAIN ghsa : ghsa[n].id = a.id
             THEN [n \in DOMAIN ghsa |-> IF ghsa[n].id = a.id THEN a ELSE ghsa[n]]
             ELSE <<a>> \o ghsa
  /\ UNCHANGED <<today, enabled, db, job, inbox, owed>>

\* The deployment's notifications_enabled changes.
Switch ==
  /\ Happens /\ enabled' = ~enabled
  /\ owed' = [k \in Keys |-> {}]
  /\ UNCHANGED <<today, ghsa, db, job, inbox>>
-----------------------------------------------------------------------------
(* Channel endpoints *)

Present(c) == channel[c] \notin {None, Gone}

\* Channels an alert of this type goes to.
Subscribed(event) == {c \in Channels : /\ Present(c)
                                       /\ channel[c].enabled /\ event \in channel[c].events}

\* A changed channel is owed nothing of what is on its way.
Changed(c, rec) ==
  /\ channel' = [channel EXCEPT ![c] = rec]
  /\ owed' = [k \in Keys |-> owed[k] \ {c}]
  /\ UNCHANGED <<today, enabled, ghsa, relation, advisories, sent, job, inbox>>

\* Requests that name an unknown event or a malformed destination are refused
\* and change nothing; so is a request for a channel that is not there.
CreateChannel(c) ==
  /\ Happens /\ channel[c] = None
  /\ \A b \in Channels : b < c => channel[b] # None
  /\ \E events \in EventSets : Changed(c, [enabled |-> TRUE, events |-> events])

UpdateChannel(c) ==
  /\ Happens /\ Present(c)
  /\ \E on \in BOOLEAN, events \in EventSets \cup {channel[c].events} :
       LET rec == [enabled |-> on, events |-> events]
       IN rec # channel[c] /\ Changed(c, rec)

DeleteChannel(c) ==
  /\ Happens /\ Present(c)
  /\ Changed(c, Gone)
-----------------------------------------------------------------------------
(* The two sweeps, up to the alerts, and audits with findings to alert on *)

unpolled == <<today, used, enabled, ghsa, relation, sent, channel, inbox, owed>>

RadarSweep ==
  /\ Starts("radar") /\ enabled
  /\ Becomes("radar", Dispatching(Warranted))
  /\ UNCHANGED <<advisories, unpolled>>

AdvisoryStart ==
  /\ Starts("advisory")
  /\ Becomes("advisory", [IdleJob EXCEPT !.pc = "poll"])
  /\ UNCHANGED <<advisories, unpolled>>

\* The poll answers; with nothing listed nothing is stored.
PollAnswers ==
  /\ job["advisory"].pc = "poll"
  /\ Becomes("advisory", [IdleJob EXCEPT !.pc = IF Polled = {} THEN "scan" ELSE "store",
                                         !.got = Polled])
  /\ UNCHANGED <<advisories, unpolled>>

\* Mutant: a failed poll ends the sweep.
PollFails_EndsSweep ==
  /\ job["advisory"].pc = "poll"
  /\ Becomes("advisory", IdleJob)
  /\ UNCHANGED <<advisories, unpolled>>

\* The poll fails: caught, the sweep goes on with what is stored.
PollFails ==
  /\ job["advisory"].pc = "poll"
  /\ Becomes("advisory", [IdleJob EXCEPT !.pc = "scan"])
  /\ UNCHANGED <<advisories, unpolled>>

\* The upsert and its commit.  A rejected upsert is caught too, but nothing
\* rolls the transaction back.
StoreAdvisories ==
  /\ job["advisory"].pc = "store"
  /\ LET got == job["advisory"].got IN
     IF Clashes(got)
     THEN Becomes("advisory", [IdleJob EXCEPT !.pc = "aborted"]) /\ UNCHANGED advisories
     ELSE Becomes("advisory", [IdleJob EXCEPT !.pc = "scan"]) /\ advisories' = Upserted(got)
  /\ UNCHANGED unpolled

\* The scan's first read fails in the aborted transaction: the sweep raises.
ScanRaises ==
  /\ job["advisory"].pc = "aborted"
  /\ Becomes("advisory", IdleJob)
  /\ UNCHANGED <<advisories, unpolled>>

AdvisoryScan ==
  /\ job["advisory"].pc = "scan"
  /\ Becomes("advisory", IF enabled THEN Dispatching(Affecting)
                                    ELSE IdleJob)
  /\ UNCHANGED <<advisories, unpolled>>

\* An audit has committed high findings; every audit that sees them does this.
AuditCommitted(j) ==
  /\ Starts(j)
  /\ \E seen \in SUBSET Findings \ {{}} :
       Becomes(j, Dispatching({FindingKey(x) : x \in seen}))
  /\ UNCHANGED <<advisories, unpolled>>
-----------------------------------------------------------------------------
(* dispatch_once *)

\* A report lists what is overdue first; the rest of its order is left open.
Next1st(todo) == LET first == {k \in todo : k[3] = "overdue"}
                 IN IF first = {} THEN todo ELSE first

\* mark_notified waits for a transaction that has inserted the key.
Free(k) == \A j \in Jobs : ~(job[j].pc = "claimed" /\ job[j].key = k)

undispatched == <<today, enabled, ghsa, relation, advisories, channel>>

AlreadySent(j, k) ==
  /\ job[j].pc = "dispatch" /\ k \in Next1st(job[j].todo) /\ k \in sent
  /\ Becomes(j, Dispatching(job[j].todo \ {k}))
  /\ UNCHANGED <<undispatched, used, sent, inbox, owed>>

\* Mutant: the ledger is looked up first and written without its unique key.
Claim_LooksFirst(j, k) ==
  /\ job[j].pc = "dispatch" /\ k \in Next1st(job[j].todo) /\ k \notin sent
  /\ Becomes(j, [job[j] EXCEPT !.pc = "claimed", !.key = k, !.todo = @ \ {k}])
  /\ UNCHANGED <<undispatched, used, sent, inbox, owed>>

\* mark_notified inserts the key; not committed yet.
Claim(j, k) ==
  /\ job[j].pc = "dispatch" /\ k \in Next1st(job[j].todo) /\ k \notin sent /\ Free(k)
  /\ Becomes(j, [job[j] EXCEPT !.pc = "claimed", !.key = k, !.todo = @ \ {k}])
  /\ UNCHANGED <<undispatched, used, sent, inbox, owed>>

\* The claim is committed before anything is delivered.
Commit(j) ==
  /\ job[j].pc = "claimed"
  /\ sent' = sent \cup {job[j].key}
  /\ owed' = [owed EXCEPT ![job[j].key] = IF enabled THEN Subscribed(EventOf(job[j].key)) ELSE {}]
  /\ Becomes(j, [job[j] EXCEPT !.pc = "read"])
  /\ UNCHANGED <<undispatched, used, inbox>>

\* dispatch: switched off, or without a channel for it, the alert is gone.
ReadChannels(j) ==
  /\ job[j].pc = "read"
  /\ LET targets == IF enabled THEN Subscribed(EventOf(job[j].key)) ELSE {} IN
     Becomes(j, IF targets = {} THEN Dispatching(job[j].todo)
                ELSE [job[j] EXCEPT !.pc = "deliver", !.left = targets])
  /\ UNCHANGED <<undispatched, used, sent, inbox, owed>>

Handled(j, c) == LET rest == job[j].left \ {c} IN
  Becomes(j, IF rest = {} THEN Dispatching(job[j].todo) ELSE [job[j] EXCEPT !.left = rest])

Settled(j, c) == owed' = [owed EXCEPT ![job[j].key] = @ \ {c}]

Deliver(j) ==
  /\ job[j].pc = "deliver"
  /\ LET c == Min(job[j].left) IN
     /\ inbox' = [inbox EXCEPT ![c][job[j].key] = @ + 1]
     /\ Handled(j, c) /\ Settled(j, c)
  /\ UNCHANGED <<undispatched, used, sent>>

\* Mutant: the first channel that fails ends the dispatch.
DeliveryFails_Stops(j) ==
  /\ job[j].pc = "deliver" /\ Happens
  /\ LET c == Min(job[j].left) IN
     /\ Becomes(j, Dispatching(job[j].todo)) /\ Settled(j, c)
  /\ UNCHANGED <<undispatched, sent, inbox>>

\* The destination does not resolve, resolves to a private address or refuses.
DeliveryFails(j) ==
  /\ job[j].pc = "deliver" /\ Happens
  /\ LET c == Min(job[j].left) IN Handled(j, c) /\ Settled(j, c)
  /\ UNCHANGED <<undispatched, sent, inbox>>

\* The process dies; an uncommitted claim is rolled back.
Crash(j) ==
  /\ job[j].pc # "idle" /\ Happens
  /\ Becomes(j, IdleJob)
  /\ owed' = IF job[j].pc \in {"read", "deliver"}
             THEN [owed EXCEPT ![job[j].key] = {}] ELSE owed
  /\ UNCHANGED <<undispatched, sent, inbox>>
-----------------------------------------------------------------------------
Dispatch(j) == \/ \E k \in job[j].todo : AlreadySent(j, k) \/ Claim(j, k)
               \/ Commit(j) \/ ReadChannels(j) \/ Deliver(j) \/ DeliveryFails(j)

AdvisoryGoesOn == PollAnswers \/ PollFails \/ StoreAdvisories \/ ScanRaises \/ AdvisoryScan

Next ==
  \/ Tick \/ Switch
  \/ \E f \in Files : Reaudit(f)
  \/ \E a \in Catalogue : Publish(a)
  \/ \E c \in Channels : CreateChannel(c) \/ UpdateChannel(c) \/ DeleteChannel(c)
  \/ RadarSweep \/ AdvisoryStart \/ AdvisoryGoesOn
  \/ \E j \in Auditors : AuditCommitted(j)
  \/ \E j \in Jobs : Dispatch(j) \/ Crash(j)

Spec == Init /\ [][Next]_vars

\* Days pass, the cron queues both sweeps again and again, the queue is served in
\* order, and a job that runs goes on; a poll may fail every time.
FairSpec == /\ Spec /\ WF_vars(Tick)
            /\ SF_vars(RadarSweep) /\ SF_vars(AdvisoryStart) /\ WF_vars(AdvisoryGoesOn)
            /\ \A j \in Jobs : WF_vars(Dispatch(j))
-----------------------------------------------------------------------------
\* However audits, sweeps and crashes interleave, and however often something
\* is seen again, no channel hears of it twice.
AlertOnce == \A c \in Channels, k \in Keys : inbox[c][k] <= 1

\* A channel that was enabled and subscribed when an alert was claimed, and was
\* left alone since, has it or gets it from a dispatch still under way: another
\* channel's failure does not take it away.  Only a crash, the switch or its own
\* failure does.
HeardByAll ==
  \A k \in Keys : \A c \in owed[k] : \E j \in Jobs :
    job[j].key = k /\ (job[j].pc = "read" \/ (job[j].pc = "deliver" /\ c \in job[j].left))

\* What warrants an alert is claimed in the end, also when every poll fails, as
\* long as notifications are on: each missed deadline, and each stored advisory
\* while the listing has no advisory with two ranges for a package.
AlertsCome ==
  /\ \A e \in {x \in Feed : x.deadline # None} :
       (e \in RadarReport /\ Status(e, today) = "overdue")
         ~> (~enabled \/ e \notin RadarReport \/ RadarKey(e, "overdue") \in sent)
  /\ \A k \in AdvisoryKeys : (k \in Affecting)
         ~> (~enabled \/ k \notin Affecting \/ k \in sent \/ Clashes(Polled))

\* worker.py:466-467, "a poll failure is non-fatal": the sweep always scans what
\* is stored.
PollNotFatal == job["advisory"].pc # "aborted"
=============================================================================
