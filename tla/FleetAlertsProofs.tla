-------------------------- MODULE FleetAlertsProofs --------------------------
(***************************************************************************)
(* No alert is heard twice, and none that is owed is forgotten: for any    *)
(* files, feed, advisories, channels and audits, any number of jobs at     *)
(* once, and whatever fails, is edited or switched off meanwhile.          *)
(***************************************************************************)
EXTENDS FleetAlerts, FiniteSetTheorems, SequenceTheorems, TLAPS

Pcs == {"idle", "poll", "store", "scan", "aborted", "dispatch", "claimed", "read", "deliver"}

Job == [pc : Pcs, got : SUBSET Records, todo : SUBSET Keys, key : Keys \cup {None},
        left : SUBSET Channels]

\* What TypeOK leaves open of the state.
Typed ==
  /\ ghsa \in Seq(Catalogue)
  /\ job \in [Jobs -> Job]
  /\ channel \in [Channels -> {None, Gone} \cup [enabled : BOOLEAN, events : EventSets]]

\* The jobs that have key k in hand.
InHand(j, k) == job[j].key = k /\ job[j].pc \in {"claimed", "read", "deliver"}

\* A claim in hand is a key; it is in the ledger once it is committed and not
\* before.
ClaimsStand ==
  \A j \in Jobs :
    /\ job[j].pc \in {"claimed", "read", "deliver"} => job[j].key \in Keys
    /\ job[j].pc = "claimed" => job[j].key \notin sent
    /\ job[j].pc \in {"read", "deliver"} => job[j].key \in sent
    /\ job[j].pc = "deliver" => job[j].left # {}

\* The ledger's unique key: a key is in one job's hand.
OneHand == \A i, j \in Jobs, k \in Keys : InHand(i, k) /\ InHand(j, k) => i = j

\* Nobody has heard of what nobody has claimed, nor of what is still to be
\* delivered to it.
Unheard ==
  \A c \in Channels, k \in Keys :
    /\ k \notin sent => inbox[c][k] = 0
    /\ \A j \in Jobs : InHand(j, k) /\ (job[j].pc = "deliver" => c \in job[j].left)
                         => inbox[c][k] = 0

\* An alert is owed to channels that are still there, on, and subscribed.
OwedStands ==
  \A k \in Keys : \A c \in owed[k] : enabled /\ c \in Subscribed(EventOf(k))

Types  == TypeOK /\ Typed
Alerts == ClaimsStand /\ OneHand /\ Unheard /\ AlertOnce /\ OwedStands /\ HeardByAll

IInv == Types /\ Alerts
-----------------------------------------------------------------------------
(* What the operators return *)

\* A nonempty set of channels has a first one: the sets of channels up to a
\* member are finite, so one of them contains no other.
LEMMA FirstChannel ==
  ASSUME NEW S \in SUBSET Channels, S # {}
  PROVE  Min(S) \in S
<1> DEFINE UpTo(n) == {m \in S : m <= n}
           Sets == {UpTo(n) : n \in S}
<1>1. \A c \in S : c \in Nat
  BY AlertsAssumption
<1>2. Sets \subseteq FiniteSubsetsOf(S)
  BY AlertsAssumption, FS_Subset DEF FiniteSubsetsOf
<1>3. IsWellFoundedOn(StrictSubsetOrdering(S), FiniteSubsetsOf(S))
  BY FS_StrictSubsetOrderingWellFounded
<1>4. PICK T \in Sets : \A U \in Sets : <<U, T>> \notin StrictSubsetOrdering(S)
  <2>1. Sets # {}
    OBVIOUS
  <2> HIDE DEF Sets
  <2> QED
    BY <1>2, <1>3, <2>1, WFMin
<1>5. PICK n \in S : T = UpTo(n)
  OBVIOUS
<1>6. ASSUME NEW m \in S PROVE n <= m
  <2>1. CASE m < n
    <3>1. UpTo(m) \subseteq UpTo(n) /\ n \in UpTo(n) /\ n \notin UpTo(m)
      BY <1>1, <2>1
    <3>2. <<UpTo(m), T>> \in StrictSubsetOrdering(S)
      BY <1>5, <3>1 DEF StrictSubsetOrdering
    <3> QED
      BY <1>4, <3>2
  <2> QED
    BY <1>1, <2>1
<1> QED
  BY <1>6 DEF Min

LEMMA DispatchingType ==
  ASSUME NEW todo \in SUBSET Keys
  PROVE  /\ IdleJob \in Job
         /\ Dispatching(todo) \in Job
         /\ Dispatching(todo).pc \in {"idle", "dispatch"}
  BY DEF Dispatching, IdleJob, Job, Pcs

\* What a poll reads are records, and what the sweeps report have keys.
LEMMA FeedTypes ==
  ASSUME Types
  PROVE  /\ Polled \subseteq Records
         /\ Warranted \subseteq Keys
         /\ Affecting \subseteq Keys
<1>1. {ghsa[n] : n \in {m \in DOMAIN ghsa : m <= PageCap}} \subseteq Catalogue
  BY DEF Types, Typed
<1>2. \A L \in SUBSET Catalogue : Parsed(L) \subseteq Parsed(Catalogue)
  BY DEF Parsed
<1>3. Polled \subseteq Records
  BY <1>1, <1>2 DEF Polled, Records
<1>4. Warranted \subseteq Keys
  BY DEF Warranted, Keys, RadarReport
<1>5. Affecting \subseteq Keys
  BY DEF Affecting, AdvisoryReport, Keys, AdvisoryKeys, Types, TypeOK
<1> QED
  BY <1>3, <1>4, <1>5

LEMMA UpsertedType ==
  ASSUME NEW got \in SUBSET Records, ~Clashes(got), Types
  PROVE  \A r, s \in Upserted(got) : r \in Records /\ (AdvisoryKey(r) = AdvisoryKey(s) => r = s)
  BY DEF Upserted, Clashes, Types, TypeOK
-----------------------------------------------------------------------------
(* Type correctness *)

LEMMA InitTypes == Init => Types
<1> SUFFICES ASSUME Init PROVE Types
  OBVIOUS
<1>1. job \in [Jobs -> Job]
  BY DispatchingType DEF Init
<1>2. channel \in [Channels -> {None, Gone} \cup [enabled : BOOLEAN, events : EventSets]]
  <2>1. PICK n \in Channels \cup {0}, events \in [Channels -> EventSets] :
          channel = [c \in Channels |-> IF c > n THEN None
                                        ELSE [enabled |-> TRUE, events |-> events[c]]]
    BY DEF Init
  <2> QED
    BY <2>1
<1>3. today \in 0..LastDay /\ used \in 0..Total
  BY AlertsAssumption DEF Init
<1>4. ghsa \in Seq(Catalogue) /\ ToSet(ghsa) \subseteq Catalogue
  BY DEF Init, ToSet
<1>5. inbox \in [Channels -> [Keys -> Nat]] /\ owed \in [Keys -> SUBSET Channels]
  BY DEF Init
<1> QED
  BY <1>1, <1>2, <1>3, <1>4, <1>5 DEF Init, Types, Typed, TypeOK, Job, Pcs

\* A job's new record is well typed, and the rest goes with it.
LEMMA BecomesType ==
  ASSUME Types, NEW j \in Jobs, NEW rec \in Job, Becomes(j, rec),
         UNCHANGED <<today, enabled, ghsa, relation, channel>>,
         used' \in 0..Total,
         \A r, s \in advisories' : r \in Records /\ (AdvisoryKey(r) = AdvisoryKey(s) => r = s),
         sent' \subseteq Keys,
         inbox' \in [Channels -> [Keys -> Nat]],
         owed' \in [Keys -> SUBSET Channels]
  PROVE  Types'
  BY DEF Types, Typed, TypeOK, Becomes, Job, Pcs

LEMMA HappensType == Types /\ Happens => used' \in 0..Total
  BY AlertsAssumption DEF Types, TypeOK, Happens

\* Days, audits, GHSA, the switch and the channels.
LEMMA WorldTypes ==
  ASSUME Types,
         \/ Tick \/ Switch
         \/ \E f \in Files : Reaudit(f)
         \/ \E a \in Catalogue : Publish(a)
         \/ \E c \in Channels : CreateChannel(c) \/ UpdateChannel(c) \/ DeleteChannel(c)
  PROVE  Types'
<1> USE DEF Types, Typed, TypeOK, Pcs
<1>1. CASE Tick
  BY <1>1, AlertsAssumption DEF Tick, db
<1>2. CASE Switch
  BY <1>2, HappensType DEF Switch, db
<1>3. ASSUME NEW f \in Files, Reaudit(f) PROVE Types'
  BY <1>3, HappensType DEF Reaudit
<1>4. ASSUME NEW a \in Catalogue, Publish(a) PROVE Types'
  <2>1. ghsa' \in Seq(Catalogue)
    <3> DEFINE revised == [n \in DOMAIN ghsa |-> IF ghsa[n].id = a.id THEN a ELSE ghsa[n]]
    <3>1. Len(ghsa) \in Nat /\ DOMAIN ghsa = 1..Len(ghsa) /\ \A n \in DOMAIN ghsa : ghsa[n] \in Catalogue
      OBVIOUS
    <3>2. revised \in [1..Len(ghsa) -> Catalogue]
      BY <3>1
    <3>3. revised \in Seq(Catalogue)
      BY <3>1, <3>2, SeqDef
    <3>4. <<a>> \o ghsa \in Seq(Catalogue)
      OBVIOUS
    <3> QED
      BY <1>4, <3>3, <3>4 DEF Publish
  <2>2. ToSet(ghsa') \subseteq Catalogue
    BY <2>1 DEF ToSet
  <2> QED
    BY <1>4, <2>1, <2>2, HappensType DEF Publish, db
<1>5. ASSUME NEW c \in Channels, CreateChannel(c) \/ UpdateChannel(c) \/ DeleteChannel(c)
      PROVE  Types'
  <2> DEFINE Channel == {None, Gone} \cup [enabled : BOOLEAN, events : EventSets]
  <2>1. Present(c) => channel[c].events \in EventSets
    BY DEF Present
  <2>2. Happens /\ \E rec \in Channel : Changed(c, rec)
    BY <1>5, <2>1 DEF CreateChannel, UpdateChannel, DeleteChannel
  <2>3. PICK rec \in Channel : Changed(c, rec)
    BY <2>2
  <2> QED
    BY <2>2, <2>3, HappensType DEF Changed
<1> QED
  BY <1>1, <1>2, <1>3, <1>4, <1>5

\* The sweeps and audits up to their alerts.
LEMMA SweepTypes ==
  ASSUME Types, RadarSweep \/ AdvisoryStart \/ AdvisoryGoesOn \/ \E j \in Auditors : AuditCommitted(j)
  PROVE  Types'
<1> USE DEF unpolled
<1>1. /\ today \in 0..LastDay /\ used \in 0..Total
      /\ \A r, s \in advisories : r \in Records /\ (AdvisoryKey(r) = AdvisoryKey(s) => r = s)
      /\ sent \subseteq Keys
      /\ inbox \in [Channels -> [Keys -> Nat]] /\ owed \in [Keys -> SUBSET Channels]
      /\ job \in [Jobs -> Job]
  BY DEF Types, Typed, TypeOK
<1>2. "radar" \in Jobs /\ "advisory" \in Jobs /\ Auditors \subseteq Jobs
  BY DEF Jobs
<1>3. ASSUME NEW j \in Jobs, NEW rec \in Job, Becomes(j, rec), UNCHANGED <<advisories, unpolled>>
      PROVE  Types'
  BY <1>1, <1>3, BecomesType
<1>4. CASE RadarSweep
  BY <1>2, <1>3, <1>4, FeedTypes, DispatchingType DEF RadarSweep
<1>5. CASE AdvisoryStart
  <2>1. [IdleJob EXCEPT !.pc = "poll"] \in Job
    BY DEF IdleJob, Job, Pcs
  <2> QED
    BY <1>2, <1>3, <1>5, <2>1 DEF AdvisoryStart
<1>6. CASE PollAnswers
  <2>1. [IdleJob EXCEPT !.pc = IF Polled = {} THEN "scan" ELSE "store", !.got = Polled] \in Job
    BY FeedTypes DEF IdleJob, Job, Pcs
  <2> QED
    BY <1>2, <1>3, <1>6, <2>1 DEF PollAnswers
<1>7. [IdleJob EXCEPT !.pc = "scan"] \in Job /\ [IdleJob EXCEPT !.pc = "aborted"] \in Job
  BY DEF IdleJob, Job, Pcs
<1>8. CASE PollFails
  BY <1>2, <1>3, <1>7, <1>8 DEF PollFails
<1>9. CASE StoreAdvisories
  <2> DEFINE got == job["advisory"].got
  <2>1. got \in SUBSET Records
    BY <1>1, <1>2 DEF Job
  <2>2. CASE Clashes(got)
    BY <1>2, <1>3, <1>7, <1>9, <2>2 DEF StoreAdvisories
  <2>3. CASE ~Clashes(got)
    <3>1. \A r, s \in advisories' : r \in Records /\ (AdvisoryKey(r) = AdvisoryKey(s) => r = s)
      BY <1>9, <2>1, <2>3, UpsertedType DEF StoreAdvisories
    <3>2. Becomes("advisory", [IdleJob EXCEPT !.pc = "scan"]) /\ UNCHANGED unpolled
      BY <1>9, <2>3 DEF StoreAdvisories
    <3> QED
      BY <1>1, <1>2, <1>7, <3>1, <3>2, BecomesType
  <2> QED
    BY <2>2, <2>3
<1>10. CASE ScanRaises
  BY <1>2, <1>3, <1>10, DispatchingType DEF ScanRaises
<1>11. CASE AdvisoryScan
  BY <1>2, <1>3, <1>11, FeedTypes, DispatchingType DEF AdvisoryScan
<1>12. ASSUME NEW j \in Auditors, AuditCommitted(j) PROVE Types'
  <2>1. PICK seen \in SUBSET Findings : Becomes(j, Dispatching({FindingKey(x) : x \in seen}))
    BY <1>12 DEF AuditCommitted
  <2>2. {FindingKey(x) : x \in seen} \in SUBSET Keys
    BY DEF Keys
  <2> QED
    BY <1>2, <1>3, <1>12, <2>1, <2>2, DispatchingType DEF AuditCommitted
<1> QED
  BY <1>4, <1>5, <1>6, <1>8, <1>9, <1>10, <1>11, <1>12 DEF AdvisoryGoesOn

\* dispatch_once, and a crash.
LEMMA DispatchTypes ==
  ASSUME Types, ClaimsStand, NEW j \in Jobs, Dispatch(j) \/ Crash(j)
  PROVE  Types'
<1> USE DEF undispatched
<1>1. /\ today \in 0..LastDay /\ used \in 0..Total
      /\ \A r, s \in advisories : r \in Records /\ (AdvisoryKey(r) = AdvisoryKey(s) => r = s)
      /\ sent \subseteq Keys
      /\ inbox \in [Channels -> [Keys -> Nat]] /\ owed \in [Keys -> SUBSET Channels]
      /\ job \in [Jobs -> Job]
  BY DEF Types, Typed, TypeOK
<1>2. job[j] \in Job /\ job[j].todo \in SUBSET Keys /\ job[j].left \in SUBSET Channels
  BY <1>1 DEF Job
<1>3. \A k \in Keys, channels \in SUBSET Channels : [owed EXCEPT ![k] = channels] \in [Keys -> SUBSET Channels]
  BY <1>1
<1>4. \A event : Subscribed(event) \in SUBSET Channels
  BY DEF Subscribed
<1>5. ASSUME NEW k \in job[j].todo, AlreadySent(j, k) PROVE Types'
  BY <1>1, <1>2, <1>5, BecomesType, DispatchingType DEF AlreadySent
<1>6. ASSUME NEW k \in job[j].todo, Claim(j, k) PROVE Types'
  <2>1. [job[j] EXCEPT !.pc = "claimed", !.key = k, !.todo = @ \ {k}] \in Job
    BY <1>2 DEF Job, Pcs
  <2> QED
    BY <1>1, <1>6, <2>1, BecomesType DEF Claim
<1>7. CASE Commit(j)
  <2>1. job[j].key \in Keys
    BY <1>7 DEF Commit, ClaimsStand
  <2>2. [job[j] EXCEPT !.pc = "read"] \in Job
    BY <1>2 DEF Job, Pcs
  <2>3. owed' \in [Keys -> SUBSET Channels]
    BY <1>3, <1>4, <1>7, <2>1 DEF Commit
  <2> QED
    BY <1>1, <1>7, <2>1, <2>2, <2>3, BecomesType DEF Commit
<1>8. CASE ReadChannels(j)
  <2>1. \A targets \in SUBSET Channels : [job[j] EXCEPT !.pc = "deliver", !.left = targets] \in Job
    BY <1>2 DEF Job, Pcs
  <2>2. \E rec \in Job : Becomes(j, rec)
    BY <1>2, <1>4, <1>8, <2>1, DispatchingType DEF ReadChannels
  <2> QED
    BY <1>1, <1>8, <2>2, BecomesType DEF ReadChannels
<1>9. ASSUME NEW c, Handled(j, c) PROVE \E rec \in Job : Becomes(j, rec)
  <2>1. [job[j] EXCEPT !.left = job[j].left \ {c}] \in Job
    BY <1>2 DEF Job
  <2> QED
    BY <1>2, <1>9, <2>1, DispatchingType DEF Handled
<1>10. ASSUME NEW c, Settled(j, c), job[j].key \in Keys PROVE owed' \in [Keys -> SUBSET Channels]
  BY <1>1, <1>10 DEF Settled
<1>11. CASE Deliver(j)
  <2>1. job[j].key \in Keys
    BY <1>11 DEF Deliver, ClaimsStand
  <2>2. Min(job[j].left) \in Channels
    BY <1>2, <1>11, FirstChannel DEF Deliver, ClaimsStand
  <2>3. inbox' \in [Channels -> [Keys -> Nat]]
    BY <1>1, <1>11, <2>1, <2>2 DEF Deliver
  <2> QED
    BY <1>1, <1>9, <1>10, <1>11, <2>1, <2>3, BecomesType DEF Deliver
<1>12. CASE DeliveryFails(j)
  <2>1. job[j].key \in Keys
    BY <1>12 DEF DeliveryFails, ClaimsStand
  <2> QED
    BY <1>1, <1>9, <1>10, <1>12, <2>1, BecomesType, HappensType DEF DeliveryFails
<1>13. CASE Crash(j)
  <2>1. owed' \in [Keys -> SUBSET Channels]
    BY <1>1, <1>13 DEF Crash
  <2> QED
    BY <1>1, <1>13, <2>1, BecomesType, HappensType, DispatchingType DEF Crash
<1> QED
  BY <1>5, <1>6, <1>7, <1>8, <1>11, <1>12, <1>13 DEF Dispatch
-----------------------------------------------------------------------------
(* The alerts *)

LEMMA InitAlerts == Init => Alerts
<1> SUFFICES ASSUME Init PROVE Alerts
  OBVIOUS
<1>1. \A j \in Jobs : job[j].pc = "idle" /\ job[j].key = None
  BY DEF Init, IdleJob
<1> QED
  BY <1>1 DEF Init, Alerts, ClaimsStand, OneHand, InHand, Unheard, AlertOnce, OwedStands, HeardByAll

Handing == {"claimed", "read", "deliver"}

\* A step of the world at most takes debts away.
LEMMA WorldAlerts ==
  ASSUME IInv,
         \/ Tick \/ Switch
         \/ \E f \in Files : Reaudit(f)
         \/ \E a \in Catalogue : Publish(a)
         \/ \E c \in Channels : CreateChannel(c) \/ UpdateChannel(c) \/ DeleteChannel(c)
  PROVE  Alerts'
<1> USE DEF IInv, Alerts, OwedStands
<1>1. UNCHANGED <<job, sent, inbox>>
  BY DEF Tick, Switch, Reaudit, Publish, CreateChannel, UpdateChannel, DeleteChannel, Changed, db
<1>2. ClaimsStand' /\ OneHand' /\ Unheard' /\ AlertOnce'
  BY <1>1 DEF ClaimsStand, OneHand, InHand, Unheard, AlertOnce
<1>3. (\A k \in Keys : owed'[k] \subseteq owed[k]) => HeardByAll'
  BY <1>1 DEF HeardByAll
<1>4. ASSUME UNCHANGED <<enabled, channel, owed>> PROVE Alerts'
  <2>1. OwedStands'
    BY <1>4 DEF Subscribed, Present
  <2> QED
    BY <1>2, <1>3, <1>4, <2>1
<1>5. CASE Switch
  BY <1>2, <1>3, <1>5 DEF Switch
<1>6. ASSUME NEW c \in Channels, NEW rec, Changed(c, rec) PROVE Alerts'
  <2>1. \A k \in Keys : owed'[k] = owed[k] \ {c}
    BY <1>6 DEF Changed
  <2>2. \A d \in Channels \ {c} : channel'[d] = channel[d]
    BY <1>6 DEF Changed, Types, Typed
  <2>3. OwedStands'
    BY <1>6, <2>1, <2>2 DEF Subscribed, Present, Changed
  <2> QED
    BY <1>2, <1>3, <2>1, <2>3
<1>7. ASSUME NEW c \in Channels, CreateChannel(c) \/ UpdateChannel(c) \/ DeleteChannel(c)
      PROVE  Alerts'
  BY <1>6, <1>7 DEF CreateChannel, UpdateChannel, DeleteChannel
<1> QED
  BY <1>4, <1>5, <1>7 DEF Tick, Reaudit, Publish, db

\* A job that has no key in hand before and after its step.
LEMMA EmptyHandAlerts ==
  ASSUME IInv, NEW j \in Jobs, NEW rec, Becomes(j, rec),
         job[j].pc \notin Handing, rec.pc \notin Handing,
         UNCHANGED <<enabled, channel, sent, inbox, owed>>
  PROVE  Alerts'
<1> USE DEF IInv, Alerts
<1>1. \A i \in Jobs : job'[i] = IF i = j THEN rec ELSE job[i]
  BY DEF Becomes, Types, Typed
<1>2. \A i \in Jobs, k \in Keys : InHand(i, k)' => InHand(i, k) /\ job'[i] = job[i]
  BY <1>1 DEF InHand, Handing
<1>3. ClaimsStand'
  BY <1>1 DEF ClaimsStand, Handing
<1>4. OneHand'
  BY <1>2 DEF OneHand
<1>5. Unheard' /\ AlertOnce'
  BY <1>2 DEF Unheard, AlertOnce
<1>6. OwedStands'
  BY DEF OwedStands, Subscribed, Present
<1>7. HeardByAll'
  BY <1>1 DEF HeardByAll, Handing
<1> QED
  BY <1>3, <1>4, <1>5, <1>6, <1>7

LEMMA SweepAlerts ==
  ASSUME IInv, RadarSweep \/ AdvisoryStart \/ AdvisoryGoesOn \/ \E j \in Auditors : AuditCommitted(j)
  PROVE  Alerts'
<1>1. \E j \in Jobs : /\ job[j].pc \notin Handing
                     /\ \E rec : Becomes(j, rec) /\ rec.pc \notin Handing
  <2>1. \A todo : Dispatching(todo).pc \notin Handing
    BY DEF Dispatching, IdleJob, Handing
  <2>2. /\ [IdleJob EXCEPT !.pc = "poll"].pc \notin Handing
        /\ [IdleJob EXCEPT !.pc = "scan"].pc \notin Handing
        /\ [IdleJob EXCEPT !.pc = "aborted"].pc \notin Handing
    BY DEF IdleJob, Handing
  <2>3. [IdleJob EXCEPT !.pc = IF Polled = {} THEN "scan" ELSE "store", !.got = Polled].pc \notin Handing
    BY DEF IdleJob, Handing
  <2>4. CASE RadarSweep
    BY <2>1, <2>4 DEF RadarSweep, Starts, Jobs, Handing
  <2>5. CASE AdvisoryStart
    <3>1. "advisory" \in Jobs /\ job["advisory"].pc \notin Handing
      BY <2>5 DEF AdvisoryStart, Starts, Jobs, Handing
    <3> QED
      BY <2>2, <2>5, <3>1 DEF AdvisoryStart
  <2>6. CASE AdvisoryGoesOn
    <3>1. job["advisory"].pc \notin Handing /\ "advisory" \in Jobs
      BY <2>6 DEF AdvisoryGoesOn, PollAnswers, PollFails, StoreAdvisories, ScanRaises, AdvisoryScan,
                  Handing, Jobs
    <3>2. \E rec : Becomes("advisory", rec) /\ rec.pc \notin Handing
      <4>1. CASE PollAnswers
        BY <2>3, <4>1 DEF PollAnswers
      <4>2. CASE PollFails \/ StoreAdvisories
        BY <2>2, <4>2 DEF PollFails, StoreAdvisories
      <4>3. CASE ScanRaises \/ AdvisoryScan
        BY <2>1, <4>3 DEF ScanRaises, AdvisoryScan, IdleJob, Handing
      <4> QED
        BY <2>6, <4>1, <4>2, <4>3 DEF AdvisoryGoesOn
    <3> QED
      BY <3>1, <3>2
  <2>7. ASSUME NEW j \in Auditors, AuditCommitted(j)
        PROVE  job[j].pc \notin Handing /\ \E rec : Becomes(j, rec) /\ rec.pc \notin Handing
    BY <2>1, <2>7 DEF AuditCommitted, Starts, Handing
  <2> QED
    BY <2>4, <2>5, <2>6, <2>7 DEF Jobs
<1>2. UNCHANGED <<enabled, channel, sent, inbox, owed>>
  BY DEF RadarSweep, AdvisoryStart, AdvisoryGoesOn, PollAnswers, PollFails, StoreAdvisories, ScanRaises,
         AdvisoryScan, AuditCommitted, unpolled
<1> QED
  BY <1>1, <1>2, EmptyHandAlerts

LEMMA ClaimAlerts ==
  ASSUME IInv, NEW j \in Jobs, NEW k \in job[j].todo, Claim(j, k)
  PROVE  Alerts'
<1> USE DEF IInv, Alerts
<1>1. /\ k \in Keys /\ k \notin sent /\ job[j].pc = "dispatch"
      /\ \A i \in Jobs : ~(job[i].pc = "claimed" /\ job[i].key = k)
      /\ UNCHANGED <<enabled, channel, sent, inbox, owed>>
  BY DEF Claim, Free, undispatched, Types, Typed, Job
<1>2. job'[j].pc = "claimed" /\ job'[j].key = k /\ \A i \in Jobs \ {j} : job'[i] = job[i]
  BY DEF Claim, Becomes, Types, Typed, Job
<1>3. \A i \in Jobs \ {j} : ~InHand(i, k)
  BY <1>1 DEF InHand, ClaimsStand
<1>4. \A i \in Jobs, l \in Keys : InHand(i, l)' => (i = j /\ l = k) \/ (i # j /\ l # k /\ InHand(i, l))
  BY <1>1, <1>2, <1>3 DEF InHand
<1>5. ClaimsStand'
  BY <1>1, <1>2 DEF ClaimsStand
<1>6. OneHand'
  BY <1>4 DEF OneHand
<1>7. Unheard' /\ AlertOnce'
  BY <1>1, <1>2, <1>4 DEF Unheard, AlertOnce
<1>8. OwedStands'
  BY <1>1 DEF OwedStands, Subscribed, Present
<1>9. HeardByAll'
  BY <1>1, <1>2 DEF HeardByAll
<1> QED
  BY <1>5, <1>6, <1>7, <1>8, <1>9

LEMMA CommitAlerts ==
  ASSUME IInv, NEW j \in Jobs, Commit(j)
  PROVE  Alerts'
<1> USE DEF IInv, Alerts
<1> DEFINE k == job[j].key
<1>1. /\ k \in Keys /\ job[j].pc = "claimed" /\ sent' = sent \cup {k}
      /\ UNCHANGED <<enabled, channel, inbox>>
  BY DEF Commit, undispatched, ClaimsStand
<1>2. job'[j].pc = "read" /\ job'[j].key = k /\ \A i \in Jobs \ {j} : job'[i] = job[i]
  BY DEF Commit, Becomes, Types, Typed, Job
<1>3. \A i \in Jobs \ {j} : ~InHand(i, k)
  BY <1>1 DEF InHand, OneHand
<1>4. \A i \in Jobs, l \in Keys : InHand(i, l)' => (i = j /\ l = k) \/ (i # j /\ l # k /\ InHand(i, l))
  BY <1>1, <1>2, <1>3 DEF InHand
<1>5. ClaimsStand'
  BY <1>1, <1>2, <1>3 DEF ClaimsStand, InHand
<1>6. OneHand'
  BY <1>4 DEF OneHand
<1>7. Unheard' /\ AlertOnce'
  <2>1. \A c \in Channels : inbox[c][k] = 0
    BY <1>1 DEF Unheard, ClaimsStand
  <2> QED
    BY <1>1, <1>2, <1>4, <2>1 DEF Unheard, AlertOnce
<1>8. /\ owed'[k] = (IF enabled THEN Subscribed(EventOf(k)) ELSE {})
      /\ \A l \in Keys \ {k} : owed'[l] = owed[l]
  BY <1>1 DEF Commit, Types, TypeOK
<1>9. OwedStands'
  BY <1>1, <1>8 DEF OwedStands, Subscribed, Present
<1>10. HeardByAll'
  BY <1>1, <1>2, <1>8 DEF HeardByAll
<1> QED
  BY <1>5, <1>6, <1>7, <1>9, <1>10

\* The channels that are read are those the alert is owed to, or more.
LEMMA ReadChannelsAlerts ==
  ASSUME IInv, NEW j \in Jobs, ReadChannels(j)
  PROVE  Alerts'
<1> USE DEF IInv, Alerts
<1> DEFINE k == job[j].key
           targets == IF enabled THEN Subscribed(EventOf(k)) ELSE {}
<1>1. /\ k \in Keys /\ job[j].pc = "read" /\ k \in sent
      /\ UNCHANGED <<enabled, channel, sent, inbox, owed>>
  BY DEF ReadChannels, undispatched, ClaimsStand
<1>2. /\ \A i \in Jobs \ {j} : job'[i] = job[i]
      /\ \/ targets = {} /\ job'[j].pc \notin Handing
         \/ targets # {} /\ job'[j].pc = "deliver" /\ job'[j].key = k /\ job'[j].left = targets
  <2>1. job[j] \in Job /\ Dispatching(job[j].todo).pc \notin Handing
    BY DispatchingType DEF Types, Typed, Job, Handing
  <2> QED
    BY <2>1 DEF ReadChannels, Becomes, Types, Typed, Job
<1>3. owed[k] \subseteq targets
  BY <1>1 DEF OwedStands
<1>4. \A i \in Jobs, l \in Keys : InHand(i, l)' => InHand(i, l)
  BY <1>1, <1>2 DEF InHand, Handing
<1>5. ClaimsStand'
  BY <1>1, <1>2 DEF ClaimsStand, Handing
<1>6. OneHand'
  BY <1>4 DEF OneHand
<1>7. Unheard' /\ AlertOnce'
  <2>1. \A i \in Jobs \ {j}, l \in Keys : InHand(i, l)' <=> InHand(i, l)
    BY <1>2 DEF InHand
  <2>2. \A c \in Channels : inbox[c][k] = 0
    BY <1>1 DEF Unheard, InHand
  <2>3. \A l \in Keys : InHand(j, l)' => l = k
    BY <1>2 DEF InHand, Handing
  <2> QED
    BY <1>1, <1>2, <2>1, <2>2, <2>3 DEF Unheard, AlertOnce
<1>8. OwedStands'
  BY <1>1 DEF OwedStands, Subscribed, Present
<1>9. HeardByAll'
  BY <1>1, <1>2, <1>3 DEF HeardByAll
<1> QED
  BY <1>5, <1>6, <1>7, <1>8, <1>9

\* Channel c of the alert in hand is dealt with: it has at most one more
\* message, and the job goes on with the other channels or without the key.
LEMMA HandledAlerts ==
  ASSUME IInv, NEW j \in Jobs, job[j].pc = "deliver", NEW c \in job[j].left,
         Handled(j, c), Settled(j, c), UNCHANGED <<undispatched, sent>>,
         \A d \in Channels, l \in Keys :
           inbox'[d][l] = inbox[d][l] \/ (d = c /\ l = job[j].key /\ inbox'[d][l] = inbox[d][l] + 1)
  PROVE  Alerts'
<1> USE DEF IInv, Alerts, undispatched
<1> DEFINE k == job[j].key
<1>1. k \in Keys /\ k \in sent /\ c \in Channels
  BY DEF ClaimsStand, Types, TypeOK
<1>2. /\ \A i \in Jobs \ {j} : job'[i] = job[i]
      /\ \/ job[j].left \ {c} = {} /\ job'[j].pc \notin Handing
         \/ /\ job[j].left \ {c} # {} /\ job'[j].pc = "deliver" /\ job'[j].key = k
            /\ job'[j].left = job[j].left \ {c}
  <2>1. job[j] \in Job /\ Dispatching(job[j].todo).pc \notin Handing
    BY DispatchingType DEF Types, Typed, Job, Handing
  <2> QED
    BY <2>1 DEF Handled, Becomes, Types, Typed, Job
<1>3. owed'[k] = owed[k] \ {c} /\ \A l \in Keys \ {k} : owed'[l] = owed[l]
  BY <1>1 DEF Settled, Types, TypeOK
<1>4. \A i \in Jobs \ {j} : ~InHand(i, k)
  BY <1>1 DEF InHand, OneHand
<1>5. \A i \in Jobs, l \in Keys : InHand(i, l)' => InHand(i, l)
  BY <1>1, <1>2 DEF InHand, Handing
<1>6. ClaimsStand'
  BY <1>1, <1>2 DEF ClaimsStand, Handing
<1>7. OneHand'
  BY <1>5 DEF OneHand
<1>8. inbox[c][k] = 0
  BY <1>1 DEF Unheard, InHand
<1>9. AlertOnce'
  BY <1>1, <1>8 DEF AlertOnce
<1>10. Unheard'
  <2>1. ASSUME NEW d \in Channels, NEW l \in Keys, l \notin sent' PROVE inbox'[d][l] = 0
    BY <1>1, <2>1 DEF Unheard
  <2>2. ASSUME NEW d \in Channels, NEW l \in Keys, NEW i \in Jobs, InHand(i, l)',
               job'[i].pc = "deliver" => d \in job'[i].left
        PROVE  inbox'[d][l] = 0
    <3>1. CASE i = j
      <4>1. l = k /\ d # c /\ d \in job[j].left
        BY <1>2, <2>2, <3>1 DEF InHand, Handing
      <4> QED
        BY <1>1, <4>1 DEF Unheard, InHand
    <3>2. CASE i # j
      <4>1. InHand(i, l) /\ job'[i] = job[i] /\ l # k
        BY <1>2, <1>4, <1>5, <2>2, <3>2
      <4> QED
        BY <2>2, <4>1 DEF Unheard
    <3> QED
      BY <3>1, <3>2
  <2> QED
    BY <2>1, <2>2 DEF Unheard
<1>11. OwedStands'
  BY <1>3 DEF OwedStands, Subscribed, Present
<1>12. HeardByAll'
  BY <1>1, <1>2, <1>3, <1>4 DEF HeardByAll, InHand
<1> QED
  BY <1>6, <1>7, <1>9, <1>10, <1>11, <1>12

LEMMA DeliverAlerts ==
  ASSUME IInv, NEW j \in Jobs, Deliver(j) \/ DeliveryFails(j)
  PROVE  Alerts'
<1> DEFINE c == Min(job[j].left)
           k == job[j].key
<1>1. job[j].pc = "deliver" /\ k \in Keys
  BY DEF Deliver, DeliveryFails, IInv, Alerts, ClaimsStand
<1>2. c \in job[j].left /\ c \in Channels
  <2>1. job[j].left \in SUBSET Channels /\ job[j].left # {}
    BY <1>1 DEF IInv, Alerts, ClaimsStand, Types, TypeOK
  <2> QED
    BY <2>1, FirstChannel
<1>3. Handled(j, c) /\ Settled(j, c) /\ UNCHANGED <<undispatched, sent>>
  BY DEF Deliver, DeliveryFails
<1>4. \A d \in Channels, l \in Keys :
        inbox'[d][l] = inbox[d][l] \/ (d = c /\ l = k /\ inbox'[d][l] = inbox[d][l] + 1)
  BY <1>1, <1>2 DEF Deliver, DeliveryFails, IInv, Types, TypeOK
<1> QED
  BY <1>1, <1>2, <1>3, <1>4, HandledAlerts

LEMMA CrashAlerts ==
  ASSUME IInv, NEW j \in Jobs, Crash(j)
  PROVE  Alerts'
<1> USE DEF IInv, Alerts
<1>1. job'[j] = IdleJob /\ job'[j].pc = "idle" /\ \A i \in Jobs \ {j} : job'[i] = job[i]
  BY DEF Crash, Becomes, IdleJob, Types, Typed
<1>2. UNCHANGED <<enabled, channel, sent, inbox>>
  BY DEF Crash, undispatched
<1>3. \A i \in Jobs, k \in Keys : InHand(i, k)' => InHand(i, k) /\ job'[i] = job[i]
  BY <1>1 DEF InHand
<1>4. ClaimsStand'
  BY <1>1, <1>2 DEF ClaimsStand
<1>5. OneHand' /\ Unheard' /\ AlertOnce'
  BY <1>2, <1>3 DEF OneHand, Unheard, AlertOnce
<1>6. \A k \in Keys : owed'[k] \subseteq owed[k]
  BY DEF Crash, Types, TypeOK
<1>7. OwedStands'
  BY <1>2, <1>6 DEF OwedStands, Subscribed, Present
<1>8. HeardByAll'
  <2>1. ASSUME NEW k \in Keys, NEW c \in owed'[k]
        PROVE  \E i \in Jobs \ {j} : /\ job[i].key = k
                                     /\ job[i].pc = "read" \/ (job[i].pc = "deliver" /\ c \in job[i].left)
    <3>1. PICK i \in Jobs : /\ job[i].key = k
                            /\ job[i].pc = "read" \/ (job[i].pc = "deliver" /\ c \in job[i].left)
      BY <1>6 DEF HeardByAll
    <3>2. i # j
      BY <2>1, <3>1 DEF Crash, Types, TypeOK
    <3> QED
      BY <3>1, <3>2
  <2> QED
    BY <1>1, <2>1 DEF HeardByAll
<1> QED
  BY <1>4, <1>5, <1>7, <1>8
-----------------------------------------------------------------------------
(* The theorems *)

LEMMA InitInv == Init => IInv
  BY InitTypes, InitAlerts DEF IInv

LEMMA NextInv == IInv /\ [Next]_vars => IInv'
<1> SUFFICES ASSUME IInv, [Next]_vars PROVE IInv'
  OBVIOUS
<1>1. CASE \/ Tick \/ Switch
           \/ \E f \in Files : Reaudit(f)
           \/ \E a \in Catalogue : Publish(a)
           \/ \E c \in Channels : CreateChannel(c) \/ UpdateChannel(c) \/ DeleteChannel(c)
  BY <1>1, WorldTypes, WorldAlerts DEF IInv
<1>2. CASE RadarSweep \/ AdvisoryStart \/ AdvisoryGoesOn \/ \E j \in Auditors : AuditCommitted(j)
  BY <1>2, SweepTypes, SweepAlerts DEF IInv
<1>3. ASSUME NEW j \in Jobs, Dispatch(j) \/ Crash(j) PROVE IInv'
  <2>1. Types'
    BY <1>3, DispatchTypes DEF IInv, Alerts
  <2>2. ASSUME NEW k \in job[j].todo, AlreadySent(j, k) PROVE Alerts'
    <3>1. job[j].pc = "dispatch" /\ UNCHANGED <<enabled, channel, sent, inbox, owed>>
      BY <2>2 DEF AlreadySent, undispatched
    <3>2. Dispatching(job[j].todo \ {k}).pc \notin Handing
      BY DEF Dispatching, IdleJob, Handing
    <3> QED
      BY <2>2, <3>1, <3>2, EmptyHandAlerts DEF AlreadySent, Handing
  <2>3. Alerts'
    BY <1>3, <2>2, ClaimAlerts, CommitAlerts, ReadChannelsAlerts, DeliverAlerts, CrashAlerts DEF Dispatch
  <2> QED
    BY <2>1, <2>3 DEF IInv
<1>4. CASE UNCHANGED vars
  <2>1. Types'
    BY <1>4 DEF vars, db, IInv, Types, Typed, TypeOK
  <2>2. Alerts'
    BY <1>4 DEF vars, db, IInv, Alerts, ClaimsStand, OneHand, InHand, Unheard, AlertOnce, OwedStands,
                HeardByAll, Subscribed, Present
  <2> QED
    BY <2>1, <2>2 DEF IInv
<1> QED
  BY <1>1, <1>2, <1>3, <1>4 DEF Next

LEMMA Invariance == Spec => []IInv
  BY InitInv, NextInv, PTL DEF Spec

\* The alerts' state is well typed; above all, the advisories stored have one
\* row per advisory and package, whatever GHSA lists and revises
\* (upsert_advisories, mark_notified).
THEOREM AlertsTypeCorrect == Spec => []TypeOK
<1>1. IInv => TypeOK
  BY DEF IInv, Types
<1> QED
  BY <1>1, Invariance, PTL

\* No channel hears of an alert twice, however sweeps, audits and crashes
\* interleave: the ledger's key decides who delivers (dispatch_once).
THEOREM AlertOnceThm == Spec => []AlertOnce
<1>1. IInv => AlertOnce
  BY DEF IInv, Alerts
<1> QED
  BY <1>1, Invariance, PTL

\* A channel that was due an alert when it was claimed has it, or a dispatch
\* still under way has it left, whatever happens to other channels (dispatch).
THEOREM HeardByAllThm == Spec => []HeardByAll
<1>1. IInv => HeardByAll
  BY DEF IInv, Alerts
<1> QED
  BY <1>1, Invariance, PTL
==============================================================================
