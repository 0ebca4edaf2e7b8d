------------------------------ MODULE EventHub ------------------------------
(***************************************************************************)
(* Live updates (events/bus.py, GET /events/stream of api/app.py, and the  *)
(* dashboards that listen).                                                *)
(*                                                                         *)
(* One process-wide reader holds one Redis subscription and copies every   *)
(* envelope into a queue per connected stream.  An asyncio lock guards the *)
(* set of queues: the first stream to come starts the reader, the last one *)
(* to go stops it, and both wait for Redis with the lock in hand.  The     *)
(* start only sends SUBSCRIBE: Redis may process it when streams are on.   *)
(* A stream may be cancelled at any of its awaits, and Redis may fail at   *)
(* any call.  The worker publishes an envelope before it commits the row   *)
(* that it is about; a dashboard answers an envelope by reading.           *)
(***************************************************************************)
EXTENDS Integers, Sequences, FiniteSets, SequencesExt

CONSTANTS
  Streams,     \* requests for the stream, each used once
  Cap,         \* sse_max_subscribers
  QueueSize,
  Events,      \* bound: how many rows the worker writes
  None,
  Limit        \* bound: how many things go wrong

\* Redis fails, or a stream is cancelled inside a start or a cleanup; a
\* dashboard reads between an envelope and its commit.
Kinds == {"fault", "overtake"}

ASSUME HubAssumption ==
  /\ IsFiniteSet(Streams) /\ None \notin Streams
  /\ Cap \in Nat \ {0} /\ QueueSize \in Nat \ {0} /\ Events \in Nat
  /\ Limit \in Nat

VARIABLES
  phase,       \* where each stream is in subscribe()
  lock,        \* asyncio.Lock: the streams that want it, its holder first
  subscribers, \* streams whose queue is in _subscribers
  queue,       \* the queues
  current,     \* the stream that opened _conn and _pubsub, or None
  open,        \* the connections that are open, named by who opened them
  readers,     \* connections whose _read_loop runs
  subscribed,  \* connections whose SUBSCRIBE Redis has processed
  wire,        \* envelopes that a subscribed connection has not read yet
  published, committed,
  got,         \* envelopes sent to each browser
  touched,     \* dashboards with a refetch ahead
  view,        \* the newest row each dashboard shows
  used,
  waited,      \* history: streams that had to wait for the lock before they joined,
  since,       \*          what had been published when a stream was on and Redis served it,
  missed       \*          streams that lost an envelope or read too early

hub  == <<lock, subscribers, current, open, readers, subscribed>>
rows == <<published, committed>>
page == <<got, touched, view, since, missed>>
vars == <<phase, hub, queue, wire, rows, page, used, waited>>

\* An envelope says which row it is about.
Envelopes == 1..Events

Phases == {"new", "joining", "starting", "on", "leaving", "stopping", "closed"}

TypeOK ==
  /\ phase \in [Streams -> Phases]
  /\ lock \in Seq(Streams)
  /\ subscribers \subseteq Streams
  /\ queue \in [Streams -> Seq(Envelopes)] /\ \A c \in Streams : Len(queue[c]) <= QueueSize
  /\ current \in Streams \cup {None}
  /\ open \subseteq Streams /\ readers \subseteq Streams /\ subscribed \subseteq Streams
  /\ wire \in [Streams -> Seq(Envelopes)] /\ got \in [Streams -> Seq(Envelopes)]
  /\ published \in 0..Events /\ committed \in 0..published
  /\ touched \subseteq Streams /\ waited \subseteq Streams /\ missed \subseteq Streams
  /\ view \in [Streams -> 0..Events] /\ since \in [Streams -> 0..Events]
  /\ used \in [Kinds -> 0..Limit]

Init ==
  /\ phase = [c \in Streams |-> "new"]
  /\ lock = <<>> /\ subscribers = {} /\ current = None /\ open = {} /\ readers = {}
  /\ subscribed = {}
  /\ queue = [c \in Streams |-> <<>>] /\ wire = [c \in Streams |-> <<>>]
  /\ published = 0 /\ committed = 0
  /\ got = [c \in Streams |-> <<>>] /\ touched = {} /\ view = [c \in Streams |-> 0]
  /\ used = [k \in Kinds |-> 0]
  /\ waited = {} /\ since = [c \in Streams |-> 0] /\ missed = {}

Happens(k) ==
  /\ used["fault"] + used["overtake"] < Limit
  /\ used' = [used EXCEPT ![k] = @ + 1]

Goes(c, p) == phase' = [phase EXCEPT ![c] = p]

Holds(c) == lock # <<>> /\ Head(lock) = c

\* A stream that wants the free lock has it at once; the others wait in line.
Acquires(c) == lock' = Append(lock, c)
Releases(c) == lock' = RemoveFirst(lock, c)
-----------------------------------------------------------------------------
(* subscribe() *)

Full == Cardinality(subscribers) >= Cap

\* Redis delivers to the connection that the reader reads.
Live == current \in subscribed

\* The queue is in; from here on what the connection receives reaches it.
On(c) ==
  /\ Goes(c, "on") /\ Releases(c)
  /\ since' = IF Live THEN [since EXCEPT ![c] = published] ELSE since
  /\ UNCHANGED <<got, touched, view, missed>>

\* The body of the first locked block: the stream that finds no other one
\* opens the connection, and waits for Redis with the lock in hand.
Join_LockAfterStart(c) ==
  /\ subscribers' = subscribers \cup {c}
  /\ IF subscribers = {}
     THEN /\ Goes(c, "starting")
          /\ current' = c /\ open' = open \cup {c}
          /\ Releases(c)
          /\ UNCHANGED page
     ELSE On(c) /\ UNCHANGED <<current, open>>

Join(c) ==
  /\ subscribers' = subscribers \cup {c}
  /\ IF subscribers = {}
     THEN /\ Goes(c, "starting")
          /\ current' = c /\ open' = open \cup {c}
          /\ lock' = IF Holds(c) THEN lock ELSE Append(lock, c)
          /\ UNCHANGED page
     ELSE On(c) /\ UNCHANGED <<current, open>>

\* The cap is looked at before the lock is asked for: a refusal.
Refuse(c) ==
  /\ phase[c] = "new" /\ Full
  /\ Goes(c, "closed")
  /\ UNCHANGED <<hub, queue, wire, rows, page, used, waited>>

Subscribe(c) ==
  /\ phase[c] = "new" /\ ~Full /\ lock = <<>>
  /\ Join(c)
  /\ UNCHANGED <<queue, readers, subscribed, wire, rows, used, waited>>

Wait_AddsFirst(c) ==
  /\ phase[c] = "new" /\ ~Full /\ lock # <<>>
  /\ Goes(c, "joining") /\ Acquires(c)
  /\ subscribers' = subscribers \cup {c}
  /\ waited' = waited \cup {c}
  /\ UNCHANGED <<current, open, readers, subscribed, queue, wire, rows, page, used>>

Wait(c) ==
  /\ phase[c] = "new" /\ ~Full /\ lock # <<>>
  /\ Goes(c, "joining") /\ Acquires(c)
  /\ waited' = waited \cup {c}
  /\ UNCHANGED <<subscribers, current, open, readers, subscribed, queue, wire, rows, page, used>>

Enter(c) ==
  /\ phase[c] = "joining" /\ Holds(c)
  /\ Join(c)
  /\ UNCHANGED <<queue, readers, subscribed, wire, rows, used, waited>>

\* The client goes while its stream waits for the lock: nothing was added yet.
GiveUp(c) ==
  /\ phase[c] = "joining"
  /\ Goes(c, "closed") /\ Releases(c) /\ waited' = waited \ {c}
  /\ UNCHANGED <<subscribers, current, open, readers, subscribed, queue, wire, rows, page, used>>

\* _start returns: SUBSCRIBE is sent and the reader task exists.
Started(c) ==
  /\ phase[c] = "starting"
  /\ readers' = readers \cup {c}
  /\ On(c)
  /\ UNCHANGED <<subscribers, current, open, subscribed, queue, wire, rows, used, waited>>

\* _start is outside the try: Redis refuses, or the client goes meanwhile, and
\* the queue stays in the set.
StartFails(c) ==
  /\ phase[c] = "starting"
  /\ Happens("fault")
  /\ Goes(c, "closed") /\ Releases(c)
  /\ UNCHANGED <<subscribers, current, open, readers, subscribed, queue, wire, rows, page, waited>>
\* Redis processes the SUBSCRIBE that a start has sent, before or after the
\* start returns: nothing in the process waits for the confirmation.
Confirmed(r) ==
  /\ r \notin subscribed /\ (phase[r] = "starting" \/ r \in readers)
  /\ subscribed' = subscribed \cup {r}
  /\ since' = [c \in Streams |-> IF phase[c] = "on" THEN published ELSE since[c]]
  /\ UNCHANGED <<phase, lock, subscribers, current, open, readers, queue, wire, rows,
                 got, touched, view, missed, used, waited>>
-----------------------------------------------------------------------------
(* The finally of subscribe() *)

\* The browser is gone, and what it showed.
Forgets(c) ==
  /\ got' = [got EXCEPT ![c] = <<>>] /\ view' = [view EXCEPT ![c] = 0]
  /\ since' = [since EXCEPT ![c] = 0]
  /\ touched' = touched \ {c} /\ missed' = missed \ {c}

\* The last one cancels the reader and waits for Redis with the lock in hand.
Drop(c) ==
  /\ subscribers' = subscribers \ {c} /\ waited' = waited \ {c}
  /\ queue' = [queue EXCEPT ![c] = <<>>]
  /\ IF subscribers' = {}
     THEN /\ Goes(c, "stopping")
          /\ lock' = IF Holds(c) THEN lock ELSE Append(lock, c)
          /\ readers' = readers \ {current} /\ subscribed' = subscribed \ {current}
          /\ wire' = [wire EXCEPT ![current] = <<>>]
     ELSE Goes(c, "closed") /\ Releases(c) /\ UNCHANGED <<readers, subscribed, wire>>

\* The client goes; its stream is closed or cancelled.
Leave(c) ==
  /\ phase[c] = "on" /\ lock = <<>>
  /\ Drop(c) /\ Forgets(c)
  /\ UNCHANGED <<current, open, rows, used>>

WaitToLeave(c) ==
  /\ phase[c] = "on" /\ lock # <<>>
  /\ Goes(c, "leaving") /\ Acquires(c) /\ Forgets(c)
  /\ UNCHANGED <<subscribers, current, open, readers, subscribed, queue, wire, rows, used, waited>>

EnterToLeave(c) ==
  /\ phase[c] = "leaving" /\ Holds(c)
  /\ Drop(c)
  /\ UNCHANGED <<current, open, rows, page, used>>

\* A cancelled scope cancels every await of the cleanup, this one too: the
\* queue stays.
LeaveCut(c) ==
  /\ phase[c] = "leaving"
  /\ Happens("fault")
  /\ Goes(c, "closed") /\ Releases(c)
  /\ UNCHANGED <<subscribers, current, open, readers, subscribed, queue, wire, rows, page, waited>>

Stopped(c) ==
  /\ phase[c] = "stopping"
  /\ open' = open \ {current} /\ current' = None
  /\ Goes(c, "closed") /\ Releases(c)
  /\ UNCHANGED <<subscribers, readers, subscribed, queue, wire, rows, page, used, waited>>

\* unsubscribe() or aclose() fails or is cancelled: nobody closes the
\* connection any more.
StopFails(c) ==
  /\ phase[c] = "stopping"
  /\ Happens("fault")
  /\ Goes(c, "closed") /\ Releases(c)
  /\ UNCHANGED <<subscribers, current, open, readers, subscribed, queue, wire, rows, page, waited>>
-----------------------------------------------------------------------------
(* The worker, Redis and the reader *)

\* publish() comes before the commit; one event at a time here.
Publish ==
  /\ published = committed /\ published < Events
  /\ published' = published + 1
  /\ wire' = [c \in Streams |-> IF c \in subscribed THEN Append(wire[c], published + 1)
                                ELSE wire[c]]
  /\ UNCHANGED <<phase, hub, queue, committed, page, used, waited>>

Commit ==
  /\ committed < published
  /\ committed' = published
  /\ UNCHANGED <<phase, hub, queue, wire, published, page, used, waited>>

\* One message of _read_loop: a full queue loses it, the others do not.
FanOut_StopsAtFull(n) ==
  /\ queue' = [c \in Streams |->
       IF c \in subscribers /\ \A d \in subscribers : Len(queue[d]) < QueueSize
       THEN Append(queue[c], n) ELSE queue[c]]
  /\ missed' = missed \cup {c \in subscribers : phase[c] = "on" /\ Len(queue[c]) >= QueueSize}

FanOut(n) ==
  /\ queue' = [c \in Streams |->
       IF c \in subscribers /\ Len(queue[c]) < QueueSize
       THEN Append(queue[c], n) ELSE queue[c]]
  /\ missed' = missed \cup {c \in subscribers : phase[c] = "on" /\ Len(queue[c]) >= QueueSize}

Read(r) ==
  /\ r \in readers /\ wire[r] # <<>>
  /\ FanOut(Head(wire[r]))
  /\ wire' = [wire EXCEPT ![r] = Tail(@)]
  /\ UNCHANGED <<phase, hub, rows, got, touched, view, since, used, waited>>

\* A Redis error ends the loop with a warning.
ReaderDies(r) ==
  /\ r \in readers
  /\ Happens("fault")
  /\ readers' = readers \ {r} /\ wire' = [wire EXCEPT ![r] = <<>>]
  /\ UNCHANGED <<phase, lock, subscribers, current, open, subscribed, queue, rows, page, waited>>
-----------------------------------------------------------------------------
(* The endpoint and the dashboard *)

\* Mutant: the queue is read with a timeout, which may take an envelope with it.
Receive_LosesOnTimeout(c) ==
  /\ phase[c] = "on" /\ queue[c] # <<>>
  /\ queue' = [queue EXCEPT ![c] = Tail(@)]
  /\ \/ got' = got /\ touched' = touched
     \/ got' = [got EXCEPT ![c] = Append(@, Head(queue[c]))] /\ touched' = touched \cup {c}
  /\ UNCHANGED <<phase, hub, wire, rows, view, since, missed, used, waited>>

Receive_TimerNeverReset(c) ==
  /\ phase[c] = "on" /\ queue[c] # <<>>
  /\ queue' = [queue EXCEPT ![c] = Tail(@)]
  /\ got' = [got EXCEPT ![c] = Append(@, Head(queue[c]))]
  /\ touched' = IF got[c] = <<>> THEN touched \cup {c} ELSE touched
  /\ UNCHANGED <<phase, hub, wire, rows, view, since, missed, used, waited>>

\* The generator sends an envelope; the dashboard notes that it has to read.
Receive(c) ==
  /\ phase[c] = "on" /\ queue[c] # <<>>
  /\ queue' = [queue EXCEPT ![c] = Tail(@)]
  /\ got' = [got EXCEPT ![c] = Append(@, Head(queue[c]))]
  /\ touched' = touched \cup {c}
  /\ UNCHANGED <<phase, hub, wire, rows, view, since, missed, used, waited>>

\* The flush reads what is committed by then.
Refetch(c) ==
  /\ c \in touched
  /\ IF committed < published
     THEN Happens("overtake") /\ missed' = missed \cup {c}
     ELSE UNCHANGED <<used, missed>>
  /\ touched' = touched \ {c} /\ view' = [view EXCEPT ![c] = committed]
  /\ UNCHANGED <<phase, hub, queue, wire, rows, got, since, waited>>

StreamStep(c) ==
  \/ Enter(c) \/ Started(c) \/ EnterToLeave(c) \/ Stopped(c)

StreamFault(c) ==
  \/ StartFails(c) \/ LeaveCut(c) \/ StopFails(c)

Client(c) ==
  \/ Refuse(c) \/ Subscribe(c) \/ Wait(c) \/ GiveUp(c) \/ Leave(c) \/ WaitToLeave(c)

Next ==
  \/ \E c \in Streams : Client(c) \/ StreamStep(c) \/ StreamFault(c)
  \/ \E c \in Streams : Confirmed(c) \/ Read(c) \/ ReaderDies(c)
  \/ \E c \in Streams : Receive(c) \/ Refetch(c)
  \/ Publish \/ Commit

Spec == Init /\ [][Next]_vars

\* The event loop runs what is ready, Redis answers or fails, a transaction
\* ends, a browser reads its stream.  Nobody has to come or go.
Fairness ==
  /\ WF_vars(Commit)
  /\ \A c \in Streams :
       /\ WF_vars(StreamStep(c)) /\ WF_vars(Confirmed(c)) /\ WF_vars(Read(c))
       /\ WF_vars(Receive(c)) /\ WF_vars(Refetch(c))

FairSpec == Spec /\ Fairness
-----------------------------------------------------------------------------
(* Properties *)

Fault == used["fault"] > 0

\* Whatever fails and whoever comes and goes, never two readers, which would
\* send every envelope twice.  And while nothing failed, whenever the lock is
\* free a reader serves the streams that are there, and without streams the
\* process holds no connection ("an idle API process holds no Redis connection").
ReaderWhileNeeded ==
  /\ Cardinality(readers) <= 1
  /\ (lock = <<>> /\ ~Fault) =>
        IF subscribers = {} THEN readers = {} /\ open = {} /\ current = None
        ELSE readers = {current} /\ open = {current}

\* While nothing failed, what counts against the cap is a stream that is there,
\* and only streams that waited for the lock together can pass the cap together.
CapCountsStreams ==
  ~Fault => /\ \A c \in subscribers : phase[c] \in {"starting", "on", "leaving"}
            /\ Cardinality(subscribers \ waited) <= Cap

InOrder(s) == \A i, j \in 1..Len(s) : i < j => s[i] < s[j]

Pending(c) == got[c] \o queue[c] \o (IF current = None THEN <<>> ELSE wire[current])

\* Every stream that is on gets every envelope published since it was on and
\* Redis served the subscription, once and in order, unless its own queue was
\* full or Redis failed: one slow browser costs the others nothing.  What is
\* published while SUBSCRIBE is on its way reaches nobody (_start).
HearsAll ==
  \A c \in Streams : phase[c] = "on" =>
    /\ InOrder(got[c] \o queue[c])
    /\ (Live /\ c \notin missed /\ ~Fault) =>
         \A n \in (since[c] + 1)..published :
            \E i \in 1..Len(Pending(c)) : Pending(c)[i] = n

Tuned == {c \in Streams : phase[c] = "on" /\ Live}

\* What each browser is sent only ever grows by the envelope that comes next, and
\* a connection that ends takes nothing of it along: the streams together are a
\* broadcast, however queues, reader and starts interleave (bus.py 110-146).
Bus == INSTANCE Broadcast WITH Listeners <- Streams, said <- published,
         tuned <- Tuned, from <- since, heard <- got,
         lossy <- missed, broken <- Fault

ImplementsBroadcast == Bus!Spec

\* A dashboard that stays connected ends up showing the rows committed since
\* Redis served its stream, unless it lost an envelope or read one too early.
DashboardsConverge ==
  \A c \in Streams :
    <>[](phase[c] = "on" /\ c \notin missed /\ ~Fault)
       => <>[](view[c] = committed \/ committed <= since[c])

\* "a Redis hiccup shouldn't kill the process; the next subscriber restarts"
\* (_read_loop): whoever has joined finds a reader.
NextSubscriberRestarts ==
  [][\A c \in Streams : phase[c] # "on" /\ phase'[c] = "on" => readers' # {}]_vars
=============================================================================
