---------------------------- MODULE EventHubProofs ----------------------------
(***************************************************************************)
(* One reader, a cap that counts what is there, and every envelope once    *)
(* and in order: for any streams, cap, queue size and number of faults.    *)
(***************************************************************************)
EXTENDS EventHub, FiniteSetTheorems, SequenceTheorems, TLAPS

NoDuplicates(s) == \A i, j \in 1..Len(s) : s[i] = s[j] => i = j

InSeq(x, s) == \E i \in 1..Len(s) : s[i] = x

InLine == {"joining", "starting", "leaving", "stopping"}

\* The streams in the lock's line are those whose code is between asking for
\* it and giving it back, each once; one that waits for Redis holds it.
LockKept ==
  /\ NoDuplicates(lock)
  /\ \A c \in Streams : phase[c] \in InLine <=> InSeq(c, lock)
  /\ \A c \in Streams : phase[c] \in {"starting", "stopping"} => Holds(c)

\* Whose queue is in the set, and what else holds while a connection is opened
\* or closed.  Only the connection that is current has a reader, or is subscribed.
Members ==
  /\ \A c \in Streams :
       /\ phase[c] \in {"on", "leaving"} => c \in subscribers
       /\ phase[c] \in {"new", "joining"} => c \notin subscribers /\ c # current
       /\ phase[c] = "starting" => subscribers = {c} /\ current = c /\ readers = {}
       /\ phase[c] = "stopping" => subscribers = {}
  /\ subscribers = {} => readers = {} /\ subscribed = {}
  /\ subscribers # {} => current \in Streams
  /\ readers \subseteq {current} /\ subscribed \subseteq {current}

\* What counts against the cap.
Counted ==
  /\ \A c \in Streams : phase[c] = "joining" => c \in waited
  /\ ~Fault => \A c \in subscribers : phase[c] \in {"starting", "on", "leaving"}
  /\ Cardinality(subscribers \ waited) <= Cap

Busy == \E c \in Streams : phase[c] \in {"starting", "stopping"}

\* While nothing failed: the connection between two uses of the lock, and
\* during one.
Served ==
  ~Fault =>
    /\ ~Busy => IF subscribers = {} THEN readers = {} /\ open = {} /\ current = None
                ELSE readers = {current} /\ open = {current}
    /\ Busy => open = {current}

\* A connection that Redis does not serve carries nothing.
BareWire == \A c \in Streams : c \notin subscribed => wire[c] = <<>>

\* A stream that is not registered, or has no connection that Redis serves, has
\* nothing ahead, and a browser that is not tuned in was sent nothing.
Silent ==
  \A c \in Streams :
    /\ (c \notin subscribers \/ ~Live) => queue[c] = <<>>
    /\ c \notin Tuned => got[c] = <<>> /\ since[c] = 0 /\ c \notin touched /\ c \notin missed

Orderly(s, n) == InOrder(s) /\ \A i \in 1..Len(s) : s[i] <= n

Covers(s, m, n) == \A k \in (m + 1)..n : InSeq(k, s)

\* Whatever fails, what a stream has had and still has ahead is in order.
Heard ==
  \A c \in Streams :
    /\ Orderly(Pending(c), published)
    /\ (c \in Tuned /\ c \notin missed /\ ~Fault) => Covers(Pending(c), since[c], published)

IInv ==
  TypeOK /\ LockKept /\ Members /\ Counted /\ Served /\ BareWire /\ Silent /\ Heard
-----------------------------------------------------------------------------
(* Sequences *)

\* A sequence without duplicates loses exactly the element, and keeps its head
\* if that is another one.
LEMMA RemoveFirstFacts ==
  ASSUME NEW S, NEW s \in Seq(S), NEW e, NoDuplicates(s)
  PROVE  /\ RemoveFirst(s, e) \in Seq(S)
         /\ NoDuplicates(RemoveFirst(s, e))
         /\ \A x : InSeq(x, RemoveFirst(s, e)) <=> InSeq(x, s) /\ x # e
         /\ s # <<>> /\ Head(s) # e =>
              RemoveFirst(s, e) # <<>> /\ Head(RemoveFirst(s, e)) = Head(s)
<1> DEFINE t == RemoveFirst(s, e)
<1>1. CASE ~InSeq(e, s)
  <2>1. t = s
    BY <1>1 DEF RemoveFirst, InSeq
  <2> QED
    BY <1>1, <2>1 DEF InSeq
<1>2. CASE InSeq(e, s)
  <2>1. PICK k \in 1..Len(s) : s[k] = e
    BY <1>2 DEF InSeq
  <2>2. {i \in 1..Len(s) : s[i] = e} = {k}
    BY <2>1 DEF NoDuplicates
  <2>3. SelectInSeq(s, LAMBDA v : v = e) = k
    <3>1. Min({k}) = k
      BY <2>1 DEF Min
    <3> QED
      BY <2>2, <3>1 DEF SelectInSeq
  <2> DEFINE a == SubSeq(s, 1, k - 1)
             b == SubSeq(s, k + 1, Len(s))
  <2>4. t = a \o b
    BY <2>1, <2>3 DEF RemoveFirst, RemoveAt
  <2>5. /\ a \in Seq(S) /\ Len(a) = k - 1 /\ \A i \in 1..(k - 1) : a[i] = s[i]
        /\ b \in Seq(S) /\ Len(b) = Len(s) - k /\ \A i \in 1..(Len(s) - k) : b[i] = s[k + i]
    <3>1. \A i \in 1..Len(s) : s[i] \in S
      BY ElementOfSeq
    <3> QED
      BY <2>1, <3>1, SubSeqProperties
  <2>6. /\ t \in Seq(S) /\ Len(t) = Len(s) - 1
        /\ \A i \in 1..(Len(s) - 1) : t[i] = IF i < k THEN s[i] ELSE s[i + 1]
    <3>1. /\ a \o b \in Seq(S) /\ Len(a \o b) = Len(a) + Len(b)
          /\ \A i \in 1..(Len(a) + Len(b)) :
               (a \o b)[i] = IF i <= Len(a) THEN a[i] ELSE b[i - Len(a)]
      BY <2>5, ConcatProperties
    <3> HIDE DEF a, b
    <3> QED
      BY <2>1, <2>4, <2>5, <3>1
  <2> HIDE DEF t
  <2>7. NoDuplicates(t)
    BY <2>6, <2>1 DEF NoDuplicates
  <2>8. \A x : InSeq(x, t) => InSeq(x, s) /\ x # e
    BY <2>6, <2>1 DEF NoDuplicates, InSeq
  <2>9. ASSUME NEW x, InSeq(x, s), x # e PROVE InSeq(x, t)
    <3>1. PICK i \in 1..Len(s) : s[i] = x
      BY <2>9 DEF InSeq
    <3>2. CASE i < k
      BY <3>1, <3>2, <2>1, <2>6 DEF InSeq
    <3>3. CASE i > k
      <4>1. i - 1 \in 1..(Len(s) - 1) /\ t[i - 1] = s[i]
        BY <3>1, <3>3, <2>1, <2>6
      <4> QED
        BY <3>1, <4>1, <2>6 DEF InSeq
    <3> QED
      BY <2>1, <2>9, <3>1, <3>2, <3>3
  <2>10. s # <<>> /\ Head(s) # e => t # <<>> /\ Head(t) = Head(s)
    <3> SUFFICES ASSUME s # <<>>, Head(s) # e PROVE t # <<>> /\ Head(t) = Head(s)
      OBVIOUS
    <3>1. k > 1
      BY <2>1
    <3> QED
      BY <2>1, <2>6, <3>1
  <2> QED
    BY <2>6, <2>7, <2>8, <2>9, <2>10 DEF t
<1> QED
  BY <1>1, <1>2

LEMMA AppendFacts ==
  ASSUME NEW S, NEW s \in Seq(S), NEW e \in S
  PROVE  /\ Append(s, e) \in Seq(S)
         /\ NoDuplicates(s) /\ ~InSeq(e, s) => NoDuplicates(Append(s, e))
         /\ \A x : InSeq(x, Append(s, e)) <=> InSeq(x, s) \/ x = e
         /\ s # <<>> => Append(s, e) # <<>> /\ Head(Append(s, e)) = Head(s)
         /\ s = <<>> => Append(s, e) # <<>> /\ Head(Append(s, e)) = e
  BY DEF NoDuplicates, InSeq

\* An order survives what loses elements and moves none past another.
LEMMA OrderlyPart ==
  ASSUME NEW v, NEW u, NEW n, NEW f, Orderly(v, n),
         Len(u) \in Nat,
         \A i \in 1..Len(u) : f[i] \in 1..Len(v) /\ u[i] = v[f[i]],
         \A i, j \in 1..Len(u) : i < j => f[i] < f[j]
  PROVE  Orderly(u, n)
  BY DEF Orderly, InOrder

\* The loss of the back, of the front, and of what is between them.
LEMMA OrderlyParts ==
  ASSUME NEW S, NEW s \in Seq(S), NEW t \in Seq(S), NEW n, Orderly(s \o t, n)
  PROVE  Orderly(s, n) /\ Orderly(t, n)
<1> DEFINE v == s \o t
<1>1. /\ Len(s) \in Nat /\ Len(t) \in Nat /\ Len(v) = Len(s) + Len(t)
      /\ \A i \in 1..(Len(s) + Len(t)) : v[i] = IF i <= Len(s) THEN s[i] ELSE t[i - Len(s)]
  BY ConcatProperties
<1>2. Orderly(v, n)
  OBVIOUS
<1> HIDE DEF v
<1>3. Orderly(s, n)
  <2> DEFINE f == [i \in 1..Len(s) |-> i]
  <2>1. \A i \in 1..Len(s) : f[i] \in 1..Len(v) /\ s[i] = v[f[i]]
    BY <1>1
  <2>2. \A i, j \in 1..Len(s) : i < j => f[i] < f[j]
    OBVIOUS
  <2> HIDE DEF f
  <2> QED
    BY <1>1, <1>2, <2>1, <2>2, OrderlyPart
<1>4. Orderly(t, n)
  <2> DEFINE f == [i \in 1..Len(t) |-> i + Len(s)]
  <2>1. \A i \in 1..Len(t) : f[i] \in 1..Len(v) /\ t[i] = v[f[i]]
    BY <1>1
  <2>2. \A i, j \in 1..Len(t) : i < j => f[i] < f[j]
    BY <1>1
  <2> HIDE DEF f
  <2> QED
    BY <1>1, <1>2, <2>1, <2>2, OrderlyPart
<1> QED
  BY <1>3, <1>4

LEMMA OrderlyMiddle ==
  ASSUME NEW S, NEW s \in Seq(S), NEW t \in Seq(S), NEW r \in Seq(S), NEW n,
         Orderly((s \o r) \o t, n)
  PROVE  Orderly(s \o t, n)
<1> DEFINE v == (s \o r) \o t
           u == s \o t
           f == [i \in 1..Len(u) |-> IF i <= Len(s) THEN i ELSE i + Len(r)]
<1>1. Len(s) \in Nat /\ Len(t) \in Nat /\ Len(r) \in Nat
  OBVIOUS
<1>2. /\ Len(u) = Len(s) + Len(t)
      /\ \A i \in 1..(Len(s) + Len(t)) : u[i] = IF i <= Len(s) THEN s[i] ELSE t[i - Len(s)]
  BY ConcatProperties
<1>3. /\ s \o r \in Seq(S) /\ Len(s \o r) = Len(s) + Len(r)
      /\ \A i \in 1..Len(s) : (s \o r)[i] = s[i]
  BY ConcatProperties
<1>4. /\ Len(v) = Len(s) + Len(r) + Len(t)
      /\ \A i \in 1..Len(s) : v[i] = s[i]
      /\ \A i \in (Len(s) + 1)..(Len(s) + Len(t)) : v[i + Len(r)] = t[i - Len(s)]
  <2>1. \A i \in 1..(Len(s \o r) + Len(t)) :
          v[i] = IF i <= Len(s \o r) THEN (s \o r)[i] ELSE t[i - Len(s \o r)]
    BY <1>3, ConcatProperties
  <2>2. Len(v) = Len(s \o r) + Len(t)
    BY <1>3, ConcatProperties
  <2> HIDE DEF v
  <2> QED
    BY <1>1, <1>3, <2>1, <2>2
<1>5. Orderly(v, n)
  OBVIOUS
<1> HIDE DEF u, v
<1>6. \A i \in 1..Len(u) : f[i] \in 1..Len(v) /\ u[i] = v[f[i]]
  <2> SUFFICES ASSUME NEW i \in 1..Len(u) PROVE f[i] \in 1..Len(v) /\ u[i] = v[f[i]]
    OBVIOUS
  <2>1. CASE i <= Len(s)
    BY <1>1, <1>2, <1>4, <2>1
  <2>2. CASE i > Len(s)
    <3>1. f[i] = i + Len(r) /\ f[i] \in 1..Len(v) /\ i \in (Len(s) + 1)..(Len(s) + Len(t))
      BY <1>1, <1>2, <1>4, <2>2
    <3>2. u[i] = t[i - Len(s)] /\ v[i + Len(r)] = t[i - Len(s)]
      BY <1>1, <1>2, <1>4, <2>2, <3>1
    <3> QED
      BY <3>1, <3>2
  <2> QED
    BY <1>1, <1>2, <2>1, <2>2
<1>7. \A i, j \in 1..Len(u) : i < j => f[i] < f[j]
  BY <1>1
<1> HIDE DEF f
<1>8. Len(u) \in Nat
  BY <1>1, <1>2
<1>9. Orderly(u, n)
  BY <1>8, <1>5, <1>6, <1>7, OrderlyPart
<1> QED
  BY <1>9 DEF u

LEMMA OrderlyAppend ==
  ASSUME NEW m \in Nat, NEW s \in Seq(1..m), NEW n \in Nat, Orderly(s, n)
  PROVE  Orderly(Append(s, n + 1), n + 1) /\ Orderly(s, n + 1)
  BY DEF Orderly, InOrder

\* Where an envelope goes in a concatenation: the first of the back becomes the
\* last of the front, and what is added to the back is the last of the whole.
LEMMA Associates == \A s, t, u \in Seq(Envelopes) : (s \o t) \o u = s \o (t \o u)
  BY ConcatAssociative

LEMMA Shifts ==
  \A s, t \in Seq(Envelopes) : t # <<>> => Append(s, Head(t)) \o Tail(t) = s \o t
  OBVIOUS

LEMMA AppendsRight ==
  \A s, t \in Seq(Envelopes), e \in Envelopes : s \o Append(t, e) = Append(s \o t, e)
  OBVIOUS

LEMMA AppendsOne ==
  \A s \in Seq(Envelopes), e \in Envelopes : Append(s, e) = s \o <<e>> /\ <<e>> \in Seq(Envelopes)
  BY AppendIsConcat

LEMMA AppendsLast ==
  \A s \in Seq(Envelopes), e \in Envelopes : \A x : InSeq(x, Append(s, e)) <=> InSeq(x, s) \/ x = e
  BY AppendFacts
-----------------------------------------------------------------------------
(* Type correctness *)

LEMMA InitTypes == Init => TypeOK
  BY HubAssumption DEF Init, TypeOK, Phases, Kinds

LEMMA Numbers ==
  ASSUME TypeOK
  PROVE  /\ published \in Nat /\ committed \in Nat /\ Events \in Nat /\ QueueSize \in Nat
         /\ \A c \in Streams : Len(queue[c]) \in Nat
  BY HubAssumption DEF TypeOK

LEMMA ReleasesType ==
  ASSUME TypeOK, LockKept, NEW c \in Streams, Releases(c)
  PROVE  lock' \in Seq(Streams)
  BY RemoveFirstFacts DEF TypeOK, LockKept, Releases

LEMMA AppendedType ==
  ASSUME TypeOK, NEW c \in Streams
  PROVE  Append(lock, c) \in Seq(Streams)
  BY DEF TypeOK

LEMMA HappensType ==
  ASSUME TypeOK, NEW k \in Kinds, Happens(k)
  PROVE  /\ used' \in [Kinds -> 0..Limit]
         /\ k = "fault" => Fault'
         /\ k = "overtake" => (Fault' <=> Fault)
  BY HubAssumption DEF TypeOK, Happens, Fault, Kinds

LEMMA JoinTypes ==
  ASSUME TypeOK, LockKept, NEW c \in Streams, Join(c),
         UNCHANGED <<queue, readers, subscribed, wire, rows, used>>, waited' \subseteq Streams
  PROVE  TypeOK'
<1>1. CASE subscribers = {}
  <2>1. lock' \in Seq(Streams)
    BY <1>1, AppendedType DEF Join, TypeOK
  <2> QED
    BY <1>1, <2>1 DEF Join, Goes, TypeOK, Phases, rows, page
<1>2. CASE subscribers # {}
  <2>1. lock' \in Seq(Streams)
    BY <1>2, ReleasesType DEF Join, On
  <2>2. since' \in [Streams -> 0..Events]
    BY <1>2, Numbers DEF Join, On, TypeOK
  <2> QED
    BY <1>2, <2>1, <2>2 DEF Join, On, Goes, TypeOK, Phases, rows
<1> QED
  BY <1>1, <1>2

LEMMA DropTypes ==
  ASSUME TypeOK, LockKept, NEW c \in Streams, Drop(c)
  PROVE  /\ phase' \in [Streams -> Phases] /\ lock' \in Seq(Streams)
         /\ subscribers' \subseteq Streams /\ readers' \subseteq Streams
         /\ subscribed' \subseteq Streams
         /\ queue' \in [Streams -> Seq(Envelopes)] /\ wire' \in [Streams -> Seq(Envelopes)]
         /\ \A d \in Streams : Len(queue'[d]) <= QueueSize
         /\ waited' \subseteq Streams
<1>1. /\ queue' \in [Streams -> Seq(Envelopes)]
      /\ \A d \in Streams : Len(queue'[d]) <= QueueSize
  BY HubAssumption DEF Drop, TypeOK
<1>2. CASE subscribers' = {}
  <2>1. lock' \in Seq(Streams)
    BY <1>2, AppendedType DEF Drop, TypeOK
  <2>2. wire' \in [Streams -> Seq(Envelopes)]
    <3>1. <<>> \in Seq(Envelopes)
      OBVIOUS
    <3> QED
      BY <1>2, <3>1 DEF Drop, TypeOK
  <2> QED
    BY <1>1, <1>2, <2>1, <2>2 DEF Drop, Goes, TypeOK, Phases
<1>3. CASE subscribers' # {}
  <2>1. lock' \in Seq(Streams)
    BY <1>3, ReleasesType DEF Drop
  <2> QED
    BY <1>1, <1>3, <2>1 DEF Drop, Goes, TypeOK, Phases
<1> QED
  BY <1>2, <1>3

LEMMA ForgetsTypes ==
  ASSUME TypeOK, NEW c \in Streams, Forgets(c)
  PROVE  /\ got' \in [Streams -> Seq(Envelopes)]
         /\ view' \in [Streams -> 0..Events] /\ since' \in [Streams -> 0..Events]
         /\ touched' \subseteq Streams /\ missed' \subseteq Streams
  BY HubAssumption DEF Forgets, TypeOK

LEMMA FanOutTypes ==
  ASSUME TypeOK, NEW n \in Envelopes, FanOut(n)
  PROVE  /\ queue' \in [Streams -> Seq(Envelopes)]
         /\ \A d \in Streams : Len(queue'[d]) <= QueueSize
         /\ missed' \subseteq Streams
<1>1. ASSUME NEW d \in Streams
      PROVE  LET q == IF d \in subscribers /\ Len(queue[d]) < QueueSize
                      THEN Append(queue[d], n) ELSE queue[d]
             IN  q \in Seq(Envelopes) /\ Len(q) <= QueueSize
  <2>1. queue[d] \in Seq(Envelopes) /\ Len(queue[d]) <= QueueSize
    BY DEF TypeOK
  <2> QED
    <3>1. Append(queue[d], n) \in Seq(Envelopes) /\ Len(Append(queue[d], n)) = Len(queue[d]) + 1
      BY <2>1
    <3>2. CASE d \in subscribers /\ Len(queue[d]) < QueueSize
      BY <3>1, <3>2, Numbers
    <3>3. CASE ~(d \in subscribers /\ Len(queue[d]) < QueueSize)
      BY <2>1, <3>3
    <3> QED
      BY <3>2, <3>3
<1> QED
  BY <1>1 DEF FanOut, TypeOK

LEMMA ClientTypes ==
  ASSUME TypeOK, LockKept, NEW c \in Streams, Client(c)
  PROVE  TypeOK'
<1>1. CASE Refuse(c)
  BY <1>1 DEF Refuse, Goes, hub, rows, page, TypeOK, Phases
<1>2. CASE Subscribe(c)
  BY <1>2, JoinTypes DEF Subscribe, TypeOK
<1>3. CASE Wait(c)
  BY <1>3, AppendedType DEF Wait, Acquires, Goes, rows, page, TypeOK, Phases
<1>4. CASE GiveUp(c)
  BY <1>4, ReleasesType DEF GiveUp, Goes, rows, page, TypeOK, Phases
<1>5. CASE Leave(c)
  BY <1>5, DropTypes, ForgetsTypes DEF Leave, rows, TypeOK
<1>6. CASE WaitToLeave(c)
  BY <1>6, AppendedType, ForgetsTypes DEF WaitToLeave, Acquires, Goes, rows, TypeOK, Phases
<1> QED
  BY <1>1, <1>2, <1>3, <1>4, <1>5, <1>6 DEF Client

LEMMA StreamTypes ==
  ASSUME TypeOK, LockKept, NEW c \in Streams, StreamStep(c) \/ StreamFault(c)
  PROVE  TypeOK'
<1>1. CASE Enter(c)
  BY <1>1, JoinTypes DEF Enter, TypeOK
<1>2. CASE Started(c)
  <2>1. since' \in [Streams -> 0..Events]
    BY <1>2, Numbers DEF Started, On, TypeOK
  <2> QED
    BY <1>2, <2>1, ReleasesType DEF Started, On, Goes, rows, TypeOK, Phases
<1>3. CASE EnterToLeave(c)
  BY <1>3, DropTypes DEF EnterToLeave, rows, page, TypeOK
<1>4. CASE Stopped(c)
  BY <1>4, ReleasesType DEF Stopped, Goes, rows, page, TypeOK, Phases
<1>5. CASE StreamFault(c)
  <2>1. /\ Goes(c, "closed") /\ Releases(c) /\ Happens("fault")
        /\ UNCHANGED <<subscribers, current, open, readers, subscribed, queue, wire, rows, page, waited>>
    BY <1>5 DEF StreamFault, StartFails, LeaveCut, StopFails
  <2> QED
    BY <2>1, ReleasesType, HappensType DEF Goes, rows, page, TypeOK, Phases, Kinds
<1> QED
  BY <1>1, <1>2, <1>3, <1>4, <1>5 DEF StreamStep

LEMMA RestTypes ==
  ASSUME TypeOK, NEW c \in Streams,
         Receive(c) \/ Refetch(c) \/ Confirmed(c) \/ Read(c) \/ ReaderDies(c)
  PROVE  TypeOK'
<1>1. CASE Receive(c)
  <2>1. Head(queue[c]) \in Envelopes /\ Tail(queue[c]) \in Seq(Envelopes)
        /\ Len(Tail(queue[c])) <= QueueSize
    <3>1. queue[c] \in Seq(Envelopes) /\ queue[c] # <<>> /\ Len(queue[c]) <= QueueSize
      BY <1>1 DEF Receive, TypeOK
    <3>2. Head(queue[c]) \in Envelopes /\ Tail(queue[c]) \in Seq(Envelopes)
          /\ Len(Tail(queue[c])) = Len(queue[c]) - 1
      BY <3>1, HeadTailProperties
    <3> QED
      BY <3>1, <3>2, Numbers
  <2>2. /\ queue' \in [Streams -> Seq(Envelopes)] /\ got' \in [Streams -> Seq(Envelopes)]
        /\ \A d \in Streams : Len(queue'[d]) <= QueueSize
    BY <1>1, <2>1 DEF Receive, TypeOK
  <2> QED
    BY <1>1, <2>2 DEF Receive, hub, rows, TypeOK
<1>2. CASE Refetch(c)
  <2>1. used' \in [Kinds -> 0..Limit]
    <3>1. CASE committed < published
      BY <1>2, <3>1, HappensType DEF Refetch, Kinds
    <3>2. CASE ~(committed < published)
      BY <1>2, <3>2 DEF Refetch, TypeOK
    <3> QED
      BY <3>1, <3>2
  <2>2. view' \in [Streams -> 0..Events] /\ touched' \subseteq Streams /\ missed' \subseteq Streams
    BY <1>2, HubAssumption DEF Refetch, TypeOK
  <2> QED
    BY <1>2, <2>1, <2>2 DEF Refetch, hub, rows, TypeOK
<1>3. CASE Read(c)
  <2>1. Head(wire[c]) \in Envelopes /\ Tail(wire[c]) \in Seq(Envelopes)
    <3>1. wire[c] \in Seq(Envelopes) /\ wire[c] # <<>>
      BY <1>3 DEF Read, TypeOK
    <3> QED
      BY <3>1, HeadTailProperties
  <2>2. wire' \in [Streams -> Seq(Envelopes)]
    BY <1>3, <2>1 DEF Read, TypeOK
  <2> QED
    BY <1>3, <2>1, <2>2, FanOutTypes DEF Read, hub, rows, TypeOK
<1>4. CASE ReaderDies(c)
  <2>1. wire' \in [Streams -> Seq(Envelopes)]
    BY <1>4 DEF ReaderDies, TypeOK
  <2> QED
    BY <1>4, <2>1, HappensType DEF ReaderDies, rows, page, TypeOK, Kinds
<1>5. CASE Confirmed(c)
  BY <1>5, Numbers DEF Confirmed, rows, TypeOK
<1> QED
  BY <1>1, <1>2, <1>3, <1>4, <1>5

LEMMA WorkerTypes ==
  ASSUME TypeOK, Publish \/ Commit
  PROVE  TypeOK'
<1>1. CASE Publish
  <2>1. published + 1 \in Envelopes /\ published' = published + 1
    BY <1>1, HubAssumption DEF Publish, TypeOK, Envelopes
  <2>2. wire' \in [Streams -> Seq(Envelopes)]
    <3>1. \A d \in Streams : wire[d] \in Seq(Envelopes) /\ Append(wire[d], published + 1) \in Seq(Envelopes)
      BY <2>1, AppendFacts DEF TypeOK
    <3> QED
      BY <1>1, <3>1 DEF Publish
  <2>3. published' \in 0..Events /\ committed' \in 0..published'
    BY <1>1, HubAssumption DEF Publish, TypeOK, Envelopes
  <2> QED
    BY <1>1, <2>2, <2>3 DEF Publish, hub, page, TypeOK
<1>2. CASE Commit
  <2>1. published' \in 0..Events /\ committed' \in 0..published'
    BY <1>2, Numbers DEF Commit, TypeOK
  <2> QED
    BY <1>2, <2>1 DEF Commit, hub, page, TypeOK
<1> QED
  BY <1>1, <1>2
-----------------------------------------------------------------------------
(* The lock *)

\* A stream gives up its place: the one that waits for Redis keeps its own.
LEMMA LineOut ==
  ASSUME TypeOK, LockKept, NEW c \in Streams, NEW p \in Phases \ InLine, Goes(c, p), Releases(c)
  PROVE  LockKept'
<1>1. lock \in Seq(Streams) /\ NoDuplicates(lock)
  BY DEF TypeOK, LockKept
<1>2. /\ NoDuplicates(lock')
      /\ \A x : InSeq(x, lock') <=> InSeq(x, lock) /\ x # c
      /\ lock # <<>> /\ Head(lock) # c => lock' # <<>> /\ Head(lock') = Head(lock)
  BY <1>1, RemoveFirstFacts DEF Releases
<1>3. phase'[c] = p /\ \A d \in Streams \ {c} : phase'[d] = phase[d]
  BY DEF Goes, TypeOK
<1>4. ASSUME NEW d \in Streams PROVE phase'[d] \in InLine <=> InSeq(d, lock')
  BY <1>2, <1>3 DEF LockKept
<1>5. ASSUME NEW d \in Streams, phase'[d] \in {"starting", "stopping"} PROVE Holds(d)'
  <2>1. d # c
    BY <1>3, <1>5 DEF InLine
  <2>2. Holds(d)
    BY <1>3, <1>5, <2>1 DEF LockKept
  <2> QED
    BY <1>2, <2>1, <2>2 DEF Holds
<1> QED
  BY <1>2, <1>4, <1>5 DEF LockKept

LEMMA LineIn ==
  ASSUME TypeOK, LockKept, NEW c \in Streams, NEW p \in {"joining", "leaving"},
         phase[c] \notin InLine, Goes(c, p), Acquires(c)
  PROVE  LockKept'
<1>1. lock \in Seq(Streams) /\ NoDuplicates(lock) /\ ~InSeq(c, lock)
  BY DEF TypeOK, LockKept
<1>2. /\ NoDuplicates(lock')
      /\ \A x : InSeq(x, lock') <=> InSeq(x, lock) \/ x = c
      /\ lock # <<>> => lock' # <<>> /\ Head(lock') = Head(lock)
  BY <1>1, AppendFacts DEF Acquires
<1>3. phase'[c] = p /\ \A d \in Streams \ {c} : phase'[d] = phase[d]
  BY DEF Goes, TypeOK
<1>4. ASSUME NEW d \in Streams PROVE phase'[d] \in InLine <=> InSeq(d, lock')
  BY <1>2, <1>3 DEF LockKept, InLine
<1>5. ASSUME NEW d \in Streams, phase'[d] \in {"starting", "stopping"} PROVE Holds(d)'
  <2>1. d # c /\ phase[d] = phase'[d]
    BY <1>3, <1>5
  <2>2. Holds(d)
    BY <1>5, <2>1 DEF LockKept
  <2> QED
    BY <1>2, <2>2 DEF Holds
<1> QED
  BY <1>2, <1>4, <1>5 DEF LockKept

\* Who has the lock in hand, or finds it free, finds nobody busy with Redis.
LEMMA NobodyBusy ==
  ASSUME LockKept, NEW c \in Streams, phase[c] \notin {"starting", "stopping"},
         lock = <<>> \/ Holds(c)
  PROVE  ~Busy
  BY DEF LockKept, Busy, Holds

LEMMA OneBusy ==
  ASSUME LockKept, NEW c \in Streams, phase[c] \in {"starting", "stopping"}
  PROVE  \A d \in Streams \ {c} : phase[d] \notin {"starting", "stopping"}
  BY DEF LockKept, Holds

LEMMA LineHold ==
  ASSUME TypeOK, LockKept, NEW c \in Streams, NEW p \in {"starting", "stopping"},
         phase[c] \notin {"starting", "stopping"}, lock = <<>> \/ Holds(c),
         Goes(c, p), lock' = IF Holds(c) THEN lock ELSE Append(lock, c)
  PROVE  LockKept'
<1>1. phase'[c] = p /\ \A d \in Streams \ {c} : phase'[d] = phase[d]
  BY DEF Goes, TypeOK
<1>2. /\ NoDuplicates(lock') /\ Holds(c)'
      /\ \A x : InSeq(x, lock') <=> InSeq(x, lock) \/ x = c
  <2>1. CASE Holds(c)
    <3>1. InSeq(c, lock)
      BY <2>1 DEF Holds, InSeq, TypeOK
    <3>2. lock' = lock
      BY <2>1
    <3> QED
      BY <2>1, <3>1, <3>2 DEF Holds, LockKept
  <2>2. CASE ~Holds(c)
    <3>1. lock = <<>> /\ lock' = Append(lock, c) /\ lock \in Seq(Streams)
      BY <2>2 DEF TypeOK
    <3>2. lock' = <<c>>
      BY <3>1
    <3>3. NoDuplicates(lock') /\ lock' # <<>> /\ Head(lock') = c
      BY <3>2 DEF NoDuplicates
    <3>4. \A x : InSeq(x, lock') <=> x = c
      BY <3>2 DEF InSeq
    <3>5. \A x : ~InSeq(x, lock)
      BY <3>1 DEF InSeq
    <3> QED
      BY <3>3, <3>4, <3>5 DEF Holds
  <2> QED
    BY <2>1, <2>2
<1>3. ASSUME NEW d \in Streams PROVE phase'[d] \in InLine <=> InSeq(d, lock')
  BY <1>1, <1>2 DEF LockKept, InLine
<1>4. ASSUME NEW d \in Streams, phase'[d] \in {"starting", "stopping"} PROVE Holds(d)'
  <2>1. d = c
    BY <1>1, <1>4, NobodyBusy DEF Busy
  <2> QED
    BY <2>1, <1>2
<1> QED
  BY <1>2, <1>3, <1>4 DEF LockKept

\* What a stream that joins, and one that leaves, has in common with the others
\* that do.
LEMMA Entering ==
  ASSUME LockKept, NEW c \in Streams, Subscribe(c) \/ Enter(c)
  PROVE  /\ phase[c] \in {"new", "joining"} /\ (lock = <<>> \/ Holds(c)) /\ ~Busy
         /\ Join(c) /\ UNCHANGED <<queue, readers, subscribed, wire, rows, used, waited>>
<1>1. phase[c] \in {"new", "joining"} /\ (lock = <<>> \/ Holds(c))
  BY DEF Subscribe, Enter
<1>2. ~Busy
  BY <1>1, NobodyBusy
<1> QED
  BY <1>1, <1>2 DEF Subscribe, Enter

LEMMA Departing ==
  ASSUME LockKept, NEW c \in Streams, Leave(c) \/ EnterToLeave(c)
  PROVE  /\ phase[c] \in {"on", "leaving"} /\ (lock = <<>> \/ Holds(c)) /\ ~Busy
         /\ Drop(c) /\ UNCHANGED <<current, open, rows, used>>
         /\ Forgets(c) \/ UNCHANGED page
<1>1. phase[c] \in {"on", "leaving"} /\ (lock = <<>> \/ Holds(c))
  BY DEF Leave, EnterToLeave
<1>2. ~Busy
  BY <1>1, NobodyBusy
<1> QED
  BY <1>1, <1>2 DEF Leave, EnterToLeave

\* What may fail leaves everything as it is but the stream's own place.
LEMMA Failing ==
  ASSUME NEW c \in Streams, StreamFault(c)
  PROVE  /\ phase[c] \in {"starting", "leaving", "stopping"}
         /\ Goes(c, "closed") /\ Releases(c) /\ Happens("fault")
         /\ UNCHANGED <<subscribers, current, open, readers, subscribed, queue, wire, rows, page, waited>>
  BY DEF StreamFault, StartFails, LeaveCut, StopFails

LEMMA LockStep ==
  ASSUME TypeOK, LockKept, [Next]_vars
  PROVE  LockKept'
<1>1. ASSUME NEW c \in Streams, Subscribe(c) \/ Enter(c) PROVE LockKept'
  <2>1. CASE subscribers = {}
    BY <1>1, <2>1, Entering, LineHold DEF Join
  <2>2. CASE subscribers # {}
    BY <1>1, <2>2, Entering, LineOut DEF Join, On, Phases, InLine
  <2> QED
    BY <2>1, <2>2
<1>2. ASSUME NEW c \in Streams, Leave(c) \/ EnterToLeave(c) PROVE LockKept'
  <2>1. CASE subscribers' = {}
    BY <1>2, <2>1, Departing, LineHold DEF Drop
  <2>2. CASE subscribers' # {}
    BY <1>2, <2>2, Departing, LineOut DEF Drop, Phases, InLine
  <2> QED
    BY <2>1, <2>2
<1>3. ASSUME NEW c \in Streams, StreamFault(c) PROVE LockKept'
  BY <1>3, Failing, LineOut DEF Phases, InLine
<1>4. ASSUME NEW c \in Streams, Started(c) \/ Stopped(c) \/ GiveUp(c) PROVE LockKept'
  BY <1>4, LineOut DEF Started, On, Stopped, GiveUp, Phases, InLine
<1>5. ASSUME NEW c \in Streams, Wait(c) \/ WaitToLeave(c) PROVE LockKept'
  BY <1>5, LineIn DEF Wait, WaitToLeave, InLine
<1>6. ASSUME NEW c \in Streams, Refuse(c) PROVE LockKept'
  <2>1. lock' = lock /\ \A d \in Streams : phase'[d] = IF d = c THEN "closed" ELSE phase[d]
    BY <1>6 DEF Refuse, Goes, hub, TypeOK
  <2>2. phase[c] = "new"
    BY <1>6 DEF Refuse
  <2> QED
    BY <2>1, <2>2 DEF LockKept, InLine, Holds
<1>7. ASSUME UNCHANGED <<phase, lock>> PROVE LockKept'
  BY <1>7 DEF LockKept, Holds
<1>8. ASSUME NEW c \in Streams, Receive(c) \/ Refetch(c) \/ Confirmed(c) \/ Read(c) \/ ReaderDies(c)
      PROVE  LockKept'
  BY <1>7, <1>8 DEF Receive, Refetch, Confirmed, Read, ReaderDies, hub
<1>9. CASE Publish \/ Commit \/ UNCHANGED vars
  BY <1>7, <1>9 DEF Publish, Commit, vars, hub
<1> QED
  BY <1>1, <1>2, <1>3, <1>4, <1>5, <1>6, <1>8, <1>9 DEF Next, Client, StreamStep
-----------------------------------------------------------------------------
(* Who is in the set *)

LEMMA Phased ==
  ASSUME TypeOK, NEW c \in Streams, NEW p, Goes(c, p)
  PROVE  phase'[c] = p /\ \A d \in Streams \ {c} : phase'[d] = phase[d]
  BY DEF TypeOK, Goes

LEMMA MembersStep ==
  ASSUME TypeOK, LockKept, Members, [Next]_vars
  PROVE  Members'
<1>1. ASSUME NEW c \in Streams, Subscribe(c) \/ Enter(c) PROVE Members'
  <2>1. phase[c] \in {"new", "joining"} /\ ~Busy /\ Join(c) /\ UNCHANGED <<readers, subscribed>>
    BY <1>1, Entering
  <2>2. CASE subscribers = {}
    <3>1. phase'[c] = "starting" /\ \A d \in Streams \ {c} : phase'[d] = phase[d]
      BY <2>1, <2>2, Phased DEF Join
    <3> QED
      BY <2>1, <2>2, <3>1 DEF Join, Members, Busy, TypeOK
  <2>3. CASE subscribers # {}
    <3>1. phase'[c] = "on" /\ \A d \in Streams \ {c} : phase'[d] = phase[d]
      BY <2>1, <2>3, Phased DEF Join, On
    <3> QED
      BY <2>1, <2>3, <3>1 DEF Join, Members, Busy, TypeOK
  <2> QED
    BY <2>2, <2>3
<1>2. ASSUME NEW c \in Streams, Leave(c) \/ EnterToLeave(c) PROVE Members'
  <2>1. phase[c] \in {"on", "leaving"} /\ ~Busy /\ Drop(c) /\ current' = current
    BY <1>2, Departing
  <2>2. CASE subscribers' = {}
    <3>1. phase'[c] = "stopping" /\ \A d \in Streams \ {c} : phase'[d] = phase[d]
      BY <2>1, <2>2, Phased DEF Drop
    <3> QED
      BY <2>1, <2>2, <3>1 DEF Drop, Members, Busy, TypeOK
  <2>3. CASE subscribers' # {}
    <3>1. phase'[c] = "closed" /\ \A d \in Streams \ {c} : phase'[d] = phase[d]
      BY <2>1, <2>3, Phased DEF Drop
    <3> QED
      BY <2>1, <2>3, <3>1 DEF Drop, Members, Busy, TypeOK
  <2> QED
    BY <2>2, <2>3
<1>3. ASSUME NEW c \in Streams, Started(c) PROVE Members'
  <2>1. phase'[c] = "on" /\ \A d \in Streams \ {c} : phase'[d] = phase[d]
    BY <1>3, Phased DEF Started, On
  <2>2. \A d \in Streams \ {c} : phase[d] \notin {"starting", "stopping"}
    BY <1>3, OneBusy DEF Started
  <2> QED
    BY <1>3, <2>1, <2>2 DEF Started, Members, TypeOK
<1>4. ASSUME NEW c \in Streams, Stopped(c) PROVE Members'
  <2>1. phase'[c] = "closed" /\ \A d \in Streams \ {c} : phase'[d] = phase[d]
    BY <1>4, Phased DEF Stopped
  <2>2. \A d \in Streams \ {c} : phase[d] \notin {"starting", "stopping"}
    BY <1>4, OneBusy DEF Stopped
  <2> QED
    BY <1>4, <2>1, <2>2, HubAssumption DEF Stopped, Members, TypeOK
<1>5. ASSUME NEW c \in Streams, NEW p \in {"joining", "leaving", "closed"},
             phase[c] \in {"new", "joining"} => p \in {"joining", "closed"},
             p = "joining" => phase[c] = "new", p = "leaving" => phase[c] = "on",
             Goes(c, p), UNCHANGED <<subscribers, current, readers, subscribed>>
      PROVE  Members'
  <2>1. phase'[c] = p /\ \A d \in Streams \ {c} : phase'[d] = phase[d]
    BY <1>5, Phased
  <2> QED
    BY <1>5, <2>1 DEF Members
<1>6. ASSUME NEW c \in Streams, StreamFault(c) \/ Refuse(c) \/ Wait(c) \/ GiveUp(c) \/ WaitToLeave(c)
      PROVE  Members'
  BY <1>5, <1>6, Failing DEF Refuse, Wait, GiveUp, WaitToLeave, hub
<1>7. ASSUME UNCHANGED <<phase, subscribers, current, subscribed>>, readers' \subseteq readers
      PROVE  Members'
  BY <1>7 DEF Members
<1>8. ASSUME NEW c \in Streams, Receive(c) \/ Refetch(c) \/ Read(c) \/ ReaderDies(c)
      PROVE  Members'
  BY <1>7, <1>8 DEF Receive, Refetch, Read, ReaderDies, hub
<1>10. ASSUME NEW c \in Streams, Confirmed(c) PROVE Members'
  BY <1>10 DEF Confirmed, Members
<1>9. CASE Publish \/ Commit \/ UNCHANGED vars
  BY <1>7, <1>9 DEF Publish, Commit, vars, hub
<1> QED
  BY <1>1, <1>2, <1>3, <1>4, <1>6, <1>8, <1>9, <1>10 DEF Next, Client, StreamStep
-----------------------------------------------------------------------------
(* What counts against the cap *)

LEMMA FaultStays ==
  ASSUME TypeOK, [Next]_vars
  PROVE  Fault => Fault'
<1>1. ASSUME NEW c \in Streams, StreamFault(c) \/ ReaderDies(c) PROVE Fault'
  BY <1>1, Failing, HappensType DEF ReaderDies, Kinds
<1>2. ASSUME NEW c \in Streams, Refetch(c) PROVE Fault' <=> Fault
  BY <1>2, HappensType DEF Refetch, Kinds, Fault
<1>3. ASSUME NEW c \in Streams, Client(c) \/ StreamStep(c) \/ Receive(c) \/ Confirmed(c) \/ Read(c)
      PROVE  used' = used
  BY <1>3 DEF Client, Refuse, Subscribe, Wait, GiveUp, Leave, WaitToLeave, StreamStep, Enter,
              Started, EnterToLeave, Stopped, Receive, Confirmed, Read
<1>4. CASE Publish \/ Commit \/ UNCHANGED vars
  BY <1>4 DEF Publish, Commit, vars, Fault
<1> QED
  BY <1>1, <1>2, <1>3, <1>4 DEF Next, Fault

\* The set gains a stream that is below the cap, or one that has waited.
LEMMA CapKept ==
  ASSUME TypeOK, Cardinality(subscribers \ waited) <= Cap, NEW c \in Streams,
         ~Full \/ c \in waited
  PROVE  Cardinality((subscribers \cup {c}) \ waited) <= Cap
<1>1. IsFiniteSet(subscribers) /\ IsFiniteSet(subscribers \ waited)
  BY HubAssumption, FS_Subset DEF TypeOK
<1>2. CASE c \in waited
  <2>1. (subscribers \cup {c}) \ waited = subscribers \ waited
    BY <1>2
  <2> QED
    BY <2>1
<1>3. CASE ~Full
  <2>1. IsFiniteSet(subscribers \cup {c}) /\ Cardinality(subscribers \cup {c}) <= Cardinality(subscribers) + 1
    <3>1. Cardinality(subscribers) \in Nat
      BY <1>1, FS_CardinalityType
    <3>2. /\ IsFiniteSet(subscribers \cup {c})
          /\ Cardinality(subscribers \cup {c}) =
               IF c \in subscribers THEN Cardinality(subscribers) ELSE Cardinality(subscribers) + 1
      BY <1>1, FS_AddElement
    <3> QED
      BY <3>1, <3>2
  <2>2. Cardinality((subscribers \cup {c}) \ waited) <= Cardinality(subscribers \cup {c})
    BY <2>1, FS_Subset
  <2>3. /\ Cardinality(subscribers) \in Nat /\ Cardinality(subscribers \cup {c}) \in Nat
        /\ Cardinality((subscribers \cup {c}) \ waited) \in Nat
    BY <1>1, <2>1, FS_Subset, FS_CardinalityType
  <2> QED
    BY <1>3, <2>1, <2>2, <2>3, HubAssumption DEF Full
<1> QED
  BY <1>2, <1>3

LEMMA CapShrinks ==
  ASSUME TypeOK, Cardinality(subscribers \ waited) <= Cap,
         NEW S, S \subseteq subscribers \ waited
  PROVE  Cardinality(S) <= Cap
<1>1. IsFiniteSet(subscribers \ waited)
  BY HubAssumption, FS_Subset DEF TypeOK
<1>2. Cardinality(S) \in Nat /\ Cardinality(subscribers \ waited) \in Nat
      /\ Cardinality(S) <= Cardinality(subscribers \ waited)
  BY <1>1, FS_Subset, FS_CardinalityType
<1> QED
  BY <1>2, HubAssumption

LEMMA CountedStep ==
  ASSUME TypeOK, LockKept, Members, Counted, [Next]_vars
  PROVE  Counted'
<1>0. Fault => Fault'
  BY FaultStays
<1>1. ASSUME NEW c \in Streams, Subscribe(c) \/ Enter(c) PROVE Counted'
  <2>1. /\ phase[c] \in {"new", "joining"} /\ Join(c) /\ UNCHANGED waited
        /\ subscribers' = subscribers \cup {c}
    BY <1>1, Entering DEF Join
  <2>2. phase'[c] \in {"starting", "on"} /\ \A d \in Streams \ {c} : phase'[d] = phase[d]
    BY <2>1, Phased DEF Join, On
  <2>3. ~Full \/ c \in waited
    BY <1>1 DEF Subscribe, Enter, Counted
  <2>4. Cardinality((subscribers \cup {c}) \ waited) <= Cap
    BY <2>3, CapKept DEF Counted
  <2> QED
    BY <1>0, <2>1, <2>2, <2>4 DEF Counted, TypeOK
<1>2. ASSUME NEW c \in Streams, Leave(c) \/ EnterToLeave(c) PROVE Counted'
  <2>1. /\ Drop(c) /\ subscribers' = subscribers \ {c} /\ waited' = waited \ {c}
    BY <1>2, Departing DEF Drop
  <2>2. phase'[c] \in {"stopping", "closed"} /\ \A d \in Streams \ {c} : phase'[d] = phase[d]
    BY <2>1, Phased DEF Drop
  <2>3. Cardinality(subscribers' \ waited') <= Cap
    BY <2>1, CapShrinks DEF Counted
  <2> QED
    BY <1>0, <2>1, <2>2, <2>3 DEF Counted, TypeOK
<1>3. ASSUME NEW c \in Streams, GiveUp(c) PROVE Counted'
  <2>1. /\ phase[c] = "joining" /\ subscribers' = subscribers /\ waited' = waited \ {c}
        /\ Goes(c, "closed")
    BY <1>3 DEF GiveUp
  <2>2. phase'[c] = "closed" /\ \A d \in Streams \ {c} : phase'[d] = phase[d]
    BY <2>1, Phased
  <2>3. c \notin subscribers
    BY <2>1 DEF Members
  <2>4. Cardinality(subscribers' \ waited') <= Cap
    BY <2>1, <2>3, CapShrinks DEF Counted
  <2> QED
    BY <1>0, <2>1, <2>2, <2>3, <2>4 DEF Counted, TypeOK
<1>4. ASSUME NEW c \in Streams, Wait(c) PROVE Counted'
  <2>1. /\ phase[c] = "new" /\ subscribers' = subscribers /\ waited' = waited \cup {c}
        /\ Goes(c, "joining")
    BY <1>4 DEF Wait
  <2>2. phase'[c] = "joining" /\ \A d \in Streams \ {c} : phase'[d] = phase[d]
    BY <2>1, Phased
  <2>3. c \notin subscribers
    BY <2>1 DEF Members
  <2>4. Cardinality(subscribers' \ waited') <= Cap
    BY <2>1, CapShrinks DEF Counted
  <2> QED
    BY <1>0, <2>1, <2>2, <2>3, <2>4 DEF Counted, TypeOK
<1>5. ASSUME NEW c \in Streams, NEW p \in {"on", "leaving", "closed"},
             p = "closed" => c \notin subscribers \/ Fault',
             Goes(c, p), UNCHANGED <<subscribers, waited>>
      PROVE  Counted'
  <2>1. phase'[c] = p /\ \A d \in Streams \ {c} : phase'[d] = phase[d]
    BY <1>5, Phased
  <2> QED
    BY <1>0, <1>5, <2>1 DEF Counted, TypeOK
<1>6. ASSUME NEW c \in Streams, Started(c) \/ Stopped(c) \/ WaitToLeave(c) \/ Refuse(c)
      PROVE  Counted'
  BY <1>5, <1>6 DEF Started, On, Stopped, WaitToLeave, Refuse, Members, hub
<1>7. ASSUME NEW c \in Streams, StreamFault(c) PROVE Counted'
  BY <1>5, <1>7, Failing, HappensType DEF Kinds
<1>8. ASSUME UNCHANGED <<phase, subscribers, waited>> PROVE Counted'
  BY <1>0, <1>8 DEF Counted
<1>9. ASSUME NEW c \in Streams, Receive(c) \/ Refetch(c) \/ Confirmed(c) \/ Read(c) \/ ReaderDies(c)
      PROVE  Counted'
  BY <1>8, <1>9 DEF Receive, Refetch, Confirmed, Read, ReaderDies, hub
<1>10. CASE Publish \/ Commit \/ UNCHANGED vars
  BY <1>8, <1>10 DEF Publish, Commit, vars, hub
<1> QED
  BY <1>1, <1>2, <1>3, <1>4, <1>6, <1>7, <1>9, <1>10 DEF Next, Client, StreamStep
-----------------------------------------------------------------------------
(* The connection *)

LEMMA ServedStep ==
  ASSUME TypeOK, LockKept, Members, Served, [Next]_vars
  PROVE  Served'
<1>0. Fault => Fault'
  BY FaultStays
<1>1. ASSUME NEW c \in Streams, Subscribe(c) \/ Enter(c) PROVE Served'
  <2>1. phase[c] \in {"new", "joining"} /\ ~Busy /\ Join(c) /\ readers' = readers
    BY <1>1, Entering
  <2>2. CASE subscribers = {}
    <3>1. phase'[c] = "starting" /\ \A d \in Streams \ {c} : phase'[d] = phase[d]
      BY <2>1, <2>2, Phased DEF Join
    <3> QED
      BY <1>0, <2>1, <2>2, <3>1 DEF Join, Served, Busy
  <2>3. CASE subscribers # {}
    <3>1. phase'[c] = "on" /\ \A d \in Streams \ {c} : phase'[d] = phase[d]
      BY <2>1, <2>3, Phased DEF Join, On
    <3> QED
      BY <1>0, <2>1, <2>3, <3>1 DEF Join, Served, Busy
  <2> QED
    BY <2>2, <2>3
<1>2. ASSUME NEW c \in Streams, Leave(c) \/ EnterToLeave(c) PROVE Served'
  <2>1. /\ phase[c] \in {"on", "leaving"} /\ ~Busy /\ Drop(c)
        /\ UNCHANGED <<current, open>> /\ c \in subscribers
    BY <1>2, Departing DEF Members
  <2>2. CASE subscribers' = {}
    <3>1. phase'[c] = "stopping" /\ \A d \in Streams \ {c} : phase'[d] = phase[d]
      BY <2>1, <2>2, Phased DEF Drop
    <3> QED
      BY <1>0, <2>1, <2>2, <3>1 DEF Drop, Served, Busy
  <2>3. CASE subscribers' # {}
    <3>1. phase'[c] = "closed" /\ \A d \in Streams \ {c} : phase'[d] = phase[d]
      BY <2>1, <2>3, Phased DEF Drop
    <3> QED
      BY <1>0, <2>1, <2>3, <3>1 DEF Drop, Served, Busy
  <2> QED
    BY <2>2, <2>3
<1>3. ASSUME NEW c \in Streams, Started(c) PROVE Served'
  <2>1. phase'[c] = "on" /\ \A d \in Streams \ {c} : phase'[d] = phase[d]
    BY <1>3, Phased DEF Started, On
  <2>2. \A d \in Streams \ {c} : phase[d] \notin {"starting", "stopping"}
    BY <1>3, OneBusy DEF Started
  <2>3. Busy /\ ~Busy'
    BY <1>3, <2>1, <2>2 DEF Started, Busy
  <2> QED
    BY <1>0, <1>3, <2>3 DEF Started, Served, Members
<1>4. ASSUME NEW c \in Streams, Stopped(c) PROVE Served'
  <2>1. phase'[c] = "closed" /\ \A d \in Streams \ {c} : phase'[d] = phase[d]
    BY <1>4, Phased DEF Stopped
  <2>2. \A d \in Streams \ {c} : phase[d] \notin {"starting", "stopping"}
    BY <1>4, OneBusy DEF Stopped
  <2>3. Busy /\ ~Busy'
    BY <1>4, <2>1, <2>2 DEF Stopped, Busy
  <2> QED
    BY <1>0, <1>4, <2>3 DEF Stopped, Served, Members
<1>5. ASSUME NEW c \in Streams, NEW p \in {"joining", "leaving", "closed"}, Goes(c, p),
             phase[c] \notin {"starting", "stopping"},
             UNCHANGED <<subscribers, current, readers, open>>
      PROVE  Served'
  <2>1. phase'[c] = p /\ \A d \in Streams \ {c} : phase'[d] = phase[d]
    BY <1>5, Phased
  <2>2. Busy' <=> Busy
    BY <1>5, <2>1 DEF Busy
  <2> QED
    BY <1>0, <1>5, <2>2 DEF Served
<1>6. ASSUME NEW c \in Streams, Refuse(c) \/ Wait(c) \/ GiveUp(c) \/ WaitToLeave(c)
      PROVE  Served'
  BY <1>5, <1>6 DEF Refuse, Wait, GiveUp, WaitToLeave, hub
<1>7. ASSUME NEW c \in Streams, StreamFault(c) \/ ReaderDies(c) PROVE Served'
  BY <1>7, Failing, HappensType DEF ReaderDies, Kinds, Served
<1>8. ASSUME UNCHANGED <<phase, subscribers, current, readers, open>> PROVE Served'
  BY <1>0, <1>8 DEF Served, Busy
<1>9. ASSUME NEW c \in Streams, Receive(c) \/ Refetch(c) \/ Confirmed(c) \/ Read(c) PROVE Served'
  BY <1>8, <1>9 DEF Receive, Refetch, Confirmed, Read, hub
<1>10. CASE Publish \/ Commit \/ UNCHANGED vars
  BY <1>8, <1>10 DEF Publish, Commit, vars, hub
<1> QED
  BY <1>1, <1>2, <1>3, <1>4, <1>6, <1>7, <1>9, <1>10 DEF Next, Client, StreamStep

LEMMA BareWireStep ==
  ASSUME TypeOK, LockKept, Members, BareWire, [Next]_vars
  PROVE  BareWire'
<1>1. ASSUME NEW c \in Streams, Subscribe(c) \/ Enter(c) PROVE BareWire'
  BY <1>1, Entering DEF BareWire
<1>2. ASSUME NEW c \in Streams, Leave(c) \/ EnterToLeave(c) PROVE BareWire'
  <2>1. Drop(c)
    BY <1>2, Departing
  <2>2. CASE subscribers' = {}
    BY <2>1, <2>2 DEF Drop, BareWire, TypeOK
  <2>3. CASE subscribers' # {}
    BY <2>1, <2>3 DEF Drop, BareWire
  <2> QED
    BY <2>2, <2>3
<1>3. ASSUME NEW c \in Streams,
             Started(c) \/ Stopped(c) \/ StreamFault(c) \/ Refuse(c) \/ Wait(c) \/ GiveUp(c)
               \/ WaitToLeave(c) \/ Receive(c) \/ Refetch(c)
      PROVE  BareWire'
  BY <1>3, Failing DEF Started, Stopped, Refuse, Wait, GiveUp, WaitToLeave, Receive, Refetch,
                      hub, BareWire
<1>4. ASSUME NEW c \in Streams, Confirmed(c) \/ ReaderDies(c) PROVE BareWire'
  BY <1>4 DEF Confirmed, ReaderDies, BareWire, TypeOK
<1>6. ASSUME NEW c \in Streams, Read(c) PROVE BareWire'
  BY <1>6 DEF Read, Members, hub, BareWire, TypeOK
<1>5. CASE Publish \/ Commit \/ UNCHANGED vars
  BY <1>5 DEF Publish, Commit, vars, hub, BareWire
<1> QED
  BY <1>1, <1>2, <1>3, <1>4, <1>5, <1>6 DEF Next, Client, StreamStep
-----------------------------------------------------------------------------
\* A stream that is tuned in stays so until it goes; one that is not has had nothing.
LEMMA SilentStep ==
  ASSUME TypeOK, LockKept, Members, BareWire, Silent, [Next]_vars
  PROVE  Silent'
<1>1. ASSUME NEW c \in Streams, Subscribe(c) \/ Enter(c) PROVE Silent'
  <2>1. /\ phase[c] \in {"new", "joining"} /\ Join(c) /\ UNCHANGED <<queue, subscribed>>
        /\ c \notin subscribers /\ c \notin Tuned
    BY <1>1, Entering DEF Members, Tuned
  <2>2. CASE subscribers = {}
    <3>1. phase'[c] = "starting" /\ \A d \in Streams \ {c} : phase'[d] = phase[d]
      BY <2>1, <2>2, Phased DEF Join
    <3>2. ~Live /\ ~Live' /\ UNCHANGED page
      BY <2>1, <2>2 DEF Members, Join, Live
    <3> QED
      BY <2>1, <3>1, <3>2 DEF Silent, Tuned, page
  <2>3. CASE subscribers # {}
    <3>1. phase'[c] = "on" /\ \A d \in Streams \ {c} : phase'[d] = phase[d]
      BY <2>1, <2>3, Phased DEF Join, On
    <3>2. /\ UNCHANGED <<current, got, touched, missed>> /\ subscribers' = subscribers \cup {c}
          /\ since' = IF Live THEN [since EXCEPT ![c] = published] ELSE since
      BY <2>1, <2>3 DEF Join, On
    <3> QED
      BY <2>1, <3>1, <3>2 DEF Silent, Tuned, Live, TypeOK
  <2> QED
    BY <2>2, <2>3
<1>2. ASSUME NEW c \in Streams, Leave(c) \/ EnterToLeave(c) PROVE Silent'
  <2>1. /\ phase[c] \in {"on", "leaving"} /\ Drop(c) /\ current' = current
        /\ Forgets(c) \/ (UNCHANGED page /\ c \notin Tuned)
    BY <1>2, Departing DEF Leave, EnterToLeave, Tuned
  <2>2. /\ phase'[c] \in {"stopping", "closed"} /\ \A d \in Streams \ {c} : phase'[d] = phase[d]
        /\ queue' = [queue EXCEPT ![c] = <<>>] /\ subscribers' = subscribers \ {c}
    BY <2>1, Phased DEF Drop
  <2>3. subscribers' # {} => (Live' <=> Live)
    BY <2>1 DEF Drop, Live
  <2>4. ASSUME NEW d \in Streams, phase'[d] = "on" PROVE d \in subscribers'
    BY <2>2, <2>4 DEF Members
  <2>5. ASSUME NEW d \in Streams, d \notin Tuned'
        PROVE  got'[d] = <<>> /\ since'[d] = 0 /\ d \notin touched' /\ d \notin missed'
    <3>1. CASE d = c
      BY <2>1, <3>1 DEF Forgets, Silent, page, TypeOK
    <3>2. CASE d # c
      <4>1. d \notin Tuned
        BY <2>2, <2>3, <2>4, <2>5, <3>2 DEF Tuned
      <4> QED
        BY <2>1, <3>2, <4>1 DEF Forgets, Silent, page, TypeOK
    <3> QED
      BY <3>1, <3>2
  <2>6. ASSUME NEW d \in Streams, d \notin subscribers' \/ ~Live' PROVE queue'[d] = <<>>
    <3>1. CASE d = c
      BY <2>2, <3>1 DEF TypeOK
    <3>2. CASE d # c
      <4>1. d \notin subscribers \/ ~Live
        BY <2>2, <2>3, <2>6, <3>2
      <4> QED
        BY <2>2, <3>2, <4>1 DEF Silent, TypeOK
    <3> QED
      BY <3>1, <3>2
  <2> QED
    BY <2>5, <2>6 DEF Silent
<1>3. ASSUME NEW c \in Streams, Started(c) PROVE Silent'
  <2>1. phase'[c] = "on" /\ \A d \in Streams \ {c} : phase'[d] = phase[d]
    BY <1>3, Phased DEF Started, On
  <2>2. /\ UNCHANGED <<current, subscribed, subscribers, queue, got, touched, missed>>
        /\ since' = IF Live THEN [since EXCEPT ![c] = published] ELSE since
        /\ c \notin Tuned
    BY <1>3 DEF Started, On, Tuned
  <2> QED
    BY <2>1, <2>2 DEF Silent, Tuned, Live, TypeOK
<1>4. ASSUME NEW c \in Streams, NEW p \in {"joining", "closed"}, phase[c] # "on", Goes(c, p),
             UNCHANGED <<current, subscribed, subscribers, queue, page>>
      PROVE  Silent'
  <2>1. phase'[c] = p /\ \A d \in Streams \ {c} : phase'[d] = phase[d]
    BY <1>4, Phased
  <2> QED
    BY <1>4, <2>1 DEF Silent, Tuned, Live, page
<1>5. ASSUME NEW c \in Streams, StreamFault(c) \/ Refuse(c) \/ Wait(c) \/ GiveUp(c)
      PROVE  Silent'
  BY <1>4, <1>5, Failing DEF Refuse, Wait, GiveUp, hub
<1>6. ASSUME NEW c \in Streams, Stopped(c) PROVE Silent'
  <2>1. phase'[c] = "closed" /\ \A d \in Streams \ {c} : phase'[d] = phase[d]
    BY <1>6, Phased DEF Stopped
  <2>2. subscribed = {} /\ UNCHANGED <<subscribed, subscribers, queue, page>>
    BY <1>6 DEF Stopped, Members
  <2> QED
    BY <2>1, <2>2 DEF Silent, Tuned, Live, page
<1>7. ASSUME NEW c \in Streams, WaitToLeave(c) PROVE Silent'
  <2>1. phase'[c] = "leaving" /\ \A d \in Streams \ {c} : phase'[d] = phase[d]
    BY <1>7, Phased DEF WaitToLeave
  <2>2. UNCHANGED <<current, subscribed, subscribers, queue>> /\ Forgets(c)
    BY <1>7 DEF WaitToLeave
  <2> QED
    BY <2>1, <2>2 DEF Silent, Tuned, Live, Forgets, TypeOK
<1>8. ASSUME NEW r \in Streams, Confirmed(r) PROVE Silent'
  BY <1>8 DEF Confirmed, Silent, Tuned, Live, Members
<1>9. ASSUME NEW r \in Streams, Read(r) PROVE Silent'
  <2>1. Live /\ Live' /\ FanOut(Head(wire[r]))
    BY <1>9 DEF Read, BareWire, Members, Live, hub
  <2>2. UNCHANGED <<phase, subscribers, got, touched, since>>
    BY <1>9 DEF Read, hub
  <2> QED
    BY <2>1, <2>2 DEF FanOut, Silent, Tuned
<1>10. ASSUME NEW c \in Streams, Receive(c) PROVE Silent'
  <2>1. c \in subscribers /\ Live /\ c \in Tuned
    BY <1>10 DEF Receive, Silent, Tuned
  <2> QED
    BY <1>10, <2>1 DEF Receive, Silent, Tuned, Live, hub, TypeOK
<1>11. ASSUME NEW c \in Streams, Refetch(c) PROVE Silent'
  <2>1. c \in Tuned
    BY <1>11 DEF Refetch, Silent
  <2>2. missed' \subseteq missed \cup {c} /\ touched' \subseteq touched
    BY <1>11 DEF Refetch
  <2> QED
    BY <1>11, <2>1, <2>2 DEF Refetch, Silent, Tuned, Live, hub
<1>12. CASE Publish \/ Commit \/ UNCHANGED vars
  BY <1>12 DEF Publish, Commit, vars, hub, page, Silent, Tuned, Live
<1>13. ASSUME NEW c \in Streams, ReaderDies(c) PROVE Silent'
  BY <1>13 DEF ReaderDies, page, Silent, Tuned, Live
<1> QED
  BY <1>1, <1>2, <1>3, <1>5, <1>6, <1>7, <1>8, <1>9, <1>10, <1>11, <1>12, <1>13
     DEF Next, Client, StreamStep
-----------------------------------------------------------------------------
(* What a stream hears *)

Wired == IF current = None THEN <<>> ELSE wire[current]

HeardBy(c) ==
  /\ Orderly(Pending(c), published)
  /\ (c \in Tuned /\ c \notin missed /\ ~Fault) => Covers(Pending(c), since[c], published)

LEMMA PendingParts ==
  ASSUME TypeOK
  PROVE  /\ Wired \in Seq(Envelopes)
         /\ \A c \in Streams : /\ got[c] \in Seq(Envelopes) /\ queue[c] \in Seq(Envelopes)
                              /\ got[c] \o queue[c] \in Seq(Envelopes)
                              /\ Pending(c) = (got[c] \o queue[c]) \o Wired
                              /\ Pending(c) \in Seq(Envelopes)
<1>1. Wired \in Seq(Envelopes)
  <2>1. CASE current = None
    BY <2>1 DEF Wired
  <2>2. CASE current # None
    BY <2>2 DEF TypeOK, Wired
  <2> QED
    BY <2>1, <2>2
<1>2. ASSUME NEW c \in Streams
      PROVE  /\ got[c] \in Seq(Envelopes) /\ queue[c] \in Seq(Envelopes)
             /\ got[c] \o queue[c] \in Seq(Envelopes)
  BY DEF TypeOK
<1>3. \A c \in Streams : Pending(c) = (got[c] \o queue[c]) \o Wired
  BY DEF Pending, Wired
<1> QED
  BY <1>1, <1>2, <1>3, ConcatProperties

LEMMA PendingNext ==
  ASSUME NEW c \in Streams
  PROVE  Pending(c)' = (got'[c] \o queue'[c]) \o Wired'
  BY DEF Pending, Wired

\* A stream that was tuned in before hears what it heard, if nothing ahead is lost.
LEMMA HeardSame ==
  ASSUME NEW d \in Streams, HeardBy(d), Pending(d)' = Pending(d), published' = published,
         d \in Tuned' /\ d \notin missed' /\ ~Fault'
           => d \in Tuned /\ d \notin missed /\ ~Fault /\ since'[d] = since[d]
  PROVE  HeardBy(d)'
  BY DEF HeardBy

LEMMA NothingBetween == \A n \in Nat : (n + 1)..n = {}
  OBVIOUS

\* One that is not tuned in, has lost some, or has just been, is promised an order only.
LEMMA HeardInOrder ==
  ASSUME NEW d \in Streams, Orderly(Pending(d)', published'), published' \in Nat,
         \/ d \notin Tuned' \/ d \in missed' \/ Fault'
         \/ since'[d] = published'
  PROVE  HeardBy(d)'
<1>1. \A x : Covers(x, published', published')
  <2>1. (published' + 1)..published' = {}
    BY NothingBetween
  <2> QED
    BY <2>1 DEF Covers
<1> QED
  BY <1>1 DEF HeardBy

\* The connection is exchanged for one that carries nothing yet, or for none.
LEMMA PendingCut ==
  ASSUME TypeOK, TypeOK', NEW d \in Streams, Orderly(Pending(d), published),
         UNCHANGED <<got, queue, published>>, Wired' = <<>>
  PROVE  Orderly(Pending(d)', published')
<1>1. /\ got[d] \o queue[d] \in Seq(Envelopes) /\ Wired \in Seq(Envelopes)
      /\ Pending(d) = (got[d] \o queue[d]) \o Wired
  BY PendingParts
<1>2. Orderly(got[d] \o queue[d], published)
  BY <1>1, OrderlyParts
<1>3. Pending(d)' = (got[d] \o queue[d]) \o <<>>
  BY PendingNext
<1>4. Pending(d)' = got[d] \o queue[d]
  BY <1>1, <1>3, ConcatEmptySeq
<1> QED
  BY <1>2, <1>4

LEMMA JoinHeard ==
  ASSUME TypeOK, TypeOK', LockKept, Members, BareWire, Heard,
         NEW c \in Streams, Subscribe(c) \/ Enter(c)
  PROVE  Heard'
<1>1. phase[c] \in {"new", "joining"} /\ Join(c) /\ UNCHANGED <<queue, readers, subscribed, wire, rows, used>>
  BY Entering
<1>2. published' \in Nat /\ published' = published
  BY <1>1, Numbers DEF rows
<1> SUFFICES ASSUME NEW d \in Streams PROVE HeardBy(d)'
  BY DEF Heard, HeardBy
<1>3. HeardBy(d)
  BY DEF Heard, HeardBy
<1>4. CASE subscribers = {}
  <2>1. phase'[c] = "starting" /\ \A x \in Streams \ {c} : phase'[x] = phase[x]
    BY <1>1, <1>4, Phased DEF Join
  <2>2. phase'[d] # "on"
    BY <1>4, <2>1 DEF Members
  <2>3. wire[c] = <<>> /\ Wired' = <<>>
    BY <1>1, <1>4, HubAssumption DEF Members, BareWire, Join, Wired
  <2>4. Orderly(Pending(d)', published')
    BY <1>1, <1>2, <1>3, <1>4, <2>3, PendingCut DEF HeardBy, Join, page
  <2> QED
    BY <1>2, <2>2, <2>4, HeardInOrder DEF Tuned
<1>5. CASE subscribers # {}
  <2>1. /\ phase'[c] = "on" /\ \A x \in Streams \ {c} : phase'[x] = phase[x]
        /\ UNCHANGED <<current, subscribed, got, missed>>
        /\ since' = IF Live THEN [since EXCEPT ![c] = published] ELSE since
    BY <1>1, <1>5, Phased DEF Join, On
  <2>2. Pending(d)' = Pending(d) /\ (Fault' <=> Fault)
    BY <1>1, <2>1 DEF Pending, Fault
  <2>3. CASE d = c
    BY <1>2, <1>3, <2>1, <2>2, <2>3, HeardInOrder DEF HeardBy, TypeOK, Tuned, Live
  <2>4. CASE d # c
    BY <1>2, <1>3, <2>1, <2>2, <2>4, HeardSame DEF TypeOK, Tuned, Live
  <2> QED
    BY <2>3, <2>4
<1> QED
  BY <1>4, <1>5

LEMMA DropHeard ==
  ASSUME TypeOK, TypeOK', LockKept, Members, Heard,
         NEW c \in Streams, Leave(c) \/ EnterToLeave(c)
  PROVE  Heard'
<1>1. /\ phase[c] \in {"on", "leaving"} /\ Drop(c) /\ UNCHANGED <<current, rows, used>>
      /\ Forgets(c) \/ UNCHANGED page
  BY Departing
<1>2. published' \in Nat /\ published' = published /\ (Fault' <=> Fault)
  BY <1>1, Numbers DEF rows, Fault
<1>3. phase'[c] \in {"stopping", "closed"} /\ \A x \in Streams \ {c} : phase'[x] = phase[x]
  BY <1>1, Phased DEF Drop
<1>4. Wired' = Wired \/ Wired' = <<>>
  BY <1>1 DEF Drop, Wired, TypeOK
<1>5. subscribers' # {} => Wired' = Wired
  BY <1>1 DEF Drop, Wired
<1> SUFFICES ASSUME NEW d \in Streams PROVE HeardBy(d)'
  BY DEF Heard, HeardBy
<1>6. HeardBy(d) /\ Orderly(Pending(d), published)
  BY DEF Heard, HeardBy
<1>7. /\ got[d] \in Seq(Envelopes) /\ queue[d] \in Seq(Envelopes) /\ Wired \in Seq(Envelopes)
      /\ got[d] \o queue[d] \in Seq(Envelopes)
      /\ Pending(d) = (got[d] \o queue[d]) \o Wired
      /\ Pending(d)' = (got'[d] \o queue'[d]) \o Wired'
  BY PendingParts, PendingNext
<1>8. CASE d # c
  <2>1. got'[d] = got[d] /\ queue'[d] = queue[d] /\ since'[d] = since[d]
        /\ (d \in missed' <=> d \in missed)
    BY <1>1, <1>8 DEF Drop, Forgets, page, TypeOK
  <2>2. CASE phase[d] = "on"
    <3>1. subscribers' # {}
      BY <1>1, <1>8, <2>2 DEF Members, Drop
    <3>2. Pending(d)' = Pending(d)
      BY <1>5, <1>7, <2>1, <3>1
    <3>3. UNCHANGED <<current, subscribed>>
      BY <1>1, <3>1 DEF Drop
    <3> QED
      BY <1>2, <1>3, <1>6, <1>8, <2>1, <2>2, <3>2, <3>3, HeardSame DEF Tuned, Live
  <2>3. CASE phase[d] # "on"
    <3>1. Orderly(got[d] \o queue[d], published)
      BY <1>6, <1>7, OrderlyParts
    <3>2. Pending(d)' = Pending(d) \/ Pending(d)' = got[d] \o queue[d]
      BY <1>4, <1>7, <2>1, ConcatEmptySeq
    <3>3. Orderly(Pending(d)', published')
      BY <1>2, <1>6, <3>1, <3>2
    <3> QED
      BY <1>2, <1>3, <1>8, <2>3, <3>3, HeardInOrder DEF Tuned
  <2> QED
    BY <2>2, <2>3
<1>9. CASE d = c
  <2>1. queue'[d] = <<>> /\ (got'[d] = got[d] \/ got'[d] = <<>>)
    BY <1>1, <1>9 DEF Drop, Forgets, page, TypeOK
  <2>2. /\ Orderly(got[d], published) /\ Orderly(Wired, published) /\ Orderly(<<>>, published)
        /\ Orderly(got[d] \o Wired, published)
    <3>1. Orderly(got[d] \o queue[d], published) /\ Orderly(Wired, published)
      BY <1>6, <1>7, OrderlyParts
    <3>2. Orderly(got[d], published)
      BY <1>7, <3>1, OrderlyParts
    <3>3. Orderly(got[d] \o Wired, published)
      BY <1>6, <1>7, OrderlyMiddle
    <3>4. Orderly(<<>>, published)
      BY DEF Orderly, InOrder
    <3> QED
      BY <3>1, <3>2, <3>3, <3>4
  <2>3. got'[d] \o queue'[d] = got'[d] /\ got'[d] \in Seq(Envelopes)
    <3>0. <<>> \in Seq(Envelopes)
      OBVIOUS
    <3>1. got'[d] \in Seq(Envelopes)
      BY <1>7, <2>1, <3>0
    <3> QED
      BY <2>1, <3>1, ConcatEmptySeq
  <2>4. Pending(d)' = got'[d] \o Wired'
    BY <1>7, <2>3
  <2>5. Pending(d)' \in {got[d] \o Wired, Wired, got[d], <<>>}
    <3>1. <<>> \o Wired = Wired /\ got[d] \o <<>> = got[d] /\ <<>> \o <<>> = <<>>
      BY <1>7, ConcatEmptySeq
    <3> QED
      BY <1>4, <2>1, <2>4, <3>1
  <2>6. Orderly(Pending(d)', published')
    BY <1>2, <2>2, <2>5
  <2> QED
    BY <1>2, <1>3, <1>9, <2>6, HeardInOrder DEF Tuned
<1> QED
  BY <1>8, <1>9

LEMMA StreamHeard ==
  ASSUME TypeOK, TypeOK', LockKept, Members, Heard, NEW c \in Streams,
         Started(c) \/ Stopped(c) \/ StreamFault(c) \/ Refuse(c) \/ Wait(c) \/ GiveUp(c)
           \/ WaitToLeave(c)
  PROVE  Heard'
<1>0. published \in Nat
  BY Numbers
<1> SUFFICES ASSUME NEW d \in Streams PROVE HeardBy(d)'
  BY DEF Heard, HeardBy
<1>1. HeardBy(d) /\ Orderly(Pending(d), published)
  BY DEF Heard, HeardBy
<1>2. CASE Started(c)
  <2>1. phase'[c] = "on" /\ \A x \in Streams \ {c} : phase'[x] = phase[x]
    BY <1>2, Phased DEF Started, On
  <2>2. /\ Pending(d)' = Pending(d) /\ published' = published /\ (Fault' <=> Fault)
        /\ missed' = missed /\ (Live' <=> Live)
        /\ since' = IF Live THEN [since EXCEPT ![c] = published] ELSE since
    BY <1>2 DEF Started, On, Pending, Live, rows, Fault
  <2>3. CASE d = c
    BY <1>0, <1>1, <2>2, <2>3, HeardInOrder DEF TypeOK, Tuned
  <2>4. CASE d # c
    BY <1>1, <2>1, <2>2, <2>4, HeardSame DEF TypeOK, Tuned
  <2> QED
    BY <2>3, <2>4
<1>3. CASE Stopped(c)
  <2>1. phase'[c] = "closed" /\ \A x \in Streams \ {c} : phase'[x] = phase[x]
    BY <1>3, Phased DEF Stopped
  <2>2. phase'[d] # "on"
    BY <1>3, <2>1 DEF Stopped, Members
  <2>3. Wired' = <<>> /\ UNCHANGED <<got, queue, published>>
    BY <1>3 DEF Stopped, Wired, rows, page
  <2>4. Orderly(Pending(d)', published')
    BY <1>1, <2>3, PendingCut
  <2> QED
    BY <1>0, <2>2, <2>3, <2>4, HeardInOrder DEF Tuned
<1>4. CASE StreamFault(c)
  <2>1. Fault' /\ Pending(d)' = Pending(d) /\ published' = published
    BY <1>4, Failing, HappensType DEF Pending, rows, page, Kinds
  <2> QED
    BY <1>0, <1>1, <2>1, HeardInOrder
<1>5. CASE Refuse(c) \/ Wait(c) \/ GiveUp(c)
  <2>1. /\ Pending(d)' = Pending(d) /\ published' = published /\ (Fault' <=> Fault)
        /\ missed' = missed /\ since' = since /\ (Live' <=> Live)
    BY <1>5 DEF Refuse, Wait, GiveUp, Pending, Live, hub, rows, page, Fault
  <2>2. phase'[c] \in {"joining", "closed"} /\ \A x \in Streams \ {c} : phase'[x] = phase[x]
    BY <1>5, Phased DEF Refuse, Wait, GiveUp
  <2> QED
    BY <1>1, <2>1, <2>2, HeardSame DEF Tuned
<1>6. CASE WaitToLeave(c)
  <2>1. /\ phase'[c] = "leaving" /\ \A x \in Streams \ {c} : phase'[x] = phase[x]
        /\ UNCHANGED <<queue, wire, current, subscribed, published, used>> /\ Forgets(c)
    BY <1>6, Phased DEF WaitToLeave, rows
  <2>2. CASE d # c
    <3>1. Pending(d)' = Pending(d) /\ since'[d] = since[d] /\ (d \in missed' <=> d \in missed)
      BY <2>1, <2>2 DEF Forgets, Pending, TypeOK
    <3> QED
      BY <1>1, <2>1, <2>2, <3>1, HeardSame DEF Fault, Tuned, Live
  <2>3. CASE d = c
    <3>1. /\ got[d] \in Seq(Envelopes) /\ queue[d] \in Seq(Envelopes) /\ Wired \in Seq(Envelopes)
          /\ Pending(d) = (got[d] \o queue[d]) \o Wired
          /\ Pending(d)' = (<<>> \o queue[d]) \o Wired
      <4>1. got'[d] = <<>> /\ queue' = queue /\ Wired' = Wired
        BY <2>1, <2>3 DEF Forgets, Wired, TypeOK
      <4> QED
        BY <4>1, PendingParts, PendingNext
    <3>2. Pending(d)' = queue[d] \o Wired /\ queue[d] \o Wired \in Seq(Envelopes)
      BY <3>1, ConcatEmptySeq, ConcatProperties
    <3>3. Pending(d) = got[d] \o (queue[d] \o Wired)
      <4>1. (got[d] \o queue[d]) \o Wired = got[d] \o (queue[d] \o Wired)
        BY <3>1, Associates
      <4> QED
        BY <3>1, <4>1
    <3>4. Orderly(Pending(d)', published)
      BY <1>1, <3>1, <3>2, <3>3, OrderlyParts
    <3> QED
      BY <1>0, <2>1, <2>3, <3>4, HeardInOrder DEF Tuned
  <2> QED
    BY <2>2, <2>3
<1> QED
  BY <1>2, <1>3, <1>4, <1>5, <1>6

\* An envelope that is published is ahead of every stream that is on, while
\* Redis serves the connection.
LEMMA PublishHeard ==
  ASSUME TypeOK, Heard, Publish
  PROVE  Heard'
<1> DEFINE n == published + 1
<1>1. /\ published' = n /\ published \in Nat /\ n \in Envelopes /\ Events \in Nat
      /\ UNCHANGED <<phase, current, subscribed, got, queue, since, missed, used>>
  BY Numbers DEF Publish, hub, page, Envelopes
<1>2. Wired' = IF Live THEN Append(Wired, n) ELSE Wired
  BY <1>1, HubAssumption DEF Publish, Wired, Live, TypeOK
<1> SUFFICES ASSUME NEW d \in Streams PROVE HeardBy(d)'
  BY DEF Heard, HeardBy
<1>3. HeardBy(d) /\ Orderly(Pending(d), published)
  BY DEF Heard, HeardBy
<1>4. /\ Pending(d) \in Seq(Envelopes) /\ Wired \in Seq(Envelopes)
      /\ got[d] \o queue[d] \in Seq(Envelopes)
      /\ Pending(d) = (got[d] \o queue[d]) \o Wired
      /\ Pending(d)' = (got[d] \o queue[d]) \o Wired'
  BY <1>1, PendingParts, PendingNext
<1>5. Pending(d)' = IF Live THEN Append(Pending(d), n) ELSE Pending(d)
  <2>1. (got[d] \o queue[d]) \o Append(Wired, n) = Append((got[d] \o queue[d]) \o Wired, n)
    BY <1>1, <1>4, AppendsRight
  <2> QED
    BY <1>2, <1>4, <2>1
<1>6. Orderly(Pending(d)', published')
  BY <1>1, <1>3, <1>4, <1>5, OrderlyAppend DEF Envelopes
<1>7. ASSUME d \in Tuned', d \notin missed', ~Fault'
      PROVE  Covers(Pending(d)', since'[d], published')
  <2>1. d \in Tuned /\ d \notin missed /\ ~Fault /\ since'[d] = since[d] /\ since[d] \in Nat
    BY <1>1, <1>7 DEF Fault, Tuned, Live, TypeOK
  <2>2. Live
    BY <2>1 DEF Tuned
  <2>3. \A x : InSeq(x, Pending(d)') <=> InSeq(x, Pending(d)) \/ x = n
    <3>1. Pending(d)' = Append(Pending(d), n)
      BY <1>5, <2>2
    <3>2. \A x : InSeq(x, Append(Pending(d), n)) <=> InSeq(x, Pending(d)) \/ x = n
      BY <1>1, <1>4, AppendsLast
    <3> QED
      BY <3>1, <3>2
  <2>4. Covers(Pending(d), since[d], published)
    BY <1>3, <2>1 DEF HeardBy
  <2> QED
    BY <1>1, <2>1, <2>3, <2>4 DEF Covers
<1> QED
  BY <1>6, <1>7 DEF HeardBy

\* The reader hands an envelope to every queue that has room.
LEMMA ReadHeard ==
  ASSUME TypeOK, Members, Heard, NEW r \in Streams, Read(r)
  PROVE  Heard'
<1>1. /\ r = current /\ Wired = wire[r] /\ wire[r] # <<>> /\ Wired' = Tail(Wired)
      /\ UNCHANGED <<phase, current, subscribed, got, since, published, used>>
  BY HubAssumption DEF Read, Members, Wired, TypeOK, hub, rows
<1>2. Wired \in Seq(Envelopes) /\ Wired # <<>>
  BY <1>1, PendingParts
<1> DEFINE h == Head(Wired)
           w == Tail(Wired)
<1>3. h \in Envelopes /\ w \in Seq(Envelopes) /\ FanOut(h)
  BY <1>1, <1>2, HeadTailProperties DEF Read
<1> SUFFICES ASSUME NEW d \in Streams PROVE HeardBy(d)'
  BY DEF Heard, HeardBy
<1>4. HeardBy(d) /\ Orderly(Pending(d), published) /\ published \in Nat
  BY Numbers DEF Heard, HeardBy
<1>5. /\ got[d] \in Seq(Envelopes) /\ queue[d] \in Seq(Envelopes)
      /\ got[d] \o queue[d] \in Seq(Envelopes)
      /\ Pending(d) = (got[d] \o queue[d]) \o Wired
      /\ Pending(d)' = (got[d] \o queue'[d]) \o w
  BY <1>1, PendingParts, PendingNext
<1> HIDE DEF h, w
<1>6. CASE d \in subscribers /\ Len(queue[d]) < QueueSize
  <2>1. queue'[d] = Append(queue[d], h) /\ missed \subseteq missed'
    BY <1>3, <1>6 DEF FanOut
  <2>2. got[d] \o queue'[d] = Append(got[d] \o queue[d], h)
    <3>1. got[d] \o Append(queue[d], h) = Append(got[d] \o queue[d], h)
      BY <1>3, <1>5, AppendsRight
    <3> QED
      BY <2>1, <3>1
  <2>3. Pending(d)' = Pending(d)
    <3>1. Append(got[d] \o queue[d], h) \o w = (got[d] \o queue[d]) \o Wired
      BY <1>2, <1>5, Shifts DEF h, w
    <3> QED
      BY <1>5, <2>2, <3>1
  <2> QED
    BY <1>1, <1>4, <2>1, <2>3, HeardSame DEF Fault, Tuned, Live
<1>7. CASE ~(d \in subscribers /\ Len(queue[d]) < QueueSize)
  <2>1. queue'[d] = queue[d]
    BY <1>3, <1>7 DEF FanOut
  <2>2. phase[d] = "on" => d \in missed'
    BY <1>3, <1>7, Numbers DEF FanOut, Members
  <2>3. Append(got[d] \o queue[d], h) = (got[d] \o queue[d]) \o <<h>> /\ <<h>> \in Seq(Envelopes)
    BY <1>3, <1>5, AppendsOne
  <2>4. Pending(d) = ((got[d] \o queue[d]) \o <<h>>) \o w
    <3>1. Append(got[d] \o queue[d], h) \o w = (got[d] \o queue[d]) \o Wired
      BY <1>2, <1>5, Shifts DEF h, w
    <3> QED
      BY <1>5, <2>3, <3>1
  <2>5. Orderly((got[d] \o queue[d]) \o w, published)
    BY <1>3, <1>4, <1>5, <2>3, <2>4, OrderlyMiddle
  <2>6. Orderly(Pending(d)', published')
    BY <1>1, <1>5, <2>1, <2>5
  <2> QED
    BY <1>1, <1>4, <2>2, <2>6, HeardInOrder DEF Tuned
<1> QED
  BY <1>6, <1>7

LEMMA RestHeard ==
  ASSUME TypeOK, TypeOK', Members, Heard, NEW c \in Streams,
         Confirmed(c) \/ ReaderDies(c) \/ Receive(c) \/ Refetch(c)
  PROVE  Heard'
<1>0. published \in Nat
  BY Numbers
<1> SUFFICES ASSUME NEW d \in Streams PROVE HeardBy(d)'
  BY DEF Heard, HeardBy
<1>1. HeardBy(d) /\ Orderly(Pending(d), published)
  BY DEF Heard, HeardBy
<1>2. CASE ReaderDies(c)
  <2>1. Wired' = <<>> /\ UNCHANGED <<got, queue, published>>
    BY <1>2 DEF ReaderDies, Members, Wired, TypeOK, rows, page
  <2>2. Fault'
    BY <1>2, HappensType DEF ReaderDies, Kinds
  <2>3. Orderly(Pending(d)', published')
    BY <1>1, <2>1, PendingCut
  <2> QED
    BY <1>0, <2>1, <2>2, <2>3, HeardInOrder
<1>3. CASE Receive(c)
  <2>1. UNCHANGED <<phase, current, subscribed, wire, published, since, missed, used>> /\ Wired' = Wired
    BY <1>3 DEF Receive, hub, rows, Wired
  <2>2. got'[d] \o queue'[d] = got[d] \o queue[d]
    <3>1. CASE d = c
      <4>1. /\ got[d] \in Seq(Envelopes) /\ queue[d] \in Seq(Envelopes) /\ queue[d] # <<>>
            /\ got'[d] = Append(got[d], Head(queue[d])) /\ queue'[d] = Tail(queue[d])
        BY <1>3, <3>1 DEF Receive, TypeOK
      <4>2. Append(got[d], Head(queue[d])) \o Tail(queue[d]) = got[d] \o queue[d]
        BY <4>1, Shifts
      <4> QED
        BY <4>1, <4>2
    <3>2. CASE d # c
      BY <1>3, <3>2 DEF Receive, TypeOK
    <3> QED
      BY <3>1, <3>2
  <2>3. Pending(d)' = Pending(d)
    BY <2>1, <2>2, PendingParts, PendingNext
  <2> QED
    BY <1>1, <2>1, <2>3, HeardSame DEF Fault, Tuned, Live
<1>4. CASE Refetch(c)
  <2>1. /\ Pending(d)' = Pending(d) /\ published' = published /\ phase' = phase /\ since' = since
        /\ missed \subseteq missed' /\ (Live' <=> Live)
    BY <1>4 DEF Refetch, hub, rows, Pending, Live
  <2>2. Fault => Fault'
    BY <1>4, HappensType DEF Refetch, Kinds, Fault
  <2> QED
    BY <1>1, <2>1, <2>2, HeardSame DEF Tuned
<1>5. CASE Confirmed(c)
  <2>1. /\ Pending(d)' = Pending(d) /\ published' = published /\ phase' = phase
        /\ phase[d] = "on" => since'[d] = published
    BY <1>5 DEF Confirmed, rows, Pending
  <2> QED
    BY <1>0, <1>1, <2>1, HeardInOrder DEF Tuned
<1> QED
  BY <1>2, <1>3, <1>4, <1>5

LEMMA HeardStep ==
  ASSUME TypeOK, TypeOK', LockKept, Members, BareWire, Heard, [Next]_vars
  PROVE  Heard'
<1>1. ASSUME UNCHANGED <<phase, current, subscribed, wire, queue, got, since, missed, published,
                         used>>
      PROVE  Heard'
  BY <1>1 DEF Heard, Pending, Fault, Tuned, Live
<1>2. CASE Commit \/ UNCHANGED vars
  BY <1>1, <1>2 DEF Commit, vars, hub, rows, page
<1> QED
  BY <1>2, JoinHeard, DropHeard, StreamHeard, PublishHeard, ReadHeard, RestHeard
     DEF Next, Client, StreamStep
-----------------------------------------------------------------------------
(* The theorems *)

LEMMA InitInv == Init => IInv
<1> SUFFICES ASSUME Init PROVE IInv
  OBVIOUS
<1>1. TypeOK
  BY InitTypes
<1>2. LockKept
  BY DEF Init, LockKept, NoDuplicates, InSeq, InLine
<1>3. Members
  BY HubAssumption DEF Init, Members
<1>4. Counted
  BY FS_EmptySet, HubAssumption DEF Init, Counted
<1>5. Served /\ BareWire /\ Silent
  BY DEF Init, Served, BareWire, Silent, Busy
<1>6. Heard
  <2>1. ASSUME NEW c \in Streams PROVE Pending(c) = <<>>
    BY DEF Init, Pending
  <2> QED
    BY <2>1 DEF Init, Heard, Orderly, InOrder, Tuned
<1> QED
  BY <1>1, <1>2, <1>3, <1>4, <1>5, <1>6 DEF IInv

LEMMA NextInv == IInv /\ [Next]_vars => IInv'
<1> SUFFICES ASSUME IInv, [Next]_vars PROVE IInv'
  OBVIOUS
<1>1. TypeOK /\ LockKept /\ Members /\ Counted /\ Served /\ BareWire /\ Silent /\ Heard
  BY DEF IInv
<1>2. TypeOK'
  <2>1. CASE UNCHANGED vars
    BY <1>1, <2>1 DEF vars, hub, rows, page, TypeOK
  <2>2. CASE Next
    BY <1>1, <2>2, ClientTypes, StreamTypes, RestTypes, WorkerTypes DEF Next
  <2> QED
    BY <2>1, <2>2
<1> QED
  BY <1>1, <1>2, LockStep, MembersStep, CountedStep, ServedStep, BareWireStep, SilentStep, HeardStep
     DEF IInv

LEMMA Inductive == Spec => []IInv
  BY InitInv, NextInv, PTL DEF Spec

\* Every variable keeps its type.
THEOREM HubTypeCorrect == Spec => []TypeOK
<1>1. IInv => TypeOK
  BY DEF IInv
<1> QED
  BY <1>1, Inductive, PTL

\* Whatever fails and whoever comes and goes, at most one reader runs; while
\* nothing failed, one runs exactly when somebody listens.
THEOREM ReaderWhileNeededThm == Spec => []ReaderWhileNeeded
<1>1. IInv => ReaderWhileNeeded
  <2> SUFFICES ASSUME IInv PROVE ReaderWhileNeeded
    OBVIOUS
  <2>1. Cardinality(readers) <= 1
    <3>1. readers = {} \/ readers = {current}
      BY DEF IInv, Members
    <3>2. Cardinality(readers) = 0 \/ Cardinality(readers) = 1
      BY <3>1, FS_EmptySet, FS_Singleton
    <3> QED
      BY <3>2
  <2>2. lock = <<>> => ~Busy
    BY DEF IInv, LockKept, Busy, Holds
  <2> QED
    BY <2>1, <2>2 DEF IInv, Served, ReaderWhileNeeded
<1> QED
  BY <1>1, Inductive, PTL

\* While nothing failed, what counts against the cap is a stream that is there,
\* and only streams that waited for the lock can be too many.
THEOREM CapCountsStreamsThm == Spec => []CapCountsStreams
<1>1. IInv => CapCountsStreams
  BY DEF IInv, Counted, CapCountsStreams
<1> QED
  BY <1>1, Inductive, PTL

\* Every stream that is on gets every envelope published since Redis serves it,
\* once and in order, unless its own queue was full or Redis failed.
THEOREM HearsAllThm == Spec => []HearsAll
<1>1. IInv => HearsAll
  <2> SUFFICES ASSUME IInv, NEW c \in Streams, phase[c] = "on"
               PROVE  /\ InOrder(got[c] \o queue[c])
                      /\ (Live /\ c \notin missed /\ ~Fault) =>
                           \A n \in (since[c] + 1)..published :
                             \E i \in 1..Len(Pending(c)) : Pending(c)[i] = n
    BY DEF HearsAll
  <2>1. HeardBy(c) /\ TypeOK
    BY DEF IInv, Heard, HeardBy
  <2>2. /\ got[c] \o queue[c] \in Seq(Envelopes) /\ Wired \in Seq(Envelopes)
        /\ Pending(c) = (got[c] \o queue[c]) \o Wired
    BY <2>1, PendingParts
  <2>3. Orderly(got[c] \o queue[c], published)
    BY <2>1, <2>2, OrderlyParts DEF HeardBy
  <2> QED
    BY <2>1, <2>3 DEF HeardBy, Orderly, Covers, InSeq, Tuned
<1> QED
  BY <1>1, Inductive, PTL
-----------------------------------------------------------------------------
(* The bus is a broadcast *)

\* A step that no listener notices.
LEMMA Unnoticed ==
  ASSUME UNCHANGED <<published, since, got, missed>>, Fault' = Fault, Tuned' = Tuned
  PROVE  UNCHANGED Bus!vars
  BY DEF Bus!vars

\* One that makes somebody lose something, or everybody.
LEMMA Disturbed ==
  ASSUME UNCHANGED <<published, since, got>>,
         Tuned' = Tuned,
         \/ missed' = missed /\ Fault'
         \/ Fault' = Fault /\ \E S \in SUBSET Streams : missed' = missed \cup S
  PROVE  Bus!Next
<1>1. CASE missed' = missed /\ Fault'
  BY <1>1 DEF Bus!Next, Bus!Break
<1>2. CASE Fault' = Fault /\ \E S \in SUBSET Streams : missed' = missed \cup S
  BY <1>2 DEF Bus!Next, Bus!Lose
<1> QED
  BY <1>1, <1>2

\* A stream goes on while Redis serves the connection, or before: then it waits.
LEMMA TunesIn ==
  ASSUME TypeOK, NEW c \in Streams, phase[c] # "on", phase'[c] = "on", On(c),
         UNCHANGED <<published, current, subscribed, used>>
  PROVE  Bus!Next \/ UNCHANGED Bus!vars
<1>1. \A d \in Streams \ {c} : phase'[d] = phase[d]
  BY Phased DEF On
<1>2. CASE Live
  <2>1. Tuned' = Tuned \cup {c} /\ {c} \cap Tuned = {}
    BY <1>1, <1>2 DEF Tuned, Live
  <2>2. since' = [d \in Streams |-> IF d \in {c} THEN published ELSE since[d]]
    BY <1>2 DEF On, TypeOK
  <2>3. Bus!TuneIn({c})
    BY <2>1, <2>2 DEF Bus!TuneIn, On, Fault
  <2> QED
    BY <2>3 DEF Bus!Next
<1>3. CASE ~Live
  BY <1>3, Unnoticed DEF On, Tuned, Live, Fault
<1> QED
  BY <1>2, <1>3

\* Redis begins to serve those who are on.
LEMMA TuneInTogether ==
  ASSUME TypeOK, Members, NEW r \in Streams, Confirmed(r)
  PROVE  Bus!Next
<1> DEFINE S == {c \in Streams : phase[c] = "on"}
<1>1. r = current /\ ~Live /\ Live'
  BY DEF Members, Confirmed, Live
<1>2. Tuned = {} /\ Tuned' = S
  BY <1>1 DEF Tuned, Confirmed
<1>3. since' = [c \in Streams |-> IF c \in S THEN published ELSE since[c]]
  BY DEF Confirmed
<1>4. Bus!TuneIn(S)
  BY <1>2, <1>3 DEF Bus!TuneIn, Confirmed, rows, Fault
<1> QED
  BY <1>4 DEF Bus!Next

\* A browser goes.
LEMMA TunesOut ==
  ASSUME TypeOK, Silent, NEW c \in Streams, Tuned' = Tuned \ {c}, Forgets(c),
         UNCHANGED <<published, used>>
  PROVE  Bus!Next \/ UNCHANGED Bus!vars
<1>1. CASE c \in Tuned
  <2>1. Bus!TuneOut(c)
    BY <1>1 DEF Bus!TuneOut, Forgets, Fault
  <2> QED
    BY <2>1 DEF Bus!Next
<1>2. CASE c \notin Tuned
  <2>1. got[c] = <<>> /\ since[c] = 0 /\ c \notin missed
    BY <1>2 DEF Silent
  <2>2. UNCHANGED <<got, since, missed>>
    BY <2>1 DEF Forgets, TypeOK
  <2> QED
    BY <1>2, <2>2, Unnoticed DEF Fault
<1> QED
  BY <1>1, <1>2

\* The first of two sequences comes first.
LEMMA Prefix ==
  ASSUME NEW s \in Seq(Envelopes), NEW t \in Seq(Envelopes)
  PROVE  /\ s \o t \in Seq(Envelopes) /\ Len(s \o t) = Len(s) + Len(t)
         /\ \A i \in 1..Len(s) : i \in 1..Len(s \o t) /\ (s \o t)[i] = s[i]
         /\ t # <<>> => Len(s) + 1 \in 1..Len(s \o t) /\ (s \o t)[Len(s) + 1] = Head(t)
<1>1. /\ s \o t \in Seq(Envelopes) /\ Len(s \o t) = Len(s) + Len(t)
      /\ \A i \in 1..Len(s) + Len(t) : (s \o t)[i] = IF i <= Len(s) THEN s[i] ELSE t[i - Len(s)]
  BY ConcatProperties
<1>2. Len(s) \in Nat /\ Len(t) \in Nat /\ (t # <<>> => Len(t) >= 1 /\ Head(t) = t[1])
  OBVIOUS
<1> QED
  BY <1>1, <1>2

\* What is at the head of a stream's queue is the next it has to hear.
LEMMA HearsNext ==
  ASSUME TypeOK, Silent, Heard, NEW c \in Streams, Receive(c)
  PROVE  Bus!Next
<1> DEFINE n == Head(queue[c])
           g == got[c]
<1>1. /\ phase[c] = "on" /\ queue[c] # <<>>
      /\ got' = [got EXCEPT ![c] = Append(g, n)]
      /\ UNCHANGED <<published, since, missed, used>> /\ c \in Tuned /\ Tuned' = Tuned
  BY DEF Receive, rows, hub, Silent, Tuned, Live
<1>2. /\ g \in Seq(Envelopes) /\ queue[c] \in Seq(Envelopes) /\ Wired \in Seq(Envelopes)
      /\ Pending(c) = (g \o queue[c]) \o Wired /\ Pending(c) \in Seq(Envelopes)
  BY PendingParts
<1>3. n \in Envelopes /\ n \in Nat /\ n >= 1
  <2>1. n \in Envelopes
    BY <1>1, <1>2, HeadTailProperties
  <2> QED
    BY <2>1 DEF Envelopes
<1>4. /\ Len(g) \in Nat /\ Len(g) + 1 \in 1..Len(Pending(c))
      /\ Pending(c)[Len(g) + 1] = n
      /\ \A i \in 1..Len(g) : i \in 1..Len(Pending(c)) /\ Pending(c)[i] = g[i]
  <2> DEFINE a == g \o queue[c]
  <2>1. /\ a \in Seq(Envelopes) /\ Len(g) + 1 \in 1..Len(a) /\ a[Len(g) + 1] = n
        /\ \A i \in 1..Len(g) : i \in 1..Len(a) /\ a[i] = g[i]
    BY <1>1, <1>2, Prefix
  <2> HIDE DEF a
  <2>2. \A i \in 1..Len(a) : i \in 1..Len(a \o Wired) /\ (a \o Wired)[i] = a[i]
    BY <1>2, <2>1, Prefix
  <2>3. Pending(c) = a \o Wired /\ Len(g) \in Nat
    BY <1>2 DEF a
  <2> QED
    BY <2>1, <2>2, <2>3
<1>5. HeardBy(c)
  BY DEF Heard, HeardBy
<1>6. \A i \in 1..Len(g) : g[i] < n
  BY <1>4, <1>5 DEF HeardBy, Orderly, InOrder
<1>7. n \in 1..published
  BY <1>3, <1>4, <1>5, Numbers DEF HeardBy, Orderly
<1>8. ASSUME c \notin missed, ~Fault, NEW m \in (since[c] + 1)..(n - 1)
      PROVE  \E i \in 1..Len(g) : g[i] = m
  <2>1. since[c] \in Nat /\ published \in Nat
    BY Numbers DEF TypeOK
  <2>2. m \in Nat /\ m < n /\ m \in (since[c] + 1)..published
    BY <1>3, <1>7, <2>1
  <2>3. PICK i \in 1..Len(Pending(c)) : Pending(c)[i] = m
    BY <1>1, <1>5, <1>8, <2>2 DEF HeardBy, Covers, InSeq
  <2>4. i < Len(g) + 1
    <3>1. Len(g) + 1 < i => n < m
      BY <1>4, <1>5, <2>3 DEF HeardBy, Orderly, InOrder
    <3>2. i # Len(g) + 1
      BY <1>4, <2>2, <2>3, <1>3
    <3>3. i \in Nat
      BY <2>3
    <3> QED
      BY <1>3, <1>4, <2>2, <3>1, <3>2, <3>3
  <2>5. i \in 1..Len(g)
    BY <1>4, <2>3, <2>4
  <2> QED
    BY <1>4, <2>3, <2>5
<1> HIDE DEF n
<1>9. Bus!Hear(c, n)
  BY <1>1, <1>6, <1>8 DEF Bus!Hear, Bus!Heard, Fault
<1> QED
  BY <1>7, <1>9 DEF Bus!Next

\* A stream comes or goes.
LEMMA ClientBus ==
  ASSUME IInv, NEW c \in Streams, Client(c) \/ Enter(c) \/ Started(c) \/ EnterToLeave(c)
  PROVE  Bus!Next \/ UNCHANGED Bus!vars
<1>0. TypeOK /\ LockKept /\ Members /\ Silent
  BY DEF IInv
<1>1. CASE Subscribe(c) \/ Enter(c)
  <2>1. phase[c] \in {"new", "joining"} /\ Join(c) /\ UNCHANGED <<subscribed, rows, used>>
    BY <1>0, <1>1, Entering
  <2>2. CASE subscribers = {}
    <3>1. phase'[c] = "starting" /\ \A d \in Streams \ {c} : phase'[d] = phase[d]
      BY <1>0, <2>1, <2>2, Phased DEF Join
    <3>2. Tuned' = Tuned
      BY <1>0, <2>1, <2>2, <3>1 DEF Members, Join, Tuned, Live
    <3> QED
      BY <2>1, <2>2, <3>2, Unnoticed DEF Join, page, rows, Fault
  <2>3. CASE subscribers # {}
    <3>1. phase'[c] = "on" /\ \A d \in Streams \ {c} : phase'[d] = phase[d]
      BY <1>0, <2>1, <2>3, Phased DEF Join, On
    <3> QED
      BY <1>0, <2>1, <2>3, <3>1, TunesIn DEF Join, rows
  <2> QED
    BY <2>2, <2>3
<1>2. CASE Started(c)
  <2>1. phase'[c] = "on" /\ \A d \in Streams \ {c} : phase'[d] = phase[d]
    BY <1>0, <1>2, Phased DEF Started, On
  <2> QED
    BY <1>0, <1>2, <2>1, TunesIn DEF Started, rows
<1>3. CASE Leave(c)
  <2>1. phase'[c] \in {"stopping", "closed"} /\ \A d \in Streams \ {c} : phase'[d] = phase[d]
    BY <1>0, <1>3, Phased DEF Leave, Drop
  <2>2. Tuned' = Tuned \ {c}
    <3>1. CASE subscribers' = {}
      <4>1. subscribers = {c} /\ Tuned \subseteq {c}
        BY <1>0, <1>3, <3>1 DEF Leave, Drop, Members, Tuned
      <4>2. Tuned' = {}
        BY <1>3, <2>1, <4>1, <1>0 DEF Tuned, Members
      <4> QED
        BY <4>1, <4>2
    <3>2. CASE subscribers' # {}
      BY <1>3, <2>1, <3>2 DEF Leave, Drop, Tuned, Live
    <3> QED
      BY <3>1, <3>2
  <2> QED
    BY <1>0, <1>3, <2>2, TunesOut DEF Leave, rows
<1>4. CASE WaitToLeave(c)
  <2>1. phase'[c] = "leaving" /\ \A d \in Streams \ {c} : phase'[d] = phase[d]
    BY <1>0, <1>4, Phased DEF WaitToLeave
  <2>2. Tuned' = Tuned \ {c}
    BY <1>4, <2>1 DEF WaitToLeave, Tuned, Live
  <2> QED
    BY <1>0, <1>4, <2>2, TunesOut DEF WaitToLeave, rows
<1>5. CASE EnterToLeave(c)
  <2>1. phase'[c] \in {"stopping", "closed"} /\ \A d \in Streams \ {c} : phase'[d] = phase[d]
    BY <1>0, <1>5, Phased DEF EnterToLeave, Drop
  <2>2. Tuned' = Tuned
    <3>1. CASE subscribers' = {}
      <4>1. subscribers = {c}
        BY <1>0, <1>5, <3>1 DEF EnterToLeave, Drop, Members
      <4> QED
        BY <1>0, <1>5, <2>1, <4>1 DEF EnterToLeave, Members, Tuned
    <3>2. CASE subscribers' # {}
      BY <1>5, <2>1, <3>2 DEF EnterToLeave, Drop, Tuned, Live
    <3> QED
      BY <3>1, <3>2
  <2> QED
    BY <1>5, <2>2, Unnoticed DEF EnterToLeave, rows, page, Fault
<1>6. CASE Refuse(c) \/ Wait(c) \/ GiveUp(c)
  <2>1. phase'[c] \in {"joining", "closed"} /\ \A d \in Streams \ {c} : phase'[d] = phase[d]
    BY <1>0, <1>6, Phased DEF Refuse, Wait, GiveUp
  <2>2. Tuned' = Tuned
    BY <1>6, <2>1 DEF Refuse, Wait, GiveUp, hub, Tuned, Live
  <2> QED
    BY <1>6, <2>2, Unnoticed DEF Refuse, Wait, GiveUp, rows, page, Fault
<1> QED
  BY <1>1, <1>2, <1>3, <1>4, <1>5, <1>6 DEF Client

\* Redis, the reader and the dashboards.
LEMMA OtherBus ==
  ASSUME IInv, NEW c \in Streams,
         \/ Stopped(c) \/ StreamFault(c) \/ Receive(c) \/ Refetch(c)
         \/ Confirmed(c) \/ Read(c) \/ ReaderDies(c)
  PROVE  Bus!Next \/ UNCHANGED Bus!vars
<1>0. TypeOK /\ Members /\ Silent /\ Heard
  BY DEF IInv
<1>1. CASE Stopped(c)
  <2>1. phase[c] = "stopping" /\ phase'[c] = "closed" /\ \A d \in Streams \ {c} : phase'[d] = phase[d]
    BY <1>0, <1>1, Phased DEF Stopped
  <2>2. subscribed = {} /\ subscribed' = {}
    BY <1>0, <1>1 DEF Stopped, Members
  <2>3. Tuned' = Tuned
    BY <2>2 DEF Tuned, Live
  <2> QED
    BY <1>1, <2>3, Unnoticed DEF Stopped, rows, page, Fault
<1>2. CASE StreamFault(c)
  <2>1. /\ phase[c] \in {"starting", "leaving", "stopping"}
        /\ Goes(c, "closed") /\ Happens("fault") /\ UNCHANGED <<current, subscribed, rows, page>>
    BY <1>2, Failing DEF StreamFault, StartFails, LeaveCut, StopFails
  <2>2. phase'[c] = "closed" /\ \A d \in Streams \ {c} : phase'[d] = phase[d]
    BY <1>0, <2>1, Phased
  <2>3. Fault'
    BY <1>0, <2>1, HappensType DEF Kinds
  <2>4. Tuned' = Tuned
    BY <2>1, <2>2 DEF Tuned, Live
  <2> QED
    BY <2>1, <2>3, <2>4, Disturbed DEF rows, page
<1>3. CASE Receive(c)
  BY <1>0, <1>3, HearsNext
<1>4. CASE Refetch(c)
  <2>1. UNCHANGED <<published, since, got>> /\ Tuned' = Tuned
    BY <1>4 DEF Refetch, rows, hub, Tuned, Live
  <2>2. Fault' = Fault
    BY <1>0, <1>4 DEF Refetch, Happens, Fault, TypeOK, Kinds
  <2>3. \E S \in SUBSET Streams : missed' = missed \cup S
    BY <1>0, <1>4 DEF Refetch, TypeOK
  <2> QED
    BY <2>1, <2>2, <2>3, Disturbed
<1>5. CASE Read(c)
  <2>1. UNCHANGED <<published, since, got, used>> /\ Tuned' = Tuned
    BY <1>5 DEF Read, rows, hub, Tuned, Live
  <2>2. \E S \in SUBSET Streams : missed' = missed \cup S
    BY <1>0, <1>5 DEF Read, FanOut, TypeOK
  <2> QED
    BY <2>1, <2>2, Disturbed DEF Fault
<1>6. CASE ReaderDies(c)
  <2>1. UNCHANGED <<published, since, got, missed>> /\ Tuned' = Tuned /\ Happens("fault")
    BY <1>6 DEF ReaderDies, rows, page, Tuned, Live
  <2>2. Fault'
    BY <1>0, <2>1, HappensType DEF Kinds
  <2> QED
    BY <2>1, <2>2, Disturbed
<1>7. CASE Confirmed(c)
  BY <1>0, <1>7, TuneInTogether
<1> QED
  BY <1>1, <1>2, <1>3, <1>4, <1>5, <1>6, <1>7

LEMMA WorkerBus ==
  ASSUME Publish \/ Commit \/ UNCHANGED vars
  PROVE  Bus!Next \/ UNCHANGED Bus!vars
<1>1. CASE Publish
  <2>1. Bus!Say
    BY <1>1 DEF Publish, Bus!Say, page, hub, Tuned, Live, Fault
  <2> QED
    BY <2>1 DEF Bus!Next
<1>2. CASE Commit \/ UNCHANGED vars
  BY <1>2, Unnoticed DEF Commit, vars, hub, rows, page, Tuned, Live, Fault
<1> QED
  BY <1>1, <1>2

\* Together the streams are a broadcast: what a browser is sent grows by the
\* envelope that comes next, whatever is in flight and whoever comes and goes.
THEOREM ImplementsBroadcastThm == Spec => ImplementsBroadcast
<1>1. Init => Bus!Init
  BY DEF Init, Bus!Init, Tuned, Fault, Kinds
<1>2. IInv /\ [Next]_vars => [Bus!Next]_(Bus!vars)
  <2> SUFFICES ASSUME IInv, [Next]_vars PROVE Bus!Next \/ UNCHANGED Bus!vars
    OBVIOUS
  <2>1. ASSUME NEW c \in Streams,
               \/ Client(c) \/ StreamStep(c) \/ StreamFault(c)
               \/ Receive(c) \/ Refetch(c) \/ Confirmed(c) \/ Read(c) \/ ReaderDies(c)
        PROVE  Bus!Next \/ UNCHANGED Bus!vars
    BY <2>1, ClientBus, OtherBus DEF StreamStep
  <2> QED
    BY <2>1, WorkerBus DEF Next
<1> QED
  BY <1>1, <1>2, Inductive, PTL DEF Spec, ImplementsBroadcast, Bus!Spec
===============================================================================
