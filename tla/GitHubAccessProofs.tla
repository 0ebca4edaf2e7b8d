------------------------- MODULE GitHubAccessProofs -------------------------
(***************************************************************************)
(* Theorems about GitHubAccess: one mint at a time, failures that stay     *)
(* with their task, and listings without holes.                            *)
(*                                                                         *)
(* A walk goes down a list that grows at its front.  What it has seen is   *)
(* described by the number of the newest run at the time a page was read:  *)
(* with m runs listed, page p begins at run m - (p - 1) * PageSize, and    *)
(* every run above that one which was there at the beginning is collected. *)
(* Later the same page begins higher up, so nothing is passed over.        *)
(***************************************************************************)
EXTENDS GitHubAccess, FiniteSetTheorems, SequenceTheorems, TLAPS

\* How many runs a repository lists; run n is the n-th that started.
Listed(r) == Len(listing[r])

Numbered == \A r \in Repos : \A n \in 1..Listed(r) : listing[r][n] = Listed(r) + 1 - n

\* The runs that come before page p of a listing.
Before(p) == (p - 1) * PageSize

\* No run of a set is missing above what has been collected.
Dense(runs, set) ==
  \A j \in 1..Len(runs) : \A x \in set : x >= runs[j] => \E k \in 1..j : runs[k] = x

\* With m runs listed, the pages before p have been collected.
Collected(runs, set, m, p) ==
  Dense(runs, set) /\ \A x \in set : x > m - Before(p) => \E k \in 1..Len(runs) : runs[k] = x

\* The page p of a listing of m runs, and whether another one follows.
IsPage(body, m, p) ==
  /\ body \in Seq(Nat) /\ Len(body) <= PageSize
  /\ \A k \in 1..Len(body) : body[k] = m + 1 - Before(p) - k
  /\ \A x \in 1..m : x <= m - Before(p) /\ x > m - Before(p) - PageSize =>
       m + 1 - Before(p) - x \in 1..Len(body)

BodyOf(t) == IF task[t].inbox.status = "304" THEN task[t].want ELSE task[t].inbox.body

\* Where a walk is, and what it has collected.
Walk(t) ==
  /\ \A x \in begun[t] : x \in 1..Listed(t[2])
  /\ task[t].pc \in {"queued", "locking", "minting"} =>
       task[t].page = 1 /\ ~task[t].again /\ task[t].runs = <<>>
  /\ task[t].pc = "ready" =>
       /\ task[t].page = 1 => task[t].runs = <<>>
       /\ ~(task[t].page = 1 /\ ~task[t].again) =>
            Collected(task[t].runs, begun[t], Listed(t[2]), task[t].page)
  /\ task[t].pc = "waiting" /\ task[t].inbox.status \in {"200", "304"} =>
       \E m \in 0..Listed(t[2]) :
         /\ IsPage(BodyOf(t), m, task[t].page)
         /\ task[t].inbox.more = (task[t].page * PageSize < m)
         /\ Collected(task[t].runs, begun[t], m, task[t].page)
  /\ task[t].pc = "done" =>
       /\ Dense(task[t].runs, begun[t])
       /\ ~task[t].cut => \A x \in begun[t] : \E k \in 1..Len(task[t].runs) : task[t].runs[k] = x

Walks == \A t \in Tasks : Walk(t)

\* A token was good for longer than the margin when it was handed out, and is
\* refused only after it has lapsed.
Handed(t) ==
  /\ task[t].pc \in {"ready", "waiting"} =>
       /\ task[t].token \in Nat /\ task[t].handed \in 0..now
       /\ task[t].token > task[t].handed + Skew
       /\ Len(task[t].runs) < MaxRuns
  /\ task[t].pc = "waiting" =>
       /\ task[t].inbox \in Answers
       /\ task[t].inbox.status = "401" => now - task[t].handed > Skew
       /\ task[t].inbox.left < Floor => low # {}

\* Why a task is over.
Excused(t) ==
  /\ task[t].pc = "failed" => t \in hit
  /\ task[t].pc = "skipped" => low # {}

Good(t) == Walk(t) /\ Handed(t) /\ Excused(t)

Warned == \A s \in Sweeps : gate[s] => low # {}

IInv ==
  /\ TypeOK /\ TokenDiscipline /\ Numbered /\ Warned
  /\ \A t \in Tasks : Good(t)
-----------------------------------------------------------------------------
(* Pages and walks *)

LEMMA Limits == CacheCap \in Nat /\ MaxBytes \in Nat
BY AccessAssumption

\* Page p + 1 begins where page p ends.
LEMMA Offsets ==
  ASSUME NEW p \in Nat \ {0}
  PROVE  /\ Before(p) \in Nat /\ Before(p + 1) = Before(p) + PageSize
         /\ p * PageSize = Before(p) + PageSize
         /\ p = 1 => Before(p) = 0
<1>1. PageSize \in Nat /\ p - 1 \in Nat BY AccessAssumption
<1>2. (p - 1) * PageSize \in Nat BY <1>1
<1>3. p * PageSize = (p - 1) * PageSize + PageSize BY <1>1
<1>4. (p + 1) - 1 = p OBVIOUS
<1>5. p = 1 => (p - 1) * PageSize = 0 BY <1>1
<1> QED BY <1>2, <1>3, <1>4, <1>5 DEF Before

\* The c numbers after the first b of m ones in descending order.
LEMMA Slice ==
  ASSUME NEW m \in Nat, NEW b \in Nat, NEW c \in Nat \ {0}, NEW last \in Nat,
         NEW s, \A n \in 1..m : s[n] = m + 1 - n,
         last <= m, last <= b + c, last = m \/ last = b + c
  PROVE  /\ SubSeq(s, b + 1, last) \in Seq(Nat)
         /\ Len(SubSeq(s, b + 1, last)) <= c
         /\ \A k \in 1..Len(SubSeq(s, b + 1, last)) : SubSeq(s, b + 1, last)[k] = m + 1 - b - k
         /\ \A x \in 1..m : x <= m - b /\ x > m - b - c =>
              m + 1 - b - x \in 1..Len(SubSeq(s, b + 1, last))
<1> DEFINE body == SubSeq(s, b + 1, last)
           l == IF b + 1 <= last THEN last - b ELSE 0
<1>1. \A n \in (b + 1)..last : s[n] \in Nat OBVIOUS
<1>2. b + 1 \in Int /\ last \in Int OBVIOUS
<1>3. /\ body \in Seq(Nat)
      /\ Len(body) = IF b + 1 <= last THEN last - (b + 1) + 1 ELSE 0
      /\ \A k \in 1..(last - (b + 1) + 1) : body[k] = s[(b + 1) + k - 1]
  BY <1>1, <1>2, SubSeqProperties
<1> HIDE DEF body
<1>4. Len(body) = l BY <1>3
<1>5. \A k \in 1..(last - b) : body[k] = s[b + k]
  <2>1. last - (b + 1) + 1 = last - b OBVIOUS
  <2>2. \A k \in 1..(last - b) : (b + 1) + k - 1 = b + k OBVIOUS
  <2> QED BY <1>3, <2>1, <2>2
<1>6. \A k \in 1..l : body[k] = m + 1 - b - k
  <2>1. \A k \in 1..l : k \in 1..(last - b) /\ b + k \in 1..m OBVIOUS
  <2>2. \A k \in 1..l : m + 1 - (b + k) = m + 1 - b - k OBVIOUS
  <2> QED BY <1>5, <2>1, <2>2
<1>7. l <= c OBVIOUS
<1>8. \A x \in 1..m : x <= m - b /\ x > m - b - c => m + 1 - b - x \in 1..l
  OBVIOUS
<1> HIDE DEF l
<1> QED BY <1>3, <1>4, <1>6, <1>7, <1>8 DEF body

\* What GitHub lists on a page.
LEMMA PageOfListing ==
  ASSUME Numbered, NEW r \in Repos, Listed(r) \in Nat, NEW p \in Nat \ {0}
  PROVE  IsPage(Page(r, p), Listed(r), p)
<1> DEFINE m == Listed(r)
           b == Before(p)
           c == PageSize
           last == IF b + c < m THEN b + c ELSE m
<1>1. b \in Nat /\ c \in Nat \ {0} /\ p * PageSize = b + c /\ (p - 1) * PageSize = b
  BY Offsets, AccessAssumption DEF Before
<1>2. Page(r, p) = SubSeq(listing[r], b + 1, last) BY <1>1 DEF Page, Listed
<1>3. \A n \in 1..m : listing[r][n] = m + 1 - n BY DEF Numbered
<1>4. m \in Nat OBVIOUS
<1> HIDE DEF m, b, c
<1>5. last \in Nat /\ last <= m /\ last <= b + c /\ (last = m \/ last = b + c) BY <1>1, <1>4
<1> HIDE DEF last
<1>6. /\ SubSeq(listing[r], b + 1, last) \in Seq(Nat)
      /\ Len(SubSeq(listing[r], b + 1, last)) <= c
      /\ \A k \in 1..Len(SubSeq(listing[r], b + 1, last)) :
           SubSeq(listing[r], b + 1, last)[k] = m + 1 - b - k
      /\ \A x \in 1..m : x <= m - b /\ x > m - b - c =>
           m + 1 - b - x \in 1..Len(SubSeq(listing[r], b + 1, last))
  BY <1>1, <1>3, <1>4, <1>5, Slice
<1> QED BY <1>2, <1>6 DEF IsPage, m, b, c

\* A page joins what was collected before it.
LEMMA PageCollected ==
  ASSUME NEW runs \in Seq(Nat), NEW set, NEW m \in Nat, NEW p \in Nat \ {0}, NEW body,
         \A x \in set : x \in Nat \ {0}, Collected(runs, set, m, p), IsPage(body, m, p)
  PROVE  Collected(runs \o body, set, m, p + 1)
<1> DEFINE all == runs \o body
           l == Len(runs)
           b == Before(p)
<1>1. body \in Seq(Nat) /\ l \in Nat /\ Len(body) \in Nat BY DEF IsPage
<1>2. /\ all \in Seq(Nat) /\ Len(all) = l + Len(body)
      /\ \A i \in 1..(l + Len(body)) : all[i] = IF i <= l THEN runs[i] ELSE body[i - l]
  BY <1>1, ConcatProperties
<1>3. b \in Nat /\ Before(p + 1) = b + PageSize /\ PageSize \in Nat
  BY Offsets, AccessAssumption
<1> HIDE DEF all, l, b
<1>0. /\ \A k \in 1..l : all[k] = runs[k]
      /\ \A y \in 1..Len(body) : all[l + y] = body[y]
  <2>1. ASSUME NEW k \in 1..l PROVE all[k] = runs[k]
    <3>1. k \in 1..(l + Len(body)) /\ k <= l BY <1>1
    <3> QED BY <1>2, <3>1
  <2>2. ASSUME NEW y \in 1..Len(body) PROVE all[l + y] = body[y]
    <3>1. l + y \in 1..(l + Len(body)) /\ ~(l + y <= l) /\ (l + y) - l = y BY <1>1
    <3>2. all[l + y] = IF l + y <= l THEN runs[l + y] ELSE body[(l + y) - l] BY <1>2, <3>1
    <3> QED BY <3>1, <3>2
  <2> QED BY <2>1, <2>2
<1>4. ASSUME NEW x \in set, x > m - b PROVE \E k \in 1..l : all[k] = x
  <2>1. PICK k \in 1..l : runs[k] = x BY <1>4 DEF Collected, b, l
  <2> QED BY <1>0, <2>1
<1>5. ASSUME NEW x \in set, x <= m - b, x > m - b - PageSize
      PROVE  m + 1 - b - x \in 1..Len(body) /\ all[l + (m + 1 - b - x)] = x
  <2>1. x \in 1..m BY <1>3, <1>5
  <2>2. m + 1 - b - x \in 1..Len(body) BY <1>5, <2>1 DEF IsPage, b
  <2>3. body[m + 1 - b - x] = m + 1 - b - (m + 1 - b - x) BY <2>2 DEF IsPage, b
  <2>4. all[l + (m + 1 - b - x)] = body[m + 1 - b - x] BY <1>0, <2>2
  <2> QED BY <1>3, <2>1, <2>2, <2>3, <2>4
<1>6. ASSUME NEW j \in 1..Len(all), NEW x \in set, x >= all[j]
      PROVE  \E k \in 1..j : all[k] = x
  <2>1. CASE j <= l
    <3>1. all[j] = runs[j] /\ j \in 1..l BY <1>0, <1>1, <1>2, <2>1
    <3>2. PICK k \in 1..j : runs[k] = x BY <1>6, <3>1 DEF Collected, Dense, l
    <3>3. all[k] = x BY <1>0, <1>1, <3>1, <3>2
    <3> QED BY <3>3
  <2>2. CASE j > l
    <3>1. j - l \in 1..Len(body) /\ all[j] = body[j - l]
      <4>1. j - l \in 1..Len(body) /\ j = l + (j - l) BY <1>1, <1>2, <2>2
      <4> QED BY <1>0, <4>1
    <3>2. all[j] = m + 1 - b - (j - l) BY <3>1 DEF IsPage, b
    <3>3. CASE x > m - b
      <4>1. PICK k \in 1..l : all[k] = x BY <1>4, <3>3
      <4>2. k \in 1..j BY <1>1, <2>2
      <4> QED BY <4>1, <4>2
    <3>4. CASE x <= m - b
      <4>1. x \in Nat /\ x >= m + 1 - b - (j - l) BY <1>6, <3>2
      <4>2. j - l <= PageSize BY <1>1, <3>1, <1>3 DEF IsPage
      <4>3. x > m - b - PageSize
        <5>1. j - l \in Int BY <3>1
        <5> QED BY <1>3, <4>1, <4>2, <5>1
      <4>4. m + 1 - b - x \in 1..Len(body) /\ all[l + (m + 1 - b - x)] = x
        BY <1>5, <3>4, <4>3
      <4>5. l + (m + 1 - b - x) \in 1..j BY <1>1, <1>3, <3>1, <4>1, <4>4
      <4> QED BY <4>4, <4>5
    <3> QED BY <1>3, <3>3, <3>4
  <2> QED BY <1>1, <2>1, <2>2
<1>7. ASSUME NEW x \in set, x > m - Before(p + 1)
      PROVE  \E k \in 1..Len(all) : all[k] = x
  <2>1. CASE x > m - b
    <3>1. PICK k \in 1..l : all[k] = x BY <1>4, <2>1
    <3>2. k \in 1..Len(all) BY <1>1, <1>2
    <3> QED BY <3>1, <3>2
  <2>2. CASE x <= m - b
    <3>1. x > m - b - PageSize BY <1>3, <1>7
    <3>2. m + 1 - b - x \in 1..Len(body) /\ all[l + (m + 1 - b - x)] = x BY <1>5, <2>2, <3>1
    <3>3. l + (m + 1 - b - x) \in 1..Len(all)
      <4>1. Len(all) = l + Len(body) BY <1>2
      <4> QED BY <1>1, <1>3, <3>2, <4>1
    <3> QED BY <3>2, <3>3
  <2> QED BY <1>3, <2>1, <2>2
<1> QED BY <1>6, <1>7 DEF Collected, Dense, all

\* More runs at the front take nothing away from what was collected.
LEMMA StillCollected ==
  ASSUME NEW runs, NEW set, NEW m \in Nat, NEW n \in Nat, m <= n, NEW p \in Nat \ {0},
         \A x \in set : x \in Nat, Collected(runs, set, m, p)
  PROVE  Collected(runs, set, n, p)
<1>1. Before(p) \in Nat BY Offsets
<1>2. \A x \in set : x > n - Before(p) => x > m - Before(p) BY <1>1
<1> QED BY <1>2 DEF Collected
-----------------------------------------------------------------------------
(* The cache *)

\* A set of numbers, if not empty, has a least one.
LEMMA Least ==
  ASSUME NEW S \in SUBSET Nat, S # {}
  PROVE  \E n \in S : \A m \in S : n <= m
<1> DEFINE Sets == {0..n : n \in S}
<1>1. Sets \subseteq FiniteSubsetsOf(Nat)
  <2>1. ASSUME NEW n \in S PROVE IsFiniteSet(0..n)
    BY 0 \in Int, n \in Int, FS_Interval
  <2> QED BY <2>1 DEF FiniteSubsetsOf
<1>2. Sets # {} OBVIOUS
<1>3. IsWellFoundedOn(StrictSubsetOrdering(Nat), FiniteSubsetsOf(Nat))
  BY FS_StrictSubsetOrderingWellFounded
<1> HIDE DEF Sets
<1>4. PICK T \in Sets : \A U \in Sets : <<U, T>> \notin StrictSubsetOrdering(Nat)
  BY <1>1, <1>2, <1>3, WFMin
<1>5. PICK n \in S : T = 0..n BY DEF Sets
<1>6. ASSUME NEW m \in S PROVE n <= m
  <2>1. CASE m < n
    <3>1. 0..m \subseteq 0..n /\ n \in 0..n /\ n \notin 0..m BY <2>1
    <3>2. 0..m \in Sets /\ 0..n \subseteq Nat BY DEF Sets
    <3>3. <<0..m, T>> \in StrictSubsetOrdering(Nat)
      BY <1>5, <3>1, <3>2 DEF StrictSubsetOrdering
    <3> QED BY <1>4, <3>2, <3>3
  <2> QED BY <2>1
<1> QED BY <1>6

\* The evictions stop at the first entry from which all fits, or at the end.
LEMMA EvictedIs ==
  ASSUME NEW S, NEW q \in Seq(S), NEW total
  PROVE  \E n \in 0..Len(q) :
           /\ Evicted(q, total).queue = SubSeq(q, n + 1, Len(q))
           /\ Evicted(q, total).total = total - BodiesSize(SubSeq(q, 1, n))
           /\ n = Len(q) \/ (/\ Len(q) - n <= CacheCap
                             /\ total - BodiesSize(SubSeq(q, 1, n)) <= MaxBytes)
<1> DEFINE Fits(n) == /\ Len(q) - n <= CacheCap
                      /\ total - BodiesSize(SubSeq(q, 1, n)) <= MaxBytes
           Ok == {n \in 0..Len(q) : Fits(n) \/ n = Len(q)}
           n == CHOOSE k \in 0..Len(q) : (Fits(k) \/ k = Len(q)) /\ \A m \in 0..(k - 1) : ~Fits(m)
<1>1. Len(q) \in Nat OBVIOUS
<1>2. Ok \in SUBSET Nat /\ Len(q) \in Ok BY <1>1
<1>3. PICK k \in Ok : \A m \in Ok : k <= m
  <2> HIDE DEF Ok
  <2> QED BY <1>2, Least
<1>4. \A m \in 0..(k - 1) : ~Fits(m)
  <2> SUFFICES ASSUME NEW m \in 0..(k - 1), Fits(m) PROVE FALSE
    OBVIOUS
  <2> HIDE DEF Fits
  <2>1. k \in 0..Len(q) OBVIOUS
  <2>2. m \in 0..Len(q) /\ m < k BY <1>1, <2>1
  <2>3. m \in Ok BY <2>2
  <2> HIDE DEF Ok
  <2> QED BY <1>3, <2>1, <2>2, <2>3
<1>5. k \in 0..Len(q) /\ (Fits(k) \/ k = Len(q)) OBVIOUS
<1> HIDE DEF Fits, Ok
<1>6. n \in 0..Len(q) /\ (Fits(n) \/ n = Len(q)) BY <1>4, <1>5
<1> HIDE DEF n
<1>7. /\ Evicted(q, total).queue = SubSeq(q, n + 1, Len(q))
      /\ Evicted(q, total).total = total - BodiesSize(SubSeq(q, 1, n))
  BY DEF Evicted, n, Fits
<1> QED BY <1>6, <1>7 DEF Fits

\* What is left after the evictions is a tail of the queue.
LEMMA EvictedType ==
  ASSUME NEW S, NEW q \in Seq(S), NEW total
  PROVE  Evicted(q, total).queue \in Seq(S)
<1>1. PICK n \in 0..Len(q) : Evicted(q, total).queue = SubSeq(q, n + 1, Len(q)) BY EvictedIs
<1>2. Len(q) \in Nat /\ \A k \in 1..Len(q) : q[k] \in S OBVIOUS
<1>3. n + 1 \in Int /\ Len(q) \in Int /\ \A k \in (n + 1)..Len(q) : q[k] \in S BY <1>2
<1>4. SubSeq(q, n + 1, Len(q)) \in Seq(S) BY <1>3, SubSeqProperties
<1> QED BY <1>1, <1>4

\* The place of a key in a queue.
LEMMA PlaceOf ==
  ASSUME NEW q, NEW k \in Keys(q)
  PROVE  Place(q, k) \in 1..Len(q) /\ q[Place(q, k)].key = k
BY DEF Keys, Place

LEMMA WithoutType ==
  ASSUME NEW S, NEW q \in Seq(S), NEW k
  PROVE  Without(q, k) \in Seq(S)
<1>1. CASE k \in Keys(q)
  <2> DEFINE i == Place(q, k)
  <2>1. i \in 1..Len(q) /\ Len(q) \in Nat /\ \A n \in 1..Len(q) : q[n] \in S
    BY <1>1, PlaceOf
  <2> HIDE DEF i
  <2>2. SubSeq(q, 1, i - 1) \in Seq(S)
    <3>1. 1 \in Int /\ i - 1 \in Int /\ \A n \in 1..(i - 1) : q[n] \in S BY <2>1
    <3> QED BY <3>1, SubSeqProperties
  <2>3. SubSeq(q, i + 1, Len(q)) \in Seq(S)
    <3>1. i + 1 \in Int /\ Len(q) \in Int /\ \A n \in (i + 1)..Len(q) : q[n] \in S BY <2>1
    <3> QED BY <3>1, SubSeqProperties
  <2>4. SubSeq(q, 1, i - 1) \o SubSeq(q, i + 1, Len(q)) \in Seq(S)
    BY <2>2, <2>3, ConcatProperties
  <2> QED BY <1>1, <2>4 DEF Without, RemoveAt, i
<1> QED BY <1>1 DEF Without

LEMMA EntryType ==
  ASSUME NEW S, NEW q \in Seq(S), NEW k \in Keys(q)
  PROVE  EntryOf(q, k) \in S
BY PlaceOf, ElementOfSeq DEF EntryOf

LEMMA TouchedType ==
  ASSUME NEW S, NEW q \in Seq(S), NEW k
  PROVE  Touched(q, k) \in Seq(S)
<1>1. CASE k \in Keys(q)
  <2>1. Without(q, k) \in Seq(S) /\ EntryOf(q, k) \in S BY <1>1, WithoutType, EntryType
  <2>2. Append(Without(q, k), EntryOf(q, k)) \in Seq(S) BY <2>1
  <2> QED BY <1>1, <2>2 DEF Touched
<1> QED BY <1>1 DEF Touched

LEMMA StoredType ==
  ASSUME NEW q \in Seq(Entries), NEW total, NEW k \in Repos \X (1..MaxPages), NEW body \in Seq(Nat)
  PROVE  Stored(q, total, k, body).queue \in Seq(Entries)
<1> DEFINE new == [key |-> k, body |-> body, size |-> SizeOf(body)]
           more == Append(Without(q, k), new)
<1>1. new \in Entries BY DEF Entries, SizeOf
<1>2. more \in Seq(Entries) BY <1>1, WithoutType
<1> HIDE DEF more
<1>3. \A n : Evicted(more, n).queue \in Seq(Entries) BY <1>2, EvictedType
<1> QED BY <1>3 DEF Stored, more

\* A byte is one of an entry's.
LEMMA BytesAre ==
  ASSUME NEW q \in Seq(Entries)
  PROVE  \A x : x \in Bytes(q) <=>
           \E n \in 1..Len(q), b \in Nat : b \in 1..q[n].size /\ x = <<n, b>>
<1>0. \A n \in 1..Len(q) : q[n].size \in Nat
  <2>1. \A n \in 1..Len(q) : q[n] \in Entries BY ElementOfSeq
  <2> QED BY <2>1 DEF Entries
<1>1. ASSUME NEW x, x \in Bytes(q)
      PROVE  \E n \in 1..Len(q), b \in Nat : b \in 1..q[n].size /\ x = <<n, b>>
  <2>1. PICK n \in 1..Len(q) : x \in {n} \X (1..q[n].size) BY <1>1 DEF Bytes
  <2>2. PICK b \in 1..q[n].size : x = <<n, b>> BY <2>1
  <2>3. b \in Nat BY <1>0, <2>2
  <2> QED BY <2>2, <2>3
<1>2. ASSUME NEW n \in 1..Len(q), NEW b \in Nat, b \in 1..q[n].size PROVE <<n, b>> \in Bytes(q)
  <2>1. <<n, b>> \in {n} \X (1..q[n].size) BY <1>2
  <2> QED BY <2>1 DEF Bytes
<1> QED BY <1>1, <1>2

LEMMA BytesFinite ==
  ASSUME NEW q \in Seq(Entries)
  PROVE  IsFiniteSet(Bytes(q)) /\ BodiesSize(q) \in Nat
<1> DEFINE One(n) == {n} \X (1..q[n].size)
           All == {One(n) : n \in 1..Len(q)}
           f == [n \in 1..Len(q) |-> One(n)]
<1>1. Len(q) \in Nat /\ \A n \in 1..Len(q) : q[n].size \in Nat
  <2>1. \A n \in 1..Len(q) : q[n] \in Entries BY ElementOfSeq
  <2> QED BY <2>1 DEF Entries
<1>2. \A n \in 1..Len(q) : IsFiniteSet(One(n))
  <2> SUFFICES ASSUME NEW n \in 1..Len(q) PROVE IsFiniteSet(One(n))
    OBVIOUS
  <2>1. IsFiniteSet({n}) BY FS_Singleton
  <2>2. 1 \in Int /\ q[n].size \in Int BY <1>1
  <2>3. IsFiniteSet(1..q[n].size) BY <2>2, FS_Interval
  <2> QED BY <2>1, <2>3, FS_Product
<1> HIDE DEF One
<1>3. f \in Surjection(1..Len(q), All) BY DEF Surjection
<1>4. IsFiniteSet(1..Len(q))
  <2>1. 1 \in Int /\ Len(q) \in Int BY <1>1
  <2> QED BY <2>1, FS_Interval
<1>5. \A T \in All : IsFiniteSet(T) BY <1>2
<1> HIDE DEF All, f
<1>6. IsFiniteSet(All) BY <1>3, <1>4, FS_Surjection
<1>7. IsFiniteSet(UNION All) BY <1>5, <1>6, FS_UNION
<1>8. UNION All = Bytes(q) BY DEF All, One, Bytes
<1>9. IsFiniteSet(Bytes(q)) BY <1>7, <1>8
<1> QED BY <1>9, FS_CardinalityType DEF BodiesSize

\* The bodies of two parts of a queue.
LEMMA SizesAdd ==
  ASSUME NEW s \in Seq(Entries), NEW u \in Seq(Entries)
  PROVE  BodiesSize(s \o u) = BodiesSize(s) + BodiesSize(u)
<1> DEFINE l == Len(s)
           all == s \o u
           f == [x \in Bytes(u) |-> <<l + x[1], x[2]>>]
           Moved == {f[x] : x \in Bytes(u)}
<1>1. /\ all \in Seq(Entries) /\ Len(all) = l + Len(u) /\ l \in Nat /\ Len(u) \in Nat
      /\ \A i \in 1..(l + Len(u)) : all[i] = IF i <= l THEN s[i] ELSE u[i - l]
  BY ConcatProperties
<1> HIDE DEF l, all
<1>2. /\ \A n \in 1..l : n \in 1..Len(all) /\ all[n] = s[n]
      /\ \A n \in 1..Len(u) : l + n \in 1..Len(all) /\ all[l + n] = u[n]
      /\ \A n \in 1..Len(all) : n \in 1..l \/ \E k \in 1..Len(u) : n = l + k
  <2>1. ASSUME NEW n \in 1..l PROVE n \in 1..Len(all) /\ all[n] = s[n]
    <3>1. n \in 1..(l + Len(u)) /\ n <= l BY <1>1
    <3> QED BY <1>1, <3>1
  <2>2. ASSUME NEW n \in 1..Len(u) PROVE l + n \in 1..Len(all) /\ all[l + n] = u[n]
    <3>1. l + n \in 1..(l + Len(u)) /\ ~(l + n <= l) /\ (l + n) - l = n BY <1>1
    <3>2. all[l + n] = IF l + n <= l THEN s[l + n] ELSE u[(l + n) - l] BY <1>1, <3>1
    <3> QED BY <1>1, <3>1, <3>2
  <2>3. ASSUME NEW n \in 1..Len(all), n \notin 1..l PROVE \E k \in 1..Len(u) : n = l + k
    <3>1. n - l \in 1..Len(u) /\ n = l + (n - l) BY <1>1, <2>3
    <3> QED BY <3>1
  <2> QED BY <2>1, <2>2, <2>3
<1>3. Bytes(all) = Bytes(s) \cup Moved
  <2>1. ASSUME NEW x \in Bytes(all) PROVE x \in Bytes(s) \cup Moved
    <3>1. PICK n \in 1..Len(all), b \in Nat : b \in 1..all[n].size /\ x = <<n, b>>
      BY <1>1, BytesAre
    <3>2. CASE n \in 1..l
      <4>1. b \in 1..s[n].size BY <1>2, <3>1, <3>2
      <4> QED BY <3>1, <3>2, <4>1, BytesAre DEF l
    <3>3. ASSUME NEW k \in 1..Len(u), n = l + k PROVE x \in Moved
      <4>1. b \in 1..u[k].size BY <1>2, <3>1, <3>3
      <4>2. <<k, b>> \in Bytes(u) BY <4>1, BytesAre
      <4>3. f[<<k, b>>] = x BY <3>1, <3>3, <4>2
      <4> QED BY <4>2, <4>3
    <3> QED BY <1>2, <3>2, <3>3
  <2>2. ASSUME NEW x \in Bytes(s) PROVE x \in Bytes(all)
    <3>1. PICK n \in 1..l, b \in Nat : b \in 1..s[n].size /\ x = <<n, b>> BY BytesAre DEF l
    <3>2. n \in 1..Len(all) /\ b \in 1..all[n].size BY <1>2, <3>1
    <3> QED BY <1>1, <3>1, <3>2, BytesAre
  <2>3. ASSUME NEW y \in Bytes(u) PROVE f[y] \in Bytes(all)
    <3>1. PICK n \in 1..Len(u), b \in Nat : b \in 1..u[n].size /\ y = <<n, b>> BY BytesAre
    <3>2. l + n \in 1..Len(all) /\ b \in 1..all[l + n].size BY <1>2, <3>1
    <3>3. f[y] = <<l + n, b>> BY <2>3, <3>1
    <3> QED BY <1>1, <3>2, <3>3, BytesAre
  <2> HIDE DEF f
  <2> QED BY <2>1, <2>2, <2>3
<1>4. Bytes(s) \cap Moved = {}
  <2> SUFFICES ASSUME NEW y \in Bytes(u), f[y] \in Bytes(s) PROVE FALSE
    OBVIOUS
  <2>1. PICK n \in 1..Len(u), b \in Nat : b \in 1..u[n].size /\ y = <<n, b>> BY BytesAre
  <2>2. f[y] = <<l + n, b>> BY <2>1
  <2>3. PICK k \in 1..l, c \in Nat : c \in 1..s[k].size /\ f[y] = <<k, c>> BY BytesAre DEF l
  <2>4. l + n = k BY <2>2, <2>3
  <2> QED BY <1>1, <2>4
<1>5. f \in Bijection(Bytes(u), Moved)
  <2>1. ASSUME NEW x \in Bytes(u), NEW y \in Bytes(u), f[x] = f[y] PROVE x = y
    <3>1. PICK n \in 1..Len(u), b \in Nat : b \in 1..u[n].size /\ x = <<n, b>> BY BytesAre
    <3>2. PICK k \in 1..Len(u), c \in Nat : c \in 1..u[k].size /\ y = <<k, c>> BY BytesAre
    <3>3. f[x] = <<l + n, b>> /\ f[y] = <<l + k, c>> BY <3>1, <3>2
    <3>4. l + n = l + k /\ b = c BY <2>1, <3>3
    <3> QED BY <1>1, <3>1, <3>2, <3>4
  <2>2. f \in [Bytes(u) -> Moved] /\ DOMAIN f = Bytes(u) OBVIOUS
  <2>3. \A y \in Moved : \E x \in Bytes(u) : f[x] = y OBVIOUS
  <2> HIDE DEF f, Moved
  <2> QED BY <2>1, <2>2, <2>3 DEF Bijection, Injection, Surjection, IsInjective
<1> HIDE DEF f, Moved
<1>6. IsFiniteSet(Bytes(u)) /\ IsFiniteSet(Bytes(s)) BY BytesFinite
<1>7. IsFiniteSet(Moved) /\ Cardinality(Moved) = Cardinality(Bytes(u))
  BY <1>5, <1>6, FS_Bijection DEF ExistsBijection
<1>8. Cardinality(Bytes(s) \cup Moved) =
        Cardinality(Bytes(s)) + Cardinality(Moved) - Cardinality(Bytes(s) \cap Moved)
  BY <1>6, <1>7, FS_Union
<1>9. Cardinality({}) = 0 BY FS_EmptySet
<1>10. Cardinality(Bytes(s)) \in Nat /\ Cardinality(Bytes(u)) \in Nat
  BY <1>6, FS_CardinalityType
<1>11. Cardinality(Bytes(all)) = Cardinality(Bytes(s)) + Cardinality(Bytes(u))
  <2>1. Cardinality(Bytes(s) \cap Moved) = 0 BY <1>4, <1>9
  <2>2. Cardinality(Bytes(all)) = Cardinality(Bytes(s) \cup Moved) BY <1>3
  <2> QED BY <1>7, <1>8, <1>10, <2>1, <2>2
<1> QED BY <1>11 DEF BodiesSize, all

LEMMA SizeOfOne ==
  ASSUME NEW e \in Entries
  PROVE  BodiesSize(<<e>>) = e.size /\ e.size \in Nat
<1>1. e.size \in Nat BY DEF Entries
<1> DEFINE f == [b \in 1..e.size |-> <<1, b>>]
<1>2. Len(<<e>>) = 1 /\ <<e>>[1] = e OBVIOUS
<1>3. \A x : x \in Bytes(<<e>>) <=> \E b \in 1..e.size : x = <<1, b>>
  <2>1. <<e>> \in Seq(Entries) OBVIOUS
  <2>2. \A x : x \in Bytes(<<e>>) <=>
          \E n \in 1..Len(<<e>>), b \in Nat : b \in 1..<<e>>[n].size /\ x = <<n, b>>
    BY <2>1, BytesAre
  <2>3. \A n : n \in 1..1 <=> n = 1 OBVIOUS
  <2>4. \A b : b \in 1..e.size => b \in Nat BY <1>1
  <2> QED BY <1>2, <2>2, <2>3, <2>4
<1>4. f \in Bijection(1..e.size, Bytes(<<e>>))
  <2>1. DOMAIN f = 1..e.size /\ f \in [1..e.size -> Bytes(<<e>>)] BY <1>3
  <2>2. \A y \in Bytes(<<e>>) : \E b \in 1..e.size : f[b] = y BY <1>3
  <2>3. \A b, c \in 1..e.size : f[b] = f[c] => b = c OBVIOUS
  <2> HIDE DEF f
  <2> QED BY <2>1, <2>2, <2>3 DEF Bijection, Injection, Surjection, IsInjective
<1>5. 1 \in Int /\ e.size \in Int BY <1>1
<1>6. IsFiniteSet(1..e.size) /\ Cardinality(1..e.size) = IF 1 > e.size THEN 0 ELSE e.size - 1 + 1
  BY <1>5, FS_Interval
<1>7. Cardinality(Bytes(<<e>>)) = Cardinality(1..e.size)
  BY <1>4, <1>6, FS_Bijection DEF ExistsBijection
<1> QED BY <1>1, <1>6, <1>7 DEF BodiesSize

LEMMA SizeOfNone == BodiesSize(<<>>) = 0
<1>1. Bytes(<<>>) = {}
  <2>1. <<>> \in Seq(Entries) /\ Len(<<>>) = 0 OBVIOUS
  <2>2. ~\E n \in 1..0 : TRUE OBVIOUS
  <2> QED BY <2>1, <2>2, BytesAre
<1> QED BY <1>1, FS_EmptySet DEF BodiesSize

\* No key is there twice.
Distinct(q) == \A a, b \in 1..Len(q) : q[a].key = q[b].key => a = b

\* A queue is what comes before an entry, the entry, and what comes after.
LEMMA WithoutIs ==
  ASSUME NEW q \in Seq(Entries), NEW k \in Keys(q)
  PROVE  LET i == Place(q, k) w == Without(q, k) IN
         /\ w \in Seq(Entries) /\ Len(w) = Len(q) - 1
         /\ \A n \in 1..Len(w) : w[n] = IF n < i THEN q[n] ELSE q[n + 1]
         /\ BodiesSize(q) = BodiesSize(w) + EntryOf(q, k).size
<1> DEFINE i == Place(q, k)
           w == Without(q, k)
           e == q[i]
           A == SubSeq(q, 1, i - 1)
           B == SubSeq(q, i + 1, Len(q))
<1>1. i \in 1..Len(q) /\ Len(q) \in Nat /\ e \in Entries BY PlaceOf, ElementOfSeq
<1>2. w = A \o B BY DEF Without, RemoveAt
<1>3. EntryOf(q, k) = e BY DEF EntryOf
<1> HIDE DEF i
<1>4. /\ A \in Seq(Entries) /\ Len(A) = i - 1 /\ \A n \in 1..(i - 1) : A[n] = q[n]
  <2>1. \A n \in 1..(i - 1) : q[n] \in Entries
    <3>1. \A n \in 1..(i - 1) : n \in 1..Len(q) BY <1>1
    <3> QED BY <3>1, ElementOfSeq
  <2>2. 1 \in Int /\ i - 1 \in Int BY <1>1
  <2>3. /\ A \in Seq(Entries) /\ Len(A) = IF 1 <= i - 1 THEN (i - 1) - 1 + 1 ELSE 0
        /\ \A n \in 1..((i - 1) - 1 + 1) : A[n] = q[1 + n - 1]
    BY <2>1, <2>2, SubSeqProperties
  <2>4. (i - 1) - 1 + 1 = i - 1 /\ \A n \in 1..(i - 1) : 1 + n - 1 = n BY <1>1
  <2> HIDE DEF A
  <2> QED BY <1>1, <2>3, <2>4
<1>5. /\ B \in Seq(Entries) /\ Len(B) = Len(q) - i
      /\ \A n \in 1..(Len(q) - i) : B[n] = q[i + n]
  <2>1. \A n \in (i + 1)..Len(q) : q[n] \in Entries
    <3>1. \A n \in (i + 1)..Len(q) : n \in 1..Len(q) BY <1>1
    <3> QED BY <3>1, ElementOfSeq
  <2>2. i + 1 \in Int /\ Len(q) \in Int BY <1>1
  <2>3. /\ B \in Seq(Entries) /\ Len(B) = IF i + 1 <= Len(q) THEN Len(q) - (i + 1) + 1 ELSE 0
        /\ \A n \in 1..(Len(q) - (i + 1) + 1) : B[n] = q[(i + 1) + n - 1]
    BY <2>1, <2>2, SubSeqProperties
  <2>4. Len(q) - (i + 1) + 1 = Len(q) - i /\ \A n \in 1..(Len(q) - i) : (i + 1) + n - 1 = i + n
    BY <1>1
  <2> HIDE DEF B
  <2>5. Len(B) = Len(q) - i BY <1>1, <2>3
  <2>6. \A n \in 1..(Len(q) - i) : B[n] = q[i + n] BY <2>3, <2>4
  <2> QED BY <2>3, <2>5, <2>6
<1>6. q = (A \o <<e>>) \o B
  <2>1. 1 \in 1..(Len(q) + 1) /\ i - 1 \in (1 - 1)..Len(q) /\ i \in (i - 1)..Len(q) BY <1>1
  <2>2. SubSeq(q, 1, i - 1) \o SubSeq(q, (i - 1) + 1, i) = SubSeq(q, 1, i)
    BY <2>1, ConcatAdjacentSubSeq
  <2>3. i \in (1 - 1)..Len(q) /\ Len(q) \in i..Len(q) BY <1>1
  <2>4. SubSeq(q, 1, i) \o SubSeq(q, i + 1, Len(q)) = SubSeq(q, 1, Len(q))
    BY <2>1, <2>3, ConcatAdjacentSubSeq
  <2>5. SubSeq(q, 1, Len(q)) = q BY SubSeqFull
  <2>6. SubSeq(q, (i - 1) + 1, i) = <<e>>
    <3>1. (i - 1) + 1 = i /\ i \in Int /\ \A n \in i..i : n = i BY <1>1
    <3>2. \A n \in i..i : q[n] \in Entries BY <1>1, <3>1
    <3>3. /\ SubSeq(q, i, i) \in Seq(Entries) /\ Len(SubSeq(q, i, i)) = IF i <= i THEN i - i + 1 ELSE 0
          /\ \A n \in 1..(i - i + 1) : SubSeq(q, i, i)[n] = q[i + n - 1]
      BY <3>1, <3>2, SubSeqProperties
    <3> DEFINE one == SubSeq(q, i, i)
    <3> HIDE DEF one
    <3>4. Len(one) = 1 /\ one \in Seq(Entries)
      <4>1. i - i + 1 = 1 /\ i <= i BY <1>1
      <4> QED BY <3>3, <4>1 DEF one
    <3>5. one[1] = e
      <4>1. 1 \in 1..(i - i + 1) /\ i + 1 - 1 = i BY <1>1
      <4> QED BY <3>3, <4>1 DEF one
    <3>6. <<e>> \in Seq(Entries) /\ Len(<<e>>) = 1 /\ <<e>>[1] = e BY <1>1
    <3>7. \A n \in 1..1 : n = 1 OBVIOUS
    <3>8. one = <<e>> BY <3>4, <3>5, <3>6, <3>7, SeqEqual
    <3> QED BY <3>1, <3>8 DEF one
  <2> QED BY <2>2, <2>4, <2>5, <2>6
<1> HIDE DEF A, B
<1>7. BodiesSize(q) = BodiesSize(w) + e.size
  <2>1. <<e>> \in Seq(Entries) /\ A \o <<e>> \in Seq(Entries) BY <1>1, <1>4, ConcatProperties
  <2>2. BodiesSize(A \o <<e>>) = BodiesSize(A) + BodiesSize(<<e>>) BY <1>4, <2>1, SizesAdd
  <2>3. BodiesSize((A \o <<e>>) \o B) = BodiesSize(A \o <<e>>) + BodiesSize(B)
    BY <1>5, <2>1, SizesAdd
  <2>4. BodiesSize(A \o B) = BodiesSize(A) + BodiesSize(B) BY <1>4, <1>5, SizesAdd
  <2>5. BodiesSize(<<e>>) = e.size /\ e.size \in Nat BY <1>1, SizeOfOne
  <2>6. BodiesSize(A) \in Nat /\ BodiesSize(B) \in Nat BY <1>4, <1>5, BytesFinite
  <2> HIDE DEF e, w
  <2>7. BodiesSize(q) = BodiesSize((A \o <<e>>) \o B) BY <1>6
  <2>8. BodiesSize(w) = BodiesSize(A \o B) BY <1>2
  <2> QED BY <2>2, <2>3, <2>4, <2>5, <2>6, <2>7, <2>8
<1>8. /\ w \in Seq(Entries) /\ Len(w) = Len(q) - 1
      /\ \A n \in 1..Len(w) : w[n] = IF n < i THEN q[n] ELSE q[n + 1]
  <2>1. /\ A \o B \in Seq(Entries) /\ Len(A \o B) = Len(A) + Len(B)
        /\ \A n \in 1..(Len(A) + Len(B)) : (A \o B)[n] = IF n <= Len(A) THEN A[n] ELSE B[n - Len(A)]
    BY <1>4, <1>5, ConcatProperties
  <2> HIDE DEF w
  <2>2. Len(w) = Len(q) - 1 /\ Len(A) + Len(B) = Len(q) - 1 BY <1>1, <1>2, <1>4, <1>5, <2>1
  <2>3. ASSUME NEW n \in 1..(Len(q) - 1) PROVE w[n] = IF n < i THEN q[n] ELSE q[n + 1]
    <3>1. w[n] = IF n <= i - 1 THEN A[n] ELSE B[n - (i - 1)] BY <1>2, <1>4, <2>1, <2>2
    <3>2. CASE n < i
      <4>1. n <= i - 1 /\ n \in 1..(i - 1) BY <1>1, <3>2
      <4> QED BY <1>4, <3>1, <3>2, <4>1
    <3>3. CASE ~(n < i)
      <4>1. ~(n <= i - 1) /\ n - (i - 1) \in 1..(Len(q) - i) /\ i + (n - (i - 1)) = n + 1
        BY <1>1, <3>3
      <4>2. B[n - (i - 1)] = q[i + (n - (i - 1))] BY <1>5, <4>1
      <4> QED BY <3>1, <3>3, <4>1, <4>2
    <3> QED BY <3>2, <3>3
  <2> QED BY <1>2, <2>1, <2>2, <2>3
<1> QED BY <1>3, <1>7, <1>8 DEF i

\* A key is put last, where it was not or no longer.
LEMMA PutLast ==
  ASSUME NEW q \in Seq(Entries), Distinct(q), NEW k, NEW e \in Entries, e.key = k
  PROVE  LET new == Append(Without(q, k), e) IN
         /\ new \in Seq(Entries) /\ Distinct(new)
         /\ Len(new) = IF k \in Keys(q) THEN Len(q) ELSE Len(q) + 1
         /\ BodiesSize(new) =
              BodiesSize(q) - (IF k \in Keys(q) THEN EntryOf(q, k).size ELSE 0) + e.size
<1> DEFINE w == Without(q, k)
           new == Append(w, e)
           old == IF k \in Keys(q) THEN EntryOf(q, k).size ELSE 0
<1>1. Len(q) \in Nat /\ BodiesSize(q) \in Nat BY BytesFinite
<1>2. /\ w \in Seq(Entries) /\ Len(w) = IF k \in Keys(q) THEN Len(q) - 1 ELSE Len(q)
      /\ BodiesSize(q) = BodiesSize(w) + old /\ old \in Nat
      /\ \A n \in 1..Len(w) : w[n].key # k
      /\ Distinct(w)
  <2>1. CASE k \notin Keys(q)
    <3>1. w = q /\ old = 0 BY <2>1 DEF Without
    <3>2. \A n \in 1..Len(q) : q[n].key # k BY <2>1 DEF Keys
    <3> HIDE DEF w, old
    <3> QED BY <1>1, <2>1, <3>1, <3>2
  <2>2. CASE k \in Keys(q)
    <3> DEFINE i == Place(q, k)
    <3>1. /\ w \in Seq(Entries) /\ Len(w) = Len(q) - 1
          /\ \A n \in 1..Len(w) : w[n] = IF n < i THEN q[n] ELSE q[n + 1]
          /\ BodiesSize(q) = BodiesSize(w) + EntryOf(q, k).size
      BY <2>2, WithoutIs
    <3>2. old = EntryOf(q, k).size /\ EntryOf(q, k) \in Entries BY <2>2, EntryType
    <3>3. EntryOf(q, k).size \in Nat BY <3>2 DEF Entries
    <3>4. i \in 1..Len(q) /\ q[i].key = k BY <2>2, PlaceOf
    <3> HIDE DEF w, old, i
    <3> DEFINE from(n) == IF n < i THEN n ELSE n + 1
    <3>5. \A n \in 1..Len(w) : from(n) \in 1..Len(q) /\ from(n) # i /\ w[n] = q[from(n)]
      BY <1>1, <3>1, <3>4
    <3>6. \A a, b \in 1..Len(w) : from(a) = from(b) => a = b BY <1>1, <3>4
    <3> HIDE DEF from
    <3>7. \A n \in 1..Len(w) : w[n].key # k BY <3>4, <3>5 DEF Distinct
    <3>8. Distinct(w) BY <3>5, <3>6 DEF Distinct
    <3> QED BY <2>2, <3>1, <3>2, <3>3, <3>7, <3>8
  <2> QED BY <2>1, <2>2
<1> HIDE DEF w, old
<1>3. /\ new \in Seq(Entries) /\ Len(new) = Len(w) + 1
      /\ \A n \in 1..Len(w) : new[n] = w[n]
      /\ new[Len(w) + 1] = e
  BY <1>2, AppendProperties
<1>4. BodiesSize(new) = BodiesSize(w) + e.size
  <2>1. <<e>> \in Seq(Entries) OBVIOUS
  <2>2. new = w \o <<e>> BY <1>2, AppendIsConcat
  <2>3. BodiesSize(w \o <<e>>) = BodiesSize(w) + BodiesSize(<<e>>) BY <1>2, <2>1, SizesAdd
  <2> QED BY <2>2, <2>3, SizeOfOne
<1> HIDE DEF new
<1>5. Len(w) \in Nat /\ BodiesSize(w) \in Nat /\ e.size \in Nat
  <2>1. w \in Seq(Entries) BY <1>2
  <2>2. BodiesSize(w) \in Nat BY <2>1, BytesFinite
  <2>3. e.size \in Nat BY SizeOfOne
  <2> QED BY <2>1, <2>2, <2>3
<1>6. Distinct(new)
  <2> SUFFICES ASSUME NEW a \in 1..Len(new), NEW b \in 1..Len(new), new[a].key = new[b].key
               PROVE  a = b
    BY DEF Distinct
  <2>1. \A n \in 1..Len(new) : n \in 1..Len(w) \/ n = Len(w) + 1 BY <1>3, <1>5
  <2>2. CASE a \in 1..Len(w) /\ b \in 1..Len(w) BY <1>2, <1>3, <2>2 DEF Distinct
  <2>3. CASE a \in 1..Len(w) /\ b = Len(w) + 1 BY <1>2, <1>3, <2>3
  <2>4. CASE b \in 1..Len(w) /\ a = Len(w) + 1 BY <1>2, <1>3, <2>4
  <2> QED BY <2>1, <2>2, <2>3, <2>4
<1>7. BodiesSize(new) = BodiesSize(q) - old + e.size BY <1>1, <1>2, <1>4, <1>5
<1>8. Len(new) = IF k \in Keys(q) THEN Len(q) ELSE Len(q) + 1 BY <1>1, <1>2, <1>3
<1> QED BY <1>3, <1>6, <1>7, <1>8 DEF new, w, old

\* What a cache is to be, with its count of bytes.
Right(q, total) ==
  /\ total = BodiesSize(q) /\ total <= MaxBytes /\ Len(q) <= CacheCap /\ Distinct(q)

\* A read moves an entry and counts nothing.
LEMMA TouchedRight ==
  ASSUME NEW q \in Seq(Entries), NEW total, Right(q, total), NEW k
  PROVE  Right(Touched(q, k), total)
<1>1. CASE k \notin Keys(q) BY <1>1 DEF Touched
<1>2. CASE k \in Keys(q)
  <2> DEFINE e == EntryOf(q, k)
             new == Append(Without(q, k), e)
  <2>1. e \in Entries /\ e.key = k /\ e.size \in Nat
    <3>1. e \in Entries /\ e.key = k BY <1>2, EntryType, PlaceOf DEF EntryOf
    <3> QED BY <3>1 DEF Entries
  <2>2. /\ Distinct(new) /\ Len(new) = Len(q) /\ BodiesSize(new) = BodiesSize(q) - e.size + e.size
    BY <1>2, <2>1, PutLast DEF Right
  <2>3. BodiesSize(q) \in Nat BY BytesFinite
  <2> HIDE DEF new, e
  <2>4. Right(new, total) BY <2>1, <2>2, <2>3 DEF Right
  <2> QED BY <1>2, <2>4 DEF Touched, new, e
<1> QED BY <1>1, <1>2

\* Evictions end within both caps, with the right count.
LEMMA EvictedRight ==
  ASSUME NEW q \in Seq(Entries), Distinct(q)
  PROVE  Right(Evicted(q, BodiesSize(q)).queue, Evicted(q, BodiesSize(q)).total)
<1> DEFINE total == BodiesSize(q)
<1>1. Len(q) \in Nat /\ \A m \in 1..Len(q) : q[m] \in Entries BY ElementOfSeq
<1>2. PICK n \in 0..Len(q) :
         /\ Evicted(q, total).queue = SubSeq(q, n + 1, Len(q))
         /\ Evicted(q, total).total = total - BodiesSize(SubSeq(q, 1, n))
         /\ n = Len(q) \/ (/\ Len(q) - n <= CacheCap
                           /\ total - BodiesSize(SubSeq(q, 1, n)) <= MaxBytes)
  BY EvictedIs
<1> DEFINE gone == SubSeq(q, 1, n)
           left == SubSeq(q, n + 1, Len(q))
<1>3. /\ gone \in Seq(Entries) /\ left \in Seq(Entries) /\ Len(left) = Len(q) - n
      /\ \A k \in 1..Len(left) : left[k] = q[n + k] /\ n + k \in 1..Len(q)
  <2>1. 1 \in Int /\ n \in Int /\ n + 1 \in Int /\ Len(q) \in Int BY <1>1, <1>2
  <2>2. \A k \in 1..n : q[k] \in Entries BY <1>1, <1>2
  <2>3. gone \in Seq(Entries) BY <2>1, <2>2, SubSeqProperties
  <2>4. \A k \in (n + 1)..Len(q) : q[k] \in Entries BY <1>1, <1>2
  <2>5. /\ left \in Seq(Entries) /\ Len(left) = IF n + 1 <= Len(q) THEN Len(q) - (n + 1) + 1 ELSE 0
        /\ \A k \in 1..(Len(q) - (n + 1) + 1) : left[k] = q[(n + 1) + k - 1]
    BY <2>1, <2>4, SubSeqProperties
  <2> HIDE DEF left, gone
  <2>6. Len(left) = Len(q) - n /\ Len(q) - (n + 1) + 1 = Len(q) - n BY <1>1, <1>2, <2>5
  <2>7. \A k \in 1..(Len(q) - n) : (n + 1) + k - 1 = n + k /\ n + k \in 1..Len(q) BY <1>1, <1>2
  <2> QED BY <2>3, <2>5, <2>6, <2>7
<1>4. gone \o left = q
  <2>1. 1 \in 1..(Len(q) + 1) /\ n \in (1 - 1)..Len(q) /\ Len(q) \in n..Len(q) BY <1>1, <1>2
  <2>2. gone \o left = SubSeq(q, 1, Len(q)) BY <2>1, ConcatAdjacentSubSeq
  <2> HIDE DEF gone, left
  <2> QED BY <2>2, SubSeqFull
<1>5. Evicted(q, total).queue = left /\ Evicted(q, total).total = total - BodiesSize(gone)
  BY <1>2
<1>6. n = Len(q) \/ (Len(q) - n <= CacheCap /\ total - BodiesSize(gone) <= MaxBytes) BY <1>2
<1> HIDE DEF gone, left
<1>7. BodiesSize(q) = BodiesSize(gone) + BodiesSize(left)
  <2>1. BodiesSize(gone \o left) = BodiesSize(gone) + BodiesSize(left) BY <1>3, SizesAdd
  <2> QED BY <1>4, <2>1
<1>8. BodiesSize(gone) \in Nat /\ BodiesSize(left) \in Nat BY <1>3, BytesFinite
<1>9. total - BodiesSize(gone) = BodiesSize(left) BY <1>7, <1>8
<1>10. Len(left) <= CacheCap /\ BodiesSize(left) <= MaxBytes
  <2>1. CASE n # Len(q) BY <1>3, <1>6, <1>9, <2>1
  <2>2. CASE n = Len(q)
    <3>1. Len(left) = 0 BY <1>1, <1>3, <2>2
    <3>2. left = <<>> BY <1>3, <3>1
    <3>3. BodiesSize(left) = 0 BY <3>2, SizeOfNone
    <3> QED BY <3>1, <3>3, Limits
  <2> QED BY <2>1, <2>2
<1>11. Distinct(left)
  <2>1. \A a, b \in 1..Len(left) : n + a = n + b => a = b BY <1>2
  <2> QED BY <1>3, <2>1 DEF Distinct
<1> QED BY <1>5, <1>9, <1>10, <1>11 DEF Right, total

\* A body is stored: the count follows, and the caps hold again.
LEMMA StoredRight ==
  ASSUME NEW q \in Seq(Entries), NEW total, Right(q, total),
         NEW k \in Repos \X (1..MaxPages), NEW body \in Seq(Nat)
  PROVE  Right(Stored(q, total, k, body).queue, Stored(q, total, k, body).total)
<1> DEFINE e == [key |-> k, body |-> body, size |-> SizeOf(body)]
           new == Append(Without(q, k), e)
           old == IF k \in Keys(q) THEN EntryOf(q, k).size ELSE 0
<1>1. e \in Entries /\ e.key = k /\ e.size = SizeOf(body) BY DEF Entries, SizeOf
<1> HIDE DEF e
<1>2. new \in Seq(Entries) /\ Distinct(new) /\ BodiesSize(new) = BodiesSize(q) - old + e.size
  BY <1>1, PutLast DEF Right
<1>3. Stored(q, total, k, body) = Evicted(new, total - old + SizeOf(body)) BY DEF Stored, e
<1> HIDE DEF new, old
<1>4. total - old + SizeOf(body) = BodiesSize(new) BY <1>1, <1>2 DEF Right
<1> QED BY <1>2, <1>3, <1>4, EvictedRight

\* What the invariant asks of a cache.
LEMMA RightBounded ==
  ASSUME NEW q \in Seq(Entries), NEW total, Right(q, total)
  PROVE  /\ total = BodiesSize(q) /\ total <= MaxBytes /\ Len(q) <= CacheCap
         /\ Cardinality(Keys(q)) = Len(q)
<1> DEFINE f == [n \in 1..Len(q) |-> q[n].key]
<1>1. Len(q) \in Nat OBVIOUS
<1>2. f \in Bijection(1..Len(q), Keys(q))
  <2>1. f \in [1..Len(q) -> Keys(q)] /\ DOMAIN f = 1..Len(q) BY DEF Keys
  <2>2. \A y \in Keys(q) : \E n \in 1..Len(q) : f[n] = y BY DEF Keys
  <2>3. \A a, b \in 1..Len(q) : f[a] = f[b] => a = b BY DEF Right, Distinct
  <2> HIDE DEF f
  <2> QED BY <2>1, <2>2, <2>3 DEF Bijection, Injection, Surjection, IsInjective
<1>3. Cardinality(Keys(q)) = Len(q) BY <1>1, <1>2, FS_CountingElements DEF ExistsBijection
<1> QED BY <1>3 DEF Right
-----------------------------------------------------------------------------
(* One task at a time *)

TaskRec == [pc : {"queued"} \cup Active \cup Over, page : 1..MaxPages, again : BOOLEAN,
            want : Seq(Nat) \cup {None}, inbox : Answers \cup {None}, runs : Seq(Nat),
            cut : BOOLEAN, token : Nat \cup {None}, handed : 0..MaxTime \cup {None}]

\* The slots a sweep has are not exceeded.
Bounded ==
  \A s \in Sweeps : Cardinality({t \in Tasks : t[1] = s /\ task[t].pc \in Active}) <= Slots

\* A task's sweep, repository and installation.
LEMMA Places ==
  \A t \in Tasks : t[2] \in Repos /\ InstOf(t) \in Insts /\ SweepOf(t) \in Sweeps
BY AccessAssumption DEF InstOf, SweepOf, Repos, Insts

LEMMA Constants ==
  /\ Slots \in Nat \ {0} /\ MaxPages \in Nat \ {0} /\ MaxRuns \in Nat \ {0}
  /\ PageSize \in Nat \ {0} /\ CacheCap \in Nat \ {0} /\ JwtLife \in Nat \ {0}
  /\ Floor \in Nat /\ MaxBytes \in Nat /\ Skew \in Nat /\ MaxTime \in Nat /\ Budget \in Nat
  /\ Life \in Nat /\ Skew < Life /\ None \notin Tasks /\ None \notin Nat
BY AccessAssumption

\* What becomes of a task, and that the others stay.
LEMMA BecomesTyped ==
  ASSUME task \in [Tasks -> TaskRec], NEW t \in Tasks, NEW rec, rec \in TaskRec,
         Becomes(t, rec)
  PROVE  /\ task' \in [Tasks -> TaskRec] /\ task'[t] = rec
         /\ \A u \in Tasks \ {t} : task'[u] = task[u]
BY DEF Becomes

\* Tasks are active in no more than Slots of a sweep: one enters through a free
\* slot only.
LEMMA BoundedKept ==
  ASSUME task \in [Tasks -> TaskRec], task' \in [Tasks -> TaskRec], Bounded, NEW t \in Tasks,
         \A u \in Tasks \ {t} : task'[u] = task[u],
         task'[t].pc \in Active => task[t].pc \in Active \/ FreeSlot(t[1])
  PROVE  Bounded'
<1> DEFINE In(s) == {u \in Tasks : u[1] = s /\ task[u].pc \in Active}
           Next1(s) == {u \in Tasks : u[1] = s /\ task'[u].pc \in Active}
<1>1. ASSUME NEW s \in Sweeps PROVE Cardinality(Next1(s)) <= Slots
  <2>1. IsFiniteSet(In(s)) /\ IsFiniteSet(Next1(s))
    <3>1. In(s) \subseteq Tasks /\ Next1(s) \subseteq Tasks OBVIOUS
    <3> HIDE DEF In, Next1
    <3> QED BY <3>1, FS_Subset, AccessAssumption
  <2>2. Cardinality(In(s)) \in Nat /\ Cardinality(Next1(s)) \in Nat
    BY <2>1, FS_CardinalityType
  <2>3. Cardinality(In(s)) <= Slots BY DEF Bounded
  <2>4. CASE Next1(s) \subseteq In(s)
    <3>1. Cardinality(Next1(s)) <= Cardinality(In(s)) BY <2>1, <2>4, FS_Subset
    <3> QED BY <2>2, <2>3, <3>1, Constants
  <2>5. CASE ~(Next1(s) \subseteq In(s))
    <3>1. t[1] = s /\ task'[t].pc \in Active /\ task[t].pc \notin Active BY <2>5
    <3>2. Cardinality(In(s)) < Slots BY <3>1 DEF FreeSlot
    <3>3. Next1(s) = In(s) \cup {t} /\ t \notin In(s) BY <3>1
    <3> HIDE DEF In, Next1
    <3>4. Cardinality(In(s) \cup {t}) = Cardinality(In(s)) + 1
      BY <2>1, <3>3, FS_AddElement
    <3> QED BY <2>2, <3>2, <3>3, <3>4, Constants
  <2> QED BY <2>4, <2>5
<1> QED BY <1>1 DEF Bounded

\* A task that is left alone stays good while time passes and runs start.
LEMMA GoodStays ==
  ASSUME TypeOK, NEW t \in Tasks, Good(t), task'[t] = task[t], begun'[t] = begun[t],
         Listed(t[2]) <= Listed(t[2])', Listed(t[2])' \in Nat,
         now <= now', now' \in Nat, hit \subseteq hit', low \subseteq low'
  PROVE  Good(t)'
<1>0. /\ task[t] \in TaskRec /\ now \in Nat /\ Listed(t[2]) \in Nat /\ t[2] \in Repos
      /\ task[t].page \in Nat \ {0}
  BY Constants, Places DEF TypeOK, TaskRec, Listed
<1>1. Walk(t)'
  <2>0. Walk(t) BY DEF Good
  <2>1. \A x \in begun[t] : x \in 1..Listed(t[2])' BY <1>0, <2>0 DEF Walk
  <2>2. \A x \in begun[t] : x \in Nat BY <2>1
  <2>3. Collected(task[t].runs, begun[t], Listed(t[2]), task[t].page) =>
          Collected(task[t].runs, begun[t], Listed(t[2])', task[t].page)
    BY <1>0, <2>2, StillCollected
  <2>4. \A m \in 0..Listed(t[2]) : m \in 0..Listed(t[2])' BY <1>0
  <2>5. BodyOf(t)' = BodyOf(t) BY DEF BodyOf
  <2>6. task[t].pc = "ready" =>
          /\ task[t].page = 1 => task[t].runs = <<>>
          /\ ~(task[t].page = 1 /\ ~task[t].again) =>
               Collected(task[t].runs, begun[t], Listed(t[2])', task[t].page)
    BY <2>0, <2>3 DEF Walk
  <2>7. task[t].pc = "waiting" /\ task[t].inbox.status \in {"200", "304"} =>
          \E m \in 0..Listed(t[2])' :
            /\ IsPage(BodyOf(t), m, task[t].page)
            /\ task[t].inbox.more = (task[t].page * PageSize < m)
            /\ Collected(task[t].runs, begun[t], m, task[t].page)
    BY <2>0, <2>4 DEF Walk
  <2> QED BY <2>0, <2>1, <2>5, <2>6, <2>7 DEF Walk
<1>2. Handed(t)'
  <2>0. Handed(t) /\ Skew \in Nat BY Constants DEF Good
  <2>1. task[t].pc \in {"ready", "waiting"} => task[t].handed \in 0..now' BY <1>0, <2>0 DEF Handed
  <2>2. task[t].pc = "waiting" /\ task[t].inbox.status = "401" => now' - task[t].handed > Skew
    <3> SUFFICES ASSUME task[t].pc = "waiting", task[t].inbox.status = "401"
                 PROVE  now' - task[t].handed > Skew
      OBVIOUS
    <3>1. task[t].handed \in Nat /\ now - task[t].handed > Skew BY <1>0, <2>0 DEF Handed
    <3> QED BY <1>0, <2>0, <3>1
  <2>3. low # {} => low' # {} OBVIOUS
  <2> QED BY <2>0, <2>1, <2>2, <2>3, Zenon DEF Handed
<1>3. Excused(t)' BY DEF Good, Excused
<1> QED BY <1>1, <1>2, <1>3 DEF Good

\* The state that is not a task's own.
Around ==
  /\ now \in 0..MaxTime /\ used \in [Kinds -> Nat] /\ \A k \in Kinds : used[k] <= Limit[k]
  /\ listing \in [Repos -> Seq(Nat)] /\ remaining \in [Insts -> 0..Budget]
  /\ jwt \in [Sweeps -> {None} \cup 0..MaxTime] /\ gate \in [Sweeps -> BOOLEAN]
  /\ tokens \in [Sweeps -> [Insts -> {None} \cup Nat]]
  /\ minter \in [Insts -> Tasks \cup {None}] /\ budget \in [Insts -> {None} \cup 0..Budget]
  /\ cache \in [Insts -> Seq(Entries)]
  /\ begun \in [Tasks -> SUBSET Nat] /\ hit \subseteq Tasks /\ low \subseteq Insts

LEMMA TypeParts ==
  TypeOK <=> /\ Around /\ task \in [Tasks -> TaskRec] /\ Bounded
             /\ \A t \in Tasks : Len(task[t].runs) <= MaxRuns
BY Zenon DEF TypeOK, Around, TaskRec, Bounded

\* Trouble happens no more often than its bound.
LEMMA TroubleCounted ==
  ASSUME used \in [Kinds -> Nat], \A k \in Kinds : used[k] <= Limit[k],
         NEW kind \in Kinds, Happens(kind)
  PROVE  used' \in [Kinds -> Nat] /\ \A k \in Kinds : used'[k] <= Limit[k]
<1>1. Limit \in [Kinds -> Nat] BY AccessAssumption
<1>2. /\ used' = [used EXCEPT ![kind] = used[kind] + 1] /\ used[kind] < Limit[kind]
      /\ used[kind] \in Nat
  BY DEF Happens
<1>3. used' \in [Kinds -> Nat] BY <1>2
<1>4. ASSUME NEW k \in Kinds PROVE used'[k] <= Limit[k]
  <2>1. CASE k = kind
    <3>1. used'[k] = used[kind] + 1 /\ Limit[kind] \in Nat BY <1>1, <1>2, <2>1
    <3> QED BY <1>2, <2>1, <3>1
  <2>2. CASE k # kind BY <1>2, <2>2
  <2> QED BY <2>1, <2>2
<1> QED BY <1>3, <1>4

\* A step of one task, behind which that task is good.
LEMMA TaskMoves ==
  ASSUME IInv, NEW t \in Tasks, NEW rec \in TaskRec, Becomes(t, rec), Around',
         Len(rec.runs) <= MaxRuns,
         rec.pc \in Active => task[t].pc \in Active \/ FreeSlot(t[1]),
         now' = now, listing' = listing, \A u \in Tasks \ {t} : begun'[u] = begun[u],
         hit \subseteq hit', low \subseteq low', Good(t)'
  PROVE  TypeOK' /\ Numbered' /\ \A u \in Tasks : Good(u)'
<1>0. TypeOK /\ Numbered /\ \A u \in Tasks : Good(u) BY DEF IInv
<1>1. /\ Around /\ task \in [Tasks -> TaskRec] /\ Bounded
      /\ \A u \in Tasks : Len(task[u].runs) <= MaxRuns
  BY <1>0, TypeParts
<1>2. /\ task' \in [Tasks -> TaskRec] /\ task'[t] = rec
      /\ \A u \in Tasks \ {t} : task'[u] = task[u]
  BY <1>1, BecomesTyped
<1>3. Bounded' BY <1>1, <1>2, BoundedKept
<1>4. \A u \in Tasks : Len(task'[u].runs) <= MaxRuns
  <2> SUFFICES ASSUME NEW u \in Tasks PROVE Len(task'[u].runs) <= MaxRuns
    OBVIOUS
  <2> CASE u = t BY <1>2
  <2> CASE u # t BY <1>1, <1>2
  <2> QED OBVIOUS
<1>5. TypeOK' BY <1>2, <1>3, <1>4, Zenon DEF TypeOK, Around, TaskRec, Bounded
<1>6. Numbered' BY <1>0 DEF Numbered, Listed
<1>7. ASSUME NEW u \in Tasks PROVE Good(u)'
  <2>1. CASE u = t BY <2>1
  <2>2. CASE u # t
    <3>1. task'[u] = task[u] /\ begun'[u] = begun[u] /\ Good(u) BY <1>0, <1>2, <2>2
    <3>2. Listed(u[2])' = Listed(u[2]) /\ Listed(u[2]) \in Nat
      BY <1>1, Places DEF Listed, Around
    <3>3. now \in Nat BY <1>1, Constants DEF Around
    <3> QED BY <1>0, <3>1, <3>2, <3>3, GoodStays
  <2> QED BY <2>1, <2>2
<1> QED BY <1>5, <1>6, <1>7

\* The locks stay in order when no task enters or leaves a locked block.
LEMMA LocksKept ==
  ASSUME TypeOK, TokenDiscipline, NEW t \in Tasks, NEW rec, Becomes(t, rec),
         minter' = minter, tokens' = tokens, now' = now,
         task[t].pc # "minting", rec.pc # "minting"
  PROVE  TokenDiscipline'
<1>0. task \in [Tasks -> TaskRec] /\ minter \in [Insts -> Tasks \cup {None}] BY TypeParts DEF Around
<1>1. task'[t] = rec /\ \A u \in Tasks \ {t} : task'[u] = task[u] BY <1>0 DEF Becomes
<1>2. \A u \in Tasks : task'[u].pc = "minting" => task[u].pc = "minting" /\ u # t BY <1>1
<1>3. \A s, i : Usable(s, i)' = Usable(s, i) BY DEF Usable, IsExpired
<1>4. \A u \in Tasks : task[u].pc = "minting" => task'[u].pc = "minting" BY <1>1
<1>5. \A i \in Insts : minter[i] # None => minter[i] \in Tasks BY <1>0
<1>6. ASSUME NEW u \in Tasks, task'[u].pc = "minting"
      PROVE  minter'[InstOf(u)] = u /\ ~Usable(SweepOf(u), InstOf(u))'
  BY <1>2, <1>3, <1>6 DEF TokenDiscipline
<1>7. ASSUME NEW i \in Insts, minter'[i] # None
      PROVE  task'[minter'[i]].pc = "minting" /\ InstOf(minter'[i]) = i
  BY <1>4, <1>5, <1>7 DEF TokenDiscipline
<1> QED BY <1>6, <1>7 DEF TokenDiscipline
-----------------------------------------------------------------------------
(* The steps *)

\* Runs start, sweeps start and time passes behind a task's back.
LEMMA BackgroundKeeps ==
  ASSUME IInv,
         (\E s \in Sweeps : StartSweep(s)) \/ (\E r \in Repos : NewRun(r)) \/ Tick \/ UNCHANGED vars
  PROVE  IInv'
<1>0. /\ TypeOK /\ TokenDiscipline /\ Numbered /\ Warned /\ \A t \in Tasks : Good(t)
      /\ Around /\ task \in [Tasks -> TaskRec] /\ Bounded
      /\ \A t \in Tasks : Len(task[t].runs) <= MaxRuns
  BY TypeParts DEF IInv
<1>1. now \in Nat /\ \A r \in Repos : Listed(r) \in Nat BY <1>0, Constants DEF Around, Listed
<1>2. ASSUME task' = task, begun' = begun, hit' = hit, low' = low, minter' = minter,
             tokens' = tokens, gate' = gate, Around', Numbered', now' \in Nat, now <= now',
             \A r \in Repos : Listed(r)' \in Nat /\ Listed(r) <= Listed(r)'
      PROVE  IInv'
  <2>1. TypeOK' BY <1>0, <1>2, Zenon DEF TypeOK, Around, TaskRec, Bounded
  <2>2. TokenDiscipline'
    <3>1. \A s \in Sweeps, i \in Insts : tokens[s][i] # None => tokens[s][i] \in Nat
      BY <1>0 DEF Around
    <3>2. \A s \in Sweeps, i \in Insts : Usable(s, i)' => Usable(s, i)
      BY <1>1, <1>2, <3>1, Constants DEF Usable, IsExpired
    <3> QED BY <1>0, <1>2, <3>2, Places DEF TokenDiscipline
  <2>3. Warned' BY <1>0, <1>2 DEF Warned
  <2>4. \A t \in Tasks : Good(t)'
    <3> SUFFICES ASSUME NEW t \in Tasks PROVE Good(t)'
      OBVIOUS
    <3>1. Good(t) /\ t[2] \in Repos BY <1>0, Places
    <3> QED BY <1>0, <1>1, <1>2, <3>1, GoodStays
  <2> QED BY <1>2, <2>1, <2>2, <2>3, <2>4 DEF IInv
<1>3. ASSUME NEW s \in Sweeps, StartSweep(s) PROVE IInv'
  <2>1. Around' BY <1>0, <1>3 DEF Around, StartSweep, github, process, history
  <2>2. Numbered' BY <1>0, <1>3 DEF Numbered, Listed, StartSweep, github
  <2>3. listing' = listing /\ now' = now BY <1>3 DEF StartSweep, github
  <2> QED BY <1>1, <1>2, <1>3, <2>1, <2>2, <2>3
        DEF StartSweep, github, process, history, Listed
<1>4. ASSUME NEW r \in Repos, NewRun(r) PROVE IInv'
  <2> DEFINE old == listing[r]
             new == <<Len(old) + 1>> \o old
  <2>1. old \in Seq(Nat) /\ Len(old) \in Nat BY <1>0 DEF Around
  <2>2. /\ listing' = [listing EXCEPT ![r] = new] /\ Happens("run")
        /\ UNCHANGED <<now, remaining, process, sweep, task, history>>
    BY <1>4 DEF NewRun
  <2> HIDE DEF old
  <2>3. /\ new \in Seq(Nat) /\ Len(new) = Len(old) + 1
        /\ \A k \in 1..(Len(old) + 1) : new[k] = IF k = 1 THEN Len(old) + 1 ELSE old[k - 1]
    <3>1. <<Len(old) + 1>> \in Seq(Nat) BY <2>1
    <3>2. /\ new \in Seq(Nat) /\ Len(new) = Len(<<Len(old) + 1>>) + Len(old)
          /\ \A k \in 1..(Len(<<Len(old) + 1>>) + Len(old)) :
               new[k] = IF k <= Len(<<Len(old) + 1>>) THEN <<Len(old) + 1>>[k]
                        ELSE old[k - Len(<<Len(old) + 1>>)]
      BY <2>1, <3>1, ConcatProperties
    <3> HIDE DEF new
    <3>3. Len(<<Len(old) + 1>>) = 1 /\ <<Len(old) + 1>>[1] = Len(old) + 1 OBVIOUS
    <3>4. \A k \in 1..(Len(old) + 1) : k <= 1 <=> k = 1 BY <2>1
    <3> QED BY <2>1, <3>2, <3>3, <3>4
  <2> HIDE DEF new
  <2>4. listing'[r] = new /\ \A x \in Repos \ {r} : listing'[x] = listing[x]
    BY <1>0, <2>2 DEF Around
  <2>5. Around'
    <3>1. listing' \in [Repos -> Seq(Nat)] BY <1>0, <2>2, <2>3 DEF Around
    <3>2. used' \in [Kinds -> Nat] /\ \A k \in Kinds : used'[k] <= Limit[k]
      BY <1>0, <2>2, TroubleCounted DEF Kinds, Around
    <3> QED BY <1>0, <2>2, <3>1, <3>2 DEF Around, process, sweep, history
  <2>6. ASSUME NEW x \in Repos
        PROVE  /\ Listed(x)' \in Nat /\ Listed(x) <= Listed(x)'
               /\ \A n \in 1..Listed(x)' : listing'[x][n] = Listed(x)' + 1 - n
    <3>1. CASE x # r
      <4>1. listing'[x] = listing[x] BY <2>4, <3>1
      <4> QED BY <1>0, <1>1, <4>1 DEF Listed, Numbered
    <3>2. CASE x = r
      <4>1. listing'[x] = new /\ Listed(x)' = Len(old) + 1 /\ Listed(x) = Len(old)
        BY <2>3, <2>4, <3>2 DEF Listed, old
      <4>2. \A n \in 1..Len(old) : old[n] = Len(old) + 1 - n
        BY <1>0 DEF Numbered, Listed, old
      <4>3. ASSUME NEW n \in 1..(Len(old) + 1) PROVE new[n] = (Len(old) + 1) + 1 - n
        <5>1. CASE n = 1 BY <2>1, <2>3, <5>1
        <5>2. CASE n # 1
          <6>1. n - 1 \in 1..Len(old) BY <2>1, <5>2
          <6>2. new[n] = old[n - 1] BY <2>3, <5>2
          <6>3. old[n - 1] = Len(old) + 1 - (n - 1) BY <4>2, <6>1
          <6> QED BY <2>1, <6>2, <6>3
        <5> QED BY <5>1, <5>2
      <4> QED BY <2>1, <4>1, <4>3
    <3> QED BY <3>1, <3>2
  <2>7. Numbered' BY <2>6 DEF Numbered
  <2> QED BY <1>1, <1>2, <2>2, <2>5, <2>6, <2>7 DEF process, sweep, history
<1>5. CASE Tick
  <2>1. now' \in 0..MaxTime /\ now' = now + 1 BY <1>0, <1>5, Constants DEF Tick, Around
  <2>2. Around' BY <1>0, <1>5, <2>1 DEF Around, Tick, github, process, sweep, history
  <2>3. Numbered' /\ listing' = listing BY <1>0, <1>5 DEF Numbered, Listed, Tick, github
  <2> QED BY <1>1, <1>2, <1>5, <2>1, <2>2, <2>3
        DEF Tick, github, process, sweep, history, Listed
<1>6. CASE UNCHANGED vars
  <2>1. Around' BY <1>0, <1>6 DEF Around, vars, github, process, sweep, history
  <2>2. Numbered' BY <1>0, <1>6 DEF Numbered, Listed, vars, github
  <2> QED BY <1>1, <1>2, <1>6, <2>1, <2>2
        DEF vars, github, process, sweep, history, Listed
<1> QED BY <1>3, <1>4, <1>5, <1>6

LEMMA EndedTyped ==
  ASSUME NEW pc \in Over
  PROVE  /\ [Idle EXCEPT !.pc = pc] \in TaskRec /\ [Idle EXCEPT !.pc = pc].pc = pc
         /\ Len([Idle EXCEPT !.pc = pc].runs) = 0 /\ pc \notin Active /\ pc # "minting"
<1>1. 1 \in 1..MaxPages /\ <<>> \in Seq(Nat) /\ Len(<<>>) = 0 BY Constants
<1>2. "queued" \in {"queued"} \cup Active \cup Over OBVIOUS
<1>3. Idle \in TaskRec BY <1>1, <1>2, Zenon DEF TaskRec, Idle
<1>4. pc \in {"queued"} \cup Active \cup Over OBVIOUS
<1>5. [Idle EXCEPT !.pc = pc] \in TaskRec BY <1>3, <1>4 DEF TaskRec
<1>6. [Idle EXCEPT !.pc = pc].pc = pc BY <1>3 DEF TaskRec
<1>7. [Idle EXCEPT !.pc = pc].runs = Idle.runs BY <1>3 DEF TaskRec
<1>8. Idle.runs = <<>> BY DEF Idle
<1>9. pc \notin Active /\ pc # "minting" BY DEF Over, Active
<1> QED BY <1>1, <1>5, <1>6, <1>7, <1>8, <1>9

LEMMA Parts ==
  ASSUME IInv
  PROVE  /\ TypeOK /\ TokenDiscipline /\ Numbered /\ Warned /\ \A t \in Tasks : Good(t)
         /\ Around /\ task \in [Tasks -> TaskRec] /\ Bounded
         /\ \A t \in Tasks : Len(task[t].runs) <= MaxRuns
BY TypeParts DEF IInv

\* A task that is over, with a reason.
LEMMA EndedGood ==
  ASSUME IInv, NEW t \in Tasks, NEW pc \in {"failed", "skipped"}, Ends(t, pc),
         listing' = listing, begun'[t] \subseteq 1..Listed(t[2]),
         pc = "failed" => t \in hit', pc = "skipped" => low' # {}
  PROVE  Good(t)'
<1>1. task'[t] = [Idle EXCEPT !.pc = pc] BY Parts DEF Ends, Becomes
<1>2. task'[t].pc = pc BY <1>1, EndedTyped DEF Over
<1>3. Walk(t)' BY <1>2 DEF Walk, Listed
<1>4. Handed(t)' BY <1>2 DEF Handed
<1>5. Excused(t)' BY <1>2 DEF Excused
<1> QED BY <1>3, <1>4, <1>5 DEF Good

LEMMA Begun ==
  ASSUME IInv, NEW t \in Tasks
  PROVE  begun[t] \subseteq 1..Listed(t[2])
BY Parts DEF Good, Walk

\* The second look at the cache of tokens, with the lock or before it.
LEMMA RecheckKeeps ==
  ASSUME IInv, NEW t \in Tasks, task[t].pc \in {"queued", "locking"},
         task[t].pc = "queued" => FreeSlot(t[1]),
         Usable(SweepOf(t), InstOf(t)) \/ minter[InstOf(t)] = None, Recheck(t),
         UNCHANGED <<now, used, github, cache, bytes, budget, sweep, history>>
  PROVE  IInv'
<1> DEFINE i == InstOf(t)
           expiry == tokens[SweepOf(t)][i]
<1>0. /\ TypeOK /\ TokenDiscipline /\ Numbered /\ Warned /\ \A u \in Tasks : Good(u)
      /\ Around /\ task \in [Tasks -> TaskRec] /\ task[t] \in TaskRec
  BY Parts
<1>1. /\ now' = now /\ used' = used /\ listing' = listing /\ remaining' = remaining
      /\ cache' = cache /\ budget' = budget /\ jwt' = jwt /\ gate' = gate /\ tokens' = tokens
      /\ begun' = begun /\ hit' = hit /\ low' = low
  BY DEF github, sweep, history
<1>2. /\ task[t].page = 1 /\ ~task[t].again /\ task[t].runs = <<>>
      /\ begun[t] \subseteq 1..Listed(t[2]) /\ Len(<<>>) = 0 /\ i \in Insts
  BY <1>0, Places DEF Good, Walk
<1>3. Warned' BY <1>0, <1>1 DEF Warned
<1>4. CASE Usable(SweepOf(t), i)
  <2> DEFINE rec == HasToken(t, expiry)
  <2>1. Becomes(t, rec) /\ minter' = minter BY <1>4 DEF Recheck
  <2>2. expiry \in Nat /\ now \in 0..MaxTime /\ expiry > now + Skew
    <3>1. expiry \in {None} \cup Nat /\ expiry # None /\ ~(now >= expiry - Skew)
      BY <1>0, <1>4, Places DEF Around, Usable, IsExpired
    <3>2. now \in 0..MaxTime BY <1>0 DEF Around
    <3> QED BY <3>1, <3>2, Constants
  <2>3. /\ rec \in TaskRec /\ rec.pc = "ready" /\ rec.token = expiry /\ rec.handed = now
        /\ rec.page = 1 /\ ~rec.again /\ rec.runs = <<>>
    BY <1>0, <1>2, <2>2 DEF HasToken, TaskRec, Active
  <2>4. task'[t] = rec BY <1>0, <2>1 DEF Becomes
  <2> HIDE DEF rec
  <2>5. Walk(t)' BY <1>1, <1>2, <2>3, <2>4 DEF Walk, Listed
  <2>6. Handed(t)'
    <3>1. now \in 0..now /\ 0 < MaxRuns BY <2>2, Constants
    <3> QED BY <1>1, <1>2, <2>2, <2>3, <2>4, <3>1 DEF Handed
  <2>7. Excused(t)' BY <2>3, <2>4 DEF Excused
  <2>8. Around' BY <1>0, <1>1, <2>1 DEF Around
  <2>9. TokenDiscipline' BY <1>0, <1>1, <2>1, <2>3, LocksKept
  <2>10. rec.pc \in Active => task[t].pc \in Active \/ FreeSlot(t[1]) BY DEF Active
  <2>11. Len(rec.runs) <= MaxRuns BY <1>2, <2>3, Constants
  <2>12. TypeOK' /\ Numbered' /\ \A u \in Tasks : Good(u)'
    <3>1. Good(t)' BY <2>5, <2>6, <2>7 DEF Good
    <3> QED BY <1>1, <2>1, <2>3, <2>8, <2>10, <2>11, <3>1, TaskMoves
  <2> QED BY <1>3, <2>9, <2>12 DEF IInv
<1>5. CASE ~Usable(SweepOf(t), i)
  <2> DEFINE rec == [task[t] EXCEPT !.pc = "minting"]
  <2>1. Becomes(t, rec) /\ minter' = [minter EXCEPT ![i] = t] /\ minter[i] = None
    BY <1>5 DEF Recheck
  <2>3. /\ rec \in TaskRec /\ rec.pc = "minting"
        /\ rec.page = 1 /\ ~rec.again /\ rec.runs = <<>>
    BY <1>0, <1>2 DEF TaskRec, Active
  <2>4. task'[t] = rec /\ \A u \in Tasks \ {t} : task'[u] = task[u]
    BY <1>0, <2>1 DEF Becomes
  <2> HIDE DEF rec
  <2>5. Walk(t)' BY <1>1, <1>2, <2>3, <2>4 DEF Walk, Listed
  <2>6. Handed(t)' BY <2>3, <2>4 DEF Handed
  <2>7. Excused(t)' BY <2>3, <2>4 DEF Excused
  <2>8. Around'
    <3>1. minter' \in [Insts -> Tasks \cup {None}] BY <1>0, <2>1 DEF Around
    <3> QED BY <1>0, <1>1, <3>1 DEF Around
  <2>9. TokenDiscipline'
    <3>0. minter \in [Insts -> Tasks \cup {None}] BY <1>0 DEF Around
    <3>1. \A s, x : Usable(s, x)' = Usable(s, x) BY <1>1 DEF Usable, IsExpired
    <3>2. ASSUME NEW u \in Tasks, task'[u].pc = "minting"
          PROVE  minter'[InstOf(u)] = u /\ ~Usable(SweepOf(u), InstOf(u))'
      <4>1. CASE u = t BY <1>2, <1>5, <2>1, <3>0, <3>1, <4>1
      <4>2. CASE u # t
        <5>1. task[u].pc = "minting" BY <2>4, <3>2, <4>2
        <5>2. minter[InstOf(u)] = u /\ ~Usable(SweepOf(u), InstOf(u))
          BY <1>0, <5>1 DEF TokenDiscipline
        <5>3. InstOf(u) # i /\ InstOf(u) \in Insts BY <2>1, <5>2, Constants, Places
        <5> QED BY <2>1, <3>0, <3>1, <5>2, <5>3
      <4> QED BY <4>1, <4>2
    <3>3. ASSUME NEW x \in Insts, minter'[x] # None
          PROVE  task'[minter'[x]].pc = "minting" /\ InstOf(minter'[x]) = x
      <4>1. CASE x = i BY <2>1, <2>3, <2>4, <3>0, <4>1
      <4>2. CASE x # i
        <5>1. minter'[x] = minter[x] /\ minter[x] \in Tasks BY <2>1, <3>0, <3>3, <4>2
        <5>2. task[minter[x]].pc = "minting" /\ InstOf(minter[x]) = x
          BY <1>0, <3>3, <5>1 DEF TokenDiscipline
        <5> QED BY <2>3, <2>4, <5>1, <5>2
      <4> QED BY <4>1, <4>2
    <3> QED BY <3>2, <3>3 DEF TokenDiscipline
  <2>10. rec.pc \in Active => task[t].pc \in Active \/ FreeSlot(t[1]) BY DEF Active
  <2>11. Len(rec.runs) <= MaxRuns BY <1>2, <2>3, Constants
  <2>12. TypeOK' /\ Numbered' /\ \A u \in Tasks : Good(u)'
    <3>1. Good(t)' BY <2>5, <2>6, <2>7 DEF Good
    <3> QED BY <1>1, <2>1, <2>3, <2>8, <2>10, <2>11, <3>1, TaskMoves
  <2> QED BY <1>3, <2>9, <2>12 DEF IInv
<1> QED BY <1>4, <1>5

\* A task gets a slot, or the lock.
LEMMA BeginKeeps ==
  ASSUME IInv, NEW t \in Tasks, Begin(t) \/ Lock(t)
  PROVE  IInv'
<1>0. /\ TypeOK /\ TokenDiscipline /\ Numbered /\ Warned /\ \A u \in Tasks : Good(u)
      /\ Around /\ task \in [Tasks -> TaskRec] /\ task[t] \in TaskRec
  BY Parts
<1>1. UNCHANGED <<now, used, github, cache, bytes, budget, sweep, history>> BY DEF Begin, Lock
<1>2. CASE Lock(t) BY <1>1, <1>2, RecheckKeeps DEF Lock
<1>3. CASE Begin(t)
  <2>1. task[t].pc = "queued" /\ FreeSlot(t[1]) BY <1>3 DEF Begin, SweepOf
  <2>2. CASE ~gate[SweepOf(t)] /\ (Usable(SweepOf(t), InstOf(t)) \/ minter[InstOf(t)] = None)
    <3>1. Recheck(t) BY <1>3, <2>2 DEF Begin
    <3> QED BY <1>1, <2>1, <2>2, <3>1, RecheckKeeps
  <2>3. CASE gate[SweepOf(t)] \/ ~(Usable(SweepOf(t), InstOf(t)) \/ minter[InstOf(t)] = None)
    <3>1. /\ now' = now /\ used' = used /\ listing' = listing /\ remaining' = remaining
          /\ cache' = cache /\ budget' = budget /\ jwt' = jwt /\ gate' = gate /\ tokens' = tokens
          /\ begun' = begun /\ hit' = hit /\ low' = low /\ minter' = minter
      BY <1>1, <1>3, <2>3 DEF Begin, github, sweep, history
    <3>2. Around' /\ Warned' BY <1>0, <3>1 DEF Around, Warned
    <3>3. CASE gate[SweepOf(t)]
      <4> DEFINE rec == [Idle EXCEPT !.pc = "skipped"]
      <4>1. Ends(t, "skipped") BY <1>3, <3>3 DEF Begin
      <4>2. Becomes(t, rec) BY <4>1 DEF Ends
      <4>3. low # {} BY <1>0, <3>3, Places DEF Warned
      <4>4. begun'[t] \subseteq 1..Listed(t[2]) BY <3>1, Begun
      <4>5. Good(t)' BY <3>1, <4>1, <4>3, <4>4, EndedGood
      <4>6. rec \in TaskRec /\ rec.pc = "skipped" /\ Len(rec.runs) = 0 /\ rec.pc \notin Active
        BY EndedTyped DEF Over
      <4> HIDE DEF rec
      <4>7. Len(rec.runs) <= MaxRuns BY <4>6, Constants
      <4>8. TypeOK' /\ Numbered' /\ \A u \in Tasks : Good(u)'
        BY <3>1, <3>2, <4>2, <4>5, <4>6, <4>7, TaskMoves
      <4>9. TokenDiscipline' BY <1>0, <2>1, <3>1, <4>2, <4>6, LocksKept
      <4> QED BY <3>2, <4>8, <4>9 DEF IInv
    <3>4. CASE ~gate[SweepOf(t)]
      <4> DEFINE rec == [task[t] EXCEPT !.pc = "locking"]
      <4>1. Becomes(t, rec) BY <1>3, <2>3, <3>4 DEF Begin
      <4>2. /\ task[t].page = 1 /\ ~task[t].again /\ task[t].runs = <<>>
            /\ begun[t] \subseteq 1..Listed(t[2]) /\ Len(<<>>) = 0
        BY <1>0, <2>1 DEF Good, Walk
      <4>3. /\ rec \in TaskRec /\ rec.pc = "locking"
            /\ rec.page = 1 /\ ~rec.again /\ rec.runs = <<>>
        BY <1>0, <4>2 DEF TaskRec, Active
      <4>4. task'[t] = rec BY <1>0, <4>1 DEF Becomes
      <4> HIDE DEF rec
      <4>5. Walk(t)' BY <3>1, <4>2, <4>3, <4>4 DEF Walk, Listed
      <4>6. Handed(t)' BY <4>3, <4>4 DEF Handed
      <4>7. Excused(t)' BY <4>3, <4>4 DEF Excused
      <4>8. Len(rec.runs) <= MaxRuns BY <4>2, <4>3, Constants
      <4>9. TypeOK' /\ Numbered' /\ \A u \in Tasks : Good(u)'
        <5>1. Good(t)' BY <4>5, <4>6, <4>7 DEF Good
        <5> QED BY <2>1, <3>1, <3>2, <4>1, <4>3, <4>8, <5>1, TaskMoves
      <4>10. TokenDiscipline' BY <1>0, <2>1, <3>1, <4>1, <4>3, LocksKept
      <4> QED BY <3>2, <4>9, <4>10 DEF IInv
    <3> QED BY <3>3, <3>4
  <2> QED BY <2>2, <2>3
<1> QED BY <1>2, <1>3

\* The lock is handed back, and with it at most the token of its installation.
LEMMA LockReleased ==
  ASSUME TypeOK, TokenDiscipline, NEW t \in Tasks, NEW rec, Becomes(t, rec),
         task[t].pc = "minting", rec.pc # "minting", now' = now,
         minter' = [minter EXCEPT ![InstOf(t)] = None],
         \A s \in Sweeps, x \in Insts \ {InstOf(t)} : tokens'[s][x] = tokens[s][x]
  PROVE  TokenDiscipline'
<1> DEFINE i == InstOf(t)
<1>0. /\ task \in [Tasks -> TaskRec] /\ minter \in [Insts -> Tasks \cup {None}] /\ i \in Insts
      /\ minter[i] = t
  BY TypeParts, Places DEF Around, TokenDiscipline
<1>1. task'[t] = rec /\ \A u \in Tasks \ {t} : task'[u] = task[u] BY <1>0 DEF Becomes
<1>2. minter'[i] = None /\ \A x \in Insts \ {i} : minter'[x] = minter[x] BY <1>0
<1>3. \A s \in Sweeps, x \in Insts \ {i} : Usable(s, x)' = Usable(s, x)
  BY DEF Usable, IsExpired
<1>4. ASSUME NEW u \in Tasks, task'[u].pc = "minting"
      PROVE  minter'[InstOf(u)] = u /\ ~Usable(SweepOf(u), InstOf(u))'
  <2>1. u # t /\ task[u].pc = "minting" BY <1>1, <1>4
  <2>2. minter[InstOf(u)] = u /\ ~Usable(SweepOf(u), InstOf(u)) BY <2>1 DEF TokenDiscipline
  <2>3. InstOf(u) # i /\ InstOf(u) \in Insts /\ SweepOf(u) \in Sweeps BY <1>0, <2>1, <2>2, Places
  <2> QED BY <1>2, <1>3, <2>2, <2>3
<1>5. ASSUME NEW x \in Insts, minter'[x] # None
      PROVE  task'[minter'[x]].pc = "minting" /\ InstOf(minter'[x]) = x
  <2>1. x # i /\ minter'[x] = minter[x] /\ minter[x] \in Tasks BY <1>0, <1>2, <1>5
  <2>2. task[minter[x]].pc = "minting" /\ InstOf(minter[x]) = x
    BY <1>5, <2>1 DEF TokenDiscipline
  <2>3. minter[x] # t BY <2>1, <2>2
  <2> QED BY <1>1, <2>1, <2>2, <2>3
<1> QED BY <1>4, <1>5 DEF TokenDiscipline

LEMMA MintKeeps ==
  ASSUME IInv, NEW t \in Tasks, Mint(t)
  PROVE  IInv'
<1> DEFINE i == InstOf(t)
           s == SweepOf(t)
           expiry == now + Life
           rec == HasToken(t, expiry)
<1>0. /\ TypeOK /\ TokenDiscipline /\ Numbered /\ Warned /\ \A u \in Tasks : Good(u)
      /\ Around /\ task \in [Tasks -> TaskRec] /\ task[t] \in TaskRec
  BY Parts
<1>1. /\ now' = now /\ used' = used /\ listing' = listing /\ remaining' = remaining
      /\ cache' = cache /\ budget' = budget /\ jwt' = jwt /\ gate' = gate
      /\ begun' = begun /\ hit' = hit /\ low' = low
      /\ task[t].pc = "minting" /\ Becomes(t, rec)
      /\ minter' = [minter EXCEPT ![i] = None]
      /\ tokens' = IF s \in Keeps THEN [tokens EXCEPT ![s][i] = now + Life] ELSE tokens
  BY DEF Mint, github, history
<1>2. i \in Insts /\ s \in Sweeps BY Places
<1>3. now \in 0..MaxTime /\ expiry \in Nat /\ expiry > now + Skew
  <2>1. now \in 0..MaxTime BY <1>0 DEF Around
  <2> QED BY <2>1, Constants
<1>4. /\ task[t].page = 1 /\ ~task[t].again /\ task[t].runs = <<>>
      /\ begun[t] \subseteq 1..Listed(t[2]) /\ Len(<<>>) = 0
  BY <1>0, <1>1 DEF Good, Walk
<1> HIDE DEF expiry
<1>5. /\ rec \in TaskRec /\ rec.pc = "ready" /\ rec.token = expiry /\ rec.handed = now
      /\ rec.page = 1 /\ ~rec.again /\ rec.runs = <<>>
  BY <1>0, <1>3, <1>4 DEF HasToken, TaskRec, Active
<1>6. task'[t] = rec BY <1>0, <1>1 DEF Becomes
<1>7. /\ tokens' \in [Sweeps -> [Insts -> {None} \cup Nat]]
      /\ \A d \in Sweeps, x \in Insts \ {i} : tokens'[d][x] = tokens[d][x]
  <2>1. tokens \in [Sweeps -> [Insts -> {None} \cup Nat]] BY <1>0 DEF Around
  <2>2. now + Life \in {None} \cup Nat BY <1>3 DEF expiry
  <2> QED BY <1>1, <1>2, <2>1, <2>2
<1> HIDE DEF rec
<1>8. TokenDiscipline' BY <1>0, <1>1, <1>5, <1>7, LockReleased
<1>9. Around'
  <2>1. minter' \in [Insts -> Tasks \cup {None}] BY <1>0, <1>1 DEF Around
  <2> QED BY <1>0, <1>1, <1>7, <2>1 DEF Around
<1>10. Walk(t)' BY <1>1, <1>4, <1>5, <1>6 DEF Walk, Listed
<1>11. Handed(t)'
  <2>1. now \in 0..now /\ 0 < MaxRuns BY <1>3, Constants
  <2> QED BY <1>1, <1>3, <1>4, <1>5, <1>6, <2>1 DEF Handed
<1>12. Excused(t)' BY <1>5, <1>6 DEF Excused
<1>13. Good(t)' BY <1>10, <1>11, <1>12 DEF Good
<1>14. Len(rec.runs) <= MaxRuns /\ task[t].pc \in Active BY <1>1, <1>4, <1>5, Constants DEF Active
<1>15. TypeOK' /\ Numbered' /\ \A u \in Tasks : Good(u)'
  BY <1>1, <1>5, <1>9, <1>13, <1>14, TaskMoves
<1>16. Warned' BY <1>0, <1>1 DEF Warned
<1> QED BY <1>8, <1>15, <1>16 DEF IInv

\* A step that ends in a failure of GitHub's.
LEMMA FailureKeeps ==
  ASSUME IInv, NEW t \in Tasks, Ends(t, "failed"), Around', t \in hit',
         begun'[t] \subseteq 1..Listed(t[2]), \A u \in Tasks \ {t} : begun'[u] = begun[u],
         hit \subseteq hit', low \subseteq low', now' = now, listing' = listing,
         TokenDiscipline', Warned'
  PROVE  IInv'
<1> DEFINE rec == [Idle EXCEPT !.pc = "failed"]
<1>1. rec \in TaskRec /\ rec.pc = "failed" /\ Len(rec.runs) = 0 /\ rec.pc \notin Active
  BY EndedTyped DEF Over
<1>2. Becomes(t, rec) BY DEF Ends
<1>3. Good(t)' BY EndedGood
<1> HIDE DEF rec
<1>4. Len(rec.runs) <= MaxRuns BY <1>1, Constants
<1>5. TypeOK' /\ Numbered' /\ \A u \in Tasks : Good(u)' BY <1>1, <1>2, <1>3, <1>4, TaskMoves
<1> QED BY <1>5 DEF IInv

LEMMA MintFailsKeeps ==
  ASSUME IInv, NEW t \in Tasks, MintFails(t)
  PROVE  IInv'
<1>0. TypeOK /\ TokenDiscipline /\ Warned /\ Around BY Parts
<1>1. /\ now' = now /\ listing' = listing /\ remaining' = remaining
      /\ cache' = cache /\ budget' = budget /\ jwt' = jwt /\ gate' = gate /\ tokens' = tokens
      /\ begun' = begun /\ hit' = hit \cup {t} /\ low' = low
      /\ task[t].pc = "minting" /\ Ends(t, "failed")
      /\ minter' = [minter EXCEPT ![InstOf(t)] = None]
  BY DEF MintFails, github, sweep
<1>2. used' \in [Kinds -> Nat] /\ \A k \in Kinds : used'[k] <= Limit[k]
  <2>1. Happens("trouble") \/ used' = used BY DEF MintFails
  <2> QED BY <1>0, <2>1, TroubleCounted DEF Kinds, Around
<1>3. minter' \in [Insts -> Tasks \cup {None}] BY <1>0, <1>1 DEF Around
<1>4. Around' BY <1>0, <1>1, <1>2, <1>3 DEF Around
<1>5. TokenDiscipline'
  <2>1. [Idle EXCEPT !.pc = "failed"].pc # "minting" BY EndedTyped DEF Over
  <2>2. Becomes(t, [Idle EXCEPT !.pc = "failed"]) BY <1>1 DEF Ends
  <2> QED BY <1>0, <1>1, <2>1, <2>2, LockReleased
<1>6. Warned' BY <1>0, <1>1 DEF Warned
<1>7. begun'[t] \subseteq 1..Listed(t[2]) BY <1>1, Begun
<1> QED BY <1>1, <1>4, <1>5, <1>6, <1>7, FailureKeeps

\* What asking for a page comes with: the ETag of a body, and a walk that has
\* collected what comes before the page.
LEMMA AskRight ==
  ASSUME IInv, NEW t \in Tasks, Ask(t)
  PROVE  /\ task[t].pc = "ready" /\ Want(t) \in Seq(Nat) \cup {None}
         /\ cache' \in [Insts -> Seq(Entries)]
         /\ begun' \in [Tasks -> SUBSET Nat] /\ \A u \in Tasks \ {t} : begun'[u] = begun[u]
         /\ begun'[t] \subseteq 1..Listed(t[2])
         /\ Collected(task[t].runs, begun'[t], Listed(t[2]), task[t].page)
<1> DEFINE i == InstOf(t)
           r == t[2]
<1>0. /\ Numbered /\ Good(t) /\ Around /\ task[t] \in TaskRec /\ i \in Insts /\ r \in Repos
  BY Parts, Places
<1>1. /\ task[t].pc = "ready" /\ cache[i] \in Seq(Entries)
      /\ cache' = [cache EXCEPT ![i] = IF task[t].again THEN cache[i] ELSE Touched(cache[i], Key(t))]
      /\ begun' = IF task[t].page = 1 /\ ~task[t].again
                  THEN [begun EXCEPT ![t] = ToSet(listing[r])] ELSE begun
      /\ cache \in [Insts -> Seq(Entries)] /\ begun \in [Tasks -> SUBSET Nat]
      /\ listing[r] \in Seq(Nat)
  BY <1>0 DEF Ask, Around
<1>2. Want(t) \in Seq(Nat) \cup {None}
  <2>1. ASSUME Key(t) \in Keys(cache[i]) PROVE EntryOf(cache[i], Key(t)).body \in Seq(Nat)
    <3>1. EntryOf(cache[i], Key(t)) \in Entries BY <1>1, <2>1, EntryType
    <3> QED BY <3>1 DEF Entries
  <2>2. task[t].want \in Seq(Nat) \cup {None} BY <1>0 DEF TaskRec
  <2> QED BY <2>1, <2>2 DEF Want
<1>3. cache' \in [Insts -> Seq(Entries)]
  <2>1. Touched(cache[i], Key(t)) \in Seq(Entries) BY <1>1, TouchedType
  <2> QED BY <1>1, <2>1
<1>4. \A x \in ToSet(listing[r]) : x \in 1..Listed(r)
  <2>1. \A n \in 1..Listed(r) : listing[r][n] = Listed(r) + 1 - n BY <1>0 DEF Numbered
  <2>2. Listed(r) \in Nat /\ DOMAIN listing[r] = 1..Listed(r) BY <1>1 DEF Listed
  <2> QED BY <2>1, <2>2 DEF ToSet
<1>5. begun[t] \subseteq 1..Listed(r) BY Begun
<1>6. Listed(r) \in Nat BY <1>1 DEF Listed
<1>7. begun' \in [Tasks -> SUBSET Nat] /\ \A u \in Tasks \ {t} : begun'[u] = begun[u]
  <2>1. ToSet(listing[r]) \in SUBSET Nat BY <1>4, <1>6
  <2> QED BY <1>1, <2>1
<1>8. begun'[t] \subseteq 1..Listed(r) BY <1>1, <1>4, <1>5
<1>9. Collected(task[t].runs, begun'[t], Listed(r), task[t].page)
  <2>1. CASE task[t].page = 1 /\ ~task[t].again
    <3>1. task[t].runs = <<>> /\ Before(1) = 0 BY <1>0, <1>1, <2>1, Offsets DEF Good, Walk
    <3>2. \A x \in begun'[t] : ~(x > Listed(r) - 0) BY <1>6, <1>8
    <3> QED BY <2>1, <3>1, <3>2 DEF Collected, Dense
  <2>2. CASE ~(task[t].page = 1 /\ ~task[t].again)
    BY <1>0, <1>1, <2>2 DEF Good, Walk
  <2> QED BY <2>1, <2>2
<1> QED BY <1>1, <1>2, <1>3, <1>7, <1>8, <1>9

\* The answer: what GitHub lists now, or a refusal with a reason.
LEMMA ReplyRight ==
  ASSUME IInv, NEW t \in Tasks, task[t].pc = "ready", NEW etag
  PROVE  LET a == Reply(t, etag)
             body == Page(t[2], task[t].page)
         IN  /\ a \in Answers
             /\ a.status \in {"200", "304"} =>
                  /\ (IF a.status = "304" THEN etag ELSE a.body) = body
                  /\ a.more = (task[t].page * PageSize < Listed(t[2]))
             /\ a.status = "401" => now >= task[t].token
<1> DEFINE left == remaining[InstOf(t)]
           body == Page(t[2], task[t].page)
           more == HasNext(t[2], task[t].page)
           a == Reply(t, etag)
<1>1. /\ left \in 0..Budget /\ Numbered /\ t[2] \in Repos /\ listing[t[2]] \in Seq(Nat)
      /\ task[t] \in TaskRec
  BY Parts, Places DEF Around
<1>2. body \in Seq(Nat)
  <2>1. Listed(t[2]) \in Nat /\ task[t].page \in Nat \ {0} BY <1>1 DEF Listed, TaskRec
  <2> QED BY <1>1, <2>1, PageOfListing DEF IsPage
<1>3. more = (task[t].page * PageSize < Listed(t[2])) /\ more \in BOOLEAN BY DEF HasNext, Listed
<1> HIDE DEF body, more, left
<1>4. task[t].token \in Nat /\ now \in Nat
  <2>1. Handed(t) BY Parts DEF Good
  <2>2. now \in 0..MaxTime BY Parts DEF Around
  <2> QED BY <2>1, <2>2 DEF Handed
<1>5. now >= task[t].token <=> ~(now < task[t].token) BY <1>4
<1>6. a = IF now >= task[t].token THEN Answer("401", None, left, FALSE)
          ELSE IF etag = body THEN Answer("304", None, left, more)
          ELSE IF left = 0 THEN Answer("403", None, 0, FALSE)
          ELSE Answer("200", body, left - 1, more)
  BY <1>5, Zenon DEF Reply, left, body, more
<1> HIDE DEF a
<1>7. left # 0 => left - 1 \in 0..Budget BY <1>1, Constants
<1>8. a \in Answers BY <1>1, <1>2, <1>3, <1>6, <1>7, Constants DEF Answer, Answers
<1>9. a.status = "401" => now >= task[t].token BY <1>6 DEF Answer
<1>10. a.status \in {"200", "304"} =>
         (IF a.status = "304" THEN etag ELSE a.body) = body /\ a.more = more
  BY <1>6 DEF Answer
<1> QED BY <1>3, <1>8, <1>9, <1>10 DEF a, body

\* A request goes out and GitHub answers it.
LEMMA SendKeeps ==
  ASSUME IInv, NEW t \in Tasks, Send(t)
  PROVE  IInv'
<1> DEFINE i == InstOf(t)
           r == t[2]
           w == Want(t)
           a == Reply(t, w)
           rec == [task[t] EXCEPT !.pc = "waiting", !.want = w, !.inbox = a]
<1>0. /\ TypeOK /\ TokenDiscipline /\ Numbered /\ Warned /\ Good(t)
      /\ Around /\ task \in [Tasks -> TaskRec] /\ task[t] \in TaskRec
      /\ i \in Insts /\ r \in Repos /\ Len(task[t].runs) <= MaxRuns
  BY Parts, Places
<1>1. /\ now' = now /\ used' = used /\ listing' = listing /\ jwt' = jwt /\ gate' = gate
      /\ tokens' = tokens /\ minter' = minter /\ budget' = budget /\ hit' = hit
      /\ Ask(t) /\ Becomes(t, rec) /\ remaining' = [remaining EXCEPT ![i] = a.left]
      /\ low' = IF a.left < Floor THEN low \cup {i} ELSE low
  BY DEF Send, sweep
<1>2. /\ task[t].pc = "ready" /\ w \in Seq(Nat) \cup {None}
      /\ cache' \in [Insts -> Seq(Entries)]
      /\ begun' \in [Tasks -> SUBSET Nat] /\ \A u \in Tasks \ {t} : begun'[u] = begun[u]
      /\ begun'[t] \subseteq 1..Listed(r)
      /\ Collected(task[t].runs, begun'[t], Listed(r), task[t].page)
  BY <1>1, AskRight
<1>3. /\ a \in Answers
      /\ a.status \in {"200", "304"} =>
           /\ (IF a.status = "304" THEN w ELSE a.body) = Page(r, task[t].page)
           /\ a.more = (task[t].page * PageSize < Listed(r))
      /\ a.status = "401" => now >= task[t].token
  BY <1>2, ReplyRight
<1> HIDE DEF w, a
<1>4. /\ rec \in TaskRec /\ rec.pc = "waiting" /\ rec.want = w /\ rec.inbox = a
      /\ rec.page = task[t].page /\ rec.runs = task[t].runs
      /\ rec.token = task[t].token /\ rec.handed = task[t].handed
  BY <1>0, <1>2, <1>3 DEF TaskRec, Active
<1>5. task'[t] = rec BY <1>0, <1>1 DEF Becomes
<1> HIDE DEF rec
<1>6. Listed(r) \in Nat /\ task[t].page \in Nat \ {0} /\ a.left \in 0..Budget /\ now \in Nat
  <2>1. listing[r] \in Seq(Nat) /\ now \in 0..MaxTime BY <1>0 DEF Around
  <2>2. task[t].page \in Nat \ {0} BY <1>0, Constants DEF TaskRec
  <2>3. a.left \in 0..Budget BY <1>3 DEF Answers
  <2> QED BY <2>1, <2>2, <2>3 DEF Listed
<1>7. Walk(t)'
  <2>1. IsPage(Page(r, task[t].page), Listed(r), task[t].page)
    BY <1>0, <1>6, PageOfListing
  <2>2. Listed(r) \in 0..Listed(r)' /\ Listed(r)' = Listed(r) BY <1>1, <1>6 DEF Listed
  <2>3. a.status \in {"200", "304"} =>
          \E m \in 0..Listed(r)' :
            /\ IsPage(IF a.status = "304" THEN w ELSE a.body, m, task[t].page)
            /\ a.more = (task[t].page * PageSize < m)
            /\ Collected(task[t].runs, begun'[t], m, task[t].page)
    BY <1>2, <1>3, <2>1, <2>2
  <2> QED BY <1>2, <1>4, <1>5, <2>2, <2>3 DEF Walk, BodyOf
<1>8. Handed(t)'
  <2>1. /\ task[t].token \in Nat /\ task[t].handed \in 0..now
        /\ task[t].token > task[t].handed + Skew /\ Len(task[t].runs) < MaxRuns
    BY <1>0, <1>2 DEF Good, Handed
  <2>2. a.status = "401" => now - task[t].handed > Skew
    <3> SUFFICES ASSUME a.status = "401" PROVE now - task[t].handed > Skew
      OBVIOUS
    <3>1. now >= task[t].token BY <1>3
    <3>2. task[t].handed \in Nat /\ Skew \in Nat BY <1>6, <2>1, Constants
    <3> HIDE DEF a
    <3> QED BY <1>6, <2>1, <3>1, <3>2
  <2>3. a.left < Floor => low' # {} BY <1>1
  <2> QED BY <1>1, <1>3, <1>4, <1>5, <2>1, <2>2, <2>3 DEF Handed
<1>9. Excused(t)' BY <1>4, <1>5 DEF Excused
<1>10. low \subseteq low' /\ low' \subseteq Insts BY <1>0, <1>1 DEF Around
<1>11. Around'
  <2>1. remaining' \in [Insts -> 0..Budget] BY <1>0, <1>1, <1>6 DEF Around
  <2> QED BY <1>0, <1>1, <1>2, <1>10, <2>1 DEF Around
<1>12. Warned' BY <1>0, <1>1, <1>10 DEF Warned
<1>13. TokenDiscipline' BY <1>0, <1>1, <1>2, <1>4, LocksKept
<1>14. TypeOK' /\ Numbered' /\ \A u \in Tasks : Good(u)'
  <2>1. Good(t)' BY <1>7, <1>8, <1>9 DEF Good
  <2>2. task[t].pc \in Active BY <1>2 DEF Active
  <2> QED BY <1>0, <1>1, <1>2, <1>4, <1>10, <1>11, <2>1, <2>2, TaskMoves
<1> QED BY <1>12, <1>13, <1>14 DEF IInv

\* GitHub asks to come again later.
LEMMA SendLaterKeeps ==
  ASSUME IInv, NEW t \in Tasks, SendLater(t)
  PROVE  IInv'
<1> DEFINE i == InstOf(t)
           r == t[2]
           w == Want(t)
           rec == [task[t] EXCEPT !.again = TRUE, !.want = w]
<1>0. /\ TypeOK /\ TokenDiscipline /\ Numbered /\ Warned /\ Good(t)
      /\ Around /\ task \in [Tasks -> TaskRec] /\ task[t] \in TaskRec
      /\ i \in Insts /\ r \in Repos /\ Len(task[t].runs) <= MaxRuns
  BY Parts, Places
<1>1. /\ now' = now /\ listing' = listing /\ remaining' = remaining /\ jwt' = jwt /\ gate' = gate
      /\ tokens' = tokens /\ minter' = minter /\ hit' = hit
      /\ Ask(t) /\ Becomes(t, rec) /\ Happens("trouble")
      /\ budget' = [budget EXCEPT ![i] = remaining[i]]
      /\ low' = IF remaining[i] < Floor THEN low \cup {i} ELSE low
  BY DEF SendLater, sweep, github
<1>2. /\ task[t].pc = "ready" /\ w \in Seq(Nat) \cup {None}
      /\ cache' \in [Insts -> Seq(Entries)]
      /\ begun' \in [Tasks -> SUBSET Nat] /\ \A u \in Tasks \ {t} : begun'[u] = begun[u]
      /\ begun'[t] \subseteq 1..Listed(r)
      /\ Collected(task[t].runs, begun'[t], Listed(r), task[t].page)
  BY <1>1, AskRight
<1> HIDE DEF w
<1>4. /\ rec \in TaskRec /\ rec.pc = "ready"
      /\ rec.page = task[t].page /\ rec.runs = task[t].runs
      /\ rec.token = task[t].token /\ rec.handed = task[t].handed
  BY <1>0, <1>2 DEF TaskRec
<1>5. task'[t] = rec BY <1>0, <1>1 DEF Becomes
<1> HIDE DEF rec
<1>6. Listed(r)' = Listed(r) BY <1>1 DEF Listed
<1>7. Walk(t)'
  <2>1. task[t].page = 1 => task[t].runs = <<>> BY <1>0, <1>2 DEF Good, Walk
  <2> QED BY <1>2, <1>4, <1>5, <1>6, <2>1 DEF Walk
<1>8. Handed(t)'
  <2>1. /\ task[t].token \in Nat /\ task[t].handed \in 0..now
        /\ task[t].token > task[t].handed + Skew /\ Len(task[t].runs) < MaxRuns
    BY <1>0, <1>2 DEF Good, Handed
  <2> QED BY <1>1, <1>4, <1>5, <2>1 DEF Handed
<1>9. Excused(t)' BY <1>4, <1>5 DEF Excused
<1>10. low \subseteq low' /\ low' \subseteq Insts BY <1>0, <1>1 DEF Around
<1>11. Around'
  <2>1. budget' \in [Insts -> {None} \cup 0..Budget] BY <1>0, <1>1 DEF Around
  <2>2. used' \in [Kinds -> Nat] /\ \A k \in Kinds : used'[k] <= Limit[k]
    BY <1>0, <1>1, TroubleCounted DEF Kinds, Around
  <2> QED BY <1>0, <1>1, <1>2, <1>10, <2>1, <2>2 DEF Around
<1>12. Warned' BY <1>0, <1>1, <1>10 DEF Warned
<1>13. TokenDiscipline' BY <1>0, <1>1, <1>2, <1>4, LocksKept
<1>14. TypeOK' /\ Numbered' /\ \A u \in Tasks : Good(u)'
  <2>1. Good(t)' BY <1>7, <1>8, <1>9 DEF Good
  <2>2. task[t].pc \in Active BY <1>2 DEF Active
  <2> QED BY <1>0, <1>1, <1>2, <1>4, <1>10, <1>11, <2>1, <2>2, TaskMoves
<1> QED BY <1>12, <1>13, <1>14 DEF IInv

\* A request that breaks.
LEMMA SendFailsKeeps ==
  ASSUME IInv, NEW t \in Tasks, SendFails(t)
  PROVE  IInv'
<1>0. TypeOK /\ TokenDiscipline /\ Warned /\ Around BY Parts
<1>1. /\ now' = now /\ listing' = listing /\ remaining' = remaining /\ jwt' = jwt /\ gate' = gate
      /\ tokens' = tokens /\ minter' = minter /\ budget' = budget /\ hit' = hit \cup {t}
      /\ low' = low /\ Ask(t) /\ Ends(t, "failed") /\ Happens("trouble")
  BY DEF SendFails, sweep, github
<1>2. /\ task[t].pc = "ready" /\ cache' \in [Insts -> Seq(Entries)]
      /\ begun' \in [Tasks -> SUBSET Nat] /\ \A u \in Tasks \ {t} : begun'[u] = begun[u]
      /\ begun'[t] \subseteq 1..Listed(t[2])
  BY <1>1, AskRight
<1>3. used' \in [Kinds -> Nat] /\ \A k \in Kinds : used'[k] <= Limit[k]
  BY <1>0, <1>1, TroubleCounted DEF Kinds, Around
<1>4. Around' BY <1>0, <1>1, <1>2, <1>3 DEF Around
<1>5. TokenDiscipline'
  <2>1. [Idle EXCEPT !.pc = "failed"].pc # "minting" BY EndedTyped DEF Over
  <2>2. Becomes(t, [Idle EXCEPT !.pc = "failed"]) BY <1>1 DEF Ends
  <2> QED BY <1>0, <1>1, <1>2, <2>1, <2>2, LocksKept
<1>6. Warned' BY <1>0, <1>1 DEF Warned
<1> QED BY <1>1, <1>2, <1>4, <1>5, <1>6, FailureKeeps

\* A page is taken: the walk goes on below it, or it is over with all runs of
\* the beginning, or with those above where a cap cut it.
LEMMA TakePageRight ==
  ASSUME IInv, NEW t \in Tasks, task[t].pc = "waiting", task[t].inbox.status \in {"200", "304"},
         TakePage(t, BodyOf(t)), budget' = [budget EXCEPT ![InstOf(t)] = task[t].inbox.left],
         now' = now, listing' = listing, begun' = begun, low' = low
  PROVE  /\ \E rec \in TaskRec : /\ Becomes(t, rec) /\ rec.pc \in {"ready", "done"}
                                 /\ Len(rec.runs) <= MaxRuns
         /\ Good(t)' /\ Warned' /\ gate' \in [Sweeps -> BOOLEAN]
<1> DEFINE i == InstOf(t)
           r == t[2]
           a == task[t].inbox
           page == task[t].page
           old == task[t].runs
           body == BodyOf(t)
           all == old \o body
           set == begun[t]
<1>0. /\ Numbered /\ Warned /\ Walk(t) /\ Handed(t)
      /\ Around /\ task \in [Tasks -> TaskRec] /\ task[t] \in TaskRec
      /\ i \in Insts /\ r \in Repos /\ SweepOf(t) \in Sweeps
  BY Parts, Places DEF Good
<1>1. /\ page \in 1..MaxPages /\ page \in Nat \ {0} /\ old \in Seq(Nat) /\ a \in Answers
      /\ task[t].token \in Nat /\ task[t].handed \in 0..now
      /\ task[t].token > task[t].handed + Skew
      /\ a.left < Floor => low # {}
  BY <1>0, Constants DEF TaskRec, Handed
<1>2. Listed(r) \in Nat /\ Listed(r)' = Listed(r) /\ now \in Nat
  <2>1. listing[r] \in Seq(Nat) /\ now \in 0..MaxTime BY <1>0 DEF Around
  <2> QED BY <2>1 DEF Listed
<1>3. PICK m \in 0..Listed(r) :
         /\ IsPage(body, m, page) /\ a.more = (page * PageSize < m)
         /\ Collected(old, set, m, page)
  BY <1>0 DEF Walk
<1>4. m \in Nat /\ m <= Listed(r) /\ body \in Seq(Nat) BY <1>2, <1>3 DEF IsPage
<1>5. \A x \in set : x \in Nat \ {0} /\ x \in 1..Listed(r) BY <1>0 DEF Walk
<1>6. Collected(all, set, m, page + 1) BY <1>1, <1>3, <1>4, <1>5, PageCollected
<1>7. all \in Seq(Nat) /\ Len(all) \in Nat BY <1>1, <1>4, ConcatProperties
<1>8. page * PageSize = Before(page + 1) BY <1>1, Offsets
<1> DEFINE on == a.more /\ page < MaxPages /\ Len(all) < MaxRuns
           next == [task[t] EXCEPT !.pc = "ready", !.page = page + 1, !.again = FALSE,
                                   !.want = None, !.inbox = None, !.runs = all]
           cut == a.more \/ Len(all) > MaxRuns
           kept == IF Len(all) > MaxRuns THEN SubSeq(all, 1, MaxRuns) ELSE all
           over == [Idle EXCEPT !.pc = "done", !.cut = cut, !.runs = kept]
<1>9. IF on THEN Becomes(t, next) /\ gate' = gate
      ELSE Becomes(t, over) /\ Note(t)
  BY DEF TakePage
<1> HIDE DEF all, body
<1>10. CASE on
  <2>0. MaxPages \in Nat /\ page \in 1..MaxPages /\ page < MaxPages BY <1>1, <1>10, Constants
  <2>1. page + 1 \in 1..MaxPages /\ page + 1 # 1
    <3> HIDE DEF page
    <3> QED BY <2>0
  <2>2. /\ next \in TaskRec /\ next.pc = "ready" /\ next.page = page + 1 /\ next.runs = all
        /\ next.token = task[t].token /\ next.handed = task[t].handed
    BY <1>0, <1>7, <2>1 DEF TaskRec, Active
  <2>3. Becomes(t, next) /\ gate' = gate /\ Len(all) < MaxRuns BY <1>9, <1>10
  <2>4. task'[t] = next BY <1>0, <2>3 DEF Becomes
  <2> HIDE DEF next
  <2>5. Walk(t)'
    <3>1. Collected(all, set, Listed(r), page + 1)
      <4>1. page + 1 \in Nat \ {0} BY <1>1
      <4> QED BY <1>2, <1>4, <1>5, <1>6, <4>1, StillCollected
    <3> QED BY <1>2, <1>5, <2>1, <2>2, <2>4, <3>1 DEF Walk
  <2>6. Handed(t)' BY <1>1, <2>2, <2>3, <2>4 DEF Handed
  <2>7. Excused(t)' BY <2>2, <2>4 DEF Excused
  <2>8. Warned' /\ gate' \in [Sweeps -> BOOLEAN] BY <1>0, <2>3 DEF Warned, Around
  <2>9. Len(next.runs) <= MaxRuns BY <1>7, <2>2, <2>3, Constants
  <2> QED BY <2>2, <2>3, <2>5, <2>6, <2>7, <2>8, <2>9 DEF Good
<1>11. CASE ~on
  <2>1. Becomes(t, over) /\ Note(t) BY <1>9, <1>11
  <2>2. /\ kept \in Seq(Nat) /\ Len(kept) <= MaxRuns /\ Len(kept) <= Len(all)
        /\ \A k \in 1..Len(kept) : kept[k] = all[k]
        /\ Len(all) <= MaxRuns => kept = all
    <3>1. CASE Len(all) <= MaxRuns
      <4>1. kept = all BY <1>7, <3>1, Constants
      <4> HIDE DEF kept
      <4> QED BY <1>7, <3>1, <4>1
    <3>2. CASE Len(all) > MaxRuns
      <4>1. kept = SubSeq(all, 1, MaxRuns) BY <3>2
      <4>2. \A k \in 1..MaxRuns : k \in 1..Len(all) BY <1>7, <3>2, Constants
      <4>3. \A k \in 1..MaxRuns : all[k] \in Nat BY <1>7, <4>2, ElementOfSeq
      <4>4. 1 \in Int /\ MaxRuns \in Int /\ 1 <= MaxRuns BY Constants
      <4>5. /\ SubSeq(all, 1, MaxRuns) \in Seq(Nat)
            /\ Len(SubSeq(all, 1, MaxRuns)) = MaxRuns - 1 + 1
            /\ \A k \in 1..(MaxRuns - 1 + 1) : SubSeq(all, 1, MaxRuns)[k] = all[1 + k - 1]
        BY <4>3, <4>4, SubSeqProperties
      <4>6. MaxRuns - 1 + 1 = MaxRuns /\ \A k \in 1..MaxRuns : 1 + k - 1 = k BY Constants
      <4> HIDE DEF kept
      <4> QED BY <1>7, <3>2, <4>1, <4>4, <4>5, <4>6
    <3> QED BY <1>7, <3>1, <3>2, Constants
  <2> HIDE DEF kept
  <2>3. /\ over \in TaskRec /\ over.pc = "done" /\ over.cut = cut /\ over.runs = kept
    <3>1. [Idle EXCEPT !.pc = "done"] \in TaskRec BY EndedTyped DEF Over
    <3>2. over = [[Idle EXCEPT !.pc = "done"] EXCEPT !.cut = cut, !.runs = kept] OBVIOUS
    <3>3. cut \in BOOLEAN BY <1>1 DEF Answers
    <3>4. [Idle EXCEPT !.pc = "done"].pc = "done" BY EndedTyped DEF Over
    <3> HIDE DEF over, cut
    <3> QED BY <2>2, <3>1, <3>2, <3>3, <3>4 DEF TaskRec
  <2>4. task'[t] = over BY <1>0, <2>1 DEF Becomes
  <2> HIDE DEF over
  <2>5. Dense(kept, set)
    <3> SUFFICES ASSUME NEW j \in 1..Len(kept), NEW x \in set, x >= kept[j]
                 PROVE  \E k \in 1..j : kept[k] = x
      BY DEF Dense
    <3>1. Len(kept) \in Nat BY <2>2
    <3>2. j \in 1..Len(all) /\ kept[j] = all[j] BY <1>7, <2>2, <3>1
    <3>3. PICK k \in 1..j : all[k] = x BY <1>6, <3>2 DEF Collected, Dense
    <3>4. k \in 1..Len(kept) BY <3>1
    <3> QED BY <2>2, <3>3, <3>4
  <2>6. ~cut => \A x \in set : \E k \in 1..Len(kept) : kept[k] = x
    <3> SUFFICES ASSUME ~cut, NEW x \in set PROVE \E k \in 1..Len(kept) : kept[k] = x
      OBVIOUS
    <3>0. ~a.more /\ ~(Len(all) > MaxRuns) OBVIOUS
    <3>1. ~(page * PageSize < m) /\ kept = all
      <4>1. Len(all) <= MaxRuns BY <1>7, <3>0, Constants
      <4> QED BY <1>3, <2>2, <3>0, <4>1
    <3>2. Before(page + 1) \in Nat
      <4>1. page + 1 \in Nat \ {0} BY <1>1
      <4> QED BY <4>1, Offsets
    <3>3. x > m - Before(page + 1) BY <1>4, <1>5, <1>8, <3>1, <3>2
    <3> QED BY <1>6, <3>1, <3>3 DEF Collected
  <2>7. Walk(t)' BY <1>2, <1>5, <2>3, <2>4, <2>5, <2>6 DEF Walk
  <2>8. Handed(t)' BY <2>3, <2>4 DEF Handed
  <2>9. Excused(t)' BY <2>3, <2>4 DEF Excused
  <2>10. Warned' /\ gate' \in [Sweeps -> BOOLEAN]
    <3>1. gate \in [Sweeps -> BOOLEAN] /\ budget'[i] = a.left BY <1>0 DEF Around
    <3>2. gate' = [gate EXCEPT ![SweepOf(t)] =
                     gate[SweepOf(t)] \/ (budget'[i] # None /\ budget'[i] < Floor)]
      BY <2>1 DEF Note
    <3>3. gate' \in [Sweeps -> BOOLEAN] BY <3>1, <3>2
    <3>4. gate'[SweepOf(t)] => gate[SweepOf(t)] \/ a.left < Floor BY <1>0, <3>1, <3>2
    <3>5. \A s \in Sweeps \ {SweepOf(t)} : gate'[s] = gate[s] BY <3>1, <3>2
    <3> QED BY <1>0, <1>1, <3>3, <3>4, <3>5 DEF Warned
  <2> QED BY <2>1, <2>2, <2>3, <2>7, <2>8, <2>9, <2>10 DEF Good
<1> QED BY <1>10, <1>11

\* An answer with a body has one.
LEMMA BodyPresent ==
  ASSUME IInv, NEW t \in Tasks, task[t].pc = "waiting", task[t].inbox.status = "200"
  PROVE  task[t].inbox.body \in Seq(Nat)
<1>1. Walk(t) BY Parts DEF Good
<1>2. PICK m \in 0..Listed(t[2]) : IsPage(BodyOf(t), m, task[t].page) BY <1>1 DEF Walk
<1> QED BY <1>2 DEF IsPage, BodyOf

\* An answer is taken.
LEMMA ReceiveKeeps ==
  ASSUME IInv, NEW t \in Tasks, Receive(t)
  PROVE  IInv'
<1> DEFINE i == InstOf(t)
           a == task[t].inbox
           put == Stored(cache[i], bytes[i], Key(t), a.body)
<1>0. /\ TypeOK /\ TokenDiscipline /\ Warned /\ Handed(t)
      /\ Around /\ task \in [Tasks -> TaskRec] /\ task[t] \in TaskRec
      /\ i \in Insts /\ t[2] \in Repos
  BY Parts, Places DEF Good
<1>1. /\ now' = now /\ used' = used /\ listing' = listing /\ remaining' = remaining
      /\ jwt' = jwt /\ tokens' = tokens /\ minter' = minter /\ begun' = begun /\ low' = low
      /\ task[t].pc = "waiting" /\ budget' = [budget EXCEPT ![i] = a.left]
  BY DEF Receive, github
<1>2. a \in Answers /\ a.left \in 0..Budget /\ Key(t) \in Repos \X (1..MaxPages)
  BY <1>0, <1>1 DEF Handed, Answers, TaskRec, Key
<1>3. budget' \in [Insts -> {None} \cup 0..Budget] BY <1>0, <1>1, <1>2 DEF Around
<1>4. CASE a.status \in {"200", "304"} /\ TakePage(t, BodyOf(t)) /\ hit' = hit
           /\ (cache' = cache \/ (a.status = "200" /\ cache' = [cache EXCEPT ![i] = put.queue]))
  <2>1. PICK rec \in TaskRec : /\ Becomes(t, rec) /\ rec.pc \in {"ready", "done"}
                               /\ Len(rec.runs) <= MaxRuns
    BY <1>1, <1>4, TakePageRight
  <2>2. Good(t)' /\ Warned' /\ gate' \in [Sweeps -> BOOLEAN] BY <1>1, <1>4, TakePageRight
  <2>3. cache' \in [Insts -> Seq(Entries)]
    <3>1. CASE cache' = cache BY <1>0, <3>1 DEF Around
    <3>2. CASE a.status = "200" /\ cache' = [cache EXCEPT ![i] = put.queue]
      <4>1. cache[i] \in Seq(Entries) BY <1>0 DEF Around
      <4>2. a.body \in Seq(Nat) BY <1>1, <3>2, BodyPresent
      <4>3. put.queue \in Seq(Entries) BY <1>2, <4>1, <4>2, StoredType
      <4> HIDE DEF put
      <4> QED BY <1>0, <3>2, <4>3 DEF Around
    <3> QED BY <1>4, <3>1, <3>2
  <2>4. Around' BY <1>0, <1>1, <1>3, <1>4, <2>2, <2>3 DEF Around
  <2>5. TokenDiscipline' BY <1>0, <1>1, <2>1, LocksKept
  <2>6. TypeOK' /\ Numbered' /\ \A u \in Tasks : Good(u)'
    <3>1. task[t].pc \in Active BY <1>1 DEF Active
    <3> QED BY <1>1, <1>4, <2>1, <2>2, <2>4, <3>1, TaskMoves
  <2> QED BY <2>2, <2>5, <2>6 DEF IInv
<1>5. CASE /\ Ends(t, "failed") /\ hit \subseteq hit' /\ hit' \subseteq Tasks /\ t \in hit'
           /\ cache' = cache /\ gate' = gate
  <2>1. Around' /\ Warned' BY <1>0, <1>1, <1>3, <1>5 DEF Around, Warned
  <2>2. TokenDiscipline'
    <3>1. [Idle EXCEPT !.pc = "failed"].pc # "minting" BY EndedTyped DEF Over
    <3>2. Becomes(t, [Idle EXCEPT !.pc = "failed"]) BY <1>5 DEF Ends
    <3> QED BY <1>0, <1>1, <3>1, <3>2, LocksKept
  <2>3. begun'[t] \subseteq 1..Listed(t[2]) BY <1>1, Begun
  <2> QED BY <1>1, <1>5, <2>1, <2>2, <2>3, FailureKeeps
<1>6. a.status = "401" => now - task[t].handed > Skew BY <1>0, <1>1 DEF Handed
<1>7. /\ a.status = "304" => BodyOf(t) = Body304(t)
      /\ a.status = "200" => BodyOf(t) = a.body
  BY DEF BodyOf, Body304
<1>8. hit \subseteq Tasks BY <1>0 DEF Around
<1> HIDE DEF a, put
<1> QED
  <2>1. CASE /\ a.status = "304" /\ TakePage(t, Body304(t)) /\ UNCHANGED <<cache, bytes, hit>>
    BY <1>4, <1>7, <2>1
  <2>2. CASE /\ a.status = "200" /\ TakePage(t, a.body)
             /\ cache' = [cache EXCEPT ![i] = put.queue] /\ UNCHANGED hit
    BY <1>4, <1>7, <2>2
  <2>3. CASE /\ a.status = "403" /\ Ends(t, "failed") /\ hit' = hit \cup {t}
             /\ UNCHANGED <<cache, bytes, gate>>
    BY <1>5, <1>8, <2>3
  <2>4. CASE /\ a.status = "401" /\ Ends(t, "failed")
             /\ hit' = (IF now - task[t].handed > Skew THEN hit \cup {t} ELSE hit)
             /\ UNCHANGED <<cache, bytes, gate>>
    BY <1>5, <1>6, <1>8, <2>4
  <2> QED BY <2>1, <2>2, <2>3, <2>4 DEF Receive, a, put
-----------------------------------------------------------------------------
(* Theorems *)

LEMMA Starts ==
  ASSUME Init
  PROVE  IInv
<1>1. /\ now = 0 /\ used = [k \in Kinds |-> 0]
      /\ listing = Early /\ remaining = [i \in Insts |-> Budget]
      /\ jwt = [s \in Sweeps |-> None] /\ gate = [s \in Sweeps |-> FALSE]
      /\ tokens = [s \in Sweeps |-> [i \in Insts |-> None]]
      /\ minter = [i \in Insts |-> None]
      /\ cache = [i \in Insts |-> <<>>]
      /\ budget = [i \in Insts |-> None]
      /\ task = [t \in Tasks |-> Idle]
      /\ begun = [t \in Tasks |-> {}] /\ hit = {} /\ low = {}
  BY DEF Init
<1>2. 0 \in 0..MaxTime /\ Budget \in 0..Budget /\ <<>> \in Seq(Entries) BY Constants
<1>3. used \in [Kinds -> Nat] /\ \A k \in Kinds : used[k] <= Limit[k]
  BY <1>1, AccessAssumption
<1>4. listing \in [Repos -> Seq(Nat)] /\ Numbered
  BY <1>1, AccessAssumption DEF Numbered, Listed
<1>5. Around
  <2>1. /\ remaining \in [Insts -> 0..Budget] /\ jwt \in [Sweeps -> {None} \cup 0..MaxTime]
        /\ gate \in [Sweeps -> BOOLEAN] /\ tokens \in [Sweeps -> [Insts -> {None} \cup Nat]]
        /\ minter \in [Insts -> Tasks \cup {None}] /\ budget \in [Insts -> {None} \cup 0..Budget]
    BY <1>1, <1>2
  <2>2. cache \in [Insts -> Seq(Entries)] BY <1>1, <1>2
  <2>3. begun \in [Tasks -> SUBSET Nat] /\ hit \subseteq Tasks /\ low \subseteq Insts BY <1>1
  <2> QED BY <1>1, <1>2, <1>3, <1>4, <2>1, <2>2, <2>3 DEF Around
<1>6. Idle \in TaskRec
  <2>1. 1 \in 1..MaxPages /\ <<>> \in Seq(Nat) BY Constants
  <2>2. "queued" \in {"queued"} \cup Active \cup Over OBVIOUS
  <2> QED BY <2>1, <2>2, Zenon DEF TaskRec, Idle
<1>7. \A t \in Tasks : task[t] = Idle BY <1>1
<1>8. /\ Idle.pc = "queued" /\ Idle.page = 1 /\ ~Idle.again /\ Idle.runs = <<>> /\ Len(<<>>) = 0
  BY DEF Idle
<1>9. task \in [Tasks -> TaskRec] BY <1>1, <1>6
<1>10. Bounded
  <2>1. \A s \in Sweeps : {t \in Tasks : t[1] = s /\ task[t].pc \in Active} = {}
    BY <1>7, <1>8 DEF Active
  <2>2. Cardinality({}) = 0 BY FS_EmptySet
  <2> QED BY <2>1, <2>2, Constants DEF Bounded
<1>11. \A t \in Tasks : Len(task[t].runs) <= MaxRuns BY <1>7, <1>8, Constants
<1>12. TypeOK BY <1>5, <1>9, <1>10, <1>11, TypeParts
<1>13. TokenDiscipline BY <1>1, <1>7, <1>8 DEF TokenDiscipline
<1>14. Warned BY <1>1 DEF Warned
<1>15. \A t \in Tasks : Good(t)
  <2> SUFFICES ASSUME NEW t \in Tasks PROVE Good(t)
    OBVIOUS
  <2>1. begun[t] = {} /\ task[t] = Idle BY <1>1, <1>7
  <2> QED BY <1>8, <2>1 DEF Good, Walk, Handed, Excused
<1> QED BY <1>4, <1>12, <1>13, <1>14, <1>15 DEF IInv

LEMMA Invariance == Spec => []IInv
<1>1. Init => IInv BY Starts
<1>2. ASSUME IInv, [Next]_vars
      PROVE  IInv'
  <2>1. ASSUME NEW t \in Tasks, TaskStep(t) PROVE IInv'
    BY <1>2, <2>1, BeginKeeps, MintKeeps, MintFailsKeeps, SendKeeps, ReceiveKeeps DEF TaskStep
  <2>2. ASSUME NEW t \in Tasks, SendLater(t) PROVE IInv'
    BY <1>2, <2>2, SendLaterKeeps
  <2>3. ASSUME NEW t \in Tasks, SendFails(t) PROVE IInv'
    BY <1>2, <2>3, SendFailsKeeps
  <2> QED BY <1>2, <2>1, <2>2, <2>3, BackgroundKeeps DEF Next
<1> QED BY <1>1, <1>2, PTL DEF Spec

\* Every variable keeps its type, no listing grows beyond its cap, and no sweep
\* has more tasks under way than bounded_gather's limit.
THEOREM AccessTypeCorrect == Spec => []TypeOK
<1>1. IInv => TypeOK BY DEF IInv
<1> QED BY <1>1, Invariance, PTL

\* One mint at a time for an installation in all sweeps of the process, none
\* while a good token is cached, and no lock left behind
\* (client_for_installation).
THEOREM TokenDisciplineThm == Spec => []TokenDiscipline
<1>1. IInv => TokenDiscipline BY DEF IInv
<1> QED BY <1>1, Invariance, PTL

\* A task of a sweep fails only by a failure or a refusal of GitHub's that it
\* met itself, and is skipped only when the budget was reported low
\* (bounded_gather, RateGate).
THEOREM FailuresStayLocalThm == Spec => []FailuresStayLocal
<1>1. IInv => FailuresStayLocal BY DEF IInv, Good, Excused, FailuresStayLocal
<1> QED BY <1>1, Invariance, PTL

\* A listing that came through has every run that was there when the walk
\* began, down to where a cap ended it (_get_paginated, list_workflow_runs).
THEOREM CompleteThm == Spec => []Complete
<1>1. ASSUME IInv PROVE Complete
  <2> SUFFICES ASSUME NEW t \in Tasks, task[t].pc = "done", NEW x \in begun[t],
                      x \notin ToSet(task[t].runs)
               PROVE  task[t].cut /\ \A y \in ToSet(task[t].runs) : x < y
    BY DEF Complete
  <2> DEFINE runs == task[t].runs
  <2>1. Walk(t) /\ task[t] \in TaskRec /\ listing[t[2]] \in Seq(Nat)
    BY <1>1, Parts, Places DEF Good, Around
  <2>2. runs \in Seq(Nat) /\ x \in Nat
    <3>1. x \in 1..Listed(t[2]) BY <2>1 DEF Walk
    <3> QED BY <2>1, <3>1 DEF TaskRec
  <2>3. Len(runs) \in Nat /\ DOMAIN runs = 1..Len(runs) BY <2>2
  <2>4. ~\E k \in 1..Len(runs) : runs[k] = x BY <2>3 DEF ToSet
  <2>5. task[t].cut BY <2>1, <2>4 DEF Walk
  <2>6. ASSUME NEW y \in ToSet(runs) PROVE x < y
    <3>1. PICK j \in 1..Len(runs) : runs[j] = y BY <2>3 DEF ToSet
    <3>2. y \in Nat BY <2>2, <3>1, ElementOfSeq
    <3>3. ~(x >= runs[j])
      <4> SUFFICES ASSUME x >= runs[j] PROVE FALSE
        OBVIOUS
      <4>1. PICK k \in 1..j : runs[k] = x BY <2>1 DEF Walk, Dense
      <4>2. k \in 1..Len(runs) BY <2>3
      <4> QED BY <2>4, <4>1, <4>2
    <3> QED BY <2>2, <3>1, <3>2, <3>3
  <2> QED BY <2>5, <2>6
<1> QED BY <1>1, Invariance, PTL

\* Every cache, with its count, is as it should be.
CachesRight == bytes \in [Insts -> Nat] /\ \A i \in Insts : Right(cache[i], bytes[i])

LEMMA CachesStart ==
  ASSUME Init
  PROVE  CachesRight
<1>1. bytes = [i \in Insts |-> 0] /\ cache = [i \in Insts |-> <<>>] BY DEF Init
<1>2. Len(<<>>) = 0 /\ Distinct(<<>>) BY DEF Distinct
<1>3. Right(<<>>, 0) BY <1>2, SizeOfNone, Limits DEF Right
<1> QED BY <1>1, <1>3 DEF CachesRight

\* Only a question reads a cache, and only an answer writes to one.
LEMMA CachesKept ==
  ASSUME IInv, CachesRight, [Next]_vars
  PROVE  CachesRight'
<1>0. cache \in [Insts -> Seq(Entries)] /\ bytes \in [Insts -> Nat]
  BY Parts DEF Around, CachesRight
<1>1. CASE cache' = cache /\ bytes' = bytes BY <1>1 DEF CachesRight
<1>2. ASSUME NEW t \in Tasks, Ask(t), bytes' = bytes PROVE CachesRight'
  <2> DEFINE i == InstOf(t)
             new == IF task[t].again THEN cache[i] ELSE Touched(cache[i], Key(t))
  <2>1. cache' = [cache EXCEPT ![i] = new] BY <1>2 DEF Ask
  <2>2. i \in Insts BY Places
  <2>3. Right(cache[i], bytes[i]) /\ cache[i] \in Seq(Entries) BY <1>0, <2>2 DEF CachesRight
  <2>4. Right(new, bytes[i]) BY <2>3, TouchedRight
  <2> HIDE DEF new, i
  <2>5. cache'[i] = new /\ \A x \in Insts \ {i} : cache'[x] = cache[x] BY <1>0, <2>1, <2>2
  <2>6. \A x \in Insts : Right(cache'[x], bytes'[x])
    <3> SUFFICES ASSUME NEW x \in Insts PROVE Right(cache'[x], bytes'[x])
      OBVIOUS
    <3>1. CASE x = i BY <1>2, <2>4, <2>5, <3>1
    <3>2. CASE x # i BY <1>2, <2>5, <3>2 DEF CachesRight
    <3> QED BY <3>1, <3>2
  <2> QED BY <1>0, <1>2, <2>6 DEF CachesRight
<1>3. ASSUME NEW t \in Tasks, Receive(t) PROVE CachesRight'
  <2> DEFINE i == InstOf(t)
             a == task[t].inbox
             put == Stored(cache[i], bytes[i], Key(t), a.body)
  <2>1. \/ cache' = cache /\ bytes' = bytes
        \/ /\ a.status = "200"
           /\ cache' = [cache EXCEPT ![i] = put.queue] /\ bytes' = [bytes EXCEPT ![i] = put.total]
    BY <1>3 DEF Receive
  <2>2. CASE /\ a.status = "200"
             /\ cache' = [cache EXCEPT ![i] = put.queue] /\ bytes' = [bytes EXCEPT ![i] = put.total]
    <3>1. i \in Insts /\ t[2] \in Repos /\ task[t] \in TaskRec BY Places, Parts
    <3>2. Right(cache[i], bytes[i]) /\ cache[i] \in Seq(Entries)
      BY <1>0, <3>1 DEF CachesRight
    <3>3. a.body \in Seq(Nat) BY <1>3, <2>2, BodyPresent DEF Receive
    <3>4. Key(t) \in Repos \X (1..MaxPages) BY <3>1 DEF Key, TaskRec
    <3>5. Right(put.queue, put.total) BY <3>2, <3>3, <3>4, StoredRight
    <3>6. put.queue \in Seq(Entries) BY <3>2, <3>3, <3>4, StoredType
    <3>7. put.total \in Nat BY <3>5, <3>6, BytesFinite DEF Right
    <3> HIDE DEF put, i
    <3>8. /\ cache'[i] = put.queue /\ \A x \in Insts \ {i} : cache'[x] = cache[x]
          /\ bytes'[i] = put.total /\ \A x \in Insts \ {i} : bytes'[x] = bytes[x]
          /\ bytes' \in [Insts -> Nat]
      BY <1>0, <2>2, <3>1, <3>7
    <3>9. \A x \in Insts : Right(cache'[x], bytes'[x])
      <4> SUFFICES ASSUME NEW x \in Insts PROVE Right(cache'[x], bytes'[x])
        OBVIOUS
      <4>1. CASE x = i BY <3>5, <3>8, <4>1
      <4>2. CASE x # i BY <3>8, <4>2 DEF CachesRight
      <4> QED BY <4>1, <4>2
    <3> QED BY <3>8, <3>9 DEF CachesRight
  <2> QED BY <1>1, <2>1, <2>2
<1>4. CASE UNCHANGED vars BY <1>1, <1>4 DEF vars, process
<1>5. CASE Next
  <2>1. ASSUME NEW t \in Tasks, Send(t) \/ SendLater(t) \/ SendFails(t) PROVE CachesRight'
    BY <1>2, <2>1 DEF Send, SendLater, SendFails
  <2>2. ASSUME NEW t \in Tasks, Begin(t) \/ Lock(t) \/ Mint(t) \/ MintFails(t) PROVE CachesRight'
    BY <1>1, <2>2 DEF Begin, Lock, Mint, MintFails
  <2>3. ASSUME (\E s \in Sweeps : StartSweep(s)) \/ (\E r \in Repos : NewRun(r)) \/ Tick
        PROVE  CachesRight'
    BY <1>1, <2>3 DEF StartSweep, NewRun, Tick, process
  <2> QED BY <1>3, <1>5, <2>1, <2>2, <2>3 DEF Next, TaskStep
<1> QED BY <1>4, <1>5

\* The byte count of a cache is the sum over its entries, no page is there
\* twice, and both caps hold, whatever is read, replaced and evicted
\* (InstallationCache).
THEOREM CacheBoundedThm == Spec => []CacheBounded
<1>1. Init => CachesRight BY CachesStart
<1>2. IInv /\ CachesRight /\ [Next]_vars => CachesRight' BY CachesKept
<1>3. ASSUME IInv, CachesRight PROVE CacheBounded
  <2>1. cache \in [Insts -> Seq(Entries)] BY <1>3, Parts DEF Around
  <2>2. \A i \in Insts : cache[i] \in Seq(Entries) /\ Right(cache[i], bytes[i])
    BY <1>3, <2>1 DEF CachesRight
  <2> QED BY <2>2, RightBounded DEF CacheBounded
<1> QED BY <1>1, <1>2, <1>3, Invariance, PTL DEF Spec
=============================================================================
