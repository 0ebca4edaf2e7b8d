------------------------------ MODULE Broadcast ------------------------------
(***************************************************************************)
(* What the live event bus promises each listener: what has been said      *)
(* since it tuned in, in order and each once, and without a hole unless it *)
(* is told apart as having lost something or the bus broke.  The rest of   *)
(* what is said may still be on its way.                                   *)
(***************************************************************************)
EXTENDS Integers, Sequences

CONSTANT Listeners

VARIABLES
  said,    \* how many things have been said; they are numbered from 1
  tuned,   \* who listens
  from,    \* what had been said when a listener tuned in
  heard,   \* what each has heard
  lossy,   \* who may have lost something
  broken   \* whether everybody may have

vars == <<said, tuned, from, heard, lossy, broken>>

Init ==
  /\ said = 0 /\ tuned = {} /\ lossy = {} /\ ~broken
  /\ from = [c \in Listeners |-> 0] /\ heard = [c \in Listeners |-> <<>>]

Say ==
  /\ said' = said + 1
  /\ UNCHANGED <<tuned, from, heard, lossy, broken>>

\* Those who waited for the bus to come up start together.
TuneIn(S) ==
  /\ S \cap tuned = {} /\ tuned' = tuned \cup S
  /\ from' = [c \in Listeners |-> IF c \in S THEN said ELSE from[c]]
  /\ UNCHANGED <<said, heard, lossy, broken>>

Heard(c, n) == \E i \in 1..Len(heard[c]) : heard[c][i] = n

\* n is later than all that c has heard, and follows it.
Hear(c, n) ==
  /\ c \in tuned
  /\ \A i \in 1..Len(heard[c]) : heard[c][i] < n
  /\ c \notin lossy /\ ~broken => \A m \in (from[c] + 1)..(n - 1) : Heard(c, m)
  /\ heard' = [heard EXCEPT ![c] = Append(@, n)]
  /\ UNCHANGED <<said, tuned, from, lossy, broken>>

TuneOut(c) ==
  /\ c \in tuned /\ tuned' = tuned \ {c}
  /\ from' = [from EXCEPT ![c] = 0] /\ heard' = [heard EXCEPT ![c] = <<>>]
  /\ lossy' = lossy \ {c}
  /\ UNCHANGED <<said, broken>>

Lose(S) ==
  /\ lossy' = lossy \cup S
  /\ UNCHANGED <<said, tuned, from, heard, broken>>

Break ==
  /\ broken' = TRUE
  /\ UNCHANGED <<said, tuned, from, heard, lossy>>

Next ==
  \/ Say \/ Break
  \/ \E c \in Listeners : TuneOut(c) \/ \E n \in 1..said : Hear(c, n)
  \/ \E S \in SUBSET Listeners : TuneIn(S) \/ Lose(S)

Spec == Init /\ [][Next]_vars
=============================================================================
