-------------------------- MODULE AuditSweepProofs --------------------------
(***************************************************************************)
(* The audit sweep: the lease that its replicas take turns by, and the     *)
(* findings that one audit opens and closes while others run.              *)
(*                                                                         *)
(* The lease keeps a sweep single-flight for any number of replicas, any   *)
(* skew, any TTL dimensioned as in worker.py, any number of crashes and of *)
(* claims that fail; a sweep whose heartbeat died of one is left out.  And *)
(* a replica that is up sweeps again within bounded time.                  *)
(*                                                                         *)
(* An audit closes and opens findings on evidence it gathered itself: for  *)
(* any files, flaws and tools, any number of audits at once, and whatever  *)
(* is pushed, ingested or crashes meanwhile.                               *)
(***************************************************************************)
EXTENDS SweepLease, AuditLifecycle, FiniteSetTheorems, TLAPS

-----------------------------------------------------------------------------
(* The lease *)

\* For how long the lease still has to cover execution s: until its next
\* heartbeat, or until arq's timeout.
Due(s) == IF Heartbeat > 0 THEN sweep[s].wait ELSE sweep[s].rest

\* While a sweep is in flight and its heartbeat is alive, its replica holds the
\* lease, by every clock, for longer than it still needs it.
LeaseCovers ==
  \A s \in Healthy : /\ lease.holder = sweep[s].worker
                     /\ lease.left > MaxSkew + Due(s)

LeaseInv == LeaseTypeOK /\ LeaseCovers
-----------------------------------------------------------------------------
\* Every reachable state is well typed.
THEOREM LeaseInitType == LeaseInit => LeaseTypeOK
  BY TimesAssumption DEF LeaseInit, LeaseTypeOK, NoLease, Idle

LEMMA RefreshedType == ASSUME NEW w \in Workers PROVE Refreshed(w) \in Lease
  BY TimesAssumption DEF Refreshed, Lease

LEMMA EnterType ==
  ASSUME LeaseTypeOK, NEW w \in Workers, NEW s \in Slots, Enter(w, s)
  PROVE  /\ lease' \in {NoLease} \cup Lease
         /\ sweep' \in [Slots -> {Idle} \cup Sweep]
         /\ errors' \in 0..MaxErrors
         /\ gap' \in 0..GapCap
  <1>1. NewSweep(w) \in Sweep
    BY TimesAssumption DEF NewSweep, Sweep
  <1>2. QED  BY <1>1, RefreshedType, TimesAssumption DEF LeaseTypeOK, Enter

THEOREM LeaseNextType == LeaseTypeOK /\ [LeaseNext]_leaseVars => LeaseTypeOK'
  <1> SUFFICES ASSUME LeaseTypeOK, [LeaseNext]_leaseVars PROVE LeaseTypeOK'
    OBVIOUS
  <1>1. ASSUME NEW w \in Workers, NEW s \in Slots, Take(w, s) PROVE LeaseTypeOK'
    BY <1>1, EnterType, TimesAssumption DEF Take, LeaseTypeOK
  <1>2. ASSUME NEW w \in Workers, NEW s \in Slots, Retake(w, s) PROVE LeaseTypeOK'
    BY <1>2, EnterType, TimesAssumption DEF Retake, LeaseTypeOK
  <1>3. ASSUME NEW s \in Slots, Beat(s) PROVE LeaseTypeOK'
    <2>1. sweep[s] \in Sweep
      BY <1>3 DEF Beat, LeaseTypeOK, Idle
    <2>2. [sweep[s] EXCEPT !.wait = Heartbeat + Jitter] \in Sweep
      BY <2>1, TimesAssumption DEF Sweep
    <2>3. lease' \in {NoLease} \cup Lease
      BY <1>3, <2>1, RefreshedType DEF Beat, LeaseTypeOK, Sweep
    <2>4. QED  BY <1>3, <2>2, <2>3 DEF Beat, LeaseTypeOK
  <1>4. ASSUME NEW s \in Slots, BeatFails(s) PROVE LeaseTypeOK'
    <2>1. sweep[s] \in Sweep
      BY <1>4 DEF BeatFails, LeaseTypeOK, Idle
    <2>2. [sweep[s] EXCEPT !.beating = FALSE] \in Sweep
      BY <2>1 DEF Sweep
    <2>3. QED  BY <1>4, <2>2, TimesAssumption DEF BeatFails, LeaseTypeOK
  <1>5. ASSUME NEW s \in Slots, Leave(s) PROVE LeaseTypeOK'
    BY <1>5 DEF Leave, LeaseTypeOK
  <1>6. ASSUME NEW w \in Workers, Crash(w) PROVE LeaseTypeOK'
    <2>1. Cardinality({s \in Slots : sweep[s].worker = w}) \in Nat
      <3>1. {s \in Slots : sweep[s].worker = w} \subseteq Slots
        OBVIOUS
      <3>2. QED  BY <3>1, FS_Subset, FS_CardinalityType, TimesAssumption
    <2>2. sweep' \in [Slots -> {Idle} \cup Sweep]
      BY <1>6 DEF Crash, LeaseTypeOK
    <2>3. QED  BY <1>6, <2>1, <2>2, TimesAssumption DEF Crash, LeaseTypeOK
  <1>7. ASSUME NEW w \in Workers, Restart(w) PROVE LeaseTypeOK'
    BY <1>7 DEF Restart, LeaseTypeOK
  <1>8. CASE CronFires
    BY <1>8, TimesAssumption DEF CronFires, LeaseTypeOK
  <1>9. CASE Pass
    <2>1. lease' \in {NoLease} \cup Lease
      BY <1>9, TimesAssumption DEF Pass, LeaseTypeOK, NoLease, Lease
    <2>2. sweep' \in [Slots -> {Idle} \cup Sweep]
      <3>1. ASSUME NEW s \in Slots PROVE sweep'[s] \in {Idle} \cup Sweep
        <4>1. CASE sweep[s] = Idle
          BY <1>9, <4>1 DEF Pass
        <4>2. CASE sweep[s] # Idle
          <5>1. sweep[s] \in Sweep /\ sweep[s].rest > 0
            BY <1>9, <4>2 DEF Pass, LeaseTypeOK, Sweeping
          <5>2. QED  BY <1>9, <4>2, <5>1, TimesAssumption DEF Pass, Sweep
        <4>3. QED  BY <4>1, <4>2
      <3>2. QED  BY <1>9, <3>1 DEF Pass
    <2>3. QED  BY <1>9, <2>1, <2>2, TimesAssumption DEF Pass, LeaseTypeOK
  <1>10. CASE UNCHANGED leaseVars
    BY <1>10 DEF leaseVars, LeaseTypeOK
  <1>11. QED
    BY <1>1, <1>2, <1>3, <1>4, <1>5, <1>6, <1>7, <1>8, <1>9, <1>10 DEF LeaseNext

THEOREM SweepTypeCorrect == LeaseSpec => []LeaseTypeOK
  BY LeaseInitType, LeaseNextType, PTL DEF LeaseSpec
-----------------------------------------------------------------------------
LEMMA InitCovers == LeaseInit => LeaseCovers
  BY DEF LeaseInit, LeaseCovers, Healthy, Sweeping

\* A replica that claims covers its new sweep, and the ones it already runs.
LEMMA EnterCovers ==
  ASSUME LeaseInv, NEW w \in Workers, NEW t \in Slots,
         sweep[t] = Idle, Enter(w, t)
  PROVE  LeaseCovers'
  <1>1. CASE lease' = lease /\ sweep' = sweep
    BY <1>1 DEF LeaseInv, LeaseCovers, Healthy, Sweeping, Due
  <1>2. CASE /\ MayClaim(w)
             /\ lease' = Refreshed(w)
             /\ sweep' = [sweep EXCEPT ![t] = NewSweep(w)]
    <2> SUFFICES ASSUME NEW s \in Slots, sweep'[s] # Idle,
                        Heartbeat > 0 => sweep'[s].beating
                 PROVE  /\ lease'.holder = sweep'[s].worker
                        /\ lease'.left > MaxSkew + Due(s)'
      BY DEF LeaseCovers, Healthy, Sweeping
    <2>1. /\ lease'.holder = w
          /\ lease'.left >= TTL /\ lease'.left \in Int
      BY <1>2, TimesAssumption DEF Refreshed
    <2>2. CASE s = t
      <3>1. sweep'[s] = NewSweep(w)
        BY <1>2, <2>2 DEF LeaseInv, LeaseTypeOK
      <3>2. QED
        BY <2>1, <3>1, TimesAssumption, TTLAssumption DEF NewSweep, Due
    <2>3. CASE s # t
      <3>1. sweep'[s] = sweep[s] /\ sweep[s] # Idle /\ s \in Healthy
        BY <1>2, <2>3 DEF LeaseInv, LeaseTypeOK, Healthy, Sweeping
      <3>2. sweep[s] \in Sweep
        BY <3>1 DEF LeaseInv, LeaseTypeOK
      <3>3. /\ lease.holder = sweep[s].worker
            /\ lease.left > MaxSkew + Due(s)
        BY <3>1 DEF LeaseInv, LeaseCovers
      <3>4. Due(s) \in Nat
        BY <3>2, TimesAssumption DEF Due, Sweep
      <3>5. lease \in Lease
        BY <3>2, <3>3, TimesAssumption DEF LeaseInv, LeaseTypeOK, NoLease, Sweep
      <3>6. lease.holder = w
        BY <1>2, <3>3, <3>4, <3>5, TimesAssumption DEF MayClaim, Lease, NoLease
      <3>7. Due(s)' = Due(s)
        BY <3>1 DEF Due
      <3>8. TTL > MaxSkew + Due(s)
        BY <3>2, TimesAssumption, TTLAssumption DEF Due, Sweep
      <3>9. QED
        BY <2>1, <3>1, <3>3, <3>4, <3>6, <3>7, <3>8, TimesAssumption
    <2>4. QED  BY <2>2, <2>3
  <1>3. QED
    BY <1>1, <1>2, TimesAssumption DEF Enter, LeaseInv, LeaseTypeOK

LEMMA NextCovers ==
  ASSUME LeaseInv, [LeaseNext]_leaseVars
  PROVE  LeaseCovers'
  <1>1. ASSUME NEW w \in Workers, NEW s \in Slots, Take(w, s) PROVE LeaseCovers'
    BY <1>1, EnterCovers DEF Take
  <1>2. ASSUME NEW w \in Workers, NEW s \in Slots, Retake(w, s) PROVE LeaseCovers'
    BY <1>2, EnterCovers DEF Retake
  <1>3. ASSUME NEW t \in Slots, Beat(t) PROVE LeaseCovers'
    <2>1. sweep[t] # Idle /\ sweep[t] \in Sweep /\ t \in Healthy
      BY <1>3 DEF Beat, LeaseInv, LeaseTypeOK, Idle, Healthy, Sweeping
    <2>2. lease.holder = sweep[t].worker
      BY <2>1 DEF LeaseInv, LeaseCovers
    <2>3. lease' = Refreshed(sweep[t].worker)
      BY <1>3, <2>2 DEF Beat, MayClaim
    <2>4. /\ lease'.holder = sweep[t].worker
          /\ lease'.left >= TTL /\ lease'.left \in Int
      BY <2>1, <2>3, TimesAssumption DEF Refreshed, Sweep
    <2> SUFFICES ASSUME NEW s \in Slots, sweep'[s] # Idle,
                        Heartbeat > 0 => sweep'[s].beating
                 PROVE  /\ lease'.holder = sweep'[s].worker
                        /\ lease'.left > MaxSkew + Due(s)'
      BY DEF LeaseCovers, Healthy, Sweeping
    <2>5. sweep[s] # Idle /\ sweep'[s].worker = sweep[s].worker
                          /\ sweep'[s].beating = sweep[s].beating
      <3>1. CASE s = t
        <4>1. sweep'[s] = [sweep[t] EXCEPT !.wait = Heartbeat + Jitter]
          BY <1>3, <3>1 DEF Beat, LeaseInv, LeaseTypeOK
        <4>2. QED  BY <2>1, <3>1, <4>1 DEF Sweep
      <3>2. CASE s # t
        BY <1>3, <3>2 DEF Beat, LeaseInv, LeaseTypeOK
      <3>3. QED  BY <3>1, <3>2
    <2>6. sweep[s].worker = lease.holder
      BY <2>5 DEF LeaseInv, LeaseCovers, Healthy, Sweeping
    <2>7. sweep'[s] \in Sweep
      BY <2>5, LeaseNextType DEF LeaseInv, LeaseTypeOK
    <2>8. /\ Due(s)' \in Nat
          /\ Due(s)' <= (IF Heartbeat > 0 THEN Heartbeat + Jitter ELSE JobTimeout)
      BY <2>7, TimesAssumption DEF Due, Sweep
    <2>9. QED
      BY <2>2, <2>4, <2>5, <2>6, <2>8, TimesAssumption, TTLAssumption
  <1>4. ASSUME NEW t \in Slots, BeatFails(t) PROVE LeaseCovers'
    <2>1. /\ lease' = lease
          /\ \A s \in Slots : s # t => sweep'[s] = sweep[s]
      BY <1>4 DEF BeatFails, LeaseInv, LeaseTypeOK
    <2>2. CASE Heartbeat > 0
      <3>1. sweep[t] \in Sweep
        BY <1>4 DEF BeatFails, LeaseInv, LeaseTypeOK, Idle
      <3>2. sweep'[t].beating = FALSE
        BY <1>4, <3>1 DEF BeatFails, LeaseInv, LeaseTypeOK, Sweep
      <3>3. QED
        BY <2>1, <2>2, <3>2 DEF LeaseInv, LeaseCovers, Healthy, Sweeping, Due
    <2>3. CASE ~(Heartbeat > 0)
      <3>1. sweep[t] # Idle /\ sweep[t] \in Sweep
        BY <1>4 DEF BeatFails, LeaseInv, LeaseTypeOK, Idle
      <3>2. /\ sweep'[t].worker = sweep[t].worker
            /\ sweep'[t].rest = sweep[t].rest
        BY <1>4, <3>1 DEF BeatFails, LeaseInv, LeaseTypeOK, Sweep
      <3>3. QED
        BY <2>1, <2>3, <3>1, <3>2 DEF LeaseInv, LeaseCovers, Healthy, Sweeping, Due
    <2>4. QED  BY <2>2, <2>3
  <1>5. ASSUME NEW t \in Slots, Leave(t) PROVE LeaseCovers'
    <2>1. \A s \in Slots : sweep'[s] # Idle => sweep'[s] = sweep[s]
      BY <1>5 DEF Leave, LeaseInv, LeaseTypeOK
    <2>2. lease' = lease
      BY <1>5 DEF Leave
    <2>3. QED  BY <2>1, <2>2 DEF LeaseInv, LeaseCovers, Healthy, Sweeping, Due
  <1>6. ASSUME NEW w \in Workers, Crash(w) PROVE LeaseCovers'
    <2>1. \A s \in Slots : sweep'[s] # Idle => sweep'[s] = sweep[s]
      BY <1>6 DEF Crash
    <2>2. lease' = lease
      BY <1>6 DEF Crash
    <2>3. QED  BY <2>1, <2>2 DEF LeaseInv, LeaseCovers, Healthy, Sweeping, Due
  <1>7. ASSUME NEW w \in Workers, Restart(w) PROVE LeaseCovers'
    BY <1>7 DEF Restart, LeaseInv, LeaseCovers, Healthy, Sweeping, Due
  <1>8. CASE CronFires
    BY <1>8 DEF CronFires, LeaseInv, LeaseCovers, Healthy, Sweeping, Due
  <1>9. CASE Pass
    <2> SUFFICES ASSUME NEW s \in Slots, sweep'[s] # Idle,
                        Heartbeat > 0 => sweep'[s].beating
                 PROVE  /\ lease'.holder = sweep'[s].worker
                        /\ lease'.left > MaxSkew + Due(s)'
      BY DEF LeaseCovers, Healthy, Sweeping
    <2>1. /\ sweep[s] # Idle /\ s \in Sweeping /\ sweep[s] \in Sweep
          /\ sweep[s].rest > 0
          /\ sweep[s].beating => sweep[s].wait > 0
          /\ sweep'[s] = [worker  |-> sweep[s].worker,
                          rest    |-> sweep[s].rest - 1,
                          beating |-> sweep[s].beating,
                          wait    |-> IF sweep[s].wait > 0
                                      THEN sweep[s].wait - 1 ELSE 0]
      BY <1>9 DEF Pass, LeaseInv, LeaseTypeOK, Sweeping
    <2>2. /\ lease.holder = sweep[s].worker
          /\ lease.left > MaxSkew + Due(s)
          /\ Heartbeat > 0 => sweep[s].beating
      BY <2>1 DEF LeaseInv, LeaseCovers, Healthy
    <2>3. Due(s) > 0 /\ Due(s) \in Nat /\ Due(s)' = Due(s) - 1
      BY <2>1, <2>2, TimesAssumption DEF Due, Sweep
    <2>4. lease \in Lease
      BY <2>1, <2>2, TimesAssumption DEF LeaseInv, LeaseTypeOK, NoLease, Sweep
    <2>5. lease'.holder = lease.holder /\ lease'.left = lease.left - 1
      BY <1>9, <2>2, <2>3, <2>4, TimesAssumption DEF Pass, Lease
    <2>6. QED
      BY <2>1, <2>2, <2>3, <2>4, <2>5, TimesAssumption DEF Lease
  <1>10. CASE UNCHANGED leaseVars
    BY <1>10 DEF leaseVars, LeaseInv, LeaseCovers, Healthy, Sweeping, Due
  <1>11. QED
    BY <1>1, <1>2, <1>3, <1>4, <1>5, <1>6, <1>7, <1>8, <1>9, <1>10 DEF LeaseNext

\* The inductive invariant holds throughout.
LEMMA LeaseInvHolds == LeaseSpec => []LeaseInv
  <1>1. LeaseInit => LeaseInv
    BY LeaseInitType, InitCovers DEF LeaseInv
  <1>2. LeaseInv /\ [LeaseNext]_leaseVars => LeaseInv'
    BY LeaseNextType, NextCovers DEF LeaseInv
  <1>3. QED  BY <1>1, <1>2, PTL DEF LeaseSpec

LEMMA CoverImpliesHolder ==
  ASSUME LeaseInv PROVE LiveHolderNeverLapses
  <1> SUFFICES ASSUME NEW s \in Healthy PROVE lease.left > MaxSkew
    BY DEF LiveHolderNeverLapses, LeaseInv, LeaseCovers
  <1>1. sweep[s] \in Sweep
    BY DEF LeaseInv, LeaseTypeOK, Healthy, Sweeping
  <1>2. lease.left > MaxSkew + Due(s) /\ lease.holder = sweep[s].worker
    BY DEF LeaseInv, LeaseCovers
  <1>3. lease \in Lease
    BY <1>1, <1>2, TimesAssumption DEF LeaseInv, LeaseTypeOK, NoLease, Sweep
  <1>4. QED
    BY <1>1, <1>2, <1>3, TimesAssumption DEF Due, Sweep, Lease

\* "a live holder never lapses mid-sweep": for every dimensioning that
\* TTLAssumption allows, the row names the replica that sweeps with a live
\* heartbeat, and is valid by every replica's clock.
THEOREM LiveHolderNeverLapsesThm == LeaseSpec => []LiveHolderNeverLapses
  BY LeaseInvHolds, CoverImpliesHolder, PTL
-----------------------------------------------------------------------------
(* The lease implements SingleFlight *)

LEMMA EnterRefines ==
  ASSUME LeaseInv, NEW w \in Workers, NEW t \in Slots, sweep[t] = Idle, Enter(w, t)
  PROVE  SF!Enter(w) \/ Active' = Active
  <1>1. CASE sweep' = sweep
    BY <1>1 DEF Active, Healthy, Sweeping
  <1>2. CASE MayClaim(w) /\ sweep' = [sweep EXCEPT ![t] = NewSweep(w)]
    <2>1. ASSUME NEW s \in Healthy PROVE sweep[s].worker = w
      <3>1. sweep[s] \in Sweep
        BY DEF LeaseInv, LeaseTypeOK, Healthy, Sweeping
      <3>2. lease.left > MaxSkew + Due(s) /\ lease.holder = sweep[s].worker
        BY DEF LeaseInv, LeaseCovers
      <3>3. lease \in Lease
        BY <3>1, <3>2, TimesAssumption DEF LeaseInv, LeaseTypeOK, NoLease, Sweep
      <3>4. QED
        BY <1>2, <3>1, <3>2, <3>3, TimesAssumption
           DEF MayClaim, Due, Sweep, Lease, NoLease
    <2>2. /\ NewSweep(w) # Idle /\ NewSweep(w).worker = w
          /\ Heartbeat > 0 => NewSweep(w).beating
      BY TimesAssumption DEF NewSweep, Idle
    <2>3. Healthy' = Healthy \cup {t}
      BY <1>2, <2>2 DEF Healthy, Sweeping, LeaseInv, LeaseTypeOK
    <2>4. \A s \in Healthy' : sweep'[s].worker = w
      BY <1>2, <2>1, <2>2, <2>3 DEF Healthy, Sweeping, LeaseInv, LeaseTypeOK
    <2>5. Active' = {w}
      BY <2>3, <2>4 DEF Active
    <2>6. Active \subseteq {w}
      BY <2>1 DEF Active
    <2>7. QED  BY <2>5, <2>6 DEF SF!Enter
  <1>3. QED  BY <1>1, <1>2 DEF Enter

\* When one execution is no longer counted, its replica leaves or goes on.
LEMMA FewerActive ==
  ASSUME NEW t \in Slots, Healthy' = Healthy \ {t},
         \A s \in Healthy' : sweep'[s].worker = sweep[s].worker
  PROVE  Active' = Active \/ Active' = Active \ {sweep[t].worker}
  <1>1. Active' = {sweep[s].worker : s \in Healthy \ {t}}
    BY DEF Active
  <1>2. CASE \E s \in Healthy \ {t} : sweep[s].worker = sweep[t].worker
    BY <1>1, <1>2 DEF Active
  <1>3. CASE \A s \in Healthy \ {t} : sweep[s].worker # sweep[t].worker
    BY <1>1, <1>3 DEF Active
  <1>4. QED  BY <1>2, <1>3

LEMMA NextRefines ==
  ASSUME LeaseInv, [LeaseNext]_leaseVars
  PROVE  [SF!Next]_Active
  <1>1. ASSUME NEW w \in Workers, NEW s \in Slots, Take(w, s)
        PROVE  [SF!Next]_Active
    BY <1>1, EnterRefines DEF Take, SF!Next
  <1>2. ASSUME NEW w \in Workers, NEW s \in Slots, Retake(w, s)
        PROVE  [SF!Next]_Active
    BY <1>2, EnterRefines DEF Retake, SF!Next
  <1>3. ASSUME NEW t \in Slots, Beat(t) PROVE Active' = Active
    <2>1. sweep[t] # Idle /\ sweep[t] \in Sweep
      BY <1>3 DEF Beat, LeaseInv, LeaseTypeOK, Idle
    <2>2. /\ [sweep[t] EXCEPT !.wait = Heartbeat + Jitter] # Idle
          /\ [sweep[t] EXCEPT !.wait = Heartbeat + Jitter].worker = sweep[t].worker
      BY <2>1, TimesAssumption DEF Sweep, Idle
    <2>3. \A s \in Slots : /\ sweep'[s] = Idle <=> sweep[s] = Idle
                           /\ sweep'[s].worker = sweep[s].worker
                           /\ sweep'[s].beating = sweep[s].beating
      BY <1>3, <2>1, <2>2 DEF Beat, LeaseInv, LeaseTypeOK
    <2>4. QED  BY <2>3 DEF Active, Healthy, Sweeping
  <1>4. ASSUME NEW t \in Slots, BeatFails(t)
        PROVE  \/ Active' = Active
               \/ SF!Leave(sweep[t].worker)
    <2>1. sweep[t] # Idle /\ sweep[t] \in Sweep
      BY <1>4 DEF BeatFails, LeaseInv, LeaseTypeOK, Idle
    <2>2. /\ [sweep[t] EXCEPT !.beating = FALSE] # Idle
          /\ [sweep[t] EXCEPT !.beating = FALSE].worker = sweep[t].worker
          /\ ~[sweep[t] EXCEPT !.beating = FALSE].beating
      BY <2>1, TimesAssumption DEF Sweep, Idle
    <2>3. /\ \A s \in Slots : /\ sweep'[s] = Idle <=> sweep[s] = Idle
                              /\ sweep'[s].worker = sweep[s].worker
          /\ \A s \in Slots \ {t} : sweep'[s] = sweep[s]
          /\ ~sweep'[t].beating
      BY <1>4, <2>1, <2>2 DEF BeatFails, LeaseInv, LeaseTypeOK
    <2>4. CASE ~(Heartbeat > 0)
      BY <2>3, <2>4 DEF Active, Healthy, Sweeping
    <2>5. CASE Heartbeat > 0
      <3>1. Healthy' = Healthy \ {t}
        BY <2>3, <2>5 DEF Healthy, Sweeping
      <3>2. \A s \in Healthy' : sweep'[s].worker = sweep[s].worker
        BY <2>3 DEF Healthy, Sweeping
      <3>3. \/ Active' = Active
            \/ Active' = Active \ {sweep[t].worker}
        BY <3>1, <3>2, FewerActive
      <3>4. QED  BY <3>3 DEF SF!Leave
    <2>6. QED  BY <2>4, <2>5
  <1>5. ASSUME NEW t \in Slots, Leave(t)
        PROVE  \/ Active' = Active
               \/ SF!Leave(sweep[t].worker)
    <2>1. Healthy' = Healthy \ {t} /\ \A s \in Healthy' : sweep'[s] = sweep[s]
      BY <1>5 DEF Leave, Healthy, Sweeping, LeaseInv, LeaseTypeOK
    <2>2. QED  BY <2>1, FewerActive DEF SF!Leave
  <1>6. ASSUME NEW w \in Workers, Crash(w) PROVE SF!Leave(w)
    <2>1. \A s \in Slots : sweep'[s] = IF sweep[s].worker = w THEN Idle ELSE sweep[s]
      BY <1>6 DEF Crash
    <2>2. Idle.worker # w
      BY TimesAssumption DEF Idle
    <2>3. Healthy' = {s \in Healthy : sweep[s].worker # w}
      BY <2>1, <2>2 DEF Healthy, Sweeping
    <2>4. \A s \in Healthy' : sweep'[s] = sweep[s]
      BY <2>1, <2>3 DEF Healthy, Sweeping
    <2>5. QED  BY <2>3, <2>4 DEF Active, SF!Leave
  <1>7. ASSUME NEW w \in Workers, Restart(w) PROVE Active' = Active
    BY <1>7 DEF Restart, Active, Healthy, Sweeping
  <1>8. ASSUME CronFires PROVE Active' = Active
    BY <1>8 DEF CronFires, Active, Healthy, Sweeping
  <1>9. ASSUME Pass PROVE Active' = Active
    <2>1. \A s \in Slots : sweep[s] # Idle => sweep[s] \in Sweep
      BY DEF LeaseInv, LeaseTypeOK
    <2>2. \A s \in Slots : /\ sweep'[s] = Idle <=> sweep[s] = Idle
                           /\ sweep'[s].worker = sweep[s].worker
                           /\ sweep'[s].beating = sweep[s].beating
      BY <1>9, <2>1, TimesAssumption DEF Pass, Sweep, Idle
    <2>3. QED  BY <2>2 DEF Active, Healthy, Sweeping
  <1>10. ASSUME UNCHANGED leaseVars PROVE Active' = Active
    BY <1>10 DEF leaseVars, Active, Healthy, Sweeping
  <1>11. \A t \in Slots : sweep[t] # Idle => sweep[t].worker \in Workers
    BY DEF LeaseInv, LeaseTypeOK, Sweep
  <1>12. ASSUME NEW t \in Slots, Leave(t) PROVE [SF!Next]_Active
    BY <1>5, <1>11, <1>12 DEF SF!Next, Leave
  <1>13. ASSUME NEW t \in Slots, BeatFails(t) PROVE [SF!Next]_Active
    <2>1. sweep[t] # Idle
      BY <1>13 DEF BeatFails, Idle
    <2>2. QED  BY <1>4, <1>11, <1>13, <2>1 DEF SF!Next
  <1>14. QED
    BY <1>1, <1>2, <1>3, <1>6, <1>7, <1>8, <1>9, <1>10, <1>12, <1>13
       DEF LeaseNext, SF!Next

\* The lease implements the single-flight specification: no two replicas with
\* live heartbeats are inside a sweep at once, for every dimensioning of
\* worker.py's leases.
THEOREM ImplementsSingleFlightThm == LeaseSpec => ImplementsSingleFlight
  <1>1. LeaseInit => SF!Init
    BY DEF LeaseInit, SF!Init, Active, Healthy, Sweeping
  <1>2. LeaseInv /\ [LeaseNext]_leaseVars => [SF!Next]_Active
    BY NextRefines
  <1>3. QED
    BY LeaseInvHolds, <1>1, <1>2, PTL DEF LeaseSpec, ImplementsSingleFlight, SF!Spec
-----------------------------------------------------------------------------
(* How long nobody sweeps *)

\* How long the gap may get, as often as claims have failed.
Bound == TTL + MaxSkew + Period * (1 + errors)

\* The gap is counted only while somebody could sweep and nobody does.  Until
\* the lease runs out the two make up its length.  Then the next cron tick ends
\* the gap, unless its claim fails, which the bound allows for: what counts is
\* the time until that tick, a whole period later once its job is queued.
Gaps ==
  /\ Sweeping # {} \/ up = {} => gap = 0
  /\ lease.left > 0 => gap + lease.left <= TTL + MaxSkew
  /\ lease.left = 0 => gap + cron <= Bound + (IF queued > 0 THEN Period ELSE 0)
  /\ GapBounded

LEMMA Products ==
  ASSUME NEW p \in Nat, NEW n \in Nat
  PROVE  /\ p * (1 + n) \in Nat /\ p * (1 + n) >= p
         /\ p * (1 + (n + 1)) = p * (1 + n) + p
<1>1. p * n \in Nat
  OBVIOUS
<1>2. p * (1 + n) = p + p * n /\ p * (1 + (n + 1)) = p + p + p * n
  OBVIOUS
<1> QED BY <1>1, <1>2

\* Another failed claim allows for another period.
LEMMA Bounds ==
  ASSUME LeaseTypeOK
  PROVE  /\ Bound \in Nat /\ Bound >= TTL + MaxSkew + Period
         /\ errors' = errors => Bound' = Bound
         /\ errors' = errors + 1 => Bound' = Bound + Period
<1>1. /\ TTL \in Nat /\ MaxSkew \in Nat /\ Period \in Nat /\ errors \in Nat
  BY TimesAssumption DEF LeaseTypeOK
<1>2. /\ Period * (1 + errors) \in Nat /\ Period * (1 + errors) >= Period
      /\ Period * (1 + (errors + 1)) = Period * (1 + errors) + Period
  BY <1>1, Products
<1> QED BY <1>1, <1>2 DEF Bound

\* A step after which there is no gap, as a claim or a crash of everybody.
LEMMA NoGap ==
  ASSUME LeaseTypeOK', gap' = 0 PROVE Gaps'
<1>1. TTL \in Nat /\ MaxSkew \in Nat /\ Period \in Nat
  BY TimesAssumption
<1>2. PICK c \in 0..Period, n \in Nat : cron' = c /\ errors' = n
  BY DEF LeaseTypeOK
<1>3. lease'.left \in 0..(TTL + MaxSkew)
  BY <1>1 DEF LeaseTypeOK, NoLease, Lease
<1>4. Period * (1 + n) \in Nat /\ Period * (1 + n) >= Period
  BY <1>1, Products
<1> QED BY <1>1, <1>2, <1>3, <1>4 DEF Gaps, GapBounded, Bound

\* A claim ends the gap, is refused while the lease runs, or raises the bound.
LEMMA EnterGaps ==
  ASSUME LeaseTypeOK, LeaseTypeOK', Gaps, NEW w \in Workers, NEW s \in Slots, Enter(w, s),
         UNCHANGED <<up, cron>>, queued' = queued \/ queued' = queued - 1
  PROVE  Gaps'
<1>1. /\ TTL \in Nat /\ MaxSkew \in Nat /\ Period \in Nat /\ queued \in Nat /\ queued' \in Nat
      /\ cron \in 0..Period /\ lease.left \in Nat /\ gap \in Nat /\ Skew[w] \in Nat
  BY TimesAssumption DEF LeaseTypeOK, NoLease, Lease
<1>2. CASE gap' = 0
  BY <1>2, NoGap
<1>3. CASE ~MayClaim(w) /\ UNCHANGED <<lease, sweep, errors, gap>>
  <2>1. lease.left > 0
    BY <1>1, <1>3 DEF MayClaim
  <2>2. Bound' = Bound /\ Sweeping' = Sweeping
    BY <1>3, Bounds DEF Sweeping
  <2> QED BY <1>3, <2>1, <2>2 DEF Gaps, GapBounded, Bound
<1>4. CASE errors' = errors + 1 /\ UNCHANGED <<lease, sweep, gap>>
  <2>1. Bound' = Bound + Period /\ Sweeping' = Sweeping /\ Bound \in Nat
    BY <1>4, Bounds DEF Sweeping
  <2> QED BY <1>1, <1>4, <2>1 DEF Gaps, GapBounded, Bound
<1> QED BY <1>2, <1>3, <1>4 DEF Enter

LEMMA NextGaps ==
  ASSUME LeaseTypeOK, LeaseTypeOK', Gaps, [LeaseNext]_leaseVars PROVE Gaps'
<1>1. /\ TTL \in Nat /\ MaxSkew \in Nat /\ Period \in Nat \ {0} /\ queued \in Nat /\ queued' \in Nat
      /\ cron \in 0..Period /\ cron' \in 0..Period /\ gap \in Nat /\ gap' \in Nat
      /\ lease.left \in Nat /\ lease'.left \in Nat /\ Bound \in Nat
  BY TimesAssumption, Bounds DEF LeaseTypeOK, NoLease, Lease
<1>2. ASSUME NEW w \in Workers, NEW s \in Slots, Take(w, s) PROVE Gaps'
  BY <1>2, EnterGaps DEF Take
<1>3. ASSUME NEW w \in Workers, NEW s \in Slots, Retake(w, s) PROVE Gaps'
  BY <1>3, EnterGaps DEF Retake
<1>4. ASSUME NEW s \in Slots, Beat(s) PROVE Gaps'
  BY <1>4, NoGap DEF Beat, Gaps, Sweeping, Idle
<1>5. ASSUME NEW s \in Slots, BeatFails(s) PROVE Gaps'
  BY <1>5, NoGap DEF BeatFails, Gaps, Sweeping, Idle
<1>6. ASSUME NEW s \in Slots, Leave(s) PROVE Gaps'
  BY <1>6, NoGap DEF Leave, Gaps, Sweeping
<1>7. ASSUME NEW w \in Workers, Crash(w) PROVE Gaps'
  <2>1. CASE gap' = 0
    BY <2>1, NoGap
  <2>2. CASE gap' # 0
    <3>1. /\ up' # {} /\ gap' = gap /\ Sweeping = {}
          /\ UNCHANGED <<lease, cron, queued, errors>>
      BY <1>7, <2>2 DEF Crash, Gaps
    <3>2. Sweeping' = {}
      BY <1>7, <3>1 DEF Crash, Sweeping
    <3>3. Bound' = Bound
      BY <3>1 DEF Bound
    <3> QED BY <3>1, <3>2, <3>3 DEF Gaps, GapBounded, Bound
  <2> QED BY <2>1, <2>2
<1>8. ASSUME NEW w \in Workers, Restart(w) PROVE Gaps'
  <2>1. /\ up' # {} /\ UNCHANGED <<sweep, lease, gap, cron, queued, errors>>
    BY <1>8 DEF Restart
  <2>2. Sweeping' = Sweeping /\ Bound' = Bound
    BY <2>1 DEF Sweeping, Bound
  <2> QED BY <2>1, <2>2 DEF Gaps, GapBounded, Bound
<1>9. CASE CronFires
  <2>1. /\ cron = 0 /\ cron' = Period /\ UNCHANGED <<sweep, lease, gap, up, errors>>
        /\ up # {} => queued' > 0
    BY <1>1, <1>9, TimesAssumption DEF CronFires
  <2>2. Sweeping' = Sweeping /\ Bound' = Bound
    BY <2>1 DEF Sweeping, Bound
  <2>3. CASE up = {}
    BY <2>1, <2>3, NoGap DEF Gaps
  <2>4. CASE up # {}
    BY <1>1, <2>1, <2>2, <2>4 DEF Gaps, GapBounded, Bound
  <2> QED BY <2>3, <2>4
<1>10. CASE Pass
  <2>1. CASE gap' = 0
    BY <2>1, NoGap
  <2>2. CASE gap' # 0
    <3>1. Sweeping = {} /\ up # {} /\ gap' <= gap + 1
      BY <1>1, <1>10, <2>2 DEF Pass
    <3>2. queued = 0 /\ queued' = 0 /\ cron > 0 /\ cron' = cron - 1 /\ up' = up /\ errors' = errors
      BY <1>10, <3>1, TimesAssumption DEF Pass
    <3>3. /\ lease.left > 0 => lease'.left = lease.left - 1
          /\ lease.left = 0 => lease' = lease
      BY <1>1, <1>10 DEF Pass, LeaseTypeOK, NoLease, Lease
    <3>4. Sweeping' = {}
      BY <1>10, <3>1 DEF Pass, Sweeping
    <3>5. Bound' = Bound /\ Bound >= TTL + MaxSkew + Period
      BY <3>2, Bounds DEF Bound
    <3>6. CASE lease.left > 0
      BY <1>1, <3>1, <3>2, <3>3, <3>4, <3>5, <3>6 DEF Gaps, GapBounded, Bound
    <3>7. CASE lease.left = 0
      BY <1>1, <3>1, <3>2, <3>3, <3>4, <3>5, <3>7 DEF Gaps, GapBounded, Bound
    <3> QED BY <1>1, <3>6, <3>7
  <2> QED BY <2>1, <2>2
<1>11. CASE UNCHANGED leaseVars
  BY <1>11 DEF leaseVars, Gaps, GapBounded, Bound, Sweeping
<1> QED
  BY <1>2, <1>3, <1>4, <1>5, <1>6, <1>7, <1>8, <1>9, <1>10, <1>11 DEF LeaseNext

\* "a crashed holder can never wedge a sweep permanently": however the lease,
\* the cron and the clocks are dimensioned, a replica sweeps within the lease's
\* remainder and a period, and one more for each claim that failed.
THEOREM GapBoundedThm == LeaseSpec => []GapBounded
<1>1. LeaseInit => Gaps
  <2> SUFFICES ASSUME LeaseInit PROVE Gaps
    OBVIOUS
  <2>1. /\ gap = 0 /\ cron = 0 /\ queued = 0 /\ lease.left = 0 /\ Bound \in Nat
    BY LeaseInitType, Bounds DEF LeaseInit, NoLease
  <2> QED BY <2>1 DEF Gaps, GapBounded, Bound
<1>2. LeaseTypeOK /\ LeaseTypeOK' /\ Gaps /\ [LeaseNext]_leaseVars => Gaps'
  BY NextGaps
<1>3. Gaps => GapBounded
  BY DEF Gaps
<1> QED BY <1>1, <1>2, <1>3, SweepTypeCorrect, PTL DEF LeaseSpec
-----------------------------------------------------------------------------
(* The audits *)

\* What the branch shows now counts among what it has shown and lacked since
\* the audit began.
Tracks(a) ==
  audit[a].pc = "reading" =>
    Shows(head) \subseteq shown[a] /\ Flaws \ Shows(head) \subseteq absent[a]

\* A flaw in a file that was read has been on the branch.
ReadsShown(a) ==
  audit[a].pc = "reading" =>
    \A x \in Flaws : Has(audit[a].got, x) /\ Needs[x] = None /\ x \notin Exempt
                       => x \in shown[a]

\* A flaw that the audit has not met, where it has looked, was not on the
\* branch at some time: its file was not there, or was without it, or the file
\* that it needs was there.
ReadsAbsent(a) ==
  audit[a].pc = "reading" /\ used["failure"] = 0 =>
    \A x \in Flaws :
      /\ FileOf[x] \notin audit[a].todo /\ ~Has(audit[a].got, x) => x \in absent[a]
      /\ Needs[x] # None /\ audit[a].got[Needs[x]] # None => x \in absent[a]

Reads == \A a \in Audits : Tracks(a) /\ ReadsShown(a) /\ ReadsAbsent(a)

AuditInv == TypeOK /\ Reads
-----------------------------------------------------------------------------
(* What the operators return *)

LEMMA IdleAuditType == IdleAudit \in Audit
  BY DEF IdleAudit, Audit, Repo

LEMMA AlertingType ==
  ASSUME NEW alerts \in SUBSET Flaws
  PROVE  Alerting(alerts) \in Audit /\ Alerting(alerts).pc # "reading"
  BY IdleAuditType DEF Alerting, IdleAudit, Audit

LEMMA HappensType ==
  ASSUME NEW k \in Kinds, Happens(k),
         used \in [Kinds -> Nat], \A j \in Kinds : used[j] <= Limit[j]
  PROVE  /\ used' \in [Kinds -> Nat] /\ \A j \in Kinds : used'[j] <= Limit'[j]
         /\ used'["failure"] = 0 => used["failure"] = 0 /\ k # "failure"
  BY AuditAssumption DEF Happens, Kinds

LEMMA RaisedType == \A h : Raised(h) \in SUBSET Flaws
  BY DEF Raised

LEMMA UpsertedType ==
  ASSUME NEW rows \in [Flaws \cup Reports -> {"none", "open", "resolved"}], NEW seen
  PROVE  Upserted(rows, seen) \in [Flaws \cup Reports -> {"none", "open", "resolved"}]
  BY DEF Upserted

LEMMA ResolvedType ==
  ASSUME NEW rows \in [Flaws \cup Reports -> {"none", "open", "resolved"}],
         NEW scope, NEW seen
  PROVE  Resolved(rows, scope, seen) \in [Flaws \cup Reports -> {"none", "open", "resolved"}]
  BY DEF Resolved
-----------------------------------------------------------------------------
(* Type correctness *)

LEMMA AuditInitType == Init => TypeOK
<1> SUFFICES ASSUME Init PROVE TypeOK
  OBVIOUS
<1>1. relation \in Repo
  BY DEF Init, Repo
<1>2. used \in [Kinds -> Nat] /\ \A k \in Kinds : used[k] <= Limit[k]
  BY AuditAssumption DEF Init
<1> QED
  BY <1>1, <1>2, IdleAuditType DEF Init, TypeOK

\* The audit's new record is well typed, and the rest goes with it.
LEMMA BecomesType ==
  ASSUME audit \in [Audits -> Audit], NEW a \in Audits, NEW rec \in Audit, Becomes(a, rec)
  PROVE  audit' \in [Audits -> Audit]
  BY DEF Becomes

LEMMA AuditNextType == TypeOK /\ [Next]_vars => TypeOK'
<1> SUFFICES ASSUME TypeOK, [Next]_vars PROVE TypeOK'
  OBVIOUS
<1> USE DEF TypeOK, db, history
<1>1. ASSUME NEW h \in Repo, Push(h) PROVE TypeOK'
  <2>1. used' \in [Kinds -> Nat] /\ \A k \in Kinds : used'[k] <= Limit'[k]
    BY <1>1, HappensType DEF Push, Kinds
  <2> QED
    BY <1>1, <2>1, RaisedType DEF Push, Shows, Targeted
<1>2. ASSUME NEW a \in Audits, StartAudit(a) PROVE TypeOK'
  <2>1. [IdleAudit EXCEPT !.pc = "reading", !.todo = ListFiles] \in Audit
    BY IdleAuditType DEF Audit, ListFiles
  <2> QED
    BY <1>2, <2>1, BecomesType, RaisedType DEF StartAudit, Shows
<1>3. ASSUME NEW a \in Audits, NEW f \in Files, ReadFile(a, f) PROVE TypeOK'
  <2>1. [audit[a].got EXCEPT ![f] = head[f]] \in Repo
    BY DEF Audit, Repo
  <2>2. [audit[a] EXCEPT !.todo = audit[a].todo \ {f},
                         !.got = [audit[a].got EXCEPT ![f] = head[f]]] \in Audit
    BY <2>1 DEF Audit
  <2> QED
    BY <1>3, <2>2, BecomesType DEF ReadFile
<1>4. ASSUME NEW a \in Audits, NEW f \in Files, SkipFile(a, f) PROVE TypeOK'
  <2>1. [audit[a] EXCEPT !.todo = audit[a].todo \ {f}] \in Audit
    BY DEF Audit
  <2>2. used' \in [Kinds -> Nat] /\ \A k \in Kinds : used'[k] <= Limit'[k]
    BY <1>4, HappensType DEF SkipFile, Kinds
  <2> QED
    BY <1>4, <2>1, <2>2, BecomesType DEF SkipFile
<1>5. ASSUME NEW a \in Audits, WriteFindings(a) PROVE TypeOK'
  <2>1. PICK proven \in SUBSET Exempt :
          /\ IF proven = Exempt THEN UNCHANGED used ELSE Happens("failure")
          /\ LET seen == Raised(audit[a].got) \ proven IN
               /\ row' = Resolved(Upserted(row, seen), DOMAIN row, seen)
               /\ Becomes(a, Alerting([s \in SUBSET Flaws |-> s \cap High][seen]))
    BY <1>5 DEF WriteFindings, Write
  <2>2. used' \in [Kinds -> Nat] /\ \A k \in Kinds : used'[k] <= Limit'[k]
    BY <2>1, HappensType DEF Kinds
  <2>3. PICK seen \in SUBSET Flaws :
          /\ row' = Resolved(Upserted(row, seen), DOMAIN row, seen)
          /\ Becomes(a, Alerting(seen \cap High))
    BY <2>1, RaisedType
  <2>4. row' \in [Flaws \cup Reports -> {"none", "open", "resolved"}]
    BY <2>3, UpsertedType, ResolvedType
  <2>5. audit' \in [Audits -> Audit]
    BY <2>3, BecomesType, AlertingType
  <2>6. relation' \in Repo
    BY <1>5 DEF WriteFindings, Write, Repo, Audit
  <2> QED
    BY <1>5, <2>2, <2>4, <2>5, <2>6 DEF WriteFindings, Write
<1>6. ASSUME NEW a \in Audits, NEW x \in High, Alert(a, x) PROVE TypeOK'
  <2>1. Alerting(audit[a].alerts \ {x}) \in Audit
    BY AlertingType DEF Audit
  <2> QED
    BY <1>6, <2>1, BecomesType, AuditAssumption DEF Alert
<1>7. ASSUME NEW a \in Audits, CrashAudit(a) PROVE TypeOK'
  <2>1. used' \in [Kinds -> Nat] /\ \A k \in Kinds : used'[k] <= Limit'[k]
    BY <1>7, HappensType DEF CrashAudit, Kinds
  <2> QED
    BY <1>7, <2>1, BecomesType, IdleAuditType DEF CrashAudit
<1>8. ASSUME NEW t \in Tools, NEW found \in SUBSET ReportsOf(t), Ingest(t, found)
      PROVE TypeOK'
  BY <1>8, UpsertedType, ResolvedType DEF Ingest
<1>9. ASSUME CreateCampaign PROVE TypeOK'
  BY <1>9, AuditAssumption DEF CreateCampaign
<1>10. CASE UNCHANGED vars
  BY <1>10 DEF vars
<1> QED
  BY <1>1, <1>2, <1>3, <1>4, <1>5, <1>6, <1>7, <1>8, <1>9, <1>10 DEF Next, Step
-----------------------------------------------------------------------------
(* What the audits know *)

\* Nobody else touches an audit's record or its history.
LEMMA OthersKeepReads ==
  ASSUME TypeOK, Reads, NEW a \in Audits, NEW b \in Audits, a # b,
         audit'[b] = audit[b], shown'[b] = shown[b], absent'[b] = absent[b],
         head' = head, used'["failure"] = 0 => used["failure"] = 0
  PROVE  Tracks(b)' /\ ReadsShown(b)' /\ ReadsAbsent(b)'
  BY DEF Reads, Tracks, ReadsShown, ReadsAbsent, Shows, Raised, Has

\* Audit a is not reading any more, or goes on with the same files.
LEMMA ReadsStay ==
  ASSUME TypeOK, Reads, UNCHANGED <<head, shown, absent>>,
         used'["failure"] = 0 => used["failure"] = 0,
         \A b \in Audits : audit'[b].pc = "reading" => audit'[b] = audit[b]
  PROVE  Reads'
  BY DEF Reads, Tracks, ReadsShown, ReadsAbsent, Shows, Raised, Has

LEMMA PushReads ==
  ASSUME TypeOK, Reads, NEW h \in Repo, Push(h) PROVE Reads'
<1> SUFFICES ASSUME NEW a \in Audits
             PROVE  Tracks(a)' /\ ReadsShown(a)' /\ ReadsAbsent(a)'
  BY DEF Reads
<1>1. used'["failure"] = 0 => used["failure"] = 0
  BY HappensType DEF Push, Kinds, TypeOK
<1>2. /\ audit' = audit
      /\ head' = h
      /\ audit[a].pc = "reading" => /\ shown'[a] = shown[a] \cup Shows(h)
                                    /\ absent'[a] = absent[a] \cup (Flaws \ Shows(h))
  BY DEF Push, TypeOK
<1>3. Tracks(a)'
  BY <1>2 DEF Tracks, Shows, Raised, Has
<1>4. ReadsShown(a)'
  BY <1>2 DEF Reads, ReadsShown, Has
<1>5. ReadsAbsent(a)'
  BY <1>1, <1>2 DEF Reads, ReadsAbsent, Has
<1> QED
  BY <1>3, <1>4, <1>5

LEMMA StartReads ==
  ASSUME TypeOK, Reads, NEW a \in Audits, StartAudit(a) PROVE Reads'
<1>1. /\ audit'[a].todo = ListFiles
      /\ audit'[a].got = [f \in Files |-> None]
      /\ shown'[a] = Shows(head)
      /\ absent'[a] = Flaws \ Shows(head)
      /\ head' = head /\ used' = used
  BY DEF StartAudit, Becomes, IdleAudit, TypeOK
<1>2. Tracks(a)'
  BY <1>1 DEF Tracks, Shows, Raised, Has
<1>3. ReadsShown(a)'
  BY <1>1, AuditAssumption DEF ReadsShown, Has
<1>4. \A x \in Flaws : FileOf[x] \notin ListFiles => x \notin Shows(head)
  BY AuditAssumption DEF ListFiles, Shows, Raised, Has
<1>5. ReadsAbsent(a)'
  BY <1>1, <1>4, AuditAssumption DEF ReadsAbsent, Has
<1>6. ASSUME NEW b \in Audits, b # a
      PROVE  Tracks(b)' /\ ReadsShown(b)' /\ ReadsAbsent(b)'
  <2>1. audit'[b] = audit[b] /\ shown'[b] = shown[b] /\ absent'[b] = absent[b]
    BY <1>6 DEF StartAudit, Becomes, TypeOK
  <2> QED
    BY <1>1, <1>6, <2>1, OthersKeepReads
<1> QED
  BY <1>2, <1>3, <1>5, <1>6 DEF Reads

\* The file is read as the branch has it now, which the history accounts for.
LEMMA ReadFileReads ==
  ASSUME TypeOK, Reads, NEW a \in Audits, NEW f \in Files, ReadFile(a, f) PROVE Reads'
<1>1. /\ audit[a].pc = "reading"
      /\ audit'[a].todo = audit[a].todo \ {f}
      /\ audit'[a].got = [audit[a].got EXCEPT ![f] = head[f]]
      /\ UNCHANGED <<head, used, shown, absent>>
  BY DEF ReadFile, Becomes, TypeOK, history
<1>2. audit[a].got \in Repo /\ head \in Repo
  BY DEF TypeOK, Audit
<1>3. Tracks(a)'
  BY <1>1 DEF Reads, Tracks, Shows, Raised, Has
<1>4. Shows(head) \subseteq shown[a] /\ Flaws \ Shows(head) \subseteq absent[a]
  BY <1>1 DEF Reads, Tracks
<1>5. ReadsShown(a)'
  <2> SUFFICES ASSUME NEW x \in Flaws, Has(audit'[a].got, x), Needs[x] = None, x \notin Exempt
               PROVE  x \in shown[a]
    BY <1>1 DEF ReadsShown, Has
  <2>1. CASE FileOf[x] = f
    BY <1>1, <1>2, <1>4, <2>1, AuditAssumption DEF Has, Shows, Raised, Repo
  <2>2. CASE FileOf[x] # f
    BY <1>1, <1>2, <2>2, AuditAssumption DEF Has, Reads, ReadsShown, Repo
  <2> QED
    BY <2>1, <2>2
<1>6. ReadsAbsent(a)'
  <2> SUFFICES ASSUME used["failure"] = 0, NEW x \in Flaws
               PROVE  /\ FileOf[x] \notin audit'[a].todo /\ ~Has(audit'[a].got, x)
                           => x \in absent[a]
                      /\ Needs[x] # None /\ audit'[a].got[Needs[x]] # None
                           => x \in absent[a]
    BY <1>1 DEF ReadsAbsent, Has
  <2>1. ASSUME FileOf[x] \notin audit'[a].todo, ~Has(audit'[a].got, x)
        PROVE  x \in absent[a]
    <3>1. CASE FileOf[x] = f
      BY <1>1, <1>2, <1>4, <2>1, <3>1, AuditAssumption DEF Has, Shows, Raised, Repo
    <3>2. CASE FileOf[x] # f
      BY <1>1, <1>2, <2>1, <3>2, AuditAssumption DEF Has, Reads, ReadsAbsent, Repo
    <3> QED
      BY <3>1, <3>2
  <2>2. ASSUME Needs[x] # None, audit'[a].got[Needs[x]] # None
        PROVE  x \in absent[a]
    <3>1. CASE Needs[x] = f
      BY <1>1, <1>2, <1>4, <2>2, <3>1, AuditAssumption DEF Shows, Raised, Repo
    <3>2. CASE Needs[x] # f
      BY <1>1, <1>2, <2>2, <3>2, AuditAssumption DEF Reads, ReadsAbsent, Repo
    <3> QED
      BY <3>1, <3>2
  <2> QED
    BY <2>1, <2>2
<1>7. ASSUME NEW b \in Audits, b # a
      PROVE  Tracks(b)' /\ ReadsShown(b)' /\ ReadsAbsent(b)'
  <2>1. audit'[b] = audit[b]
    BY <1>7 DEF ReadFile, Becomes, TypeOK
  <2> QED
    BY <1>1, <1>7, <2>1, OthersKeepReads
<1> QED
  BY <1>3, <1>5, <1>6, <1>7 DEF Reads

\* After a failed read an audit knows nothing of absent flaws any more.
LEMMA SkipFileReads ==
  ASSUME TypeOK, Reads, NEW a \in Audits, NEW f \in Files, SkipFile(a, f) PROVE Reads'
<1>1. /\ audit[a].pc = "reading"
      /\ audit'[a].got = audit[a].got
      /\ UNCHANGED <<head, shown, absent>>
  BY DEF SkipFile, Becomes, TypeOK, history
<1>2. used'["failure"] # 0
  BY HappensType DEF SkipFile, Kinds, TypeOK
<1>3. Tracks(a)'
  BY <1>1 DEF Reads, Tracks, Shows, Raised, Has
<1>4. ReadsShown(a)'
  BY <1>1 DEF Reads, ReadsShown, Has
<1>5. ReadsAbsent(a)'
  BY <1>2 DEF ReadsAbsent
<1>6. ASSUME NEW b \in Audits, b # a
      PROVE  Tracks(b)' /\ ReadsShown(b)' /\ ReadsAbsent(b)'
  <2>1. audit'[b] = audit[b]
    BY <1>6 DEF SkipFile, Becomes, TypeOK
  <2> QED
    BY <1>1, <1>2, <1>6, <2>1, OthersKeepReads
<1> QED
  BY <1>3, <1>4, <1>5, <1>6 DEF Reads

\* An audit that stops reading leaves the others' knowledge alone.
LEMMA LeaveReads ==
  ASSUME TypeOK, Reads, NEW a \in Audits, NEW rec, Becomes(a, rec), rec.pc # "reading",
         head' = head, used'["failure"] = 0 => used["failure"] = 0,
         shown' = [shown EXCEPT ![a] = {}], absent' = [absent EXCEPT ![a] = {}]
  PROVE  Reads'
<1>1. audit'[a].pc # "reading"
  BY DEF Becomes, TypeOK
<1>2. Tracks(a)' /\ ReadsShown(a)' /\ ReadsAbsent(a)'
  BY <1>1 DEF Tracks, ReadsShown, ReadsAbsent
<1>3. ASSUME NEW b \in Audits, b # a
      PROVE  Tracks(b)' /\ ReadsShown(b)' /\ ReadsAbsent(b)'
  <2>1. audit'[b] = audit[b] /\ shown'[b] = shown[b] /\ absent'[b] = absent[b]
    BY <1>3 DEF Becomes, TypeOK
  <2> QED
    BY <1>3, <2>1, OthersKeepReads
<1> QED
  BY <1>2, <1>3 DEF Reads

\* What an audit is about to write.
LEMMA WriteFacts ==
  ASSUME TypeOK, NEW a \in Audits, WriteFindings(a)
  PROVE  \E proven \in SUBSET Exempt :
           LET seen == Raised(audit[a].got) \ proven IN
             /\ used'["failure"] = 0 => used["failure"] = 0 /\ proven = Exempt
             /\ row' = Resolved(Upserted(row, seen), DOMAIN row, seen)
             /\ Becomes(a, Alerting(seen \cap High))
             /\ audit'[a].pc # "reading"
<1>1. PICK proven \in SUBSET Exempt :
        /\ IF proven = Exempt THEN UNCHANGED used ELSE Happens("failure")
        /\ LET seen == Raised(audit[a].got) \ proven IN
             /\ row' = Resolved(Upserted(row, seen), DOMAIN row, seen)
             /\ Becomes(a, Alerting([s \in SUBSET Flaws |-> s \cap High][seen]))
  BY DEF WriteFindings, Write
<1>2. used'["failure"] = 0 => used["failure"] = 0 /\ proven = Exempt
  BY <1>1, HappensType DEF Kinds, TypeOK
<1>3. PICK seen \in SUBSET Flaws : seen = Raised(audit[a].got) \ proven
  BY RaisedType
<1>4. Becomes(a, Alerting(seen \cap High))
  BY <1>1, <1>3
<1>5. audit'[a].pc # "reading"
  BY <1>4, AlertingType DEF Becomes, TypeOK
<1> QED
  BY <1>1, <1>2, <1>3, <1>4, <1>5

LEMMA NextReads == TypeOK /\ Reads /\ [Next]_vars => Reads'
<1> SUFFICES ASSUME TypeOK, Reads, [Next]_vars PROVE Reads'
  OBVIOUS
<1>1. ASSUME NEW a \in Audits, WriteFindings(a) PROVE Reads'
  <2>1. PICK seen : /\ Becomes(a, Alerting(seen \cap High))
                    /\ seen \in SUBSET Flaws
                    /\ used'["failure"] = 0 => used["failure"] = 0
    BY <1>1, WriteFacts, RaisedType
  <2>2. Alerting(seen \cap High).pc # "reading"
    BY <2>1, AlertingType
  <2> QED
    BY <1>1, <2>1, <2>2, LeaveReads DEF WriteFindings, Write
<1>2. ASSUME NEW a \in Audits, NEW x \in High, Alert(a, x) PROVE Reads'
  <2>1. Alerting(audit[a].alerts \ {x}).pc # "reading"
    BY AlertingType DEF TypeOK, Audit
  <2>2. \A b \in Audits : audit'[b].pc = "reading" => audit'[b] = audit[b]
    BY <1>2, <2>1 DEF Alert, Becomes, TypeOK
  <2> QED
    BY <1>2, <2>2, ReadsStay DEF Alert, history
<1>3. ASSUME NEW a \in Audits, CrashAudit(a) PROVE Reads'
  <2>1. used'["failure"] = 0 => used["failure"] = 0
    BY <1>3, HappensType DEF CrashAudit, Kinds, TypeOK
  <2>2. IdleAudit.pc # "reading"
    BY DEF IdleAudit
  <2> QED
    BY <1>3, <2>1, <2>2, LeaveReads DEF CrashAudit
<1>4. ASSUME NEW t \in Tools, NEW found, Ingest(t, found) PROVE Reads'
  BY <1>4, ReadsStay DEF Ingest, history
<1>5. ASSUME CreateCampaign PROVE Reads'
  BY <1>5, ReadsStay DEF CreateCampaign
<1>6. CASE UNCHANGED vars
  BY <1>6, ReadsStay DEF vars, history
<1> QED
  BY <1>1, <1>2, <1>3, <1>4, <1>5, <1>6,
     PushReads, StartReads, ReadFileReads, SkipFileReads DEF Next, Step
-----------------------------------------------------------------------------
(* The theorems *)

THEOREM AuditInvariance == Spec => []AuditInv
<1>1. Init => AuditInv
  BY AuditInitType DEF Init, AuditInv, Reads, Tracks, ReadsShown, ReadsAbsent, IdleAudit
<1>2. AuditInv /\ [Next]_vars => AuditInv'
  BY AuditNextType, NextReads DEF AuditInv
<1> QED
  BY <1>1, <1>2, PTL DEF Spec

\* Every reachable state is well typed: an audit's files are files, a finding's
\* state is one of the three that the code knows.
THEOREM AuditTypeCorrect == Spec => []TypeOK
  BY AuditInvariance, PTL DEF AuditInv

\* What audit a closes and opens when it writes, it has evidence for.
LEMMA WriteEvidence ==
  ASSUME AuditInv, NEW a \in Audits, WriteFindings(a), used'["failure"] = 0,
         NEW x \in Flaws, row'[x] # row[x]
  PROVE  /\ audit[a].pc = "reading" /\ audit'[a].pc # "reading"
         /\ row'[x] = "resolved" => x \in absent[a]
         /\ row'[x] = "open" /\ Needs[x] = None => x \in shown[a]
<1>1. PICK seen : /\ seen = Raised(audit[a].got) \ Exempt
                  /\ used["failure"] = 0
                  /\ row' = Resolved(Upserted(row, seen), DOMAIN row, seen)
                  /\ audit'[a].pc # "reading"
  BY WriteFacts DEF AuditInv
<1>2. audit[a].pc = "reading" /\ audit[a].todo = {}
  BY DEF WriteFindings, Write
<1>3. DOMAIN row = Flaws \cup Reports
  BY DEF AuditInv, TypeOK
<1>4. Tracks(a) /\ ReadsShown(a) /\ ReadsAbsent(a)
  BY DEF AuditInv, Reads
<1>5. row'[x] = "resolved" => x \notin seen
  BY <1>1, <1>3 DEF Resolved, Upserted
<1>6. x \notin seen => x \in absent[a]
  <2>1. CASE x \in Exempt
    BY <1>2, <1>4, <2>1 DEF Tracks, Shows
  <2>2. CASE x \notin Exempt /\ ~Has(audit[a].got, x)
    BY <1>1, <1>2, <1>4, <2>2 DEF ReadsAbsent
  <2>3. CASE x \notin Exempt /\ Has(audit[a].got, x)
    BY <1>1, <1>2, <1>4, <2>3 DEF ReadsAbsent, Raised
  <2> QED
    BY <2>1, <2>2, <2>3
<1>7. row'[x] = "open" => x \in seen
  BY <1>1, <1>3 DEF Resolved, Upserted
<1>8. x \in seen /\ Needs[x] = None => x \in shown[a]
  BY <1>1, <1>2, <1>4 DEF ReadsShown, Raised
<1> QED
  BY <1>1, <1>2, <1>5, <1>6, <1>7, <1>8

\* Any number of concurrent audits, pushes, crashes and SARIF documents, in any
\* order: as long as no read fails, no audit closes a finding that the branch
\* showed all along, or opens one that the branch never showed.
THEOREM EvidenceThm == Spec => Evidence
<1>1. AuditInv /\ [Next]_vars =>
        (used'["failure"] = 0 =>
           \A x \in Flaws : row'[x] # row[x] =>
             \E a \in Audits :
               /\ audit[a].pc = "reading" /\ audit'[a].pc # "reading"
               /\ row'[x] = "resolved" => x \in absent[a]
               /\ row'[x] = "open" /\ Needs[x] = None => x \in shown[a])
  <2> SUFFICES ASSUME AuditInv, [Next]_vars, used'["failure"] = 0,
                      NEW x \in Flaws, row'[x] # row[x]
               PROVE  \E a \in Audits :
                        /\ audit[a].pc = "reading" /\ audit'[a].pc # "reading"
                        /\ row'[x] = "resolved" => x \in absent[a]
                        /\ row'[x] = "open" /\ Needs[x] = None => x \in shown[a]
    OBVIOUS
  <2>1. ASSUME NEW t \in Tools, NEW found \in SUBSET ReportsOf(t), Ingest(t, found)
        PROVE  FALSE
    <3>1. x \notin Reports /\ x \in DOMAIN row
      BY AuditAssumption DEF AuditInv, TypeOK
    <3>2. row'[x] = row[x]
      BY <2>1, <3>1 DEF Ingest, Resolved, Upserted, ReportsOf
    <3> QED
      BY <3>2
  <2>2. PICK a \in Audits : WriteFindings(a)
    BY <2>1 DEF Next, Step, Push, StartAudit, ReadFile, SkipFile, Alert, CrashAudit,
                CreateCampaign, vars, db
  <2> QED
    BY <2>2, WriteEvidence
<1> QED
  BY <1>1, AuditInvariance, PTL DEF Spec, Evidence
=============================================================================
