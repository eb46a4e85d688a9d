---------------------------- MODULE NotifyProofs ---------------------------
(***************************************************************************)
(* Proofs about notifications on the scheduler, for every number of        *)
(* threads, badge and mask.  The count of waiters and the sleepers hold    *)
(* each other up: whoever sleeps is registered, the count covers everyone  *)
(* registered, so a pulse never skips its wake while somebody sleeps.      *)
(***************************************************************************)
EXTENDS Notify, FiniteSetTheorems, WellFoundedInduction, TLAPS

Registered == {t \in Thr : reg[t]}

\* The count is exact, except for the registrations that died with their threads.
Counted ==
  /\ kills \in 0 .. MaxKill
  /\ Cardinality(Registered) <= waiters
  /\ waiters <= Cardinality(Registered) + kills

\* Who sleeps is past its registration and, once it has left the CPU, off it.
Sleepers ==
  /\ \A t \in Thr : pc[t] \in {"block", "sample", "park", "resume"} => reg[t]
  /\ \A t \in Thr : st[t] = "BLOCKED" => pc[t] \in {"sample", "park", "resume"}
  /\ \A t \in Thr : st[t] = "BLOCKED" /\ pc[t] = "resume" => cur # t

\* Only a call that has returned holds received bits.
Handed == \A t \in Thr : pc[t] # "yield" => got[t] = {}

IInv == TypeOK /\ Counted /\ Sleepers /\ Handed

\* NoLostBadge from the moment the pending bits were sampled again.
Sampled ==
  \A t \in Thr : st[t] = "BLOCKED" /\ pc[t] \in {"park", "resume"} /\ t \notin passed =>
    live /\ pending \cap Mask[t] = {}

----------------------------------------------------------------------------
(* The scheduler *)

\* The natural numbers are well ordered.
LEMMA Least ==
  ASSUME NEW S \in SUBSET Nat, S # {}
  PROVE  \E n \in S : \A m \in S : n <= m
  <1> DEFINE L == OpToRel(<, Nat)
  <1>1. PICK n \in S : \A m \in S : <<m, n>> \notin L
    <2> HIDE DEF L
    <2>1. IsWellFoundedOn(L, Nat)
      BY NatLessThanWellFounded DEF L
    <2> QED BY <2>1, WFMin, Zenon
  <1>2. ASSUME NEW m \in S PROVE n <= m
    <2>1. ~(m < n)
      BY <1>1 DEF OpToRel
    <2> QED BY <2>1
  <1> QED BY <1>2

\* The scan order has a first thread in every nonempty set of candidates.
LEMMA FirstExists ==
  ASSUME SchedTypeOK, NEW C \in SUBSET Thr, C # {}
  PROVE  \E t \in C : \A u \in C : Beats(t, u)
  <1>1. \A t \in Thr : RankEff(t) \in 0 .. MaxRank
    BY SchedAssumption DEF SchedTypeOK, RankEff, MaxRank
  <1>2. \A t \in Thr : ScanPos(t) \in Nat
    BY SchedAssumption DEF SchedTypeOK, ScanPos, Thr
  <1>3. \A t \in Thr : age[t] \in 0 .. AgeMod - 1 /\ AgeMod \in Nat
    BY SchedAssumption DEF SchedTypeOK
  <1> DEFINE R == {MaxRank - RankEff(t) : t \in C}
  <1>4. PICK r \in R : \A m \in R : r <= m
    <2>1. R \subseteq Nat /\ R # {}
      BY <1>1 DEF MaxRank
    <2> QED BY <2>1, Least
  <1> DEFINE C1 == {t \in C : MaxRank - RankEff(t) = r}
             A == {AgeMod - age[t] : t \in C1}
  <1>5. PICK a \in A : \A m \in A : a <= m
    <2>1. A \subseteq Nat /\ A # {}
      BY <1>3, <1>4
    <2> QED BY <2>1, Least
  <1> DEFINE C2 == {t \in C1 : AgeMod - age[t] = a}
             S == {ScanPos(t) : t \in C2}
  <1>6. PICK p \in S : \A m \in S : p <= m
    <2>1. S \subseteq Nat /\ S # {}
      BY <1>2, <1>5
    <2> QED BY <2>1, Least
  <1>7. PICK t \in C2 : ScanPos(t) = p
    BY <1>6
  <1>8. ASSUME NEW u \in C PROVE Beats(t, u)
    <2>1. RankEff(t) >= RankEff(u)
      BY <1>1, <1>4, <1>7 DEF MaxRank
    <2>2. RankEff(u) = RankEff(t) => u \in C1 /\ age[t] >= age[u]
      <3>1. RankEff(u) = RankEff(t) => u \in C1
        BY <1>7
      <3>2. u \in C1 => a <= AgeMod - age[u]
        BY <1>5
      <3> QED BY <3>1, <3>2, <1>3, <1>7
    <2>3. RankEff(u) = RankEff(t) /\ age[u] = age[t] => ScanPos(t) <= ScanPos(u)
      BY <2>2, <1>6, <1>7
    <2> QED BY <2>1, <2>2, <2>3, <1>1, <1>2, <1>3 DEF Beats
  <1> QED BY <1>7, <1>8

\* pick_next returns a runnable thread, or none.
LEMMA PickRunnable ==
  ASSUME SchedTypeOK, NEW s \in [Thr -> State]
  PROVE  \/ Pick(s) = Idle
         \/ Pick(s) \in Thr /\ s[Pick(s)] = "RUNNABLE"
  <1> DEFINE C == {t \in Thr : s[t] = "RUNNABLE"}
  <1>1. CASE C = {}
    BY <1>1, Zenon DEF Pick
  <1>2. CASE C # {}
    <2>1. \E t \in C : \A u \in C : Beats(t, u)
      BY <1>2, FirstExists
    <2> DEFINE k == CHOOSE t \in C : \A u \in C : Beats(t, u)
    <2>2. Pick(s) = k
      BY <1>2, Zenon DEF Pick
    <2>3. k \in C
      BY <2>1, Zenon
    <2> HIDE DEF k
    <2> QED BY <2>2, <2>3
  <1> QED BY <1>1, <1>2

\* The ages wrap and the cursor stays in the table.
LEMMA PickedType ==
  ASSUME SchedTypeOK, NEW p \in 0 .. NThr, Picked(p)
  PROVE  age' \in [Thr -> 0 .. AgeMod - 1] /\ robin' \in 0 .. NThr
  <1>1. \A t \in Thr : (age[t] + 1) % AgeMod \in 0 .. AgeMod - 1 /\ 1 % AgeMod \in 0 .. AgeMod - 1
    BY SchedAssumption DEF SchedTypeOK
  <1>2. age' \in [Thr -> 0 .. AgeMod - 1]
    BY <1>1 DEF Picked
  <1>3. robin' \in 0 .. NThr
    BY SchedAssumption DEF SchedTypeOK, Picked, Idle
  <1> QED BY <1>2, <1>3

\* schedule() blocks nobody, unblocks nobody and never runs a blocked thread.
LEMMA ScheduleEffect ==
  ASSUME SchedTypeOK, NEW s \in [Thr -> State], Schedule(s), peeked' \in BOOLEAN
  PROVE  /\ SchedTypeOK'
         /\ \A t \in Thr : st'[t] = "BLOCKED" <=> s[t] = "BLOCKED"
         /\ \A t \in Thr : st'[t] = "BLOCKED" => cur' # t
  <1> DEFINE p == Pick(s)
  <1>1. p = Idle \/ (p \in Thr /\ s[p] = "RUNNABLE")
    BY PickRunnable
  <1>2. p \in 0 .. NThr
    BY <1>1, SchedAssumption DEF Idle, Thr
  <1>3. Picked(p) /\ cur' = p
    BY DEF Schedule
  <1>4. age' \in [Thr -> 0 .. AgeMod - 1] /\ robin' \in 0 .. NThr
    BY <1>2, <1>3, PickedType
  <1>5. CASE p = cur
    <2>1. st' = s /\ boost' = boost
      BY <1>5 DEF Schedule
    <2> QED BY <2>1, <1>1, <1>2, <1>3, <1>4 DEF SchedTypeOK, Idle, Thr
  <1>6. CASE p # cur
    <2>1. /\ st' = [t \in Thr |-> IF t = p THEN "RUNNING"
                                  ELSE IF t = cur /\ s[t] = "RUNNING" THEN "RUNNABLE"
                                  ELSE s[t]]
          /\ boost' = [t \in Thr |-> IF t = cur /\ boost[t] > 0 THEN boost[t] - 1 ELSE boost[t]]
      BY <1>6 DEF Schedule
    <2>2. st' \in [Thr -> State] /\ boost' \in [Thr -> 0 .. MaxRank]
      BY <2>1 DEF SchedTypeOK, State, MaxRank
    <2>3. \A t \in Thr : st'[t] = "BLOCKED" <=> s[t] = "BLOCKED"
      <3> TAKE t \in Thr
      <3>1. CASE t = p
        BY <3>1, <2>1, <1>1 DEF Idle, Thr
      <3>2. CASE t # p
        BY <3>2, <2>1
      <3> QED BY <3>1, <3>2
    <2>4. \A t \in Thr : st'[t] = "BLOCKED" => t # p
      BY <2>1
    <2> QED BY <2>2, <2>3, <2>4, <1>2, <1>3, <1>4 DEF SchedTypeOK
  <1> QED BY <1>5, <1>6

\* The idle loop: a schedule() or a second pick.
LEMMA IdleEffect ==
  ASSUME SchedTypeOK, IdlePass
  PROVE  /\ SchedTypeOK'
         /\ \A t \in Thr : st'[t] = "BLOCKED" <=> st[t] = "BLOCKED"
         /\ \A t \in Thr : st'[t] = "BLOCKED" => cur' # t
  <1>1. CASE peeked
    <2>1. Picked(Pick(st)) /\ peeked' = FALSE /\ UNCHANGED <<st, boost, cur>> /\ cur = Idle
      BY <1>1 DEF IdlePass
    <2>2. st \in [Thr -> State]
      BY DEF SchedTypeOK
    <2>3. Pick(st) \in 0 .. NThr
      BY <2>2, PickRunnable, SchedAssumption DEF Idle, Thr
    <2>4. age' \in [Thr -> 0 .. AgeMod - 1] /\ robin' \in 0 .. NThr
      BY <2>1, <2>3, PickedType
    <2>5. SchedTypeOK'
      BY <2>1, <2>4 DEF SchedTypeOK
    <2>6. \A t \in Thr : cur' # t
      BY <2>1 DEF Idle, Thr
    <2> QED BY <2>1, <2>5, <2>6
  <1>2. CASE ~peeked
    <2>1. Schedule(st) /\ peeked' = TRUE
      BY <1>2 DEF IdlePass
    <2>2. st \in [Thr -> State] /\ peeked' \in BOOLEAN
      BY <2>1 DEF SchedTypeOK
    <2> QED BY <2>1, <2>2, ScheduleEffect
  <1> QED BY <1>1, <1>2 DEF SchedTypeOK

\* A wake blocks nobody; one that reaches the whole table leaves nobody asleep.
LEMMA WokenType ==
  ASSUME NEW s \in [Thr -> State], NEW n
  PROVE  /\ Woken(s, Parked(s), n) \in [Thr -> State]
         /\ \A t \in Thr : Woken(s, Parked(s), n)[t] = "BLOCKED" => s[t] = "BLOCKED"
  BY DEF Woken, State

\* The thread table is finite.
LEMMA FiniteThr == IsFiniteSet(Thr) /\ Cardinality(Thr) = NThr
  BY FS_Interval, SchedAssumption DEF Thr

\* Who is still blocked after a wake was blocked before it and passed over.
LEMMA WakeUpEffect ==
  ASSUME st \in [Thr -> State], NEW n \in Nat, WakeUp(n)
  PROVE  /\ st' \in [Thr -> State] /\ passed' \subseteq Thr
         /\ \A t \in Thr : st'[t] = "BLOCKED" => st[t] = "BLOCKED" /\ t \in passed'
  <1>1. st' = Woken(st, Parked(st), n)
        /\ passed' = {t \in Parked(st) : Cardinality({u \in Parked(st) : u < t}) >= n}
    BY DEF WakeUp
  <1>2. st' \in [Thr -> State] /\ \A t \in Thr : st'[t] = "BLOCKED" => st[t] = "BLOCKED"
    BY <1>1, WokenType
  <1>3. ASSUME NEW t \in Thr, st'[t] = "BLOCKED" PROVE t \in passed'
    <2> DEFINE B == {u \in Parked(st) : u < t}
    <2>1. t \in Parked(st)
      BY <1>2, <1>3 DEF Parked
    <2>2. ~(Cardinality(B) < n)
      BY <1>1, <1>3, <2>1 DEF Woken
    <2>3. Cardinality(B) \in Nat
      <3>1. B \subseteq Thr
        BY DEF Parked
      <3> QED BY <3>1, FiniteThr, FS_Subset, FS_CardinalityType
    <2>4. Cardinality(B) >= n
      <3> HIDE DEF B
      <3> QED BY <2>2, <2>3
    <2> QED BY <1>1, <2>1, <2>4
  <1>4. passed' \subseteq Thr
    BY <1>1 DEF Parked
  <1> QED BY <1>2, <1>3, <1>4

----------------------------------------------------------------------------
(* The count of waiters *)

\* The number of registered threads.
LEMMA RegisteredType ==
  ASSUME TypeOK
  PROVE  /\ IsFiniteSet(Registered) /\ Cardinality(Registered) \in 0 .. NThr
  <1>1. Registered \subseteq Thr
    BY DEF Registered
  <1> QED BY <1>1, FiniteThr, FS_Subset, FS_CardinalityType

\* The registration of t ends: with its call, or with the thread.
LEMMA Unregister ==
  ASSUME TypeOK, NEW t \in Thr, reg' = [reg EXCEPT ![t] = FALSE]
  PROVE  Cardinality(Registered') = IF reg[t] THEN Cardinality(Registered) - 1
                                    ELSE Cardinality(Registered)
  <1>1. reg' = [u \in Thr |-> IF u = t THEN FALSE ELSE reg[u]]
    BY DEF TypeOK
  <1>2. Registered' = Registered \ {t}
    BY <1>1 DEF Registered
  <1>3. reg[t] <=> t \in Registered
    BY DEF Registered
  <1> QED BY <1>2, <1>3, RegisteredType, FS_RemoveElement

\* A registration adds one thread, or none when it was there.
LEMMA RegisterOne ==
  ASSUME TypeOK, NEW t \in Thr, reg' = [reg EXCEPT ![t] = TRUE]
  PROVE  Cardinality(Registered') = IF reg[t] THEN Cardinality(Registered)
                                    ELSE Cardinality(Registered) + 1
  <1>1. reg' = [u \in Thr |-> IF u = t THEN TRUE ELSE reg[u]]
    BY DEF TypeOK
  <1>2. Registered' = Registered \cup {t}
    BY <1>1 DEF Registered
  <1>3. reg[t] <=> t \in Registered
    BY DEF Registered
  <1> QED BY <1>2, <1>3, RegisteredType, FS_AddElement

\* The bounds of the count follow from Counted.
LEMMA CountType ==
  ASSUME NEW n \in 0 .. NThr, NEW k \in 0 .. MaxKill, NEW w \in Int, n <= w, w <= n + k
  PROVE  w \in 0 .. NThr + MaxKill
  BY SchedAssumption, NotifyAssumption

----------------------------------------------------------------------------
(* The invariant *)

\* At first nobody is registered.
LEMMA InitIInv == Init => IInv
  <1> SUFFICES ASSUME Init PROVE IInv
    OBVIOUS
  <1> USE DEF Init
  <1>1. SchedTypeOK
    <2>1. st \in [Thr -> State] /\ peeked \in BOOLEAN
      BY DEF SchedInit, State
    <2>2. age \in [Thr -> 0 .. AgeMod - 1]
      BY SchedAssumption DEF SchedInit
    <2>3. boost \in [Thr -> 0 .. MaxRank] /\ robin \in 0 .. NThr /\ cur \in 0 .. NThr
      BY SchedAssumption DEF SchedInit, Idle
    <2> QED BY <2>1, <2>2, <2>3 DEF SchedTypeOK
  <1>2. TypeOK
    BY <1>1, SchedAssumption, NotifyAssumption DEF TypeOK, Idle
  <1>3. Registered = {}
    BY DEF Registered
  <1>4. Counted
    BY <1>3, FS_EmptySet, NotifyAssumption DEF Counted
  <1>5. Sleepers /\ Handed
    BY DEF Sleepers, Handed, SchedInit
  <1> QED BY <1>2, <1>4, <1>5 DEF IInv

\* Steps that change the thread states and nothing a call holds.
LEMMA StatesOnly ==
  ASSUME IInv, SchedTypeOK',
         \A t \in Thr : st'[t] = "BLOCKED" => st[t] = "BLOCKED",
         \A t \in Thr : st'[t] = "BLOCKED" /\ pc[t] = "resume" => cur' # t,
         live' \in BOOLEAN, pending' \subseteq Badge,
         UNCHANGED <<waiters, hint, pc, seen, reg, got, kills>>, passed' \subseteq Thr
  PROVE  IInv'
  <1> USE DEF IInv
  <1>1. TypeOK'
    BY DEF TypeOK
  <1>2. Counted'
    BY DEF Counted, Registered
  <1>3. Sleepers'
    BY DEF Sleepers
  <1>4. Handed'
    BY DEF Handed
  <1> QED BY <1>1, <1>2, <1>3, <1>4

\* A call returns the bits g.
LEMMA LeaveIInv ==
  ASSUME IInv, NEW t \in Thr, cur = t, st[t] # "BLOCKED", NEW g \in SUBSET Badge, Leave(t, g),
         UNCHANGED <<schedVars, kills, passed>>, live' = live, pending' \subseteq Badge,
         seen' \in [Thr -> SUBSET Badge]
  PROVE  IInv'
  <1> USE DEF IInv
  <1>1. Counted'
    <2>1. Cardinality(Registered') = IF reg[t] THEN Cardinality(Registered) - 1
                                     ELSE Cardinality(Registered)
      BY Unregister DEF Leave
    <2>2. waiters' = IF reg[t] THEN waiters - 1 ELSE waiters
      BY DEF Leave
    <2>3. waiters \in Int
      BY NotifyAssumption, SchedAssumption DEF TypeOK
    <2> QED BY <2>1, <2>2, <2>3, RegisteredType DEF Counted
  <1>2. /\ pc' = [u \in Thr |-> IF u = t THEN "yield" ELSE pc[u]]
        /\ got' = [u \in Thr |-> IF u = t THEN g ELSE got[u]]
        /\ reg' = [u \in Thr |-> IF u = t THEN FALSE ELSE reg[u]]
    BY DEF Leave, Goto, TypeOK
  <1>3. TypeOK'
    <2>1. SchedTypeOK'
      BY DEF schedVars, SchedTypeOK, TypeOK
    <2>2. hint' \in 0 .. NThr
      BY SchedAssumption DEF Leave, TypeOK, Idle
    <2>3. waiters' \in 0 .. NThr + MaxKill
      <3>1. waiters' \in Int
        BY NotifyAssumption, SchedAssumption DEF TypeOK, Leave
      <3>2. IsFiniteSet(Registered') /\ Cardinality(Registered') \in 0 .. NThr
        <4>1. Registered' \subseteq Thr
          BY DEF Registered
        <4> QED BY <4>1, FiniteThr, FS_Subset, FS_CardinalityType
      <3> QED BY <3>1, <3>2, <1>1, CountType DEF Counted
    <2> QED BY <2>1, <2>2, <2>3, <1>2 DEF TypeOK
  <1>4. Sleepers'
    BY <1>2 DEF Sleepers, schedVars
  <1>5. Handed'
    BY <1>2 DEF Handed
  <1> QED BY <1>1, <1>3, <1>4, <1>5

\* The thread on the CPU moves on in its call; the count and the received bits stay.
LEMMA MoveIInv ==
  ASSUME IInv, NEW t \in Thr, NEW l \in {"load", "claim", "register"},
         pc' = [pc EXCEPT ![t] = l], st[t] # "BLOCKED", pc[t] # "yield",
         UNCHANGED <<schedVars, live, pending, waiters, reg, got, kills, passed>>,
         hint' \in 0 .. NThr, seen' \in [Thr -> SUBSET Badge]
  PROVE  IInv'
  <1> USE DEF IInv
  <1>1. pc' = [u \in Thr |-> IF u = t THEN l ELSE pc[u]]
    BY DEF TypeOK
  <1>2. TypeOK'
    <2>1. SchedTypeOK'
      BY DEF schedVars, SchedTypeOK, TypeOK
    <2> QED BY <2>1, <1>1 DEF TypeOK
  <1>3. Counted'
    BY DEF Counted, Registered
  <1>4. Sleepers'
    BY <1>1 DEF Sleepers, schedVars
  <1>5. Handed'
    BY <1>1 DEF Handed
  <1> QED BY <1>2, <1>3, <1>4, <1>5

\* The thread on the CPU does not sleep when its call is outside the sleep.
LEMMA Awake ==
  ASSUME IInv, NEW t \in Thr, NEW l, On(t, l), l \notin {"sample", "park"}
  PROVE  st[t] # "BLOCKED"
  BY DEF IInv, Sleepers, On

\* notify_wait, the load of the pending word.
LEMMA LoadIInv ==
  ASSUME IInv, NEW t \in Thr, Load(t)
  PROVE  IInv'
  <1>0. On(t, "load") /\ st[t] # "BLOCKED" /\ UNCHANGED <<schedVars, live, pending, pulses, kills, passed>>
    BY Awake DEF Load
  <1>1. pending \subseteq Badge /\ seen \in [Thr -> SUBSET Badge] /\ hint \in 0 .. NThr
    BY DEF IInv, TypeOK
  <1>2. CASE Leave(t, {}) /\ UNCHANGED seen
    BY <1>0, <1>1, <1>2, LeaveIInv DEF On
  <1>3. CASE /\ seen' = [seen EXCEPT ![t] = pending]
             /\ Goto(t, "claim")
             /\ UNCHANGED <<waiters, hint, reg, got>>
    BY <1>0, <1>1, <1>3, MoveIInv DEF On, Goto
  <1>4. CASE Goto(t, "register") /\ UNCHANGED <<waiters, hint, reg, got, seen>>
    BY <1>0, <1>1, <1>4, MoveIInv DEF On, Goto
  <1> QED BY <1>2, <1>3, <1>4 DEF Load

\* notify_wait, the compare-and-swap.
LEMMA ClaimIInv ==
  ASSUME IInv, NEW t \in Thr, Claim(t)
  PROVE  IInv'
  <1>0. /\ On(t, "claim") /\ st[t] # "BLOCKED"
        /\ UNCHANGED <<schedVars, live, pulses, kills, passed>> /\ seen' = [seen EXCEPT ![t] = {}]
    BY Awake DEF Claim
  <1>1. pending \subseteq Badge /\ seen' \in [Thr -> SUBSET Badge] /\ hint \in 0 .. NThr
    BY <1>0 DEF IInv, TypeOK
  <1>2. CASE pending' = pending \ Mask[t] /\ Leave(t, pending \cap Mask[t])
    <2>1. pending' \subseteq Badge /\ pending \cap Mask[t] \in SUBSET Badge
      BY <1>1, <1>2
    <2> QED BY <1>0, <1>1, <1>2, <2>1, LeaveIInv DEF On
  <1>3. CASE Goto(t, "load") /\ UNCHANGED <<pending, waiters, hint, reg, got>>
    BY <1>0, <1>1, <1>3, MoveIInv DEF On, Goto
  <1> QED BY <1>2, <1>3 DEF Claim

\* notify_wait, after schedule() returns.
LEMMA ResumeIInv ==
  ASSUME IInv, NEW t \in Thr, Resume(t)
  PROVE  IInv'
  <1>1. On(t, "resume") /\ st[t] # "BLOCKED"
    BY Awake DEF Resume
  <1>2. hint' \in 0 .. NThr /\ seen' \in [Thr -> SUBSET Badge]
    BY SchedAssumption DEF IInv, TypeOK, Resume, Idle
  <1>3. pc' = [pc EXCEPT ![t] = "load"] /\ UNCHANGED <<schedVars, live, pending, waiters, reg, got, kills, passed>>
    BY DEF Resume, Goto
  <1> QED BY <1>1, <1>2, <1>3, MoveIInv DEF On

\* notify_wait, the registration as a waiter.
LEMMA RegisterIInv ==
  ASSUME IInv, NEW t \in Thr, Register(t)
  PROVE  IInv'
  <1> USE DEF IInv
  <1>0. On(t, "register") /\ st[t] # "BLOCKED"
    BY Awake DEF Register
  <1>1. Counted'
    <2>1. Cardinality(Registered') = IF reg[t] THEN Cardinality(Registered)
                                     ELSE Cardinality(Registered) + 1
      BY RegisterOne DEF Register
    <2>2. waiters \in Int /\ waiters' = (IF reg[t] THEN waiters ELSE waiters + 1) /\ kills' = kills
      BY NotifyAssumption, SchedAssumption DEF TypeOK, Register
    <2> QED BY <2>1, <2>2, RegisteredType DEF Counted
  <1>2. /\ pc' = [u \in Thr |-> IF u = t THEN "block" ELSE pc[u]]
        /\ reg' = [u \in Thr |-> IF u = t THEN TRUE ELSE reg[u]]
        /\ got' = got /\ UNCHANGED schedVars
    BY DEF Register, Goto, TypeOK
  <1>3. TypeOK'
    <2>1. SchedTypeOK'
      BY <1>2 DEF schedVars, SchedTypeOK, TypeOK
    <2>2. hint' \in 0 .. NThr
      BY SchedAssumption DEF Register, Thr
    <2>3. waiters' \in 0 .. NThr + MaxKill
      <3>1. waiters' \in Int
        BY NotifyAssumption, SchedAssumption DEF TypeOK, Register
      <3>2. IsFiniteSet(Registered') /\ Cardinality(Registered') \in 0 .. NThr
        <4>1. Registered' \subseteq Thr
          BY DEF Registered
        <4> QED BY <4>1, FiniteThr, FS_Subset, FS_CardinalityType
      <3> QED BY <3>1, <3>2, <1>1, CountType DEF Counted
    <2> QED BY <2>1, <2>2, <2>3, <1>2 DEF TypeOK, Register
  <1>4. Sleepers'
    BY <1>0, <1>2 DEF Sleepers, schedVars, On
  <1>5. Handed'
    BY <1>0, <1>2 DEF Handed, On
  <1> QED BY <1>1, <1>3, <1>4, <1>5

\* A wake, whatever its number, from the thread on the CPU or from an interrupt.
LEMMA WakeIInv ==
  ASSUME IInv, NEW n \in Nat, WakeUp(n) \/ NoWake,
         UNCHANGED <<age, boost, robin, cur, peeked, waiters, hint, pc, seen, reg, got, kills>>,
         live' \in BOOLEAN, pending' \subseteq Badge
  PROVE  IInv'
  <1>1. st \in [Thr -> State] /\ SchedTypeOK
    BY DEF IInv, TypeOK, SchedTypeOK
  <1>2. /\ st' \in [Thr -> State] /\ passed' \subseteq Thr
        /\ \A t \in Thr : st'[t] = "BLOCKED" => st[t] = "BLOCKED"
    BY <1>1, WakeUpEffect DEF NoWake, IInv, TypeOK
  <1>3. SchedTypeOK'
    BY <1>1, <1>2 DEF SchedTypeOK
  <1>4. \A t \in Thr : st'[t] = "BLOCKED" /\ pc[t] = "resume" => cur' # t
    BY <1>2 DEF IInv, Sleepers
  <1> QED BY <1>2, <1>3, <1>4, StatesOnly

\* notify_pulse, the kick and notify_mark_dead.
LEMMA WakersIInv ==
  ASSUME IInv, (\E b \in Badge : Pulse(b)) \/ Kick \/ MarkDead
  PROVE  IInv'
  <1>0. live \in BOOLEAN /\ pending \subseteq Badge /\ WakeMax \in Nat /\ WakeMax * Rounds \in Nat
    BY NotifyAssumption DEF IInv, TypeOK
  <1>1. ASSUME NEW b \in Badge, Pulse(b) PROVE IInv'
    BY <1>0, <1>1, WakeIInv DEF Pulse
  <1>2. CASE Kick
    BY <1>0, <1>2, WakeIInv DEF Kick
  <1>3. CASE MarkDead
    BY <1>0, <1>3, WakeIInv DEF MarkDead
  <1> QED BY <1>1, <1>2, <1>3

\* notify_wait, thread_block.
LEMMA BlockIInv ==
  ASSUME IInv, NEW t \in Thr, Block(t)
  PROVE  IInv'
  <1> USE DEF IInv
  <1>1. /\ pc' = [u \in Thr |-> IF u = t THEN "sample" ELSE pc[u]]
        /\ st' = [u \in Thr |-> IF u = t THEN "BLOCKED" ELSE st[u]]
        /\ UNCHANGED <<age, boost, robin, cur, peeked, live, pending, waiters, hint, seen, reg, got, kills>>
        /\ passed' = passed \ {t}
    BY DEF Block, Goto, TypeOK, SchedTypeOK
  <1>2. pc[t] = "block"
    BY DEF Block, On
  <1>3. TypeOK'
    <2>1. SchedTypeOK'
      BY <1>1 DEF SchedTypeOK, TypeOK, State
    <2> QED BY <2>1, <1>1 DEF TypeOK
  <1>4. Counted'
    BY <1>1 DEF Counted, Registered
  <1>5. Sleepers'
    BY <1>1, <1>2 DEF Sleepers
  <1>6. Handed'
    BY <1>1, <1>2 DEF Handed
  <1> QED BY <1>3, <1>4, <1>5, <1>6

\* notify_wait, the second look at the pending word.
LEMMA SampleIInv ==
  ASSUME IInv, NEW t \in Thr, Sample(t)
  PROVE  IInv'
  <1> USE DEF IInv
  <1>1. /\ pc' = [u \in Thr |-> IF u = t THEN "park" ELSE pc[u]]
        /\ UNCHANGED <<age, boost, robin, cur, peeked, live, pending, waiters, hint, seen, reg, got, kills>>
    BY DEF Sample, Goto, TypeOK
  <1>2. pc[t] = "sample"
    BY DEF Sample, On
  <1>3. /\ st' \in [Thr -> State] /\ passed' \subseteq Thr
        /\ \A u \in Thr : st'[u] = "BLOCKED" => st[u] = "BLOCKED"
    <2>1. (WakeUp(WakeMax) \/ NoWake) /\ WakeMax \in Nat /\ st \in [Thr -> State] /\ passed \subseteq Thr
      BY NotifyAssumption DEF Sample, TypeOK, SchedTypeOK
    <2> QED BY <2>1, WakeUpEffect DEF NoWake
  <1>4. TypeOK'
    <2>1. SchedTypeOK'
      BY <1>1, <1>3 DEF SchedTypeOK, TypeOK
    <2> QED BY <2>1, <1>1, <1>3 DEF TypeOK
  <1>5. Counted'
    BY <1>1 DEF Counted, Registered
  <1>6. Sleepers'
    BY <1>1, <1>2, <1>3 DEF Sleepers
  <1>7. Handed'
    BY <1>1, <1>2 DEF Handed
  <1> QED BY <1>4, <1>5, <1>6, <1>7

\* The thread on the CPU calls schedule(), asleep or not.
LEMMA SwitchIInv ==
  ASSUME IInv, NEW t \in Thr, Switch(st), cur = t,
         \/ pc[t] = "park" /\ pc' = [pc EXCEPT ![t] = "resume"] /\ got' = got
         \/ pc[t] = "yield" /\ pc' = [pc EXCEPT ![t] = "load"] /\ got' = [got EXCEPT ![t] = {}],
         UNCHANGED <<live, pending, waiters, hint, seen, reg, kills, passed>>
  PROVE  IInv'
  <1> USE DEF IInv
  <1>1. SchedTypeOK /\ st \in [Thr -> State] /\ Schedule(st) /\ peeked' \in BOOLEAN
    BY DEF TypeOK, SchedTypeOK, Switch
  <1>2. /\ SchedTypeOK'
        /\ \A u \in Thr : st'[u] = "BLOCKED" <=> st[u] = "BLOCKED"
        /\ \A u \in Thr : st'[u] = "BLOCKED" => cur' # u
    BY <1>1, ScheduleEffect
  <1>3. /\ pc' \in [Thr -> {"load", "claim", "register", "block", "sample", "park", "resume", "yield"}]
        /\ got' \in [Thr -> SUBSET Badge]
        /\ \A u \in Thr \ {t} : pc'[u] = pc[u] /\ got'[u] = got[u]
        /\ \/ pc[t] = "park" /\ pc'[t] = "resume" /\ got'[t] = got[t]
           \/ pc[t] = "yield" /\ pc'[t] = "load" /\ got'[t] = {}
    BY DEF TypeOK
  <1>4. TypeOK'
    BY <1>2, <1>3 DEF TypeOK
  <1>5. Counted'
    BY DEF Counted, Registered
  <1>6. Sleepers'
    BY <1>2, <1>3 DEF Sleepers
  <1>7. Handed'
    BY <1>3 DEF Handed
  <1> QED BY <1>4, <1>5, <1>6, <1>7

\* thread_exit_process: a registration outlives its thread.
LEMMA KillIInv ==
  ASSUME IInv, NEW t \in Thr, Kill(t)
  PROVE  IInv'
  <1> USE DEF IInv
  <1>1. /\ pc' = [u \in Thr |-> IF u = t THEN "load" ELSE pc[u]]
        /\ got' = [u \in Thr |-> IF u = t THEN {} ELSE got[u]]
        /\ seen' = [u \in Thr |-> IF u = t THEN {} ELSE seen[u]]
        /\ reg' = [u \in Thr |-> IF u = t THEN FALSE ELSE reg[u]]
        /\ st' = [u \in Thr |-> IF u = t THEN "EXITED" ELSE st[u]]
    BY DEF Kill, Killed, Goto, TypeOK, SchedTypeOK
  <1>2. Counted'
    <2>1. Cardinality(Registered') = IF reg[t] THEN Cardinality(Registered) - 1
                                     ELSE Cardinality(Registered)
      BY Unregister DEF Kill
    <2>2. waiters \in Int /\ waiters' = waiters /\ kills' = kills + 1 /\ kills < MaxKill
      BY NotifyAssumption, SchedAssumption DEF TypeOK, Kill
    <2> QED BY <2>1, <2>2, RegisteredType, NotifyAssumption DEF Counted
  <1>3. TypeOK'
    <2>1. SchedTypeOK'
      BY <1>1 DEF Kill, SchedTypeOK, TypeOK, State
    <2> QED BY <2>1, <1>1 DEF TypeOK, Kill
  <1>4. Sleepers'
    BY <1>1 DEF Sleepers, Kill
  <1>5. Handed'
    BY <1>1 DEF Handed
  <1> QED BY <1>2, <1>3, <1>4, <1>5

\* thread_create on the entry of a killed thread.
LEMMA ReuseIInv ==
  ASSUME IInv, NEW t \in Thr, Reuse(t)
  PROVE  IInv'
  <1>1. /\ st' = [u \in Thr |-> IF u = t THEN "RUNNABLE" ELSE st[u]]
        /\ UNCHANGED notifyVars /\ cur' = cur
    BY DEF Reuse, Create, IInv, TypeOK, SchedTypeOK
  <1>2. SchedTypeOK'
    BY <1>1 DEF Reuse, Create, SchedTypeOK, IInv, TypeOK, State, MaxRank
  <1>3. \A u \in Thr : st'[u] = "BLOCKED" => st[u] = "BLOCKED"
    BY <1>1
  <1>4. \A u \in Thr : st'[u] = "BLOCKED" /\ pc[u] = "resume" => cur' # u
    BY <1>1, <1>3 DEF IInv, Sleepers
  <1>5. UNCHANGED <<waiters, hint, pc, seen, reg, got, kills>> /\ live' \in BOOLEAN /\ pending' \subseteq Badge
        /\ passed' \subseteq Thr
    BY <1>1 DEF notifyVars, IInv, TypeOK
  <1> QED BY <1>2, <1>3, <1>4, <1>5, StatesOnly

\* A pass of the idle loop.
LEMMA IdleIInv ==
  ASSUME IInv, IdlePass, UNCHANGED notifyVars
  PROVE  IInv'
  <1>1. /\ SchedTypeOK'
        /\ \A t \in Thr : st'[t] = "BLOCKED" <=> st[t] = "BLOCKED"
        /\ \A t \in Thr : st'[t] = "BLOCKED" => cur' # t
    BY IdleEffect DEF IInv, TypeOK
  <1>2. UNCHANGED <<waiters, hint, pc, seen, reg, got, kills>> /\ live' \in BOOLEAN /\ pending' \subseteq Badge
        /\ passed' \subseteq Thr
    BY DEF notifyVars, IInv, TypeOK
  <1> QED BY <1>1, <1>2, StatesOnly

\* Every step keeps the invariant.
LEMMA NextIInv ==
  ASSUME IInv, [Next]_vars
  PROVE  IInv'
  <1>1. ASSUME NEW t \in Thr, Load(t) \/ Claim(t) \/ Register(t) \/ Block(t) \/ Sample(t) \/ Resume(t)
        PROVE  IInv'
    BY <1>1, LoadIInv, ClaimIInv, RegisterIInv, BlockIInv, SampleIInv, ResumeIInv
  <1>2. ASSUME NEW t \in Thr, Park(t) PROVE IInv'
    BY <1>2, SwitchIInv DEF Park, On, Goto
  <1>3. ASSUME NEW t \in Thr, Yield(t) PROVE IInv'
    BY <1>3, SwitchIInv DEF Yield, On, Goto
  <1>4. CASE Run
    BY <1>1, <1>2, <1>3, <1>4, IdleIInv DEF Run
  <1>5. CASE (\E b \in Badge : Pulse(b)) \/ Kick \/ MarkDead
    BY <1>5, WakersIInv
  <1>6. CASE \E t \in Thr : Kill(t) \/ Reuse(t)
    BY <1>6, KillIInv, ReuseIInv
  <1>7. CASE UNCHANGED vars
    BY <1>7 DEF IInv, TypeOK, SchedTypeOK, Counted, Registered, Sleepers, Handed, vars, schedVars, notifyVars
  <1> QED BY <1>4, <1>5, <1>6, <1>7 DEF Next

\* The inductive invariant of the object and the scheduler.
LEMMA Invariance == Spec => []IInv
  BY InitIInv, NextIInv, PTL DEF Spec

\* Types of the scheduler and of the notification object, and the bounds of the
\* count of waiters, in every reachable state.
THEOREM TypeCorrect == Spec => []TypeOK
  <1>1. IInv => TypeOK
    BY DEF IInv
  <1> QED BY <1>1, Invariance, PTL

\* notify_wait's count covers every registered waiter whoever is killed, so
\* notify_has_waiter never hides one from a pulse.
THEOREM WaitersCorrect == Spec => []WaitersCounted
  <1>1. IInv => WaitersCounted
    BY DEF IInv, Counted, Registered, WaitersCounted
  <1> QED BY <1>1, Invariance, PTL

----------------------------------------------------------------------------
(* No badge is lost *)

\* While somebody sleeps, notify_has_waiter says so.
LEMMA SleeperSeen ==
  ASSUME IInv, NEW t \in Thr, st[t] = "BLOCKED"
  PROVE  HasWaiter
  <1>1. t \in Registered
    BY DEF IInv, Sleepers, Registered
  <1>2. Cardinality(Registered) >= 1
    BY <1>1, RegisteredType, FS_EmptySet DEF IInv
  <1> QED BY <1>2, RegisteredType, NotifyAssumption, SchedAssumption DEF IInv, Counted, HasWaiter, TypeOK

\* A pulse, a kick or a death wakes everyone it does not pass over.
LEMMA WakersSampled ==
  ASSUME IInv, Sampled, (\E b \in Badge : Pulse(b)) \/ Kick \/ MarkDead
  PROVE  Sampled'
  <1>0. st \in [Thr -> State] /\ WakeMax \in Nat /\ WakeMax * Rounds \in Nat
    BY NotifyAssumption DEF IInv, TypeOK, SchedTypeOK
  <1>1. CASE HasWaiter
    <2>1. WakeUp(WakeMax) \/ WakeUp(WakeMax * Rounds)
      BY <1>1 DEF Pulse, Kick, MarkDead
    <2>2. \A t \in Thr : st'[t] = "BLOCKED" => t \in passed'
      BY <1>0, <2>1, WakeUpEffect
    <2> QED BY <2>2 DEF Sampled
  <1>2. CASE ~HasWaiter
    <2>1. \A t \in Thr : st[t] # "BLOCKED"
      BY <1>2, SleeperSeen
    <2>2. st' = st
      BY <1>2 DEF Pulse, Kick, MarkDead, NoWake
    <2> QED BY <2>1, <2>2 DEF Sampled
  <1> QED BY <1>1, <1>2

\* A step of the running thread leaves nobody parked beside a badge.
LEMMA RunSampled ==
  ASSUME IInv, Sampled, NEW t \in Thr,
         \/ Load(t) \/ Claim(t) \/ Register(t) \/ Block(t) \/ Sample(t)
         \/ Park(t) \/ Resume(t) \/ Yield(t)
  PROVE  Sampled'
  <1>0. st \in [Thr -> State] /\ SchedTypeOK /\ WakeMax \in Nat
        /\ pc \in [Thr -> {"load", "claim", "register", "block", "sample", "park", "resume", "yield"}]
    BY NotifyAssumption DEF IInv, TypeOK, SchedTypeOK
  <1>1. CASE Load(t) \/ Register(t) \/ Resume(t)
    <2>1. /\ UNCHANGED <<st, live, pending, passed>>
          /\ \A u \in Thr : pc'[u] \in {"park", "resume"} => pc'[u] = pc[u]
      BY <1>0, <1>1 DEF Load, Register, Resume, Leave, Goto, schedVars
    <2> QED BY <2>1 DEF Sampled
  <1>2. CASE Claim(t)
    <2>1. /\ UNCHANGED <<st, live, passed>> /\ pending' \subseteq pending
          /\ \A u \in Thr : pc'[u] \in {"park", "resume"} => pc'[u] = pc[u]
      BY <1>0, <1>2 DEF Claim, Leave, Goto, schedVars
    <2> QED BY <2>1 DEF Sampled
  <1>3. CASE Block(t)
    <2>1. /\ UNCHANGED <<live, pending>>
          /\ \A u \in Thr : pc'[u] \in {"park", "resume"} =>
               pc'[u] = pc[u] /\ st'[u] = st[u] /\ (u \in passed' <=> u \in passed)
      BY <1>0, <1>3 DEF Block, Goto
    <2> QED BY <2>1 DEF Sampled
  <1>4. CASE Sample(t)
    <2>1. CASE pending \cap Mask[t] # {} \/ ~live
      <3>0. WakeUp(WakeMax)
        BY <1>4, <2>1 DEF Sample
      <3>1. \A u \in Thr : st'[u] = "BLOCKED" => u \in passed'
        BY <1>0, <3>0, WakeUpEffect
      <3> QED BY <3>1 DEF Sampled
    <2>2. CASE ~(pending \cap Mask[t] # {} \/ ~live)
      <3>1. UNCHANGED <<st, live, pending, passed>> /\ \A u \in Thr \ {t} : pc'[u] = pc[u]
        BY <1>0, <1>4, <2>2 DEF Sample, Goto, NoWake
      <3> QED BY <3>1, <2>2 DEF Sampled
    <2> QED BY <2>1, <2>2
  <1>5. CASE Park(t) \/ Yield(t)
    <2>1. Schedule(st) /\ peeked' \in BOOLEAN
      BY <1>0, <1>5 DEF Park, Yield, Switch, SchedTypeOK
    <2>2. \A u \in Thr : st'[u] = "BLOCKED" <=> st[u] = "BLOCKED"
      BY <1>0, <2>1, ScheduleEffect
    <2>3. /\ UNCHANGED <<live, pending, passed>>
          /\ \A u \in Thr : pc'[u] \in {"park", "resume"} => pc[u] \in {"park", "resume"}
      BY <1>0, <1>5 DEF Park, Yield, Goto, On
    <2> QED BY <2>2, <2>3 DEF Sampled
  <1> QED BY <1>1, <1>2, <1>3, <1>4, <1>5

\* Neither does any other step.
LEMMA NextSampled ==
  ASSUME IInv, Sampled, [Next]_vars
  PROVE  Sampled'
  <1>1. CASE \E t \in Thr : \/ Load(t) \/ Claim(t) \/ Register(t) \/ Block(t) \/ Sample(t)
                            \/ Park(t) \/ Resume(t) \/ Yield(t)
    BY <1>1, RunSampled
  <1>2. CASE IdlePass /\ UNCHANGED notifyVars
    <2>1. \A t \in Thr : st'[t] = "BLOCKED" <=> st[t] = "BLOCKED"
      BY <1>2, IdleEffect DEF IInv, TypeOK
    <2> QED BY <1>2, <2>1 DEF Sampled, notifyVars
  <1>3. CASE (\E b \in Badge : Pulse(b)) \/ Kick \/ MarkDead
    BY <1>3, WakersSampled
  <1>4. ASSUME NEW t \in Thr, Kill(t) \/ Reuse(t) PROVE Sampled'
    <2>1. /\ UNCHANGED <<live, pending, passed>>
          /\ \A u \in Thr : pc'[u] \in {"park", "resume"} /\ st'[u] = "BLOCKED" =>
               pc'[u] = pc[u] /\ st[u] = "BLOCKED"
      BY <1>4 DEF Kill, Killed, Reuse, Create, Goto, notifyVars, IInv, TypeOK, SchedTypeOK
    <2> QED BY <2>1 DEF Sampled
  <1>5. CASE UNCHANGED vars
    BY <1>5 DEF Sampled, vars, schedVars, notifyVars
  <1> QED BY <1>1, <1>2, <1>3, <1>4, <1>5 DEF Next, Run

\* Whatever the number of threads and the budget of a wake, notify_wait sleeps over a
\* badge of its mask or a death only if the last wake was spent on WakeMax others,
\* wherever the pulse comes in.
THEOREM NoLostBadgeCorrect == Spec => []NoLostBadge
  <1>1. Init => Sampled
    BY DEF Init, SchedInit, Sampled
  <1>2. IInv /\ Sampled /\ [Next]_vars => Sampled'
    BY NextSampled
  <1>3. Sampled => NoLostBadge
    BY DEF Sampled, NoLostBadge
  <1> QED BY <1>1, <1>2, <1>3, Invariance, PTL DEF Spec

----------------------------------------------------------------------------
(* Every badge is delivered once *)

\* notify_wait clears a badge exactly when it returns it: no pulse is dropped by
\* the compare-and-swap and none is handed to two threads.
THEOREM DeliveredCorrect == Spec => DeliveredOnce
  <1> DEFINE New(b) == {t \in Thr : b \in got'[t] \ got[t]}
             D == \A b \in Badge : Cardinality(New(b)) = IF b \in pending \ pending' THEN 1 ELSE 0
  <1>1. ASSUME IInv, [Next]_vars PROVE D
    <2>1. ASSUME NEW t \in Thr, Claim(t), pending = seen[t] PROVE D
      <3>1. /\ pending' = pending \ Mask[t]
            /\ got' = [u \in Thr |-> IF u = t THEN pending \cap Mask[t] ELSE got[u]]
            /\ got[t] = {}
        BY <1>1, <2>1 DEF Claim, Leave, On, IInv, TypeOK, Handed
      <3>2. ASSUME NEW b \in Badge PROVE New(b) = IF b \in pending \ pending' THEN {t} ELSE {}
        BY <3>1
      <3> QED BY <3>2, FS_EmptySet, FS_Singleton
    <2>2. ASSUME pending \subseteq pending', \A t \in Thr : got'[t] \subseteq got[t] PROVE D
      <3>1. \A b \in Badge : New(b) = {} /\ b \notin pending \ pending'
        BY <2>2
      <3> QED BY <3>1, FS_EmptySet
    <2>3. ASSUME NEW t \in Thr,
                 \/ Load(t) \/ (Claim(t) /\ pending # seen[t]) \/ Register(t) \/ Block(t) \/ Sample(t)
                 \/ Park(t) \/ Resume(t) \/ Yield(t) \/ Kill(t) \/ Reuse(t)
          PROVE  D
      <3>1. pending' = pending /\ \A u \in Thr : got'[u] \subseteq got[u]
        BY <1>1, <2>3 DEF Load, Claim, Register, Block, Sample, Park, Resume, Yield, Kill, Reuse,
           Leave, IInv, TypeOK, notifyVars
      <3> QED BY <3>1, <2>2
    <2>4. CASE IdlePass /\ UNCHANGED notifyVars
      BY <2>2, <2>4 DEF notifyVars
    <2>5. CASE (\E b \in Badge : Pulse(b)) \/ Kick \/ MarkDead
      BY <2>2, <2>5 DEF Pulse, Kick, MarkDead
    <2>6. CASE UNCHANGED vars
      BY <2>2, <2>6 DEF vars, notifyVars
    <2> QED BY <1>1, <2>1, <2>3, <2>4, <2>5, <2>6 DEF Next, Run
  <1>2. ASSUME IInv, [Next]_vars PROVE [D]_vars
    BY <1>1, <1>2
  <1> QED BY <1>2, Invariance, PTL DEF Spec, DeliveredOnce
============================================================================
