---------------------------- MODULE FutexProofs ----------------------------
(***************************************************************************)
(* Proofs about the futex table, for every number of threads, slots, words *)
(* and processes.  TypeOK and SleeperQueued are inductive together: a slot *)
(* is only claimed while nobody uses it, only its sleeper frees it, and a  *)
(* cancel reaches only slots of a thread that is running, which sleeps     *)
(* nowhere.                                                                *)
(***************************************************************************)
EXTENDS Futex, FiniteSetTheorems, TLAPS

IInv == TypeOK /\ SleeperQueued

\* What a step leaves of the slot and thread tables.
TablesOK ==
  /\ slot \in [Slots -> SlotRec]
  /\ thr \in [Thr -> [st : {"READY", "BLOCKED", "EXITED"}, at : 0 .. NSlots]]
  /\ SleeperQueued

\* The slots in M leave the queue with some verdict; the others do not change.
Unqueued(M) ==
  /\ slot' \in [Slots -> SlotRec]
  /\ \A i \in Slots \ M : slot'[i] = slot[i]
  /\ \A i \in M : slot'[i].used /\ ~slot'[i].waiting /\ slot'[i].thr = slot[i].thr

----------------------------------------------------------------------------
(* Values *)

\* An unused slot is a slot record.
LEMMA FreeSlotType == FreeSlot \in SlotRec
  BY FutexAssumption DEF FreeSlot, SlotRec, Key, Proc

\* The tid of the thread on a control block.
LEMMA TidType ==
  ASSUME TypeOK, NEW t \in Thr
  PROVE  TidOf(t) \in Tid
  BY DEF TypeOK, TidOf, Tid

\* There are finitely many tids.
LEMMA FiniteTid == IsFiniteSet(Tid)
  <1>1. IsFiniteSet(1 .. NThr) /\ IsFiniteSet(1 .. MaxLife)
    BY FS_Interval, FutexAssumption
  <1> QED BY <1>1, FS_Product DEF Tid, Thr

\* futex_key_from_uaddr: a private key names the process, a shared one does not.
LEMMA KeyType ==
  ASSUME NEW t \in Thr, NEW w \in Word, NEW private \in BOOLEAN
  PROVE  KeyOf(t, w, private) \in Key
  BY DEF KeyOf, Key, Proc

\* A wake chooses among used slots that still wait.
LEMMA ChosenWaiting ==
  ASSUME NEW s, NEW k, NEW n, NEW b
  PROVE  /\ Chosen(s, k, n, b) \subseteq Slots
         /\ \A i \in Chosen(s, k, n, b) : s[i].used /\ s[i].waiting
  BY DEF Chosen, Matching

\* A record taken off the queue, with or without a time-out, is a slot record.
LEMMA OffRecord ==
  ASSUME NEW r \in SlotRec
  PROVE  /\ [r EXCEPT !.waiting = FALSE] \in SlotRec
         /\ [r EXCEPT !.waiting = FALSE].used = r.used /\ [r EXCEPT !.waiting = FALSE].thr = r.thr
         /\ [r EXCEPT !.waiting = FALSE].waiting = FALSE
         /\ [r EXCEPT !.waiting = FALSE, !.timedOut = TRUE] \in SlotRec
         /\ [r EXCEPT !.waiting = FALSE, !.timedOut = TRUE].used = r.used
         /\ [r EXCEPT !.waiting = FALSE, !.timedOut = TRUE].thr = r.thr
         /\ [r EXCEPT !.waiting = FALSE, !.timedOut = TRUE].waiting = FALSE
  BY DEF SlotRec

\* u is the table s with the slots of M taken off the queue and the others as they were.
TakenFrom(s, u, M) ==
  /\ u \in [Slots -> SlotRec]
  /\ \A i \in Slots : /\ u[i].used = s[i].used /\ u[i].thr = s[i].thr
                      /\ i \in M => u[i].waiting = FALSE
                      /\ i \notin M => u[i] = s[i]

\* What a wake does to the slots it takes and to the others.
LEMMA TakenSlots ==
  ASSUME NEW s \in [Slots -> SlotRec], NEW M
  PROVE  TakenFrom(s, Taken(s, M), M)
  <1>1. ASSUME NEW i \in Slots
        PROVE  /\ Taken(s, M)[i] \in SlotRec
               /\ Taken(s, M)[i].used = s[i].used /\ Taken(s, M)[i].thr = s[i].thr
               /\ i \in M => Taken(s, M)[i].waiting = FALSE
               /\ i \notin M => Taken(s, M)[i] = s[i]
    BY OffRecord DEF Taken
  <1>2. Taken(s, M) = [i \in Slots |-> Taken(s, M)[i]]
    BY DEF Taken
  <1>3. Taken(s, M) \in [Slots -> SlotRec]
    BY <1>1, <1>2
  <1> QED
    BY <1>1, <1>3 DEF TakenFrom

\* Waking the threads of the slots that left the queue keeps every sleeper queued.
LEMMA WakeKeeps ==
  ASSUME IInv, NEW M \in SUBSET Slots, \A i \in M : slot[i].used /\ slot[i].waiting,
         Unqueued(M), thr' = Readied(M)
  PROVE  TablesOK'
  <1> USE DEF IInv, TypeOK, TablesOK, SleeperQueued, Unqueued, Readied
  <1>1. \A t \in Thr : thr'[t].at = thr[t].at
    OBVIOUS
  <1>2. thr' \in [Thr -> [st : {"READY", "BLOCKED", "EXITED"}, at : 0 .. NSlots]]
    OBVIOUS
  <1>3. SleeperQueued'
    <2> SUFFICES ASSUME NEW t \in Thr, thr'[t].at # 0
                 PROVE  /\ slot'[thr'[t].at].used /\ slot'[thr'[t].at].thr = t
                        /\ slot'[thr'[t].at].waiting <=> thr'[t].st = "BLOCKED"
      OBVIOUS
    <2>1. thr[t].at \in Slots
      BY <1>1, FutexAssumption DEF Slots
    <2>2. /\ slot[thr[t].at].used /\ slot[thr[t].at].thr = t
          /\ slot[thr[t].at].waiting <=> thr[t].st = "BLOCKED"
      BY <1>1
    <2>3. CASE thr[t].at \in M
      BY <1>1, <2>1, <2>2, <2>3
    <2>4. CASE thr[t].at \notin M
      BY <1>1, <2>1, <2>2, <2>4
    <2> QED BY <2>3, <2>4
  <1> QED BY <1>2, <1>3

\* Slots that a wake takes leave the queue.
LEMMA TakenUnqueues ==
  ASSUME IInv, NEW M \in SUBSET Slots, \A i \in M : slot[i].used /\ slot[i].waiting,
         slot' = Taken(slot, M)
  PROVE  Unqueued(M)
  <1>1. TakenFrom(slot, slot', M)
    BY TakenSlots DEF IInv, TypeOK
  <1> QED
    BY <1>1 DEF Unqueued, TakenFrom

\* Taking slots and readying their threads keeps the two tables in step.
LEMMA TakenKeeps ==
  ASSUME IInv, NEW M \in SUBSET Slots, \A i \in M : slot[i].used /\ slot[i].waiting,
         slot' = Taken(slot, M), thr' = Readied(M)
  PROVE  TablesOK'
  BY TakenUnqueues, WakeKeeps

----------------------------------------------------------------------------
(* One lemma per operation *)

\* At boot no slot is used and no thread waits.
LEMMA InitInv == Init => IInv
  <1> SUFFICES ASSUME Init PROVE IInv
    OBVIOUS
  <1>1. Zero \in Value
    BY DEF Zero, Value
  <1>2. Cardinality(reg) <= NRobust
    BY FS_EmptySet, FutexAssumption DEF Init
  <1> QED BY <1>1, <1>2, FreeSlotType, FutexAssumption
          DEF Init, IInv, TypeOK, SleeperQueued, Ready

\* futex_wait: the claimed slot names the thread that blocks on it.
LEMMA SleepKeeps ==
  ASSUME IInv, NEW t \in Thr, NEW w \in Word, NEW private \in BOOLEAN,
         NEW b \in SUBSET Bits, NEW timed \in BOOLEAN, Wait(t, w, private, b, timed)
  PROVE  IInv'
  <1> DEFINE k == KeyOf(t, w, private)
  <1>0. k \in Key
    BY KeyType
  <1>1. PICK i \in Slots :
          /\ FirstUnused(i)
          /\ slot' = [slot EXCEPT ![i] = Claim(t, k, b, timed)]
          /\ thr' = [thr EXCEPT ![t] = [st |-> "BLOCKED", at |-> i]]
    BY DEF Wait, Sleep
  <1>2. Claim(t, k, b, timed) \in SlotRec
    BY <1>0 DEF Claim, SlotRec, Thr
  <1>3. Claim(t, k, b, timed).used /\ Claim(t, k, b, timed).waiting
        /\ Claim(t, k, b, timed).thr = t
    BY DEF Claim
  <1> HIDE DEF k
  <1>4. \A u \in Thr : thr[u].at # i
    BY <1>1, FutexAssumption DEF FirstUnused, IInv, SleeperQueued, Slots
  <1>5. TypeOK'
    BY <1>1, <1>2 DEF IInv, TypeOK, Wait, Slots
  <1>6. SleeperQueued'
    <2> SUFFICES ASSUME NEW u \in Thr, thr'[u].at # 0
                 PROVE  /\ slot'[thr'[u].at].used /\ slot'[thr'[u].at].thr = u
                        /\ slot'[thr'[u].at].waiting <=> thr'[u].st = "BLOCKED"
      BY DEF SleeperQueued
    <2>1. CASE u = t
      BY <1>1, <1>3, <2>1 DEF IInv, TypeOK
    <2>2. CASE u # t
      <3>1. thr'[u] = thr[u] /\ thr[u].at \in Slots /\ thr[u].at # i
        BY <1>1, <1>4, <2>2, FutexAssumption DEF IInv, TypeOK, Slots
      <3>2. slot'[thr[u].at] = slot[thr[u].at]
        BY <1>1, <3>1 DEF IInv, TypeOK
      <3> QED BY <3>1, <3>2 DEF IInv, SleeperQueued
    <2> QED BY <2>1, <2>2
  <1> QED BY <1>5, <1>6 DEF IInv

\* The slot a thread frees on its return is nobody else's.
LEMMA ReturnKeeps ==
  ASSUME IInv, NEW t \in Thr, Return(t)
  PROVE  IInv'
  <1> DEFINE i == thr[t].at
  <1>1. i \in Slots /\ slot[i].thr = t
    BY FutexAssumption DEF Return, Resume, IInv, TypeOK, SleeperQueued, Slots
  <1>2. slot' = [slot EXCEPT ![i] = FreeSlot] /\ thr' = [thr EXCEPT ![t] = Ready]
    BY DEF Return, Resume
  <1> HIDE DEF i
  <1>3. TypeOK'
    <2>1. Ready \in [st : {"READY", "BLOCKED", "EXITED"}, at : 0 .. NSlots]
      BY FutexAssumption DEF Ready
    <2> QED BY <1>1, <1>2, <2>1, FreeSlotType DEF IInv, TypeOK, Return
  <1>4. SleeperQueued'
    <2> SUFFICES ASSUME NEW u \in Thr, thr'[u].at # 0
                 PROVE  /\ slot'[thr'[u].at].used /\ slot'[thr'[u].at].thr = u
                        /\ slot'[thr'[u].at].waiting <=> thr'[u].st = "BLOCKED"
      BY DEF SleeperQueued
    <2>1. u # t /\ thr'[u] = thr[u]
      BY <1>2 DEF IInv, TypeOK, Ready
    <2>2. thr[u].at # i /\ thr[u].at \in Slots
      BY <1>1, <2>1, FutexAssumption DEF IInv, TypeOK, SleeperQueued, Slots
    <2>3. slot'[thr[u].at] = slot[thr[u].at]
      BY <1>2, <2>2 DEF IInv, TypeOK
    <2> QED BY <2>1, <2>3 DEF IInv, SleeperQueued
  <1> QED BY <1>3, <1>4 DEF IInv

\* futex_wake, and the wakes that the other operations make.
LEMMA WakesKeep ==
  ASSUME IInv, NEW M \in SUBSET Slots, \A i \in M : slot[i].used /\ slot[i].waiting,
         slot' = Taken(slot, M), thr' = Readied(M), UNCHANGED <<mem, life, list, reg, ctid>>
  PROVE  IInv'
  BY TakenKeeps DEF IInv, TypeOK, TablesOK

\* futex_timer_check: any set of slots that are due times out.
LEMMA TimerKeeps ==
  ASSUME IInv, Timer
  PROVE  IInv'
  <1>1. PICK M \in SUBSET Expirable : Expire(M)
    BY DEF Timer
  <1>2. M \in SUBSET Slots /\ \A i \in M : slot[i].used /\ slot[i].waiting
    BY DEF Expirable
  <1>3. Unqueued(M)
    <2>1. slot \in [Slots -> SlotRec]
      BY DEF IInv, TypeOK
    <2>2. slot' = [i \in Slots |-> IF i \in M THEN [slot[i] EXCEPT !.waiting = FALSE, !.timedOut = TRUE]
                                             ELSE slot[i]]
      BY <1>1 DEF Expire
    <2>3. \A i \in Slots : /\ slot'[i] \in SlotRec
                           /\ i \notin M => slot'[i] = slot[i]
                           /\ i \in M => /\ slot'[i].used = slot[i].used /\ slot'[i].thr = slot[i].thr
                                         /\ slot'[i].waiting = FALSE
      BY <2>1, <2>2, OffRecord
    <2> QED
      BY <1>2, <2>2, <2>3 DEF Unqueued
  <1>4. TablesOK'
    BY <1>1, <1>2, <1>3, WakeKeeps DEF Expire
  <1> QED BY <1>4 DEF Timer, IInv, TypeOK, TablesOK

\* Threads that end, or begin, hold no slot.
LEMMA EndedKeeps ==
  ASSUME IInv, NEW p, Die(p)
  PROVE  IInv'
  <1>1. \A u \in Thr : thr'[u] = Exited \/ thr'[u] = thr[u]
    BY DEF Die, Ended
  <1>2. TypeOK'
    BY FutexAssumption DEF IInv, TypeOK, Die, Ended, Exited
  <1>3. SleeperQueued'
    BY <1>1 DEF IInv, SleeperQueued, Die, Exited
  <1> QED BY <1>2, <1>3 DEF IInv

\* thread_create: the new thread on a control block waits on nothing.
LEMMA CreateKeeps ==
  ASSUME IInv, NEW t \in Thr, Create(t)
  PROVE  IInv'
  <1>1. \A u \in Thr : thr'[u] = Ready \/ thr'[u] = thr[u]
    BY DEF Create, IInv, TypeOK
  <1>2. TypeOK'
    BY FutexAssumption DEF IInv, TypeOK, Create, Ready
  <1>3. SleeperQueued'
    BY <1>1 DEF IInv, SleeperQueued, Create, Ready
  <1> QED BY <1>2, <1>3 DEF IInv

\* set_robust_list: the table of registrations never overflows.
LEMMA SetRobustKeeps ==
  ASSUME IInv, NEW t \in Thr, NEW S \in SUBSET Word, SetRobust(t, S)
  PROVE  IInv'
  <1>1. Cardinality(reg') <= NRobust /\ reg' \in SUBSET Tid
    <2>1. IsFiniteSet(Tid)
      BY FiniteTid
    <2>2. IsFiniteSet(reg)
      BY <2>1, FS_Subset DEF IInv, TypeOK
    <2>3. TidOf(t) \in Tid
      BY TidType DEF IInv
    <2>4. CASE TidOf(t) \in reg
      BY <2>4 DEF SetRobust, IInv, TypeOK
    <2>5. CASE TidOf(t) \notin reg
      <3>1. Cardinality(reg) < NRobust /\ reg' = reg \cup {TidOf(t)}
        BY <2>5 DEF SetRobust
      <3>2. Cardinality(reg') = Cardinality(reg) + 1
        BY <2>2, <2>5, <3>1, FS_AddElement
      <3>3. Cardinality(reg) \in Nat
        BY <2>2, FS_CardinalityType
      <3> QED BY <2>3, <3>1, <3>2, <3>3, FutexAssumption DEF IInv, TypeOK
    <2> QED BY <2>4, <2>5
  <1>2. TypeOK'
    BY <1>1 DEF IInv, TypeOK, SetRobust
  <1>3. SleeperQueued'
    BY DEF IInv, SleeperQueued, SetRobust
  <1> QED BY <1>2, <1>3 DEF IInv

\* The exit call: its wakes, then its cancel, which frees only slots of the
\* exiting thread, then a wake at clear_child_tid, then the end of the process.
LEMMA ExitKeeps ==
  ASSUME IInv, NEW t \in Thr, Exit(t)
  PROVE  IInv'
  <1> DEFINE p == ProcOf[t]
             M1 == UNION {Chosen(slot, <<p, w>>, 1, Bits) : w \in Marked(t)}
             s1 == Taken(slot, M1)
             s2 == Cancelled(s1, t)
             s3 == IF ctid = NoWord THEN s2 ELSE Taken(s2, Chosen(s2, <<p, ctid>>, 1, Bits))
             W == {i \in Slots : slot[i].waiting /\ ~s3[i].waiting}
  <1>1. slot' = s3 /\ thr' = Ended(Readied(W), p) /\ Running(t)
    BY DEF Exit
  <1>2. s1 \in [Slots -> SlotRec] /\ \A i \in Slots :
          /\ s1[i].used = slot[i].used /\ s1[i].thr = slot[i].thr
          /\ s1[i].waiting => slot[i].waiting
    <2> HIDE DEF M1
    <2>1. TakenFrom(slot, s1, M1)
      BY TakenSlots DEF IInv, TypeOK
    <2> HIDE DEF s1
    <2> QED
      BY <2>1 DEF TakenFrom, IInv, TypeOK, SlotRec
  <1> HIDE DEF M1, s1
  <1>3. s2 \in [Slots -> SlotRec] /\ \A i \in Slots :
          slot[i].thr # t => /\ s2[i].used = slot[i].used /\ s2[i].thr = slot[i].thr
                             /\ s2[i].waiting => slot[i].waiting
    BY <1>2, FreeSlotType DEF Cancelled
  <1> HIDE DEF s2
  <1>4. s3 \in [Slots -> SlotRec] /\ \A i \in Slots :
          slot[i].thr # t => /\ s3[i].used = slot[i].used /\ s3[i].thr = slot[i].thr
                             /\ s3[i].waiting => slot[i].waiting
    <2> DEFINE M == Chosen(s2, <<p, ctid>>, 1, Bits)
    <2> HIDE DEF M
    <2>3. TakenFrom(s2, Taken(s2, M), M)
      BY <1>3, TakenSlots
    <2>4. s3 = s2 \/ s3 = Taken(s2, M)
      BY DEF M
    <2> HIDE DEF s3
    <2>5. CASE s3 = s2
      BY <1>3, <2>5
    <2>6. CASE s3 = Taken(s2, M)
      BY <1>3, <2>3, <2>6 DEF TakenFrom
    <2> QED
      BY <2>4, <2>5, <2>6
  <1> HIDE DEF s3
  <1>5. \A u \in Thr : \/ thr'[u] = Exited
                       \/ u # t /\ thr'[u] = Readied(W)[u]
    BY <1>1 DEF Ended
  <1>6. thr' \in [Thr -> [st : {"READY", "BLOCKED", "EXITED"}, at : 0 .. NSlots]]
    BY <1>1, FutexAssumption DEF Ended, Readied, IInv, TypeOK, Exited
  <1>7. TypeOK'
    <2>1. mem' \in [Word -> Value]
      BY DEF Exit, IInv, TypeOK, Value, Zero
    <2>2. Cardinality(reg') <= NRobust /\ reg' \in SUBSET Tid
      <3>1. IsFiniteSet(Tid)
        BY FiniteTid
      <3>2. IsFiniteSet(reg) /\ reg' \subseteq reg
        BY <3>1, FS_Subset DEF IInv, TypeOK, Exit
      <3>3. Cardinality(reg') <= Cardinality(reg) /\ IsFiniteSet(reg')
        BY <3>2, FS_Subset
      <3> QED BY <3>2, <3>3, FS_CardinalityType, FutexAssumption DEF IInv, TypeOK
    <2> QED BY <1>1, <1>4, <1>6, <2>1, <2>2 DEF Exit, IInv, TypeOK
  <1>8. SleeperQueued'
    <2> SUFFICES ASSUME NEW u \in Thr, thr'[u].at # 0
                 PROVE  /\ slot'[thr'[u].at].used /\ slot'[thr'[u].at].thr = u
                        /\ slot'[thr'[u].at].waiting <=> thr'[u].st = "BLOCKED"
      BY DEF SleeperQueued
    <2>1. u # t /\ thr'[u] = Readied(W)[u]
      BY <1>5 DEF Exited
    <2>2. thr'[u].at = thr[u].at /\ thr[u].at \in Slots
      BY <2>1, FutexAssumption DEF Readied, IInv, TypeOK, Slots
    <2>3. /\ slot[thr[u].at].used /\ slot[thr[u].at].thr = u
          /\ slot[thr[u].at].waiting <=> thr[u].st = "BLOCKED"
      BY <2>2 DEF IInv, SleeperQueued
    <2>4. /\ s3[thr[u].at].used /\ s3[thr[u].at].thr = u
          /\ s3[thr[u].at].waiting => slot[thr[u].at].waiting
      BY <1>4, <2>1, <2>2, <2>3
    <2>5. s3[thr[u].at].waiting <=> thr'[u].st = "BLOCKED"
      BY <2>1, <2>2, <2>3, <2>4 DEF Readied, IInv, TypeOK
    <2> QED BY <1>1, <2>2, <2>4, <2>5
  <1> QED BY <1>7, <1>8 DEF IInv

----------------------------------------------------------------------------
(* Theorems *)

\* Every operation keeps the invariant.
LEMMA NextInv == IInv /\ [Next]_futexVars => IInv'
  <1> SUFFICES ASSUME IInv, [Next]_futexVars PROVE IInv'
    OBVIOUS
  <1>1. ASSUME NEW t \in Owners, NEW w \in Word, Store(t, w)
        PROVE  IInv'
    <2>1. TidOf(t) \in Tid
      BY TidType, FutexAssumption DEF IInv
    <2> DEFINE own == [tid |-> TidOf(t), died |-> FALSE]
    <2>2. own \in Value /\ Zero \in Value
      BY <2>1 DEF Zero, Value
    <2>3. PICK v \in {Zero, own} : mem' = [mem EXCEPT ![w] = v]
      BY <1>1 DEF Store
    <2> HIDE DEF own
    <2>4. mem' \in [Word -> Value]
      BY <2>2, <2>3 DEF IInv, TypeOK
    <2> QED BY <1>1, <2>4 DEF Store, IInv, TypeOK, SleeperQueued
  <1>2. ASSUME NEW t \in Owners, NEW w \in Word, SetTidAddress(t, w)
        PROVE  IInv'
    BY <1>2 DEF SetTidAddress, IInv, TypeOK, SleeperQueued
  <1>3. ASSUME NEW t \in Owners, NEW S \in SUBSET Word, SetRobust(t, S)
        PROVE  IInv'
    BY <1>3, SetRobustKeeps, FutexAssumption
  <1>4. ASSUME NEW t \in Thr, NEW w \in Word, NEW private \in BOOLEAN, NEW n \in 1 .. 2,
               NEW b \in SUBSET Bits, Wake(t, w, private, n, b)
        PROVE  IInv'
    <2> DEFINE M == Chosen(slot, KeyOf(t, w, private), n, b)
    <2>1. M \in SUBSET Slots /\ \A i \in M : slot[i].used /\ slot[i].waiting
      BY ChosenWaiting
    <2>2. slot' = Taken(slot, M) /\ thr' = Readied(M) /\ UNCHANGED <<mem, life, list, reg, ctid>>
      BY <1>4 DEF Wake, WakeOn
    <2> HIDE DEF M
    <2> QED BY <2>1, <2>2, WakesKeep
  <1>5. ASSUME NEW t \in Thr, NEW w \in Word, NEW w2 \in Word, NEW private \in BOOLEAN,
               NEW n \in 0 .. 1, NEW m \in 0 .. 1, Requeue(t, w, w2, private, n, m)
        PROVE  IInv'
    <2> DEFINE a == Chosen(slot, KeyOf(t, w, private), n + m, Bits)
               c == IF w2 = w THEN {} ELSE Chosen(slot, KeyOf(t, w2, private), m, Bits)
               M == a \cup c
    <2>1. M \in SUBSET Slots /\ \A i \in M : slot[i].used /\ slot[i].waiting
      BY ChosenWaiting
    <2>2. slot' = Taken(slot, M) /\ thr' = Readied(M) /\ UNCHANGED <<mem, life, list, reg, ctid>>
      BY <1>5 DEF Requeue
    <2> HIDE DEF M
    <2> QED BY <2>1, <2>2, WakesKeep
  <1>6. CASE UNCHANGED futexVars
    BY <1>6 DEF futexVars, IInv, TypeOK, SleeperQueued
  <1> QED BY <1>1, <1>2, <1>3, <1>4, <1>5, <1>6, SleepKeeps, ReturnKeeps, TimerKeeps,
             EndedKeeps, CreateKeeps, ExitKeeps DEF Next

\* Both invariants hold in every reachable state.
LEMMA Invariance == Spec => []IInv
  BY InitInv, NextInv, PTL DEF Spec

\* The types, and the size of the robust table, for every instance.
THEOREM TypeCorrect == Spec => []TypeOK
  <1>1. IInv => TypeOK
    BY DEF IInv
  <1> QED BY <1>1, Invariance, PTL

\* No lost sleeper: futex_wait_common's slot stays its own until it runs again.
THEOREM SleeperCorrect == Spec => []SleeperQueued
  <1>1. IInv => SleeperQueued
    BY DEF IInv
  <1> QED BY <1>1, Invariance, PTL

----------------------------------------------------------------------------
(* One winner of a wake and a timeout *)

\* What a step may do to the slot of a waiter that is off the queue.
Settled == \A i \in Slots : slot[i].used /\ ~slot[i].waiting =>
             slot'[i] = FreeSlot \/ slot'[i] = slot[i]

\* A wake gives a verdict only to slots that had none.
LEMMA TakenSettles ==
  ASSUME NEW M, slot' = Taken(slot, M), \A i \in M : slot[i].waiting
  PROVE  Settled
  BY DEF Taken, Settled

\* The three parts of gj_linux_hot_exit settle no slot twice.
LEMMA ExitSettles ==
  ASSUME TypeOK, NEW t \in Thr, Exit(t)
  PROVE  Settled
  <1> DEFINE p == ProcOf[t]
             M1 == UNION {Chosen(slot, <<p, w>>, 1, Bits) : w \in Marked(t)}
             s1 == Taken(slot, M1)
             s2 == Cancelled(s1, t)
             M3 == Chosen(s2, <<p, ctid>>, 1, Bits)
             s3 == IF ctid = NoWord THEN s2 ELSE Taken(s2, M3)
  <1>1. slot' = s3
    BY DEF Exit
  <1>2. M1 \subseteq Slots /\ \A i \in M1 : slot[i].waiting
    <2> SUFFICES ASSUME NEW i \in M1 PROVE i \in Slots /\ slot[i].waiting
      OBVIOUS
    <2>1. PICK w \in Marked(t) : i \in Chosen(slot, <<p, w>>, 1, Bits)
      OBVIOUS
    <2> QED BY <2>1, ChosenWaiting
  <1> HIDE DEF M1
  <1>3. s1 \in [Slots -> SlotRec] /\ \A i \in Slots :
          slot[i].used /\ ~slot[i].waiting => s1[i] = slot[i]
    <2>1. TakenFrom(slot, s1, M1)
      BY TakenSlots DEF TypeOK
    <2> HIDE DEF s1
    <2> QED
      BY <1>2, <2>1 DEF TakenFrom
  <1> HIDE DEF s1
  <1>4. s2 \in [Slots -> SlotRec] /\ \A i \in Slots :
          slot[i].used /\ ~slot[i].waiting => s2[i] = FreeSlot \/ s2[i] = slot[i]
    BY <1>3, FreeSlotType DEF Cancelled
  <1> HIDE DEF s2
  <1>5. M3 \subseteq Slots /\ \A i \in M3 : s2[i].waiting
    BY ChosenWaiting
  <1> HIDE DEF M3
  <1>6. \A i \in Slots : ~s2[i].waiting => s3[i] = s2[i]
    BY <1>4, <1>5 DEF Taken
  <1> HIDE DEF s3
  <1>7. FreeSlot.waiting = FALSE
    BY DEF FreeSlot
  <1> QED BY <1>1, <1>4, <1>6, <1>7 DEF Settled

\* No operation changes a verdict.
LEMMA NextSettles == TypeOK /\ [Next]_futexVars => Settled
  <1> SUFFICES ASSUME TypeOK, [Next]_futexVars PROVE Settled
    OBVIOUS
  <1>1. ASSUME NEW t, NEW w, NEW private, NEW b, NEW timed, Wait(t, w, private, b, timed)
        PROVE  Settled
    BY <1>1 DEF Wait, Sleep, FirstUnused, Settled, TypeOK
  <1>2. ASSUME NEW t, Return(t)
        PROVE  Settled
    BY <1>2 DEF Return, Resume, Settled, TypeOK
  <1>3. ASSUME NEW t, NEW w, NEW private, NEW n, NEW b, Wake(t, w, private, n, b)
        PROVE  Settled
    BY <1>3, ChosenWaiting, TakenSettles DEF Wake, WakeOn
  <1>4. ASSUME NEW t, NEW w, NEW w2, NEW private, NEW n, NEW m, Requeue(t, w, w2, private, n, m)
        PROVE  Settled
    <2> DEFINE a == Chosen(slot, KeyOf(t, w, private), n + m, Bits)
               c == IF w2 = w THEN {} ELSE Chosen(slot, KeyOf(t, w2, private), m, Bits)
               M == a \cup c
    <2>1. slot' = Taken(slot, M) /\ \A i \in M : slot[i].waiting
      BY <1>4, ChosenWaiting DEF Requeue
    <2> HIDE DEF M
    <2> QED BY <2>1, TakenSettles
  <1>5. CASE Timer
    BY <1>5 DEF Timer, Expire, Expirable, Settled, TypeOK
  <1>6. CASE slot' = slot
    BY <1>6 DEF Settled
  <1>7. QED
    BY <1>1, <1>2, <1>3, <1>4, <1>5, <1>6, ExitSettles
       DEF Next, Store, SetTidAddress, SetRobust, Create, Die, futexVars

\* futex_timer_check and futex_wake_common never both decide one wait.
THEOREM VerdictCorrect == Spec => VerdictStable
  <1>1. TypeOK /\ [Next]_futexVars => [Settled]_futexVars
    BY NextSettles
  <1>2. Spec => [][Settled]_futexVars
    BY <1>1, TypeCorrect, PTL DEF Spec
  <1> QED BY <1>2 DEF VerdictStable, Settled
============================================================================
