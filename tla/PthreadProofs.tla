--------------------------- MODULE PthreadProofs ---------------------------
(***************************************************************************)
(* Proofs about the C library's primitives, for every number of threads,   *)
(* every size of the kernel's waiter table and every program that pairs    *)
(* its locks and unlocks.  KernelOK and Control say where a thread can be; *)
(* Effect reduces the steps to a few effects on the shared data; and each  *)
(* primitive has an invariant of its own that rests on those two and on    *)
(* the mutexes.                                                            *)
(***************************************************************************)
EXTENDS Pthread, FiniteSetTheorems, TLAPS

----------------------------------------------------------------------------
(* Where a thread can be *)

\* The calls that wait on a condition variable.
CondCall == {"rdlock", "wrlock", "barrier"}

Label == {"next", "lock", "lockwait", "trylock", "enter", "check", "condwait", "broadcast",
          "broadcastwake", "unlock", "unlockwake", "once", "oncerun", "oncedone", "oncewake",
          "oncewait", "sem_wait", "sem_timedwait", "semsleep", "sem_post", "postwake"}

UserTypes ==
  /\ word \in [Word -> Nat]
  /\ rw \in [readers : Nat, writer : 0 .. 1, waiting : Int]
  /\ bar \in [count : 0 .. Trip - 1, gen : Nat]
  /\ ip \in [Thr -> Nat] /\ pc \in [Thr -> Label] /\ inLoop \in [Thr -> BOOLEAN]
  /\ seen \in [Thr -> Nat] /\ gen \in [Thr -> Nat] /\ held \in [Thr -> {"no", "r", "w"}]
  /\ ran \in Nat

\* The labels of each call, and when inLoop is set.
Control(t) ==
  /\ ip[t] \in 1 .. Len(Program[t]) + 1
  /\ Finished(t) => pc[t] = "next"
  /\ pc[t] \in {"lock", "lockwait", "enter"} => CallOf(t) \in CondCall \cup {"unlock"}
  /\ pc[t] = "check" => CallOf(t) \in CondCall \cup TryCall
  /\ pc[t] = "condwait" => inLoop[t]
  /\ pc[t] \in {"broadcast", "broadcastwake"} => CallOf(t) \in {"unlock", "barrier"}
  /\ pc[t] \in {"unlock", "unlockwake"} => CallOf(t) \in CondCall \cup TryCall \cup {"unlock"}
  /\ pc[t] = "trylock" => CallOf(t) \in TryCall
  /\ pc[t] \in {"once", "oncerun", "oncedone", "oncewake", "oncewait"} => CallOf(t) = "once"
  /\ pc[t] = "semsleep" => CallOf(t) \in {"sem_wait", "sem_timedwait"}
  /\ pc[t] \in {"sem_wait", "sem_timedwait", "sem_post"} => CallOf(t) = pc[t]
  /\ pc[t] = "postwake" => CallOf(t) = "sem_post"
  /\ inLoop[t] => /\ CallOf(t) \in CondCall
                  /\ pc[t] \in {"check", "unlock", "unlockwake", "condwait", "lock", "lockwait"}

\* A sleeper has a slot of its own and will go on at the label of its loop; only
\* sem_timedwait sleeps with a deadline.
KernelOK ==
  /\ slot \in [Kernel!Slots -> Kernel!SlotRec]
  /\ thr \in [Thr -> [st : {"READY", "BLOCKED"}, at : 0 .. NSlots]]
  /\ \A t \in Thr : thr[t].at # 0 =>
       /\ slot[thr[t].at].used /\ slot[thr[t].at].thr = t
       /\ slot[thr[t].at].timedOut => slot[thr[t].at].timed
       /\ slot[thr[t].at].timed => pc[t] = "sem_timedwait"

Base == UserTypes /\ KernelOK /\ \A t \in Thr : Control(t)

\* The threads other than t stay where they are.
OthersStay(t) == \A u \in Thr : u # t => pc'[u] = pc[u]

\* A step of t that leaves the kernel alone.
LEMMA KernelIdle ==
  ASSUME KernelOK, NEW t \in Thr, thr[t].at = 0, OthersStay(t), UNCHANGED <<slot, thr>>
  PROVE  KernelOK'
  BY DEF KernelOK, OthersStay

\* futex_wait takes a slot nobody uses.
LEMMA KernelSleep ==
  ASSUME KernelOK, NEW t \in Thr, OthersStay(t), NEW w \in Word, NEW v, NEW timed \in BOOLEAN,
         FutexSleep(t, w, v, timed), timed => pc'[t] = "sem_timedwait"
  PROVE  KernelOK'
  <1> DEFINE C == Kernel!Claim(t, Key(w), {"any"}, timed)
  <1>1. PICK i \in Kernel!Slots :
          /\ ~slot[i].used
          /\ slot' = [slot EXCEPT ![i] = C]
          /\ thr' = [thr EXCEPT ![t] = [st |-> "BLOCKED", at |-> i]]
    BY DEF FutexSleep, Kernel!Sleep, Kernel!FirstUnused
  <1>2. "process" \in Kernel!Proc
    BY DEF Kernel!Proc, Kernel!Thr, Thr
  <1>3. C \in Kernel!SlotRec
    BY <1>2, PthreadAssumption DEF Kernel!Claim, Kernel!SlotRec, Kernel!Key, Key, Thr
  <1>4. C.used /\ C.thr = t /\ ~C.timedOut /\ C.timed = timed
    BY DEF Kernel!Claim
  <1> HIDE DEF C
  <1>5. i \in 1 .. NSlots /\ i # 0 /\ NSlots \in Nat
    BY PthreadAssumption DEF Kernel!Slots
  <1>6. slot' \in [Kernel!Slots -> Kernel!SlotRec]
        /\ thr' \in [Thr -> [st : {"READY", "BLOCKED"}, at : 0 .. NSlots]]
    BY <1>1, <1>3, <1>5 DEF KernelOK
  <1>7. ASSUME NEW u \in Thr, thr'[u].at # 0
        PROVE  /\ slot'[thr'[u].at].used /\ slot'[thr'[u].at].thr = u
               /\ slot'[thr'[u].at].timedOut => slot'[thr'[u].at].timed
               /\ slot'[thr'[u].at].timed => pc'[u] = "sem_timedwait"
    <2>1. CASE u = t
      <3>1. thr'[t].at = i /\ slot'[i] = C
        BY <1>1 DEF KernelOK
      <3> QED
        BY <1>4, <2>1, <3>1
    <2>2. CASE u # t
      <3>1. thr'[u] = thr[u] /\ pc'[u] = pc[u] /\ thr[u].at \in 0 .. NSlots
        BY <1>1, <2>2 DEF KernelOK, OthersStay
      <3>2. thr[u].at \in Kernel!Slots /\ slot[thr[u].at].used
        BY <1>5, <1>7, <3>1 DEF KernelOK, Kernel!Slots
      <3>3. slot'[thr[u].at] = slot[thr[u].at]
        BY <1>1, <3>2 DEF KernelOK
      <3> QED
        BY <1>7, <3>1, <3>3 DEF KernelOK
    <2> QED
      BY <2>1, <2>2
  <1> QED
    BY <1>6, <1>7 DEF KernelOK

\* The slots in M leave the queue; only a slot with a deadline gets a timeout verdict.
LEMMA KernelUnqueue ==
  ASSUME KernelOK, NEW M \in SUBSET Kernel!Slots, thr' = Kernel!Readied(M),
         slot' \in [Kernel!Slots -> Kernel!SlotRec],
         \A i \in Kernel!Slots : /\ slot'[i].used = slot[i].used /\ slot'[i].thr = slot[i].thr
                                 /\ slot'[i].timed = slot[i].timed
                                 /\ slot'[i].timedOut => slot[i].timedOut \/ slot[i].timed,
         \A u \in Thr : thr[u].at # 0 => pc'[u] = pc[u]
  PROVE  KernelOK'
  <1>1. \A u \in Thr : thr'[u].at = thr[u].at
    BY DEF Kernel!Readied, KernelOK, Kernel!Thr, Thr
  <1>2. thr' \in [Thr -> [st : {"READY", "BLOCKED"}, at : 0 .. NSlots]]
    BY DEF Kernel!Readied, KernelOK, Kernel!Thr, Thr
  <1>3. \A u \in Thr : thr[u].at # 0 => thr[u].at \in Kernel!Slots
    BY PthreadAssumption DEF KernelOK, Kernel!Slots
  <1> QED
    BY <1>1, <1>2, <1>3 DEF KernelOK

\* futex_wake by a running thread.
LEMMA KernelWake ==
  ASSUME KernelOK, NEW t \in Thr, thr[t].at = 0, OthersStay(t), NEW w, NEW n, FutexWake(w, n)
  PROVE  KernelOK'
  <1> DEFINE M == Kernel!Chosen(slot, Key(w), n, {"any"})
  <1>1. M \in SUBSET Kernel!Slots
    BY DEF Kernel!Chosen, Kernel!Matching
  <1>2. slot' = Kernel!Taken(slot, M) /\ thr' = Kernel!Readied(M)
    BY DEF FutexWake, Kernel!WakeOn
  <1> HIDE DEF M
  <1>3. slot \in [Kernel!Slots -> Kernel!SlotRec]
    BY DEF KernelOK
  <1>4. slot' \in [Kernel!Slots -> Kernel!SlotRec]
    <2>1. \A r \in Kernel!SlotRec : [r EXCEPT !.waiting = FALSE] \in Kernel!SlotRec
      BY DEF Kernel!SlotRec
    <2> QED
      BY <1>2, <1>3, <2>1 DEF Kernel!Taken
  <1>6. ASSUME NEW i \in Kernel!Slots
        PROVE  /\ slot'[i].used = slot[i].used /\ slot'[i].thr = slot[i].thr
               /\ slot'[i].timed = slot[i].timed
               /\ slot'[i].timedOut => slot[i].timedOut \/ slot[i].timed
    <2>1. slot'[i] = slot[i] \/ slot'[i] = [slot[i] EXCEPT !.waiting = FALSE]
      BY <1>2 DEF Kernel!Taken
    <2>2. slot[i] \in Kernel!SlotRec
      BY <1>3
    <2> QED
      BY <2>1, <2>2 DEF Kernel!SlotRec
  <1>5. \A u \in Thr : thr[u].at # 0 => pc'[u] = pc[u]
    BY DEF OthersStay
  <1> QED
    BY <1>1, <1>2, <1>4, <1>5, <1>6, KernelUnqueue

\* futex_timer_check.
LEMMA KernelExpire ==
  ASSUME KernelOK, Timer PROVE KernelOK'
  <1>1. PICK M \in SUBSET Kernel!Expirable : Kernel!Expire(M) /\ pc' = pc
    BY DEF Timer, userVars
  <1>2. slot \in [Kernel!Slots -> Kernel!SlotRec] /\ M \in SUBSET Kernel!Slots
        /\ \A i \in M : slot[i].timed
    BY DEF KernelOK, Kernel!Expirable
  <1>3. slot' \in [Kernel!Slots -> Kernel!SlotRec]
        /\ \A i \in Kernel!Slots : /\ slot'[i].used = slot[i].used /\ slot'[i].thr = slot[i].thr
                                   /\ slot'[i].timed = slot[i].timed
                                   /\ slot'[i].timedOut => slot[i].timedOut \/ slot[i].timed
    <2>1. ASSUME NEW i \in Kernel!Slots
          PROVE  /\ slot'[i] \in Kernel!SlotRec
                 /\ slot'[i].used = slot[i].used /\ slot'[i].thr = slot[i].thr
                 /\ slot'[i].timed = slot[i].timed
                 /\ slot'[i].timedOut => slot[i].timedOut \/ slot[i].timed
      <3>1. slot[i] \in Kernel!SlotRec
        BY <1>2
      <3>2. CASE i \in M
        <4>1. slot'[i] = [slot[i] EXCEPT !.waiting = FALSE, !.timedOut = TRUE] /\ slot[i].timed
          BY <1>1, <1>2, <3>2 DEF Kernel!Expire
        <4> QED
          BY <3>1, <4>1 DEF Kernel!SlotRec
      <3>3. CASE i \notin M
        BY <1>1, <3>1, <3>3 DEF Kernel!Expire
      <3> QED
        BY <3>2, <3>3
    <2>2. slot' = [i \in Kernel!Slots |-> slot'[i]]
      BY <1>1 DEF Kernel!Expire
    <2> QED
      BY <2>1, <2>2
  <1>4. thr' = Kernel!Readied(M) /\ \A u \in Thr : thr[u].at # 0 => pc'[u] = pc[u]
    BY <1>1 DEF Kernel!Expire
  <1> QED
    BY <1>2, <1>3, <1>4, KernelUnqueue

\* The sleeper runs again and frees its own slot.
LEMMA KernelResume ==
  ASSUME KernelOK, NEW t \in Thr, Kernel!Resume(t), OthersStay(t)
  PROVE  KernelOK'
  <1> DEFINE i == thr[t].at
  <1>1. i \in Kernel!Slots /\ slot[i].thr = t
    BY PthreadAssumption DEF KernelOK, Kernel!Resume, Kernel!Slots
  <1>2. Kernel!FreeSlot \in Kernel!SlotRec
    BY PthreadAssumption DEF Kernel!FreeSlot, Kernel!SlotRec
  <1>3. slot' = [slot EXCEPT ![i] = Kernel!FreeSlot] /\ thr' = [thr EXCEPT ![t] = Kernel!Ready]
    BY DEF Kernel!Resume
  <1>4. slot' \in [Kernel!Slots -> Kernel!SlotRec]
        /\ thr' \in [Thr -> [st : {"READY", "BLOCKED"}, at : 0 .. NSlots]]
    BY <1>1, <1>2, <1>3, PthreadAssumption DEF KernelOK, Kernel!Ready
  <1>5. ASSUME NEW u \in Thr, thr'[u].at # 0
        PROVE  /\ u # t /\ thr'[u] = thr[u] /\ pc'[u] = pc[u]
               /\ slot'[thr[u].at] = slot[thr[u].at]
    <2>1. u # t
      BY <1>3, <1>5 DEF Kernel!Ready, KernelOK
    <2>2. thr'[u] = thr[u] /\ pc'[u] = pc[u]
      BY <1>3, <2>1 DEF KernelOK, OthersStay
    <2>3. thr[u].at # i /\ thr[u].at \in Kernel!Slots
      BY <1>1, <1>5, <2>1, <2>2, PthreadAssumption DEF KernelOK, Kernel!Slots
    <2> QED
      BY <1>3, <2>1, <2>2, <2>3 DEF KernelOK
  <1> QED
    BY <1>4, <1>5 DEF KernelOK

----------------------------------------------------------------------------
(* What a step of thread t does to the shared data *)

\* Words other than the semaphore and the sequences keep their value.
WordsKept == /\ word' \in [Word -> Nat]
             /\ \A w \in {"rw.mtx", "bar.mtx", "once"} : word'[w] = word[w]

\* t moves to label p of the same call and nothing protected changes.
Passes(t, p) ==
  /\ \/ /\ pc[t] = "next" /\ ~Finished(t)
        /\ \/ p = "lock" /\ CallOf(t) \in CondCall \cup {"unlock"}
           \/ p = "trylock" /\ CallOf(t) \in TryCall
           \/ p = CallOf(t) /\ CallOf(t) \in {"once", "sem_wait", "sem_timedwait", "sem_post"}
     \/ pc[t] = "lock" /\ p = "lockwait"
     \/ pc[t] \in {"lockwait", "condwait"} /\ p = "lock"
     \/ pc[t] = "unlockwake" /\ inLoop[t] /\ p = "condwait"
     \/ pc[t] = "broadcast" /\ p = "broadcastwake"
     \/ pc[t] = "broadcastwake" /\ p = "unlock"
     \/ pc[t] = "once" /\ p = "oncewait"
     \/ pc[t] = "oncewait" /\ p = "once"
     \/ pc[t] \in {"sem_wait", "sem_timedwait"} /\ p = "semsleep"
     \/ pc[t] = "semsleep" /\ p = CallOf(t)
     \/ pc[t] = "sem_post" /\ p = "postwake"
  /\ Goto(t, p)
  /\ WordsKept
  /\ UNCHANGED <<rw, bar, ip, inLoop, seen, gen, held, ran>>

\* The call of t returns; a failed try skips the unlock after it.
Ends(t, n) ==
  /\ \/ n = 1 /\ pc[t] = "unlockwake" /\ ~inLoop[t] /\ ~Busy(t)
     \/ n = 1 /\ pc[t] # "next" /\ CallOf(t) \in {"sem_wait", "sem_timedwait", "sem_post"}
     \/ n = 1 /\ pc[t] = "once" /\ word["once"] = 2
     \/ n = 1 /\ pc[t] = "oncewake"
     \/ n = 2 /\ CallOf(t) \in TryCall /\ (pc[t] = "trylock" \/ (pc[t] = "unlockwake" /\ held[t] = "no"))
  /\ Finish(t, n)
  /\ WordsKept
  /\ UNCHANGED <<rw, bar, seen, gen, held, ran>>

\* t takes the mutex of its call.
Locks(t) ==
  /\ pc[t] \in {"lock", "trylock"}
  /\ word[Mtx(t)] = 0
  /\ word' = [word EXCEPT ![Mtx(t)] = 1]
  /\ Goto(t, IF pc[t] = "trylock" \/ inLoop[t] THEN "check" ELSE "enter")
  /\ UNCHANGED <<rw, bar, ip, inLoop, seen, gen, held, ran>>

\* t wins the compare-and-swap of pthread_once.
OnceStarts(t) ==
  /\ pc[t] = "once" /\ word["once"] = 0
  /\ word' = [word EXCEPT !["once"] = 1]
  /\ Goto(t, "oncerun")
  /\ UNCHANGED <<rw, bar, ip, inLoop, seen, gen, held, ran>>

Effects(t) ==
  \/ \E p \in Label : Passes(t, p)
  \/ \E n \in {1, 2} : Ends(t, n)
  \/ Locks(t) \/ Unlock(t) \/ Enter(t) \/ Check(t)
  \/ OnceStarts(t) \/ OnceRun(t) \/ OnceDone(t)

\* A timeout verdict ends sem_timedwait and nothing else.
LEMMA ReturnEffect ==
  ASSUME Base, NEW t \in Thr, Return(t)
  PROVE  UNCHANGED userVars \/ Ends(t, 1)
  <1>1. CASE ~slot[thr[t].at].timedOut
    BY <1>1 DEF Return, userVars
  <1>2. CASE slot[thr[t].at].timedOut
    <2>1. pc[t] = "sem_timedwait" /\ CallOf(t) = "sem_timedwait"
      BY <1>2 DEF Return, Kernel!Resume, Base, KernelOK, Control
    <2> QED
      BY <1>2, <2>1 DEF Return, Ends, WordsKept, Base, UserTypes
  <1> QED
    BY <1>1, <1>2

\* Every step of a thread has one of these effects.
LEMMA StepEffect ==
  ASSUME Base, NEW t \in Thr, Step(t)
  PROVE  UNCHANGED userVars \/ Effects(t)
  <1> USE DEF At, Effects
  <1>t. word \in [Word -> Nat] /\ Program[t] \in Seq(Call) /\ ip[t] \in 1 .. Len(Program[t]) + 1
        /\ Control(t) /\ inLoop \in [Thr -> BOOLEAN]
    BY PthreadAssumption DEF Base, UserTypes, Control
  <1>k. word' = word => WordsKept
    BY <1>t DEF WordsKept
  <1>1. ASSUME Begin(t) PROVE \E p \in Label : Passes(t, p)
    <2>1. ~Finished(t) /\ CallOf(t) \in Call
      BY <1>1, <1>t DEF Begin, Finished, CallOf
    <2>2. PICK p \in Label :
            /\ Goto(t, p)
            /\ \/ p = "lock" /\ CallOf(t) \in CondCall \cup {"unlock"}
               \/ p = "trylock" /\ CallOf(t) \in TryCall
               \/ p = CallOf(t) /\ CallOf(t) \in {"once", "sem_wait", "sem_timedwait", "sem_post"}
      BY <1>1, <2>1 DEF Begin, Goto, Label, Call, CondCall, TryCall
    <2> QED
      BY <1>1, <1>k, <2>1, <2>2 DEF Begin, Passes
  <1>2. ASSUME Lock(t) PROVE Locks(t) \/ Passes(t, "lockwait")
    BY <1>2, <1>k DEF Lock, Locks, Passes
  <1>3. ASSUME LockWait(t) \/ CondWait(t) PROVE Passes(t, "lock")
    BY <1>3, <1>k DEF LockWait, CondWait, Passes
  <1>4. ASSUME TryLock(t) PROVE Locks(t) \/ Ends(t, 2)
    <2>1. CallOf(t) \in TryCall /\ Mtx(t) = "rw.mtx"
      BY <1>4, <1>t DEF TryLock, Control, Mtx, TryCall
    <2> QED
      BY <1>4, <1>k, <2>1 DEF TryLock, Locks, Ends, Finish
  <1>5. ASSUME UnlockWake(t) PROVE Passes(t, "condwait") \/ Ends(t, 1) \/ Ends(t, 2)
    BY <1>5, <1>k DEF UnlockWake, Passes, Ends, Busy, TryCall
  <1>6. ASSUME Broadcast(t) PROVE Passes(t, "broadcastwake")
    <2>1. Cv(t) \in {"rw.cv", "bar.cv"}
      BY DEF Cv
    <2>2. WordsKept
      BY <1>6, <1>t, <2>1 DEF Broadcast, WordsKept, Word
    <2> QED
      BY <1>6, <2>2 DEF Broadcast, Passes
  <1>7. ASSUME BroadcastWake(t) PROVE Passes(t, "unlock")
    BY <1>7, <1>k DEF BroadcastWake, Passes
  <1>8. ASSUME OnceTest(t) PROVE Ends(t, 1) \/ OnceStarts(t) \/ Passes(t, "oncewait")
    BY <1>8, <1>k DEF OnceTest, OnceOver, Ends, OnceStarts, Passes
  <1>9. ASSUME OnceWake(t) PROVE Ends(t, 1)
    BY <1>9, <1>k DEF OnceWake, Ends
  <1>10. ASSUME OnceWait(t) PROVE Passes(t, "once")
    BY <1>10, <1>k DEF OnceWait, Passes
  <1>11. ASSUME SemTest(t) PROVE Ends(t, 1) \/ Passes(t, "semsleep")
    <2>1. pc[t] \in {"sem_wait", "sem_timedwait"} /\ CallOf(t) = pc[t]
      BY <1>11, <1>t DEF SemTest, Control
    <2>2. WordsKept
      BY <1>11, <1>t, <1>k DEF SemTest, WordsKept, Word
    <2> QED
      BY <1>11, <2>1, <2>2 DEF SemTest, Ends, Passes
  <1>12. ASSUME SemSleep(t) PROVE Ends(t, 1) \/ Passes(t, CallOf(t))
    <2>1. pc[t] = "semsleep" /\ CallOf(t) \in {"sem_wait", "sem_timedwait"} /\ word' = word
      BY <1>12, <1>t DEF SemSleep, Control
    <2> QED
      BY <1>12, <1>k, <2>1 DEF SemSleep, Ends, Passes
  <1>13. ASSUME SemPost(t) PROVE Ends(t, 1) \/ Passes(t, "postwake")
    <2>1. pc[t] = "sem_post" /\ CallOf(t) = "sem_post"
      BY <1>13, <1>t DEF SemPost, Control
    <2>2. WordsKept
      BY <1>13, <1>t DEF SemPost, WordsKept, Word
    <2> QED
      BY <1>13, <2>1, <2>2 DEF SemPost, Ends, Passes
  <1>14. ASSUME PostWake(t) PROVE Ends(t, 1)
    <2>1. pc[t] = "postwake" /\ CallOf(t) = "sem_post"
      BY <1>14, <1>t DEF PostWake, Control
    <2> QED
      BY <1>14, <1>k, <2>1 DEF PostWake, Ends
  <1>15. {"lock", "lockwait", "condwait", "broadcastwake", "unlock", "oncewait", "once",
          "semsleep", "postwake", "sem_wait", "sem_timedwait"} \subseteq Label
    BY DEF Label
  <1>16. SemSleep(t) => CallOf(t) \in Label
    BY <1>t, <1>15 DEF SemSleep, Control
  <1> HIDE DEF At, Effects
  <1> QED
    BY <1>1, <1>2, <1>3, <1>4, <1>5, <1>6, <1>7, <1>8, <1>9, <1>10, <1>11, <1>12, <1>13,
       <1>14, <1>15, <1>16, ReturnEffect DEF Step, Effects

\* Every step of the system has one of these effects, by one thread.
LEMMA Effect ==
  ASSUME Base, [Next]_vars
  PROVE  UNCHANGED userVars \/ \E t \in Thr : Effects(t)
  BY StepEffect DEF Next, Timer, Done, vars

----------------------------------------------------------------------------
(* Types and control *)

\* The outcomes of the test under the mutex.
Reads(t) ==
  /\ CallOf(t) \in {"rdlock", "tryrdlock"} /\ MayRead
  /\ rw' = [rw EXCEPT !.readers = @ + 1]
  /\ held' = [held EXCEPT ![t] = "r"]
  /\ inLoop' = [inLoop EXCEPT ![t] = FALSE]
Writes(t) ==
  /\ CallOf(t) \in {"wrlock", "trywrlock"} /\ MayWrite
  /\ rw' = IF CallOf(t) = "wrlock" THEN [rw EXCEPT !.waiting = @ - 1, !.writer = 1]
                                   ELSE [rw EXCEPT !.writer = 1]
  /\ held' = [held EXCEPT ![t] = "w"]
  /\ inLoop' = [inLoop EXCEPT ![t] = FALSE]
Released(t) ==
  /\ CallOf(t) = "barrier" /\ bar.gen # gen[t]
  /\ inLoop' = [inLoop EXCEPT ![t] = FALSE]
  /\ UNCHANGED <<rw, held>>
Waits(t) ==
  /\ CallOf(t) \in CondCall
  /\ inLoop' = [inLoop EXCEPT ![t] = TRUE]
  /\ UNCHANGED <<rw, held>>
Fails(t) ==
  /\ CallOf(t) \in TryCall
  /\ UNCHANGED <<rw, held, inLoop>>

\* The test takes one of these ways, and only t moves.
LEMMA CheckCases ==
  ASSUME Base, NEW t \in Thr, Check(t)
  PROVE  /\ pc[t] = "check" /\ pc' = [pc EXCEPT ![t] = "unlock"]
         /\ UNCHANGED <<word, bar, ip, gen, ran>>
         /\ seen' \in [Thr -> Nat]
         /\ Reads(t) \/ Writes(t) \/ Released(t) \/ Waits(t) \/ Fails(t)
  <1>1. pc[t] = "check" /\ pc' = [pc EXCEPT ![t] = "unlock"] /\ UNCHANGED <<word, bar, ip, gen, ran>>
    BY DEF Check, At, Goto
  <1>2. CallOf(t) \in CondCall \cup TryCall
    BY <1>1 DEF Base, Control
  <1>3. Cv(t) \in Word /\ word \in [Word -> Nat] /\ seen \in [Thr -> Nat]
    BY DEF Cv, Word, Base, UserTypes
  <1>4. seen' \in [Thr -> Nat]
    BY <1>3 DEF Check
  <1>5. ASSUME Granted(t), Take(t), inLoop' = [inLoop EXCEPT ![t] = FALSE]
        PROVE  Reads(t) \/ Writes(t) \/ Released(t)
    <2>1. CASE CallOf(t) \in {"rdlock", "tryrdlock"}
      BY <1>5, <2>1 DEF Granted, Take, Reads
    <2>2. CASE CallOf(t) = "wrlock"
      BY <1>5, <2>2 DEF Granted, Take, Writes
    <2>3. CASE CallOf(t) = "trywrlock"
      BY <1>5, <2>3 DEF Granted, Take, Writes
    <2>4. CASE CallOf(t) = "barrier"
      BY <1>5, <2>4 DEF Granted, Take, Released
    <2> QED
      BY <1>2, <2>1, <2>2, <2>3, <2>4 DEF CondCall, TryCall
  <1> QED
    BY <1>1, <1>4, <1>5 DEF Check, Waits, Fails, CondCall, TryCall

\* A step of t writes only t's part of the thread-indexed state.
LEMMA Frame ==
  ASSUME Base, NEW t \in Thr, Effects(t), NEW u \in Thr, u # t
  PROVE  /\ pc'[u] = pc[u] /\ ip'[u] = ip[u] /\ inLoop'[u] = inLoop[u]
         /\ held'[u] = held[u] /\ gen'[u] = gen[u]
         /\ CallOf(u)' = CallOf(u) /\ Finished(u)' = Finished(u)
  <1> USE DEF Base, UserTypes, Goto
  <1>1. ASSUME NEW p, Passes(t, p) \/ Locks(t) \/ OnceStarts(t)
        PROVE  pc'[u] = pc[u] /\ UNCHANGED <<ip, inLoop, held, gen>>
    BY <1>1 DEF Passes, Locks, OnceStarts
  <1>2. ASSUME NEW n, Ends(t, n)
        PROVE  /\ pc'[u] = pc[u] /\ ip'[u] = ip[u] /\ inLoop'[u] = inLoop[u]
               /\ UNCHANGED <<held, gen>>
    BY <1>2 DEF Ends, Finish
  <1>3. ASSUME Unlock(t) \/ OnceRun(t) \/ OnceDone(t)
        PROVE  pc'[u] = pc[u] /\ UNCHANGED <<ip, inLoop, held, gen>>
    BY <1>3 DEF Unlock, OnceRun, OnceDone
  <1>4. ASSUME Enter(t)
        PROVE  pc'[u] = pc[u] /\ held'[u] = held[u] /\ gen'[u] = gen[u] /\ UNCHANGED <<ip, inLoop>>
    BY <1>4 DEF Enter
  <1>5. ASSUME Check(t)
        PROVE  pc'[u] = pc[u] /\ held'[u] = held[u] /\ inLoop'[u] = inLoop[u] /\ UNCHANGED <<ip, gen>>
    <2>1. held' = held \/ \E h : held' = [held EXCEPT ![t] = h]
      BY <1>5, CheckCases DEF Reads, Writes, Released, Waits, Fails
    <2>2. inLoop'[u] = inLoop[u]
      BY <1>5 DEF Check
    <2> QED
      BY <1>5, <2>1, <2>2 DEF Check
  <1>6. /\ pc'[u] = pc[u] /\ ip'[u] = ip[u] /\ inLoop'[u] = inLoop[u]
        /\ held'[u] = held[u] /\ gen'[u] = gen[u]
    BY <1>1, <1>2, <1>3, <1>4, <1>5 DEF Effects
  <1> QED
    BY <1>6 DEF CallOf, Finished

\* The types of the user's state.
LEMMA TypeStep == ASSUME Base, NEW t \in Thr, Effects(t) PROVE UserTypes'
  <1> USE DEF UserTypes, Goto
  <1>0. UserTypes /\ Mtx(t) \in Word /\ "once" \in Word /\ Trip \in Nat \ {0}
    BY PthreadAssumption DEF Base, Mtx, Word
  <1>1. ASSUME NEW p \in Label, Passes(t, p) PROVE UserTypes'
    BY <1>0, <1>1 DEF Passes, WordsKept
  <1>2. ASSUME NEW n \in {1, 2}, Ends(t, n) PROVE UserTypes'
    BY <1>0, <1>2 DEF Ends, Finish, WordsKept, Label
  <1>3. ASSUME Locks(t) \/ OnceStarts(t) \/ Unlock(t) \/ OnceRun(t) \/ OnceDone(t) PROVE UserTypes'
    <2>1. PICK p \in {"check", "enter", "oncerun", "unlockwake", "oncedone", "oncewake"} :
            pc' = [pc EXCEPT ![t] = p]
      BY <1>3 DEF Locks, OnceStarts, Unlock, OnceRun, OnceDone
    <2>2. pc' \in [Thr -> Label]
      BY <1>0, <2>1 DEF Label
    <2>3. word' \in [Word -> Nat] /\ ran' \in Nat
      BY <1>0, <1>3 DEF Locks, OnceStarts, Unlock, OnceRun, OnceDone
    <2>4. UNCHANGED <<rw, bar, ip, inLoop, seen, gen, held>>
      BY <1>3 DEF Locks, OnceStarts, Unlock, OnceRun, OnceDone
    <2> QED
      BY <1>0, <2>2, <2>3, <2>4
  <1>4. ASSUME Enter(t) PROVE UserTypes'
    <2>1. UNCHANGED <<word, ip, inLoop, seen, ran>>
      BY <1>4 DEF Enter
    <2>2. pc' \in [Thr -> Label]
      BY <1>0, <1>4 DEF Enter, Label
    <2>3. rw' \in [readers : Nat, writer : 0 .. 1, waiting : Int]
      BY <1>0, <1>4 DEF Enter
    <2>4. bar' \in [count : 0 .. Trip - 1, gen : Nat]
      BY <1>0, <1>4 DEF Enter, Trips
    <2>5. gen' \in [Thr -> Nat] /\ held' \in [Thr -> {"no", "r", "w"}]
      BY <1>0, <1>4 DEF Enter
    <2> QED
      BY <1>0, <2>1, <2>2, <2>3, <2>4, <2>5
  <1>5. ASSUME Check(t) PROVE UserTypes'
    <2>1. pc' \in [Thr -> Label] /\ UNCHANGED <<word, bar, ip, gen, ran>> /\ seen' \in [Thr -> Nat]
      BY <1>0, <1>5, CheckCases DEF Label
    <2>2. /\ rw' \in [readers : Nat, writer : 0 .. 1, waiting : Int]
          /\ held' \in [Thr -> {"no", "r", "w"}] /\ inLoop' \in [Thr -> BOOLEAN]
      <3>1. CASE Reads(t)
        BY <1>0, <3>1 DEF Reads
      <3>2. CASE Writes(t)
        <4>1. rw' = [readers |-> rw.readers, writer |-> 1, waiting |-> rw'.waiting]
              /\ rw'.waiting \in {rw.waiting, rw.waiting - 1}
          BY <1>0, <3>2 DEF Writes
        <4>2. rw' \in [readers : Nat, writer : 0 .. 1, waiting : Int]
          BY <1>0, <4>1
        <4> QED
          BY <1>0, <3>2, <4>2 DEF Writes
      <3>3. CASE Released(t) \/ Waits(t) \/ Fails(t)
        BY <1>0, <3>3 DEF Released, Waits, Fails
      <3> QED
        BY <1>5, <3>1, <3>2, <3>3, CheckCases
    <2> QED
      BY <1>0, <2>1, <2>2
  <1> QED
    BY <1>1, <1>2, <1>3, <1>4, <1>5 DEF Effects

\* Every label belongs to the call, and inLoop to the loops.
LEMMA ControlStep ==
  ASSUME Base, NEW t \in Thr, Effects(t) PROVE \A u \in Thr : Control(u)'
  <1>1. ASSUME NEW u \in Thr, u # t PROVE Control(u)'
    BY <1>1, Frame DEF Base, Control
  <1>0. Control(t) /\ pc \in [Thr -> Label] /\ ip \in [Thr -> Nat] /\ inLoop \in [Thr -> BOOLEAN]
        /\ Program[t] \in Seq(Call) /\ Len(Program[t]) \in Nat
    BY PthreadAssumption DEF Base, UserTypes
  <1>f. pc[t] # "next" => ip[t] <= Len(Program[t])
    BY <1>0 DEF Control, Finished
  <1>g. ASSUME ip'[t] = ip[t], inLoop'[t] = inLoop[t]
        PROVE  CallOf(t)' = CallOf(t) /\ Finished(t)' = Finished(t)
    BY <1>g DEF CallOf, Finished
  <1>2. ASSUME NEW p \in Label, Passes(t, p) PROVE Control(t)'
    <2>1. ip'[t] = ip[t] /\ inLoop'[t] = inLoop[t] /\ pc'[t] = p
      BY <1>0, <1>2 DEF Passes, Goto
    <2> QED
      BY <1>0, <1>2, <1>g, <2>1 DEF Passes, Control, CondCall, TryCall
  <1>3. ASSUME NEW n \in {1, 2}, Ends(t, n) PROVE Control(t)'
    <2>1. pc'[t] = "next" /\ ip'[t] = ip[t] + n /\ ~inLoop'[t]
      BY <1>0, <1>3 DEF Ends, Finish, Goto
    <2>2. ip[t] \in 1 .. Len(Program[t])
      BY <1>0, <1>3, <1>f DEF Ends, Control
    <2>3. n = 2 => ip[t] < Len(Program[t])
      BY <1>3, <2>2, PthreadAssumption DEF Ends, CallOf
    <2>4. ip'[t] \in 1 .. Len(Program[t]) + 1
      BY <1>0, <2>1, <2>2, <2>3
    <2> QED
      BY <2>1, <2>4 DEF Control
  <1>4. ASSUME Locks(t) \/ OnceStarts(t) \/ Unlock(t) \/ OnceRun(t) \/ OnceDone(t) PROVE Control(t)'
    <2>1. ip'[t] = ip[t] /\ inLoop'[t] = inLoop[t]
      BY <1>4 DEF Locks, OnceStarts, Unlock, OnceRun, OnceDone
    <2>2. \/ pc[t] = "lock" /\ pc'[t] = IF inLoop[t] THEN "check" ELSE "enter"
          \/ pc[t] = "trylock" /\ pc'[t] = "check"
          \/ pc[t] = "once" /\ pc'[t] = "oncerun"
          \/ pc[t] = "unlock" /\ pc'[t] = "unlockwake"
          \/ pc[t] = "oncerun" /\ pc'[t] = "oncedone"
          \/ pc[t] = "oncedone" /\ pc'[t] = "oncewake"
      BY <1>0, <1>4 DEF Locks, OnceStarts, Unlock, OnceRun, OnceDone, At, Goto
    <2> QED
      BY <1>0, <1>g, <2>1, <2>2 DEF Control, CondCall, TryCall
  <1>5. ASSUME Enter(t) PROVE Control(t)'
    <2>1. ip'[t] = ip[t] /\ inLoop'[t] = inLoop[t] /\ pc[t] = "enter"
      BY <1>5 DEF Enter, At
    <2>2. \/ pc'[t] = "check" /\ CallOf(t) \in CondCall
          \/ pc'[t] = "broadcast" /\ CallOf(t) \in {"unlock", "barrier"}
      BY <1>0, <1>5 DEF Enter, Goto, CondCall
    <2> QED
      BY <1>0, <1>g, <2>1, <2>2 DEF Control, CondCall, TryCall
  <1>6. ASSUME Check(t) PROVE Control(t)'
    <2>1. ip'[t] = ip[t] /\ pc[t] = "check" /\ pc'[t] = "unlock"
      BY <1>0, <1>6, CheckCases
    <2>2. inLoop'[t] => CallOf(t) \in CondCall
      BY <1>0, <1>6, CheckCases DEF Reads, Writes, Released, Waits, Fails, Control
    <2>3. CallOf(t)' = CallOf(t) /\ Finished(t)' = Finished(t)
      BY <2>1 DEF CallOf, Finished
    <2> QED
      BY <1>0, <2>1, <2>2, <2>3 DEF Control, CondCall, TryCall
  <1>7. Control(t)'
    BY <1>2, <1>3, <1>4, <1>5, <1>6 DEF Effects
  <1> QED
    BY <1>1, <1>7

\* The kernel's half of every step.
LEMMA KernelStep == ASSUME Base, [Next]_vars PROVE KernelOK'
  <1>0. KernelOK /\ pc \in [Thr -> Label]
    BY DEF Base, UserTypes
  <1>1. ASSUME NEW t \in Thr, Step(t) PROVE KernelOK'
    <2>1. OthersStay(t)
      <3>1. CASE UNCHANGED userVars
        BY <3>1 DEF OthersStay, userVars
      <3>2. CASE Effects(t)
        BY <3>2, Frame DEF OthersStay
      <3> QED
        BY <1>1, <3>1, <3>2, StepEffect
    <2>2. ASSUME thr[t] = Kernel!Ready PROVE thr[t].at = 0
      BY <2>2 DEF Kernel!Ready
    <2>3. ASSUME NEW w \in Word, NEW v, FutexSleep(t, w, v, FALSE) PROVE KernelOK'
      BY <1>0, <2>1, <2>3, KernelSleep
    <2>4. ASSUME thr[t] = Kernel!Ready, UNCHANGED <<slot, thr>> PROVE KernelOK'
      BY <1>0, <2>1, <2>2, <2>4, KernelIdle
    <2>5. ASSUME NEW w, NEW n, thr[t] = Kernel!Ready, FutexWake(w, n) PROVE KernelOK'
      BY <1>0, <2>1, <2>2, <2>5, KernelWake
    <2>6. Mtx(t) \in Word /\ Cv(t) \in Word /\ "once" \in Word /\ "sem" \in Word
      BY DEF Mtx, Cv, Word
    <2>7. CASE Begin(t) \/ Lock(t) \/ TryLock(t) \/ Unlock(t) \/ Broadcast(t) \/ Enter(t) \/ Check(t)
      BY <2>4, <2>7 DEF Begin, Lock, TryLock, Unlock, Broadcast, Enter, Check, At
    <2>8. CASE OnceTest(t) \/ OnceRun(t) \/ OnceDone(t) \/ SemTest(t) \/ SemPost(t)
      BY <2>4, <2>8 DEF OnceTest, OnceRun, OnceDone, SemTest, SemPost, At
    <2>9. CASE LockWait(t) \/ CondWait(t) \/ OnceWait(t)
      BY <2>3, <2>4, <2>6, <2>9 DEF LockWait, CondWait, OnceWait, FutexAgain, FutexFull, At
    <2>10. CASE UnlockWake(t) \/ BroadcastWake(t) \/ OnceWake(t) \/ PostWake(t)
      BY <2>5, <2>10 DEF UnlockWake, BroadcastWake, OnceWake, PostWake, At
    <2>11. CASE SemSleep(t)
      <3> DEFINE b == CallOf(t) = "sem_timedwait"
      <3>1. CASE FutexSleep(t, "sem", 0, b) /\ Goto(t, CallOf(t))
        <4>1. b \in BOOLEAN /\ (b => pc'[t] = "sem_timedwait")
          BY <1>0, <3>1 DEF Goto
        <4> HIDE DEF b
        <4> QED
          BY <1>0, <2>1, <2>6, <3>1, <4>1, KernelSleep
      <3>2. CASE UNCHANGED <<slot, thr>>
        BY <2>4, <2>11, <3>2 DEF SemSleep, At
      <3> QED
        BY <2>11, <3>1, <3>2 DEF SemSleep, FutexAgain, FutexFull
    <2>12. CASE Return(t)
      BY <1>0, <2>1, <2>12, KernelResume DEF Return
    <2> QED
      BY <1>1, <2>7, <2>8, <2>9, <2>10, <2>11, <2>12 DEF Step
  <1>2. CASE UNCHANGED vars
    BY <1>0, <1>2 DEF vars, userVars, KernelOK
  <1> QED
    BY <1>0, <1>1, <1>2, KernelExpire DEF Next, Done

\* Every step keeps the types, the control and the kernel's table.
LEMMA BaseStep == ASSUME Base, [Next]_vars PROVE Base'
  <1>1. CASE UNCHANGED userVars
    BY <1>1, KernelStep DEF Base, userVars, UserTypes, Control, CallOf, Finished
  <1>2. ASSUME NEW t \in Thr, Effects(t) PROVE Base'
    BY <1>2, KernelStep, TypeStep, ControlStep DEF Base
  <1> QED
    BY <1>1, <1>2, Effect

\* They hold at the start.
LEMMA BaseInit == Init => Base
  <1> SUFFICES ASSUME Init PROVE Base
    OBVIOUS
  <1>1. UserTypes
    BY PthreadAssumption DEF Init, UserTypes, Label
  <1>2. KernelOK
    <2>1. Kernel!FreeSlot \in Kernel!SlotRec
      BY PthreadAssumption DEF Kernel!FreeSlot, Kernel!SlotRec
    <2> QED
      BY <2>1, PthreadAssumption DEF Init, KernelOK, Kernel!Ready
  <1>3. ASSUME NEW t \in Thr PROVE Control(t)
    <2>1. Len(Program[t]) \in Nat
      BY PthreadAssumption
    <2> QED
      BY <2>1 DEF Init, Control
  <1> QED
    BY <1>1, <1>2, <1>3 DEF Base

----------------------------------------------------------------------------
(* The mutexes *)

\* t is between taking the mutex of its call and releasing it.
Inside(t) == pc[t] \in {"enter", "check", "broadcast", "broadcastwake", "unlock"}

\* A mutex has one owner, and its word says so.
MutexOK ==
  /\ word["rw.mtx"] \in 0 .. 1 /\ word["bar.mtx"] \in 0 .. 1
  /\ \A t \in Thr : Inside(t) => word[Mtx(t)] = 1
  /\ \A t, u \in Thr : Inside(t) /\ Inside(u) /\ Mtx(t) = Mtx(u) => t = u

\* Only the owner releases a mutex, and nobody takes one that is taken.
LEMMA MutexStep == ASSUME Base, MutexOK, [Next]_vars PROVE MutexOK'
  <1> USE DEF MutexOK
  <1>0. pc \in [Thr -> Label] /\ word \in [Word -> Nat] /\ \A u \in Thr : Mtx(u) \in {"rw.mtx", "bar.mtx"}
    BY DEF Base, UserTypes, Mtx
  <1>w. {"rw.mtx", "bar.mtx", "once"} \subseteq Word
    BY DEF Word
  <1>1. CASE UNCHANGED userVars
    BY <1>1 DEF userVars, Inside, Mtx, CallOf
  <1>2. ASSUME NEW t \in Thr, Effects(t) PROVE MutexOK'
    <2>1. \A u \in Thr : u # t => (Inside(u)' <=> Inside(u)) /\ Mtx(u)' = Mtx(u)
      BY <1>2, Frame DEF Inside, Mtx
    <2>2. ASSUME WordsKept, Inside(t)' => Inside(t) /\ Mtx(t)' = Mtx(t) PROVE MutexOK'
      BY <1>0, <2>1, <2>2 DEF WordsKept
    <2>3. ASSUME NEW p \in Label, Passes(t, p) PROVE MutexOK'
      <3>1. pc'[t] = p /\ Mtx(t)' = Mtx(t)
        BY <1>0, <2>3 DEF Passes, Goto, Mtx, CallOf
      <3>2. p \in {"enter", "check", "broadcast", "broadcastwake", "unlock"} => Inside(t)
        <4>1. pc[t] = "semsleep" => CallOf(t) \in {"sem_wait", "sem_timedwait"}
          BY DEF Base, Control
        <4> QED
          BY <2>3, <4>1 DEF Passes, Inside
      <3> QED
        BY <2>2, <2>3, <3>1, <3>2 DEF Passes, Inside
    <2>4. ASSUME NEW n \in {1, 2}, Ends(t, n) PROVE MutexOK'
      <3>1. ~Inside(t)'
        BY <1>0, <2>4 DEF Ends, Finish, Goto, Inside
      <3> QED
        BY <2>2, <2>4, <3>1 DEF Ends
    <2>5. ASSUME Locks(t) PROVE MutexOK'
      <3>1. word[Mtx(t)] = 0 /\ word' = [word EXCEPT ![Mtx(t)] = 1] /\ Mtx(t)' = Mtx(t)
        BY <2>5 DEF Locks, Mtx, CallOf
      <3>2. \A u \in Thr : u # t => ~(Inside(u) /\ Mtx(u) = Mtx(t))
        BY <3>1
      <3> QED
        BY <1>0, <1>w, <2>1, <3>1, <3>2
    <2>6. ASSUME Unlock(t) PROVE MutexOK'
      <3>1. word' = [word EXCEPT ![Mtx(t)] = 0] /\ Mtx(t)' = Mtx(t) /\ Inside(t) /\ ~Inside(t)'
        BY <1>0, <2>6 DEF Unlock, Mtx, CallOf, At, Goto, Inside
      <3>2. \A u \in Thr : u # t => ~(Inside(u) /\ Mtx(u) = Mtx(t))
        BY <3>1
      <3> QED
        BY <1>0, <1>w, <2>1, <3>1, <3>2
    <2>7. ASSUME Enter(t) PROVE MutexOK'
      <3>1. word' = word /\ Inside(t) /\ Mtx(t)' = Mtx(t)
        BY <2>7 DEF Enter, Inside, At, Mtx, CallOf
      <3> QED
        BY <1>0, <2>2, <3>1 DEF WordsKept
    <2>8. ASSUME Check(t) PROVE MutexOK'
      <3>1. word' = word /\ Inside(t) /\ Mtx(t)' = Mtx(t)
        BY <2>8 DEF Check, Inside, At, Mtx, CallOf
      <3> QED
        BY <1>0, <2>2, <3>1 DEF WordsKept
    <2>9. ASSUME OnceStarts(t) \/ OnceRun(t) \/ OnceDone(t) PROVE MutexOK'
      <3>1. ~Inside(t)'
        BY <1>0, <2>9 DEF OnceStarts, OnceRun, OnceDone, Goto, Inside
      <3>2. word'["rw.mtx"] = word["rw.mtx"] /\ word'["bar.mtx"] = word["bar.mtx"]
        BY <1>0, <1>w, <2>9 DEF OnceStarts, OnceRun, OnceDone
      <3> QED
        BY <1>0, <2>1, <3>1, <3>2
    <2> QED
      BY <1>2, <2>3, <2>4, <2>5, <2>6, <2>7, <2>8, <2>9 DEF Effects
  <1> QED
    BY <1>1, <1>2, Effect

----------------------------------------------------------------------------
(* Once *)

\* t is inside the routine, or has just run it.
Running(t) == pc[t] \in {"oncerun", "oncedone"}

\* t's program has returned from pthread_once.
Returned(t) == \E j \in 1 .. ip[t] - 1 : Program[t][j] = "once"

\* The control word says how far the one run of the routine is.
OnceOK ==
  /\ word["once"] \in 0 .. 2 /\ ran \in 0 .. 1
  /\ word["once"] = 0 => ran = 0
  /\ word["once"] = 2 => ran = 1
  /\ \A t \in Thr : /\ Running(t) => word["once"] = 1
                    /\ pc[t] = "oncerun" => ran = 0
                    /\ pc[t] = "oncedone" => ran = 1
                    /\ pc[t] = "oncewake" \/ Returned(t) => word["once"] = 2
  /\ \A t, u \in Thr : Running(t) /\ Running(u) => t = u

\* The routine is run by the winner of the compare-and-swap, before the word is 2.
LEMMA OnceStep == ASSUME Base, OnceOK, [Next]_vars PROVE OnceOK'
  <1>0. pc \in [Thr -> Label] /\ word \in [Word -> Nat] /\ ip \in [Thr -> Nat] /\ "once" \in Word
    BY DEF Base, UserTypes, Word
  <1>1. CASE UNCHANGED userVars
    BY <1>1 DEF OnceOK, userVars, Running, Returned
  <1>2. ASSUME NEW t \in Thr, Effects(t) PROVE OnceOK'
    <2>1. \A u \in Thr : u # t => pc'[u] = pc[u] /\ (Returned(u)' <=> Returned(u))
      BY <1>2, Frame DEF Returned
    <2>2. ASSUME word'["once"] = word["once"], ran' = ran,
                 pc'[t] \notin {"oncerun", "oncedone", "oncewake"},
                 Returned(t)' => Returned(t) \/ word["once"] = 2
          PROVE  OnceOK'
      BY <2>1, <2>2 DEF OnceOK, Running
    <2>r. ip'[t] = ip[t] => (Returned(t)' <=> Returned(t))
      BY DEF Returned
    <2>3. ASSUME NEW p \in Label, Passes(t, p) PROVE OnceOK'
      <3>1. pc'[t] = p /\ ip'[t] = ip[t] /\ word'["once"] = word["once"] /\ ran' = ran
        BY <1>0, <2>3 DEF Passes, Goto, WordsKept
      <3>2. p \notin {"oncerun", "oncedone", "oncewake"}
        <4>1. pc[t] = "semsleep" => CallOf(t) \in {"sem_wait", "sem_timedwait"}
          BY DEF Base, Control
        <4> QED
          BY <2>3, <4>1 DEF Passes
      <3> QED
        BY <2>2, <2>r, <3>1, <3>2
    <2>4. ASSUME NEW n \in {1, 2}, Ends(t, n) PROVE OnceOK'
      <3>1. pc'[t] = "next" /\ ip'[t] = ip[t] + n /\ word'["once"] = word["once"] /\ ran' = ran
        BY <1>0, <2>4 DEF Ends, Finish, Goto, WordsKept
      <3>2. ASSUME Returned(t)', ~Returned(t) PROVE word["once"] = 2
        <4>1. PICK j \in 1 .. ip[t] + n - 1 : Program[t][j] = "once" /\ j \notin 1 .. ip[t] - 1
          BY <1>0, <3>1, <3>2 DEF Returned
        <4>2. ip[t] \in 1 .. Len(Program[t]) /\ ip[t] \in Nat
          BY <1>0, <2>4 DEF Base, Control, Ends, Finished
        <4>3. j = ip[t] \/ (n = 2 /\ j = ip[t] + 1)
          <5>1. j \in Int /\ 1 <= j /\ j <= ip[t] + n - 1 /\ ~(j <= ip[t] - 1)
            BY <4>1, <4>2
          <5> QED
            BY <4>2, <5>1
        <4>4. n = 2 => CallOf(t) \in TryCall /\ Program[t][ip[t] + 1] = "unlock"
          BY <2>4, <4>2, PthreadAssumption DEF Ends, CallOf
        <4>5. CallOf(t) = "once"
          BY <4>1, <4>3, <4>4 DEF CallOf
        <4>6. pc[t] = "unlockwake" => CallOf(t) # "once"
          BY DEF Base, Control, CondCall, TryCall
        <4> QED
          BY <2>4, <4>4, <4>5, <4>6 DEF Ends, OnceOK, TryCall
      <3> QED
        BY <2>2, <3>1, <3>2
    <2>5. ASSUME Locks(t) \/ Unlock(t) PROVE OnceOK'
      <3>1. Mtx(t) # "once" /\ Mtx(t) \in Word
        BY DEF Mtx, Word
      <3>2. word'["once"] = word["once"] /\ ran' = ran /\ ip' = ip
        BY <1>0, <2>5, <3>1 DEF Locks, Unlock
      <3>3. pc'[t] \in {"check", "enter", "unlockwake"}
        BY <1>0, <2>5 DEF Locks, Unlock, Goto
      <3> QED
        BY <2>2, <2>r, <3>2, <3>3
    <2>6. ASSUME Enter(t) PROVE OnceOK'
      <3>1. pc'[t] \in {"check", "broadcast"} /\ UNCHANGED <<word, ran, ip>>
        BY <1>0, <2>6 DEF Enter, Goto
      <3> QED
        BY <2>2, <2>r, <3>1
    <2>7. ASSUME Check(t) PROVE OnceOK'
      <3>1. pc'[t] = "unlock" /\ UNCHANGED <<word, ran, ip>>
        BY <1>0, <2>7 DEF Check, Goto
      <3> QED
        BY <2>2, <2>r, <3>1
    <2>8. ASSUME OnceStarts(t) PROVE OnceOK'
      <3>1. pc'[t] = "oncerun" /\ word["once"] = 0 /\ word'["once"] = 1 /\ ran' = ran /\ ip' = ip
        BY <1>0, <2>8 DEF OnceStarts, Goto
      <3> QED
        BY <2>1, <2>r, <3>1 DEF OnceOK, Running
    <2>9. ASSUME OnceRun(t) PROVE OnceOK'
      <3>1. pc[t] = "oncerun" /\ pc'[t] = "oncedone" /\ word' = word /\ ran' = ran + 1 /\ ip' = ip
        BY <1>0, <2>9 DEF OnceRun, Goto, At
      <3> QED
        BY <2>1, <2>r, <3>1 DEF OnceOK, Running
    <2>10. ASSUME OnceDone(t) PROVE OnceOK'
      <3>1. pc[t] = "oncedone" /\ pc'[t] = "oncewake" /\ word'["once"] = 2 /\ ran' = ran /\ ip' = ip
        BY <1>0, <2>10 DEF OnceDone, Goto, At
      <3> QED
        BY <2>1, <2>r, <3>1 DEF OnceOK, Running
    <2> QED
      BY <1>2, <2>3, <2>4, <2>5, <2>6, <2>7, <2>8, <2>9, <2>10 DEF Effects
  <1> QED
    BY <1>1, <1>2, Effect

----------------------------------------------------------------------------
(* The read-write lock *)

\* Which calls leave the program holding the lock.
LEMMA HoldsNext ==
  ASSUME NEW t \in Thr, NEW j \in Nat \ {0}
  PROVE  HoldsAt(t, j + 1) <=>
           Program[t][j] \in LockCall \/ (Program[t][j] # "unlock" /\ HoldsAt(t, j))
  <1>1. ASSUME Program[t][j] \in LockCall PROVE HoldsAt(t, j + 1)
    <2>1. j \in 1 .. (j + 1) - 1 /\ (j + 1) .. ((j + 1) - 1) = {}
      OBVIOUS
    <2> QED
      BY <1>1, <2>1 DEF HoldsAt
  <1>2. ASSUME Program[t][j] # "unlock", HoldsAt(t, j) PROVE HoldsAt(t, j + 1)
    <2>1. PICK i \in 1 .. (j - 1) : /\ Program[t][i] \in LockCall
                                   /\ \A k \in (i + 1) .. (j - 1) : Program[t][k] # "unlock"
      BY <1>2 DEF HoldsAt
    <2>2. \A k \in (i + 1) .. ((j + 1) - 1) : k = j \/ k \in (i + 1) .. (j - 1)
      OBVIOUS
    <2>3. i \in 1 .. ((j + 1) - 1)
      OBVIOUS
    <2> QED
      BY <1>2, <2>1, <2>2, <2>3 DEF HoldsAt
  <1>3. ASSUME HoldsAt(t, j + 1), Program[t][j] \notin LockCall
        PROVE  Program[t][j] # "unlock" /\ HoldsAt(t, j)
    <2>1. PICK i \in 1 .. ((j + 1) - 1) :
            /\ Program[t][i] \in LockCall
            /\ \A k \in (i + 1) .. ((j + 1) - 1) : Program[t][k] # "unlock"
      BY <1>3 DEF HoldsAt
    <2>2. i # j /\ i \in 1 .. (j - 1)
      BY <1>3, <2>1
    <2>3. j \in (i + 1) .. ((j + 1) - 1) /\ \A k \in (i + 1) .. (j - 1) : k \in (i + 1) .. ((j + 1) - 1)
      BY <2>2
    <2> QED
      BY <2>1, <2>2, <2>3 DEF HoldsAt
  <1> QED
    BY <1>1, <1>2, <1>3

\* t has left the critical section of its call for good.
Left(t) == pc[t] \in {"unlock", "unlockwake"} /\ ~inLoop[t]

\* What t holds, by its place in the program.
HeldOK(t) ==
  IF pc[t] # "next" /\ CallOf(t) \in LockCall
  THEN IF Left(t)
       THEN \/ held[t] = "r" /\ CallOf(t) \in {"rdlock", "tryrdlock"}
            \/ held[t] = "w" /\ CallOf(t) \in {"wrlock", "trywrlock"}
            \/ held[t] = "no" /\ CallOf(t) \in TryCall
       ELSE held[t] = "no"
  ELSE IF pc[t] # "next" /\ CallOf(t) = "unlock"
  THEN held[t] = "no" <=> pc[t] \in {"broadcast", "broadcastwake", "unlock", "unlockwake"}
  ELSE held[t] # "no" <=> HoldsAt(t, ip[t])

\* Programs that pair their calls never take the lock twice or give it back unheld.
LEMMA HeldStep ==
  ASSUME Base, \A u \in Thr : HeldOK(u), [Next]_vars
  PROVE  \A u \in Thr : HeldOK(u)'
  <1>1. CASE UNCHANGED userVars
    BY <1>1 DEF userVars, HeldOK, CallOf, Left
  <1>2. ASSUME NEW t \in Thr, Effects(t), NEW u \in Thr, u # t PROVE HeldOK(u)'
    BY <1>2, Frame DEF HeldOK, Left
  <1>3. ASSUME NEW t \in Thr, Effects(t) PROVE HeldOK(t)'
    <2>0. /\ pc \in [Thr -> Label] /\ ip \in [Thr -> Nat] /\ inLoop \in [Thr -> BOOLEAN]
          /\ held \in [Thr -> {"no", "r", "w"}] /\ Control(t) /\ HeldOK(t)
      BY DEF Base, UserTypes
    <2>f. pc[t] # "next" \/ ~Finished(t) => ip[t] \in 1 .. Len(Program[t]) /\ Len(Program[t]) \in Nat
      BY <2>0, PthreadAssumption DEF Control, Finished
    <2>p. ip[t] \in 1 .. Len(Program[t]) =>
            /\ CallOf(t) \in LockCall => ~HoldsAt(t, ip[t])
            /\ CallOf(t) = "unlock" => HoldsAt(t, ip[t])
            /\ CallOf(t) \in TryCall => Program[t][ip[t] + 1] = "unlock"
      BY PthreadAssumption DEF CallOf
    <2>c. ip'[t] = ip[t] => CallOf(t)' = CallOf(t)
      BY DEF CallOf
    <2>1. ASSUME NEW p \in Label, Passes(t, p) PROVE HeldOK(t)'
      <3>1. pc'[t] = p /\ ip'[t] = ip[t] /\ inLoop'[t] = inLoop[t] /\ held'[t] = held[t]
        BY <2>0, <2>1 DEF Passes, Goto
      <3>2. CASE pc[t] = "next"
        <4>1. held[t] # "no" <=> HoldsAt(t, ip[t])
          BY <2>0, <3>2 DEF HeldOK
        <4>2. /\ CallOf(t) \in LockCall => held[t] = "no"
              /\ CallOf(t) = "unlock" => held[t] # "no"
          BY <2>1, <2>f, <2>p, <3>2, <4>1 DEF Passes
        <4>3. p \in {"lock", "trylock", "once", "sem_wait", "sem_timedwait", "sem_post"}
          BY <2>1, <3>2 DEF Passes
        <4> QED
          BY <2>c, <3>1, <4>1, <4>2, <4>3 DEF HeldOK, Left
      <3>3. CASE pc[t] # "next"
        <4>1. p # "next" /\ (Left(t)' <=> Left(t) \/ (pc[t] = "broadcastwake" /\ ~inLoop[t]))
              /\ (p \in {"broadcast", "broadcastwake", "unlock", "unlockwake"} <=>
                    pc[t] \in {"broadcast", "broadcastwake", "unlock"} \/ (pc[t] = "unlockwake" /\ ~inLoop[t]))
          <5>1. pc[t] = "semsleep" => CallOf(t) \in {"sem_wait", "sem_timedwait"}
            BY <2>0 DEF Control
          <5> QED
            BY <2>1, <3>1, <3>3, <5>1 DEF Passes, Left
        <4>2. pc[t] = "broadcastwake" => CallOf(t) \notin LockCall
          BY <2>0 DEF Control, LockCall
        <4>3. inLoop[t] => CallOf(t) \in CondCall
          BY <2>0 DEF Control
        <4> QED
          BY <2>0, <2>c, <3>1, <3>3, <4>1, <4>2, <4>3 DEF HeldOK, CondCall, LockCall
      <3> QED
        BY <3>2, <3>3
    <2>2. ASSUME NEW n \in {1, 2}, Ends(t, n) PROVE HeldOK(t)'
      <3>1. pc'[t] = "next" /\ ip'[t] = ip[t] + n /\ held'[t] = held[t] /\ pc[t] # "next"
        BY <2>0, <2>2 DEF Ends, Finish, Goto
      <3>2. ip[t] \in Nat \ {0} /\ ip[t] + 1 \in Nat \ {0} /\ ip[t] \in 1 .. Len(Program[t])
        BY <2>f, <3>1
      <3>3. HoldsAt(t, ip[t] + 1) <=>
              CallOf(t) \in LockCall \/ (CallOf(t) # "unlock" /\ HoldsAt(t, ip[t]))
        BY <3>2, HoldsNext DEF CallOf
      <3>4. HoldsAt(t, (ip[t] + 1) + 1) <=>
              \/ Program[t][ip[t] + 1] \in LockCall
              \/ Program[t][ip[t] + 1] # "unlock" /\ HoldsAt(t, ip[t] + 1)
        BY <3>2, HoldsNext
      <3>5. CASE n = 1
        <4>1. held[t] # "no" <=> HoldsAt(t, ip[t] + 1)
          <5>1. CASE pc[t] = "unlockwake" /\ ~inLoop[t] /\ ~Busy(t)
            BY <2>0, <3>3, <5>1 DEF HeldOK, Busy, Left, TryCall
          <5>2. CASE CallOf(t) \in {"sem_wait", "sem_timedwait", "sem_post", "once"}
            BY <2>0, <3>3, <5>2 DEF HeldOK, LockCall
          <5>3. pc[t] \in {"once", "oncewake"} => CallOf(t) = "once"
            BY <2>0 DEF Control
          <5> QED
            BY <2>2, <3>5, <5>1, <5>2, <5>3 DEF Ends
        <4> QED
          BY <3>1, <3>5, <4>1 DEF HeldOK
      <3>6. CASE n = 2
        <4>1. CallOf(t) \in TryCall /\ Program[t][ip[t] + 1] = "unlock" /\ held[t] = "no"
          BY <2>0, <2>2, <2>p, <3>2, <3>6 DEF Ends, HeldOK, Left, TryCall, LockCall
        <4>2. ~HoldsAt(t, (ip[t] + 1) + 1) /\ ip'[t] = (ip[t] + 1) + 1
          BY <3>1, <3>2, <3>4, <3>6, <4>1 DEF LockCall
        <4> QED
          BY <3>1, <4>1, <4>2 DEF HeldOK
      <3> QED
        BY <3>5, <3>6
    <2>3. ASSUME Locks(t) \/ Unlock(t) \/ OnceStarts(t) \/ OnceRun(t) \/ OnceDone(t) PROVE HeldOK(t)'
      <3>1. ip'[t] = ip[t] /\ inLoop'[t] = inLoop[t] /\ held'[t] = held[t]
        BY <2>3 DEF Locks, Unlock, OnceStarts, OnceRun, OnceDone
      <3>2. \/ pc[t] \in {"lock", "trylock"} /\ pc'[t] \in {"check", "enter"}
            \/ pc[t] = "once" /\ pc'[t] = "oncerun"
            \/ pc[t] = "unlock" /\ pc'[t] = "unlockwake"
            \/ pc[t] = "oncerun" /\ pc'[t] = "oncedone"
            \/ pc[t] = "oncedone" /\ pc'[t] = "oncewake"
        BY <2>0, <2>3 DEF Locks, OnceStarts, Unlock, OnceRun, OnceDone, At, Goto
      <3> QED
        BY <2>0, <2>c, <3>1, <3>2 DEF HeldOK, Left
    <2>4. ASSUME Enter(t) PROVE HeldOK(t)'
      <3>1. pc[t] = "enter" /\ ip'[t] = ip[t] /\ inLoop'[t] = inLoop[t] /\ pc'[t] \in {"check", "broadcast"}
        BY <2>0, <2>4 DEF Enter, At, Goto
      <3>2. CASE CallOf(t) = "unlock"
        <4>1. held'[t] = "no" /\ pc'[t] = "broadcast"
          BY <2>0, <2>4, <3>2 DEF Enter, Goto
        <4> QED
          BY <2>c, <3>1, <3>2, <4>1 DEF HeldOK, LockCall
      <3>3. CASE CallOf(t) # "unlock"
        <4>1. held'[t] = held[t]
          BY <2>4, <3>3 DEF Enter
        <4> QED
          BY <2>0, <2>c, <3>1, <3>3, <4>1 DEF HeldOK, Left
      <3> QED
        BY <3>2, <3>3
    <2>5. ASSUME Check(t) PROVE HeldOK(t)'
      <3>1. pc[t] = "check" /\ pc'[t] = "unlock" /\ ip'[t] = ip[t]
            /\ (Reads(t) \/ Writes(t) \/ Released(t) \/ Waits(t) \/ Fails(t))
        BY <2>0, <2>5, CheckCases
      <3>2. CASE Reads(t)
        <4>1. held'[t] = "r" /\ ~inLoop'[t] /\ CallOf(t) \in {"rdlock", "tryrdlock"}
          BY <2>0, <3>2 DEF Reads
        <4> QED
          BY <2>c, <3>1, <4>1 DEF HeldOK, Left, LockCall
      <3>3. CASE Writes(t)
        <4>1. held'[t] = "w" /\ ~inLoop'[t] /\ CallOf(t) \in {"wrlock", "trywrlock"}
          BY <2>0, <3>3 DEF Writes
        <4> QED
          BY <2>c, <3>1, <4>1 DEF HeldOK, Left, LockCall
      <3>4. CASE Released(t)
        BY <2>0, <2>c, <3>1, <3>4 DEF Released, HeldOK, LockCall
      <3>5. CASE Waits(t)
        <4>1. held'[t] = held[t] /\ inLoop'[t] /\ CallOf(t) \in CondCall
          BY <2>0, <3>5 DEF Waits
        <4> QED
          BY <2>0, <2>c, <3>1, <4>1 DEF HeldOK, Left, LockCall, CondCall
      <3>6. CASE Fails(t)
        <4>1. held'[t] = held[t] /\ CallOf(t) \in TryCall
          BY <3>6 DEF Fails
        <4> QED
          BY <2>0, <2>c, <3>1, <4>1 DEF HeldOK, Left, LockCall, TryCall
      <3> QED
        BY <3>1, <3>2, <3>3, <3>4, <3>5, <3>6
    <2> QED
      BY <1>3, <2>1, <2>2, <2>3, <2>4, <2>5 DEF Effects
  <1> QED
    BY <1>1, <1>2, <1>3, Effect

Readers == {t \in Thr : held[t] = "r"}

\* t waits for the write hold: counted by nWritersWaiting.
Waiting(t) == ~Finished(t) /\ CallOf(t) = "wrlock" /\ (inLoop[t] \/ pc[t] = "check")
Waiters == {t \in Thr : Waiting(t)}

\* The three counters of the lock say who holds it and who waits for it.
RwOK ==
  /\ \A t \in Thr : HeldOK(t)
  /\ rw.readers = Cardinality(Readers)
  /\ rw.waiting = Cardinality(Waiters)
  /\ rw.writer = 1 <=> \E t \in Thr : held[t] = "w"
  /\ RwExclusion

\* There are finitely many threads.
LEMMA ThreadsFinite ==
  ASSUME NEW S \in SUBSET Thr
  PROVE  IsFiniteSet(S) /\ Cardinality(S) \in 0 .. NThr
  <1>1. IsFiniteSet(Thr) /\ Cardinality(Thr) = NThr
    BY PthreadAssumption, FS_Interval DEF Thr
  <1>2. IsFiniteSet(S) /\ Cardinality(S) <= Cardinality(Thr)
    BY <1>1, FS_Subset
  <1>3. Cardinality(S) \in Nat
    BY <1>2, FS_CardinalityType
  <1> QED
    BY <1>1, <1>2, <1>3, PthreadAssumption

\* A step that changes neither the lock's counters, nor a hold, nor the waiters.
LEMMA RwSame ==
  ASSUME Base, RwOK, [Next]_vars, rw' = rw, \A u \in Thr : held'[u] = held[u],
         \A u \in Thr : Waiting(u)' <=> Waiting(u)
  PROVE  RwOK'
  <1>1. Readers' = Readers /\ Waiters' = Waiters
    BY DEF Readers, Waiters
  <1>2. \A u \in Thr : HeldOK(u)'
    BY HeldStep DEF RwOK
  <1> QED
    BY <1>1, <1>2 DEF RwOK, RwExclusion

\* Every grant and every unlock moves the counters with the holds.
LEMMA RwStep == ASSUME Base, RwOK, [Next]_vars PROVE RwOK'
  <1>h. \A u \in Thr : HeldOK(u) /\ HeldOK(u)'
    BY HeldStep DEF RwOK
  <1>1. CASE UNCHANGED userVars
    BY <1>1, RwSame DEF userVars, Waiting, CallOf, Finished
  <1>2. ASSUME NEW t \in Thr, Effects(t) PROVE RwOK'
    <2>0. /\ pc \in [Thr -> Label] /\ ip \in [Thr -> Nat] /\ inLoop \in [Thr -> BOOLEAN]
          /\ held \in [Thr -> {"no", "r", "w"}] /\ Control(t) /\ HeldOK(t)
          /\ rw \in [readers : Nat, writer : 0 .. 1, waiting : Int]
      BY <1>h DEF Base, UserTypes
    <2>f. \A u \in Thr : u # t => held'[u] = held[u] /\ (Waiting(u)' <=> Waiting(u))
      BY <1>2, Frame DEF Waiting
    <2>s. ASSUME rw' = rw, held'[t] = held[t], Waiting(t)' <=> Waiting(t) PROVE RwOK'
      BY <2>f, <2>s, RwSame
    <2>c. ip'[t] = ip[t] => CallOf(t)' = CallOf(t) /\ Finished(t)' = Finished(t)
      BY DEF CallOf, Finished
    <2>n. Cardinality(Readers) \in Nat /\ Cardinality(Waiters) \in Nat
          /\ IsFiniteSet(Readers) /\ IsFiniteSet(Waiters)
      BY ThreadsFinite DEF Readers, Waiters
    <2>1. ASSUME NEW p \in Label, Passes(t, p) PROVE RwOK'
      <3>1. pc'[t] = p /\ ip'[t] = ip[t] /\ inLoop'[t] = inLoop[t] /\ held' = held /\ rw' = rw
        BY <2>0, <2>1 DEF Passes, Goto
      <3>2. p # "check" /\ pc[t] # "check"
        <4>1. pc[t] = "semsleep" => CallOf(t) \in {"sem_wait", "sem_timedwait"}
          BY <2>0 DEF Control
        <4> QED
          BY <2>1, <4>1 DEF Passes
      <3> QED
        BY <2>c, <2>s, <3>1, <3>2 DEF Waiting
    <2>2. ASSUME NEW n \in {1, 2}, Ends(t, n) PROVE RwOK'
      <3>1. pc'[t] = "next" /\ ~inLoop'[t] /\ held' = held /\ rw' = rw
        BY <2>0, <2>2 DEF Ends, Finish, Goto
      <3>2. ~Waiting(t)
        <4>1. pc[t] \in {"once", "oncewake"} => CallOf(t) = "once"
          BY <2>0 DEF Control
        <4> QED
          BY <2>2, <4>1 DEF Ends, Waiting, TryCall
      <3> QED
        BY <2>s, <3>1, <3>2 DEF Waiting
    <2>3. ASSUME Locks(t) \/ Unlock(t) \/ OnceStarts(t) \/ OnceRun(t) \/ OnceDone(t) PROVE RwOK'
      <3>1. ip'[t] = ip[t] /\ inLoop'[t] = inLoop[t] /\ held' = held /\ rw' = rw
        BY <2>3 DEF Locks, Unlock, OnceStarts, OnceRun, OnceDone
      <3>2. pc[t] # "check" /\ (pc'[t] = "check" => inLoop[t] \/ pc[t] = "trylock")
        BY <2>0, <2>3 DEF Locks, OnceStarts, Unlock, OnceRun, OnceDone, At, Goto
      <3>3. pc[t] = "trylock" => CallOf(t) # "wrlock"
        BY <2>0 DEF Control, TryCall
      <3> QED
        BY <2>c, <2>s, <3>1, <3>2, <3>3 DEF Waiting
    <2>4. ASSUME Enter(t) PROVE RwOK'
      <3>1. /\ pc[t] = "enter" /\ ip'[t] = ip[t] /\ inLoop'[t] = inLoop[t] /\ ~inLoop[t]
            /\ pc'[t] \in {"check", "broadcast"} /\ ~Finished(t) /\ ~Waiting(t)
        BY <2>0, <2>4 DEF Enter, At, Goto, Control, Waiting
      <3>2. CASE CallOf(t) \in {"rdlock", "barrier"}
        <4>1. rw' = rw /\ held' = held
          BY <2>4, <3>2 DEF Enter
        <4> QED
          BY <2>c, <2>s, <3>1, <3>2, <4>1 DEF Waiting
      <3>3. CASE CallOf(t) = "wrlock"
        <4>1. rw' = [rw EXCEPT !.waiting = @ + 1] /\ held' = held /\ pc'[t] = "check"
          BY <2>0, <2>4, <3>3 DEF Enter, Goto
        <4>2. Waiters' = Waiters \cup {t} /\ t \notin Waiters /\ Readers' = Readers
          BY <2>c, <2>f, <3>1, <3>3, <4>1 DEF Waiters, Waiting, Readers
        <4>3. Cardinality(Waiters') = Cardinality(Waiters) + 1
          BY <2>n, <4>2, FS_AddElement
        <4>4. rw'.waiting = rw.waiting + 1 /\ rw'.readers = rw.readers /\ rw'.writer = rw.writer
          BY <2>0, <4>1
        <4> QED
          BY <1>h, <4>1, <4>2, <4>3, <4>4 DEF RwOK, RwExclusion
      <3>4. CASE CallOf(t) = "unlock"
        <4>1. held' = [held EXCEPT ![t] = "no"] /\ held[t] # "no"
          BY <2>0, <2>4, <3>1, <3>4 DEF Enter, HeldOK, LockCall
        <4>2. rw' = IF rw.writer # 0 THEN [rw EXCEPT !.writer = 0]
                    ELSE IF rw.readers > 0 THEN [rw EXCEPT !.readers = @ - 1] ELSE rw
          BY <2>4, <3>4 DEF Enter
        <4>3. Waiters' = Waiters
          BY <2>c, <2>f, <3>1, <3>4 DEF Waiters, Waiting
        <4>4. CASE held[t] = "w"
          <5>1. rw.writer = 1 /\ \A u \in Thr : u # t => held[u] = "no"
            BY <2>0, <4>4 DEF RwOK, RwExclusion
          <5>2. rw'.writer = 0 /\ rw'.readers = rw.readers /\ rw'.waiting = rw.waiting
            BY <2>0, <4>2, <5>1
          <5>3. Readers' = Readers /\ \A u \in Thr : held'[u] = "no"
            BY <2>0, <4>1, <4>4, <5>1 DEF Readers
          <5> QED
            BY <1>h, <4>3, <5>2, <5>3 DEF RwOK, RwExclusion
        <4>5. CASE held[t] = "r"
          <5>1. rw.writer = 0 /\ \A u \in Thr : held[u] # "w"
            BY <2>0, <4>5 DEF RwOK, RwExclusion
          <5>2. t \in Readers /\ Readers' = Readers \ {t}
            BY <2>0, <4>1, <4>5 DEF Readers
          <5>3. Cardinality(Readers') = Cardinality(Readers) - 1 /\ Cardinality(Readers) # 0
            BY <2>n, <5>2, FS_RemoveElement, FS_EmptySet
          <5>4. rw'.writer = 0 /\ rw'.readers = rw.readers - 1 /\ rw'.waiting = rw.waiting
            BY <2>0, <2>n, <4>2, <5>1, <5>3 DEF RwOK
          <5>5. \A u \in Thr : held'[u] # "w"
            BY <2>0, <4>1, <5>1
          <5> QED
            BY <1>h, <4>3, <5>3, <5>4, <5>5 DEF RwOK, RwExclusion
        <4> QED
          BY <2>0, <4>1, <4>4, <4>5
      <3> QED
        BY <2>0, <3>1, <3>2, <3>3, <3>4 DEF Control, CondCall
    <2>5. ASSUME Check(t) PROVE RwOK'
      <3>1. /\ pc[t] = "check" /\ pc'[t] = "unlock" /\ ip'[t] = ip[t] /\ ~Finished(t)
            /\ (Reads(t) \/ Writes(t) \/ Released(t) \/ Waits(t) \/ Fails(t))
        BY <2>0, <2>5, CheckCases DEF Control
      <3>2. CallOf(t) \in LockCall => held[t] = "no"
        BY <2>0, <3>1 DEF HeldOK, Left
      <3>3. CASE Reads(t)
        <4>1. /\ held' = [held EXCEPT ![t] = "r"] /\ rw' = [rw EXCEPT !.readers = @ + 1]
              /\ rw.writer = 0 /\ CallOf(t) \in {"rdlock", "tryrdlock"}
          BY <3>3 DEF Reads, MayRead
        <4>2. held[t] = "no" /\ Waiters' = Waiters
          BY <2>c, <2>f, <3>1, <3>2, <4>1 DEF Waiters, Waiting, LockCall
        <4>3. Readers' = Readers \cup {t} /\ t \notin Readers
          BY <2>0, <4>1, <4>2 DEF Readers
        <4>4. Cardinality(Readers') = Cardinality(Readers) + 1
          BY <2>n, <4>3, FS_AddElement
        <4>5. rw'.readers = rw.readers + 1 /\ rw'.waiting = rw.waiting /\ rw'.writer = 0
          BY <2>0, <4>1
        <4>6. \A u \in Thr : held'[u] # "w"
          BY <2>0, <4>1 DEF RwOK
        <4> QED
          BY <1>h, <4>2, <4>4, <4>5, <4>6 DEF RwOK, RwExclusion
      <3>4. CASE Writes(t)
        <4>1. /\ held' = [held EXCEPT ![t] = "w"] /\ inLoop' = [inLoop EXCEPT ![t] = FALSE]
              /\ rw.writer = 0 /\ rw.readers = 0 /\ CallOf(t) \in {"wrlock", "trywrlock"}
          BY <3>4 DEF Writes, MayWrite
        <4>2. \A u \in Thr : held[u] = "no"
          <5>1. Readers = {}
            BY <2>n, <4>1, FS_EmptySet DEF RwOK
          <5> QED
            BY <2>0, <4>1, <5>1 DEF RwOK, Readers
        <4>3. Readers' = Readers /\ \A u \in Thr : held'[u] = IF u = t THEN "w" ELSE "no"
          BY <2>0, <4>1, <4>2 DEF Readers
        <4>4. rw'.writer = 1 /\ rw'.readers = rw.readers
              /\ rw'.waiting = IF CallOf(t) = "wrlock" THEN rw.waiting - 1 ELSE rw.waiting
          BY <2>0, <3>4 DEF Writes
        <4>5. rw'.waiting = Cardinality(Waiters')
          <5>1. CASE CallOf(t) = "wrlock"
            <6>1. t \in Waiters /\ Waiters' = Waiters \ {t}
              BY <2>0, <2>f, <3>1, <4>1, <5>1 DEF Waiters, Waiting
            <6>2. Cardinality(Waiters') = Cardinality(Waiters) - 1
              BY <2>n, <6>1, FS_RemoveElement
            <6> QED
              BY <4>4, <5>1, <6>2 DEF RwOK
          <5>2. CASE CallOf(t) # "wrlock"
            <6>1. Waiters' = Waiters
              BY <2>c, <2>f, <3>1, <5>2 DEF Waiters, Waiting
            <6> QED
              BY <4>4, <5>2, <6>1 DEF RwOK
          <5> QED
            BY <5>1, <5>2
        <4> QED
          BY <1>h, <4>3, <4>4, <4>5 DEF RwOK, RwExclusion
      <3>5. CASE Released(t) \/ Fails(t)
        <4>1. rw' = rw /\ held' = held /\ CallOf(t) # "wrlock"
          BY <3>5 DEF Released, Fails, TryCall
        <4> QED
          BY <2>c, <2>s, <3>1, <4>1 DEF Waiting
      <3>6. CASE Waits(t)
        <4>1. rw' = rw /\ held' = held /\ inLoop'[t]
          BY <2>0, <3>6 DEF Waits
        <4> QED
          BY <2>c, <2>s, <3>1, <4>1 DEF Waiting
      <3> QED
        BY <3>1, <3>3, <3>4, <3>5, <3>6
    <2> QED
      BY <1>2, <2>1, <2>2, <2>3, <2>4, <2>5 DEF Effects
  <1> QED
    BY <1>1, <1>2, Effect

----------------------------------------------------------------------------
(* What holds in every reachable state *)

IInv == Base /\ MutexOK /\ OnceOK /\ RwOK

\* Nobody holds, waits or runs at the start.
LEMMA InitIInv == Init => IInv
  <1> SUFFICES ASSUME Init PROVE IInv
    OBVIOUS
  <1>0. \A t \in Thr : pc[t] = "next" /\ ip[t] = 1 /\ ~inLoop[t] /\ held[t] = "no"
    BY DEF Init
  <1>1. MutexOK
    BY <1>0 DEF Init, MutexOK, Inside, Word
  <1>2. OnceOK
    <2>1. \A t \in Thr : ~Running(t) /\ ~Returned(t)
      BY <1>0 DEF Running, Returned
    <2> QED
      BY <1>0, <2>1 DEF Init, OnceOK, Word
  <1>3. RwOK
    <2>1. \A t \in Thr : HeldOK(t)
      BY <1>0 DEF HeldOK, HoldsAt
    <2>2. Readers = {} /\ Waiters = {}
      BY <1>0 DEF Readers, Waiters, Waiting
    <2> QED
      BY <1>0, <2>1, <2>2, FS_EmptySet DEF Init, RwOK, RwExclusion
  <1> QED
    BY <1>1, <1>2, <1>3, BaseInit DEF IInv

\* The inductive invariant of the primitives.
THEOREM Invariance == Spec => []IInv
  <1>1. IInv /\ [Next]_vars => IInv'
    BY BaseStep, MutexStep, OnceStep, RwStep DEF IInv
  <1> QED
    BY <1>1, InitIInv, PTL DEF Spec

\* Types: the mutex words stay 0 or 1, and the unsigned counters of the lock stay
\* between 0 and the number of threads, though the code only adds and subtracts.
THEOREM TypeCorrect == Spec => []TypeOK
  <1>1. IInv => TypeOK
    <2> SUFFICES ASSUME IInv PROVE TypeOK
      OBVIOUS
    <2>1. UserTypes /\ MutexOK /\ \A t \in Thr : Control(t)
      BY DEF IInv, Base
    <2>2. rw.readers \in 0 .. NThr /\ rw.waiting \in 0 .. NThr
      BY ThreadsFinite DEF IInv, RwOK, Readers, Waiters
    <2>3. rw \in [readers : 0 .. NThr, writer : 0 .. 1, waiting : 0 .. NThr]
      BY <2>1, <2>2 DEF UserTypes
    <2> QED
      BY <2>1, <2>3 DEF TypeOK, UserTypes, MutexOK, Control
  <1> QED
    BY <1>1, Invariance, PTL

\* pthread_mutex_lock and pthread_mutex_unlock: a mutex has at most one owner, in
\* all the code between them.  This is what allows a critical section that touches
\* only the data its mutex protects to be one step of the model.
THEOREM MutexCorrect == Spec => []MutexOK
  BY Invariance, PTL DEF IInv

\* pthread_rwlock_unlock decides by nWriter whose hold it ends; still a writer is
\* always alone.
THEOREM RwCorrect == Spec => []RwExclusion
  <1>1. IInv => RwExclusion
    BY DEF IInv, RwOK
  <1> QED
    BY <1>1, Invariance, PTL

\* pthread_rwlock_rdlock and tryrdlock: no read hold is granted while a writer
\* sleeps for the lock.
THEOREM PreferredCorrect == Spec => WriterPreferred
  <1> DEFINE Prefer == \A t \in Thr : held[t] = "no" /\ held'[t] = "r" =>
                         \A u \in Thr : ~(inLoop[u] /\ CallOf(u) = "wrlock")
  <1>1. IInv /\ [Next]_vars => [Prefer]_vars
    <2> SUFFICES ASSUME IInv, [Next]_vars, NEW t \in Thr, held[t] = "no", held'[t] = "r",
                        NEW u \in Thr, inLoop[u], CallOf(u) = "wrlock"
                 PROVE  FALSE
      OBVIOUS
    <2>0. Base /\ RwOK /\ held \in [Thr -> {"no", "r", "w"}]
      BY DEF IInv, Base, UserTypes
    <2>1. PICK v \in Thr : Effects(v)
      BY <2>0, Effect DEF userVars
    <2>2. v = t
      BY <2>0, <2>1, Frame
    <2>3. Check(t)
      <3>1. Enter(t) => held' = held \/ held'[t] = "no"
        BY <2>0 DEF Enter
      <3> QED
        BY <2>1, <2>2, <3>1
        DEF Effects, Passes, Ends, Locks, Unlock, OnceStarts, OnceRun, OnceDone
    <2>4. Reads(t)
      BY <2>0, <2>3, CheckCases DEF Reads, Writes, Released, Waits, Fails
    <2>5. u \in Waiters
      BY <2>0 DEF Waiters, Waiting, Base, Control
    <2>6. Waiters = {}
      BY <2>0, <2>4, ThreadsFinite, FS_EmptySet DEF Reads, MayRead, RwOK, Waiters
    <2> QED
      BY <2>5, <2>6
  <1> QED
    BY <1>1, Invariance, PTL DEF Spec, WriterPreferred

\* pthread_once: the routine runs once, and before any caller returns.
THEOREM OnceCorrect == Spec => []OnceRuns
  <1>1. IInv => OnceRuns
    BY DEF IInv, OnceOK, OnceRuns, Returned
  <1> QED
    BY <1>1, Invariance, PTL

----------------------------------------------------------------------------
(* The barrier *)

\* The threads whose program comes to the barrier.
Participants == {t \in Thr : \E j \in 1 .. Len(Program[t]) : Program[t][j] = "barrier"}

\* t has arrived at a round and has not returned from it.
InRound(t) ==
  /\ ~Finished(t) /\ CallOf(t) = "barrier"
  /\ inLoop[t] \/ pc[t] \in {"check", "broadcast", "broadcastwake", "unlock", "unlockwake"}

\* t completed the round, or saw that another thread did.
Through(t) == pc[t] \in {"broadcast", "broadcastwake"} \/ Left(t)

\* The threads counted by uCount: arrived at the round that is open.
Came == {t \in Participants : Arrived(t) = bar.gen + 1}

\* Where t is, compared with the round the barrier is in.
RoundOK(t) ==
  /\ Arrived(t) \in {bar.gen, bar.gen + 1}
  /\ Passed(t) <= bar.gen
  /\ InRound(t) => gen[t] = Passed(t)
  /\ InRound(t) /\ Through(t) => Arrived(t) <= bar.gen

BarOK ==
  /\ \A t \in Participants : RoundOK(t)
  /\ bar.count = Cardinality(Came)
  /\ bar.gen > 0 => Cardinality(Participants) >= Trip

\* A program has finitely many rounds before its i-th call.
LEMMA RoundsBefore ==
  ASSUME NEW t \in Thr, NEW i \in Nat
  PROVE  Cardinality({j \in 1 .. i - 1 : Program[t][j] = "barrier"}) \in Nat
  <1>1. IsFiniteSet(1 .. i - 1)
    BY FS_Interval
  <1> QED
    BY <1>1, FS_Subset, FS_CardinalityType

\* Both counts of rounds are numbers, one apart inside a round.
LEMMA Rounds ==
  ASSUME ip \in [Thr -> Nat], NEW t \in Thr
  PROVE  Passed(t) \in Nat /\ Arrived(t) = Passed(t) + (IF InRound(t) THEN 1 ELSE 0)
  BY RoundsBefore DEF Passed, Arrived, InRound

\* The same after a step.
LEMMA RoundsNext ==
  ASSUME ip' \in [Thr -> Nat], NEW t \in Thr
  PROVE  Passed(t)' \in Nat /\ Arrived(t)' = Passed(t)' + (IF InRound(t)' THEN 1 ELSE 0)
  <1>1. ip'[t] \in Nat
    OBVIOUS
  <1>2. Passed(t)' \in Nat
    BY <1>1, RoundsBefore DEF Passed
  <1>3. Arrived(t)' = Passed(t)' + (IF InRound(t)' THEN 1 ELSE 0)
    BY DEF Arrived, InRound
  <1> QED
    BY <1>2, <1>3

\* A return adds one to the rounds passed if the call is the barrier's.
LEMMA PassedNext ==
  ASSUME Base, NEW t \in Thr, NEW n \in {1, 2}, Ends(t, n)
  PROVE  Passed(t)' = Passed(t) + (IF CallOf(t) = "barrier" THEN 1 ELSE 0)
  <1> DEFINE Before == {j \in 1 .. ip[t] - 1 : Program[t][j] = "barrier"}
  <1>1. ip'[t] = ip[t] + n /\ ip[t] \in Nat /\ ip[t] \in 1 .. Len(Program[t])
    BY DEF Ends, Finish, Base, UserTypes, Control, Finished
  <1>2. n = 2 => CallOf(t) \in TryCall /\ Program[t][ip[t] + 1] = "unlock"
    BY <1>1, PthreadAssumption, SMTT(30) DEF Ends, CallOf
  <1>3. {j \in 1 .. (ip[t] + n) - 1 : Program[t][j] = "barrier"}
          = Before \cup {j \in {ip[t]} : CallOf(t) = "barrier"}
    <2>1. ASSUME NEW j \in 1 .. (ip[t] + n) - 1, Program[t][j] = "barrier"
          PROVE  j \in Before \/ j = ip[t]
      <3>1. j \in 1 .. ip[t] - 1 \/ j = ip[t] \/ (n = 2 /\ j = ip[t] + 1)
        BY <1>1
      <3> QED
        BY <1>2, <2>1, <3>1
    <2>2. ip[t] \in 1 .. (ip[t] + n) - 1 /\ \A j \in 1 .. ip[t] - 1 : j \in 1 .. (ip[t] + n) - 1
      BY <1>1
    <2> QED
      BY <2>1, <2>2 DEF CallOf
  <1>4. IsFiniteSet(Before) /\ ip[t] \notin Before /\ Cardinality(Before) \in Nat
    <2>1. ip[t] - 1 \in Int /\ ip[t] \notin 1 .. ip[t] - 1
      BY <1>1
    <2>2. IsFiniteSet(1 .. ip[t] - 1)
      BY <2>1, FS_Interval
    <2> QED
      BY <2>1, <2>2, FS_Subset, FS_CardinalityType
  <1>5. Passed(t) = Cardinality(Before)
    BY DEF Passed
  <1>6. Passed(t)' = Cardinality(Before \cup {j \in {ip[t]} : CallOf(t) = "barrier"})
    BY <1>1, <1>3 DEF Passed
  <1> HIDE DEF Before
  <1>7. CASE CallOf(t) = "barrier"
    <2>1. {j \in {ip[t]} : CallOf(t) = "barrier"} = {ip[t]}
      BY <1>7
    <2>2. Cardinality(Before \cup {ip[t]}) = Cardinality(Before) + 1
      BY <1>4, FS_AddElement
    <2>3. Passed(t)' = Passed(t) + 1
      BY <1>5, <1>6, <2>1, <2>2
    <2> QED
      BY <1>7, <2>3
  <1>8. CASE CallOf(t) # "barrier"
    <2>1. Before \cup {j \in {ip[t]} : CallOf(t) = "barrier"} = Before
      BY <1>8
    <2>2. Passed(t)' = Passed(t) /\ Passed(t) \in Nat
      BY <1>4, <1>5, <1>6, <2>1
    <2> QED
      BY <1>8, <2>2
  <1> QED
    BY <1>7, <1>8

\* A step that neither opens nor closes a round, and lets t through only if t
\* already saw the round complete.
LEMMA BarSame ==
  ASSUME Base, Base', BarOK, NEW t \in Thr, Effects(t), bar' = bar,
         Arrived(t)' = Arrived(t), Passed(t)' <= bar.gen \/ Passed(t)' = Passed(t),
         InRound(t)' => InRound(t) /\ gen'[t] = gen[t] /\ Passed(t)' = Passed(t),
         InRound(t)' /\ Through(t)' => Arrived(t) <= bar.gen
  PROVE  BarOK'
  <1>1. ASSUME NEW u \in Thr, u # t
        PROVE  /\ Passed(u)' = Passed(u) /\ Arrived(u)' = Arrived(u) /\ gen'[u] = gen[u]
               /\ (InRound(u)' <=> InRound(u)) /\ (Through(u)' <=> Through(u))
    BY <1>1, Frame DEF Passed, Arrived, InRound, Through, Left
  <1>2. ASSUME NEW u \in Participants PROVE RoundOK(u)'
    <2>1. u \in Thr /\ RoundOK(u)
      BY <1>2 DEF Participants, BarOK
    <2> QED
      BY <1>1, <2>1 DEF RoundOK
  <1>3. Came' = Came
    BY <1>1 DEF Came, Participants
  <1> QED
    BY <1>2, <1>3 DEF BarOK, Participants

\* One more thread arrives: the last one finds all the others in the round.
LEMMA BarArrive ==
  ASSUME Cardinality(Participants) <= Trip, Base, Base', BarOK,
         NEW t \in Thr, Enter(t), CallOf(t) = "barrier"
  PROVE  BarOK'
  <1>0. /\ pc \in [Thr -> Label] /\ gen \in [Thr -> Nat] /\ Trip \in Nat \ {0}
        /\ bar \in [count : 0 .. Trip - 1, gen : Nat]
    BY PthreadAssumption DEF Base, UserTypes
  <1>1. /\ pc[t] = "enter" /\ ~inLoop[t] /\ ~Finished(t) /\ UNCHANGED <<ip, inLoop>>
        /\ CallOf(t)' = CallOf(t) /\ Finished(t)' = Finished(t) /\ gen' = [gen EXCEPT ![t] = bar.gen]
    BY DEF Enter, At, Base, Control, CallOf, Finished
  <1>2. t \in Participants
    BY <1>1, PthreadAssumption DEF Participants, CallOf, Base, Control, Finished
  <1>3. Passed(t)' = Passed(t) /\ Passed(t) = bar.gen /\ Arrived(t) = bar.gen
    <2>1. RoundOK(t) /\ ~InRound(t)
      BY <1>1, <1>2 DEF BarOK, InRound
    <2>2. Passed(t) \in Nat /\ Arrived(t) = Passed(t)
      BY <2>1, Rounds DEF Base, UserTypes
    <2> QED
      BY <1>0, <1>1, <2>1, <2>2 DEF RoundOK, Passed
  <1>4. InRound(t)' /\ Arrived(t)' = bar.gen + 1
    <2>1. pc'[t] \in {"check", "broadcast"}
      BY <1>0 DEF Enter, Goto
    <2>2. InRound(t)'
      BY <1>1, <2>1 DEF InRound
    <2>3. Arrived(t)' = Passed(t)' + (IF InRound(t)' THEN 1 ELSE 0)
      BY RoundsNext DEF Base, UserTypes
    <2> QED
      BY <1>3, <2>2, <2>3
  <1>5. ASSUME NEW u \in Thr, u # t
        PROVE  /\ Passed(u)' = Passed(u) /\ Arrived(u)' = Arrived(u) /\ gen'[u] = gen[u]
               /\ (InRound(u)' <=> InRound(u)) /\ (Through(u)' <=> Through(u))
    <2>1. Effects(t)
      BY DEF Effects
    <2> QED
      BY <1>5, <2>1, Frame DEF Passed, Arrived, InRound, Through, Left
  <1>6. /\ Participants \subseteq Thr /\ IsFiniteSet(Participants) /\ IsFiniteSet(Came)
        /\ Cardinality(Participants) \in Nat /\ Cardinality(Came) \in Nat
    BY ThreadsFinite DEF Participants, Came
  <1>7. t \notin Came /\ Came \cup {t} \subseteq Participants
    BY <1>0, <1>2, <1>3 DEF Came
  <1>8. Cardinality(Came \cup {t}) = bar.count + 1 /\ IsFiniteSet(Came \cup {t})
    BY <1>6, <1>7, FS_AddElement DEF BarOK
  <1>9. CASE ~Trips
    <2>1. bar' = [bar EXCEPT !.count = @ + 1] /\ pc'[t] = "check"
      BY <1>0, <1>9 DEF Enter, Goto
    <2>2. bar'.gen = bar.gen /\ bar'.count = bar.count + 1
      BY <1>0, <2>1
    <2>3. Came' = Came \cup {t}
      BY <1>2, <1>4, <1>5, <1>6, <2>2 DEF Came, Participants
    <2>4. RoundOK(t)'
      <3>1. ~Through(t)'
        BY <2>1 DEF Through, Left
      <3> QED
        BY <1>0, <1>1, <1>3, <1>4, <2>2, <3>1 DEF RoundOK
    <2>5. ASSUME NEW u \in Participants PROVE RoundOK(u)'
      BY <1>5, <1>6, <2>2, <2>4 DEF BarOK, RoundOK
    <2> QED
      BY <1>8, <2>2, <2>3, <2>5 DEF BarOK, Participants
  <1>10. CASE Trips
    <2>1. bar' = [count |-> 0, gen |-> bar.gen + 1]
      BY <1>10 DEF Enter
    <2>2. bar'.gen = bar.gen + 1 /\ bar'.count = 0
      BY <2>1
    <2>3. bar.count + 1 >= Trip
      BY <1>10 DEF Trips
    <2>4. Cardinality(Came \cup {t}) <= Cardinality(Participants)
          /\ (Cardinality(Participants) = Cardinality(Came \cup {t}) => Participants = Came \cup {t})
      BY <1>6, <1>7, FS_Subset
    <2>5. Participants = Came \cup {t} /\ Cardinality(Participants) >= Trip
      BY <1>0, <1>6, <1>8, <2>3, <2>4
    <2>6. ASSUME NEW u \in Participants PROVE RoundOK(u)' /\ Arrived(u)' = bar.gen + 1
      <3>1. CASE u = t
        BY <1>0, <1>1, <1>3, <1>4, <2>2, <3>1 DEF RoundOK
      <3>2. CASE u # t
        <4>1. u \in Thr /\ Arrived(u) = bar.gen + 1 /\ RoundOK(u)
          BY <1>6, <2>5, <3>2 DEF Came, BarOK
        <4>2. Passed(u) \in Nat
          BY <4>1, Rounds DEF Base, UserTypes
        <4> QED
          BY <1>0, <1>5, <2>2, <3>2, <4>1, <4>2 DEF RoundOK
      <3> QED
        BY <3>1, <3>2
    <2>7. Came' = {}
      BY <1>0, <2>2, <2>6 DEF Came, Participants
    <2> QED
      BY <2>2, <2>5, <2>6, <2>7, FS_EmptySet DEF BarOK, Participants
  <1> QED
    BY <1>9, <1>10

\* Every step keeps the count of the open round and the rounds of the threads.
LEMMA BarStep ==
  ASSUME Cardinality(Participants) <= Trip, Base, BarOK, [Next]_vars
  PROVE  BarOK'
  <1>b. Base'
    BY BaseStep
  <1>1. CASE UNCHANGED userVars
    BY <1>1 DEF userVars, BarOK, Came, Participants, RoundOK, Arrived, Passed, InRound, Through,
                Left, CallOf, Finished
  <1>2. ASSUME NEW t \in Thr, Effects(t) PROVE BarOK'
    <2>0. /\ pc \in [Thr -> Label] /\ ip \in [Thr -> Nat] /\ inLoop \in [Thr -> BOOLEAN]
          /\ gen \in [Thr -> Nat] /\ Control(t) /\ bar.gen \in Nat
      BY DEF Base, UserTypes
    <2>a. /\ Passed(t) \in Nat /\ Arrived(t) = Passed(t) + (IF InRound(t) THEN 1 ELSE 0)
          /\ Passed(t)' \in Nat /\ Arrived(t)' = Passed(t)' + (IF InRound(t)' THEN 1 ELSE 0)
      BY <1>b, Rounds, RoundsNext DEF Base, UserTypes
    <2>p. InRound(t) => t \in Participants /\ RoundOK(t)
      BY <2>0, PthreadAssumption DEF InRound, Participants, CallOf, Control, Finished, BarOK
    <2>c. ip'[t] = ip[t] => CallOf(t)' = CallOf(t) /\ Finished(t)' = Finished(t) /\ Passed(t)' = Passed(t)
      BY DEF CallOf, Finished, Passed
    <2>s. ASSUME bar' = bar, ip'[t] = ip[t], InRound(t)' <=> InRound(t),
                 InRound(t)' => gen'[t] = gen[t], InRound(t)' /\ Through(t)' => Arrived(t) <= bar.gen
          PROVE  BarOK'
      BY <1>2, <1>b, <2>a, <2>c, <2>s, BarSame
    <2>1. ASSUME NEW p \in Label, Passes(t, p) PROVE BarOK'
      <3>1. pc'[t] = p /\ ip'[t] = ip[t] /\ inLoop'[t] = inLoop[t] /\ bar' = bar /\ gen' = gen
        BY <2>0, <2>1 DEF Passes, Goto
      <3>2. CASE CallOf(t) = "barrier"
        <4>1. \/ pc[t] \in {"next", "lock", "lockwait", "condwait"} /\ p \in {"lock", "lockwait"}
              \/ pc[t] = "unlockwake" /\ inLoop[t] /\ p = "condwait"
              \/ pc[t] = "broadcast" /\ p = "broadcastwake"
              \/ pc[t] = "broadcastwake" /\ p = "unlock"
          BY <2>0, <2>1, <3>2 DEF Passes, Control, TryCall
        <4>2. (InRound(t)' <=> InRound(t)) /\ (Through(t)' => Through(t))
          BY <2>0, <2>c, <3>1, <4>1 DEF InRound, Through, Left, Control
        <4> QED
          BY <2>p, <2>s, <3>1, <4>2 DEF RoundOK
      <3>3. CASE CallOf(t) # "barrier"
        BY <2>c, <2>s, <3>1, <3>3 DEF InRound
      <3> QED
        BY <3>2, <3>3
    <2>2. ASSUME NEW n \in {1, 2}, Ends(t, n) PROVE BarOK'
      <3>1. pc'[t] = "next" /\ ~inLoop'[t] /\ bar' = bar
        BY <2>0, <2>2 DEF Ends, Finish, Goto
      <3>2. ~InRound(t)' /\ Passed(t)' = Passed(t) + (IF CallOf(t) = "barrier" THEN 1 ELSE 0)
        BY <2>2, <3>1, PassedNext DEF InRound
      <3>3. CASE CallOf(t) = "barrier"
        <4>1. pc[t] = "unlockwake" /\ ~inLoop[t] /\ ~Finished(t)
          BY <2>0, <2>2, <3>3 DEF Ends, Control, TryCall
        <4>2. InRound(t) /\ Through(t)
          BY <3>3, <4>1 DEF InRound, Through, Left
        <4>3. Passed(t)' = Arrived(t) /\ Arrived(t)' = Arrived(t) /\ Arrived(t) <= bar.gen
          BY <2>a, <2>p, <3>2, <3>3, <4>2 DEF RoundOK
        <4> QED
          BY <1>2, <1>b, <3>1, <3>2, <4>3, BarSame
      <3>4. CASE CallOf(t) # "barrier"
        <4>1. Passed(t)' = Passed(t) /\ Arrived(t)' = Arrived(t)
          BY <2>a, <3>2, <3>4 DEF InRound
        <4> QED
          BY <1>2, <1>b, <3>1, <3>2, <4>1, BarSame
      <3> QED
        BY <3>3, <3>4
    <2>3. ASSUME Locks(t) \/ Unlock(t) \/ OnceStarts(t) \/ OnceRun(t) \/ OnceDone(t) PROVE BarOK'
      <3>1. ip'[t] = ip[t] /\ inLoop'[t] = inLoop[t] /\ bar' = bar /\ gen' = gen
        BY <2>3 DEF Locks, Unlock, OnceStarts, OnceRun, OnceDone
      <3>2. \/ pc[t] = "lock" /\ pc'[t] = IF inLoop[t] THEN "check" ELSE "enter"
            \/ pc[t] = "unlock" /\ pc'[t] = "unlockwake"
            \/ pc[t] \in {"trylock", "once", "oncerun", "oncedone"}
        BY <2>0, <2>3 DEF Locks, OnceStarts, Unlock, OnceRun, OnceDone, At, Goto
      <3>3. CASE CallOf(t) = "barrier"
        <4>1. (InRound(t)' <=> InRound(t)) /\ (Through(t)' => Through(t))
          BY <2>0, <2>c, <3>1, <3>2, <3>3 DEF InRound, Through, Left, Control, TryCall
        <4> QED
          BY <2>p, <2>s, <3>1, <4>1 DEF RoundOK
      <3>4. CASE CallOf(t) # "barrier"
        BY <2>c, <2>s, <3>1, <3>4 DEF InRound
      <3> QED
        BY <3>3, <3>4
    <2>4. ASSUME Enter(t), CallOf(t) # "barrier" PROVE BarOK'
      <3>1. ip'[t] = ip[t] /\ bar' = bar /\ gen' = gen
        BY <2>4 DEF Enter
      <3> QED
        BY <2>4, <2>c, <2>s, <3>1 DEF InRound
    <2>5. ASSUME Check(t) PROVE BarOK'
      <3>1. /\ pc[t] = "check" /\ pc'[t] = "unlock" /\ UNCHANGED <<bar, ip, gen>>
            /\ (Reads(t) \/ Writes(t) \/ Released(t) \/ Waits(t) \/ Fails(t))
        BY <2>0, <2>5, CheckCases
      <3>2. CASE CallOf(t) # "barrier"
        BY <2>c, <2>s, <3>1, <3>2 DEF InRound
      <3>3. CASE CallOf(t) = "barrier" /\ Released(t)
        <4>1. InRound(t) /\ InRound(t)' /\ bar.gen # gen[t]
          BY <2>0, <2>c, <3>1, <3>3 DEF InRound, Control, Released
        <4>2. Arrived(t) <= bar.gen
          BY <2>0, <2>a, <2>p, <4>1 DEF RoundOK
        <4> QED
          BY <2>s, <3>1, <4>1, <4>2
      <3>4. CASE CallOf(t) = "barrier" /\ Waits(t)
        <4>1. InRound(t) /\ InRound(t)' /\ ~Through(t)'
          BY <2>0, <2>c, <3>1, <3>4 DEF InRound, Control, Waits, Through, Left
        <4> QED
          BY <2>s, <3>1, <4>1
      <3> QED
        BY <3>1, <3>2, <3>3, <3>4 DEF Reads, Writes, Fails, TryCall
    <2> QED
      BY <1>2, <1>b, <2>1, <2>2, <2>3, <2>4, <2>5, BarArrive DEF Effects
  <1> QED
    BY <1>1, <1>2, Effect

\* pthread_barrier_wait: no thread leaves a round before Trip threads came to it.
\* At most Trip threads use the barrier, as POSIX programs do that join the same
\* threads in every round; with more of them the rounds of different threads mix.
THEOREM BarrierCorrect ==
  Cardinality(Participants) <= Trip => (Spec => []BarrierTogether)
  <1> SUFFICES ASSUME Cardinality(Participants) <= Trip PROVE Spec => []BarrierTogether
    OBVIOUS
  <1>1. Init => BarOK
    <2> SUFFICES ASSUME Init PROVE BarOK
      OBVIOUS
    <2>1. \A t \in Thr : Passed(t) = 0 /\ ~InRound(t)
      <3>1. \A t \in Thr : pc[t] = "next" /\ ip[t] = 1 /\ ~inLoop[t]
        BY DEF Init
      <3>2. \A t \in Thr : {j \in 1 .. ip[t] - 1 : Program[t][j] = "barrier"} = {}
        BY <3>1
      <3> QED
        BY <3>1, <3>2, FS_EmptySet DEF Passed, InRound
    <2>2. \A t \in Thr : Arrived(t) = 0
      BY <2>1, BaseInit, Rounds DEF Base, UserTypes
    <2>3. bar.gen = 0 /\ bar.count = 0
      BY DEF Init
    <2>4. Came = {}
      BY <2>2, <2>3 DEF Came, Participants
    <2> QED
      BY <2>1, <2>2, <2>3, <2>4, FS_EmptySet DEF BarOK, RoundOK, Participants
  <1>2. IInv /\ BarOK /\ [Next]_vars => BarOK'
    BY BarStep DEF IInv
  <1>3. IInv /\ BarOK => BarrierTogether
    <2> SUFFICES ASSUME IInv, BarOK, NEW t \in Thr, Passed(t) > 0
                 PROVE  Cardinality({u \in Thr : Arrived(u) >= Passed(t)}) >= Trip
      BY DEF BarrierTogether
    <2> DEFINE S == {u \in Thr : Arrived(u) >= Passed(t)}
    <2>0. Base /\ bar.gen \in Nat /\ ip[t] \in 1 .. Len(Program[t]) + 1 /\ Len(Program[t]) \in Nat
      <3>1. Base
        BY DEF IInv
      <3>2. bar.gen \in Nat /\ ip[t] \in 1 .. Len(Program[t]) + 1
        BY <3>1 DEF Base, UserTypes, Control
      <3>3. Len(Program[t]) \in Nat
        BY PthreadAssumption
      <3> QED
        BY <3>1, <3>2, <3>3
    <2>1. t \in Participants
      <3>1. {j \in 1 .. ip[t] - 1 : Program[t][j] = "barrier"} # {}
        BY FS_EmptySet DEF Passed
      <3> QED
        BY <2>0, <3>1 DEF Participants
    <2>2. Passed(t) \in Nat /\ Passed(t) <= bar.gen
      BY <2>0, <2>1, Rounds DEF BarOK, RoundOK, Base, UserTypes
    <2>3. Cardinality(Participants) >= Trip
      BY <2>0, <2>2 DEF BarOK
    <2>4. ASSUME NEW u \in Participants PROVE u \in S
      <3>1. u \in Thr /\ Arrived(u) \in {bar.gen, bar.gen + 1}
        BY <2>4 DEF Participants, BarOK, RoundOK
      <3> QED
        BY <2>0, <2>2, <3>1
    <2>5. IsFiniteSet(S) /\ Cardinality(S) \in Nat /\ Cardinality(Participants) \in Nat
      BY ThreadsFinite DEF Participants
    <2>6. Cardinality(Participants) <= Cardinality(S)
      BY <2>4, <2>5, FS_Subset
    <2> QED
      BY <2>3, <2>5, <2>6, PthreadAssumption
  <1> QED
    BY <1>1, <1>2, <1>3, Invariance, PTL DEF Spec
============================================================================
