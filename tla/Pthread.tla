------------------------------ MODULE Pthread ------------------------------
(***************************************************************************)
(* The blocking primitives of the C library (user/libcgj/src/pthread.c and *)
(* semaphore.c) on the futexes of the kernel: mutex, condition variable,   *)
(* the read-write lock and the barrier built from those two, once, and the *)
(* counting semaphore.                                                     *)
(*                                                                         *)
(* Every thread belongs to one process and runs a fixed list of calls.  A  *)
(* step is one atomic instruction, one system call, or the part of a       *)
(* critical section that touches only data its mutex protects.  The kernel *)
(* half of a system call is the module Futex.                              *)
(***************************************************************************)
EXTENDS Integers, Sequences, FiniteSets

CONSTANTS
  NThr,     \* threads
  NSlots,   \* GJ_FUTEX_MAX_WAITERS
  Program,  \* thread -> the calls it makes, in order
  Trip      \* threads a barrier round takes (uTrip)

Thr == 1 .. NThr
Call == {"rdlock", "wrlock", "tryrdlock", "trywrlock", "unlock", "barrier", "once",
         "sem_wait", "sem_timedwait", "sem_post"}

LockCall == {"rdlock", "wrlock", "tryrdlock", "trywrlock"}
TryCall == {"tryrdlock", "trywrlock"}

\* A lock call comes before the j-th call of t's program, and no unlock in between.
HoldsAt(t, j) ==
  \E i \in 1 .. (j - 1) : /\ Program[t][i] \in LockCall
                         /\ \A k \in (i + 1) .. (j - 1) : Program[t][k] # "unlock"

\* Programs pair lock and unlock.  An unlock without a hold, and a lock call by a
\* thread that holds the lock for writing, are undefined in POSIX.  Nested read
\* holds are not: POSIX allows them and pthread_rwlock_rdlock neither detects nor
\* refuses them.  They are left out as a restriction of this model, and nothing
\* shown here covers them: the second rdlock of one thread waits for a writer that
\* waits for the first.  The unlock after a try comes next.
ASSUME PthreadAssumption ==
  /\ NThr \in Nat /\ NSlots \in Nat \ {0} /\ Trip \in Nat \ {0}
  /\ Program \in [Thr -> Seq(Call)]
  /\ \A t \in Thr : \A j \in 1 .. Len(Program[t]) :
       /\ Program[t][j] \in LockCall => ~HoldsAt(t, j)
       /\ Program[t][j] = "unlock" => HoldsAt(t, j)
       /\ Program[t][j] \in TryCall => j < Len(Program[t]) /\ Program[t][j + 1] = "unlock"

\* The words the library sleeps on: nLock of the two mutexes, uSeq of the two
\* condition variables, nDone of the once control, nValue of the semaphore.
Word == {"rw.mtx", "rw.cv", "bar.mtx", "bar.cv", "once", "sem"}

VARIABLES
  word,     \* the value of each word
  rw,       \* nReaders, nWriter, nWritersWaiting
  bar,      \* uCount, uGen
  ip,       \* thread -> index of its current call
  pc,       \* thread -> where it is in the call
  inLoop,   \* thread -> it waits on the condition variable of its call
  seen,     \* thread -> uSeq as read by pthread_cond_wait
  gen,      \* thread -> uGen as read by pthread_barrier_wait
  held,     \* thread -> how its program holds the read-write lock
  ran,      \* how often the once routine ran
  slot, thr \* the kernel's waiter table and thread states

userVars == <<word, rw, bar, ip, pc, inLoop, seen, gen, held, ran>>
vars == <<userVars, slot, thr>>

Kernel == INSTANCE Futex WITH
  ProcOf <- [t \in Thr |-> "process"], Shared <- "shared", NoWord <- "none",
  Bits <- {"any"}, NRobust <- 0, Owners <- {}, Timed <- {}, MaxLife <- 1,
  mem <- word, life <- [t \in Thr |-> 1], list <- [t \in Thr |-> {}],
  reg <- {}, ctid <- "none"

----------------------------------------------------------------------------
(* System calls: every word of the library uses a private key *)

Key(w) == <<"process", w>>

\* sys6(NR_futex, FUTEX_WAIT) that sleeps.
FutexSleep(t, w, v, timed) == Kernel!Sleep(t, w, v, Key(w), {"any"}, timed)

\* It returns at once: EAGAIN, the value differs.
FutexAgain(w, v) == word[w] # v /\ UNCHANGED <<slot, thr>>

\* It returns at once: ENOMEM, the waiter table is full.
FutexFull(w, v) == word[w] = v /\ Kernel!TableFull /\ UNCHANGED <<slot, thr>>

\* FUTEX_WAKE of one, or of every waiter.
FutexWake(w, n) == Kernel!WakeOn(Key(w), n, {"any"})

----------------------------------------------------------------------------
(* Control *)

At(t, label) == pc[t] = label /\ thr[t] = Kernel!Ready

Goto(t, label) == pc' = [pc EXCEPT ![t] = label]

CallOf(t) == Program[t][ip[t]]

Mtx(t) == IF CallOf(t) = "barrier" THEN "bar.mtx" ELSE "rw.mtx"
Cv(t) == IF CallOf(t) = "barrier" THEN "bar.cv" ELSE "rw.cv"

\* The call returns; a failed try skips the unlock that follows it.
Finish(t, n) ==
  /\ Goto(t, "next")
  /\ ip' = [ip EXCEPT ![t] = @ + n]
  /\ inLoop' = [inLoop EXCEPT ![t] = FALSE]

\* The next call of the program starts.
Begin(t) ==
  /\ At(t, "next") /\ ip[t] <= Len(Program[t])
  /\ Goto(t, CASE CallOf(t) \in {"tryrdlock", "trywrlock"} -> "trylock"
               [] CallOf(t) \in {"rdlock", "wrlock", "unlock", "barrier"} -> "lock"
               [] OTHER -> CallOf(t))
  /\ UNCHANGED <<word, rw, bar, ip, inLoop, seen, gen, held, ran, slot, thr>>

----------------------------------------------------------------------------
(* Mutex and condition variable *)

\* pthread_mutex_lock: the compare-and-swap.
Lock(t) ==
  /\ At(t, "lock")
  /\ IF word[Mtx(t)] = 0
     THEN word' = [word EXCEPT ![Mtx(t)] = 1] /\ Goto(t, IF inLoop[t] THEN "check" ELSE "enter")
     ELSE Goto(t, "lockwait") /\ UNCHANGED word
  /\ UNCHANGED <<rw, bar, ip, inLoop, seen, gen, held, ran, slot, thr>>

\* pthread_mutex_lock: futex_wait while the lock word is 1; any return tries again.
LockWait(t) ==
  /\ At(t, "lockwait")
  /\ FutexSleep(t, Mtx(t), 1, FALSE) \/ FutexAgain(Mtx(t), 1) \/ FutexFull(Mtx(t), 1)
  /\ Goto(t, "lock")
  /\ UNCHANGED <<word, rw, bar, ip, inLoop, seen, gen, held, ran>>

\* pthread_mutex_trylock; EBUSY ends the try call of the read-write lock.
TryLock(t) ==
  /\ At(t, "trylock")
  /\ \/ /\ word["rw.mtx"] = 0
        /\ word' = [word EXCEPT !["rw.mtx"] = 1]
        /\ Goto(t, "check")
        /\ UNCHANGED <<ip, inLoop>>
     \/ word["rw.mtx"] # 0 /\ Finish(t, 2) /\ UNCHANGED word
  /\ UNCHANGED <<rw, bar, seen, gen, held, ran, slot, thr>>

\* pthread_mutex_unlock: the release store.
Unlock(t) ==
  /\ At(t, "unlock")
  /\ word' = [word EXCEPT ![Mtx(t)] = 0]
  /\ Goto(t, "unlockwake")
  /\ UNCHANGED <<rw, bar, ip, inLoop, seen, gen, held, ran, slot, thr>>

\* A failed try call left the lock as it was.
Busy(t) == CallOf(t) \in {"tryrdlock", "trywrlock"} /\ held[t] = "no"

\* pthread_mutex_unlock: futex_wake of one waiter.  Inside pthread_cond_wait the
\* sleep on the condition variable is next, otherwise the call returns.
UnlockWake(t) ==
  /\ At(t, "unlockwake")
  /\ FutexWake(Mtx(t), 1)
  /\ IF inLoop[t] THEN Goto(t, "condwait") /\ UNCHANGED <<ip, inLoop>>
                  ELSE Finish(t, IF Busy(t) THEN 2 ELSE 1)
  /\ UNCHANGED <<word, rw, bar, seen, gen, held, ran>>

\* pthread_cond_wait: futex_wait on the sequence read before the unlock; whatever
\* it returns, the mutex is taken again.
CondWait(t) ==
  /\ At(t, "condwait")
  /\ \/ FutexSleep(t, Cv(t), seen[t], FALSE)
     \/ FutexAgain(Cv(t), seen[t])
     \/ FutexFull(Cv(t), seen[t])
  /\ Goto(t, "lock")
  /\ UNCHANGED <<word, rw, bar, ip, inLoop, seen, gen, held, ran>>

\* Mutant: the sequence is not incremented.
BroadcastSilent(t) ==
  /\ At(t, "broadcast")
  /\ Goto(t, "broadcastwake")
  /\ UNCHANGED <<word, rw, bar, ip, inLoop, seen, gen, held, ran, slot, thr>>

\* pthread_cond_broadcast: the increment, then futex_wake of everyone.
Broadcast(t) ==
  /\ At(t, "broadcast")
  /\ word' = [word EXCEPT ![Cv(t)] = @ + 1]
  /\ Goto(t, "broadcastwake")
  /\ UNCHANGED <<rw, bar, ip, inLoop, seen, gen, held, ran, slot, thr>>

BroadcastWake(t) ==
  /\ At(t, "broadcastwake")
  /\ FutexWake(Cv(t), NSlots)
  /\ Goto(t, "unlock")
  /\ UNCHANGED <<word, rw, bar, ip, inLoop, seen, gen, held, ran>>

----------------------------------------------------------------------------
(* Read-write lock and barrier, under their mutex *)

\* Mutant: off by one.
TripsEarly == bar.count + 2 >= Trip

\* The arriving thread completes the round.
Trips == bar.count + 1 >= Trip

\* What the call does once, before its loop.
Enter(t) ==
  /\ At(t, "enter")
  /\ \/ CallOf(t) = "rdlock" /\ Goto(t, "check") /\ UNCHANGED <<rw, bar, gen, held>>
     \/ /\ CallOf(t) = "wrlock"
        /\ rw' = [rw EXCEPT !.waiting = @ + 1]
        /\ Goto(t, "check")
        /\ UNCHANGED <<bar, gen, held>>
     \/ /\ CallOf(t) = "unlock"
        /\ rw' = IF rw.writer # 0 THEN [rw EXCEPT !.writer = 0]
                 ELSE IF rw.readers > 0 THEN [rw EXCEPT !.readers = @ - 1]
                 ELSE rw
        /\ held' = [held EXCEPT ![t] = "no"]
        /\ Goto(t, "broadcast")
        /\ UNCHANGED <<bar, gen>>
     \/ /\ CallOf(t) = "barrier"
        /\ gen' = [gen EXCEPT ![t] = bar.gen]
        /\ IF Trips
           THEN bar' = [count |-> 0, gen |-> bar.gen + 1] /\ Goto(t, "broadcast")
           ELSE bar' = [bar EXCEPT !.count = @ + 1] /\ Goto(t, "check")
        /\ UNCHANGED <<rw, held>>
  /\ UNCHANGED <<word, ip, inLoop, seen, ran, slot, thr>>

\* Mutants: a reader overtakes a waiting writer; a writer joins the readers.
MayReadAhead == rw.writer = 0
MayWriteShared == rw.writer = 0

\* The condition the call waits for.
MayRead == rw.writer = 0 /\ rw.waiting = 0
MayWrite == rw.writer = 0 /\ rw.readers = 0

Granted(t) ==
  CASE CallOf(t) \in {"rdlock", "tryrdlock"} -> MayRead
    [] CallOf(t) \in {"wrlock", "trywrlock"} -> MayWrite
    [] CallOf(t) = "barrier" -> bar.gen # gen[t]

\* Mutant: trywrlock leaves a wait it never entered.
TakeUncounted(t) ==
  CASE CallOf(t) \in {"rdlock", "tryrdlock"} ->
         /\ rw' = [rw EXCEPT !.readers = @ + 1]
         /\ held' = [held EXCEPT ![t] = "r"]
    [] CallOf(t) \in {"wrlock", "trywrlock"} ->
         /\ rw' = [rw EXCEPT !.waiting = @ - 1, !.writer = 1]
         /\ held' = [held EXCEPT ![t] = "w"]
    [] CallOf(t) = "barrier" -> UNCHANGED <<rw, held>>

\* The lock is granted: its counters change.
Take(t) ==
  CASE CallOf(t) \in {"rdlock", "tryrdlock"} ->
         /\ rw' = [rw EXCEPT !.readers = @ + 1]
         /\ held' = [held EXCEPT ![t] = "r"]
    [] CallOf(t) = "wrlock" ->
         /\ rw' = [rw EXCEPT !.waiting = @ - 1, !.writer = 1]
         /\ held' = [held EXCEPT ![t] = "w"]
    [] CallOf(t) = "trywrlock" ->
         /\ rw' = [rw EXCEPT !.writer = 1]
         /\ held' = [held EXCEPT ![t] = "w"]
    [] CallOf(t) = "barrier" -> UNCHANGED <<rw, held>>

\* The test of the loop: go on, sleep on the condition variable with the sequence
\* read here, or, in a try call, give up.
Check(t) ==
  /\ At(t, "check")
  /\ Goto(t, "unlock")
  /\ \/ /\ Granted(t)
        /\ Take(t)
        /\ inLoop' = [inLoop EXCEPT ![t] = FALSE]
        /\ UNCHANGED seen
     \/ /\ ~Granted(t) /\ CallOf(t) \in {"rdlock", "wrlock", "barrier"}
        /\ inLoop' = [inLoop EXCEPT ![t] = TRUE]
        /\ seen' = [seen EXCEPT ![t] = word[Cv(t)]]
        /\ UNCHANGED <<rw, held>>
     \/ /\ ~Granted(t) /\ CallOf(t) \in {"tryrdlock", "trywrlock"}
        /\ UNCHANGED <<rw, held, inLoop, seen>>
  /\ UNCHANGED <<word, bar, ip, gen, ran, slot, thr>>

----------------------------------------------------------------------------
(* Once: 0 virgin, 1 running, 2 done *)

\* Mutant: a thread returns while another still runs the routine.
OnceStarted == word["once"] # 0

OnceOver == word["once"] = 2

OnceTest(t) ==
  /\ At(t, "once")
  /\ \/ OnceOver /\ Finish(t, 1) /\ UNCHANGED word
     \/ /\ word["once"] = 0
        /\ word' = [word EXCEPT !["once"] = 1]
        /\ Goto(t, "oncerun")
        /\ UNCHANGED <<ip, inLoop>>
     \/ word["once"] = 1 /\ Goto(t, "oncewait") /\ UNCHANGED <<word, ip, inLoop>>
  /\ UNCHANGED <<rw, bar, seen, gen, held, ran, slot, thr>>

\* The routine itself.
OnceRun(t) ==
  /\ At(t, "oncerun")
  /\ ran' = ran + 1
  /\ Goto(t, "oncedone")
  /\ UNCHANGED <<word, rw, bar, ip, inLoop, seen, gen, held, slot, thr>>

OnceDone(t) ==
  /\ At(t, "oncedone")
  /\ word' = [word EXCEPT !["once"] = 2]
  /\ Goto(t, "oncewake")
  /\ UNCHANGED <<rw, bar, ip, inLoop, seen, gen, held, ran, slot, thr>>

OnceWake(t) ==
  /\ At(t, "oncewake")
  /\ FutexWake("once", NSlots)
  /\ Finish(t, 1)
  /\ UNCHANGED <<word, rw, bar, seen, gen, held, ran>>

OnceWait(t) ==
  /\ At(t, "oncewait")
  /\ FutexSleep(t, "once", 1, FALSE) \/ FutexAgain("once", 1) \/ FutexFull("once", 1)
  /\ Goto(t, "once")
  /\ UNCHANGED <<word, rw, bar, ip, inLoop, seen, gen, held, ran>>

----------------------------------------------------------------------------
(* Semaphore *)

\* sem_wait and sem_timedwait: the value is taken, or is not positive.
SemTest(t) ==
  /\ At(t, "sem_wait") \/ At(t, "sem_timedwait")
  /\ \/ /\ word["sem"] > 0
        /\ word' = [word EXCEPT !["sem"] = @ - 1]
        /\ Finish(t, 1)
     \/ word["sem"] <= 0 /\ Goto(t, "semsleep") /\ UNCHANGED <<word, ip, inLoop>>
  /\ UNCHANGED <<rw, bar, seen, gen, held, ran, slot, thr>>

\* sem_wait fails with the kernel's ENOMEM; sem_timedwait tries again.  A deadline
\* that is already past ends sem_timedwait before or in the system call.
SemSleep(t) ==
  /\ At(t, "semsleep")
  /\ \/ /\ FutexSleep(t, "sem", 0, CallOf(t) = "sem_timedwait") \/ FutexAgain("sem", 0)
        /\ Goto(t, CallOf(t))
        /\ UNCHANGED <<ip, inLoop>>
     \/ /\ FutexFull("sem", 0)
        /\ IF CallOf(t) = "sem_wait" THEN Finish(t, 1)
                                     ELSE Goto(t, CallOf(t)) /\ UNCHANGED <<ip, inLoop>>
     \/ CallOf(t) = "sem_timedwait" /\ Finish(t, 1) /\ UNCHANGED <<slot, thr>>
  /\ UNCHANGED <<word, rw, bar, seen, gen, held, ran>>

\* sem_post: the increment; it wakes only if the value was zero or below.
SemPost(t) ==
  /\ At(t, "sem_post")
  /\ word' = [word EXCEPT !["sem"] = @ + 1]
  /\ IF word["sem"] <= 0 THEN Goto(t, "postwake") /\ UNCHANGED <<ip, inLoop>>
                         ELSE Finish(t, 1)
  /\ UNCHANGED <<rw, bar, seen, gen, held, ran, slot, thr>>

PostWake(t) ==
  /\ At(t, "postwake")
  /\ FutexWake("sem", 1)
  /\ Finish(t, 1)
  /\ UNCHANGED <<word, rw, bar, seen, gen, held, ran>>

----------------------------------------------------------------------------
(* The specification *)

\* A sleeper runs again and frees its slot; ETIMEDOUT ends sem_timedwait.
Return(t) ==
  /\ Kernel!Resume(t)
  /\ IF slot[thr[t].at].timedOut THEN Finish(t, 1) ELSE UNCHANGED <<pc, ip, inLoop>>
  /\ UNCHANGED <<word, rw, bar, seen, gen, held, ran>>

Timer ==
  /\ \E M \in SUBSET Kernel!Expirable : Kernel!Expire(M)
  /\ UNCHANGED userVars

Step(t) ==
  \/ Begin(t) \/ Lock(t) \/ LockWait(t) \/ TryLock(t) \/ Unlock(t) \/ UnlockWake(t)
  \/ CondWait(t) \/ Broadcast(t) \/ BroadcastWake(t) \/ Enter(t) \/ Check(t)
  \/ OnceTest(t) \/ OnceRun(t) \/ OnceDone(t) \/ OnceWake(t) \/ OnceWait(t)
  \/ SemTest(t) \/ SemSleep(t) \/ SemPost(t) \/ PostWake(t) \/ Return(t)

Finished(t) == ip[t] > Len(Program[t])

Init ==
  /\ word = [w \in Word |-> 0]
  /\ rw = [readers |-> 0, writer |-> 0, waiting |-> 0]
  /\ bar = [count |-> 0, gen |-> 0]
  /\ ip = [t \in Thr |-> 1]
  /\ pc = [t \in Thr |-> "next"]
  /\ inLoop = [t \in Thr |-> FALSE]
  /\ seen = [t \in Thr |-> 0]
  /\ gen = [t \in Thr |-> 0]
  /\ held = [t \in Thr |-> "no"]
  /\ ran = 0
  /\ slot = [i \in Kernel!Slots |-> Kernel!FreeSlot]
  /\ thr = [t \in Thr |-> Kernel!Ready]

Done == (\A t \in Thr : Finished(t)) /\ UNCHANGED vars

Next == (\E t \in Thr : Step(t)) \/ Timer \/ Done

Spec == Init /\ [][Next]_vars

\* Threads of one rank: the scheduler runs every runnable thread again and again.
\* The clock passes every deadline.
FairSpec == Spec /\ (\A t \in Thr : WF_vars(Step(t))) /\ WF_vars(Timer)

----------------------------------------------------------------------------
(* Properties *)

\* Types of the words, the lock and barrier fields and the program counters.
TypeOK ==
  /\ word \in [Word -> Nat] /\ word["rw.mtx"] \in 0 .. 1 /\ word["bar.mtx"] \in 0 .. 1
  /\ rw \in [readers : 0 .. NThr, writer : 0 .. 1, waiting : 0 .. NThr]
  /\ bar.count \in 0 .. Trip - 1 /\ bar.gen \in Nat
  /\ held \in [Thr -> {"no", "r", "w"}]
  /\ \A t \in Thr : ip[t] \in 1 .. Len(Program[t]) + 1

\* The read-write lock: a writer holds it alone.  unlock decides by nWriter whose
\* hold it ends, so this rests on the counters never leaving the holds.
RwExclusion ==
  \A t, u \in Thr : held[t] = "w" /\ held[u] # "no" => t = u

\* A reader that comes after a waiting writer waits behind it: while a writer
\* sleeps for the lock, no thread is granted a read hold.
WriterPreferred ==
  [][\A t \in Thr : held[t] = "no" /\ held'[t] = "r" =>
       \A u \in Thr : ~(inLoop[u] /\ CallOf(u) = "wrlock")]_vars

\* Rounds of the barrier a thread has been let through, and has arrived at.
Passed(t) == Cardinality({j \in 1 .. ip[t] - 1 : Program[t][j] = "barrier"})
Arrived(t) ==
  Passed(t) + IF ~Finished(t) /\ CallOf(t) = "barrier"
                 /\ (inLoop[t] \/ pc[t] \in {"check", "broadcast", "broadcastwake", "unlock", "unlockwake"})
              THEN 1 ELSE 0

\* pthread_barrier_wait: no thread leaves a round before Trip threads came to it,
\* also when a fast thread is in the next round while a slow one still sleeps.
BarrierTogether ==
  \A t \in Thr : Passed(t) > 0 =>
    Cardinality({u \in Thr : Arrived(u) >= Passed(t)}) >= Trip

\* pthread_once: nobody returns before the routine has run, and it runs once.
OnceRuns ==
  /\ ran <= 1
  /\ \A t \in Thr : (\E j \in 1 .. ip[t] - 1 : Program[t][j] = "once") => ran = 1

\* No wakeup is lost between the loop test, the unlock, the futex and the kernel's
\* table: every thread comes to the end of its program.
AllFinish == \A t \in Thr : <>Finished(t)

\* sem_post: "Wake only if someone may be waiting (was zero or below)": no thread
\* sleeps for ever in sem_wait while the value is positive.
SemServed ==
  \A t \in Thr : ~<>[](word["sem"] > 0 /\ thr[t].st = "BLOCKED" /\ CallOf(t) = "sem_wait")
============================================================================
