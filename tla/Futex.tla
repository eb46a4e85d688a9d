------------------------------- MODULE Futex -------------------------------
(***************************************************************************)
(* Futex wait queues of the kernel (kernel/sync/futex.c) with the thread   *)
(* states they rest on (thread_block, thread_wake), the exit path of the   *)
(* Linux personality (gj_linux_hot_exit) and the death of a process.       *)
(*                                                                         *)
(* A waiter occupies a slot of one fixed table from its claim until it     *)
(* runs again and frees the slot itself.  A wake or a timeout only clears  *)
(* the slot's waiting flag and makes the thread runnable.                  *)
(*                                                                         *)
(* Grain.  A system call runs with interrupts masked on one CPU up to its  *)
(* call of schedule(): one step.  The rechecks futex_wait_common makes     *)
(* after it has blocked cannot fail there.  The timer interrupt is a step. *)
(***************************************************************************)
EXTENDS Integers, FiniteSets

CONSTANTS
  NThr,      \* thread control blocks
  ProcOf,    \* thread -> its process, also the address-space id of private keys
  Shared,    \* marks a key resolved to a physical address
  Word,      \* 32-bit user words, mapped in every process
  NoWord,
  Bits,      \* bits of a wait or wake bitset; all of them is MATCH_ANY
  NSlots,    \* GJ_FUTEX_MAX_WAITERS
  NRobust,   \* GJ_FUTEX_ROBUST_SLOTS
  Owners,    \* threads whose program writes the word and uses a robust list
  Timed,     \* threads whose program waits with a deadline
  MaxLife    \* bound: threads created on one control block

Thr == 1 .. NThr
Proc == {ProcOf[t] : t \in Thr}
Slots == 1 .. NSlots
Key == (Proc \cup {Shared}) \X Word
Tid == Thr \X (1 .. MaxLife)
NoTid == <<0, 0>>

ASSUME FutexAssumption ==
  /\ NThr \in Nat /\ NSlots \in Nat \ {0} /\ NRobust \in Nat /\ MaxLife \in Nat \ {0}
  /\ DOMAIN ProcOf = Thr /\ Owners \subseteq Thr /\ Timed \subseteq Thr
  /\ Shared \notin Proc /\ NoWord \notin Word

VARIABLES
  mem,    \* word -> value: the owner's tid and the OWNER_DIED bit
  slot,   \* the waiter table (g_aWaiters)
  thr,    \* thread -> state, and the slot its wait call holds (0: none)
  life,   \* thread -> how many threads its control block has carried
  list,   \* thread -> words on its robust list, in user memory
  reg,    \* tids with a robust slot (g_aRobust)
  ctid    \* g_u64ClearChildTid, one for the whole kernel

futexVars == <<mem, slot, thr, life, list, reg, ctid>>

----------------------------------------------------------------------------
(* Values *)

Value == [tid : Tid \cup {NoTid}, died : BOOLEAN]
Zero == [tid |-> NoTid, died |-> FALSE]

SlotRec == [used : BOOLEAN, waiting : BOOLEAN, timedOut : BOOLEAN, timed : BOOLEAN,
            key : Key \cup {<<Shared, NoWord>>}, bits : SUBSET Bits, thr : 0 .. NThr]

\* Nothing reads the other fields of an unused slot.
FreeSlot == [used |-> FALSE, waiting |-> FALSE, timedOut |-> FALSE, timed |-> FALSE,
             key |-> <<Shared, NoWord>>, bits |-> {}, thr |-> 0]

Ready == [st |-> "READY", at |-> 0]
Exited == [st |-> "EXITED", at |-> 0]

TidOf(t) == <<t, life[t]>>

\* futex_key_from_uaddr: the address space and the address, or the frame.
KeyOf(t, w, private) == IF private THEN <<ProcOf[t], w>> ELSE <<Shared, w>>

\* The thread runs in user mode or at the start of a system call.
Running(t) == thr[t] = Ready

----------------------------------------------------------------------------
(* Wait *)

\* The slot futex_wait_common claims.
FirstUnused(i) == ~slot[i].used /\ \A j \in 1 .. (i - 1) : slot[j].used

TableFull == \A i \in Slots : slot[i].used

Claim(t, k, b, timed) ==
  [used |-> TRUE, waiting |-> TRUE, timedOut |-> FALSE, timed |-> timed,
   key |-> k, bits |-> b, thr |-> t]

\* futex_wait_common down to schedule(): the value still matches, a slot is free.
\* The other outcomes change nothing: EAGAIN if the value differs, ENOMEM if the
\* table is full, ETIMEDOUT at once if the deadline is already past.
Sleep(t, w, v, k, b, timed) ==
  /\ Running(t)
  /\ mem[w] = v
  /\ b # {}
  /\ \E i \in Slots :
       /\ FirstUnused(i)
       /\ slot' = [slot EXCEPT ![i] = Claim(t, k, b, timed)]
       /\ thr' = [thr EXCEPT ![t] = [st |-> "BLOCKED", at |-> i]]

\* futex_wait_common after schedule(): the thread frees its slot and returns the
\* slot's verdict, ETIMEDOUT or 0.
Resume(t) ==
  /\ thr[t].st = "READY" /\ thr[t].at # 0
  /\ slot' = [slot EXCEPT ![thr[t].at] = FreeSlot]
  /\ thr' = [thr EXCEPT ![t] = Ready]

----------------------------------------------------------------------------
(* Wake *)

Matching(s, k, b) ==
  {i \in Slots : s[i].used /\ s[i].waiting /\ s[i].key = k /\ s[i].bits \cap b # {}}

\* The waiters one futex_wake_common takes: the first n in table order.
Chosen(s, k, n, b) ==
  {i \in Matching(s, k, b) : Cardinality({j \in Matching(s, k, b) : j < i}) < n}

\* Mutant: the waker frees the slot that the sleeper still uses.
TakenFreed(s, M) == [i \in Slots |-> IF i \in M THEN FreeSlot ELSE s[i]]

\* The waiters in M are taken off the queue.
Taken(s, M) == [i \in Slots |-> IF i \in M THEN [s[i] EXCEPT !.waiting = FALSE] ELSE s[i]]

\* thread_wake on each of them: the threads blocked there become runnable.
Readied(M) ==
  [t \in Thr |-> IF thr[t].st = "BLOCKED" /\ thr[t].at \in M
                 THEN [thr[t] EXCEPT !.st = "READY"] ELSE thr[t]]

\* futex_wake_common; it returns the number of slots it chose.
WakeOn(k, n, b) ==
  /\ slot' = Taken(slot, Chosen(slot, k, n, b))
  /\ thr' = Readied(Chosen(slot, k, n, b))

\* Mutant: the waiting flag is not tested.
ExpirableWoken == {i \in Slots : slot[i].used /\ slot[i].timed}

Expirable == {i \in Slots : slot[i].used /\ slot[i].waiting /\ slot[i].timed}

\* Mutant: the slot is marked and the sleeper is not woken.
ExpireMarks(M) ==
  /\ M # {} /\ M \subseteq Expirable
  /\ slot' = [i \in Slots |-> IF i \in M THEN [slot[i] EXCEPT !.waiting = FALSE, !.timedOut = TRUE]
                                         ELSE slot[i]]
  /\ thr' = thr

\* futex_timer_check: the waiting slots whose deadline has passed, any of them.
Expire(M) ==
  /\ M # {} /\ M \subseteq Expirable
  /\ slot' = [i \in Slots |-> IF i \in M THEN [slot[i] EXCEPT !.waiting = FALSE, !.timedOut = TRUE]
                                         ELSE slot[i]]
  /\ thr' = Readied(M)

----------------------------------------------------------------------------
(* Robust lists, exit and death *)

\* Mutant: a full table is not refused.
SetRobustFull(t, S) ==
  /\ Running(t)
  /\ reg' = reg \cup {TidOf(t)}
  /\ list' = [list EXCEPT ![t] = S]
  /\ UNCHANGED <<mem, slot, thr, life, ctid>>

\* futex_set_robust_list: one slot per tid; a full table refuses (ENOMEM).
SetRobust(t, S) ==
  /\ Running(t)
  /\ TidOf(t) \in reg \/ Cardinality(reg) < NRobust
  /\ reg' = reg \cup {TidOf(t)}
  /\ list' = [list EXCEPT ![t] = S]
  /\ UNCHANGED <<mem, slot, thr, life, ctid>>

\* set_tid_address.
SetTidAddress(t, w) ==
  /\ Running(t)
  /\ ctid' = w
  /\ UNCHANGED <<mem, slot, thr, life, list, reg>>

\* futex_cancel_thr: every slot that names the control block.
Cancelled(s, t) == [i \in Slots |-> IF s[i].used /\ s[i].thr = t THEN FreeSlot ELSE s[i]]

\* robust_handle_entry: the listed words the thread owns and has not marked yet.
Marked(t) == IF TidOf(t) \in reg
             THEN {w \in list[t] : mem[w].tid = TidOf(t) /\ ~mem[w].died}
             ELSE {}

\* process_death and thread_exit_process: every thread of the process ends where
\* it is.  Its futex slots stay as they are.
Ended(th, p) == [u \in Thr |-> IF ProcOf[u] = p THEN Exited ELSE th[u]]

\* gj_linux_hot_exit.  futex_exit_robust_list marks each word and wakes one waiter
\* of the private key only: resolving a private key cannot fail, so the shared key
\* is never tried.  Then the thread's own slots go, the word at clear_child_tid is
\* zeroed and one private waiter woken, and the process dies.
Exit(t) ==
  LET p == ProcOf[t]
      s1 == Taken(slot, UNION {Chosen(slot, <<p, w>>, 1, Bits) : w \in Marked(t)})
      s2 == Cancelled(s1, t)
      s3 == IF ctid = NoWord THEN s2 ELSE Taken(s2, Chosen(s2, <<p, ctid>>, 1, Bits)) IN
  /\ Running(t)
  /\ mem' = [w \in Word |-> IF w = ctid THEN Zero
                            ELSE IF w \in Marked(t) THEN [mem[w] EXCEPT !.died = TRUE]
                            ELSE mem[w]]
  /\ slot' = s3
  /\ thr' = Ended(Readied({i \in Slots : slot[i].waiting /\ ~s3[i].waiting}), p)
  /\ reg' = reg \ {TidOf(t)}
  /\ ctid' = NoWord
  /\ UNCHANGED <<life, list>>

\* A fault, or process_linux_exit_pid: the process dies without the exit call.
Die(p) ==
  /\ \E t \in Thr : ProcOf[t] = p /\ thr[t].st # "EXITED"
  /\ thr' = Ended(thr, p)
  /\ UNCHANGED <<mem, slot, life, list, reg, ctid>>

\* thread_create takes an exited control block again, with a new tid.
Create(t) ==
  /\ thr[t].st = "EXITED" /\ life[t] < MaxLife
  /\ thr' = [thr EXCEPT ![t] = Ready]
  /\ life' = [life EXCEPT ![t] = @ + 1]
  /\ list' = [list EXCEPT ![t] = {}]
  /\ UNCHANGED <<mem, slot, reg, ctid>>

----------------------------------------------------------------------------
(* Any user program *)

\* A user store: release the word or write one's own tid.
Store(t, w) ==
  /\ Running(t)
  /\ \E v \in {Zero, [tid |-> TidOf(t), died |-> FALSE]} : mem' = [mem EXCEPT ![w] = v]
  /\ UNCHANGED <<slot, thr, life, list, reg, ctid>>

\* FUTEX_WAIT and FUTEX_WAIT_BITSET.
Wait(t, w, private, b, timed) ==
  /\ Sleep(t, w, mem[w], KeyOf(t, w, private), b, timed)
  /\ UNCHANGED <<mem, life, list, reg, ctid>>

Return(t) ==
  /\ Resume(t)
  /\ UNCHANGED <<mem, life, list, reg, ctid>>

\* FUTEX_WAKE and FUTEX_WAKE_BITSET.
Wake(t, w, private, n, b) ==
  /\ Running(t)
  /\ WakeOn(KeyOf(t, w, private), n, b)
  /\ UNCHANGED <<mem, life, list, reg, ctid>>

\* FUTEX_REQUEUE collapses to wakes: n and then m on the first key, m on the
\* second.  FUTEX_WAKE_OP is the same with m = 0 on the first and 1 on the second.
Requeue(t, w, w2, private, n, m) ==
  LET k == KeyOf(t, w, private)
      a == Chosen(slot, k, n + m, Bits)
      c == IF w2 = w THEN {} ELSE Chosen(slot, KeyOf(t, w2, private), m, Bits) IN
  /\ Running(t)
  /\ slot' = Taken(slot, a \cup c)
  /\ thr' = Readied(a \cup c)
  /\ UNCHANGED <<mem, life, list, reg, ctid>>

Timer ==
  /\ \E M \in SUBSET Expirable : Expire(M)
  /\ UNCHANGED <<mem, life, list, reg, ctid>>

Init ==
  /\ mem = [w \in Word |-> Zero]
  /\ slot = [i \in Slots |-> FreeSlot]
  /\ thr = [t \in Thr |-> Ready]
  /\ life = [t \in Thr |-> 1]
  /\ list = [t \in Thr |-> {}]
  /\ reg = {}
  /\ ctid = NoWord

Next ==
  \/ \E t \in Owners, w \in Word : Store(t, w) \/ SetTidAddress(t, w)
  \/ \E t \in Owners, S \in SUBSET Word : SetRobust(t, S)
  \/ \E t \in Thr, w \in Word, private \in BOOLEAN, b \in SUBSET Bits :
       Wait(t, w, private, b, FALSE) \/ (t \in Timed /\ Wait(t, w, private, b, TRUE))
  \/ \E t \in Thr, w \in Word, private \in BOOLEAN, n \in 1 .. 2, b \in SUBSET Bits :
       Wake(t, w, private, n, b)
  \/ \E t \in Thr, w, w2 \in Word, private \in BOOLEAN, n, m \in 0 .. 1 :
       Requeue(t, w, w2, private, n, m)
  \/ \E t \in Thr : Return(t) \/ Exit(t) \/ Create(t)
  \/ Timer
  \/ \E p \in Proc : Die(p)

Spec == Init /\ [][Next]_futexVars

\* The timer interrupt keeps coming and the clock passes every deadline.
TimerFairness ==
  \A i \in Slots : WF_futexVars(Expire({i}) /\ UNCHANGED <<mem, life, list, reg, ctid>>)

FairSpec == Spec /\ TimerFairness

----------------------------------------------------------------------------
(* Properties *)

\* Types of the waiter table and the thread states; the robust table within its size.
TypeOK ==
  /\ mem \in [Word -> Value]
  /\ slot \in [Slots -> SlotRec]
  /\ thr \in [Thr -> [st : {"READY", "BLOCKED", "EXITED"}, at : 0 .. NSlots]]
  /\ life \in [Thr -> 1 .. MaxLife]
  /\ list \in [Thr -> SUBSET Word]
  /\ reg \in SUBSET Tid /\ Cardinality(reg) <= NRobust
  /\ ctid \in Word \cup {NoWord}

\* No lost sleeper: a blocked thread is on the queue, in a slot of its own, and a
\* thread that was taken off the queue still owns the slot with its verdict.  A
\* kill, a cancel or a reused control block never takes the slot away from it.
SleeperQueued ==
  \A t \in Thr : thr[t].at # 0 =>
    /\ slot[thr[t].at].used /\ slot[thr[t].at].thr = t
    /\ slot[thr[t].at].waiting <=> thr[t].st = "BLOCKED"

\* A wake and a timeout that race have one winner: once a waiter is off the queue
\* its verdict never changes, so no wake is spent on a wait that reports ETIMEDOUT.
VerdictStable ==
  [][\A i \in Slots : slot[i].used /\ ~slot[i].waiting =>
        slot'[i] = FreeSlot \/ slot'[i] = slot[i]]_futexVars

\* A wait with a deadline ends.
TimedWaitEnds ==
  \A t \in Thr : thr[t].st = "BLOCKED" /\ slot[thr[t].at].timed ~> thr[t].st # "BLOCKED"
============================================================================
