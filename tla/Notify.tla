------------------------------- MODULE Notify ------------------------------
(***************************************************************************)
(* A notification object (kernel/ipc/notify.c) with several waiters, on    *)
(* the scheduler of one CPU.  Interrupts pulse badges; threads reap them   *)
(* with notify_wait, blocking or not, and yield between calls.             *)
(*                                                                         *)
(* notify_wait is cut at every point where a pulse may come in between:    *)
(* the load of the pending bits, the compare-and-swap, the registration,   *)
(* thread_block, the sample after it, and schedule().                      *)
(***************************************************************************)
EXTENDS Sched

CONSTANTS
  Badge,     \* badge bits
  Mask,      \* thread -> the bits it waits for
  Pollers,   \* threads that call with fBlock = 0
  WakeMax,   \* NOTIFY_SOFT_MULTI_MAX
  Rounds,    \* NOTIFY_WAKER_DRAIN_ROUNDS
  MaxPulse,  \* bound: pulses
  MaxKill    \* bound: threads killed

ASSUME NotifyAssumption ==
  /\ Mask \in [Thr -> SUBSET Badge] /\ Pollers \subseteq Thr
  /\ WakeMax \in Nat \ {0} /\ Rounds \in Nat \ {0}
  /\ MaxPulse \in Nat /\ MaxKill \in Nat

VARIABLES
  live,     \* u32Ready and the header state
  pending,  \* u64Pending
  waiters,  \* u32Waiters
  hint,     \* pWaiter, a thread or Idle for none
  pc,       \* thread -> where it is in notify_wait
  seen,     \* thread -> the pending bits it loaded
  reg,      \* thread -> fRegistered
  got,      \* thread -> the bits its last call returned
  pulses, kills,
  passed    \* history: sleepers the last wake did not reach, its budget being spent

notifyVars == <<live, pending, waiters, hint, pc, seen, reg, got, pulses, kills, passed>>
vars == <<schedVars, notifyVars>>

----------------------------------------------------------------------------
(* Wakers *)

Parked(s) == {t \in Thr : s[t] = "BLOCKED"}

HasWaiter == hint # Idle \/ waiters > 0

\* thread_wake of the first n sleepers on the object.
WakeUp(n) ==
  /\ st' = Woken(st, Parked(st), n)
  /\ passed' = {t \in Parked(st) : Cardinality({u \in Parked(st) : u < t}) >= n}

NoWake == UNCHANGED <<st, passed>>

\* notify_pulse, from a hard interrupt or a soft inject.
Pulse(b) ==
  /\ live /\ pulses < MaxPulse
  /\ pending' = pending \cup {b}
  /\ pulses' = pulses + 1
  /\ IF HasWaiter THEN WakeUp(WakeMax) ELSE NoWake
  /\ UNCHANGED <<age, boost, robin, cur, peeked, live, waiters, hint, pc, seen, reg, got, kills>>

\* notify_wake: a kick without a badge.
Kick ==
  /\ HasWaiter /\ Parked(st) # {} /\ pulses < MaxPulse
  /\ pulses' = pulses + 1
  /\ WakeUp(WakeMax)
  /\ UNCHANGED <<age, boost, robin, cur, peeked, live, pending, waiters, hint, pc, seen, reg, got,
                 kills>>

\* notify_mark_dead: the state, then the drain of notify_abort_waiter.
MarkDead ==
  /\ live
  /\ live' = FALSE
  /\ IF HasWaiter THEN WakeUp(WakeMax * Rounds) ELSE NoWake
  /\ UNCHANGED <<age, boost, robin, cur, peeked, pending, waiters, hint, pc, seen, reg, got, pulses,
                 kills>>

----------------------------------------------------------------------------
(* notify_wait *)

On(t, label) == cur = t /\ pc[t] = label

Goto(t, label) == pc' = [pc EXCEPT ![t] = label]

\* Mutant: the count is lowered by a call that never raised it.
LeaveTwice(t, g) ==
  /\ Goto(t, "yield")
  /\ got' = [got EXCEPT ![t] = g]
  /\ reg' = [reg EXCEPT ![t] = FALSE]
  /\ waiters' = waiters - 1
  /\ hint' = IF reg[t] /\ hint = t THEN Idle ELSE hint

\* The call gives up its registration and returns the bits g.
Leave(t, g) ==
  /\ Goto(t, "yield")
  /\ got' = [got EXCEPT ![t] = g]
  /\ reg' = [reg EXCEPT ![t] = FALSE]
  /\ waiters' = IF reg[t] THEN waiters - 1 ELSE waiters
  /\ hint' = IF reg[t] /\ hint = t THEN Idle ELSE hint

\* The head of the loop: a dead object ends the call; the pending bits are loaded;
\* a miss ends a non-blocking call and registers a blocking one, once.
Load(t) ==
  /\ On(t, "load")
  /\ \/ ~live /\ Leave(t, {}) /\ UNCHANGED seen
     \/ /\ live /\ pending \cap Mask[t] # {}
        /\ seen' = [seen EXCEPT ![t] = pending]
        /\ Goto(t, "claim")
        /\ UNCHANGED <<waiters, hint, reg, got>>
     \/ live /\ pending \cap Mask[t] = {} /\ t \in Pollers /\ Leave(t, {}) /\ UNCHANGED seen
     \/ /\ live /\ pending \cap Mask[t] = {} /\ t \notin Pollers
        /\ Goto(t, "register")
        /\ UNCHANGED <<waiters, hint, reg, got, seen>>
  /\ UNCHANGED <<schedVars, live, pending, pulses, kills, passed>>

\* Mutant: a plain store of the remaining bits.
ClaimStore(t) ==
  /\ On(t, "claim")
  /\ pending' = seen[t] \ Mask[t]
  /\ Leave(t, seen[t] \cap Mask[t])
  /\ seen' = [seen EXCEPT ![t] = {}]
  /\ UNCHANGED <<schedVars, live, pulses, kills, passed>>

\* The compare-and-swap: it fails if a pulse came in between.
Claim(t) ==
  /\ On(t, "claim")
  /\ IF pending = seen[t]
     THEN pending' = pending \ Mask[t] /\ Leave(t, pending \cap Mask[t])
     ELSE Goto(t, "load") /\ UNCHANGED <<pending, waiters, hint, reg, got>>
  /\ seen' = [seen EXCEPT ![t] = {}]
  /\ UNCHANGED <<schedVars, live, pulses, kills, passed>>

Register(t) ==
  /\ On(t, "register")
  /\ waiters' = IF reg[t] THEN waiters ELSE waiters + 1
  /\ reg' = [reg EXCEPT ![t] = TRUE]
  /\ hint' = t
  /\ Goto(t, "block")
  /\ UNCHANGED <<schedVars, live, pending, seen, got, pulses, kills, passed>>

\* thread_block.
Block(t) ==
  /\ On(t, "block")
  /\ st' = [st EXCEPT ![t] = "BLOCKED"]
  /\ passed' = passed \ {t}
  /\ Goto(t, "sample")
  /\ UNCHANGED <<age, boost, robin, cur, peeked, live, pending, waiters, hint, seen, reg, got, pulses,
                 kills>>

\* Mutant: the pending bits are not sampled again.
SampleNot(t) ==
  /\ On(t, "sample")
  /\ Goto(t, "park")
  /\ UNCHANGED <<schedVars, live, pending, waiters, hint, seen, reg, got, pulses, kills, passed>>

\* The bits, or the death, that came before thread_block: wake everyone, oneself too.
Sample(t) ==
  /\ On(t, "sample")
  /\ IF pending \cap Mask[t] # {} \/ ~live THEN WakeUp(WakeMax) ELSE NoWake
  /\ Goto(t, "park")
  /\ UNCHANGED <<age, boost, robin, cur, peeked, live, pending, waiters, hint, seen, reg, got, pulses,
                 kills>>

\* schedule().
Park(t) ==
  /\ On(t, "park")
  /\ Switch(st)
  /\ Goto(t, "resume")
  /\ UNCHANGED <<live, pending, waiters, hint, seen, reg, got, pulses, kills, passed>>

\* The thread runs again: it drops the hint if it is its own, and goes round.
Resume(t) ==
  /\ On(t, "resume")
  /\ hint' = IF hint = t THEN Idle ELSE hint
  /\ Goto(t, "load")
  /\ UNCHANGED <<schedVars, live, pending, waiters, seen, reg, got, pulses, kills, passed>>

\* The program of a thread: reap, yield, reap again.
Yield(t) ==
  /\ On(t, "yield")
  /\ Switch(st)
  /\ Goto(t, "load")
  /\ got' = [got EXCEPT ![t] = {}]
  /\ UNCHANGED <<live, pending, waiters, hint, seen, reg, pulses, kills, passed>>

----------------------------------------------------------------------------
(* Death of a waiter *)

\* thread_exit_process: the entry is EXITED where it is and its call is gone with
\* its stack; nothing of the notification object is undone.
Kill(t) ==
  /\ kills < MaxKill /\ t # cur /\ st[t] # "EXITED"
  /\ st' = Killed(st, t)
  /\ kills' = kills + 1
  /\ Goto(t, "load")
  /\ seen' = [seen EXCEPT ![t] = {}]
  /\ reg' = [reg EXCEPT ![t] = FALSE]
  /\ got' = [got EXCEPT ![t] = {}]
  /\ UNCHANGED <<age, boost, robin, cur, peeked, live, pending, waiters, hint, pulses, passed>>

\* A new thread in the entry starts from the beginning.
Reuse(t) == Create(t) /\ UNCHANGED notifyVars

----------------------------------------------------------------------------

Init ==
  /\ SchedInit
  /\ live = TRUE /\ pending = {} /\ waiters = 0 /\ hint = Idle
  /\ pc = [t \in Thr |-> "load"]
  /\ seen = [t \in Thr |-> {}]
  /\ reg = [t \in Thr |-> FALSE]
  /\ got = [t \in Thr |-> {}]
  /\ pulses = 0 /\ kills = 0 /\ passed = {}

\* The thread on the CPU takes a step.
Run ==
  \/ \E t \in Thr : \/ Load(t) \/ Claim(t) \/ Register(t) \/ Block(t) \/ Sample(t)
                    \/ Park(t) \/ Resume(t) \/ Yield(t)
  \/ IdlePass /\ UNCHANGED notifyVars

Next ==
  \/ Run
  \/ \E b \in Badge : Pulse(b)
  \/ Kick
  \/ MarkDead
  \/ \E t \in Thr : Kill(t) \/ Reuse(t)

Spec == Init /\ [][Next]_vars

\* The CPU keeps executing; which thread it executes is the scheduler's choice.
FairSpec == Spec /\ WF_vars(Run)

----------------------------------------------------------------------------
(* Properties *)

\* Types of the scheduler and of the notification object.
TypeOK ==
  /\ SchedTypeOK
  /\ live \in BOOLEAN /\ pending \subseteq Badge
  /\ waiters \in 0 .. NThr + MaxKill /\ hint \in 0 .. NThr
  /\ pc \in [Thr -> {"load", "claim", "register", "block", "sample", "park", "resume", "yield"}]
  /\ seen \in [Thr -> SUBSET Badge] /\ got \in [Thr -> SUBSET Badge]
  /\ reg \in [Thr -> BOOLEAN] /\ passed \subseteq Thr

\* A sleeping waiter is visible to a pulse: the count covers every registered
\* thread, whatever the others do to the hint and whoever was killed registered.
WaitersCounted ==
  Cardinality({t \in Thr : reg[t]}) <= waiters

\* No badge is lost: a thread that gave up the CPU asleep has no pending bit of its
\* mask, and is not asleep on a dead object, unless the last wake was spent on WakeMax
\* threads before it, whether they waited for the bit or not.
NoLostBadge ==
  \A t \in Thr : st[t] = "BLOCKED" /\ pc[t] = "resume" /\ t \notin passed =>
    live /\ pending \cap Mask[t] = {}

\* What notify.h says of a blocking wait, that it lasts until a matching pulse: when
\* the CPU has nothing to run, nobody sleeps beside a pending bit of its mask.
WaitUntilPulse ==
  cur = Idle /\ (\A t \in Thr : st[t] # "RUNNABLE") =>
    \A t \in Thr : st[t] = "BLOCKED" => pending \cap Mask[t] = {}

\* Every pulse is reaped by exactly one call: a bit leaves the pending word in a
\* step in which one thread receives it, and no thread receives a bit otherwise.
DeliveredOnce ==
  [][\A b \in Badge :
       Cardinality({t \in Thr : b \in got'[t] \ got[t]})
         = IF b \in pending \ pending' THEN 1 ELSE 0]_vars

\* The wait-age order: with the picks it loses to other threads of its rank, to
\* the idle loop's second pick and to the wrap of the pick counter, a runnable
\* thread of the highest effective rank still gets the CPU.
TopRankRuns ==
  \A t \in Thr :
    (st[t] = "RUNNABLE" /\ \A u \in Thr : Rank[u] <= Rank[t])
      ~> (cur = t \/ st[t] # "RUNNABLE")

\* A pulsed badge reaches a thread that waits for it, unless the object dies.
BadgeReaped ==
  \A b \in Badge :
    (b \in pending /\ live) ~> (b \notin pending \/ ~live \/ ~\E t \in Thr : b \in Mask[t] /\ st[t] # "EXITED")
============================================================================
