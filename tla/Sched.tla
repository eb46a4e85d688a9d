------------------------------- MODULE Sched -------------------------------
(***************************************************************************)
(* The thread scheduler of one CPU (kernel/sched/thread.c): pick_next,     *)
(* schedule, thread_block, thread_wake, thread_create and the idle loop of *)
(* scheduler_run.  The operators are actions for other modules to compose. *)
(*                                                                         *)
(* The scheduler orders threads of one rank by the number of picks since   *)
(* their own, g_u32PickGen - g_aThrLastPick, an unsigned 32-bit difference *)
(* that wraps.  The state keeps that difference: age[t], modulo AgeMod.    *)
(***************************************************************************)
EXTENDS Integers, FiniteSets

CONSTANTS
  NThr,    \* GJ_MAX_THREADS - 1: entry 0 of the table is the idle thread
  Rank,    \* thread -> qos_rank of its class, 0 .. 4
  Boost0,  \* thread -> the boost its spawner gave it (thread_qos_boost_soft)
  AgeMod   \* 2^32

Thr == 1 .. NThr
Idle == 0
MaxRank == 4

ASSUME SchedAssumption ==
  /\ NThr \in Nat \ {0} /\ AgeMod \in Nat \ {0, 1}
  /\ Rank \in [Thr -> 0 .. MaxRank] /\ Boost0 \in [Thr -> 0 .. MaxRank]

VARIABLES
  st,     \* thread -> u32State; a thread that woke itself runs as RUNNABLE
  age,    \* thread -> picks since its own
  boost,  \* thread -> g_aThrBoost
  robin,  \* where pick_next starts its scan
  cur,    \* the thread on the CPU
  peeked  \* the idle loop has to make its second pick

schedVars == <<st, age, boost, robin, cur, peeked>>

State == {"RUNNABLE", "RUNNING", "BLOCKED", "EXITED"}

----------------------------------------------------------------------------
(* pick_next *)

\* qos_rank_eff: a boost lifts the rank, not past the driver class.
RankEff(t) == IF Rank[t] + boost[t] > MaxRank THEN MaxRank ELSE Rank[t] + boost[t]

ScanPos(t) == (t - robin) % (NThr + 1)

\* Mutant: the age of a thread is not compared.
BeatsYoung(t, u) ==
  \/ RankEff(t) > RankEff(u)
  \/ RankEff(t) = RankEff(u) /\ t <= u

\* The scan prefers t to u: rank, then age, then position.
Beats(t, u) ==
  \/ RankEff(t) > RankEff(u)
  \/ RankEff(t) = RankEff(u) /\ age[t] > age[u]
  \/ RankEff(t) = RankEff(u) /\ age[t] = age[u] /\ ScanPos(t) <= ScanPos(u)

\* The thread pick_next returns when s are the thread states; idle if none.
Pick(s) ==
  LET C == {t \in Thr : s[t] = "RUNNABLE"} IN
  IF C = {} THEN Idle ELSE CHOOSE t \in C : \A u \in C : Beats(t, u)

\* Mutant: the scan position runs off the end of the table.
PickedNoWrap(p) ==
  /\ age' = [t \in Thr |-> (IF t = p THEN 1 ELSE age[t] + 1) % AgeMod]
  /\ robin' = IF p = Idle THEN robin ELSE p + 1

\* What pick_next writes: the age of the picked thread starts again, every other
\* one grows, and the scan moves on behind a picked thread.
Picked(p) ==
  /\ age' = [t \in Thr |-> (IF t = p THEN 1 ELSE age[t] + 1) % AgeMod]
  /\ robin' = IF p = Idle THEN robin ELSE (p + 1) % (NThr + 1)

----------------------------------------------------------------------------
(* schedule *)

\* schedule(), called by cur when s are the thread states: the same thread goes on
\* as it is, or it leaves the CPU and its boost decays.
Schedule(s) ==
  LET p == Pick(s) IN
  /\ Picked(p)
  /\ cur' = p
  /\ IF p = cur
     THEN st' = s /\ UNCHANGED boost
     ELSE /\ st' = [t \in Thr |-> IF t = p THEN "RUNNING"
                                  ELSE IF t = cur /\ s[t] = "RUNNING" THEN "RUNNABLE"
                                  ELSE s[t]]
          /\ boost' = [t \in Thr |-> IF t = cur /\ boost[t] > 0 THEN boost[t] - 1 ELSE boost[t]]

\* A thread leaves the CPU, or yields it.
Switch(s) == cur # Idle /\ Schedule(s) /\ UNCHANGED peeked

\* scheduler_run: one pass of the idle loop is a schedule(), and a second pick
\* that only decides between HLT and PAUSE but changes the picker's state.
IdlePass ==
  /\ cur = Idle
  /\ IF peeked
     THEN Picked(Pick(st)) /\ peeked' = FALSE /\ UNCHANGED <<st, boost, cur>>
     ELSE Schedule(st) /\ peeked' = TRUE

----------------------------------------------------------------------------
(* Other operations, on thread states *)

\* thread_wake(obj, tag, n): the first n threads asleep there, in table order.
Woken(s, asleep, n) ==
  [t \in Thr |-> IF t \in asleep /\ Cardinality({u \in asleep : u < t}) < n
                 THEN "RUNNABLE" ELSE s[t]]

\* thread_exit_process on a thread that is not on the CPU.
Killed(s, t) == [s EXCEPT ![t] = "EXITED"]

\* thread_create reuses the entry; g_aThrLastPick is 0, so its age is any value.
Create(t) ==
  /\ st[t] = "EXITED"
  /\ st' = [st EXCEPT ![t] = "RUNNABLE"]
  /\ \E a \in 0 .. AgeMod - 1 : age' = [age EXCEPT ![t] = a]
  /\ boost' = [boost EXCEPT ![t] = 0]
  /\ UNCHANGED <<robin, cur, peeked>>

SchedInit ==
  /\ st = [t \in Thr |-> "RUNNABLE"]
  /\ age = [t \in Thr |-> 0]
  /\ boost = Boost0
  /\ robin = 0
  /\ cur = Idle
  /\ peeked = FALSE

SchedTypeOK ==
  /\ st \in [Thr -> State]
  /\ age \in [Thr -> 0 .. AgeMod - 1]
  /\ boost \in [Thr -> 0 .. MaxRank]
  /\ robin \in 0 .. NThr
  /\ cur \in 0 .. NThr
  /\ peeked \in BOOLEAN
============================================================================
