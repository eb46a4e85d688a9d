------------------------------ MODULE FileLock -----------------------------
(***************************************************************************)
(* The record locks of one open file (kernel/fs/file_lock.c): the table of *)
(* ranges, the table of waiters, and F_SETLK, F_SETLKW and F_UNLCK as a     *)
(* sequence of steps under g_lkLock, with thread_block, thread_wake and     *)
(* schedule() between them.  An owner is a u32Pid; each has one thread.     *)
(* Threads may run on different CPUs (thread_set_cpu), so steps of others   *)
(* come between two sections of the lock.  An owner may die: nothing calls  *)
(* file_lock_release_pid or file_lock_release_fd, so both tables keep what  *)
(* is its.                                                                 *)
(*                                                                         *)
(* Offsets run up to MaxOff, which stands for 2^63 - 1; a range ends before *)
(* its end, and the end EOF stands for "whatever the file grows to".       *)
(***************************************************************************)
EXTENDS Integers, FiniteSets

CONSTANTS
  NPid,     \* owners, in the order of the thread table
  NSlots,   \* GJ_FLOCK_MAX
  NWait,    \* GJ_FLOCK_MAX_WAITERS
  WakeMax,  \* GJ_FLOCK_SOFT_WAKE_MAX
  Depth,    \* GJ_FLOCK_DEADLOCK_DEPTH
  MaxOff,   \* the largest offset
  Asks,     \* owner -> the calls it may make: type (U for F_UNLCK), start, len, block
  MaxCalls, \* bound: calls before the final unlocks
  MaxKill   \* bound: owners that die

Owner == 1 .. NPid
NoPid == 0
Slot == 1 .. NSlots
WSlot == 1 .. NWait
Byte == 0 .. MaxOff - 1
EOF == -1

ASSUME FileLockAssumption ==
  /\ {NPid, NSlots, NWait, WakeMax, Depth, MaxOff} \subseteq Nat \ {0}
  /\ MaxCalls \in Nat /\ MaxKill \in Nat
  /\ Asks \in [Owner -> SUBSET [type : {"R", "W", "U"}, start : 0 .. MaxOff, len : 0 .. MaxOff,
                               block : BOOLEAN]]

VARIABLES
  lk,     \* slot -> range held, pid = NoPid when unused (g_aLk)
  wait,   \* waiter slot -> owner and its blocker, pid = NoPid when unused (g_aWait)
  req,    \* owner -> the request of its call
  pc,     \* owner -> where it is in file_lock_set
  reg,    \* owner -> nWait, 0 when not registered
  asleep, \* owners whose thread is BLOCKED on g_u32WaitObj
  calls,  \* calls made
  kills,  \* owners that died
  short,  \* history: a failed request has given up bytes it held
  passed  \* history: sleepers the last wake did not reach, its budget being spent

vars == <<lk, wait, req, pc, reg, asleep, calls, kills, short, passed>>

FreeSlot == [pid |-> NoPid, type |-> "R", start |-> 0, end |-> 0]
FreeWaiter == [pid |-> NoPid, blocker |-> NoPid]

----------------------------------------------------------------------------
(* Ranges *)

\* Mutant: the sum of start and length is not checked.
ValidAny(start, len) == TRUE

\* flock_validate refuses a range that runs past the largest offset.
Valid(start, len) == start <= MaxOff - len

RangeEnd(start, len) == IF len = 0 THEN EOF ELSE start + len

Norm(end) == IF end < 0 THEN MaxOff ELSE end

Overlap(a0, a1, b0, b1) == a0 < Norm(b1) /\ b0 < Norm(a1)

Bytes(start, end) == {b \in Byte : start <= b /\ b < Norm(end)}

----------------------------------------------------------------------------
(* The table of ranges *)

FreeSlots(t) == {i \in Slot : t[i].pid = NoPid}

FirstFree(t) == CHOOSE i \in FreeSlots(t) : \A j \in FreeSlots(t) : i <= j

\* The slots of other owners that stand in the way of request r of p.
Conflicts(p, r) ==
  {i \in Slot : /\ lk[i].pid \notin {NoPid, p}
                /\ Overlap(r.start, r.end, lk[i].start, lk[i].end)
                /\ ~(r.type = "R" /\ lk[i].type = "R")}

\* conflict: the lowest start, a write before a read, the first slot.
Hit(p, r) ==
  CHOOSE i \in Conflicts(p, r) :
    \A j \in Conflicts(p, r) :
      \/ lk[i].start < lk[j].start
      \/ /\ lk[i].start = lk[j].start
         /\ \/ lk[i].type = "W" /\ lk[j].type = "R"
            \/ lk[i].type = lk[j].type /\ i <= j

\* carve_pid_range: the table without [s, e) of p, or ok = FALSE for ENOLCK.  A range
\* that sticks out on both sides needs a slot for its right part; it is then the only
\* one in the way, the ranges of p being disjoint (Canonical).
Carve(t, p, s, e) ==
  LET cut == {i \in Slot : t[i].pid = p /\ Overlap(s, e, t[i].start, t[i].end)}
      left == {i \in cut : t[i].start < s}
      right == {i \in cut : Norm(t[i].end) > Norm(e)}
      split == left \cap right
      ok == split = {} \/ FreeSlots(t) # {}
      remnant(i) == CASE i \in left -> [t[i] EXCEPT !.end = s]
                      [] i \in right \ left -> [t[i] EXCEPT !.start = e]
                      [] i \in cut \ (left \cup right) -> FreeSlot
                      [] i \notin cut -> t[i]
  IN [ok |-> ok,
      lk |-> IF ~ok THEN t
             ELSE [i \in Slot |-> IF split # {} /\ i = FirstFree(t)
                                  THEN [t[CHOOSE j \in split : TRUE] EXCEPT !.start = e]
                                  ELSE remnant(i)]]

\* Ranges i and j of p, of one type and touching, become one in slot i.
MergePair(t, i, j, p) ==
  LET a == t[i]
      b == t[j]
  IN IF /\ i < j /\ a.pid = p /\ b.pid = p /\ a.type = b.type
        /\ Norm(a.end) >= b.start /\ Norm(b.end) >= a.start
     THEN [t EXCEPT ![i].start = IF a.start < b.start THEN a.start ELSE b.start,
                    ![i].end = IF a.end < 0 \/ b.end < 0 THEN EOF
                               ELSE IF a.end > b.end THEN a.end ELSE b.end,
                    ![j] = FreeSlot]
     ELSE t

\* A loop over the slots: Body for 1, 2, up to NSlots.
Loop(t, Body(_, _)) ==
  LET after[k \in 0 .. NSlots] ==
        IF k = 0 THEN t ELSE Body(after[k - 1], k)
  IN after[NSlots]

\* One scan of coalesce_pid over the pairs of slots: its inner and its outer loop.
CoalesceRow(t, i, p) == Loop(t, LAMBDA x, j : MergePair(x, i, j, p))
CoalescePass(t, p) == Loop(t, LAMBDA x, i : CoalesceRow(x, i, p))

\* Mutant: one scan.
CoalesceOnce(t, p) == CoalescePass(t, p)

\* coalesce_pid: at most one scan per slot; the ones that change nothing are the ones
\* it leaves out.
Coalesce(t, p) == Loop(t, LAMBDA x, n : CoalescePass(x, p))

----------------------------------------------------------------------------
(* The table of waiters *)

Waiting(p) == {w \in WSlot : wait[w].pid = p}

\* The blocker that the first entry of p names.
BlockerOf(p) ==
  IF p = NoPid \/ Waiting(p) = {} THEN NoPid
  ELSE wait[CHOOSE w \in Waiting(p) : \A v \in Waiting(p) : w <= v].blocker

\* soft_deadlock: the edges from the blocker q lead back to p.
SoftDeadlock(p, q) ==
  LET at[d \in 0 .. Depth] == IF d = 0 THEN q ELSE BlockerOf(at[d - 1])
  IN \E d \in 0 .. Depth : at[d] = p

\* waiter_register, waiter_update_blocker: a full table registers nobody.
Registered(p, q) ==
  LET free == {w \in WSlot : wait[w].pid = NoPid} IN
  IF reg[p] # 0
  THEN wait' = [wait EXCEPT ![reg[p]].blocker = q] /\ UNCHANGED reg
  ELSE \/ free = {} /\ UNCHANGED <<wait, reg>>
       \/ /\ free # {}
          /\ LET w == CHOOSE w \in free : \A v \in free : w <= v
             IN /\ wait' = [wait EXCEPT ![w] = [pid |-> p, blocker |-> q]]
                /\ reg' = [reg EXCEPT ![p] = w]

\* Mutant: the entry stays behind.
UnregisteredNot(p) == reg' = [reg EXCEPT ![p] = 0] /\ UNCHANGED wait

\* waiter_unregister.
Unregistered(p) ==
  /\ reg' = [reg EXCEPT ![p] = 0]
  /\ wait' = [w \in WSlot |-> IF w = reg[p] THEN FreeWaiter ELSE wait[w]]

\* thread_wake on the one wait object: the first WakeMax sleepers of the table.
Woken == {p \in asleep : Cardinality({q \in asleep : q < p}) < WakeMax}

----------------------------------------------------------------------------
(* file_lock_set *)

Goto(p, label) == pc' = [pc EXCEPT ![p] = label]

NoReq == [type |-> "R", start |-> 0, len |-> 0, end |-> EOF, block |-> FALSE]

Return(p) == Goto(p, "idle") /\ req' = [req EXCEPT ![p] = NoReq]

\* Mutant: the end is the last byte.
RequestShort(a) ==
  [type |-> a.type, start |-> a.start, len |-> a.len,
   end |-> IF a.len = 0 THEN EOF ELSE a.start + a.len - 1, block |-> a.block]

\* A call's arguments, and the end flock_validate computes from them.
Request(a) ==
  [type |-> a.type, start |-> a.start, len |-> a.len,
   end |-> RangeEnd(a.start, a.len), block |-> a.block]

\* F_UNLCK, F_SETLK or, with block, F_SETLKW.
Call(p) ==
  /\ pc[p] = "idle" /\ calls < MaxCalls
  /\ \E a \in Asks[p] : Valid(a.start, a.len) /\ req' = [req EXCEPT ![p] = Request(a)]
  /\ Goto(p, "try")
  /\ calls' = calls + 1
  /\ UNCHANGED <<lk, wait, reg, asleep, kills, short, passed>>

\* The head of the loop, on entry or when the thread runs again.
AtTry(p) == req[p].type # "U" /\ (pc[p] = "try" \/ (pc[p] = "park" /\ p \notin asleep))

\* A conflict: EAGAIN, EDEADLK, or register and prepare to sleep.
TryConflict(p) ==
  /\ AtTry(p) /\ Conflicts(p, req[p]) # {}
  /\ LET q == lk[Hit(p, req[p])].pid IN
     \/ ~req[p].block /\ Return(p) /\ UNCHANGED <<wait, reg>>
     \/ req[p].block /\ SoftDeadlock(p, q) /\ Return(p) /\ Unregistered(p)
     \/ /\ req[p].block /\ ~SoftDeadlock(p, q)
        /\ Registered(p, q)
        /\ Goto(p, "block") /\ UNCHANGED req
  /\ UNCHANGED <<lk, asleep, calls, kills, short, passed>>

\* The table with the request inserted and merged.
Inserted(t, p, r) ==
  Coalesce([t EXCEPT ![FirstFree(t)] =
              [pid |-> p, type |-> r.type, start |-> r.start, end |-> r.end]], p)

\* The bytes owner p holds in table t.
Held(t, p) == {b \in Byte : \E i \in Slot : t[i].pid = p /\ b \in Bytes(t[i].start, t[i].end)}

\* No conflict: carve, insert, merge.  The request fails when the carve needs a slot
\* and finds none, or when no slot is left after it; what was carved stays carved.
TryGrant(p) ==
  /\ AtTry(p) /\ Conflicts(p, req[p]) = {}
  /\ Unregistered(p)
  /\ LET c == Carve(lk, p, req[p].start, req[p].end) IN
     \/ /\ ~c.ok \/ FreeSlots(c.lk) = {}
        /\ lk' = c.lk
        /\ short' = (short \/ Held(c.lk, p) # Held(lk, p))
        /\ Return(p)
     \/ /\ c.ok /\ FreeSlots(c.lk) # {}
        /\ lk' = Inserted(c.lk, p, req[p])
        /\ Goto(p, "wake") /\ UNCHANGED <<req, short>>
  /\ UNCHANGED <<asleep, calls, kills, passed>>

\* thread_block.
Block(p) ==
  /\ pc[p] = "block"
  /\ asleep' = asleep \cup {p}
  /\ passed' = passed \ {p}
  /\ Goto(p, "recheck")
  /\ UNCHANGED <<lk, wait, req, reg, calls, kills, short>>

\* Mutant: the conflict is not looked for again.
RecheckNot(p) ==
  /\ pc[p] = "recheck"
  /\ Goto(p, "park")
  /\ UNCHANGED <<lk, wait, req, reg, asleep, calls, kills, short, passed>>

\* The conflict is looked for again: gone, the thread will wake the sleepers, itself
\* among them; else it calls schedule().
Recheck(p) ==
  /\ pc[p] = "recheck"
  /\ Goto(p, IF Conflicts(p, req[p]) = {} THEN "selfwake" ELSE "park")
  /\ UNCHANGED <<lk, wait, req, reg, asleep, calls, kills, short, passed>>

\* soft_wake_waiters.
WakeWaiters == asleep' = asleep \ Woken /\ passed' = asleep \ Woken

SelfWake(p) ==
  /\ pc[p] = "selfwake"
  /\ WakeWaiters
  /\ Goto(p, "park")
  /\ UNCHANGED <<lk, wait, req, reg, calls, kills, short>>

\* F_UNLCK under the lock: the carve may need a slot for a right part and fail.
Unlock(p) ==
  /\ pc[p] = "try" /\ req[p].type = "U"
  /\ LET c == Carve(lk, p, req[p].start, req[p].end) IN
     /\ lk' = c.lk
     /\ \/ c.ok /\ Goto(p, "wake") /\ UNCHANGED req
        \/ ~c.ok /\ Return(p)
  /\ UNCHANGED <<wait, reg, asleep, calls, kills, short, passed>>

\* An owner unlocks the whole file and is done.
Close(p) ==
  /\ pc[p] = "idle"
  /\ lk' = Carve(lk, p, 0, EOF).lk
  /\ Goto(p, "close")
  /\ UNCHANGED <<wait, req, reg, asleep, calls, kills, short, passed>>

\* The wake after the lock is given up, and the return.
Wake(p) ==
  /\ \/ pc[p] = "wake" /\ Return(p)
     \/ pc[p] = "close" /\ Goto(p, "done") /\ UNCHANGED req
  /\ WakeWaiters
  /\ UNCHANGED <<lk, wait, reg, calls, kills, short>>

\* The process of owner p dies, between calls or in the schedule() of F_SETLKW: its
\* thread is gone with its stack, its ranges and its waiter entry stay.
Kill(p) ==
  /\ pc[p] \in {"idle", "park"} /\ kills < MaxKill
  /\ Goto(p, "dead")
  /\ asleep' = asleep \ {p}
  /\ kills' = kills + 1
  /\ UNCHANGED <<lk, wait, req, reg, calls, short, passed>>

----------------------------------------------------------------------------

Init ==
  /\ lk = [i \in Slot |-> FreeSlot]
  /\ wait = [w \in WSlot |-> FreeWaiter]
  /\ req = [p \in Owner |-> NoReq]
  /\ pc = [p \in Owner |-> "idle"]
  /\ reg = [p \in Owner |-> 0]
  /\ asleep = {}
  /\ calls = 0 /\ kills = 0
  /\ short = FALSE /\ passed = {}

Step(p) ==
  \/ Call(p) \/ TryConflict(p) \/ TryGrant(p) \/ Block(p) \/ Recheck(p) \/ SelfWake(p)
  \/ Unlock(p) \/ Close(p) \/ Wake(p) \/ Kill(p)

Next == \E p \in Owner : Step(p)

Spec == Init /\ [][Next]_vars

----------------------------------------------------------------------------
(* Properties *)

\* Types of the tables and of the calls.
TypeOK ==
  /\ lk \in [Slot -> [pid : 0 .. NPid, type : {"R", "W"}, start : 0 .. MaxOff, end : EOF .. MaxOff]]
  /\ wait \in [WSlot -> [pid : 0 .. NPid, blocker : 0 .. NPid]]
  /\ req \in [Owner -> [type : {"R", "W", "U"}, start : 0 .. MaxOff, len : 0 .. MaxOff,
                        end : EOF .. MaxOff, block : BOOLEAN]]
  /\ pc \in [Owner -> {"idle", "try", "block", "recheck", "selfwake", "park", "wake", "close", "done",
                       "dead"}]
  /\ reg \in [Owner -> 0 .. NWait]
  /\ asleep \subseteq Owner /\ passed \subseteq Owner
  /\ calls \in 0 .. MaxCalls /\ kills \in 0 .. MaxKill /\ short \in BOOLEAN

\* The ranges of an owner never overlap, and two of one type never touch: carving
\* and merging keep one description of the bytes, whatever the order of the slots.
Canonical ==
  \A i, j \in Slot :
    i # j /\ lk[i].pid # NoPid /\ lk[i].pid = lk[j].pid =>
      /\ ~Overlap(lk[i].start, lk[i].end, lk[j].start, lk[j].end)
      /\ lk[i].type = lk[j].type =>
           Norm(lk[i].end) < lk[j].start \/ Norm(lk[j].end) < lk[i].start

\* An entry of the waiter table belongs to a call that is still going on, or to an
\* owner that died in it: a call that returns, granted or refused, leaves no entry.
WaitersCurrent ==
  /\ \A w \in WSlot : wait[w].pid # NoPid => reg[wait[w].pid] = w
  /\ \A p \in Owner : reg[p] # 0 => wait[reg[p]].pid = p /\ pc[p] \notin {"idle", "wake", "close", "done"}

\* file_lock.c's claim about exiting owners: no entry of one stays in the table of
\* waiters, where soft_deadlock would follow it.
NoOrphanEdge ==
  \A w \in WSlot : wait[w].pid # NoPid => pc[wait[w].pid] # "dead"

Sleeping(p) == pc[p] = "park" /\ p \in asleep

\* A thread that sleeps for good is in somebody's way, or a wake is coming, or the
\* last wake was spent on WakeMax sleepers before it.  The exception is a failed
\* request that has given up bytes, which wakes nobody.
SleeperBlocked ==
  short \/ \A p \in Owner : Sleeping(p) =>
             \/ Conflicts(p, req[p]) # {}
             \/ \E q \in Owner : pc[q] \in {"wake", "close", "selfwake"}
             \/ p \in passed

\* What file_lock.h says of F_SETLKW, that it blocks until the range is free: when no
\* call is under way but those that sleep, each of them is in somebody's way.
BlockUntilFree ==
  short \/ ((\A p \in Owner : pc[p] \in {"idle", "done", "dead"} \/ Sleeping(p)) =>
               \A p \in Owner : Sleeping(p) => Conflicts(p, req[p]) # {})

\* What table t says of each byte.
Mode(t, p, b) ==
  LET S == {i \in Slot : t[i].pid = p /\ b \in Bytes(t[i].start, t[i].end)} IN
  IF S = {} THEN "none" ELSE t[CHOOSE i \in S : TRUE].type

Modes == [p \in Owner |-> [b \in Byte |-> Mode(lk, p, b)]]

\* The request of an owner, from its call to its answer: the arguments, not the end
\* computed from them.  A call that succeeded has its wake to do.
Asked ==
  [p \in Owner |-> IF pc[p] \in {"try", "block", "recheck", "selfwake", "park"}
                   THEN [mode |-> req[p].type, start |-> req[p].start, len |-> req[p].len]
                   ELSE [mode |-> IF pc[p] \in {"wake", "close"} THEN "done" ELSE "none",
                         start |-> 0, len |-> 0]]

Table == INSTANCE ByteLocks WITH own <- Modes, ask <- Asked

\* The table of ranges implements locks on bytes: a call that succeeds has changed
\* exactly the bytes its arguments named, of its owner, to the mode they named, and
\* never over somebody's lock; one that fails has changed none, or given up its own.
ImplementsByteLocks == Table!Spec

\* Owners never all wait for each other: while one is not done, one can run.  A
\* cycle of waiters is found by the last to join it, or when one looks again.
NotAllAsleep ==
  (\E p \in Owner : pc[p] # "done") =>
    \E p \in Owner : pc[p] # "done" /\ ~Sleeping(p)
============================================================================
