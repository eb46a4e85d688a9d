# GreenJade: TLA+ models and proofs

GreenJade is a capability kernel in C with Linux-personality system calls and a C
library of its own. This project models the parts whose correctness depends on
orders of events that a test does not produce: who may still use a capability after
a revoke, who is answered on an IPC door, who is left asleep on a notification, a
futex, a lock or a file range.

## 1. Inventory

| Component | State | Operations | What is hard |
|---|---|---|---|
| Capabilities: `cap/cnode.c`, `cap/revoke.c`, `gj/cap.h` | CNode slots with generations, object headers (state, generation, `u32SlotsLeft`, `u32Ref`), pool of derivation edges, deferred queue and cursor, quota accounts, CNode try-locks | install, mint, copy, move, delete, attach, revoke begin, deferred pass, sweep, wipe, reclaim, re-init | deferred clearing behind an immediate DEAD mark; the timer's walk inside a locked loop; reuse of slots and of object storage, with and without a reclaim; full queue and pool; chains of accounts |
| IPC doors: `ipc/door.c` | `pClient`, `pServer`, HasReq, HasReply, the soft REPLY right, peer-dead and ready flags | call (with a deadline), receive, reply, abort, mark dead, thread exit | late replies, deadlines against replies, deaths in any role, one wake-up for many sleepers |
| Threads: `sched/thread.c` | thread table, states, wait tags, ranks, boosts, pick ages | create, block, wake, schedule, yield, idle loop, kill a process | wake order and counts, strict ranks, a pick counter that wraps |
| Notifications: `ipc/notify.c` | pending bits, waiter count and hint | pulse, kick, wait, poll, mark dead | a pulse at any point of a wait, a killed waiter, masks |
| Futexes: `sync/futex.c`, `syscall/linux_hot.c` | waiter table, deadlines, robust registrations, `clear_child_tid` | wait, wake, requeue, timer check, exit cleanup | a wake racing a time-out, reused thread control blocks |
| Thread library: `user/libcgj/src/pthread.c`, `semaphore.c` | lock words, sequence words, reader and writer counts, barrier generation, once word, semaphore value | mutex, condition variable, read-write lock, barrier, once, semaphore | wakeups between a test and a sleep, rounds that overlap |
| File locks: `fs/file_lock.c` | table of ranges, table of waiters with blockers | SETLK, SETLKW, UNLCK, GETLK | splitting and merging, waiting, deadlock detection, an owner that dies |
| Processes: `proc/process.c`, `proc/spawn.c` | process table, CNode, pager capability, exit status | spawn, wait, death, pager set and clear | half-done death, waiting after death |
| Cold IPC queue: `syscall/cold_ipc.c` | ring of requests beside the door | enqueue, dequeue, reply | two paths to one server |
| `shared/pmm_freelist.c`, `shared/sched_coop.c` | free list; run list | pure algorithms | boundary cases |
| Loaders, RAM file system, service doors, io_uring, network, memory, drivers, boot, rest of user space | | | see section 8 |

How they meet. System calls (`syscall/native.c`, `linux_hot.c`, `cold_ipc.c`) call the
doors, notifications, futexes and file locks. All of these sleep with `thread_block`
and `schedule()` and are woken with `thread_wake`, in the order of the thread table.
A thread's exit, a process kill and the trap handler's kill call
`door_on_thread_exit`; the Linux exit also runs the robust list and
`futex_cancel_thr`. `door_mark_dead` starts a revoke of the door's header; the timer
interrupt runs `gj_revoke_process_deferred` and `futex_timer_check`; process death
walks the edges of its objects and wipes its CNode. The C library's locks are user
words and futex calls.

A system call runs with interrupts masked and threads switch only in `schedule()`.
New threads belong to the boot CPU; `GJ_SYS_THREAD_SET_CPU` moves one to another CPU,
which has a run loop of its own. `Cap`, `Door` and `Sched` describe one CPU. The steps
of `Futex` are sections of one spin lock and do not depend on it; `FileLock` lets
threads of several CPUs interleave between the sections of its lock; `Notify` lets a
pulse come in anywhere; `Pthread` interleaves single instructions of user threads.

What makes the modelled parts correct. A capability dies at once and stays dead
through any reuse of its slot and of its object's memory; derived rights never exceed
their source; counts, edges and quota match the slots, since reclaim trusts
them; deferred work is finished in the end. A door serves one call at a time, gives
each caller its own answer or an error, and leaves nobody asleep. A badge is delivered
once and to somebody. A futex sleeper stays on its queue until it is woken, times out
or dies, and has one verdict. The library's locks exclude, prefer writers as written,
keep barrier rounds apart and lose no wakeup. The range table is a set of locks on
bytes, and a waiter sleeps only on a range that somebody holds.

## 2. Modules

| Module | Models | Used by |
|---|---|---|
| `Authority` | abstract: a reference monitor over places and objects | `Cap` (refinement) |
| `Cap` | CNodes, edges, quota, revoke, reclaim, the capabilities of spawned children | `CapMC`, `CapProofs` |
| `Door` | one door with clients, servers, deaths, deadlines | `DoorMC`, `DoorProofs` |
| `Sched` | picker, schedule, idle loop, block, wake, create | `Notify` |
| `Notify` | a notification object on `Sched` | `NotifyMC`, `NotifyProofs` |
| `Futex` | waiter table, timer, robust lists, exit, death | `FutexMC`, `FutexProofs`, `Pthread` |
| `Pthread` | the thread library, with `Futex` as its kernel | `PthreadMC`, `PthreadProofs` |
| `ByteLocks` | abstract: locks on bytes, and the proof that they exclude | `FileLock` (refinement) |
| `FileLock` | range table, waiter table, `file_lock_set` | `FileLockMC`, `FileLockProofs` |
| `CapProofs`, `AuthorityProofs`, `DoorProofs`, `NotifyProofs`, `FutexProofs`, `PthreadProofs`, `FileLockProofs` | inductive invariants and theorems | |
| `...MC` | the small instances | `*.cfg` |

Operators marked "Mutant" stand beside the definition they vary: each is the mistake a
property is there to notice.

### Cap and Authority

`slots[c][s]` is `struct gj_cap_slot`, `hdr[o]` is `struct gj_obj_hdr`, `edge` the
edge pool, `q` and `cursor` the deferred queue, `acct`/`used` the accounts, `lock`
the try-locks. `payer` in a slot is a history field: the account that an install
was charged to. `sweep` and `tick` are the program counters of the two loops that
are not atomic: a loop over one CNode that holds its try-lock, and one deferred
pass. `freed` holds the objects whose storage was reclaimed and not yet reused.

A capability operation is one action with the checks of the code as guards; a call
the code refuses changes nothing and is left out. `Install` stands for every
kernel caller of `gj_cap_alloc_install` but spawn, and wires no edge; `Mint`, `Copy` and
`Move` wire one if the pool has room. `TickBegin`, `TickWalk`, `TickNext`, `TickEnd`
are one pass of `gj_revoke_process_deferred`, which scans from the cursor and clears
at most `Budget` slots. `TickNext` may leave edges behind when a table is locked, as
the visit cap of the walk does. `SweepBegin`/`SweepStep`/`SweepEnd` are
`gj_cnode_invalidate_obj_slots` (an object) and `process_death_cnode_wipe` (every
slot). Only a pass may come between two steps of a sweep. The REVOKING state is never
visible: `gj_obj_revoke_begin` passes through it with interrupts masked.

The objects of `Task` are the headers in the entries of `g_aSpawn`, and `task` says
whether an entry is free, in use, or in use by a child that is dead. `Spawn` starts the
header afresh, whatever its last user left in it and with no reclaim, and installs the
PROCESS capability in the parent's table. `SpawnFail` is a spawn that fails after that
install (`spawn_fail_cleanup`, and the failed verification in
`spawn_process_cap_mint`), and `Wait` the reaping of `process_wait`: both clear the
parent's slot by `gj_cap_slot_invalidate` alone, with no decrement of `u32SlotsLeft`, no
refund and no look at the edges. A child dies by `RevokeBegin` or, when the wait table
had no room for it, by `TaskExit`, without a revoke; only in the second case does its
handle still resolve for `Wait`. `Reclaim` and `Reinit` are the other way to reuse
storage: `gj_obj_reclaim` guards it, and nothing in the kernel calls that yet
(`ReclaimDriver`). Headers of memory objects are re-initialised as well, but no
capability ever names one. A spawn also clears the child's own table, so a model CNode is
one life of a table.

`skewed` is a history variable: the accounts whose books are off because they, or an
account below them, were attached to an occupied table or had a slot cleared bare.

`Authority` has no slots, generations or queues: a place carries authority over an
object or carries none, and a revoke takes all of it away in one step. The refinement
maps a slot to the authority it carries if it is usable (its object is live and its
recorded generation current), else to nothing. So a revoke is visible at
`gj_obj_revoke_begin`, and every later step of the hygiene, of reclaim and of reuse
must be invisible.

### Door

Threads are numbered by their place in the thread table because `thread_wake` wakes
in table order. A call is identified by its number; `req`, `work` and `reply` carry
that number, so a reply to the wrong call is visible. `pc` is where a thread is:
`slot` (claim loop), `call` (wait loop), `recv`, `parked` (receive loop before and
after its own sleep), `serve` (between receive and reply), `user`, `exited`. `asleep`
is the BLOCKED state; a thread's wait tag follows from its `pc`. `cpu` names a thread
that has not reached `schedule()` since its last action, so that claim, post and the
first look at the wait loop are not interleaved with other threads, while the clock
(`Expire`) may move in between. `lapsed` is a history variable: the contenders that were
asleep on a free slot when a contender that was awake left the claim loop (`LeftAsleep`).

`SlotFail`, `Claim`, `SlotBlock` are the claim loop, `CallReturn`, `CallCancel`,
`CallBlock` the wait loop, in the order of its tests; `RecvDead` to `RecvWoken` the
receive loop, `Reply` the three outcomes of `door_reply`, `Exit` the exit hook in
its three roles, `Abort` both `door_abort_waiters` and `door_mark_dead`. Abort may
run again on a dead door. Assumed of the environment: a server replies once after each
receive, as the personality server does. `door_on_thread_exit` looks at the cold door and
at doors in the soft REPLY table only, and `Exit` always cleans up: with `Tracked = FALSE`
the model is the cold door, the one door every kernel has; a second door that fell out of
the table is not covered. More than one server per door is documented
as unsupported; `door_reply` has two anyway, since the code handles them.

### Sched and Notify

`Sched` keeps, for each thread, `g_u32PickGen - g_aThrLastPick` modulo `AgeMod` (2^32
in the code), the difference that `pick_next` compares. A running thread is not a
candidate of its own `schedule()`, so a yield with nobody else to run goes through the
idle thread, as in the code; the idle loop makes a second pick whose result it only
looks at but which moves the picker's state (`peeked`). A thread that woke itself
before `schedule()` is RUNNABLE while it is on the CPU.

`Notify` cuts `notify_wait` at the load, the compare-and-swap, the registration,
`thread_block`, the second sample and `schedule()`. `Kill` ends a thread that is off
the CPU and undoes nothing of its registration: the count stays raised and the hint may
stay, as `thread_exit_process` leaves them. `passed` is a history variable: the sleepers that
the last wake did not reach, its budget being spent. Threads reap in a loop and yield in between.

### Futex

A slot record is `struct futex_waiter`; `thr[t].at` is the slot that a wait call in
progress holds. Down to `schedule()` a wait is one step, since the claim, the value
test and `thread_block` are made under `g_lockFutex`, which wakes and the timer also
take. `Exit` is the whole of `gj_linux_hot_exit`: robust words, own slots,
`clear_child_tid`, and the death of the process; `Die` is a death without it. A robust
list is the set of words on it. `Create` reuses a control block with a new tid, so a
stale slot may name the new thread. FUTEX_REQUEUE wakes instead of moving, as the code
does.

### Pthread

Each thread runs a fixed list of calls. A step is one atomic instruction, one system
call, or the part of a critical section that touches only data its mutex protects.
The read-write lock and the barrier share the shape lock, test, wait on the condition
variable or go on, unlock; `Enter`, `Granted` and `Take` say what differs. `slot` and
`thr` are the variables of `Futex`, and the futex calls are its operators. A program
takes the lock once before it gives it up (`PthreadAssumption`). An unlock without a hold,
and a lock call by a thread that holds the lock for writing, are undefined in POSIX. Nested read holds are
legal, and `pthread_rwlock_rdlock` neither detects nor refuses them; they are outside this
model, and nothing shown here covers them (section 7). A try that fails skips the unlock after it.

### FileLock and ByteLocks

`lk` is the table of ranges of one file, `wait` the waiter table with blocker edges,
`reg[p]` the index a call registered. `Carve`, `Coalesce`, `Hit` and `SoftDeadlock` are
the algorithms of `carve_pid_range`, `coalesce_pid`, `conflict` and `soft_deadlock`.
Offsets run to `MaxOff` for 2^63 - 1, and an open end is stored as -1, as in the code.
`Call` takes the arguments of a call, F_UNLCK included, and `Request` the end
`flock_validate` computes from them. `Kill` is the death of an owner, between calls or in
the `schedule()` of F_SETLKW: nothing calls `file_lock_release_pid`, so its ranges and its
waiter entry stay. `passed` is as in `Notify`.

`ByteLocks` forgets the ranges and keeps the arguments of each call from the call to its
answer: a call that succeeds sets the bytes its arguments name, exactly, to the mode they
name, and a lock is granted only if no other owner's mode conflicts. A call that fails
changes nothing, with one exception: a request that finds no slot after its carve has
dropped the owner's bytes (`Lose`). The refinement maps a request to its start and length,
not to the end computed from them, so a wrong `range_end` does not go unnoticed.

## 3. Runs

| Run | Result | Properties | Distinct states |
|---|---|---|---|
| `cap_reuse` | pass | TypeOK, TaskConfined, NoDangling, QuotaExact, SlotsLeftExact, EdgeSound, NoResurrection, NoEscalation, ImplementsAuthority | 1.6 M |
| `cap_drain` | pass | HygieneQueued, HandleFresh, EdgesDrained | 0.42 M |
| `cap_queue_full` | violation | EdgesDrained | |
| `door_calls` | pass | TypeOK, SingleFlight, NotDemoted, FlightEnds, CallEnds | 0.25 M |
| `door_reply` | pass | OwnReply, ServeWindow | 0.61 M |
| `door_late_reply` | violation | OwnReply | |
| `notify` | pass | TypeOK, WaitersCounted, NoLostBadge, DeliveredOnce, TopRankRuns, BadgeReaped | 55 k |
| `futex` | pass | TypeOK, SleeperQueued, VerdictStable, TimedWaitEnds | 0.40 M |
| `pthread` | pass | TypeOK, RwExclusion, BarrierTogether, OnceRuns, WriterPreferred, AllFinish | 0.26 M |
| `sem_lost_wake` | violation | SemServed | |
| `filelock` | pass | TypeOK, Canonical, WaitersCurrent, SleeperBlocked, ImplementsByteLocks | 0.19 M |
| `flock_deadlock` | violation | NotAllAsleep | |

Further configurations, kept beside the runs and run by hand. The first two pass; each of
the others has a counterexample, which section 4 describes.

| Configuration | Module | Property | TLC |
|---|---|---|---|
| `CapPair.cfg` | `CapMC` | RootMetaConfined, NoEscalation, with two tables | passes, 0.13 M |
| `NotifyLost.cfg` | `NotifyMC` | NoLostBadge, with a wake budget of one | passes, 0.34 M |
| `CapReap.cfg`, `CapLateAttach.cfg` | `CapMC` | QuotaAlways | violated |
| `CapKillWait.cfg` | `CapMC` | DeadReapable | violated |
| `DoorContender.cfg` | `DoorMC` | SlotReached | violated |
| `NotifyBudget.cfg` | `NotifyMC` | WaitUntilPulse | violated |
| `FileLockOrphan.cfg` | `FileLockMC` | NoOrphanEdge | violated |
| `FileLockBudget.cfg` | `FileLockMC` | BlockUntilFree | violated |

Bounds.

- `Cap`: `GenBound` caps the generation of a slot; 3 lets a slot be bound, emptied, bound
  again and emptied again, which is what HandleFresh is about (`cap_drain`). `RefBound` caps
  kernel references; `U32Max` is 255 for 2^32 - 1 and is never reached by a slot generation
  under `GenBound`. In `cap_drain` two objects and a pool of two edges for three mintable
  slots make the pool run out, and `Budget` 1 stops a pass with edges left, so that the next
  one starts at a moved cursor. `QMax` 1 or 2 makes the queue full or just large enough. In
  `cap_reuse` an object's storage and one spawn-table entry are reused, in three slots that
  are bound once each, under a chain of two accounts, the least in which a refund must reach
  a parent; the pool has one edge, so that a second mint finds it empty. Two tables in
  `CapPair.cfg` are the least in which a mint crosses tables; the runs have one, the
  theorems any number.
- `Door`: `MaxCalls` is 3: one call that dies, one that takes its place and one that
  waits. `WakeMax` is 8 as in the code, except in `door_calls`, where an abort wakes one of
  up to three contenders, as the code wakes 8 of up to 31. In
  `door_reply` the door has no entry in the soft REPLY table (`Tracked = FALSE`, the
  code's fallback when the table is full); this is the harder case, since nothing
  refuses a second reply.
- `Notify`: two blocking waiters with overlapping masks and a poller, two pulses, one
  kill and a reuse of the killed entry. `AgeMod` 4 makes the pick counter wrap after
  four picks, inside every wait. In `notify` a wake reaches every thread, without which
  BadgeReaped is false. In `NotifyLost.cfg` and `NotifyBudget.cfg` it reaches one of three
  blocking waiters, as the code's eight of up to 31.
- `Futex`: two slots for three threads, two of them of one process, so that the table
  fills; two lives of each control block, so that a slot left by a dead thread meets the
  next thread on its block; one word under its private and its shared key. A requeue
  in the run therefore has one word as source and target; the theorems have no such
  bound.
- `Pthread`: three threads: a writer, a reader and both try calls meet at the lock,
  two of them go through two barrier rounds, two call once, a semaphore with a plain and a
  timed wait. As many slots as threads: with fewer, the library spins on ENOMEM.
- `FileLock`: three owners, three slots (a split can fail), offsets 0 to 3 with requests up
  to and past the end, open ends, and four or five calls, enough for a split, an upgrade, a
  merge and a wait. A wake reaches one sleeper, as the code's four of up to eight registered
  waiters and any number beyond, except in `flock_deadlock`, where it reaches all of them so
  that the budget is not what keeps them asleep. One owner dies in `filelock` and
  `FileLockOrphan.cfg`, none in `flock_deadlock` and `FileLockBudget.cfg`, whose properties
  it would break in another way.

Deadlock. `Cap` always has a step. A door comes to rest when the calls of the bound are
made or all threads have exited, and file-lock owners when they are done, so their
runs do not check deadlock; what must not stop is stated as a property. `Pthread` may
stop only when every program is at its end (`Done`), so TLC's deadlock check and
AllFinish both apply.

## 4. What the violations show

1. `cap_queue_full`. When the queue is full, `gj_obj_revoke_begin` returns AGAIN with
   the object already DEAD; the retry its comment asks for is refused because the
   object is DEAD. Entries leave the queue only in `gj_obj_reclaim`, which has no
   caller. Access is denied all the same; slots and edges stay occupied.
2. `door_late_reply`. A client is killed after the server took its request; another
   client claims the door; the server's reply goes to the second client.
3. `sem_lost_wake`. Two posts before the first woken thread runs wake one sleeper, and
   the other sleeps on beside a positive value.
4. `flock_deadlock`. The second look for a conflict, after `thread_block`, neither
   updates the waiter's blocker nor looks for a cycle, so a cycle through a range that
   changed hands at that moment is never found.

The counterexamples of the further configurations, each against a line of the repository:

5. `CapReap.cfg`. A spawn that fails after its install, or the reaping of a child, clears
   the parent's slot without a refund (`spawn.c:5424`, `5581`, `5747`). The account stays
   charged for an empty slot; a parent that creates children again and again runs out of
   quota. That is all that goes wrong: the count and the generation of the entry are started
   afresh by the next spawn, and no second binding or edge is left to find (TaskConfined).
   `cap.h:868`: "Prefer this over bare gj_cap_slot_invalidate whenever the object is known
   so u32SlotsLeft / quota / CDT stay single-pathed."
6. `CapKillWait.cfg`. `process_death` revokes the child (`process.c:2273`), so the parent's
   handle no longer resolves and `process_wait` fails with GJ_ERR_DEAD: the child is never
   reaped, and its entry (one of eight) is never free again. `spawn.h:31`: "-> process_kill /
   thr_exit -> G-PROC-5 death (H3) -> process_wait reap".
7. `CapLateAttach.cfg`. An account attached to an occupied table (`cnode.c:2083`) does not
   count what is there. All attaches outside the self-tests are to the occupied boot table
   (`main.c:367`, `415`, `437`). `docs/SOLARIS_STYLE_REMAINING.md:66`: "each **occupied CNode
   slot** charges the process's slot quota".
8. `DoorContender.cfg`. A release wakes one contender; it finds its deadline passed
   (`door.c:2728`) and returns without waking the next, who sleeps beside a free slot.
   `door.h:185`: "this thread blocks on DOOR_TAG_SLOT until the owner releases (or peer death
   aborts)."
9. `NotifyBudget.cfg`. A pulse's wakes (`notify.c:701`) go to sleepers with other masks; the
   one whose badge is pending sleeps on. The quiet state that the property looks at has
   nobody on the way who would wake it. `notify.h:118`: "block current thread until a matching
   pulse (soft multi-waiter OK)."
10. `FileLockOrphan.cfg`. An owner that dies asleep in F_SETLKW leaves its waiter entry, and
    the edge in it, in the table: `file_lock_release_pid` (`file_lock.c:1455`) has no caller.
    `file_lock.c:15`: "release_pid drops exiting-pid waiters (no orphan deadlock edges)".
11. `FileLockBudget.cfg`. A wake's budget (`file_lock.c:781`) goes to sleepers whose ranges
    are still taken; the one whose range became free sleeps on. `file_lock.h:63`: "fBlock:
    non-zero -> soft multi-waiter block until free (F_SETLKW)."

The passing runs state what remains true beside each of these. QuotaExact is about the
accounts that no late attach and no bare clear touched (`skewed`); CallEnds exempts the
contenders such a return left asleep (`lapsed`), NoLostBadge and SleeperBlocked the
sleepers that the last wake had no budget for (`passed`), and WaitersCurrent the
entries of owners that died in their call. The rest is in the constants: a queue that is
drained, clients that are not killed in a call (for OwnReply and ServeWindow), one
semaphore waiter at a time, a notification wake that reaches every thread (for
BadgeReaped), and no claim about deadlock in `filelock`.

## 5. Fairness

`Cap`: the timer fires for ever, so a pass begins again and again, and not always in
the middle of a sweep (a pass is 16 ticks away from the next, a sweep is a short
loop): strong fairness of a pass that begins outside a sweep. A pass once begun runs
to its end, and an interrupted sweep continues: fairness of their steps. No fairness
for system calls.

`Door`: threads of one rank are picked by age, so a thread that stays runnable runs:
weak fairness of `Run(t)` for each thread. `TopRankRuns` of `Notify` is this assumption,
checked of the picker. Servers loop on receive (`cold_personality_server`); a reply is
part of `Run` only with `ServerReplies`. The clock advances: weak fairness of `Expire`.
Nobody is obliged to call, die or abort. CallEnds is claimed while some server has not
exited: a call posted on a door without servers waits for the next one.

`Notify`: the CPU keeps executing, weak fairness of `Run`. Which thread runs is decided
by the modelled picker, with no fairness of its own.

`Futex`: the timer interrupt keeps coming, weak fairness of `Expire` for each slot.

`Pthread`: weak fairness of each thread's steps (threads of one rank, as above) and of
the timer. A mutex is not fair, but every program is finite, so this suffices.

`FileLock` has no liveness property: `fcntl` gives none when the wake budget or the
waiter table is exceeded.

## 6. Proofs

All theorems hold for every value of the constants that meets the assumptions named in
the modules.

`CapProofs`. `IInv` is TypeOK, `Shape` (an occupied slot names an object, a free one
names none), EdgeSound, `FreedIdle` and `FreedUnqueued` (reclaimed
storage is named by no one), TaskConfined and `TaskFresh` (the header of a live child is as
`gj_obj_hdr_init` made it, but for the count), with SlotsLeftExact on top. SlotsLeftExact alone is not
inductive: a clear decrements the count of the object the slot names, so the slot
must name one; and reclaim relies on the count to conclude that no slot is left.
`Effect` classifies every step as binding one slot, clearing one slot, emptying one bare,
moving one binding or touching no slot, so that each property is proved for five cases. From it:
TypeCorrect, CountCorrect, TaskCorrect, EdgesCorrect, ReclaimCorrect, HandleCorrect,
EscalationCorrect, RootMetaCorrect and ResurrectionCorrect. The last is the
interesting one: re-initialised storage has generation 1 again, which old bindings
recorded, and it is the count that excludes a surviving binding. A spawn-table entry is reused without
looking at the count; there it is TaskConfined: a child has one binding and no edge, and the
entry is free only after that binding was cleared.

QuotaCorrect (QuotaExact) needs `Paid`: the account a slot was charged to is the account
of its table, unless both are `skewed`. A late attach and a bare clear make the accounts they
touch skewed, and every other step treats the chain of an account as one.
HygieneCorrect (HygieneQueued) assumes that the queue has an entry for each object that
can be revoked, which `cap_queue_full` shows to be necessary. Its invariant `QueueSound`
says that no object is queued twice and no root meta at all, so an entry is free
whenever an object that is not queued is revoked.

`AuthorityProofs`. AuthorityCorrect: `Cap` implements `Authority`. With `IInv` and the
five cases of `Effect`, binding a slot is a grant or a derivation, clearing one, by whatever
path, is a drop or invisible, moving is a move, and of the steps that touch no slot only
`RevokeBegin` changes what is usable; `Reinit` does not, because no slot is left that
names the storage.

`DoorProofs`. `Safe` (TypeOK and SingleFlight) is inductive: TypeCorrect,
SingleFlightCorrect, NotDemotedCorrect. `Served` adds what OwnReply needs: an owner
that is awake without a reply has not scheduled since it posted (`OwnerSleeps`), the
thread that serves a live door holds its mark (`Marked`), it serves the owner's
request (`ServesOwner`, ServeWindow), a request is taken before a reply exists
(`TakenFirst`). ServeWindowCorrect and OwnReplyCorrect assume that no client is
killable, which `door_late_reply` shows to be necessary.

`NotifyProofs`. `IInv` is TypeOK with `Counted` (the count is at least the registered
threads and at most those and the killed ones, without which TypeOK is not inductive:
the count could drop below zero), `Sleepers` (only a registered thread past its
`thread_block` is asleep) and `Handed` (a thread holds bits only between its return and
its yield). NoLostBadge is not inductive: between `thread_block` and the second sample a
sleeper may have missed a pulse. `Sampled` states it from that sample on; a later pulse
finds the sleeper because it is counted, and wakes it or has spent its budget on others
(`WakeUpEffect`), for any budget. DeliveredCorrect follows from the compare-and-swap and
`Handed`.

`FutexProofs`. SleeperQueued is inductive with TypeOK (`IInv`), because it also says that
a slot names the thread that holds it, so no two threads hold one. SleeperCorrect
follows; VerdictCorrect needs TypeOK only.

`PthreadProofs`. `IInv` is `Base` (types, the futex table seen from the library, and
`Control`: which calls lead to which labels), `MutexOK`, `OnceOK` and `RwOK`, each
inductive on top of `Base`. `Effects` lists what one step may do to the words, so the
parts need not look at the futex calls again. `MutexOK` (MutexCorrect) is what justifies
that a critical section is one step. `RwOK` counts: `nReaders` is the number of threads with a
read hold, `nWritersWaiting` the number of writers between their increment and their
decrement, and `nWriter` is 1 exactly when some thread has a write hold; TypeCorrect,
RwCorrect and PreferredCorrect follow. The pairing of lock and unlock in the programs is
used here: `pthread_rwlock_unlock` decides by `nWriter` whose hold it ends. OnceCorrect
follows from `OnceOK`. BarrierCorrect assumes that no more threads use the barrier than
its count, and rests on `BarOK`: a thread is at most one round ahead of `uGen`,
and `uCount` is the number of threads that came to the current round.

`FileLockProofs`. The table part is about operators, and is proved once for every table:
`GoodTable` is the set of tables whose ranges are proper and, for each owner, disjoint.

- Merging. MergeTidies: merging a pair keeps the bytes of every owner and frees a slot.
  `TidyLoop` carries this through the two loops of a scan, and CoalesceTidies through the
  scans: a scan that changes the table leaves fewer used slots, so after one scan per
  slot nothing is left to merge. The loops are recursive functions over the slot numbers;
  their defining equation and induction are derived in the first section from the
  well-foundedness of the naturals, with sets in place of predicates.
- Carving. CarveOutcome: if a range sticks out of the carved one on both sides, it is the only one in
  the way. CarveCarves gives each new range the range it is a part of, and CarveKeeps
  concludes that exactly the bytes asked for are gone. CarveNothing: a carve that
  takes no byte changes nothing.
- `IInv` is `TableInv` (a good table with nothing to merge), `CallInv` (the requests are
  those `flock_validate` lets through) and `WaitInv` (WaitersCurrent, and who is
  registered asked to block, without which EAGAIN would leave an entry behind).

From these: TypeCorrect, CanonicalCorrect, WaitersCorrect; ImplementsCorrect, the
refinement of `ByteLocks` (a carve and an insertion change the bytes of the arguments, an
unlock those and no others); ExclusionCorrect, by the theorem of `ByteLocks`; and
SleeperCorrect, for any wake budget and any number of owners.

`ByteLocks`. ExclusiveCorrect: a writer of a byte is its only owner.

CHOOSE and recursive functions are unfolded by Zenon only. The SMT backend of this
version of the prover reads `e = CHOOSE x : P(x)` as `P(e)`, which is wrong when nothing
satisfies `P`. So every such term has a name that is hidden in the SMT leaves, and
what is used of it is proved first: that a first free slot, a runnable thread or a
conflict exists.

Only model-checked: the liveness properties EdgesDrained, FlightEnds, CallEnds,
TopRankRuns, BadgeReaped, TimedWaitEnds and AllFinish (liveness under fairness is out of
the prover's reach). Every invariant, action property and refinement of a passing run is
a theorem, and so are RootMetaConfined and, for any wake budget, NoLostBadge. `SoftDeadlock` has no theorem: what it promises, NotAllAsleep, is false.

## 7. Known limits of what holds

Besides the counterexamples of section 4, these were met while modelling.

- A binding that the kernel installs itself has no edge and is never cleared.
- No timer wakes a client blocked past its deadline. More than eight contenders outlast an
  abort (exempt in CallEnds by `lapsed`).
- A process that ends without the exit call leaves its futex slots behind, and the
  robust exit never wakes waiters of a shared key.
- `pthread_join` sleeps on a word that the kernel clears only through the one global
  `clear_child_tid`; IPC_RECV takes the request before it copies it out, and a failed copy
  leaves the client waiting. Neither caller is modelled.
- A file-lock request that finds no slot after carving loses bytes and wakes nobody
  (`short` in SleeperBlocked).
- A thread that takes a second read hold while a writer waits for its first sleeps for ever,
  and the writer with it: `pthread_rwlock_rdlock` prefers the writer and does not know its
  holders. No run and no theorem covers nested read holds.

## 8. Plan and what is not modelled

Next, in this order: an abstract call specification refined by `Door` where clients are
not killed, with its proof; the safety part of the liveness arguments (that a door or a
notification with work to do always has a step that leads on); the wait4 table and the pager
mirror slot (`proc/process.c`); the cold IPC queue; `pmm_freelist` and `sched_coop` against reference
definitions.

Not modelled. Memory management, page tables, drivers and boot code are hardware
sequences. The loaders parse bytes. The RAM file system, the network stack, io_uring
and the service doors are large and mostly sequential; the service doors do not use
`struct gj_door`. Of user space only the thread library is modelled; the rest of the C
library is mostly generated, and the daemons and the shell are separate programs.
Within the modelled files the telemetry counters, their log lines and the boot
self-tests are left out, and so are door badges. `gj_cap_quota_set_parent` is modelled
as a fixed chain. `u32Pin` is left out because only a self-test raises it. Thread
affinity and the run loops of the other CPUs are not modelled, and neither are
`pthread_create` and `pthread_join`, recursive and timed mutexes, timed condition
waits and named semaphores.
