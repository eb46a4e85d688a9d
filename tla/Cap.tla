-------------------------------- MODULE Cap --------------------------------
(***************************************************************************)
(* Capability tables, derivation edges, slot quota and deferred revoke of  *)
(* the GreenJade kernel (kernel/cap/cnode.c, kernel/cap/revoke.c).         *)
(*                                                                         *)
(* A CNode is a process's table of slots.  A handle is a slot index and a  *)
(* slot generation; it is usable while the slot is occupied, the           *)
(* generations agree and the object is LIVE with the generation the slot   *)
(* recorded.  Revoking an object marks it DEAD at once and leaves the      *)
(* clearing of its slots to a bounded walk driven by the timer interrupt.  *)
(*                                                                         *)
(* Grain.  System calls run with interrupts masked (SFMASK clears IF) on   *)
(* one CPU, so a capability operation is one step.  The two loops that     *)
(* hold a CNode's try-lock run in kernel context and can be interrupted,   *)
(* so they take one step per slot, and only the timer's walk may come      *)
(* between two of them.  The walk runs to completion once it has begun.    *)
(***************************************************************************)
EXTENDS Integers, FiniteSets

CONSTANTS
  CNode,          \* capability tables
  NoCNode,        \* null CNode pointer
  Obj,            \* object headers (struct gj_obj_hdr)
  NoObj,          \* null object pointer
  MetaOf,         \* CNode -> the object that is its root meta
  Task,           \* objects that are entries of the spawn table (struct spawn_slot)
  NSlots,         \* cSlots: table length
  Rights,         \* rights bits
  InstallRights,  \* rights the kernel installs a capability with
  WantRights,     \* rights masks passed to mint and copy
  Account,        \* slot-quota accounts (struct gj_cap_quota)
  NoAccount,      \* null account pointer
  Chain,          \* an account with its ancestors, at most 8 deep
  Limit,          \* u32Limit of an account
  Pool,           \* indices of the derivation-edge pool
  U32Max,         \* largest uint32_t
  QMax,           \* GJ_REVOKE_Q_MAX
  Budget,         \* u32MaxSlots of one deferred pass
  GenBound,       \* bound: reuses of one slot
  RefBound,       \* bound: kernel references to one object
  ReclaimDriver   \* somebody calls gj_obj_reclaim

Slot == 0 .. (NSlots - 1)
MetaObj == {MetaOf[c] : c \in CNode}
QIdx == 1 .. QMax

ASSUME CapAssumption ==
  /\ IsFiniteSet(CNode) /\ NoCNode \notin CNode
  /\ IsFiniteSet(Obj) /\ NoObj \notin Obj
  /\ MetaOf \in [CNode -> Obj]
  /\ \A c, d \in CNode : MetaOf[c] = MetaOf[d] => c = d
  /\ Task \subseteq Obj \ MetaObj
  /\ NSlots \in Nat /\ NSlots >= 2
  /\ {"MINT", "GRANT", "DESTROY", "READ", "IDENTIFY", "WAIT"} \subseteq Rights
  /\ InstallRights \subseteq SUBSET Rights /\ WantRights \subseteq SUBSET Rights
  /\ NoAccount \notin Account
  /\ Chain \in [Account -> SUBSET Account]
  /\ Limit \in [Account -> Nat]
  /\ IsFiniteSet(Pool)
  /\ QMax \in Nat \ {0} /\ Budget \in Nat \ {0}
  /\ U32Max \in Nat \ {0}
  /\ GenBound \in 1 .. U32Max /\ RefBound \in 0 .. U32Max
  /\ ReclaimDriver \in BOOLEAN

VARIABLES
  slots,   \* CNode -> slot -> binding (struct gj_cap_slot)
  hdr,     \* object headers
  edge,    \* derivation edges, by pool index
  q,       \* deferred revoke queue (g_aRevokeQ)
  cursor,  \* round-robin start (g_u32RevokeQCursor)
  acct,    \* CNode -> attached account
  used,    \* u32Used of each account
  lock,    \* CNode soft try-locks (u32SoftLock)
  sweep,   \* a loop over one CNode that holds its try-lock
  tick,    \* a deferred pass in progress
  freed,   \* objects whose storage was reclaimed
  task,    \* state of each spawn-table entry: u8Used and u32Alive
  skewed   \* history: accounts whose books a bare clear or a late attach put out

SpawnVars == <<task, skewed>>

vars == <<slots, hdr, edge, q, cursor, acct, used, lock, sweep, tick, freed, SpawnVars>>

----------------------------------------------------------------------------
(* Values *)

\* ENDPOINT stands for every type but root meta; a binding to a Task is the one
\* whose type is PROCESS.
CapType == {"INVALID", "ROOT_META", "ENDPOINT"}

\* GJ_SPAWN_PROCESS_RIGHTS_BASE: neither MINT nor GRANT.
TaskRights == {"READ", "IDENTIFY", "DESTROY", "WAIT"}

SlotRec == [type : CapType, rights : SUBSET Rights, gen : 1 .. GenBound,
            objGen : Nat, obj : Obj \cup {NoObj}, payer : Account \cup {NoAccount}]

HdrRec == [state : {"LIVE", "DEAD"}, gen : 0 .. U32Max,
           slotsLeft : Nat, ref : Nat]

EdgeRec == [obj : Obj \cup {NoObj}, cn : CNode \cup {NoCNode}, slot : Slot]

FreeEdge == [obj |-> NoObj, cn |-> NoCNode, slot |-> 0]
IdleSweep == [cn |-> NoCNode, obj |-> NoObj]
IdleTick == [on |-> FALSE, start |-> 0, limit |-> 1, scanned |-> 0,
             cleared |-> 0, walked |-> FALSE]

\* gj_obj_hdr_init: generation 1, nothing derived, no references.
FreshHdr == [state |-> "LIVE", gen |-> 1, slotsLeft |-> 0, ref |-> 0]

\* A free slot keeps nothing but its generation.  The payer is not in the code:
\* it records the account an install was charged to.
FreeSlot(g) == [type |-> "INVALID", rights |-> {}, gen |-> g,
                objGen |-> 0, obj |-> NoObj, payer |-> NoAccount]

\* gj_cnode_init.
EmptySlot == FreeSlot(1)

Edge(o, c, s) == [obj |-> o, cn |-> c, slot |-> s]

----------------------------------------------------------------------------
(* Pure parts of the operations *)

Occupied(c, s) == slots[c][s].type # "INVALID"

\* The slots that hold a binding to o.
SlotsOf(o) == {x \in CNode \X Slot : slots[x[1]][x[2]].obj = o}

EdgesOf(o) == {e \in Pool : edge[e].obj = o}

\* gj_obj_check_live: the object is LIVE with the expected generation.
CheckLive(o, g) == hdr[o].state = "LIVE" /\ hdr[o].gen = g

\* gj_cap_resolve succeeds on the handle (s, g) of CNode c.
Resolves(c, s, g) ==
  /\ Occupied(c, s)
  /\ slots[c][s].gen = g
  /\ slots[c][s].obj # NoObj
  /\ CheckLive(slots[c][s].obj, slots[c][s].objGen)

\* The slot gj_cap_alloc_install settles on: the first free one past slot 0.
FirstFree(c, s) == s # 0 /\ ~Occupied(c, s) /\ \A i \in 1 .. (s - 1) : Occupied(c, i)

NextGenNoBump(g) == g

\* The next slot generation skips 0, which marks a null handle.
NextGen(g) == IF g = U32Max THEN 1 ELSE g + 1

\* gj_cap_slot_invalidate (S7): unbind, bump the slot generation.
Invalidated(b) == FreeSlot(NextGen(b.gen))

Minus1(n) == IF n > 0 THEN n - 1 ELSE 0

\* An account with its ancestors; nothing for the null account.
PayChain(a) == IF a = NoAccount THEN {} ELSE Chain[a]

\* The accounts a charge or a refund for CNode c walks.
ChainOf(c) == PayChain(acct[c])

CanCharge(c) == \A a \in ChainOf(c) : used[a] < Limit[a]
Charged(u, c) == [a \in Account |-> IF a \in ChainOf(c) THEN u[a] + 1 ELSE u[a]]
RefundedLeafOnly(u, c) == [a \in Account |-> IF a = acct[c] THEN Minus1(u[a]) ELSE u[a]]
Refunded(u, c) == [a \in Account |-> IF a \in ChainOf(c) THEN Minus1(u[a]) ELSE u[a]]

UnlinkedNothing(ed, o, c, s) == ed

\* gj_cdt_unlink_slot: every edge of o on this slot goes back to the pool.
Unlinked(ed, o, c, s) ==
  [e \in Pool |-> IF ed[e] = Edge(o, c, s) THEN FreeEdge ELSE ed[e]]

\* cdt_edge_try_wire: an exhausted pool leaves the binding without an edge.
Wired(ed, o, c, s) ==
  IF \E e \in Pool : ed[e] = FreeEdge
  THEN [ed EXCEPT ![CHOOSE e \in Pool : ed[e] = FreeEdge] = Edge(o, c, s)]
  ELSE ed

----------------------------------------------------------------------------
(* Binding and unbinding one slot *)

\* gj_cap_slot_install: its checks.  The GenBound conjunct is the model's.
CanInstall(c, s, t, o) ==
  /\ hdr[o].state = "LIVE" /\ hdr[o].gen # 0
  /\ s = 0 <=> t = "ROOT_META"
  /\ ~Occupied(c, s)
  /\ hdr[o].slotsLeft < U32Max
  /\ CanCharge(c)
  /\ slots[c][s].gen < GenBound

\* The slot generation stays: only an invalidate moves it (S7).
Bound(c, s, t, r, o) ==
  [type |-> t, rights |-> r, gen |-> slots[c][s].gen,
   objGen |-> hdr[o].gen, obj |-> o, payer |-> acct[c]]

\* gj_cap_slot_install: its effect.
InstallAt(c, s, t, r, o) ==
  /\ CanInstall(c, s, t, o)
  /\ slots' = [slots EXCEPT ![c][s] = Bound(c, s, t, r, o)]
  /\ hdr' = [hdr EXCEPT ![o].slotsLeft = @ + 1]
  /\ used' = Charged(used, c)

\* A bare gj_cap_slot_invalidate.
ClearAtBare(c, s) ==
  /\ slots' = [slots EXCEPT ![c][s] = Invalidated(@)]
  /\ hdr' = hdr
  /\ used' = Refunded(used, c)

\* Refund and gj_cap_slot_invalidate_locked on an occupied slot: what delete,
\* the walk and the two locked loops share besides the edge they drop.
ClearAt(c, s) ==
  /\ slots' = [slots EXCEPT ![c][s] = Invalidated(@)]
  /\ hdr' = [hdr EXCEPT ![slots[c][s].obj].slotsLeft = Minus1(@)]
  /\ used' = Refunded(used, c)

----------------------------------------------------------------------------
(* Kernel and system-call operations *)

\* No interrupt handler is running and no locked loop is half done.
Thread == ~tick.on /\ sweep = IdleSweep

RevokeVars == <<q, cursor, lock, sweep, tick, freed>>

\* gj_process_bootstrap_root_meta: initialise the process's meta object and
\* install it in slot 0 with READ and IDENTIFY only.
Bootstrap(c) ==
  /\ Thread
  /\ ~Occupied(c, 0)
  /\ InstallAt(c, 0, "ROOT_META", {"READ", "IDENTIFY"}, MetaOf[c])
  /\ UNCHANGED <<edge, acct, RevokeVars, SpawnVars>>

\* door_install_endpoint and notify_install: gj_cap_alloc_install, which links
\* no derivation edge.
Install(c, s, r, o) ==
  /\ Thread
  /\ o \notin MetaObj \cup Task
  /\ FirstFree(c, s)
  /\ InstallAt(c, s, "ENDPOINT", r, o)
  /\ UNCHANGED <<edge, acct, RevokeVars, SpawnVars>>

\* Where a capability of this type is allocated: root meta goes to slot 0.
AllocSlot(c, s, t) == IF t = "ROOT_META" THEN s = 0 ELSE FirstFree(c, s)

MintUnmasked(c, s, g, want, dc, d) ==
  LET b == slots[c][s] IN
  /\ Thread
  /\ Resolves(c, s, g)
  /\ "MINT" \in b.rights
  /\ b.rights \cap want # {}
  /\ AllocSlot(dc, d, b.type)
  /\ InstallAt(dc, d, b.type, want, b.obj)
  /\ edge' = Wired(edge, b.obj, dc, d)
  /\ UNCHANGED <<acct, RevokeVars, SpawnVars>>

\* gj_cap_mint of slot s of CNode c into slot d of CNode dc.
Mint(c, s, g, want, dc, d) ==
  LET b == slots[c][s] IN
  /\ Thread
  /\ Resolves(c, s, g)
  /\ "MINT" \in b.rights
  /\ b.rights \cap want # {}
  /\ AllocSlot(dc, d, b.type)
  /\ InstallAt(dc, d, b.type, b.rights \cap want, b.obj)
  /\ edge' = Wired(edge, b.obj, dc, d)
  /\ UNCHANGED <<acct, RevokeVars, SpawnVars>>

\* gj_cap_copy: needs GRANT; an empty mask asks for all the source's rights.
Copy(c, s, g, want, d) ==
  LET b == slots[c][s]
      r == IF want = {} THEN b.rights ELSE b.rights \cap want IN
  /\ Thread
  /\ Resolves(c, s, g)
  /\ "GRANT" \in b.rights
  /\ AllocSlot(c, d, b.type)
  /\ InstallAt(c, d, b.type, r, b.obj)
  /\ edge' = Wired(edge, b.obj, c, d)
  /\ UNCHANGED <<acct, RevokeVars, SpawnVars>>

\* gj_cap_move: install in a free slot, retarget the edge, clear the source.
Move(c, s, g, d) ==
  LET b == slots[c][s] IN
  /\ Thread
  /\ Resolves(c, s, g)
  /\ "GRANT" \in b.rights
  /\ s # 0
  /\ AllocSlot(c, d, b.type)
  /\ CanInstall(c, d, b.type, b.obj)
  /\ slots' = [slots EXCEPT ![c] = [@ EXCEPT ![d] = Bound(c, d, b.type, b.rights, b.obj),
                                             ![s] = Invalidated(b)]]
  /\ hdr' = [hdr EXCEPT ![b.obj].slotsLeft = Minus1(@ + 1)]
  /\ edge' = Wired(Unlinked(edge, b.obj, c, s), b.obj, c, d)
  /\ used' = Refunded(Charged(used, c), c)
  /\ UNCHANGED <<acct, RevokeVars, SpawnVars>>

\* gj_cap_delete: DESTROY or GRANT, never slot 0.
Delete(c, s, g) ==
  /\ Thread
  /\ Resolves(c, s, g)
  /\ s # 0
  /\ slots[c][s].rights \cap {"DESTROY", "GRANT"} # {}
  /\ ClearAt(c, s)
  /\ edge' = Unlinked(edge, slots[c][s].obj, c, s)
  /\ UNCHANGED <<acct, RevokeVars, SpawnVars>>

\* gj_cap_quota_attach: one assignment.  The slots already occupied stay charged
\* to whoever paid for them and will be refunded to the new account.
Attach(c, a) ==
  /\ Thread
  /\ acct' = [acct EXCEPT ![c] = a]
  /\ skewed' = IF \A s \in Slot : Occupied(c, s) => slots[c][s].payer = a
               THEN skewed
               ELSE skewed \cup PayChain(a)
                           \cup UNION {PayChain(slots[c][s].payer) : s \in Slot}
  /\ UNCHANGED <<slots, hdr, edge, used, RevokeVars, task>>

\* process_pager_ref_hold and process_pager_ref_drop.
HoldRef(o) ==
  /\ Thread
  /\ o \notin MetaObj \cup Task
  /\ hdr[o].state = "LIVE" /\ hdr[o].ref < RefBound
  /\ hdr' = [hdr EXCEPT ![o].ref = @ + 1]
  /\ UNCHANGED <<slots, edge, acct, used, RevokeVars, SpawnVars>>

DropRefUnchecked(o) ==
  /\ Thread
  /\ hdr' = [hdr EXCEPT ![o].ref = @ - 1]
  /\ UNCHANGED <<slots, edge, acct, used, RevokeVars, SpawnVars>>

DropRef(o) ==
  /\ Thread
  /\ hdr[o].ref > 0
  /\ hdr' = [hdr EXCEPT ![o].ref = @ - 1]
  /\ UNCHANGED <<slots, edge, acct, used, RevokeVars, SpawnVars>>

----------------------------------------------------------------------------
(* Child processes *)

\* gj_process_init and the install of process_spawn: the header starts afresh,
\* whatever the entry's last user left in it.
SpawnedHdr == [FreshHdr EXCEPT !.slotsLeft = 1]

\* A free entry, a free slot of the parent, and the install's checks.
CanSpawn(c, s, o) ==
  /\ Thread
  /\ task[o] = "free"
  /\ FirstFree(c, s)
  /\ CanCharge(c)
  /\ slots[c][s].gen < GenBound

\* process_spawn: a table entry is initialised and its PROCESS capability
\* installed in the parent's CNode c.
Spawn(c, s, o) ==
  /\ CanSpawn(c, s, o)
  /\ hdr' = [hdr EXCEPT ![o] = SpawnedHdr]
  /\ slots' = [slots EXCEPT ![c][s] = [type |-> "ENDPOINT", rights |-> TaskRights,
                                       gen |-> slots[c][s].gen, objGen |-> FreshHdr.gen,
                                       obj |-> o, payer |-> acct[c]]]
  /\ used' = Charged(used, c)
  /\ task' = [task EXCEPT ![o] = "alive"]
  /\ UNCHANGED <<edge, acct, RevokeVars, skewed>>

\* process_spawn fails after the install (verification, thread creation): the
\* slot is cleared by a bare gj_cap_slot_invalidate, which neither refunds the
\* charge nor lowers the count, and the entry is free again.
SpawnFail(c, s, o) ==
  /\ CanSpawn(c, s, o)
  /\ hdr' = [hdr EXCEPT ![o] = SpawnedHdr]
  /\ slots' = [slots EXCEPT ![c][s] = Invalidated(@)]
  /\ used' = Charged(used, c)
  /\ skewed' = skewed \cup ChainOf(c)
  /\ UNCHANGED <<edge, acct, RevokeVars, task>>

\* process_death of a child that process_wait_register had no room for: it is not a
\* wait child, so it is neither wiped nor revoked.
TaskExit(o) ==
  /\ Thread
  /\ task[o] = "alive"
  /\ task' = [task EXCEPT ![o] = "dead"]
  /\ UNCHANGED <<slots, hdr, edge, acct, used, RevokeVars, skewed>>

\* Mutant: the parent keeps its slot.
WaitKeepsSlot(c, s, g) ==
  LET b == slots[c][s] IN
  /\ Thread
  /\ Resolves(c, s, g)
  /\ b.obj \in Task /\ "WAIT" \in b.rights
  /\ task[b.obj] = "dead"
  /\ task' = [task EXCEPT ![b.obj] = "free"]
  /\ skewed' = skewed \cup PayChain(b.payer)
  /\ UNCHANGED <<slots, hdr, edge, acct, used, RevokeVars>>

\* process_wait on a child that stopped: again a bare gj_cap_slot_invalidate, and
\* the entry is free.  A live child makes it return AGAIN.
Wait(c, s, g) ==
  LET b == slots[c][s] IN
  /\ Thread
  /\ Resolves(c, s, g)
  /\ b.obj \in Task /\ "WAIT" \in b.rights
  /\ task[b.obj] = "dead"
  /\ slots' = [slots EXCEPT ![c][s] = Invalidated(@)]
  /\ task' = [task EXCEPT ![b.obj] = "free"]
  /\ skewed' = skewed \cup PayChain(b.payer)
  /\ UNCHANGED <<hdr, edge, acct, used, RevokeVars>>

----------------------------------------------------------------------------
(* Revoke *)

Queued(o) == \E i \in QIdx : q[i] = o

FreeIdx(i) == q[i] = NoObj /\ \A j \in 1 .. (i - 1) : q[j] # NoObj

PushedFirstOnly(o) == IF q[1] = NoObj THEN [q EXCEPT ![1] = o] ELSE q

\* revoke_q_push: once per object; a full queue refuses.
Pushed(o) ==
  IF ~Queued(o) /\ \E i \in QIdx : q[i] = NoObj
  THEN [q EXCEPT ![CHOOSE i \in QIdx : FreeIdx(i)] = o]
  ELSE q

\* gj_obj_revoke_begin: DEAD and a new generation first (S1), then the queue.
\* A full queue makes it return AGAIN; a second call fails on the state.  The one
\* caller for a process is process_death, which returns at once the second time.
RevokeBegin(o) ==
  /\ Thread
  /\ o \notin MetaObj
  /\ o \in Task => task[o] = "alive"
  /\ hdr[o].state = "LIVE"
  /\ hdr' = [hdr EXCEPT ![o].state = "DEAD", ![o].gen = (@ + 1) % (U32Max + 1)]
  /\ q' = Pushed(o)
  /\ task' = [t \in Task |-> IF t = o THEN "dead" ELSE task[t]]
  /\ UNCHANGED <<slots, edge, cursor, acct, used, lock, sweep, tick, freed, skewed>>

\* g_u32RevokeQLen: one past the last active entry.
QLen(n) == /\ n \in 1 .. QMax
           /\ q[n] # NoObj
           /\ \A i \in (n + 1) .. QMax : q[i] = NoObj

\* The entry gj_revoke_process_deferred is looking at.
Entry == ((tick.start + tick.scanned) % tick.limit) + 1

\* Edges of o whose CNode try-lock is free.
Walkable(o) == {e \in EdgesOf(o) : ~lock[edge[e].cn]}

Scanning == tick.on /\ tick.scanned < tick.limit
                    /\ (tick.cleared < Budget \/ tick.walked)

\* gj_revoke_process_deferred is called: timer interrupt or process death.
TickBegin ==
  /\ ~tick.on
  /\ \E n \in QIdx : /\ QLen(n)
                     /\ tick' = [IdleTick EXCEPT !.on = TRUE, !.limit = n,
                                                 !.start = cursor % n]
  /\ UNCHANGED <<slots, hdr, edge, q, cursor, acct, used, lock, sweep, freed, SpawnVars>>

\* gj_revoke_cdt_walk_batch, one edge e of a DEAD object: it clears the slot
\* the edge names, unless the slot no longer names the object, and returns the
\* edge to the pool.  An edge whose CNode is locked is left alone (R2).
WalkEdge(o, e) ==
  LET c == edge[e].cn
      s == edge[e].slot IN
  /\ hdr[o].state = "DEAD"
  /\ e \in Walkable(o)
  /\ edge' = [edge EXCEPT ![e] = FreeEdge]
  /\ IF slots[c][s].obj = o THEN ClearAt(c, s) ELSE UNCHANGED <<slots, hdr, used>>

\* process_death walks the dead process's own edges at once.  A batch of
\* several edges is several steps.
DeathWalk(o, e) ==
  /\ Thread
  /\ WalkEdge(o, e)
  /\ UNCHANGED <<acct, RevokeVars, SpawnVars>>

\* The walk of the entry the deferred pass is looking at.
TickWalk(e) ==
  LET o == q[Entry] IN
  /\ Scanning /\ tick.cleared < Budget
  /\ o # NoObj
  /\ WalkEdge(o, e)
  /\ tick' = [tick EXCEPT !.walked = TRUE,
                           !.cleared = IF slots[edge[e].cn][edge[e].slot].obj = o
                                       THEN @ + 1 ELSE @]
  /\ UNCHANGED <<q, cursor, acct, lock, sweep, freed, SpawnVars>>

\* The loop leaves an entry: it drops one whose object is not DEAD, and moves
\* the cursor past one that still had work.  Edges of locked CNodes use up the
\* batch's visit cap, so with one of them the walk may leave any edge behind.
TickNext ==
  LET o == q[Entry]
      dead == o # NoObj /\ hdr[o].state = "DEAD"
      work == dead /\ (tick.walked \/ hdr[o].slotsLeft > 0 \/ EdgesOf(o) # {}) IN
  /\ Scanning
  /\ dead => Walkable(o) = {} \/ Walkable(o) # EdgesOf(o) \/ tick.cleared = Budget
  /\ tick' = [tick EXCEPT !.scanned = @ + 1, !.walked = FALSE]
  /\ cursor' = IF work THEN Entry % tick.limit ELSE cursor
  /\ q' = IF dead THEN q ELSE [q EXCEPT ![Entry] = NoObj]
  /\ UNCHANGED <<slots, hdr, edge, acct, used, lock, sweep, freed, SpawnVars>>

TickEnd ==
  /\ tick.on /\ ~Scanning
  /\ tick' = IdleTick
  /\ UNCHANGED <<slots, hdr, edge, q, cursor, acct, used, lock, sweep, freed, SpawnVars>>

\* gj_cnode_invalidate_obj_slots (o an object) and process_death_cnode_wipe
\* (o null: every slot).  Both hold the CNode's try-lock.
SweepBegin(c, o) ==
  /\ Thread
  /\ ~lock[c]
  /\ lock' = [lock EXCEPT ![c] = TRUE]
  /\ sweep' = [cn |-> c, obj |-> o]
  /\ UNCHANGED <<slots, hdr, edge, q, cursor, acct, used, tick, freed, SpawnVars>>

\* The slots the loop has still to clear.
ToSweep == {s \in Slot : /\ sweep.cn # NoCNode
                         /\ Occupied(sweep.cn, s)
                         /\ sweep.obj \in {NoObj, slots[sweep.cn][s].obj}}

\* The loop clears one slot; slots it passes over change nothing.
SweepStep(s) ==
  LET c == sweep.cn IN
  /\ ~tick.on
  /\ s \in ToSweep
  /\ ClearAt(c, s)
  /\ edge' = Unlinked(edge, slots[c][s].obj, c, s)
  /\ UNCHANGED <<q, cursor, acct, lock, sweep, tick, freed, SpawnVars>>

SweepEndLocked ==
  LET c == sweep.cn IN
  /\ ~tick.on
  /\ c # NoCNode
  /\ sweep.obj = NoObj => ToSweep = {}
  /\ lock' = lock
  /\ acct' = IF sweep.obj = NoObj THEN [acct EXCEPT ![c] = NoAccount] ELSE acct
  /\ sweep' = IdleSweep
  /\ UNCHANGED <<slots, hdr, edge, q, cursor, used, tick, freed, SpawnVars>>

\* The loop ends and unlocks.  Invalidating one object's slots may stop at the
\* caller's budget; a wipe runs through and detaches the quota account.
SweepEnd ==
  LET c == sweep.cn IN
  /\ ~tick.on
  /\ c # NoCNode
  /\ sweep.obj = NoObj => ToSweep = {}
  /\ lock' = [lock EXCEPT ![c] = FALSE]
  /\ acct' = IF sweep.obj = NoObj THEN [acct EXCEPT ![c] = NoAccount] ELSE acct
  /\ sweep' = IdleSweep
  /\ UNCHANGED <<slots, hdr, edge, q, cursor, used, tick, freed, SpawnVars>>

ReclaimReadyEarly(o) == hdr[o].state = "DEAD" /\ EdgesOf(o) = {} /\ hdr[o].ref = 0

\* gj_obj_reclaim_ready.  Nothing raises u32Pin, its last check.
ReclaimReady(o) ==
  /\ hdr[o].state = "DEAD"
  /\ hdr[o].slotsLeft = 0
  /\ EdgesOf(o) = {}
  /\ hdr[o].ref = 0

\* gj_obj_reclaim: drops the queue entry; the storage may be reused.  Nothing in
\* the kernel calls it; a spawn-table entry is reused without it, by Spawn.
Reclaim(o) ==
  /\ ReclaimDriver /\ Thread
  /\ o \notin freed \cup Task
  /\ ReclaimReady(o)
  /\ q' = [i \in QIdx |-> IF q[i] = o THEN NoObj ELSE q[i]]
  /\ freed' = freed \cup {o}
  /\ UNCHANGED <<slots, hdr, edge, cursor, acct, used, lock, sweep, tick, SpawnVars>>

\* gj_obj_hdr_init on reclaimed storage (an endpoint's or a notification's)
\* starts again at generation 1.
Reinit(o) ==
  /\ Thread
  /\ o \in freed
  /\ hdr' = [hdr EXCEPT ![o] = FreshHdr]
  /\ freed' = freed \ {o}
  /\ UNCHANGED <<slots, edge, q, cursor, acct, used, lock, sweep, tick, SpawnVars>>

----------------------------------------------------------------------------
Init ==
  /\ slots = [c \in CNode |-> [s \in Slot |-> EmptySlot]]
  /\ hdr = [o \in Obj |-> FreshHdr]
  /\ edge = [e \in Pool |-> FreeEdge]
  /\ q = [i \in QIdx |-> NoObj]
  /\ cursor = 0
  /\ acct = [c \in CNode |-> NoAccount]
  /\ used = [a \in Account |-> 0]
  /\ lock = [c \in CNode |-> FALSE]
  /\ sweep = IdleSweep
  /\ tick = IdleTick
  /\ freed = {}
  /\ task = [o \in Task |-> "free"]
  /\ skewed = {}

\* A user handle may carry any slot and any generation.
Handle == Slot \X (1 .. GenBound)

Next ==
  \/ \E c \in CNode : Bootstrap(c)
  \/ \E c \in CNode, o \in (Obj \ MetaObj) \cup {NoObj} : SweepBegin(c, o)
  \/ \E c \in CNode, s \in Slot, r \in InstallRights, o \in Obj : Install(c, s, r, o)
  \/ \E c \in CNode, h \in Handle, w \in WantRights, dc \in CNode, d \in Slot :
        Mint(c, h[1], h[2], w, dc, d)
  \/ \E c \in CNode, h \in Handle, w \in WantRights, d \in Slot : Copy(c, h[1], h[2], w, d)
  \/ \E c \in CNode, h \in Handle, d \in Slot : Move(c, h[1], h[2], d)
  \/ \E c \in CNode, h \in Handle : Delete(c, h[1], h[2])
  \/ \E c \in CNode, a \in Account : Attach(c, a)
  \/ \E c \in CNode, s \in Slot, o \in Task : Spawn(c, s, o) \/ SpawnFail(c, s, o)
  \/ \E o \in Task : TaskExit(o)
  \/ \E c \in CNode, h \in Handle : Wait(c, h[1], h[2])
  \/ \E o \in Obj : HoldRef(o) \/ DropRef(o) \/ RevokeBegin(o) \/ Reclaim(o) \/ Reinit(o)
  \/ TickBegin \/ (\E e \in Pool : TickWalk(e)) \/ TickNext \/ TickEnd
  \/ \E o \in Obj, e \in Pool : DeathWalk(o, e)
  \/ (\E s \in Slot : SweepStep(s)) \/ SweepEnd

Spec == Init /\ [][Next]_vars

\* The timer keeps ticking and does not land inside a locked loop every time
\* (a loop lasts far less than the 16 ticks between two passes); a pass runs to
\* its end, and the loop it interrupted makes progress between two passes.
Fairness ==
  /\ SF_vars(TickBegin /\ sweep = IdleSweep)
  /\ WF_vars(\E e \in Pool : TickWalk(e)) /\ WF_vars(TickNext) /\ WF_vars(TickEnd)
  /\ SF_vars(\E s \in Slot : SweepStep(s)) /\ SF_vars(SweepEnd)

FairSpec == Spec /\ Fairness

----------------------------------------------------------------------------
(* Properties *)

\* Types of the tables, headers, edges, queue, accounts, locks and the state of the
\* two loops of cnode.c and revoke.c.
TypeOK ==
  /\ slots \in [CNode -> [Slot -> SlotRec]]
  /\ hdr \in [Obj -> HdrRec]
  /\ edge \in [Pool -> EdgeRec]
  /\ q \in [QIdx -> Obj \cup {NoObj}]
  /\ cursor \in 0 .. QMax
  /\ acct \in [CNode -> Account \cup {NoAccount}]
  /\ used \in [Account -> Nat]
  /\ lock \in [CNode -> BOOLEAN]
  /\ sweep \in [cn : CNode \cup {NoCNode}, obj : Obj \cup {NoObj}]
  /\ tick \in [on : BOOLEAN, start : 0 .. QMax, limit : 1 .. QMax,
                scanned : 0 .. QMax, cleared : 0 .. Budget, walked : BOOLEAN]
  /\ freed \in SUBSET Obj
  /\ task \in [Task -> {"free", "alive", "dead"}]
  /\ skewed \in SUBSET Account

\* The object is not a spawn-table entry that is free.
InUse(o) == o \in Task => task[o] # "free"

\* S4/S6 accounting: u32SlotsLeft counts exactly the slots bound to an object in
\* use, through every install, move, delete, walk and wipe.  The bare clears of
\* spawn.c leave a wrong count behind, but only in an entry they free, and the
\* next spawn starts it afresh.
SlotsLeftExact ==
  \A o \in Obj : InUse(o) => hdr[o].slotsLeft = Cardinality(SlotsOf(o))

\* A child is named by one capability at most, never derived from, with no edge;
\* a free spawn-table entry is LIVE and named by none.  So process_wait, whose
\* bare clear drops no edge and no other binding, leaves nothing that would reach
\* the next child in the same entry.
TaskConfined ==
  /\ \A c, d \in CNode, s, k \in Slot :
        slots[c][s].obj \in Task /\ slots[d][k].obj = slots[c][s].obj => c = d /\ s = k
  /\ \A c \in CNode, s \in Slot : slots[c][s].obj \in Task =>
        slots[c][s].rights = TaskRights /\ InUse(slots[c][s].obj)
  /\ \A e \in Pool : edge[e].obj \notin Task
  /\ \A o \in Task : ~InUse(o) => hdr[o].state = "LIVE"

\* Every linked derivation edge names an occupied slot bound to the edge's own
\* object, and no slot has two edges: the walk can never clear an unrelated
\* capability and no pool entry leaks.
EdgeSound ==
  /\ \A e \in Pool : edge[e].obj # NoObj =>
        edge[e].cn \in CNode /\ slots[edge[e].cn][edge[e].slot].obj = edge[e].obj
  /\ \A e, f \in Pool : edge[e].obj # NoObj /\ edge[e] = edge[f] => e = f

\* R9: an object whose storage was reclaimed is named by no slot, no edge, no
\* queue entry and no kernel reference, so gj_obj_hdr_init may reuse it.
NoDangling ==
  \A o \in freed : /\ SlotsOf(o) = {} /\ EdgesOf(o) = {}
                   /\ ~Queued(o) /\ hdr[o].ref = 0

\* The slots charged to an account, directly or through a descendant.
Paying(a) == {x \in CNode \X Slot : a \in PayChain(slots[x[1]][x[2]].payer)}

\* S6: u32Used of an account is the number of occupied slots charged to it,
\* directly or through its descendants, unless an attach to an occupied CNode or a
\* bare clear involved it; and no account ever exceeds its limit.
QuotaExact ==
  \A a \in Account : /\ a \notin skewed => used[a] = Cardinality(Paying(a))
                     /\ used[a] <= Limit[a]

\* S6 as SOLARIS_STYLE_REMAINING.md and cap.h have it: every occupied slot charges
\* its account and every invalidate refunds it.  False: TLC's counterexamples
\* are those of CapReap.cfg and CapLateAttach.cfg.
QuotaAlways == \A a \in Account : used[a] = Cardinality(Paying(a))

\* What spawn.h says of a child's life, that death is followed by the reaping in
\* process_wait: the parent's handle of a child that stopped still resolves.
DeadReapable ==
  \A c \in CNode, s \in Slot :
    LET b == slots[c][s] IN
    b.obj \in Task /\ "WAIT" \in b.rights /\ task[b.obj] = "dead" => Resolves(c, s, b.gen)

\* K2/K3: root meta stays in slot 0 of its own CNode with READ and IDENTIFY,
\* and no derivation edge ever names it.
RootMetaConfined ==
  /\ \A c \in CNode, s \in Slot : slots[c][s].obj \in MetaObj =>
        /\ s = 0 /\ slots[c][s].obj = MetaOf[c]
        /\ slots[c][s].rights = {"READ", "IDENTIFY"}
  /\ \A e \in Pool : edge[e].obj \notin MetaObj

\* R7: a DEAD object that still has derivation edges is on the deferred queue.
HygieneQueued == \A o \in Obj : hdr[o].state = "DEAD" /\ EdgesOf(o) # {} => Queued(o)

\* The binding in slot s of c can be used through its current handle.
Usable(c, s) == Resolves(c, s, slots[c][s].gen)

\* A binding that stopped resolving never resolves again: revoke only marks the
\* object, and reclaimed storage starts over at generation 1, the generation
\* most bindings recorded (S2, S3).
NoResurrection ==
  [][\A c \in CNode, s \in Slot :
       Occupied(c, s) /\ ~Usable(c, s) => ~Usable(c, s)']_vars

\* Slot generations only grow, and a slot's binding changes only by becoming
\* free with a larger generation: a stale handle never reaches a new binding.
HandleFresh ==
  [][\A c \in CNode, s \in Slot :
       /\ slots'[c][s].gen >= slots[c][s].gen
       /\ Occupied(c, s) /\ slots'[c][s] # slots[c][s] =>
            slots'[c][s].gen > slots[c][s].gen /\ ~Occupied(c, s)']_vars

\* Mint, copy and move never escalate: outside the kernel's own installs, a new
\* binding's rights are covered by one usable binding to the same object.
NoEscalation ==
  [][\A c \in CNode, s \in Slot :
       ~Occupied(c, s) /\ Occupied(c, s)' =>
         \/ /\ edge' = edge
            /\ slots'[c][s].rights \in InstallRights \cup {{"READ", "IDENTIFY"}, TaskRights}
         \/ \E d \in CNode, t \in Slot :
              /\ Usable(d, t)
              /\ slots[d][t].obj = slots'[c][s].obj
              /\ slots'[c][s].rights \subseteq slots[d][t].rights]_vars

\* R7, S4: once an object is DEAD its derivation edges, and the slots they
\* name, are eventually all cleared.  (A root meta is never revoked.)
EdgesDrained ==
  \A o \in Obj \ MetaObj : hdr[o].state = "DEAD" /\ EdgesOf(o) # {} ~> EdgesOf(o) = {}

----------------------------------------------------------------------------
(* The reference monitor the tables implement *)

\* The authority a slot carries: what its current handle resolves to.
Authorities ==
  [x \in CNode \X Slot |->
     IF Usable(x[1], x[2])
     THEN [held |-> TRUE, obj |-> slots[x[1]][x[2]].obj, rights |-> slots[x[1]][x[2]].rights]
     ELSE [held |-> FALSE, rights |-> {}]]

\* What the kernel hands out on its own account.
KernelGrants ==
  {g \in (CNode \X Slot) \X Obj \X (InstallRights \cup {{"READ", "IDENTIFY"}, TaskRights}) :
     \/ g[2] = MetaOf[g[1][1]] /\ g[1][2] = 0 /\ g[3] = {"READ", "IDENTIFY"}
     \/ g[2] \notin MetaObj /\ g[3] \in InstallRights
     \/ g[2] \in Task /\ g[3] = TaskRights}

Monitor == INSTANCE Authority
             WITH Place <- CNode \X Slot, Granted <- KernelGrants, auth <- Authorities

\* S1 to S7: with lazy clearing, reuse of slots and storage and interrupts in between,
\* the tables behave as a monitor that revokes everywhere at once, never gives back
\* what was revoked and lets nobody derive more than he holds.
ImplementsAuthority == Monitor!Spec
============================================================================
