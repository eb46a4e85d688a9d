----------------------------- MODULE CapProofs -----------------------------
(***************************************************************************)
(* Proofs about Cap, for every number of CNodes, slots, objects, edges,    *)
(* accounts, child processes and queue entries.  Effect reduces the        *)
(* actions to five effects on the tables; each conjunct of the inductive   *)
(* invariant IInv is preserved by one lemma over those effects.            *)
(***************************************************************************)
EXTENDS Cap, TLAPS, FiniteSetTheorems, NaturalsInduction, WellFoundedInduction

\* The remainder arithmetic of the queue cursor and of the generation wrap.
LEMMA ModType == ASSUME NEW a \in Nat, NEW b \in Nat \ {0}
                 PROVE  a % b \in 0 .. (b - 1)
  OBVIOUS

\* The object generation wraps in 32 bits.
LEMMA GenWrap == ASSUME U32Max \in Nat, NEW g \in Nat
                 PROVE  (g + 1) % (U32Max + 1) \in 0 .. U32Max
  <1>1. U32Max + 1 \in Nat \ {0} /\ (U32Max + 1) - 1 = U32Max /\ g + 1 \in Nat
    OBVIOUS
  <1>2. (g + 1) % (U32Max + 1) \in 0 .. ((U32Max + 1) - 1)
    BY <1>1, ModType
  <1> QED
    BY <1>1, <1>2

\* Header updates that leave the slot count alone.
LEMMA RefUpdate ==
  ASSUME hdr \in [Obj -> HdrRec], NEW o \in Obj, NEW n \in Nat,
         hdr' = [hdr EXCEPT ![o].ref = n]
  PROVE  /\ hdr' \in [Obj -> HdrRec]
         /\ hdr'[o].state = hdr[o].state /\ hdr'[o].gen = hdr[o].gen
         /\ \A p \in Obj : hdr'[p].slotsLeft = hdr[p].slotsLeft
         /\ \A p \in Obj : p # o => hdr'[p] = hdr[p]
  BY DEF HdrRec

\* gj_obj_revoke_begin changes the state and the generation of one header.
LEMMA RevokeUpdate ==
  ASSUME hdr \in [Obj -> HdrRec], NEW o \in Obj, NEW g \in 0 .. U32Max,
         hdr' = [hdr EXCEPT ![o].state = "DEAD", ![o].gen = g]
  PROVE  /\ hdr' \in [Obj -> HdrRec]
         /\ hdr'[o].state = "DEAD"
         /\ \A p \in Obj : hdr'[p].slotsLeft = hdr[p].slotsLeft
         /\ \A p \in Obj : p # o => hdr'[p] = hdr[p]
  BY DEF HdrRec

\* The part of the slot record the code keeps consistent.
Shape ==
  \A c \in CNode, s \in Slot :
    IF Occupied(c, s)
    THEN slots[c][s].obj \in Obj /\ slots[c][s].gen < GenBound
    ELSE slots[c][s].obj = NoObj /\ slots[c][s].payer = NoAccount

\* What reclaim established still holds of reclaimed storage.
FreedIdle ==
  \A o \in freed : hdr[o].state = "DEAD" /\ hdr[o].slotsLeft = 0 /\ hdr[o].ref = 0

\* gj_obj_reclaim dropped the queue entry of reclaimed storage.
FreedUnqueued == \A o \in freed : ~Queued(o)

\* The header of a LIVE process is what gj_obj_hdr_init made it, but for the slot count.
TaskFresh ==
  \A o \in Task : hdr[o].state = "LIVE" => hdr[o].gen = FreshHdr.gen /\ hdr[o].ref = 0

\* The inductive invariant without the slot count.
IInv0 == /\ TypeOK /\ Shape /\ EdgeSound /\ FreedIdle /\ FreedUnqueued
         /\ TaskConfined /\ TaskFresh

\* The kernel boots into the invariant: empty tables, an empty queue.
LEMMA InitType == Init => IInv0
  <1> SUFFICES ASSUME Init PROVE IInv0
    OBVIOUS
  <1> USE CapAssumption DEF CapAssumption, Slot
  <1>1. EmptySlot \in SlotRec
    BY DEF EmptySlot, FreeSlot, SlotRec, CapType
  <1>2. FreshHdr \in HdrRec
    BY DEF FreshHdr, HdrRec
  <1>3. FreeEdge \in EdgeRec
    BY DEF FreeEdge, EdgeRec
  <1>4. TypeOK
    BY <1>1, <1>2, <1>3 DEF Init, TypeOK, IdleSweep, IdleTick, QIdx
  <1>5. Shape
    BY DEF Init, Shape, Occupied, EmptySlot, FreeSlot
  <1>6. EdgeSound
    BY DEF Init, EdgeSound, FreeEdge
  <1>7. TaskConfined /\ TaskFresh
    <2>1. NoObj \notin Task /\ Task \subseteq Obj
      OBVIOUS
    <2> QED
      BY <2>1 DEF Init, TaskConfined, TaskFresh, EmptySlot, FreeSlot, FreeEdge, FreshHdr
  <1> QED
    BY <1>4, <1>5, <1>6, <1>7 DEF IInv0, FreedIdle, FreedUnqueued, Init

----------------------------------------------------------------------------
(* What one step does to slots, headers, edges and accounts *)

\* Where a new binding comes from: the process's own bootstrap, the kernel, a
\* spawn into a free entry, or a usable binding that allows derivation.
Sourced(c, s, r, o) ==
  \/ o = MetaOf[c] /\ s = 0 /\ r = {"READ", "IDENTIFY"} /\ edge' = edge
  \/ o \notin MetaObj \cup Task /\ r \in InstallRights /\ edge' = edge
  \/ o \in Task /\ ~InUse(o) /\ r = TaskRights /\ edge' = edge
  \/ \E d \in CNode, k \in Slot :
       /\ Usable(d, k) /\ slots[d][k].obj = o /\ r \subseteq slots[d][k].rights
       /\ "MINT" \in slots[d][k].rights \/ "GRANT" \in slots[d][k].rights

\* The slot count after an install: a spawn starts it afresh.
CountAfter(o) == IF InUse(o) THEN hdr[o].slotsLeft + 1 ELSE 1

\* gj_cap_slot_install by any of its callers, process_spawn included.
Binds(c, s, t, r, o) ==
  /\ ~Occupied(c, s) /\ slots[c][s].gen < GenBound /\ hdr[o].state = "LIVE"
  /\ CanCharge(c)
  /\ slots' = [slots EXCEPT ![c][s] = Bound(c, s, t, r, o)]
  /\ hdr' = [hdr EXCEPT ![o].slotsLeft = CountAfter(o)]
  /\ used' = Charged(used, c)
  /\ Sourced(c, s, r, o)
  /\ edge' \in {edge, Wired(edge, o, c, s)}
  /\ task' = IF InUse(o) THEN task ELSE [task EXCEPT ![o] = "alive"]
  /\ UNCHANGED <<acct, freed, skewed>>

\* A slot is invalidated under its lock, with its edge and its charge.
Clears(c, s) ==
  /\ Occupied(c, s)
  /\ ClearAt(c, s)
  /\ edge' = Unlinked(edge, slots[c][s].obj, c, s)
  /\ UNCHANGED <<acct, freed, SpawnVars>>

\* A slot is emptied behind the accounts' back, and with it a spawn-table entry.
Voids(c, s, o) ==
  /\ slots[c][s].obj = o \/ (~Occupied(c, s) /\ ~InUse(o))
  /\ slots[c][s].gen < GenBound /\ hdr[o].state = "LIVE"
  /\ slots' = [slots EXCEPT ![c][s] = Invalidated(@)]
  /\ \E n \in Nat : hdr' = [hdr EXCEPT ![o].slotsLeft = n]
  /\ task' = [task EXCEPT ![o] = "free"]
  /\ skewed \subseteq skewed' /\ skewed' \in SUBSET Account
  /\ PayChain(slots[c][s].payer) \subseteq skewed'
  /\ used' \in [Account -> Nat]
  /\ \A a \in Account : \/ used'[a] = used[a]
                        \/ a \in skewed' /\ used'[a] = used[a] + 1 /\ used[a] < Limit[a]
  /\ UNCHANGED <<edge, acct, freed>>

\* gj_cap_move, with the facts of its source the properties need.
Moves(c, s, d) ==
  LET b == slots[c][s] IN
  /\ Occupied(c, s) /\ Usable(c, s) /\ "GRANT" \in b.rights
  /\ CanInstall(c, d, b.type, b.obj)
  /\ slots' = [slots EXCEPT ![c] = [@ EXCEPT ![d] = Bound(c, d, b.type, b.rights, b.obj),
                                             ![s] = Invalidated(b)]]
  /\ hdr' = [hdr EXCEPT ![b.obj].slotsLeft = Minus1(@ + 1)]
  /\ edge' = Wired(Unlinked(edge, b.obj, c, s), b.obj, c, d)
  /\ used' = Refunded(Charged(used, c), c)
  /\ UNCHANGED <<acct, freed, SpawnVars>>

\* The new account of a CNode either paid for all its slots or is put out, with
\* all the accounts that paid for them.
Rebased(c) ==
  \A s \in Slot : Occupied(c, s) =>
    \/ slots[c][s].payer = acct'[c]
    \/ PayChain(slots[c][s].payer) \cup PayChain(acct'[c]) \subseteq skewed'

\* Everything else: no slot, edge or charge changes; one header at most does, by
\* revoke, reuse or a kernel reference, and never that of a free entry.
Quiet ==
  /\ UNCHANGED <<slots, edge, used>>
  /\ hdr' \in [Obj -> HdrRec]
  /\ \A o \in Obj : hdr'[o].slotsLeft = hdr[o].slotsLeft
  /\ FreedIdle' /\ TaskFresh'
  /\ \A o \in Obj : \/ hdr'[o].state = "DEAD" \/ o \in freed
                    \/ hdr'[o].state = hdr[o].state /\ hdr'[o].gen = hdr[o].gen
  /\ \A o, p \in Obj : o = p \/ hdr'[o] = hdr[o] \/ hdr'[p] = hdr[p]
  /\ \A o \in Obj : hdr'[o].state = "DEAD" => hdr[o].state = "DEAD" \/ RevokeBegin(o)
  /\ \A o \in Obj : InUse(o) \/ hdr'[o] = hdr[o]
  /\ \A o \in Obj : InUse(o)' <=> InUse(o)
  /\ task' \in [Task -> {"free", "alive", "dead"}]
  /\ skewed \subseteq skewed' /\ skewed' \in SUBSET Account
  /\ \A c \in CNode : acct'[c] = acct[c] \/ Rebased(c)

\* Returning one linked edge to the pool is the unlink of the slot it names: no
\* other edge names that slot.  It makes the walk a Clears step.
LEMMA UnlinkOne ==
  ASSUME EdgeSound, NEW e \in Pool, edge[e].obj # NoObj, edge \in [Pool -> EdgeRec]
  PROVE  [edge EXCEPT ![e] = FreeEdge] = Unlinked(edge, edge[e].obj, edge[e].cn, edge[e].slot)
  <1>1. edge[e] = Edge(edge[e].obj, edge[e].cn, edge[e].slot)
    BY DEF Edge, EdgeRec
  <1>2. \A f \in Pool : edge[f] = edge[e] <=> f = e
    BY DEF EdgeSound
  <1> QED
    BY <1>1, <1>2 DEF Unlinked

\* With a LIVE header as gj_obj_hdr_init left it, the re-initialisation of a free entry
\* changes nothing but the slot count.
LEMMA SpawnHeader ==
  ASSUME IInv0, NEW o \in Task, task[o] = "free", hdr' = [hdr EXCEPT ![o] = SpawnedHdr]
  PROVE  hdr' = [hdr EXCEPT ![o].slotsLeft = 1] /\ hdr[o].state = "LIVE" /\ hdr[o].gen = 1
         /\ o \in Obj /\ ~InUse(o)
  <1>1. o \in Obj /\ hdr \in [Obj -> HdrRec]
    BY CapAssumption DEF IInv0, TypeOK, CapAssumption
  <1>2. ~InUse(o)
    BY DEF InUse
  <1>3. hdr[o].state = "LIVE" /\ hdr[o].gen = 1 /\ hdr[o].ref = 0
    BY <1>2 DEF IInv0, TaskConfined, TaskFresh, FreshHdr
  <1>4. hdr[o] \in HdrRec
    BY <1>1
  <1>5. SpawnedHdr = [hdr[o] EXCEPT !.slotsLeft = 1]
    BY <1>3, <1>4 DEF SpawnedHdr, FreshHdr, HdrRec
  <1> QED
    BY <1>1, <1>2, <1>3, <1>5

\* A binding to a process carries neither MINT nor GRANT, and its process is in use.
LEMMA BoundTask ==
  ASSUME IInv0, NEW c \in CNode, NEW s \in Slot
  PROVE  /\ InUse(slots[c][s].obj)
         /\ "MINT" \in slots[c][s].rights \/ "GRANT" \in slots[c][s].rights
              => slots[c][s].obj \notin Task
  <1>1. "MINT" \notin TaskRights /\ "GRANT" \notin TaskRights
    BY DEF TaskRights
  <1> QED
    BY <1>1 DEF IInv0, TaskConfined, InUse

\* Every step of the kernel binds one slot, clears one slot, voids one slot, moves one
\* binding, or is Quiet.  The proofs below reason about these five effects only.
LEMMA Effect ==
  ASSUME IInv0, [Next]_vars
  PROVE  \/ \E c \in CNode, s \in Slot, t \in {"ROOT_META", "ENDPOINT"},
                r \in SUBSET Rights, o \in Obj : Binds(c, s, t, r, o)
         \/ \E c \in CNode, s \in Slot : Clears(c, s)
         \/ \E c \in CNode, s \in Slot, o \in Task : Voids(c, s, o)
         \/ \E c \in CNode, s, d \in Slot : Moves(c, s, d)
         \/ Quiet
  <1> USE CapAssumption DEF CapAssumption
  <1> USE DEF RevokeVars, SpawnVars
  <1>a. ASSUME NEW c \in CNode, NEW s \in Slot, NEW t, NEW r, NEW o \in Obj,
               InstallAt(c, s, t, r, o), InUse(o), Sourced(c, s, r, o),
               edge' \in {edge, Wired(edge, o, c, s)}, UNCHANGED <<acct, freed, SpawnVars>>
        PROVE  Binds(c, s, t, r, o)
    BY <1>a DEF InstallAt, CanInstall, Binds, CountAfter
  <1>b. \A o \in Obj : o \notin Task => InUse(o)
    BY DEF InUse
  <1>1. ASSUME NEW c \in CNode, Bootstrap(c)
        PROVE  Binds(c, 0, "ROOT_META", {"READ", "IDENTIFY"}, MetaOf[c])
    <2>1. MetaOf[c] \in Obj /\ InUse(MetaOf[c]) /\ 0 \in Slot
      BY <1>b DEF MetaObj, Slot
    <2> QED
      BY <1>1, <1>a, <2>1 DEF Bootstrap, Sourced
  <1>2. ASSUME NEW c \in CNode, NEW s \in Slot, NEW r \in InstallRights, NEW o \in Obj,
               Install(c, s, r, o)
        PROVE  Binds(c, s, "ENDPOINT", r, o)
    <2>1. InUse(o)
      BY <1>2, <1>b DEF Install
    <2> QED
      BY <1>2, <1>a, <2>1 DEF Install, Sourced
  <1>3. ASSUME NEW c \in CNode, NEW s \in Slot, NEW g, NEW w \in WantRights,
               NEW dc \in CNode, NEW d \in Slot, Mint(c, s, g, w, dc, d)
        PROVE  \E t \in {"ROOT_META", "ENDPOINT"}, r \in SUBSET Rights, o \in Obj :
                 Binds(dc, d, t, r, o)
    <2> DEFINE b == slots[c][s]
    <2>1. b.obj \in Obj /\ b.type \in {"ROOT_META", "ENDPOINT"} /\ b.rights \in SUBSET Rights
      BY <1>3 DEF Mint, Resolves, IInv0, Shape, TypeOK, SlotRec, CapType, Occupied
    <2>2. Binds(dc, d, b.type, b.rights \cap w, b.obj)
      <3>1. Sourced(dc, d, b.rights \cap w, b.obj)
        BY <1>3, <2>1 DEF Mint, Sourced, Usable, Resolves
      <3>2. InUse(b.obj)
        BY BoundTask
      <3> QED
        BY <1>3, <1>a, <2>1, <3>1, <3>2 DEF Mint
    <2> QED
      BY <2>1, <2>2
  <1>4. ASSUME NEW c \in CNode, NEW s \in Slot, NEW g, NEW w \in WantRights,
               NEW d \in Slot, Copy(c, s, g, w, d)
        PROVE  \E t \in {"ROOT_META", "ENDPOINT"}, r \in SUBSET Rights, o \in Obj :
                 Binds(c, d, t, r, o)
    <2> DEFINE b == slots[c][s]
               r == IF w = {} THEN b.rights ELSE b.rights \cap w
    <2>1. b.obj \in Obj /\ b.type \in {"ROOT_META", "ENDPOINT"} /\ r \in SUBSET Rights
      BY <1>4 DEF Copy, Resolves, IInv0, Shape, TypeOK, SlotRec, CapType, Occupied
    <2>2. Binds(c, d, b.type, r, b.obj)
      <3>1. Sourced(c, d, r, b.obj)
        BY <1>4, <2>1 DEF Copy, Sourced, Usable, Resolves
      <3>2. InUse(b.obj)
        BY BoundTask
      <3> QED
        BY <1>4, <1>a, <2>1, <3>1, <3>2 DEF Copy
    <2> QED
      BY <2>1, <2>2
  <1>5. ASSUME NEW c \in CNode, NEW s \in Slot, NEW g, NEW d \in Slot, Move(c, s, g, d)
        PROVE  Moves(c, s, d)
    BY <1>5 DEF Move, Moves, Usable, Resolves
  <1>6. ASSUME NEW c \in CNode, NEW s \in Slot, NEW g, Delete(c, s, g)
        PROVE  Clears(c, s)
    BY <1>6 DEF Delete, Clears, Resolves
  <1>f. hdr \in [Obj -> HdrRec] /\ freed \in SUBSET Obj /\ FreedIdle /\ TaskFresh
        /\ task \in [Task -> {"free", "alive", "dead"}] /\ skewed \in SUBSET Account
        /\ used \in [Account -> Nat] /\ acct \in [CNode -> Account \cup {NoAccount}]
        /\ slots \in [CNode -> [Slot -> SlotRec]]
    BY DEF IInv0, TypeOK
  <1>l. \A o \in Obj : ~InUse(o) => hdr[o].state = "LIVE" /\ hdr[o].ref = 0 /\ o \in Task
    BY DEF IInv0, TaskConfined, TaskFresh, InUse
  <1>s. \A a \in Account \cup {NoAccount} : PayChain(a) \subseteq Account
    BY DEF PayChain
  <1>p. \A c \in CNode, s \in Slot : slots[c][s].payer \in Account \cup {NoAccount}
    BY <1>f DEF SlotRec
  <1>7. ASSUME UNCHANGED <<slots, hdr, edge, used, freed, SpawnVars>>,
               \A c \in CNode : acct'[c] = acct[c] \/ \A s \in Slot : ~Occupied(c, s)
        PROVE  Quiet
    BY <1>7, <1>f DEF Quiet, FreedIdle, TaskFresh, Rebased, InUse
  <1>8. ASSUME NEW o \in Obj, HoldRef(o) \/ DropRef(o) \/ RevokeBegin(o)
        PROVE  Quiet
    <2>1. hdr[o].gen \in Nat /\ hdr[o].ref \in Nat
      BY <1>f DEF HdrRec
    <2>q. ASSUME o \notin freed, UNCHANGED <<slots, edge, used, acct, freed, SpawnVars>>,
                 InUse(o), o \in Task => hdr[o].state # "LIVE",
                 hdr'[o].state = hdr[o].state, hdr'[o].gen = hdr[o].gen,
                 hdr' \in [Obj -> HdrRec],
                 \A p \in Obj : hdr'[p].slotsLeft = hdr[p].slotsLeft,
                 \A p \in Obj : p # o => hdr'[p] = hdr[p]
          PROVE  Quiet
      <3>1. FreedIdle' /\ TaskFresh'
        BY <2>q, <1>f DEF FreedIdle, TaskFresh
      <3>2. \A p \in Obj : InUse(p)' <=> InUse(p)
        BY <2>q DEF InUse
      <3>3. \A p \in Obj : InUse(p) \/ hdr'[p] = hdr[p]
        BY <2>q
      <3> QED
        BY <2>q, <1>f, <3>1, <3>2, <3>3 DEF Quiet
    <2>2. CASE HoldRef(o)
      <3>1. hdr' = [hdr EXCEPT ![o].ref = hdr[o].ref + 1] /\ hdr[o].ref + 1 \in Nat
            /\ UNCHANGED <<slots, edge, used, acct, freed, SpawnVars>> /\ o \notin freed
            /\ o \notin Task
        BY <1>f, <2>1, <2>2 DEF HoldRef, FreedIdle
      <3> QED
        BY <1>b, <1>f, <2>q, <3>1, RefUpdate
    <2>3. CASE DropRef(o)
      <3>1. hdr' = [hdr EXCEPT ![o].ref = hdr[o].ref - 1] /\ hdr[o].ref - 1 \in Nat
            /\ UNCHANGED <<slots, edge, used, acct, freed, SpawnVars>> /\ o \notin freed
            /\ hdr[o].ref # 0
        BY <1>f, <2>1, <2>3 DEF DropRef, FreedIdle
      <3>2. InUse(o) /\ (o \in Task => hdr[o].state # "LIVE")
        BY <1>f, <1>l, <3>1 DEF TaskFresh
      <3> QED
        BY <1>f, <2>q, <3>1, <3>2, RefUpdate
    <2>4. CASE RevokeBegin(o)
      <3> DEFINE g == (hdr[o].gen + 1) % (U32Max + 1)
      <3>1. g \in 0 .. U32Max
        BY <2>1, GenWrap
      <3>2. hdr' = [hdr EXCEPT ![o].state = "DEAD", ![o].gen = g]
            /\ UNCHANGED <<slots, edge, used, acct, freed, skewed>> /\ o \notin freed
            /\ task' = [t \in Task |-> IF t = o THEN "dead" ELSE task[t]]
            /\ (o \in Task => task[o] = "alive")
        BY <1>f, <2>4 DEF RevokeBegin, FreedIdle
      <3> HIDE DEF g
      <3>3. hdr' \in [Obj -> HdrRec] /\ hdr'[o].state = "DEAD"
        BY <1>f, <3>1, <3>2, RevokeUpdate
      <3>4. /\ \A p \in Obj : hdr'[p].slotsLeft = hdr[p].slotsLeft
            /\ \A p \in Obj : p # o => hdr'[p] = hdr[p]
        BY <1>f, <3>1, <3>2, RevokeUpdate
      <3>5. FreedIdle' /\ TaskFresh'
        BY <1>f, <3>2, <3>3, <3>4 DEF FreedIdle, TaskFresh
      <3>6. \A p \in Obj : InUse(p)' <=> InUse(p)
        BY <3>2 DEF InUse
      <3>7. InUse(o)
        BY <3>2 DEF InUse
      <3>8. \A p \in Obj : InUse(p) \/ hdr'[p] = hdr[p]
        BY <3>4, <3>7
      <3>9. task' \in [Task -> {"free", "alive", "dead"}]
        BY <1>f, <3>2
      <3>10. \A p \in Obj : p # o => hdr'[p].state = hdr[p].state /\ hdr'[p].gen = hdr[p].gen
        BY <3>4
      <3> QED
        BY <1>f, <2>4, <3>2, <3>3, <3>4, <3>5, <3>6, <3>8, <3>9, <3>10 DEF Quiet
    <2> QED
      BY <1>8, <2>2, <2>3, <2>4
  <1>9. ASSUME NEW o \in Obj, Reclaim(o) PROVE Quiet
    <2>1. FreedIdle' /\ TaskFresh'
      BY <1>9, <1>f DEF Reclaim, ReclaimReady, FreedIdle, TaskFresh
    <2>2. \A p \in Obj : InUse(p)' <=> InUse(p)
      BY <1>9 DEF Reclaim, InUse
    <2> QED
      BY <1>9, <1>f, <2>1, <2>2 DEF Reclaim, Quiet
  <1>10. ASSUME NEW o \in Obj, Reinit(o) PROVE Quiet
    <2>1. hdr' = [hdr EXCEPT ![o] = FreshHdr] /\ FreshHdr.slotsLeft = 0 /\ FreshHdr \in HdrRec
          /\ FreshHdr.state = "LIVE" /\ FreshHdr.ref = 0
          /\ UNCHANGED <<slots, edge, used, acct, SpawnVars>> /\ freed' = freed \ {o} /\ o \in freed
      BY <1>10 DEF Reinit, HdrRec, FreshHdr
    <2>2. InUse(o)
      BY <1>f, <1>l, <2>1 DEF FreedIdle
    <2>3. FreedIdle' /\ TaskFresh'
      BY <1>f, <2>1 DEF FreedIdle, TaskFresh
    <2>4. \A p \in Obj : (InUse(p)' <=> InUse(p)) /\ (InUse(p) \/ hdr'[p] = hdr[p])
      <3>1. \A p \in Obj : InUse(p)' <=> InUse(p)
        BY <2>1 DEF InUse
      <3> QED
        BY <1>f, <2>1, <2>2, <3>1
    <2> QED
      BY <1>f, <2>1, <2>3, <2>4 DEF Quiet, FreedIdle
  <1>11. ASSUME NEW o \in Obj, NEW e \in Pool, WalkEdge(o, e), UNCHANGED <<acct, freed, SpawnVars>>
         PROVE  Clears(edge[e].cn, edge[e].slot) /\ edge[e].cn \in CNode /\ edge[e].slot \in Slot
    <2>1. edge[e].obj = o /\ o # NoObj
      BY <1>11 DEF WalkEdge, Walkable, EdgesOf
    <2>2. /\ edge[e].cn \in CNode /\ edge[e].slot \in Slot
          /\ slots[edge[e].cn][edge[e].slot].obj = o
      BY <2>1 DEF IInv0, EdgeSound, TypeOK, EdgeRec
    <2>3. Occupied(edge[e].cn, edge[e].slot)
      BY <2>1, <2>2 DEF IInv0, Shape
    <2>4. edge' = Unlinked(edge, o, edge[e].cn, edge[e].slot)
      BY <1>11, <2>1, UnlinkOne DEF WalkEdge, IInv0, TypeOK
    <2> QED
      BY <1>11, <2>2, <2>3, <2>4 DEF WalkEdge, Clears
  <1>12. ASSUME NEW s \in Slot, SweepStep(s)
         PROVE  sweep.cn \in CNode /\ Clears(sweep.cn, s)
    BY <1>12 DEF SweepStep, ToSweep, Clears, IInv0, TypeOK
  <1>13. ASSUME \/ TickBegin \/ TickNext \/ TickEnd
                \/ \E c \in CNode, o \in (Obj \ MetaObj) \cup {NoObj} : SweepBegin(c, o)
                \/ UNCHANGED vars
         PROVE  Quiet
    BY <1>7, <1>13 DEF TickBegin, TickNext, TickEnd, SweepBegin, vars
  <1>24. ASSUME NEW c \in CNode, NEW a \in Account, Attach(c, a) PROVE Quiet
    <2>1. UNCHANGED <<slots, hdr, edge, used, freed, task>> /\ acct' = [acct EXCEPT ![c] = a]
      BY <1>24 DEF Attach
    <2>2. skewed' = IF \A s \in Slot : Occupied(c, s) => slots[c][s].payer = a
                    THEN skewed
                    ELSE skewed \cup PayChain(a)
                                \cup UNION {PayChain(slots[c][s].payer) : s \in Slot}
      BY <1>24 DEF Attach
    <2>3. skewed \subseteq skewed' /\ skewed' \in SUBSET Account
      BY <1>f, <1>p, <1>s, <2>2
    <2>4. acct'[c] = a /\ \A d \in CNode : d # c => acct'[d] = acct[d]
      BY <1>f, <2>1
    <2>5. Rebased(c)
      BY <2>2, <2>4 DEF Rebased
    <2>6. \A d \in CNode : acct'[d] = acct[d] \/ Rebased(d)
      BY <2>4, <2>5
    <2>7. FreedIdle' /\ TaskFresh' /\ \A p \in Obj : InUse(p)' <=> InUse(p)
      BY <1>f, <2>1 DEF FreedIdle, TaskFresh, InUse
    <2> QED
      BY <1>f, <2>1, <2>3, <2>6, <2>7 DEF Quiet
  <1>25. ASSUME SweepEnd PROVE Quiet
    <2>1. \/ acct' = acct
          \/ /\ acct' = [acct EXCEPT ![sweep.cn] = NoAccount]
             /\ \A s \in Slot : ~Occupied(sweep.cn, s)
      <3>1. CASE sweep.obj # NoObj
        BY <1>25, <3>1 DEF SweepEnd
      <3>2. CASE sweep.obj = NoObj
        <4>1. sweep.cn # NoCNode /\ ToSweep = {} /\ acct' = [acct EXCEPT ![sweep.cn] = NoAccount]
          BY <1>25, <3>2 DEF SweepEnd
        <4>2. \A s \in Slot : Occupied(sweep.cn, s) => s \in ToSweep
          BY <3>2, <4>1 DEF ToSweep
        <4> QED
          BY <4>1, <4>2
      <3> QED
        BY <3>1, <3>2
    <2>2. UNCHANGED <<slots, hdr, edge, used, freed, SpawnVars>>
      BY <1>25 DEF SweepEnd
    <2> QED
      BY <1>7, <1>f, <2>1, <2>2
  <1>14. ASSUME NEW o \in Obj, NEW e \in Pool, DeathWalk(o, e)
         PROVE  \E c \in CNode, s \in Slot : Clears(c, s)
    BY <1>11, <1>14 DEF DeathWalk
  <1>15. ASSUME NEW e \in Pool, TickWalk(e)
         PROVE  \E c \in CNode, s \in Slot : Clears(c, s)
    <2>1. q[Entry] \in Obj
      BY <1>15 DEF TickWalk, WalkEdge, Walkable, EdgesOf, IInv0, TypeOK, EdgeRec
    <2> QED
      BY <1>11, <1>15, <2>1 DEF TickWalk
  <1>26. ASSUME NEW c \in CNode, NEW s \in Slot, NEW o \in Task, Spawn(c, s, o)
         PROVE  \E t \in {"ROOT_META", "ENDPOINT"}, r \in SUBSET Rights, p \in Obj :
                  Binds(c, s, t, r, p)
    <2>1. hdr' = [hdr EXCEPT ![o].slotsLeft = 1] /\ hdr[o].state = "LIVE" /\ hdr[o].gen = 1
          /\ o \in Obj /\ ~InUse(o)
      BY <1>26, SpawnHeader DEF Spawn, CanSpawn
    <2>2. TaskRights \in SUBSET Rights
      BY DEF TaskRights
    <2>3. slots' = [slots EXCEPT ![c][s] = Bound(c, s, "ENDPOINT", TaskRights, o)]
      BY <1>26, <2>1 DEF Spawn, Bound, FreshHdr
    <2>4. Sourced(c, s, TaskRights, o)
      BY <1>26, <2>1 DEF Spawn, Sourced
    <2>5. CountAfter(o) = 1
      BY <2>1 DEF CountAfter
    <2>6. Binds(c, s, "ENDPOINT", TaskRights, o)
      BY <1>26, <2>1, <2>3, <2>4, <2>5 DEF Spawn, CanSpawn, FirstFree, Binds
    <2> QED
      BY <2>1, <2>2, <2>6
  <1>27. ASSUME NEW c \in CNode, NEW s \in Slot, NEW o \in Task, SpawnFail(c, s, o)
         PROVE  Voids(c, s, o)
    <2>1. hdr' = [hdr EXCEPT ![o].slotsLeft = 1] /\ hdr[o].state = "LIVE" /\ ~InUse(o)
      BY <1>27, SpawnHeader DEF SpawnFail, CanSpawn
    <2>2. ~Occupied(c, s) /\ slots[c][s].gen < GenBound /\ CanCharge(c)
      BY <1>27 DEF SpawnFail, CanSpawn, FirstFree
    <2>3. used' = Charged(used, c) /\ skewed' = skewed \cup ChainOf(c)
          /\ slots' = [slots EXCEPT ![c][s] = Invalidated(@)]
          /\ UNCHANGED <<edge, acct, freed, task>>
      BY <1>27 DEF SpawnFail
    <2>4. task' = [task EXCEPT ![o] = "free"]
      BY <1>f, <1>27, <2>3 DEF SpawnFail, CanSpawn
    <2>5. ChainOf(c) \subseteq Account /\ PayChain(slots[c][s].payer) \subseteq skewed'
      <3>1. slots[c][s].payer = NoAccount
        BY <2>2 DEF IInv0, Shape
      <3> QED
        BY <1>f, <1>s, <3>1 DEF ChainOf, PayChain
    <2>6. used' \in [Account -> Nat]
          /\ \A a \in Account : \/ used'[a] = used[a]
                                \/ a \in skewed' /\ used'[a] = used[a] + 1 /\ used[a] < Limit[a]
      BY <1>f, <2>2, <2>3 DEF Charged, CanCharge
    <2> QED
      BY <1>f, <2>1, <2>2, <2>3, <2>4, <2>5, <2>6 DEF Voids
  <1>28. ASSUME NEW o \in Task, TaskExit(o) PROVE Quiet
    <2>1. UNCHANGED <<slots, hdr, edge, acct, used, freed, skewed>>
          /\ task' = [task EXCEPT ![o] = "dead"] /\ task[o] = "alive"
      BY <1>28 DEF TaskExit
    <2>2. task' \in [Task -> {"free", "alive", "dead"}]
      BY <1>f, <2>1
    <2>3. \A p \in Obj : InUse(p)' <=> InUse(p)
      BY <1>f, <2>1 DEF InUse
    <2>4. FreedIdle' /\ TaskFresh'
      BY <1>f, <2>1 DEF FreedIdle, TaskFresh
    <2> QED
      BY <1>f, <2>1, <2>2, <2>3, <2>4 DEF Quiet
  <1>29. ASSUME NEW c \in CNode, NEW s \in Slot, NEW g, Wait(c, s, g)
         PROVE  \E o \in Task : Voids(c, s, o)
    <2> DEFINE o == slots[c][s].obj
    <2>1. o \in Task /\ o \in Obj /\ Occupied(c, s) /\ hdr[o].state = "LIVE"
      BY <1>29 DEF Wait, Resolves, CheckLive
    <2>2. slots[c][s].gen < GenBound
      BY <2>1 DEF IInv0, Shape
    <2>3. hdr' = [hdr EXCEPT ![o].slotsLeft = hdr[o].slotsLeft] /\ hdr[o].slotsLeft \in Nat
      <3>1. hdr' = hdr
        BY <1>29 DEF Wait
      <3>2. hdr[o].slotsLeft \in Nat /\ [hdr[o] EXCEPT !.slotsLeft = hdr[o].slotsLeft] = hdr[o]
        <4>1. hdr[o] \in HdrRec
          BY <1>f, <2>1
        <4> QED
          BY <4>1 DEF HdrRec
      <3> QED
        BY <1>f, <2>1, <3>1, <3>2
    <2>4. PayChain(slots[c][s].payer) \subseteq Account
      BY <1>s, <1>p
    <2>5. skewed' = skewed \cup PayChain(slots[c][s].payer) /\ UNCHANGED <<edge, acct, used, freed>>
          /\ task' = [task EXCEPT ![o] = "free"]
          /\ slots' = [slots EXCEPT ![c][s] = Invalidated(@)]
      BY <1>29 DEF Wait
    <2>6. Voids(c, s, o)
      BY <1>f, <2>1, <2>2, <2>3, <2>4, <2>5 DEF Voids
    <2> QED
      BY <2>1, <2>6
  <1>16. \A h \in Handle : h[1] \in Slot
    BY DEF Handle
  <1>17. CASE \E c \in CNode : Bootstrap(c)
    <2>1. 0 \in Slot /\ {"READ", "IDENTIFY"} \in SUBSET Rights
      BY DEF Slot
    <2> QED
      BY <1>1, <1>17, <2>1
  <1>18. CASE \E c \in CNode, s \in Slot, r \in InstallRights, o \in Obj : Install(c, s, r, o)
    BY <1>2, <1>18
  <1>19. CASE \E c \in CNode, h \in Handle, w \in WantRights, dc \in CNode, d \in Slot :
                 Mint(c, h[1], h[2], w, dc, d)
    BY <1>3, <1>16, <1>19
  <1>20. CASE \E c \in CNode, h \in Handle, w \in WantRights, d \in Slot :
                 Copy(c, h[1], h[2], w, d)
    BY <1>4, <1>16, <1>20
  <1>21. CASE \E c \in CNode, h \in Handle, d \in Slot : Move(c, h[1], h[2], d)
    BY <1>5, <1>16, <1>21
  <1>22. CASE \E c \in CNode, h \in Handle : Delete(c, h[1], h[2])
    BY <1>6, <1>16, <1>22
  <1>23. CASE \E s \in Slot : SweepStep(s)
    BY <1>12, <1>23
  <1>30. CASE \E c \in CNode, s \in Slot, o \in Task : Spawn(c, s, o) \/ SpawnFail(c, s, o)
    BY <1>26, <1>27, <1>30
  <1>31. CASE \E c \in CNode, h \in Handle : Wait(c, h[1], h[2])
    BY <1>16, <1>29, <1>31
  <1> QED
    BY <1>8, <1>9, <1>10, <1>13, <1>14, <1>15, <1>17, <1>18, <1>19, <1>20, <1>21,
       <1>22, <1>23, <1>24, <1>25, <1>28, <1>30, <1>31 DEF Next

----------------------------------------------------------------------------
(* The slot effects, field by field *)

\* Wiring either finds the pool exhausted or takes one free edge.
LEMMA WiredCases ==
  ASSUME NEW ed \in [Pool -> EdgeRec], NEW o, NEW c, NEW s
  PROVE  \/ Wired(ed, o, c, s) = ed
         \/ \E e \in Pool : ed[e] = FreeEdge /\ Wired(ed, o, c, s) = [ed EXCEPT ![e] = Edge(o, c, s)]
  <1> DEFINE k == CHOOSE e \in Pool : ed[e] = FreeEdge
  <1>1. CASE \E e \in Pool : ed[e] = FreeEdge
    <2>1. k \in Pool /\ ed[k] = FreeEdge
      BY <1>1, Zenon
    <2>2. Wired(ed, o, c, s) = [ed EXCEPT ![k] = Edge(o, c, s)]
      BY <1>1, Zenon DEF Wired
    <2> HIDE DEF k
    <2> QED
      BY <2>1, <2>2
  <1>2. CASE ~\E e \in Pool : ed[e] = FreeEdge
    BY <1>2, Zenon DEF Wired
  <1> QED
    BY <1>1, <1>2

\* gj_cap_slot_install, field by field.
BindFacts(c, s, t, r, o) ==
  /\ slots' \in [CNode -> [Slot -> SlotRec]]
  /\ \A d \in CNode, k \in Slot : d # c \/ k # s => slots'[d][k] = slots[d][k]
  /\ slots'[c][s] = [type |-> t, rights |-> r, gen |-> slots[c][s].gen,
                     objGen |-> hdr[o].gen, obj |-> o, payer |-> acct[c]]
  /\ slots[c][s].obj = NoObj /\ slots[c][s].payer = NoAccount
  /\ slots[c][s].gen < GenBound /\ ~Occupied(c, s)

\* gj_cap_slot_invalidate_locked, field by field.
ClearFacts(c, s) ==
  /\ slots' \in [CNode -> [Slot -> SlotRec]]
  /\ \A d \in CNode, k \in Slot : d # c \/ k # s => slots'[d][k] = slots[d][k]
  /\ slots'[c][s] = FreeSlot(slots[c][s].gen + 1)
  /\ slots[c][s].obj \in Obj /\ slots[c][s].gen \in Nat

\* A bare gj_cap_slot_invalidate and the free entry it leaves, field by field.
VoidFacts(c, s, o) ==
  /\ slots' \in [CNode -> [Slot -> SlotRec]]
  /\ \A d \in CNode, k \in Slot : d # c \/ k # s => slots'[d][k] = slots[d][k]
  /\ slots'[c][s].type = "INVALID" /\ slots'[c][s].obj = NoObj
  /\ slots'[c][s].payer = NoAccount
  /\ slots'[c][s].gen = slots[c][s].gen + 1 /\ slots[c][s].gen \in Nat
  /\ slots[c][s].obj \in {o, NoObj} /\ o \in Obj
  /\ \A d \in CNode, k \in Slot : slots'[d][k].obj # o
  /\ hdr' \in [Obj -> HdrRec] /\ hdr[o].state = "LIVE"
  /\ \A p \in Obj : /\ hdr'[p].state = hdr[p].state /\ hdr'[p].gen = hdr[p].gen
                    /\ hdr'[p].ref = hdr[p].ref
                    /\ p # o => hdr'[p].slotsLeft = hdr[p].slotsLeft
  /\ \A p \in Obj : InUse(p)' <=> InUse(p) /\ p # o
  /\ task' \in [Task -> {"free", "alive", "dead"}]

\* gj_cap_move, field by field.
MoveFacts(c, s, d) ==
  LET b == slots[c][s] IN
  /\ slots' \in [CNode -> [Slot -> SlotRec]]
  /\ \A e \in CNode, k \in Slot : e # c \/ k \notin {s, d} => slots'[e][k] = slots[e][k]
  /\ slots'[c][d] = [type |-> b.type, rights |-> b.rights, gen |-> slots[c][d].gen,
                     objGen |-> hdr[b.obj].gen, obj |-> b.obj, payer |-> acct[c]]
  /\ slots'[c][s] = FreeSlot(b.gen + 1)
  /\ slots[c][d].obj = NoObj /\ slots[c][d].payer = NoAccount
  /\ slots[c][d].gen < GenBound /\ ~Occupied(c, d)
  /\ b.obj \in Obj /\ b.gen \in Nat /\ b.type # "INVALID" /\ d # s

\* What gj_cap_slot_install writes, and that it found the slot free.
LEMMA BindSlots ==
  ASSUME IInv0, NEW c \in CNode, NEW s \in Slot, NEW t \in {"ROOT_META", "ENDPOINT"},
         NEW r \in SUBSET Rights, NEW o \in Obj, Binds(c, s, t, r, o)
  PROVE  BindFacts(c, s, t, r, o)
  <1> DEFINE b == [type |-> t, rights |-> r, gen |-> slots[c][s].gen,
                   objGen |-> hdr[o].gen, obj |-> o, payer |-> acct[c]]
  <1>1. slots \in [CNode -> [Slot -> SlotRec]] /\ hdr \in [Obj -> HdrRec]
        /\ acct \in [CNode -> Account \cup {NoAccount}] /\ U32Max \in Nat
    BY CapAssumption DEF IInv0, TypeOK, CapAssumption
  <1>2. slots[c][s] \in SlotRec /\ hdr[o].gen \in Nat /\ acct[c] \in Account \cup {NoAccount}
    BY <1>1 DEF HdrRec
  <1>3. Bound(c, s, t, r, o) = b
    BY DEF Bound
  <1>4. b \in SlotRec
    BY <1>2 DEF SlotRec, CapType
  <1>5. slots' = [slots EXCEPT ![c][s] = b]
    BY <1>3 DEF Binds
  <1>6. slots[c][s].obj = NoObj /\ slots[c][s].payer = NoAccount
        /\ slots[c][s].gen < GenBound /\ ~Occupied(c, s)
    BY DEF IInv0, Shape, Binds
  <1> HIDE DEF b
  <1>7. slots' \in [CNode -> [Slot -> SlotRec]]
    BY <1>1, <1>4, <1>5
  <1>8. slots'[c][s] = b /\ \A d \in CNode, k \in Slot : d # c \/ k # s => slots'[d][k] = slots[d][k]
    BY <1>1, <1>5
  <1> QED
    BY <1>6, <1>7, <1>8 DEF b, BindFacts

\* What an invalidate writes: the generation grows by one, the rest is reset.
LEMMA ClearSlots ==
  ASSUME IInv0, NEW c \in CNode, NEW s \in Slot, Occupied(c, s), ClearAt(c, s)
  PROVE  ClearFacts(c, s)
  <1>1. slots \in [CNode -> [Slot -> SlotRec]]
    BY DEF IInv0, TypeOK
  <1>2. slots[c][s].obj \in Obj /\ slots[c][s].gen < GenBound /\ slots[c][s].gen \in Nat \ {0}
    BY <1>1, CapAssumption DEF IInv0, Shape, SlotRec, CapAssumption
  <1>3. NextGen(slots[c][s].gen) = slots[c][s].gen + 1
    BY <1>2, CapAssumption DEF NextGen, CapAssumption
  <1> DEFINE b == Invalidated(slots[c][s])
  <1>4. b = FreeSlot(slots[c][s].gen + 1)
    BY <1>3 DEF Invalidated
  <1>5. b \in SlotRec
    BY <1>2, <1>3, CapAssumption DEF Invalidated, FreeSlot, SlotRec, CapType, CapAssumption
  <1>6. slots' = [slots EXCEPT ![c][s] = b]
    BY DEF ClearAt
  <1> HIDE DEF b
  <1>7. slots' \in [CNode -> [Slot -> SlotRec]]
    BY <1>1, <1>5, <1>6
  <1>8. slots'[c][s] = b /\ \A d \in CNode, k \in Slot : d # c \/ k # s => slots'[d][k] = slots[d][k]
    BY <1>1, <1>6
  <1> QED
    BY <1>2, <1>4, <1>7, <1>8 DEF ClearFacts

\* What gj_cap_move writes: two different slots of one table.
LEMMA MoveSlots ==
  ASSUME IInv0, NEW c \in CNode, NEW s \in Slot, NEW d \in Slot, Moves(c, s, d)
  PROVE  MoveFacts(c, s, d)
  <1> DEFINE b == slots[c][s]
             n == [type |-> b.type, rights |-> b.rights, gen |-> slots[c][d].gen,
                   objGen |-> hdr[b.obj].gen, obj |-> b.obj, payer |-> acct[c]]
             x == Invalidated(b)
  <1>1. slots \in [CNode -> [Slot -> SlotRec]] /\ hdr \in [Obj -> HdrRec]
        /\ acct \in [CNode -> Account \cup {NoAccount}] /\ U32Max \in Nat
    BY CapAssumption DEF IInv0, TypeOK, CapAssumption
  <1>2. b.obj \in Obj /\ b.gen < GenBound /\ b.gen \in Nat \ {0} /\ b \in SlotRec
    BY <1>1, CapAssumption DEF IInv0, Shape, SlotRec, CapAssumption, Moves
  <1>3. slots[c][d] \in SlotRec /\ hdr[b.obj].gen \in Nat /\ acct[c] \in Account \cup {NoAccount}
    BY <1>1, <1>2 DEF HdrRec
  <1>4. slots[c][d].obj = NoObj /\ slots[c][d].payer = NoAccount /\ slots[c][d].gen < GenBound
        /\ d # s /\ ~Occupied(c, d) /\ b.type # "INVALID"
    BY <1>2 DEF Occupied, IInv0, Shape, Moves, CanInstall
  <1>5. Bound(c, d, b.type, b.rights, b.obj) = n
    BY DEF Bound
  <1>6. NextGen(b.gen) = b.gen + 1
    BY <1>2, CapAssumption DEF NextGen, CapAssumption
  <1>7. x = FreeSlot(b.gen + 1)
    BY <1>6 DEF Invalidated
  <1>8. n \in SlotRec /\ x \in SlotRec
    BY <1>2, <1>3, <1>6, CapAssumption DEF Invalidated, FreeSlot, SlotRec, CapType, CapAssumption
  <1>9. slots' = [slots EXCEPT ![c] = [slots[c] EXCEPT ![d] = n, ![s] = x]]
    BY <1>5 DEF Moves
  <1> HIDE DEF b, n, x
  <1>10. slots' \in [CNode -> [Slot -> SlotRec]]
    BY <1>1, <1>8, <1>9
  <1>11. slots'[c][d] = n /\ slots'[c][s] = x
         /\ \A e \in CNode, k \in Slot : e # c \/ k \notin {s, d} => slots'[e][k] = slots[e][k]
    BY <1>1, <1>4, <1>9
  <1> QED
    BY <1>2, <1>4, <1>7, <1>10, <1>11 DEF b, n, MoveFacts

\* An update of the slot count of one header.
LEMMA CountUpdate ==
  ASSUME hdr \in [Obj -> HdrRec], NEW o \in Obj, NEW n \in Nat,
         hdr' = [hdr EXCEPT ![o].slotsLeft = n]
  PROVE  /\ hdr' \in [Obj -> HdrRec]
         /\ hdr'[o].slotsLeft = n
         /\ \A p \in Obj : /\ hdr'[p].state = hdr[p].state /\ hdr'[p].gen = hdr[p].gen
                           /\ hdr'[p].ref = hdr[p].ref
                           /\ p # o => hdr'[p].slotsLeft = hdr[p].slotsLeft
  BY DEF HdrRec

\* What a bare invalidate does: one process has one binding at most, so the entry it
\* frees is named by no slot any more.
LEMMA VoidSlots ==
  ASSUME IInv0, NEW c \in CNode, NEW s \in Slot, NEW o \in Task, Voids(c, s, o)
  PROVE  VoidFacts(c, s, o)
  <1>1. slots \in [CNode -> [Slot -> SlotRec]] /\ hdr \in [Obj -> HdrRec]
        /\ task \in [Task -> {"free", "alive", "dead"}]
    BY DEF IInv0, TypeOK
  <1>2. slots[c][s].gen < GenBound /\ slots[c][s].gen \in Nat \ {0}
    BY <1>1, CapAssumption DEF Voids, SlotRec, CapAssumption
  <1>3. NextGen(slots[c][s].gen) = slots[c][s].gen + 1
    BY <1>2, CapAssumption DEF NextGen, CapAssumption
  <1> DEFINE b == Invalidated(slots[c][s])
  <1>4. b.type = "INVALID" /\ b.obj = NoObj /\ b.payer = NoAccount /\ b.gen = slots[c][s].gen + 1
    BY <1>3 DEF Invalidated, FreeSlot
  <1>5. b \in SlotRec
    BY <1>2, <1>3, CapAssumption DEF Invalidated, FreeSlot, SlotRec, CapType, CapAssumption
  <1>6. slots' = [slots EXCEPT ![c][s] = b]
    BY DEF Voids
  <1> HIDE DEF b
  <1>7. slots' \in [CNode -> [Slot -> SlotRec]]
    BY <1>1, <1>5, <1>6
  <1>8. slots'[c][s] = b /\ \A d \in CNode, k \in Slot : d # c \/ k # s => slots'[d][k] = slots[d][k]
    BY <1>1, <1>6
  <1>9. o \in Obj /\ o # NoObj /\ NoObj \notin Obj
    BY CapAssumption DEF CapAssumption
  <1>10. slots[c][s].obj \in {o, NoObj}
    BY DEF Voids, IInv0, Shape
  <1>11. \A d \in CNode, k \in Slot : slots'[d][k].obj # o
    <2> SUFFICES ASSUME NEW d \in CNode, NEW k \in Slot, slots'[d][k].obj = o PROVE FALSE
      OBVIOUS
    <2>1. (d # c \/ k # s) /\ slots[d][k].obj = o
      BY <1>4, <1>8, <1>9
    <2>2. CASE slots[c][s].obj = o
      BY <2>1, <2>2 DEF IInv0, TaskConfined
    <2>3. CASE ~InUse(o)
      BY <2>1, <2>3 DEF IInv0, TaskConfined
    <2> QED
      BY <2>2, <2>3 DEF Voids
  <1>12. PICK n \in Nat : hdr' = [hdr EXCEPT ![o].slotsLeft = n]
    BY DEF Voids
  <1>13. hdr' \in [Obj -> HdrRec]
         /\ \A p \in Obj : /\ hdr'[p].state = hdr[p].state /\ hdr'[p].gen = hdr[p].gen
                           /\ hdr'[p].ref = hdr[p].ref
                           /\ p # o => hdr'[p].slotsLeft = hdr[p].slotsLeft
    BY <1>1, <1>9, <1>12, CountUpdate
  <1>14. task' = [task EXCEPT ![o] = "free"] /\ hdr[o].state = "LIVE"
    BY DEF Voids
  <1>15. \A p \in Obj : InUse(p)' <=> InUse(p) /\ p # o
    BY <1>1, <1>14 DEF InUse
  <1>16. task' \in [Task -> {"free", "alive", "dead"}]
    BY <1>1, <1>14
  <1> QED
    BY <1>2, <1>4, <1>7, <1>8, <1>9, <1>10, <1>11, <1>13, <1>14, <1>15, <1>16 DEF VoidFacts

\* An install counts its slot, and a process it is spawned for is in use from then on.
LEMMA BindCount ==
  ASSUME IInv0, NEW c \in CNode, NEW s \in Slot, NEW t, NEW r, NEW o \in Obj, Binds(c, s, t, r, o)
  PROVE  /\ hdr' = [hdr EXCEPT ![o].slotsLeft = CountAfter(o)] /\ CountAfter(o) \in Nat
         /\ \A p \in Obj : InUse(p)' <=> InUse(p) \/ p = o
         /\ task' \in [Task -> {"free", "alive", "dead"}]
  <1>1. hdr[o].slotsLeft \in Nat /\ task \in [Task -> {"free", "alive", "dead"}]
    BY DEF IInv0, TypeOK, HdrRec
  <1>2. CountAfter(o) \in Nat
    BY <1>1 DEF CountAfter
  <1>3. task' = IF InUse(o) THEN task ELSE [task EXCEPT ![o] = "alive"]
    BY DEF Binds
  <1>4. \A p \in Obj : InUse(p)' <=> InUse(p) \/ p = o
    BY <1>1, <1>3 DEF InUse
  <1> QED
    BY <1>1, <1>2, <1>3, <1>4 DEF Binds

----------------------------------------------------------------------------
(* Shape and edges *)

\* A free slot names no object and an occupied one does, after every step.
LEMMA ShapeStep == ASSUME IInv0, [Next]_vars PROVE Shape'
  <1>1. Shape
    BY DEF IInv0
  <1>2. ASSUME NEW c \in CNode, NEW s \in Slot, NEW t \in {"ROOT_META", "ENDPOINT"},
               NEW r \in SUBSET Rights, NEW o \in Obj, Binds(c, s, t, r, o)
        PROVE  Shape'
    <2>1. BindFacts(c, s, t, r, o)
      BY <1>2, BindSlots
    <2> QED
      BY <1>1, <2>1 DEF Shape, Occupied, BindFacts
  <1>3. ASSUME NEW c \in CNode, NEW s \in Slot, Clears(c, s) PROVE Shape'
    <2>1. ClearFacts(c, s)
      BY <1>3, ClearSlots DEF Clears
    <2>2. slots'[c][s].type = "INVALID" /\ slots'[c][s].obj = NoObj /\ slots'[c][s].payer = NoAccount
      BY <2>1 DEF ClearFacts, FreeSlot
    <2> QED
      BY <1>1, <2>1, <2>2 DEF Shape, Occupied, ClearFacts
  <1>4. ASSUME NEW c \in CNode, NEW s \in Slot, NEW d \in Slot, Moves(c, s, d) PROVE Shape'
    <2>1. MoveFacts(c, s, d)
      BY <1>4, MoveSlots
    <2>2. slots'[c][s].type = "INVALID" /\ slots'[c][s].obj = NoObj /\ slots'[c][s].payer = NoAccount
      BY <2>1 DEF MoveFacts, FreeSlot
    <2> QED
      BY <1>1, <2>1, <2>2 DEF Shape, Occupied, MoveFacts
  <1>5. ASSUME Quiet PROVE Shape'
    BY <1>1, <1>5 DEF Quiet, Shape, Occupied
  <1>6. ASSUME NEW c \in CNode, NEW s \in Slot, NEW o \in Task, Voids(c, s, o) PROVE Shape'
    <2>1. VoidFacts(c, s, o)
      BY <1>6, VoidSlots
    <2> QED
      BY <1>1, <2>1 DEF Shape, Occupied, VoidFacts
  <1> QED
    BY <1>2, <1>3, <1>4, <1>5, <1>6, Effect

\* A new edge keeps the edges sound when its slot had none and now names o.
LEMMA WiredSound ==
  ASSUME NEW ed \in [Pool -> EdgeRec], NEW c \in CNode, NEW s \in Slot, NEW o \in Obj,
         edge' = Wired(ed, o, c, s) \/ edge' = ed,
         slots'[c][s].obj = o,
         \A e \in Pool : ed[e].obj # NoObj =>
            /\ ed[e].cn \in CNode
            /\ slots'[ed[e].cn][ed[e].slot].obj = ed[e].obj
            /\ ed[e].cn # c \/ ed[e].slot # s,
         \A e, f \in Pool : ed[e].obj # NoObj /\ ed[e] = ed[f] => e = f
  PROVE  EdgeSound' /\ edge' \in [Pool -> EdgeRec]
  <1>1. CASE edge' = ed
    BY <1>1 DEF EdgeSound
  <1>2. ASSUME NEW e \in Pool, ed[e] = FreeEdge, edge' = [ed EXCEPT ![e] = Edge(o, c, s)]
        PROVE  EdgeSound' /\ edge' \in [Pool -> EdgeRec]
    <2>1. Edge(o, c, s) \in EdgeRec
      BY DEF Edge, EdgeRec
    <2>2. \A f \in Pool : edge'[f] = IF f = e THEN Edge(o, c, s) ELSE ed[f]
      BY <1>2
    <2>3. Edge(o, c, s).obj = o /\ Edge(o, c, s).cn = c /\ Edge(o, c, s).slot = s /\ o # NoObj
      BY CapAssumption DEF Edge, CapAssumption
    <2>4. \A f \in Pool : f # e => ed[f] # Edge(o, c, s)
      BY <2>3
    <2>5. \A f \in Pool : edge'[f].obj # NoObj =>
            edge'[f].cn \in CNode /\ slots'[edge'[f].cn][edge'[f].slot].obj = edge'[f].obj
      BY <2>2, <2>3
    <2>6. \A f, h \in Pool : edge'[f].obj # NoObj /\ edge'[f] = edge'[h] => f = h
      BY <2>2, <2>4
    <2> QED
      BY <1>2, <2>1, <2>5, <2>6 DEF EdgeSound
  <1> QED
    BY <1>1, <1>2, WiredCases

\* What is left after unlinking names no longer the slot.
LEMMA UnlinkedSound ==
  ASSUME IInv0, NEW c \in CNode, NEW s \in Slot, slots[c][s].obj \in Obj,
         NEW ed, ed = Unlinked(edge, slots[c][s].obj, c, s)
  PROVE  /\ ed \in [Pool -> EdgeRec]
         /\ \A e \in Pool : ed[e].obj # NoObj =>
              ed[e] = edge[e] /\ (ed[e].cn # c \/ ed[e].slot # s)
         /\ \A e, f \in Pool : ed[e].obj # NoObj /\ ed[e] = ed[f] => e = f
  <1>1. edge \in [Pool -> EdgeRec] /\ EdgeSound
    BY DEF IInv0, TypeOK
  <1>2. FreeEdge \in EdgeRec /\ FreeEdge.obj = NoObj
    BY CapAssumption DEF FreeEdge, EdgeRec, Slot, CapAssumption
  <1>3. \A e \in Pool : ed[e] = IF edge[e] = Edge(slots[c][s].obj, c, s) THEN FreeEdge ELSE edge[e]
    BY DEF Unlinked
  <1>4. ASSUME NEW e \in Pool, ed[e].obj # NoObj
        PROVE  ed[e] = edge[e] /\ (ed[e].cn # c \/ ed[e].slot # s)
    <2>1. ed[e] = edge[e] /\ edge[e] # Edge(slots[c][s].obj, c, s)
      BY <1>2, <1>3, <1>4
    <2>2. edge[e].obj = slots[edge[e].cn][edge[e].slot].obj
      BY <1>1, <1>4, <2>1 DEF EdgeSound
    <2>3. edge[e] = Edge(edge[e].obj, edge[e].cn, edge[e].slot)
      BY <1>1 DEF Edge, EdgeRec
    <2> QED
      BY <2>1, <2>2, <2>3
  <1>5. ed \in [Pool -> EdgeRec]
    BY <1>1, <1>2 DEF Unlinked
  <1>6. ASSUME NEW e \in Pool, NEW f \in Pool, ed[e].obj # NoObj, ed[e] = ed[f]
        PROVE  e = f
    <2>1. ed[e] = edge[e] /\ ed[f] = edge[f]
      BY <1>4, <1>6
    <2> QED
      BY <1>1, <1>6, <2>1 DEF EdgeSound
  <1> QED
    BY <1>4, <1>5, <1>6

\* Every step keeps each linked edge on a slot that names its object, alone.
LEMMA EdgeStep == ASSUME IInv0, [Next]_vars PROVE EdgeSound' /\ edge' \in [Pool -> EdgeRec]
  <1>1. edge \in [Pool -> EdgeRec] /\ EdgeSound
    BY DEF IInv0, TypeOK
  <1>e. \A e \in Pool : edge[e].slot \in Slot
    BY <1>1 DEF EdgeRec
  <1>2. ASSUME NEW c \in CNode, NEW s \in Slot, NEW t \in {"ROOT_META", "ENDPOINT"},
               NEW r \in SUBSET Rights, NEW o \in Obj, Binds(c, s, t, r, o)
        PROVE  EdgeSound' /\ edge' \in [Pool -> EdgeRec]
    <2>1. BindFacts(c, s, t, r, o)
      BY <1>2, BindSlots
    <2>2. \A e \in Pool : edge[e].obj # NoObj =>
            /\ edge[e].cn \in CNode
            /\ slots'[edge[e].cn][edge[e].slot].obj = edge[e].obj
            /\ edge[e].cn # c \/ edge[e].slot # s
      BY <1>1, <1>e, <2>1 DEF BindFacts, EdgeSound
    <2>3. \A e, f \in Pool : edge[e].obj # NoObj /\ edge[e] = edge[f] => e = f
      BY <1>1 DEF EdgeSound
    <2>4. slots'[c][s].obj = o
      BY <2>1 DEF BindFacts
    <2>5. edge' = Wired(edge, o, c, s) \/ edge' = edge
      BY <1>2 DEF Binds
    <2> QED
      BY <1>1, <2>2, <2>3, <2>4, <2>5, WiredSound
  <1>3. ASSUME NEW c \in CNode, NEW s \in Slot, Clears(c, s)
        PROVE  EdgeSound' /\ edge' \in [Pool -> EdgeRec]
    <2>1. ClearFacts(c, s)
      BY <1>3, ClearSlots DEF Clears
    <2>2. edge' = Unlinked(edge, slots[c][s].obj, c, s) /\ slots[c][s].obj \in Obj
      BY <1>3, <2>1 DEF Clears, ClearFacts
    <2>3. /\ edge' \in [Pool -> EdgeRec]
          /\ \A e \in Pool : edge'[e].obj # NoObj =>
                edge'[e] = edge[e] /\ (edge'[e].cn # c \/ edge'[e].slot # s)
          /\ \A e, f \in Pool : edge'[e].obj # NoObj /\ edge'[e] = edge'[f] => e = f
      BY <2>2, UnlinkedSound
    <2>4. \A d \in CNode, k \in Slot : d # c \/ k # s => slots'[d][k] = slots[d][k]
      BY <2>1 DEF ClearFacts
    <2> QED
      BY <1>1, <1>e, <2>3, <2>4 DEF EdgeSound
  <1>4. ASSUME NEW c \in CNode, NEW s \in Slot, NEW d \in Slot, Moves(c, s, d)
        PROVE  EdgeSound' /\ edge' \in [Pool -> EdgeRec]
    <2> DEFINE o == slots[c][s].obj
               ed == Unlinked(edge, o, c, s)
    <2>1. MoveFacts(c, s, d)
      BY <1>4, MoveSlots
    <2>2. o \in Obj /\ slots'[c][d].obj = o /\ slots[c][d].obj = NoObj
      BY <2>1 DEF MoveFacts
    <2>3. /\ ed \in [Pool -> EdgeRec]
          /\ \A e \in Pool : ed[e].obj # NoObj =>
                ed[e] = edge[e] /\ (ed[e].cn # c \/ ed[e].slot # s)
          /\ \A e, f \in Pool : ed[e].obj # NoObj /\ ed[e] = ed[f] => e = f
      BY <2>2, UnlinkedSound
    <2>4. edge' = Wired(ed, o, c, d)
      BY <1>4 DEF Moves
    <2>5. \A e \in CNode, k \in Slot : e # c \/ k \notin {s, d} => slots'[e][k] = slots[e][k]
      BY <2>1 DEF MoveFacts
    <2> HIDE DEF ed
    <2>6. \A e \in Pool : ed[e].obj # NoObj =>
            /\ ed[e].cn \in CNode
            /\ slots'[ed[e].cn][ed[e].slot].obj = ed[e].obj
            /\ ed[e].cn # c \/ ed[e].slot # d
      BY <1>1, <1>e, <2>2, <2>3, <2>5 DEF EdgeSound
    <2> HIDE DEF o
    <2> QED
      BY <2>2, <2>3, <2>4, <2>6, WiredSound
  <1>5. ASSUME Quiet PROVE EdgeSound' /\ edge' \in [Pool -> EdgeRec]
    BY <1>1, <1>5 DEF Quiet, EdgeSound
  <1>6. ASSUME NEW c \in CNode, NEW s \in Slot, NEW o \in Task, Voids(c, s, o)
        PROVE  EdgeSound' /\ edge' \in [Pool -> EdgeRec]
    <2>1. VoidFacts(c, s, o) /\ edge' = edge
      BY <1>6, VoidSlots DEF Voids
    <2>2. \A e \in Pool : edge[e].obj # NoObj => edge[e].cn # c \/ edge[e].slot # s
      <3>1. \A e \in Pool : edge[e].obj # o
        BY DEF IInv0, TaskConfined
      <3> QED
        BY <1>1, <2>1, <3>1 DEF EdgeSound, VoidFacts
    <2> QED
      BY <1>1, <1>e, <2>1, <2>2 DEF EdgeSound, VoidFacts
  <1> QED
    BY <1>2, <1>3, <1>4, <1>5, <1>6, Effect

----------------------------------------------------------------------------
(* The slot count *)

\* The slot tables are finite, so bindings can be counted.
LEMMA SlotsFinite == IsFiniteSet(CNode \X Slot)
  <1>1. IsFiniteSet(CNode) /\ NSlots \in Nat
    BY CapAssumption DEF CapAssumption
  <1>2. IsFiniteSet(Slot)
    BY <1>1, FS_Interval DEF Slot
  <1> QED
    BY <1>1, <1>2, FS_Product

\* So are the bindings of one object, before and after a step.
LEMMA SlotsOfFinite == \A o \in Obj : IsFiniteSet(SlotsOf(o)) /\ IsFiniteSet(SlotsOf(o)')
  BY SlotsFinite, FS_Subset DEF SlotsOf

\* Every install, move and invalidate moves u32SlotsLeft with the bindings.
LEMMA CountStep == ASSUME IInv0, SlotsLeftExact, [Next]_vars PROVE SlotsLeftExact'
  <1>h. hdr \in [Obj -> HdrRec] /\ NoObj \notin Obj /\ \A o \in Obj : hdr[o].slotsLeft \in Nat
    BY CapAssumption DEF IInv0, TypeOK, HdrRec, CapAssumption
  <1>c. \A o \in Obj : InUse(o) => hdr[o].slotsLeft = Cardinality(SlotsOf(o))
    BY DEF SlotsLeftExact
  <1>2. ASSUME NEW c \in CNode, NEW s \in Slot, NEW t \in {"ROOT_META", "ENDPOINT"},
               NEW r \in SUBSET Rights, NEW o \in Obj, Binds(c, s, t, r, o)
        PROVE  SlotsLeftExact'
    <2>1. BindFacts(c, s, t, r, o)
      BY <1>2, BindSlots
    <2>2. /\ \A d \in CNode, k \in Slot : d # c \/ k # s => slots'[d][k].obj = slots[d][k].obj
          /\ slots'[c][s].obj = o /\ slots[c][s].obj = NoObj
      BY <2>1 DEF BindFacts
    <2>3. \A p \in Obj : p # o => SlotsOf(p)' = SlotsOf(p)
      BY <1>h, <2>2 DEF SlotsOf
    <2>4. SlotsOf(o)' = SlotsOf(o) \cup {<<c, s>>} /\ <<c, s>> \notin SlotsOf(o)
      BY <1>h, <2>2 DEF SlotsOf
    <2>5. Cardinality(SlotsOf(o)') = Cardinality(SlotsOf(o)) + 1
      BY <2>4, SlotsOfFinite, FS_AddElement
    <2>6. /\ hdr' = [hdr EXCEPT ![o].slotsLeft = CountAfter(o)] /\ CountAfter(o) \in Nat
          /\ \A p \in Obj : InUse(p)' <=> InUse(p) \/ p = o
      BY <1>2, BindCount
    <2>7. hdr'[o].slotsLeft = CountAfter(o)
          /\ \A p \in Obj : p # o => hdr'[p].slotsLeft = hdr[p].slotsLeft
      BY <1>h, <2>6, CountUpdate
    <2>8. CountAfter(o) = Cardinality(SlotsOf(o)) + 1
      <3>1. CASE InUse(o)
        BY <1>c, <3>1 DEF CountAfter
      <3>2. CASE ~InUse(o)
        <4>1. SlotsOf(o) = {}
          BY <3>2 DEF IInv0, TaskConfined, SlotsOf, InUse
        <4>2. Cardinality(SlotsOf(o)) = 0
          BY <4>1, FS_EmptySet
        <4> QED
          BY <3>2, <4>2 DEF CountAfter
      <3> QED
        BY <3>1, <3>2
    <2> QED
      BY <1>c, <2>3, <2>5, <2>6, <2>7, <2>8 DEF SlotsLeftExact
  <1>3. ASSUME NEW c \in CNode, NEW s \in Slot, Clears(c, s) PROVE SlotsLeftExact'
    <2>1. ClearFacts(c, s)
      BY <1>3, ClearSlots DEF Clears
    <2> PICK o \in Obj : o = slots[c][s].obj
      BY <2>1 DEF ClearFacts
    <2>2. /\ \A d \in CNode, k \in Slot : d # c \/ k # s => slots'[d][k].obj = slots[d][k].obj
          /\ slots'[c][s].obj = NoObj /\ slots[c][s].obj = o
      BY <2>1 DEF ClearFacts, FreeSlot
    <2>3. \A p \in Obj : p # o => SlotsOf(p)' = SlotsOf(p)
      BY <1>h, <2>2 DEF SlotsOf
    <2>4. SlotsOf(o)' = SlotsOf(o) \ {<<c, s>>} /\ <<c, s>> \in SlotsOf(o)
      BY <1>h, <2>2 DEF SlotsOf
    <2>5. hdr' = [hdr EXCEPT ![o].slotsLeft = Minus1(hdr[o].slotsLeft)]
          /\ Minus1(hdr[o].slotsLeft) \in Nat
      BY <1>3, <1>h DEF Clears, ClearAt, Minus1
    <2>6. Cardinality(SlotsOf(o)') = Cardinality(SlotsOf(o)) - 1
      BY <2>2, <2>4, SlotsOfFinite, FS_RemoveElement
    <2>7. Cardinality(SlotsOf(o)) \in Nat /\ Cardinality(SlotsOf(o)) # 0
      BY <2>2, <2>4, SlotsOfFinite, FS_CardinalityType, FS_EmptySet
    <2>8. hdr'[o].slotsLeft = Minus1(hdr[o].slotsLeft)
          /\ \A p \in Obj : p # o => hdr'[p].slotsLeft = hdr[p].slotsLeft
      BY <1>h, <2>2, <2>5, CountUpdate
    <2>9. InUse(o) => hdr'[o].slotsLeft = Cardinality(SlotsOf(o)')
      BY <1>c, <2>2, <2>6, <2>7, <2>8 DEF Minus1
    <2>10. \A p \in Obj : InUse(p)' <=> InUse(p)
      BY <1>3 DEF Clears, SpawnVars, InUse
    <2> QED
      BY <1>c, <2>3, <2>8, <2>9, <2>10 DEF SlotsLeftExact
  <1>4. ASSUME NEW c \in CNode, NEW s \in Slot, NEW d \in Slot, Moves(c, s, d)
        PROVE  SlotsLeftExact'
    <2>1. MoveFacts(c, s, d)
      BY <1>4, MoveSlots
    <2> PICK o \in Obj : o = slots[c][s].obj
      BY <2>1 DEF MoveFacts
    <2>2. /\ \A e \in CNode, k \in Slot : e # c \/ k \notin {s, d} => slots'[e][k].obj = slots[e][k].obj
          /\ slots'[c][s].obj = NoObj /\ slots'[c][d].obj = o /\ slots[c][d].obj = NoObj
          /\ slots[c][s].obj = o /\ d # s
      BY <2>1 DEF MoveFacts, FreeSlot
    <2>3. \A p \in Obj : p # o => SlotsOf(p)' = SlotsOf(p)
      BY <1>h, <2>2 DEF SlotsOf
    <2> DEFINE S == SlotsOf(o) \ {<<c, s>>}
    <2>4. /\ <<c, s>> \in SlotsOf(o) /\ SlotsOf(o)' = S \cup {<<c, d>>} /\ <<c, d>> \notin S
      BY <1>h, <2>2 DEF SlotsOf
    <2>5. hdr' = [hdr EXCEPT ![o].slotsLeft = hdr[o].slotsLeft] /\ hdr[o].slotsLeft \in Nat
      <3>1. Minus1(hdr[o].slotsLeft + 1) = hdr[o].slotsLeft
        BY <1>h DEF Minus1
      <3>2. hdr' = [hdr EXCEPT ![o].slotsLeft = Minus1(hdr[o].slotsLeft + 1)]
        BY <1>4 DEF Moves
      <3> QED
        BY <1>h, <3>1, <3>2
    <2>6. IsFiniteSet(S) /\ Cardinality(S) = Cardinality(SlotsOf(o)) - 1
      BY <2>2, <2>4, SlotsOfFinite, FS_RemoveElement
    <2>7. Cardinality(SlotsOf(o)') = Cardinality(S) + 1
      BY <2>4, <2>6, FS_AddElement, ZenonT(30)
    <2>8. \A p \in Obj : hdr'[p].slotsLeft = hdr[p].slotsLeft
      BY <1>h, <2>2, <2>5, CountUpdate
    <2>9. Cardinality(SlotsOf(o)) \in Nat
      BY <2>2, SlotsOfFinite, FS_CardinalityType
    <2>10. Cardinality(SlotsOf(o)') = Cardinality(SlotsOf(o))
      BY <2>6, <2>7, <2>9
    <2>11. \A p \in Obj : InUse(p)' <=> InUse(p)
      BY <1>4 DEF Moves, SpawnVars, InUse
    <2> QED
      BY <1>c, <2>3, <2>8, <2>10, <2>11 DEF SlotsLeftExact
  <1>5. ASSUME Quiet PROVE SlotsLeftExact'
    <2>1. \A p \in Obj : SlotsOf(p)' = SlotsOf(p)
      BY <1>5 DEF Quiet, SlotsOf
    <2>2. \A p \in Obj : (InUse(p)' <=> InUse(p)) /\ hdr'[p].slotsLeft = hdr[p].slotsLeft
      BY <1>5 DEF Quiet
    <2> QED
      BY <1>c, <2>1, <2>2 DEF SlotsLeftExact
  <1>6. ASSUME NEW c \in CNode, NEW s \in Slot, NEW o \in Task, Voids(c, s, o)
        PROVE  SlotsLeftExact'
    <2>1. VoidFacts(c, s, o)
      BY <1>6, VoidSlots
    <2>2. \A p \in Obj : p # o => SlotsOf(p)' = SlotsOf(p)
      BY <1>h, <2>1 DEF SlotsOf, VoidFacts
    <2>3. \A p \in Obj : (InUse(p)' <=> InUse(p) /\ p # o)
                         /\ (p # o => hdr'[p].slotsLeft = hdr[p].slotsLeft)
      BY <2>1 DEF VoidFacts
    <2> QED
      BY <1>c, <2>2, <2>3 DEF SlotsLeftExact
  <1> QED
    BY <1>2, <1>3, <1>4, <1>5, <1>6, Effect

----------------------------------------------------------------------------
(* Child processes *)

\* The rest of TaskConfined and TaskFresh when no state, generation or reference changes.
LEMMA TaskHeaders ==
  ASSUME IInv0, NEW o \in Obj, hdr[o].state = "LIVE",
         \A p \in Obj : /\ hdr'[p].state = hdr[p].state /\ hdr'[p].gen = hdr[p].gen
                        /\ hdr'[p].ref = hdr[p].ref,
         \A p \in Obj : p # o /\ InUse(p) => InUse(p)'
  PROVE  TaskFresh' /\ \A p \in Task : ~InUse(p)' => hdr'[p].state = "LIVE"
  <1>1. Task \subseteq Obj
    BY CapAssumption DEF CapAssumption
  <1>2. TaskFresh'
    BY <1>1 DEF IInv0, TaskFresh
  <1>3. \A p \in Task : ~InUse(p)' => hdr'[p].state = "LIVE"
    BY <1>1 DEF IInv0, TaskConfined
  <1> QED
    BY <1>2, <1>3

\* No step derives from a process's capability or binds it twice.
LEMMA TaskStep == ASSUME IInv0, [Next]_vars PROVE TaskConfined' /\ TaskFresh'
  <1>t. Task \subseteq Obj /\ NoObj \notin Task /\ NoObj \notin Obj /\ \A c \in CNode : MetaOf[c] \notin Task
    BY CapAssumption DEF CapAssumption, MetaObj
  <1>1. /\ \A c, d \in CNode, s, k \in Slot :
             slots[c][s].obj \in Task /\ slots[d][k].obj = slots[c][s].obj => c = d /\ s = k
        /\ \A c \in CNode, s \in Slot : slots[c][s].obj \in Task =>
             slots[c][s].rights = TaskRights /\ InUse(slots[c][s].obj)
        /\ \A e \in Pool : edge[e].obj \notin Task
    BY DEF IInv0, TaskConfined
  <1>h. hdr \in [Obj -> HdrRec] /\ edge \in [Pool -> EdgeRec] /\ \A o \in Obj : hdr[o].slotsLeft \in Nat
    BY DEF IInv0, TypeOK, HdrRec
  <1>2. ASSUME NEW c \in CNode, NEW s \in Slot, NEW t \in {"ROOT_META", "ENDPOINT"},
               NEW r \in SUBSET Rights, NEW o \in Obj, Binds(c, s, t, r, o)
        PROVE  TaskConfined' /\ TaskFresh'
    <2>1. BindFacts(c, s, t, r, o) /\ Sourced(c, s, r, o) /\ hdr[o].state = "LIVE"
          /\ edge' \in {edge, Wired(edge, o, c, s)}
      BY <1>2, BindSlots DEF Binds
    <2>2. o \in Task => ~InUse(o) /\ r = TaskRights /\ edge' = edge
      <3>1. ASSUME o \in Task, NEW d \in CNode, NEW k \in Slot, slots[d][k].obj = o,
                   "MINT" \in slots[d][k].rights \/ "GRANT" \in slots[d][k].rights
            PROVE  FALSE
        BY <3>1, BoundTask
      <3> QED
        BY <1>t, <2>1, <3>1 DEF Sourced
    <2>3. /\ hdr' = [hdr EXCEPT ![o].slotsLeft = CountAfter(o)] /\ CountAfter(o) \in Nat
          /\ \A p \in Obj : InUse(p)' <=> InUse(p) \/ p = o
      BY <1>2, BindCount
    <2>4. \A p \in Obj : /\ hdr'[p].state = hdr[p].state /\ hdr'[p].gen = hdr[p].gen
                         /\ hdr'[p].ref = hdr[p].ref
      BY <1>h, <2>3, CountUpdate
    <2>5. TaskFresh' /\ \A p \in Task : ~InUse(p)' => hdr'[p].state = "LIVE"
      BY <2>1, <2>3, <2>4, TaskHeaders
    <2>6. /\ \A d \in CNode, k \in Slot : d # c \/ k # s => slots'[d][k] = slots[d][k]
          /\ slots'[c][s].obj = o /\ slots'[c][s].rights = r
      BY <2>1 DEF BindFacts
    <2>7. o \in Task => \A d \in CNode, k \in Slot : slots[d][k].obj # o
      BY <1>1, <2>2
    <2>8. \A d, e \in CNode, k, m \in Slot :
             slots'[d][k].obj \in Task /\ slots'[e][m].obj = slots'[d][k].obj => d = e /\ k = m
      BY <1>1, <2>6, <2>7
    <2>9. \A d \in CNode, k \in Slot : slots'[d][k].obj \in Task =>
             slots'[d][k].rights = TaskRights /\ InUse(slots[d][k].obj)'
      <3> SUFFICES ASSUME NEW d \in CNode, NEW k \in Slot, slots'[d][k].obj \in Task
                   PROVE  slots'[d][k].rights = TaskRights /\ InUse(slots[d][k].obj)'
        OBVIOUS
      <3>1. CASE d = c /\ k = s
        BY <2>2, <2>3, <2>6, <3>1 DEF InUse
      <3>2. CASE d # c \/ k # s
        <4>1. slots[d][k].obj \in Task /\ slots'[d][k] = slots[d][k] /\ InUse(slots[d][k].obj)
          BY <1>1, <2>6, <3>2
        <4>2. PICK p \in Obj : p = slots[d][k].obj
          BY <1>t, <4>1
        <4>3. InUse(p)'
          BY <2>3, <4>1, <4>2
        <4> QED
          BY <1>1, <4>1, <4>2, <4>3 DEF InUse
      <3> QED
        BY <3>1, <3>2
    <2>10. \A e \in Pool : edge'[e].obj \notin Task
      <3>1. CASE edge' = edge
        BY <1>1, <3>1
      <3>2. CASE edge' # edge
        <4>1. o \notin Task /\ edge' = Wired(edge, o, c, s)
          BY <2>1, <2>2, <3>2
        <4>2. \A e \in Pool : edge'[e] = edge[e] \/ edge'[e].obj = o
          BY <1>h, <4>1, WiredCases DEF Edge
        <4> QED
          BY <1>1, <4>1, <4>2
      <3> QED
        BY <3>1, <3>2
    <2> QED
      BY <2>5, <2>8, <2>9, <2>10 DEF TaskConfined, InUse
  <1>3. ASSUME NEW c \in CNode, NEW s \in Slot, Clears(c, s) PROVE TaskConfined' /\ TaskFresh'
    <2>1. ClearFacts(c, s)
      BY <1>3, ClearSlots DEF Clears
    <2> PICK o \in Obj : o = slots[c][s].obj
      BY <2>1 DEF ClearFacts
    <2> PICK n \in Nat : n = Minus1(hdr[o].slotsLeft)
      BY <1>h DEF Minus1
    <2>2. hdr' = [hdr EXCEPT ![o].slotsLeft = n] /\ task' = task
      BY <1>3 DEF Clears, ClearAt, SpawnVars
    <2>3. \A p \in Obj : /\ hdr'[p].state = hdr[p].state /\ hdr'[p].gen = hdr[p].gen
                         /\ hdr'[p].ref = hdr[p].ref
      BY <1>h, <2>2, CountUpdate
    <2>4. TaskFresh' /\ \A p \in Task : task'[p] = "free" => hdr'[p].state = "LIVE"
      BY <1>t, <2>2, <2>3 DEF IInv0, TaskFresh, TaskConfined, InUse
    <2>5. \A d \in CNode, k \in Slot : slots'[d][k] = slots[d][k] \/ slots'[d][k].obj = NoObj
      BY <2>1 DEF ClearFacts, FreeSlot
    <2>6. \A e \in Pool : edge'[e] = edge[e] \/ edge'[e].obj = NoObj
      BY <1>3 DEF Clears, Unlinked, FreeEdge
    <2> QED
      BY <1>1, <1>t, <2>2, <2>4, <2>5, <2>6 DEF TaskConfined, InUse
  <1>4. ASSUME NEW c \in CNode, NEW s \in Slot, NEW d \in Slot, Moves(c, s, d)
        PROVE  TaskConfined' /\ TaskFresh'
    <2>1. MoveFacts(c, s, d) /\ "GRANT" \in slots[c][s].rights
      BY <1>4, MoveSlots DEF Moves
    <2> PICK o \in Obj : o = slots[c][s].obj
      BY <2>1 DEF MoveFacts
    <2> PICK n \in Nat : n = Minus1(hdr[o].slotsLeft + 1)
      BY <1>h DEF Minus1
    <2>2. hdr' = [hdr EXCEPT ![o].slotsLeft = n] /\ task' = task
      BY <1>4 DEF Moves, SpawnVars
    <2>3. \A p \in Obj : /\ hdr'[p].state = hdr[p].state /\ hdr'[p].gen = hdr[p].gen
                         /\ hdr'[p].ref = hdr[p].ref
      BY <1>h, <2>2, CountUpdate
    <2>4. TaskFresh' /\ \A p \in Task : task'[p] = "free" => hdr'[p].state = "LIVE"
      BY <1>t, <2>2, <2>3 DEF IInv0, TaskFresh, TaskConfined, InUse
    <2>5. o \notin Task
      BY <2>1, BoundTask
    <2>6. \A e \in CNode, k \in Slot : slots'[e][k] = slots[e][k] \/ slots'[e][k].obj \in {NoObj, o}
      BY <2>1 DEF MoveFacts, FreeSlot
    <2> DEFINE ed == Unlinked(edge, o, c, s)
    <2>7. ed \in [Pool -> EdgeRec]
      BY <2>1, UnlinkedSound DEF MoveFacts
    <2>8. \A e \in Pool : ed[e] = edge[e] \/ ed[e].obj = NoObj
      BY DEF Unlinked, FreeEdge
    <2>9. edge' = Wired(ed, o, c, d)
      BY <1>4 DEF Moves
    <2> HIDE DEF ed
    <2>10. \A e \in Pool : edge'[e] = ed[e] \/ edge'[e].obj = o
      BY <2>7, <2>9, WiredCases DEF Edge
    <2> QED
      BY <1>1, <1>t, <2>2, <2>4, <2>5, <2>6, <2>8, <2>10 DEF TaskConfined, InUse
  <1>5. ASSUME Quiet PROVE TaskConfined' /\ TaskFresh'
    <2>1. UNCHANGED <<slots, edge>> /\ TaskFresh'
          /\ \A o \in Obj : (InUse(o)' <=> InUse(o)) /\ (InUse(o) \/ hdr'[o] = hdr[o])
      BY <1>5 DEF Quiet
    <2>2. \A p \in Task : (InUse(p)' <=> InUse(p)) /\ (~InUse(p)' => hdr'[p].state = "LIVE")
      BY <1>t, <2>1 DEF IInv0, TaskConfined
    <2>3. \A c \in CNode, s \in Slot : slots'[c][s].obj \in Task =>
             slots'[c][s].rights = TaskRights /\ InUse(slots[c][s].obj)'
      BY <1>1, <2>1, <2>2 DEF InUse
    <2> QED
      BY <1>1, <2>1, <2>2, <2>3 DEF TaskConfined, InUse
  <1>6. ASSUME NEW c \in CNode, NEW s \in Slot, NEW o \in Task, Voids(c, s, o)
        PROVE  TaskConfined' /\ TaskFresh'
    <2>1. VoidFacts(c, s, o) /\ edge' = edge
      BY <1>6, VoidSlots DEF Voids
    <2>2. \A p \in Obj : InUse(p)' <=> InUse(p) /\ p # o
      BY <2>1 DEF VoidFacts
    <2>3. TaskFresh' /\ \A p \in Task : ~InUse(p)' => hdr'[p].state = "LIVE"
      BY <2>1, <2>2, TaskHeaders DEF VoidFacts
    <2>4. /\ \A d \in CNode, k \in Slot : slots'[d][k] = slots[d][k] \/ slots'[d][k].obj = NoObj
          /\ \A d \in CNode, k \in Slot : slots'[d][k].obj # o
      BY <2>1 DEF VoidFacts
    <2>5. \A d \in CNode, k \in Slot : slots'[d][k].obj \in Task =>
             slots'[d][k].rights = TaskRights /\ InUse(slots[d][k].obj)'
      BY <1>1, <1>t, <2>2, <2>4 DEF InUse
    <2> QED
      BY <1>1, <1>t, <2>1, <2>3, <2>4, <2>5 DEF TaskConfined, InUse
  <1> QED
    BY <1>2, <1>3, <1>4, <1>5, <1>6, Effect

----------------------------------------------------------------------------
(* Reclaimed storage *)

\* Reclaimed storage stays DEAD, unbound and unreferenced until it is reused.
LEMMA FreedStep == ASSUME IInv0, [Next]_vars PROVE FreedIdle'
  <1>1. hdr \in [Obj -> HdrRec] /\ freed \in SUBSET Obj /\ FreedIdle
    BY DEF IInv0, TypeOK
  <1>h. \A o \in Obj : hdr[o].slotsLeft \in Nat
    BY <1>1 DEF HdrRec
  <1>2. ASSUME NEW c \in CNode, NEW s \in Slot, NEW t \in {"ROOT_META", "ENDPOINT"},
               NEW r \in SUBSET Rights, NEW o \in Obj, Binds(c, s, t, r, o)
        PROVE  FreedIdle'
    <2>1. hdr' = [hdr EXCEPT ![o].slotsLeft = CountAfter(o)] /\ CountAfter(o) \in Nat
          /\ o \notin freed /\ freed' = freed
      BY <1>2, <1>1, BindCount DEF Binds, FreedIdle
    <2> QED
      BY <1>1, <2>1, CountUpdate DEF FreedIdle
  <1>3. ASSUME NEW c \in CNode, NEW s \in Slot, Clears(c, s) PROVE FreedIdle'
    <2>1. ClearFacts(c, s)
      BY <1>3, ClearSlots DEF Clears
    <2> PICK o \in Obj : o = slots[c][s].obj
      BY <2>1 DEF ClearFacts
    <2> PICK n \in Nat : n = Minus1(hdr[o].slotsLeft)
      BY <1>h DEF Minus1
    <2>2. hdr' = [hdr EXCEPT ![o].slotsLeft = n] /\ freed' = freed
          /\ (hdr[o].slotsLeft = 0 => n = 0)
      BY <1>3, <1>h DEF Clears, ClearAt, Minus1
    <2>3. hdr'[o].slotsLeft = n
      BY <1>1, <2>2 DEF HdrRec
    <2>4. \A p \in Obj : /\ hdr'[p].state = hdr[p].state /\ hdr'[p].ref = hdr[p].ref
                         /\ p # o => hdr'[p].slotsLeft = hdr[p].slotsLeft
      BY <1>1, <2>2, CountUpdate
    <2> QED
      BY <1>1, <2>2, <2>3, <2>4, ZenonT(30) DEF FreedIdle
  <1>4. ASSUME NEW c \in CNode, NEW s \in Slot, NEW d \in Slot, Moves(c, s, d) PROVE FreedIdle'
    <2>1. MoveFacts(c, s, d)
      BY <1>4, MoveSlots
    <2> PICK o \in Obj : o = slots[c][s].obj
      BY <2>1 DEF MoveFacts
    <2>2. Minus1(hdr[o].slotsLeft + 1) = hdr[o].slotsLeft
      BY <1>h DEF Minus1
    <2>3. hdr' = [hdr EXCEPT ![o].slotsLeft = Minus1(hdr[o].slotsLeft + 1)] /\ freed' = freed
      BY <1>4 DEF Moves
    <2> PICK n \in Nat : n = hdr[o].slotsLeft
      BY <1>h
    <2>4. hdr' = [hdr EXCEPT ![o].slotsLeft = n]
      BY <2>2, <2>3
    <2>5. \A p \in Obj : /\ hdr'[p].state = hdr[p].state /\ hdr'[p].ref = hdr[p].ref
                         /\ hdr'[p].slotsLeft = hdr[p].slotsLeft
      BY <1>1, <2>4, CountUpdate, ZenonT(30)
    <2> QED
      BY <1>1, <2>3, <2>5 DEF FreedIdle
  <1>5. ASSUME Quiet PROVE FreedIdle'
    BY <1>5 DEF Quiet
  <1>6. ASSUME NEW c \in CNode, NEW s \in Slot, NEW o \in Task, Voids(c, s, o) PROVE FreedIdle'
    <2>1. VoidFacts(c, s, o) /\ freed' = freed
      BY <1>6, VoidSlots DEF Voids
    <2> QED
      BY <1>1, <2>1 DEF VoidFacts, FreedIdle
  <1> QED
    BY <1>2, <1>3, <1>4, <1>5, <1>6, Effect

\* revoke_q_push writes at most one entry.
LEMMA PushedShape ==
  ASSUME NEW o
  PROVE  Pushed(o) = q \/ \E k : Pushed(o) = [q EXCEPT ![k] = o]
  BY Zenon DEF Pushed

\* The queue and the reclaimed set, by action.
LEMMA QueueStep == ASSUME IInv0, [Next]_vars PROVE FreedUnqueued'
  <1>1. q \in [QIdx -> Obj \cup {NoObj}] /\ freed \in SUBSET Obj /\ FreedIdle /\ FreedUnqueued
    BY DEF IInv0, TypeOK
  <1>o. NoObj \notin Obj
    BY CapAssumption DEF CapAssumption
  <1>2. ASSUME UNCHANGED <<q, freed>> PROVE FreedUnqueued'
    BY <1>1, <1>2 DEF FreedUnqueued, Queued
  <1>3. ASSUME NEW o \in Obj, RevokeBegin(o) PROVE FreedUnqueued'
    <2>1. o \notin freed /\ freed' = freed /\ q' = Pushed(o)
      BY <1>1, <1>3 DEF RevokeBegin, FreedIdle
    <2>2. \A i \in QIdx : q'[i] = q[i] \/ q'[i] = o
      BY <1>1, <2>1, PushedShape
    <2> QED
      BY <1>1, <2>1, <2>2 DEF FreedUnqueued, Queued
  <1>4. ASSUME NEW o \in Obj, Reclaim(o) PROVE FreedUnqueued'
    BY <1>1, <1>4, <1>o DEF Reclaim, FreedUnqueued, Queued
  <1>5. ASSUME NEW o \in Obj, Reinit(o) PROVE FreedUnqueued'
    BY <1>1, <1>5 DEF Reinit, FreedUnqueued, Queued
  <1>6. ASSUME TickNext PROVE FreedUnqueued'
    <2>1. freed' = freed /\ (q' = q \/ q' = [q EXCEPT ![Entry] = NoObj])
      BY <1>6 DEF TickNext
    <2>2. \A i \in QIdx : q'[i] = q[i] \/ q'[i] = NoObj
      BY <1>1, <2>1
    <2> QED
      BY <1>1, <1>o, <2>1, <2>2 DEF FreedUnqueued, Queued
  <1>7. CASE \/ \E c \in CNode : Bootstrap(c)
             \/ \E c \in CNode, s \in Slot, r \in InstallRights, o \in Obj : Install(c, s, r, o)
    BY <1>2, <1>7 DEF Bootstrap, Install, RevokeVars
  <1>9. CASE \E c \in CNode, h \in Handle, w \in WantRights, dc \in CNode, d \in Slot :
               Mint(c, h[1], h[2], w, dc, d)
    BY <1>2, <1>9 DEF Mint, RevokeVars
  <1>10. CASE \E c \in CNode, h \in Handle, w \in WantRights, d \in Slot : Copy(c, h[1], h[2], w, d)
    BY <1>2, <1>10 DEF Copy, RevokeVars
  <1>11. CASE \E c \in CNode, h \in Handle, d \in Slot : Move(c, h[1], h[2], d)
    BY <1>2, <1>11, ZenonT(30) DEF Move, RevokeVars
  <1>12. CASE \/ \E c \in CNode, h \in Handle : Delete(c, h[1], h[2])
              \/ \E c \in CNode, a \in Account : Attach(c, a)
              \/ \E o \in Obj : HoldRef(o) \/ DropRef(o)
              \/ \E o \in Obj, e \in Pool : DeathWalk(o, e)
    BY <1>2, <1>12 DEF Delete, Attach, HoldRef, DropRef, DeathWalk, RevokeVars
  <1>13. CASE \/ \E c \in CNode, s \in Slot, o \in Task : Spawn(c, s, o) \/ SpawnFail(c, s, o)
              \/ \E o \in Task : TaskExit(o)
              \/ \E c \in CNode, h \in Handle : Wait(c, h[1], h[2])
    BY <1>2, <1>13 DEF Spawn, SpawnFail, TaskExit, Wait, RevokeVars
  <1>8. CASE \/ TickBegin \/ (\E e \in Pool : TickWalk(e)) \/ TickEnd
             \/ \E c \in CNode, o \in (Obj \ MetaObj) \cup {NoObj} : SweepBegin(c, o)
             \/ (\E s \in Slot : SweepStep(s)) \/ SweepEnd
             \/ UNCHANGED vars
    BY <1>2, <1>8 DEF TickBegin, TickWalk, TickEnd, SweepBegin, SweepStep, SweepEnd, vars
  <1> QED
    BY <1>3, <1>4, <1>5, <1>6, <1>7, <1>8, <1>9, <1>10, <1>11, <1>12, <1>13 DEF Next

----------------------------------------------------------------------------
(* Types *)

\* Charging and refunding keep the accounts natural numbers.
LEMMA UsedType ==
  ASSUME NEW u \in [Account -> Nat], NEW c
  PROVE  Charged(u, c) \in [Account -> Nat] /\ Refunded(u, c) \in [Account -> Nat]
  BY DEF Charged, Refunded, Minus1

\* Slots, headers, accounts and spawn-table entries, by effect.
StoreType ==
  /\ slots \in [CNode -> [Slot -> SlotRec]]
  /\ hdr \in [Obj -> HdrRec]
  /\ used \in [Account -> Nat]
  /\ task \in [Task -> {"free", "alive", "dead"}]
  /\ skewed \in SUBSET Account

\* Every effect keeps the tables, headers and accounts in their types.
LEMMA StoreStep == ASSUME IInv0, [Next]_vars PROVE StoreType'
  <1>1. StoreType
    BY DEF IInv0, TypeOK, StoreType
  <1>h. hdr \in [Obj -> HdrRec] /\ used \in [Account -> Nat] /\ \A o \in Obj : hdr[o].slotsLeft \in Nat
    BY <1>1 DEF StoreType, HdrRec
  <1>2. ASSUME NEW c \in CNode, NEW s \in Slot, NEW t \in {"ROOT_META", "ENDPOINT"},
               NEW r \in SUBSET Rights, NEW o \in Obj, Binds(c, s, t, r, o)
        PROVE  StoreType'
    <2>1. slots' \in [CNode -> [Slot -> SlotRec]]
      BY <1>2, BindSlots DEF BindFacts
    <2>2. hdr' \in [Obj -> HdrRec] /\ task' \in [Task -> {"free", "alive", "dead"}]
      BY <1>2, <1>h, BindCount, CountUpdate
    <2>3. used' \in [Account -> Nat] /\ skewed' = skewed
      BY <1>2, <1>h, UsedType DEF Binds
    <2> QED
      BY <1>1, <2>1, <2>2, <2>3 DEF StoreType
  <1>3. ASSUME NEW c \in CNode, NEW s \in Slot, Clears(c, s) PROVE StoreType'
    <2>1. ClearFacts(c, s)
      BY <1>3, ClearSlots DEF Clears
    <2> PICK o \in Obj : o = slots[c][s].obj
      BY <2>1 DEF ClearFacts
    <2> PICK n \in Nat : n = Minus1(hdr[o].slotsLeft)
      BY <1>h DEF Minus1
    <2>2. hdr' = [hdr EXCEPT ![o].slotsLeft = n] /\ UNCHANGED <<task, skewed>>
      BY <1>3 DEF Clears, ClearAt, SpawnVars
    <2>3. hdr' \in [Obj -> HdrRec]
      BY <1>h, <2>2, CountUpdate
    <2>4. used' \in [Account -> Nat]
      BY <1>3, <1>h, UsedType DEF Clears, ClearAt
    <2> QED
      BY <1>1, <2>1, <2>2, <2>3, <2>4 DEF ClearFacts, StoreType
  <1>4. ASSUME NEW c \in CNode, NEW s \in Slot, NEW d \in Slot, Moves(c, s, d) PROVE StoreType'
    <2>1. MoveFacts(c, s, d)
      BY <1>4, MoveSlots
    <2> PICK o \in Obj : o = slots[c][s].obj
      BY <2>1 DEF MoveFacts
    <2> PICK n \in Nat : n = Minus1(hdr[o].slotsLeft + 1)
      BY <1>h DEF Minus1
    <2>2. hdr' = [hdr EXCEPT ![o].slotsLeft = n] /\ UNCHANGED <<task, skewed>>
      BY <1>4 DEF Moves, SpawnVars
    <2>3. hdr' \in [Obj -> HdrRec]
      BY <1>h, <2>2, CountUpdate
    <2>4. used' = Refunded(Charged(used, c), c)
      BY <1>4 DEF Moves
    <2>5. used' \in [Account -> Nat]
      BY <1>h, <2>4, UsedType
    <2>6. slots' \in [CNode -> [Slot -> SlotRec]]
      BY <2>1 DEF MoveFacts
    <2> QED
      BY <1>1, <2>2, <2>3, <2>5, <2>6 DEF StoreType
  <1>5. ASSUME Quiet PROVE StoreType'
    BY <1>1, <1>5 DEF Quiet, StoreType
  <1>6. ASSUME NEW c \in CNode, NEW s \in Slot, NEW o \in Task, Voids(c, s, o) PROVE StoreType'
    <2>1. VoidFacts(c, s, o)
      BY <1>6, VoidSlots
    <2> QED
      BY <1>6, <2>1 DEF Voids, VoidFacts, StoreType
  <1> QED
    BY <1>2, <1>3, <1>4, <1>5, <1>6, Effect

\* The queue, the locks and the two loops, by action.
LoopType ==
  /\ q \in [QIdx -> Obj \cup {NoObj}]
  /\ cursor \in 0 .. QMax
  /\ acct \in [CNode -> Account \cup {NoAccount}]
  /\ lock \in [CNode -> BOOLEAN]
  /\ sweep \in [cn : CNode \cup {NoCNode}, obj : Obj \cup {NoObj}]
  /\ tick \in [on : BOOLEAN, start : 0 .. QMax, limit : 1 .. QMax,
                scanned : 0 .. QMax, cleared : 0 .. Budget, walked : BOOLEAN]
  /\ freed \in SUBSET Obj

\* The record of a deferred pass.
TickRec == [on : BOOLEAN, start : 0 .. QMax, limit : 1 .. QMax,
            scanned : 0 .. QMax, cleared : 0 .. Budget, walked : BOOLEAN]

\* The deferred pass keeps its cursor and its counters in range.
LEMMA LoopStep == ASSUME IInv0, [Next]_vars PROVE LoopType'
  <1>1. LoopType
    BY DEF IInv0, TypeOK, LoopType
  <1>t. tick \in TickRec
    BY <1>1 DEF LoopType, TickRec
  <1>q. QMax \in Nat \ {0} /\ Budget \in Nat \ {0}
    BY CapAssumption DEF CapAssumption
  <1>2. ASSUME UNCHANGED RevokeVars, acct' \in [CNode -> Account \cup {NoAccount}]
        PROVE  LoopType'
    BY <1>1, <1>2 DEF LoopType, RevokeVars
  <1>a. acct \in [CNode -> Account \cup {NoAccount}]
    BY <1>1 DEF LoopType
  <1>3. ASSUME NEW o \in Obj, RevokeBegin(o) PROVE LoopType'
    <2>1. q' = Pushed(o)
      BY <1>3 DEF RevokeBegin
    <2>2. q' \in [QIdx -> Obj \cup {NoObj}]
      BY <1>1, <2>1, PushedShape DEF LoopType
    <2> QED
      BY <1>1, <1>3, <2>2 DEF RevokeBegin, LoopType
  <1>4. ASSUME NEW o \in Obj, Reclaim(o) \/ Reinit(o) PROVE LoopType'
    BY <1>1, <1>4 DEF Reclaim, Reinit, LoopType
  <1>5. ASSUME TickBegin PROVE LoopType'
    <2>1. PICK n \in QIdx : tick' = [IdleTick EXCEPT !.on = TRUE, !.limit = n, !.start = cursor % n]
      BY <1>5 DEF TickBegin
    <2>2. n \in Nat \ {0} /\ n \in 1 .. QMax /\ cursor \in Nat
      BY <1>1, <1>q DEF QIdx, LoopType
    <2>3. cursor % n \in 0 .. (n - 1)
      BY <2>2, ModType
    <2>4. cursor % n \in 0 .. QMax
      BY <1>q, <2>2, <2>3
    <2>5. tick' = [on |-> TRUE, start |-> cursor % n, limit |-> n, scanned |-> 0,
                   cleared |-> 0, walked |-> FALSE]
      BY <2>1 DEF IdleTick
    <2>6. tick' \in TickRec
      BY <1>q, <2>2, <2>4, <2>5 DEF TickRec
    <2> QED
      BY <1>1, <1>5, <2>6 DEF TickBegin, LoopType, TickRec
  <1>6. ASSUME NEW e \in Pool, TickWalk(e) PROVE LoopType'
    <2>1. tick.cleared < Budget /\ tick.cleared \in 0 .. Budget
      BY <1>6, <1>t DEF TickWalk, TickRec
    <2> PICK k \in 0 .. Budget : tick' = [tick EXCEPT !.walked = TRUE, !.cleared = k]
      <3>1. tick.cleared + 1 \in 0 .. Budget
        BY <1>q, <2>1
      <3> QED
        BY <1>6, <2>1, <3>1 DEF TickWalk
    <2>2. tick' \in TickRec
      BY <1>t DEF TickRec
    <2> QED
      BY <1>1, <1>6, <2>2 DEF TickWalk, LoopType, TickRec
  <1>7. ASSUME TickNext PROVE LoopType'
    <2>1. tick.scanned \in 0 .. QMax /\ tick.limit \in 1 .. QMax /\ tick.start \in 0 .. QMax
          /\ tick.scanned < tick.limit
      BY <1>7, <1>t DEF TickNext, Scanning, TickRec
    <2>2. tick.scanned + 1 \in 0 .. QMax
      BY <1>q, <2>1
    <2> PICK k \in 0 .. QMax : tick' = [tick EXCEPT !.scanned = k, !.walked = FALSE]
      BY <1>7, <2>2 DEF TickNext
    <2>3. tick' \in TickRec
      BY <1>t DEF TickRec
    <2>4. Entry \in Nat /\ tick.limit \in Nat \ {0}
      <3>1. tick.start + tick.scanned \in Nat /\ tick.limit \in Nat \ {0}
        BY <1>q, <2>1
      <3>2. (tick.start + tick.scanned) % tick.limit \in 0 .. (tick.limit - 1)
        BY <3>1, ModType
      <3> QED
        BY <3>1, <3>2 DEF Entry
    <2>5. Entry % tick.limit \in 0 .. (tick.limit - 1)
      BY <2>4, ModType
    <2>6. Entry % tick.limit \in 0 .. QMax
      BY <1>q, <2>1, <2>5
    <2>7. cursor' = Entry % tick.limit \/ cursor' = cursor
      BY <1>7 DEF TickNext
    <2>8. cursor' \in 0 .. QMax
      BY <1>1, <2>6, <2>7 DEF LoopType
    <2>9. q' \in [QIdx -> Obj \cup {NoObj}]
      BY <1>1, <1>7 DEF TickNext, LoopType
    <2> QED
      BY <1>1, <1>7, <2>3, <2>8, <2>9 DEF TickNext, LoopType, TickRec
  <1>8. ASSUME TickEnd PROVE LoopType'
    BY <1>1, <1>8, <1>q DEF TickEnd, IdleTick, LoopType
  <1>9. ASSUME NEW c \in CNode, NEW o \in (Obj \ MetaObj) \cup {NoObj}, SweepBegin(c, o)
        PROVE  LoopType'
    BY <1>1, <1>9 DEF SweepBegin, LoopType
  <1>10. ASSUME NEW s \in Slot, SweepStep(s) PROVE LoopType'
    BY <1>1, <1>10 DEF SweepStep, LoopType
  <1>11. ASSUME SweepEnd PROVE LoopType'
    BY <1>1, <1>11 DEF SweepEnd, IdleSweep, LoopType
  <1>12. CASE \/ \E c \in CNode : Bootstrap(c)
              \/ \E c \in CNode, s \in Slot, r \in InstallRights, o \in Obj : Install(c, s, r, o)
    BY <1>2, <1>a, <1>12 DEF Bootstrap, Install
  <1>13. CASE \E c \in CNode, h \in Handle, w \in WantRights, dc \in CNode, d \in Slot :
                Mint(c, h[1], h[2], w, dc, d)
    BY <1>2, <1>a, <1>13 DEF Mint
  <1>14. CASE \E c \in CNode, h \in Handle, w \in WantRights, d \in Slot : Copy(c, h[1], h[2], w, d)
    BY <1>2, <1>a, <1>14 DEF Copy
  <1>15. CASE \E c \in CNode, h \in Handle, d \in Slot : Move(c, h[1], h[2], d)
    BY <1>2, <1>a, <1>15, ZenonT(30) DEF Move
  <1>16. CASE \/ \E c \in CNode, h \in Handle : Delete(c, h[1], h[2])
              \/ \E o \in Obj : HoldRef(o) \/ DropRef(o)
              \/ \E o \in Obj, e \in Pool : DeathWalk(o, e)
    BY <1>2, <1>a, <1>16 DEF Delete, HoldRef, DropRef, DeathWalk
  <1>17. ASSUME NEW c \in CNode, NEW a \in Account, Attach(c, a) PROVE LoopType'
    <2>1. acct' \in [CNode -> Account \cup {NoAccount}]
      BY <1>a, <1>17 DEF Attach
    <2> QED
      BY <1>2, <1>17, <2>1 DEF Attach
  <1>18. CASE UNCHANGED vars
    BY <1>2, <1>a, <1>18 DEF vars, RevokeVars
  <1>19. CASE \/ \E c \in CNode, s \in Slot, o \in Task : Spawn(c, s, o) \/ SpawnFail(c, s, o)
              \/ \E o \in Task : TaskExit(o)
              \/ \E c \in CNode, h \in Handle : Wait(c, h[1], h[2])
    BY <1>2, <1>a, <1>19 DEF Spawn, SpawnFail, TaskExit, Wait
  <1> QED
    BY <1>3, <1>4, <1>5, <1>6, <1>7, <1>8, <1>9, <1>10, <1>11, <1>12, <1>13, <1>14, <1>15,
       <1>16, <1>17, <1>18, <1>19 DEF Next

----------------------------------------------------------------------------
(* Theorems *)

\* The inductive invariant.
IInv == IInv0 /\ SlotsLeftExact

\* The initial state satisfies the full inductive invariant.
LEMMA InitIInv == Init => IInv
  <1> SUFFICES ASSUME Init PROVE IInv
    OBVIOUS
  <1>1. IInv0
    BY InitType
  <1>2. \A o \in Obj : SlotsOf(o) = {} /\ hdr[o].slotsLeft = 0
    BY CapAssumption DEF Init, SlotsOf, EmptySlot, FreeSlot, FreshHdr, CapAssumption
  <1>3. SlotsLeftExact
    BY <1>2, FS_EmptySet DEF SlotsLeftExact
  <1> QED
    BY <1>1, <1>3 DEF IInv

\* Every step preserves the full inductive invariant.
LEMMA StepIInv == IInv /\ [Next]_vars => IInv'
  <1> SUFFICES ASSUME IInv, [Next]_vars PROVE IInv'
    OBVIOUS
  <1>1. IInv0 /\ SlotsLeftExact
    BY DEF IInv
  <1>2. TypeOK'
    BY <1>1, StoreStep, EdgeStep, LoopStep DEF TypeOK, LoopType, StoreType
  <1>3. Shape' /\ EdgeSound' /\ FreedIdle' /\ FreedUnqueued' /\ TaskConfined' /\ TaskFresh'
    BY <1>1, ShapeStep, EdgeStep, FreedStep, QueueStep, TaskStep
  <1>4. SlotsLeftExact'
    BY <1>1, CountStep
  <1> QED
    BY <1>2, <1>3, <1>4 DEF IInv, IInv0

\* The strengthened invariant holds in every reachable state of the kernel.
THEOREM Invariance == Spec => []IInv
  BY InitIInv, StepIInv, PTL DEF Spec

\* Every variable keeps its type.
THEOREM TypeCorrect == Spec => []TypeOK
  <1>1. IInv => TypeOK
    BY DEF IInv, IInv0
  <1> QED
    BY <1>1, Invariance, PTL

\* S4, S6: u32SlotsLeft is the number of slots bound to the object, for every object in
\* use, with the bare clears of process_spawn and process_wait among the steps.
THEOREM CountCorrect == Spec => []SlotsLeftExact
  <1>1. IInv => SlotsLeftExact
    BY DEF IInv
  <1> QED
    BY <1>1, Invariance, PTL

\* A child is named by one capability, in one slot, with no edge: process_wait's bare clear
\* leaves nothing that names the spawn-table entry, and the next spawn may reuse it.
THEOREM TaskCorrect == Spec => []TaskConfined
  <1>1. IInv => TaskConfined
    BY DEF IInv, IInv0
  <1> QED
    BY <1>1, Invariance, PTL

\* S4: each derivation edge names a slot bound to its object, and each slot has
\* at most one, so the revoke walk clears no unrelated capability.
THEOREM EdgesCorrect == Spec => []EdgeSound
  <1>1. IInv => EdgeSound
    BY DEF IInv, IInv0
  <1> QED
    BY <1>1, Invariance, PTL

\* R9: reclaimed storage is named by nothing, so reusing it is safe.
THEOREM ReclaimCorrect == Spec => []NoDangling
  <1>1. IInv => NoDangling
    <2> SUFFICES ASSUME IInv, NEW o \in freed
                 PROVE  SlotsOf(o) = {} /\ EdgesOf(o) = {} /\ ~Queued(o) /\ hdr[o].ref = 0
      BY DEF NoDangling
    <2>1. o \in Obj /\ hdr[o].slotsLeft = 0 /\ hdr[o].ref = 0 /\ ~Queued(o)
      BY DEF IInv, IInv0, TypeOK, FreedIdle, FreedUnqueued
    <2>5. InUse(o)
      <3>1. hdr[o].state = "DEAD"
        BY DEF IInv, IInv0, FreedIdle
      <3> QED
        BY <3>1 DEF IInv, IInv0, TaskConfined, InUse
    <2>2. Cardinality(SlotsOf(o)) = 0
      BY <2>1, <2>5 DEF IInv, SlotsLeftExact
    <2>3. SlotsOf(o) = {}
      BY <2>1, <2>2, SlotsOfFinite, FS_EmptySet
    <2>4. ASSUME NEW e \in EdgesOf(o) PROVE FALSE
      <3>1. e \in Pool /\ edge[e].obj = o /\ edge[e].slot \in Slot /\ o # NoObj
        BY <2>1, CapAssumption DEF EdgesOf, IInv, IInv0, TypeOK, EdgeRec, CapAssumption
      <3>2. edge[e].cn \in CNode /\ slots[edge[e].cn][edge[e].slot].obj = o
        BY <3>1 DEF IInv, IInv0, EdgeSound
      <3>3. <<edge[e].cn, edge[e].slot>> \in SlotsOf(o)
        BY <3>1, <3>2 DEF SlotsOf
      <3> QED
        BY <2>3, <3>3
    <2> QED
      BY <2>1, <2>3, <2>4
  <1> QED
    BY <1>1, Invariance, PTL

----------------------------------------------------------------------------
(* Action properties *)

\* A binding to an object makes the object's slot count positive.
LEMMA BoundNotFreed ==
  ASSUME IInv, NEW c \in CNode, NEW s \in Slot, slots[c][s].obj \in Obj
  PROVE  slots[c][s].obj \notin freed
  <1> PICK o \in Obj : o = slots[c][s].obj
    OBVIOUS
  <1>1. <<c, s>> \in SlotsOf(o)
    BY DEF SlotsOf
  <1>2. Cardinality(SlotsOf(o)) # 0
    BY <1>1, SlotsOfFinite, FS_EmptySet
  <1>3. InUse(o)
    BY BoundTask DEF IInv
  <1> QED
    BY <1>2, <1>3 DEF IInv, IInv0, FreedIdle, SlotsLeftExact

\* S2, S3: a binding whose object was revoked never becomes usable again, not
\* even when the storage is reclaimed and starts over at generation 1.
THEOREM ResurrectionCorrect == Spec => NoResurrection
  <1>1. ASSUME IInv, [Next]_vars, NEW c \in CNode, NEW s \in Slot,
               Occupied(c, s), ~Usable(c, s)
        PROVE  ~Usable(c, s)'
    <2>0. IInv0 /\ hdr \in [Obj -> HdrRec] /\ slots[c][s].obj \in Obj
          /\ \A o \in Obj : hdr[o].slotsLeft \in Nat
      BY <1>1 DEF IInv, IInv0, TypeOK, Shape, HdrRec
    <2>s. ASSUME slots'[c][s] = slots[c][s],
                 hdr'[slots[c][s].obj].state = hdr[slots[c][s].obj].state,
                 hdr'[slots[c][s].obj].gen = hdr[slots[c][s].obj].gen
          PROVE  ~Usable(c, s)'
      BY <1>1, <2>s DEF Usable, Resolves, Occupied, CheckLive
    <2>g. ASSUME NEW o \in Obj, NEW n \in Nat, hdr' = [hdr EXCEPT ![o].slotsLeft = n]
          PROVE  \A p \in Obj : hdr'[p].state = hdr[p].state /\ hdr'[p].gen = hdr[p].gen
      BY <2>0, <2>g, CountUpdate
    <2>2. ASSUME NEW d \in CNode, NEW k \in Slot, NEW t \in {"ROOT_META", "ENDPOINT"},
                 NEW r \in SUBSET Rights, NEW o \in Obj, Binds(d, k, t, r, o)
          PROVE  ~Usable(c, s)'
      <3>1. BindFacts(d, k, t, r, o)
        BY <2>0, <2>2, BindSlots
      <3>2. slots'[c][s] = slots[c][s]
        BY <1>1, <3>1 DEF BindFacts
      <3>3. hdr' = [hdr EXCEPT ![o].slotsLeft = CountAfter(o)] /\ CountAfter(o) \in Nat
        BY <2>0, <2>2, BindCount
      <3> QED
        BY <2>0, <2>s, <2>g, <3>2, <3>3
    <2>3. ASSUME NEW d \in CNode, NEW k \in Slot, Clears(d, k) PROVE ~Usable(c, s)'
      <3>1. ClearFacts(d, k)
        BY <2>0, <2>3, ClearSlots DEF Clears
      <3> PICK o \in Obj : o = slots[d][k].obj
        BY <3>1 DEF ClearFacts
      <3> PICK n \in Nat : n = Minus1(hdr[o].slotsLeft)
        BY <2>0 DEF Minus1
      <3>2. hdr' = [hdr EXCEPT ![o].slotsLeft = n]
        BY <2>3 DEF Clears, ClearAt
      <3>3. CASE d = c /\ k = s
        BY <3>1, <3>3 DEF ClearFacts, FreeSlot, Usable, Resolves, Occupied
      <3>4. CASE d # c \/ k # s
        BY <2>0, <2>s, <2>g, <3>1, <3>2, <3>4 DEF ClearFacts
      <3> QED
        BY <3>3, <3>4
    <2>4. ASSUME NEW d \in CNode, NEW k \in Slot, NEW m \in Slot, Moves(d, k, m)
          PROVE  ~Usable(c, s)'
      <3>1. MoveFacts(d, k, m)
        BY <2>0, <2>4, MoveSlots
      <3> PICK o \in Obj : o = slots[d][k].obj
        BY <3>1 DEF MoveFacts
      <3> PICK n \in Nat : n = Minus1(hdr[o].slotsLeft + 1)
        BY <2>0 DEF Minus1
      <3>2. hdr' = [hdr EXCEPT ![o].slotsLeft = n]
        BY <2>4 DEF Moves
      <3>3. CASE d = c /\ k = s
        BY <3>1, <3>3 DEF MoveFacts, FreeSlot, Usable, Resolves, Occupied
      <3>4. CASE d # c \/ k # s
        <4>1. slots'[c][s] = slots[c][s]
          BY <1>1, <3>1, <3>4 DEF MoveFacts
        <4> QED
          BY <2>0, <2>s, <2>g, <3>2, <4>1
      <3> QED
        BY <3>3, <3>4
    <2>5. ASSUME Quiet PROVE ~Usable(c, s)'
      <3>1. slots' = slots /\ slots[c][s].obj \notin freed
        BY <1>1, <2>0, <2>5, BoundNotFreed DEF Quiet
      <3>2. CASE hdr'[slots[c][s].obj].state = "DEAD"
        BY <3>1, <3>2 DEF Usable, Resolves, CheckLive
      <3>3. CASE hdr'[slots[c][s].obj].state # "DEAD"
        BY <2>0, <2>5, <2>s, <3>1, <3>3 DEF Quiet
      <3> QED
        BY <3>2, <3>3
    <2>6. ASSUME NEW d \in CNode, NEW k \in Slot, NEW o \in Task, Voids(d, k, o)
          PROVE  ~Usable(c, s)'
      <3>1. VoidFacts(d, k, o)
        BY <2>0, <2>6, VoidSlots
      <3>2. CASE d = c /\ k = s
        BY <3>1, <3>2 DEF VoidFacts, Usable, Resolves, Occupied
      <3>3. CASE d # c \/ k # s
        BY <2>0, <2>s, <3>1, <3>3 DEF VoidFacts
      <3> QED
        BY <3>2, <3>3
    <2> QED
      BY <1>1, <2>0, <2>2, <2>3, <2>4, <2>5, <2>6, Effect
  <1>2. IInv /\ [Next]_vars =>
          [\A c \in CNode, s \in Slot : Occupied(c, s) /\ ~Usable(c, s) => ~Usable(c, s)']_vars
    BY <1>1
  <1> QED
    BY <1>2, Invariance, PTL DEF Spec, NoResurrection

\* S7: no handle ever names two bindings.
THEOREM HandleCorrect == Spec => HandleFresh
  <1>1. ASSUME IInv0, [Next]_vars, NEW c \in CNode, NEW s \in Slot
        PROVE  /\ slots'[c][s].gen >= slots[c][s].gen
               /\ Occupied(c, s) /\ slots'[c][s] # slots[c][s] =>
                    slots'[c][s].gen > slots[c][s].gen /\ ~Occupied(c, s)'
    <2>g. \A d \in CNode, k \in Slot : slots[d][k].gen \in Nat
      BY <1>1, CapAssumption DEF IInv0, TypeOK, SlotRec, CapAssumption
    <2>2. ASSUME NEW d \in CNode, NEW k \in Slot, NEW t \in {"ROOT_META", "ENDPOINT"},
                 NEW r \in SUBSET Rights, NEW o \in Obj, Binds(d, k, t, r, o)
          PROVE  /\ slots'[c][s].gen >= slots[c][s].gen
                 /\ Occupied(c, s) => slots'[c][s] = slots[c][s]
      <3>1. BindFacts(d, k, t, r, o)
        BY <1>1, <2>2, BindSlots
      <3>2. slots'[c][s] = slots[c][s] \/ (slots'[c][s].gen = slots[c][s].gen /\ ~Occupied(c, s))
        BY <3>1 DEF BindFacts
      <3> QED
        BY <2>g, <3>2
    <2>3. ASSUME NEW d \in CNode, NEW k \in Slot, Clears(d, k)
          PROVE  /\ slots'[c][s].gen >= slots[c][s].gen
                 /\ slots'[c][s] # slots[c][s] =>
                      slots'[c][s].gen > slots[c][s].gen /\ ~Occupied(c, s)'
      <3>1. ClearFacts(d, k)
        BY <1>1, <2>3, ClearSlots DEF Clears
      <3>2. slots'[c][s] = slots[c][s]
            \/ (slots'[c][s].gen = slots[c][s].gen + 1 /\ slots'[c][s].type = "INVALID")
        BY <3>1 DEF ClearFacts, FreeSlot
      <3> QED
        BY <2>g, <3>2 DEF Occupied
    <2>4. ASSUME NEW d \in CNode, NEW k \in Slot, NEW m \in Slot, Moves(d, k, m)
          PROVE  /\ slots'[c][s].gen >= slots[c][s].gen
                 /\ Occupied(c, s) /\ slots'[c][s] # slots[c][s] =>
                      slots'[c][s].gen > slots[c][s].gen /\ ~Occupied(c, s)'
      <3>1. MoveFacts(d, k, m)
        BY <1>1, <2>4, MoveSlots
      <3>2. \/ slots'[c][s] = slots[c][s]
            \/ slots'[c][s].gen = slots[c][s].gen + 1 /\ slots'[c][s].type = "INVALID"
            \/ slots'[c][s].gen = slots[c][s].gen /\ ~Occupied(c, s)
        BY <3>1 DEF MoveFacts, FreeSlot
      <3> QED
        BY <2>g, <3>2 DEF Occupied
    <2>5. ASSUME Quiet PROVE slots'[c][s] = slots[c][s]
      BY <2>5 DEF Quiet
    <2>6. ASSUME NEW d \in CNode, NEW k \in Slot, NEW o \in Task, Voids(d, k, o)
          PROVE  /\ slots'[c][s].gen >= slots[c][s].gen
                 /\ slots'[c][s] # slots[c][s] =>
                      slots'[c][s].gen > slots[c][s].gen /\ ~Occupied(c, s)'
      <3>1. VoidFacts(d, k, o)
        BY <1>1, <2>6, VoidSlots
      <3>2. slots'[c][s] = slots[c][s]
            \/ (slots'[c][s].gen = slots[c][s].gen + 1 /\ slots'[c][s].type = "INVALID")
        BY <3>1 DEF VoidFacts
      <3> QED
        BY <2>g, <3>2 DEF Occupied
    <2> QED
      BY <1>1, <2>g, <2>2, <2>3, <2>4, <2>5, <2>6, Effect
  <1>2. IInv /\ [Next]_vars =>
          [\A c \in CNode, s \in Slot :
             /\ slots'[c][s].gen >= slots[c][s].gen
             /\ Occupied(c, s) /\ slots'[c][s] # slots[c][s] =>
                  slots'[c][s].gen > slots[c][s].gen /\ ~Occupied(c, s)']_vars
    BY <1>1 DEF IInv
  <1> QED
    BY <1>2, Invariance, PTL DEF Spec, HandleFresh

\* Rights never escalate along mint, copy and move.
THEOREM EscalationCorrect == Spec => NoEscalation
  <1>1. ASSUME IInv0, [Next]_vars, NEW c \in CNode, NEW s \in Slot,
               ~Occupied(c, s), Occupied(c, s)'
        PROVE  \/ /\ edge' = edge
                  /\ slots'[c][s].rights \in InstallRights \cup {{"READ", "IDENTIFY"}, TaskRights}
               \/ \E d \in CNode, t \in Slot :
                    /\ Usable(d, t)
                    /\ slots[d][t].obj = slots'[c][s].obj
                    /\ slots'[c][s].rights \subseteq slots[d][t].rights
    <2>1. slots'[c][s] # slots[c][s]
      BY <1>1 DEF Occupied
    <2>2. ASSUME NEW d \in CNode, NEW k \in Slot, NEW t \in {"ROOT_META", "ENDPOINT"},
                 NEW r \in SUBSET Rights, NEW o \in Obj, Binds(d, k, t, r, o)
          PROVE  Sourced(d, k, r, o) /\ slots'[c][s].rights = r /\ slots'[c][s].obj = o
      <3>1. BindFacts(d, k, t, r, o) /\ Sourced(d, k, r, o)
        BY <1>1, <2>2, BindSlots DEF Binds
      <3> QED
        BY <2>1, <3>1 DEF BindFacts
    <2>3. ASSUME NEW d \in CNode, NEW k \in Slot, Clears(d, k) PROVE FALSE
      <3>1. ClearFacts(d, k)
        BY <1>1, <2>3, ClearSlots DEF Clears
      <3> QED
        BY <1>1, <2>1, <3>1 DEF ClearFacts, FreeSlot, Occupied
    <2>4. ASSUME NEW d \in CNode, NEW k \in Slot, NEW m \in Slot, Moves(d, k, m)
          PROVE  /\ Usable(d, k) /\ slots[d][k].obj = slots'[c][s].obj
                 /\ slots'[c][s].rights = slots[d][k].rights
      <3>1. MoveFacts(d, k, m) /\ Usable(d, k)
        BY <1>1, <2>4, MoveSlots DEF Moves
      <3> QED
        BY <1>1, <2>1, <3>1 DEF MoveFacts, FreeSlot, Occupied
    <2>5. ASSUME Quiet PROVE FALSE
      BY <2>1, <2>5 DEF Quiet
    <2> DEFINE Goal ==
          \/ /\ edge' = edge
             /\ slots'[c][s].rights \in InstallRights \cup {{"READ", "IDENTIFY"}, TaskRights}
          \/ \E d \in CNode, t \in Slot :
               /\ Usable(d, t)
               /\ slots[d][t].obj = slots'[c][s].obj
               /\ slots'[c][s].rights \subseteq slots[d][t].rights
    <2>6. ASSUME NEW d \in CNode, NEW k \in Slot, NEW t \in {"ROOT_META", "ENDPOINT"},
                 NEW r \in SUBSET Rights, NEW o \in Obj, Binds(d, k, t, r, o)
          PROVE  Goal
      <3>1. Sourced(d, k, r, o) /\ slots'[c][s].rights = r /\ slots'[c][s].obj = o
        BY <2>2, <2>6
      <3> QED
        BY <3>1 DEF Sourced
    <2>7. ASSUME NEW d \in CNode, NEW k \in Slot, NEW m \in Slot, Moves(d, k, m)
          PROVE  Goal
      BY <2>4, <2>7
    <2>9. ASSUME NEW d \in CNode, NEW k \in Slot, NEW o \in Task, Voids(d, k, o) PROVE FALSE
      <3>1. VoidFacts(d, k, o)
        BY <1>1, <2>9, VoidSlots
      <3> QED
        BY <1>1, <2>1, <3>1 DEF VoidFacts, Occupied
    <2> HIDE DEF Goal
    <2>8. Goal
      BY <1>1, <2>3, <2>5, <2>6, <2>7, <2>9, Effect
    <2> QED
      BY <2>8 DEF Goal
  <1>2. IInv /\ [Next]_vars =>
          [\A c \in CNode, s \in Slot :
             ~Occupied(c, s) /\ Occupied(c, s)' =>
               \/ /\ edge' = edge
                  /\ slots'[c][s].rights \in InstallRights \cup {{"READ", "IDENTIFY"}, TaskRights}
               \/ \E d \in CNode, t \in Slot :
                    /\ Usable(d, t)
                    /\ slots[d][t].obj = slots'[c][s].obj
                    /\ slots'[c][s].rights \subseteq slots[d][t].rights]_vars
    BY <1>1 DEF IInv
  <1> QED
    BY <1>2, Invariance, PTL DEF Spec, NoEscalation

\* K2, K3: root meta never leaves slot 0 of its own CNode.
LEMMA RootStep == ASSUME IInv0, RootMetaConfined, [Next]_vars PROVE RootMetaConfined'
  <1>m. NoObj \notin MetaObj
    BY CapAssumption DEF MetaObj, CapAssumption
  <1>u. \A d \in CNode, k \in Slot : slots[d][k].obj \in MetaObj =>
          "MINT" \notin slots[d][k].rights /\ "GRANT" \notin slots[d][k].rights
    BY DEF RootMetaConfined
  <1>2. ASSUME NEW c \in CNode, NEW s \in Slot, NEW t \in {"ROOT_META", "ENDPOINT"},
               NEW r \in SUBSET Rights, NEW o \in Obj, Binds(c, s, t, r, o)
        PROVE  RootMetaConfined'
    <2>1. BindFacts(c, s, t, r, o) /\ Sourced(c, s, r, o)
      BY <1>2, BindSlots DEF Binds
    <2>2. o \in MetaObj => o = MetaOf[c] /\ s = 0 /\ r = {"READ", "IDENTIFY"} /\ edge' = edge
      <3>1. o \in Task => o \notin MetaObj
        BY CapAssumption DEF CapAssumption
      <3> QED
        BY <2>1, <3>1, <1>u DEF Sourced
    <2>3. \A d \in CNode, k \in Slot : slots'[d][k].obj \in MetaObj =>
            k = 0 /\ slots'[d][k].obj = MetaOf[d] /\ slots'[d][k].rights = {"READ", "IDENTIFY"}
      BY <2>1, <2>2 DEF BindFacts, RootMetaConfined
    <2>4. edge \in [Pool -> EdgeRec]
      BY DEF IInv0, TypeOK
    <2>5. edge' = edge \/ \E e \in Pool : edge' = [edge EXCEPT ![e] = Edge(o, c, s)] /\ o \notin MetaObj
      <3>1. edge' \in {edge, Wired(edge, o, c, s)}
        BY <1>2 DEF Binds
      <3> QED
        BY <2>2, <2>4, <3>1, WiredCases
    <2>6. \A e \in Pool : edge'[e].obj \notin MetaObj
      BY <2>4, <2>5 DEF RootMetaConfined, Edge
    <2> QED
      BY <2>3, <2>6 DEF RootMetaConfined, MetaObj
  <1>3. ASSUME NEW c \in CNode, NEW s \in Slot, Clears(c, s) PROVE RootMetaConfined'
    <2>1. ClearFacts(c, s)
      BY <1>3, ClearSlots DEF Clears
    <2>2. \A d \in CNode, k \in Slot : slots'[d][k] = slots[d][k] \/ slots'[d][k].obj = NoObj
      BY <2>1 DEF ClearFacts, FreeSlot
    <2>3. \A e \in Pool : edge'[e] = edge[e] \/ edge'[e].obj = NoObj
      BY <1>3 DEF Clears, Unlinked, FreeEdge
    <2> QED
      BY <1>m, <2>2, <2>3 DEF RootMetaConfined, MetaObj
  <1>4. ASSUME NEW c \in CNode, NEW s \in Slot, NEW d \in Slot, Moves(c, s, d)
        PROVE  RootMetaConfined'
    <2>1. MoveFacts(c, s, d) /\ "GRANT" \in slots[c][s].rights
      BY <1>4, MoveSlots DEF Moves
    <2> PICK o \in Obj : o = slots[c][s].obj
      BY <2>1 DEF MoveFacts
    <2>2. o \notin MetaObj /\ slots'[c][d].obj = o
      BY <1>u, <2>1 DEF MoveFacts
    <2>3. \A e \in CNode, k \in Slot : slots'[e][k] = slots[e][k] \/ slots'[e][k].obj \in {NoObj, o}
      BY <2>1, <2>2 DEF MoveFacts, FreeSlot
    <2> DEFINE ed == Unlinked(edge, o, c, s)
    <2>4. ed \in [Pool -> EdgeRec]
      BY <2>1, UnlinkedSound DEF MoveFacts
    <2>5. \A e \in Pool : ed[e] = edge[e] \/ ed[e].obj = NoObj
      BY DEF Unlinked, FreeEdge
    <2>6. edge' = Wired(ed, o, c, d)
      BY <1>4 DEF Moves
    <2> HIDE DEF ed
    <2>7. \A e \in Pool : edge'[e] = ed[e] \/ edge'[e].obj = o
      BY <2>4, <2>6, WiredCases DEF Edge
    <2> QED
      BY <1>m, <2>2, <2>3, <2>5, <2>7 DEF RootMetaConfined, MetaObj
  <1>5. ASSUME Quiet PROVE RootMetaConfined'
    BY <1>5 DEF Quiet, RootMetaConfined, MetaObj
  <1>6. ASSUME NEW c \in CNode, NEW s \in Slot, NEW o \in Task, Voids(c, s, o)
        PROVE  RootMetaConfined'
    <2>1. VoidFacts(c, s, o) /\ edge' = edge
      BY <1>6, VoidSlots DEF Voids
    <2>2. \A d \in CNode, k \in Slot : slots'[d][k] = slots[d][k] \/ slots'[d][k].obj = NoObj
      BY <2>1 DEF VoidFacts
    <2> QED
      BY <1>m, <2>1, <2>2 DEF RootMetaConfined, MetaObj
  <1> QED
    BY <1>2, <1>3, <1>4, <1>5, <1>6, Effect

\* K2, K3: the root meta capability of a process never leaves slot 0 of its own
\* CNode and never gains rights.
THEOREM RootMetaCorrect == Spec => []RootMetaConfined
  <1>1. Init => RootMetaConfined
    BY CapAssumption DEF Init, RootMetaConfined, EmptySlot, FreeSlot, FreeEdge, MetaObj, CapAssumption
  <1>2. IInv /\ RootMetaConfined /\ [Next]_vars => RootMetaConfined'
    BY RootStep DEF IInv
  <1> QED
    BY <1>1, <1>2, Invariance, PTL DEF Spec

----------------------------------------------------------------------------
(* The slot quota *)

\* Every occupied slot was charged to the account its CNode has now, or both the accounts
\* that were charged and the ones that will be refunded are known to be out.
Paid ==
  \A c \in CNode, s \in Slot : Occupied(c, s) =>
    \/ slots[c][s].payer = acct[c]
    \/ PayChain(slots[c][s].payer) \cup PayChain(acct[c]) \subseteq skewed

\* The slots charged to an account are finitely many, before and after a step.
LEMMA PayingFinite == \A a \in Account : IsFiniteSet(Paying(a)) /\ IsFiniteSet(Paying(a)')
  BY SlotsFinite, FS_Subset DEF Paying

\* A step that leaves the accounts attached keeps Paid when each slot is as it was, free, or
\* charged to the account of its CNode.
LEMMA PaidKept ==
  ASSUME Paid, acct' = acct, skewed \subseteq skewed',
         \A c \in CNode, s \in Slot : \/ slots'[c][s] = slots[c][s]
                                      \/ slots'[c][s].type = "INVALID"
                                      \/ slots'[c][s].payer = acct[c]
  PROVE  Paid'
  BY DEF Paid, Occupied, PayChain

\* Bindings and accounts change together; an attach that separates them is recorded.
LEMMA PaidStep == ASSUME IInv0, Paid, [Next]_vars PROVE Paid'
  <1>2. ASSUME NEW c \in CNode, NEW s \in Slot, NEW t \in {"ROOT_META", "ENDPOINT"},
               NEW r \in SUBSET Rights, NEW o \in Obj, Binds(c, s, t, r, o)
        PROVE  Paid'
    <2>1. BindFacts(c, s, t, r, o) /\ acct' = acct /\ skewed' = skewed
      BY <1>2, BindSlots DEF Binds
    <2>2. \A d \in CNode, k \in Slot : slots'[d][k] = slots[d][k] \/ slots'[d][k].payer = acct[d]
      BY <2>1 DEF BindFacts
    <2> QED
      BY <2>1, <2>2, PaidKept
  <1>3. ASSUME NEW c \in CNode, NEW s \in Slot, Clears(c, s) PROVE Paid'
    <2>1. ClearFacts(c, s) /\ acct' = acct /\ skewed' = skewed
      BY <1>3, ClearSlots DEF Clears, SpawnVars
    <2>2. \A d \in CNode, k \in Slot : slots'[d][k] = slots[d][k] \/ slots'[d][k].type = "INVALID"
      BY <2>1 DEF ClearFacts, FreeSlot
    <2> QED
      BY <2>1, <2>2, PaidKept
  <1>4. ASSUME NEW c \in CNode, NEW s \in Slot, NEW d \in Slot, Moves(c, s, d) PROVE Paid'
    <2>1. MoveFacts(c, s, d) /\ acct' = acct /\ skewed' = skewed
      BY <1>4, MoveSlots DEF Moves, SpawnVars
    <2>2. \A e \in CNode, k \in Slot : \/ slots'[e][k] = slots[e][k]
                                       \/ slots'[e][k].type = "INVALID"
                                       \/ slots'[e][k].payer = acct[e]
      BY <2>1 DEF MoveFacts, FreeSlot
    <2> QED
      BY <2>1, <2>2, PaidKept
  <1>5. ASSUME Quiet PROVE Paid'
    <2>1. slots' = slots /\ skewed \subseteq skewed'
          /\ \A c \in CNode : acct'[c] = acct[c] \/ Rebased(c)
      BY <1>5 DEF Quiet
    <2> SUFFICES ASSUME NEW c \in CNode, NEW s \in Slot, Occupied(c, s)
                 PROVE  \/ slots[c][s].payer = acct'[c]
                        \/ PayChain(slots[c][s].payer) \cup PayChain(acct'[c]) \subseteq skewed'
      BY <2>1 DEF Paid, Occupied, PayChain
    <2>2. CASE acct'[c] = acct[c]
      BY <2>1, <2>2 DEF Paid
    <2>3. CASE Rebased(c)
      BY <2>3 DEF Rebased
    <2> QED
      BY <2>1, <2>2, <2>3
  <1>6. ASSUME NEW c \in CNode, NEW s \in Slot, NEW o \in Task, Voids(c, s, o) PROVE Paid'
    <2>1. VoidFacts(c, s, o) /\ acct' = acct /\ skewed \subseteq skewed'
      BY <1>6, VoidSlots DEF Voids
    <2>2. \A d \in CNode, k \in Slot : slots'[d][k] = slots[d][k] \/ slots'[d][k].type = "INVALID"
      BY <2>1 DEF VoidFacts
    <2> QED
      BY <2>1, <2>2, PaidKept
  <1> QED
    BY <1>2, <1>3, <1>4, <1>5, <1>6, Effect

\* Membership in Paying(a) depends on the payers only.
LEMMA PayingSame ==
  ASSUME NEW a \in Account,
         \A d \in CNode, k \in Slot :
            a \in PayChain(slots'[d][k].payer) <=> a \in PayChain(slots[d][k].payer)
  PROVE  Paying(a)' = Paying(a)
  BY DEF Paying, PayChain

\* One slot starts to be charged to a.
LEMMA PayingMore ==
  ASSUME NEW a \in Account, NEW c \in CNode, NEW s \in Slot,
         \A d \in CNode, k \in Slot : d # c \/ k # s =>
            (a \in PayChain(slots'[d][k].payer) <=> a \in PayChain(slots[d][k].payer)),
         a \in PayChain(slots'[c][s].payer), a \notin PayChain(slots[c][s].payer)
  PROVE  Cardinality(Paying(a)') = Cardinality(Paying(a)) + 1
  <1>1. Paying(a)' = Paying(a) \cup {<<c, s>>} /\ <<c, s>> \notin Paying(a)
    BY DEF Paying, PayChain
  <1> QED
    BY <1>1, PayingFinite, FS_AddElement

\* One slot stops being charged to a.
LEMMA PayingLess ==
  ASSUME NEW a \in Account, NEW c \in CNode, NEW s \in Slot,
         \A d \in CNode, k \in Slot : d # c \/ k # s =>
            (a \in PayChain(slots'[d][k].payer) <=> a \in PayChain(slots[d][k].payer)),
         a \notin PayChain(slots'[c][s].payer), a \in PayChain(slots[c][s].payer)
  PROVE  /\ Cardinality(Paying(a)') = Cardinality(Paying(a)) - 1
         /\ Cardinality(Paying(a)) # 0
  <1>1. Paying(a)' = Paying(a) \ {<<c, s>>} /\ <<c, s>> \in Paying(a)
    BY DEF Paying, PayChain
  <1>2. Cardinality(Paying(a)') = Cardinality(Paying(a)) - 1
    BY <1>1, PayingFinite, FS_RemoveElement
  <1>3. Cardinality(Paying(a)) # 0
    BY <1>1, PayingFinite, FS_EmptySet
  <1> QED
    BY <1>2, <1>3

\* The charge of one slot moves to another.
LEMMA PayingMoved ==
  ASSUME NEW a \in Account, NEW c \in CNode, NEW s \in Slot, NEW d \in Slot, d # s,
         \A e \in CNode, k \in Slot : e # c \/ k \notin {s, d} =>
            (a \in PayChain(slots'[e][k].payer) <=> a \in PayChain(slots[e][k].payer)),
         a \notin PayChain(slots'[c][s].payer), a \in PayChain(slots[c][s].payer),
         a \in PayChain(slots'[c][d].payer), a \notin PayChain(slots[c][d].payer)
  PROVE  Cardinality(Paying(a)') = Cardinality(Paying(a))
  <1> DEFINE S == Paying(a) \ {<<c, s>>}
  <1>1. <<c, s>> \in Paying(a) /\ Paying(a)' = S \cup {<<c, d>>} /\ <<c, d>> \notin S
    BY DEF Paying, PayChain
  <1>2. IsFiniteSet(S) /\ Cardinality(S) = Cardinality(Paying(a)) - 1
    BY <1>1, PayingFinite, FS_RemoveElement
  <1>3. Cardinality(Paying(a)') = Cardinality(S) + 1
    BY <1>1, <1>2, FS_AddElement, ZenonT(30)
  <1>4. Cardinality(Paying(a)) \in Nat
    BY PayingFinite, FS_CardinalityType
  <1> QED
    BY <1>2, <1>3, <1>4

\* S6: every charge and every refund moves the account with the slots charged to it, and
\* an install that would pass the limit of the account or of an ancestor is refused.
LEMMA QuotaStep == ASSUME IInv0, Paid, QuotaExact, [Next]_vars PROVE QuotaExact'
  <1>u. used \in [Account -> Nat] /\ Limit \in [Account -> Nat] /\ NoAccount \notin Account
    BY CapAssumption DEF IInv0, TypeOK, CapAssumption
  <1>n. \A a \in Account : a \notin PayChain(NoAccount)
    BY DEF PayChain
  <1>c. \A a \in Account : /\ a \notin skewed => used[a] = Cardinality(Paying(a))
                           /\ used[a] <= Limit[a] /\ used[a] \in Nat /\ Limit[a] \in Nat
    <2>1. \A a \in Account : used[a] \in Nat /\ Limit[a] \in Nat
      BY <1>u
    <2>2. \A a \in Account : /\ a \notin skewed => used[a] = Cardinality(Paying(a))
                             /\ used[a] <= Limit[a]
      BY Zenon DEF QuotaExact
    <2> QED
      BY <2>1, <2>2
  <1> DEFINE Ok(a) == /\ a \notin skewed' => used'[a] = Cardinality(Paying(a)')
                      /\ used'[a] <= Limit[a]
  <1>2. ASSUME NEW c \in CNode, NEW s \in Slot, NEW t \in {"ROOT_META", "ENDPOINT"},
               NEW r \in SUBSET Rights, NEW o \in Obj, Binds(c, s, t, r, o), NEW a \in Account
        PROVE  Ok(a)
    <2>1. BindFacts(c, s, t, r, o)
      BY <1>2, BindSlots
    <2>2. /\ \A d \in CNode, k \in Slot : d # c \/ k # s => slots'[d][k].payer = slots[d][k].payer
          /\ slots'[c][s].payer = acct[c] /\ slots[c][s].payer = NoAccount
      BY <2>1 DEF BindFacts
    <2>3. used' = Charged(used, c) /\ CanCharge(c) /\ skewed' = skewed
      BY <1>2 DEF Binds
    <2>4. CASE a \in ChainOf(c)
      <3>1. a \in PayChain(slots'[c][s].payer) /\ a \notin PayChain(slots[c][s].payer)
        BY <1>n, <2>2, <2>4 DEF ChainOf
      <3>2. Cardinality(Paying(a)') = Cardinality(Paying(a)) + 1
        BY <2>2, <3>1, PayingMore
      <3>3. used'[a] = used[a] + 1 /\ used[a] < Limit[a]
        BY <2>3, <2>4 DEF Charged, CanCharge
      <3> QED
        BY <1>c, <2>3, <3>2, <3>3
    <2>5. CASE a \notin ChainOf(c)
      <3>1. a \notin PayChain(slots'[c][s].payer) /\ a \notin PayChain(slots[c][s].payer)
        BY <1>n, <2>2, <2>5 DEF ChainOf
      <3>2. Paying(a)' = Paying(a)
        BY <2>2, <3>1, PayingSame
      <3>3. used'[a] = used[a]
        BY <2>3, <2>5 DEF Charged
      <3> QED
        BY <1>c, <2>3, <3>2, <3>3
    <2> QED
      BY <2>4, <2>5
  <1>3. ASSUME NEW c \in CNode, NEW s \in Slot, Clears(c, s), NEW a \in Account PROVE Ok(a)
    <2>1. ClearFacts(c, s) /\ Occupied(c, s) /\ skewed' = skewed
      BY <1>3, ClearSlots DEF Clears, SpawnVars
    <2>2. /\ \A d \in CNode, k \in Slot : d # c \/ k # s => slots'[d][k].payer = slots[d][k].payer
          /\ slots'[c][s].payer = NoAccount
      BY <2>1 DEF ClearFacts, FreeSlot
    <2>3. used' = Refunded(used, c)
      BY <1>3 DEF Clears, ClearAt
    <2>4. used'[a] <= Limit[a]
      BY <1>c, <2>3 DEF Refunded, Minus1
    <2>5. ASSUME a \notin skewed, a \in ChainOf(c) PROVE used'[a] = Cardinality(Paying(a)')
      <3>1. a \in PayChain(slots[c][s].payer) /\ a \notin PayChain(slots'[c][s].payer)
        BY <1>n, <2>1, <2>2, <2>5 DEF ChainOf, Paid
      <3>2. Cardinality(Paying(a)') = Cardinality(Paying(a)) - 1 /\ Cardinality(Paying(a)) # 0
        BY <2>2, <3>1, PayingLess
      <3>3. used'[a] = Minus1(used[a])
        BY <2>3, <2>5 DEF Refunded
      <3> QED
        BY <1>c, <2>5, <3>2, <3>3 DEF Minus1
    <2>6. ASSUME a \notin skewed, a \notin ChainOf(c) PROVE used'[a] = Cardinality(Paying(a)')
      <3>1. a \notin PayChain(slots[c][s].payer) /\ a \notin PayChain(slots'[c][s].payer)
        BY <1>n, <2>1, <2>2, <2>6 DEF ChainOf, Paid
      <3>2. Paying(a)' = Paying(a)
        BY <2>2, <3>1, PayingSame
      <3>3. used'[a] = used[a]
        BY <2>3, <2>6 DEF Refunded
      <3> QED
        BY <1>c, <2>6, <3>2, <3>3
    <2> QED
      BY <2>1, <2>4, <2>5, <2>6
  <1>4. ASSUME NEW c \in CNode, NEW s \in Slot, NEW d \in Slot, Moves(c, s, d), NEW a \in Account
        PROVE  Ok(a)
    <2>1. MoveFacts(c, s, d) /\ Occupied(c, s) /\ skewed' = skewed
      BY <1>4, MoveSlots DEF Moves, SpawnVars
    <2>2. /\ \A e \in CNode, k \in Slot : e # c \/ k \notin {s, d} => slots'[e][k].payer = slots[e][k].payer
          /\ slots'[c][s].payer = NoAccount /\ slots'[c][d].payer = acct[c]
          /\ slots[c][d].payer = NoAccount /\ d # s
      BY <2>1 DEF MoveFacts, FreeSlot
    <2>3. used'[a] = used[a]
      <3>1. used' = Refunded(Charged(used, c), c)
        BY <1>4 DEF Moves
      <3> QED
        BY <1>c, <3>1 DEF Refunded, Charged, Minus1
    <2>4. ASSUME a \notin skewed, a \in ChainOf(c) PROVE Cardinality(Paying(a)') = Cardinality(Paying(a))
      <3>1. /\ a \in PayChain(slots[c][s].payer) /\ a \notin PayChain(slots'[c][s].payer)
            /\ a \in PayChain(slots'[c][d].payer) /\ a \notin PayChain(slots[c][d].payer)
        BY <1>n, <2>1, <2>2, <2>4 DEF ChainOf, Paid
      <3> QED
        BY <2>2, <3>1, PayingMoved
    <2>5. ASSUME a \notin skewed, a \notin ChainOf(c) PROVE Paying(a)' = Paying(a)
      <3>1. /\ a \notin PayChain(slots[c][s].payer) /\ a \notin PayChain(slots'[c][s].payer)
            /\ a \notin PayChain(slots'[c][d].payer) /\ a \notin PayChain(slots[c][d].payer)
        BY <1>n, <2>1, <2>2, <2>5 DEF ChainOf, Paid
      <3> QED
        BY <2>2, <3>1, PayingSame
    <2> QED
      BY <1>c, <2>1, <2>3, <2>4, <2>5
  <1>5. ASSUME Quiet, NEW a \in Account PROVE Ok(a)
    <2>1. slots' = slots /\ used' = used /\ skewed \subseteq skewed'
      BY <1>5 DEF Quiet
    <2>2. Paying(a)' = Paying(a)
      BY <2>1, PayingSame
    <2> QED
      BY <1>c, <2>1, <2>2
  <1>6. ASSUME NEW c \in CNode, NEW s \in Slot, NEW o \in Task, Voids(c, s, o), NEW a \in Account
        PROVE  Ok(a)
    <2>1. /\ VoidFacts(c, s, o) /\ skewed \subseteq skewed'
          /\ PayChain(slots[c][s].payer) \subseteq skewed'
          /\ \/ used'[a] = used[a]
             \/ a \in skewed' /\ used'[a] = used[a] + 1 /\ used[a] < Limit[a]
      BY <1>6, VoidSlots DEF Voids
    <2>2. /\ \A d \in CNode, k \in Slot : d # c \/ k # s => slots'[d][k].payer = slots[d][k].payer
          /\ slots'[c][s].payer = NoAccount
      BY <2>1 DEF VoidFacts
    <2>3. used'[a] <= Limit[a]
      BY <1>c, <2>1
    <2>4. ASSUME a \notin skewed' PROVE used'[a] = Cardinality(Paying(a)')
      <3>1. a \notin skewed /\ used'[a] = used[a]
        BY <2>1, <2>4
      <3>2. a \notin PayChain(slots[c][s].payer) /\ a \notin PayChain(slots'[c][s].payer)
        BY <1>n, <2>1, <2>2, <2>4
      <3>3. Paying(a)' = Paying(a)
        BY <2>2, <3>2, PayingSame
      <3> QED
        BY <1>c, <3>1, <3>3
    <2> QED
      BY <2>3, <2>4
  <1> HIDE DEF Ok
  <1>7. \A a \in Account : Ok(a)
    BY <1>2, <1>3, <1>4, <1>5, <1>6, Effect
  <1> QED
    BY <1>7 DEF Ok, QuotaExact

\* S6: u32Used of every account is the number of slots charged to it and its descendants,
\* through mints, copies, moves, deletes, revoke walks and process death, until an attach to
\* an occupied table or a bare clear of process_spawn or process_wait involves the account;
\* and no account ever passes its limit.
THEOREM QuotaCorrect == Spec => []QuotaExact
  <1>1. Init => Paid /\ QuotaExact
    <2> SUFFICES ASSUME Init PROVE Paid /\ QuotaExact
      OBVIOUS
    <2>1. \A a \in Account : Paying(a) = {} /\ used[a] = 0 /\ Limit[a] \in Nat
      BY CapAssumption DEF Init, Paying, PayChain, EmptySlot, FreeSlot, CapAssumption
    <2>2. QuotaExact
      BY <2>1, FS_EmptySet DEF QuotaExact
    <2> QED
      BY <2>2 DEF Paid, Init, Occupied, EmptySlot, FreeSlot
  <1>2. IInv /\ (Paid /\ QuotaExact) /\ [Next]_vars => (Paid /\ QuotaExact)'
    BY PaidStep, QuotaStep DEF IInv
  <1> QED
    BY <1>1, <1>2, Invariance, PTL DEF Spec

----------------------------------------------------------------------------
(* The deferred queue *)

\* The queue holds an object once, and never a root meta.
QueueSound ==
  /\ \A i, j \in QIdx : q[i] # NoObj /\ q[i] = q[j] => i = j
  /\ \A i \in QIdx : q[i] \notin MetaObj

\* Only revoke, reclaim and the deferred pass write the queue.
LEMMA QueueEffect ==
  ASSUME [Next]_vars
  PROVE  q' = q \/ TickNext \/ \E o \in Obj : RevokeBegin(o) \/ Reclaim(o)
  <1>1. CASE \/ \E c \in CNode : Bootstrap(c)
             \/ \E c \in CNode, s \in Slot, r \in InstallRights, o \in Obj : Install(c, s, r, o)
    BY <1>1 DEF Bootstrap, Install, RevokeVars
  <1>2. CASE \E c \in CNode, h \in Handle, w \in WantRights, dc \in CNode, d \in Slot :
               Mint(c, h[1], h[2], w, dc, d)
    BY <1>2 DEF Mint, RevokeVars
  <1>3. CASE \E c \in CNode, h \in Handle, w \in WantRights, d \in Slot : Copy(c, h[1], h[2], w, d)
    BY <1>3 DEF Copy, RevokeVars
  <1>4. CASE \E c \in CNode, h \in Handle, d \in Slot : Move(c, h[1], h[2], d)
    BY <1>4, ZenonT(30) DEF Move, RevokeVars
  <1>5. CASE \/ \E c \in CNode, h \in Handle : Delete(c, h[1], h[2])
             \/ \E c \in CNode, a \in Account : Attach(c, a)
             \/ \E o \in Obj : HoldRef(o) \/ DropRef(o) \/ Reinit(o)
             \/ \E o \in Obj, e \in Pool : DeathWalk(o, e)
    BY <1>5 DEF Delete, Attach, HoldRef, DropRef, Reinit, DeathWalk, RevokeVars
  <1>6. CASE \/ TickBegin \/ (\E e \in Pool : TickWalk(e)) \/ TickEnd
             \/ \E c \in CNode, o \in (Obj \ MetaObj) \cup {NoObj} : SweepBegin(c, o)
             \/ (\E s \in Slot : SweepStep(s)) \/ SweepEnd
             \/ UNCHANGED vars
    BY <1>6 DEF TickBegin, TickWalk, TickEnd, SweepBegin, SweepStep, SweepEnd, vars
  <1>7. CASE \/ \E c \in CNode, s \in Slot, o \in Task : Spawn(c, s, o) \/ SpawnFail(c, s, o)
             \/ \E o \in Task : TaskExit(o)
             \/ \E c \in CNode, h \in Handle : Wait(c, h[1], h[2])
    BY <1>7 DEF Spawn, SpawnFail, TaskExit, Wait, RevokeVars
  <1> QED
    BY <1>1, <1>2, <1>3, <1>4, <1>5, <1>6, <1>7 DEF Next

\* The natural numbers are well ordered: revoke_q_push finds a first free entry.
LEMMA LeastNat ==
  ASSUME NEW S \in SUBSET Nat, S # {}
  PROVE  \E n \in S : \A m \in S : n <= m
  <1> DEFINE L == OpToRel(<, Nat)
  <1>1. PICK n \in S : \A m \in S : <<m, n>> \notin L
    <2> HIDE DEF L
    <2>1. IsWellFoundedOn(L, Nat)
      BY NatLessThanWellFounded DEF L
    <2> QED
      BY <2>1, WFMin, Zenon
  <1>2. ASSUME NEW m \in S PROVE n <= m
    <2>1. ~(m < n)
      BY <1>1 DEF OpToRel
    <2> QED
      BY <2>1
  <1> QED
    BY <1>2

\* revoke_q_push fills one free entry, and only for an object that has none.
LEMMA PushedCases ==
  ASSUME NEW o, q \in [QIdx -> Obj \cup {NoObj}]
  PROVE  \/ Pushed(o) = q /\ (Queued(o) \/ \A i \in QIdx : q[i] # NoObj)
         \/ ~Queued(o) /\ \E k \in QIdx : q[k] = NoObj /\ Pushed(o) = [q EXCEPT ![k] = o]
  <1>1. CASE ~Queued(o) /\ \E i \in QIdx : q[i] = NoObj
    <2> DEFINE k == CHOOSE i \in QIdx : FreeIdx(i)
    <2>1. Pushed(o) = [q EXCEPT ![k] = o]
      BY <1>1, Zenon DEF Pushed
    <2>2. \E i \in QIdx : FreeIdx(i)
      <3> DEFINE N == {i \in QIdx : q[i] = NoObj}
      <3>1. N # {} /\ N \subseteq Nat
        BY <1>1, CapAssumption DEF QIdx, CapAssumption
      <3>2. PICK n \in N : \A m \in N : n <= m
        BY <3>1, LeastNat
      <3>3. n \in QIdx /\ q[n] = NoObj /\ \A j \in 1 .. (n - 1) : q[j] # NoObj
        BY <3>2, CapAssumption DEF QIdx, CapAssumption
      <3> QED
        BY <3>3 DEF FreeIdx
    <2>3. k \in QIdx /\ q[k] = NoObj
      BY <2>2, Zenon DEF FreeIdx
    <2> HIDE DEF k
    <2> QED
      BY <1>1, <2>1, <2>3
  <1>2. CASE ~(~Queued(o) /\ \E i \in QIdx : q[i] = NoObj)
    <2>1. Pushed(o) = q
      BY <1>2, Zenon DEF Pushed
    <2> QED
      BY <1>2, <2>1
  <1> QED
    BY <1>1, <1>2

\* Pushing, dropping and reclaiming keep the entries distinct.
LEMMA QueueSoundStep == ASSUME IInv0, QueueSound, [Next]_vars PROVE QueueSound'
  <1>1. q \in [QIdx -> Obj \cup {NoObj}] /\ NoObj \notin MetaObj /\ NoObj \notin Obj
    BY CapAssumption DEF IInv0, TypeOK, MetaObj, CapAssumption
  <1>m. MetaObj' = MetaObj /\ QIdx' = QIdx
    BY DEF MetaObj, QIdx
  <1>2. ASSUME \A i \in QIdx : q'[i] = q[i] \/ q'[i] = NoObj PROVE QueueSound'
    BY <1>1, <1>m, <1>2 DEF QueueSound
  <1>3. ASSUME TickNext PROVE QueueSound'
    <2>1. q' = q \/ q' = [q EXCEPT ![Entry] = NoObj]
      BY <1>3 DEF TickNext
    <2> QED
      BY <1>1, <1>2, <2>1
  <1>4. ASSUME NEW o \in Obj, Reclaim(o) PROVE QueueSound'
    <2>1. q' = [i \in QIdx |-> IF q[i] = o THEN NoObj ELSE q[i]]
      BY <1>4 DEF Reclaim
    <2> QED
      BY <1>2, <2>1
  <1>5. ASSUME NEW o \in Obj, RevokeBegin(o) PROVE QueueSound'
    <2>1. q' = Pushed(o) /\ o \notin MetaObj
      BY <1>5 DEF RevokeBegin
    <2>2. CASE q' = q
      BY <1>2, <2>2
    <2>3. CASE ~Queued(o) /\ \E k \in QIdx : q[k] = NoObj /\ q' = [q EXCEPT ![k] = o]
      BY <1>1, <1>m, <2>1, <2>3 DEF QueueSound, Queued
    <2> QED
      BY <1>1, <2>1, <2>2, <2>3, PushedCases
  <1> QED
    BY <1>2, <1>3, <1>4, <1>5, QueueEffect

\* A queue with an entry for every object that can be revoked always has one free for an
\* object that is not on it.
LEMMA QueueRoom ==
  ASSUME Cardinality(Obj \ MetaObj) <= QMax, IInv0, QueueSound,
         NEW o \in Obj \ MetaObj, ~Queued(o)
  PROVE  \E i \in QIdx : q[i] = NoObj
  <1> SUFFICES ASSUME \A i \in QIdx : q[i] # NoObj PROVE FALSE
    OBVIOUS
  <1> DEFINE T == (Obj \ MetaObj) \ {o}
  <1>1. q \in [QIdx -> T]
    BY DEF IInv0, TypeOK, QueueSound, Queued
  <1>2. QMax \in Nat /\ IsFiniteSet(Obj \ MetaObj)
    BY CapAssumption, FS_Subset DEF CapAssumption
  <1>3. IsFiniteSet(QIdx) /\ Cardinality(QIdx) = QMax
    BY <1>2, FS_Interval DEF QIdx
  <1>4. IsFiniteSet(T) /\ Cardinality(T) = Cardinality(Obj \ MetaObj) - 1
    BY <1>2, FS_RemoveElement
  <1>5. Cardinality(Obj \ MetaObj) \in Nat
    BY <1>2, FS_CardinalityType
  <1>6. Cardinality(T) < Cardinality(QIdx)
    BY <1>2, <1>3, <1>4, <1>5
  <1> HIDE DEF T
  <1>7. \E i, j \in QIdx : i # j /\ q[i] = q[j]
    BY <1>1, <1>3, <1>4, <1>6, FS_PigeonHole
  <1> QED
    BY <1>7 DEF QueueSound

\* Nothing derives from a DEAD object: no step gives it an edge.
LEMMA DeadEdges ==
  ASSUME IInv0, [Next]_vars, NEW p \in Obj, hdr[p].state = "DEAD"
  PROVE  EdgesOf(p)' \subseteq EdgesOf(p)
  <1>1. edge \in [Pool -> EdgeRec] /\ NoObj \notin Obj
    BY CapAssumption DEF IInv0, TypeOK, CapAssumption
  <1>2. ASSUME NEW c \in CNode, NEW s \in Slot, NEW t \in {"ROOT_META", "ENDPOINT"},
               NEW r \in SUBSET Rights, NEW o \in Obj, Binds(c, s, t, r, o)
        PROVE  \A e \in Pool : edge'[e].obj = p => edge[e].obj = p
    <2>1. p # o /\ edge' \in {edge, Wired(edge, o, c, s)}
      BY <1>2 DEF Binds
    <2> QED
      BY <1>1, <2>1, WiredCases DEF Edge
  <1>3. ASSUME NEW c \in CNode, NEW s \in Slot, Clears(c, s)
        PROVE  \A e \in Pool : edge'[e].obj = p => edge[e].obj = p
    BY <1>1, <1>3 DEF Clears, Unlinked, FreeEdge
  <1>4. ASSUME NEW c \in CNode, NEW s \in Slot, NEW d \in Slot, Moves(c, s, d)
        PROVE  \A e \in Pool : edge'[e].obj = p => edge[e].obj = p
    <2>1. MoveFacts(c, s, d)
      BY <1>4, MoveSlots
    <2> PICK o \in Obj : o = slots[c][s].obj
      BY <2>1 DEF MoveFacts
    <2>2. p # o /\ edge' = Wired(Unlinked(edge, o, c, s), o, c, d)
      BY <1>4 DEF Moves, CanInstall
    <2> DEFINE ed == Unlinked(edge, o, c, s)
    <2>3. ed \in [Pool -> EdgeRec]
      BY <2>1, UnlinkedSound DEF MoveFacts
    <2>4. \A e \in Pool : ed[e] = edge[e] \/ ed[e].obj = NoObj
      BY DEF Unlinked, FreeEdge
    <2>5. edge' = Wired(ed, o, c, d)
      BY <2>2
    <2> HIDE DEF ed
    <2>6. \A e \in Pool : edge'[e] = ed[e] \/ edge'[e].obj = o
      BY <2>3, <2>5, WiredCases DEF Edge
    <2> QED
      BY <1>1, <2>2, <2>4, <2>6
  <1>5. ASSUME Quiet PROVE \A e \in Pool : edge'[e].obj = p => edge[e].obj = p
    BY <1>5 DEF Quiet
  <1>7. ASSUME NEW c \in CNode, NEW s \in Slot, NEW o \in Task, Voids(c, s, o)
        PROVE  \A e \in Pool : edge'[e].obj = p => edge[e].obj = p
    BY <1>7 DEF Voids
  <1>6. \A e \in Pool : edge'[e].obj = p => edge[e].obj = p
    BY <1>2, <1>3, <1>4, <1>5, <1>7, Effect
  <1> QED
    BY <1>6 DEF EdgesOf

\* Only gj_obj_revoke_begin kills an object.
LEMMA DeadBy ==
  ASSUME IInv0, [Next]_vars, NEW p \in Obj, hdr'[p].state = "DEAD"
  PROVE  hdr[p].state = "DEAD" \/ RevokeBegin(p)
  <1>h. hdr \in [Obj -> HdrRec] /\ \A o \in Obj : hdr[o].slotsLeft \in Nat
    BY DEF IInv0, TypeOK, HdrRec
  <1>1. ASSUME NEW o \in Obj, NEW n \in Nat, hdr' = [hdr EXCEPT ![o].slotsLeft = n]
        PROVE  hdr[p].state = "DEAD"
    BY <1>h, <1>1, CountUpdate
  <1>2. ASSUME NEW c \in CNode, NEW s \in Slot, NEW t \in {"ROOT_META", "ENDPOINT"},
               NEW r \in SUBSET Rights, NEW o \in Obj, Binds(c, s, t, r, o)
        PROVE  hdr[p].state = "DEAD"
    <2>1. hdr' = [hdr EXCEPT ![o].slotsLeft = CountAfter(o)] /\ CountAfter(o) \in Nat
      BY <1>2, BindCount
    <2> QED
      BY <1>1, <2>1
  <1>3. ASSUME NEW c \in CNode, NEW s \in Slot, Clears(c, s) PROVE hdr[p].state = "DEAD"
    <2> PICK o \in Obj : o = slots[c][s].obj
      BY <1>3, ClearSlots DEF Clears, ClearFacts
    <2> PICK n \in Nat : n = Minus1(hdr[o].slotsLeft)
      BY <1>h DEF Minus1
    <2>1. hdr' = [hdr EXCEPT ![o].slotsLeft = n]
      BY <1>3 DEF Clears, ClearAt
    <2> QED
      BY <1>1, <2>1
  <1>4. ASSUME NEW c \in CNode, NEW s \in Slot, NEW d \in Slot, Moves(c, s, d)
        PROVE  hdr[p].state = "DEAD"
    <2> PICK o \in Obj : o = slots[c][s].obj
      BY <1>4, MoveSlots DEF MoveFacts
    <2> PICK n \in Nat : n = Minus1(hdr[o].slotsLeft + 1)
      BY <1>h DEF Minus1
    <2>1. hdr' = [hdr EXCEPT ![o].slotsLeft = n]
      BY <1>4 DEF Moves
    <2> QED
      BY <1>1, <2>1
  <1>5. ASSUME Quiet PROVE hdr[p].state = "DEAD" \/ RevokeBegin(p)
    BY <1>5 DEF Quiet
  <1>6. ASSUME NEW c \in CNode, NEW s \in Slot, NEW o \in Task, Voids(c, s, o)
        PROVE  hdr[p].state = "DEAD"
    <2>1. VoidFacts(c, s, o)
      BY <1>6, VoidSlots
    <2> QED
      BY <2>1 DEF VoidFacts
  <1> QED
    BY <1>2, <1>3, <1>4, <1>5, <1>6, Effect

\* An entry stays while its object is DEAD and has edges.
LEMMA EntryStays ==
  ASSUME IInv0, [Next]_vars, NEW p \in Obj, hdr[p].state = "DEAD", EdgesOf(p) # {}, Queued(p)
  PROVE  Queued(p)'
  <1>1. q \in [QIdx -> Obj \cup {NoObj}] /\ NoObj \notin Obj
    BY CapAssumption DEF IInv0, TypeOK, CapAssumption
  <1>2. PICK k \in QIdx : q[k] = p
    BY DEF Queued
  <1>3. ASSUME TickNext PROVE q'[k] = p
    BY <1>1, <1>2, <1>3 DEF TickNext
  <1>4. ASSUME NEW o \in Obj, Reclaim(o) PROVE q'[k] = p
    BY <1>1, <1>2, <1>4 DEF Reclaim, ReclaimReady
  <1>5. ASSUME NEW o \in Obj, RevokeBegin(o) PROVE q'[k] = p
    <2>1. q' = Pushed(o)
      BY <1>5 DEF RevokeBegin
    <2> QED
      BY <1>1, <1>2, <2>1, PushedCases
  <1>6. q'[k] = p
    BY <1>2, <1>3, <1>4, <1>5, QueueEffect
  <1> QED
    BY <1>6 DEF Queued, QIdx

\* R7: when the deferred queue has an entry for every object that can be revoked, a DEAD
\* object that still has derivation edges is on the queue: neither a full queue, nor the
\* deferred pass dropping entries, nor reclaim loses it.
THEOREM HygieneCorrect ==
  Cardinality(Obj \ MetaObj) <= QMax => (Spec => []HygieneQueued)
  <1> SUFFICES ASSUME Cardinality(Obj \ MetaObj) <= QMax PROVE Spec => []HygieneQueued
    OBVIOUS
  <1>1. Init => QueueSound /\ HygieneQueued
    BY CapAssumption DEF Init, QueueSound, HygieneQueued, FreshHdr, MetaObj, CapAssumption
  <1>2. ASSUME IInv0, QueueSound, HygieneQueued, [Next]_vars, NEW p \in Obj,
               hdr'[p].state = "DEAD", EdgesOf(p)' # {}
        PROVE  Queued(p)'
    <2>1. CASE hdr[p].state = "DEAD"
      <3>1. EdgesOf(p) # {}
        BY <1>2, <2>1, DeadEdges
      <3>2. Queued(p)
        BY <1>2, <2>1, <3>1 DEF HygieneQueued
      <3> QED
        BY <1>2, <2>1, <3>1, <3>2, EntryStays
    <2>2. CASE RevokeBegin(p)
      <3>1. q' = Pushed(p) /\ p \notin MetaObj
        BY <2>2 DEF RevokeBegin
      <3>2. q \in [QIdx -> Obj \cup {NoObj}]
        BY <1>2 DEF IInv0, TypeOK
      <3>3. ~Queued(p) => \E i \in QIdx : q[i] = NoObj
        BY <1>2, <3>1, QueueRoom
      <3>4. \E k \in QIdx : q'[k] = p
        BY <3>1, <3>2, <3>3, PushedCases DEF Queued
      <3> QED
        BY <3>4 DEF Queued, QIdx
    <2> QED
      BY <1>2, <2>1, <2>2, DeadBy
  <1>3. IInv /\ (QueueSound /\ HygieneQueued) /\ [Next]_vars => (QueueSound /\ HygieneQueued)'
    <2>1. ASSUME IInv, QueueSound, HygieneQueued, [Next]_vars PROVE HygieneQueued'
      BY <1>2, <2>1 DEF IInv, HygieneQueued
    <2> QED
      BY <2>1, QueueSoundStep DEF IInv
  <1> QED
    BY <1>1, <1>3, Invariance, PTL DEF Spec
============================================================================
