-------------------------- MODULE AuthorityProofs --------------------------
(***************************************************************************)
(* Cap implements Authority, for every size of the tables: each of the     *)
(* five effects of CapProofs is one step of the reference monitor or       *)
(* changes no authority.                                                   *)
(***************************************************************************)
EXTENDS CapProofs

\* A slot whose binding stays, over an object whose state and generation stay,
\* carries the same authority.
LEMMA SameAuthority ==
  ASSUME NEW c \in CNode, NEW s \in Slot, slots'[c][s] = slots[c][s],
         slots[c][s].obj \in Obj =>
           /\ hdr'[slots[c][s].obj].state = hdr[slots[c][s].obj].state
           /\ hdr'[slots[c][s].obj].gen = hdr[slots[c][s].obj].gen,
         Occupied(c, s) => slots[c][s].obj \in Obj
  PROVE  Authorities'[<<c, s>>] = Authorities[<<c, s>>]
  <1>1. Usable(c, s)' <=> Usable(c, s)
    BY DEF Usable, Resolves, Occupied, CheckLive
  <1>2. <<c, s>> \in CNode \X Slot
    OBVIOUS
  <1> QED
    BY <1>1, <1>2 DEF Authorities

\* A free slot carries nothing.
LEMMA FreeNothing ==
  ASSUME NEW c \in CNode, NEW s \in Slot
  PROVE  /\ ~Occupied(c, s) => Authorities[<<c, s>>] = Monitor!Nothing
         /\ ~Occupied(c, s)' => Authorities'[<<c, s>>] = Monitor!Nothing
  <1>1. <<c, s>> \in CNode \X Slot
    OBVIOUS
  <1> QED
    BY <1>1 DEF Authorities, Monitor!Nothing, Usable, Resolves

\* A usable slot carries the rights of its binding over the object it names.
LEMMA UsableOver ==
  ASSUME NEW c \in CNode, NEW s \in Slot
  PROVE  /\ Usable(c, s) =>
              Authorities[<<c, s>>] = Monitor!Over(slots[c][s].obj, slots[c][s].rights)
         /\ Usable(c, s)' =>
              Authorities'[<<c, s>>] = Monitor!Over(slots'[c][s].obj, slots'[c][s].rights)
  <1>1. <<c, s>> \in CNode \X Slot
    OBVIOUS
  <1> QED
    BY <1>1 DEF Authorities, Monitor!Over

\* An authority is a function on places, before and after every step.
LEMMA AuthorityFunction ==
  /\ Authorities = [x \in CNode \X Slot |-> Authorities[x]]
  /\ Authorities' = [x \in CNode \X Slot |-> Authorities'[x]]
  BY DEF Authorities

\* The installs, with their source, are Grant or Derive.
LEMMA BindsMaps ==
  ASSUME IInv0, NEW c \in CNode, NEW s \in Slot, NEW t \in {"ROOT_META", "ENDPOINT"},
         NEW r \in SUBSET Rights, NEW o \in Obj, Binds(c, s, t, r, o)
  PROVE  Monitor!Next
  <1>1. BindFacts(c, s, t, r, o)
    BY BindSlots
  <1>2. hdr \in [Obj -> HdrRec] /\ CountAfter(o) \in Nat
    BY BindCount DEF IInv0, TypeOK
  <1>3. hdr' = [hdr EXCEPT ![o].slotsLeft = CountAfter(o)] /\ hdr[o].state = "LIVE"
    BY DEF Binds
  <1>4. \A p \in Obj : hdr'[p].state = hdr[p].state /\ hdr'[p].gen = hdr[p].gen
    BY <1>2, <1>3, CountUpdate
  <1>5. Usable(c, s)' /\ slots'[c][s].obj = o /\ slots'[c][s].rights = r /\ ~Occupied(c, s)
    BY <1>1, <1>3, <1>4, CapAssumption
       DEF BindFacts, Usable, Resolves, Occupied, CheckLive, CapAssumption
  <1>6. \A d \in CNode, k \in Slot : <<d, k>> # <<c, s>> => Authorities'[<<d, k>>] = Authorities[<<d, k>>]
    <2> SUFFICES ASSUME NEW d \in CNode, NEW k \in Slot, <<d, k>> # <<c, s>>
                 PROVE  Authorities'[<<d, k>>] = Authorities[<<d, k>>]
      OBVIOUS
    <2>1. slots'[d][k] = slots[d][k] /\ (Occupied(d, k) => slots[d][k].obj \in Obj)
      BY <1>1 DEF BindFacts, IInv0, Shape
    <2> QED
      BY <1>4, <2>1, SameAuthority
  <1>7. Authorities' = [Authorities EXCEPT ![<<c, s>>] = Monitor!Over(o, r)]
        /\ Authorities[<<c, s>>] = Monitor!Nothing
    <2>1. Authorities[<<c, s>>] = Monitor!Nothing /\ Authorities'[<<c, s>>] = Monitor!Over(o, r)
      BY <1>5, FreeNothing, UsableOver
    <2>2. \A x \in CNode \X Slot : x # <<c, s>> => Authorities'[x] = Authorities[x]
      BY <1>6
    <2> QED
      BY <2>1, <2>2, AuthorityFunction
  <1>8. CASE <<<<c, s>>, o, r>> \in KernelGrants
    <2>1. Monitor!Grant(<<c, s>>, o, r)
      BY <1>7, <1>8 DEF Monitor!Grant
    <2> QED
      BY <1>8, <2>1 DEF Monitor!Next
  <1>9. CASE \E d \in CNode, k \in Slot :
               /\ Usable(d, k) /\ slots[d][k].obj = o /\ r \subseteq slots[d][k].rights
               /\ "MINT" \in slots[d][k].rights \/ "GRANT" \in slots[d][k].rights
    <2> PICK d \in CNode, k \in Slot :
               /\ Usable(d, k) /\ slots[d][k].obj = o /\ r \subseteq slots[d][k].rights
               /\ "MINT" \in slots[d][k].rights \/ "GRANT" \in slots[d][k].rights
      BY <1>9
    <2>1. Authorities[<<d, k>>] = Monitor!Over(o, slots[d][k].rights)
      BY UsableOver
    <2>2. /\ Authorities[<<d, k>>].held /\ Authorities[<<d, k>>].obj = o
          /\ Authorities[<<d, k>>].rights = slots[d][k].rights
      BY <2>1 DEF Monitor!Over
    <2>3. Monitor!Derive(<<d, k>>, <<c, s>>, r)
      BY <1>7, <2>2 DEF Monitor!Derive
    <2>4. <<d, k>> \in CNode \X Slot /\ <<c, s>> \in CNode \X Slot
          /\ r \in SUBSET Authorities[<<d, k>>].rights
      BY <2>2
    <2> QED
      BY <2>3, <2>4 DEF Monitor!Next
  <1>10. Sourced(c, s, r, o)
    BY DEF Binds
  <1>11. ASSUME \/ o = MetaOf[c] /\ s = 0 /\ r = {"READ", "IDENTIFY"}
                \/ o \notin MetaObj /\ r \in InstallRights
                \/ o \in Task /\ r = TaskRights
         PROVE  <<<<c, s>>, o, r>> \in KernelGrants
    BY <1>11 DEF KernelGrants
  <1> QED
    BY <1>8, <1>9, <1>10, <1>11 DEF Sourced

\* An invalidate, by whatever path, is Drop.
LEMMA ClearsMaps ==
  ASSUME IInv0, NEW c \in CNode, NEW s \in Slot, Clears(c, s)
  PROVE  Monitor!Next
  <1>1. ClearFacts(c, s)
    BY ClearSlots DEF Clears
  <1> PICK o \in Obj : o = slots[c][s].obj
    BY <1>1 DEF ClearFacts
  <1>2. hdr \in [Obj -> HdrRec] /\ hdr[o].slotsLeft \in Nat
    BY DEF IInv0, TypeOK, HdrRec
  <1> PICK n \in Nat : n = Minus1(hdr[o].slotsLeft)
    BY <1>2 DEF Minus1
  <1>3. hdr' = [hdr EXCEPT ![o].slotsLeft = n]
    BY DEF Clears, ClearAt
  <1>4. \A p \in Obj : hdr'[p].state = hdr[p].state /\ hdr'[p].gen = hdr[p].gen
    BY <1>2, <1>3, CountUpdate
  <1>5. Authorities'[<<c, s>>] = Monitor!Nothing
    BY <1>1, FreeNothing DEF ClearFacts, FreeSlot, Occupied
  <1>6. \A d \in CNode, k \in Slot : <<d, k>> # <<c, s>> => Authorities'[<<d, k>>] = Authorities[<<d, k>>]
    <2> SUFFICES ASSUME NEW d \in CNode, NEW k \in Slot, <<d, k>> # <<c, s>>
                 PROVE  Authorities'[<<d, k>>] = Authorities[<<d, k>>]
      OBVIOUS
    <2>1. slots'[d][k] = slots[d][k] /\ (Occupied(d, k) => slots[d][k].obj \in Obj)
      BY <1>1 DEF ClearFacts, IInv0, Shape
    <2> QED
      BY <1>4, <2>1, SameAuthority
  <1>7. Authorities' = [Authorities EXCEPT ![<<c, s>>] = Monitor!Nothing]
    <2>1. \A x \in CNode \X Slot : x # <<c, s>> => Authorities'[x] = Authorities[x]
      BY <1>6
    <2> QED
      BY <1>5, <2>1, AuthorityFunction
  <1>8. Monitor!Drop(<<c, s>>) /\ <<c, s>> \in CNode \X Slot
    BY <1>7 DEF Monitor!Drop
  <1> QED
    BY <1>8 DEF Monitor!Next

\* A bare invalidate is Drop too: it empties the one slot, whatever it leaves undone.
LEMMA VoidsMaps ==
  ASSUME IInv0, NEW c \in CNode, NEW s \in Slot, NEW o \in Task, Voids(c, s, o)
  PROVE  Monitor!Next
  <1>1. VoidFacts(c, s, o)
    BY VoidSlots
  <1>2. \A p \in Obj : hdr'[p].state = hdr[p].state /\ hdr'[p].gen = hdr[p].gen
    BY <1>1 DEF VoidFacts
  <1>3. Authorities'[<<c, s>>] = Monitor!Nothing
    BY <1>1, FreeNothing DEF VoidFacts, Occupied
  <1>4. \A d \in CNode, k \in Slot : <<d, k>> # <<c, s>> => Authorities'[<<d, k>>] = Authorities[<<d, k>>]
    <2> SUFFICES ASSUME NEW d \in CNode, NEW k \in Slot, <<d, k>> # <<c, s>>
                 PROVE  Authorities'[<<d, k>>] = Authorities[<<d, k>>]
      OBVIOUS
    <2>1. slots'[d][k] = slots[d][k] /\ (Occupied(d, k) => slots[d][k].obj \in Obj)
      BY <1>1 DEF VoidFacts, IInv0, Shape
    <2> QED
      BY <1>2, <2>1, SameAuthority
  <1>5. Authorities' = [Authorities EXCEPT ![<<c, s>>] = Monitor!Nothing]
    <2>1. \A x \in CNode \X Slot : x # <<c, s>> => Authorities'[x] = Authorities[x]
      BY <1>4
    <2> QED
      BY <1>3, <2>1, AuthorityFunction
  <1>6. Monitor!Drop(<<c, s>>) /\ <<c, s>> \in CNode \X Slot
    BY <1>5 DEF Monitor!Drop
  <1> QED
    BY <1>6 DEF Monitor!Next

\* gj_cap_move is Move: no step in between carries the authority twice or nowhere.
LEMMA MovesMaps ==
  ASSUME IInv0, NEW c \in CNode, NEW s \in Slot, NEW d \in Slot, Moves(c, s, d)
  PROVE  Monitor!Next
  <1>1. MoveFacts(c, s, d) /\ Usable(c, s) /\ "GRANT" \in slots[c][s].rights
    BY MoveSlots DEF Moves
  <1> PICK o \in Obj : o = slots[c][s].obj
    BY <1>1 DEF MoveFacts
  <1>2. hdr \in [Obj -> HdrRec] /\ hdr[o].slotsLeft \in Nat
    BY DEF IInv0, TypeOK, HdrRec
  <1> PICK n \in Nat : n = Minus1(hdr[o].slotsLeft + 1)
    BY <1>2 DEF Minus1
  <1>3. hdr' = [hdr EXCEPT ![o].slotsLeft = n] /\ hdr[o].state = "LIVE"
    BY DEF Moves, CanInstall
  <1>4. \A p \in Obj : hdr'[p].state = hdr[p].state /\ hdr'[p].gen = hdr[p].gen
    BY <1>2, <1>3, CountUpdate
  <1>5. Authorities'[<<c, s>>] = Monitor!Nothing /\ Authorities[<<c, d>>] = Monitor!Nothing
    BY <1>1, FreeNothing DEF MoveFacts, FreeSlot, Occupied
  <1>6. Usable(c, d)' /\ slots'[c][d].obj = o /\ slots'[c][d].rights = slots[c][s].rights
    <2>1. /\ slots'[c][d].obj = o /\ slots'[c][d].objGen = hdr[o].gen
          /\ slots'[c][d].type # "INVALID" /\ slots'[c][d].rights = slots[c][s].rights
      BY <1>1 DEF MoveFacts
    <2>2. o # NoObj /\ hdr'[o].state = "LIVE" /\ hdr'[o].gen = hdr[o].gen
      BY <1>3, <1>4, CapAssumption DEF CapAssumption
    <2> QED
      BY <2>1, <2>2 DEF Usable, Resolves, Occupied, CheckLive
  <1>7. /\ Authorities[<<c, s>>] = Monitor!Over(o, slots[c][s].rights)
        /\ Authorities'[<<c, d>>] = Authorities[<<c, s>>]
    BY <1>1, <1>6, UsableOver
  <1>8. \A e \in CNode, k \in Slot : e # c \/ k \notin {s, d} =>
          Authorities'[<<e, k>>] = Authorities[<<e, k>>]
    <2> SUFFICES ASSUME NEW e \in CNode, NEW k \in Slot, e # c \/ k \notin {s, d}
                 PROVE  Authorities'[<<e, k>>] = Authorities[<<e, k>>]
      OBVIOUS
    <2>1. slots'[e][k] = slots[e][k] /\ (Occupied(e, k) => slots[e][k].obj \in Obj)
      BY <1>1 DEF MoveFacts, IInv0, Shape
    <2> QED
      BY <1>4, <2>1, SameAuthority
  <1>9. <<c, s>> \in CNode \X Slot /\ <<c, d>> \in CNode \X Slot /\ s # d
    BY <1>1 DEF MoveFacts
  <1>10. \A x \in CNode \X Slot : x # <<c, s>> /\ x # <<c, d>> => Authorities'[x] = Authorities[x]
    BY <1>8
  <1>11. Authorities' = [Authorities EXCEPT ![<<c, d>>] = Authorities[<<c, s>>],
                                            ![<<c, s>>] = Monitor!Nothing]
    BY <1>5, <1>7, <1>9, <1>10, AuthorityFunction
  <1>12. Authorities[<<c, s>>].held /\ Authorities[<<c, s>>].rights = slots[c][s].rights
    BY <1>7 DEF Monitor!Over
  <1>13. Monitor!Move(<<c, s>>, <<c, d>>)
    BY <1>1, <1>5, <1>11, <1>12 DEF Monitor!Move
  <1> QED
    BY <1>9, <1>13 DEF Monitor!Next

\* The rest revokes one object everywhere, or changes no authority; the reuse of
\* reclaimed storage changes none because the slot count says no slot names it.
LEMMA QuietMaps ==
  ASSUME IInv, Quiet
  PROVE  Monitor!Next \/ UNCHANGED Authorities
  <1>1. slots' = slots
    BY DEF Quiet
  <1>2. \A c \in CNode, s \in Slot : Occupied(c, s) => slots[c][s].obj \in Obj
    BY DEF IInv, IInv0, Shape
  <1>3. ASSUME NEW c \in CNode, NEW s \in Slot,
               slots[c][s].obj \in Obj =>
                 /\ hdr'[slots[c][s].obj].state = hdr[slots[c][s].obj].state
                 /\ hdr'[slots[c][s].obj].gen = hdr[slots[c][s].obj].gen
        PROVE  Authorities'[<<c, s>>] = Authorities[<<c, s>>]
    BY <1>1, <1>2, <1>3, SameAuthority
  <1>4. CASE \E o \in Obj : hdr[o].state # "DEAD" /\ hdr'[o].state = "DEAD"
    <2> PICK o \in Obj : hdr[o].state # "DEAD" /\ hdr'[o].state = "DEAD"
      BY <1>4
    <2>1. \A p \in Obj : p # o => hdr'[p] = hdr[p]
      BY DEF Quiet
    <2>2. ASSUME NEW c \in CNode, NEW s \in Slot
          PROVE  Authorities'[<<c, s>>] =
                   IF Authorities[<<c, s>>].held /\ Authorities[<<c, s>>].obj = o
                   THEN Monitor!Nothing ELSE Authorities[<<c, s>>]
      <3>0. <<c, s>> \in CNode \X Slot
        OBVIOUS
      <3>1. CASE slots[c][s].obj # o
        <4>1. Authorities'[<<c, s>>] = Authorities[<<c, s>>]
          BY <1>3, <2>1, <3>1
        <4>2. ~(Authorities[<<c, s>>].held /\ Authorities[<<c, s>>].obj = o)
          BY <3>0, <3>1 DEF Authorities
        <4> QED
          BY <4>1, <4>2
      <3>2. CASE slots[c][s].obj = o
        <4>1. ~Usable(c, s)'
          BY <1>1, <3>2 DEF Usable, Resolves, CheckLive
        <4>2. Authorities'[<<c, s>>] = Monitor!Nothing
          BY <3>0, <4>1 DEF Authorities, Monitor!Nothing
        <4>3. CASE Usable(c, s)
          BY <3>0, <3>2, <4>2, <4>3 DEF Authorities
        <4>4. CASE ~Usable(c, s)
          BY <3>0, <4>2, <4>4 DEF Authorities, Monitor!Nothing
        <4> QED
          BY <4>3, <4>4
      <3> QED
        BY <3>1, <3>2
    <2>3. \A x \in CNode \X Slot :
            Authorities'[x] = IF Authorities[x].held /\ Authorities[x].obj = o
                              THEN Monitor!Nothing ELSE Authorities[x]
      BY <2>2
    <2>4. Monitor!Revoke(o)
      BY <2>3, AuthorityFunction DEF Monitor!Revoke
    <2> QED
      BY <2>4 DEF Monitor!Next
  <1>5. CASE \A o \in Obj : hdr[o].state = "DEAD" \/ hdr'[o].state # "DEAD"
    <2>1. ASSUME NEW c \in CNode, NEW s \in Slot
          PROVE  Authorities'[<<c, s>>] = Authorities[<<c, s>>]
      <3>0. <<c, s>> \in CNode \X Slot
        OBVIOUS
      <3>1. CASE slots[c][s].obj \notin Obj
        BY <1>3, <3>1
      <3>2. CASE slots[c][s].obj \in Obj
        <4> PICK o \in Obj : o = slots[c][s].obj
          BY <3>2
        <4>1. o \notin freed
          BY <3>2, BoundNotFreed
        <4>2. CASE hdr'[o].state = hdr[o].state /\ hdr'[o].gen = hdr[o].gen
          BY <1>3, <4>2
        <4>3. CASE hdr'[o].state = "DEAD"
          <5>1. ~Usable(c, s) /\ ~Usable(c, s)'
            BY <1>1, <1>5, <4>3 DEF Usable, Resolves, CheckLive
          <5> QED
            BY <3>0, <5>1 DEF Authorities
        <4> QED
          BY <4>1, <4>2, <4>3 DEF Quiet
      <3> QED
        BY <3>1, <3>2
    <2>2. \A x \in CNode \X Slot : Authorities'[x] = Authorities[x]
      BY <2>1
    <2> QED
      BY <2>2, AuthorityFunction
  <1> QED
    BY <1>4, <1>5

\* S1 to S7: the capability tables implement the reference monitor.
THEOREM AuthorityCorrect == Spec => ImplementsAuthority
  <1>1. Init => Monitor!Init
    <2> SUFFICES ASSUME Init PROVE Monitor!Init
      OBVIOUS
    <2>1. \A c \in CNode, s \in Slot : ~Occupied(c, s)
      BY DEF Init, Occupied, EmptySlot, FreeSlot
    <2>2. \A x \in CNode \X Slot : Authorities[x] = Monitor!Nothing
      BY <2>1, FreeNothing
    <2> QED
      BY <2>2, AuthorityFunction DEF Monitor!Init
  <1>2. IInv /\ [Next]_vars => [Monitor!Next]_Authorities
    <2> SUFFICES ASSUME IInv, [Next]_vars PROVE [Monitor!Next]_Authorities
      OBVIOUS
    <2>1. IInv0
      BY DEF IInv
    <2> QED
      BY <2>1, Effect, BindsMaps, ClearsMaps, VoidsMaps, MovesMaps, QuietMaps
  <1> QED
    BY <1>1, <1>2, Invariance, PTL DEF Spec, ImplementsAuthority, Monitor!Spec
============================================================================
