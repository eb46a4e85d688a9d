--------------------------- MODULE FileLockProofs --------------------------
(***************************************************************************)
(* Proofs about the record locks, for every number of owners, every size   *)
(* of the two tables and every largest offset: the table stays canonical,  *)
(* it implements locks on bytes, and no sleeper is forgotten.              *)
(***************************************************************************)
EXTENDS FileLock, FiniteSetTheorems, NaturalsInduction, WellFoundedInduction, TLAPS

----------------------------------------------------------------------------
(* Loops *)

\* Induction, with a set in place of a predicate.
LEMMA NatSet ==
  ASSUME NEW S, 0 \in S, \A n \in Nat : n \in S => n + 1 \in S
  PROVE  Nat \subseteq S
  <1> DEFINE L == OpToRel(<, Nat)
             Bad == Nat \ S
  <1> SUFFICES ASSUME Bad # {} PROVE FALSE
    OBVIOUS
  <1>1. PICK n \in Bad : \A m \in Bad : <<m, n>> \notin L
    <2>1. IsWellFoundedOn(L, Nat)
      BY NatLessThanWellFounded
    <2>2. Bad \subseteq Nat
      OBVIOUS
    <2> HIDE DEF L, Bad
    <2> QED
      BY <2>1, <2>2, WFMin, Zenon
  <1>2. n # 0 /\ n - 1 \in Nat
    OBVIOUS
  <1>3. <<n - 1, n>> \in L
    BY <1>2 DEF OpToRel
  <1>4. n - 1 \in S
    BY <1>1, <1>2, <1>3
  <1>5. (n - 1) + 1 \in S /\ (n - 1) + 1 = n
    BY <1>2, <1>4
  <1> QED
    BY <1>5

\* What every round of a loop keeps holds at its end.
LEMMA LoopKeeps ==
  ASSUME NEW N \in Nat, NEW f, NEW G, f[0] \in G[0],
         \A k \in 1 .. N : f[k - 1] \in G[k - 1] => f[k] \in G[k]
  PROVE  f[N] \in G[N]
  <1> DEFINE S == {n \in Nat : n <= N => f[n] \in G[n]}
  <1>1. 0 \in S
    OBVIOUS
  <1>2. ASSUME NEW n \in Nat, n \in S PROVE n + 1 \in S
    <2> SUFFICES ASSUME n + 1 <= N PROVE f[n + 1] \in G[n + 1]
      OBVIOUS
    <2>1. n + 1 \in 1 .. N /\ (n + 1) - 1 = n /\ f[n] \in G[n]
      BY <1>2
    <2> QED
      BY <2>1
  <1> HIDE DEF S
  <1>3. N \in S
    BY <1>1, <1>2, NatSet
  <1> QED
    BY <1>3 DEF S

----------------------------------------------------------------------------
(* Tables *)

Entry == [pid : 0 .. NPid, type : {"R", "W"}, start : 0 .. MaxOff, end : EOF .. MaxOff]

\* A range with a byte in it, or the one past the last byte that flock_validate lets
\* through: it overlaps nothing.
Proper(s, e) == s \in 0 .. MaxOff /\ e \in EOF .. MaxOff /\ (s < Norm(e) \/ s = MaxOff)

\* The ranges of each owner in t are proper and do not overlap.
GoodTable ==
  {t \in [Slot -> Entry] :
     /\ \A i \in Slot : t[i].pid # NoPid => Proper(t[i].start, t[i].end)
     /\ \A i, j \in Slot : i # j /\ t[i].pid # NoPid /\ t[i].pid = t[j].pid =>
          ~Overlap(t[i].start, t[i].end, t[j].start, t[j].end)}

\* Ranges a and b have a byte or an end in common.
Touch(a, b) == Norm(a.end) >= b.start /\ Norm(b.end) >= a.start

\* No two ranges of p of one type touch.
Apart(t, p) ==
  \A i, j \in Slot : i # j /\ t[i].pid = p /\ t[j].pid = p /\ t[i].type = t[j].type =>
    ~Touch(t[i], t[j])

\* p holds byte b in mode m.
Holds(t, p, b, m) ==
  \E i \in Slot : t[i].pid = p /\ t[i].type = m /\ b \in Bytes(t[i].start, t[i].end)

Used(t) == {i \in Slot : t[i].pid # NoPid}

\* u describes the same bytes as t with no more ranges, and differs from t in the
\* ranges of p only.
Tidies(t, u, p) ==
  /\ \A q \in Owner, b \in Byte, m \in {"R", "W"} : Holds(u, q, b, m) <=> Holds(t, q, b, m)
  /\ \A i \in Slot : u[i].pid \notin {NoPid, p} => u[i] = t[i]
  /\ Used(u) \subseteq Used(t)
  /\ u = t \/ Used(u) # Used(t)

\* The normalised end of a range is an offset.
LEMMA NormType == \A e \in EOF .. MaxOff : Norm(e) \in 0 .. MaxOff
  BY FileLockAssumption DEF Norm, EOF

\* slot_free leaves an entry.
LEMMA FreeSlotType == FreeSlot \in Entry
  BY FileLockAssumption DEF FreeSlot, Entry, NoPid, EOF

\* Doing nothing is tidy.
LEMMA TidiesSame == ASSUME NEW t, NEW p PROVE Tidies(t, t, p)
  BY DEF Tidies

\* One tidying after another.
LEMMA TidiesTrans ==
  ASSUME NEW t, NEW u, NEW v, NEW p \in Owner, Tidies(t, u, p), Tidies(u, v, p)
  PROVE  Tidies(t, v, p) /\ (v = t => u = t)
  <1>1. \A q \in Owner, b \in Byte, m \in {"R", "W"} : Holds(v, q, b, m) <=> Holds(t, q, b, m)
    BY DEF Tidies
  <1>2. \A i \in Slot : v[i].pid \notin {NoPid, p} => v[i] = t[i]
    BY DEF Tidies
  <1>3. Used(v) \subseteq Used(u) /\ Used(u) \subseteq Used(t)
        /\ (u = t \/ Used(u) # Used(t)) /\ (v = u \/ Used(v) # Used(u))
    BY DEF Tidies
  <1> HIDE DEF Used
  <1>4. (v = t \/ Used(v) # Used(t)) /\ (v = t => u = t)
    BY <1>3
  <1> QED
    BY <1>1, <1>2, <1>3, <1>4 DEF Tidies

\* The merged range of coalesce_pid.
LEMMA MergeOutcome ==
  ASSUME NEW t \in GoodTable, NEW i \in Slot, NEW j \in Slot, NEW p \in Owner,
         i < j, t[i].pid = p, t[j].pid = p, t[i].type = t[j].type, Touch(t[i], t[j])
  PROVE  LET u == MergePair(t, i, j, p) IN
         /\ u \in [Slot -> Entry] /\ u[j] = FreeSlot /\ i # j
         /\ \A k \in Slot : k \notin {i, j} => u[k] = t[k]
         /\ u[i].pid = p /\ u[i].type = t[i].type
         /\ u[i].start = IF t[i].start < t[j].start THEN t[i].start ELSE t[j].start
         /\ Norm(u[i].end) = IF Norm(t[i].end) > Norm(t[j].end) THEN Norm(t[i].end) ELSE Norm(t[j].end)
  <1> DEFINE a == t[i]
             b == t[j]
             s == IF a.start < b.start THEN a.start ELSE b.start
             e == IF a.end < 0 \/ b.end < 0 THEN EOF ELSE IF a.end > b.end THEN a.end ELSE b.end
  <1>0. t \in [Slot -> Entry] /\ i # j /\ MaxOff \in Nat
    BY FileLockAssumption DEF GoodTable, Slot
  <1>1. /\ a.pid = p /\ a.type \in {"R", "W"} /\ a.start \in 0 .. MaxOff /\ b.start \in 0 .. MaxOff
        /\ a.end \in EOF .. MaxOff /\ b.end \in EOF .. MaxOff /\ EOF = -1
        /\ a = [pid |-> a.pid, type |-> a.type, start |-> a.start, end |-> a.end]
    BY <1>0 DEF Entry, EOF
  <1>2. MergePair(t, i, j, p) = [t EXCEPT ![i].start = s, ![i].end = e, ![j] = FreeSlot]
    BY DEF MergePair, Touch
  <1>3. s \in 0 .. MaxOff /\ e \in EOF .. MaxOff
    BY <1>0, <1>1
  <1>4. Norm(e) = IF Norm(a.end) > Norm(b.end) THEN Norm(a.end) ELSE Norm(b.end)
    BY <1>0, <1>1 DEF Norm
  <1> HIDE DEF s, e
  <1>5. LET u == MergePair(t, i, j, p) IN
        /\ u \in [Slot -> Entry] /\ u[j] = FreeSlot
        /\ \A k \in Slot : k \notin {i, j} => u[k] = t[k]
        /\ u[i].pid = p /\ u[i].type = a.type /\ u[i].start = s /\ u[i].end = e
    <2>1. a \in Entry
      BY <1>0
    <2> DEFINE d == [a EXCEPT !.start = s, !.end = e]
    <2>2. d \in Entry /\ d.pid = p /\ d.type = a.type /\ d.start = s /\ d.end = e
      BY <1>1, <1>3, <2>1 DEF Entry
    <2>3. MergePair(t, i, j, p) = [t EXCEPT ![i] = d, ![j] = FreeSlot]
      BY <1>0, <1>2
    <2> HIDE DEF d
    <2> QED
      BY <1>0, <2>2, <2>3, FreeSlotType
  <1> QED
    BY <1>0, <1>4, <1>5 DEF s

\* Merging a pair keeps the bytes, and frees a slot if it changes anything.
LEMMA MergeTidies ==
  ASSUME NEW t \in GoodTable, NEW i \in Slot, NEW j \in Slot, NEW p \in Owner
  PROVE  LET u == MergePair(t, i, j, p) IN
         /\ u \in GoodTable /\ Tidies(t, u, p)
         /\ u = t => ~(i < j /\ t[i].pid = p /\ t[j].pid = p /\ t[i].type = t[j].type /\ Touch(t[i], t[j]))
  <1> DEFINE u == MergePair(t, i, j, p)
             Merges == i < j /\ t[i].pid = p /\ t[j].pid = p /\ t[i].type = t[j].type /\ Touch(t[i], t[j])
  <1>1. CASE ~Merges
    <2>1. u = t
      BY <1>1 DEF MergePair, Touch
    <2> QED
      BY <1>1, <2>1, TidiesSame
  <1>2. CASE Merges
    <2>1. /\ u \in [Slot -> Entry] /\ u[j] = FreeSlot /\ i # j
          /\ \A k \in Slot : k \notin {i, j} => u[k] = t[k]
          /\ u[i].pid = p /\ u[i].type = t[i].type
          /\ u[i].start = IF t[i].start < t[j].start THEN t[i].start ELSE t[j].start
          /\ Norm(u[i].end) = IF Norm(t[i].end) > Norm(t[j].end) THEN Norm(t[i].end) ELSE Norm(t[j].end)
      BY <1>2, MergeOutcome
    <2> HIDE DEF u
    <2>2. /\ p # NoPid /\ p \in 0 .. NPid /\ FreeSlot.pid = NoPid /\ MaxOff \in Nat
          /\ t \in [Slot -> Entry] /\ t[i].pid = p /\ t[j].pid = p /\ t[i].type = t[j].type
          /\ \A k \in Slot : t[k].pid # NoPid => Proper(t[k].start, t[k].end)
      BY <1>2, FileLockAssumption DEF Owner, NoPid, FreeSlot, GoodTable
    <2>3. \A k \in Slot : /\ t[k].start \in 0 .. MaxOff /\ Norm(t[k].end) \in 0 .. MaxOff
                          /\ u[k].start \in 0 .. MaxOff /\ Norm(u[k].end) \in 0 .. MaxOff
                          /\ u[k].end \in EOF .. MaxOff
      BY <2>1, <2>2, NormType DEF Entry
    <2>4. Norm(t[i].end) >= t[j].start /\ Norm(t[j].end) >= t[i].start
      BY <1>2 DEF Touch
    <2>5. ASSUME NEW k \in Slot, u[k].pid # NoPid PROVE Proper(u[k].start, u[k].end)
      <3>1. k # j
        BY <2>1, <2>2, <2>5
      <3>2. CASE k = i
        <4>1. Proper(t[i].start, t[i].end) /\ Proper(t[j].start, t[j].end)
          BY <2>2
        <4> QED
          BY <2>1, <2>2, <2>3, <3>2, <4>1 DEF Proper
      <3>3. CASE k # i
        BY <2>1, <2>2, <2>5, <3>1, <3>3
      <3> QED
        BY <3>2, <3>3
    <2>6. ASSUME NEW k \in Slot \ {i, j}, t[k].pid = p
          PROVE  ~Overlap(u[i].start, u[i].end, t[k].start, t[k].end)
      <3>1. Proper(t[k].start, t[k].end)
        BY <2>2, <2>6
      <3>2. /\ ~Overlap(t[i].start, t[i].end, t[k].start, t[k].end)
            /\ ~Overlap(t[j].start, t[j].end, t[k].start, t[k].end)
        BY <2>2, <2>6 DEF GoodTable
      <3>3. /\ t[i].start \in Int /\ t[j].start \in Int /\ t[k].start \in Int /\ MaxOff \in Int
            /\ Norm(t[i].end) \in Int /\ Norm(t[j].end) \in Int /\ Norm(t[k].end) \in Int
            /\ Norm(t[i].end) <= MaxOff /\ Norm(t[j].end) <= MaxOff
        BY <2>2, <2>3
      <3> QED
        BY <2>1, <2>4, <3>1, <3>2, <3>3 DEF Overlap, Proper
    <2>7. u \in GoodTable
      <3>1. ASSUME NEW k \in Slot, NEW l \in Slot, k # l, u[k].pid # NoPid, u[k].pid = u[l].pid
            PROVE  ~Overlap(u[k].start, u[k].end, u[l].start, u[l].end)
        <4>1. k # j /\ l # j
          BY <2>1, <2>2, <3>1
        <4>2. CASE k # i /\ l # i
          BY <2>1, <3>1, <4>1, <4>2 DEF GoodTable
        <4>3. CASE k = i
          BY <2>1, <2>6, <3>1, <4>1, <4>3
        <4>4. CASE l = i
          <5>1. ~Overlap(u[i].start, u[i].end, t[k].start, t[k].end) /\ u[k] = t[k]
            BY <2>1, <2>6, <3>1, <4>1, <4>4
          <5> QED
            BY <4>4, <5>1 DEF Overlap
        <4> QED
          BY <4>2, <4>3, <4>4
      <3> QED
        BY <2>1, <2>5, <3>1 DEF GoodTable
    <2>8. ASSUME NEW q \in Owner, NEW b \in Byte, NEW m \in {"R", "W"}
          PROVE  Holds(u, q, b, m) <=> Holds(t, q, b, m)
      <3>0. b \in Int
        BY <2>2 DEF Byte
      <3>1. b \in Bytes(u[i].start, u[i].end) <=>
              b \in Bytes(t[i].start, t[i].end) \/ b \in Bytes(t[j].start, t[j].end)
        BY <2>1, <2>3, <2>4, <3>0 DEF Bytes
      <3>2. ASSUME Holds(u, q, b, m) PROVE Holds(t, q, b, m)
        <4>1. PICK k \in Slot : u[k].pid = q /\ u[k].type = m /\ b \in Bytes(u[k].start, u[k].end)
          BY <3>2 DEF Holds
        <4>2. k # j
          BY <2>1, <2>2, <4>1 DEF Owner, NoPid
        <4> QED
          BY <2>1, <2>2, <3>1, <4>1, <4>2 DEF Holds
      <3>3. ASSUME Holds(t, q, b, m) PROVE Holds(u, q, b, m)
        <4>1. PICK k \in Slot : t[k].pid = q /\ t[k].type = m /\ b \in Bytes(t[k].start, t[k].end)
          BY <3>3 DEF Holds
        <4> QED
          BY <2>1, <2>2, <3>1, <4>1 DEF Holds
      <3> QED
        BY <3>2, <3>3
    <2>9. Used(u) \subseteq Used(t) /\ Used(u) # Used(t) /\ u # t
      <3>1. j \in Used(t) /\ j \notin Used(u)
        BY <2>1, <2>2 DEF Used
      <3>2. \A k \in Slot : k \in Used(u) => k \in Used(t)
        BY <2>1, <2>2 DEF Used
      <3> QED
        BY <3>1, <3>2 DEF Used
    <2>10. \A k \in Slot : u[k].pid \notin {NoPid, p} => u[k] = t[k]
      BY <2>1, <2>2
    <2>11. Tidies(t, u, p)
      BY <2>8, <2>9, <2>10 DEF Tidies
    <2> QED
      BY <2>7, <2>9, <2>11 DEF u
  <1> QED
    BY <1>1, <1>2

\* A loop over the slots has a run.
LEMMA TableLoop ==
  ASSUME NEW t \in GoodTable, NEW F \in [1 .. NSlots -> [GoodTable -> GoodTable]]
  PROVE  \E f \in [0 .. NSlots -> GoodTable] : f[0] = t /\ \A k \in 1 .. NSlots : f[k] = F[k][f[k - 1]]
  <1> DEFINE Run(f, n) == f \in [0 .. n -> GoodTable] /\ f[0] = t /\ \A k \in 1 .. n : f[k] = F[k][f[k - 1]]
             S == {n \in Nat : n <= NSlots => \E f : Run(f, n)}
  <1>0. NSlots \in Nat
    BY FileLockAssumption
  <1>1. 0 \in S
    <2>1. Run([k \in 0 .. 0 |-> t], 0)
      OBVIOUS
    <2> QED
      BY <2>1
  <1>2. ASSUME NEW n \in Nat, n \in S PROVE n + 1 \in S
    <2> SUFFICES ASSUME n + 1 <= NSlots PROVE \E f : Run(f, n + 1)
      OBVIOUS
    <2>1. PICK f : Run(f, n)
      BY <1>0, <1>2
    <2> DEFINE g == [k \in 0 .. n + 1 |-> IF k = n + 1 THEN F[n + 1][f[n]] ELSE f[k]]
    <2>2. n + 1 \in 1 .. NSlots /\ f[n] \in GoodTable
      BY <1>0, <2>1
    <2>3. F[n + 1][f[n]] \in GoodTable
      BY <2>2
    <2>4. g \in [0 .. n + 1 -> GoodTable] /\ g[0] = t
      BY <2>1, <2>3
    <2>5. ASSUME NEW k \in 1 .. n + 1 PROVE g[k] = F[k][g[k - 1]]
      <3>1. CASE k = n + 1
        BY <3>1
      <3>2. CASE k # n + 1
        <4>1. k \in 1 .. n /\ g[k] = f[k] /\ g[k - 1] = f[k - 1]
          BY <3>2
        <4> QED
          BY <2>1, <4>1
      <3> QED
        BY <3>1, <3>2
    <2>6. Run(g, n + 1)
      BY <2>4, <2>5
    <2> QED
      BY <2>6
  <1> HIDE DEF S
  <1>3. NSlots \in S
    BY <1>0, <1>1, <1>2, NatSet
  <1> QED
    BY <1>0, <1>3 DEF S

\* A loop of tidyings tidies; it changes nothing only if no round changes anything.
LEMMA TidyLoop ==
  ASSUME NEW p \in Owner, NEW F \in [1 .. NSlots -> [GoodTable -> GoodTable]],
         \A k \in 1 .. NSlots : \A x \in GoodTable : Tidies(x, F[k][x], p),
         NEW f, f[0] \in GoodTable,
         \A k \in 1 .. NSlots : f[k - 1] \in GoodTable => f[k] = F[k][f[k - 1]]
  PROVE  /\ f[NSlots] \in GoodTable /\ Tidies(f[0], f[NSlots], p)
         /\ f[NSlots] = f[0] => \A k \in 1 .. NSlots : F[k][f[0]] = f[0]
  <1> DEFINE t == f[0]
             G == [n \in 0 .. NSlots |->
                     {u \in GoodTable : Tidies(t, u, p) /\ (u = t => \A k \in 1 .. n : F[k][t] = t)}]
  <1>0. NSlots \in Nat
    BY FileLockAssumption
  <1>1. f[0] \in G[0]
    BY <1>0, TidiesSame
  <1>2. ASSUME NEW n \in 1 .. NSlots, f[n - 1] \in G[n - 1] PROVE f[n] \in G[n]
    <2>1. n - 1 \in 0 .. NSlots /\ n \in 0 .. NSlots
      BY <1>0
    <2>2. f[n - 1] \in GoodTable /\ Tidies(t, f[n - 1], p)
          /\ (f[n - 1] = t => \A k \in 1 .. n - 1 : F[k][t] = t)
      BY <1>2, <2>1
    <2>3. Tidies(f[n - 1], f[n], p) /\ f[n] = F[n][f[n - 1]] /\ f[n] \in GoodTable
      BY <2>2
    <2>4. Tidies(t, f[n], p) /\ (f[n] = t => f[n - 1] = t)
      BY <2>2, <2>3, TidiesTrans
    <2>5. f[n] = t => \A k \in 1 .. n : F[k][t] = t
      <3>1. \A k \in 1 .. n : k = n \/ k \in 1 .. n - 1
        BY <1>0
      <3> QED
        BY <2>2, <2>3, <2>4, <3>1
    <2> QED
      BY <2>1, <2>3, <2>4, <2>5
  <1>3. f[NSlots] \in G[NSlots]
    <2> HIDE DEF G
    <2> QED
      BY <1>0, <1>1, <1>2, LoopKeeps
  <1> QED
    BY <1>0, <1>3

\* The inner loop of coalesce_pid.
LEMMA RowTidies ==
  ASSUME NEW t \in GoodTable, NEW i \in Slot, NEW p \in Owner
  PROVE  LET u == CoalesceRow(t, i, p) IN
         /\ u \in GoodTable /\ Tidies(t, u, p)
         /\ u = t => \A j \in Slot : MergePair(t, i, j, p) = t
  <1> DEFINE after[k \in 0 .. NSlots] == IF k = 0 THEN t ELSE MergePair(after[k - 1], i, k, p)
             F == [k \in 1 .. NSlots |-> [x \in GoodTable |-> MergePair(x, i, k, p)]]
  <1>0. NSlots \in Nat /\ Slot = 1 .. NSlots
    BY FileLockAssumption DEF Slot
  <1>1. CoalesceRow(t, i, p) = after[NSlots]
    BY Zenon DEF CoalesceRow, Loop
  <1>2. F \in [1 .. NSlots -> [GoodTable -> GoodTable]]
        /\ \A k \in 1 .. NSlots : \A x \in GoodTable : F[k][x] = MergePair(x, i, k, p) /\ Tidies(x, F[k][x], p)
    <2> HIDE DEF after
    <2> QED
      BY <1>0, MergeTidies
  <1>3. PICK f \in [0 .. NSlots -> GoodTable] : f[0] = t /\ \A k \in 1 .. NSlots : f[k] = F[k][f[k - 1]]
    <2> HIDE DEF after, F
    <2> QED
      BY <1>2, TableLoop
  <1>4. f = [k \in 0 .. NSlots |-> IF k = 0 THEN t ELSE MergePair(f[k - 1], i, k, p)]
    <2> HIDE DEF after, F
    <2>1. \A k \in 0 .. NSlots : k # 0 => k \in 1 .. NSlots /\ f[k - 1] \in GoodTable
      BY <1>0, <1>3
    <2> QED
      BY <1>2, <1>3, <2>1
  <1>5. after = [k \in 0 .. NSlots |-> IF k = 0 THEN t ELSE MergePair(after[k - 1], i, k, p)]
    BY <1>4, Zenon
  <1> HIDE DEF after, F
  <1>6. after[0] = t /\ \A k \in 1 .. NSlots : after[k - 1] \in GoodTable => after[k] = F[k][after[k - 1]]
    BY <1>0, <1>2, <1>5
  <1>7. /\ after[NSlots] \in GoodTable /\ Tidies(t, after[NSlots], p)
        /\ after[NSlots] = t => \A k \in 1 .. NSlots : F[k][t] = t
    BY <1>2, <1>6, TidyLoop
  <1> QED
    BY <1>0, <1>1, <1>2, <1>7

\* One scan of coalesce_pid: if it changes nothing there is nothing to merge.
LEMMA PassTidies ==
  ASSUME NEW t \in GoodTable, NEW p \in Owner
  PROVE  LET u == CoalescePass(t, p) IN
         /\ u \in GoodTable /\ Tidies(t, u, p)
         /\ u = t => Apart(t, p)
  <1> DEFINE after[k \in 0 .. NSlots] == IF k = 0 THEN t ELSE CoalesceRow(after[k - 1], k, p)
             F == [k \in 1 .. NSlots |-> [x \in GoodTable |-> CoalesceRow(x, k, p)]]
  <1>0. NSlots \in Nat /\ Slot = 1 .. NSlots
    BY FileLockAssumption DEF Slot
  <1>1. CoalescePass(t, p) = after[NSlots]
    BY Zenon DEF CoalescePass, Loop
  <1>2. F \in [1 .. NSlots -> [GoodTable -> GoodTable]]
        /\ \A k \in 1 .. NSlots : \A x \in GoodTable : F[k][x] = CoalesceRow(x, k, p) /\ Tidies(x, F[k][x], p)
    <2> HIDE DEF after
    <2> QED
      BY <1>0, RowTidies
  <1>3. PICK f \in [0 .. NSlots -> GoodTable] : f[0] = t /\ \A k \in 1 .. NSlots : f[k] = F[k][f[k - 1]]
    <2> HIDE DEF after, F
    <2> QED
      BY <1>2, TableLoop
  <1>4. f = [k \in 0 .. NSlots |-> IF k = 0 THEN t ELSE CoalesceRow(f[k - 1], k, p)]
    <2> HIDE DEF after, F
    <2>1. \A k \in 0 .. NSlots : k # 0 => k \in 1 .. NSlots /\ f[k - 1] \in GoodTable
      BY <1>0, <1>3
    <2> QED
      BY <1>2, <1>3, <2>1
  <1>5. after = [k \in 0 .. NSlots |-> IF k = 0 THEN t ELSE CoalesceRow(after[k - 1], k, p)]
    BY <1>4, Zenon
  <1> HIDE DEF after, F
  <1>6. after[0] = t /\ \A k \in 1 .. NSlots : after[k - 1] \in GoodTable => after[k] = F[k][after[k - 1]]
    BY <1>0, <1>2, <1>5
  <1>7. /\ after[NSlots] \in GoodTable /\ Tidies(t, after[NSlots], p)
        /\ after[NSlots] = t => \A k \in 1 .. NSlots : F[k][t] = t
    BY <1>2, <1>6, TidyLoop
  <1>8. ASSUME \A i \in Slot : CoalesceRow(t, i, p) = t PROVE Apart(t, p)
    <2>1. \A i, j \in Slot : MergePair(t, i, j, p) = t
      BY <1>8, RowTidies
    <2>2. \A i, j \in Slot :
            ~(i < j /\ t[i].pid = p /\ t[j].pid = p /\ t[i].type = t[j].type /\ Touch(t[i], t[j]))
      BY <2>1, MergeTidies
    <2>3. \A i, j \in Slot : i # j => i < j \/ j < i
      BY <1>0
    <2>4. \A i, j \in Slot : Touch(t[i], t[j]) <=> Touch(t[j], t[i])
      BY DEF Touch
    <2> QED
      BY <2>2, <2>3, <2>4 DEF Apart
  <1> QED
    BY <1>0, <1>1, <1>2, <1>7, <1>8

\* coalesce_pid leaves the bytes as they were and nothing of p to merge: every scan that
\* changes the table frees a slot, so as many scans as there are slots are enough.
LEMMA CoalesceTidies ==
  ASSUME NEW t \in GoodTable, NEW p \in Owner
  PROVE  LET u == Coalesce(t, p) IN u \in GoodTable /\ Tidies(t, u, p) /\ Apart(u, p)
  <1> DEFINE after[k \in 0 .. NSlots] == IF k = 0 THEN t ELSE CoalescePass(after[k - 1], p)
             F == [k \in 1 .. NSlots |-> [x \in GoodTable |-> CoalescePass(x, p)]]
  <1>0. NSlots \in Nat /\ Slot = 1 .. NSlots
    BY FileLockAssumption DEF Slot
  <1>1. Coalesce(t, p) = after[NSlots]
    BY Zenon DEF Coalesce, Loop
  <1>2. F \in [1 .. NSlots -> [GoodTable -> GoodTable]]
        /\ \A k \in 1 .. NSlots : \A x \in GoodTable : F[k][x] = CoalescePass(x, p)
    <2> HIDE DEF after
    <2> QED
      BY <1>0, PassTidies
  <1>3. PICK f \in [0 .. NSlots -> GoodTable] : f[0] = t /\ \A k \in 1 .. NSlots : f[k] = F[k][f[k - 1]]
    <2> HIDE DEF after, F
    <2> QED
      BY <1>2, TableLoop
  <1>4. f = [k \in 0 .. NSlots |-> IF k = 0 THEN t ELSE CoalescePass(f[k - 1], p)]
    <2> HIDE DEF after, F
    <2>1. \A k \in 0 .. NSlots : k # 0 => k \in 1 .. NSlots /\ f[k - 1] \in GoodTable
      BY <1>0, <1>3
    <2> QED
      BY <1>2, <1>3, <2>1
  <1>5. after = [k \in 0 .. NSlots |-> IF k = 0 THEN t ELSE CoalescePass(after[k - 1], p)]
    BY <1>4, Zenon
  <1> HIDE DEF after, F
  <1>6. after[0] = t /\ \A k \in 1 .. NSlots : after[k] = CoalescePass(after[k - 1], p)
    BY <1>0, <1>5
  <1>7. ASSUME NEW u \in GoodTable
        PROVE  IsFiniteSet(Used(u)) /\ Cardinality(Used(u)) \in 0 .. NSlots
               /\ (Cardinality(Used(u)) = 0 => Used(u) = {})
    <2>1. IsFiniteSet(Slot) /\ Cardinality(Slot) = NSlots
      BY <1>0, FS_Interval
    <2>2. Used(u) \subseteq Slot
      BY DEF Used
    <2>3. IsFiniteSet(Used(u)) /\ Cardinality(Used(u)) <= NSlots
      BY <2>1, <2>2, FS_Subset
    <2> QED
      BY <1>0, <2>3, FS_CardinalityType, FS_EmptySet
  <1> DEFINE Settled(u, n) == CoalescePass(u, p) = u \/ Cardinality(Used(u)) <= NSlots - n
             G == [n \in 0 .. NSlots |-> {u \in GoodTable : Tidies(t, u, p) /\ Settled(u, n)}]
  <1>8. after[0] \in G[0]
    BY <1>0, <1>6, <1>7, TidiesSame
  <1>9. ASSUME NEW n \in 1 .. NSlots, after[n - 1] \in G[n - 1] PROVE after[n] \in G[n]
    <2> DEFINE u == after[n - 1]
               v == after[n]
    <2>1. n - 1 \in 0 .. NSlots /\ n \in 0 .. NSlots
      BY <1>0
    <2>2. u \in GoodTable /\ Tidies(t, u, p) /\ Settled(u, n - 1)
      BY <1>9, <2>1
    <2>3. v = CoalescePass(u, p) /\ v \in GoodTable /\ Tidies(u, v, p)
      BY <1>6, <2>2, PassTidies
    <2>4. Tidies(t, v, p)
      BY <2>2, <2>3, TidiesTrans
    <2>5. CASE v = u
      BY <2>1, <2>3, <2>4, <2>5
    <2>6. CASE v # u
      <3>1. Used(v) \subseteq Used(u) /\ Used(v) # Used(u)
        BY <2>3, <2>6 DEF Tidies
      <3>2. Cardinality(Used(v)) < Cardinality(Used(u))
        <4>1. /\ IsFiniteSet(Used(u)) /\ Cardinality(Used(u)) \in 0 .. NSlots
              /\ Cardinality(Used(v)) \in 0 .. NSlots
          BY <1>7, <2>2, <2>3
        <4>2. Cardinality(Used(v)) <= Cardinality(Used(u)) /\ Cardinality(Used(u)) # Cardinality(Used(v))
          BY <3>1, <4>1, FS_Subset
        <4> QED
          BY <1>0, <4>1, <4>2
      <3>3. Cardinality(Used(u)) <= NSlots - (n - 1)
        BY <2>2, <2>3, <2>6
      <3>4. Cardinality(Used(v)) <= NSlots - n
        <4>1. Cardinality(Used(u)) \in 0 .. NSlots /\ Cardinality(Used(v)) \in 0 .. NSlots
          BY <1>7, <2>2, <2>3
        <4> HIDE DEF u, v
        <4> QED
          BY <1>0, <3>2, <3>3, <4>1
      <3> QED
        BY <2>1, <2>3, <2>4, <3>4
    <2> QED
      BY <2>5, <2>6
  <1>10. after[NSlots] \in G[NSlots]
    <2> HIDE DEF G
    <2> QED
      BY <1>0, <1>8, <1>9, LoopKeeps
  <1> DEFINE w == after[NSlots]
  <1>11. w \in GoodTable /\ Tidies(t, w, p) /\ Settled(w, NSlots)
    BY <1>0, <1>10
  <1>12. CASE CoalescePass(w, p) = w
    BY <1>1, <1>11, <1>12, PassTidies
  <1>13. CASE Cardinality(Used(w)) <= NSlots - NSlots
    <2>1. Used(w) = {}
      BY <1>0, <1>7, <1>11, <1>13
    <2>2. \A i \in Slot : w[i].pid # p
      BY <2>1, FileLockAssumption DEF Used, Owner, NoPid
    <2> QED
      BY <1>1, <1>11, <2>2 DEF Apart
  <1> QED
    BY <1>11, <1>12, <1>13

----------------------------------------------------------------------------
(* carve_pid_range *)

\* A set of numbers that is not empty has a least element.
LEMMA LeastOf ==
  ASSUME NEW S, S \subseteq Nat, S # {}
  PROVE  \E i \in S : \A j \in S : i <= j
  <1> DEFINE L == OpToRel(<, Nat)
  <1>1. PICK n \in S : \A m \in S : <<m, n>> \notin L
    <2>1. IsWellFoundedOn(L, Nat)
      BY NatLessThanWellFounded
    <2> HIDE DEF L
    <2> QED
      BY <2>1, WFMin, Zenon
  <1>2. \A m \in S : ~(m < n)
    BY <1>1 DEF OpToRel
  <1> QED
    BY <1>2

\* The first free slot is a free slot.
LEMMA FirstFreeIs ==
  ASSUME NEW t, FreeSlots(t) # {}
  PROVE  FirstFree(t) \in FreeSlots(t)
  <1>1. FreeSlots(t) \subseteq Nat
    BY FileLockAssumption DEF FreeSlots, Slot
  <1>2. \E i \in FreeSlots(t) : \A j \in FreeSlots(t) : i <= j
    BY <1>1, LeastOf
  <1> QED
    BY <1>2, Zenon DEF FirstFree

\* The ranges of p that [s, e) meets.
Cut(t, p, s, e) == {i \in Slot : t[i].pid = p /\ Overlap(s, e, t[i].start, t[i].end)}

\* u is t without [s, e) of p: one range is split and its right part in slot f ...
SplitAt(u, t, p, s, e, k, f) ==
  /\ t[k].pid = p /\ t[f].pid = NoPid
  /\ t[k].start < s /\ s < Norm(e) /\ Norm(e) < Norm(t[k].end) /\ Norm(e) = e
  /\ \A i \in Slot : i \notin {k, f} => i \notin Cut(t, p, s, e) /\ u[i] = t[i]
  /\ u[k] = [t[k] EXCEPT !.end = s]
  /\ u[f] = [t[k] EXCEPT !.start = e]

\* ... or each range is left alone, cut at its end or at its start, or freed.
CutAt(u, t, p, s, e, i) ==
  \/ i \notin Cut(t, p, s, e) /\ u[i] = t[i]
  \/ /\ i \in Cut(t, p, s, e) /\ t[i].start < s /\ Norm(t[i].end) <= Norm(e)
     /\ u[i] = [t[i] EXCEPT !.end = s]
  \/ /\ i \in Cut(t, p, s, e) /\ t[i].start >= s /\ Norm(t[i].end) > Norm(e) /\ Norm(e) = e
     /\ u[i] = [t[i] EXCEPT !.start = e]
  \/ /\ i \in Cut(t, p, s, e) /\ t[i].start >= s /\ Norm(t[i].end) <= Norm(e)
     /\ u[i] = FreeSlot

\* The outcomes of carve_pid_range.
LEMMA CarveOutcome ==
  ASSUME NEW t \in GoodTable, NEW p \in Owner, NEW s, NEW e, Proper(s, e)
  PROVE  LET c == Carve(t, p, s, e) IN
         /\ c.ok \in BOOLEAN
         /\ Cut(t, p, s, e) = {} => c.ok
         /\ ~c.ok => c.lk = t
         /\ c.ok => \/ \E k, f \in Slot : SplitAt(c.lk, t, p, s, e, k, f)
                    \/ \A i \in Slot : CutAt(c.lk, t, p, s, e, i)
         /\ c.ok => \E h : c.lk = [i \in Slot |-> h[i]]
  <1> DEFINE cut == {i \in Slot : t[i].pid = p /\ Overlap(s, e, t[i].start, t[i].end)}
             left == {i \in cut : t[i].start < s}
             right == {i \in cut : Norm(t[i].end) > Norm(e)}
             split == left \cap right
             ok == split = {} \/ FreeSlots(t) # {}
             remnant(i) == CASE i \in left -> [t[i] EXCEPT !.end = s]
                             [] i \in right \ left -> [t[i] EXCEPT !.start = e]
                             [] i \in cut \ (left \cup right) -> FreeSlot
                             [] i \notin cut -> t[i]
             k == CHOOSE j \in split : TRUE
             f == FirstFree(t)
             u == IF ~ok THEN t
                  ELSE [i \in Slot |-> IF split # {} /\ i = f
                                       THEN [t[k] EXCEPT !.start = e]
                                       ELSE remnant(i)]
  <1>1. Carve(t, p, s, e) = [ok |-> ok, lk |-> u]
    BY Zenon DEF Carve
  <1>2. split # {} => k \in split
    <2> HIDE DEF split
    <2> QED
      BY Zenon DEF k
  <1>3. FreeSlots(t) # {} => f \in FreeSlots(t)
    BY FirstFreeIs, Zenon
  <1> HIDE DEF k, f
  <1>4. /\ Carve(t, p, s, e).ok = ok /\ ok \in BOOLEAN /\ (~ok => Carve(t, p, s, e).lk = t)
        /\ ok => Carve(t, p, s, e).lk = [i \in Slot |-> IF split # {} /\ i = f
                                                        THEN [t[k] EXCEPT !.start = e]
                                                        ELSE remnant(i)]
    <2> HIDE DEF split, remnant
    <2> QED
      BY <1>1
  <1>5. Cut(t, p, s, e) = cut
    BY DEF Cut
  <1>6. /\ \A i \in Slot : t[i].start \in 0 .. MaxOff /\ Norm(t[i].end) \in 0 .. MaxOff
        /\ s \in 0 .. MaxOff /\ Norm(e) \in 0 .. MaxOff /\ MaxOff \in Nat
        /\ p # NoPid
    BY FileLockAssumption, NormType DEF GoodTable, Entry, Proper, Owner, NoPid
  <1>7. \A i \in right : Norm(e) = e
    BY <1>6, FileLockAssumption DEF Norm
  <1> HIDE DEF remnant, u
  <1>8. ASSUME ok, split = {}, NEW i \in Slot PROVE CutAt(Carve(t, p, s, e).lk, t, p, s, e, i)
    <2>1. Carve(t, p, s, e).lk[i] = remnant(i)
      BY <1>4, <1>8
    <2>2. CASE i \notin cut
      BY <1>5, <2>1, <2>2 DEF CutAt, remnant
    <2>3. CASE i \in left
      <3>1. i \notin right /\ remnant(i) = [t[i] EXCEPT !.end = s]
        BY <1>8, <2>3 DEF remnant
      <3> QED
        BY <1>5, <1>6, <2>1, <2>3, <3>1 DEF CutAt
    <2>4. CASE i \in right \ left
      <3>1. remnant(i) = [t[i] EXCEPT !.start = e] /\ Norm(e) = e
        BY <1>7, <2>4 DEF remnant
      <3> QED
        BY <1>5, <1>6, <2>1, <2>4, <3>1 DEF CutAt
    <2>5. CASE i \in cut \ (left \cup right)
      <3>1. remnant(i) = FreeSlot
        BY <2>5 DEF remnant
      <3> QED
        BY <1>5, <1>6, <2>1, <2>5, <3>1 DEF CutAt
    <2> QED
      BY <2>2, <2>3, <2>4, <2>5
  <1>9. ASSUME ok, split # {} PROVE SplitAt(Carve(t, p, s, e).lk, t, p, s, e, k, f) /\ k \in Slot /\ f \in Slot
    <2>1. k \in split /\ f \in Slot /\ t[f].pid = NoPid
      BY <1>2, <1>3, <1>9 DEF FreeSlots
    <2>2. k \in Slot /\ t[k].pid = p /\ t[k].start < s /\ Norm(e) < Norm(t[k].end) /\ Norm(e) = e
          /\ Overlap(s, e, t[k].start, t[k].end)
      BY <1>6, <1>7, <2>1
    <2>3. s < Norm(e)
      BY <1>6, <2>2 DEF Proper, Overlap
    <2>4. ASSUME NEW i \in cut PROVE i = k
      <3>1. Overlap(s, e, t[i].start, t[i].end) /\ i \in Slot /\ t[i].pid = p
        OBVIOUS
      <3>2. Overlap(t[k].start, t[k].end, t[i].start, t[i].end)
        BY <1>6, <2>2, <3>1 DEF Overlap
      <3> QED
        BY <1>6, <2>2, <3>1, <3>2 DEF GoodTable
    <2>5. ASSUME NEW i \in Slot, i \notin {k, f} PROVE i \notin cut /\ Carve(t, p, s, e).lk[i] = t[i]
      <3>1. i \notin cut
        BY <2>4, <2>5
      <3>2. remnant(i) = t[i]
        BY <3>1 DEF remnant
      <3> QED
        BY <1>4, <1>9, <2>5, <3>1, <3>2
    <2>6. k # f
      BY <1>6, <2>1, <2>2
    <2>7. Carve(t, p, s, e).lk[k] = [t[k] EXCEPT !.end = s]
      <3>1. remnant(k) = [t[k] EXCEPT !.end = s]
        BY <2>1 DEF remnant
      <3> QED
        BY <1>4, <1>9, <2>2, <2>6, <3>1
    <2>8. Carve(t, p, s, e).lk[f] = [t[k] EXCEPT !.start = e]
      BY <1>4, <1>9, <2>1
    <2> QED
      BY <1>5, <2>1, <2>2, <2>3, <2>5, <2>7, <2>8 DEF SplitAt
  <1>10. Cut(t, p, s, e) = {} => ok
    BY <1>5
  <1>11. ok => \E h : Carve(t, p, s, e).lk = [i \in Slot |-> h[i]]
    <2> HIDE DEF split
    <2> DEFINE h == [i \in Slot |-> IF split # {} /\ i = f THEN [t[k] EXCEPT !.start = e] ELSE remnant(i)]
    <2>1. ok => Carve(t, p, s, e).lk = [i \in Slot |-> h[i]]
      BY <1>4
    <2> HIDE DEF h
    <2> QED
      BY <2>1
  <1> HIDE DEF ok, split
  <1> QED
    BY <1>4, <1>8, <1>9, <1>10, <1>11

\* Slot i of u holds a part of the range in slot o of t.
PartOf(u, i, t, o) ==
  /\ t[o].pid = u[i].pid /\ t[o].type = u[i].type
  /\ t[o].start <= u[i].start /\ Norm(u[i].end) <= Norm(t[o].end)

\* u is t without the bytes [s, e) of p, org being where each of its ranges comes from.
Carved(u, t, p, s, e, org) ==
  /\ u \in [Slot -> Entry] /\ org \in [Slot -> Slot]
  /\ \A i \in Slot : u[i].pid # NoPid => PartOf(u, i, t, org[i]) /\ Proper(u[i].start, u[i].end)
  /\ \A i \in Slot : u[i].pid # NoPid /\ u[i].pid # p => u[i] = t[i] /\ org[i] = i
  /\ \A i \in Slot : t[i].pid # NoPid /\ t[i].pid # p => u[i] = t[i]
  /\ \A i \in Slot : u[i].pid = p => ~Overlap(s, e, u[i].start, u[i].end)
  /\ \A i, j \in Slot : i # j /\ u[i].pid = p /\ u[j].pid = p /\ org[i] = org[j] =>
       s < Norm(e) /\ (\/ Norm(u[i].end) <= s /\ Norm(e) <= u[j].start
                       \/ Norm(u[j].end) <= s /\ Norm(e) <= u[i].start)
  /\ \A o \in Slot, b \in Byte :
       t[o].pid = p /\ b \in Bytes(t[o].start, t[o].end) /\ b \notin Bytes(s, e) =>
         \E i \in Slot : u[i].pid = p /\ u[i].type = t[o].type /\ b \in Bytes(u[i].start, u[i].end)

\* A cut range is an entry and a part of what it was cut from.
LEMMA CutParts ==
  ASSUME NEW a \in Entry, NEW s \in 0 .. MaxOff, NEW e \in 0 .. MaxOff
  PROVE  LET l == [a EXCEPT !.end = s]
             r == [a EXCEPT !.start = e]
         IN /\ l \in Entry /\ l.pid = a.pid /\ l.type = a.type /\ l.start = a.start /\ Norm(l.end) = s
            /\ l.end = s
            /\ r \in Entry /\ r.pid = a.pid /\ r.type = a.type /\ r.start = e /\ r.end = a.end
  <1>1. s \in EOF .. MaxOff /\ Norm(s) = s
    BY FileLockAssumption DEF EOF, Norm
  <1> QED
    BY <1>1 DEF Entry

\* carve_pid_range takes the bytes [s, e) from p and nothing else.
LEMMA CarveCarves ==
  ASSUME NEW t \in GoodTable, NEW p \in Owner, NEW s, NEW e, Proper(s, e), Carve(t, p, s, e).ok
  PROVE  \E org : Carved(Carve(t, p, s, e).lk, t, p, s, e, org)
  <1> DEFINE u == Carve(t, p, s, e).lk
  <1>1. /\ \/ \E k, f \in Slot : SplitAt(u, t, p, s, e, k, f)
           \/ \A i \in Slot : CutAt(u, t, p, s, e, i)
        /\ \E h : u = [i \in Slot |-> h[i]]
    BY CarveOutcome
  <1> HIDE DEF u
  <1>2. /\ t \in [Slot -> Entry]
        /\ \A i \in Slot : t[i].start \in 0 .. MaxOff /\ Norm(t[i].end) \in 0 .. MaxOff /\ t[i].end \in EOF .. MaxOff
        /\ s \in 0 .. MaxOff /\ e \in EOF .. MaxOff /\ Norm(e) \in 0 .. MaxOff /\ MaxOff \in Nat
        /\ p # NoPid /\ FreeSlot.pid = NoPid
        /\ \A i \in Slot : t[i].pid # NoPid => Proper(t[i].start, t[i].end)
    BY FileLockAssumption, NormType DEF GoodTable, Entry, Proper, Owner, NoPid, FreeSlot
  <1>3. ASSUME NEW i \in Slot, i \in Cut(t, p, s, e)
        PROVE  t[i].pid = p /\ s < Norm(t[i].end) /\ t[i].start < Norm(e) /\ s < Norm(e)
    <2>1. t[i].pid = p /\ s < Norm(t[i].end) /\ t[i].start < Norm(e)
      BY <1>3 DEF Cut, Overlap
    <2> QED
      BY <1>2, <2>1 DEF Proper
  <1>4. CASE \E k, f \in Slot : SplitAt(u, t, p, s, e, k, f)
    <2>1. PICK k \in Slot, f \in Slot : SplitAt(u, t, p, s, e, k, f)
      BY <1>4
    <2>2. /\ t[k].pid = p /\ t[f].pid = NoPid /\ k # f
          /\ t[k].start < s /\ s < Norm(e) /\ Norm(e) < Norm(t[k].end) /\ Norm(e) = e
          /\ \A i \in Slot : i \notin {k, f} => i \notin Cut(t, p, s, e) /\ u[i] = t[i]
      BY <1>2, <2>1 DEF SplitAt
    <2>3. /\ u[k] \in Entry /\ u[k].pid = p /\ u[k].type = t[k].type /\ u[k].start = t[k].start
          /\ Norm(u[k].end) = s /\ u[k].end = s
          /\ u[f] \in Entry /\ u[f].pid = p /\ u[f].type = t[k].type /\ u[f].start = e
          /\ u[f].end = t[k].end
      <3> DEFINE l == [t[k] EXCEPT !.end = s]
                 r == [t[k] EXCEPT !.start = e]
      <3>1. t[k] \in Entry /\ s \in 0 .. MaxOff /\ e \in 0 .. MaxOff
        BY <1>2, <2>2
      <3>2. /\ l \in Entry /\ l.pid = t[k].pid /\ l.type = t[k].type /\ l.start = t[k].start /\ Norm(l.end) = s
            /\ l.end = s
            /\ r \in Entry /\ r.pid = t[k].pid /\ r.type = t[k].type /\ r.start = e /\ r.end = t[k].end
        BY <3>1, CutParts
      <3>3. u[k] = l /\ u[f] = r
        BY <2>1 DEF SplitAt
      <3> HIDE DEF l, r
      <3> QED
        BY <2>2, <3>2, <3>3
    <2> DEFINE org == [i \in Slot |-> IF i = f THEN k ELSE i]
    <2>4. u \in [Slot -> Entry] /\ org \in [Slot -> Slot]
      BY <1>1, <1>2, <2>2, <2>3
    <2>5. org[f] = k /\ \A i \in Slot : i # f => org[i] = i
      OBVIOUS
    <2> HIDE DEF org
    <2>6. ASSUME NEW i \in Slot, u[i].pid # NoPid
          PROVE  PartOf(u, i, t, org[i]) /\ Proper(u[i].start, u[i].end)
      <3>1. CASE i = k
        BY <1>2, <2>2, <2>3, <2>5, <3>1 DEF PartOf, Proper, EOF
      <3>2. CASE i = f
        BY <1>2, <2>2, <2>3, <2>5, <3>2 DEF PartOf, Proper
      <3>3. CASE i \notin {k, f}
        BY <1>2, <2>2, <2>5, <2>6, <3>3 DEF PartOf
      <3> QED
        BY <3>1, <3>2, <3>3
    <2>7. ASSUME NEW i \in Slot
          PROVE  /\ u[i].pid # NoPid /\ u[i].pid # p => u[i] = t[i] /\ org[i] = i
                 /\ t[i].pid # NoPid /\ t[i].pid # p => u[i] = t[i]
      BY <2>2, <2>3, <2>5
    <2>8. ASSUME NEW i \in Slot, u[i].pid = p PROVE ~Overlap(s, e, u[i].start, u[i].end)
      <3>1. CASE i \in {k, f}
        BY <1>2, <2>2, <2>3, <3>1 DEF Overlap
      <3>2. CASE i \notin {k, f}
        BY <2>2, <2>8, <3>2 DEF Cut
      <3> QED
        BY <3>1, <3>2
    <2>9. ASSUME NEW i \in Slot, NEW j \in Slot, i # j, org[i] = org[j]
          PROVE  s < Norm(e) /\ (\/ Norm(u[i].end) <= s /\ Norm(e) <= u[j].start
                                 \/ Norm(u[j].end) <= s /\ Norm(e) <= u[i].start)
      <3>1. {i, j} = {k, f}
        BY <2>5, <2>9
      <3> QED
        BY <1>2, <2>2, <2>3, <3>1, <2>9
    <2>10. ASSUME NEW o \in Slot, NEW b \in Byte, t[o].pid = p,
                  b \in Bytes(t[o].start, t[o].end), b \notin Bytes(s, e)
           PROVE  \E i \in Slot : u[i].pid = p /\ u[i].type = t[o].type /\ b \in Bytes(u[i].start, u[i].end)
      <3>1. o # f
        BY <1>2, <2>2, <2>10
      <3>2. CASE o # k
        BY <2>2, <2>10, <3>1, <3>2
      <3>3. CASE o = k
        <4>1. b \in Bytes(u[k].start, u[k].end) \/ b \in Bytes(u[f].start, u[f].end)
          <5>1. b \in Int
            BY <1>2 DEF Byte
          <5> QED
            BY <1>2, <2>2, <2>3, <2>10, <3>3, <5>1 DEF Bytes
        <4> QED
          BY <2>3, <3>3, <4>1
      <3> QED
        BY <3>2, <3>3
    <2>11. Carved(u, t, p, s, e, org)
      BY <2>4, <2>6, <2>7, <2>8, <2>9, <2>10 DEF Carved
    <2> QED
      BY <2>11 DEF u
  <1>5. CASE \A i \in Slot : CutAt(u, t, p, s, e, i)
    <2> DEFINE org == [i \in Slot |-> i]
               L(i) == /\ i \in Cut(t, p, s, e) /\ t[i].start < s /\ Norm(t[i].end) <= Norm(e)
                       /\ u[i] \in Entry /\ u[i].pid = t[i].pid /\ u[i].type = t[i].type
                       /\ u[i].start = t[i].start /\ Norm(u[i].end) = s /\ u[i].end = s
               R(i) == /\ i \in Cut(t, p, s, e) /\ t[i].start >= s /\ Norm(e) < Norm(t[i].end) /\ Norm(e) = e
                       /\ u[i] \in Entry /\ u[i].pid = t[i].pid /\ u[i].type = t[i].type
                       /\ u[i].start = e /\ u[i].end = t[i].end
               Z(i) == /\ i \in Cut(t, p, s, e) /\ t[i].start >= s /\ Norm(t[i].end) <= Norm(e)
                       /\ u[i] = FreeSlot
               K(i) == i \notin Cut(t, p, s, e) /\ u[i] = t[i]
    <2>1. ASSUME NEW i \in Slot PROVE L(i) \/ R(i) \/ Z(i) \/ K(i)
      <3>1. CutAt(u, t, p, s, e, i) /\ t[i] \in Entry
        BY <1>2, <1>5
      <3>2. ASSUME /\ i \in Cut(t, p, s, e) /\ t[i].start < s /\ Norm(t[i].end) <= Norm(e)
                   /\ u[i] = [t[i] EXCEPT !.end = s]
            PROVE  L(i)
        <4>1. 0 \in 0 .. MaxOff /\ s \in 0 .. MaxOff /\ t[i] \in Entry
          BY <1>2
        <4> DEFINE l == [t[i] EXCEPT !.end = s]
        <4>2. /\ l \in Entry /\ l.pid = t[i].pid /\ l.type = t[i].type /\ l.start = t[i].start
              /\ Norm(l.end) = s /\ l.end = s
          BY <4>1, CutParts
        <4> HIDE DEF l
        <4>3. u[i] = l
          BY <3>2 DEF l
        <4> QED
          BY <3>2, <4>2, <4>3
      <3>3. ASSUME /\ i \in Cut(t, p, s, e) /\ t[i].start >= s /\ Norm(t[i].end) > Norm(e) /\ Norm(e) = e
                   /\ u[i] = [t[i] EXCEPT !.start = e]
            PROVE  R(i)
        <4>1. e \in 0 .. MaxOff /\ s \in 0 .. MaxOff /\ t[i] \in Entry /\ Norm(e) < Norm(t[i].end)
          BY <1>2, <3>3
        <4> DEFINE r == [t[i] EXCEPT !.start = e]
        <4>2. r \in Entry /\ r.pid = t[i].pid /\ r.type = t[i].type /\ r.start = e /\ r.end = t[i].end
          BY <4>1 DEF Entry
        <4> HIDE DEF r
        <4>3. u[i] = r
          BY <3>3 DEF r
        <4> QED
          BY <3>3, <4>1, <4>2, <4>3
      <3> HIDE DEF L, R
      <3> QED
        BY <3>1, <3>2, <3>3 DEF CutAt
    <2>2. u \in [Slot -> Entry] /\ org \in [Slot -> Slot]
      <3>1. \A i \in Slot : u[i] \in Entry
        BY <1>2, <2>1, FreeSlotType
      <3> QED
        BY <1>1, <3>1
    <2>3. \A i \in Slot : org[i] = i
      OBVIOUS
    <2> HIDE DEF org
    <2>4. ASSUME NEW i \in Slot, u[i].pid # NoPid
          PROVE  PartOf(u, i, t, org[i]) /\ Proper(u[i].start, u[i].end)
      <3>1. CASE L(i)
        BY <1>2, <1>3, <2>3, <3>1 DEF PartOf, Proper, EOF
      <3>2. CASE R(i)
        BY <1>2, <1>3, <2>3, <3>2 DEF PartOf, Proper
      <3>3. CASE K(i)
        BY <1>2, <2>3, <2>4, <3>3 DEF PartOf
      <3> QED
        BY <1>2, <2>1, <2>4, <3>1, <3>2, <3>3
    <2>5. ASSUME NEW i \in Slot
          PROVE  /\ u[i].pid # NoPid /\ u[i].pid # p => u[i] = t[i] /\ org[i] = i
                 /\ t[i].pid # NoPid /\ t[i].pid # p => u[i] = t[i]
      BY <1>2, <1>3, <2>1, <2>3
    <2>6. ASSUME NEW i \in Slot, u[i].pid = p PROVE ~Overlap(s, e, u[i].start, u[i].end)
      <3>1. CASE L(i)
        BY <1>2, <3>1 DEF Overlap
      <3>2. CASE R(i)
        BY <1>2, <3>2 DEF Overlap
      <3>3. CASE K(i)
        BY <2>6, <3>3 DEF Cut
      <3> QED
        BY <1>2, <2>1, <2>6, <3>1, <3>2, <3>3
    <2>7. ASSUME NEW o \in Slot, NEW b \in Byte, t[o].pid = p,
                 b \in Bytes(t[o].start, t[o].end), b \notin Bytes(s, e)
          PROVE  u[o].pid = p /\ u[o].type = t[o].type /\ b \in Bytes(u[o].start, u[o].end)
      <3>1. b \in Int
        BY <1>2 DEF Byte
      <3>2. CASE L(o)
        BY <1>2, <2>7, <3>1, <3>2 DEF Bytes
      <3>3. CASE R(o)
        BY <1>2, <2>7, <3>1, <3>3 DEF Bytes
      <3>4. CASE Z(o)
        BY <1>2, <2>7, <3>1, <3>4 DEF Bytes
      <3>5. CASE K(o)
        BY <2>7, <3>5
      <3> QED
        BY <2>1, <3>2, <3>3, <3>4, <3>5
    <2>8. Carved(u, t, p, s, e, org)
      BY <2>2, <2>3, <2>4, <2>5, <2>6, <2>7 DEF Carved
    <2> QED
      BY <2>8 DEF u
  <1> QED
    BY <1>1, <1>4, <1>5

\* What a carve does, whether or not it finds the slot it may need: the table stays
\* good, nothing of p is left in the way, and no two parts touch.
LEMMA CarveKeeps ==
  ASSUME NEW t \in GoodTable, NEW p \in Owner, NEW s, NEW e, Proper(s, e)
  PROVE  LET c == Carve(t, p, s, e) IN
         /\ c.lk \in GoodTable
         /\ \A i \in Slot : t[i].pid # NoPid /\ t[i].pid # p => c.lk[i] = t[i]
         /\ \A i \in Slot : c.lk[i].pid # NoPid /\ c.lk[i].pid # p => c.lk[i] = t[i]
         /\ (\A q \in Owner : Apart(t, q)) => \A q \in Owner : Apart(c.lk, q)
         /\ ~c.ok => c.lk = t
         /\ c.ok => /\ \A i \in Slot : c.lk[i].pid = p => ~Overlap(s, e, c.lk[i].start, c.lk[i].end)
                    /\ \A b \in Byte, m \in {"R", "W"} :
                         Holds(c.lk, p, b, m) <=> Holds(t, p, b, m) /\ b \notin Bytes(s, e)
  <1> DEFINE c == Carve(t, p, s, e)
             u == c.lk
  <1>1. c.ok \in BOOLEAN /\ (~c.ok => u = t)
    BY CarveOutcome
  <1>2. CASE ~c.ok
    BY <1>1, <1>2
  <1>3. CASE c.ok
    <2>1. PICK org : Carved(u, t, p, s, e, org)
      BY <1>3, CarveCarves
    <2> HIDE DEF c, u
    <2>2. /\ t \in [Slot -> Entry] /\ u \in [Slot -> Entry]
          /\ \A i \in Slot : /\ t[i].start \in 0 .. MaxOff /\ Norm(t[i].end) \in 0 .. MaxOff
                             /\ u[i].start \in 0 .. MaxOff /\ Norm(u[i].end) \in 0 .. MaxOff
          /\ s \in 0 .. MaxOff /\ Norm(e) \in 0 .. MaxOff /\ MaxOff \in Nat /\ p # NoPid
          /\ \A i \in Slot : org[i] \in Slot
      <3>1. t \in [Slot -> Entry] /\ u \in [Slot -> Entry] /\ \A i \in Slot : org[i] \in Slot
        BY <2>1 DEF GoodTable, Carved
      <3>2. s \in 0 .. MaxOff /\ Norm(e) \in 0 .. MaxOff /\ MaxOff \in Nat /\ p # NoPid
        BY FileLockAssumption, NormType DEF Proper, Owner, NoPid
      <3>3. \A i \in Slot : /\ t[i].start \in 0 .. MaxOff /\ Norm(t[i].end) \in 0 .. MaxOff
                            /\ u[i].start \in 0 .. MaxOff /\ Norm(u[i].end) \in 0 .. MaxOff
        BY <3>1, NormType DEF Entry
      <3> QED
        BY <3>1, <3>2, <3>3
    <2>3. ASSUME NEW i \in Slot, u[i].pid # NoPid
          PROVE  /\ t[org[i]].pid = u[i].pid /\ t[org[i]].type = u[i].type
                 /\ t[org[i]].start <= u[i].start /\ Norm(u[i].end) <= Norm(t[org[i]].end)
                 /\ Proper(u[i].start, u[i].end)
      BY <2>1, <2>3 DEF Carved, PartOf
    <2>4. ASSUME NEW i \in Slot, NEW j \in Slot, i # j, u[i].pid # NoPid, u[i].pid = u[j].pid
          PROVE  \/ org[i] # org[j]
                 \/ Norm(u[i].end) < u[j].start
                 \/ Norm(u[j].end) < u[i].start
      <3>1. CASE u[i].pid = p
        <4>1. org[i] = org[j] =>
                s < Norm(e) /\ (\/ Norm(u[i].end) <= s /\ Norm(e) <= u[j].start
                                \/ Norm(u[j].end) <= s /\ Norm(e) <= u[i].start)
          BY <2>1, <2>4, <3>1 DEF Carved
        <4> QED
          BY <2>2, <4>1
      <3>2. CASE u[i].pid # p
        BY <2>1, <2>4, <3>2 DEF Carved
      <3> QED
        BY <3>1, <3>2
    <2>5. u \in GoodTable
      <3>1. ASSUME NEW i \in Slot, NEW j \in Slot, i # j, u[i].pid # NoPid, u[i].pid = u[j].pid
            PROVE  ~Overlap(u[i].start, u[i].end, u[j].start, u[j].end)
        <4>1. CASE org[i] # org[j]
          <5>1. ~Overlap(t[org[i]].start, t[org[i]].end, t[org[j]].start, t[org[j]].end)
            BY <2>2, <2>3, <3>1, <4>1 DEF GoodTable
          <5>2. /\ t[org[i]].start <= u[i].start /\ Norm(u[i].end) <= Norm(t[org[i]].end)
                /\ t[org[j]].start <= u[j].start /\ Norm(u[j].end) <= Norm(t[org[j]].end)
            BY <2>3, <3>1
          <5> QED
            BY <2>2, <5>1, <5>2 DEF Overlap
        <4>2. CASE Norm(u[i].end) < u[j].start \/ Norm(u[j].end) < u[i].start
          BY <2>2, <4>2 DEF Overlap
        <4> QED
          BY <2>4, <3>1, <4>1, <4>2
      <3> QED
        BY <2>2, <2>3, <3>1 DEF GoodTable
    <2>6. ASSUME \A q \in Owner : Apart(t, q), NEW q \in Owner PROVE Apart(u, q)
      <3> SUFFICES ASSUME NEW i \in Slot, NEW j \in Slot, i # j, u[i].pid = q, u[j].pid = q,
                          u[i].type = u[j].type
                   PROVE  ~Touch(u[i], u[j])
        BY DEF Apart
      <3>1. q # NoPid
        BY DEF Owner, NoPid
      <3>2. CASE org[i] # org[j]
        <4>1. /\ t[org[i]].start <= u[i].start /\ Norm(u[i].end) <= Norm(t[org[i]].end)
              /\ t[org[j]].start <= u[j].start /\ Norm(u[j].end) <= Norm(t[org[j]].end)
              /\ t[org[i]].pid = q /\ t[org[j]].pid = q /\ t[org[i]].type = t[org[j]].type
          BY <2>3, <3>1
        <4>2. ~Touch(t[org[i]], t[org[j]])
          BY <2>2, <2>6, <3>2, <4>1 DEF Apart
        <4> QED
          BY <2>2, <4>1, <4>2 DEF Touch
      <3>3. CASE Norm(u[i].end) < u[j].start \/ Norm(u[j].end) < u[i].start
        BY <2>2, <3>3 DEF Touch
      <3> QED
        BY <2>4, <3>1, <3>2, <3>3
    <2>7. ASSUME NEW b \in Byte, NEW m \in {"R", "W"}
          PROVE  Holds(u, p, b, m) <=> Holds(t, p, b, m) /\ b \notin Bytes(s, e)
      <3>0. b \in Int
        BY <2>2 DEF Byte
      <3>1. ASSUME Holds(u, p, b, m) PROVE Holds(t, p, b, m) /\ b \notin Bytes(s, e)
        <4>1. PICK i \in Slot : u[i].pid = p /\ u[i].type = m /\ b \in Bytes(u[i].start, u[i].end)
          BY <3>1 DEF Holds
        <4>2. ~Overlap(s, e, u[i].start, u[i].end)
          BY <2>1, <4>1 DEF Carved
        <4>3. b \notin Bytes(s, e)
          BY <2>2, <3>0, <4>1, <4>2 DEF Overlap, Bytes
        <4>4. b \in Bytes(t[org[i]].start, t[org[i]].end)
          BY <2>2, <2>3, <3>0, <4>1 DEF Bytes
        <4> QED
          BY <2>2, <2>3, <4>1, <4>3, <4>4 DEF Holds
      <3>2. ASSUME Holds(t, p, b, m), b \notin Bytes(s, e) PROVE Holds(u, p, b, m)
        <4>1. PICK o \in Slot : t[o].pid = p /\ t[o].type = m /\ b \in Bytes(t[o].start, t[o].end)
          BY <3>2 DEF Holds
        <4>2. \E i \in Slot : u[i].pid = p /\ u[i].type = t[o].type /\ b \in Bytes(u[i].start, u[i].end)
          BY <2>1, <3>2, <4>1 DEF Carved
        <4> QED
          BY <4>1, <4>2 DEF Holds
      <3> QED
        BY <3>1, <3>2
    <2>8. /\ \A i \in Slot : t[i].pid # NoPid /\ t[i].pid # p => u[i] = t[i]
          /\ \A i \in Slot : u[i].pid # NoPid /\ u[i].pid # p => u[i] = t[i]
          /\ \A i \in Slot : u[i].pid = p => ~Overlap(s, e, u[i].start, u[i].end)
      BY <2>1 DEF Carved
    <2> QED
      BY <1>3, <2>5, <2>6, <2>7, <2>8 DEF u, c
  <1> QED
    BY <1>1, <1>2, <1>3

\* A carve that takes no byte from p leaves the table as it is.
LEMMA CarveNothing ==
  ASSUME NEW t \in GoodTable, NEW p \in Owner, NEW s, NEW e, Proper(s, e),
         Held(Carve(t, p, s, e).lk, p) = Held(t, p)
  PROVE  Carve(t, p, s, e).lk = t
  <1> DEFINE c == Carve(t, p, s, e)
             u == c.lk
  <1>1. c.ok \in BOOLEAN /\ (~c.ok => u = t)
    BY CarveOutcome
  <1>2. CASE c.ok
    <2>1. \A b \in Byte, m \in {"R", "W"} : Holds(u, p, b, m) => b \notin Bytes(s, e)
      BY <1>2, CarveKeeps
    <2>2. /\ \A i \in Slot : t[i].start \in 0 .. MaxOff /\ Norm(t[i].end) \in 0 .. MaxOff /\ t[i].type \in {"R", "W"}
          /\ u \in [Slot -> Entry] /\ t \in [Slot -> Entry]
          /\ s \in 0 .. MaxOff /\ Norm(e) \in 0 .. MaxOff /\ MaxOff \in Nat /\ p # NoPid
          /\ \A i \in Slot : t[i].pid # NoPid => Proper(t[i].start, t[i].end)
      <3>1. u \in GoodTable
        BY CarveKeeps
      <3> HIDE DEF u
      <3>2. u \in [Slot -> Entry] /\ t \in [Slot -> Entry]
            /\ \A i \in Slot : t[i].pid # NoPid => Proper(t[i].start, t[i].end)
        BY <3>1 DEF GoodTable
      <3>3. s \in 0 .. MaxOff /\ Norm(e) \in 0 .. MaxOff /\ MaxOff \in Nat /\ p # NoPid
        BY FileLockAssumption, NormType DEF Proper, Owner, NoPid
      <3>4. \A i \in Slot : t[i].start \in 0 .. MaxOff /\ Norm(t[i].end) \in 0 .. MaxOff /\ t[i].type \in {"R", "W"}
        BY <3>2, NormType DEF Entry
      <3> QED
        BY <3>2, <3>3, <3>4
    <2>3. /\ \/ \E k, f \in Slot : SplitAt(u, t, p, s, e, k, f)
             \/ \A i \in Slot : CutAt(u, t, p, s, e, i)
      BY <1>2, CarveOutcome
    <2> HIDE DEF c, u
    <2>4. ASSUME NEW i \in Slot, t[i].pid = p, Overlap(s, e, t[i].start, t[i].end) PROVE FALSE
      <3> DEFINE b == IF s < t[i].start THEN t[i].start ELSE s
      <3>1. s < Norm(t[i].end) /\ t[i].start < Norm(e) /\ s < Norm(e) /\ t[i].start < Norm(t[i].end)
        BY <2>2, <2>4 DEF Overlap, Proper
      <3>2. b \in Byte /\ b \in Bytes(s, e) /\ b \in Bytes(t[i].start, t[i].end)
        BY <2>2, <3>1 DEF Bytes, Byte
      <3> HIDE DEF b
      <3>3. b \in Held(t, p)
        BY <2>4, <3>2 DEF Held
      <3>4. b \in Held(u, p)
        BY <3>3 DEF u, c
      <3>5. PICK j \in Slot : u[j].pid = p /\ b \in Bytes(u[j].start, u[j].end)
        BY <3>4 DEF Held
      <3>6. u[j].type \in {"R", "W"}
        BY <2>2 DEF Entry
      <3> QED
        BY <2>1, <3>2, <3>5, <3>6 DEF Holds
    <2>5. Cut(t, p, s, e) = {}
      BY <2>4 DEF Cut
    <2>6. ASSUME NEW k \in Slot, NEW f \in Slot, SplitAt(u, t, p, s, e, k, f) PROVE FALSE
      <3>1. Overlap(s, e, t[k].start, t[k].end) /\ t[k].pid = p
        BY <2>2, <2>6 DEF SplitAt, Overlap
      <3> QED
        BY <2>4, <3>1
    <2>7. \A i \in Slot : u[i] = t[i]
      BY <2>3, <2>5, <2>6 DEF CutAt
    <2> QED
      BY <2>2, <2>7 DEF u, c
  <1> QED
    BY <1>1, <1>2

\* The table after a granted request: its owner holds the bytes in the mode it asked
\* for, keeps the others, and nobody else's ranges have changed.
LEMMA InsertedKeeps ==
  ASSUME NEW t \in GoodTable, NEW p \in Owner, FreeSlots(t) # {},
         NEW r, r.type \in {"R", "W"}, Proper(r.start, r.end),
         \A i \in Slot : t[i].pid = p => ~Overlap(r.start, r.end, t[i].start, t[i].end),
         \A q \in Owner : Apart(t, q)
  PROVE  LET u == Inserted(t, p, r) IN
         /\ u \in GoodTable
         /\ \A q \in Owner : Apart(u, q)
         /\ \A q \in Owner, b \in Byte, m \in {"R", "W"} :
              Holds(u, q, b, m) <=>
                Holds(t, q, b, m) \/ (q = p /\ m = r.type /\ b \in Bytes(r.start, r.end))
  <1> DEFINE f == FirstFree(t)
             d == [pid |-> p, type |-> r.type, start |-> r.start, end |-> r.end]
             v == [t EXCEPT ![f] = d]
             u == Coalesce(v, p)
  <1>1. Inserted(t, p, r) = u
    BY Zenon DEF Inserted
  <1>2. f \in Slot /\ t[f].pid = NoPid
    <2> HIDE DEF f
    <2>1. f \in FreeSlots(t)
      BY FirstFreeIs, Zenon DEF f
    <2> QED
      BY <2>1 DEF FreeSlots
  <1> HIDE DEF f
  <1>3. /\ t \in [Slot -> Entry] /\ p # NoPid /\ d \in Entry
        /\ d.pid = p /\ d.type = r.type /\ d.start = r.start /\ d.end = r.end
    BY FileLockAssumption DEF GoodTable, Owner, NoPid, Entry, Proper
  <1>4. v \in [Slot -> Entry] /\ v[f] = d /\ \A i \in Slot : i # f => v[i] = t[i]
    BY <1>2, <1>3
  <1> HIDE DEF d, v
  <1>5. v \in GoodTable
    <2>1. \A i \in Slot : v[i].pid # NoPid => Proper(v[i].start, v[i].end)
      BY <1>3, <1>4 DEF GoodTable
    <2>2. ASSUME NEW i \in Slot, NEW j \in Slot, i # j, v[i].pid # NoPid, v[i].pid = v[j].pid
          PROVE  ~Overlap(v[i].start, v[i].end, v[j].start, v[j].end)
      <3>1. CASE i # f /\ j # f
        BY <1>4, <2>2, <3>1 DEF GoodTable
      <3>2. CASE i = f
        BY <1>3, <1>4, <2>2, <3>2
      <3>3. CASE j = f
        <4>1. ~Overlap(v[j].start, v[j].end, v[i].start, v[i].end)
          BY <1>3, <1>4, <2>2, <3>3
        <4> QED
          BY <4>1 DEF Overlap
      <3> QED
        BY <3>1, <3>2, <3>3
    <2> QED
      BY <1>4, <2>1, <2>2 DEF GoodTable
  <1>6. u \in GoodTable /\ Tidies(v, u, p) /\ Apart(u, p)
    BY <1>5, CoalesceTidies
  <1> HIDE DEF u
  <1>7. ASSUME NEW q \in Owner, q # p PROVE Apart(u, q)
    <2>1. q # NoPid
      BY DEF Owner, NoPid
    <2>2. \A i \in Slot : u[i].pid = q => u[i] = t[i]
      BY <1>3, <1>4, <1>6, <1>7, <2>1 DEF Tidies
    <2> QED
      BY <2>2 DEF Apart
  <1>8. ASSUME NEW q \in Owner, NEW b \in Byte, NEW m \in {"R", "W"}
        PROVE  Holds(u, q, b, m) <=>
                 Holds(t, q, b, m) \/ (q = p /\ m = r.type /\ b \in Bytes(r.start, r.end))
    <2>1. Holds(u, q, b, m) <=> Holds(v, q, b, m)
      BY <1>6 DEF Tidies
    <2>2. q # NoPid
      BY DEF Owner, NoPid
    <2>3. Holds(v, q, b, m) <=>
            Holds(t, q, b, m) \/ (q = p /\ m = r.type /\ b \in Bytes(r.start, r.end))
      BY <1>2, <1>3, <1>4, <2>2 DEF Holds
    <2> QED
      BY <2>1, <2>3
  <1> QED
    BY <1>1, <1>6, <1>7, <1>8

----------------------------------------------------------------------------
(* The inductive invariant *)

\* The table of ranges is canonical.
TableInv == lk \in GoodTable /\ \A p \in Owner : Apart(lk, p)

Place == {"idle", "try", "block", "recheck", "selfwake", "park", "wake", "close", "done", "dead"}

Asking == [type : {"R", "W", "U"}, start : 0 .. MaxOff, len : 0 .. MaxOff, end : EOF .. MaxOff,
           block : BOOLEAN]

\* The calls are the ones flock_validate lets through, with the ends it computed.
CallInv ==
  /\ req \in [Owner -> Asking]
  /\ pc \in [Owner -> Place]
  /\ \A p \in Owner : Proper(req[p].start, req[p].end) /\ req[p].end = RangeEnd(req[p].start, req[p].len)
  /\ asleep \subseteq Owner /\ passed \subseteq Owner
  /\ calls \in 0 .. MaxCalls /\ kills \in 0 .. MaxKill /\ short \in BOOLEAN

\* The table of waiters: who is registered asked to wait.
WaitInv ==
  /\ wait \in [WSlot -> [pid : 0 .. NPid, blocker : 0 .. NPid]]
  /\ reg \in [Owner -> 0 .. NWait]
  /\ WaitersCurrent
  /\ \A p \in Owner : reg[p] # 0 => req[p].block /\ req[p].type # "U"

IInv == TableInv /\ CallInv /\ WaitInv

\* conflict names a slot that stands in the way.
LEMMA HitIs ==
  ASSUME TableInv, NEW p, NEW r, Conflicts(p, r) # {}
  PROVE  Hit(p, r) \in Conflicts(p, r)
  <1> DEFINE C == Conflicts(p, r)
             First(i, j) == \/ lk[i].start < lk[j].start
                            \/ /\ lk[i].start = lk[j].start
                               /\ \/ lk[i].type = "W" /\ lk[j].type = "R"
                                  \/ lk[i].type = lk[j].type /\ i <= j
  <1>0. /\ C \subseteq Slot /\ Slot \subseteq Nat
        /\ \A i \in Slot : lk[i].start \in Nat /\ lk[i].type \in {"R", "W"}
    <2>1. lk \in [Slot -> Entry]
      BY DEF TableInv, GoodTable
    <2>2. \A i \in Slot : lk[i].start \in Nat /\ lk[i].type \in {"R", "W"}
      <3>1. MaxOff \in Nat
        BY FileLockAssumption
      <3> QED
        BY <2>1, <3>1 DEF Entry
    <2>3. C \subseteq Slot
      BY DEF Conflicts
    <2>4. Slot \subseteq Nat
      BY DEF Slot
    <2> QED
      BY <2>2, <2>3, <2>4
  <1> HIDE DEF C
  <1>1. PICK a \in {lk[i].start : i \in C} : \A x \in {lk[i].start : i \in C} : a <= x
    <2>1. {lk[i].start : i \in C} \subseteq Nat /\ {lk[i].start : i \in C} # {}
      BY <1>0 DEF C
    <2> QED
      BY <2>1, LeastOf
  <1> DEFINE A == {i \in C : lk[i].start = a}
             W == {i \in A : lk[i].type = "W"}
             B == IF W # {} THEN W ELSE A
  <1>2. B \subseteq Nat /\ B # {}
    BY <1>0, <1>1
  <1>3. PICK k \in B : \A j \in B : k <= j
    <2> HIDE DEF B
    <2> QED
      BY <1>2, LeastOf
  <1>4. ASSUME NEW j \in C PROVE First(k, j)
    <2>1. k \in C /\ lk[k].start = a /\ a <= lk[j].start /\ lk[j].start \in Nat /\ a \in Nat
      BY <1>0, <1>1, <1>3
    <2>2. CASE a < lk[j].start
      BY <2>1, <2>2
    <2>3. CASE a = lk[j].start
      <3>1. j \in A
        BY <2>3
      <3>2. CASE W # {}
        BY <1>0, <1>3, <2>1, <2>3, <3>1, <3>2
      <3>3. CASE W = {}
        BY <1>0, <1>3, <2>1, <2>3, <3>1, <3>3
      <3> QED
        BY <3>2, <3>3
    <2> QED
      BY <2>1, <2>2, <2>3
  <1>5. k \in C
    BY <1>3
  <1>6. \E i \in Conflicts(p, r) : \A j \in Conflicts(p, r) : First(i, j)
    BY <1>4, <1>5 DEF C
  <1> QED
    BY <1>6, Zenon DEF Hit

\* A request that flock_validate lets through is proper.
LEMMA ValidProper ==
  ASSUME NEW p \in Owner, NEW a \in Asks[p], Valid(a.start, a.len)
  PROVE  Proper(a.start, RangeEnd(a.start, a.len))
  <1>1. a.start \in 0 .. MaxOff /\ a.len \in 0 .. MaxOff /\ MaxOff \in Nat \ {0}
    BY FileLockAssumption
  <1> QED
    BY <1>1 DEF Proper, RangeEnd, Valid, Norm, EOF

\* The whole file is a proper range.
LEMMA WholeProper == Proper(0, EOF)
  BY FileLockAssumption DEF Proper, Norm, EOF

\* How one step of owner p changes the table: not at all, by a carve, or by a grant.
TableStep(p) ==
  \/ lk' = lk
  \/ \E s, e : Proper(s, e) /\ lk' = Carve(lk, p, s, e).lk
  \/ /\ req[p].type # "U" /\ Conflicts(p, req[p]) = {}
     /\ Carve(lk, p, req[p].start, req[p].end).ok
     /\ FreeSlots(Carve(lk, p, req[p].start, req[p].end).lk) # {}
     /\ lk' = Inserted(Carve(lk, p, req[p].start, req[p].end).lk, p, req[p])

\* Every step is one of the three.
LEMMA StepsTable ==
  ASSUME CallInv, NEW p \in Owner, Step(p)
  PROVE  TableStep(p)
  <1>1. CASE Call(p) \/ TryConflict(p) \/ Block(p) \/ Recheck(p) \/ SelfWake(p) \/ Wake(p) \/ Kill(p)
    BY <1>1 DEF Call, TryConflict, Block, Recheck, SelfWake, Wake, Kill, TableStep
  <1>2. CASE TryGrant(p)
    <2>1. Proper(req[p].start, req[p].end)
      BY DEF CallInv
    <2> QED
      BY <1>2, <2>1 DEF TryGrant, AtTry, TableStep
  <1>3. CASE Unlock(p)
    <2>1. Proper(req[p].start, req[p].end)
      BY DEF CallInv
    <2> QED
      BY <1>3, <2>1 DEF Unlock, TableStep
  <1>4. CASE Close(p)
    BY <1>4, WholeProper DEF Close, TableStep
  <1> QED
    BY <1>1, <1>2, <1>3, <1>4 DEF Step

\* What a grant inserts into.
LEMMA GrantReady ==
  ASSUME TableInv, CallInv, NEW p \in Owner, req[p].type # "U",
         Carve(lk, p, req[p].start, req[p].end).ok
  PROVE  LET u == Carve(lk, p, req[p].start, req[p].end).lk IN
         /\ u \in GoodTable /\ \A q \in Owner : Apart(u, q)
         /\ \A i \in Slot : u[i].pid = p => ~Overlap(req[p].start, req[p].end, u[i].start, u[i].end)
         /\ Proper(req[p].start, req[p].end) /\ req[p].type \in {"R", "W"}
         /\ \A q \in Owner, b \in Byte, m \in {"R", "W"} :
              Holds(u, q, b, m) <=> Holds(lk, q, b, m) /\ ~(q = p /\ b \in Bytes(req[p].start, req[p].end))
  <1> DEFINE u == Carve(lk, p, req[p].start, req[p].end).lk
  <1>1. Proper(req[p].start, req[p].end) /\ req[p].type \in {"R", "W"} /\ lk \in GoodTable
    BY DEF CallInv, TableInv, Asking
  <1>2. /\ u \in GoodTable
        /\ \A i \in Slot : lk[i].pid # NoPid /\ lk[i].pid # p => u[i] = lk[i]
        /\ \A i \in Slot : u[i].pid # NoPid /\ u[i].pid # p => u[i] = lk[i]
        /\ (\A q \in Owner : Apart(lk, q)) => \A q \in Owner : Apart(u, q)
        /\ \A i \in Slot : u[i].pid = p => ~Overlap(req[p].start, req[p].end, u[i].start, u[i].end)
        /\ \A b \in Byte, m \in {"R", "W"} :
             Holds(u, p, b, m) <=> Holds(lk, p, b, m) /\ b \notin Bytes(req[p].start, req[p].end)
    BY <1>1, CarveKeeps
  <1> HIDE DEF u
  <1>3. ASSUME NEW q \in Owner, q # p, NEW b \in Byte, NEW m \in {"R", "W"}
        PROVE  Holds(u, q, b, m) <=> Holds(lk, q, b, m)
    <2>1. q # NoPid
      BY DEF Owner, NoPid
    <2> QED
      BY <1>2, <1>3, <2>1 DEF Holds
  <1> QED
    BY <1>1, <1>2, <1>3 DEF u, TableInv

\* The table stays canonical.
LEMMA StepTableInv ==
  ASSUME TableInv, CallInv, NEW p \in Owner, Step(p)
  PROVE  TableInv'
  <1>0. lk \in GoodTable /\ \A q \in Owner : Apart(lk, q)
    BY DEF TableInv
  <1>1. TableStep(p)
    BY StepsTable
  <1>2. CASE lk' = lk
    BY <1>0, <1>2 DEF TableInv
  <1>3. ASSUME NEW s, NEW e, Proper(s, e), lk' = Carve(lk, p, s, e).lk PROVE TableInv'
    <2>1. lk' \in GoodTable /\ \A q \in Owner : Apart(lk', q)
      BY <1>0, <1>3, CarveKeeps
    <2> QED
      BY <2>1 DEF TableInv
  <1>4. CASE /\ req[p].type # "U" /\ Carve(lk, p, req[p].start, req[p].end).ok
             /\ FreeSlots(Carve(lk, p, req[p].start, req[p].end).lk) # {}
             /\ lk' = Inserted(Carve(lk, p, req[p].start, req[p].end).lk, p, req[p])
    <2>1. lk' \in GoodTable /\ \A q \in Owner : Apart(lk', q)
      BY <1>4, GrantReady, InsertedKeeps
    <2> QED
      BY <2>1 DEF TableInv
  <1> QED
    BY <1>1, <1>2, <1>3, <1>4 DEF TableStep

\* What a thread between two calls asks for.
LEMMA NoReqType ==
  NoReq \in Asking /\ Proper(NoReq.start, NoReq.end) /\ NoReq.end = RangeEnd(NoReq.start, NoReq.len)
  BY FileLockAssumption, WholeProper DEF NoReq, Asking, EOF, RangeEnd

\* Calls stay proper and within their types.
LEMMA StepCallInv ==
  ASSUME CallInv, NEW p \in Owner, Step(p)
  PROVE  CallInv'
  <1>0. NoReq \in Asking /\ Proper(NoReq.start, NoReq.end) /\ NoReq.end = RangeEnd(NoReq.start, NoReq.len)
    BY NoReqType
  <1> DEFINE Same == UNCHANGED req \/ req' = [req EXCEPT ![p] = NoReq]
  <1>1. ASSUME Same, NEW l \in Place, Goto(p, l), asleep' \subseteq Owner, passed' \subseteq Owner,
               calls' = calls, kills' \in 0 .. MaxKill, short' \in BOOLEAN
        PROVE  CallInv'
    <2>1. /\ req' \in [Owner -> Asking]
          /\ \A q \in Owner : Proper(req'[q].start, req'[q].end) /\ req'[q].end = RangeEnd(req'[q].start, req'[q].len)
      BY <1>0, <1>1 DEF CallInv
    <2>2. pc' \in [Owner -> Place]
      BY <1>1 DEF CallInv, Goto
    <2> QED
      BY <1>1, <2>1, <2>2 DEF CallInv
  <1>2. asleep \subseteq Owner /\ passed \subseteq Owner /\ kills \in 0 .. MaxKill /\ short \in BOOLEAN
    BY DEF CallInv
  <1>3. CASE Call(p)
    <2>1. PICK a \in Asks[p] : Valid(a.start, a.len) /\ req' = [req EXCEPT ![p] = Request(a)]
      BY <1>3 DEF Call
    <2>2. /\ a.type \in {"R", "W", "U"} /\ a.block \in BOOLEAN /\ a.len \in 0 .. MaxOff
          /\ Proper(a.start, RangeEnd(a.start, a.len))
      BY <2>1, ValidProper, FileLockAssumption
    <2> DEFINE r == Request(a)
    <2>3. r \in Asking /\ r.start = a.start /\ r.end = RangeEnd(a.start, a.len) /\ r.len = a.len
      BY <2>2 DEF Proper, Request, Asking
    <2>4. req' = [req EXCEPT ![p] = r]
      BY <2>1
    <2> HIDE DEF r
    <2>5. calls' \in 0 .. MaxCalls
      BY <1>3, FileLockAssumption DEF Call, CallInv
    <2>6. req' \in [Owner -> Asking]
          /\ \A q \in Owner : Proper(req'[q].start, req'[q].end) /\ req'[q].end = RangeEnd(req'[q].start, req'[q].len)
      BY <2>2, <2>3, <2>4 DEF CallInv
    <2>7. pc' \in [Owner -> Place]
      BY <1>3 DEF Call, Goto, CallInv, Place
    <2> QED
      BY <1>3, <2>5, <2>6, <2>7 DEF Call, CallInv
  <1>4. CASE TryConflict(p)
    <2>1. UNCHANGED <<asleep, calls, kills, short, passed>> /\ Same /\ (Goto(p, "idle") \/ Goto(p, "block"))
      BY <1>4 DEF TryConflict, Return
    <2> HIDE DEF Same
    <2> QED
      BY <1>1, <1>2, <2>1 DEF Place
  <1>5. CASE TryGrant(p)
    <2>1. \/ \E h \in BOOLEAN : short' = (short \/ h)
          \/ short' = short
      BY <1>5 DEF TryGrant
    <2>2. short' \in BOOLEAN
      BY <1>2, <2>1
    <2>3. UNCHANGED <<asleep, calls, kills, passed>> /\ Same /\ (Goto(p, "idle") \/ Goto(p, "wake"))
      BY <1>5 DEF TryGrant, Return
    <2> HIDE DEF Same
    <2> QED
      BY <1>1, <1>2, <2>2, <2>3 DEF Place
  <1>6. CASE Block(p) \/ Recheck(p) \/ SelfWake(p)
    <2>1. /\ UNCHANGED <<calls, kills, short>> /\ Same
          /\ asleep' \subseteq asleep \cup {p} /\ passed' \subseteq asleep \cup passed
          /\ (Goto(p, "recheck") \/ Goto(p, "selfwake") \/ Goto(p, "park"))
      BY <1>6 DEF Block, Recheck, SelfWake, WakeWaiters
    <2>2. asleep' \subseteq Owner /\ passed' \subseteq Owner
      BY <1>2, <2>1
    <2> HIDE DEF Same
    <2> QED
      BY <1>1, <1>2, <2>1, <2>2 DEF Place
  <1>7. CASE Unlock(p)
    <2>1. UNCHANGED <<asleep, calls, kills, short, passed>> /\ Same /\ (Goto(p, "wake") \/ Goto(p, "idle"))
      BY <1>7 DEF Unlock, Return
    <2> HIDE DEF Same
    <2> QED
      BY <1>1, <1>2, <2>1 DEF Place
  <1>8. CASE Close(p)
    <2>1. UNCHANGED <<asleep, calls, kills, short, passed>> /\ Same /\ Goto(p, "close")
      BY <1>8 DEF Close
    <2> HIDE DEF Same
    <2> QED
      BY <1>1, <1>2, <2>1 DEF Place
  <1>9. CASE Wake(p)
    <2>1. UNCHANGED <<calls, kills, short>> /\ Same /\ (Goto(p, "idle") \/ Goto(p, "done"))
          /\ asleep' \subseteq asleep /\ passed' \subseteq asleep
      BY <1>9 DEF Wake, Return, WakeWaiters
    <2>2. asleep' \subseteq Owner /\ passed' \subseteq Owner
      BY <1>2, <2>1
    <2> HIDE DEF Same
    <2> QED
      BY <1>1, <1>2, <2>1, <2>2 DEF Place
  <1>10. CASE Kill(p)
    <2>1. UNCHANGED <<calls, short, passed>> /\ Same /\ Goto(p, "dead") /\ asleep' \subseteq asleep
          /\ kills' \in 0 .. MaxKill
      BY <1>2, <1>10, FileLockAssumption DEF Kill
    <2>2. asleep' \subseteq Owner
      BY <1>2, <2>1
    <2> HIDE DEF Same
    <2> QED
      BY <1>1, <1>2, <2>1, <2>2 DEF Place
  <1> QED
    BY <1>3, <1>4, <1>5, <1>6, <1>7, <1>8, <1>9, <1>10 DEF Step

\* What a step does to the table of waiters: nothing, waiter_unregister, or one of
\* waiter_register and waiter_update_blocker with the owner of a slot as the blocker.
WaitStep(p) ==
  \/ UNCHANGED <<wait, reg>> /\ reg[p] = 0
  \/ /\ UNCHANGED <<wait, reg, req>>
     /\ pc'[p] \notin {"idle", "wake", "close", "done"}
  \/ Unregistered(p)
  \/ /\ \E q \in Owner : Registered(p, q)
     /\ UNCHANGED req /\ req[p].block /\ req[p].type # "U" /\ pc'[p] = "block"

\* Every step is one of them, and leaves the other owners where they are.
LEMMA StepsWait ==
  ASSUME IInv, NEW p \in Owner, Step(p)
  PROVE  WaitStep(p) /\ \A q \in Owner \ {p} : pc'[q] = pc[q] /\ req'[q] = req[q]
  <1>0. /\ pc \in [Owner -> Place]
        /\ DOMAIN req = Owner
        /\ pc[p] \in {"idle", "wake", "close", "done"} => reg[p] = 0
        /\ reg[p] # 0 => req[p].block /\ req[p].type # "U"
    BY DEF IInv, CallInv, WaitInv, WaitersCurrent
  <1>1. CASE Call(p) \/ Unlock(p) \/ Close(p) \/ Wake(p)
    <2>1. reg[p] = 0 /\ UNCHANGED <<wait, reg>>
      BY <1>0, <1>1 DEF Call, Unlock, Close, Wake
    <2>2. \A q \in Owner \ {p} : pc'[q] = pc[q] /\ req'[q] = req[q]
      <3>1. \E l, r : pc' = [pc EXCEPT ![p] = l] /\ (req' = req \/ req' = [req EXCEPT ![p] = r])
        BY <1>1 DEF Call, Unlock, Close, Wake, Goto, Return
      <3> QED
        BY <1>0, <3>1
    <2> QED
      BY <2>1, <2>2 DEF WaitStep
  <1>2. CASE Block(p) \/ Recheck(p) \/ SelfWake(p) \/ Kill(p)
    <2>1. UNCHANGED <<wait, reg, req>> /\ (pc' = [pc EXCEPT ![p] = "recheck"] \/ pc' = [pc EXCEPT ![p] = "selfwake"]
                                           \/ pc' = [pc EXCEPT ![p] = "park"] \/ pc' = [pc EXCEPT ![p] = "dead"])
      BY <1>2 DEF Block, Recheck, SelfWake, Kill, Goto
    <2> QED
      BY <1>0, <2>1 DEF WaitStep
  <1>3. CASE TryGrant(p)
    <2>1. Unregistered(p) /\ (Return(p) \/ (Goto(p, "wake") /\ UNCHANGED req))
      BY <1>3 DEF TryGrant
    <2>2. \A q \in Owner \ {p} : pc'[q] = pc[q] /\ req'[q] = req[q]
      BY <1>0, <2>1 DEF Goto, Return
    <2> QED
      BY <2>1, <2>2 DEF WaitStep
  <1>4. CASE TryConflict(p)
    <2> DEFINE q == lk[Hit(p, req[p])].pid
    <2>1. Conflicts(p, req[p]) # {}
          /\ (\/ ~req[p].block /\ Return(p) /\ UNCHANGED <<wait, reg>>
              \/ Return(p) /\ Unregistered(p)
              \/ req[p].block /\ Registered(p, q) /\ Goto(p, "block") /\ UNCHANGED req)
          /\ req[p].type # "U"
      BY <1>4, Zenon DEF TryConflict, AtTry
    <2>2. q \in Owner
      <3>1. Hit(p, req[p]) \in Conflicts(p, req[p]) /\ lk \in [Slot -> Entry]
        BY <2>1, HitIs DEF IInv, TableInv, GoodTable
      <3> QED
        BY <3>1, FileLockAssumption DEF Conflicts, Entry, Owner, NoPid
    <2> HIDE DEF q
    <2>3. CASE ~req[p].block /\ Return(p) /\ UNCHANGED <<wait, reg>>
      BY <1>0, <2>3 DEF WaitStep, Return, Goto
    <2>4. CASE Return(p) /\ Unregistered(p)
      BY <1>0, <2>4 DEF WaitStep, Return, Goto
    <2>5. CASE req[p].block /\ Registered(p, q) /\ Goto(p, "block") /\ UNCHANGED req
      BY <1>0, <2>1, <2>2, <2>5 DEF WaitStep, Goto
    <2> QED
      BY <2>1, <2>3, <2>4, <2>5
  <1> QED
    BY <1>1, <1>2, <1>3, <1>4 DEF Step

\* waiter_register takes a free entry, or none when the table is full.
LEMMA RegisteredCases ==
  ASSUME NEW p \in Owner, NEW q \in Owner, Registered(p, q)
  PROVE  \/ reg[p] # 0 /\ wait' = [wait EXCEPT ![reg[p]].blocker = q] /\ UNCHANGED reg
         \/ reg[p] = 0 /\ UNCHANGED <<wait, reg>>
         \/ /\ reg[p] = 0
            /\ \E w \in WSlot : /\ wait[w].pid = NoPid
                                /\ wait' = [wait EXCEPT ![w] = [pid |-> p, blocker |-> q]]
                                /\ reg' = [reg EXCEPT ![p] = w]
  <1> DEFINE free == {w \in WSlot : wait[w].pid = NoPid}
             w == CHOOSE w \in free : \A v \in free : w <= v
  <1>1. free # {} => w \in free
    <2>1. free \subseteq Nat
      BY FileLockAssumption DEF WSlot
    <2> HIDE DEF free
    <2>2. free # {} => \E x \in free : \A v \in free : x <= v
      BY <2>1, LeastOf
    <2> QED
      BY <2>2, Zenon
  <1>2. \/ reg[p] # 0 /\ wait' = [wait EXCEPT ![reg[p]].blocker = q] /\ UNCHANGED reg
        \/ reg[p] = 0 /\ UNCHANGED <<wait, reg>>
        \/ /\ reg[p] = 0 /\ free # {}
           /\ wait' = [wait EXCEPT ![w] = [pid |-> p, blocker |-> q]]
           /\ reg' = [reg EXCEPT ![p] = w]
    BY Zenon DEF Registered
  <1> HIDE DEF w
  <1> QED
    BY <1>1, <1>2

\* The table of waiters stays in step with the calls.
LEMMA StepWaitInv ==
  ASSUME IInv, NEW p \in Owner, Step(p)
  PROVE  WaitInv'
  <1> DEFINE Out == {"idle", "wake", "close", "done"}
             Wtype == [pid : 0 .. NPid, blocker : 0 .. NPid]
             Waits(r) == r.block /\ r.type # "U"
  <1>0. /\ wait \in [WSlot -> Wtype] /\ reg \in [Owner -> 0 .. NWait]
        /\ \A w \in WSlot : wait[w].pid # NoPid => reg[wait[w].pid] = w
        /\ \A q \in Owner : reg[q] # 0 => wait[reg[q]].pid = q /\ pc[q] \notin Out
        /\ \A q \in Owner : reg[q] # 0 => Waits(req[q])
        /\ p # NoPid /\ Owner = 1 .. NPid /\ NPid \in Nat /\ WSlot = 1 .. NWait /\ NWait \in Nat /\ NoPid = 0
    BY FileLockAssumption DEF IInv, WaitInv, WaitersCurrent, Owner, NoPid, WSlot
  <1> HIDE DEF Waits
  <1>1. WaitStep(p) /\ \A q \in Owner \ {p} : pc'[q] = pc[q] /\ req'[q] = req[q]
    BY StepsWait
  <1>2. \A w \in WSlot : wait[w].pid # NoPid => wait[w].pid \in Owner
    BY <1>0
  <1> SUFFICES /\ wait' \in [WSlot -> Wtype] /\ reg' \in [Owner -> 0 .. NWait]
               /\ \A w \in WSlot : wait'[w].pid # NoPid => reg'[wait'[w].pid] = w
               /\ \A q \in Owner : reg'[q] # 0 => wait'[reg'[q]].pid = q /\ pc'[q] \notin Out
               /\ \A q \in Owner : reg'[q] # 0 => Waits(req'[q])
    BY DEF WaitInv, WaitersCurrent, Waits
  <1>3. CASE UNCHANGED <<wait, reg>> /\ reg[p] = 0
    BY <1>0, <1>1, <1>3
  <1>4. CASE UNCHANGED <<wait, reg, req>> /\ pc'[p] \notin Out
    BY <1>0, <1>1, <1>4
  <1>5. CASE Unregistered(p)
    <2>1. /\ reg' = [reg EXCEPT ![p] = 0]
          /\ wait' = [w \in WSlot |-> IF w = reg[p] THEN FreeWaiter ELSE wait[w]]
      BY <1>5 DEF Unregistered
    <2>2. FreeWaiter \in Wtype /\ FreeWaiter.pid = NoPid
      BY <1>0 DEF FreeWaiter
    <2>3. reg' \in [Owner -> 0 .. NWait] /\ reg'[p] = 0 /\ \A q \in Owner \ {p} : reg'[q] = reg[q]
      BY <1>0, <2>1
    <2>4. wait' \in [WSlot -> Wtype]
      BY <1>0, <2>1, <2>2
    <2>5. \A w \in WSlot : wait'[w] = IF w = reg[p] THEN FreeWaiter ELSE wait[w]
      BY <2>1
    <2>6. ASSUME NEW w \in WSlot, wait'[w].pid # NoPid PROVE reg'[wait'[w].pid] = w
      <3>1. w # reg[p] /\ wait'[w] = wait[w]
        BY <2>2, <2>5, <2>6
      <3>2. wait[w].pid \in Owner /\ reg[wait[w].pid] = w
        BY <1>0, <1>2, <2>6, <3>1
      <3> QED
        BY <2>3, <3>1, <3>2
    <2>7. ASSUME NEW q \in Owner, reg'[q] # 0
          PROVE  wait'[reg'[q]].pid = q /\ pc'[q] \notin Out /\ Waits(req'[q])
      <3>1. q # p /\ reg'[q] = reg[q] /\ reg[q] \in WSlot
        BY <1>0, <2>3, <2>7
      <3>2. wait[reg[q]].pid = q /\ pc[q] \notin Out /\ Waits(req[q])
        BY <1>0, <2>7, <3>1
      <3>3. reg[q] # reg[p]
        BY <1>0, <2>7, <3>1, <3>2
      <3> QED
        BY <1>1, <2>5, <3>1, <3>2, <3>3
    <2> QED
      BY <2>3, <2>4, <2>6, <2>7
  <1>6. ASSUME NEW q \in Owner, Registered(p, q), UNCHANGED req, Waits(req[p]), pc'[p] = "block"
        PROVE  /\ wait' \in [WSlot -> Wtype] /\ reg' \in [Owner -> 0 .. NWait]
               /\ \A w \in WSlot : wait'[w].pid # NoPid => reg'[wait'[w].pid] = w
               /\ \A x \in Owner : reg'[x] # 0 => wait'[reg'[x]].pid = x /\ pc'[x] \notin Out
               /\ \A x \in Owner : reg'[x] # 0 => Waits(req'[x])
    <2>0. pc'[p] \notin Out
      BY <1>6
    <2>1. CASE reg[p] # 0 /\ wait' = [wait EXCEPT ![reg[p]].blocker = q] /\ UNCHANGED reg
      <3>1. reg[p] \in WSlot
        BY <1>0, <2>1
      <3>2. wait' \in [WSlot -> Wtype] /\ \A w \in WSlot : wait'[w].pid = wait[w].pid
        BY <1>0, <2>1, <3>1
      <3>3. \A x \in Owner : reg[x] # 0 => reg[x] \in WSlot
        BY <1>0
      <3>4. \A x \in Owner : pc[x] \notin Out => pc'[x] \notin Out
        BY <1>1, <2>0
      <3>5. \A w \in WSlot : wait'[w].pid # NoPid => reg'[wait'[w].pid] = w
        BY <1>0, <2>1, <3>2
      <3>6. \A x \in Owner : reg'[x] # 0 => wait'[reg'[x]].pid = x /\ pc'[x] \notin Out
        BY <1>0, <2>1, <3>2, <3>3, <3>4
      <3>7. \A x \in Owner : reg'[x] # 0 => Waits(req'[x])
        BY <1>0, <1>6, <2>1
      <3> QED
        BY <1>0, <2>1, <3>2, <3>5, <3>6, <3>7
    <2>2. CASE reg[p] = 0 /\ UNCHANGED <<wait, reg>>
      BY <1>0, <1>1, <1>6, <2>2
    <2>3. ASSUME reg[p] = 0, NEW w \in WSlot, wait[w].pid = NoPid,
                 wait' = [wait EXCEPT ![w] = [pid |-> p, blocker |-> q]], reg' = [reg EXCEPT ![p] = w]
          PROVE  /\ wait' \in [WSlot -> Wtype] /\ reg' \in [Owner -> 0 .. NWait]
                 /\ \A v \in WSlot : wait'[v].pid # NoPid => reg'[wait'[v].pid] = v
                 /\ \A x \in Owner : reg'[x] # 0 => wait'[reg'[x]].pid = x /\ pc'[x] \notin Out
                 /\ \A x \in Owner : reg'[x] # 0 => Waits(req'[x])
      <3>1. /\ wait' \in [WSlot -> Wtype] /\ wait'[w].pid = p
            /\ \A v \in WSlot \ {w} : wait'[v] = wait[v]
        BY <1>0, <2>3
      <3>2. reg' \in [Owner -> 0 .. NWait] /\ reg'[p] = w /\ \A x \in Owner \ {p} : reg'[x] = reg[x]
        BY <1>0, <2>3
      <3>3. ASSUME NEW v \in WSlot, wait'[v].pid # NoPid PROVE reg'[wait'[v].pid] = v
        <4>1. CASE v = w
          BY <3>1, <3>2, <4>1
        <4>2. CASE v # w
          <5>1. wait'[v] = wait[v] /\ wait[v].pid \in Owner /\ reg[wait[v].pid] = v
            BY <1>0, <1>2, <3>1, <3>3, <4>2
          <5>2. wait[v].pid # p
            BY <1>0, <2>3, <5>1
          <5> QED
            BY <3>2, <5>1, <5>2
        <4> QED
          BY <4>1, <4>2
      <3>4. ASSUME NEW x \in Owner, reg'[x] # 0
            PROVE  wait'[reg'[x]].pid = x /\ pc'[x] \notin Out /\ Waits(req'[x])
        <4>1. CASE x = p
          BY <1>6, <2>0, <3>1, <3>2, <4>1
        <4>2. CASE x # p
          <5>0. reg'[x] = reg[x] /\ reg[x] # 0
            BY <3>2, <3>4, <4>2
          <5>1. wait[reg[x]].pid = x /\ pc[x] \notin Out /\ Waits(req[x])
            BY <1>0, <5>0
          <5>3. reg[x] \in WSlot
            BY <1>0, <5>0
          <5>2. reg[x] # w
            BY <1>0, <2>3, <5>1
          <5> QED
            <6>1. wait'[reg'[x]].pid = x
              BY <3>1, <5>0, <5>1, <5>2, <5>3
            <6>2. pc'[x] = pc[x] /\ req'[x] = req[x]
              BY <1>1, <4>2
            <6> QED
              BY <5>1, <6>1, <6>2
        <4> QED
          BY <4>1, <4>2
      <3> QED
        BY <3>1, <3>2, <3>3, <3>4
    <2> QED
      BY <1>6, <2>1, <2>2, <2>3, RegisteredCases
  <1> HIDE DEF Wtype
  <1> QED
    BY <1>1, <1>3, <1>4, <1>5, <1>6 DEF WaitStep, Waits

\* The invariant holds at first.
LEMMA InitIInv == Init => IInv
  <1> SUFFICES ASSUME Init PROVE IInv
    OBVIOUS
  <1>1. lk = [i \in Slot |-> FreeSlot] /\ FreeSlot.pid = NoPid /\ \A p \in Owner : p # NoPid
    BY DEF Init, FreeSlot, Owner, NoPid
  <1>2. TableInv
    BY <1>1, FreeSlotType DEF TableInv, GoodTable, Apart
  <1>4. CallInv
    <2>1. /\ req \in [Owner -> Asking]
          /\ \A p \in Owner : Proper(req[p].start, req[p].end) /\ req[p].end = RangeEnd(req[p].start, req[p].len)
      BY NoReqType DEF Init
    <2>2. calls \in 0 .. MaxCalls /\ kills \in 0 .. MaxKill /\ short \in BOOLEAN
      <3>1. calls = 0 /\ kills = 0 /\ short = FALSE /\ MaxCalls \in Nat /\ MaxKill \in Nat
        BY FileLockAssumption DEF Init
      <3>2. calls \in 0 .. MaxCalls /\ kills \in 0 .. MaxKill
        BY <3>1
      <3>3. short \in BOOLEAN
        BY <3>1, Zenon
      <3> QED
        BY <3>2, <3>3
    <2> QED
      BY <2>1, <2>2 DEF Init, CallInv, Place
  <1>5. FreeWaiter \in [pid : 0 .. NPid, blocker : 0 .. NPid] /\ FreeWaiter.pid = NoPid
    BY FileLockAssumption DEF FreeWaiter, NoPid
  <1>6. WaitInv
    BY <1>5, FileLockAssumption DEF Init, WaitInv, WaitersCurrent
  <1> QED
    BY <1>2, <1>4, <1>6 DEF IInv

\* Every step keeps it.
LEMMA NextIInv == IInv /\ [Next]_vars => IInv'
  <1> SUFFICES ASSUME IInv, [Next]_vars PROVE IInv'
    OBVIOUS
  <1>1. CASE UNCHANGED vars
    BY <1>1 DEF vars, IInv, TableInv, CallInv, WaitInv, WaitersCurrent
  <1>2. CASE Next
    <2>1. PICK p \in Owner : Step(p)
      BY <1>2 DEF Next
    <2> QED
      BY <2>1, StepTableInv, StepCallInv, StepWaitInv DEF IInv
  <1> QED
    BY <1>1, <1>2

\* The tables and the calls of file_lock.c stay in step: the three parts together are
\* inductive.
THEOREM Invariance == Spec => []IInv
  BY InitIInv, NextIInv, PTL DEF Spec

\* Every field keeps its type.
THEOREM TypeCorrect == Spec => []TypeOK
  <1>1. IInv => TypeOK
    <2>1. IInv => lk \in [Slot -> Entry]
      BY DEF IInv, TableInv, GoodTable
    <2> QED
      BY <2>1 DEF IInv, CallInv, WaitInv, TypeOK, Entry, Place, Asking
  <1> QED
    BY <1>1, Invariance, PTL

\* carve_pid_range and coalesce_pid together keep the ranges of an owner disjoint, and
\* those of one type apart, whatever calls were made before.
THEOREM CanonicalCorrect == Spec => []Canonical
  <1>1. IInv => Canonical
    <2> SUFFICES ASSUME IInv, NEW i \in Slot, NEW j \in Slot,
                        i # j, lk[i].pid # NoPid, lk[i].pid = lk[j].pid
                 PROVE  /\ ~Overlap(lk[i].start, lk[i].end, lk[j].start, lk[j].end)
                        /\ lk[i].type = lk[j].type =>
                             Norm(lk[i].end) < lk[j].start \/ Norm(lk[j].end) < lk[i].start
      BY DEF Canonical
    <2>1. lk \in GoodTable /\ lk \in [Slot -> Entry] /\ \A p \in Owner : Apart(lk, p)
      BY DEF IInv, TableInv, GoodTable
    <2>2. /\ lk[i].pid \in Owner
          /\ lk[i].start \in 0 .. MaxOff /\ Norm(lk[i].end) \in 0 .. MaxOff
          /\ lk[j].start \in 0 .. MaxOff /\ Norm(lk[j].end) \in 0 .. MaxOff
      BY <2>1, NormType, FileLockAssumption DEF Entry, Owner, NoPid
    <2>3. ~Overlap(lk[i].start, lk[i].end, lk[j].start, lk[j].end)
      BY <2>1 DEF GoodTable
    <2>4. lk[i].type = lk[j].type => ~Touch(lk[i], lk[j])
      BY <2>1, <2>2 DEF Apart
    <2> QED
      BY <2>2, <2>3, <2>4, FileLockAssumption DEF Touch
  <1> QED
    BY <1>1, Invariance, PTL

\* Every entry of the waiter table belongs to a call still going on or to an owner that
\* died in one, whatever the interleaving and whoever is killed: soft_deadlock follows no
\* edge that a returned call left behind.
THEOREM WaitersCorrect == Spec => []WaitersCurrent
  <1>1. IInv => WaitersCurrent
    BY DEF IInv, WaitInv
  <1> QED
    BY <1>1, Invariance, PTL

----------------------------------------------------------------------------
(* Sleepers *)

\* Except for the steps that wake, a step keeps the announcements of the others, and
\* when it changes the table without having lost bytes it announces a wake itself.
LEMMA Announced ==
  ASSUME IInv, NEW p \in Owner, Step(p), ~SelfWake(p), ~Wake(p), ~short'
  PROVE  /\ ~short
         /\ pc[p] \notin {"wake", "close", "selfwake"}
         /\ lk' = lk \/ pc'[p] \in {"wake", "close"}
         /\ pc'[p] = "park" => Recheck(p) /\ Conflicts(p, req[p]) # {} /\ UNCHANGED <<lk, req>>
         /\ asleep' \subseteq asleep \cup {p} /\ passed \ {p} \subseteq passed'
  <1>0. p \in DOMAIN pc /\ short \in BOOLEAN
    BY DEF IInv, CallInv
  <1>1. CASE Call(p)
    BY <1>0, <1>1 DEF Call, Goto
  <1>2. CASE TryConflict(p)
    <2>1. UNCHANGED <<lk, asleep, short, passed>> /\ AtTry(p) /\ (Goto(p, "idle") \/ Goto(p, "block"))
      BY <1>2 DEF TryConflict, Return
    <2> QED
      BY <1>0, <2>1 DEF AtTry, Goto
  <1>3. CASE TryGrant(p)
    <2> DEFINE c == Carve(lk, p, req[p].start, req[p].end)
    <2>1. /\ AtTry(p) /\ asleep' = asleep /\ passed' = passed
          /\ \/ lk' = c.lk /\ short' = (short \/ Held(c.lk, p) # Held(lk, p)) /\ Return(p)
             \/ Goto(p, "wake") /\ short' = short
      BY <1>3 DEF TryGrant
    <2>2. CASE lk' = c.lk /\ short' = (short \/ Held(c.lk, p) # Held(lk, p)) /\ Return(p)
      <3>1. ~short /\ Held(c.lk, p) = Held(lk, p)
        BY <2>2
      <3>2. lk \in GoodTable /\ Proper(req[p].start, req[p].end)
        BY DEF IInv, TableInv, CallInv
      <3>3. c.lk = lk
        BY <3>1, <3>2, CarveNothing
      <3> HIDE DEF c
      <3> QED
        BY <1>0, <2>1, <2>2, <3>1, <3>3 DEF AtTry, Return, Goto
    <2>3. CASE Goto(p, "wake") /\ short' = short
      BY <1>0, <2>1, <2>3 DEF AtTry, Goto
    <2> QED
      BY <2>1, <2>2, <2>3
  <1>4. CASE Block(p)
    BY <1>0, <1>4 DEF Block, Goto
  <1>5. CASE Recheck(p)
    BY <1>0, <1>5 DEF Recheck, Goto
  <1>6. CASE Unlock(p)
    <2> DEFINE c == Carve(lk, p, req[p].start, req[p].end)
    <2>1. /\ lk' = c.lk /\ (Goto(p, "wake") \/ (~c.ok /\ Goto(p, "idle")))
          /\ pc[p] = "try" /\ UNCHANGED <<asleep, short, passed>>
      BY <1>6 DEF Unlock, Return
    <2>2. lk \in GoodTable /\ Proper(req[p].start, req[p].end)
      BY DEF IInv, TableInv, CallInv
    <2>3. ~c.ok => c.lk = lk
      BY <2>2, CarveOutcome
    <2> HIDE DEF c
    <2> QED
      BY <1>0, <2>1, <2>3 DEF Goto
  <1>7. CASE Close(p)
    BY <1>0, <1>7 DEF Close, Goto
  <1>8. CASE Kill(p)
    BY <1>0, <1>8 DEF Kill, Goto
  <1> QED
    BY <1>1, <1>2, <1>3, <1>4, <1>5, <1>6, <1>7, <1>8 DEF Step

\* A step keeps every sleeper in somebody's way, announced, or passed over.
LEMMA SleeperStep ==
  ASSUME IInv, SleeperBlocked, NEW p \in Owner, Step(p)
  PROVE  SleeperBlocked'
  <1> DEFINE Waker == \E x \in Owner : pc[x] \in {"wake", "close", "selfwake"}
  <1> SUFFICES ASSUME ~short', NEW q \in Owner, pc'[q] = "park", q \in asleep', q \notin passed', ~Waker'
               PROVE  Conflicts(q, req[q])' # {}
    BY DEF SleeperBlocked, Sleeping
  <1>1. ~SelfWake(p) /\ ~Wake(p)
    BY DEF SelfWake, Wake, WakeWaiters
  <1>2. /\ ~short
        /\ pc[p] \notin {"wake", "close", "selfwake"}
        /\ lk' = lk \/ pc'[p] \in {"wake", "close"}
        /\ pc'[p] = "park" => Recheck(p) /\ Conflicts(p, req[p]) # {} /\ UNCHANGED <<lk, req>>
        /\ asleep' \subseteq asleep \cup {p} /\ passed \ {p} \subseteq passed'
    BY <1>1, Announced
  <1>3. \A x \in Owner \ {p} : pc'[x] = pc[x] /\ req'[x] = req[x]
    BY StepsWait
  <1>4. lk' = lk
    BY <1>2
  <1>5. req'[q] = req[q] => Conflicts(q, req[q])' = Conflicts(q, req[q])
    BY <1>4 DEF Conflicts
  <1>6. CASE q = p
    BY <1>2, <1>5, <1>6
  <1>7. CASE q # p
    <2>1. pc[q] = "park" /\ q \in asleep /\ q \notin passed /\ req'[q] = req[q]
      BY <1>2, <1>3, <1>7
    <2>2. ~Waker
      BY <1>2, <1>3
    <2>3. Conflicts(q, req[q]) # {}
      BY <1>2, <2>1, <2>2 DEF SleeperBlocked, Sleeping
    <2> QED
      BY <1>5, <2>1, <2>3
  <1> QED
    BY <1>6, <1>7

\* Whatever the number of owners and the budget of a wake, no F_SETLKW sleeps on with
\* nothing in its way and no wake to come, unless the last wake was spent on WakeMax
\* others: the conflict is looked for again after thread_block, and whoever changes the
\* table wakes.  The exception is a failed request that gave up bytes.
THEOREM SleeperCorrect == Spec => []SleeperBlocked
  <1>1. Init => SleeperBlocked
    BY DEF Init, SleeperBlocked, Sleeping
  <1>2. IInv /\ SleeperBlocked /\ [Next]_vars => SleeperBlocked'
    <2> SUFFICES ASSUME IInv, SleeperBlocked, [Next]_vars PROVE SleeperBlocked'
      OBVIOUS
    <2>1. CASE UNCHANGED vars
      BY <2>1 DEF vars, SleeperBlocked, Sleeping, Conflicts
    <2>2. CASE Next
      BY <2>2, SleeperStep DEF Next
    <2> QED
      BY <2>1, <2>2
  <1> QED
    BY <1>1, <1>2, Invariance, PTL DEF Spec

----------------------------------------------------------------------------
(* The table of ranges implements locks on bytes *)

\* The mode of a byte is the type of the one range of its owner it is in.
LEMMA ModeIs ==
  ASSUME NEW t \in GoodTable, NEW p \in Owner, NEW b \in Byte
  PROVE  /\ Mode(t, p, b) \in {"none", "R", "W"}
         /\ \A m \in {"R", "W"} : Mode(t, p, b) = m <=> Holds(t, p, b, m)
  <1> DEFINE S == {i \in Slot : t[i].pid = p /\ b \in Bytes(t[i].start, t[i].end)}
             k == CHOOSE i \in S : TRUE
  <1>1. Mode(t, p, b) = IF S = {} THEN "none" ELSE t[k].type
    BY Zenon DEF Mode
  <1>2. S # {} => k \in S
    <2> HIDE DEF S
    <2> QED
      BY Zenon
  <1> HIDE DEF k
  <1>3. \A i \in Slot : t[i].type \in {"R", "W"} /\ t[i].start \in Int /\ Norm(t[i].end) \in Int
    <2>1. t \in [Slot -> Entry]
      BY DEF GoodTable
    <2> QED
      BY <2>1, NormType DEF Entry
  <1>4. b \in Int /\ p # NoPid
    BY FileLockAssumption DEF Byte, Owner, NoPid
  <1>5. CASE S = {}
    BY <1>1, <1>5 DEF Holds
  <1>6. CASE S # {}
    <2>1. k \in Slot /\ t[k].pid = p /\ b \in Bytes(t[k].start, t[k].end)
      BY <1>2, <1>6
    <2>2. ASSUME NEW i \in Slot, t[i].pid = p, b \in Bytes(t[i].start, t[i].end) PROVE i = k
      <3>1. Overlap(t[i].start, t[i].end, t[k].start, t[k].end)
        BY <1>3, <1>4, <2>1, <2>2 DEF Bytes, Overlap
      <3> QED
        BY <1>4, <2>1, <2>2, <3>1 DEF GoodTable
    <2>3. Mode(t, p, b) = t[k].type
      BY <1>1, <1>6
    <2> QED
      BY <1>3, <2>1, <2>2, <2>3 DEF Holds
  <1> QED
    BY <1>5, <1>6

\* When the new table gives p the bytes B in mode m and leaves the rest, so do the modes.
LEMMA ModesSetTo ==
  ASSUME lk \in GoodTable, lk' \in GoodTable, NEW p \in Owner, NEW B \in SUBSET Byte,
         NEW m \in {"none", "R", "W"},
         \A q \in Owner, b \in Byte, n \in {"R", "W"} :
           Holds(lk', q, b, n) <=> IF q = p /\ b \in B THEN n = m ELSE Holds(lk, q, b, n)
  PROVE  Table!SetTo(p, B, m)
  <1>1. ASSUME NEW q \in Owner, NEW b \in Byte
        PROVE  Mode(lk', q, b) = IF q = p /\ b \in B THEN m ELSE Mode(lk, q, b)
    <2>1. /\ Mode(lk', q, b) \in {"none", "R", "W"} /\ Mode(lk, q, b) \in {"none", "R", "W"}
          /\ \A n \in {"R", "W"} : Mode(lk', q, b) = n <=> Holds(lk', q, b, n)
          /\ \A n \in {"R", "W"} : Mode(lk, q, b) = n <=> Holds(lk, q, b, n)
      BY ModeIs
    <2> QED
      BY <2>1
  <1>2. Modes' = [q \in Owner |-> [b \in Byte |-> Mode(lk', q, b)]]
    BY DEF Modes
  <1>3. \A b \in Byte : Modes[p][b] = Mode(lk, p, b)
    BY DEF Modes
  <1>4. Modes' = [Modes EXCEPT ![p] = [b \in Byte |-> IF b \in B THEN m ELSE Modes[p][b]]]
    <2> DEFINE row == [b \in Byte |-> IF b \in B THEN m ELSE Modes[p][b]]
    <2>1. ASSUME NEW q \in Owner, q # p PROVE [b \in Byte |-> Mode(lk', q, b)] = Modes[q]
      <3>1. Modes[q] = [b \in Byte |-> Mode(lk, q, b)]
        BY DEF Modes
      <3> QED
        BY <1>1, <2>1, <3>1
    <2>2. [b \in Byte |-> Mode(lk', p, b)] = row
      BY <1>1, <1>3
    <2> HIDE DEF row
    <2>3. Modes' = [q \in Owner |-> IF q = p THEN row ELSE Modes[q]]
      BY <1>2, <2>1, <2>2
    <2>4. Modes = [q \in Owner |-> Modes[q]]
      BY DEF Modes
    <2>5. [Modes EXCEPT ![p] = row] = [q \in Owner |-> IF q = p THEN row ELSE Modes[q]]
      BY <2>4
    <2> QED
      BY <2>3, <2>5 DEF row
  <1> QED
    BY <1>4 DEF Table!SetTo, Table!Byte, Byte

\* The places of a call before its answer, and after it succeeded.
In == {"try", "block", "recheck", "selfwake", "park"}
After == {"wake", "close"}

\* What an owner asks for, by where it is.
LEMMA AskedIs ==
  ASSUME CallInv, NEW p \in Owner
  PROVE  /\ pc[p] \in In => /\ Asked[p] \in Table!Request
                            /\ Table!Named(Asked[p]) = Bytes(req[p].start, req[p].end)
                            /\ Asked[p].mode = req[p].type
         /\ pc[p] \in After => Asked[p] = Table!Done
         /\ pc[p] \notin In \cup After => Asked[p] = Table!NoAsk
  <1>1. CASE pc[p] \in In
    <2>1. Asked[p] = [mode |-> req[p].type, start |-> req[p].start, len |-> req[p].len]
      BY <1>1 DEF Asked, In
    <2>2. /\ req[p].start \in 0 .. MaxOff /\ req[p].len \in 0 .. MaxOff /\ MaxOff \in Nat
          /\ req[p].end = RangeEnd(req[p].start, req[p].len) /\ req[p].type \in {"R", "W", "U"}
      BY FileLockAssumption DEF CallInv, Asking
    <2>3. \A b \in Byte : (req[p].len = 0 \/ b < req[p].start + req[p].len) <=> b < Norm(req[p].end)
      BY <2>2 DEF Byte, RangeEnd, Norm, EOF
    <2>4. Table!Named(Asked[p]) = Bytes(req[p].start, req[p].end)
      BY <2>1, <2>3 DEF Table!Named, Bytes, Table!Byte, Byte
    <2> QED
      BY <1>1, <2>1, <2>2, <2>4 DEF Table!Request, In, After
  <1>2. CASE pc[p] \notin In
    BY <1>2 DEF Asked, In, After, Table!Done, Table!NoAsk
  <1> QED
    BY <1>1, <1>2

\* A step of p changes what p asks for, and nobody else.
LEMMA AskedStep ==
  ASSUME NEW p \in Owner, \A q \in Owner \ {p} : pc'[q] = pc[q] /\ req'[q] = req[q]
  PROVE  /\ \A v : Asked'[p] = v => Asked' = [Asked EXCEPT ![p] = v]
         /\ Asked'[p] = Asked[p] => Asked' = Asked
  <1>1. \A q \in Owner \ {p} : Asked'[q] = Asked[q]
    BY DEF Asked
  <1>2. Asked = [q \in Owner |-> Asked[q]] /\ Asked' = [q \in Owner |-> Asked'[q]]
    BY DEF Asked
  <1> HIDE DEF Asked
  <1> QED
    BY <1>1, <1>2

\* Where a step of p leads decides the answer.
LEMMA Answers ==
  ASSUME CallInv, CallInv', NEW p \in Owner,
         \A q \in Owner \ {p} : pc'[q] = pc[q] /\ req'[q] = req[q]
  PROVE  /\ pc[p] \in In /\ pc'[p] \in After => Table!Answer(p, Table!Done)
         /\ pc[p] \in In /\ pc'[p] \notin In \cup After => Table!Answer(p, Table!NoAsk)
         /\ pc[p] \notin In \cup After /\ pc'[p] \notin In \cup After => Asked' = Asked
         /\ pc[p] \in In /\ pc'[p] \in In /\ req'[p] = req[p] => Asked' = Asked
  <1>1. /\ pc[p] \in In => Asked[p] \in Table!Request
        /\ pc[p] \notin In \cup After => Asked[p] = Table!NoAsk
    BY AskedIs
  <1>2. /\ pc'[p] \in After => Asked'[p] = Table!Done
        /\ pc'[p] \notin In \cup After => Asked'[p] = Table!NoAsk
    BY DEF Asked, In, After, Table!Done, Table!NoAsk
  <1>3. pc[p] \in In /\ pc'[p] \in In /\ req'[p] = req[p] => Asked'[p] = Asked[p]
    BY DEF Asked, In
  <1>4. /\ \A v : Asked'[p] = v => Asked' = [Asked EXCEPT ![p] = v]
        /\ Asked'[p] = Asked[p] => Asked' = Asked
    BY AskedStep
  <1> HIDE DEF In, After
  <1> QED
    BY <1>1, <1>2, <1>3, <1>4 DEF Table!Answer

\* A carve of p takes the bytes of the range from p and nothing else, or fails.
LEMMA CarveBytes ==
  ASSUME lk \in GoodTable, lk' \in GoodTable, NEW p \in Owner, NEW s, NEW e, Proper(s, e),
         lk' = Carve(lk, p, s, e).lk
  PROVE  /\ Carve(lk, p, s, e).ok => Table!SetTo(p, Bytes(s, e), "none")
         /\ ~Carve(lk, p, s, e).ok => lk' = lk
  <1>0. ~Carve(lk, p, s, e).ok => lk' = lk
    BY CarveKeeps
  <1> SUFFICES ASSUME Carve(lk, p, s, e).ok PROVE Table!SetTo(p, Bytes(s, e), "none")
    BY <1>0
  <1> DEFINE c == Carve(lk, p, s, e)
             B == Bytes(s, e)
  <1>1. /\ c.ok
        /\ \A i \in Slot : lk[i].pid # NoPid /\ lk[i].pid # p => c.lk[i] = lk[i]
        /\ \A i \in Slot : c.lk[i].pid # NoPid /\ c.lk[i].pid # p => c.lk[i] = lk[i]
        /\ \A b \in Byte, m \in {"R", "W"} : Holds(c.lk, p, b, m) <=> Holds(lk, p, b, m) /\ b \notin B
    BY CarveKeeps
  <1>2. c.lk = lk'
    OBVIOUS
  <1> HIDE DEF c
  <1>3. ASSUME NEW q \in Owner, NEW b \in Byte, NEW n \in {"R", "W"}
        PROVE  Holds(lk', q, b, n) <=> IF q = p /\ b \in B THEN n = "none" ELSE Holds(lk, q, b, n)
    <2>1. CASE q = p
      BY <1>1, <1>2, <2>1
    <2>2. CASE q # p
      <3>1. q # NoPid
        BY DEF Owner, NoPid
      <3> QED
        BY <1>1, <1>2, <2>2, <3>1 DEF Holds
    <2> QED
      BY <2>1, <2>2
  <1>4. B \in SUBSET Byte
    BY DEF Bytes
  <1> HIDE DEF B
  <1>5. Table!SetTo(p, B, "none")
    BY <1>3, <1>4, ModesSetTo
  <1> QED
    BY <1>5 DEF B

\* The whole file can always be unlocked: no range sticks out of it.
LEMMA CarveWhole ==
  ASSUME lk \in GoodTable, NEW p \in Owner
  PROVE  Carve(lk, p, 0, EOF).ok
  <1> DEFINE cut == {i \in Slot : lk[i].pid = p /\ Overlap(0, EOF, lk[i].start, lk[i].end)}
             left == {i \in cut : lk[i].start < 0}
             right == {i \in cut : Norm(lk[i].end) > Norm(EOF)}
  <1>1. left = {}
    <2>1. \A i \in Slot : lk[i].start \in 0 .. MaxOff
      BY DEF GoodTable, Entry
    <2> QED
      BY <2>1
  <1>2. left \cap right = {}
    BY <1>1
  <1> HIDE DEF left, right
  <1>3. Carve(lk, p, 0, EOF).ok = (left \cap right = {} \/ FreeSlots(lk) # {})
    BY DEF Carve, left, right
  <1> QED
    BY <1>2, <1>3

\* A grant gives the bytes of the request to p, over nobody's conflicting lock.
LEMMA GrantBytes ==
  ASSUME IInv, IInv', NEW p \in Owner, req[p].type # "U",
         Conflicts(p, req[p]) = {}, Carve(lk, p, req[p].start, req[p].end).ok,
         FreeSlots(Carve(lk, p, req[p].start, req[p].end).lk) # {},
         lk' = Inserted(Carve(lk, p, req[p].start, req[p].end).lk, p, req[p])
  PROVE  /\ req[p].type \in {"R", "W"}
         /\ Table!SetTo(p, Bytes(req[p].start, req[p].end), req[p].type)
         /\ \A q \in Owner \ {p}, b \in Bytes(req[p].start, req[p].end) :
              Table!Compatible(req[p].type, Modes[q][b])
  <1>0. lk \in GoodTable /\ lk' \in GoodTable
    BY DEF IInv, TableInv
  <1> DEFINE u == Carve(lk, p, req[p].start, req[p].end).lk
             B == Bytes(req[p].start, req[p].end)
             m == req[p].type
  <1>1. /\ u \in GoodTable /\ \A q \in Owner : Apart(u, q)
        /\ \A i \in Slot : u[i].pid = p => ~Overlap(req[p].start, req[p].end, u[i].start, u[i].end)
        /\ Proper(req[p].start, req[p].end) /\ m \in {"R", "W"}
        /\ \A q \in Owner, b \in Byte, n \in {"R", "W"} :
             Holds(u, q, b, n) <=> Holds(lk, q, b, n) /\ ~(q = p /\ b \in B)
    BY GrantReady DEF IInv
  <1>2. lk' = Inserted(u, p, req[p]) /\ FreeSlots(u) # {}
    OBVIOUS
  <1> HIDE DEF u
  <1>3. \A q \in Owner, b \in Byte, n \in {"R", "W"} :
          Holds(lk', q, b, n) <=> Holds(u, q, b, n) \/ (q = p /\ n = m /\ b \in B)
    BY <1>1, <1>2, InsertedKeeps
  <1>4. B \in SUBSET Byte /\ m \in {"none", "R", "W"}
    BY <1>1 DEF Bytes
  <1>5. \A q \in Owner, b \in Byte, n \in {"R", "W"} :
          Holds(lk', q, b, n) <=> IF q = p /\ b \in B THEN n = m ELSE Holds(lk, q, b, n)
    <2> HIDE DEF B, m
    <2> QED
      BY <1>1, <1>3
  <1>6. Table!SetTo(p, B, m)
    <2> HIDE DEF B, m
    <2> QED
      BY <1>0, <1>4, <1>5, ModesSetTo
  <1>7. ASSUME NEW q \in Owner \ {p}, NEW b \in B PROVE Table!Compatible(m, Modes[q][b])
    <2>1. b \in Byte /\ b \in Int
      BY FileLockAssumption DEF Bytes, Byte
    <2>2. /\ Modes[q][b] = Mode(lk, q, b) /\ Mode(lk, q, b) \in {"none", "R", "W"}
          /\ \A n \in {"R", "W"} : Mode(lk, q, b) = n <=> Holds(lk, q, b, n)
      BY <1>0, <2>1, ModeIs DEF Modes
    <2>3. ASSUME NEW n \in {"R", "W"}, Holds(lk, q, b, n) PROVE m = "R" /\ n = "R"
      <3>1. PICK i \in Slot : lk[i].pid = q /\ lk[i].type = n /\ b \in Bytes(lk[i].start, lk[i].end)
        BY <2>3 DEF Holds
      <3>2. /\ lk[i].start \in Int /\ Norm(lk[i].end) \in Int
            /\ req[p].start \in Int /\ Norm(req[p].end) \in Int
        <4>1. lk[i] \in Entry
          BY <1>0 DEF GoodTable
        <4> QED
          BY <1>1, <4>1, NormType DEF Entry, Proper
      <3>3. Overlap(req[p].start, req[p].end, lk[i].start, lk[i].end)
        BY <2>1, <3>1, <3>2 DEF Bytes, Overlap
      <3>4. lk[i].pid \notin {NoPid, p}
        BY <3>1 DEF Owner, NoPid
      <3> QED
        BY <1>1, <3>1, <3>3, <3>4 DEF Conflicts
    <2> QED
      BY <2>2, <2>3 DEF Table!Compatible
  <1> QED
    BY <1>1, <1>6, <1>7

\* Every step asks, answers as the request says, unlocks the file, or does not show.
LEMMA StepBytes ==
  ASSUME IInv, IInv', NEW p \in Owner, Step(p)
  PROVE  [Table!Next]_<<Modes, Asked>>
  <1>0. /\ CallInv /\ CallInv' /\ lk \in GoodTable /\ lk' \in GoodTable /\ p \in DOMAIN pc
        /\ Proper(req[p].start, req[p].end)
    BY DEF IInv, TableInv, CallInv
  <1>1. \A q \in Owner \ {p} : pc'[q] = pc[q] /\ req'[q] = req[q]
    BY StepsWait
  <1>2. lk' = lk => Modes' = Modes
    BY DEF Modes
  <1>3. /\ pc[p] \in In /\ pc'[p] \in After => Table!Answer(p, Table!Done)
        /\ pc[p] \in In /\ pc'[p] \notin In \cup After => Table!Answer(p, Table!NoAsk)
    BY <1>0, <1>1, Answers
  <1>4. pc[p] \notin In \cup After /\ pc'[p] \notin In \cup After => Asked' = Asked
    BY <1>0, <1>1, Answers
  <1>5. pc[p] \in In /\ pc'[p] \in In /\ req'[p] = req[p] => Asked' = Asked
    BY <1>0, <1>1, Answers
  <1>6. pc[p] \in In => /\ Table!Named(Asked[p]) = Bytes(req[p].start, req[p].end)
                        /\ Asked[p].mode = req[p].type
    BY <1>0, AskedIs
  <1> USE DEF In, After
  <1>7. CASE Call(p)
    <2>1. PICK a \in Asks[p] : req' = [req EXCEPT ![p] = Request(a)]
      BY <1>7 DEF Call
    <2> DEFINE r == [mode |-> a.type, start |-> a.start, len |-> a.len]
    <2>2. r \in Table!Request
      BY FileLockAssumption DEF Table!Request
    <2>3. pc[p] = "idle" /\ pc'[p] = "try" /\ lk' = lk
      BY <1>0, <1>7 DEF Call, Goto
    <2>4. Asked[p] = Table!NoAsk
      BY <1>0, <2>3, AskedIs
    <2>5. req'[p].type = a.type /\ req'[p].start = a.start /\ req'[p].len = a.len
      BY <1>0, <2>1 DEF CallInv, Request
    <2>6. Asked'[p] = r
      BY <2>3, <2>5 DEF Asked
    <2> HIDE DEF r
    <2>8. Asked' = [Asked EXCEPT ![p] = r]
      BY <1>1, <2>6, AskedStep
    <2>9. Table!Ask(p, r)
      BY <1>2, <2>3, <2>4, <2>8 DEF Table!Ask
    <2> QED
      BY <2>2, <2>9 DEF Table!Next
  <1>8. CASE TryConflict(p)
    <2>1. /\ pc[p] \in In /\ lk' = lk
          /\ (Goto(p, "idle") \/ (Goto(p, "block") /\ UNCHANGED req))
      BY <1>8 DEF TryConflict, AtTry, Return
    <2>2. pc'[p] = "idle" \/ (pc'[p] = "block" /\ UNCHANGED req)
      BY <1>0, <2>1 DEF Goto
    <2>3. CASE pc'[p] = "idle"
      BY <1>2, <1>3, <2>1, <2>3 DEF Table!Next, Table!Refuse
    <2>4. CASE pc'[p] = "block" /\ UNCHANGED req
      BY <1>2, <1>5, <2>1, <2>4
    <2> QED
      BY <2>2, <2>3, <2>4
  <1>9. CASE TryGrant(p)
    <2> DEFINE c == Carve(lk, p, req[p].start, req[p].end)
    <2>1. /\ pc[p] \in In /\ req[p].type # "U" /\ Conflicts(p, req[p]) = {}
          /\ \/ lk' = c.lk /\ Goto(p, "idle")
             \/ c.ok /\ FreeSlots(c.lk) # {} /\ lk' = Inserted(c.lk, p, req[p]) /\ Goto(p, "wake")
      BY <1>9 DEF TryGrant, AtTry, Return
    <2>4. CASE lk' = c.lk /\ Goto(p, "idle")
      <3>0. Table!Answer(p, Table!NoAsk)
        BY <1>0, <1>3, <2>1, <2>4 DEF Goto
      <3>1. lk' = lk \/ Table!SetTo(p, Bytes(req[p].start, req[p].end), "none")
        BY <1>0, <2>4, CarveBytes
      <3>2. req[p].type \in {"R", "W"}
        BY <1>0, <2>1 DEF CallInv, Asking
      <3>3. CASE lk' = lk
        BY <1>2, <3>0, <3>3 DEF Table!Next, Table!Refuse
      <3>4. CASE Table!SetTo(p, Bytes(req[p].start, req[p].end), "none")
        BY <1>6, <2>1, <3>0, <3>2, <3>4 DEF Table!Next, Table!Lose
      <3> QED
        BY <3>1, <3>3, <3>4
    <2>5. CASE c.ok /\ FreeSlots(c.lk) # {} /\ lk' = Inserted(c.lk, p, req[p]) /\ Goto(p, "wake")
      <3>0. Table!Answer(p, Table!Done)
        BY <1>0, <1>3, <2>1, <2>5 DEF Goto
      <3>1. /\ req[p].type \in {"R", "W"}
            /\ Table!SetTo(p, Bytes(req[p].start, req[p].end), req[p].type)
            /\ \A q \in Owner \ {p}, b \in Bytes(req[p].start, req[p].end) :
                 Table!Compatible(req[p].type, Modes[q][b])
        BY <2>1, <2>5, GrantBytes
      <3> QED
        BY <1>6, <2>1, <3>0, <3>1 DEF Table!Next, Table!Grant
    <2> QED
      BY <2>1, <2>4, <2>5
  <1>10. CASE Block(p) \/ Recheck(p) \/ SelfWake(p)
    <2>1. lk' = lk /\ req' = req /\ pc[p] \in In /\ pc'[p] \in In
      BY <1>0, <1>10 DEF Block, Recheck, SelfWake, Goto
    <2> QED
      BY <1>2, <1>5, <2>1
  <1>11. CASE Unlock(p)
    <2> DEFINE c == Carve(lk, p, req[p].start, req[p].end)
    <2>1. /\ pc[p] \in In /\ req[p].type = "U" /\ lk' = c.lk
          /\ \/ c.ok /\ Goto(p, "wake")
             \/ ~c.ok /\ Goto(p, "idle")
      BY <1>11, Zenon DEF Unlock, Return, In
    <2>2. /\ c.ok => Table!SetTo(p, Bytes(req[p].start, req[p].end), "none")
          /\ ~c.ok => lk' = lk
      BY <1>0, <2>1, CarveBytes
    <2> HIDE DEF c
    <2>3. CASE c.ok /\ Goto(p, "wake")
      <3>1. Table!Answer(p, Table!Done)
        BY <1>0, <1>3, <2>1, <2>3 DEF Goto
      <3> QED
        BY <1>6, <2>1, <2>2, <2>3, <3>1 DEF Table!Next, Table!Unlock
    <2>4. CASE ~c.ok /\ Goto(p, "idle")
      <3>1. Table!Answer(p, Table!NoAsk)
        BY <1>0, <1>3, <2>1, <2>4 DEF Goto
      <3> QED
        BY <1>2, <2>2, <2>4, <3>1 DEF Table!Next, Table!Refuse
    <2> QED
      BY <2>1, <2>3, <2>4
  <1>12. CASE Close(p)
    <2>1. pc[p] = "idle" /\ pc'[p] = "close" /\ lk' = Carve(lk, p, 0, EOF).lk
      BY <1>0, <1>12 DEF Close, Goto
    <2>2. Asked[p] = Table!NoAsk /\ Asked'[p] = Table!Done
      BY <2>1 DEF Asked, Table!NoAsk, Table!Done
    <2>3. Asked' = [Asked EXCEPT ![p] = Table!Done]
      BY <1>1, <2>2, AskedStep
    <2>4. Table!SetTo(p, Bytes(0, EOF), "none")
      BY <1>0, <2>1, CarveBytes, CarveWhole, WholeProper
    <2>5. Bytes(0, EOF) = Table!Byte
      BY FileLockAssumption DEF Bytes, Norm, EOF, Byte, Table!Byte
    <2> QED
      BY <2>2, <2>3, <2>4, <2>5 DEF Table!Next, Table!Close
  <1>13. CASE Wake(p)
    <2>1. lk' = lk /\ pc[p] \in After /\ pc'[p] \in {"idle", "done"}
      BY <1>0, <1>13 DEF Wake, Return, Goto
    <2>2. Asked[p] = Table!Done /\ Asked'[p] = Table!NoAsk
      BY <2>1 DEF Asked, Table!NoAsk, Table!Done
    <2>3. Asked' = [Asked EXCEPT ![p] = Table!NoAsk]
      BY <1>1, <2>2, AskedStep
    <2> QED
      BY <1>2, <2>1, <2>2, <2>3 DEF Table!Next, Table!Return
  <1>14. CASE Kill(p)
    <2>1. lk' = lk /\ pc'[p] = "dead" /\ pc[p] \in {"idle", "park"}
      BY <1>0, <1>14 DEF Kill, Goto
    <2>2. CASE pc[p] = "park"
      BY <1>2, <1>3, <2>1, <2>2 DEF Table!Next, Table!Refuse
    <2>3. CASE pc[p] = "idle"
      BY <1>2, <1>4, <2>1, <2>3
    <2> QED
      BY <2>1, <2>2, <2>3
  <1> QED
    BY <1>7, <1>8, <1>9, <1>10, <1>11, <1>12, <1>13, <1>14 DEF Step

\* Ranges that are carved, inserted and merged implement locks on bytes, for every size of
\* the file and of the table: an answer changes exactly the bytes the request named, of
\* its owner, to the mode it named, and is never a grant over a conflicting lock.
THEOREM ImplementsCorrect == Spec => ImplementsByteLocks
  <1>1. Init => Table!Init
    <2> SUFFICES ASSUME Init PROVE Table!Init
      OBVIOUS
    <2>1. lk \in GoodTable /\ lk = [i \in Slot |-> FreeSlot] /\ FreeSlot.pid = NoPid
      BY InitIInv DEF Init, IInv, TableInv, FreeSlot
    <2>2. ASSUME NEW p \in Owner, NEW b \in Byte PROVE Mode(lk, p, b) = "none"
      <3>1. \A m \in {"R", "W"} : ~Holds(lk, p, b, m)
        BY <2>1 DEF Holds, Owner, NoPid
      <3> QED
        BY <2>1, <3>1, ModeIs
    <2>3. Modes = [p \in Owner |-> [b \in Byte |-> "none"]]
      BY <2>2 DEF Modes
    <2>4. Asked = [p \in Owner |-> Table!NoAsk]
      BY DEF Init, Asked, Table!NoAsk
    <2> QED
      BY <2>3, <2>4 DEF Table!Init, Table!Byte, Byte
  <1>2. IInv /\ IInv' /\ [Next]_vars => [Table!Next]_<<Modes, Asked>>
    <2> SUFFICES ASSUME IInv, IInv', [Next]_vars PROVE [Table!Next]_<<Modes, Asked>>
      OBVIOUS
    <2>1. CASE UNCHANGED vars
      BY <2>1 DEF vars, Modes, Asked
    <2>2. CASE Next
      BY <2>2, StepBytes DEF Next
    <2> QED
      BY <2>1, <2>2
  <1> QED
    BY <1>1, <1>2, Invariance, PTL DEF Spec, ImplementsByteLocks, Table!Spec

\* No byte of the file is write-locked by one owner and locked by another.
THEOREM ExclusionCorrect == Spec => []Table!Exclusive
  BY ImplementsCorrect, Table!ExclusiveCorrect, PTL DEF ImplementsByteLocks
============================================================================
