------------------------------ MODULE ByteLocks ----------------------------
(***************************************************************************)
(* What advisory record locks promise (kernel/include/gj/file_lock.h): each *)
(* byte of a file is unlocked, read-locked by some owners, or write-locked  *)
(* by one.  How ranges are stored, split and merged does not show.          *)
(***************************************************************************)
EXTENDS Integers, TLAPS

CONSTANTS Owner, MaxOff

Byte == 0 .. MaxOff - 1

VARIABLES
  own,  \* owner -> byte -> "none", "R" or "W"
  ask   \* owner -> the request of its call; NoAsk outside calls, Done once it succeeded

NoAsk == [mode |-> "none", start |-> 0, len |-> 0]
Done == [mode |-> "done", start |-> 0, len |-> 0]

Request == [mode : {"R", "W", "U"}, start : 0 .. MaxOff, len : 0 .. MaxOff]

\* The bytes a request names: len of them from start, or all of them when len is 0.
Named(r) == {b \in Byte : r.start <= b /\ (r.len = 0 \/ b < r.start + r.len)}

Compatible(a, b) == a = "none" \/ b = "none" \/ (a = "R" /\ b = "R")

Init ==
  /\ own = [p \in Owner |-> [b \in Byte |-> "none"]]
  /\ ask = [p \in Owner |-> NoAsk]

\* The owner holds the bytes B in mode m from now on.
SetTo(p, B, m) ==
  own' = [own EXCEPT ![p] = [b \in Byte |-> IF b \in B THEN m ELSE own[p][b]]]

Ask(p, r) == ask[p] = NoAsk /\ ask' = [ask EXCEPT ![p] = r] /\ UNCHANGED own

Answer(p, v) == ask[p] \in Request /\ ask' = [ask EXCEPT ![p] = v]

\* F_SETLK or F_SETLKW: nobody else holds one of the bytes in a conflicting mode.
Grant(p) ==
  /\ Answer(p, Done) /\ ask[p].mode \in {"R", "W"}
  /\ \A q \in Owner \ {p}, b \in Named(ask[p]) : Compatible(ask[p].mode, own[q][b])
  /\ SetTo(p, Named(ask[p]), ask[p].mode)

\* F_UNLCK.
Unlock(p) == Answer(p, Done) /\ ask[p].mode = "U" /\ SetTo(p, Named(ask[p]), "none")

\* An error, or the end of the owner: no byte changes.
Refuse(p) == Answer(p, NoAsk) /\ UNCHANGED own

\* The error for want of a slot, found out after the owner's own bytes were given up.
Lose(p) == Answer(p, NoAsk) /\ ask[p].mode \in {"R", "W"} /\ SetTo(p, Named(ask[p]), "none")

\* F_UNLCK of the whole file.
Close(p) == ask[p] = NoAsk /\ ask' = [ask EXCEPT ![p] = Done] /\ SetTo(p, Byte, "none")

Return(p) == ask[p] = Done /\ ask' = [ask EXCEPT ![p] = NoAsk] /\ UNCHANGED own

Next ==
  \E p \in Owner :
    \/ \E r \in Request : Ask(p, r)
    \/ Grant(p) \/ Unlock(p) \/ Refuse(p) \/ Lose(p) \/ Close(p) \/ Return(p)

Spec == Init /\ [][Next]_<<own, ask>>

\* No byte is held by two owners unless both read it.
Exclusive ==
  \A p, q \in Owner, b \in Byte : p # q => Compatible(own[p][b], own[q][b])

TypeOK == own \in [Owner -> [Byte -> {"none", "R", "W"}]]

\* A grant over compatible locks, or bytes given up, keep writers alone.
LEMMA NextExclusive ==
  ASSUME TypeOK, Exclusive, Next
  PROVE  TypeOK' /\ Exclusive'
  <1>1. PICK p \in Owner : \/ own' = own
                           \/ Grant(p) \/ Unlock(p) \/ Lose(p) \/ Close(p)
    BY DEF Next, Ask, Refuse, Return
  <1>2. CASE own' = own
    BY <1>2 DEF TypeOK, Exclusive
  <1>3. ASSUME NEW B \in SUBSET Byte, NEW m \in {"none", "R", "W"}, SetTo(p, B, m),
               \A q \in Owner \ {p}, b \in B : Compatible(m, own[q][b])
        PROVE  TypeOK' /\ Exclusive'
    <2>1. /\ \A b \in Byte : own'[p][b] = IF b \in B THEN m ELSE own[p][b]
          /\ \A q \in Owner \ {p} : own'[q] = own[q]
          /\ TypeOK'
      BY <1>3 DEF SetTo, TypeOK
    <2>2. ASSUME NEW q \in Owner \ {p}, NEW b \in Byte
          PROVE  Compatible(own'[p][b], own'[q][b]) /\ Compatible(own'[q][b], own'[p][b])
      <3>1. Compatible(own'[p][b], own'[q][b])
        BY <1>3, <2>1 DEF Exclusive
      <3> QED BY <3>1 DEF Compatible
    <2> QED BY <2>1, <2>2 DEF Exclusive
  <1>4. Named(ask[p]) \in SUBSET Byte
    BY DEF Named
  <1>5. \A x : Compatible("none", x)
    BY DEF Compatible
  <1>6. CASE Grant(p)
    BY <1>3, <1>4, <1>6 DEF Grant
  <1>7. CASE Unlock(p) \/ Lose(p) \/ Close(p)
    BY <1>3, <1>4, <1>5, <1>7 DEF Unlock, Lose, Close
  <1> QED BY <1>1, <1>2, <1>6, <1>7

\* Whatever implements these locks - the range table of file_lock.c does - never has
\* a writer beside another owner of the same byte.
THEOREM ExclusiveCorrect == Spec => []Exclusive
  <1>1. Init => TypeOK /\ Exclusive
    BY DEF Init, TypeOK, Exclusive, Compatible
  <1>2. TypeOK /\ Exclusive /\ [Next]_<<own, ask>> => (TypeOK /\ Exclusive)'
    BY NextExclusive DEF TypeOK, Exclusive
  <1> QED BY <1>1, <1>2, PTL DEF Spec
============================================================================
