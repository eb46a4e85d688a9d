----------------------------- MODULE DoorProofs -----------------------------
(***************************************************************************)
(* Proofs about Door, for any number of threads, calls and contenders.     *)
(*                                                                         *)
(* Safe, the single-flight discipline, is inductive with the types.  That  *)
(* nobody gets another call's reply needs more: a server that is serving   *)
(* holds the mark of a flight whose owner is asleep, and an owner that is  *)
(* awake without a reply has not reached schedule() since it posted.       *)
(***************************************************************************)
EXTENDS Door, TLAPS

Safe == TypeOK /\ SingleFlight

\* Only clients call and only servers receive.
Roles ==
  \A t \in Thr : /\ pc[t] \in {"slot", "call"} => t \in Client
                 /\ pc[t] \in {"recv", "parked", "serve"} => t \in Server

\* An owner that is awake without a reply is still in its first run.
OwnerSleeps ==
  client # NoThr /\ ~hasReply /\ ~asleep[client] => cpu = client /\ hasReq

\* Whoever serves holds the mark, as long as the door lives.
Marked == \A s \in Thr : Live /\ pc[s] = "serve" => server = s

\* What is being served belongs to the owner of the flight, if there is one.
ServesOwner == \A s \in Thr : pc[s] = "serve" /\ client # NoThr => work[s] = mine[client]

\* On a live door a request is taken before its reply is there.
TakenFirst == Live /\ hasReq => ~hasReply

Served ==
  /\ Safe /\ Roles /\ OwnerSleeps /\ Marked /\ ServeWindow /\ ServesOwner /\ TakenFirst
  /\ OwnReply

----------------------------------------------------------------------------
(* Waking *)

\* thread_wake changes no thread but the blocked ones of its tag.
LEMMA WakeKeeps ==
  ASSUME NEW f \in [Thr -> BOOLEAN], NEW tag, NEW n
  PROVE  /\ Wake(f, tag, n) \in [Thr -> BOOLEAN]
         /\ \A t \in Thr : Wake(f, tag, n)[t] => f[t]
         /\ \A t \in Thr : f[t] /\ pc[t] \notin tag => Wake(f, tag, n)[t]
  BY DEF Wake

\* The three wake-ups that end a flight leave the flags of all threads Boolean.
LEMMA WakeType ==
  ASSUME NEW f \in [Thr -> BOOLEAN]
  PROVE  \A a, b, c, k, l, m :
           Wake(Wake(Wake(f, a, k), b, l), c, m) \in [Thr -> BOOLEAN]
  <1> TAKE a, b, c, k, l, m
  <1>1. Wake(f, a, k) \in [Thr -> BOOLEAN]
    BY WakeKeeps
  <1>2. Wake(Wake(f, a, k), b, l) \in [Thr -> BOOLEAN]
    BY <1>1, WakeKeeps
  <1> QED
    BY <1>2, WakeKeeps

----------------------------------------------------------------------------
(* Single flight *)

\* A step of Next, by action.
LEMMA Steps ==
  Next => \/ \E t \in Thr, d \in {"none", "armed"} : Call(t, d)
          \/ \E t \in Thr : \/ SlotFail(t) \/ Claim(t) \/ SlotBlock(t)
                           \/ CallReturn(t) \/ CallCancel(t) \/ CallBlock(t)
          \/ \E t \in Thr : RecvDead(t) \/ RecvTake(t) \/ RecvYield(t)
                            \/ RecvPark(t) \/ RecvWoken(t)
          \/ \E t \in Thr : Expire(t) \/ Recv(t) \/ ReplyRefused(t)
                            \/ ReplyStale(t) \/ ReplyDeliver(t)
          \/ \E t \in Thr : Exit(t)
          \/ \E u \in {"peerDead", "gone"} : Abort(u)
  BY DEF Next, ClientStep, ServerStep, Reply

\* Single flight and the types hold initially.
LEMMA SafeInit == Init => Safe
<1> SUFFICES ASSUME Init PROVE Safe
  OBVIOUS
<1>1. TypeOK
  <2>1. 0 \in 0 .. MaxCalls /\ 0 \in EIO .. MaxCalls /\ 0 \in ETIMEDOUT .. MaxCalls
    BY DoorAssumption DEF EIO, ETIMEDOUT
  <2> QED
    BY <2>1 DEF Init, TypeOK
<1>2. SingleFlight
  BY DEF Init, SingleFlight, Thr, NoThr
<1> QED
  BY <1>1, <1>2 DEF Safe

\* The error codes are values a call may return, and a reply may be returned.
LEMMA ReplyRange ==
  /\ EIO \in EIO .. MaxCalls /\ EIO \in ETIMEDOUT .. MaxCalls
  /\ ETIMEDOUT \in ETIMEDOUT .. MaxCalls
  /\ \A r \in EIO .. MaxCalls : r \in ETIMEDOUT .. MaxCalls
  /\ \A r \in 0 .. MaxCalls : r \in EIO .. MaxCalls
  BY DoorAssumption DEF EIO, ETIMEDOUT

\* The contenders a retiring client leaves asleep are threads of the table.
LEMMA LapsedType ==
  ASSUME NEW t, lapsed \subseteq Thr
  PROVE  lapsed \cup LeftAsleep(t) \subseteq Thr
  BY DEF LeftAsleep

\* Every step keeps the types and single flight.
LEMMA SafeStep == Safe /\ [Next]_vars => Safe'
<1> SUFFICES ASSUME Safe, [Next]_vars PROVE Safe'
  OBVIOUS
<1> USE DoorAssumption DEF Safe
<1>0. CASE UNCHANGED vars
  BY <1>0 DEF TypeOK, SingleFlight, vars, flight
<1>1. ASSUME NEW t \in Thr, NEW d \in {"none", "armed"}, Call(t, d) PROVE Safe'
  <2>1. TypeOK'
    BY <1>1 DEF Call, TypeOK, flight
  <2>2. SingleFlight'
    BY <1>1 DEF Call, TypeOK, SingleFlight, flight, At, Thr, NoThr
  <2> QED
    BY <2>1, <2>2
<1>2. ASSUME NEW t \in Thr, SlotFail(t) PROVE Safe'
  <2>2. TypeOK'
    BY <1>2, ReplyRange, LapsedType DEF SlotFail, Returns, TypeOK, flight
  <2>3. SingleFlight'
    BY <1>2 DEF SlotFail, Returns, TypeOK, SingleFlight, flight, At, Thr, NoThr
  <2> QED
    BY <2>2, <2>3
<1>3. ASSUME NEW t \in Thr, Claim(t) PROVE Safe'
  <2>1. asleep' \in [Thr -> BOOLEAN]
    BY <1>3, WakeKeeps DEF Claim, TypeOK
  <2>2. TypeOK'
    BY <2>1, <1>3, ReplyRange DEF Claim, TypeOK, flight
  <2>3. SingleFlight'
    BY <1>3 DEF Claim, TypeOK, SingleFlight, flight, At, Thr, NoThr
  <2> QED
    BY <2>2, <2>3
<1>4. ASSUME NEW t \in Thr, SlotBlock(t) PROVE Safe'
  <2>2. TypeOK'
    BY <1>4, ReplyRange DEF SlotBlock, TypeOK, flight
  <2>3. SingleFlight'
    BY <1>4 DEF SlotBlock, TypeOK, SingleFlight, flight, At, Thr, NoThr
  <2> QED
    BY <2>2, <2>3
<1>5. ASSUME NEW t \in Thr, CallReturn(t) PROVE Safe'
  <2>1. asleep' \in [Thr -> BOOLEAN]
    BY <1>5, WakeKeeps DEF CallReturn, Returns, TypeOK
  <2>2. TypeOK'
    BY <2>1, <1>5, ReplyRange DEF CallReturn, Returns, TypeOK, flight
  <2>3. SingleFlight'
    BY <1>5 DEF CallReturn, Returns, TypeOK, SingleFlight, flight, At, Thr, NoThr
  <2> QED
    BY <2>2, <2>3
<1>6. ASSUME NEW t \in Thr, CallCancel(t) PROVE Safe'
  <2>1. asleep' \in [Thr -> BOOLEAN]
    BY <1>6, WakeKeeps DEF CallCancel, Returns, Spent, TypeOK
  <2>2. TypeOK'
    BY <2>1, <1>6, ReplyRange DEF CallCancel, Returns, Spent, TypeOK, flight
  <2>3. SingleFlight'
    BY <1>6 DEF CallCancel, Returns, Spent, TypeOK, SingleFlight, flight, At, Thr, NoThr
  <2> QED
    BY <2>2, <2>3
<1>7. ASSUME NEW t \in Thr, CallBlock(t) PROVE Safe'
  <2>2. TypeOK'
    BY <1>7, ReplyRange DEF CallBlock, TypeOK, flight
  <2>3. SingleFlight'
    BY <1>7 DEF CallBlock, TypeOK, SingleFlight, flight, At, Thr, NoThr
  <2> QED
    BY <2>2, <2>3
<1>8. ASSUME NEW t \in Thr, RecvDead(t) PROVE Safe'
  <2>2. TypeOK'
    BY <1>8, ReplyRange DEF RecvDead, TypeOK, flight
  <2>3. SingleFlight'
    BY <1>8 DEF RecvDead, TypeOK, SingleFlight, flight, At, Thr, NoThr
  <2> QED
    BY <2>2, <2>3
<1>9. ASSUME NEW t \in Thr, RecvTake(t) PROVE Safe'
  <2>2. TypeOK'
    BY <1>9, ReplyRange DEF RecvTake, TypeOK, flight
  <2>3. SingleFlight'
    BY <1>9 DEF RecvTake, TypeOK, SingleFlight, flight, At, Thr, NoThr
  <2> QED
    BY <2>2, <2>3
<1>10. ASSUME NEW t \in Thr, RecvYield(t) PROVE Safe'
  <2>1. asleep' \in [Thr -> BOOLEAN]
    BY <1>10, WakeKeeps DEF RecvYield, Asleep, TypeOK
  <2>2. TypeOK'
    BY <2>1, <1>10, ReplyRange DEF RecvYield, Asleep, TypeOK, flight
  <2>3. SingleFlight'
    BY <1>10 DEF RecvYield, Asleep, TypeOK, SingleFlight, flight, At, Thr, NoThr
  <2> QED
    BY <2>2, <2>3
<1>11. ASSUME NEW t \in Thr, RecvPark(t) PROVE Safe'
  <2>1. asleep' \in [Thr -> BOOLEAN]
    BY <1>11, WakeKeeps DEF RecvPark, Asleep, TypeOK
  <2>2. TypeOK'
    BY <2>1, <1>11, ReplyRange DEF RecvPark, Asleep, TypeOK, flight
  <2>3. SingleFlight'
    BY <1>11 DEF RecvPark, Asleep, TypeOK, SingleFlight, flight, At, Thr, NoThr
  <2> QED
    BY <2>2, <2>3
<1>12. ASSUME NEW t \in Thr, RecvWoken(t) PROVE Safe'
  <2>2. TypeOK'
    BY <1>12, ReplyRange DEF RecvWoken, TypeOK, flight
  <2>3. SingleFlight'
    BY <1>12 DEF RecvWoken, TypeOK, SingleFlight, flight, At, Thr, NoThr
  <2> QED
    BY <2>2, <2>3
<1>13. ASSUME NEW t \in Thr, Expire(t) PROVE Safe'
  <2>2. TypeOK'
    BY <1>13, ReplyRange DEF Expire, TypeOK, flight
  <2>3. SingleFlight'
    BY <1>13 DEF Expire, TypeOK, SingleFlight, flight, At, Thr, NoThr
  <2> QED
    BY <2>2, <2>3
<1>14. ASSUME NEW t \in Thr, Recv(t) PROVE Safe'
  <2>2. TypeOK'
    BY <1>14, ReplyRange DEF Recv, TypeOK, flight
  <2>3. SingleFlight'
    BY <1>14 DEF Recv, TypeOK, SingleFlight, flight, At, Thr, NoThr
  <2> QED
    BY <2>2, <2>3
<1>15. ASSUME NEW t \in Thr, ReplyRefused(t) PROVE Safe'
  <2>2. TypeOK'
    BY <1>15, ReplyRange DEF ReplyRefused, ReplyBase, Spent, TypeOK, flight
  <2>3. SingleFlight'
    BY <1>15 DEF ReplyRefused, ReplyBase, Spent, TypeOK, SingleFlight, flight, At, Thr,
       NoThr
  <2> QED
    BY <2>2, <2>3
<1>16. ASSUME NEW t \in Thr, ReplyStale(t) PROVE Safe'
  <2>1. asleep' \in [Thr -> BOOLEAN]
    BY <1>16, WakeKeeps DEF ReplyStale, ReplyBase, Spent, TypeOK
  <2>2. TypeOK'
    BY <2>1, <1>16, ReplyRange DEF ReplyStale, ReplyBase, Spent, TypeOK, flight
  <2>3. SingleFlight'
    BY <1>16 DEF ReplyStale, ReplyBase, Spent, TypeOK, SingleFlight, flight, At, Thr, NoThr
  <2> QED
    BY <2>2, <2>3
<1>17. ASSUME NEW t \in Thr, ReplyDeliver(t) PROVE Safe'
  <2>1. asleep' \in [Thr -> BOOLEAN]
    BY <1>17, WakeKeeps DEF ReplyDeliver, ReplyBase, Spent, TypeOK
  <2>2. TypeOK'
    BY <2>1, <1>17, ReplyRange DEF ReplyDeliver, ReplyBase, Spent, TypeOK, flight
  <2>3. SingleFlight'
    BY <1>17 DEF ReplyDeliver, ReplyBase, Spent, TypeOK, SingleFlight, flight, At, Thr,
       NoThr
  <2> QED
    BY <2>2, <2>3
<1>18. ASSUME NEW t \in Thr, Exit(t) PROVE Safe'
  <2> DEFINE f == [asleep EXCEPT ![t] = FALSE]
  <2>0. f \in [Thr -> BOOLEAN]
    BY DEF TypeOK
  <2>1. CASE ExitClient(t)
    <3>1. asleep' \in [Thr -> BOOLEAN]
      BY <2>0, <2>1, WakeType DEF ExitClient
    <3>2. TypeOK'
      BY <3>1, <1>18, <2>1, ReplyRange, LapsedType DEF Exit, ExitClient, Spent, TypeOK
    <3>3. SingleFlight'
      BY <1>18, <2>1 DEF Exit, ExitClient, TypeOK, SingleFlight, Thr, NoThr
    <3> QED
      BY <3>2, <3>3
  <2>2. CASE ExitServer(t)
    <3>0. (IF client # NoThr /\ ~hasReply THEN Wake(f, CLIENT, 1) ELSE f) \in [Thr -> BOOLEAN]
      BY <2>0, WakeKeeps
    <3>1. asleep' \in [Thr -> BOOLEAN]
      <4> DEFINE g == IF client # NoThr /\ ~hasReply THEN Wake(f, CLIENT, 1) ELSE f
      <4>1. Wake(g, SERVER, 1) \in [Thr -> BOOLEAN]
        BY <3>0, WakeKeeps
      <4>2. Wake(Wake(g, SERVER, 1), SLOT, WakeMax) \in [Thr -> BOOLEAN]
        BY <4>1, WakeKeeps
      <4> QED
        BY <4>2, <2>2 DEF ExitServer
    <3>2. TypeOK'
      BY <3>1, <1>18, <2>2, ReplyRange, LapsedType DEF Exit, ExitServer, Synthetic, Spent, TypeOK
    <3>3. SingleFlight'
      BY <1>18, <2>2 DEF Exit, ExitServer, Synthetic, TypeOK, SingleFlight, Thr, NoThr
    <3> QED
      BY <3>2, <3>3
  <2>3. CASE ExitOther(t)
    <3>2. TypeOK'
      BY <1>18, <2>3, LapsedType DEF Exit, ExitOther, TypeOK, flight
    <3>3. SingleFlight'
      BY <1>18, <2>3 DEF Exit, ExitOther, TypeOK, SingleFlight, Thr, NoThr, flight
    <3> QED
      BY <3>2, <3>3
  <2> QED
    BY <1>18, <2>1, <2>2, <2>3 DEF Exit
<1>19. ASSUME NEW u \in {"peerDead", "gone"}, Abort(u) PROVE Safe'
  <2> DEFINE f == IF client # NoThr THEN Wake(asleep, CLIENT, 1) ELSE asleep
  <2>1. f \in [Thr -> BOOLEAN]
    BY WakeKeeps DEF TypeOK
  <2>2. Wake(f, SERVER, 1) \in [Thr -> BOOLEAN]
    BY <2>1, WakeKeeps
  <2>3. Wake(Wake(f, SERVER, 1), SLOT, WakeMax) \in [Thr -> BOOLEAN]
    BY <2>2, WakeKeeps
  <2>4. TypeOK'
    BY <2>3, <1>19, ReplyRange DEF Abort, Synthetic, Spent, TypeOK
  <2>5. SingleFlight'
    BY <1>19 DEF Abort, Synthetic, TypeOK, SingleFlight, Thr, NoThr
  <2> QED
    BY <2>4, <2>5
<1> QED
  BY <1>0, <1>1, <1>2, <1>3, <1>4, <1>5, <1>6, <1>7, <1>8, <1>9, <1>10, <1>11, <1>12,
     <1>13, <1>14, <1>15, <1>16, <1>17, <1>18, <1>19, Steps
----------------------------------------------------------------------------
(* Theorems about single flight *)

\* TypeOK holds in every reachable state of the door.
THEOREM TypeCorrect == Spec => []TypeOK
<1>1. Safe => TypeOK
  BY DEF Safe
<1> QED
  BY SafeInit, SafeStep, <1>1, PTL DEF Spec

\* pClient is the one thread in flight, and what is pending is its own, for any
\* threads, deaths, deadlines and aborts (door_call_timeout, door_reply,
\* door_thr_exit_one, door_abort_waiters).
THEOREM SingleFlightCorrect == Spec => []SingleFlight
<1>1. Safe => SingleFlight
  BY DEF Safe
<1> QED
  BY SafeInit, SafeStep, <1>1, PTL DEF Spec

\* The reply arm of door_call_timeout comes first: a call that leaves with a reply
\* pending returns that reply.
THEOREM NotDemotedCorrect == Spec => NotDemoted
<1> DEFINE A == \A t \in Thr : client = t /\ hasReply /\ pc'[t] = "user" => ret'[t] = reply
<1>1. Safe /\ [Next]_vars => [A]_vars
  <2> SUFFICES ASSUME Safe, Next, NEW t \in Thr, client = t, hasReply, pc'[t] = "user"
               PROVE  ret'[t] = reply
    OBVIOUS
  <2>1. pc[t] = "call"
    BY DEF Safe, SingleFlight
  <2>2. CASE \E u \in Thr, d \in {"none", "armed"} : Call(u, d)
    BY <2>1, <2>2 DEF Call, At, Safe, TypeOK
  <2>3. CASE \E u \in Thr : \/ SlotFail(u) \/ Claim(u) \/ SlotBlock(u)
                           \/ CallReturn(u) \/ CallCancel(u) \/ CallBlock(u)
    BY <2>1, <2>3 DEF SlotFail, Claim, SlotBlock, CallReturn, CallCancel, CallBlock,
                      Returns, At, Safe, TypeOK
  <2>4. CASE \E u \in Thr : RecvDead(u) \/ RecvTake(u) \/ RecvYield(u)
                            \/ RecvPark(u) \/ RecvWoken(u)
    BY <2>1, <2>4 DEF RecvDead, RecvTake, RecvYield, RecvPark, RecvWoken, At, Safe, TypeOK
  <2>5. CASE \E u \in Thr : Expire(u) \/ Recv(u) \/ ReplyRefused(u)
                            \/ ReplyStale(u) \/ ReplyDeliver(u)
    BY <2>1, <2>5 DEF Expire, Recv, ReplyRefused, ReplyStale, ReplyDeliver, ReplyBase, At,
                      Safe, TypeOK
  <2>6. CASE \E u \in Thr : Exit(u)
    BY <2>1, <2>6 DEF Exit, Safe, TypeOK
  <2>7. CASE \E u \in {"peerDead", "gone"} : Abort(u)
    BY <2>1, <2>7 DEF Abort
  <2> QED
    BY <2>2, <2>3, <2>4, <2>5, <2>6, <2>7, Steps
<1> QED
  BY SafeInit, SafeStep, <1>1, PTL DEF Spec, NotDemoted

----------------------------------------------------------------------------
(* Whose reply: clients are not killed in the middle of a call *)

\* A thread in the wait loop is not woken through another wait tag.
LEMMA WakeOther ==
  ASSUME NEW f \in [Thr -> BOOLEAN], NEW c \in Thr, pc[c] = "call"
  PROVE  \A n : /\ Wake(f, SERVER, n)[c] = f[c]
                /\ Wake(f, SLOT, n)[c] = f[c]
<1>1. pc[c] \notin SERVER /\ pc[c] \notin SLOT
  BY DEF SERVER, SLOT
<1> TAKE n
<1>2. /\ Wake(f, SERVER, n) \in [Thr -> BOOLEAN]
      /\ Wake(f, SERVER, n)[c] => f[c]
      /\ f[c] => Wake(f, SERVER, n)[c]
  BY <1>1, WakeKeeps
<1>3. /\ Wake(f, SLOT, n) \in [Thr -> BOOLEAN]
      /\ Wake(f, SLOT, n)[c] => f[c]
      /\ f[c] => Wake(f, SLOT, n)[c]
  BY <1>1, WakeKeeps
<1> QED
  BY <1>2, <1>3

\* The strengthened invariant holds initially.
LEMMA ServedInit == Init => Served
<1> SUFFICES ASSUME Init PROVE Served
  OBVIOUS
<1>1. Safe
  BY SafeInit
<1> QED
  BY <1>1 DEF Init, Served, Roles, OwnerSleeps, Marked, ServeWindow, ServesOwner,
     TakenFirst,
              OwnReply, Thr, NoThr

\* Every step keeps the strengthened invariant.
LEMMA ServedStep ==
  ASSUME Killable \cap Client = {}, Served, [Next]_vars
  PROVE  Served'
<1> USE DoorAssumption
<1>a. Safe /\ Safe'
  BY SafeStep DEF Served
<1> DEFINE Rest == Roles /\ Marked /\ ServeWindow /\ ServesOwner /\ TakenFirst /\ OwnReply
<1> SUFFICES OwnerSleeps' /\ Rest'
  BY <1>a DEF Served
<1>b. TypeOK /\ SingleFlight
  BY <1>a DEF Safe
<1>c. OwnerSleeps /\ Roles /\ Marked /\ ServeWindow /\ ServesOwner /\ TakenFirst /\ OwnReply
  BY DEF Served
<1>d. client # NoThr => client \in Thr /\ pc[client] = "call"
  BY <1>b DEF TypeOK, SingleFlight
<1>0. CASE UNCHANGED vars
  BY <1>0, <1>c DEF vars, flight, OwnerSleeps, Roles, Marked, ServeWindow, ServesOwner,
                    TakenFirst, OwnReply, Live
<1>1. ASSUME NEW t \in Thr, NEW d \in {"none", "armed"}, Call(t, d) PROVE OwnerSleeps' /\ Rest'
  <2>o. OwnerSleeps'
    BY <1>b, <1>c, <1>1 DEF Call, OwnerSleeps, flight
  <2>r. Rest'
    BY <1>b, <1>c, <1>d, <1>1 DEF Call, OwnerSleeps,
       Roles, Marked, ServeWindow, ServesOwner, TakenFirst, OwnReply, Live, At, TypeOK,
       SingleFlight, Thr, NoThr, flight
  <2> QED
    BY <2>o, <2>r
<1>2. ASSUME NEW t \in Thr, SlotFail(t) PROVE OwnerSleeps' /\ Rest'
  <2>o. OwnerSleeps'
    BY <1>b, <1>c, <1>d, <1>2 DEF SlotFail, Returns, OwnerSleeps, At, TypeOK, flight, Thr,
       NoThr
  <2>r. Rest'
    BY <1>b, <1>c, <1>d, <1>2 DEF SlotFail, Returns, OwnerSleeps,
       Roles, Marked, ServeWindow, ServesOwner, TakenFirst, OwnReply, Live, At, TypeOK,
       SingleFlight, Thr, NoThr, flight
  <2> QED
    BY <2>o, <2>r
<1>3. ASSUME NEW t \in Thr, Claim(t) PROVE OwnerSleeps' /\ Rest'
  <2>o. OwnerSleeps'
    BY <1>b, <1>c, <1>d, <1>3 DEF Claim, OwnerSleeps, At, TypeOK, flight, Thr, NoThr
  <2>r. Rest'
    BY <1>b, <1>c, <1>d, <1>3 DEF Claim, OwnerSleeps,
       Roles, Marked, ServeWindow, ServesOwner, TakenFirst, OwnReply, Live, At, TypeOK,
       SingleFlight, Thr, NoThr, flight
  <2> QED
    BY <2>o, <2>r
<1>4. ASSUME NEW t \in Thr, SlotBlock(t) PROVE OwnerSleeps' /\ Rest'
  <2>o. OwnerSleeps'
    BY <1>b, <1>c, <1>d, <1>4 DEF SlotBlock, OwnerSleeps, At, TypeOK, flight, Thr, NoThr
  <2>r. Rest'
    BY <1>b, <1>c, <1>d, <1>4 DEF SlotBlock, OwnerSleeps,
       Roles, Marked, ServeWindow, ServesOwner, TakenFirst, OwnReply, Live, At, TypeOK,
       SingleFlight, Thr, NoThr, flight
  <2> QED
    BY <2>o, <2>r
<1>5. ASSUME NEW t \in Thr, CallReturn(t) PROVE OwnerSleeps' /\ Rest'
  <2>o. OwnerSleeps'
    BY <1>b, <1>c, <1>d, <1>5 DEF CallReturn, Returns, OwnerSleeps, At, TypeOK, flight,
       Thr, NoThr
  <2>r. Rest'
    BY <1>b, <1>c, <1>d, <1>5 DEF CallReturn, Returns, OwnerSleeps,
       Roles, Marked, ServeWindow, ServesOwner, TakenFirst, OwnReply, Live, At, TypeOK,
       SingleFlight, Thr, NoThr, flight
  <2> QED
    BY <2>o, <2>r
<1>6. ASSUME NEW t \in Thr, CallCancel(t) PROVE OwnerSleeps' /\ Rest'
  <2>o. OwnerSleeps'
    BY <1>b, <1>c, <1>d, <1>6 DEF CallCancel, Returns, OwnerSleeps, At, TypeOK, flight,
       Thr, NoThr
  <2>r. Rest'
    BY <1>b, <1>c, <1>d, <1>6 DEF CallCancel, Returns, OwnerSleeps,
       Roles, Marked, ServeWindow, ServesOwner, TakenFirst, OwnReply, Live, At, TypeOK,
       SingleFlight, Thr, NoThr, flight
  <2> QED
    BY <2>o, <2>r
<1>7. ASSUME NEW t \in Thr, CallBlock(t) PROVE OwnerSleeps' /\ Rest'
  <2>o. OwnerSleeps'
    BY <1>b, <1>c, <1>d, <1>7 DEF CallBlock, OwnerSleeps, At, TypeOK, flight, Thr, NoThr
  <2>r. Rest'
    BY <1>b, <1>c, <1>d, <1>7 DEF CallBlock, OwnerSleeps,
       Roles, Marked, ServeWindow, ServesOwner, TakenFirst, OwnReply, Live, At, TypeOK,
       SingleFlight, Thr, NoThr, flight
  <2> QED
    BY <2>o, <2>r
<1>8. ASSUME NEW t \in Thr, RecvDead(t) PROVE OwnerSleeps' /\ Rest'
  <2>o. OwnerSleeps'
    BY <1>b, <1>c, <1>d, <1>8 DEF RecvDead, OwnerSleeps, At, TypeOK, flight, Thr, NoThr
  <2>r. Rest'
    BY <1>b, <1>c, <1>d, <1>8, SMTT(30) DEF RecvDead, OwnerSleeps,
       Roles, Marked, ServeWindow, ServesOwner, TakenFirst, OwnReply, Live, At, TypeOK,
       SingleFlight, Thr, NoThr, flight
  <2> QED
    BY <2>o, <2>r
<1>9. ASSUME NEW t \in Thr, RecvTake(t) PROVE OwnerSleeps' /\ Rest'
  <2>o. OwnerSleeps'
    BY <1>b, <1>c, <1>d, <1>9 DEF RecvTake, MayTake, OwnerSleeps, At, TypeOK, flight, Thr,
       NoThr
  <2>r. Rest'
    BY <1>b, <1>c, <1>d, <1>9 DEF RecvTake, MayTake, OwnerSleeps,
       Roles, Marked, ServeWindow, ServesOwner, TakenFirst, OwnReply, Live, At, TypeOK,
       SingleFlight, Thr, NoThr, flight
  <2> QED
    BY <2>o, <2>r
<1>10. ASSUME NEW t \in Thr, RecvYield(t) PROVE OwnerSleeps' /\ Rest'
  <2>1. client # NoThr => asleep'[client] = asleep[client] /\ t # client
    <3> DEFINE f == [asleep EXCEPT ![t] = TRUE]
    <3> SUFFICES ASSUME client # NoThr PROVE asleep'[client] = asleep[client] /\ t # client
      OBVIOUS
    <3>1. f \in [Thr -> BOOLEAN] /\ client # t /\ f[client] = asleep[client]
      BY <1>b, <1>d, <1>10 DEF RecvYield, At, TypeOK
    <3>2. Wake(f, SERVER, 1)[client] = f[client]
      BY <3>1, <1>d, WakeOther
    <3> QED
      BY <3>1, <3>2, <1>10 DEF RecvYield, Asleep
  <2>o. OwnerSleeps'
    BY <2>1, <1>b, <1>c, <1>d, <1>10 DEF RecvYield, OwnerSleeps, At, TypeOK, flight
  <2>r. Rest'
    BY <1>b, <1>c, <1>d, <1>10 DEF RecvYield, OwnerSleeps,
       Roles, Marked, ServeWindow, ServesOwner, TakenFirst, OwnReply, Live, At, TypeOK,
       SingleFlight, Thr, NoThr, flight
  <2> QED
    BY <2>o, <2>r
<1>11. ASSUME NEW t \in Thr, RecvPark(t) PROVE OwnerSleeps' /\ Rest'
  <2>1. client # NoThr => asleep'[client] = asleep[client] /\ t # client
    <3> DEFINE f == [asleep EXCEPT ![t] = TRUE]
    <3> SUFFICES ASSUME client # NoThr PROVE asleep'[client] = asleep[client] /\ t # client
      OBVIOUS
    <3>1. f \in [Thr -> BOOLEAN] /\ client # t /\ f[client] = asleep[client]
      BY <1>b, <1>d, <1>11 DEF RecvPark, At, TypeOK
    <3>2. Wake(f, SERVER, 1)[client] = f[client]
      BY <3>1, <1>d, WakeOther
    <3> QED
      BY <3>1, <3>2, <1>11 DEF RecvPark, Asleep
  <2>o. OwnerSleeps'
    BY <2>1, <1>b, <1>c, <1>d, <1>11 DEF RecvPark, OwnerSleeps, At, TypeOK, flight
  <2>2. Roles' /\ ServesOwner'
    BY <1>b, <1>c, <1>11 DEF RecvPark, At, TypeOK, Roles, ServesOwner
  <2>3. \A s \in Thr : pc[s] # "serve"
    BY <1>c, <1>11 DEF RecvPark, Foreign, At, Marked, ServeWindow, NoThr, Thr
  <2>4. Marked' /\ ServeWindow'
    BY <2>3, <1>b, <1>11 DEF RecvPark, TypeOK, Marked, ServeWindow
  <2>5. TakenFirst' /\ OwnReply'
    BY <1>c, <1>11 DEF RecvPark, TakenFirst, OwnReply, Live
  <2> QED
    BY <2>o, <2>2, <2>4, <2>5
<1>12. ASSUME NEW t \in Thr, RecvWoken(t) PROVE OwnerSleeps' /\ Rest'
  <2>o. OwnerSleeps'
    BY <1>b, <1>c, <1>d, <1>12 DEF RecvWoken, OwnerSleeps, At, TypeOK, flight, Thr, NoThr
  <2>r. Rest'
    BY <1>b, <1>c, <1>d, <1>12 DEF RecvWoken, OwnerSleeps,
       Roles, Marked, ServeWindow, ServesOwner, TakenFirst, OwnReply, Live, At, TypeOK,
       SingleFlight, Thr, NoThr, flight
  <2> QED
    BY <2>o, <2>r
<1>13. ASSUME NEW t \in Thr, Expire(t) PROVE OwnerSleeps' /\ Rest'
  <2>o. OwnerSleeps'
    BY <1>b, <1>c, <1>d, <1>13 DEF Expire, OwnerSleeps, At, TypeOK, flight, Thr, NoThr
  <2>r. Rest'
    BY <1>b, <1>c, <1>d, <1>13 DEF Expire, OwnerSleeps,
       Roles, Marked, ServeWindow, ServesOwner, TakenFirst, OwnReply, Live, At, TypeOK,
       SingleFlight, Thr, NoThr, flight
  <2> QED
    BY <2>o, <2>r
<1>14. ASSUME NEW t \in Thr, Recv(t) PROVE OwnerSleeps' /\ Rest'
  <2>o. OwnerSleeps'
    BY <1>b, <1>c, <1>d, <1>14 DEF Recv, OwnerSleeps, At, TypeOK, flight, Thr, NoThr
  <2>r. Rest'
    BY <1>b, <1>c, <1>d, <1>14 DEF Recv, OwnerSleeps,
       Roles, Marked, ServeWindow, ServesOwner, TakenFirst, OwnReply, Live, At, TypeOK,
       SingleFlight, Thr, NoThr, flight
  <2> QED
    BY <2>o, <2>r
<1>15. ASSUME NEW t \in Thr, ReplyRefused(t) PROVE OwnerSleeps' /\ Rest'
  <2>o. OwnerSleeps'
    BY <1>b, <1>c, <1>d, <1>15 DEF ReplyRefused, ReplyBase, OwnerSleeps, At, TypeOK,
       flight, Thr, NoThr
  <2>r. Rest'
    BY <1>b, <1>c, <1>d, <1>15 DEF ReplyRefused, ReplyBase, OwnerSleeps,
       Roles, Marked, ServeWindow, ServesOwner, TakenFirst, OwnReply, Live, At, TypeOK,
       SingleFlight, Thr, NoThr, flight
  <2> QED
    BY <2>o, <2>r
<1>16. ASSUME NEW t \in Thr, ReplyStale(t) PROVE OwnerSleeps' /\ Rest'
  <2>o. OwnerSleeps'
    BY <1>16 DEF ReplyStale, ReplyBase, OwnerSleeps
  <2>r. Rest'
    BY <1>b, <1>c, <1>d, <1>16 DEF ReplyStale, ReplyBase, OwnerSleeps,
       Roles, Marked, ServeWindow, ServesOwner, TakenFirst, OwnReply, Live, At, TypeOK,
       SingleFlight, Thr, NoThr, flight
  <2> QED
    BY <2>o, <2>r
<1>17. ASSUME NEW t \in Thr, ReplyDeliver(t) PROVE OwnerSleeps' /\ Rest'
  <2>o. OwnerSleeps'
    BY <1>b, <1>c, <1>d, <1>17 DEF ReplyDeliver, ReplyBase, OwnerSleeps, At, TypeOK,
       flight, Thr, NoThr
  <2>1. Roles' /\ ServesOwner'
    BY <1>b, <1>c, <1>17 DEF ReplyDeliver, ReplyBase, At, TypeOK, Roles, ServesOwner
  <2>2. Marked' /\ TakenFirst'
    BY <1>b, <1>c, <1>17 DEF ReplyDeliver, ReplyBase, At, TypeOK, Live, Marked, ServeWindow,
                             TakenFirst
  <2>3. ServeWindow'
    BY <1>17 DEF ReplyDeliver, ServeWindow, Thr, NoThr
  <2>4. OwnReply'
    BY <1>b, <1>c, <1>17 DEF ReplyDeliver, ReplyBase, At, TypeOK, ServesOwner, OwnReply
  <2> QED
    BY <2>o, <2>1, <2>2, <2>3, <2>4
<1>18. ASSUME NEW t \in Thr, Exit(t) PROVE OwnerSleeps' /\ Rest'
  <2>1. ~ExitClient(t)
    <3>1. t \notin Client
      BY <1>18 DEF Exit
    <3> QED
      BY <3>1, <1>c, <1>d DEF ExitClient, Roles, Thr, NoThr
  <2>2. CASE ExitServer(t)
    <3>1. OwnerSleeps'
      BY <2>2 DEF ExitServer, Synthetic, OwnerSleeps
    <3>2. Roles' /\ ServesOwner'
      BY <1>b, <1>c, <1>18, <2>2 DEF Exit, ExitServer, TypeOK, Roles, ServesOwner
    <3>3. Marked' /\ ServeWindow'
      BY <1>b, <1>c, <1>18, <2>2 DEF Exit, ExitServer, TypeOK, Live, Marked, ServeWindow,
                                     Thr, NoThr
    <3>4. TakenFirst' /\ OwnReply'
      BY <1>c, <1>18, <2>2 DEF Exit, ExitServer, Synthetic, Live, TakenFirst, OwnReply
    <3> QED
      BY <3>1, <3>2, <3>3, <3>4
  <2>3. CASE ExitOther(t)
    <3>1. OwnerSleeps'
      BY <1>b, <1>c, <1>d, <1>18, <2>3 DEF Exit, ExitOther, OwnerSleeps, TypeOK, flight
    <3>2. Rest'
      BY <1>b, <1>c, <1>d, <1>18, <2>3
      DEF Exit, ExitOther, Roles, Marked, ServeWindow, ServesOwner, TakenFirst, OwnReply,
      Live, At, TypeOK, SingleFlight, Thr, NoThr, flight
    <3> QED
      BY <3>1, <3>2
  <2> QED
    BY <1>18, <2>1, <2>2, <2>3 DEF Exit
<1>19. ASSUME NEW u \in {"peerDead", "gone"}, Abort(u) PROVE OwnerSleeps' /\ Rest'
  <2>o. OwnerSleeps'
    BY <1>19 DEF Abort, Synthetic, OwnerSleeps
  <2>r. Rest'
    BY <1>b, <1>c, <1>d, <1>19 DEF Abort, Synthetic, Roles, Marked, ServeWindow,
       ServesOwner, TakenFirst, OwnReply, Live, At, TypeOK, SingleFlight, Thr, NoThr, flight
  <2> QED
    BY <2>o, <2>r
<1> QED
  BY <1>0, <1>1, <1>2, <1>3, <1>4, <1>5, <1>6, <1>7, <1>8, <1>9, <1>10, <1>11, <1>12,
     <1>13, <1>14, <1>15, <1>16, <1>17, <1>18, <1>19, Steps

\* If clients are not killed in the middle of a call, the server that holds the
\* mark serves the request of the client that waits (door_recv's serve hold).
THEOREM ServeWindowCorrect ==
  ASSUME Killable \cap Client = {}
  PROVE  Spec => []ServeWindow
<1>1. Served /\ [Next]_vars => Served'
  BY ServedStep
<1>2. Served => ServeWindow
  BY DEF Served
<1> QED
  BY ServedInit, <1>1, <1>2, PTL DEF Spec

\* If clients are not killed in the middle of a call, no client is answered with
\* the reply to another call, with or without the soft REPLY table (door_reply).
THEOREM OwnReplyCorrect ==
  ASSUME Killable \cap Client = {}
  PROVE  Spec => []OwnReply
<1>1. Served /\ [Next]_vars => Served'
  BY ServedStep
<1>2. Served => OwnReply
  BY DEF Served
<1> QED
  BY ServedInit, <1>1, <1>2, PTL DEF Spec
============================================================================
