-------------------------------- MODULE Door --------------------------------
(***************************************************************************)
(* One kernel door (kernel/ipc/door.c): synchronous call, receive and      *)
(* reply between client threads and a server thread, one call in flight at *)
(* a time, with deadlines, thread death and peer death.                    *)
(*                                                                         *)
(* Grain.  Threads share one CPU and switch only in schedule(), so what a  *)
(* thread does between two calls of schedule() is not interleaved with     *)
(* other threads; cpu names a thread that is in the middle of such a run.  *)
(* Only the clock moves meanwhile.                                         *)
(***************************************************************************)
EXTENDS Integers, FiniteSets

CONSTANTS
  NThr,           \* threads are numbered by their place in the thread table
  Client,         \* threads that call the door
  Server,         \* threads that serve it
  Timed,          \* clients that may set a deadline
  Killable,       \* threads that may be killed or exit
  MaxCalls,       \* bound: calls made in a behaviour
  WakeMax,        \* contenders one abort wakes (8)
  Tracked,        \* the soft REPLY table has room for this door; FALSE: the cold
                  \* door with a full table
  Abortable,      \* the door may be aborted or marked dead
  ServerReplies   \* fairness: a serving thread goes on to reply

Thr == 1 .. NThr
NoThr == 0

ASSUME DoorAssumption ==
  /\ NThr \in Nat
  /\ Client \subseteq Thr /\ Server \subseteq Thr /\ Client \cap Server = {}
  /\ Timed \subseteq Client /\ Killable \subseteq Thr
  /\ MaxCalls \in Nat /\ WakeMax \in Nat
  /\ Tracked \in BOOLEAN /\ Abortable \in BOOLEAN /\ ServerReplies \in BOOLEAN

VARIABLES
  up,        \* "ready", "peerDead" (u32PeerDead) or "gone" (u32Ready = 0)
  client,    \* pClient: owner of the flight
  server,    \* pServer: the waiting or serving thread
  hasReq,    \* u32HasReq
  req,       \* the request posted, by the number of its call
  hasReply,  \* u32HasReply
  reply,     \* i64Reply: the number of the call it answers, or EIO
  right,     \* the single-use soft REPLY right of the flight
  pc,        \* where a thread is
  asleep,    \* thread state BLOCKED
  due,       \* a thread's deadline
  mine,      \* the number of a client's latest call
  work,      \* the request a server took
  ret,       \* what a client's latest call returned
  calls,     \* calls made so far
  cpu,       \* thread that has not reached schedule() yet
  lapsed     \* history: contenders left asleep by the one that was woken for the slot

flight == <<client, server, hasReq, req, hasReply, reply, right>>
vars == <<up, flight, pc, asleep, due, mine, work, ret, calls, cpu, lapsed>>

EIO == -1
ETIMEDOUT == -2

----------------------------------------------------------------------------
(* Sleeping and waking *)

\* Program counters of the threads that block on a wait tag.
SERVER == {"recv", "parked"}
CLIENT == {"call"}
SLOT == {"slot"}

\* thread_wake: the first n blocked threads of the table with this tag.
Wake(f, tag, n) ==
  LET S == {t \in Thr : f[t] /\ pc[t] \in tag} IN
  [t \in Thr |-> f[t] /\ ~(t \in S /\ Cardinality({u \in S : u < t}) < n)]

\* t runs next, or is still running, at this point of its code.
At(t, p) == cpu \in {NoThr, t} /\ pc[t] = p /\ ~asleep[t]

Live == up = "ready"

\* door_reply_soft_invalidate and a successful consume leave the right spent.
Spent == IF right = "none" THEN "none" ELSE "spent"

----------------------------------------------------------------------------
(* Client: door_call_timeout *)

\* The call returns r.
Returns(t, r) ==
  /\ pc' = [pc EXCEPT ![t] = "user"]
  /\ ret' = [ret EXCEPT ![t] = r]
  /\ due' = [due EXCEPT ![t] = "none"]
  /\ cpu' = NoThr

Call(t, d) ==
  /\ t \in Client /\ At(t, "user")
  /\ calls < MaxCalls
  /\ d = "none" \/ t \in Timed
  /\ calls' = calls + 1
  /\ mine' = [mine EXCEPT ![t] = calls + 1]
  /\ due' = [due EXCEPT ![t] = d]
  /\ pc' = [pc EXCEPT ![t] = "slot"]
  /\ UNCHANGED <<up, flight, asleep, work, ret, cpu, lapsed>>

\* The clock passes the deadline.
Expire(t) ==
  /\ due[t] = "armed"
  /\ due' = [due EXCEPT ![t] = "past"]
  /\ UNCHANGED <<up, flight, pc, asleep, mine, work, ret, calls, cpu, lapsed>>

\* The contenders that stay asleep on a free slot when t, awake in the claim loop,
\* leaves it.  Another one awake would claim the slot of a live door and pass it on.
LeftAsleep(t) ==
  IF /\ pc[t] = "slot" /\ ~asleep[t] /\ client = NoThr
     /\ Live => \A v \in Thr \ {t} : pc[v] = "slot" => asleep[v]
  THEN {v \in Thr : pc[v] = "slot" /\ asleep[v]}
  ELSE {}

\* The claim loop gives up: the door is dead or the deadline has passed.  The
\* checks at entry give up the same way (their ENOSYS is told as EIO here).
SlotFail(t) ==
  /\ At(t, "slot")
  /\ ~Live \/ due[t] = "past"
  /\ Returns(t, IF Live THEN ETIMEDOUT ELSE EIO)
  /\ lapsed' = lapsed \cup LeftAsleep(t)
  /\ UNCHANGED <<up, flight, asleep, mine, work, calls>>

\* The slot is free: claim it, post the request, create the REPLY right, wake
\* the server, and go on to the wait loop without a schedule().
Claim(t) ==
  /\ At(t, "slot")
  /\ Live /\ due[t] # "past"
  /\ client = NoThr
  /\ client' = t
  /\ req' = mine[t]
  /\ hasReply' = FALSE /\ hasReq' = TRUE
  /\ right' = IF Tracked THEN "live" ELSE "none"
  /\ asleep' = IF server # NoThr THEN Wake(asleep, SERVER, 1) ELSE asleep
  /\ pc' = [pc EXCEPT ![t] = "call"]
  /\ cpu' = t
  /\ UNCHANGED <<up, server, reply, due, mine, work, ret, calls, lapsed>>

\* The slot is taken: block on its tag.  The owner cannot be an exited thread,
\* whose exit released the slot, so the stale-owner arm is never taken.
SlotBlock(t) ==
  /\ At(t, "slot")
  /\ Live /\ due[t] # "past"
  /\ client # NoThr
  /\ asleep' = [asleep EXCEPT ![t] = TRUE]
  /\ lapsed' = lapsed \ {t}
  /\ UNCHANGED <<up, flight, pc, due, mine, work, ret, calls, cpu>>

CallReturnLate(t) ==
  /\ At(t, "call")
  /\ hasReply
  /\ hasReply' = FALSE /\ hasReq' = FALSE
  /\ client' = NoThr
  /\ asleep' = Wake(asleep, SLOT, 1)
  /\ Returns(t, IF due[t] = "past" THEN ETIMEDOUT ELSE reply)
  /\ UNCHANGED <<up, server, req, reply, right, mine, work, calls, lapsed>>

\* The reply is looked at before the deadline.
CallReturn(t) ==
  /\ At(t, "call")
  /\ hasReply
  /\ hasReply' = FALSE /\ hasReq' = FALSE
  /\ client' = NoThr
  /\ asleep' = Wake(asleep, SLOT, 1)
  /\ Returns(t, reply)
  /\ UNCHANGED <<up, server, req, reply, right, mine, work, calls, lapsed>>

CallCancelPosted(t) ==
  /\ At(t, "call")
  /\ ~hasReply
  /\ ~Live \/ due[t] = "past"
  /\ hasReq' = hasReq /\ hasReply' = FALSE
  /\ right' = Spent
  /\ client' = NoThr
  /\ asleep' = Wake(Wake(asleep, SLOT, 1), SERVER, 1)
  /\ Returns(t, IF Live THEN ETIMEDOUT ELSE EIO)
  /\ UNCHANGED <<up, server, req, reply, mine, work, calls, lapsed>>

\* door_cancel_inflight on peer death or an expired deadline.
CallCancel(t) ==
  /\ At(t, "call")
  /\ ~hasReply
  /\ ~Live \/ due[t] = "past"
  /\ hasReq' = FALSE /\ hasReply' = FALSE
  /\ right' = Spent
  /\ client' = NoThr
  /\ asleep' = Wake(Wake(asleep, SLOT, 1), SERVER, 1)
  /\ Returns(t, IF Live THEN ETIMEDOUT ELSE EIO)
  /\ UNCHANGED <<up, server, req, reply, mine, work, calls, lapsed>>

CallBlock(t) ==
  /\ At(t, "call")
  /\ ~hasReply /\ Live /\ due[t] # "past"
  /\ asleep' = [asleep EXCEPT ![t] = TRUE]
  /\ cpu' = NoThr
  /\ UNCHANGED <<up, flight, pc, due, mine, work, ret, calls, lapsed>>

----------------------------------------------------------------------------
(* Server: door_recv and door_reply *)

Recv(s) ==
  /\ s \in Server /\ At(s, "user")
  /\ Live
  /\ pc' = [pc EXCEPT ![s] = "recv"]
  /\ UNCHANGED <<up, flight, asleep, due, mine, work, ret, calls, cpu, lapsed>>

RecvDead(s) ==
  /\ At(s, "recv")
  /\ ~Live
  /\ server' = IF server = s THEN NoThr ELSE server
  /\ pc' = [pc EXCEPT ![s] = "user"]
  /\ cpu' = NoThr
  /\ UNCHANGED <<up, client, hasReq, req, hasReply, reply, right, asleep, due, mine,
                 work, ret, calls, lapsed>>

\* Only the marked waiter, or anyone when there is none, takes the request.
MayTake(s) == hasReq /\ server \in {NoThr, s}

RecvTakeKept(s) ==
  /\ At(s, "recv")
  /\ Live /\ MayTake(s)
  /\ work' = [work EXCEPT ![s] = req]
  /\ server' = s
  /\ pc' = [pc EXCEPT ![s] = "serve"]
  /\ cpu' = NoThr
  /\ UNCHANGED <<up, client, hasReq, req, hasReply, reply, right, asleep, due, mine,
                 ret, calls, lapsed>>

RecvTake(s) ==
  /\ At(s, "recv")
  /\ Live /\ MayTake(s)
  /\ work' = [work EXCEPT ![s] = req]
  /\ hasReq' = FALSE
  /\ server' = s
  /\ pc' = [pc EXCEPT ![s] = "serve"]
  /\ cpu' = NoThr
  /\ UNCHANGED <<up, client, req, hasReply, reply, right, asleep, due, mine, ret, calls, lapsed>>

\* Another thread is serving a call in flight.
Foreign(s) == server \notin {NoThr, s} /\ client # NoThr

\* Block on the server's tag; a request that is there wakes one waiter again.
Asleep(s) ==
  LET f == [asleep EXCEPT ![s] = TRUE] IN
  IF hasReq THEN Wake(f, SERVER, 1) ELSE f

\* Do not touch the mark of another thread's flight.
RecvYield(s) ==
  /\ At(s, "recv")
  /\ Live /\ ~MayTake(s) /\ Foreign(s)
  /\ asleep' = Asleep(s)
  /\ cpu' = NoThr
  /\ UNCHANGED <<up, flight, pc, due, mine, work, ret, calls, lapsed>>

\* Mark oneself as the waiter.
RecvPark(s) ==
  /\ At(s, "recv")
  /\ Live /\ ~MayTake(s) /\ ~Foreign(s)
  /\ server' = s
  /\ asleep' = Asleep(s)
  /\ pc' = [pc EXCEPT ![s] = "parked"]
  /\ cpu' = NoThr
  /\ UNCHANGED <<up, client, hasReq, req, hasReply, reply, right, due, mine, work, ret,
                 calls, lapsed>>

\* The waiter runs again and drops its mark if nothing is in flight.
RecvWoken(s) ==
  /\ At(s, "parked")
  /\ server' = IF server = s /\ ~hasReq /\ client = NoThr THEN NoThr ELSE server
  /\ pc' = [pc EXCEPT ![s] = "recv"]
  /\ cpu' = s
  /\ UNCHANGED <<up, client, hasReq, req, hasReply, reply, right, asleep, due, mine,
                 work, ret, calls, lapsed>>

\* door_reply after the server's own receive.
ReplyBase(s) ==
  /\ At(s, "serve")
  /\ pc' = [pc EXCEPT ![s] = "user"]
  /\ UNCHANGED <<up, client, hasReq, req, due, mine, work, ret, calls, cpu, lapsed>>

\* Not ready, or the right of the flight is spent: nothing else changes.
ReplyRefused(s) ==
  /\ ReplyBase(s)
  /\ up = "gone" \/ (client # NoThr /\ right = "spent")
  /\ UNCHANGED <<server, hasReply, reply, right, asleep>>

\* The client left: the reply is dropped and the server mark released.
ReplyStale(s) ==
  /\ ReplyBase(s)
  /\ up # "gone" /\ client = NoThr
  /\ server' = IF server = s THEN NoThr ELSE server
  /\ asleep' = IF server = s THEN Wake(asleep, SERVER, 1) ELSE asleep
  /\ UNCHANGED <<hasReply, reply, right>>

ReplyDeliver(s) ==
  /\ ReplyBase(s)
  /\ up # "gone" /\ client # NoThr /\ right # "spent"
  /\ right' = Spent
  /\ reply' = work[s]
  /\ hasReply' = TRUE
  /\ server' = NoThr
  /\ asleep' = Wake(Wake(asleep, CLIENT, 1), SERVER, 1)

Reply(s) == ReplyRefused(s) \/ ReplyStale(s) \/ ReplyDeliver(s)

----------------------------------------------------------------------------
(* Death *)

\* A synthetic reply completes the flight.
Synthetic == /\ reply' = EIO
             /\ hasReply' = TRUE

ExitClientNoSlot(t) ==
  /\ client = t
  /\ client' = NoThr
  /\ hasReq' = FALSE /\ hasReply' = FALSE
  /\ reply' = EIO
  /\ right' = Spent
  /\ server' = NoThr
  /\ LET f == [asleep EXCEPT ![t] = FALSE] IN
     asleep' = Wake(Wake(f, CLIENT, 1), SERVER, 1)
  /\ UNCHANGED req

\* door_thr_exit_one: the owner of the flight dies.
ExitClient(t) ==
  /\ client = t
  /\ client' = NoThr
  /\ hasReq' = FALSE /\ hasReply' = FALSE
  /\ reply' = EIO
  /\ right' = Spent
  /\ server' = NoThr
  /\ LET f == [asleep EXCEPT ![t] = FALSE] IN
     asleep' = Wake(Wake(Wake(f, CLIENT, 1), SERVER, 1), SLOT, WakeMax)
  /\ UNCHANGED req

ExitServerSilent(t) ==
  /\ client # t /\ server = t
  /\ server' = NoThr
  /\ LET f == [asleep EXCEPT ![t] = FALSE] IN
     asleep' = Wake(Wake(f, SERVER, 1), SLOT, WakeMax)
  /\ UNCHANGED <<client, hasReq, req, hasReply, reply, right>>

\* door_thr_exit_server_role: a flight without a reply ends with EIO.
ExitServer(t) ==
  LET f == [asleep EXCEPT ![t] = FALSE]
      eio == client # NoThr /\ ~hasReply
      g == IF eio THEN Wake(f, CLIENT, 1) ELSE f IN
  /\ client # t /\ server = t
  /\ IF eio THEN hasReq' = FALSE /\ Synthetic /\ right' = Spent
            ELSE UNCHANGED <<hasReq, hasReply, reply, right>>
  /\ server' = NoThr
  /\ asleep' = Wake(Wake(g, SERVER, 1), SLOT, WakeMax)
  /\ UNCHANGED <<client, req>>

\* A contender, or a thread without a role, leaves nothing behind.
ExitOther(t) ==
  /\ t \notin {client, server}
  /\ asleep' = [asleep EXCEPT ![t] = FALSE]
  /\ UNCHANGED flight

\* thread_exit, thread_exit_process and the trap handler's kill, each with its
\* door_on_thread_exit.  That visits the cold door always and any other door only
\* through the soft REPLY table: without Tracked this is the cold door.
Exit(t) ==
  /\ t \in Killable /\ cpu = NoThr /\ pc[t] # "exited"
  /\ pc' = [pc EXCEPT ![t] = "exited"]
  /\ due' = [due EXCEPT ![t] = "none"]
  /\ ExitClient(t) \/ ExitServer(t) \/ ExitOther(t)
  /\ lapsed' = lapsed \cup LeftAsleep(t)
  /\ UNCHANGED <<up, mine, work, ret, calls, cpu>>

\* door_abort_waiters, and door_mark_dead which also clears u32Ready.
Abort(u) ==
  /\ Abortable /\ cpu = NoThr
  /\ up' = IF up = "gone" THEN "gone" ELSE u
  /\ right' = Spent
  /\ IF client # NoThr THEN Synthetic ELSE UNCHANGED <<hasReply, reply>>
  /\ server' = NoThr
  /\ LET f == IF client # NoThr THEN Wake(asleep, CLIENT, 1) ELSE asleep IN
     asleep' = Wake(Wake(f, SERVER, 1), SLOT, WakeMax)
  /\ UNCHANGED <<client, hasReq, req, pc, due, mine, work, ret, calls, cpu, lapsed>>

----------------------------------------------------------------------------
InitDirty ==
  /\ up = "ready"
  /\ client = NoThr /\ server = NThr + 1
  /\ hasReq = FALSE /\ req = 0
  /\ hasReply = FALSE /\ reply = 0
  /\ right = "none"
  /\ pc = [t \in Thr |-> "user"]
  /\ asleep = [t \in Thr |-> FALSE]
  /\ due = [t \in Thr |-> "none"]
  /\ mine = [t \in Thr |-> 0]
  /\ work = [t \in Thr |-> 0]
  /\ ret = [t \in Thr |-> 0]
  /\ calls = 0
  /\ cpu = NoThr
  /\ lapsed = {}

\* door_init.
Init ==
  /\ up = "ready"
  /\ client = NoThr /\ server = NoThr
  /\ hasReq = FALSE /\ req = 0
  /\ hasReply = FALSE /\ reply = 0
  /\ right = "none"
  /\ pc = [t \in Thr |-> "user"]
  /\ asleep = [t \in Thr |-> FALSE]
  /\ due = [t \in Thr |-> "none"]
  /\ mine = [t \in Thr |-> 0]
  /\ work = [t \in Thr |-> 0]
  /\ ret = [t \in Thr |-> 0]
  /\ calls = 0
  /\ cpu = NoThr
  /\ lapsed = {}

\* What a thread does inside door_call_timeout and door_recv.
ClientStep(t) == SlotFail(t) \/ Claim(t) \/ SlotBlock(t) \/ CallReturn(t) \/ CallCancel(t)
                   \/ CallBlock(t)
ServerStep(t) == RecvDead(t) \/ RecvTake(t) \/ RecvYield(t) \/ RecvPark(t) \/ RecvWoken(t)

Next ==
  \/ \E t \in Thr, d \in {"none", "armed"} : Call(t, d)
  \/ \E t \in Thr : ClientStep(t) \/ ServerStep(t)
  \/ \E t \in Thr : Expire(t) \/ Recv(t) \/ Reply(t) \/ Exit(t)
  \/ \E u \in {"peerDead", "gone"} : Abort(u)

Spec == Init /\ [][Next]_vars

\* What a thread that is runnable will do once it is picked.  The personality
\* server loops on receive; where ServerReplies says so, its service terminates.
Run(t) == ClientStep(t) \/ ServerStep(t) \/ Recv(t) \/ (ServerReplies /\ Reply(t))

\* Threads of one rank are picked by age, so a runnable thread gets to run, and
\* the clock advances.
Fairness == \A t \in Thr : WF_vars(Run(t)) /\ WF_vars(Expire(t))

FairSpec == Spec /\ Fairness

----------------------------------------------------------------------------
(* Properties *)

\* Types of the fields of struct gj_door and of the threads' state around it.
TypeOK ==
  /\ up \in {"ready", "peerDead", "gone"}
  /\ client \in Thr \cup {NoThr} /\ server \in Thr \cup {NoThr}
  /\ hasReq \in BOOLEAN /\ hasReply \in BOOLEAN
  /\ req \in 0 .. MaxCalls /\ reply \in EIO .. MaxCalls
  /\ right \in {"none", "live", "spent"}
  /\ pc \in [Thr -> {"user", "slot", "call", "recv", "parked", "serve", "exited"}]
  /\ asleep \in [Thr -> BOOLEAN]
  /\ due \in [Thr -> {"none", "armed", "past"}]
  /\ mine \in [Thr -> 0 .. MaxCalls] /\ work \in [Thr -> 0 .. MaxCalls]
  /\ ret \in [Thr -> ETIMEDOUT .. MaxCalls]
  /\ calls \in 0 .. MaxCalls
  /\ cpu \in Thr \cup {NoThr}
  /\ lapsed \subseteq Thr

\* Single flight: pClient is exactly the thread that posted and has not left, a
\* request or a reply is pending only while somebody owns the flight, and a
\* pending request is the owner's.
SingleFlight ==
  /\ \A t \in Thr : pc[t] = "call" <=> client = t
  /\ hasReq \/ hasReply => client # NoThr
  /\ hasReq => req = mine[client]

\* A client gets the answer to its own call, or EIO: a reply that comes late is
\* dropped, and never completes somebody else's flight.
OwnReply == hasReply => reply \in {EIO, mine[client]}

\* Serve window: while pServer names a thread that took a request, the request
\* is the one of the flight's owner, who has no reply yet and is still there.
\* Like OwnReply it needs clients that are not killed in the middle of a call.
ServeWindow ==
  \A s \in Thr : server = s /\ pc[s] = "serve" =>
    client # NoThr /\ ~hasReq /\ ~hasReply /\ work[s] = mine[client]

\* A reply that landed is what the call returns: not a time-out that expired
\* while the client was waiting to run.
NotDemoted ==
  [][\A t \in Thr : client = t /\ hasReply /\ pc'[t] = "user" => ret'[t] = reply]_vars

\* Every call returns, or its thread is killed, as long as a server thread lives,
\* unless the contender woken for the slot left it, at its deadline, killed or at a
\* dead door, and the caller stays asleep behind it.
CallEnds ==
  \A t \in Client :
    pc[t] \in {"slot", "call"} ~>
      \/ pc[t] \in {"user", "exited"}
      \/ t \in lapsed /\ asleep[t]
      \/ \A s \in Server : pc[s] = "exited"

\* door_call as door.h has it: a contender blocks until the owner releases the slot, or
\* peer death aborts; a server lives on and the slot is released again and again.
\* False: TLC's counterexample is that of DoorContender.cfg.
SlotReached ==
  \A t \in Client :
    pc[t] = "slot" ~> pc[t] # "slot" \/ \A s \in Server : pc[s] = "exited"

\* A call that a server has taken ends and leaves the slot free, even if that server
\* dies: the exit hook answers for it.
FlightEnds ==
  \A s \in Server : client # NoThr /\ server = s /\ pc[s] = "serve" ~> client = NoThr
============================================================================
