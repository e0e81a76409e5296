----------------------------- MODULE SocketPool -----------------------------
(***************************************************************************)
(* The sockets of the Java client: the pools of SocketManager, the threads *)
(* that take a socket, exchange requests and replies on it and give it     *)
(* back (Protocol and the multi operations), the maintenance thread that   *)
(* closes idle sockets, and initialize and shutdown.                       *)
(*                                                                         *)
(* The active pool is a concurrent queue, each call on it one step; the    *)
(* inactive pool is used under a lock, each critical section one step; the *)
(* tests of `initialized` and of the queue's size are steps of their own.  *)
(* There is one server: the pools of the servers are apart.                *)
(*                                                                         *)
(* initialize is one step and comes before shutdown.  In the code it sets  *)
(* the flag, then connects and adds one socket after the other without a   *)
(* look at what addSocket returns, and a shutdown called meanwhile is not  *)
(* held off: what that leaves open is out of the model's scope.            *)
(***************************************************************************)
EXTENDS Integers, Sequences, SequencesExt, FiniteSetsExt

CONSTANTS
  Threads,        \* application threads
  Sockets,        \* bound: the connections that can be open at a time
  initConn,       \* connections made by initialize
  maxActiveConn,  \* the size above which a socket goes to the inactive pool
  inactiveSocketTimeout, \* ticks a socket may idle in the inactive pool
  MaxClosed,      \* idle sockets one pass of the maintenance closes (5)
  MaxPipeline     \* bound: requests a multi operation sends on one socket

NoSocket == "none"

ASSUME PoolAssumption ==
  /\ IsFiniteSet(Threads) /\ IsFiniteSet(Sockets) /\ NoSocket \notin Sockets
  /\ initConn \in Nat /\ maxActiveConn \in Nat /\ inactiveSocketTimeout \in Nat
  /\ MaxClosed \in Nat \ {0} /\ MaxPipeline \in Nat \ {0}

VARIABLES
  initialized,  \* the flag of SocketManager
  main,         \* where shutdown is: "up", "active", "inactive", "down"
  active,       \* activeSocketPool: the oldest entry first
  inactive,     \* inactiveSocketPool: the entry added last first
  open,         \* the sockets that are connected
  idle,         \* idle[s]: ticks since setLastActiveTime, cut off
  pending,      \* pending[s]: the threads whose replies are still to come
  pc,           \* pc[t]: what thread t does
  holds,        \* holds[t]: the socket thread t has, or NoSocket
  passing,      \* the maintenance thread found initialized set and is on a pass
  raced         \* threads that were past the test in addSocket at shutdown

vars == <<initialized, main, active, inactive, open, idle, pending, pc, holds, passing, raced>>

MaxIdle == inactiveSocketTimeout + 2

Init ==
  /\ initialized = FALSE /\ main = "down"
  /\ active = <<>> /\ inactive = <<>> /\ open = {}
  /\ idle = [s \in Sockets |-> 0]
  /\ pending = [s \in Sockets |-> <<>>]
  /\ pc = [t \in Threads |-> "idle"]
  /\ holds = [t \in Threads |-> NoSocket]
  /\ passing = FALSE /\ raced = {}

------------------------------------------------------------------------------
\* Helpers

Go(t, p) == pc' = [pc EXCEPT ![t] = p]
Take(t, s) == Go(t, "has") /\ holds' = [holds EXCEPT ![t] = s]

\* The thread's socket has left its hands.
LetGo(t) == Go(t, "idle") /\ holds' = [holds EXCEPT ![t] = NoSocket]

\* trueClose: the connection ends, what was still to come on it is lost.
trueClose(S) ==
  /\ open' = open \ S
  /\ pending' = [s \in Sockets |-> IF s \in S THEN <<>> ELSE pending[s]]

------------------------------------------------------------------------------
\* getSocket, getSocketByHost

PollActive(t) ==
  /\ pc[t] = "idle"
  /\ IF active = <<>>
     THEN Go(t, "inactive") /\ UNCHANGED <<active, holds>>
     ELSE Take(t, Head(active)) /\ active' = Tail(active)
  /\ UNCHANGED <<initialized, main, inactive, open, idle, pending, passing, raced>>

\* Slip: the first socket of the list is taken and left in it.
Slip_PollInactive(t) ==
  /\ pc[t] = "inactive"
  /\ IF inactive = <<>> THEN Go(t, "create") /\ UNCHANGED holds ELSE Take(t, Head(inactive))
  /\ UNCHANGED <<initialized, main, active, inactive, open, idle, pending, passing, raced>>

PollInactive(t) ==
  /\ pc[t] = "inactive"
  /\ IF inactive = <<>>
     THEN Go(t, "create") /\ UNCHANGED <<inactive, holds>>
     ELSE Take(t, Head(inactive)) /\ inactive' = Tail(inactive)
  /\ UNCHANGED <<initialized, main, active, open, idle, pending, passing, raced>>

\* createSocket: null when not initialized or when connecting fails.
createSocket(t) ==
  /\ pc[t] = "create"
  /\ \/ /\ initialized
        /\ \E s \in Sockets \ open : Take(t, s) /\ open' = open \cup {s}
     \/ LetGo(t) /\ UNCHANGED open
  /\ UNCHANGED <<initialized, main, active, inactive, idle, pending, passing, raced>>

------------------------------------------------------------------------------
\* One operation on the socket: requests out, their replies in

\* Protocol writes one request and flushes it, a multi operation several.
Request(t) ==
  /\ pc[t] = "has"
  /\ \E n \in 1..MaxPipeline :
       pending' = [pending EXCEPT ![holds[t]] = @ \o [i \in 1..n |-> t]]
  /\ Go(t, "wait")
  /\ UNCHANGED <<initialized, main, active, inactive, open, idle, holds, passing, raced>>

\* The next reply of the connection is read, whosever it is; after the last of
\* its own the operation ends and gives the socket back.
ReadReply(t) ==
  /\ pc[t] = "wait" /\ pending[holds[t]] # <<>>
  /\ pending' = [pending EXCEPT ![holds[t]] = Tail(@)]
  /\ IF Len(pending[holds[t]]) = 1 THEN Go(t, "close") ELSE UNCHANGED pc
  /\ UNCHANGED <<initialized, main, active, inactive, open, idle, holds, passing, raced>>

\* Slip: a failed operation gives its socket back like any other.
Slip_Abandon(t) ==
  /\ pc[t] \in {"has", "wait"}
  /\ Go(t, "close")
  /\ UNCHANGED <<initialized, main, active, inactive, open, idle, pending, holds, passing, raced>>

\* An IOException, the reason UNKNOWN_COMMAND or, in a multi operation, a
\* connection that is not done in time: the socket is closed for good.
Abandon(t) ==
  /\ pc[t] \in {"has", "wait"}
  /\ trueClose({holds[t]})
  /\ LetGo(t)
  /\ UNCHANGED <<initialized, main, active, inactive, idle, passing, raced>>

------------------------------------------------------------------------------
\* TCPSocket.close and addSocket

\* Slip: the flag is not tested.
Slip_TestInitialized(t) ==
  /\ pc[t] = "close"
  /\ Go(t, "size")
  /\ UNCHANGED <<initialized, main, active, inactive, open, idle, pending, holds, passing, raced>>

\* The test of the flag; a socket nobody pools is closed by TCPSocket.close.
TestInitialized(t) ==
  /\ pc[t] = "close"
  /\ IF initialized
     THEN Go(t, "size") /\ UNCHANGED <<open, pending, holds>>
     ELSE trueClose({holds[t]}) /\ LetGo(t)
  /\ UNCHANGED <<initialized, main, active, inactive, idle, passing, raced>>

\* The test of the size, which the thread does not hold on to; the time of a
\* socket bound for the inactive pool is set before its lock is taken.
TestSize(t) ==
  /\ pc[t] = "size"
  /\ IF Len(active) < maxActiveConn
     THEN Go(t, "addActive") /\ UNCHANGED idle
     ELSE Go(t, "addInactive") /\ idle' = [idle EXCEPT ![holds[t]] = 0]
  /\ UNCHANGED <<initialized, main, active, inactive, open, pending, holds, passing, raced>>

AddActive(t) ==
  /\ pc[t] = "addActive"
  /\ active' = Append(active, holds[t])
  /\ LetGo(t)
  /\ UNCHANGED <<initialized, main, inactive, open, idle, pending, passing, raced>>

AddInactive(t) ==
  /\ pc[t] = "addInactive"
  /\ inactive' = <<holds[t]>> \o inactive
  /\ LetGo(t)
  /\ UNCHANGED <<initialized, main, active, open, idle, pending, passing, raced>>

------------------------------------------------------------------------------
\* The maintenance thread

\* Time passes, which matters to the sockets of the inactive pool and to those
\* on their way to it.
Tick ==
  /\ idle' = [s \in Sockets |->
       IF /\ idle[s] < MaxIdle
          /\ s \in Range(inactive) \/ \E t \in Threads : holds[t] = s /\ pc[t] = "addInactive"
       THEN idle[s] + 1 ELSE idle[s]]
  /\ idle' # idle
  /\ UNCHANGED <<initialized, main, active, inactive, open, pending, pc, holds, passing, raced>>

\* MaintainThread.run tests the flag and reads the time, then takes the lock.
MaintainThread_run ==
  /\ initialized /\ ~passing /\ passing' = TRUE
  /\ UNCHANGED <<initialized, main, active, inactive, open, idle, pending, pc, holds, raced>>

\* maintainInactiveSocket: from the end of the list, at most MaxClosed sockets,
\* up to the first that is not old enough.  The time it goes by may be behind
\* by a tick.
maintainInactiveSocket ==
  /\ passing /\ passing' = FALSE
  /\ \E lag \in {0, 1} :
       LET old(n) == idle[inactive[n]] > inactiveSocketTimeout + lag
           keep == CHOOSE k \in 0..Len(inactive) :
                     /\ k = Len(inactive) - MaxClosed \/ k = 0 \/ ~old(k)
                     /\ k + MaxClosed >= Len(inactive)
                     /\ \A n \in (k + 1)..Len(inactive) : old(n)
       IN /\ inactive' = SubSeq(inactive, 1, keep)
          /\ trueClose({inactive[n] : n \in (keep + 1)..Len(inactive)})
  /\ UNCHANGED <<initialized, main, active, idle, pc, holds, raced>>

------------------------------------------------------------------------------
\* initialize and shutdown

\* initialize connects up to initConn sockets and pools them.
initialize ==
  /\ main = "down"
  /\ initialized' = TRUE /\ main' = "up" /\ raced' = {}
  /\ \E n \in 0..initConn : \E new \in [1..n -> Sockets \ open] :
       LET room == Min({n, Max({maxActiveConn - Len(active), 0})})
       IN /\ IsInjective(new)
          /\ open' = open \cup Range(new)
          /\ active' = active \o SubSeq(new, 1, room)
          /\ inactive' = Reverse(SubSeq(new, room + 1, n)) \o inactive
          /\ idle' = [s \in Sockets |-> IF s \in Range(new) THEN 0 ELSE idle[s]]
  /\ UNCHANGED <<pending, pc, holds, passing>>

shutdown ==
  /\ main = "up"
  /\ initialized' = FALSE /\ main' = "active"
  /\ raced' = {t \in Threads : pc[t] \in {"size", "addActive", "addInactive"}}
  /\ UNCHANGED <<active, inactive, open, idle, pending, pc, holds, passing>>

\* closeSocketPool, first half: poll and close until a poll finds nothing.
CloseActive ==
  /\ main = "active"
  /\ IF active = <<>>
     THEN main' = "inactive" /\ UNCHANGED <<active, open, pending>>
     ELSE active' = Tail(active) /\ trueClose({Head(active)}) /\ UNCHANGED main
  /\ UNCHANGED <<initialized, inactive, idle, pc, holds, passing, raced>>

\* Second half, under the lock.
CloseInactive ==
  /\ main = "inactive"
  /\ inactive' = <<>> /\ trueClose(Range(inactive)) /\ main' = "down"
  /\ UNCHANGED <<initialized, active, idle, pc, holds, passing, raced>>

Next ==
  \/ \E t \in Threads :
       \/ PollActive(t) \/ PollInactive(t) \/ createSocket(t)
       \/ Request(t) \/ ReadReply(t) \/ Abandon(t)
       \/ TestInitialized(t) \/ TestSize(t) \/ AddActive(t) \/ AddInactive(t)
  \/ Tick \/ MaintainThread_run \/ maintainInactiveSocket
  \/ initialize \/ shutdown \/ CloseActive \/ CloseInactive

Spec == Init /\ [][Next]_vars

------------------------------------------------------------------------------
\* Properties

Pool == active \o inactive
Holders(s) == {t \in Threads : holds[t] = s}

\* A connected socket is in exactly one place, a pool or the hands of one
\* thread, and no pool or thread has one that was closed: sockets are neither
\* shared, lost nor handed out dead, with threads, maintenance and shutdown
\* working on the pools at once.
OnePlace ==
  /\ IsInjective(Pool)
  /\ \A s \in Sockets :
       IF s \in open
       THEN IF s \in Range(Pool) THEN Holders(s) = {} ELSE Cardinality(Holders(s)) = 1
       ELSE s \notin Range(Pool) /\ Holders(s) = {}

\* Replies never cross: on a socket in a pool, or one just taken, no reply is
\* still to come, so the replies an operation reads are to its own requests.
NoCrossTalk ==
  /\ \A s \in Range(Pool) : pending[s] = <<>>
  /\ \A t \in Threads :
       /\ pc[t] = "wait" => Range(pending[holds[t]]) = {t}
       /\ pc[t] # "wait" /\ holds[t] # NoSocket => pending[holds[t]] = <<>>

\* After shutdown a pool holds a socket only because its thread had passed the
\* test of `initialized` before the flag was cleared: one socket per such
\* thread, open until the next initialize or the end of the process.
StrandedOnlyByRace ==
  main = "down" => Cardinality(Range(Pool)) <= Cardinality(raced)
=============================================================================
