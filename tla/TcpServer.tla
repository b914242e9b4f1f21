----------------------------- MODULE TcpServer -----------------------------
(***************************************************************************)
(* muduo::net::TcpServer with its Acceptor, its EventLoopThreadPool and    *)
(* all its connections: what TcpConnection.tla follows for one connection  *)
(* in full is here three states of each, so that the map, the choice of    *)
(* the loops and the descriptors can be followed for several at once.      *)
(* A loop is the queue of the functors that it has been given and not run  *)
(* yet: LoopExecutor, which EventLoop implements.                          *)
(***************************************************************************)
EXTENDS EventLoopThreadPool, Acceptor, Sequences, FiniteSets

CONSTANTS MaxClients,     \* bound on the clients that connect
          MaxFds          \* descriptors left for the connections

ASSUME ServerAssumption == MaxClients \in Nat /\ MaxFds \in Nat /\ MaxCalls >= MaxClients

VARIABLES alive,          \* the server is not destructed
          nextConnId_,
          connections_,   \* the ids of the connections in the map
          conn,           \* state of each connection: "none", "connecting", "connected", "disconnected", "gone"
          loopOf,         \* its loop
          pendingFunctors_,  \* of each loop
          arrived         \* clients so far

Conns == 1 .. MaxClients
connVars == <<connections_, conn, loopOf, pendingFunctors_>>
serverVars == <<alive, nextConnId_, connections_, conn, loopOf, pendingFunctors_, arrived>>
vars == <<poolVars, acceptorVars, serverVars>>

Functors == {"connectEstablished", "removeConnectionInLoop", "connectDestroyed"} \X Conns

TypeOK ==
  /\ PoolTypeOK
  /\ listenning_ \in BOOLEAN /\ idleFd_ \in {"held", "lost", "client", "closed"}
  /\ free \in 0 .. MaxFds + 1 /\ waiting \in 0 .. MaxClients
  /\ reading \in {"no", "emfile", "accepted", "reopen"}
  /\ alive \in BOOLEAN /\ nextConnId_ \in 1 .. MaxClients + 1 /\ arrived \in 0 .. MaxClients
  /\ connections_ \subseteq 1 .. nextConnId_ - 1
  /\ conn \in [Conns -> {"none", "connecting", "connected", "disconnected", "gone"}]
  /\ loopOf \in [Conns -> Loops]
  /\ pendingFunctors_ \in [Loops -> Seq(Functors)]

Init ==
  /\ PoolInit /\ AcceptorInit(MaxFds)
  /\ alive = TRUE /\ nextConnId_ = 1 /\ connections_ = {} /\ arrived = 0
  /\ conn = [c \in Conns |-> "none"] /\ loopOf = [c \in Conns |-> Base]
  /\ pendingFunctors_ = [l \in Loops |-> <<>>]

Queued(queues, l, name, c) == [queues EXCEPT ![l] = Append(@, <<name, c>>)]

\* start(): the threads, and then listen() at once, as start() runs in the base loop's thread.
\* A second call finds started_ set and does nothing.
start == alive /\ startPool /\ listen /\ UNCHANGED serverVars

ClientConnects ==
  /\ listenning_ /\ arrived < MaxClients
  /\ arrived' = arrived + 1 /\ waiting' = waiting + 1
  /\ UNCHANGED <<poolVars, listenning_, idleFd_, free, reading,
                 alive, nextConnId_, connections_, conn, loopOf, pendingFunctors_>>

NextId == nextConnId_ + 1

Inserted(c) == connections_ \union {c}

\* newConnection(), called by handleRead(); with no threads runInLoop() runs
\* connectEstablished() at once.
newConnection ==
  /\ AcceptClient /\ getNextLoop
  /\ LET c == nextConnId_  IN
       /\ loopOf' = [loopOf EXCEPT ![c] = Chosen]
       /\ connections_' = Inserted(c)
       /\ IF Chosen = Base
          THEN conn' = [conn EXCEPT ![c] = "connected"] /\ UNCHANGED pendingFunctors_
          ELSE /\ conn' = [conn EXCEPT ![c] = "connecting"]
               /\ pendingFunctors_' = Queued(pendingFunctors_, Chosen, "connectEstablished", c)
  /\ nextConnId_' = NextId
  /\ UNCHANGED <<alive, arrived>>

handleRead ==
  \/ newConnection
  \/ (AcceptAborted \/ AcceptFails \/ TakeClient \/ TurnAway \/ Reopen) /\ UNCHANGED <<poolVars, serverVars>>

\* Mutant: removal is queued twice.
RemovalQueued_Twice(c) ==
  Queued(Queued(pendingFunctors_, Base, "removeConnectionInLoop", c), Base, "removeConnectionInLoop", c)

RemovalQueued(c) == Queued(pendingFunctors_, Base, "removeConnectionInLoop", c)

Destroying(c) == Queued(pendingFunctors_, loopOf[c], "connectDestroyed", c)

\* A connection is closed in its loop: handleClose() and its closeCallback_, removeConnection(),
\* which removes the connection at once if its loop is the base loop.
Close(c) ==
  /\ alive /\ conn[c] = "connected" /\ (loopOf[c] = Base => reading = "no")
  /\ conn' = [conn EXCEPT ![c] = "disconnected"]
  /\ IF loopOf[c] = Base
     THEN connections_' = connections_ \ {c} /\ pendingFunctors_' = Destroying(c)
     ELSE pendingFunctors_' = RemovalQueued(c) /\ UNCHANGED connections_
  /\ UNCHANGED <<poolVars, acceptorVars, alive, nextConnId_, loopOf, arrived>>

Front(l) == Head(pendingFunctors_[l])
Popped(l) == [pendingFunctors_ EXCEPT ![l] = Tail(@)]

\* Loop l runs the functor at the front of its queue.
RunFunctor(l) ==
  /\ pendingFunctors_[l] # <<>> /\ (l = Base => reading = "no")
  /\ LET c == Front(l)[2] IN
       \/ /\ Front(l)[1] = "connectEstablished"
          /\ conn' = [conn EXCEPT ![c] = "connected"]
          /\ pendingFunctors_' = Popped(l)
          /\ UNCHANGED <<free, connections_>>
       \/ /\ Front(l)[1] = "removeConnectionInLoop"
          /\ connections_' = connections_ \ {c}
          /\ pendingFunctors_' = [Destroying(c) EXCEPT ![l] = Tail(@)]
          /\ UNCHANGED <<free, conn>>
       \/ /\ Front(l)[1] = "connectDestroyed"
          /\ conn' = [conn EXCEPT ![c] = "gone"] /\ free' = free + 1
          /\ pendingFunctors_' = Popped(l)
          /\ UNCHANGED connections_
  /\ UNCHANGED <<poolVars, listenning_, idleFd_, waiting, reading, alive, nextConnId_, loopOf, arrived>>

\* With threads the user must have seen all connections go: functors bound to the server may be
\* queued otherwise (TcpServer.cc:115, "FIXME: unsafe").
MayDestruct == numThreads_ > 0 => \A c \in Conns : conn[c] \in {"none", "gone"}

DestructedOf(c) == IF c \in connections_ THEN "gone" ELSE conn[c]

\* ~TcpServer(): connectDestroyed() of every connection in the map, at once in the base loop.
Destruct ==
  /\ alive /\ MayDestruct /\ alive' = FALSE
  /\ conn' = [c \in Conns |-> DestructedOf(c)]
  /\ connections_' = {}
  /\ DestructAcceptor(Cardinality({c \in Conns : conn'[c] = "gone" /\ conn[c] # "gone"}))
  /\ UNCHANGED <<poolVars, nextConnId_, loopOf, pendingFunctors_, arrived>>

Next ==
  \/ start \/ ClientConnects \/ handleRead \/ Destruct
  \/ \E c \in Conns : Close(c)
  \/ \E l \in Loops : RunFunctor(l)

Spec == Init /\ [][Next]_vars

\* Every loop runs on: the base loop serves its functors and the listening socket.
FairSpec == Spec /\ WF_vars(handleRead) /\ \A l \in Loops : WF_vars(RunFunctor(l))

------------------------------------------------------------------------------
(* Properties. *)

\* The places in the loops' queues where functor name waits for connection c.
Places(name, c) ==
  {at \in UNION {{l} \X DOMAIN pendingFunctors_[l] : l \in Loops} :
     pendingFunctors_[at[1]][at[2]] = <<name, c>>}

Count(name, c) == Cardinality(Places(name, c))

\* The map holds exactly the connections that are not on their way to connectDestroyed(), and each
\* of the others is destroyed once: none is destroyed while the map still leads to it.  A removal
\* that is queued finds its connection in the map, so that assert(n == 1) in
\* removeConnectionInLoop() holds (TcpServer.cc:127).
MapIsExact ==
  \A c \in Conns :
     /\ Count("removeConnectionInLoop", c) <= (IF c \in connections_ THEN 1 ELSE 0)
     /\ c \in connections_ <=> conn[c] \in {"connecting", "connected", "disconnected"} /\ Count("connectDestroyed", c) = 0
     /\ Count("connectDestroyed", c) <= 1
     /\ Count("connectDestroyed", c) = 1 => conn[c] = "disconnected"

\* No descriptor is leaked and none is closed twice: those that are not free are idleFd_ and the
\* sockets of the connections that still exist (Acceptor.cc:68-94).
DescriptorsBalance ==
  TypeOK /\ free = MaxFds - Cardinality({c \in Conns : conn[c] \in {"connecting", "connected", "disconnected"}})
         + (CASE idleFd_ \in {"held", "client"} -> 0 [] OTHER -> 1)

\* Connections, map entries and descriptors come and go together, in whatever order the functors of
\* the loops run (TcpServer.cc:75-135, Acceptor.cc:68-94).
ConnectionsBalance == MapIsExact /\ DescriptorsBalance

\* A client that waits is accepted or turned away, also when no descriptor is left, and again the next
\* time: the listening socket does not stay readable for ever (Acceptor.cc:84-93).  A connection
\* that is closed is taken out of the map, destroyed, and its descriptor freed (TcpServer.cc:110-135).
ClientsComeAndGo ==
  /\ waiting > 0 ~> waiting = 0
  /\ \A c \in Conns : conn[c] = "disconnected" ~> conn[c] = "gone"

=============================================================================
