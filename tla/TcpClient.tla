------------------------------ MODULE TcpClient ------------------------------
(***************************************************************************)
(* muduo::net::TcpClient: a Connector, the connection it makes, and the    *)
(* calls of the client's owner, in the loop or in another thread.  The     *)
(* connection is what TcpConnection promises: up, asked to close, then     *)
(* closed by an event or a functor of the loop, then destroyed.            *)
(***************************************************************************)
EXTENDS Connector

CONSTANTS retry_,         \* was enableRetry() called?
          MaxConnects,    \* bound: calls of connect()
          MaxQueue        \* bound: functors waiting when a call adds one

ASSUME ClientAssumption == retry_ \in BOOLEAN /\ MaxConnects \in Nat /\ MaxQueue \in Nat

VARIABLES clientConnect,  \* TcpClient::connect_
          connection,     \* connection_: "none", "up" or "closing"
          client,         \* "alive" or "dead"
          connects        \* connect() calls

clientVars == <<clientConnect, connection, client, connects>>
vars == <<connectorVars, clientVars>>

TypeOK ==
  /\ ConnectorTypeOK
  /\ queue \in Seq({"startInLoop", "stopInLoop", "resetChannel", "destroyed", "forceClose"})
  /\ clientConnect \in BOOLEAN /\ connection \in {"none", "up", "closing"}
  /\ client \in {"alive", "dead"} /\ connects \in 0 .. MaxConnects

Init ==
  /\ ConnectorInit
  /\ clientConnect = TRUE /\ connection = "none" /\ client = "alive" /\ connects = 0

------------------------------------------------------------------------------
(* Callbacks of the connector and of the connection, in the loop. *)

\* newConnectionCallback_ at the end of handleWrite().
newConnection ==
  /\ calling = "newConnection" /\ calling' = "none"
  /\ connection' = "up"
  /\ sockets' = sockets - 1
  /\ UNCHANGED <<connect_, overruled, state_, channel_, gaveUp, retryVars, revents, loopVars, queue,
                 clientConnect, client, connects>>

\* Mutant: the client connects again although it was told to stop.
Reconnects_Always == retry_

Reconnects == retry_ /\ clientConnect

\* removeConnection() as the close callback, q being the functors queued before it, up
\* to the test of retry_ and connect_.  After the client's destructor the callback is
\* detail::removeConnection().
Closes(q) ==
  /\ connection # "none"
  /\ connection' = "none"
  /\ queue' = Append(q, "destroyed")
  /\ calling' = IF client = "alive" /\ Reconnects THEN "restart" ELSE "none"
  /\ UNCHANGED <<connect_, overruled, attemptVars, retryVars, revents, clientConnect, client, connects>>

\* ... and then connector_->restart().
restart ==
  /\ calling = "restart" /\ calling' = "none"
  /\ connect_' = TRUE
  /\ startInLoop(TRUE, timers, kInitRetryDelayMs)
  /\ UNCHANGED <<overruled, revents, loopVars, queue, clientVars>>

\* The connection's handleClose(), on an event; the first poll that can report one comes
\* after the iteration in which the connection was made, whose functors reset channel_.
ConnectionClosed ==
  /\ phase = "handle" /\ calling = "none" /\ channel_ # "removed"
  /\ Closes(queue)
  /\ UNCHANGED loopVars

\* forceCloseInLoop()
ForceClose ==
  /\ Functor("forceClose") /\ UNCHANGED <<phase, due>>
  /\ IF connection = "none"
     THEN queue' = Tail(queue) /\ UNCHANGED <<connect_, overruled, attemptVars, retryVars, calling, revents, clientVars>>
     ELSE Closes(Tail(queue))

\* connectDestroyed()
Destroyed ==
  /\ Functor("destroyed")
  /\ queue' = Tail(queue)
  /\ UNCHANGED <<connect_, overruled, attemptVars, retryVars, calling, revents, phase, due, clientVars>>

LoopStep == (ConnectorStep /\ UNCHANGED clientVars) \/ newConnection \/ restart \/ ConnectionClosed \/ ForceClose
            \/ Destroyed

------------------------------------------------------------------------------
(* Calls of the owner. *)

CallNames == {"connect", "disconnect", "stop"}

\* connect(), disconnect() and stop(), in the loop or in another thread: start() runs or
\* queues startInLoop(), stop() always queues.  An owner connects again only after it has
\* disconnected or stopped.
Call(op, inLoop) ==
  /\ client = "alive" /\ Len(queue) < MaxQueue
  /\ inLoop => phase # "poll" /\ calling = "none"
  /\ clientConnect' = (op = "connect")
  /\ connect_' = CASE op = "connect" -> TRUE [] op = "stop" -> FALSE [] OTHER -> connect_
  /\ op = "connect" => connects < MaxConnects /\ (connects = 0 \/ ~clientConnect)
  /\ connects' = IF op = "connect" THEN connects + 1 ELSE connects
  /\ connection' = IF op = "disconnect" /\ connection = "up" THEN "closing" ELSE connection
  /\ queue' = CASE op = "stop" -> Append(queue, "stopInLoop")
                [] op = "connect" /\ ~inLoop -> Append(queue, "startInLoop")
                [] OTHER -> queue
  /\ IF op = "connect" /\ inLoop THEN startInLoop(TRUE, timers, retryDelayMs_)
                                 ELSE UNCHANGED <<attemptVars, retryVars>>
  /\ UNCHANGED <<overruled, calling, revents, loopVars, client>>

\* ~TcpClient(), in the loop and with nothing of the connector under way: the connection
\* is closed if no one else holds it, or the connector is stopped and kept for a second.
Destruct ==
  /\ client = "alive" /\ client' = "dead"
  /\ phase # "poll" /\ calling = "none" /\ queue = <<>> /\ revents = {}
  /\ IF connection # "none"
     THEN /\ \/ queue' = Append(queue, "forceClose") /\ connection' = "closing"
             \/ UNCHANGED <<queue, connection>>
          /\ UNCHANGED connect_
     ELSE queue' = Append(queue, "stopInLoop") /\ connect_' = FALSE /\ UNCHANGED connection
  /\ UNCHANGED <<overruled, attemptVars, retryVars, calling, revents, loopVars, clientConnect, connects>>

Next == LoopStep \/ Destruct \/ \E op \in CallNames : Call(op, TRUE) \/ Call(op, FALSE)

Spec == Init /\ [][Next]_vars

\* The loop runs on.
FairSpec == Spec /\ WF_vars(LoopStep)

------------------------------------------------------------------------------
(* Properties. *)

Count(b) == IF b THEN 1 ELSE 0
Queued(f) == \E i \in DOMAIN queue : queue[i] = f

\* There is one attempt at a time: a socket being connected, a retry timer, a start that
\* is queued and an open connection exclude one another, whatever stop(), disconnect(),
\* errors and reconnection do in between; and every socket that connect() opens is closed or
\* handed over, on each path of handleWrite(), handleError(), stopInLoop() and retry().
OneAttempt ==
  /\ TypeOK
  /\ timers + Count(channel_ = "on") + Count(calling = "newConnection") + Count(connection # "none")
            + Count(Queued("startInLoop")) <= 1
  /\ sockets = Count(channel_ = "on") + Count(calling = "newConnection")

\* startInLoop() asserts that state_ is kDisconnected (Connector.cc:54), handleWrite() that it is
\* when there is no attempt (Connector.cc:207), and connecting() asserts "!channel_"
\* (Connector.cc:140): they hold when a queued start, a retry timer, an event or restart() comes to
\* them, however long an iteration takes; but for the retry timer that stopInLoop() sets because
\* connect_ was set again before it ran, which a slow iteration lets overtake resetChannel().  The
\* connector, which outlives a client that is destructed while it connects (TcpClient.cc:96-101),
\* does not call back a client that is gone.
ConnectorAssertionsHold ==
  /\ timers > 0 \/ Queued("startInLoop") => state_ = "kDisconnected"
  /\ "OUT" \in revents => state_ # "kConnected"
  /\ due > 0 /\ connect_ /\ ~overruled => channel_ = "none"
  /\ batch > 0 /\ Head(queue) = "startInLoop" /\ connect_ => channel_ = "none"
  /\ calling = "restart" => channel_ = "none"
  /\ calling = "newConnection" => client = "alive"

\* Retry timers expire, and the server answers an attempt in the end and does not turn
\* down all of them.
ServerAnswers ==
  /\ SF_vars(poll /\ due' = timers /\ UNCHANGED clientVars)
  /\ SF_vars(ConnectorStep /\ channel_' = "on" /\ UNCHANGED clientVars)
  /\ SF_vars(poll /\ revents' = {"OUT"} /\ UNCHANGED clientVars)
  /\ SF_vars(handleWrite /\ state_' = "kConnected" /\ UNCHANGED clientVars)

\* While a client lives and wants a connection it gets one in the end, across any number of
\* refused attempts: no path drops the attempt without setting a timer, except for the
\* errors that connect() gives up on.
ConnectsInTheEnd ==
  ServerAnswers =>
    (connect_ /\ connection = "none"
       ~> connection # "none" \/ ~connect_ \/ ~clientConnect \/ client = "dead" \/ gaveUp)

\* What a step may not do after stop().
StopStep ==
  /\ ~connect_ /\ connect_' => connects' > connects \/ calling = "restart"
  /\ ~connect_ /\ calling' = "restart" => calling = "restart"
  /\ sockets' > sockets => connect_'

\* "can be called in any thread" (Connector.h:49): after stop() it takes another connect()
\* for the connector to try again, and until then no socket is opened, by retry timers or
\* by the reconnection of a connection that closes; unless removeConnection() had decided
\* to reconnect just before another thread called stop().
StopIsFinal == [][StopStep]_vars
============================================================================
