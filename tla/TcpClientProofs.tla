--------------------------- MODULE TcpClientProofs ---------------------------
(***************************************************************************)
(* Proofs about TcpClient and its Connector: a client that calls connect() *)
(* once makes one attempt at a time, and stop() is final.                  *)
(***************************************************************************)
EXTENDS TcpClient, SequenceTheorems, TLAPS

FunctorNames == {"startInLoop", "stopInLoop", "resetChannel", "destroyed", "forceClose"}

\* Functor f waits in queue q, and at most once.
Has(q, f) == \E i \in 1 .. Len(q) : q[i] = f
Once(q, f) == \A i, j \in 1 .. Len(q) : q[i] = f /\ q[j] = f => i = j

TypesInv ==
  /\ connect_ \in BOOLEAN /\ gaveUp \in BOOLEAN /\ clientConnect \in BOOLEAN
  /\ state_ \in {"kDisconnected", "kConnecting", "kConnected"}
  /\ channel_ \in {"none", "on", "removed"} /\ connection \in {"none", "up", "closing"}
  /\ retryDelayMs_ \in kInitRetryDelayMs .. kMaxRetryDelayMs
  /\ calling \in {"none", "newConnection", "restart"} /\ revents \subseteq {"ERR", "OUT"}
  /\ phase \in {"poll", "handle", "functors"}
  /\ queue \in Seq(FunctorNames) /\ batch \in 0 .. Len(queue)
  /\ client \in {"alive", "dead"} /\ connects \in 0 .. MaxConnects

\* What an attempt is at: a timer, a socket, a call of the client, a connection, or a queued start.
AttemptInv ==
  /\ timers \in {0, 1} /\ due \in {0, 1} /\ due <= timers
  /\ timers = 1 => channel_ # "on" /\ calling = "none" /\ connection = "none" /\ ~Has(queue, "startInLoop")
  /\ channel_ = "on" => calling = "none" /\ connection = "none" /\ ~Has(queue, "startInLoop")
  /\ calling # "none" => connection = "none" /\ ~Has(queue, "startInLoop")
  /\ connection # "none" => ~Has(queue, "startInLoop")
  /\ connects = 0 => /\ timers = 0 /\ channel_ = "none" /\ state_ = "kDisconnected" /\ calling = "none"
                     /\ connection = "none" /\ ~Has(queue, "startInLoop")
  /\ sockets = IF channel_ = "on" \/ calling = "newConnection" THEN 1 ELSE 0

\* The connector's state_, its channel and the functors that will change them.
ChannelInv ==
  /\ channel_ = "on" <=> state_ = "kConnecting"
  /\ timers = 1 \/ Has(queue, "startInLoop") => state_ = "kDisconnected"
  /\ Has(queue, "startInLoop") => channel_ = "none"
  /\ due = 1 => phase = "handle"
  /\ Has(queue, "resetChannel") <=> channel_ = "removed"
  /\ Once(queue, "resetChannel") /\ Once(queue, "startInLoop")
  /\ calling = "restart" => channel_ # "removed"

\* A client that is gone left its connector stopped, or with nothing to do.
DeadInv ==
  /\ Has(queue, "forceClose") => client = "dead"
  /\ client = "dead" =>
       calling = "none" /\ (~connect_ \/ (timers = 0 /\ channel_ # "on" /\ ~Has(queue, "startInLoop")))

ClientInv == TypesInv /\ AttemptInv /\ ChannelInv /\ DeadInv
------------------------------------------------------------------------------
(* stop(). *)

\* A living client whose connector was stopped knows it, or has nothing to reconnect.
StopInv ==
  /\ sockets \in Int /\ connects \in Nat
  /\ client = "alive" /\ clientConnect /\ ~connect_ => connection = "none" /\ calling # "newConnection"

\* What startInLoop() and retry() do to the sockets.
LEMMA StartOpens ==
  ASSUME NEW on, NEW t, NEW d, startInLoop(on, t, d), sockets \in Int
  PROVE  sockets' = sockets \/ (on /\ sockets' = sockets + 1)
<1>1. CASE on
  <2>1. Connect(t, d)
    BY <1>1, Zenon DEF startInLoop
  <2>2. sockets' = sockets + 1 \/ sockets' = Closed(sockets + 1) \/ sockets' = sockets
    BY <2>1, Zenon DEF Connect, Retry
  <2> QED
    BY <1>1, <2>2 DEF Closed
<1>2. CASE ~on
  BY <1>2, Zenon DEF startInLoop, attemptVars
<1> QED
  BY <1>1, <1>2, Zenon

\* Every step of the connector, of the client and of its owner respects stop().
LEMMA StopInvNext ==
  ASSUME StopInv, [Next]_vars
  PROVE  StopInv' /\ (StopStep \/ UNCHANGED vars)
<1> USE DEF StopInv, StopStep
<1>1. CASE (poll \/ SwapFunctors \/ EndFunctors \/ resetChannel) /\ UNCHANGED clientVars
  BY <1>1 DEF poll, SwapFunctors, EndFunctors, resetChannel, clientVars, attemptVars, Functor
<1>2. CASE (handleError \/ stopInLoop) /\ UNCHANGED clientVars
  <2>1. sockets' = sockets \/ sockets' = sockets - 1
    BY <1>2, Zenon DEF handleError, stopInLoop, Retry, Closed, attemptVars
  <2>2. UNCHANGED <<connect_, calling, clientConnect, connection, client, connects>>
    BY <1>2, Zenon DEF handleError, stopInLoop, clientVars
  <2> QED
    BY <2>1, <2>2
<1>3. CASE handleWrite /\ UNCHANGED clientVars
  <2>1. sockets' = sockets \/ sockets' = sockets - 1
    BY <1>3, Zenon DEF handleWrite, Retry, Closed, attemptVars
  <2>2. UNCHANGED <<connect_, clientConnect, connection, client, connects>>
    BY <1>3, Zenon DEF handleWrite, clientVars
  <2>3. calling' = calling \/ calling' = "none" \/ (connect_ /\ calling' = "newConnection")
    BY <1>3, Zenon DEF handleWrite, StillWanted
  <2> QED
    BY <2>1, <2>2, <2>3
<1>4. CASE (RetryTimer \/ StartFunctor) /\ UNCHANGED clientVars
  <2>1. \E t, d : startInLoop(connect_, t, d)
    BY <1>4, Zenon DEF RetryTimer, StartFunctor
  <2>2. sockets' = sockets \/ (connect_ /\ sockets' = sockets + 1)
    BY <2>1, StartOpens, Zenon
  <2>3. UNCHANGED <<connect_, calling, clientConnect, connection, client, connects>>
    BY <1>4, Zenon DEF RetryTimer, StartFunctor, clientVars
  <2> QED
    BY <2>2, <2>3
<1>5. CASE newConnection
  <2>1. sockets' = sockets - 1 /\ UNCHANGED <<connect_, clientConnect, client, connects>>
        /\ calling = "newConnection" /\ calling' = "none"
    BY <1>5, Zenon DEF newConnection
  <2> QED
    BY <2>1
<1>6. CASE restart
  <2>1. calling = "restart" /\ calling' = "none" /\ connect_' = TRUE
        /\ UNCHANGED <<clientConnect, connection, client, connects>>
    BY <1>6, Zenon DEF restart, clientVars
  <2>2. startInLoop(TRUE, timers, kInitRetryDelayMs)
    BY <1>6, Zenon DEF restart
  <2>3. sockets' = sockets \/ sockets' = sockets + 1
    BY <2>2, StartOpens, Zenon
  <2> QED
    BY <2>1, <2>3
<1>7. ASSUME NEW q, Closes(q) PROVE StopInv' /\ StopStep
  <2>1. /\ UNCHANGED <<connect_, sockets, clientConnect, client, connects>>
        /\ connection # "none" /\ connection' = "none"
        /\ calling' = "none" \/ (calling' = "restart" /\ client = "alive" /\ clientConnect)
    BY <1>7, Zenon DEF Closes, Reconnects, attemptVars
  <2> QED
    BY <2>1
<1>8. CASE ConnectionClosed
  BY <1>7, <1>8, Zenon DEF ConnectionClosed
<1>9. CASE ForceClose
  <2>1. CASE connection = "none"
    BY <1>9, <2>1 DEF ForceClose, clientVars, attemptVars
  <2>2. CASE connection # "none"
    BY <1>7, <1>9, <2>2, Zenon DEF ForceClose
  <2> QED
    BY <2>1, <2>2, Zenon
<1>10. CASE Destroyed
  BY <1>10 DEF Destroyed, clientVars, attemptVars
<1>11. CASE Destruct
  BY <1>11 DEF Destruct, attemptVars
<1>12. ASSUME NEW op \in CallNames, NEW inLoop \in BOOLEAN, Call(op, inLoop) PROVE StopInv' /\ StopStep
  <2>1. calling' = calling /\ client' = client
    BY <1>12, Zenon DEF Call
  <2>2. CASE op = "connect"
    <3>1. connect_' = TRUE /\ connects' = connects + 1 /\ connects < MaxConnects
      BY <1>12, <2>2, Zenon DEF Call
    <3>2. sockets' \in Int
      <4>1. CASE inLoop
        <5>1. startInLoop(TRUE, timers, retryDelayMs_)
          BY <1>12, <2>2, <4>1, Zenon DEF Call
        <5>2. sockets' = sockets \/ sockets' = sockets + 1
          BY <5>1, StartOpens, Zenon
        <5> QED
          BY <5>2
      <4>2. CASE ~inLoop
        BY <1>12, <2>2, <4>2, Zenon DEF Call, attemptVars
      <4> QED
        BY <4>1, <4>2, Zenon
    <3> QED
      BY <2>1, <3>1, <3>2
  <2>3. CASE op # "connect"
    <3>1. clientConnect' = FALSE /\ sockets' = sockets /\ connects' = connects /\ (connect_' = FALSE \/ connect_' = connect_)
      BY <1>12, <2>3, Zenon DEF Call, CallNames, attemptVars
    <3> QED
      BY <2>1, <3>1
  <2> QED
    BY <2>2, <2>3, Zenon
<1>13. CASE UNCHANGED vars
  BY <1>13, Zenon DEF vars, connectorVars, clientVars, attemptVars
<1> QED
  BY <1>1, <1>2, <1>3, <1>4, <1>5, <1>6, <1>8, <1>9, <1>10, <1>11, <1>12, <1>13, Zenon DEF Next, LoopStep, ConnectorStep

\* Connector::stop() and TcpClient::stop(): after stop() no retry timer, queued start or reconnection
\* opens a socket until connect() is called again (Connector.cc:52-84, TcpClient.cc:126-130,
\* 160-183), for any number of calls and whatever the server answers.
THEOREM StopIsAlwaysFinal == Spec => StopIsFinal
<1>1. Init => StopInv
  BY DEF Init, ConnectorInit, StopInv
<1>2. StopInv /\ [Next]_vars => StopInv'
  <2> QED
    BY StopInvNext, Zenon
<1>3. StopInv /\ [Next]_vars => [StopStep]_vars
  BY StopInvNext, Zenon
<1> QED
  BY <1>1, <1>2, <1>3, PTL DEF Spec, StopIsFinal
------------------------------------------------------------------------------
(* The functors of the loop. *)

\* queueInLoop() adds one functor.
LEMMA AppendFacts ==
  ASSUME NEW q \in Seq(FunctorNames), NEW e \in FunctorNames
  PROVE  /\ Append(q, e) \in Seq(FunctorNames) /\ Len(Append(q, e)) = Len(q) + 1
         /\ \A f \in FunctorNames : Has(Append(q, e), f) <=> Has(q, f) \/ f = e
         /\ \A f \in FunctorNames : Once(q, f) /\ (f = e => ~Has(q, f)) => Once(Append(q, e), f)
<1>1. /\ Append(q, e) \in Seq(FunctorNames) /\ Len(Append(q, e)) = Len(q) + 1 /\ Len(q) \in Nat
      /\ \A i \in 1 .. Len(q) : Append(q, e)[i] = q[i]
      /\ Append(q, e)[Len(q) + 1] = e
  BY AppendProperties, LenProperties
<1>2. \A i \in 1 .. Len(q) + 1 : i \in 1 .. Len(q) \/ i = Len(q) + 1
  BY <1>1
<1>3. ASSUME NEW f \in FunctorNames PROVE Has(Append(q, e), f) <=> Has(q, f) \/ f = e
  <2>1. ASSUME Has(Append(q, e), f) PROVE Has(q, f) \/ f = e
    BY <1>1, <1>2, <2>1, Zenon DEF Has
  <2>2. ASSUME Has(q, f) PROVE Has(Append(q, e), f)
    BY <1>1, <2>2 DEF Has
  <2>3. ASSUME f = e PROVE Has(Append(q, e), f)
    BY <1>1, <2>3 DEF Has
  <2> QED
    BY <2>1, <2>2, <2>3, Zenon
<1>4. ASSUME NEW f \in FunctorNames, Once(q, f), f = e => ~Has(q, f) PROVE Once(Append(q, e), f)
  <2> SUFFICES ASSUME NEW i \in 1 .. Len(q) + 1, NEW j \in 1 .. Len(q) + 1,
                      Append(q, e)[i] = f, Append(q, e)[j] = f
               PROVE  i = j
    BY <1>1, Zenon DEF Once
  <2>1. CASE i \in 1 .. Len(q) /\ j \in 1 .. Len(q)
    BY <1>1, <1>4, <2>1, Zenon DEF Once
  <2>2. CASE i = Len(q) + 1 /\ j = Len(q) + 1
    BY <2>2, Zenon
  <2>3. CASE i = Len(q) + 1 /\ j \in 1 .. Len(q)
    BY <1>1, <1>4, <2>3, Zenon DEF Has
  <2>4. CASE i \in 1 .. Len(q) /\ j = Len(q) + 1
    BY <1>1, <1>4, <2>4, Zenon DEF Has
  <2> QED
    BY <1>2, <2>1, <2>2, <2>3, <2>4, Zenon
<1> QED
  BY <1>1, <1>3, <1>4, Zenon

\* doPendingFunctors() takes the functor at the front.
LEMMA TailFacts ==
  ASSUME NEW q \in Seq(FunctorNames), q # <<>>
  PROVE  /\ Head(q) \in FunctorNames /\ Tail(q) \in Seq(FunctorNames) /\ Len(Tail(q)) = Len(q) - 1
         /\ Has(q, Head(q))
         /\ \A f \in FunctorNames : f # Head(q) => (Has(Tail(q), f) <=> Has(q, f))
         /\ \A f \in FunctorNames : Has(Tail(q), f) => Has(q, f)
         /\ \A f \in FunctorNames : Once(q, f) => Once(Tail(q), f) /\ (f = Head(q) => ~Has(Tail(q), f))
<1>1. /\ Head(q) \in FunctorNames /\ Tail(q) \in Seq(FunctorNames) /\ Len(Tail(q)) = Len(q) - 1
      /\ Len(q) \in Nat \ {0} /\ Head(q) = q[1]
      /\ \A i \in 1 .. Len(q) - 1 : Tail(q)[i] = q[i + 1]
  BY HeadTailProperties, LenProperties, EmptySeq
<1>2. \A i \in 1 .. Len(q) - 1 : i + 1 \in 1 .. Len(q) /\ i + 1 # 1
  BY <1>1
<1>3. \A i \in 1 .. Len(q) : i = 1 \/ (i - 1 \in 1 .. Len(q) - 1 /\ (i - 1) + 1 = i)
  BY <1>1
<1>4. Has(q, Head(q))
  BY <1>1 DEF Has
<1>5. ASSUME NEW f \in FunctorNames, Has(Tail(q), f) PROVE Has(q, f)
  BY <1>1, <1>2, <1>5, Zenon DEF Has
<1>6. ASSUME NEW f \in FunctorNames, f # Head(q), Has(q, f) PROVE Has(Tail(q), f)
  <2>1. PICK i \in 1 .. Len(q) : q[i] = f
    BY <1>6, Zenon DEF Has
  <2>2. i # 1
    BY <1>1, <1>6, <2>1, Zenon
  <2>3. Tail(q)[i - 1] = f /\ i - 1 \in 1 .. Len(Tail(q))
    BY <1>1, <1>3, <2>1, <2>2, Zenon
  <2> QED
    BY <2>3, Zenon DEF Has
<1>7. ASSUME NEW f \in FunctorNames, Once(q, f) PROVE Once(Tail(q), f)
  <2> SUFFICES ASSUME NEW i \in 1 .. Len(q) - 1, NEW j \in 1 .. Len(q) - 1, Tail(q)[i] = f, Tail(q)[j] = f
               PROVE  i = j
    BY <1>1, Zenon DEF Once
  <2>1. i + 1 = j + 1
    BY <1>1, <1>2, <1>7 DEF Once
  <2> QED
    BY <2>1
<1>8. ASSUME NEW f \in FunctorNames, Once(q, f), f = Head(q), Has(Tail(q), f) PROVE FALSE
  <2>1. PICK i \in 1 .. Len(q) - 1 : q[i + 1] = f
    BY <1>1, <1>8, Zenon DEF Has
  <2>2. i + 1 = 1
    BY <1>1, <1>2, <1>8, <2>1 DEF Once
  <2> QED
    BY <2>2
<1> QED
  BY <1>1, <1>4, <1>5, <1>6, <1>7, <1>8, Zenon

\* The delay before the next attempt keeps its bounds (Connector::retry).
LEMMA NextDelayType ==
  ASSUME NEW d \in kInitRetryDelayMs .. kMaxRetryDelayMs
  PROVE  NextDelay(d) \in kInitRetryDelayMs .. kMaxRetryDelayMs
BY ConnectorAssumption DEF NextDelay
------------------------------------------------------------------------------
(* One attempt at a time. *)

DelayRange == kInitRetryDelayMs .. kMaxRetryDelayMs

\* retry(), when no timer runs.
LEMMA RetryOutcome ==
  ASSUME NEW on \in BOOLEAN, NEW d \in DelayRange, NEW n \in Nat, Retry(n, on, 0, d)
  PROVE  /\ sockets' = n - 1 /\ state_' = "kDisconnected" /\ gaveUp' = gaveUp
         /\ timers' = (IF on THEN 1 ELSE 0) /\ retryDelayMs_' \in DelayRange
<1>1. NextDelay(d) \in DelayRange
  BY NextDelayType, Zenon DEF DelayRange
<1> QED
  BY <1>1 DEF Retry, Closed, AfterRetry, Retries

\* What a start makes of a connector at rest.
Started(on) ==
  /\ retryDelayMs_' \in DelayRange /\ gaveUp' \in BOOLEAN
  /\ \/ /\ on /\ channel_ = "none"
        /\ state_' = "kConnecting" /\ channel_' = "on" /\ sockets' = 1 /\ timers' = 0
     \/ on /\ state_' = "kDisconnected" /\ channel_' = channel_ /\ sockets' = 0 /\ timers' = 1
     \/ on /\ state_' = "kDisconnected" /\ channel_' = channel_ /\ sockets' = 0 /\ timers' = 0
     \/ ~on /\ state_' = state_ /\ channel_' = channel_ /\ sockets' = 0 /\ timers' = 0

\* startInLoop(), when no timer runs and no socket is open.
LEMMA StartOutcome ==
  ASSUME NEW on \in BOOLEAN, NEW d \in DelayRange, startInLoop(on, 0, d),
         gaveUp \in BOOLEAN, sockets = 0
  PROVE  Started(on)
<1>1. CASE on
  <2>1. Connect(0, d)
    BY <1>1, Zenon DEF startInLoop
  <2>2. CASE Retry(sockets + 1, TRUE, 0, d) /\ UNCHANGED channel_
    <3>1. sockets + 1 \in Nat
      OBVIOUS
    <3>2. /\ sockets' = (sockets + 1) - 1 /\ state_' = "kDisconnected" /\ gaveUp' = gaveUp
          /\ timers' = 1 /\ retryDelayMs_' \in DelayRange
      BY <2>2, <3>1, RetryOutcome, Zenon
    <3> QED
      BY <1>1, <2>2, <3>2 DEF Started
  <2>3. CASE /\ channel_ = "none"
             /\ state_' = "kConnecting" /\ channel_' = "on" /\ sockets' = sockets + 1
             /\ timers' = 0 /\ retryDelayMs_' = d /\ UNCHANGED gaveUp
    BY <1>1, <2>3 DEF Started
  <2>4. CASE /\ timers' = 0 /\ retryDelayMs_' = d /\ UNCHANGED <<channel_, sockets>>
             /\ state_' = "kDisconnected" /\ gaveUp' = TRUE
    BY <1>1, <2>4, Zenon DEF Started
  <2> QED
    BY <2>1, <2>2, <2>3, <2>4, Zenon DEF Connect
<1>2. CASE ~on
  BY <1>2, Zenon DEF startInLoop, attemptVars, Started
<1> QED
  BY <1>1, <1>2, Zenon

\* A start of a connector at rest, from which no other attempt comes.
LEMMA StartedKeeps ==
  ASSUME ClientInv, NEW on \in BOOLEAN, Started(on),
         connection' = "none", connects' # 0,
         calling' = "none", due' = 0, channel_ # "on",
         queue' \in Seq(FunctorNames), ~Has(queue', "startInLoop"), Once(queue', "startInLoop"),
         Has(queue', "resetChannel") <=> channel_ = "removed", Once(queue', "resetChannel"),
         Has(queue', "forceClose") => client' = "dead",
         client' = "dead" => ~on /\ ~connect_',
         state_ # "kConnecting"
  PROVE  AttemptInv' /\ ChannelInv' /\ DeadInv'
<1>1. AttemptInv'
  BY DEF Started, AttemptInv
<1>2. ChannelInv'
  BY DEF Started, ChannelInv
<1>3. DeadInv'
  BY Zenon DEF Started, DeadInv
<1> QED
  BY <1>1, <1>2, <1>3, Zenon

\* Nothing runs, waits or is connected before the first connect().
LEMMA ClientInvInit == Init => ClientInv
<1> SUFFICES ASSUME Init PROVE ClientInv
  BY Zenon
<1>1. queue = <<>> /\ Len(queue) = 0 /\ \A f : ~Has(queue, f) /\ Once(queue, f)
  BY DEF Init, ConnectorInit, Has, Once
<1>2. TypesInv
  <2>1. connect_ \in BOOLEAN /\ gaveUp \in BOOLEAN /\ clientConnect \in BOOLEAN
    BY Zenon DEF Init, ConnectorInit
  <2>2. /\ state_ = "kDisconnected" /\ channel_ = "none" /\ connection = "none" /\ calling = "none"
        /\ revents = {} /\ phase = "poll" /\ client = "alive" /\ batch = 0 /\ connects = 0
        /\ retryDelayMs_ = kInitRetryDelayMs
    BY Zenon DEF Init, ConnectorInit
  <2>3. queue \in Seq(FunctorNames) /\ retryDelayMs_ \in kInitRetryDelayMs .. kMaxRetryDelayMs
        /\ connects \in 0 .. MaxConnects /\ batch \in 0 .. Len(queue)
    BY <1>1, <2>2, ConnectorAssumption, ClientAssumption
  <2> QED
    BY <2>1, <2>2, <2>3, Zenon DEF TypesInv
<1>3. AttemptInv /\ ChannelInv /\ DeadInv
  BY <1>1 DEF Init, ConnectorInit, AttemptInv, ChannelInv, DeadInv
<1> QED
  BY <1>2, <1>3, Zenon DEF ClientInv

\* The loop polls, swaps its functors or ends its iteration.
LEMMA IterationKeeps ==
  ASSUME ClientInv, poll \/ SwapFunctors \/ EndFunctors, UNCHANGED clientVars
  PROVE  ClientInv'
<1> USE DEF ClientInv
<1>1. /\ UNCHANGED <<connect_, state_, channel_, sockets, gaveUp, retryDelayMs_, timers, calling, queue>>
      /\ UNCHANGED <<clientConnect, connection, client, connects>>
  BY Zenon DEF poll, SwapFunctors, EndFunctors, attemptVars, retryVars, clientVars
<1>2. \A f : (Has(queue', f) <=> Has(queue, f)) /\ (Once(queue', f) <=> Once(queue, f))
  BY <1>1, Zenon
<1>3. Len(queue) \in Nat
  BY LenProperties, Zenon DEF TypesInv
<1>4. TypesInv'
  <2>1. revents' \subseteq {"ERR", "OUT"} /\ phase' \in {"poll", "handle", "functors"} /\ batch' \in 0 .. Len(queue)
    <3>1. CASE poll
      BY <3>1, Zenon DEF TypesInv, poll
    <3>2. CASE SwapFunctors
      BY <1>3, <3>2 DEF TypesInv, SwapFunctors
    <3>3. CASE EndFunctors
      BY <3>3, Zenon DEF TypesInv, EndFunctors
    <3> QED
      BY <3>1, <3>2, <3>3, Zenon
  <2> QED
    BY <1>1, <2>1 DEF TypesInv
<1>5. due' \in {0, 1} /\ due' <= timers /\ (due' = 1 => phase' = "handle")
  <2>1. CASE poll
    BY <2>1 DEF poll, TypesInv, AttemptInv
  <2>2. CASE SwapFunctors
    BY <2>2 DEF SwapFunctors, AttemptInv
  <2>3. CASE EndFunctors
    BY <2>3, Zenon DEF EndFunctors, AttemptInv, ChannelInv
  <2> QED
    BY <2>1, <2>2, <2>3, Zenon
<1>6. AttemptInv'
  BY <1>1, <1>2, <1>5, Zenon DEF AttemptInv
<1>7. ChannelInv'
  BY <1>1, <1>2, <1>5, Zenon DEF ChannelInv
<1>8. DeadInv'
  BY <1>1, <1>2, Zenon DEF DeadInv
<1> QED
  BY <1>4, <1>6, <1>7, <1>8, Zenon
\* Queue q waits for no start and no reset, and closes no connection that queue does not close.
Calm(q) ==
  /\ q \in Seq(FunctorNames)
  /\ ~Has(q, "startInLoop") /\ ~Has(q, "resetChannel") /\ Once(q, "startInLoop") /\ Once(q, "resetChannel")
  /\ Has(q, "forceClose") => Has(queue, "forceClose")

\* removeAndResetChannel() at the end of an attempt.
LEMMA RemovedFacts ==
  ASSUME NEW q, Calm(q), removeAndResetChannel(q)
  PROVE  /\ channel_' = "removed" /\ queue' \in Seq(FunctorNames) /\ Len(queue') = Len(q) + 1
         /\ Has(queue', "resetChannel") /\ ~Has(queue', "startInLoop")
         /\ Once(queue', "resetChannel") /\ Once(queue', "startInLoop")
         /\ Has(queue', "forceClose") => Has(queue, "forceClose")
<1>1. channel_' = "removed" /\ queue' = Append(q, "resetChannel")
  BY Zenon DEF removeAndResetChannel, ResetQueued
<1>2. {"resetChannel", "startInLoop", "forceClose"} \subseteq FunctorNames
  BY Zenon DEF FunctorNames
<1> QED
  BY <1>1, <1>2, AppendFacts, Zenon DEF Calm

\* While a socket is being connected the queue is calm.
LEMMA QueueIsCalm ==
  ASSUME ClientInv, channel_ = "on"
  PROVE  Calm(queue)
BY Zenon DEF ClientInv, TypesInv, AttemptInv, ChannelInv, Calm

\* The attempt ends: it is tried again, handed to the client or dropped.
LEMMA EndKeeps ==
  ASSUME ClientInv, state_ = "kConnecting", NEW q, Calm(q), removeAndResetChannel(q),
         Len(q) \in Nat, batch' \in 0 .. Len(q), revents' \subseteq {"ERR", "OUT"},
         UNCHANGED <<connect_, phase, due, clientConnect, connection, client, connects>>,
         \/ Retry(sockets, connect_, timers, retryDelayMs_) /\ UNCHANGED calling
         \/ /\ state_' = "kConnected"
            /\ calling' = IF connect_ THEN "newConnection" ELSE "none"
            /\ sockets' = IF connect_ THEN sockets ELSE Closed(sockets)
            /\ UNCHANGED <<retryDelayMs_, timers, gaveUp>>
  PROVE  ClientInv'
<1>1. /\ channel_' = "removed" /\ queue' \in Seq(FunctorNames) /\ Len(queue') = Len(q) + 1
      /\ Has(queue', "resetChannel") /\ ~Has(queue', "startInLoop")
      /\ Once(queue', "resetChannel") /\ Once(queue', "startInLoop")
      /\ Has(queue', "forceClose") => Has(queue, "forceClose")
  BY RemovedFacts, Zenon
<1>2. /\ channel_ = "on" /\ timers = 0 /\ due = 0 /\ sockets = 1 /\ calling = "none" /\ connection = "none"
      /\ connects # 0 /\ (client = "dead" => ~connect_)
  BY DEF ClientInv, AttemptInv, ChannelInv, DeadInv
<1>3. /\ \/ /\ state_' = "kDisconnected" /\ sockets' = 0 /\ calling' = "none" /\ timers' = (IF connect_ THEN 1 ELSE 0)
         \/ state_' = "kConnected" /\ sockets' = 1 /\ calling' = "newConnection" /\ connect_ /\ timers' = 0
         \/ state_' = "kConnected" /\ sockets' = 0 /\ calling' = "none" /\ ~connect_ /\ timers' = 0
      /\ retryDelayMs_' \in DelayRange /\ gaveUp' \in BOOLEAN
  <2>1. retryDelayMs_ \in DelayRange /\ gaveUp \in BOOLEAN /\ connect_ \in BOOLEAN
    BY Zenon DEF ClientInv, TypesInv, DelayRange
  <2>2. CASE Retry(sockets, connect_, timers, retryDelayMs_) /\ UNCHANGED calling
    <3>1. Retry(sockets, connect_, 0, retryDelayMs_) /\ sockets \in Nat
      BY <1>2, <2>2, Zenon
    <3>2. /\ sockets' = sockets - 1 /\ state_' = "kDisconnected" /\ gaveUp' = gaveUp
          /\ timers' = (IF connect_ THEN 1 ELSE 0) /\ retryDelayMs_' \in DelayRange
      BY <2>1, <3>1, RetryOutcome, Zenon
    <3> QED
      BY <1>2, <2>1, <2>2, <3>2
  <2>3. CASE /\ state_' = "kConnected"
             /\ calling' = IF connect_ THEN "newConnection" ELSE "none"
             /\ sockets' = IF connect_ THEN sockets ELSE Closed(sockets)
             /\ UNCHANGED <<retryDelayMs_, timers, gaveUp>>
    BY <1>2, <2>1, <2>3 DEF Closed
  <2> QED
    BY <2>2, <2>3, Zenon
<1>4. TypesInv'
  <2>1. batch' \in 0 .. Len(queue')
    BY <1>1
  <2> QED
    BY <1>1, <1>3, <2>1, Zenon DEF ClientInv, TypesInv, DelayRange
<1>5. AttemptInv'
  BY <1>1, <1>2, <1>3 DEF AttemptInv
<1>6. ChannelInv'
  BY <1>1, <1>2, <1>3 DEF ChannelInv
<1>7. DeadInv'
  BY <1>1, <1>2, <1>3, Zenon DEF ClientInv, DeadInv
<1> QED
  BY <1>4, <1>5, <1>6, <1>7, Zenon DEF ClientInv

\* The loop handles the events of the connector's channel.
LEMMA EventKeeps ==
  ASSUME ClientInv, handleError \/ handleWrite, UNCHANGED clientVars
  PROVE  ClientInv'
<1>1. UNCHANGED <<connect_, phase, batch, due, clientConnect, connection, client, connects>>
  BY Zenon DEF handleError, handleWrite, loopVars, clientVars
<1>2. revents' \subseteq {"ERR", "OUT"} /\ Len(queue) \in Nat /\ batch' \in 0 .. Len(queue)
  <2>1. revents' \subseteq {"ERR", "OUT"}
    BY Zenon DEF handleError, handleWrite, ClientInv, TypesInv
  <2> QED
    BY <1>1, <2>1, LenProperties, Zenon DEF ClientInv, TypesInv
<1>3. CASE state_ = "kConnecting"
  <2>1. Calm(queue)
    BY <1>3, QueueIsCalm, Zenon DEF ClientInv, ChannelInv
  <2>2. removeAndResetChannel(queue)
    BY <1>3, Zenon DEF handleError, handleWrite, Attempting
  <2>3. \/ Retry(sockets, connect_, timers, retryDelayMs_) /\ UNCHANGED calling
        \/ /\ state_' = "kConnected"
           /\ calling' = IF connect_ THEN "newConnection" ELSE "none"
           /\ sockets' = IF connect_ THEN sockets ELSE Closed(sockets)
           /\ UNCHANGED <<retryDelayMs_, timers, gaveUp>>
    <3>1. CASE handleError
      BY <1>3, <3>1, Zenon DEF handleError
    <3>2. CASE handleWrite
      BY <1>3, <3>2, Zenon DEF handleWrite, Attempting, StillWanted, retryVars
    <3> QED
      BY <3>1, <3>2, Zenon
  <2> QED
    BY <1>1, <1>2, <1>3, <2>1, <2>2, <2>3, EndKeeps, Zenon
<1>4. CASE state_ # "kConnecting"
  <2>1. UNCHANGED <<state_, channel_, sockets, gaveUp, retryDelayMs_, timers, queue, calling>>
    <3>1. CASE handleError
      BY <1>4, <3>1, Zenon DEF handleError, attemptVars, retryVars
    <3>2. CASE handleWrite
      BY <1>4, <3>2, Zenon DEF handleWrite, Attempting, attemptVars, retryVars
    <3> QED
      BY <3>1, <3>2, Zenon
  <2>2. TypesInv'
    BY <1>1, <1>2, <2>1 DEF ClientInv, TypesInv
  <2>3. AttemptInv' /\ DeadInv'
    BY <1>1, <2>1, Zenon DEF ClientInv, AttemptInv, DeadInv, Has
  <2>4. ChannelInv'
    BY <1>1, <2>1, Zenon DEF ClientInv, ChannelInv, Has, Once
  <2> QED
    BY <2>2, <2>3, <2>4, Zenon DEF ClientInv
<1> QED
  BY <1>3, <1>4, Zenon
\* The loop takes functor f from its queue.
LEMMA FunctorFacts ==
  ASSUME ClientInv, NEW f \in FunctorNames, Functor(f)
  PROVE  /\ calling = "none" /\ Has(queue, f)
         /\ Tail(queue) \in Seq(FunctorNames) /\ Len(Tail(queue)) \in Nat /\ batch' \in 0 .. Len(Tail(queue))
         /\ \A g \in FunctorNames : g # f => (Has(Tail(queue), g) <=> Has(queue, g))
         /\ \A g \in FunctorNames : Has(Tail(queue), g) => Has(queue, g)
         /\ \A g \in FunctorNames : Once(queue, g) => Once(Tail(queue), g) /\ (g = f => ~Has(Tail(queue), g))
<1>1. queue \in Seq(FunctorNames) /\ batch \in 0 .. Len(queue) /\ Len(queue) \in Nat
  BY LenProperties, Zenon DEF ClientInv, TypesInv
<1>2. calling = "none" /\ batch > 0 /\ Head(queue) = f /\ batch' = batch - 1
  BY Zenon DEF Functor
<1>3. queue # <<>>
  BY <1>1, <1>2
<1>4. Len(Tail(queue)) = Len(queue) - 1 /\ Tail(queue) \in Seq(FunctorNames) /\ Has(queue, f)
  BY <1>1, <1>2, <1>3, TailFacts, Zenon
<1>5. batch' \in 0 .. Len(Tail(queue)) /\ Len(Tail(queue)) \in Nat
  BY <1>1, <1>2, <1>4
<1> QED
  BY <1>1, <1>2, <1>3, <1>4, <1>5, TailFacts, Zenon

\* A retry timer expires, or a queued start is run.
LEMMA StartKeeps ==
  ASSUME ClientInv, RetryTimer \/ StartFunctor, UNCHANGED clientVars
  PROVE  ClientInv'
<1> USE DEF ClientInv
<1>1. UNCHANGED <<connect_, calling, revents, phase, clientConnect, connection, client, connects>>
  BY Zenon DEF RetryTimer, StartFunctor, clientVars
<1>2. retryDelayMs_ \in DelayRange /\ gaveUp \in BOOLEAN /\ connect_ \in BOOLEAN
  BY Zenon DEF TypesInv, DelayRange
<1>3. CASE RetryTimer
  <2>1. /\ due = 1 /\ due' = 0 /\ calling = "none" /\ queue' = queue /\ batch' = batch
        /\ startInLoop(connect_, timers - 1, retryDelayMs_)
    BY <1>3 DEF RetryTimer, AttemptInv
  <2>2. /\ timers = 1 /\ channel_ # "on" /\ connection = "none" /\ sockets = 0 /\ connects # 0
        /\ state_ # "kConnecting" /\ ~Has(queue, "startInLoop") /\ (client = "dead" => ~connect_)
    BY <2>1 DEF AttemptInv, ChannelInv, DeadInv
  <2>3. startInLoop(connect_, 0, retryDelayMs_)
    <3>1. timers - 1 = 0
      BY <2>2
    <3> QED
      BY <2>1, <3>1, Zenon
  <2>4. Started(connect_)
    BY <1>2, <2>2, <2>3, StartOutcome, Zenon
  <2>5. /\ queue' \in Seq(FunctorNames) /\ ~Has(queue', "startInLoop") /\ Once(queue', "startInLoop")
        /\ (Has(queue', "resetChannel") <=> channel_ = "removed") /\ Once(queue', "resetChannel")
        /\ Has(queue', "forceClose") => client = "dead"
    BY <2>1, <2>2, Zenon DEF TypesInv, ChannelInv, DeadInv
  <2>6. AttemptInv' /\ ChannelInv' /\ DeadInv'
    BY <1>1, <1>2, <2>1, <2>2, <2>4, <2>5, StartedKeeps, Zenon
  <2>7. TypesInv'
    BY <1>1, <2>1, <2>4, Zenon DEF TypesInv, Started, DelayRange
  <2> QED
    BY <2>6, <2>7, Zenon
<1>4. CASE StartFunctor
  <2>1. Functor("startInLoop") /\ queue' = Tail(queue) /\ due' = due /\ startInLoop(connect_, timers, retryDelayMs_)
    BY <1>4, Zenon DEF StartFunctor
  <2>2. "startInLoop" \in FunctorNames /\ "resetChannel" \in FunctorNames /\ "forceClose" \in FunctorNames
    BY Zenon DEF FunctorNames
  <2>3. /\ calling = "none" /\ Has(queue, "startInLoop")
        /\ queue' \in Seq(FunctorNames) /\ batch' \in 0 .. Len(queue')
        /\ Has(queue', "resetChannel") => Has(queue, "resetChannel")
        /\ Has(queue', "forceClose") => Has(queue, "forceClose")
        /\ Once(queue, "startInLoop") => Once(queue', "startInLoop") /\ ~Has(queue', "startInLoop")
        /\ Once(queue, "resetChannel") => Once(queue', "resetChannel")
    BY <2>1, <2>2, FunctorFacts, Zenon
  <2>4. /\ timers = 0 /\ due = 0 /\ channel_ = "none" /\ connection = "none" /\ sockets = 0 /\ connects # 0
        /\ state_ # "kConnecting" /\ (client = "dead" => ~connect_)
    BY <2>3 DEF AttemptInv, ChannelInv, DeadInv
  <2>5. startInLoop(connect_, 0, retryDelayMs_)
    BY <2>1, <2>4, Zenon
  <2>6. Started(connect_)
    BY <1>2, <2>4, <2>5, StartOutcome, Zenon
  <2>7. /\ ~Has(queue', "startInLoop") /\ Once(queue', "startInLoop")
        /\ ~Has(queue', "resetChannel") /\ Once(queue', "resetChannel")
        /\ Has(queue', "forceClose") => client = "dead"
    BY <2>3, <2>4, Zenon DEF ChannelInv, DeadInv
  <2>8. AttemptInv' /\ ChannelInv' /\ DeadInv'
    BY <1>1, <1>2, <2>1, <2>3, <2>4, <2>6, <2>7, StartedKeeps, Zenon
  <2>9. TypesInv'
    BY <1>1, <2>3, <2>6, Zenon DEF TypesInv, Started, DelayRange
  <2> QED
    BY <2>8, <2>9, Zenon
<1> QED
  BY <1>3, <1>4, Zenon

\* A queued stopInLoop() ends the attempt, or does nothing; resetChannel() and connectDestroyed()
\* of a connection that is closed.
LEMMA OtherFunctorsKeep ==
  ASSUME ClientInv, stopInLoop \/ resetChannel \/ Destroyed, UNCHANGED clientVars
  PROVE  ClientInv'
<1> USE DEF ClientInv
<1>1. UNCHANGED <<connect_, calling, revents, phase, due, clientConnect, connection, client, connects>>
  BY Zenon DEF stopInLoop, resetChannel, Destroyed, clientVars
<1>2. FunctorNames = {"startInLoop", "stopInLoop", "resetChannel", "destroyed", "forceClose"}
  BY Zenon DEF FunctorNames
<1>3. CASE (stopInLoop /\ state_ # "kConnecting") \/ Destroyed
  <2>1. \E f \in {"stopInLoop", "destroyed"} : Functor(f)
    BY <1>3, Zenon DEF stopInLoop, Destroyed
  <2>2. queue' = Tail(queue) /\ UNCHANGED <<state_, channel_, sockets, gaveUp, retryDelayMs_, timers>>
    BY <1>3, Zenon DEF stopInLoop, StopsAttempt, Destroyed, attemptVars, retryVars
  <2>3. /\ queue' \in Seq(FunctorNames) /\ batch' \in 0 .. Len(queue')
        /\ Has(queue', "resetChannel") <=> Has(queue, "resetChannel")
        /\ Has(queue', "startInLoop") <=> Has(queue, "startInLoop")
        /\ Has(queue', "forceClose") <=> Has(queue, "forceClose")
        /\ Once(queue, "startInLoop") => Once(queue', "startInLoop")
        /\ Once(queue, "resetChannel") => Once(queue', "resetChannel")
    BY <1>2, <2>1, <2>2, FunctorFacts, Zenon
  <2>4. TypesInv'
    BY <1>1, <2>2, <2>3 DEF TypesInv
  <2>5. AttemptInv'
    BY <1>1, <2>2, <2>3, Zenon DEF AttemptInv
  <2>6. ChannelInv' /\ DeadInv'
    BY <1>1, <2>2, <2>3, Zenon DEF ChannelInv, DeadInv
  <2> QED
    BY <2>4, <2>5, <2>6, Zenon
<1>4. CASE stopInLoop /\ state_ = "kConnecting"
  <2>1. /\ Functor("stopInLoop") /\ removeAndResetChannel(Tail(queue)) /\ Retry(sockets, connect_, timers, retryDelayMs_)
    BY <1>4, Zenon DEF stopInLoop, StopsAttempt
  <2>2. Calm(queue)
    BY <1>4, QueueIsCalm, Zenon DEF ChannelInv
  <2>3. /\ Calm(Tail(queue)) /\ Len(Tail(queue)) \in Nat /\ batch' \in 0 .. Len(Tail(queue))
    BY <1>2, <2>1, <2>2, FunctorFacts, Zenon DEF Calm
  <2>4. revents' \subseteq {"ERR", "OUT"}
    BY <1>1, Zenon DEF TypesInv
  <2> QED
    BY <1>1, <1>4, <2>1, <2>3, <2>4, EndKeeps, Zenon
<1>5. CASE resetChannel
  <2>1. Functor("resetChannel") /\ queue' = Tail(queue) /\ channel_' = "none"
        /\ UNCHANGED <<state_, sockets, gaveUp, retryDelayMs_, timers>>
    BY <1>5, Zenon DEF resetChannel, retryVars
  <2>2. /\ queue' \in Seq(FunctorNames) /\ batch' \in 0 .. Len(queue')
        /\ Has(queue, "resetChannel")
        /\ Has(queue', "startInLoop") <=> Has(queue, "startInLoop")
        /\ Has(queue', "forceClose") <=> Has(queue, "forceClose")
        /\ Once(queue, "startInLoop") => Once(queue', "startInLoop")
        /\ Once(queue, "resetChannel") => Once(queue', "resetChannel") /\ ~Has(queue', "resetChannel")
    BY <1>2, <2>1, FunctorFacts, Zenon
  <2>3. TypesInv'
    BY <1>1, <2>1, <2>2 DEF TypesInv
  <2>4. AttemptInv'
    BY <1>1, <2>1, <2>2, Zenon DEF AttemptInv, ChannelInv
  <2>5. ChannelInv' /\ DeadInv'
    BY <1>1, <2>1, <2>2, Zenon DEF ChannelInv, DeadInv
  <2> QED
    BY <2>3, <2>4, <2>5, Zenon
<1> QED
  BY <1>3, <1>4, <1>5, Zenon
\* The connector hands its socket to the client.
LEMMA NewConnectionKeeps ==
  ASSUME ClientInv, newConnection
  PROVE  ClientInv'
<1> USE DEF ClientInv
<1>1. /\ calling = "newConnection" /\ calling' = "none" /\ connection' = "up" /\ sockets' = sockets - 1
      /\ UNCHANGED <<connect_, state_, channel_, gaveUp, retryDelayMs_, timers, revents, phase, batch, due, queue,
                     clientConnect, client, connects>>
  BY Zenon DEF newConnection, retryVars, loopVars
<1>2. TypesInv'
  BY <1>1, Zenon DEF TypesInv
<1>3. AttemptInv'
  BY <1>1 DEF AttemptInv, Has
<1>4. ChannelInv' /\ DeadInv'
  BY <1>1, Zenon DEF ChannelInv, DeadInv, Has, Once
<1> QED
  BY <1>2, <1>3, <1>4, Zenon

\* The client makes its connector start again.
LEMMA RestartKeeps ==
  ASSUME ClientInv, restart
  PROVE  ClientInv'
<1> USE DEF ClientInv
<1>1. /\ calling = "restart" /\ calling' = "none" /\ connect_' = TRUE
      /\ UNCHANGED <<revents, phase, batch, due, queue, clientConnect, connection, client, connects>>
  BY Zenon DEF restart, loopVars, clientVars
<1>2. /\ timers = 0 /\ due = 0 /\ channel_ = "none" /\ connection = "none" /\ sockets = 0 /\ connects # 0
      /\ state_ # "kConnecting" /\ client # "dead" /\ ~Has(queue, "startInLoop")
  BY <1>1 DEF TypesInv, AttemptInv, ChannelInv, DeadInv
<1>3. startInLoop(TRUE, 0, kInitRetryDelayMs)
  BY <1>2, Zenon DEF restart
<1>4. kInitRetryDelayMs \in DelayRange /\ gaveUp \in BOOLEAN
  BY ConnectorAssumption DEF DelayRange, TypesInv
<1>5. Started(TRUE)
  BY <1>2, <1>3, <1>4, StartOutcome, Zenon
<1>6. /\ queue' \in Seq(FunctorNames) /\ ~Has(queue', "startInLoop") /\ Once(queue', "startInLoop")
      /\ ~Has(queue', "resetChannel") /\ Once(queue', "resetChannel")
      /\ Has(queue', "forceClose") => client = "dead"
  BY <1>1, <1>2, Zenon DEF TypesInv, ChannelInv, DeadInv
<1>7. AttemptInv' /\ ChannelInv' /\ DeadInv'
  BY <1>1, <1>2, <1>5, <1>6, StartedKeeps, Zenon
<1>8. TypesInv'
  <2>1. connect_' \in BOOLEAN
    BY <1>1, Zenon
  <2> QED
    BY <1>1, <1>5, <2>1, Zenon DEF TypesInv, Started, DelayRange
<1> QED
  BY <1>7, <1>8, Zenon

\* The connection is closed, by an event or by forceCloseInLoop().
LEMMA ClosesKeep ==
  ASSUME ClientInv, NEW q \in Seq(FunctorNames), Closes(q), UNCHANGED <<phase, due>>,
         Len(q) \in Nat, batch' \in 0 .. Len(q), calling = "none",
         Has(q, "resetChannel") <=> Has(queue, "resetChannel"), Has(q, "startInLoop") <=> Has(queue, "startInLoop"),
         Has(q, "forceClose") => Has(queue, "forceClose"),
         Once(q, "startInLoop"), Once(q, "resetChannel"),
         client = "dead" \/ channel_ # "removed"
  PROVE  ClientInv'
<1> USE DEF ClientInv
<1>1. /\ connection # "none" /\ connection' = "none" /\ queue' = Append(q, "destroyed")
      /\ calling' = "none" \/ (calling' = "restart" /\ client = "alive")
      /\ UNCHANGED <<connect_, state_, channel_, sockets, gaveUp, retryDelayMs_, timers, revents,
                     clientConnect, client, connects>>
  BY Zenon DEF Closes, attemptVars, retryVars
<1>2. FunctorNames = {"startInLoop", "stopInLoop", "resetChannel", "destroyed", "forceClose"}
  BY Zenon DEF FunctorNames
<1>3. /\ queue' \in Seq(FunctorNames) /\ Len(queue') = Len(q) + 1
      /\ Has(queue', "resetChannel") <=> Has(queue, "resetChannel")
      /\ Has(queue', "startInLoop") <=> Has(queue, "startInLoop")
      /\ Has(queue', "forceClose") => Has(queue, "forceClose")
      /\ Once(queue', "startInLoop") /\ Once(queue', "resetChannel")
  BY <1>1, <1>2, AppendFacts, Zenon
<1>4. batch' \in 0 .. Len(queue')
  BY <1>3
<1>5. TypesInv'
  BY <1>1, <1>3, <1>4, Zenon DEF TypesInv
<1>6. AttemptInv'
  BY <1>1, <1>3, Zenon DEF AttemptInv
<1>7. ChannelInv' /\ DeadInv'
  BY <1>1, <1>3, Zenon DEF ChannelInv, DeadInv, AttemptInv
<1> QED
  BY <1>5, <1>6, <1>7, Zenon

\* Both ways of closing a connection.
LEMMA ConnectionCloses ==
  ASSUME ClientInv, ConnectionClosed \/ ForceClose
  PROVE  ClientInv'
<1> USE DEF ClientInv
<1>1. CASE ConnectionClosed
  <2>1. Closes(queue) /\ UNCHANGED <<phase, due, batch>> /\ calling = "none" /\ channel_ # "removed"
    BY <1>1, Zenon DEF ConnectionClosed, loopVars
  <2>2. queue \in Seq(FunctorNames) /\ Len(queue) \in Nat /\ batch' \in 0 .. Len(queue)
    BY <2>1, LenProperties, Zenon DEF TypesInv
  <2>3. Once(queue, "startInLoop") /\ Once(queue, "resetChannel")
    BY Zenon DEF ChannelInv
  <2> QED
    BY <2>1, <2>2, <2>3, ClosesKeep, Zenon
<1>2. CASE ForceClose
  <2>1. Functor("forceClose") /\ UNCHANGED <<phase, due>>
    BY <1>2, Zenon DEF ForceClose
  <2>2. FunctorNames = {"startInLoop", "stopInLoop", "resetChannel", "destroyed", "forceClose"}
    BY Zenon DEF FunctorNames
  <2>3. /\ calling = "none" /\ Has(queue, "forceClose")
        /\ Tail(queue) \in Seq(FunctorNames) /\ Len(Tail(queue)) \in Nat /\ batch' \in 0 .. Len(Tail(queue))
        /\ Has(Tail(queue), "resetChannel") <=> Has(queue, "resetChannel")
        /\ Has(Tail(queue), "startInLoop") <=> Has(queue, "startInLoop")
        /\ Once(queue, "startInLoop") => Once(Tail(queue), "startInLoop")
        /\ Once(queue, "resetChannel") => Once(Tail(queue), "resetChannel")
        /\ Has(Tail(queue), "forceClose") => Has(queue, "forceClose")
    BY <2>1, <2>2, FunctorFacts, Zenon
  <2>4. Once(Tail(queue), "startInLoop") /\ Once(Tail(queue), "resetChannel") /\ client = "dead"
    BY <2>3, Zenon DEF ChannelInv, DeadInv
  <2>5. CASE connection # "none"
    <3>1. Closes(Tail(queue))
      BY <1>2, <2>5, Zenon DEF ForceClose
    <3> QED
      BY <2>1, <2>3, <2>4, <3>1, ClosesKeep, Zenon
  <2>6. CASE connection = "none"
    <3>1. /\ queue' = Tail(queue)
          /\ UNCHANGED <<connect_, state_, channel_, sockets, gaveUp, retryDelayMs_, timers, calling, revents,
                         clientConnect, connection, client, connects>>
      BY <1>2, <2>6, Zenon DEF ForceClose, attemptVars, retryVars, clientVars
    <3>2. TypesInv'
      BY <2>1, <2>3, <3>1 DEF TypesInv
    <3>3. AttemptInv'
      BY <2>1, <2>3, <3>1, Zenon DEF AttemptInv
    <3>4. ChannelInv' /\ DeadInv'
      BY <2>1, <2>3, <2>4, <3>1, Zenon DEF ChannelInv, DeadInv
    <3> QED
      BY <3>2, <3>3, <3>4, Zenon
  <2> QED
    BY <2>5, <2>6, Zenon
<1> QED
  BY <1>1, <1>2, Zenon

\* The client is destructed.
LEMMA DestructKeeps ==
  ASSUME ClientInv, Destruct
  PROVE  ClientInv'
<1> USE DEF ClientInv
<1>1. /\ client' = "dead" /\ calling = "none" /\ calling' = "none" /\ queue = <<>>
      /\ UNCHANGED <<state_, channel_, sockets, gaveUp, retryDelayMs_, timers, revents, phase, batch, due,
                     clientConnect, connects>>
  BY Zenon DEF Destruct, attemptVars, retryVars, loopVars
<1>2. FunctorNames = {"startInLoop", "stopInLoop", "resetChannel", "destroyed", "forceClose"}
  BY Zenon DEF FunctorNames
<1>3. queue \in Seq(FunctorNames) /\ Len(queue) = 0
  BY <1>1, Zenon DEF TypesInv
<1>4. /\ queue' = queue \/ \E f \in {"forceClose", "stopInLoop"} : queue' = Append(queue, f)
  BY Zenon DEF Destruct
<1>5. /\ queue' \in Seq(FunctorNames) /\ batch' \in 0 .. Len(queue')
      /\ Has(queue', "resetChannel") <=> Has(queue, "resetChannel")
      /\ Has(queue', "startInLoop") <=> Has(queue, "startInLoop")
      /\ Once(queue', "startInLoop") /\ Once(queue', "resetChannel")
  <2>1. batch' \in 0 .. 0
    BY <1>1, <1>3, Zenon DEF TypesInv
  <2>2. CASE queue' = queue
    BY <1>3, <2>1, <2>2, Zenon DEF ChannelInv
  <2>3. ASSUME NEW f \in {"forceClose", "stopInLoop"}, queue' = Append(queue, f)
        PROVE  /\ queue' \in Seq(FunctorNames) /\ Len(queue') = Len(queue) + 1
               /\ Has(queue', "resetChannel") <=> Has(queue, "resetChannel")
               /\ Has(queue', "startInLoop") <=> Has(queue, "startInLoop")
               /\ Once(queue', "startInLoop") /\ Once(queue', "resetChannel")
    BY <1>2, <1>3, <2>3, AppendFacts, Zenon DEF ChannelInv
  <2> QED
    BY <1>3, <1>4, <2>1, <2>2, <2>3
<1>6. \/ /\ connection # "none" /\ connection' \in {connection, "closing"} /\ connect_' = connect_
      \/ connection' = "none" /\ connection = "none" /\ connect_' = FALSE
  BY Zenon DEF Destruct
<1>7. TypesInv'
  <2>1. connect_' \in BOOLEAN
    BY <1>6, Zenon DEF TypesInv
  <2> QED
    BY <1>1, <1>5, <1>6, <2>1, Zenon DEF TypesInv
<1>8. AttemptInv'
  BY <1>1, <1>5, <1>6, Zenon DEF AttemptInv
<1>9. ChannelInv'
  BY <1>1, <1>5, Zenon DEF ChannelInv
<1>10. DeadInv'
  BY <1>1, <1>5, <1>6, Zenon DEF DeadInv, AttemptInv
<1> QED
  BY <1>7, <1>8, <1>9, <1>10, Zenon
\* Calls of the owner, if there is at most one connect().
LEMMA CallKeeps ==
  ASSUME MaxConnects <= 1, ClientInv, NEW op \in CallNames, NEW inLoop \in BOOLEAN, Call(op, inLoop)
  PROVE  ClientInv'
<1> USE DEF ClientInv
<1>1. /\ client = "alive" /\ client' = "alive" /\ clientConnect' = (op = "connect")
      /\ UNCHANGED <<calling, revents, phase, batch, due>>
  BY Zenon DEF Call, loopVars
<1>2. FunctorNames = {"startInLoop", "stopInLoop", "resetChannel", "destroyed", "forceClose"}
  BY Zenon DEF FunctorNames
<1>3. queue \in Seq(FunctorNames) /\ Len(queue) \in Nat /\ clientConnect' \in BOOLEAN
  BY <1>1, LenProperties, Zenon DEF TypesInv
<1>4. CASE op = "connect"
  <2>1. connect_' = TRUE /\ connects < MaxConnects /\ connects' = connects + 1 /\ connection' = connection
    BY <1>4, Zenon DEF Call
  <2>2. connects = 0 /\ connects' = 1 /\ connects' \in 0 .. MaxConnects
    BY <2>1, ClientAssumption DEF TypesInv
  <2>3. /\ timers = 0 /\ due = 0 /\ channel_ = "none" /\ state_ = "kDisconnected" /\ calling = "none"
        /\ connection = "none" /\ sockets = 0 /\ ~Has(queue, "startInLoop") /\ ~Has(queue, "resetChannel")
        /\ ~Has(queue, "forceClose")
    BY <1>1, <2>2 DEF AttemptInv, ChannelInv, DeadInv
  <2>4. connect_' \in BOOLEAN
    BY <2>1, Zenon
  <2>5. CASE inLoop
    <3>1. queue' = queue
      BY <1>4, <2>5, Zenon DEF Call
    <3>2. startInLoop(TRUE, timers, retryDelayMs_)
      BY <1>4, <2>5, Zenon DEF Call
    <3>3. startInLoop(TRUE, 0, retryDelayMs_) /\ retryDelayMs_ \in DelayRange /\ gaveUp \in BOOLEAN
      BY <2>3, <3>2, Zenon DEF TypesInv, DelayRange
    <3>4. Started(TRUE)
      BY <2>3, <3>3, StartOutcome, Zenon
    <3>5. /\ queue' \in Seq(FunctorNames) /\ ~Has(queue', "startInLoop") /\ Once(queue', "startInLoop")
          /\ ~Has(queue', "resetChannel") /\ Once(queue', "resetChannel") /\ ~Has(queue', "forceClose")
      BY <1>3, <2>3, <3>1, Zenon DEF ChannelInv
    <3>a. connection' = "none" /\ connects' # 0 /\ calling' = "none" /\ due' = 0 /\ client' # "dead"
      BY <1>1, <2>1, <2>2, <2>3
    <3>6. AttemptInv' /\ ChannelInv' /\ DeadInv'
      BY <2>3, <3>4, <3>5, <3>a, StartedKeeps, Zenon
    <3>7. TypesInv'
      BY <1>1, <1>3, <2>1, <2>2, <2>4, <3>1, <3>4, Zenon DEF TypesInv, Started, DelayRange
    <3> QED
      BY <3>6, <3>7, Zenon
  <2>6. CASE ~inLoop
    <3>1. queue' = Append(queue, "startInLoop")
      BY <1>4, <2>6, Zenon DEF Call
    <3>2. UNCHANGED <<state_, channel_, sockets, gaveUp, retryDelayMs_, timers>>
      BY <1>4, <2>6, Zenon DEF Call, attemptVars, retryVars
    <3>3. /\ queue' \in Seq(FunctorNames) /\ Len(queue') = Len(queue) + 1
          /\ Once(queue', "startInLoop") /\ Once(queue', "resetChannel")
          /\ ~Has(queue', "resetChannel") /\ ~Has(queue', "forceClose")
      BY <1>2, <1>3, <2>3, <3>1, AppendFacts, Zenon DEF ChannelInv
    <3>4. batch' \in 0 .. Len(queue')
      BY <1>1, <1>3, <3>3 DEF TypesInv
    <3>5. TypesInv'
      BY <1>1, <1>3, <2>1, <2>2, <2>4, <3>2, <3>3, <3>4, Zenon DEF TypesInv
    <3>6. AttemptInv'
      BY <1>1, <2>1, <2>2, <2>3, <3>2, <3>3 DEF AttemptInv
    <3>7. ChannelInv' /\ DeadInv'
      BY <1>1, <2>1, <2>3, <3>2, <3>3, Zenon DEF ChannelInv, DeadInv
    <3> QED
      BY <3>5, <3>6, <3>7, Zenon
  <2> QED
    BY <2>5, <2>6, Zenon
<1>5. CASE op # "connect"
  <2>1. /\ UNCHANGED <<state_, channel_, sockets, gaveUp, retryDelayMs_, timers>> /\ connects' = connects
    BY <1>5, Zenon DEF Call, attemptVars, retryVars
  <2>2. /\ connect_' = connect_ \/ connect_' = FALSE
        /\ queue' = queue \/ queue' = Append(queue, "stopInLoop")
        /\ connection' = connection \/ (connection = "up" /\ connection' = "closing")
    BY <1>5, Zenon DEF Call, CallNames
  <2>3. /\ queue' \in Seq(FunctorNames) /\ Len(queue') \in {Len(queue), Len(queue) + 1}
        /\ Has(queue', "resetChannel") <=> Has(queue, "resetChannel")
        /\ Has(queue', "startInLoop") <=> Has(queue, "startInLoop")
        /\ Has(queue', "forceClose") <=> Has(queue, "forceClose")
        /\ Once(queue', "startInLoop") /\ Once(queue', "resetChannel")
    <3>1. CASE queue' = queue
      BY <1>3, <3>1, Zenon DEF ChannelInv
    <3>2. CASE queue' = Append(queue, "stopInLoop")
      BY <1>2, <1>3, <3>2, AppendFacts, Zenon DEF ChannelInv
    <3> QED
      BY <2>2, <3>1, <3>2, Zenon
  <2>4. batch' \in 0 .. Len(queue')
    BY <1>1, <1>3, <2>3 DEF TypesInv
  <2>5. connect_' \in BOOLEAN
    BY <2>2, Zenon DEF TypesInv
  <2>6. TypesInv'
    BY <1>1, <1>3, <2>1, <2>2, <2>3, <2>4, <2>5, Zenon DEF TypesInv
  <2>7. AttemptInv'
    BY <1>1, <2>1, <2>2, <2>3, Zenon DEF AttemptInv
  <2>8. ChannelInv' /\ DeadInv'
    BY <1>1, <2>1, <2>3, Zenon DEF ChannelInv, DeadInv
  <2> QED
    BY <2>6, <2>7, <2>8, Zenon
<1> QED
  BY <1>4, <1>5, Zenon

\* Every step keeps the invariant, if there is at most one connect().
LEMMA ClientInvNext ==
  ASSUME MaxConnects <= 1, ClientInv, [Next]_vars
  PROVE  ClientInv'
<1>1. CASE UNCHANGED vars
  <2>1. /\ UNCHANGED <<connect_, state_, channel_, sockets, gaveUp, retryDelayMs_, timers, calling, revents>>
        /\ UNCHANGED <<phase, batch, due, queue, clientConnect, connection, client, connects>>
    BY <1>1, Zenon DEF vars, connectorVars, clientVars, attemptVars, retryVars, loopVars
  <2>2. TypesInv' /\ AttemptInv'
    BY <2>1 DEF ClientInv, TypesInv, AttemptInv, Has
  <2>3. ChannelInv' /\ DeadInv'
    BY <2>1, Zenon DEF ClientInv, ChannelInv, DeadInv, Has, Once
  <2> QED
    BY <2>2, <2>3, Zenon DEF ClientInv
<1>2. CASE Destroyed
  <2>1. UNCHANGED clientVars
    BY <1>2, Zenon DEF Destroyed
  <2> QED
    BY <1>2, <2>1, OtherFunctorsKeep, Zenon
<1>3. CASE ConnectorStep /\ UNCHANGED clientVars
  BY <1>3, IterationKeeps, EventKeeps, StartKeeps, OtherFunctorsKeep, Zenon DEF ConnectorStep
<1> QED
  BY <1>1, <1>2, <1>3, NewConnectionKeeps, RestartKeeps, ConnectionCloses, DestructKeeps, CallKeeps, Zenon DEF Next, LoopStep

------------------------------------------------------------------------------
(* The channel of the last attempt. *)

\* resetChannel() waits behind the b functors of the batch.
Late(q, b) == \E i \in b + 1 .. Len(q) : q[i] = "resetChannel"

\* A retry timer runs while resetChannel() waits for the next iteration only if stopInLoop() has
\* set it; and an event finds the attempt it was reported for, or none.
OrderInv ==
  /\ overruled \in BOOLEAN
  /\ phase = "poll" => batch = 0
  /\ phase \in {"functors", "poll"} /\ Late(queue, batch) /\ timers = 1 => overruled
  /\ due = 1 /\ channel_ = "removed" => overruled
  /\ revents # {} => phase = "handle" /\ state_ # "kConnected"

\* A functor behind the batch is a functor of the queue; there is none when all are in the batch.
LEMMA LateFacts ==
  ASSUME NEW q \in Seq(FunctorNames), NEW b \in Nat
  PROVE  /\ Late(q, b) => Has(q, "resetChannel")
         /\ Has(q, "resetChannel") => Late(q, 0)
         /\ ~Late(q, Len(q))
BY LenProperties DEF Late, Has

\* What waits behind the batch still does when a functor of the batch has been taken.
LEMMA LateTail ==
  ASSUME NEW q \in Seq(FunctorNames), NEW b \in Nat, b > 0, b <= Len(q), Late(Tail(q), b - 1)
  PROVE  Late(q, b)
<1>1. q # <<>> /\ Len(q) \in Nat
  BY LenProperties
<1>2. Len(Tail(q)) = Len(q) - 1 /\ \A i \in 1 .. Len(q) - 1 : Tail(q)[i] = q[i + 1]
  BY <1>1, HeadTailProperties
<1>3. PICK i \in (b - 1) + 1 .. Len(Tail(q)) : Tail(q)[i] = "resetChannel"
  BY Zenon DEF Late
<1>4. i \in 1 .. Len(q) - 1 /\ i + 1 \in b + 1 .. Len(q)
  BY <1>1, <1>2, <1>3
<1>5. q[i + 1] = "resetChannel"
  BY <1>2, <1>3, <1>4, Zenon
<1> QED
  BY <1>4, <1>5, Zenon DEF Late

\* Another functor that is queued does not put resetChannel() behind the batch.
LEMMA LateAppend ==
  ASSUME NEW q \in Seq(FunctorNames), NEW b \in Nat, NEW f \in FunctorNames, f # "resetChannel",
         Late(Append(q, f), b)
  PROVE  Late(q, b)
<1>1. Len(Append(q, f)) = Len(q) + 1 /\ Len(q) \in Nat
      /\ (\A i \in 1 .. Len(q) : Append(q, f)[i] = q[i]) /\ Append(q, f)[Len(q) + 1] = f
  BY AppendProperties, LenProperties
<1>2. PICK i \in b + 1 .. Len(Append(q, f)) : Append(q, f)[i] = "resetChannel"
  BY Zenon DEF Late
<1>3. i # Len(q) + 1
  BY <1>1, <1>2, Zenon
<1>4. i \in 1 .. Len(q) /\ i \in b + 1 .. Len(q)
  BY <1>1, <1>2, <1>3
<1>5. q[i] = "resetChannel"
  BY <1>1, <1>2, <1>4, Zenon
<1> QED
  BY <1>4, <1>5, Zenon DEF Late

\* Nothing is to be shown of a step that leaves no timer or no channel to reset.
LEMMA Settled ==
  ASSUME ClientInv', channel_' # "removed" \/ timers' # 1
  PROVE  ~(Late(queue', batch') /\ timers' = 1) /\ ~(due' = 1 /\ channel_' = "removed")
<1>1. queue' \in Seq(FunctorNames) /\ batch' \in Nat
  BY DEF ClientInv, TypesInv
<1>2. Late(queue', batch') => channel_' = "removed"
  BY <1>1, LateFacts, Zenon DEF ClientInv, ChannelInv
<1>3. due' = 1 => timers' = 1
  BY DEF ClientInv, AttemptInv
<1> QED
  BY <1>2, <1>3, Zenon

\* Every step keeps resetChannel() ahead of the timer, if there is at most one connect().
LEMMA OrderInvNext ==
  ASSUME MaxConnects <= 1, ClientInv, ClientInv', OrderInv, [Next]_vars
  PROVE  OrderInv'
<1>1. queue \in Seq(FunctorNames) /\ Len(queue) \in Nat /\ batch \in Nat /\ batch <= Len(queue)
  BY LenProperties DEF ClientInv, TypesInv
<1>2. CASE poll /\ UNCHANGED clientVars
  <2>1. /\ phase = "poll" /\ phase' = "handle" /\ (revents' # {} => channel_ = "on") /\ due' \in 0 .. timers
        /\ UNCHANGED <<overruled, state_, channel_, timers, batch, queue>>
    BY <1>2, Zenon DEF poll, attemptVars, retryVars
  <2>2. due' = 1 => timers = 1
    BY <2>1 DEF ClientInv, AttemptInv
  <2>3. channel_ = "removed" => Late(queue, batch)
    BY <1>1, <2>1, LateFacts, Zenon DEF ClientInv, ChannelInv, OrderInv
  <2>4. channel_ = "on" => state_ # "kConnected"
    BY Zenon DEF ClientInv, ChannelInv
  <2> QED
    BY <2>1, <2>2, <2>3, <2>4, Zenon DEF OrderInv
<1>3. CASE (handleError \/ handleWrite) /\ UNCHANGED clientVars
  <2>1. revents # {} /\ UNCHANGED <<overruled, phase, batch, due>> /\ revents' \subseteq revents
    BY <1>3, Zenon DEF handleError, handleWrite, loopVars
  <2>2. revents' = {} \/ state_' = state_ \/ state_' = "kDisconnected"
    BY <1>3, Zenon DEF handleError, handleWrite, Retry, AfterRetry, attemptVars
  <2>3. channel_' = channel_ \/ (due = 0 /\ channel_ = "on")
    <3>1. CASE state_ = "kConnecting"
      BY <3>1 DEF ClientInv, ChannelInv, AttemptInv
    <3>2. CASE state_ # "kConnecting"
      BY <1>3, <3>2, Zenon DEF handleError, handleWrite, Attempting, attemptVars
    <3> QED
      BY <3>1, <3>2, Zenon
  <2>4. phase = "handle" /\ state_ # "kConnected"
    BY <2>1, Zenon DEF OrderInv
  <2>5. due = 0 => due # 1
    OBVIOUS
  <2>6. revents' # {} => phase' = "handle" /\ state_' # "kConnected"
    BY <2>1, <2>2, <2>4, Zenon
  <2>7. due' = 1 /\ channel_' = "removed" => overruled'
    BY <2>1, <2>3, <2>5, Zenon DEF OrderInv
  <2> QED
    BY <2>1, <2>4, <2>6, <2>7, Zenon DEF OrderInv
<1>4. CASE RetryTimer /\ UNCHANGED clientVars
  <2>1. due = 1 /\ due' = 0 /\ UNCHANGED <<overruled, revents, phase, batch, queue>>
    BY <1>4 DEF RetryTimer, ClientInv, AttemptInv
  <2>2. phase = "handle" /\ due' # 1
    BY <2>1 DEF ClientInv, ChannelInv
  <2>3. state_' # "kConnected"
    <3>1. state_ = "kDisconnected"
      BY <2>1 DEF ClientInv, ChannelInv, AttemptInv
    <3>2. startInLoop(connect_, timers - 1, retryDelayMs_)
      BY <1>4, Zenon DEF RetryTimer
    <3> QED
      BY <3>1, <3>2, Zenon DEF startInLoop, Connect, Retry, AfterRetry, attemptVars
  <2> QED
    BY <2>1, <2>2, <2>3, Zenon DEF OrderInv
<1>5. CASE (SwapFunctors \/ EndFunctors) /\ UNCHANGED clientVars
  <2>1. /\ UNCHANGED <<overruled, state_, channel_, timers, revents, due, queue>>
        /\ \/ phase = "handle" /\ phase' = "functors" /\ batch' = Len(queue) /\ revents = {}
           \/ phase = "functors" /\ phase' = "poll" /\ batch = 0 /\ batch' = 0
    BY <1>5, Zenon DEF SwapFunctors, EndFunctors, attemptVars, retryVars
  <2>2. ~Late(queue, Len(queue))
    BY <1>1, LateFacts, Zenon
  <2> QED
    BY <2>1, <2>2, Zenon DEF OrderInv
<1>6. ASSUME NEW f \in FunctorNames, Functor(f)
      PROVE  /\ phase # "poll" /\ batch \in Nat /\ batch > 0
             /\ Late(Tail(queue), batch') => Late(queue, batch)
  <2>1. batch > 0 /\ batch' = batch - 1
    BY <1>6, Zenon DEF Functor
  <2>2. phase # "poll"
    BY <2>1 DEF OrderInv
  <2>3. Late(Tail(queue), batch - 1) => Late(queue, batch)
    BY <1>1, <2>1, LateTail, Zenon
  <2> QED
    BY <1>1, <2>1, <2>2, <2>3, Zenon
<1>7. CASE (StartFunctor /\ UNCHANGED clientVars) \/ restart
  <2>1. UNCHANGED <<overruled, revents, phase, due>>
    BY <1>7, Zenon DEF StartFunctor, restart, loopVars
  <2>2. \E on, t, d : startInLoop(on, t, d)
    BY <1>7, Zenon DEF StartFunctor, restart
  <2>3. channel_ = "none" /\ (phase = "poll" => batch' = 0)
    <3>1. CASE StartFunctor
      <4>1. Functor("startInLoop") /\ "startInLoop" \in FunctorNames
        BY <3>1, Zenon DEF StartFunctor, FunctorNames
      <4>2. Has(queue, "startInLoop") /\ phase # "poll"
        BY <1>6, <4>1, FunctorFacts, Zenon
      <4> QED
        BY <4>2, Zenon DEF ClientInv, ChannelInv
    <3>2. CASE restart
      <4>1. calling = "restart" /\ batch' = batch
        BY <3>2, Zenon DEF restart, loopVars
      <4> QED
        BY <4>1, Zenon DEF ClientInv, TypesInv, AttemptInv, ChannelInv, OrderInv
    <3> QED
      BY <1>7, <3>1, <3>2, Zenon
  <2>4. channel_' # "removed" /\ (state_' = "kConnected" => state_ = "kConnected")
    BY <2>2, <2>3, Zenon DEF startInLoop, Connect, Retry, AfterRetry, attemptVars
  <2> QED
    BY <2>1, <2>3, <2>4, Settled, Zenon DEF OrderInv
<1>8. CASE stopInLoop /\ state_ = "kConnecting" /\ UNCHANGED clientVars
  <2>1. /\ Functor("stopInLoop") /\ Retry(sockets, connect_, timers, retryDelayMs_)
        /\ overruled' = connect_ /\ UNCHANGED <<connect_, revents, phase, due>>
    BY <1>8, Zenon DEF stopInLoop, StopsAttempt
  <2>2. timers = 0 /\ due # 1 /\ connect_ \in BOOLEAN
    BY <1>8 DEF ClientInv, TypesInv, AttemptInv, ChannelInv
  <2>3. state_' = "kDisconnected" /\ (timers' = 1 => connect_)
    BY <2>1, <2>2 DEF Retry, AfterRetry, Retries
  <2>4. phase # "poll"
    BY <1>6, <2>1, Zenon DEF FunctorNames
  <2> QED
    BY <2>1, <2>2, <2>3, <2>4, Zenon DEF OrderInv
<1>9. CASE (stopInLoop /\ state_ # "kConnecting" /\ UNCHANGED clientVars) \/ Destroyed
  <2>1. \E f \in FunctorNames : Functor(f)
    BY <1>9, Zenon DEF stopInLoop, Destroyed, FunctorNames
  <2>2. queue' = Tail(queue) /\ UNCHANGED <<overruled, state_, channel_, timers, revents, phase, due>>
    BY <1>9, Zenon DEF stopInLoop, StopsAttempt, Destroyed, attemptVars, retryVars
  <2> QED
    BY <1>6, <2>1, <2>2, Zenon DEF OrderInv
<1>10. CASE resetChannel /\ UNCHANGED clientVars
  <2>1. Functor("resetChannel") /\ channel_' = "none" /\ overruled' = FALSE /\ UNCHANGED <<state_, revents, phase>>
    BY <1>10, Zenon DEF resetChannel
  <2>2. phase # "poll" /\ channel_' # "removed" /\ overruled' \in BOOLEAN
    BY <1>6, <2>1, Zenon DEF FunctorNames
  <2> QED
    BY <2>1, <2>2, Settled, Zenon DEF OrderInv
<1>11. CASE newConnection
  <2>1. calling = "newConnection" /\ UNCHANGED <<overruled, state_, timers, revents, phase, batch>>
    BY <1>11, Zenon DEF newConnection, retryVars, loopVars
  <2>2. timers' # 1
    BY <2>1, Zenon DEF ClientInv, AttemptInv
  <2> QED
    BY <2>1, <2>2, Settled, Zenon DEF OrderInv
<1>12. ASSUME NEW q, Closes(q), UNCHANGED phase, phase = "poll" => batch' = 0 PROVE OrderInv'
  <2>1. connection # "none" /\ UNCHANGED <<overruled, state_, timers, revents>>
    BY <1>12, Zenon DEF Closes, attemptVars, retryVars
  <2>2. timers' # 1
    BY <2>1, Zenon DEF ClientInv, AttemptInv
  <2> QED
    BY <1>12, <2>1, <2>2, Settled, Zenon DEF OrderInv
<1>13. CASE ConnectionClosed
  <2>1. Closes(queue) /\ UNCHANGED <<phase, batch>>
    BY <1>13, Zenon DEF ConnectionClosed, loopVars
  <2> QED
    BY <1>12, <2>1, Zenon DEF OrderInv
<1>14. CASE ForceClose
  <2>1. Functor("forceClose") /\ UNCHANGED <<phase, due>>
    BY <1>14, Zenon DEF ForceClose
  <2>2. phase # "poll" /\ (Late(Tail(queue), batch') => Late(queue, batch))
    BY <1>6, <2>1, Zenon DEF FunctorNames
  <2>3. CASE connection # "none"
    BY <1>12, <1>14, <2>1, <2>2, <2>3, Zenon DEF ForceClose
  <2>4. CASE connection = "none"
    <3>1. queue' = Tail(queue) /\ UNCHANGED <<overruled, state_, channel_, timers, revents>>
      BY <1>14, <2>4, Zenon DEF ForceClose, attemptVars, retryVars
    <3> QED
      BY <2>1, <2>2, <3>1, Zenon DEF OrderInv
  <2> QED
    BY <2>3, <2>4, Zenon
<1>15. CASE Destruct
  <2>1. queue = <<>> /\ UNCHANGED <<overruled, state_, channel_, timers, revents, phase, batch, due>>
    BY <1>15, Zenon DEF Destruct, attemptVars, retryVars, loopVars
  <2>2. channel_ # "removed"
    <3>1. ~Has(queue, "resetChannel")
      BY <2>1 DEF Has
    <3> QED
      BY <3>1, Zenon DEF ClientInv, ChannelInv
  <2> QED
    BY <2>1, <2>2, Settled, Zenon DEF OrderInv
<1>16. ASSUME NEW op \in CallNames, NEW inLoop \in BOOLEAN, Call(op, inLoop) PROVE OrderInv'
  <2>1. UNCHANGED <<overruled, revents, phase, batch, due>>
    BY <1>16, Zenon DEF Call, loopVars
  <2>2. CASE op = "connect"
    <3>1. connects = 0
      <4>1. connects < MaxConnects
        BY <1>16, <2>2, Zenon DEF Call
      <4> QED
        BY <4>1, ClientAssumption DEF ClientInv, TypesInv
    <3>2. channel_ = "none" /\ state_ = "kDisconnected"
      BY <3>1, Zenon DEF ClientInv, AttemptInv
    <3>3. startInLoop(TRUE, timers, retryDelayMs_) \/ UNCHANGED attemptVars
      BY <1>16, <2>2, Zenon DEF Call
    <3>4. channel_' # "removed" /\ state_' # "kConnected"
      BY <3>2, <3>3, Zenon DEF startInLoop, Connect, Retry, AfterRetry, attemptVars
    <3> QED
      BY <2>1, <3>4, Settled, Zenon DEF OrderInv
  <2>3. CASE op # "connect"
    <3>1. UNCHANGED <<state_, channel_, timers>> /\ (queue' = queue \/ queue' = Append(queue, "stopInLoop"))
      BY <1>16, <2>3, Zenon DEF Call, CallNames, attemptVars, retryVars
    <3>2. "stopInLoop" \in FunctorNames /\ "stopInLoop" # "resetChannel"
      BY Zenon DEF FunctorNames
    <3>3. Late(queue', batch) => Late(queue, batch)
      BY <1>1, <3>1, <3>2, LateAppend, Zenon
    <3> QED
      BY <2>1, <3>1, <3>3, Zenon DEF OrderInv
  <2> QED
    BY <2>2, <2>3, Zenon
<1>17. CASE UNCHANGED vars
  BY <1>17, Zenon DEF vars, connectorVars, attemptVars, retryVars, loopVars, OrderInv
<1> QED
  BY <1>2, <1>3, <1>4, <1>5, <1>7, <1>8, <1>9, <1>10, <1>11, <1>13, <1>14, <1>15, <1>16, <1>17, Zenon
  DEF Next, LoopStep, ConnectorStep

\* What the invariants say about the attempts and the assertions.
LEMMA ClientInvIsOneAttempt == ClientInv /\ OrderInv => OneAttempt /\ ConnectorAssertionsHold
<1> SUFFICES ASSUME ClientInv, OrderInv PROVE OneAttempt /\ ConnectorAssertionsHold
  BY Zenon
<1>1. \A f : Queued(f) <=> Has(queue, f)
  <2>1. DOMAIN queue = 1 .. Len(queue)
    BY DEF ClientInv, TypesInv
  <2> QED
    BY <2>1, Zenon DEF Queued, Has
<1>2. timers \in {0, 1} /\ due \in {0, 1} /\ due <= timers /\ sockets \in {0, 1}
  BY Zenon DEF ClientInv, AttemptInv
<1>3. TypeOK
  <2>1. due \in 0 .. timers /\ timers \in Nat /\ sockets \in Nat
    BY <1>2
  <2> QED
    BY <2>1, Zenon DEF ClientInv, TypesInv, OrderInv, TypeOK, ConnectorTypeOK, FunctorNames
<1>4. timers + Count(channel_ = "on") + Count(calling = "newConnection") + Count(connection # "none")
            + Count(Queued("startInLoop")) <= 1
  <2>1. CASE timers = 1
    BY <1>1, <2>1 DEF ClientInv, AttemptInv, Count
  <2>2. CASE timers = 0
    BY <1>1, <2>2 DEF ClientInv, AttemptInv, Count
  <2> QED
    BY <1>2, <2>1, <2>2, Zenon
<1>5. sockets = Count(channel_ = "on") + Count(calling = "newConnection")
  BY DEF ClientInv, AttemptInv, Count
<1>6. batch > 0 /\ Head(queue) = "startInLoop" => channel_ = "none"
  <2> SUFFICES ASSUME batch > 0, Head(queue) = "startInLoop" PROVE channel_ = "none"
    BY Zenon
  <2>1. queue \in Seq(FunctorNames) /\ queue # <<>>
    BY DEF ClientInv, TypesInv
  <2>2. Has(queue, "startInLoop")
    BY <2>1, TailFacts, Zenon
  <2> QED
    BY <2>2, Zenon DEF ClientInv, ChannelInv
<1>7. ConnectorAssertionsHold
  <2>1. timers > 0 \/ Queued("startInLoop") => state_ = "kDisconnected"
    BY <1>1, <1>2 DEF ClientInv, ChannelInv
  <2>2. due > 0 /\ ~overruled => channel_ = "none"
    <3> SUFFICES ASSUME due > 0, ~overruled PROVE channel_ = "none"
      BY Zenon
    <3>1. due = 1 /\ timers = 1
      BY <1>2
    <3> QED
      BY <3>1, Zenon DEF ClientInv, TypesInv, AttemptInv, OrderInv
  <2>3. calling = "newConnection" => client = "alive"
    BY Zenon DEF ClientInv, TypesInv, DeadInv
  <2>4. "OUT" \in revents => state_ # "kConnected"
    BY Zenon DEF OrderInv
  <2>5. calling = "restart" => channel_ = "none"
    BY Zenon DEF ClientInv, TypesInv, AttemptInv, ChannelInv
  <2> QED
    BY <1>6, <2>1, <2>2, <2>3, <2>4, <2>5, Zenon DEF ConnectorAssertionsHold
<1> QED
  BY <1>3, <1>4, <1>5, <1>7, Zenon DEF OneAttempt

\* ClientInv and OrderInv are true from the start, and stay so.
LEMMA InvariantsHold ==
  ASSUME MaxConnects <= 1
  PROVE  Spec => [](ClientInv /\ OrderInv)
<1>1. Init => OrderInv
  <2>1. 0 # 1
    OBVIOUS
  <2> QED
    BY <2>1, Zenon DEF Init, ConnectorInit, OrderInv
<1>2. ClientInv /\ OrderInv /\ [Next]_vars => ClientInv' /\ OrderInv'
  BY ClientInvNext, OrderInvNext, Zenon
<1> QED
  BY <1>1, <1>2, ClientInvInit, PTL DEF Spec

\* Connector and TcpClient, of which connect() is called once: a socket being connected, a retry
\* timer, a queued start and a connection exclude one another, and no socket is leaked, in
\* whatever order events, timers, functors and calls come (Connector.cc:51-84, 137-243).
THEOREM OneAttemptAtATime ==
  ASSUME MaxConnects <= 1
  PROVE  Spec => []OneAttempt
BY InvariantsHold, ClientInvIsOneAttempt, PTL

\* ... and the assertions of startInLoop(), connecting() and handleWrite() hold (Connector.cc:54,
\* 140, 207) where a timer, a functor, an event or restart() comes to them, except for the timer that
\* stopInLoop() sets; and the client that handleWrite() calls back is alive.
THEOREM ConnectorAssertionsAlwaysHold ==
  ASSUME MaxConnects <= 1
  PROVE  Spec => []ConnectorAssertionsHold
BY InvariantsHold, ClientInvIsOneAttempt, PTL
=============================================================================
