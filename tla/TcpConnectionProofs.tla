------------------------- MODULE TcpConnectionProofs -------------------------
(***************************************************************************)
(* Proofs about TcpConnection, for every set of programs that are safe in  *)
(* the sense of SafeProgram, any number of sends, any length of messages   *)
(* and any high-water mark.  The inductive invariant ConnInv says what the *)
(* state and the queue of a safe program are made of (Typed), where a      *)
(* connection is in its life (Life), what the loop still has to handle     *)
(* (Pending), what the channel wants (Interest) and which bytes are where  *)
(* (Stream).                                                               *)
(***************************************************************************)
EXTENDS TcpConnection, TLAPS

Lacks(q, f) == \A i \in 1 .. Len(q) : q[i] # f
HasOne(q, f) == \E i \in 1 .. Len(q) : q[i] = f /\ \A j \in 1 .. Len(q) : q[j] = f => j = i
Before(q, f, n) == \E i \in 1 .. n : q[i] = f

SafeFunctors == {"established", "destroyed", "forceClose", "send", "callback"}
Forced == {"forceClose", "forceCloseWithDelay"}
Ended == Forced \cup {"shutdown"}

\* Types, and what a safe program can have queued.
Typed ==
  /\ TypeOK /\ SafeProgram(use)
  /\ accepted \in Nat /\ downs \in Nat /\ destroys \in Nat
  /\ ioQueue \in Seq(SafeFunctors)
  /\ Forced \cap use.loopCalls = {} => ~delayed /\ Lacks(ioQueue, "forceClose")

\* Before connectEstablished() nothing else happens to a connection.
Unborn ==
  /\ baseQueue = <<>> /\ downs = 0 /\ destroys = 0 /\ ~removed /\ remote = "idle" /\ ~delayed
  /\ chan = {} /\ ~polled /\ outputBuffer_ = <<>> /\ ~wrShut /\ ~lost
  /\ (state_ = "none" => ioQueue = <<>> /\ ~inMap)
  /\ (state_ = "kConnecting" => ioQueue = <<"established">> /\ inMap /\ ~use.sameLoop)

\* The removal is queued in the base loop; or connectDestroyed() is queued; or it has run.
BeingRemoved ==
  baseQueue = <<"remove">> /\ inMap /\ Lacks(ioQueue, "destroyed") /\ destroys = 0 /\ ~removed
    /\ ~use.sameLoop
BeingDestroyed ==
  baseQueue = <<>> /\ ~inMap /\ HasOne(ioQueue, "destroyed") /\ destroys = 0 /\ ~removed
WasDestroyed ==
  baseQueue = <<>> /\ ~inMap /\ Lacks(ioQueue, "destroyed") /\ destroys = 1 /\ removed /\ ~polled

Life ==
  /\ state_ \in {"none", "kConnecting"} => Unborn
  /\ state_ \notin {"none", "kConnecting"} => Lacks(ioQueue, "established")
  /\ state_ \in Up => /\ inMap /\ baseQueue = <<>> /\ downs = 0 /\ destroys = 0 /\ ~removed
                      /\ Lacks(ioQueue, "destroyed")
  /\ state_ = "kDisconnecting" => Ended \cap use.loopCalls # {}
  /\ state_ = "kDisconnected" => downs = 1 /\ (BeingRemoved \/ BeingDestroyed \/ WasDestroyed)

\* Events are handled in the iteration that polled them, and those that close the
\* connection find it up.
Pending ==
  /\ phase # "handle" => revents = {}
  /\ phase # "functors" => batch = 0
  /\ "HUP" \in revents \/ "IN" \in revents => state_ \in Up

\* A channel that wants anything is in the epoll set; one that is disabled twice is in it
\* too, but only until connectDestroyed() runs in the same iteration.
Interest ==
  /\ chan # {} => polled
  /\ state_ \in Up => (isWriting <=> outputBuffer_ # <<>>)
  /\ state_ \in Up /\ "stopRead" \notin use.loopCalls => "read" \in chan
  /\ state_ = "kDisconnected" => chan = {}
  /\ state_ = "kDisconnected" /\ polled =>
       /\ "stopRead" \in use.loopCalls
       /\ phase = "handle" \/ (phase = "functors" /\ Before(ioQueue, "destroyed", batch))

\* Byte i of the stream is number i; once a write has failed for good nothing is buffered.
Stream ==
  /\ \A i \in 1 .. Len(wire) : wire[i] = i
  /\ \A i \in 1 .. Len(outputBuffer_) : outputBuffer_[i] = Len(wire) + i
  /\ ~lost => Len(wire) + Len(outputBuffer_) = accepted
  /\ lost => outputBuffer_ = <<>> /\ ~isWriting /\ (wrShut \/ peer \in {"rst", "dead"})
  /\ wrShut /\ state_ \in Up => outputBuffer_ = <<>>

ConnInv == Typed /\ Life /\ Pending /\ Interest /\ Stream
------------------------------------------------------------------------------
(* Queues of functors. *)

\* queueInLoop() appends a functor (EventLoop.cc:177), and leaves the others where they are.
LEMMA AppendFacts ==
  ASSUME NEW q \in Seq(SafeFunctors), NEW g \in SafeFunctors
  PROVE  /\ Append(q, g) \in Seq(SafeFunctors) /\ Append(q, g) # <<>> /\ Len(Append(q, g)) = Len(q) + 1
         /\ \A f : f # g /\ Lacks(q, f) => Lacks(Append(q, g), f)
         /\ \A f : f # g /\ HasOne(q, f) => HasOne(Append(q, g), f)
         /\ Lacks(q, g) => HasOne(Append(q, g), g)
         /\ \A f, n : n \in 0 .. Len(q) /\ Before(q, f, n) => Before(Append(q, g), f, n)
<1> DEFINE r == Append(q, g)
<1>1. r \in Seq(SafeFunctors) /\ r # <<>> /\ Len(r) = Len(q) + 1 /\ Len(q) \in Nat
  OBVIOUS
<1>2. r[Len(q) + 1] = g /\ \A i \in 1 .. Len(q) : r[i] = q[i]
  OBVIOUS
<1> HIDE DEF r
<1>3. ASSUME NEW f, f # g, Lacks(q, f) PROVE Lacks(r, f)
  BY <1>1, <1>2, <1>3 DEF Lacks
<1>4. ASSUME NEW f, f # g, HasOne(q, f) PROVE HasOne(r, f)
  <2>1. PICK i \in 1 .. Len(q) : q[i] = f /\ \A j \in 1 .. Len(q) : q[j] = f => j = i
    BY <1>4, Zenon DEF HasOne
  <2>2. i \in 1 .. Len(r) /\ r[i] = f /\ \A j \in 1 .. Len(r) : r[j] = f => j = i
    BY <2>1, <1>1, <1>2, <1>4
  <2> QED BY <2>2, Zenon DEF HasOne
<1>5. ASSUME Lacks(q, g) PROVE HasOne(r, g)
  <2>1. Len(r) \in 1 .. Len(r) /\ r[Len(r)] = g /\ \A j \in 1 .. Len(r) : r[j] = g => j = Len(r)
    BY <1>1, <1>2, <1>5 DEF Lacks
  <2> QED BY <2>1, Zenon DEF HasOne
<1>6. ASSUME NEW f, NEW n \in 0 .. Len(q), Before(q, f, n) PROVE Before(r, f, n)
  BY <1>1, <1>2, <1>6 DEF Before
<1> QED BY <1>1, <1>3, <1>4, <1>5, <1>6, Zenon DEF r

\* doPendingFunctors() runs the first functor (EventLoop.cc:289); the others move up.
LEMMA TailFacts ==
  ASSUME NEW q \in Seq(SafeFunctors), q # <<>>
  PROVE  /\ Tail(q) \in Seq(SafeFunctors) /\ Len(Tail(q)) = Len(q) - 1 /\ Head(q) \in SafeFunctors
         /\ Len(q) \in Nat \ {0} /\ Head(q) = q[1]
         /\ \A f : Lacks(q, f) => Lacks(Tail(q), f) /\ Head(q) # f
         /\ \A f : Head(q) # f /\ HasOne(q, f) => HasOne(Tail(q), f)
         /\ \A f : Head(q) = f /\ HasOne(q, f) => Lacks(Tail(q), f)
         /\ \A f, n : Head(q) # f /\ n \in 1 .. Len(q) /\ Before(q, f, n) => Before(Tail(q), f, n - 1)
<1> DEFINE r == Tail(q)
<1>1. r \in Seq(SafeFunctors) /\ Len(r) = Len(q) - 1 /\ Head(q) = q[1] /\ Len(q) \in Nat \ {0}
  OBVIOUS
<1>2. \A i \in 1 .. Len(r) : r[i] = q[i + 1]
  OBVIOUS
<1> HIDE DEF r
<1>3. ASSUME NEW f, Lacks(q, f) PROVE Lacks(r, f) /\ Head(q) # f
  BY <1>1, <1>2, <1>3 DEF Lacks
<1>4. ASSUME NEW f, Head(q) # f, HasOne(q, f) PROVE HasOne(r, f)
  <2>1. PICK i \in 1 .. Len(q) : q[i] = f /\ \A j \in 1 .. Len(q) : q[j] = f => j = i
    BY <1>4, Zenon DEF HasOne
  <2>2. i # 1
    BY <2>1, <1>1, <1>4, Zenon
  <2>3. i - 1 \in 1 .. Len(r) /\ r[i - 1] = f /\ \A j \in 1 .. Len(r) : r[j] = f => j = i - 1
    BY <2>1, <2>2, <1>1, <1>2
  <2> QED BY <2>3, Zenon DEF HasOne
<1>5. ASSUME NEW f, Head(q) = f, HasOne(q, f) PROVE Lacks(r, f)
  BY <1>1, <1>2, <1>5 DEF HasOne, Lacks
<1>6. ASSUME NEW f, Head(q) # f, NEW n \in 1 .. Len(q), Before(q, f, n) PROVE Before(r, f, n - 1)
  <2>1. PICK i \in 1 .. n : q[i] = f
    BY <1>6, Zenon DEF Before
  <2>2. i # 1
    BY <2>1, <1>1, <1>6, Zenon
  <2>3. i - 1 \in 1 .. n - 1 /\ r[i - 1] = f
    BY <2>1, <2>2, <1>1, <1>2
  <2> QED BY <2>3, Zenon DEF Before
<1> QED BY <1>3, <1>4, <1>5, <1>6 DEF r

\* A functor that is there once is within the batch that doPendingFunctors() swaps out
\* (EventLoop.cc:285), and is not there in an empty one.
LEMMA QueueFacts ==
  /\ \A f : Lacks(<<>>, f) /\ ~HasOne(<<>>, f)
  /\ \A q, f : HasOne(q, f) => ~Lacks(q, f) /\ Before(q, f, Len(q))
  /\ \A q, f : ~Before(q, f, 0)
  /\ \A q \in Seq(SafeFunctors) : \A f : q # <<>> /\ Head(q) = f => ~Lacks(q, f)
<1>1. \A f : Lacks(<<>>, f) /\ ~HasOne(<<>>, f)
  BY DEF Lacks, HasOne
<1>2. \A q, f : HasOne(q, f) => ~Lacks(q, f) /\ Before(q, f, Len(q))
  BY Zenon DEF Lacks, HasOne, Before
<1>3. \A q, f : ~Before(q, f, 0)
  BY DEF Before
<1>4. \A q \in Seq(SafeFunctors) : \A f : q # <<>> /\ Head(q) = f => ~Lacks(q, f)
  BY TailFacts, Zenon
<1> QED BY <1>1, <1>2, <1>3, <1>4, Zenon

------------------------------------------------------------------------------
(* The invariant implies the properties. *)

\* What the invariant says of the callbacks, of the assertions of TcpConnection.cc and of the stream.
LEMMA InvImplies == ConnInv => DownThenDestroyedOnce /\ ConnectionAssertionsHold /\ StreamInOrder
<1> SUFFICES ASSUME ConnInv PROVE DownThenDestroyedOnce /\ ConnectionAssertionsHold /\ StreamInOrder
  BY Zenon
<1> USE DEF ConnInv
<1>0. state_ \in States /\ use.serverDtor \in BOOLEAN /\ use.sameLoop \in BOOLEAN
  BY ConnectionAssumption, Zenon DEF Typed, TypeOK
<1>1. DownThenDestroyedOnce
  BY <1>0 DEF Life, Unborn, BeingRemoved, BeingDestroyed, WasDestroyed, DownThenDestroyedOnce, States, Up
<1>2. ClosesUpConnection
  BY Zenon DEF Pending, ClosesUpConnection
<1>3. RemovesIdleChannel
  <2>1. ASSUME ioQueue # <<>>, Head(ioQueue) = "destroyed", state_ # "kConnected" PROVE chan = {}
    <3>1. ~Lacks(ioQueue, "destroyed")
      BY <2>1, QueueFacts, Zenon DEF Typed
    <3>2. CASE state_ = "kConnecting"
      BY <3>2, Zenon DEF Life, Unborn
    <3>3. CASE state_ # "kConnecting"
      BY <3>1, <1>0, Zenon DEF Life, Unborn, Interest, States, Up
    <3> QED BY <3>2, <3>3, Zenon
  <2>2. ASSUME use.serverDtor, use.sameLoop, serverAlive, inMap, revents = {}, state_ # "kConnected"
        PROVE  chan = {}
    <3>1. state_ # "kDisconnecting"
      BY <2>2, Zenon DEF Life, Typed, SafeProgram, Ended, Forced
    <3> QED BY <3>1, <2>2, <1>0, Zenon DEF Life, Unborn, Interest, States
  <2> QED BY <2>1, <2>2, Zenon DEF RemovesIdleChannel
<1>4. DestructedWhenDown
  <2> SUFFICES ASSUME state_ # "none", ~Referenced
               PROVE  state_ = "kDisconnected" /\ removed /\ chan = {} /\ ~polled
    BY Zenon DEF DestructedWhenDown
  <2>1. ~inMap /\ ioQueue = <<>>
    BY Zenon DEF Referenced
  <2>2. state_ = "kDisconnected"
    BY <2>1, <1>0, Zenon DEF Life, Unborn, States, Up
  <2> QED BY <2>1, <2>2, QueueFacts, Zenon DEF Life, Interest, BeingRemoved, BeingDestroyed, WasDestroyed
<1>5. StreamInOrder
  <2> DEFINE stream == wire \o outputBuffer_
  <2>1. wire \in Seq(Nat) /\ outputBuffer_ \in Seq(Nat)
    BY Zenon DEF Typed, TypeOK
  <2>2. stream \in Seq(Nat) /\ Len(stream) = Len(wire) + Len(outputBuffer_) /\ DOMAIN stream = 1 .. Len(stream)
    BY <2>1
  <2>3. \A i \in 1 .. Len(stream) : stream[i] = i
    <3> SUFFICES ASSUME NEW i \in 1 .. Len(stream) PROVE stream[i] = i
      BY Zenon
    <3>1. CASE i <= Len(wire)
      BY <3>1, <2>1, <2>2 DEF Stream
    <3>2. CASE i > Len(wire)
      <4>1. stream[i] = outputBuffer_[i - Len(wire)] /\ i - Len(wire) \in 1 .. Len(outputBuffer_)
        BY <3>2, <2>1, <2>2
      <4> QED BY <4>1, <2>1, <2>2 DEF Stream
    <3> QED BY <3>1, <3>2, <2>1, <2>2
  <2> HIDE DEF stream
  <2>4. stream = [i \in 1 .. Len(stream) |-> i]
    BY <2>2, <2>3
  <2>5. ~lost => Len(stream) = accepted
    BY <2>2, Zenon DEF Stream
  <2>6. wrShut /\ state_ \in Up => outputBuffer_ = <<>>
    BY Zenon DEF Stream
  <2> QED BY <2>4, <2>5, <2>6, Zenon DEF StreamInOrder, stream
<1> QED BY <1>1, <1>2, <1>3, <1>4, <1>5, Zenon DEF ConnectionAssertionsHold, Typed

\* A connection that does not exist yet satisfies the invariant.
LEMMA InitInv == ASSUME \A u \in Uses : SafeProgram(u), Init PROVE ConnInv
<1>1. SafeProgram(use) /\ use \in Uses
  BY Zenon DEF Init
<1>2. Typed
  <2>1. Len(ioQueue) = 0 /\ batch = 0 /\ Lacks(ioQueue, "forceClose") /\ ~delayed
    BY QueueFacts, Zenon DEF Init
  <2>0. MaxSends \in Nat
    BY ConnectionAssumption, Zenon
  <2>2. TypeOK
    <3>1. outputBuffer_ \in Seq(Nat) /\ wire \in Seq(Nat) /\ ioQueue \in Seq(Functors) /\ baseQueue \in Seq({"remove"})
      BY DEF Init
    <3>2. batch \in 0 .. Len(ioQueue) /\ sends \in 0 .. MaxSends
      BY <2>0, <2>1 DEF Init
    <3> QED BY <1>1, <3>1, <3>2, Zenon DEF Init, TypeOK, States
  <2> QED BY <1>1, <2>1, <2>2 DEF Init, Typed
<1>3. Life /\ Pending /\ Interest /\ Stream
  BY DEF Init, Life, Unborn, Pending, Interest, Stream, Up, isWriting
<1> QED BY <1>2, <1>3, Zenon DEF ConnInv

------------------------------------------------------------------------------
(* Every step keeps the invariant. *)

\* What a safe program's state is made of.
LEMMA TypeFacts ==
  ASSUME Typed
  PROVE  /\ use \in Uses /\ use.sameLoop \in BOOLEAN /\ use.serverDtor \in BOOLEAN
         /\ use.loopCalls \in SUBSET Ops /\ use.remoteCalls \subseteq {"send"}
         /\ state_ \in States /\ reading_ \in BOOLEAN /\ chan \in SUBSET {"read", "write"}
         /\ polled \in BOOLEAN /\ removed \in BOOLEAN /\ lost \in BOOLEAN /\ wrShut \in BOOLEAN
         /\ outputBuffer_ \in Seq(Nat) /\ wire \in Seq(Nat) /\ accepted \in Nat
         /\ incoming \in BOOLEAN /\ delayed \in BOOLEAN /\ inMap \in BOOLEAN /\ serverAlive \in BOOLEAN
         /\ ioQueue \in Seq(SafeFunctors) /\ baseQueue \in Seq({"remove"})
         /\ remote \in {"idle", "send"} /\ sends \in Nat /\ batch \in Nat /\ batch <= Len(ioQueue)
         /\ MaxSends \in Nat /\ MsgLen \in Nat \ {0} /\ HighWaterMark \in Nat
<1>1. use \in [sameLoop : BOOLEAN, loopCalls : SUBSET Ops, serverDtor : BOOLEAN,
               remoteCalls : SUBSET (Ops \ {"forceCloseWithDelay"})]
  BY ConnectionAssumption, Zenon DEF Typed, TypeOK
<1>2. MaxSends \in Nat /\ MsgLen \in Nat \ {0} /\ HighWaterMark \in Nat
  BY ConnectionAssumption, Zenon
<1>3. use.remoteCalls \subseteq {"send"}
  BY Zenon DEF Typed, SafeProgram
<1> QED BY <1>1, <1>2, <1>3 DEF Typed, TypeOK

\* The queue is typed and the rest of Typed follows: what a step has to show.
LEMMA TypedNext ==
  ASSUME Typed, use' = use,
         state_' \in States, reading_' \in BOOLEAN, chan' \subseteq {"read", "write"},
         polled' \in BOOLEAN, removed' \in BOOLEAN, lost' \in BOOLEAN, wrShut' \in BOOLEAN,
         outputBuffer_' \in Seq(Nat), wire' \in Seq(Nat), accepted' \in Nat,
         downs' \in Nat, destroys' \in Nat,
         peer' \in {"open", "fin", "rst", "dead"}, incoming' \in BOOLEAN,
         revents' \subseteq {"HUP", "ERR", "IN", "OUT"}, phase' \in {"poll", "handle", "functors"},
         ioQueue' \in Seq(SafeFunctors), batch' \in 0 .. Len(ioQueue'), baseQueue' \in Seq({"remove"}),
         remote' \in use.remoteCalls \cup {"idle"}, delayed' \in BOOLEAN, sends' \in 0 .. MaxSends,
         inMap' \in BOOLEAN, serverAlive' \in BOOLEAN,
         Forced \cap use.loopCalls = {} => ~delayed' /\ Lacks(ioQueue', "forceClose")
  PROVE  Typed'
<1>1. ioQueue' \in Seq(Functors)
  <2>1. SafeFunctors \subseteq Functors
    BY Zenon DEF SafeFunctors, Functors
  <2> QED BY <2>1
<1>3. TypeOK'
  BY <1>1, Zenon DEF Typed, TypeOK
<1> QED BY <1>3, Zenon DEF Typed

\* newConnection() (TcpServer.cc:78-110).
LEMMA NewConnectionInv == ASSUME ConnInv, newConnection, use' = use PROVE ConnInv'
<1> USE DEF ConnInv
<1>1. state_ = "none" /\ ioQueue = <<>> /\ Unborn
  <2>1. state_ = "none" /\ Unborn
    BY Zenon DEF newConnection, Life
  <2> QED BY <2>1, Zenon DEF Unborn
<1>2. batch = 0 /\ "HUP" \notin revents /\ "IN" \notin revents
  <2>1. batch \in Nat /\ batch <= Len(ioQueue) /\ Len(ioQueue) = 0
    BY <1>1, TypeFacts, Zenon
  <2> QED BY <1>1, <2>1 DEF Pending, Up
<1>3. CASE use.sameLoop
  <2>1. /\ state_' = "kConnected" /\ chan' = {"read"} /\ polled' = TRUE /\ ioQueue' = ioQueue /\ inMap' = TRUE
        /\ UNCHANGED <<reading_, removed, outVars, wrShut, netVars, loopVars, baseQueue, remote, delayed, sends,
                       serverAlive, historyVars>>
    BY <1>3, <1>1, TypeFacts, Zenon DEF newConnection, SetChannel, Unborn
  <2> HIDE DEF newConnection
  <2>2. Typed'
    BY <2>1 DEF Typed, TypeOK, States, outVars, netVars, loopVars, historyVars
  <2>3. Life'
    BY <2>1, <1>1, QueueFacts, Zenon DEF Life, Unborn, historyVars
  <2>4. Pending' /\ Interest' /\ Stream'
    BY <2>1, <1>1, Zenon DEF Pending, Interest, Stream, Unborn, Up, isWriting, outVars, loopVars
  <2> QED BY <2>2, <2>3, <2>4, Zenon
<1>4. CASE ~use.sameLoop
  <2>1. /\ state_' = "kConnecting" /\ ioQueue' = <<"established">> /\ inMap' = TRUE
        /\ UNCHANGED <<reading_, chan, polled, removed, outVars, wrShut, netVars, loopVars, baseQueue, remote,
                       delayed, sends, serverAlive, historyVars>>
    BY <1>4, <1>1 DEF newConnection, chanVars
  <2> HIDE DEF newConnection
  <2>2. Typed'
    <3>1. ioQueue' \in Seq(SafeFunctors) /\ Len(ioQueue') = 1 /\ Lacks(ioQueue', "forceClose")
      BY <2>1 DEF SafeFunctors, Lacks
    <3> QED BY <3>1, <2>1, <1>2, TypedNext DEF Typed, TypeOK, States, outVars, netVars, loopVars, historyVars
  <2>3. Life'
    BY <2>1, <1>1, <1>4, Zenon DEF Life, Unborn, Up, outVars, historyVars
  <2>4. Pending' /\ Interest' /\ Stream'
    BY <2>1, <1>2, Zenon DEF Pending, Interest, Stream, Up, isWriting, outVars, loopVars, netVars
  <2> QED BY <2>2, <2>3, <2>4, Zenon
<1> QED BY <1>3, <1>4, Zenon

\* removeConnectionInLoop() in a base loop that is not the connection's (TcpServer.cc:119-131).
LEMMA RemoveConnectionInv == ASSUME ConnInv, removeConnectionInLoop, use' = use PROVE ConnInv'
<1> USE DEF ConnInv
<1>1. /\ baseQueue # <<>> /\ baseQueue' = Tail(baseQueue) /\ inMap' = FALSE
      /\ ioQueue' = Append(ioQueue, "destroyed")
      /\ UNCHANGED <<state_, reading_, chan, polled, removed, outVars, wrShut, netVars, loopVars, remote, delayed,
                     sends, serverAlive, historyVars>>
  BY Zenon DEF removeConnectionInLoop, Erased, chanVars
<1>2. state_ = "kDisconnected" /\ BeingRemoved /\ downs = 1 /\ Lacks(ioQueue, "established")
  BY <1>1, TypeFacts, Zenon DEF Life, Unborn, BeingDestroyed, WasDestroyed, States, Up
<1>3. baseQueue' = <<>> /\ ~use.sameLoop /\ Lacks(ioQueue, "destroyed") /\ destroys = 0 /\ ~removed
  BY <1>1, <1>2 DEF BeingRemoved
<1>4. /\ ioQueue' \in Seq(SafeFunctors) /\ Len(ioQueue') = Len(ioQueue) + 1 /\ Lacks(ioQueue', "established")
      /\ HasOne(ioQueue', "destroyed")
      /\ Lacks(ioQueue, "forceClose") => Lacks(ioQueue', "forceClose")
  BY <1>1, <1>2, <1>3, AppendFacts, TypeFacts, Zenon DEF SafeFunctors
<1>5. Typed'
  <2>5. inMap' \in BOOLEAN
    BY <1>1, Zenon
  <2> QED BY <2>5, <1>1, <1>4, TypedNext DEF Typed, TypeOK, outVars, netVars, loopVars, historyVars
<1>6. Life'
  BY <1>1, <1>2, <1>3, <1>4, Zenon DEF Life, BeingDestroyed, historyVars
<1>7. ~polled
  BY <1>2, <1>3, Zenon DEF Interest, Typed, SafeProgram
<1>8. Pending' /\ Interest' /\ Stream'
  BY <1>1, <1>7, Zenon DEF Pending, Interest, Stream, isWriting, outVars, loopVars, netVars
<1> QED BY <1>5, <1>6, <1>8, Zenon

\* ~TcpServer() in the connection's own loop (TcpServer.cc:40-55).
LEMMA DestructServerInv == ASSUME ConnInv, DestructServer, use' = use PROVE ConnInv'
<1> USE DEF ConnInv
<1>1. use.sameLoop /\ Ended \cap use.loopCalls = {} /\ revents = {} /\ serverAlive' = FALSE /\ UNCHANGED loopVars
  BY Zenon DEF DestructServer, Typed, SafeProgram, Ended, Forced
<1>2. CASE ~inMap
  <2>1. UNCHANGED <<state_, reading_, chan, polled, removed, outVars, wrShut, netVars, ioQueue, baseQueue, remote,
                    delayed, sends, inMap, historyVars>>
    BY <1>2, Zenon DEF DestructServer, chanVars
  <2>2. Typed'
    <3>4. serverAlive' \in BOOLEAN
      BY <1>1, Zenon
    <3> QED BY <1>1, <2>1, <3>4 DEF Typed, TypeOK, outVars, netVars, loopVars, historyVars
  <2>3. Life'
    BY <2>1, Zenon DEF Life, Unborn, BeingRemoved, BeingDestroyed, WasDestroyed, historyVars, outVars
  <2>4. Pending' /\ Interest' /\ Stream'
    BY <1>1, <2>1, Zenon DEF Pending, Interest, Stream, isWriting, outVars, loopVars, netVars
  <2> QED BY <2>2, <2>3, <2>4, Zenon
<1>3. CASE inMap
  <2>1. state_ = "kConnected"
    BY <1>1, <1>3, TypeFacts, Zenon DEF Life, Unborn, BeingRemoved, BeingDestroyed, WasDestroyed, States
  <2>2. /\ state_' = "kDisconnected" /\ chan' = {} /\ downs' = downs + 1 /\ polled' = FALSE /\ removed' = TRUE
        /\ destroys' = destroys + 1 /\ ioQueue' = ioQueue /\ inMap' = FALSE
        /\ UNCHANGED <<reading_, outVars, wrShut, netVars, baseQueue, remote, delayed, sends>>
    BY <1>1, <1>3, <2>1, Zenon DEF DestructServer, Destroy
  <2>3. Lacks(ioQueue, "established") /\ Lacks(ioQueue, "destroyed") /\ baseQueue = <<>> /\ downs = 0 /\ destroys = 0
    BY <2>1, Zenon DEF Life, Up
  <2>4. Typed'
    <3>4. serverAlive' \in BOOLEAN /\ inMap' \in BOOLEAN /\ polled' \in BOOLEAN /\ removed' \in BOOLEAN
      BY <1>1, <2>2, Zenon
    <3> QED BY <1>1, <2>2, <3>4 DEF Typed, TypeOK, States, outVars, netVars, loopVars
  <2>5. Life'
    BY <2>2, <2>3 DEF Life, WasDestroyed, Up
  <2>6. Pending' /\ Interest' /\ Stream'
    BY <1>1, <2>2, Zenon DEF Pending, Interest, Stream, Up, isWriting, outVars, loopVars, netVars
  <2> QED BY <2>4, <2>5, <2>6, Zenon
<1> QED BY <1>2, <1>3, Zenon

\* EventLoop::loop() polls (EventLoop.cc:125-135).
LEMMA PollInv == ASSUME ConnInv, poll, use' = use PROVE ConnInv'
<1> USE DEF ConnInv
<1>1. /\ phase = "poll" /\ phase' = "handle"
      /\ UNCHANGED <<batch, state_, reading_, chan, polled, removed, outVars, wrShut, netVars, ioQueue, baseQueue,
                     remote, delayed, sends, serverVars, historyVars>>
  BY Zenon DEF poll, chanVars
<1>2. PICK out \in SUBSET (IF isWriting THEN {"OUT"} ELSE {}) : revents' = IF polled THEN Ready \cup out ELSE {}
  BY Zenon DEF poll
<1>3. out \subseteq {"OUT"} /\ Ready \subseteq {"HUP", "ERR", "IN"}
  BY <1>2, Zenon DEF Ready
<1>4. polled => state_ \in Up
  BY <1>1, TypeFacts, Zenon DEF Interest, Life, Unborn, States, Up
<1>5. Typed'
  BY <1>1, <1>2, <1>3 DEF Typed, TypeOK, outVars, netVars, historyVars, serverVars
<1>6. Life'
  BY <1>1, Zenon DEF Life, Unborn, BeingRemoved, BeingDestroyed, WasDestroyed, historyVars, outVars, serverVars
<1>7. Pending'
  BY <1>1, <1>2, <1>4, Zenon DEF Pending
<1>8. Interest' /\ Stream'
  BY <1>1, Zenon DEF Interest, Stream, isWriting, outVars, netVars
<1> QED BY <1>5, <1>6, <1>7, <1>8, Zenon

\* doPendingFunctors() swaps the queue, and ends with the last functor of it (EventLoop.cc:278-295).
LEMMA FunctorsInv == ASSUME ConnInv, SwapFunctors \/ EndFunctors, use' = use PROVE ConnInv'
<1> USE DEF ConnInv
<1>1. UNCHANGED <<revents, state_, reading_, chan, polled, removed, outVars, wrShut, netVars, ioQueue, baseQueue,
                  remote, delayed, sends, serverVars, historyVars>>
  BY Zenon DEF SwapFunctors, EndFunctors, chanVars
<1>2. revents = {} /\ phase' \in {"poll", "functors"} /\ batch' \in 0 .. Len(ioQueue) /\ (phase' # "functors" => batch' = 0)
  BY TypeFacts DEF SwapFunctors, EndFunctors, Pending
<1>3. Typed'
  BY <1>1, <1>2 DEF Typed, TypeOK, outVars, netVars, historyVars, serverVars
<1>4. Life'
  BY <1>1, Zenon DEF Life, Unborn, BeingRemoved, BeingDestroyed, WasDestroyed, historyVars, outVars, serverVars
<1>5. Pending'
  BY <1>1, <1>2, Zenon DEF Pending
<1>6. ASSUME state_ = "kDisconnected", polled
      PROVE  "stopRead" \in use.loopCalls /\ phase' = "functors" /\ Before(ioQueue, "destroyed", batch')
  <2>1. "stopRead" \in use.loopCalls /\ use.sameLoop
    BY <1>6, Zenon DEF Interest, Typed, SafeProgram
  <2>2. HasOne(ioQueue, "destroyed")
    BY <1>6, <2>1, Zenon DEF Life, BeingRemoved, BeingDestroyed, WasDestroyed
  <2>3. CASE SwapFunctors
    BY <2>1, <2>2, <2>3, QueueFacts, Zenon DEF SwapFunctors
  <2>4. CASE EndFunctors
    BY <2>4, <1>6, QueueFacts, Zenon DEF EndFunctors, Interest
  <2> QED BY <2>3, <2>4, Zenon
<1>7. Interest' /\ Stream'
  BY <1>1, <1>6, Zenon DEF Interest, Stream, isWriting, outVars, netVars
<1> QED BY <1>3, <1>4, <1>5, <1>7, Zenon

\* handleClose() of a connection that is up, with q the functors queued before (TcpConnection.cc:431-444).
LEMMA CloseInv ==
  ASSUME ConnInv, use' = use, NEW q \in Seq(SafeFunctors), handleClose(q), state_ \in Up,
         Lacks(q, "established"), Lacks(q, "destroyed"),
         Lacks(ioQueue, "forceClose") => Lacks(q, "forceClose"),
         phase' = phase, revents' \subseteq {"ERR", "OUT"}, phase # "handle" => revents' = {},
         batch' \in 0 .. Len(q), phase # "functors" => batch' = 0,
         "stopRead" \in use.loopCalls => phase = "handle"
  PROVE  ConnInv'
<1> USE DEF ConnInv
<1>1. /\ state_' = "kDisconnected" /\ chan' = {} /\ polled' = ~polled /\ downs' = downs + 1
      /\ UNCHANGED <<reading_, removed, outVars, wrShut, netVars, remote, delayed, sends, serverAlive, destroys>>
  BY Zenon DEF handleClose, ClosedChannel, SetChannel, NotifyClosed
<1>2. inMap /\ baseQueue = <<>> /\ downs = 0 /\ destroys = 0 /\ ~removed
  BY Zenon DEF Life
<1>3. polled' => "stopRead" \in use.loopCalls
  BY <1>1, Zenon DEF Interest
<1>4. CASE use.sameLoop
  <2>1. inMap' = FALSE /\ ioQueue' = Append(q, "destroyed") /\ baseQueue' = baseQueue
    BY <1>4, Zenon DEF handleClose, NotifyClosed, Erased
  <2>2. /\ ioQueue' \in Seq(SafeFunctors) /\ Len(ioQueue') = Len(q) + 1 /\ Lacks(ioQueue', "established")
        /\ HasOne(ioQueue', "destroyed") /\ (Lacks(ioQueue, "forceClose") => Lacks(ioQueue', "forceClose"))
    BY <2>1, AppendFacts, Zenon DEF SafeFunctors
  <2>3. Typed'
    <3>1. batch' \in 0 .. Len(ioQueue')
      BY <2>2
    <3>4. inMap' \in BOOLEAN /\ polled' \in BOOLEAN
      BY <1>1, <2>1, Zenon
    <3> QED BY <1>1, <2>1, <2>2, <3>1, <3>4, TypedNext DEF Typed, TypeOK, States, outVars, netVars
  <2>4. Life'
    BY <1>1, <2>1, <2>2 DEF Life, BeingDestroyed, Up
  <2>5. Pending'
    BY <1>1, Zenon DEF Pending, Up
  <2>6. Interest' /\ Stream'
    BY <1>1, <1>3, Zenon DEF Interest, Stream, Up, isWriting, outVars, netVars
  <2> QED BY <2>3, <2>4, <2>5, <2>6, Zenon
<1>5. CASE ~use.sameLoop
  <2>1. inMap' = inMap /\ ioQueue' = q /\ baseQueue' = <<"remove">>
    BY <1>2, <1>5 DEF handleClose, NotifyClosed
  <2>2. ~polled'
    BY <1>3, <1>5, Zenon DEF Typed, SafeProgram
  <2>3. Typed'
    <3> QED BY <1>1, <2>1, TypedNext DEF Typed, TypeOK, States, outVars, netVars
  <2>4. Life'
    BY <1>1, <1>5, <2>1 DEF Life, BeingRemoved, Up
  <2>5. Pending'
    BY <1>1, Zenon DEF Pending, Up
  <2>6. Interest' /\ Stream'
    BY <1>1, <2>2, Zenon DEF Interest, Stream, Up, isWriting, outVars, netVars
  <2> QED BY <2>3, <2>4, <2>5, <2>6, Zenon
<1> QED BY <1>4, <1>5, Zenon

\* A step that changes only what is left to handle, what the peer has done, and which call of the
\* user is under way.
LEMMA QuietInv ==
  ASSUME ConnInv, use' = use,
         UNCHANGED <<state_, reading_, chan, polled, removed, outVars, wrShut, phase, batch, ioQueue, baseQueue,
                     delayed, serverVars, historyVars>>,
         revents' \subseteq revents, remote' \in use.remoteCalls \cup {"idle"}, sends' \in 0 .. MaxSends,
         state_ \in {"none", "kConnecting"} => remote' = "idle",
         peer' \in {"open", "fin", "rst", "dead"}, incoming' \in BOOLEAN,
         peer \in {"rst", "dead"} => peer' \in {"rst", "dead"}
  PROVE  ConnInv'
<1> USE DEF ConnInv
<1>1. Typed'
  BY DEF Typed, TypeOK, outVars, serverVars, historyVars
<1>2. Life'
  BY Zenon DEF Life, Unborn, BeingRemoved, BeingDestroyed, WasDestroyed, historyVars, outVars, serverVars
<1>3. Pending'
  BY Zenon DEF Pending
<1>4. Interest'
  BY Zenon DEF Interest, isWriting, outVars
<1>5. Stream'
  BY Zenon DEF Stream, isWriting, outVars
<1> QED BY <1>1, <1>2, <1>3, <1>4, <1>5, Zenon

\* The queue of a connection that is up holds calls and callbacks only.
LEMMA UpQueue ==
  ASSUME ConnInv, state_ \in Up
  PROVE  Lacks(ioQueue, "established") /\ Lacks(ioQueue, "destroyed")
BY Zenon DEF ConnInv, Life, Up

\* The part of handleEventWithGuard() for EPOLLHUP (Channel.cc:96-101).
LEMMA HupInv == ASSUME ConnInv, HandleHup, use' = use PROVE ConnInv'
<1>1. "HUP" \in revents /\ revents' = revents \ {"HUP"} /\ UNCHANGED <<phase, batch>>
  BY Zenon DEF HandleHup
<1>2. /\ state_ \in Up /\ phase = "handle" /\ batch = 0 /\ revents \subseteq {"HUP", "ERR", "IN", "OUT"}
      /\ ioQueue \in Seq(SafeFunctors)
  BY <1>1, Zenon DEF ConnInv, Pending, Typed, TypeOK
<1>3. CASE "IN" \notin revents
  <2>1. handleClose(ioQueue)
    BY <1>3, Zenon DEF HandleHup
  <2>2. revents' \subseteq {"ERR", "OUT"} /\ batch' = 0 /\ 0 \in 0 .. Len(ioQueue)
    BY <1>1, <1>2, <1>3
  <2> QED BY <1>1, <1>2, <2>1, <2>2, CloseInv, UpQueue, Zenon
<1>4. CASE "IN" \in revents
  <2>1. UNCHANGED <<state_, reading_, chan, polled, removed, outVars, wrShut, peer, incoming, ioQueue,
                    baseQueue, remote, delayed, sends, serverVars, historyVars>>
    BY <1>4, Zenon DEF HandleHup, chanVars, netVars
  <2>2. /\ remote' \in use.remoteCalls \cup {"idle"} /\ sends' \in 0 .. MaxSends
        /\ peer' \in {"open", "fin", "rst", "dead"} /\ incoming' \in BOOLEAN
        /\ (state_ \in {"none", "kConnecting"} => remote' = "idle")
    BY <2>1, Zenon DEF ConnInv, Typed, TypeOK, Life, Unborn
  <2> QED BY <1>1, <2>1, <2>2, QuietInv, Zenon
<1> QED BY <1>3, <1>4, Zenon

\* The part of handleEventWithGuard() for errors, which handleError() only logs (Channel.cc:108-111).
LEMMA ErrInv == ASSUME ConnInv, HandleErr, use' = use PROVE ConnInv'
<1>1. /\ revents' = revents \ {"ERR"}
      /\ UNCHANGED <<phase, batch, state_, reading_, chan, polled, removed, outVars, wrShut, peer, incoming, ioQueue,
                     baseQueue, remote, delayed, sends, serverVars, historyVars>>
  BY Zenon DEF HandleErr, chanVars, netVars
<1>2. /\ remote' \in use.remoteCalls \cup {"idle"} /\ sends' \in 0 .. MaxSends
      /\ peer' \in {"open", "fin", "rst", "dead"} /\ incoming' \in BOOLEAN
      /\ (state_ \in {"none", "kConnecting"} => remote' = "idle")
  BY <1>1, Zenon DEF ConnInv, Typed, TypeOK, Life, Unborn
<1> QED BY <1>1, <1>2, QuietInv, Zenon

\* handleRead() (TcpConnection.cc:370-389).
LEMMA ReadInv == ASSUME ConnInv, handleRead, use' = use PROVE ConnInv'
<1>1. "IN" \in revents /\ revents \cap {"HUP", "ERR"} = {} /\ revents' = revents \ {"IN"} /\ UNCHANGED <<phase, batch>>
  BY Zenon DEF handleRead
<1>2. /\ state_ \in Up /\ phase = "handle" /\ batch = 0 /\ revents \subseteq {"HUP", "ERR", "IN", "OUT"}
      /\ ioQueue \in Seq(SafeFunctors)
  BY <1>1, Zenon DEF ConnInv, Pending, Typed, TypeOK
<1>3. CASE ~incoming /\ peer \in {"fin", "dead"}
  <2>1. handleClose(ioQueue)
    BY <1>3, Zenon DEF handleRead
  <2> QED BY <1>1, <1>2, <2>1, CloseInv, UpQueue
<1>4. CASE ~(~incoming /\ peer \in {"fin", "dead"})
  <2>1. /\ incoming' = FALSE /\ peer' = IF ~incoming /\ peer = "rst" THEN "dead" ELSE peer
        /\ UNCHANGED <<state_, reading_, chan, polled, removed, outVars, wrShut, ioQueue,
                       baseQueue, remote, delayed, sends, serverVars, historyVars>>
    BY <1>4, Zenon DEF handleRead, chanVars
  <2>2. incoming' \in BOOLEAN
    BY <2>1, Zenon
  <2>3. /\ remote' \in use.remoteCalls \cup {"idle"} /\ sends' \in 0 .. MaxSends
        /\ peer' \in {"open", "fin", "rst", "dead"} /\ (peer \in {"rst", "dead"} => peer' \in {"rst", "dead"})
        /\ (state_ \in {"none", "kConnecting"} => remote' = "idle")
    BY <2>1, Zenon DEF ConnInv, Typed, TypeOK, Life, Unborn
  <2> QED BY <1>1, <2>1, <2>2, <2>3, QuietInv, Zenon
<1> QED BY <1>3, <1>4, Zenon

\* The peer sends, ends its stream or resets it.
LEMMA PeerInv == ASSUME ConnInv, PeerStep, use' = use PROVE ConnInv'
<1>1. /\ peer = "open" /\ peer' \in {"open", "fin", "rst"}
      /\ UNCHANGED <<state_, reading_, chan, polled, removed, outVars, wrShut, revents, phase, batch, ioQueue,
                     baseQueue, remote, delayed, sends, serverVars, historyVars>>
  BY Zenon DEF PeerStep, chanVars, loopVars
<1>2. incoming \in BOOLEAN /\ (incoming' = TRUE \/ incoming' = incoming)
  BY Zenon DEF PeerStep, ConnInv, Typed, TypeOK
<1>3. incoming' \in BOOLEAN
  BY <1>2, Zenon
<1>4. /\ remote' \in use.remoteCalls \cup {"idle"} /\ sends' \in 0 .. MaxSends
      /\ peer' \in {"open", "fin", "rst", "dead"} /\ (state_ \in {"none", "kConnecting"} => remote' = "idle")
  BY <1>1, Zenon DEF ConnInv, Typed, TypeOK, Life, Unborn
<1> QED BY <1>1, <1>3, <1>4, QuietInv, Zenon

\* Another thread's send() finds the connection up (TcpConnection.cc:100-122).
LEMMA RemoteTestInv == ASSUME ConnInv, NEW op \in Ops, RemoteTest(op), use' = use PROVE ConnInv'
<1>1. /\ op \in use.remoteCalls /\ Allowed(op) /\ Bounded(op) /\ remote' = op /\ Counted(op)
      /\ UNCHANGED <<state_, reading_, chan, polled, removed, outVars, wrShut, peer, incoming, revents, phase, batch,
                     ioQueue, baseQueue, delayed, serverVars, historyVars>>
  BY Zenon DEF RemoteTest, chanVars, netVars, loopVars
<1>2. op = "send"
  BY <1>1, TypeFacts, Zenon DEF ConnInv
<1>3. state_ = "kConnected"
  BY <1>1, <1>2, Zenon DEF Allowed
<1>4. sends' \in 0 .. MaxSends
  BY <1>1, <1>2, TypeFacts DEF Counted, Bounded, ConnInv
<1>5. peer' \in {"open", "fin", "rst", "dead"} /\ incoming' \in BOOLEAN
  BY <1>1, Zenon DEF ConnInv, Typed, TypeOK
<1> QED BY <1>1, <1>3, <1>4, <1>5, QuietInv, Zenon

\* Queue q, with b functors left in the batch, is as good as ioQueue with batch.
Keeps(q, b) ==
  /\ q \in Seq(SafeFunctors) /\ b \in 0 .. Len(q)
  /\ \A f \in {"established", "destroyed", "forceClose"} : Lacks(ioQueue, f) => Lacks(q, f)
  /\ HasOne(ioQueue, "destroyed") => HasOne(q, "destroyed")
  /\ Before(ioQueue, "destroyed", batch) => Before(q, "destroyed", b)
  /\ phase # "functors" => b = 0

\* Functors other than those that begin or end the connection come and go (EventLoop.cc:177, 289).
LEMMA KeepsFacts ==
  ASSUME ConnInv
  PROVE  /\ Keeps(ioQueue, batch)
         /\ \A q, b : Keeps(q, b) => Keeps(Append(q, "callback"), b) /\ Keeps(Append(q, "send"), b)
         /\ batch > 0 /\ Head(ioQueue) \in {"forceClose", "send", "callback"} => Keeps(Tail(ioQueue), batch - 1)
<1>1. ioQueue \in Seq(SafeFunctors) /\ batch \in Nat /\ batch <= Len(ioQueue) /\ (phase # "functors" => batch = 0)
  BY TypeFacts, Zenon DEF ConnInv, Pending
<1>2. Keeps(ioQueue, batch)
  BY <1>1 DEF Keeps
<1>3. ASSUME NEW q, NEW b, Keeps(q, b), NEW g \in {"callback", "send"}
      PROVE  Keeps(Append(q, g), b)
  <2>1. q \in Seq(SafeFunctors) /\ g \in SafeFunctors /\ b \in 0 .. Len(q)
    BY <1>3, Zenon DEF Keeps, SafeFunctors
  <2> DEFINE r == Append(q, g)
  <2>2. /\ r \in Seq(SafeFunctors) /\ Len(r) = Len(q) + 1
        /\ \A f \in {"established", "destroyed", "forceClose"} : Lacks(q, f) => Lacks(r, f)
        /\ HasOne(q, "destroyed") => HasOne(r, "destroyed")
        /\ Before(q, "destroyed", b) => Before(r, "destroyed", b)
    BY <2>1, AppendFacts, Zenon
  <2> HIDE DEF r
  <2> QED BY <1>3, <2>2 DEF Keeps, r
<1>4. ASSUME batch > 0, Head(ioQueue) \in {"forceClose", "send", "callback"}
      PROVE  Keeps(Tail(ioQueue), batch - 1)
  <2> DEFINE r == Tail(ioQueue)
  <2>1. ioQueue # <<>> /\ batch \in 1 .. Len(ioQueue)
    BY <1>1, <1>4
  <2>2. /\ r \in Seq(SafeFunctors) /\ Len(r) = Len(ioQueue) - 1
        /\ \A f \in {"established", "destroyed", "forceClose"} : Lacks(ioQueue, f) => Lacks(r, f)
        /\ HasOne(ioQueue, "destroyed") => HasOne(r, "destroyed")
        /\ Before(ioQueue, "destroyed", batch) => Before(r, "destroyed", batch - 1)
    BY <1>1, <1>4, TailFacts
  <2>3. batch - 1 \in 0 .. Len(r) /\ phase = "functors"
    BY <1>1, <2>1
  <2> HIDE DEF r
  <2> QED BY <2>2, <2>3, Zenon DEF Keeps, r
<1> QED BY <1>2, <1>3, <1>4, Zenon

\* A step that moves the queue on, and may ask for the connection's end.
LEMMA QueueInv ==
  ASSUME ConnInv, use' = use, NEW q, NEW b, Keeps(q, b), ioQueue' = q, batch' = b,
         state_ \notin {"none", "kConnecting"},
         state_' = state_ \/ (state_ \in Up /\ state_' = "kDisconnecting" /\ Ended \cap use.loopCalls # {}),
         UNCHANGED <<reading_, chan, polled, removed, outVars, wrShut, netVars, revents, phase, baseQueue,
                     serverVars, historyVars>>,
         sends' \in 0 .. MaxSends, remote' \in use.remoteCalls \cup {"idle"}, delayed' \in BOOLEAN,
         delayed' => delayed \/ Forced \cap use.loopCalls # {}
  PROVE  ConnInv'
<1> USE DEF ConnInv
<1>1. Typed'
  <2>1. ioQueue' \in Seq(SafeFunctors) /\ batch' \in 0 .. Len(ioQueue')
    BY Zenon DEF Keeps
  <2>2. Forced \cap use.loopCalls = {} => ~delayed' /\ Lacks(ioQueue', "forceClose")
    BY Zenon DEF Keeps, Typed
  <2>3. state_' \in States
    BY TypeFacts, Zenon DEF States
  <2> QED BY <2>1, <2>2, <2>3, TypedNext DEF Typed, TypeOK, outVars, netVars, serverVars, historyVars
<1>2. state_ \in Up <=> state_' \in Up
  BY Zenon DEF Up
<1>3. Life'
  BY Zenon DEF Life, Keeps, BeingRemoved, BeingDestroyed, WasDestroyed, historyVars, serverVars
<1>4. Pending'
  BY <1>2, Zenon DEF Pending, Keeps
<1>5. Interest'
  BY Zenon DEF Interest, Keeps, isWriting, outVars
<1>6. Stream'
  BY Zenon DEF Stream, isWriting, outVars, netVars
<1> QED BY <1>1, <1>3, <1>4, <1>5, <1>6, Zenon

\* forceClose() queues forceCloseInLoop() (TcpConnection.cc:262-270), directly or by a timer.
LEMMA ForceCloseInv ==
  ASSUME ConnInv, use' = use, ioQueue' = Append(ioQueue, "forceClose"), Forced \cap use.loopCalls # {},
         state_ \in Up, state_' = "kDisconnecting",
         UNCHANGED <<reading_, chan, polled, removed, outVars, wrShut, netVars, revents, phase, batch, baseQueue,
                     remote, sends, serverVars, historyVars>>,
         delayed' \in BOOLEAN
  PROVE  ConnInv'
<1> USE DEF ConnInv
<1>1. /\ ioQueue' \in Seq(SafeFunctors) /\ Len(ioQueue') = Len(ioQueue) + 1
      /\ Lacks(ioQueue', "established") /\ Lacks(ioQueue', "destroyed")
  BY UpQueue, TypeFacts, AppendFacts, Zenon DEF SafeFunctors
<1>2. Typed'
  <2> QED BY <1>1, TypedNext DEF Typed, TypeOK, States, outVars, netVars, serverVars, historyVars
<1>3. Life'
  BY <1>1, Zenon DEF Life, Ended, historyVars, serverVars
<1>4. Pending'
  BY Zenon DEF Pending, Up
<1>5. Interest' /\ Stream'
  BY Zenon DEF Interest, Stream, isWriting, outVars, netVars
<1> QED BY <1>2, <1>3, <1>4, <1>5, Zenon

\* Another thread's send() queues sendInLoop() (TcpConnection.cc:113-118).
LEMMA RemoteQueueInv == ASSUME ConnInv, RemoteQueue, use' = use PROVE ConnInv'
<1>1. remote = "send"
  BY TypeFacts, Zenon DEF ConnInv, RemoteQueue
<1>2. /\ state_' = state_ /\ ioQueue' = Append(ioQueue, "send") /\ remote' = "idle" /\ batch' = batch
      /\ UNCHANGED <<reading_, chan, polled, removed, outVars, wrShut, netVars, revents, phase, baseQueue,
                     sends, delayed, serverVars, historyVars>>
  BY <1>1, Zenon DEF RemoteQueue, Requested, chanVars, loopVars
<1>3. Keeps(Append(ioQueue, "send"), batch)
  BY KeepsFacts, Zenon
<1>4. state_ \notin {"none", "kConnecting"} /\ sends' \in 0 .. MaxSends /\ delayed' \in BOOLEAN
  BY <1>1, <1>2, Zenon DEF ConnInv, Life, Unborn, Typed, TypeOK
<1> QED BY <1>2, <1>3, <1>4, QueueInv, Zenon

\* The timer of forceCloseWithDelay() (TcpConnection.cc:272-282).
LEMMA DelayedInv == ASSUME ConnInv, DelayedForceClose, use' = use PROVE ConnInv'
<1>1. /\ delayed /\ delayed' = FALSE
      /\ UNCHANGED <<reading_, chan, polled, removed, outVars, wrShut, netVars, revents, phase, batch, baseQueue, remote,
                     sends, serverVars, historyVars>>
  BY Zenon DEF DelayedForceClose, chanVars, loopVars
<1>2. Forced \cap use.loopCalls # {} /\ state_ \notin {"none", "kConnecting"}
  BY <1>1, Zenon DEF ConnInv, Typed, Life, Unborn
<1>3. delayed' \in BOOLEAN
  BY <1>1, Zenon
<1>4. CASE Referenced /\ StillUp
  <2>1. state_ \in Up /\ state_' = "kDisconnecting" /\ ioQueue' = Append(ioQueue, "forceClose")
    BY <1>4, Zenon DEF DelayedForceClose, StillUp
  <2> QED BY <1>1, <1>2, <1>3, <2>1, ForceCloseInv, Zenon
<1>5. CASE ~(Referenced /\ StillUp)
  <2>1. state_' = state_ /\ ioQueue' = ioQueue
    BY <1>5, Zenon DEF DelayedForceClose
  <2>2. Keeps(ioQueue, batch)
    BY KeepsFacts, Zenon
  <2>3. sends' \in 0 .. MaxSends /\ remote' \in use.remoteCalls \cup {"idle"}
    BY <1>1, Zenon DEF ConnInv, Typed, TypeOK
  <2> QED BY <1>1, <1>2, <1>3, <2>1, <2>2, <2>3, QueueInv, Zenon
<1> QED BY <1>4, <1>5, Zenon

\* startReadInLoop(), stopReadInLoop() of a connection that is up (TcpConnection.cc:321-344), and
\* shutdownInLoop() (TcpConnection.cc:228-236).
LEMMA ChannelInv ==
  ASSUME ConnInv, use' = use, state_ \in Up, NEW ev \in SUBSET {"read", "write"},
         SetChannel(ev) \/ (ev = chan /\ UNCHANGED <<chan, polled>>),
         "write" \in ev <=> "write" \in chan,
         "stopRead" \notin use.loopCalls => "read" \in ev,
         state_' = state_ \/ (state_' = "kDisconnecting" /\ Ended \cap use.loopCalls # {}),
         wrShut => wrShut', wrShut' => wrShut \/ outputBuffer_ = <<>>,
         reading_' \in BOOLEAN, wrShut' \in BOOLEAN,
         UNCHANGED <<removed, outVars, netVars, loopVars, ioQueue, baseQueue, remote, delayed, sends, serverVars,
                     historyVars>>
  PROVE  ConnInv'
<1> USE DEF ConnInv
<1>1. chan' = ev /\ (ev # {} => polled')
  BY TypeFacts, Zenon DEF SetChannel, Interest
<1>2. polled' \in BOOLEAN
  BY TypeFacts, Zenon DEF SetChannel
<1>3. state_' \in Up
  BY Zenon DEF Up
<1>4. Typed'
  <2>1. sends' \in 0 .. MaxSends /\ remote' \in use.remoteCalls \cup {"idle"} /\ state_' \in States
        /\ batch' \in 0 .. Len(ioQueue')
    BY Zenon DEF Typed, TypeOK, loopVars, States
  <2> QED BY <1>1, <1>2, <2>1 DEF Typed, TypeOK, outVars, netVars, loopVars, serverVars, historyVars
<1>5. Life'
  BY Zenon DEF Life, Up, serverVars, historyVars
<1>6. Pending'
  BY <1>3, Zenon DEF Pending, loopVars
<1>7. Interest'
  BY <1>1, Zenon DEF Interest, Up, isWriting, outVars
<1>8. Stream'
  BY <1>1, Zenon DEF Stream, isWriting, outVars, netVars
<1> QED BY <1>4, <1>5, <1>6, <1>7, <1>8, Zenon

------------------------------------------------------------------------------
(* The stream. *)

\* Bytes numbered from k + 1.
Numbered(s, k) == s \in Seq(Nat) /\ \A i \in 1 .. Len(s) : s[i] = k + i

\* The empty string of bytes.
LEMMA EmptyFacts ==
  ASSUME NEW s \in Seq(Nat)
  PROVE  (s = <<>> <=> Len(s) = 0) /\ s \o <<>> = s /\ SubSeq(s, 1, 0) = <<>>
OBVIOUS

\* Strings that continue each other make one string.
LEMMA NumberedConcat ==
  ASSUME NEW k \in Nat, NEW s, NEW t, Numbered(s, k), Numbered(t, k + Len(s))
  PROVE  Numbered(s \o t, k) /\ Len(s \o t) = Len(s) + Len(t) /\ (s \o t = <<>> <=> s = <<>> /\ t = <<>>)
BY DEF Numbered

\* The first n bytes of a string, and the others.
LEMMA NumberedSubSeq ==
  ASSUME NEW k \in Nat, NEW s, Numbered(s, k), NEW n \in 0 .. Len(s)
  PROVE  /\ Numbered(SubSeq(s, 1, n), k) /\ Len(SubSeq(s, 1, n)) = n
         /\ Numbered(SubSeq(s, n + 1, Len(s)), k + n) /\ Len(SubSeq(s, n + 1, Len(s))) = Len(s) - n
<1>1. s \in Seq(Nat) /\ Len(s) \in Nat /\ n \in Nat /\ n <= Len(s) /\ \A i \in 1 .. Len(s) : s[i] = k + i /\ s[i] \in Nat
  BY DEF Numbered
<1>2. Numbered(SubSeq(s, 1, n), k) /\ Len(SubSeq(s, 1, n)) = n
  <2> DEFINE u == SubSeq(s, 1, n)
  <2> HIDE DEF u
  <2> QED BY DEF Numbered
<1>3. Numbered(SubSeq(s, n + 1, Len(s)), k + n) /\ Len(SubSeq(s, n + 1, Len(s))) = Len(s) - n
  <2> DEFINE u == SubSeq(s, n + 1, Len(s))
  <2>2. /\ u \in Seq(Nat) /\ Len(u) = IF n + 1 <= Len(s) THEN Len(s) - (n + 1) + 1 ELSE 0
        /\ \A i \in 1 .. Len(s) - (n + 1) + 1 : u[i] = s[n + 1 + i - 1]
    BY <1>1
  <2> HIDE DEF u
  <2>3. Len(u) = Len(s) - n /\ \A i \in 1 .. Len(s) - n : u[i] = s[n + i]
    BY <2>2, <1>1
  <2>4. \A i \in 1 .. Len(u) : u[i] = k + n + i
    BY <2>3, <1>1
  <2> QED BY <2>2, <2>3, <2>4, Zenon DEF Numbered, u
<1> QED BY <1>2, <1>3, Zenon

\* Of the message m the kernel takes n bytes, after w; the rest is buffered, after o.
Split(w, o, m, n) ==
  /\ Numbered(w \o SubSeq(m, 1, n), 0)
  /\ Numbered(o \o SubSeq(m, n + 1, Len(m)), Len(w \o SubSeq(m, 1, n)))
  /\ Len(w \o SubSeq(m, 1, n)) + Len(o \o SubSeq(m, n + 1, Len(m))) = Len(w) + Len(o) + Len(m)
  /\ o \o SubSeq(m, n + 1, Len(m)) = <<>> <=> o = <<>> /\ n = Len(m)
  /\ SubSeq(m, n + 1, Len(m)) = <<>> <=> n = Len(m)

\* What the kernel takes of a message and of the buffer, and what is left of it
\* (TcpConnection.cc:172-213, 397-404).
LEMMA StreamSplit ==
  ASSUME NEW w, NEW o, NEW m, NEW n \in 0 .. Len(m), n > 0 => o = <<>>,
         Numbered(w, 0), Numbered(o, Len(w)), Numbered(m, Len(w) + Len(o))
  PROVE  Split(w, o, m, n)
<1> DEFINE m1 == SubSeq(m, 1, n)
           m2 == SubSeq(m, n + 1, Len(m))
           w2 == w \o m1
           o2 == o \o m2
<1>1. /\ w \in Seq(Nat) /\ o \in Seq(Nat) /\ m \in Seq(Nat)
      /\ Len(w) \in Nat /\ Len(o) \in Nat /\ Len(m) \in Nat /\ n \in Nat /\ n <= Len(m)
  BY DEF Numbered
<1>2. /\ Numbered(m1, Len(w) + Len(o)) /\ Len(m1) = n
      /\ Numbered(m2, Len(w) + Len(o) + n) /\ Len(m2) = Len(m) - n
  BY <1>1, NumberedSubSeq
<1> HIDE DEF m1, m2
<1>0. m1 \in Seq(Nat) /\ m2 \in Seq(Nat)
  BY <1>2, Zenon DEF Numbered
<1>3. (m1 = <<>> <=> n = 0) /\ (m2 = <<>> <=> n = Len(m)) /\ (o = <<>> <=> Len(o) = 0)
  <2> QED BY <1>2
<1>4. CASE n = 0
  <2>1. m1 = <<>> /\ w2 = w
    BY <1>1, <1>3, <1>4
  <2>2. Numbered(m2, Len(w) + Len(o))
    BY <1>2, <1>4
  <2>3. Numbered(o2, Len(w)) /\ Len(o2) = Len(o) + Len(m2) /\ (o2 = <<>> <=> o = <<>> /\ m2 = <<>>)
    BY <2>2, NumberedConcat
  <2> HIDE DEF w2, o2
  <2>4. /\ Numbered(w2, 0) /\ Numbered(o2, Len(w2)) /\ Len(w2) + Len(o2) = Len(w) + Len(o) + Len(m)
        /\ o2 = <<>> <=> o = <<>> /\ n = Len(m)
        /\ m2 = <<>> <=> n = Len(m)
    BY <1>2, <2>1, <2>3
  <2> QED BY <2>4, Zenon DEF Split, m1, m2, w2, o2
<1>5. CASE n > 0
  <2>1. o = <<>> /\ Len(o) = 0 /\ o2 = m2
    BY <1>0, <1>5
  <2>2. Numbered(m1, 0 + Len(w)) /\ Numbered(m2, Len(w) + n)
    BY <1>2, <2>1
  <2>3. Numbered(w2, 0) /\ Len(w2) = Len(w) + Len(m1)
    BY <2>2, NumberedConcat
  <2> HIDE DEF w2, o2
  <2>4. /\ Numbered(o2, Len(w2)) /\ Len(w2) + Len(o2) = Len(w) + Len(o) + Len(m)
        /\ o2 = <<>> <=> o = <<>> /\ n = Len(m)
        /\ m2 = <<>> <=> n = Len(m)
    <3>1. Len(w2) = Len(w) + n /\ Len(o2) = Len(m) - n /\ Len(o) = 0
      BY <1>2, <2>1, <2>3, Zenon
    <3> QED BY <2>1, <2>2, <3>1
  <2> QED BY <2>3, <2>4, Zenon DEF Split, m1, m2, w2, o2
<1> QED BY <1>4, <1>5

\* A step of a connection that is up in which bytes are written or buffered.
LEMMA StreamStepInv ==
  ASSUME ConnInv, use' = use, state_ \in Up, NEW q, NEW b, Keeps(q, b), ioQueue' = q, batch' = b,
         UNCHANGED <<state_, reading_, removed, netVars, phase, baseQueue, remote, delayed, serverVars, historyVars>>,
         sends' \in 0 .. MaxSends, revents' \subseteq revents,
         Numbered(wire', 0), Numbered(outputBuffer_', Len(wire')), accepted' \in Nat,
         lost' \in BOOLEAN, wrShut' \in BOOLEAN, polled' \in BOOLEAN, chan' \in SUBSET {"read", "write"},
         ~lost' => Len(wire') + Len(outputBuffer_') = accepted',
         lost' => outputBuffer_' = <<>> /\ (wrShut' \/ peer \in {"rst", "dead"}),
         wrShut' => outputBuffer_' = <<>>,
         "write" \in chan' <=> outputBuffer_' # <<>>, "read" \in chan => "read" \in chan', chan' # {} => polled'
  PROVE  ConnInv'
<1> USE DEF ConnInv
<1>1. /\ wire' \in Seq(Nat) /\ outputBuffer_' \in Seq(Nat)
      /\ \A i \in 1 .. Len(outputBuffer_') : outputBuffer_'[i] = Len(wire') + i
  BY Zenon DEF Numbered
<1>2. \A i \in 1 .. Len(wire') : wire'[i] = i
  BY DEF Numbered
<1>3. Typed'
  <2>1. ioQueue' \in Seq(SafeFunctors) /\ batch' \in 0 .. Len(ioQueue')
    BY Zenon DEF Keeps
  <2>2. Forced \cap use.loopCalls = {} => ~delayed' /\ Lacks(ioQueue', "forceClose")
    BY Zenon DEF Keeps, Typed
  <2>3. remote' \in use.remoteCalls \cup {"idle"}
    BY Zenon DEF Typed, TypeOK
  <2>4. /\ state_' \in States /\ reading_' \in BOOLEAN /\ removed' \in BOOLEAN
        /\ peer' \in {"open", "fin", "rst", "dead"} /\ incoming' \in BOOLEAN
        /\ phase' \in {"poll", "handle", "functors"} /\ baseQueue' \in Seq({"remove"})
        /\ delayed' \in BOOLEAN /\ inMap' \in BOOLEAN /\ serverAlive' \in BOOLEAN
        /\ downs' \in Nat /\ destroys' \in Nat
    BY Zenon DEF Typed, TypeOK, netVars, serverVars, historyVars
  <2>5. revents' \subseteq {"HUP", "ERR", "IN", "OUT"} /\ chan' \subseteq {"read", "write"}
    BY Zenon DEF Typed, TypeOK
  <2> QED BY <1>1, <2>1, <2>2, <2>3, <2>4, <2>5, TypedNext, Zenon
<1>4. Life'
  BY Zenon DEF Life, Keeps, Up, historyVars, serverVars
<1>5. Pending'
  BY Zenon DEF Pending, Keeps
<1>6. Interest'
  BY Zenon DEF Interest, Up, isWriting
<1>7. Stream'
  BY <1>1, <1>2, Zenon DEF Stream, isWriting, netVars
<1> QED BY <1>3, <1>4, <1>5, <1>6, <1>7, Zenon

\* sendInLoop(), called or run as a functor (TcpConnection.cc:152-215).
LEMMA SendInv ==
  ASSUME ConnInv, use' = use, NEW q, NEW b, Keeps(q, b), sendInLoop(q), batch' = b,
         state_ \notin {"none", "kConnecting"}, sends' \in 0 .. MaxSends,
         UNCHANGED <<state_, reading_, removed, wrShut, netVars, revents, phase, baseQueue, remote, delayed,
                     serverVars, historyVars>>
  PROVE  ConnInv'
<1>0. /\ remote' \in use.remoteCalls \cup {"idle"} /\ delayed' \in BOOLEAN /\ wrShut' \in BOOLEAN
      /\ accepted \in Nat /\ MsgLen \in Nat \ {0} /\ chan \in SUBSET {"read", "write"}
  BY TypeFacts, Zenon DEF ConnInv, Typed, TypeOK
<1>1. CASE state_ = "kDisconnected"
  <2>1. ioQueue' = q /\ UNCHANGED <<chan, polled, outVars>>
    BY <1>1, Zenon DEF sendInLoop, chanVars
  <2> QED BY <1>0, <2>1, QueueInv, Zenon
<1>2. CASE state_ # "kDisconnected"
  <2> DEFINE message == [i \in 1 .. MsgLen |-> accepted + i]
             rest(res) == IF res = Fault THEN <<>> ELSE SubSeq(message, (IF res = Fault THEN 0 ELSE res) + 1, MsgLen)
  <2>1. PICK res \in (IF WriteDirectly THEN WriteResults(MsgLen) ELSE {0}) :
          /\ accepted' = accepted + MsgLen
          /\ wire' = wire \o SubSeq(message, 1, IF res = Fault THEN 0 ELSE res)
          /\ lost' = (lost \/ res = Fault)
          /\ outputBuffer_' = outputBuffer_ \o rest(res)
          /\ IF rest(res) # <<>> /\ ~isWriting THEN SetChannel(chan \cup {"write"}) ELSE UNCHANGED chanVars
          /\ ioQueue' = q \/ ioQueue' = Append(q, "callback")
    BY <1>2, Zenon DEF sendInLoop
  <2>2. PICK r : r = ioQueue' /\ Keeps(r, b)
    BY <2>1, KeepsFacts, Zenon
  <2>3. state_ \in Up
    BY <1>2, TypeFacts, Zenon DEF ConnInv, States, Up
  <2>4. /\ Numbered(wire, 0) /\ Numbered(outputBuffer_, Len(wire)) /\ (~lost => Len(wire) + Len(outputBuffer_) = accepted)
        /\ (lost => outputBuffer_ = <<>> /\ ~isWriting /\ (wrShut \/ peer \in {"rst", "dead"}))
        /\ (wrShut => outputBuffer_ = <<>>) /\ (isWriting <=> outputBuffer_ # <<>>) /\ (chan # {} => polled)
        /\ lost \in BOOLEAN /\ wrShut \in BOOLEAN /\ polled \in BOOLEAN /\ wire \in Seq(Nat) /\ outputBuffer_ \in Seq(Nat)
    <3>1. /\ lost \in BOOLEAN /\ wrShut \in BOOLEAN /\ polled \in BOOLEAN /\ wire \in Seq(Nat)
          /\ outputBuffer_ \in Seq(Nat)
      BY TypeFacts, Zenon DEF ConnInv
    <3>2. /\ (~lost => Len(wire) + Len(outputBuffer_) = accepted)
          /\ (lost => outputBuffer_ = <<>> /\ ~isWriting /\ (wrShut \/ peer \in {"rst", "dead"}))
          /\ (wrShut => outputBuffer_ = <<>>) /\ (isWriting <=> outputBuffer_ # <<>>) /\ (chan # {} => polled)
      BY <2>3, Zenon DEF ConnInv, Stream, Interest
    <3>3. Numbered(wire, 0) /\ Numbered(outputBuffer_, Len(wire))
      BY <3>1 DEF ConnInv, Stream, Numbered
    <3> QED BY <3>1, <3>2, <3>3, Zenon
  <2>5. Numbered(message, accepted) /\ Len(message) = MsgLen
    BY <1>0 DEF Numbered
  <2> HIDE DEF message
  <2>6. CASE res = Fault
    <3>1. WriteDirectly /\ (wrShut \/ peer \in {"rst", "dead"})
      BY <2>6 DEF WriteResults, Fault
    <3>2. ~isWriting /\ outputBuffer_ = <<>>
      BY <3>1, Zenon DEF WriteDirectly
    <3>3. SubSeq(message, 1, 0) = <<>>
      BY <2>2, EmptyFacts DEF Numbered
    <3>4. wire' = wire /\ outputBuffer_' = outputBuffer_ /\ UNCHANGED <<chan, polled>> /\ lost' = TRUE
      BY <2>1, <2>4, <2>6, <3>3, EmptyFacts, Zenon DEF chanVars
    <3>6. accepted' \in Nat /\ wrShut' = wrShut
      BY <1>0, <2>1
    <3> QED BY <1>0, <2>2, <2>3, <2>4, <3>1, <3>2, <3>4, <3>6, StreamStepInv DEF isWriting
  <2>7. CASE res # Fault
    <3>1. res \in 0 .. MsgLen /\ (res > 0 => WriteDirectly) /\ ~lost /\ ~wrShut
      <4>1. CASE WriteDirectly
        <5>1. ~(wrShut \/ peer \in {"rst", "dead"}) /\ res \in 0 .. MsgLen
          BY <2>7, <4>1, Zenon DEF WriteResults
        <5> QED BY <2>4, <5>1
      <4>2. CASE ~WriteDirectly
        <5>1. res = 0 /\ outputBuffer_ # <<>>
          BY <2>4, <4>2, Zenon DEF WriteDirectly
        <5> QED BY <1>0, <2>4, <5>1
      <4> QED BY <4>1, <4>2, Zenon
    <3>2. /\ wire' = wire \o SubSeq(message, 1, res) /\ outputBuffer_' = outputBuffer_ \o SubSeq(message, res + 1, MsgLen)
          /\ rest(res) = SubSeq(message, res + 1, MsgLen)
      BY <2>1, <2>7, Zenon
    <3>3. Numbered(message, Len(wire) + Len(outputBuffer_)) /\ res \in 0 .. Len(message) /\ (res > 0 => outputBuffer_ = <<>>)
      BY <2>4, <2>5, <3>1, Zenon DEF WriteDirectly
    <3>4. /\ Numbered(wire', 0) /\ Numbered(outputBuffer_', Len(wire'))
          /\ Len(wire') + Len(outputBuffer_') = Len(wire) + Len(outputBuffer_) + Len(message)
          /\ (outputBuffer_' = <<>> <=> outputBuffer_ = <<>> /\ res = MsgLen)
          /\ (rest(res) = <<>> <=> res = MsgLen)
      <4>1. Numbered(wire, 0) /\ Numbered(outputBuffer_, Len(wire))
        BY <2>4, Zenon
      <4>2. Split(wire, outputBuffer_, message, res)
        BY <3>3, <4>1, StreamSplit, Zenon
      <4>3. wire \o SubSeq(message, 1, res) = wire' /\ outputBuffer_ \o SubSeq(message, res + 1, Len(message)) = outputBuffer_'
            /\ SubSeq(message, res + 1, Len(message)) = rest(res)
        BY <2>5, <3>2, Zenon
      <4> HIDE DEF rest
      <4> QED BY <2>5, <4>2, <4>3, Zenon DEF Split
    <3>5. lost' \in BOOLEAN /\ ~lost'
      <4>1. lost' = (lost \/ res = Fault)
        BY <2>1, Zenon
      <4> QED BY <2>7, <3>1, <4>1, Zenon
    <3>6. accepted' \in Nat /\ Len(wire') + Len(outputBuffer_') = accepted'
      <4>1. accepted' = accepted + MsgLen /\ Len(message) = MsgLen /\ Len(wire) + Len(outputBuffer_) = accepted
        BY <2>1, <2>4, <2>5, <3>1, Zenon
      <4> QED BY <3>4, <4>1
    <3> HIDE DEF rest
    <3>7. /\ chan' \in SUBSET {"read", "write"} /\ ("write" \in chan' <=> outputBuffer_' # <<>>)
          /\ ("read" \in chan => "read" \in chan')
      <4>1. CASE rest(res) # <<>> /\ ~isWriting
        <5>1. chan' = chan \cup {"write"}
          BY <2>1, <4>1, Zenon DEF SetChannel
        <5> QED BY <1>0, <3>4, <4>1, <5>1, Zenon
      <4>2. CASE ~(rest(res) # <<>> /\ ~isWriting)
        <5>1. chan' = chan
          BY <2>1, <4>2, Zenon DEF chanVars
        <5> QED BY <1>0, <2>4, <3>4, <4>2, <5>1, Zenon DEF isWriting
      <4> QED BY <4>1, <4>2, Zenon
    <3>8. polled' \in BOOLEAN /\ (chan' # {} => polled')
      BY <2>1, <2>4, Zenon DEF SetChannel, chanVars
    <3> QED BY <1>0, <2>2, <2>3, <3>1, <3>4, <3>5, <3>6, <3>7, <3>8, StreamStepInv, Zenon
  <2> QED BY <2>6, <2>7, Zenon
<1> QED BY <1>1, <1>2, Zenon

\* handleWrite() (TcpConnection.cc:391-429).
LEMMA WriteInv == ASSUME ConnInv, handleWrite, use' = use PROVE ConnInv'
<1>1. /\ revents = {"OUT"} /\ revents' = {} /\ batch' = batch
      /\ UNCHANGED <<phase, state_, reading_, removed, netVars, baseQueue, remote, delayed, sends, serverVars, historyVars>>
  BY Zenon DEF handleWrite
<1>2. /\ remote' \in use.remoteCalls \cup {"idle"} /\ sends' \in 0 .. MaxSends
      /\ peer \in {"open", "fin", "rst", "dead"} /\ incoming \in BOOLEAN
      /\ (state_ \in {"none", "kConnecting"} => remote' = "idle")
  BY <1>1, Zenon DEF ConnInv, Typed, TypeOK, Life, Unborn
<1>3. CASE ~isWriting
  <2>1. UNCHANGED <<chan, polled, outVars, wrShut, ioQueue>>
    BY <1>3, Zenon DEF handleWrite, chanVars
  <2> QED BY <1>1, <1>2, <2>1, QuietInv, Zenon DEF netVars
<1>4. CASE isWriting
  <2>1. state_ \in Up
    BY <1>4, TypeFacts, Zenon DEF ConnInv, Interest, Life, Unborn, States, Up, isWriting
  <2>2. /\ Numbered(wire, 0) /\ Numbered(outputBuffer_, Len(wire)) /\ outputBuffer_ # <<>>
        /\ Len(wire) + Len(outputBuffer_) = accepted /\ ~lost /\ ~wrShut /\ accepted \in Nat
        /\ lost \in BOOLEAN /\ wrShut \in BOOLEAN /\ polled \in BOOLEAN /\ chan \in SUBSET {"read", "write"}
        /\ wire \in Seq(Nat) /\ outputBuffer_ \in Seq(Nat) /\ (chan # {} => polled)
    BY <1>4, <2>1, TypeFacts DEF ConnInv, Stream, Interest, Numbered
  <2>3. PICK res \in WriteResults(Len(outputBuffer_)) :
          LET n == IF res = Fault THEN 0 ELSE res
          IN  /\ wire' = wire \o SubSeq(outputBuffer_, 1, n)
              /\ outputBuffer_' = SubSeq(outputBuffer_, n + 1, Len(outputBuffer_))
              /\ IF n > 0 /\ n = Len(outputBuffer_)
                 THEN SetChannel(Drained) /\ ioQueue' = Append(ioQueue, "callback")
                      /\ wrShut' = (wrShut \/ ShutdownAfterDrain)
                 ELSE UNCHANGED <<chanVars, ioQueue, wrShut>>
              /\ UNCHANGED <<accepted, lost>>
    BY <1>4, Zenon DEF handleWrite
  <2>4. PICK n \in 0 .. Len(outputBuffer_) : n = IF res = Fault THEN 0 ELSE res
    BY <2>2, <2>3 DEF WriteResults, Fault
  <2>5. /\ wire' = wire \o SubSeq(outputBuffer_, 1, n)
        /\ outputBuffer_' = SubSeq(outputBuffer_, n + 1, Len(outputBuffer_))
        /\ accepted' = accepted /\ lost' = lost
    BY <2>3, <2>4, Zenon
  <2>6. /\ Numbered(wire', 0) /\ Numbered(outputBuffer_', Len(wire')) /\ Len(wire') + Len(outputBuffer_') = accepted
        /\ Len(outputBuffer_') = Len(outputBuffer_) - n
    <3> DEFINE s == SubSeq(outputBuffer_, 1, n)
               t == SubSeq(outputBuffer_, n + 1, Len(outputBuffer_))
    <3>1. /\ Numbered(s, Len(wire)) /\ Len(s) = n /\ Numbered(t, Len(wire) + n) /\ Len(t) = Len(outputBuffer_) - n
          /\ Len(wire) \in Nat /\ Len(outputBuffer_) \in Nat
      BY <2>2, NumberedSubSeq
    <3> HIDE DEF s, t
    <3>2. Numbered(s, 0 + Len(wire))
      BY <3>1
    <3>3. Numbered(wire \o s, 0) /\ Len(wire \o s) = Len(wire) + Len(s)
      BY <2>2, <3>2, NumberedConcat
    <3>4. wire' = wire \o s /\ outputBuffer_' = t
      BY <2>5, Zenon DEF s, t
    <3>5. Len(wire') = Len(wire) + n /\ Len(outputBuffer_') = Len(outputBuffer_) - n
      BY <3>1, <3>3, <3>4, Zenon
    <3>6. Len(wire') + Len(outputBuffer_') = accepted
      <4>1. Len(wire) + Len(outputBuffer_) = accepted /\ n \in Nat
        BY <2>2
      <4> QED BY <3>5, <4>1
    <3> QED BY <3>1, <3>3, <3>4, <3>6, Zenon
  <2>7. outputBuffer_' \in Seq(Nat) /\ Len(outputBuffer_) \in Nat /\ (outputBuffer_' = <<>> <=> Len(outputBuffer_') = 0)
        /\ Len(outputBuffer_) # 0
    <3>1. outputBuffer_' \in Seq(Nat) /\ outputBuffer_ \in Seq(Nat) /\ outputBuffer_ # <<>>
      BY <2>2, <2>6, Zenon DEF Numbered
    <3> QED BY <3>1, EmptyFacts
  <2>8. CASE n > 0 /\ n = Len(outputBuffer_)
    <3>1. /\ chan' = chan \ {"write"} /\ polled' = ~(polled /\ chan \ {"write"} = {}) /\ ioQueue' = Append(ioQueue, "callback")
          /\ wrShut' = (wrShut \/ ShutdownAfterDrain)
      BY <2>3, <2>4, <2>8, Zenon DEF SetChannel, Drained
    <3>2. outputBuffer_' = <<>>
      BY <2>6, <2>8
    <3>4. Keeps(Append(ioQueue, "callback"), batch)
      BY KeepsFacts, Zenon
    <3> QED BY <1>1, <1>2, <2>1, <2>2, <2>5, <2>6, <3>1, <3>2, <3>4, StreamStepInv, Zenon
  <2>9. CASE ~(n > 0 /\ n = Len(outputBuffer_))
    <3>1. UNCHANGED <<chan, polled, ioQueue, wrShut>>
      BY <2>3, <2>4, <2>9, Zenon DEF chanVars
    <3>2. outputBuffer_' # <<>>
      BY <2>6, <2>7, <2>9
    <3>3. Keeps(ioQueue, batch)
      BY KeepsFacts, Zenon
    <3> QED BY <1>1, <1>2, <1>4, <2>1, <2>2, <2>5, <2>6, <3>1, <3>2, <3>3, StreamStepInv, Zenon DEF isWriting
  <2> QED BY <2>8, <2>9, Zenon
<1> QED BY <1>3, <1>4, Zenon

------------------------------------------------------------------------------
(* Calls of the user, functors, and the whole of Next. *)

\* A call of user code in the I/O loop (TcpConnection.cc:95-149, 217-282, 316-344).
LEMMA CallInv == ASSUME ConnInv, NEW op \in Ops, Call(op), use' = use PROVE ConnInv'
<1>1. /\ op \in use.loopCalls /\ state_ \in Up /\ state_' = Requested(op) /\ Counted(op) /\ Bounded(op)
      /\ delayed' = (delayed \/ op = "forceCloseWithDelay") /\ UNCHANGED loopVars
  BY Zenon DEF Call
<1>3. sends' \in 0 .. MaxSends
  BY <1>1, TypeFacts DEF Counted, Bounded, ConnInv, Typed, TypeOK
<1>4. remote \in use.remoteCalls \cup {"idle"} /\ reading_ \in BOOLEAN /\ wrShut \in BOOLEAN /\ polled \in BOOLEAN
      /\ delayed \in BOOLEAN /\ chan \in SUBSET {"read", "write"} /\ state_ \notin {"none", "kConnecting"}
  BY <1>1, Zenon DEF ConnInv, Typed, TypeOK, Up
<1>5. CASE op \in Forced
  <2>1. /\ state_' = "kDisconnecting" /\ (op # "send" => sends' = sends)
        /\ UNCHANGED <<reading_, chan, polled, removed, outVars, wrShut, netVars, baseQueue, remote, serverVars,
                       historyVars>>
        /\ ioQueue' = IF op = "forceClose" THEN Append(ioQueue, "forceClose") ELSE ioQueue
    BY <1>5, Zenon DEF Call, Requested, Counted, Forced, chanVars
  <2>2. Forced \cap use.loopCalls # {} /\ Ended \cap use.loopCalls # {}
    BY <1>1, <1>5, Zenon DEF Ended
  <2>3. CASE op = "forceClose"
    BY <1>1, <2>1, <2>2, <2>3, ForceCloseInv, Zenon DEF loopVars
  <2>4. CASE op # "forceClose"
    <3>1. Keeps(ioQueue, batch)
      BY KeepsFacts, Zenon
    <3> QED BY <1>1, <1>3, <1>4, <2>1, <2>2, <2>4, <3>1, QueueInv, Zenon DEF loopVars
  <2> QED BY <2>3, <2>4, Zenon
<1>6. ASSUME op \notin Forced
      PROVE  /\ InLoop(op, ioQueue) /\ delayed' = delayed
             /\ UNCHANGED <<removed, netVars, baseQueue, remote, serverVars, historyVars>>
  BY <1>4, <1>6, Zenon DEF Call, InLoop, Forced
<1>7. CASE op = "send"
  <2>1. /\ sendInLoop(ioQueue) /\ delayed' = delayed /\ state_' = state_
        /\ UNCHANGED <<reading_, wrShut, removed, netVars, baseQueue, remote, serverVars, historyVars>>
    BY <1>1, <1>6, <1>7, Zenon DEF InLoop, Requested, Forced
  <2>2. Keeps(ioQueue, batch)
    BY KeepsFacts, Zenon
  <2> QED BY <1>1, <1>3, <1>4, <2>1, <2>2, SendInv, Zenon DEF loopVars
<1>8. CASE op = "shutdown"
  <2>1. /\ shutdownInLoop /\ delayed' = delayed /\ state_' = "kDisconnecting" /\ ioQueue' = ioQueue /\ sends' = sends
        /\ UNCHANGED <<reading_, chan, polled, outVars, removed, netVars, baseQueue, remote, serverVars, historyVars>>
    BY <1>1, <1>6, <1>8, Zenon DEF InLoop, Requested, Counted, Forced, chanVars
  <2>2. wrShut' = (wrShut \/ ~isWriting)
    BY <2>1, Zenon DEF shutdownInLoop, ShutdownNow
  <2>3. wrShut' \in BOOLEAN /\ (wrShut => wrShut') /\ (wrShut' => wrShut \/ ~isWriting)
    BY <2>2, Zenon
  <2>4. ~isWriting => outputBuffer_ = <<>>
    BY <1>1, Zenon DEF ConnInv, Interest
  <2>5. Ended \cap use.loopCalls # {} /\ reading_' \in BOOLEAN
    BY <1>1, <1>4, <1>8, <2>1, Zenon DEF Ended
  <2>6. "stopRead" \notin use.loopCalls => "read" \in chan
    BY <1>1, Zenon DEF ConnInv, Interest
  <2> QED BY <1>1, <1>4, <2>1, <2>3, <2>4, <2>5, <2>6, ChannelInv, Zenon
<1>9. CASE op \in {"startRead", "stopRead"}
  <2>1. /\ (IF op = "startRead" THEN startReadInLoop ELSE stopReadInLoop)
        /\ delayed' = delayed /\ state_' = state_ /\ ioQueue' = ioQueue /\ sends' = sends /\ wrShut' = wrShut
        /\ UNCHANGED <<outVars, removed, netVars, baseQueue, remote, serverVars, historyVars>>
    BY <1>1, <1>6, <1>9, Zenon DEF InLoop, Requested, Counted, Forced
  <2>2. reading_' \in BOOLEAN
    BY <1>4, <2>1, Zenon DEF startReadInLoop, stopReadInLoop
  <2>3. "stopRead" \notin use.loopCalls => "read" \in chan
    BY <1>1, Zenon DEF ConnInv, Interest
  <2>4. \/ UNCHANGED <<chan, polled>>
        \/ op = "startRead" /\ SetChannel(chan \cup {"read"})
        \/ op = "stopRead" /\ SetChannel(chan \ {"read"})
    BY <1>9, <2>1, Zenon DEF startReadInLoop, stopReadInLoop, chanVars
  <2>5. wrShut' \in BOOLEAN
    BY <1>4, <2>1, Zenon
  <2>6. CASE UNCHANGED <<chan, polled>>
    BY <1>1, <1>4, <2>1, <2>2, <2>3, <2>6, ChannelInv, Zenon
  <2>7. CASE op = "startRead" /\ SetChannel(chan \cup {"read"})
    <3>1. PICK ev \in SUBSET {"read", "write"} : ev = chan \cup {"read"}
      BY <1>4, Zenon
    <3>2. SetChannel(ev) /\ ("write" \in ev <=> "write" \in chan) /\ "read" \in ev
      BY <2>7, <3>1, Zenon
    <3> QED BY <1>1, <2>1, <2>2, <2>5, <3>2, ChannelInv, Zenon
  <2>8. CASE op = "stopRead" /\ SetChannel(chan \ {"read"})
    <3>1. PICK ev \in SUBSET {"read", "write"} : ev = chan \ {"read"}
      BY <1>4, Zenon
    <3>2. SetChannel(ev) /\ ("write" \in ev <=> "write" \in chan) /\ "stopRead" \in use.loopCalls
      BY <1>1, <2>8, <3>1, Zenon
    <3> QED BY <1>1, <2>1, <2>2, <2>5, <3>2, ChannelInv, Zenon
  <2> QED BY <2>4, <2>6, <2>7, <2>8, Zenon
<1> QED BY <1>5, <1>7, <1>8, <1>9, Zenon DEF Ops, Forced

\* connectEstablished(), run as a functor (TcpConnection.cc:346-355).
LEMMA EstablishedInv ==
  ASSUME ConnInv, use' = use, batch > 0, batch' = BatchLeft, UNCHANGED <<revents, phase>>, ioQueue # <<>>,
         Head(ioQueue) = "established", connectEstablished
  PROVE  ConnInv'
<1> USE DEF ConnInv
<1>1. state_ = "kConnecting" /\ Unborn
  <2>1. ~Lacks(ioQueue, "established")
    BY QueueFacts, TypeFacts, Zenon
  <2> QED BY <2>1, Zenon DEF Life, Unborn
<1>2. ioQueue = <<"established">> /\ inMap /\ chan = {}
  BY <1>1, Zenon DEF Unborn
<1>3. ioQueue' = <<>> /\ Len(ioQueue') = 0 /\ Len(ioQueue) = 1
  BY <1>2 DEF connectEstablished
<1>4. batch' = 0 /\ revents = {} /\ phase = "functors"
  <2>1. batch \in Nat /\ batch <= Len(ioQueue) /\ ioQueue \in Seq(SafeFunctors)
    BY TypeFacts, Zenon
  <2>2. batch # 0 /\ Len(ioQueue) \in Nat
    BY <2>1
  <2>3. revents = {} /\ phase = "functors"
    BY <2>2, Zenon DEF Pending
  <2>4. batch' = 0
    BY <1>3, <2>1 DEF BatchLeft
  <2> QED BY <2>3, <2>4, Zenon
<1>5. /\ state_' = "kConnected" /\ chan' = {"read"} /\ polled' = TRUE
      /\ UNCHANGED <<reading_, removed, outVars, wrShut, netVars, baseQueue, remote, delayed, sends,
                     serverVars, historyVars>>
  BY <1>2, TypeFacts, Zenon DEF connectEstablished, SetChannel
<1>6. Typed'
  <2>1. batch' \in 0 .. Len(ioQueue') /\ ioQueue' \in Seq(SafeFunctors)
    BY <1>3, <1>4
  <2>2. Forced \cap use.loopCalls = {} => ~delayed' /\ Lacks(ioQueue', "forceClose")
    BY <1>3, <1>5, QueueFacts, Zenon DEF Typed
  <2> QED BY <1>5, <2>1, <2>2, TypedNext DEF Typed, TypeOK, States, outVars, netVars, serverVars, historyVars
<1>7. Life'
  BY <1>1, <1>3, <1>5, QueueFacts, Zenon DEF Life, Unborn, serverVars, historyVars
<1>8. Pending'
  BY <1>4, Zenon DEF Pending
<1>9. Interest' /\ Stream'
  BY <1>1, <1>5, Zenon DEF Interest, Stream, Unborn, isWriting, outVars
<1> QED BY <1>6, <1>7, <1>8, <1>9, Zenon

\* connectDestroyed(), run as a functor (TcpConnection.cc:357-368).
LEMMA DestroyedInv ==
  ASSUME ConnInv, use' = use, batch > 0, batch' = BatchLeft, UNCHANGED <<revents, phase>>, ioQueue # <<>>,
         Head(ioQueue) = "destroyed", Destroy(Tail(ioQueue)), UNCHANGED serverVars
  PROVE  ConnInv'
<1> USE DEF ConnInv
<1>1. state_ = "kDisconnected" /\ BeingDestroyed /\ downs = 1 /\ Lacks(ioQueue, "established")
  <2>1. ~Lacks(ioQueue, "destroyed")
    BY QueueFacts, TypeFacts, Zenon
  <2>2. state_ # "kConnecting"
    BY DEF Life, Unborn
  <2> QED BY <2>1, <2>2, TypeFacts, Zenon DEF Life, Unborn, BeingRemoved, WasDestroyed, States, Up
<1>2. baseQueue = <<>> /\ ~inMap /\ HasOne(ioQueue, "destroyed") /\ destroys = 0 /\ ~removed /\ chan = {}
  BY <1>1, Zenon DEF BeingDestroyed, Interest
<1>3. /\ polled' = FALSE /\ removed' = TRUE /\ destroys' = destroys + 1 /\ ioQueue' = Tail(ioQueue)
      /\ UNCHANGED <<state_, chan, downs, reading_, outVars, wrShut, netVars, baseQueue, remote, delayed, sends, serverVars>>
  BY <1>1, Zenon DEF Destroy
<1>4. /\ ioQueue' \in Seq(SafeFunctors) /\ Len(ioQueue') = Len(ioQueue) - 1
      /\ Lacks(ioQueue', "established") /\ Lacks(ioQueue', "destroyed")
      /\ Lacks(ioQueue, "forceClose") => Lacks(ioQueue', "forceClose")
  BY <1>1, <1>2, <1>3, TailFacts, TypeFacts, Zenon
<1>5. batch' \in 0 .. Len(ioQueue') /\ revents = {} /\ phase = "functors"
  <2>1. batch \in Nat /\ batch <= Len(ioQueue) /\ ioQueue \in Seq(SafeFunctors)
    BY TypeFacts, Zenon
  <2>2. batch # 0 /\ Len(ioQueue) \in Nat
    BY <2>1
  <2>3. revents = {} /\ phase = "functors"
    BY <2>2, Zenon DEF Pending
  <2>4. batch' \in 0 .. Len(ioQueue')
    BY <1>4, <2>1, <2>2 DEF BatchLeft
  <2> QED BY <2>3, <2>4, Zenon
<1>6. Typed'
  <2>1. Forced \cap use.loopCalls = {} => ~delayed' /\ Lacks(ioQueue', "forceClose")
    BY <1>3, <1>4, Zenon DEF Typed
  <2>2. polled' \in BOOLEAN /\ removed' \in BOOLEAN
    BY <1>3, Zenon
  <2>3. /\ state_' \in States /\ reading_' \in BOOLEAN /\ chan' \subseteq {"read", "write"}
        /\ lost' \in BOOLEAN /\ wrShut' \in BOOLEAN
        /\ outputBuffer_' \in Seq(Nat) /\ wire' \in Seq(Nat) /\ accepted' \in Nat /\ downs' \in Nat
    BY <1>3, Zenon DEF Typed, TypeOK, outVars
  <2>4. /\ peer' \in {"open", "fin", "rst", "dead"} /\ incoming' \in BOOLEAN
        /\ baseQueue' \in Seq({"remove"}) /\ remote' \in use.remoteCalls \cup {"idle"}
        /\ delayed' \in BOOLEAN /\ sends' \in 0 .. MaxSends /\ inMap' \in BOOLEAN /\ serverAlive' \in BOOLEAN
    BY <1>3, Zenon DEF Typed, TypeOK, netVars, serverVars
  <2>5. revents' \subseteq {"HUP", "ERR", "IN", "OUT"} /\ phase' \in {"poll", "handle", "functors"}
    BY Zenon DEF Typed, TypeOK
  <2>6. destroys' \in Nat
    BY <1>3 DEF Typed
  <2> QED BY <1>4, <1>5, <2>1, <2>2, <2>3, <2>4, <2>5, <2>6, TypedNext, Zenon
<1>7. Life'
  BY <1>1, <1>2, <1>3, <1>4 DEF Life, WasDestroyed, serverVars
<1>8. Pending'
  BY <1>5, Zenon DEF Pending
<1>9. Interest' /\ Stream'
  BY <1>2, <1>3, Zenon DEF Interest, Stream, isWriting, outVars, netVars
<1> QED BY <1>6, <1>7, <1>8, <1>9, Zenon

\* doPendingFunctors() runs a functor (EventLoop.cc:289-292).
LEMMA RunFunctorInv == ASSUME ConnInv, RunFunctor, use' = use PROVE ConnInv'
<1>1. batch > 0 /\ batch' = BatchLeft /\ UNCHANGED <<revents, phase>>
  BY Zenon DEF RunFunctor
<1>2. ioQueue \in Seq(SafeFunctors) /\ ioQueue # <<>> /\ phase = "functors" /\ revents = {} /\ batch \in 1 .. Len(ioQueue)
  BY <1>1, TypeFacts DEF ConnInv, Pending
<1>3. Head(ioQueue) \in SafeFunctors
  BY <1>2
<1>4. CASE Head(ioQueue) = "established"
  BY <1>2, <1>4, EstablishedInv, Zenon DEF RunFunctor
<1>5. CASE Head(ioQueue) = "destroyed"
  BY <1>2, <1>5, DestroyedInv, Zenon DEF RunFunctor
<1>6. ASSUME Head(ioQueue) \in {"forceClose", "send", "callback"}
      PROVE  Keeps(Tail(ioQueue), batch - 1) /\ state_ \notin {"none", "kConnecting"} /\ batch' = batch - 1
  <2>1. Keeps(Tail(ioQueue), batch - 1)
    BY <1>1, <1>6, KeepsFacts, Zenon
  <2>2. state_ \notin {"none", "kConnecting"}
    BY <1>2, <1>6 DEF ConnInv, Life, Unborn
  <2> QED BY <1>1, <2>1, <2>2, Zenon DEF BatchLeft
<1>7. /\ remote \in use.remoteCalls \cup {"idle"} /\ delayed \in BOOLEAN /\ sends \in 0 .. MaxSends
  BY Zenon DEF ConnInv, Typed, TypeOK
<1>8. ASSUME UserCallback, Head(ioQueue) \in {"forceClose", "callback"} PROVE ConnInv'
  <2>1. /\ ioQueue' = Tail(ioQueue)
        /\ UNCHANGED <<state_, reading_, chan, polled, removed, outVars, wrShut, netVars, baseQueue, remote, delayed, sends,
                       serverVars, historyVars>>
    BY <1>8, Zenon DEF UserCallback, chanVars
  <2> QED BY <1>1, <1>6, <1>7, <1>8, <2>1, QueueInv, Zenon
<1>9. CASE Head(ioQueue) = "callback"
  BY <1>8, <1>9, Zenon DEF RunFunctor
<1>10. CASE Head(ioQueue) = "send"
  <2>1. InLoop("send", Tail(ioQueue)) /\ UNCHANGED <<state_, delayed, sends>>
    BY <1>10, Zenon DEF RunFunctor
  <2>2. sendInLoop(Tail(ioQueue))
        /\ UNCHANGED <<reading_, wrShut, removed, netVars, baseQueue, remote, serverVars, historyVars>>
    BY <2>1, Zenon DEF InLoop
  <2> QED BY <1>1, <1>6, <1>7, <1>10, <2>1, <2>2, SendInv, Zenon
<1>11. CASE Head(ioQueue) = "forceClose"
  <2>1. forceCloseInLoop
    BY <1>11, Zenon DEF RunFunctor
  <2>2. CASE StillUp
    <3>1. handleClose(Tail(ioQueue)) /\ state_ \in Up
      BY <2>1, <2>2, Zenon DEF forceCloseInLoop, StillUp
    <3>2. /\ Tail(ioQueue) \in Seq(SafeFunctors) /\ batch' \in 0 .. Len(Tail(ioQueue))
          /\ Lacks(Tail(ioQueue), "established") /\ Lacks(Tail(ioQueue), "destroyed")
          /\ Lacks(ioQueue, "forceClose") => Lacks(Tail(ioQueue), "forceClose")
      BY <1>6, <1>11, <3>1, UpQueue, Zenon DEF Keeps
    <3>3. "stopRead" \notin use.loopCalls
      <4>1. ~Lacks(ioQueue, "forceClose")
        BY <1>2, <1>11, QueueFacts, Zenon
      <4> QED BY <4>1, Zenon DEF ConnInv, Typed, SafeProgram, Forced
    <3> QED BY <1>1, <1>2, <3>1, <3>2, <3>3, CloseInv, Zenon
  <2>3. CASE ~StillUp
    BY <1>8, <1>11, <2>1, <2>3, Zenon DEF forceCloseInLoop
  <2> QED BY <2>2, <2>3, Zenon
<1> QED BY <1>3, <1>4, <1>5, <1>9, <1>10, <1>11, Zenon DEF SafeFunctors

\* Every step of the connection, of its server, of the kernel and of the program keeps the invariant.
LEMMA NextInv == ASSUME ConnInv, [Next]_<<vars, use>> PROVE ConnInv'
<1>1. CASE Next
  <2>1. use' = use
    BY <1>1, Zenon DEF Next
  <2>2. CASE newConnection \/ removeConnectionInLoop \/ DestructServer
    BY <2>1, <2>2, NewConnectionInv, RemoveConnectionInv, DestructServerInv, Zenon
  <2>3. CASE poll \/ HandleHup \/ HandleErr \/ handleRead \/ handleWrite
    BY <2>1, <2>3, PollInv, HupInv, ErrInv, ReadInv, WriteInv, Zenon
  <2>4. CASE SwapFunctors \/ RunFunctor \/ EndFunctors
    BY <2>1, <2>4, FunctorsInv, RunFunctorInv, Zenon
  <2>5. CASE \E op \in Ops : Call(op) \/ RemoteTest(op)
    BY <2>1, <2>5, CallInv, RemoteTestInv, Zenon
  <2>6. CASE RemoteQueue \/ DelayedForceClose \/ PeerStep
    BY <2>1, <2>6, RemoteQueueInv, DelayedInv, PeerInv, Zenon
  <2> QED BY <1>1, <2>2, <2>3, <2>4, <2>5, <2>6, Zenon DEF Next, Iteration
<1>2. CASE UNCHANGED <<vars, use>>
  <2>1. /\ use' = use /\ batch' = batch /\ ioQueue' = ioQueue
        /\ UNCHANGED <<state_, reading_, chan, polled, removed, outVars, wrShut, peer, incoming, revents, phase, batch,
                       ioQueue, baseQueue, remote, delayed, sends, serverVars, historyVars>>
    BY <1>2, Zenon DEF vars, chanVars, netVars, loopVars
  <2>2. /\ remote' \in use.remoteCalls \cup {"idle"} /\ sends' \in 0 .. MaxSends
        /\ peer' \in {"open", "fin", "rst", "dead"} /\ incoming' \in BOOLEAN
        /\ (state_ \in {"none", "kConnecting"} => remote' = "idle")
    BY <2>1, Zenon DEF ConnInv, Typed, TypeOK, Life, Unborn
  <2> QED BY <2>1, <2>2, QuietInv, Zenon
<1> QED BY <1>1, <1>2, Zenon

------------------------------------------------------------------------------
(* Theorems, for every set of safe programs. *)

\* The invariant always holds when every program is safe.
LEMMA SpecInv == ASSUME \A u \in Uses : SafeProgram(u) PROVE Spec => []ConnInv
<1>1. Init => ConnInv
  BY InitInv, Zenon
<1>2. ConnInv /\ [Next]_<<vars, use>> => ConnInv'
  BY NextInv, Zenon
<1> QED BY <1>1, <1>2, PTL DEF Spec

\* Whichever of an event, a forced close and the server's destructor ends the connection, the user
\* is told once and connectDestroyed() is called at most once, afterwards (TcpConnection.h:119).
THEOREM AlwaysDownThenDestroyedOnce ==
  ASSUME \A u \in Uses : SafeProgram(u)
  PROVE  Spec => []DownThenDestroyedOnce
<1>1. ConnInv => DownThenDestroyedOnce
  BY InvImplies, Zenon
<1> QED BY <1>1, SpecInv, PTL

\* No assertion of handleClose(), Channel::remove() and ~TcpConnection() fails
\* (TcpConnection.cc:435, Channel.cc:66, TcpConnection.cc:77).
THEOREM ConnectionAssertionsAlwaysHold ==
  ASSUME \A u \in Uses : SafeProgram(u)
  PROVE  Spec => []ConnectionAssertionsHold
<1>1. ConnInv => ConnectionAssertionsHold
  BY InvImplies, Zenon
<1> QED BY <1>1, SpecInv, PTL

\* The kernel gets the bytes of all messages in order and without gaps, however write(2) splits
\* them, and shutdown() ends the stream after the last (TcpConnection.cc:152-236, 391-429).
THEOREM StreamAlwaysInOrder ==
  ASSUME \A u \in Uses : SafeProgram(u)
  PROVE  Spec => []StreamInOrder
<1>1. ConnInv => StreamInOrder
  BY InvImplies, Zenon
<1> QED BY <1>1, SpecInv, PTL
=============================================================================
