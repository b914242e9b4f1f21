-------------------------- MODULE TcpServerProofs --------------------------
(***************************************************************************)
(* For any number of threads, clients and descriptors: loops are dealt     *)
(* evenly, and connections, map entries and descriptors come and go        *)
(* together.                                                               *)
(*                                                                         *)
(* The second needs to know which functor a connection is waiting for, and *)
(* in which loop, at every stage of its life (DueOf); that every queued    *)
(* functor is such a one; and that each of these is queued, once           *)
(* (Matches).  Then a functor that runs finds its connection in the state  *)
(* that it was queued for, whatever the other loops did in between.        *)
(***************************************************************************)
EXTENDS TcpServer, FiniteSetTheorems, TLAPS

------------------------------------------------------------------------------
(* The loops are dealt evenly. *)

PoolInv ==
  /\ numThreads_ \in 0 .. MaxThreads /\ started_ \in BOOLEAN /\ size \in 0 .. MaxThreads
  /\ next_ \in Nat /\ (size = 0 => next_ = 0) /\ dealt \in [Loops -> 0 .. MaxCalls]
  /\ IF started_ THEN size = numThreads_ ELSE next_ = 0 /\ dealt = [l \in Loops |-> 0]
  /\ Balanced

\* What getNextLoop() does to the balance.
LEMMA DealingKeepsBalance ==
  ASSUME PoolInv, getNextLoop
  PROVE  PoolInv'
<1> USE PoolAssumption DEF PoolInv, Balanced, Loops, Base
<1>1. started_ /\ size = numThreads_ /\ started_' /\ numThreads_' = numThreads_ /\ size' = size
  BY Zenon DEF getNextLoop
<1>2. CASE size = 0
  <2>1. dealt' \in [Loops -> 0 .. MaxCalls] /\ next_' = next_
    BY <1>2 DEF getNextLoop, Chosen
  <2> QED
    BY <1>1, <1>2, <2>1
<1>3. CASE size > 0
  <2>1. next_ \in 0 .. size - 1 /\ size <= MaxThreads
    BY <1>1, <1>3
  <2>2. dealt[next_] < MaxCalls /\ dealt' = [dealt EXCEPT ![next_] = @ + 1] /\ next_' = IF next_ + 1 >= size THEN 0 ELSE next_ + 1
    <3>1. Chosen = next_ /\ size # 0
      BY <1>3 DEF Chosen
    <3> QED
      BY <3>1, Zenon DEF getNextLoop, Wrapped
  <2>3. dealt' \in [Loops -> 0 .. MaxCalls] /\ next_' \in 0 .. size - 1 /\ dealt'[Base] = 0
    BY <1>1, <1>3, <2>1, <2>2
  <2>4. ASSUME NEW i \in 0 .. numThreads_ - 1, NEW j \in 0 .. numThreads_ - 1, i < j
        PROVE  dealt'[i] = dealt'[j] + (IF i < next_' /\ next_' <= j THEN 1 ELSE 0)
    <3>1. dealt[i] = dealt[j] + (IF i < next_ /\ next_ <= j THEN 1 ELSE 0)
      BY <2>4, Zenon
    <3>2. dealt'[i] = (IF i = next_ THEN dealt[i] + 1 ELSE dealt[i]) /\ dealt'[j] = (IF j = next_ THEN dealt[j] + 1 ELSE dealt[j])
      BY <2>1, <2>2, <1>1
    <3>3. dealt[i] \in Nat /\ dealt[j] \in Nat
      BY <1>1, <2>1
    <3> QED
      BY <1>1, <2>1, <2>2, <2>4, <3>1, <3>2, <3>3
  <2> QED
    BY <1>1, <1>3, <2>3, <2>4
<1> QED
  BY <1>2, <1>3

\* Every step keeps the balance.
LEMMA PoolInvNext ==
  ASSUME PoolInv, [Next]_vars
  PROVE  PoolInv'
<1>1. CASE start
  <2>1. numThreads_' = numThreads_ /\ started_' = TRUE /\ size' = numThreads_ /\ next_' = 0 /\ dealt' = [l \in Loops |-> 0]
    BY <1>1, Zenon DEF start, startPool, PoolInv
  <2> QED
    BY <2>1, PoolAssumption DEF PoolInv, Balanced, Loops, Base
<1>2. CASE newConnection
  BY <1>2, DealingKeepsBalance, Zenon DEF newConnection
<1>3. CASE UNCHANGED poolVars
  BY <1>3, Zenon DEF poolVars, PoolInv, Balanced
<1>4. start \/ newConnection \/ UNCHANGED poolVars
  BY Zenon DEF Next, vars, handleRead, ClientConnects, Destruct, Close, RunFunctor
<1> QED
  BY <1>1, <1>2, <1>3, <1>4, Zenon

\* Before start() no loop has been dealt.
LEMMA PoolInvInit == Init => PoolInv
<1> SUFFICES ASSUME Init PROVE PoolInv
  BY Zenon
<1>1. numThreads_ \in 0 .. MaxThreads /\ ~started_ /\ started_ \in BOOLEAN /\ size = 0 /\ next_ = 0 /\ dealt = [l \in Loops |-> 0]
  BY Zenon DEF Init, PoolInit
<1> QED
  BY <1>1, PoolAssumption DEF PoolInv, Balanced, Loops, Base

\* However many threads, clients and descriptors there are, loops are dealt evenly, and
\* loops_[next_] is a valid access (EventLoopThreadPool.cc:39-75, TcpServer.cc:63-105).
THEOREM AlwaysBalanced == Spec => []Balanced
<1>1. PoolInv => Balanced
  BY Zenon DEF PoolInv
<1> QED
  BY <1>1, PoolInvInit, PoolInvNext, PTL DEF Spec

------------------------------------------------------------------------------
(* Queues and the functors that are due. *)

Names == {"connectEstablished", "removeConnectionInLoop", "connectDestroyed"}

Queues == [Loops -> Seq(Functors)]

\* due[c] is the set of loop and name of the functors that wait for c.
Matches(q, due) ==
  /\ \A l \in Loops : \A i \in 1 .. Len(q[l]) : <<l, q[l][i][1]>> \in due[q[l][i][2]]
  /\ \A l \in Loops : \A i, j \in 1 .. Len(q[l]) : q[l][i][2] = q[l][j][2] => i = j
  /\ \A c \in Conns, l \in Loops, n \in Names :
       <<l, n>> \in due[c] => \E i \in 1 .. Len(q[l]) : q[l][i] = <<n, c>>

\* A connection waits for one functor at most.
Dues == {due \in [Conns -> SUBSET (Loops \X Names)] : \A c \in Conns : \A x, y \in due[c] : x = y}

WithoutFront(q, l) == [q EXCEPT ![l] = Tail(q[l])]
NoneDue(due, c) == [due EXCEPT ![c] = {}]

\* Queueing the functor of a connection that waits for none (EventLoop::queueInLoop).
LEMMA QueueingMatches ==
  ASSUME NEW q \in Queues, NEW due \in [Conns -> SUBSET (Loops \X Names)], Matches(q, due),
         NEW l \in Loops, NEW n \in Names, NEW c \in Conns, due[c] = {}
  PROVE  /\ Queued(q, l, n, c) \in Queues
         /\ Matches(Queued(q, l, n, c), [due EXCEPT ![c] = {<<l, n>>}])
<1> DEFINE p == Queued(q, l, n, c)
           d == [due EXCEPT ![c] = {<<l, n>>}]
<1>m1. \A m \in Loops : \A i \in 1 .. Len(q[m]) : <<m, q[m][i][1]>> \in due[q[m][i][2]]
  BY Zenon DEF Matches
<1>m2. \A m \in Loops : \A i, j \in 1 .. Len(q[m]) : q[m][i][2] = q[m][j][2] => i = j
  BY Zenon DEF Matches
<1>m3. \A x \in Conns, m \in Loops, k \in Names : <<m, k>> \in due[x] => \E i \in 1 .. Len(q[m]) : q[m][i] = <<k, x>>
  BY Zenon DEF Matches
<1>1. <<n, c>> \in Functors /\ <<n, c>>[1] = n /\ <<n, c>>[2] = c
  BY Zenon DEF Functors, Names
<1>2. \A m \in Loops : q[m] \in Seq(Functors)
  BY Zenon DEF Queues
<1>3. p = [q EXCEPT ![l] = Append(q[l], <<n, c>>)]
  BY Zenon DEF Queued
<1>4. p \in Queues
  BY <1>1, <1>2, <1>3 DEF Queues
<1>5. /\ p[l] = Append(q[l], <<n, c>>) /\ Len(p[l]) = Len(q[l]) + 1 /\ Len(q[l]) \in Nat
      /\ p[l][Len(q[l]) + 1] = <<n, c>> /\ \A i \in 1 .. Len(q[l]) : p[l][i] = q[l][i]
  BY <1>1, <1>2, <1>3 DEF Queues
<1>6. \A m \in Loops : m # l => p[m] = q[m]
  BY <1>3, Zenon DEF Queues
\* No functor of c was queued.
<1>7. \A m \in Loops : \A i \in 1 .. Len(q[m]) : q[m][i][2] # c /\ q[m][i][2] \in Conns
  <2>1. ASSUME NEW m \in Loops, NEW i \in 1 .. Len(q[m]) PROVE q[m][i][2] \in Conns /\ q[m][i] \in Functors
    <3>1. q[m][i] \in Functors
      BY <1>2
    <3> QED
      BY <3>1, Zenon DEF Functors
  <2>2. \A m \in Loops : \A i \in 1 .. Len(q[m]) : q[m][i][2] # c
    BY <1>m1, Zenon
  <2> QED
    BY <2>1, <2>2, Zenon
<1>8. d[c] = {<<l, n>>} /\ \A x \in Conns : x # c => d[x] = due[x]
  BY Zenon
<1> HIDE DEF p, d
<1>9. ASSUME NEW m \in Loops, NEW i \in 1 .. Len(p[m]) PROVE <<m, p[m][i][1]>> \in d[p[m][i][2]]
  <2>1. CASE m = l /\ i = Len(q[l]) + 1
    BY <1>1, <1>5, <1>8, <2>1, Zenon
  <2>2. CASE ~(m = l /\ i = Len(q[l]) + 1)
    <3>1. i \in 1 .. Len(q[m]) /\ p[m][i] = q[m][i]
      <4>1. CASE m # l
        BY <1>6, <1>9, <4>1, Zenon
      <4>2. CASE m = l
        <5>1. i \in 1 .. Len(q[l]) + 1 /\ i # Len(q[l]) + 1 /\ Len(q[l]) \in Nat
          BY <1>5, <1>9, <2>2, <4>2, Zenon
        <5>2. i \in 1 .. Len(q[l])
          BY <5>1
        <5> QED
          BY <1>5, <4>2, <5>2, Zenon
      <4> QED
        BY <4>1, <4>2, Zenon
    <3>2. <<m, q[m][i][1]>> \in due[q[m][i][2]]
      BY <3>1, Zenon DEF Matches
    <3> QED
      BY <1>7, <1>8, <3>1, <3>2, Zenon
  <2> QED
    BY <2>1, <2>2, Zenon
<1>10. ASSUME NEW m \in Loops, NEW i \in 1 .. Len(p[m]), NEW j \in 1 .. Len(p[m]), p[m][i][2] = p[m][j][2]
       PROVE  i = j
  <2>1. CASE m # l
    BY <1>6, <1>10, <2>1 DEF Matches
  <2>2. CASE m = l
    <3>1. \A k \in 1 .. Len(p[m]) : IF k = Len(q[l]) + 1 THEN p[m][k][2] = c
                                    ELSE k \in 1 .. Len(q[l]) /\ p[m][k] = q[l][k] /\ q[l][k][2] # c
      <4> SUFFICES ASSUME NEW k \in 1 .. Len(p[m])
                   PROVE  IF k = Len(q[l]) + 1 THEN p[m][k][2] = c
                          ELSE k \in 1 .. Len(q[l]) /\ p[m][k] = q[l][k] /\ q[l][k][2] # c
        BY Zenon
      <4>1. CASE k = Len(q[l]) + 1
        BY <1>1, <1>5, <2>2, <4>1, Zenon
      <4>2. CASE k # Len(q[l]) + 1
        <5>1. k \in 1 .. Len(q[l])
          BY <1>5, <2>2, <4>2
        <5> QED
          BY <1>5, <1>7, <2>2, <4>2, <5>1, Zenon
      <4> QED
        BY <4>1, <4>2, Zenon
    <3>2. CASE i = Len(q[l]) + 1 \/ j = Len(q[l]) + 1
      <4>1. i = Len(q[l]) + 1 => j = Len(q[l]) + 1
        BY <1>10, <3>1, Zenon
      <4>2. j = Len(q[l]) + 1 => i = Len(q[l]) + 1
        BY <1>10, <3>1, Zenon
      <4> QED
        BY <3>2, <4>1, <4>2, Zenon
    <3>3. CASE i # Len(q[l]) + 1 /\ j # Len(q[l]) + 1
      <4>1. i \in 1 .. Len(q[l]) /\ j \in 1 .. Len(q[l]) /\ q[l][i][2] = q[l][j][2]
        BY <1>10, <3>1, <3>3, Zenon
      <4> QED
        BY <1>m2, <4>1, Zenon
    <3> QED
      BY <3>2, <3>3, Zenon
  <2> QED
    BY <2>1, <2>2, Zenon
<1>11. ASSUME NEW x \in Conns, NEW m \in Loops, NEW k \in Names, <<m, k>> \in d[x]
       PROVE  \E i \in 1 .. Len(p[m]) : p[m][i] = <<k, x>>
  <2>1. CASE x = c
    <3>1. m = l /\ k = n
      BY <1>8, <1>11, <2>1, Zenon
    <3>2. Len(q[l]) + 1 \in 1 .. Len(p[m]) /\ p[m][Len(q[l]) + 1] = <<k, x>>
      BY <1>5, <2>1, <3>1
    <3> QED
      BY <3>2, Zenon
  <2>2. CASE x # c
    <3>1. PICK i \in 1 .. Len(q[m]) : q[m][i] = <<k, x>>
      BY <1>m3, <1>8, <1>11, <2>2, Zenon
    <3>2. i \in 1 .. Len(p[m]) /\ p[m][i] = q[m][i]
      <4>1. CASE m = l
        BY <1>5, <3>1, <4>1
      <4>2. CASE m # l
        BY <1>6, <3>1, <4>2, Zenon
      <4> QED
        BY <4>1, <4>2, Zenon
    <3> QED
      BY <3>1, <3>2, Zenon
  <2> QED
    BY <2>1, <2>2, Zenon
<1>12. Matches(p, d)
  BY <1>9, <1>10, <1>11, Zenon DEF Matches
<1> QED
  BY <1>4, <1>12, Zenon DEF p, d

\* Running the functor at the front: its connection waits for that one, and then for none
\* (EventLoop::doPendingFunctors).
LEMMA RunningMatches ==
  ASSUME NEW q \in Queues, NEW due \in Dues, Matches(q, due), NEW l \in Loops, q[l] # <<>>
  PROVE  /\ Head(q[l])[1] \in Names /\ Head(q[l])[2] \in Conns
         /\ due[Head(q[l])[2]] = {<<l, Head(q[l])[1]>>}
         /\ WithoutFront(q, l) \in Queues /\ Matches(WithoutFront(q, l), NoneDue(due, Head(q[l])[2]))
<1> DEFINE c == Head(q[l])[2]
           p == [q EXCEPT ![l] = Tail(q[l])]
           d == [due EXCEPT ![c] = {}]
<1>m1. \A m \in Loops : \A i \in 1 .. Len(q[m]) : <<m, q[m][i][1]>> \in due[q[m][i][2]]
  BY Zenon DEF Matches
<1>m3. \A x \in Conns, m \in Loops, k \in Names : <<m, k>> \in due[x] => \E i \in 1 .. Len(q[m]) : q[m][i] = <<k, x>>
  BY Zenon DEF Matches
<1>1. \A m \in Loops : q[m] \in Seq(Functors)
  BY Zenon DEF Queues
<1>2. /\ Head(q[l]) = q[l][1] /\ 1 \in 1 .. Len(q[l]) /\ Len(q[l]) \in Nat /\ Head(q[l]) \in Functors
      /\ Tail(q[l]) \in Seq(Functors) /\ Len(Tail(q[l])) = Len(q[l]) - 1
      /\ \A i \in 1 .. Len(q[l]) - 1 : Tail(q[l])[i] = q[l][i + 1]
  BY <1>1
<1>3. Head(q[l])[1] \in Names /\ c \in Conns
  BY <1>2, Zenon DEF Functors, Names
<1>4. due[c] = {<<l, Head(q[l])[1]>>}
  <2>1. <<l, Head(q[l])[1]>> \in due[c]
    BY <1>m1, <1>2, Zenon
  <2> QED
    BY <1>3, <2>1 DEF Dues
<1>5. p \in Queues /\ p[l] = Tail(q[l]) /\ \A m \in Loops : m # l => p[m] = q[m]
  BY <1>2, Zenon DEF Queues
<1>6. d[c] = {} /\ \A x \in Conns : x # c => d[x] = due[x]
  BY <1>3, Zenon DEF Dues
\* No other functor of c is queued.
<1>7. \A m \in Loops : \A i \in 1 .. Len(q[m]) :
        q[m][i][2] \in Conns /\ (q[m][i][2] = c => m = l /\ i = 1)
  <2>1. ASSUME NEW m \in Loops, NEW i \in 1 .. Len(q[m]), q[m][i][2] = c PROVE m = l /\ i = 1
    <3>1. <<m, q[m][i][1]>> \in due[c]
      BY <2>1, Zenon DEF Matches
    <3>2. m = l
      BY <1>4, <3>1
    <3> QED
      BY <1>2, <2>1, <3>2 DEF Matches
  <2>2. \A m \in Loops : \A i \in 1 .. Len(q[m]) : q[m][i][2] \in Conns
    BY <1>1 DEF Functors
  <2> QED
    BY <2>1, <2>2, Zenon
\* Where a functor of the new queues was in the old ones.
<1>8. \A m \in Loops : \A i \in 1 .. Len(p[m]) :
        LET k == IF m = l THEN i + 1 ELSE i
        IN  k \in 1 .. Len(q[m]) /\ p[m][i] = q[m][k] /\ q[m][k][2] # c
  <2>1. ASSUME NEW m \in Loops, NEW i \in 1 .. Len(p[m]), m = l
        PROVE  i + 1 \in 1 .. Len(q[m]) /\ p[m][i] = q[m][i + 1] /\ q[m][i + 1][2] # c
    <3>1. i \in 1 .. Len(q[l]) - 1 /\ p[m][i] = q[m][i + 1] /\ i + 1 \in 1 .. Len(q[m]) /\ i + 1 # 1
      <4>1. Len(p[m]) = Len(q[l]) - 1 /\ p[m] = Tail(q[l])
        BY <1>2, <1>5, <2>1, Zenon
      <4>2. i \in 1 .. Len(q[l]) - 1
        BY <2>1, <4>1, Zenon
      <4>3. p[m][i] = q[m][i + 1]
        BY <1>2, <2>1, <4>1, <4>2, Zenon
      <4> HIDE DEF p
      <4> QED
        BY <1>2, <2>1, <4>2, <4>3
    <3> QED
      BY <1>7, <3>1, Zenon
  <2>2. ASSUME NEW m \in Loops, NEW i \in 1 .. Len(p[m]), m # l
        PROVE  i \in 1 .. Len(q[m]) /\ p[m][i] = q[m][i] /\ q[m][i][2] # c
    BY <1>5, <1>7, <2>2, Zenon
  <2> HIDE DEF p, c
  <2> QED
    BY <2>1, <2>2, Zenon
<1> HIDE DEF p, d, c
<1>9. ASSUME NEW m \in Loops, NEW i \in 1 .. Len(p[m]) PROVE <<m, p[m][i][1]>> \in d[p[m][i][2]]
  <2>1. PICK k \in 1 .. Len(q[m]) : p[m][i] = q[m][k] /\ q[m][k][2] # c
    BY <1>8, Zenon
  <2>2. d[q[m][k][2]] = due[q[m][k][2]]
    BY <1>6, <1>7, <2>1, Zenon
  <2> QED
    BY <1>m1, <2>1, <2>2, Zenon
<1>10. ASSUME NEW m \in Loops, NEW i \in 1 .. Len(p[m]), NEW j \in 1 .. Len(p[m]), p[m][i][2] = p[m][j][2]
       PROVE  i = j
  <2>1. CASE m = l
    <3>1. i + 1 \in 1 .. Len(q[m]) /\ j + 1 \in 1 .. Len(q[m]) /\ q[m][i + 1][2] = q[m][j + 1][2]
      BY <1>8, <1>10, <2>1, Zenon
    <3>2. i + 1 = j + 1
      BY <3>1, Zenon DEF Matches
    <3> QED
      BY <3>2
  <2>2. CASE m # l
    BY <1>8, <1>10, <2>2 DEF Matches
  <2> QED
    BY <2>1, <2>2, Zenon
<1>11. ASSUME NEW x \in Conns, NEW m \in Loops, NEW k \in Names, <<m, k>> \in d[x]
       PROVE  \E i \in 1 .. Len(p[m]) : p[m][i] = <<k, x>>
  <2>1. x # c /\ <<m, k>> \in due[x]
    BY <1>6, <1>11, Zenon
  <2>2. PICK i \in 1 .. Len(q[m]) : q[m][i] = <<k, x>>
    BY <1>m3, <2>1, Zenon
  <2>3. CASE m = l
    <3>1. i # 1
      BY <1>2, <2>1, <2>2, <2>3 DEF c
    <3>2. i - 1 \in 1 .. Len(q[l]) - 1 /\ i - 1 + 1 = i
      BY <1>2, <2>2, <2>3, <3>1
    <3>3. i - 1 \in 1 .. Len(p[m]) /\ p[m][i - 1] = <<k, x>>
      BY <1>2, <1>5, <2>2, <2>3, <3>2, Zenon
    <3> QED
      BY <3>3, Zenon
  <2>4. CASE m # l
    BY <1>5, <2>2, <2>4, Zenon
  <2> QED
    BY <2>3, <2>4, Zenon
<1>12. Matches(p, d)
  BY <1>9, <1>10, <1>11, Zenon DEF Matches
<1> QED
  BY <1>3, <1>4, <1>5, <1>12, Zenon DEF p, d, c, WithoutFront, NoneDue

------------------------------------------------------------------------------
(* The stages of a connection. *)

Existing == {"connecting", "connected", "disconnected"}
Live == {c \in Conns : conn[c] \in Existing}

\* The functor that a connection is waiting for, and the loop that is to run it.
DueOf ==
  [c \in Conns |->
     IF conn[c] = "connecting" THEN {<<loopOf[c], "connectEstablished">>}
     ELSE IF conn[c] # "disconnected" THEN {}
     ELSE IF c \in connections_ THEN {<<Base, "removeConnectionInLoop">>}
     ELSE {<<loopOf[c], "connectDestroyed">>}]

ClientsInv ==
  /\ arrived \in 0 .. MaxClients /\ waiting \in Nat /\ nextConnId_ \in Nat \ {0}
  /\ nextConnId_ - 1 + waiting <= arrived

\* A connection of another loop exists only if there are threads, and only such a one is ever
\* without its connectEstablished(), or closed and still in the map.
Stage(c) ==
  /\ c < nextConnId_ <=> conn[c] # "none"
  /\ conn[c] \in {"connecting", "connected"} => c \in connections_
  /\ c \in connections_ => conn[c] \in Existing
  /\ conn[c] = "connecting" \/ (conn[c] = "disconnected" /\ c \in connections_) => loopOf[c] # Base
  /\ loopOf[c] # Base => numThreads_ > 0

ConnInv ==
  /\ conn \in [Conns -> Existing \cup {"none", "gone"}]
  /\ loopOf \in [Conns -> Loops]
  /\ connections_ \subseteq Conns
  /\ pendingFunctors_ \in Queues
  /\ \A c \in Conns : Stage(c)
  /\ Matches(pendingFunctors_, DueOf)

\* DueOf names at most one functor of a connection.
LEMMA DueIsOne ==
  ASSUME ConnInv
  PROVE  /\ DueOf \in [Conns -> SUBSET (Loops \X Names)]
         /\ \A c \in Conns : \A x, y \in DueOf[c] : x = y
<1>1. Base \in Loops
  BY PoolAssumption DEF Base, Loops
<1>2. ASSUME NEW c \in Conns
      PROVE  DueOf[c] \in SUBSET (Loops \X Names) /\ \A x, y \in DueOf[c] : x = y
  <2>1. loopOf[c] \in Loops
    BY Zenon DEF ConnInv
  <2>2. /\ <<loopOf[c], "connectEstablished">> \in Loops \X Names
        /\ <<Base, "removeConnectionInLoop">> \in Loops \X Names
        /\ <<loopOf[c], "connectDestroyed">> \in Loops \X Names
    BY <1>1, <2>1, Zenon DEF Names
  <2> QED
    BY <2>2, Zenon DEF DueOf
<1>3. DueOf = [c \in Conns |-> DueOf[c]]
  BY Zenon DEF DueOf
<1> QED
  BY <1>2, <1>3, Zenon

\* newConnection(): the new connection is the first functor's of its id; with no threads it needs none.
LEMMA NewConnectionKeeps ==
  ASSUME PoolInv, ClientsInv, ConnInv, newConnection
  PROVE  ClientsInv' /\ ConnInv'
<1> DEFINE c == nextConnId_
<1>1. /\ waiting > 0 /\ waiting' = waiting - 1 /\ arrived' = arrived /\ nextConnId_' = nextConnId_ + 1
      /\ started_ /\ numThreads_' = numThreads_
  BY Zenon DEF newConnection, AcceptClient, Readable, getNextLoop, NextId
<1>2. c \in Conns
  BY <1>1, ServerAssumption DEF ClientsInv, Conns
<1>3. ClientsInv'
  BY <1>1, ServerAssumption DEF ClientsInv
<1>4. Chosen \in Loops /\ (Chosen # Base => numThreads_ > 0) /\ Base \in Loops
  BY <1>1, PoolAssumption DEF PoolInv, Balanced, Chosen, Loops, Base
<1>5. conn[c] = "none" /\ c \notin connections_ /\ DueOf[c] = {}
  BY <1>2 DEF ConnInv, Stage, ClientsInv, DueOf, Existing
<1>6. loopOf' = [loopOf EXCEPT ![c] = Chosen] /\ connections_' = connections_ \union {c}
  BY Zenon DEF newConnection, Inserted
<1>7. CASE Chosen = Base
  <2>1. conn' = [conn EXCEPT ![c] = "connected"] /\ pendingFunctors_' = pendingFunctors_
    BY <1>7, Zenon DEF newConnection
  <2>2. DueOf' = DueOf
    <3>1. ASSUME NEW x \in Conns PROVE DueOf'[x] = DueOf[x]
      <4>1. CASE x = c
        BY <1>2, <1>5, <2>1, <4>1, Zenon DEF DueOf, ConnInv
      <4>2. CASE x # c
        BY <1>6, <2>1, <4>2, Zenon DEF DueOf, ConnInv
      <4> QED
        BY <4>1, <4>2, Zenon
    <3> QED
      BY <3>1, Zenon DEF DueOf
  <2>3. ASSUME NEW x \in Conns PROVE Stage(x)'
    <3>1. CASE x = c
      BY <1>1, <1>2, <1>4, <1>6, <1>7, <2>1, <3>1 DEF ConnInv, Existing, ClientsInv, Stage
    <3>2. CASE x # c
      <4>1. conn'[x] = conn[x] /\ loopOf'[x] = loopOf[x] /\ (x \in connections_' <=> x \in connections_)
        BY <1>6, <2>1, <3>2, Zenon DEF ConnInv
      <4>2. x < nextConnId_' <=> x < nextConnId_
        BY <1>1, <3>2 DEF ClientsInv, Conns
      <4> QED
        BY <1>1, <4>1, <4>2, Zenon DEF ConnInv, Stage
    <3> QED
      BY <3>1, <3>2, Zenon
  <2>4. /\ conn' \in [Conns -> Existing \cup {"none", "gone"}] /\ loopOf' \in [Conns -> Loops]
        /\ connections_' \subseteq Conns /\ pendingFunctors_' \in Queues
    BY <1>2, <1>4, <1>6, <2>1, Zenon DEF ConnInv, Existing
  <2>5. Matches(pendingFunctors_', DueOf')
    BY <2>1, <2>2, Zenon DEF ConnInv
  <2> QED
    BY <1>3, <2>3, <2>4, <2>5, Zenon DEF ConnInv
<1>8. CASE Chosen # Base
  <2>1. /\ conn' = [conn EXCEPT ![c] = "connecting"]
        /\ pendingFunctors_' = Queued(pendingFunctors_, Chosen, "connectEstablished", c)
    BY <1>8, Zenon DEF newConnection
  <2>2. DueOf' = [DueOf EXCEPT ![c] = {<<Chosen, "connectEstablished">>}]
    <3>1. ASSUME NEW x \in Conns
          PROVE  DueOf'[x] = IF x = c THEN {<<Chosen, "connectEstablished">>} ELSE DueOf[x]
      <4>1. CASE x = c
        BY <1>2, <1>6, <2>1, <4>1, Zenon DEF DueOf, ConnInv
      <4>2. CASE x # c
        BY <1>6, <2>1, <4>2, Zenon DEF DueOf, ConnInv
      <4> QED
        BY <4>1, <4>2, Zenon
    <3> QED
      BY <3>1, Zenon DEF DueOf
  <2>3. ASSUME NEW x \in Conns PROVE Stage(x)'
    <3>1. CASE x = c
      BY <1>1, <1>2, <1>4, <1>6, <1>8, <2>1, <3>1 DEF ConnInv, Existing, ClientsInv, Stage
    <3>2. CASE x # c
      <4>1. conn'[x] = conn[x] /\ loopOf'[x] = loopOf[x] /\ (x \in connections_' <=> x \in connections_)
        BY <1>6, <2>1, <3>2, Zenon DEF ConnInv
      <4>2. x < nextConnId_' <=> x < nextConnId_
        BY <1>1, <3>2 DEF ClientsInv, Conns
      <4> QED
        BY <1>1, <4>1, <4>2, Zenon DEF ConnInv, Stage
    <3> QED
      BY <3>1, <3>2, Zenon
  <2>4. /\ conn' \in [Conns -> Existing \cup {"none", "gone"}] /\ loopOf' \in [Conns -> Loops]
        /\ connections_' \subseteq Conns
    BY <1>2, <1>4, <1>6, <2>1, Zenon DEF ConnInv, Existing
  <2>5. pendingFunctors_' \in Queues /\ Matches(pendingFunctors_', DueOf')
    <3>1. DueOf \in [Conns -> SUBSET (Loops \X Names)] /\ "connectEstablished" \in Names
      BY DueIsOne, Zenon DEF Names
    <3> QED
      BY <1>2, <1>4, <1>5, <2>1, <2>2, <3>1, QueueingMatches, Zenon DEF ConnInv
  <2> QED
    BY <1>3, <2>3, <2>4, <2>5, Zenon DEF ConnInv
<1> QED
  BY <1>7, <1>8, Zenon
\* handleClose() and removeConnection(), which queue one functor of the connection.
LEMMA CloseKeeps ==
  ASSUME ConnInv, NEW c \in Conns, Close(c)
  PROVE  ConnInv'
<1>1. /\ conn[c] = "connected" /\ conn' = [conn EXCEPT ![c] = "disconnected"]
      /\ loopOf' = loopOf /\ nextConnId_' = nextConnId_ /\ numThreads_' = numThreads_
  BY Zenon DEF Close, poolVars
<1>2. c \in connections_ /\ DueOf[c] = {} /\ loopOf[c] \in Loops /\ Base \in Loops
  BY <1>1, PoolAssumption DEF ConnInv, Stage, DueOf, Base, Loops
<1>3. DueOf \in [Conns -> SUBSET (Loops \X Names)] /\ "removeConnectionInLoop" \in Names /\ "connectDestroyed" \in Names
  BY DueIsOne, Zenon DEF Names
<1>4. conn' \in [Conns -> Existing \cup {"none", "gone"}] /\ loopOf' \in [Conns -> Loops]
  BY <1>1, Zenon DEF ConnInv, Existing
<1>5. \A x \in Conns : conn'[x] = IF x = c THEN "disconnected" ELSE conn[x]
  BY <1>1, Zenon DEF ConnInv
<1>6. CASE loopOf[c] = Base
  <2>1. connections_' = connections_ \ {c} /\ pendingFunctors_' = Queued(pendingFunctors_, loopOf[c], "connectDestroyed", c)
    BY <1>6, Zenon DEF Close, Destroying
  <2>2. DueOf' = [DueOf EXCEPT ![c] = {<<loopOf[c], "connectDestroyed">>}]
    <3>1. ASSUME NEW x \in Conns PROVE DueOf'[x] = IF x = c THEN {<<loopOf[c], "connectDestroyed">>} ELSE DueOf[x]
      <4>1. CASE x = c
        BY <1>1, <1>5, <2>1, <4>1 DEF DueOf
      <4>2. CASE x # c
        BY <1>1, <1>5, <2>1, <4>2, Zenon DEF DueOf
      <4> QED
        BY <4>1, <4>2, Zenon
    <3> QED
      BY <3>1, Zenon DEF DueOf
  <2>3. ASSUME NEW x \in Conns PROVE Stage(x)'
    BY <1>1, <1>5, <2>1, Zenon DEF ConnInv, Stage, Existing
  <2>4. pendingFunctors_' \in Queues /\ Matches(pendingFunctors_', DueOf')
    BY <1>2, <1>3, <2>1, <2>2, QueueingMatches, Zenon DEF ConnInv
  <2> QED
    BY <1>4, <2>1, <2>3, <2>4, Zenon DEF ConnInv
<1>7. CASE loopOf[c] # Base
  <2>1. connections_' = connections_ /\ pendingFunctors_' = Queued(pendingFunctors_, Base, "removeConnectionInLoop", c)
    BY <1>7, Zenon DEF Close, RemovalQueued
  <2>2. DueOf' = [DueOf EXCEPT ![c] = {<<Base, "removeConnectionInLoop">>}]
    <3>1. ASSUME NEW x \in Conns PROVE DueOf'[x] = IF x = c THEN {<<Base, "removeConnectionInLoop">>} ELSE DueOf[x]
      BY <1>1, <1>2, <1>5, <2>1 DEF DueOf
    <3> QED
      BY <3>1, Zenon DEF DueOf
  <2>3. ASSUME NEW x \in Conns PROVE Stage(x)'
    BY <1>1, <1>2, <1>5, <1>7, <2>1, Zenon DEF ConnInv, Stage, Existing
  <2>4. pendingFunctors_' \in Queues /\ Matches(pendingFunctors_', DueOf')
    BY <1>2, <1>3, <2>1, <2>2, QueueingMatches, Zenon DEF ConnInv
  <2> QED
    BY <1>4, <2>1, <2>3, <2>4, Zenon DEF ConnInv
<1> QED
  BY <1>6, <1>7, Zenon

\* The functor at the front of a queue finds its connection in the state it was queued for.
LEMMA FrontIsDue ==
  ASSUME ConnInv, NEW l \in Loops, pendingFunctors_[l] # <<>>
  PROVE  /\ Front(l)[2] \in Conns /\ DueOf[Front(l)[2]] = {<<l, Front(l)[1]>>}
         /\ Front(l)[1] = "connectEstablished" => conn[Front(l)[2]] = "connecting"
         /\ Front(l)[1] = "removeConnectionInLoop" =>
              /\ conn[Front(l)[2]] = "disconnected" /\ Front(l)[2] \in connections_
              /\ l = Base /\ loopOf[Front(l)[2]] # Base
         /\ Front(l)[1] = "connectDestroyed" => conn[Front(l)[2]] = "disconnected" /\ Front(l)[2] \notin connections_
         /\ Popped(l) \in Queues /\ Matches(Popped(l), [DueOf EXCEPT ![Front(l)[2]] = {}])
<1> DEFINE c == Front(l)[2]
<1>1. pendingFunctors_ \in Queues /\ Matches(pendingFunctors_, DueOf)
  BY Zenon DEF ConnInv
<1>2. c \in Conns /\ DueOf[c] = {<<l, Front(l)[1]>>} /\ Popped(l) \in Queues /\ Matches(Popped(l), [DueOf EXCEPT ![c] = {}])
  <2>1. DueOf \in Dues
    BY DueIsOne, Zenon DEF Dues
  <2>2. /\ Head(pendingFunctors_[l])[2] \in Conns
        /\ DueOf[Head(pendingFunctors_[l])[2]] = {<<l, Head(pendingFunctors_[l])[1]>>}
        /\ WithoutFront(pendingFunctors_, l) \in Queues
        /\ Matches(WithoutFront(pendingFunctors_, l), NoneDue(DueOf, Head(pendingFunctors_[l])[2]))
    BY <1>1, <2>1, RunningMatches, Zenon
  <2> QED
    BY <2>2, Zenon DEF Front, Popped, WithoutFront, NoneDue
<1> HIDE DEF c
<1>3. DueOf[c] = IF conn[c] = "connecting" THEN {<<loopOf[c], "connectEstablished">>}
                 ELSE IF conn[c] # "disconnected" THEN {}
                 ELSE IF c \in connections_ THEN {<<Base, "removeConnectionInLoop">>}
                 ELSE {<<loopOf[c], "connectDestroyed">>}
  BY <1>2, Zenon DEF DueOf
<1>4. Stage(c)
  BY <1>2, Zenon DEF ConnInv
<1>5. \/ conn[c] = "connecting" /\ Front(l)[1] = "connectEstablished"
      \/ conn[c] = "disconnected" /\ c \in connections_ /\ l = Base /\ Front(l)[1] = "removeConnectionInLoop"
      \/ conn[c] = "disconnected" /\ c \notin connections_ /\ Front(l)[1] = "connectDestroyed"
  <2>1. <<l, Front(l)[1]>> \in DueOf[c]
    BY <1>2, Zenon
  <2> QED
    BY <1>3, <2>1
<1> QED
  BY <1>2, <1>4, <1>5, Zenon DEF Stage, c

\* doPendingFunctors() of any loop.
LEMMA RunFunctorKeeps ==
  ASSUME ConnInv, NEW l \in Loops, RunFunctor(l)
  PROVE  ConnInv'
<1> DEFINE c == Front(l)[2]
           d == [DueOf EXCEPT ![c] = {}]
<1>1. /\ c \in Conns /\ DueOf[c] = {<<l, Front(l)[1]>>}
      /\ Front(l)[1] = "connectEstablished" => conn[c] = "connecting"
      /\ Front(l)[1] = "removeConnectionInLoop" =>
           conn[c] = "disconnected" /\ c \in connections_ /\ l = Base /\ loopOf[c] # Base
      /\ Front(l)[1] = "connectDestroyed" => conn[c] = "disconnected" /\ c \notin connections_
      /\ Popped(l) \in Queues /\ Matches(Popped(l), d)
  BY FrontIsDue, Zenon DEF RunFunctor
<1>2. loopOf' = loopOf /\ nextConnId_' = nextConnId_ /\ numThreads_' = numThreads_ /\ pendingFunctors_[l] # <<>>
  BY Zenon DEF RunFunctor, poolVars
<1>3. DueOf \in [Conns -> SUBSET (Loops \X Names)]
  BY DueIsOne, Zenon
<1> HIDE DEF c
<1>4. CASE /\ Front(l)[1] = "connectEstablished" /\ conn' = [conn EXCEPT ![c] = "connected"]
           /\ pendingFunctors_' = Popped(l) /\ connections_' = connections_
  <2>1. \A x \in Conns : conn'[x] = IF x = c THEN "connected" ELSE conn[x]
    BY <1>4, Zenon DEF ConnInv
  <2>2. DueOf' = d
    <3>1. ASSUME NEW x \in Conns PROVE DueOf'[x] = IF x = c THEN {} ELSE DueOf[x]
      BY <1>2, <1>4, <2>1 DEF DueOf
    <3> QED
      BY <3>1, Zenon DEF DueOf
  <2>3. ASSUME NEW x \in Conns PROVE Stage(x)'
    BY <1>1, <1>2, <1>4, <2>1, Zenon DEF ConnInv, Stage, Existing
  <2> QED
    BY <1>1, <1>2, <1>4, <2>2, <2>3, Zenon DEF ConnInv, Existing
<1>5. CASE /\ Front(l)[1] = "removeConnectionInLoop" /\ connections_' = connections_ \ {c}
           /\ pendingFunctors_' = [Destroying(c) EXCEPT ![l] = Tail(@)] /\ conn' = conn
  <2>1. loopOf[c] \in Loops /\ "connectDestroyed" \in Names
    BY <1>1, Zenon DEF ConnInv, Names
  <2>2. pendingFunctors_' = Queued(Popped(l), loopOf[c], "connectDestroyed", c)
    <3>1. pendingFunctors_ \in [Loops -> Seq(Functors)] /\ l # loopOf[c]
      BY <1>1, <1>5, Zenon DEF ConnInv, Queues
    <3> QED
      BY <1>5, <2>1, <3>1, Zenon DEF Destroying, Queued, Popped
  <2>3. /\ d \in [Conns -> SUBSET (Loops \X Names)] /\ d[c] = {}
        /\ [d EXCEPT ![c] = {<<loopOf[c], "connectDestroyed">>}] = [DueOf EXCEPT ![c] = {<<loopOf[c], "connectDestroyed">>}]
    BY <1>1, <1>3, Zenon
  <2>4. DueOf' = [DueOf EXCEPT ![c] = {<<loopOf[c], "connectDestroyed">>}]
    <3>1. ASSUME NEW x \in Conns PROVE DueOf'[x] = IF x = c THEN {<<loopOf[c], "connectDestroyed">>} ELSE DueOf[x]
      BY <1>1, <1>2, <1>5, Zenon DEF DueOf
    <3> QED
      BY <3>1, Zenon DEF DueOf
  <2>5. pendingFunctors_' \in Queues /\ Matches(pendingFunctors_', DueOf')
    <3> HIDE DEF d
    <3>1. /\ Queued(Popped(l), loopOf[c], "connectDestroyed", c) \in Queues
          /\ Matches(Queued(Popped(l), loopOf[c], "connectDestroyed", c), [d EXCEPT ![c] = {<<loopOf[c], "connectDestroyed">>}])
      BY <1>1, <2>1, <2>3, QueueingMatches, Zenon
    <3> QED
      BY <2>2, <2>3, <2>4, <3>1, Zenon
  <2>6. ASSUME NEW x \in Conns PROVE Stage(x)'
    BY <1>1, <1>2, <1>5, Zenon DEF ConnInv, Stage, Existing
  <2> QED
    BY <1>2, <1>5, <2>5, <2>6, Zenon DEF ConnInv
<1>6. CASE /\ Front(l)[1] = "connectDestroyed" /\ conn' = [conn EXCEPT ![c] = "gone"]
           /\ pendingFunctors_' = Popped(l) /\ connections_' = connections_
  <2>1. \A x \in Conns : conn'[x] = IF x = c THEN "gone" ELSE conn[x]
    BY <1>6, Zenon DEF ConnInv
  <2>2. DueOf' = d
    <3>1. ASSUME NEW x \in Conns PROVE DueOf'[x] = IF x = c THEN {} ELSE DueOf[x]
      BY <1>2, <1>6, <2>1 DEF DueOf
    <3> QED
      BY <3>1, Zenon DEF DueOf
  <2>3. ASSUME NEW x \in Conns PROVE Stage(x)'
    BY <1>1, <1>2, <1>6, <2>1, Zenon DEF ConnInv, Stage, Existing
  <2> QED
    BY <1>1, <1>2, <1>6, <2>2, <2>3, Zenon DEF ConnInv, Existing
<1> QED
  BY <1>4, <1>5, <1>6, Zenon DEF RunFunctor, c

\* ~TcpServer(): a connection in the map waits for no functor, so none finds it destroyed.
LEMMA DestructKeeps ==
  ASSUME ConnInv, Destruct
  PROVE  /\ ConnInv'
         /\ \A c \in Conns : conn'[c] = IF c \in connections_ THEN "gone" ELSE conn[c]
<1>1. /\ MayDestruct /\ conn' = [c \in Conns |-> DestructedOf(c)] /\ connections_' = {}
      /\ loopOf' = loopOf /\ nextConnId_' = nextConnId_ /\ numThreads_' = numThreads_ /\ pendingFunctors_' = pendingFunctors_
  BY Zenon DEF Destruct, poolVars
<1>2. \A c \in Conns : conn'[c] = IF c \in connections_ THEN "gone" ELSE conn[c]
  BY <1>1, Zenon DEF DestructedOf
<1>3. \A c \in connections_ : c \in Conns /\ conn[c] = "connected"
  BY <1>1, Zenon DEF MayDestruct, ConnInv, Stage, Existing
<1>4. DueOf' = DueOf
  <2>1. ASSUME NEW x \in Conns PROVE DueOf'[x] = DueOf[x]
    BY <1>1, <1>2, <1>3, Zenon DEF DueOf
  <2> QED
    BY <2>1, Zenon DEF DueOf
<1>5. ASSUME NEW x \in Conns PROVE Stage(x)'
  BY <1>1, <1>2, <1>3, Zenon DEF ConnInv, Stage, Existing
<1>6. conn' \in [Conns -> Existing \cup {"none", "gone"}]
  BY <1>1, Zenon DEF DestructedOf, ConnInv
<1>7. Matches(pendingFunctors_', DueOf')
  BY <1>1, <1>4, Zenon DEF ConnInv
<1> QED
  BY <1>1, <1>2, <1>5, <1>6, <1>7, Zenon DEF ConnInv
------------------------------------------------------------------------------
(* Descriptors. *)

\* Where handleRead() has got to tells what idleFd_ is.
DescriptorsInv ==
  /\ alive \in BOOLEAN /\ listenning_ \in BOOLEAN /\ free \in Nat
  /\ \/ reading = "no" /\ idleFd_ \in {"held", "lost", "closed"}
     \/ reading = "emfile" /\ idleFd_ \in {"held", "lost"}
     \/ reading = "accepted" /\ idleFd_ \in {"client", "lost"}
     \/ reading = "reopen" /\ idleFd_ = "lost"
  /\ idleFd_ = "closed" => ~listenning_ /\ ~alive
  /\ free = MaxFds - Cardinality(Live) + (IF idleFd_ \in {"held", "client"} THEN 0 ELSE 1)

ServerInv == PoolInv /\ ClientsInv /\ ConnInv /\ DescriptorsInv

\* There are finitely many connections.
LEMMA LiveIsFinite == IsFiniteSet(Live) /\ Cardinality(Live) \in Nat
<1>1. IsFiniteSet(Conns)
  BY ServerAssumption, FS_Interval DEF Conns
<1>2. IsFiniteSet(Live)
  BY <1>1, FS_Subset, Zenon DEF Live
<1> QED
  BY <1>2, FS_CardinalityType, Zenon

\* A server with no connections satisfies the invariant.
LEMMA ServerInvInit == Init => ServerInv
<1> SUFFICES ASSUME Init PROVE ServerInv
  BY Zenon
<1>1. /\ alive = TRUE /\ nextConnId_ = 1 /\ connections_ = {} /\ arrived = 0
      /\ conn = [c \in Conns |-> "none"] /\ loopOf = [c \in Conns |-> Base]
      /\ pendingFunctors_ = [l \in Loops |-> <<>>]
      /\ listenning_ = FALSE /\ idleFd_ = "held" /\ free = MaxFds /\ waiting = 0 /\ reading = "no"
  BY Zenon DEF Init, AcceptorInit
<1>2. ClientsInv
  BY <1>1, ServerAssumption DEF ClientsInv
<1>3. Live = {} /\ DueOf = [c \in Conns |-> {}] /\ Base \in Loops
  BY <1>1, PoolAssumption DEF Live, DueOf, Existing, Base, Loops
<1>4. ConnInv
  <2>1. Matches(pendingFunctors_, DueOf)
    <3>1. \A l \in Loops : Len(pendingFunctors_[l]) = 0
      BY <1>1, Zenon
    <3> QED
      BY <1>3, <3>1 DEF Matches
  <2>2. pendingFunctors_ \in Queues
    BY <1>1 DEF Queues
  <2> QED
    BY <1>1, <1>3, <2>1, <2>2 DEF ConnInv, Stage, Conns
<1>5. DescriptorsInv
  <2>1. Cardinality(Live) = 0
    BY <1>3, FS_EmptySet, Zenon
  <2>2. alive \in BOOLEAN /\ listenning_ \in BOOLEAN /\ alive
    BY <1>1, Zenon
  <2>3. free \in Nat /\ free = MaxFds - Cardinality(Live) + 0
    BY <1>1, <2>1, ServerAssumption
  <2> QED
    BY <1>1, <2>2, <2>3, Zenon DEF DescriptorsInv
<1> QED
  BY <1>2, <1>4, <1>5, PoolInvInit, Zenon DEF ServerInv

\* Steps of Acceptor::handleRead() other than newConnection(): no connection changes.
LEMMA AcceptorKeeps ==
  ASSUME ServerInv, AcceptAborted \/ AcceptFails \/ TakeClient \/ TurnAway \/ Reopen,
         UNCHANGED <<alive, nextConnId_, conn, arrived>>
  PROVE  ClientsInv' /\ DescriptorsInv'
<1>1. alive' = alive /\ nextConnId_' = nextConnId_ /\ conn' = conn /\ arrived' = arrived
  BY Zenon
<1>2. Live' = Live
  BY <1>1, Zenon DEF Live
<1>3. Cardinality(Live) \in Nat
  BY LiveIsFinite, Zenon
<1>4. waiting' = waiting \/ (waiting' = waiting - 1 /\ waiting > 0)
  BY Zenon DEF AcceptAborted, AcceptFails, TakeClient, TurnAway, Reopen, Readable
<1>5. ClientsInv'
  BY <1>1, <1>4, ServerAssumption DEF ServerInv, ClientsInv
<1> DEFINE idle(f) == IF f \in {"held", "client"} THEN 0 ELSE 1
           used == Cardinality(Live)
<1>a. /\ alive \in BOOLEAN /\ listenning_ \in BOOLEAN /\ free \in Nat /\ free = MaxFds - used + idle(idleFd_)
      /\ idleFd_ = "closed" => ~listenning_ /\ ~alive
      /\ \/ reading = "no" /\ idleFd_ \in {"held", "lost", "closed"}
         \/ reading = "emfile" /\ idleFd_ \in {"held", "lost"}
         \/ reading = "accepted" /\ idleFd_ \in {"client", "lost"}
         \/ reading = "reopen" /\ idleFd_ = "lost"
  BY Zenon DEF ServerInv, DescriptorsInv
<1>b. used \in Nat /\ Cardinality(Live') = used
  BY <1>2, <1>3, Zenon
<1> HIDE DEF used
<1>u. listenning_' = listenning_
  BY Zenon DEF AcceptAborted, AcceptFails, TakeClient, TurnAway, Reopen
<1>f. free' \in Nat /\ free' = MaxFds - used + idle(idleFd_')
  <2>1. CASE AcceptAborted \/ AcceptFails
    BY <1>a, <2>1, Zenon DEF AcceptAborted, AcceptFails
  <2>2. CASE TakeClient
    <3>1. idleFd_ = "held" \/ idleFd_ = "lost"
      BY <1>a, <2>2, Zenon DEF TakeClient
    <3>2. CASE idleFd_ = "held"
      BY <1>a, <1>b, <2>2, <3>2, ServerAssumption DEF TakeClient
    <3>3. CASE idleFd_ = "lost"
      BY <1>a, <1>b, <2>2, <3>3, ServerAssumption DEF TakeClient
    <3> QED
      BY <3>1, <3>2, <3>3, Zenon
  <2>3. CASE TurnAway
    BY <1>a, <1>b, <2>3, ServerAssumption DEF TurnAway
  <2>4. CASE Reopen
    BY <1>a, <1>b, <2>4, ServerAssumption DEF Reopen
  <2> QED
    BY <2>1, <2>2, <2>3, <2>4, Zenon
<1>i. /\ idleFd_' = "closed" => idleFd_ = "closed"
      /\ \/ reading' = "no" /\ idleFd_' \in {"held", "lost", "closed"}
         \/ reading' = "emfile" /\ idleFd_' \in {"held", "lost"}
         \/ reading' = "accepted" /\ idleFd_' \in {"client", "lost"}
         \/ reading' = "reopen" /\ idleFd_' = "lost"
  BY <1>a, Zenon DEF AcceptAborted, AcceptFails, TakeClient, TurnAway, Reopen, Readable
<1>6. DescriptorsInv'
  BY <1>1, <1>a, <1>b, <1>u, <1>f, <1>i DEF DescriptorsInv
<1> QED
  BY <1>5, <1>6, Zenon

\* Every step keeps the descriptors balanced.
LEMMA ServerInvNext ==
  ASSUME ServerInv, [Next]_vars
  PROVE  ServerInv'
<1>1. PoolInv'
  BY PoolInvNext, Zenon DEF ServerInv
<1>2. Cardinality(Live) \in Nat /\ IsFiniteSet(Live)
  BY LiveIsFinite, Zenon
<1>3. CASE start \/ UNCHANGED vars
  <2>1. UNCHANGED <<serverVars, idleFd_, free, waiting, reading, numThreads_>>
    BY <1>3, Zenon DEF start, vars, startPool, listen, acceptorVars, poolVars
  <2>2. UNCHANGED <<alive, nextConnId_, connections_, conn, loopOf, pendingFunctors_, arrived>>
    BY <2>1, Zenon DEF serverVars
  <2>3. listenning_' \in BOOLEAN /\ (listenning_' => listenning_ \/ alive)
    <3>1. CASE start
      BY <3>1, Zenon DEF start, listen
    <3>2. CASE UNCHANGED vars
      <4>1. listenning_' = listenning_
        BY <3>2, Zenon DEF vars, acceptorVars
      <4> QED
        BY <4>1, Zenon DEF ServerInv, DescriptorsInv
    <3> QED
      BY <1>3, <3>1, <3>2, Zenon
  <2>4. Live' = Live /\ DueOf' = DueOf
    BY <2>2, Zenon DEF Live, DueOf
  <2>5. ConnInv'
    BY <2>1, <2>2, <2>4, Zenon DEF ServerInv, ConnInv, Stage
  <2>6. ClientsInv' /\ DescriptorsInv'
    BY <2>1, <2>2, <2>3, <2>4, Zenon DEF ServerInv, ClientsInv, DescriptorsInv
  <2> QED
    BY <1>1, <2>5, <2>6, Zenon DEF ServerInv
<1>4. CASE ClientConnects
  <2>1. /\ UNCHANGED <<alive, nextConnId_, connections_, conn, loopOf, pendingFunctors_, listenning_, idleFd_, free, reading, numThreads_>>
        /\ arrived < MaxClients /\ arrived' = arrived + 1 /\ waiting' = waiting + 1
    BY <1>4, Zenon DEF ClientConnects, poolVars
  <2>2. Live' = Live /\ DueOf' = DueOf
    BY <2>1, Zenon DEF Live, DueOf
  <2>3. ConnInv'
    BY <2>1, <2>2, Zenon DEF ServerInv, ConnInv, Stage
  <2>4. ClientsInv'
    BY <2>1, ServerAssumption DEF ServerInv, ClientsInv
  <2>5. DescriptorsInv'
    BY <2>1, <2>2, Zenon DEF ServerInv, DescriptorsInv
  <2> QED
    BY <1>1, <2>3, <2>4, <2>5, Zenon DEF ServerInv
<1>5. CASE newConnection
  <2>1. ClientsInv' /\ ConnInv'
    BY <1>5, NewConnectionKeeps, Zenon DEF ServerInv
  <2>2. /\ free > 0 /\ free' = free - 1 /\ UNCHANGED <<alive, listenning_, idleFd_, reading>>
        /\ waiting > 0
    BY <1>5, Zenon DEF newConnection, AcceptClient, Readable
  <2>3. nextConnId_ \in Conns /\ conn[nextConnId_] = "none"
    BY <2>2, ServerAssumption DEF ServerInv, ClientsInv, ConnInv, Stage, Conns
  <2>4. conn' = [conn EXCEPT ![nextConnId_] = "connected"] \/ conn' = [conn EXCEPT ![nextConnId_] = "connecting"]
    BY <1>5, Zenon DEF newConnection
  <2>5. Live' = Live \cup {nextConnId_} /\ nextConnId_ \notin Live
    BY <2>3, <2>4, Zenon DEF Live, Existing, ServerInv, ConnInv
  <2>6. Cardinality(Live') = Cardinality(Live) + 1
    BY <1>2, <2>5, FS_AddElement, Zenon
  <2>7. DescriptorsInv'
    BY <1>2, <2>2, <2>6, ServerAssumption DEF ServerInv, DescriptorsInv
  <2> QED
    BY <1>1, <2>1, <2>7, Zenon DEF ServerInv
<1>6. CASE (AcceptAborted \/ AcceptFails \/ TakeClient \/ TurnAway \/ Reopen) /\ UNCHANGED <<poolVars, serverVars>>
  <2>1. UNCHANGED <<alive, nextConnId_, connections_, conn, loopOf, pendingFunctors_, arrived, numThreads_>>
    BY <1>6, Zenon DEF serverVars, poolVars
  <2>2. DueOf' = DueOf
    BY <2>1, Zenon DEF DueOf
  <2>3. ConnInv'
    BY <2>1, <2>2, Zenon DEF ServerInv, ConnInv, Stage
  <2> QED
    BY <1>1, <1>6, <2>1, <2>3, AcceptorKeeps, Zenon DEF ServerInv
<1>7. ASSUME NEW c \in Conns, Close(c) PROVE ServerInv'
  <2>1. ConnInv'
    BY <1>7, CloseKeeps, Zenon DEF ServerInv
  <2>2. /\ UNCHANGED <<alive, nextConnId_, arrived, listenning_, idleFd_, free, waiting, reading>>
        /\ conn[c] = "connected" /\ conn' = [conn EXCEPT ![c] = "disconnected"]
    BY <1>7, Zenon DEF Close, acceptorVars
  <2>3. Live' = Live
    BY <2>2, Zenon DEF Live, Existing, ServerInv, ConnInv
  <2>4. ClientsInv' /\ DescriptorsInv'
    BY <2>2, <2>3, Zenon DEF ServerInv, ClientsInv, DescriptorsInv
  <2> QED
    BY <1>1, <2>1, <2>4, Zenon DEF ServerInv
<1>8. ASSUME NEW l \in Loops, RunFunctor(l) PROVE ServerInv'
  <2>1. ConnInv'
    BY <1>8, RunFunctorKeeps, Zenon DEF ServerInv
  <2>2. UNCHANGED <<alive, nextConnId_, arrived, listenning_, idleFd_, waiting, reading>>
    BY <1>8, Zenon DEF RunFunctor
  <2> DEFINE c == Front(l)[2]
  <2>3. /\ c \in Conns
        /\ Front(l)[1] = "connectEstablished" => conn[c] = "connecting"
        /\ Front(l)[1] = "connectDestroyed" => conn[c] = "disconnected"
    BY <1>8, FrontIsDue, Zenon DEF ServerInv, RunFunctor
  <2>4. \/ Front(l)[1] = "connectEstablished" /\ conn' = [conn EXCEPT ![c] = "connected"] /\ free' = free
        \/ conn' = conn /\ free' = free
        \/ Front(l)[1] = "connectDestroyed" /\ conn' = [conn EXCEPT ![c] = "gone"] /\ free' = free + 1
    BY <1>8, Zenon DEF RunFunctor
  <2> HIDE DEF c
  <2>5. \/ Live' = Live /\ free' = free
        \/ c \in Live /\ Live' = Live \ {c} /\ free' = free + 1
    BY <2>3, <2>4, Zenon DEF Live, Existing, ServerInv, ConnInv
  <2>6. free' = MaxFds - Cardinality(Live') + (IF idleFd_ \in {"held", "client"} THEN 0 ELSE 1) /\ free' \in Nat
    <3>1. CASE Live' = Live /\ free' = free
      BY <3>1, Zenon DEF ServerInv, DescriptorsInv
    <3>2. CASE c \in Live /\ Live' = Live \ {c} /\ free' = free + 1
      <4>1. Cardinality(Live') = Cardinality(Live) - 1
        BY <1>2, <3>2, FS_RemoveElement, Zenon
      <4> QED
        BY <1>2, <3>2, <4>1, ServerAssumption DEF ServerInv, DescriptorsInv
    <3> QED
      BY <2>5, <3>1, <3>2, Zenon
  <2>7. ClientsInv' /\ DescriptorsInv'
    BY <2>2, <2>6, Zenon DEF ServerInv, ClientsInv, DescriptorsInv
  <2> QED
    BY <1>1, <2>1, <2>7, Zenon DEF ServerInv
<1>9. CASE Destruct
  <2>1. /\ ConnInv' /\ \A c \in Conns : conn'[c] = IF c \in connections_ THEN "gone" ELSE conn[c]
    BY <1>9, DestructKeeps, Zenon DEF ServerInv
  <2> DEFINE freed == {c \in Conns : conn'[c] = "gone" /\ conn[c] # "gone"}
  <2>2. /\ reading = "no" /\ reading' = reading /\ listenning_' = FALSE /\ waiting' = 0 /\ idleFd_' = "closed" /\ alive' = FALSE
        /\ free' = free + Cardinality(freed) + (IF idleFd_ = "held" THEN 1 ELSE 0)
        /\ UNCHANGED <<nextConnId_, arrived>>
    BY <1>9, Zenon DEF Destruct, DestructAcceptor
  <2>3. freed \subseteq Live /\ Live' = Live \ freed
    BY <2>1, Zenon DEF Live, Existing, ServerInv, ConnInv, Stage
  <2> HIDE DEF freed
  <2>4. IsFiniteSet(freed) /\ Cardinality(freed) \in Nat
    BY <1>2, <2>3, FS_Subset, FS_CardinalityType, Zenon
  <2>5. Cardinality(Live') = Cardinality(Live) - Cardinality(freed)
    <3>1. Live \cap freed = freed
      BY <2>3, Zenon
    <3>2. Cardinality(Live \ freed) = Cardinality(Live) - Cardinality(Live \cap freed)
      BY <1>2, <2>4, FS_Difference, Zenon
    <3> QED
      BY <2>3, <3>1, <3>2, Zenon
  <2>6. ClientsInv'
    BY <2>2, ServerAssumption DEF ServerInv, ClientsInv
  <2>7. free' \in Nat /\ free' = MaxFds - Cardinality(Live') + 1
    <3>1. idleFd_ # "client" /\ idleFd_ # "closed"
      BY <2>2, <1>9, Zenon DEF ServerInv, DescriptorsInv, Destruct
    <3>2. free \in Nat /\ free = MaxFds - Cardinality(Live) + (IF idleFd_ = "held" THEN 0 ELSE 1)
      BY <3>1, Zenon DEF ServerInv, DescriptorsInv
    <3> QED
      BY <1>2, <2>2, <2>4, <2>5, <3>2, ServerAssumption
  <2>8. alive' \in BOOLEAN /\ listenning_' \in BOOLEAN /\ ~listenning_' /\ ~alive'
    BY <2>2, Zenon
  <2>9. DescriptorsInv'
    BY <2>2, <2>7, <2>8, Zenon DEF DescriptorsInv
  <2> QED
    BY <1>1, <2>1, <2>6, <2>9, Zenon DEF ServerInv
<1> QED
  BY <1>3, <1>4, <1>5, <1>6, <1>7, <1>8, <1>9, Zenon DEF Next, handleRead
------------------------------------------------------------------------------
(* What the invariant says about the map, the queues and the descriptors. *)

\* A functor waits for a connection in one place if it is due, and nowhere if it is not.
LEMMA PlacesOfDue ==
  ASSUME ConnInv, NEW c \in Conns, NEW name \in Names
  PROVE  /\ (\A l \in Loops : <<l, name>> \notin DueOf[c]) => Count(name, c) = 0
         /\ (\E l \in Loops : <<l, name>> \in DueOf[c]) => Count(name, c) = 1
<1> DEFINE q == pendingFunctors_
<1>m1. \A l \in Loops : \A i \in 1 .. Len(q[l]) : <<l, q[l][i][1]>> \in DueOf[q[l][i][2]]
  BY Zenon DEF ConnInv, Matches
<1>m2. \A l \in Loops : \A i, j \in 1 .. Len(q[l]) : q[l][i][2] = q[l][j][2] => i = j
  BY Zenon DEF ConnInv, Matches
<1>m3. \A l \in Loops : <<l, name>> \in DueOf[c] => \E i \in 1 .. Len(q[l]) : q[l][i] = <<name, c>>
  BY ZenonT(30) DEF ConnInv, Matches
<1>1. \A x, y \in DueOf[c] : x = y
  BY DueIsOne, Zenon
<1>2. \A l \in Loops : DOMAIN q[l] = 1 .. Len(q[l])
  BY DEF ConnInv, Queues
<1>3. Places(name, c) = {at \in UNION {{l} \X DOMAIN q[l] : l \in Loops} : q[at[1]][at[2]] = <<name, c>>}
  BY Zenon DEF Places
<1>4. ASSUME NEW at \in Places(name, c)
      PROVE  /\ at = <<at[1], at[2]>> /\ at[1] \in Loops /\ at[2] \in 1 .. Len(q[at[1]])
             /\ q[at[1]][at[2]] = <<name, c>>
             /\ <<at[1], name>> \in DueOf[c]
  <2>1. PICK l \in Loops : at \in {l} \X DOMAIN q[l]
    BY <1>3, Zenon
  <2>2. at = <<at[1], at[2]>> /\ at[1] = l /\ at[2] \in DOMAIN q[l] /\ q[at[1]][at[2]] = <<name, c>>
    BY <1>3, <2>1
  <2>3. at[2] \in 1 .. Len(q[l])
    BY <1>2, <2>2, Zenon
  <2>4. q[l][at[2]][1] = name /\ q[l][at[2]][2] = c
    BY <2>2
  <2>5. <<l, q[l][at[2]][1]>> \in DueOf[q[l][at[2]][2]]
    BY <1>m1, <2>3, Zenon
  <2> QED
    BY <2>2, <2>3, <2>4, <2>5, Zenon
<1>5. ASSUME \A l \in Loops : <<l, name>> \notin DueOf[c] PROVE Count(name, c) = 0
  <2>1. Places(name, c) = {}
    BY <1>4, <1>5, Zenon
  <2> QED
    BY <2>1, FS_EmptySet, Zenon DEF Count
<1>6. ASSUME NEW l \in Loops, <<l, name>> \in DueOf[c] PROVE Count(name, c) = 1
  <2>1. PICK i \in 1 .. Len(q[l]) : q[l][i] = <<name, c>>
    BY <1>m3, <1>6, Zenon
  <2>2. <<l, i>> \in Places(name, c)
    <3>1. <<l, i>> \in {l} \X DOMAIN q[l]
      BY <1>2, Zenon
    <3>2. <<l, i>> \in UNION {{k} \X DOMAIN q[k] : k \in Loops}
      BY <3>1, Zenon
    <3> QED
      BY <1>3, <2>1, <3>2, Zenon
  <2>3. ASSUME NEW at \in Places(name, c) PROVE at = <<l, i>>
    <3>1. <<at[1], name>> = <<l, name>>
      BY <1>1, <1>4, <1>6, Zenon
    <3>2. at[1] = l
      BY <3>1, Zenon
    <3>3. at[2] \in 1 .. Len(q[l]) /\ q[l][at[2]] = <<name, c>>
      BY <1>4, <3>2, Zenon
    <3>4. q[l][at[2]][2] = q[l][i][2]
      BY <2>1, <3>3, Zenon
    <3>5. at[2] = i
      BY <1>m2, <3>3, <3>4, Zenon
    <3> QED
      BY <1>4, <3>2, <3>5, Zenon
  <2>4. Places(name, c) = {<<l, i>>}
    BY <2>2, <2>3, Zenon
  <2> QED
    BY <2>4, FS_Singleton, Zenon DEF Count
<1> QED
  BY <1>5, <1>6, Zenon

\* The map and the queues agree.
LEMMA ConnInvIsExact == ConnInv => MapIsExact
<1> SUFFICES ASSUME ConnInv, NEW c \in Conns
    PROVE  /\ Count("removeConnectionInLoop", c) <= (IF c \in connections_ THEN 1 ELSE 0)
           /\ c \in connections_ <=> conn[c] \in {"connecting", "connected", "disconnected"} /\ Count("connectDestroyed", c) = 0
           /\ Count("connectDestroyed", c) <= 1
           /\ Count("connectDestroyed", c) = 1 => conn[c] = "disconnected"
  BY Zenon DEF MapIsExact
<1>1. Stage(c) /\ conn[c] \in Existing \cup {"none", "gone"} /\ loopOf[c] \in Loops /\ Base \in Loops
  BY PoolAssumption DEF ConnInv, Base, Loops
<1>2. Count("removeConnectionInLoop", c) = IF conn[c] = "disconnected" /\ c \in connections_ THEN 1 ELSE 0
  <2>1. CASE conn[c] = "disconnected" /\ c \in connections_
    <3>1. <<Base, "removeConnectionInLoop">> \in DueOf[c]
      BY <2>1, Zenon DEF DueOf
    <3> QED
      BY <1>1, <2>1, <3>1, PlacesOfDue, Zenon DEF Names
  <2>2. CASE ~(conn[c] = "disconnected" /\ c \in connections_)
    <3>1. \A l \in Loops : <<l, "removeConnectionInLoop">> \notin DueOf[c]
      BY <2>2, Zenon DEF DueOf
    <3> QED
      BY <2>2, <3>1, PlacesOfDue, Zenon DEF Names
  <2> QED
    BY <2>1, <2>2, Zenon
<1>3. Count("connectDestroyed", c) = IF conn[c] = "disconnected" /\ c \notin connections_ THEN 1 ELSE 0
  <2>1. CASE conn[c] = "disconnected" /\ c \notin connections_
    <3>1. <<loopOf[c], "connectDestroyed">> \in DueOf[c]
      BY <2>1, Zenon DEF DueOf
    <3> QED
      BY <1>1, <2>1, <3>1, PlacesOfDue, Zenon DEF Names
  <2>2. CASE ~(conn[c] = "disconnected" /\ c \notin connections_)
    <3>1. \A l \in Loops : <<l, "connectDestroyed">> \notin DueOf[c]
      BY <2>2, Zenon DEF DueOf
    <3> QED
      BY <2>2, <3>1, PlacesOfDue, Zenon DEF Names
  <2> QED
    BY <2>1, <2>2, Zenon
<1> QED
  BY <1>1, <1>2, <1>3 DEF Stage, Existing

\* The descriptors balance, and every variable keeps its type.
LEMMA ServerInvBalances == ServerInv => DescriptorsBalance
<1> SUFFICES ASSUME ServerInv PROVE DescriptorsBalance
  BY Zenon
<1>1. Cardinality(Live) \in Nat
  BY LiveIsFinite, Zenon
<1>2. free = MaxFds - Cardinality(Live) + (IF idleFd_ \in {"held", "client"} THEN 0 ELSE 1) /\ free \in Nat
  BY Zenon DEF ServerInv, DescriptorsInv
<1>3. free \in 0 .. MaxFds + 1
  BY <1>1, <1>2, ServerAssumption
<1>4. PoolTypeOK
  <2>1. next_ \in 0 .. MaxThreads
    BY PoolAssumption DEF ServerInv, PoolInv, Balanced
  <2> QED
    BY <2>1, Zenon DEF ServerInv, PoolInv, PoolTypeOK
<1>5. waiting \in 0 .. MaxClients /\ nextConnId_ \in 1 .. MaxClients + 1 /\ arrived \in 0 .. MaxClients
  BY ServerAssumption DEF ServerInv, ClientsInv
<1>6. connections_ \subseteq 1 .. nextConnId_ - 1
  <2> SUFFICES ASSUME NEW c \in connections_ PROVE c \in 1 .. nextConnId_ - 1
    BY Zenon
  <2>1. c \in Conns /\ c < nextConnId_
    BY Zenon DEF ServerInv, ConnInv, Stage, Existing
  <2> QED
    BY <1>5, <2>1, ServerAssumption DEF Conns
<1>7. /\ conn \in [Conns -> {"none", "connecting", "connected", "disconnected", "gone"}]
      /\ loopOf \in [Conns -> Loops] /\ pendingFunctors_ \in [Loops -> Seq(Functors)]
  <2>1. Existing \cup {"none", "gone"} = {"none", "connecting", "connected", "disconnected", "gone"}
    BY Zenon DEF Existing
  <2> QED
    BY <2>1, Zenon DEF ServerInv, ConnInv, Queues
<1>8. /\ listenning_ \in BOOLEAN /\ idleFd_ \in {"held", "lost", "client", "closed"} /\ alive \in BOOLEAN
      /\ reading \in {"no", "emfile", "accepted", "reopen"}
  BY Zenon DEF ServerInv, DescriptorsInv
<1>9. TypeOK
  BY <1>3, <1>4, <1>5, <1>6, <1>7, <1>8, Zenon DEF TypeOK
<1>10. Live = {c \in Conns : conn[c] \in {"connecting", "connected", "disconnected"}}
  BY Zenon DEF Live, Existing
<1> QED
  BY <1>2, <1>9, <1>10, Zenon DEF DescriptorsBalance

\* TcpServer and Acceptor: whatever order the loops run their functors in, the map holds exactly the
\* connections that are not on their way to connectDestroyed(), each of those is destroyed once, and
\* every descriptor is free, idleFd_, or the socket of a connection that exists
\* (TcpServer.cc:75-135, Acceptor.cc:68-94).
THEOREM ConnectionsAlwaysBalance == Spec => []ConnectionsBalance
<1>1. ServerInv => ConnectionsBalance
  BY ConnInvIsExact, ServerInvBalances, Zenon DEF ServerInv, ConnectionsBalance
<1> QED
  BY <1>1, ServerInvInit, ServerInvNext, PTL DEF Spec
=============================================================================
