---------------------------- MODULE ThreadProofs ----------------------------
(***************************************************************************)
(* LatchIsExact for any number of threads that share a CountDownLatch,     *)
(* ObjectOutlivesUse for a Thread, whose start() waits for one, and the    *)
(* order in which tasks leave a ThreadPool and items leave a queue.  For   *)
(* the latch the inductive invariant adds that count_ is the number of     *)
(* threads that have yet to count down, that whoever has left the loop in  *)
(* wait() has seen it at zero, and where exactly holder_ is set; for the   *)
(* pool, that what was accepted is what was taken followed by what waits.  *)
(***************************************************************************)
EXTENDS CountDownLatch, Thread, ThreadPool, FiniteSetTheorems, TLAPS

Done == {"leave", "unlock", "after"}
Pending == {c \in Counters : at[c] \notin Done}

LatchInv ==
  /\ LatchTypeOK
  /\ \A t \in Threads : at[t] \in Owning <=> mutex_ = t
  /\ \A t \in Threads : at[t] \in Inside <=> holder_ = t
  /\ \A c \in Counters : at[c] \notin {"reassign", "sleep", "asleep", "awake"}
  /\ \A w \in Waiters : at[w] \in Done => count_ = 0
  /\ count_ = Cardinality(Pending)

\* When no thread's call is counted or uncounted, neither is their number changed.
LEMMA PendingStays ==
  ASSUME \A c \in Counters : at'[c] \in Done <=> at[c] \in Done
  PROVE  Pending' = Pending
BY Zenon DEF Pending

\* The set of threads that have not counted down is finite, so that it has a size.
LEMMA PendingFinite == IsFiniteSet(Pending) /\ Cardinality(Pending) \in Nat
<1>1. Pending \subseteq Counters
  BY Zenon DEF Pending
<1>2. IsFiniteSet(Pending)
  BY <1>1, LatchAssumption, FS_Subset, Zenon
<1> QED
  BY <1>2, FS_CardinalityType, Zenon

\* The invariant is what LatchIsExact says: a count of zero means that nobody has yet to count down.
LEMMA LatchInvImplies == LatchInv => LatchIsExact
<1> SUFFICES ASSUME LatchInv
             PROVE  LatchIsExact
  BY Zenon
<1>1. count_ = 0 => \A c \in Counters : at[c] \in Done
  BY PendingFinite, FS_EmptySet, Zenon DEF LatchInv, Pending
<1>2. holder_ # Nobody => mutex_ = holder_
  BY Zenon DEF LatchInv, LatchTypeOK, Inside, Owning
<1> QED
  BY <1>1, <1>2, Zenon DEF LatchInv, LatchIsExact, Done

\* The constructor of CountDownLatch and a free MutexLock satisfy the invariant.
LEMMA LatchInvInit == LatchInit => LatchInv
<1> SUFFICES ASSUME LatchInit
             PROVE  LatchInv
  BY Zenon
<1>1. Pending = Counters
  BY Zenon DEF LatchInit, Pending, Done, Threads
<1>2. Cardinality(Counters) \in Nat
  BY LatchAssumption, FS_CardinalityType, Zenon
<1>3. LatchTypeOK
  BY <1>2 DEF LatchInit, LatchTypeOK, Places
<1> QED
  BY <1>1, <1>3, LatchAssumption, Zenon DEF LatchInit, LatchInv, Done, Threads, Owning, Inside

\* countDown() takes one thread from those that have yet to count down.
LEMMA CountsDown ==
  ASSUME LatchInv, NEW t \in Threads, countDown(t)
  PROVE  /\ count_' = Cardinality(Pending')
         /\ count_' \in 0 .. Cardinality(Counters)
<1>1. t \in Pending
  BY Zenon DEF countDown, Pending, Done
<1>2. Pending' = Pending \ {t}
  BY LatchAssumption, Zenon DEF LatchInv, LatchTypeOK, countDown, Pending, Done, Threads, Woken, Asleep
<1>3. Cardinality(Pending \ {t}) = Cardinality(Pending) - 1
  BY <1>1, PendingFinite, FS_RemoveElement, Zenon
<1>4. IsFiniteSet(Pending \ {t})
  BY PendingFinite, FS_RemoveElement, <1>1, Zenon
<1>5. Cardinality(Pending \ {t}) \in Nat /\ Cardinality(Counters) \in Nat
  BY <1>4, LatchAssumption, FS_CardinalityType, Zenon
<1>6. count_' = Cardinality(Pending) - 1 /\ count_ \in 0 .. Cardinality(Counters) /\ count_' = count_ - 1
  BY Zenon DEF LatchInv, LatchTypeOK, countDown
<1> QED
  BY <1>2, <1>3, <1>5, <1>6

\* Every step of MutexLock, Condition and CountDownLatch keeps the invariant.
LEMMA LatchInvStep == LatchInv /\ [LatchNext]_latchVars => LatchInv'
<1> SUFFICES ASSUME LatchInv, [LatchNext]_latchVars
             PROVE  LatchInv'
  BY Zenon
<1> USE LatchAssumption
<1>1. CASE UNCHANGED latchVars
  <2>1. Pending' = Pending
    BY <1>1, Zenon DEF Pending, latchVars
  <2> QED
    BY <1>1, <2>1, Zenon DEF LatchInv, LatchTypeOK, latchVars
<1>2. ASSUME NEW t \in Threads, countDown(t)
      PROVE  LatchInv'
  <2>1. LatchTypeOK'
    BY <1>2, CountsDown, Zenon DEF LatchInv, LatchTypeOK, countDown, Places, Owning, Inside
  <2>2. \A u \in Threads : at'[u] \in Owning <=> mutex_' = u
    BY <1>2, Zenon DEF LatchInv, LatchTypeOK, countDown, Owning, Inside, Woken, Asleep
  <2>3. \A u \in Threads : at'[u] \in Inside <=> holder_' = u
    BY <1>2, Zenon DEF LatchInv, LatchTypeOK, countDown, Inside, Woken, Asleep
  <2>4. \A c \in Counters : at'[c] \notin {"reassign", "sleep", "asleep", "awake"}
    BY <1>2, Zenon DEF LatchInv, countDown, Woken, Asleep, Threads
  <2>5. \A w \in Waiters : at'[w] \in Done => count_' = 0
    <3>1. t \in Pending
      BY <1>2, Zenon DEF countDown, Pending, Done
    <3>2. count_ # 0
      BY <3>1, PendingFinite, FS_EmptySet, Zenon DEF LatchInv
    <3> QED
      BY <1>2, <3>2, Zenon DEF LatchInv, countDown, Done, Threads
  <2> QED
    BY <1>2, <2>1, <2>2, <2>3, <2>4, <2>5, CountsDown, Zenon DEF LatchInv
<1>3. ASSUME NEW t \in Threads, \/ Call(t) \/ Acquire(t) \/ assignHolder(t) \/ Sleep(t) \/ unassignHolder(t)
                                \/ Release(t) \/ wait(t) \/ Spurious(t)
      PROVE  LatchInv'
  <2>1. LatchTypeOK'
    BY <1>3, Zenon DEF LatchInv, LatchTypeOK, Call, Acquire, assignHolder, AfterWait, Sleep, unassignHolder, Release,
                wait, Spurious, Goes, Places, Owning, Inside
  <2>2. \A u \in Threads : at'[u] \in Owning <=> mutex_' = u
    BY <1>3 DEF LatchInv, LatchTypeOK, Call, Acquire, assignHolder, AfterWait, Sleep, unassignHolder, Release,
                wait, Spurious, Goes, Owning, Inside, Threads
  <2>3. \A u \in Threads : at'[u] \in Inside <=> holder_' = u
    BY <1>3 DEF LatchInv, LatchTypeOK, Call, Acquire, assignHolder, AfterWait, Sleep, unassignHolder, Release,
                wait, Spurious, Goes, Owning, Inside, Threads
  <2>4. \A c \in Counters : at'[c] \notin {"reassign", "sleep", "asleep", "awake"}
    BY <1>3, Zenon DEF LatchInv, LatchTypeOK, Call, Acquire, assignHolder, AfterWait, Sleep, unassignHolder, Release,
                wait, Spurious, Goes, Threads
  <2>5. \A w \in Waiters : at'[w] \in Done => count_' = 0
    BY <1>3 DEF LatchInv, LatchTypeOK, Call, Acquire, assignHolder, AfterWait, Sleep, unassignHolder, Release,
                wait, Spurious, Goes, Threads, Done
  <2>6. \A c \in Counters : at'[c] \in Done <=> at[c] \in Done
    BY <1>3, Zenon DEF LatchInv, LatchTypeOK, Call, Acquire, assignHolder, AfterWait, Sleep, unassignHolder, Release,
                wait, Spurious, Goes, Threads, Done
  <2>7. count_' = Cardinality(Pending')
    <3>1. count_' = count_
      BY <1>3, Zenon DEF Call, Acquire, assignHolder, Sleep, unassignHolder, Release, wait, Spurious
    <3> QED
      BY <2>6, <3>1, PendingStays, Zenon DEF LatchInv
  <2> QED
    BY <2>1, <2>2, <2>3, <2>4, <2>5, <2>7, Zenon DEF LatchInv
<1> QED
  BY <1>1, <1>2, <1>3, Zenon DEF LatchNext, InCall

\* For any threads: holder_ is the thread in the critical section and nobody else is ever taken for
\* it, and wait() returns only when all have counted down (Mutex.h:168-220, CountDownLatch.cc:19-36).
THEOREM LatchIsAlwaysExact == LatchSpec => []LatchIsExact
<1>1. LatchInit => LatchInv
  BY LatchInvInit, Zenon
<1>2. LatchInv /\ [LatchNext]_latchVars => LatchInv'
  BY LatchInvStep, Zenon
<1>3. LatchInv => LatchIsExact
  BY LatchInvImplies, Zenon
<1> QED
  BY <1>1, <1>2, <1>3, PTL DEF LatchSpec

------------------------------------------------------------------------------
(* Thread. *)

\* An owner that has seen count_ at zero has had the mutex after the thread released it.
LatchPart ==
  /\ latchMutex \in {Owner, Child, NoThread} /\ latchHolder \in {Owner, Child, NoThread}
  /\ latchAt \in [{Owner, Child} -> latch_!Places]
  /\ \A t \in {Owner, Child} : latchAt[t] \in latch_!Owning <=> latchMutex = t
  /\ \A t \in {Owner, Child} : latchAt[t] \in latch_!Inside <=> latchHolder = t
  /\ latchAt[Child] \notin {"reassign", "sleep", "asleep", "awake"}
  /\ latchCount = IF latchAt[Child] \in Done THEN 0 ELSE 1
  /\ latchAt[Owner] \in Done => latchAt[Child] = "after"

\* Where the owner and the thread are in their calls of the latch.
CallPart ==
  /\ creator \in {"new", "start", "started", "join", "joined", "gone", "aborted"}
  /\ child \in {"none", "tid", "latch", "func", "finished", "crashed"}
  /\ started_ \in BOOLEAN /\ joined_ \in BOOLEAN
  /\ started_ = (child # "none") /\ (latchAt[Owner] = "before") = (child = "none")
  /\ (latchAt[Child] = "before") = (child \in {"none", "tid"})
  /\ child \in {"func", "finished", "crashed"} => latchAt[Child] = "after"
  /\ tid_ = IF child \in {"none", "tid"} THEN NoThread ELSE Child
  /\ creator \in {"new", "aborted"} => child = "none"
  /\ creator \in {"start", "started", "join", "joined"} => child # "none"
  /\ creator \in {"started", "join", "joined"} \/ (creator = "gone" /\ child # "none") => latchAt[Owner] = "after"
  /\ joined_ => creator \in {"join", "joined", "gone"}
  /\ creator = "joined" \/ (creator = "gone" /\ joined_) => child = "finished"

\* A step of wait() or countDown() by t keeps LatchPart; a call that is over stays so.
LEMMA LatchStep ==
  ASSUME LatchPart, NEW t \in {Owner, Child}, latch_!InCall(t) \/ latch_!Spurious(t) \/ latch_!Call(t)
  PROVE  /\ LatchPart'
         /\ \A u \in {Owner, Child} : /\ latchAt[u] = "after" => latchAt'[u] = "after"
                                      /\ u # t \/ ~latch_!Call(t) => (latchAt'[u] = "before" <=> latchAt[u] = "before")
         /\ latch_!Call(t) => latchAt'[t] # "before"
<1> USE ThreadAssumption DEF LatchPart, latch_!Places, latch_!Owning, latch_!Inside, latch_!Goes, Done
<1>1. CASE latch_!Call(t)
  BY <1>1, Zenon DEF latch_!Call
<1>2. CASE latch_!Acquire(t)
  BY <1>2, Zenon DEF latch_!Acquire, latch_!Call
<1>3. CASE latch_!assignHolder(t)
  BY <1>3, Zenon DEF latch_!assignHolder, latch_!AfterWait, latch_!Call
<1>4. CASE latch_!Sleep(t) \/ latch_!Spurious(t)
  BY <1>4, ZenonT(30) DEF latch_!Sleep, latch_!Spurious, latch_!Call
<1>5. CASE latch_!unassignHolder(t)
  BY <1>5, Zenon DEF latch_!unassignHolder, latch_!Call
<1>6. CASE latch_!Release(t)
  BY <1>6, Zenon DEF latch_!Release, latch_!Call
<1>7. CASE latch_!wait(t)
  BY <1>7 DEF latch_!wait, latch_!Call
<1>8. CASE latch_!countDown(t)
  BY <1>8 DEF latch_!countDown, latch_!Call, latch_!Woken, latch_!Asleep, latch_!Threads
<1> QED
  BY <1>1, <1>2, <1>3, <1>4, <1>5, <1>6, <1>7, <1>8, Zenon DEF latch_!InCall

\* The latch of a Thread is counted down once.
LEMMA OneCounter == latch_!Cardinality({Child}) = 1 /\ latch_!Threads = {Owner, Child}
<1>1. latch_!Cardinality({Child}) = Cardinality({Child})
  BY Zenon DEF latch_!Cardinality, Cardinality
<1>2. latch_!Threads = {Owner, Child}
  BY Zenon DEF latch_!Threads
<1> QED
  BY <1>1, <1>2, FS_Singleton, Zenon

\* A Thread that is constructed satisfies the invariant.
LEMMA ThreadInvInit == ThreadInit => LatchPart /\ CallPart
<1> SUFFICES ASSUME ThreadInit PROVE LatchPart /\ CallPart
  BY Zenon
<1>2. latchMutex = NoThread /\ latchHolder = NoThread /\ latchCount = 1 /\ latchAt = [t \in {Owner, Child} |-> "before"]
  BY OneCounter, Zenon DEF ThreadInit, latch_!LatchInit
<1>3. started_ = FALSE /\ joined_ = FALSE /\ tid_ = NoThread /\ creator = "new" /\ child = "none"
  BY Zenon DEF ThreadInit
<1>4. LatchPart
  BY <1>2, ThreadAssumption, Zenon DEF LatchPart, latch_!Places, latch_!Owning, latch_!Inside, Done
<1>5. CallPart
  BY <1>2, <1>3, Zenon DEF CallPart
<1> QED
  BY <1>4, <1>5, Zenon

\* Every step of start(), join(), the destructor, runInThread() and the latch keeps it.
LEMMA ThreadInvNext ==
  ASSUME LatchPart, CallPart, [ThreadNext]_objectVars
  PROVE  LatchPart' /\ CallPart'
<1>1. CASE startThread
  <2>1. latch_!Call(Owner) /\ child = "none"
    BY <1>1, Zenon DEF startThread, CallPart
  <2>2. LatchPart' /\ latchAt'[Owner] # "before" /\ (latchAt'[Child] = "before" <=> latchAt[Child] = "before")
    BY <2>1, LatchStep, ThreadAssumption, Zenon
  <2> QED
    BY <1>1, <2>1, <2>2, Zenon DEF startThread, CallPart
<1>2. CASE Publish
  <2>1. latch_!Call(Child) /\ child = "tid"
    BY <1>2, Zenon DEF Publish
  <2>2. LatchPart' /\ latchAt'[Child] # "before" /\ (latchAt'[Owner] = "before" <=> latchAt[Owner] = "before")
        /\ (latchAt[Owner] = "after" => latchAt'[Owner] = "after")
    BY <2>1, LatchStep, ThreadAssumption, Zenon
  <2> QED
    BY <1>2, <2>1, <2>2 DEF Publish, CallPart
<1>3. CASE \E t \in {Owner, Child} : UseLatch(t)
  <2>1. PICK t \in {Owner, Child} : latch_!InCall(t) \/ latch_!Spurious(t)
    BY <1>3, Zenon DEF UseLatch
  <2>2. ~latch_!Call(t)
    BY <2>1, Zenon DEF latch_!InCall, latch_!Spurious, latch_!Call, latch_!Acquire, latch_!assignHolder, latch_!Sleep,
                latch_!unassignHolder, latch_!Release, latch_!wait, latch_!countDown
  <2>3. LatchPart' /\ \A u \in {Owner, Child} : (latchAt[u] = "after" => latchAt'[u] = "after") /\ (latchAt'[u] = "before" <=> latchAt[u] = "before")
    BY <2>1, <2>2, LatchStep, Zenon
  <2>4. UNCHANGED threadVars
    BY <1>3, Zenon DEF UseLatch
  <2> QED
    BY <2>3, <2>4, Zenon DEF threadVars, CallPart
<1>4. CASE UNCHANGED latchFields /\ [ThreadNext]_objectVars
  <2>1. LatchPart'
    BY <1>4, Zenon DEF latchFields, LatchPart
  <2>2. latchAt' = latchAt
    BY <1>4, Zenon DEF latchFields
  <2>3. CASE startFails \/ startReturns
    <3>1. CASE startFails
      BY <2>1, <2>2, <3>1, Zenon DEF startFails, CallPart
    <3>2. CASE startReturns
      BY <2>1, <2>2, <3>2, Zenon DEF startReturns, CallPart
    <3> QED
      BY <2>3, <3>1, <3>2, Zenon
  <2>4. CASE join \/ joinReturns
    BY <2>1, <2>2, <2>4, Zenon DEF join, joinReturns, CallPart
  <2>5. CASE Destruct
    BY <2>1, <2>2, <2>5, Zenon DEF Destruct, CallPart
  <2>6. CASE Counted \/ FuncReturns \/ FuncThrows
    <3>1. CASE Counted
      BY <2>1, <2>2, <3>1 DEF Counted, CallPart
    <3>2. CASE FuncReturns
      BY <2>1, <2>2, <3>2 DEF FuncReturns, CallPart
    <3>3. CASE FuncThrows
      BY <2>1, <2>2, <3>3 DEF FuncThrows, CallPart
    <3> QED
      BY <2>6, <3>1, <3>2, <3>3, Zenon
  <2>7. CASE UNCHANGED objectVars
    BY <2>1, <2>7, Zenon DEF objectVars, threadVars, latchFields, CallPart
  <2> QED
    BY <1>1, <1>2, <1>3, <2>1, <2>3, <2>4, <2>5, <2>6, <2>7, Zenon DEF ThreadNext
<1>5. startThread \/ Publish \/ (\E t \in {Owner, Child} : UseLatch(t)) \/ UNCHANGED latchFields
  BY Zenon DEF ThreadNext, objectVars, startFails, startReturns, join, joinReturns, Destruct, Counted, FuncReturns, FuncThrows
<1> QED
  BY <1>1, <1>2, <1>3, <1>4, <1>5, Zenon

\* Whichever thread is the faster, the thread touches nothing of a Thread object that its owner may
\* destruct: start() returns only after the thread has released the latch's mutex
\* (Thread.cc:82-85, 179-223).
THEOREM ObjectAlwaysOutlivesUse == ThreadSpec => []ObjectOutlivesUse
<1>1. LatchPart /\ CallPart => ObjectOutlivesUse
  <2> SUFFICES ASSUME LatchPart, CallPart PROVE ObjectOutlivesUse
    BY Zenon
  <2>1. ThreadTypeOK
    <3>2. latchCount \in 0 .. 1
      BY DEF LatchPart
    <3>3. latch_!LatchTypeOK
      BY <3>2, OneCounter, Zenon DEF LatchPart, latch_!LatchTypeOK
    <3> QED
      BY <3>3, Zenon DEF ThreadTypeOK, CallPart
  <2>2. latchAt[Owner] = "after" => latchAt[Child] = "after" /\ latchMutex = NoThread /\ latchHolder = NoThread
    BY Zenon DEF LatchPart, Done, latch_!Owning, latch_!Inside
  <2>3. child # "tid" /\ child # "none" => tid_ = Child
    BY Zenon DEF CallPart
  <2>4. latchAt[Owner] = "after" => tid_ = Child /\ child # "tid"
    BY <2>1, <2>2, <2>3, Zenon DEF CallPart
  <2> QED
    BY <2>1, <2>2, <2>4, Zenon DEF CallPart, ObjectOutlivesUse
<1> QED
  BY <1>1, ThreadInvInit, ThreadInvNext, PTL DEF ThreadSpec

------------------------------------------------------------------------------
(* ThreadPool. *)

Busy == {w \in Workers : pc[w] = "run"}
Taken == {taken[i] : i \in DOMAIN taken}

\* What has been taken has run or is being run, and the queue is what is left of what was accepted:
\* nothing while there are no threads.
PoolInv ==
  /\ TypeOK /\ accepted = taken \o queue_
  /\ maxQueueSize_ > 0 => Len(queue_) <= maxQueueSize_
  /\ Taken = executed \cup {task[w] : w \in Busy}
  /\ owner = "new" => \A w \in Workers : pc[w] = "none"
  /\ owner = "stopped" => \A w \in Workers : pc[w] = "done"
  /\ threads_ = {} => queue_ = <<>>

\* The empty function object is no task.
LEMMA NoTaskIsNone == NoTask \notin Tasks
<1>1. \A t \in Tasks : t = <<t[1], t[2]>>
  BY DEF Tasks
<1> QED
  BY <1>1, Zenon DEF NoTask

\* The number of tasks of a producer is a number, since those accepted are finitely many.
LEMMA SentIsNumber == ASSUME TypeOK, NEW p PROVE Sent(p) \in Nat
<1>1. Len(accepted) \in Nat /\ DOMAIN accepted = 1 .. Len(accepted)
  BY DEF TypeOK
<1>2. IsFiniteSet(DOMAIN accepted)
  BY <1>1, FS_Interval
<1>3. {i \in DOMAIN accepted : accepted[i][1] = p} \subseteq DOMAIN accepted
  BY Zenon
<1> QED
  BY <1>2, <1>3, FS_Subset, FS_CardinalityType, Zenon DEF Sent

\* The task that take() finds at the front of deque_ is the next of all those accepted.
LEMMA FrontIsNext ==
  ASSUME NEW s \in Seq(Tasks), NEW q \in Seq(Tasks), q # <<>>
  PROVE  /\ Head(q) \in Tasks /\ Tail(q) \in Seq(Tasks) /\ Len(Tail(q)) = Len(q) - 1
         /\ Append(s, Head(q)) \in Seq(Tasks) /\ Append(s, Head(q)) \o Tail(q) = s \o q
         /\ {Append(s, Head(q))[i] : i \in DOMAIN Append(s, Head(q))} = {s[i] : i \in DOMAIN s} \cup {Head(q)}
<1>1. Head(q) \in Tasks /\ Tail(q) \in Seq(Tasks) /\ Len(Tail(q)) = Len(q) - 1 /\ Append(s, Head(q)) \in Seq(Tasks)
  OBVIOUS
<1>2. Append(s, Head(q)) \o Tail(q) = s \o q
  OBVIOUS
<1>3. {Append(s, Head(q))[i] : i \in DOMAIN Append(s, Head(q))} = {s[i] : i \in DOMAIN s} \cup {Head(q)}
  <2> DEFINE t == Append(s, Head(q))
  <2>1. /\ Len(s) \in Nat /\ DOMAIN s = 1 .. Len(s) /\ DOMAIN t = 1 .. Len(s) + 1 /\ t[Len(s) + 1] = Head(q)
        /\ \A i \in 1 .. Len(s) : t[i] = s[i]
    OBVIOUS
  <2> HIDE DEF t
  <2> QED
    BY <2>1 DEF t
<1> QED
  BY <1>1, <1>2, <1>3, Zenon

\* What run() queues is accepted after all the others.
LEMMA QueuedLast ==
  ASSUME NEW s \in Seq(Tasks), NEW q \in Seq(Tasks), NEW x \in Tasks
  PROVE  Append(q, x) \in Seq(Tasks) /\ Len(Append(q, x)) = Len(q) + 1 /\ s \o Append(q, x) = Append(s \o q, x)
         /\ s \o q \in Seq(Tasks)
OBVIOUS

\* A new pool has no tasks.
LEMMA PoolInvInit == Init => PoolInv
<1> SUFFICES ASSUME Init PROVE PoolInv
  BY Zenon
<1>1. running_ \in BOOLEAN
  BY Zenon DEF Init
<1>2. Busy = {} /\ Taken = {}
  BY DEF Init, Busy, Taken
<1>3. taken \o queue_ = <<>> /\ Len(queue_) = 0
  BY DEF Init
<1> QED
  BY <1>1, <1>2, <1>3, PoolAssumption DEF Init, PoolInv, TypeOK, NoTask, threads_

\* start() and stop() leave the tasks alone, and stop() returns when all workers have ended.
LEMMA OwnerKeepsPool == ASSUME PoolInv, start \/ stop \/ stopReturns PROVE PoolInv'
<1>1. UNCHANGED <<queue_, notFull_, task, accepted, taken, executed>>
  BY Zenon DEF start, stop, stopReturns
<1>2. running_' \in BOOLEAN
  BY Zenon DEF PoolInv, TypeOK, start, stop, stopReturns
<1>3. /\ notEmpty_' \subseteq Workers /\ owner' \in {"started", "joining", "stopped"}
      /\ pc' \in [Workers -> {"none", "loop", "take", "run", "done"}]
      /\ \A w \in Workers : pc'[w] = "run" <=> pc[w] = "run"
      /\ owner' = "stopped" => \A w \in Workers : pc'[w] = "done"
  BY Zenon DEF PoolInv, TypeOK, start, stop, stopReturns, Told, Joined
<1>4. Busy' = Busy /\ Taken' = Taken
  BY <1>1, <1>3, Zenon DEF Busy, Taken
<1>5. TypeOK'
  BY <1>1, <1>2, <1>3, Zenon DEF PoolInv, TypeOK
<1>6. threads_' = {} => threads_ = {}
  BY <1>3, Zenon DEF threads_
<1> QED
  BY <1>1, <1>3, <1>4, <1>5, <1>6, Zenon DEF PoolInv

\* run() waits for room or queues a task; a wakeup without cause changes neither queue nor workers.
LEMMA EnqueueKeepsPool == ASSUME PoolInv, SpuriousWakeup \/ \E p \in Producers : Enqueue(p) PROVE PoolInv'
<1>1. UNCHANGED <<running_, pc, task, owner, taken, executed>>
  BY Zenon DEF SpuriousWakeup, Enqueue
<1>2. Busy' = Busy /\ Taken' = Taken
  BY <1>1, Zenon DEF Busy, Taken
<1>3. notEmpty_' \subseteq Workers /\ notFull_' \subseteq Producers
  BY Zenon DEF PoolInv, TypeOK, SpuriousWakeup, Enqueue, ToldOfTask, notify
<1>4. threads_' = threads_
  BY <1>1, Zenon DEF threads_
<1>5. CASE queue_' = queue_ /\ accepted' = accepted
  BY <1>1, <1>2, <1>3, <1>4, <1>5, Zenon DEF PoolInv, TypeOK
<1>6. CASE \E p \in Producers : Enqueue(p) /\ ~isFull
  <2>1. PICK p \in Producers : Enqueue(p) /\ ~isFull
    BY <1>6, Zenon
  <2> DEFINE x == <<p, Sent(p) + 1>>
  <2>2. x \in Tasks
    BY <2>1, SentIsNumber, PoolAssumption DEF PoolInv, Enqueue, Tasks
  <2>3. queue_' = Append(queue_, x) /\ accepted' = Append(accepted, x)
    BY <2>1, Zenon DEF Enqueue
  <2> HIDE DEF x
  <2>4. queue_ \in Seq(Tasks) /\ taken \in Seq(Tasks) /\ accepted = taken \o queue_
    BY Zenon DEF PoolInv, TypeOK
  <2>5. /\ queue_' \in Seq(Tasks) /\ accepted' \in Seq(Tasks) /\ Len(queue_') = Len(queue_) + 1
        /\ accepted' = taken' \o queue_'
    <3>1. /\ Append(queue_, x) \in Seq(Tasks) /\ Len(Append(queue_, x)) = Len(queue_) + 1
          /\ taken \o Append(queue_, x) = Append(accepted, x)
      BY <2>2, <2>4, QueuedLast, Zenon
    <3>2. Append(accepted, x) \in Seq(Tasks)
      BY <2>2, <2>4
    <3> QED
      BY <1>1, <2>3, <3>1, <3>2, Zenon
  <2>6. maxQueueSize_ > 0 => Len(queue_') <= maxQueueSize_
    BY <2>1, <2>5, PoolAssumption DEF isFull, PoolInv, TypeOK
  <2>7. TypeOK'
    BY <1>1, <1>3, <2>5, Zenon DEF PoolInv, TypeOK
  <2>8. threads_ # {}
    BY <2>1, Zenon DEF Enqueue
  <2> QED
    BY <1>1, <1>2, <1>4, <2>5, <2>6, <2>7, <2>8, Zenon DEF PoolInv
<1> QED
  BY <1>5, <1>6, Zenon DEF SpuriousWakeup, Enqueue

\* Without threads nothing waits in the queue, and run() takes and runs the task that it is given.
LEMMA RunHereKeepsPool == ASSUME PoolInv, NEW p \in Producers, RunHere(p) PROVE PoolInv'
<1> DEFINE x == <<p, Sent(p) + 1>>
<1>1. x \in Tasks
  BY SentIsNumber, PoolAssumption DEF PoolInv, RunHere, Tasks
<1>2. /\ accepted' = Append(accepted, x) /\ taken' = Append(taken, x) /\ executed' = executed \cup {x}
      /\ UNCHANGED <<running_, queue_, notEmpty_, notFull_, pc, task, owner>>
  BY Zenon DEF RunHere
<1> HIDE DEF x
<1>3. queue_ = <<>> /\ taken \in Seq(Tasks) /\ accepted = taken \o queue_
  BY Zenon DEF PoolInv, TypeOK, RunHere
<1>4. accepted = taken
  BY <1>3
<1>5. /\ taken' \in Seq(Tasks) /\ accepted' = taken' /\ taken' \o queue_' = taken'
      /\ Taken' = Taken \cup {x}
  <2>1. <<x>> \in Seq(Tasks) /\ <<x>> # <<>> /\ Head(<<x>>) = x
    BY <1>1
  <2>2. /\ Append(taken, x) \in Seq(Tasks)
        /\ {Append(taken, x)[i] : i \in DOMAIN Append(taken, x)} = {taken[i] : i \in DOMAIN taken} \cup {x}
    <3>1. /\ Append(taken, Head(<<x>>)) \in Seq(Tasks)
          /\ {Append(taken, Head(<<x>>))[i] : i \in DOMAIN Append(taken, Head(<<x>>))}
               = {taken[i] : i \in DOMAIN taken} \cup {Head(<<x>>)}
      BY <1>3, <2>1, FrontIsNext, Zenon
    <3> QED
      BY <2>1, <3>1, Zenon
  <2>3. Append(taken, x) \o <<>> = Append(taken, x)
    BY <2>2
  <2> QED
    BY <1>2, <1>3, <1>4, <2>2, <2>3, Zenon DEF Taken
<1>6. TypeOK'
  BY <1>1, <1>2, <1>5, Zenon DEF PoolInv, TypeOK
<1>7. Busy' = Busy /\ threads_' = threads_
  BY <1>2, Zenon DEF Busy, threads_
<1> QED
  BY <1>2, <1>5, <1>6, <1>7, Zenon DEF PoolInv

\* A worker that takes a task runs it, and it is among those that have run when it returns.
LEMMA WorkerKeepsPool == ASSUME PoolInv, NEW w \in Workers, Worker(w) PROVE PoolInv'
<1>1. /\ TypeOK /\ accepted = taken \o queue_ /\ Taken = executed \cup {task[v] : v \in Busy}
      /\ pc[w] \notin {"none", "done"} /\ owner \notin {"new", "stopped"} /\ UNCHANGED <<running_, owner, accepted>>
      /\ threads_' # {}
  BY Zenon DEF PoolInv, Worker, Loop, take, Execute, threads_
<1>2. CASE Loop(w) \/ (take(w) /\ queue_ = <<>>)
  <2>1. UNCHANGED <<queue_, notFull_, task, taken, executed>>
    BY <1>2, Zenon DEF Loop, take
  <2>2. /\ notEmpty_' \subseteq Workers /\ pc' \in [Workers -> {"none", "loop", "take", "run", "done"}]
        /\ \A v \in Workers : pc'[v] = "run" <=> pc[v] = "run"
    <3>1. CASE Loop(w)
      BY <3>1, <1>1, Zenon DEF Loop, TypeOK
    <3>2. CASE take(w) /\ queue_ = <<>>
      BY <3>2, <1>1, Zenon DEF take, TypeOK, WithoutTask
    <3> QED BY <1>2, <3>1, <3>2, Zenon
  <2>3. Busy' = Busy /\ Taken' = Taken
    BY <2>1, <2>2, Zenon DEF Busy, Taken
  <2>4. TypeOK'
    BY <1>1, <2>1, <2>2, Zenon DEF TypeOK
  <2> QED
    BY <1>1, <2>1, <2>3, <2>4, Zenon DEF PoolInv
<1>3. CASE take(w) /\ queue_ # <<>>
  <2>1. /\ pc[w] = "take" /\ pc' = [pc EXCEPT ![w] = "run"] /\ task' = [task EXCEPT ![w] = Head(queue_)]
        /\ taken' = Append(taken, Head(queue_)) /\ queue_' = Tail(queue_) /\ notFull_' \in ToldOfRoom
        /\ UNCHANGED <<notEmpty_, executed>>
    BY <1>3, Zenon DEF take, Front
  <2>2. /\ Head(queue_) \in Tasks /\ queue_' \in Seq(Tasks) /\ Len(queue_') = Len(queue_) - 1 /\ Len(queue_) \in Nat
        /\ taken' \in Seq(Tasks) /\ taken' \o queue_' = taken \o queue_ /\ Taken' = Taken \cup {Head(queue_)}
    <3>1. taken \in Seq(Tasks) /\ queue_ \in Seq(Tasks) /\ queue_ # <<>>
      BY <1>1, <1>3, Zenon DEF TypeOK
    <3>2. /\ Head(queue_) \in Tasks /\ Tail(queue_) \in Seq(Tasks) /\ Len(Tail(queue_)) = Len(queue_) - 1
          /\ Append(taken, Head(queue_)) \in Seq(Tasks) /\ Append(taken, Head(queue_)) \o Tail(queue_) = taken \o queue_
          /\ {Append(taken, Head(queue_))[i] : i \in DOMAIN Append(taken, Head(queue_))}
               = {taken[i] : i \in DOMAIN taken} \cup {Head(queue_)}
      BY <3>1, FrontIsNext, Zenon
    <3>3. Len(queue_) \in Nat
      BY <3>1
    <3> QED
      BY <2>1, <3>2, <3>3, Zenon DEF Taken
  <2>3. Head(queue_) # NoTask
    BY <2>2, NoTaskIsNone, Zenon
  <2>4. notFull_' \subseteq Producers
    BY <1>1, <2>1, Zenon DEF ToldOfRoom, notify, TypeOK
  <2>5. TypeOK'
    BY <1>1, <2>1, <2>2, <2>3, <2>4, Zenon DEF TypeOK
  <2>6. Busy' = Busy \cup {w} /\ w \notin Busy
    BY <1>1, <2>1, Zenon DEF Busy, TypeOK
  <2>7. {task'[v] : v \in Busy'} = {task[v] : v \in Busy} \cup {Head(queue_)}
    BY <1>1, <2>1, <2>6, Zenon DEF Busy, TypeOK
  <2>8. maxQueueSize_ > 0 => Len(queue_') <= maxQueueSize_
    BY <2>2, PoolAssumption DEF PoolInv
  <2> QED
    BY <1>1, <2>1, <2>2, <2>5, <2>7, <2>8, Zenon DEF PoolInv
<1>4. CASE Execute(w)
  <2>1. /\ pc[w] = "run" /\ pc' = [pc EXCEPT ![w] = "loop"] /\ task' = [task EXCEPT ![w] = NoTask]
        /\ executed' = executed \cup {task[w]} /\ UNCHANGED <<queue_, notEmpty_, notFull_, taken>>
    BY <1>4, Zenon DEF Execute
  <2>2. task[w] \in Tasks
    BY <1>1, <2>1, Zenon DEF TypeOK
  <2>3. TypeOK'
    BY <1>1, <2>1, <2>2, Zenon DEF TypeOK
  <2>4. Busy' = Busy \ {w} /\ w \in Busy /\ Taken' = Taken
    BY <1>1, <2>1, Zenon DEF Busy, TypeOK, Taken
  <2>5. executed' \cup {task'[v] : v \in Busy'} = executed \cup {task[v] : v \in Busy}
    BY <1>1, <2>1, <2>4, Zenon DEF TypeOK, Busy
  <2> QED
    BY <1>1, <2>1, <2>3, <2>4, <2>5, Zenon DEF PoolInv
<1> QED
  BY <1>2, <1>3, <1>4, Zenon DEF Worker

\* For any workers, or none, producers and size of the queue: tasks are taken once each and in the order run()
\* queued them, the queue is never longer than it may be, and whoever returns from stop() finds
\* every task that was taken executed (ThreadPool.cc:55-118).
THEOREM TasksAlwaysTakenInOrder == Spec => []TakenInOrder
<1>1. PoolInv /\ [Next]_vars => PoolInv'
  <2> SUFFICES ASSUME PoolInv, [Next]_vars PROVE PoolInv'
    BY Zenon
  <2>1. CASE UNCHANGED vars
    <3>1. TypeOK'
      BY <2>1, Zenon DEF vars, PoolInv, TypeOK
    <3>2. Busy' = Busy /\ Taken' = Taken
      BY <2>1, Zenon DEF vars, Busy, Taken
    <3> QED
      BY <2>1, <3>1, <3>2, Zenon DEF vars, PoolInv, threads_
  <2> QED
    BY <2>1, OwnerKeepsPool, EnqueueKeepsPool, RunHereKeepsPool, WorkerKeepsPool, Zenon DEF Next, run
<1>2. PoolInv => TakenInOrder
  BY Zenon DEF PoolInv, TakenInOrder, Busy, Taken
<1> QED
  BY <1>1, <1>2, PoolInvInit, PTL DEF Spec

------------------------------------------------------------------------------
(* BlockingQueue, which is bounded unless maxQueueSize_ is zero. *)

VARIABLE sent

Blocking == INSTANCE BlockingQueue WITH maxSize <- maxQueueSize_, Consumers <- Workers, Items <- MaxTasks

\* A queue that is constructed is empty.
LEMMA QueueInvInit == Blocking!Init => Blocking!BoundedFifo
<1> SUFFICES ASSUME Blocking!Init PROVE Blocking!BoundedFifo
  BY Zenon
<1>1. /\ queue_ = <<>> /\ taken = <<>> /\ notEmpty_ = {} /\ notFull_ = {} /\ sent = [p \in Producers |-> 0]
      /\ Blocking!Through = <<>> /\ Len(queue_) = 0
  BY DEF Blocking!Init, Blocking!Through
<1>2. Blocking!TypeOK
  BY <1>1, PoolAssumption DEF Blocking!TypeOK
<1>3. {item \in Producers \X (1 .. MaxTasks) : item[2] <= sent[item[1]]} = {}
  BY <1>1
<1>4. DOMAIN Blocking!Through = {}
  BY <1>1
<1> QED
  BY <1>1, <1>2, <1>3, <1>4, PoolAssumption DEF Blocking!BoundedFifo

\* An item that is put is the next of its producer, and the last in the queue.
LEMMA PutKeepsOrder ==
  ASSUME Blocking!BoundedFifo, NEW p \in Producers, Blocking!put(p), ~Blocking!full
  PROVE  Blocking!BoundedFifo'
<1> DEFINE x == <<p, sent[p] + 1>>
           t == Blocking!Through
<1>1. /\ queue_ \in Seq(Tasks) /\ taken \in Seq(Tasks) /\ sent \in [Producers -> 0 .. MaxTasks]
      /\ notEmpty_ \subseteq Workers /\ notFull_ \subseteq Producers
  BY Zenon DEF Blocking!BoundedFifo, Blocking!TypeOK, Tasks
<1>2. /\ sent[p] < MaxTasks /\ sent' = [sent EXCEPT ![p] = @ + 1] /\ queue_' = Append(queue_, x)
      /\ notEmpty_' \in Blocking!notifyPut(notEmpty_) /\ UNCHANGED <<taken, notFull_>>
  BY Zenon DEF Blocking!put
<1>3. x \in Tasks /\ x[1] = p /\ x[2] = sent[p] + 1
  BY <1>1, <1>2, PoolAssumption DEF Tasks
<1> HIDE DEF x
<1>4. /\ queue_' \in Seq(Tasks) /\ Len(queue_') = Len(queue_) + 1 /\ Len(queue_) \in Nat
      /\ t \in Seq(Tasks) /\ t' = Append(t, x)
  BY <1>1, <1>2, <1>3, QueuedLast DEF Blocking!Through
<1>5. /\ \A i, j \in DOMAIN t : i < j /\ t[i][1] = t[j][1] => t[i][2] < t[j][2]
      /\ {t[i] : i \in DOMAIN t} = {item \in Tasks : item[2] <= sent[item[1]]}
  BY Zenon DEF Blocking!BoundedFifo, Tasks
<1> HIDE DEF t
<1>6. /\ Len(t) \in Nat /\ DOMAIN t = 1 .. Len(t) /\ DOMAIN t' = 1 .. Len(t) + 1 /\ t'[Len(t) + 1] = x
      /\ \A i \in 1 .. Len(t) : t'[i] = t[i]
  BY <1>3, <1>4
<1>7. Blocking!TypeOK'
  <2>1. notEmpty_' \subseteq Workers
    BY <1>1, <1>2, Zenon DEF Blocking!notifyPut
  <2>2. sent' \in [Producers -> 0 .. MaxTasks]
    BY <1>1, <1>2, PoolAssumption
  <2> QED
    BY <1>1, <1>2, <1>4, <2>1, <2>2, Zenon DEF Blocking!TypeOK, Tasks
<1>8. \A i, j \in DOMAIN t' : i < j /\ t'[i][1] = t'[j][1] => t'[i][2] < t'[j][2]
  <2> SUFFICES ASSUME NEW i \in DOMAIN t', NEW j \in DOMAIN t', i < j, t'[i][1] = t'[j][1] PROVE t'[i][2] < t'[j][2]
    BY Zenon
  <2>1. i \in DOMAIN t /\ t'[i] = t[i] /\ t[i] \in Tasks /\ t[i][2] <= sent[t[i][1]]
    BY <1>5, <1>6
  <2>2. CASE j = Len(t) + 1
    BY <1>1, <1>3, <1>6, <2>1, <2>2 DEF Tasks
  <2>3. CASE j # Len(t) + 1
    BY <1>5, <1>6, <2>1, <2>3
  <2> QED
    BY <2>2, <2>3, Zenon
<1>9. {t'[i] : i \in DOMAIN t'} = {item \in Tasks : item[2] <= sent'[item[1]]}
  <2>1. {t'[i] : i \in DOMAIN t'} = {t[i] : i \in DOMAIN t} \cup {x}
    BY <1>6
  <2>2. \A item \in Tasks : item[1] \in Producers /\ item[2] \in Nat /\ item = <<item[1], item[2]>>
    BY PoolAssumption DEF Tasks
  <2>3. \A item \in Tasks : item[2] <= sent'[item[1]] <=> item[2] <= sent[item[1]] \/ item = x
    BY <1>1, <1>2, <1>3, <2>2 DEF x
  <2> QED
    BY <1>3, <1>5, <2>1, <2>3, Zenon
<1>10. maxQueueSize_ > 0 => Len(queue_') <= maxQueueSize_
  BY <1>4, PoolAssumption DEF Blocking!full
<1> QED
  BY <1>7, <1>8, <1>9, <1>10, Zenon DEF Blocking!BoundedFifo, Tasks, t

\* take() moves the front of the queue to what is taken, and nothing else moves.
LEMMA RestKeepsOrder ==
  ASSUME Blocking!BoundedFifo,
         \/ Blocking!SpuriousWakeup \/ \E c \in Workers : Blocking!take(c)
         \/ \E p \in Producers : Blocking!put(p) /\ Blocking!full
         \/ UNCHANGED Blocking!vars
  PROVE  Blocking!BoundedFifo'
<1>1. /\ queue_ \in Seq(Tasks) /\ taken \in Seq(Tasks) /\ notEmpty_ \subseteq Workers /\ notFull_ \subseteq Producers
  BY Zenon DEF Blocking!BoundedFifo, Blocking!TypeOK, Tasks
<1>2. sent' = sent /\ notEmpty_' \subseteq Workers /\ notFull_' \subseteq Producers
  BY <1>1, Zenon DEF Blocking!SpuriousWakeup, Blocking!take, Blocking!put, Blocking!vars, Blocking!waitForRoom, Blocking!notifyTake
<1>3. \/ UNCHANGED <<queue_, taken>>
      \/ queue_ # <<>> /\ queue_' = Tail(queue_) /\ taken' = Append(taken, Head(queue_))
  BY Zenon DEF Blocking!SpuriousWakeup, Blocking!take, Blocking!put, Blocking!vars, Blocking!Front
<1>4. /\ queue_' \in Seq(Tasks) /\ taken' \in Seq(Tasks) /\ Len(queue_') <= Len(queue_)
      /\ Blocking!Through' = Blocking!Through
  <2>1. CASE UNCHANGED <<queue_, taken>>
    BY <1>1, <2>1 DEF Blocking!Through
  <2>2. CASE queue_ # <<>> /\ queue_' = Tail(queue_) /\ taken' = Append(taken, Head(queue_))
    <3>1. /\ Tail(queue_) \in Seq(Tasks) /\ Len(Tail(queue_)) = Len(queue_) - 1 /\ Len(queue_) \in Nat
          /\ Append(taken, Head(queue_)) \in Seq(Tasks) /\ Append(taken, Head(queue_)) \o Tail(queue_) = taken \o queue_
      BY <1>1, <2>2, FrontIsNext
    <3>2. Len(queue_') <= Len(queue_)
      BY <2>2, <3>1
    <3> QED
      BY <2>2, <3>1, <3>2, Zenon DEF Blocking!Through
  <2> QED
    BY <1>3, <2>1, <2>2, Zenon
<1>5. Blocking!TypeOK'
  BY <1>2, <1>4, Zenon DEF Blocking!BoundedFifo, Blocking!TypeOK, Tasks
<1>6. maxQueueSize_ > 0 => Len(queue_') <= maxQueueSize_
  BY <1>1, <1>4, PoolAssumption DEF Blocking!BoundedFifo
<1> QED
  BY <1>2, <1>4, <1>5, <1>6 DEF Blocking!BoundedFifo

\* For any producers and consumers and any maxSize: the items of each producer come out once each and in
\* the order it put them, and a bounded queue never holds more than maxSize items
\* (BlockingQueue.h:30-58, BoundedBlockingQueue.h:33-69).
THEOREM ItemsAlwaysInOrder == Blocking!Spec => []Blocking!BoundedFifo
<1>1. Blocking!BoundedFifo /\ [Blocking!Next]_Blocking!vars => Blocking!BoundedFifo'
  BY PutKeepsOrder, RestKeepsOrder, Zenon DEF Blocking!Next
<1> QED
  BY <1>1, QueueInvInit, PTL DEF Blocking!Spec
=============================================================================
