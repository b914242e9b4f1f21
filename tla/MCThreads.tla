------------------------------ MODULE MCThreads ------------------------------
(* The classes of base/ that threads share: a program uses one of ThreadPool, BlockingQueue,    *)
(* BoundedBlockingQueue, AsyncLogging, CountDownLatch and Thread.  There are two producers, and *)
(* two workers, which are the consumers of the blocking queues; the workers wait for a latch    *)
(* that the producers count down, and the Thread is one of the workers that a producer starts.  *)
EXTENDS ThreadPool, CountDownLatch, Thread

CONSTANTS w1, w2, p1, p2,
          Items,                  \* bound: items that each producer puts in a blocking queue
          AsyncLines              \* bound: lines given to AsyncLogging

VARIABLES uses,                                                       \* the class
          q, readers, writers, sent, got,                             \* BlockingQueue
          currentBuffer_, nextBuffer_, buffers_, running, logger, newBuffer1, newBuffer2,
          buffersToWrite, file, flushed, dropped, user, lines         \* AsyncLogging

MCWorkers == {w1, w2}
MCProducers == {p1, p2}

Plain ==
  INSTANCE BlockingQueue WITH
    maxSize <- 0, Consumers <- Workers,
    queue_ <- q, notEmpty_ <- readers, notFull_ <- writers, sent <- sent, taken <- got

Limited ==
  INSTANCE BlockingQueue WITH
    maxSize <- maxQueueSize_, Consumers <- Workers,
    queue_ <- q, notEmpty_ <- readers, notFull_ <- writers, sent <- sent, taken <- got

\* Buffers of two lines, of which more than three are too many.
Log ==
  INSTANCE AsyncLogging WITH
    kLargeBuffer <- 3, MaxBuffers <- 3, MaxLines <- AsyncLines,
    running_ <- running, pc <- logger, owner <- user

poolVars == <<running_, queue_, notEmpty_, notFull_, pc, task, owner, accepted, taken, executed>>
queueVars == <<q, readers, writers, sent, got>>
logVars == <<currentBuffer_, nextBuffer_, buffers_, running, logger, newBuffer1, newBuffer2,
             buffersToWrite, file, flushed, dropped, user, lines>>
all == <<uses, poolVars, queueVars, logVars, latchVars, objectVars>>

MCInit ==
  /\ uses \in {"ThreadPool", "BlockingQueue", "BoundedBlockingQueue", "AsyncLogging",
               "CountDownLatch", "Thread"}
  /\ Init /\ Plain!Init /\ Log!Init
  /\ LatchInit /\ ThreadInit

In(class, A) == uses = class /\ A /\ UNCHANGED uses

InPool(A) == In("ThreadPool", A) /\ UNCHANGED <<queueVars, logVars, latchVars, objectVars>>
InQueue(class, A) == In(class, A) /\ UNCHANGED <<poolVars, logVars, latchVars, objectVars>>
InLog(A) == In("AsyncLogging", A) /\ UNCHANGED <<poolVars, queueVars, latchVars, objectVars>>
InLatch(A) == In("CountDownLatch", A) /\ UNCHANGED <<poolVars, queueVars, logVars, objectVars>>
InThread(A) == In("Thread", A) /\ UNCHANGED <<poolVars, queueVars, logVars, latchVars>>

put(p) == InQueue("BlockingQueue", Plain!put(p)) \/ InQueue("BoundedBlockingQueue", Limited!put(p))
takeItem(c) == InQueue("BlockingQueue", Plain!take(c)) \/ InQueue("BoundedBlockingQueue", Limited!take(c))

MCNext ==
  \/ InPool(Next)
  \/ \E p \in Producers : put(p)
  \/ \E c \in Workers : takeItem(c)
  \/ InQueue("BlockingQueue", Plain!SpuriousWakeup) \/ InQueue("BoundedBlockingQueue", Limited!SpuriousWakeup)
  \/ InLog(Log!Next) \/ InLatch(LatchNext) \/ InThread(ThreadNext)

\* The fairness of the specifications.
MCSpec ==
  /\ MCInit /\ [][MCNext]_all
  /\ WF_all(InPool(start)) /\ WF_all(InPool(stopReturns))
  /\ \A p \in Producers : WF_all(InPool(run(p))) /\ WF_all(put(p))
  /\ \A w \in Workers : WF_all(InPool(Worker(w))) /\ WF_all(takeItem(w))
  /\ WF_all(InLog(Log!threadFunc)) /\ WF_all(InLog(Log!stopReturns))
  /\ \A t \in Workers \union Producers :
       WF_all(InLatch(Call(t) \/ InCall(t))) /\ SF_all(InLatch(Acquire(t)))

------------------------------------------------------------------------------
(* The properties of the instances. *)

\* See ThreadPool and BlockingQueue: tasks and items come out once each and in order, a bounded
\* queue never holds more than it may, and what a pool that is stopped has taken it has run
\* (ThreadPool.cc:55-118, BlockingQueue.h:30-58, BoundedBlockingQueue.h:33-69).
QueuesAreFifo ==
  TakenInOrder /\ (IF uses = "BoundedBlockingQueue" THEN Limited!BoundedFifo ELSE Plain!BoundedFifo)

\* See ThreadPool, BlockingQueue and CountDownLatch: whoever waits for a condition goes on when it
\* holds, in take(), put(), run(), wait() and the workers that stop() joins
\* (ThreadPool.cc:55-118, BoundedBlockingQueue.h:33-69, CountDownLatch.cc:22-35).
NoWakeupIsLost ==
  WorkGoesOn /\ StopReturns /\ Plain!ItemsGoThrough /\ WaitReturns

\* See AsyncLogging: lines are written in order and none is lost without a message, and both spare
\* buffers are back at the top of the loop (AsyncLogging.cc:36-63, 83-126).
LinesAccountedFor == Log!LinesAccountedFor

\* See AsyncLogging: a line is on disk in the end, and stop() returns (AsyncLogging.cc:96).
LinesReachDisk == Log!LinesReachDisk
=============================================================================
