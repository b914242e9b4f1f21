------------------------------- MODULE Thread -------------------------------
(***************************************************************************)
(* muduo::Thread and ThreadData: start() creates the thread and waits for  *)
(* a CountDownLatch of one, which the thread counts down when it has       *)
(* written tid_.  Both live in the Thread object, which its owner may      *)
(* destruct as soon as start() has returned; the thread goes on.           *)
(***************************************************************************)
EXTENDS Integers, FiniteSets

CONSTANTS Owner, Child, NoThread

ASSUME ThreadAssumption == Owner # Child /\ NoThread \notin {Owner, Child}

VARIABLES latchMutex, latchHolder, latchCount, latchAt,   \* of latch_
          started_, joined_, tid_,
          creator,   \* where the owner is; "gone" when the object is destructed
          child      \* the thread: "none", "tid", "latch", "func", "finished", "crashed"

latch_ ==
  INSTANCE CountDownLatch WITH
    Waiters <- {Owner}, Counters <- {Child}, Nobody <- NoThread,
    mutex_ <- latchMutex, holder_ <- latchHolder, count_ <- latchCount, at <- latchAt

latchFields == <<latchMutex, latchHolder, latchCount, latchAt>>
threadVars == <<started_, joined_, tid_, creator, child>>
objectVars == <<latchFields, threadVars>>

ThreadTypeOK ==
  /\ latch_!LatchTypeOK /\ started_ \in BOOLEAN /\ joined_ \in BOOLEAN /\ tid_ \in {NoThread, Child}
  /\ creator \in {"new", "start", "started", "join", "joined", "gone", "aborted"}
  /\ child \in {"none", "tid", "latch", "func", "finished", "crashed"}

ThreadInit ==
  /\ latch_!LatchInit /\ started_ = FALSE /\ joined_ = FALSE /\ tid_ = NoThread
  /\ creator = "new" /\ child = "none"

\* An exception that leaves func_ ends the process, and so does a failed pthread_create.
Alive == child # "crashed" /\ creator # "aborted"

------------------------------------------------------------------------------
(* The owner. *)

\* start() up to the wait.
startThread ==
  /\ creator = "new" /\ creator' = "start"
  /\ started_' = TRUE /\ child' = "tid" /\ latch_!Call(Owner)
  /\ UNCHANGED <<joined_, tid_>>

startFails ==
  /\ creator = "new" /\ creator' = "aborted"
  /\ UNCHANGED <<latchFields, started_, joined_, tid_, child>>

startReturns ==
  /\ creator = "start" /\ latchAt[Owner] = "after" /\ creator' = "started"
  /\ UNCHANGED <<latchFields, started_, joined_, tid_, child>>

join ==
  /\ creator = "started" /\ creator' = "join" /\ joined_' = TRUE
  /\ UNCHANGED <<latchFields, started_, tid_, child>>

joinReturns ==
  /\ creator = "join" /\ child = "finished" /\ creator' = "joined"
  /\ UNCHANGED <<latchFields, started_, joined_, tid_, child>>

\* ~Thread(), which detaches a thread that was not joined.
Destruct ==
  /\ creator \in {"new", "started", "joined"} /\ creator' = "gone"
  /\ UNCHANGED <<latchFields, started_, joined_, tid_, child>>

------------------------------------------------------------------------------
(* runInThread() *)

\* *tid_ is written, latch_->countDown() called.
Publish ==
  /\ child = "tid" /\ child' = "latch"
  /\ tid_' = Child /\ latch_!Call(Child)
  /\ UNCHANGED <<started_, joined_, creator>>

Counted ==
  /\ child = "latch" /\ latchAt[Child] = "after" /\ child' = "func"
  /\ UNCHANGED <<latchFields, started_, joined_, tid_, creator>>

FuncReturns ==
  /\ child = "func" /\ child' = "finished"
  /\ UNCHANGED <<latchFields, started_, joined_, tid_, creator>>

FuncThrows ==
  /\ child = "func" /\ child' = "crashed"
  /\ UNCHANGED <<latchFields, started_, joined_, tid_, creator>>

UseLatch(t) == (latch_!InCall(t) \/ latch_!Spurious(t)) /\ UNCHANGED threadVars

ThreadNext ==
  /\ Alive
  /\ \/ startThread \/ startFails \/ startReturns \/ join \/ joinReturns \/ Destruct
     \/ Publish \/ Counted \/ FuncReturns \/ FuncThrows
     \/ \E t \in {Owner, Child} : UseLatch(t)

ThreadSpec == ThreadInit /\ [][ThreadNext]_objectVars

------------------------------------------------------------------------------
\* When start() has returned the thread has written tid_ and is done with the latch, so it
\* touches nothing of the Thread object, which the owner may destruct with mutex_ free
\* (Thread.cc:82-85, 214-215, Mutex.h:149); and a thread is joined or detached, never both
\* (Thread.cc:179-182, 221-223).
ObjectOutlivesUse ==
  /\ ThreadTypeOK
  /\ creator \in {"started", "join", "joined"} => tid_ = Child
  /\ creator = "gone" /\ started_ => /\ tid_ = Child /\ child # "tid" /\ latchAt[Child] = "after"
                                     /\ latchHolder = NoThread /\ latchMutex = NoThread
  /\ creator \in {"started", "gone"} /\ joined_ => child = "finished"
=============================================================================
