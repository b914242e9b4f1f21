----------------------------- MODULE ThreadPool -----------------------------
(***************************************************************************)
(* muduo::ThreadPool: worker threads that take tasks from a queue, threads *)
(* that run() tasks and may block while the queue is full, and the owner   *)
(* that starts and stops the pool.  A step is what a thread does between   *)
(* taking mutex_ and releasing it or waiting, or its read of running_,     *)
(* which takes no mutex.                                                   *)
(***************************************************************************)
EXTENDS Integers, Sequences, FiniteSets

CONSTANTS Workers,        \* the threads of start(numThreads)
          Producers,      \* threads that call run()
          maxQueueSize_,
          MaxTasks        \* bound: tasks of each producer

ASSUME PoolAssumption ==
  /\ IsFiniteSet(Workers) /\ Workers \cap Producers = {}
  /\ maxQueueSize_ \in Nat /\ MaxTasks \in Nat

Tasks == Producers \X (1 .. MaxTasks)
NoTask == <<>>

VARIABLES running_, queue_,
          notEmpty_, notFull_,  \* the threads that wait
          pc,                   \* of each worker: "none", "loop", "take", "run", "done"
          task,                 \* of each worker
          owner,                \* "new", "started", "joining", "stopped"
          accepted, taken,      \* all tasks given to run() and all tasks taken, in order
          executed              \* tasks that have returned

vars == <<running_, queue_, notEmpty_, notFull_, pc, task, owner, accepted, taken, executed>>

TypeOK ==
  /\ running_ \in BOOLEAN /\ queue_ \in Seq(Tasks)
  /\ notEmpty_ \subseteq Workers /\ notFull_ \subseteq Producers
  /\ pc \in [Workers -> {"none", "loop", "take", "run", "done"}]
  /\ task \in [Workers -> Tasks \union {NoTask}] /\ \A w \in Workers : pc[w] = "run" => task[w] # NoTask
  /\ owner \in {"new", "started", "joining", "stopped"}
  /\ accepted \in Seq(Tasks) /\ taken \in Seq(Tasks) /\ executed \subseteq Tasks

Init ==
  /\ running_ = FALSE /\ queue_ = <<>> /\ notEmpty_ = {} /\ notFull_ = {}
  /\ pc = [w \in Workers |-> "none"] /\ task = [w \in Workers |-> NoTask]
  /\ owner = "new" /\ accepted = <<>> /\ taken = <<>> /\ executed = {}

\* The sets of threads that may still wait after Condition::notify().
notify(waiting) == IF waiting = {} THEN {{}} ELSE {waiting \ {t} : t \in waiting}

Sent(p) == Cardinality({i \in DOMAIN accepted : accepted[i][1] = p})

------------------------------------------------------------------------------
(* The owner. *)

start ==
  /\ owner = "new" /\ owner' = "started"
  /\ running_' = TRUE
  /\ pc' = [w \in Workers |-> "loop"]
  /\ UNCHANGED <<queue_, notEmpty_, notFull_, task, accepted, taken, executed>>

\* Mutant: only one worker is told.
Told_One == notify(notEmpty_)

Told == {{}}

\* stop() up to the joins.
stop ==
  /\ owner = "started" /\ owner' = "joining"
  /\ running_' = FALSE
  /\ notEmpty_' \in Told
  /\ UNCHANGED <<queue_, notFull_, pc, task, accepted, taken, executed>>

Joined == \A w \in Workers : pc[w] = "done"

stopReturns ==
  /\ owner = "joining" /\ Joined /\ owner' = "stopped"
  /\ UNCHANGED <<running_, queue_, notEmpty_, notFull_, pc, task, accepted, taken, executed>>

------------------------------------------------------------------------------
(* run() *)

isFull == maxQueueSize_ > 0 /\ Len(queue_) >= maxQueueSize_

ToldOfTask == notify(notEmpty_)

\* Before start(), and with no workers, there are none.
threads_ == IF owner = "new" THEN {} ELSE Workers

\* Without threads the caller runs the task itself.
RunHere(p) ==
  /\ threads_ = {} /\ Sent(p) < MaxTasks
  /\ accepted' = Append(accepted, <<p, Sent(p) + 1>>) /\ taken' = Append(taken, <<p, Sent(p) + 1>>)
  /\ executed' = executed \union {<<p, Sent(p) + 1>>}
  /\ UNCHANGED <<running_, queue_, notEmpty_, notFull_, pc, task, owner>>

\* With threads it queues the task; from the test of the loop on.
Enqueue(p) ==
  /\ threads_ # {} /\ p \notin notFull_ /\ Sent(p) < MaxTasks
  /\ IF isFull
     THEN notFull_' = notFull_ \union {p} /\ UNCHANGED <<queue_, notEmpty_, accepted>>
     ELSE /\ queue_' = Append(queue_, <<p, Sent(p) + 1>>)
          /\ accepted' = Append(accepted, <<p, Sent(p) + 1>>)
          /\ notEmpty_' \in ToldOfTask
          /\ UNCHANGED notFull_
  /\ UNCHANGED <<running_, pc, task, owner, taken, executed>>

run(p) == RunHere(p) \/ Enqueue(p)

------------------------------------------------------------------------------
(* Workers. *)

\* runInThread(): while (running_)
Loop(w) ==
  /\ pc[w] = "loop"
  /\ pc' = [pc EXCEPT ![w] = IF running_ THEN "take" ELSE "done"]
  /\ UNCHANGED <<running_, queue_, notEmpty_, notFull_, task, owner, accepted, taken, executed>>

\* Mutant: room is announced only if the queue was full.
ToldOfRoom_WhenFull == IF isFull THEN notify(notFull_) ELSE {notFull_}

ToldOfRoom == IF maxQueueSize_ > 0 THEN notify(notFull_) ELSE {notFull_}

\* Mutant: the newest task is taken.
Front_Newest == [task |-> queue_[Len(queue_)], rest |-> SubSeq(queue_, 1, Len(queue_) - 1)]

Front == [task |-> Head(queue_), rest |-> Tail(queue_)]

\* if (task)
WithoutTask == "loop"

\* take(), from the test of its loop on; without a task the worker goes on with its loop.
take(w) ==
  /\ pc[w] = "take" /\ w \notin notEmpty_
  /\ CASE queue_ = <<>> /\ running_ ->
            notEmpty_' = notEmpty_ \union {w} /\ UNCHANGED <<queue_, notFull_, pc, task, taken>>
       [] queue_ = <<>> /\ ~running_ ->
            pc' = [pc EXCEPT ![w] = WithoutTask] /\ UNCHANGED <<queue_, notEmpty_, notFull_, task, taken>>
       [] OTHER ->
            /\ task' = [task EXCEPT ![w] = Front.task] /\ taken' = Append(taken, Front.task)
            /\ queue_' = Front.rest
            /\ notFull_' \in ToldOfRoom
            /\ pc' = [pc EXCEPT ![w] = "run"]
            /\ UNCHANGED notEmpty_
  /\ UNCHANGED <<running_, owner, accepted, executed>>

\* task()
Execute(w) ==
  /\ pc[w] = "run" /\ pc' = [pc EXCEPT ![w] = "loop"]
  /\ executed' = executed \union {task[w]} /\ task' = [task EXCEPT ![w] = NoTask]
  /\ UNCHANGED <<running_, queue_, notEmpty_, notFull_, owner, accepted, taken>>

\* pthread_cond_wait(3) may return without a notification.
SpuriousWakeup ==
  /\ \E t \in notEmpty_ \union notFull_ : notEmpty_' = notEmpty_ \ {t} /\ notFull_' = notFull_ \ {t}
  /\ UNCHANGED <<running_, queue_, pc, task, owner, accepted, taken, executed>>

Worker(w) == Loop(w) \/ take(w) \/ Execute(w)

Next ==
  \/ start \/ stop \/ stopReturns \/ SpuriousWakeup
  \/ \E p \in Producers : run(p)
  \/ \E w \in Workers : Worker(w)

Spec == Init /\ [][Next]_vars

\* Threads that do not wait run on, and tasks return.
FairSpec ==
  /\ Spec /\ WF_vars(start) /\ WF_vars(stopReturns)
  /\ \A p \in Producers : WF_vars(run(p))
  /\ \A w \in Workers : WF_vars(Worker(w))

------------------------------------------------------------------------------
(* Properties. *)

\* Tasks are taken once each and in the order run() queued them, and when stop() returns, every
\* task that was taken has run (ThreadPool_test.cc:38-41 waits for the last one only); the queue
\* is never longer than maxQueueSize_, whichever producers were woken or barged in.
TakenInOrder ==
  /\ TypeOK /\ accepted = taken \o queue_
  /\ owner = "stopped" => executed = {taken[i] : i \in DOMAIN taken}
  /\ maxQueueSize_ > 0 => Len(queue_) <= maxQueueSize_

\* While the pool runs, a task that is queued is taken in the end, and a producer that waits for
\* room goes on: no wakeup is lost (ThreadPool.cc:86-94, 103-118).
WorkGoesOn ==
  /\ queue_ # <<>> ~> queue_ = <<>> \/ ~running_
  /\ \A p \in Producers : p \in notFull_ ~> Sent(p) = MaxTasks \/ ~running_

\* stop() returns: no worker is left waiting, however it raced with the test of running_
\* (ThreadPool.cc:55-66, 139).
StopReturns == owner = "joining" ~> owner = "stopped"
=============================================================================
