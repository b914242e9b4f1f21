---------------------------- MODULE BlockingQueue ----------------------------
(***************************************************************************)
(* muduo::BlockingQueue and muduo::BoundedBlockingQueue: a queue under a   *)
(* mutex, with threads that wait in notEmpty_ and, if it is bounded, in    *)
(* notFull_.  A step is what a thread does from taking the mutex to        *)
(* releasing it or waiting.                                                *)
(***************************************************************************)
EXTENDS Integers, Sequences, FiniteSets

CONSTANTS Producers, Consumers,
          maxSize,        \* of a BoundedBlockingQueue; 0 is a BlockingQueue
          Items           \* bound: items that a producer puts

VARIABLES queue_,
          notEmpty_, notFull_,  \* the threads that wait
          sent,                 \* items put by each producer
          taken                 \* all items taken, in order

vars == <<queue_, notEmpty_, notFull_, sent, taken>>
waiters == notEmpty_ \union notFull_

TypeOK ==
  /\ queue_ \in Seq(Producers \X (1 .. Items)) /\ taken \in Seq(Producers \X (1 .. Items))
  /\ notEmpty_ \subseteq Consumers /\ notFull_ \subseteq Producers
  /\ sent \in [Producers -> 0 .. Items]

Init ==
  /\ queue_ = <<>> /\ notEmpty_ = {} /\ notFull_ = {}
  /\ sent = [p \in Producers |-> 0] /\ taken = <<>>

\* Mutant: the size is tested after one item too many.
full_TooLate == maxSize > 0 /\ Len(queue_) > maxSize

full == maxSize > 0 /\ Len(queue_) >= maxSize

\* Condition::notify() of put(): one thread leaves the waiting ones, if there is any.
notifyPut(waiting) == IF waiting = {} THEN {{}} ELSE {waiting \ {t} : t \in waiting}

\* Mutant: room is announced only when the queue was full.
notifyTake_WhenFull(waiting) ==
  IF waiting = {} \/ Len(queue_) < maxSize THEN {waiting} ELSE {waiting \ {t} : t \in waiting}

\* The same of take(), in the bounded queue.
notifyTake(waiting) == IF waiting = {} THEN {{}} ELSE {waiting \ {t} : t \in waiting}

waitForRoom(p) == notFull_' = notFull_ \union {p} /\ UNCHANGED notEmpty_

\* put(), from the test of its loop on.
put(p) ==
  /\ p \notin notFull_ /\ sent[p] < Items
  /\ IF full
     THEN waitForRoom(p) /\ UNCHANGED <<queue_, sent>>
     ELSE /\ sent' = [sent EXCEPT ![p] = @ + 1]
          /\ queue_' = Append(queue_, <<p, sent[p] + 1>>)
          /\ notEmpty_' \in notifyPut(notEmpty_)
          /\ UNCHANGED notFull_
  /\ UNCHANGED taken

Front == [item |-> Head(queue_), rest |-> Tail(queue_)]

\* take(), from the test of its loop on.
take(c) ==
  /\ c \notin notEmpty_
  /\ IF queue_ = <<>>
     THEN notEmpty_' = notEmpty_ \union {c} /\ UNCHANGED <<queue_, notFull_, taken>>
     ELSE /\ taken' = Append(taken, Front.item)
          /\ queue_' = Front.rest
          /\ notFull_' \in notifyTake(notFull_)
          /\ UNCHANGED notEmpty_
  /\ UNCHANGED sent

\* pthread_cond_wait(3) may return without a notification.
SpuriousWakeup ==
  /\ \E t \in waiters : notEmpty_' = notEmpty_ \ {t} /\ notFull_' = notFull_ \ {t}
  /\ UNCHANGED <<queue_, sent, taken>>

Next ==
  \/ \E p \in Producers : put(p)
  \/ \E c \in Consumers : take(c)
  \/ SpuriousWakeup

Spec == Init /\ [][Next]_vars

\* Threads that do not wait run on, and consumers go on taking.
FairSpec ==
  /\ Spec
  /\ \A p \in Producers : WF_vars(put(p))
  /\ \A c \in Consumers : WF_vars(take(c))

------------------------------------------------------------------------------
(* Properties. *)

\* All items put, those taken first, in the order in which they are or will be taken.
Through == taken \o queue_

\* The items of a producer come out once each and in the order it put them, and a bounded queue
\* never holds more than maxSize items, with producers that wake up, barge in or wake up
\* without cause.
BoundedFifo ==
  /\ TypeOK
  /\ maxSize > 0 => Len(queue_) <= maxSize
  /\ \A i, j \in DOMAIN Through :
       i < j /\ Through[i][1] = Through[j][1] => Through[i][2] < Through[j][2]
  /\ {Through[i] : i \in DOMAIN Through} = {item \in Producers \X (1 .. Items) : item[2] <= sent[item[1]]}

\* No wakeup is lost: what is put is taken in the end, and a producer that waits for room gets it.
ItemsGoThrough ==
  /\ queue_ # <<>> ~> queue_ = <<>>
  /\ \A p \in Producers : p \in notFull_ ~> sent[p] = Items
=============================================================================
