---------------------------- MODULE LoopExecutor ----------------------------
(***************************************************************************)
(* What muduo::net::EventLoop promises to its callers about functors,      *)
(* without wakeups, batches or threads: a functor handed to queueInLoop()  *)
(* joins the end of one queue, the loop runs the queue from its front, one *)
(* functor at a time and each one once, and runInLoop() called in the loop *)
(* thread runs its functor at once.                                        *)
(***************************************************************************)
EXTENDS Sequences, Functions

CONSTANT Tasks            \* the functors; one element per call that hands one over

VARIABLES queue,          \* accepted, not yet started, in the order accepted
          ran             \* started, in the order started

vars == <<queue, ran>>

Fresh(t) == t \notin Range(queue) \cup Range(ran)

TypeOK == queue \in Seq(Tasks) /\ ran \in Seq(Tasks)

Init == queue = <<>> /\ ran = <<>>

Accept(t) == Fresh(t) /\ queue' = Append(queue, t) /\ UNCHANGED ran

RunNow(t) == Fresh(t) /\ ran' = Append(ran, t) /\ UNCHANGED queue

RunNext ==
  /\ queue # <<>>
  /\ ran' = Append(ran, Head(queue))
  /\ queue' = Tail(queue)

Next == RunNext \/ \E t \in Tasks : Accept(t) \/ RunNow(t)

Spec == Init /\ [][Next]_vars
=============================================================================
