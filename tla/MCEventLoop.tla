---------------------------- MODULE MCEventLoop ----------------------------
(* EventLoop for TLC: the loop as any program may use it, or as the one of an EventLoopThread,  *)
(* with two threads besides the loop's, the owner among them, and three functors.               *)
EXTENDS EventLoopThread

VARIABLE uses

MCInit == uses \in {"EventLoop", "EventLoopThread"} /\ ThreadInit

Alone(A) == uses = "EventLoop" /\ A /\ UNCHANGED <<threadVars, uses>>
Owned(A) == uses = "EventLoopThread" /\ A /\ UNCHANGED uses

MCNext == Alone(Next) \/ Owned(ThreadNext)

all == <<allVars, uses>>

\* The fairness of FairSpec and ThreadSpec.
MCSpec ==
  /\ MCInit /\ [][MCNext]_all
  /\ WF_all(Alone(LoopStep)) /\ WF_all(Owned(InLoop))
  /\ WF_all(Owned(ThreadStep)) /\ WF_all(Owned(AwaitLoop \/ DtorQuit \/ DtorQuitsLate \/ DtorJoin))
  /\ \A th \in AllThreads : WF_all(Alone(wakeup(th))) /\ WF_all(Owned(InWakeup(th)))
=============================================================================
