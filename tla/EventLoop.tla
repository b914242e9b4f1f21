------------------------------ MODULE EventLoop ------------------------------
(***************************************************************************)
(* muduo::net::EventLoop: the poll loop of one thread, and the protocol by *)
(* which other threads hand it functors and stop it (queueInLoop, wakeup,  *)
(* quit).  What the event handlers and the functors do is user code: while *)
(* one is running, the loop thread may call back into the loop any number  *)
(* of times.                                                               *)
(***************************************************************************)
EXTENDS Naturals, Sequences, Functions

CONSTANTS Threads,        \* the threads that are not the loop's
          LoopThread,     \* the thread that created the loop (threadId_)
          Tasks,          \* the functors, one for each call that hands one over
          EventfdMax      \* largest count an eventfd holds (2^64 - 2 in Linux)

ASSUME ThreadsAssumption == LoopThread \notin Threads
ASSUME EventfdAssumption == EventfdMax \in Nat \ {0}

VARIABLES pc,             \* where the loop thread is, see LoopPcs
          looping_, quit_, callingPendingFunctors_,
          pendingFunctors_,
          functors,       \* the local batch of doPendingFunctors(), what is left of it
          active,         \* the part of activeChannels_ not handled yet
          eventfd,        \* the count in the eventfd behind wakeupFd_
          waking,         \* threads that are inside wakeup(), before the write
          ran,            \* history: functors started, in order
          early           \* history: functors the loop thread queued outside loop()

loopVars == <<pc, looping_, active>>
functorVars == <<callingPendingFunctors_, pendingFunctors_, functors, ran, early>>
vars == <<loopVars, quit_, functorVars, eventfd, waking>>

(***************************************************************************)
(* "idle" not in loop(); "while" about to test quit_; "poll" blocked in    *)
(* the poller; "handle" between two channels of activeChannels_; "io" in   *)
(* user code called by a channel; "functors" between two functors of the   *)
(* batch; "functor" in user code of a functor; "gone" after ~EventLoop.    *)
(***************************************************************************)
LoopPcs == {"idle", "while", "poll", "handle", "io", "functors", "functor", "gone"}
UserCode == {"idle", "io", "functor"}

AllThreads == Threads \cup {LoopThread}
isInLoopThread(th) == th = LoopThread

Fresh(t) == t \notin Range(pendingFunctors_) \cup Range(functors) \cup Range(ran)

\* A thread can make a call if it is not inside one; the loop thread only from user code.
CanCall(th) ==
  /\ pc # "gone"
  /\ th \notin waking
  /\ isInLoopThread(th) => pc \in UserCode

LoopAt(place) == pc = place /\ LoopThread \notin waking

TypeOK ==
  /\ pc \in LoopPcs
  /\ looping_ \in BOOLEAN /\ quit_ \in BOOLEAN /\ callingPendingFunctors_ \in BOOLEAN
  /\ pendingFunctors_ \in Seq(Tasks) /\ functors \in Seq(Tasks) /\ ran \in Seq(Tasks)
  /\ active \subseteq {"wakeup", "io"}
  /\ eventfd \in 0 .. EventfdMax
  /\ waking \subseteq AllThreads
  /\ early \subseteq Tasks

Init ==
  /\ pc = "idle"
  /\ looping_ = FALSE /\ quit_ = FALSE /\ callingPendingFunctors_ = FALSE
  /\ pendingFunctors_ = <<>> /\ functors = <<>> /\ ran = <<>>
  /\ active = {} /\ eventfd = 0 /\ waking = {} /\ early = {}

------------------------------------------------------------------------------
(* Calls that any thread may make. *)

\* The write; at the limit the non-blocking eventfd refuses it (EAGAIN, only logged).
Signalled == IF eventfd < EventfdMax THEN eventfd + 1 ELSE eventfd

wakeup(th) ==
  /\ th \in waking
  /\ waking' = waking \ {th}
  /\ eventfd' = Signalled
  /\ UNCHANGED <<loopVars, quit_, functorVars>>

\* Mutant: the condition of the wakeup without callingPendingFunctors_.
NeedsWakeup_ForgetCalling(th) == ~isInLoopThread(th)

NeedsWakeup(th) == ~isInLoopThread(th) \/ callingPendingFunctors_

\* Mutant: the functor goes to the front of the queue.
Pushed_Front(t) == <<t>> \o pendingFunctors_

Pushed(t) == Append(pendingFunctors_, t)

\* The push under mutex_, and the decision to call wakeup().
queueInLoop(th, t) ==
  /\ CanCall(th) /\ Fresh(t)
  /\ pendingFunctors_' = Pushed(t)
  /\ waking' = IF NeedsWakeup(th) THEN waking \cup {th} ELSE waking
  /\ early' = IF isInLoopThread(th) /\ ~looping_ THEN early \cup {t} ELSE early
  /\ UNCHANGED <<loopVars, quit_, callingPendingFunctors_, functors, ran, eventfd>>

\* In another thread runInLoop is queueInLoop.
runInLoop(th, t) ==
  /\ isInLoopThread(th) /\ CanCall(th) /\ Fresh(t)
  /\ ran' = Append(ran, t)
  /\ UNCHANGED <<loopVars, quit_, callingPendingFunctors_, pendingFunctors_, functors,
                 early, eventfd, waking>>

\* Mutant: quit() without the wakeup.
QuitWakes_Never(th) == FALSE

QuitWakes(th) == ~isInLoopThread(th)

quit(th) ==
  /\ CanCall(th)
  /\ quit_' = TRUE
  /\ waking' = IF QuitWakes(th) THEN waking \cup {th} ELSE waking
  /\ UNCHANGED <<loopVars, functorVars, eventfd>>

------------------------------------------------------------------------------
(* The loop thread. *)

\* loop() up to the while: a quit() that came before is forgotten here.
LoopEnter ==
  /\ LoopAt("idle")
  /\ pc' = "while" /\ looping_' = TRUE /\ quit_' = FALSE
  /\ UNCHANGED <<active, functorVars, eventfd, waking>>

WhileNotQuit ==
  /\ LoopAt("while")
  /\ pc' = IF quit_ THEN "idle" ELSE "poll"
  /\ looping_' = ~quit_
  /\ active' = {}
  /\ UNCHANGED <<quit_, functorVars, eventfd, waking>>

\* poll() returns the channels that are ready: the wakeup channel when the eventfd
\* is not zero, the others as the environment has it.
Poll(ready) ==
  /\ LoopAt("poll")
  /\ "wakeup" \in ready <=> eventfd > 0
  /\ active' = ready
  /\ pc' = "handle"
  /\ UNCHANGED <<looping_, quit_, functorVars, eventfd, waking>>

\* Woken by the eventfd, with or without other events.
PollWakeup == Poll({"wakeup"}) \/ Poll({"wakeup", "io"})
PollIo == Poll({"io"})
\* kPollTimeMs is over, or the call was interrupted.
PollTimeout == Poll({})

\* The wakeup channel's callback reads, and so resets, the eventfd.
handleRead ==
  /\ LoopAt("handle") /\ "wakeup" \in active
  /\ active' = active \ {"wakeup"}
  /\ eventfd' = 0
  /\ UNCHANGED <<pc, looping_, quit_, functorVars, waking>>

HandleIo ==
  /\ LoopAt("handle") /\ "io" \in active
  /\ active' = active \ {"io"}
  /\ pc' = "io"
  /\ UNCHANGED <<looping_, quit_, functorVars, eventfd, waking>>

HandlerReturns ==
  /\ LoopAt("io")
  /\ pc' = "handle"
  /\ UNCHANGED <<looping_, active, quit_, functorVars, eventfd, waking>>

\* doPendingFunctors() up to the end of its critical section.
SwapPending ==
  /\ LoopAt("handle") /\ active = {}
  /\ callingPendingFunctors_' = TRUE
  /\ functors' = pendingFunctors_
  /\ pendingFunctors_' = <<>>
  /\ pc' = "functors"
  /\ UNCHANGED <<looping_, active, quit_, ran, early, eventfd, waking>>

RunFunctor ==
  /\ LoopAt("functors") /\ functors # <<>>
  /\ ran' = Append(ran, Head(functors))
  /\ functors' = Tail(functors)
  /\ pc' = "functor"
  /\ UNCHANGED <<looping_, active, quit_, callingPendingFunctors_, pendingFunctors_,
                 early, eventfd, waking>>

FunctorReturns ==
  /\ LoopAt("functor")
  /\ pc' = "functors"
  /\ UNCHANGED <<looping_, active, quit_, functorVars, eventfd, waking>>

EndFunctors ==
  /\ LoopAt("functors") /\ functors = <<>>
  /\ callingPendingFunctors_' = FALSE
  /\ pc' = "while"
  /\ UNCHANGED <<looping_, active, quit_, pendingFunctors_, functors, ran, early,
                 eventfd, waking>>

\* ~EventLoop(): from here on nobody may call the loop.
Destruct ==
  /\ LoopAt("idle")
  /\ pc' = "gone"
  /\ UNCHANGED <<looping_, active, quit_, functorVars, eventfd, waking>>

\* The steps the loop thread takes by itself once loop() has been called.
LoopStep ==
  \/ WhileNotQuit \/ PollWakeup \/ handleRead \/ HandleIo \/ HandlerReturns
  \/ SwapPending \/ RunFunctor \/ FunctorReturns \/ EndFunctors

Call(th) ==
  \/ quit(th)
  \/ \E t \in Tasks : queueInLoop(th, t) \/ runInLoop(th, t)

Next ==
  \/ LoopEnter \/ LoopStep \/ PollIo \/ PollTimeout \/ Destruct
  \/ \E th \in AllThreads : wakeup(th) \/ Call(th)

Spec == Init /\ [][Next]_vars

(***************************************************************************)
(* The scheduler runs the loop thread and lets every call finish, handlers *)
(* and functors return.  There is no fairness on PollTimeout or PollIo: a  *)
(* functor must not have to wait for the 10 s of kPollTimeMs.              *)
(***************************************************************************)
FairSpec ==
  /\ Spec
  /\ WF_vars(LoopStep)
  /\ \A th \in AllThreads : WF_vars(wakeup(th))

------------------------------------------------------------------------------
(* Properties. *)

SomeoneWakes == eventfd > 0 \/ waking # {}
Prompt == Range(pendingFunctors_) \ early

\* When the loop is blocked in poll() (EventLoop.cc:128) and a functor is queued, the
\* eventfd is readable or some thread is about to write it.  Only functors that the
\* loop's own thread queued before loop() may wait for the poll timeout.
NoLostWakeup == pc = "poll" /\ Prompt # {} => SomeoneWakes

\* A quit() made while the loop runs never leaves the loop blocked in poll() with
\* nobody about to wake it (quit, EventLoop.cc:151).
QuitWakesPoll == pc = "poll" /\ quit_ => SomeoneWakes

\* callingPendingFunctors_ is set exactly while a batch runs and a batch never
\* outlives doPendingFunctors() (EventLoop.cc:278-295), so poll() is never entered with
\* functors of an old batch left over.
BatchDiscipline ==
  /\ callingPendingFunctors_ <=> pc \in {"functors", "functor"}
  /\ functors # <<>> => callingPendingFunctors_

\* Queue, batch and history together behave as one FIFO queue that is run from its
\* front: swapping batches (doPendingFunctors, EventLoop.cc:278) neither loses,
\* repeats nor reorders a functor.
Executor == INSTANCE LoopExecutor WITH queue <- functors \o pendingFunctors_
FifoExactlyOnce == Executor!Spec

\* A functor handed over while the loop runs is started, or the loop is left, and quit() while
\* the loop runs stops it; both without help from the poll timeout (queueInLoop, quit and
\* wakeup, EventLoop.cc:151-159, 177-188).
LoopResponds ==
  /\ \A t \in Tasks : looping_ /\ t \in Prompt ~> t \in Range(ran) \/ ~looping_
  /\ looping_ /\ quit_ ~> ~looping_
=============================================================================
