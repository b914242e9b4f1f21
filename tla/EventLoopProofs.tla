--------------------------- MODULE EventLoopProofs ---------------------------
(***************************************************************************)
(* Theorems about EventLoop, and about the loop as EventLoopThread uses    *)
(* it, for any number of threads and functors.                             *)
(***************************************************************************)
EXTENDS EventLoopThread, SequenceTheorems, TLAPS

\* Every functor that must not wait for the poll timeout has a wakeup under way at all
\* the places from which the loop can reach poll() without swapping the queue first.
WakeupPending ==
  pc \in {"idle", "while", "poll", "functors", "functor"} /\ Prompt # {} => SomeoneWakes

LoopingIsInLoop == looping_ <=> pc \notin {"idle", "gone"}

\* The inductive invariant behind NoLostWakeup, QuitWakesPoll and BatchDiscipline.
IInv ==
  /\ TypeOK
  /\ WakeupPending
  /\ QuitWakesPoll
  /\ BatchDiscipline
  /\ LoopingIsInLoop

\* The values of the empty sequence, and of a sequence after an Append.
LEMMA RangeEmpty == Range(<<>>) = {}
  BY DEF Range

\* The values of a sequence after an Append (queueInLoop() appends, EventLoop.cc:181).
LEMMA RangeAppend ==
  ASSUME NEW S, NEW s \in Seq(S), NEW e \in S
  PROVE  Range(Append(s, e)) = Range(s) \cup {e}
<1>1. /\ Append(s, e) \in Seq(S)
      /\ DOMAIN Append(s, e) = DOMAIN s \cup {Len(s) + 1}
      /\ \A i \in DOMAIN s : Append(s, e)[i] = s[i]
      /\ Append(s, e)[Len(s) + 1] = e
  BY AppendProperties
<1>2. QED
  BY <1>1, Zenon DEF Range

\* The constructor (EventLoop.cc:69-94) establishes the invariant.
LEMMA InitIInv == Init => IInv
<1> SUFFICES ASSUME Init PROVE IInv
  BY Zenon
<1>1. TypeOK
  <2>1. pendingFunctors_ \in Seq(Tasks) /\ functors \in Seq(Tasks) /\ ran \in Seq(Tasks)
    BY EmptySeq, Zenon DEF Init
  <2>2. pc \in LoopPcs /\ eventfd \in 0 .. EventfdMax
    BY EventfdAssumption DEF Init, LoopPcs
  <2>3. QED
    BY <2>1, <2>2, Zenon DEF Init, TypeOK
<1>2. WakeupPending
  <2>1. Prompt = {}
    BY RangeEmpty, Zenon DEF Init, Prompt
  <2>2. QED
    BY <2>1, Zenon DEF WakeupPending
<1>3. QuitWakesPoll /\ BatchDiscipline /\ LoopingIsInLoop
  BY Zenon DEF Init, QuitWakesPoll, BatchDiscipline, LoopingIsInLoop
<1>4. QED
  BY <1>1, <1>2, <1>3, Zenon DEF IInv

\* Every step of the loop and of its callers keeps the types.
LEMMA NextTypeOK == IInv /\ [Next]_vars => TypeOK'
<1> SUFFICES ASSUME IInv, [Next]_vars PROVE TypeOK'
  BY Zenon
<1> USE DEF IInv, TypeOK
<1>1. CASE LoopEnter
  BY <1>1, Zenon DEF LoopEnter, LoopPcs, functorVars
<1>2. CASE WhileNotQuit
  BY <1>2, Zenon DEF WhileNotQuit, LoopPcs, functorVars
<1>3. ASSUME NEW ready \in SUBSET {"wakeup", "io"}, Poll(ready) PROVE TypeOK'
  BY <1>3, Zenon DEF Poll, LoopPcs, functorVars
<1>4. CASE handleRead
  BY <1>4, EventfdAssumption DEF handleRead, LoopPcs, functorVars
<1>5. CASE HandleIo
  BY <1>5, Zenon DEF HandleIo, LoopPcs, functorVars
<1>6. CASE HandlerReturns
  BY <1>6, Zenon DEF HandlerReturns, LoopPcs, functorVars
<1>7. CASE SwapPending
  BY <1>7 DEF SwapPending, LoopPcs, functorVars
<1>8. CASE RunFunctor
  BY <1>8 DEF RunFunctor, LoopPcs, functorVars
<1>9. CASE FunctorReturns
  BY <1>9, Zenon DEF FunctorReturns, LoopPcs, functorVars
<1>10. CASE EndFunctors
  BY <1>10, Zenon DEF EndFunctors, LoopPcs, functorVars
<1>11. CASE Destruct
  BY <1>11, Zenon DEF Destruct, LoopPcs, functorVars
<1>12. ASSUME NEW th \in AllThreads, wakeup(th) PROVE TypeOK'
  BY <1>12, EventfdAssumption DEF wakeup, Signalled, loopVars, functorVars
<1>13. ASSUME NEW th \in AllThreads, quit(th) PROVE TypeOK'
  BY <1>13, Zenon DEF quit, QuitWakes, loopVars, functorVars
<1>14. ASSUME NEW th \in AllThreads, NEW t \in Tasks, queueInLoop(th, t) PROVE TypeOK'
  BY <1>14 DEF queueInLoop, Pushed, loopVars
<1>15. ASSUME NEW th \in AllThreads, NEW t \in Tasks, runInLoop(th, t) PROVE TypeOK'
  BY <1>15 DEF runInLoop, loopVars
<1>16. CASE UNCHANGED vars
  BY <1>16, Zenon DEF vars, loopVars, functorVars
<1>17. QED
  BY <1>1, <1>2, <1>3, <1>4, <1>5, <1>6, <1>7, <1>8, <1>9, <1>10, <1>11, <1>12, <1>13,
     <1>14, <1>15, <1>16, Zenon
  DEF Next, LoopStep, PollWakeup, PollIo, PollTimeout, Call

\* Every step keeps a wakeup under way for the functors that must not wait: queueInLoop()
\* writes to the eventfd before the loop can block, or the loop is to swap the queue (EventLoop.cc:177-188).
LEMMA NextWakeupPending == IInv /\ [Next]_vars => WakeupPending'
<1> SUFFICES ASSUME IInv, [Next]_vars PROVE WakeupPending'
  BY Zenon
<1> USE DEF WakeupPending, Prompt, SomeoneWakes
<1>0. /\ TypeOK /\ WakeupPending /\ BatchDiscipline /\ LoopingIsInLoop
      /\ eventfd \in 0 .. EventfdMax
  BY Zenon DEF IInv, TypeOK
<1>1. CASE LoopEnter \/ WhileNotQuit \/ FunctorReturns \/ EndFunctors
  BY <1>0, <1>1, Zenon DEF LoopEnter, WhileNotQuit, FunctorReturns, EndFunctors, LoopAt, functorVars
<1>2. ASSUME NEW ready \in SUBSET {"wakeup", "io"}, Poll(ready) PROVE WakeupPending'
  BY <1>2, Zenon DEF Poll
<1>3. CASE handleRead \/ HandleIo \/ HandlerReturns \/ Destruct
  BY <1>3, Zenon DEF handleRead, HandleIo, HandlerReturns, Destruct, LoopAt
<1>4. CASE SwapPending
  <2>1. Range(pendingFunctors_') = {}
    BY <1>4, RangeEmpty, Zenon DEF SwapPending
  <2>2. QED
    BY <2>1, Zenon
<1>5. CASE RunFunctor
  BY <1>0, <1>5, Zenon DEF RunFunctor, LoopAt
<1>6. ASSUME NEW th \in AllThreads, wakeup(th) PROVE WakeupPending'
  <2>1. eventfd' > 0
    BY <1>0, <1>6, EventfdAssumption DEF wakeup, Signalled
  <2>2. QED
    BY <2>1, Zenon
<1>7. ASSUME NEW th \in AllThreads, quit(th) PROVE WakeupPending'
  BY <1>0, <1>7, Zenon DEF quit, loopVars, functorVars
<1>8. ASSUME NEW th \in AllThreads, NEW t \in Tasks, queueInLoop(th, t) PROVE WakeupPending'
  <2>1. Range(pendingFunctors_') = Range(pendingFunctors_) \cup {t}
    BY <1>0, <1>8, RangeAppend DEF queueInLoop, Pushed, TypeOK
  <2>2. CASE NeedsWakeup(th)
    BY <1>8, <2>2, Zenon DEF queueInLoop
  <2>3. CASE ~NeedsWakeup(th) /\ ~looping_
    \* queued by the loop thread outside loop(): the functor may wait for the timeout
    <3>1. early' = early \cup {t} /\ pc' = pc /\ UNCHANGED <<eventfd, waking>>
      BY <1>8, <2>3, Zenon DEF queueInLoop, NeedsWakeup, loopVars
    <3>2. QED
      BY <1>0, <2>1, <3>1, Zenon
  <2>4. CASE ~NeedsWakeup(th) /\ looping_
    \* queued by an event handler: the swap of this iteration is still to come
    <3>1. pc = "io" /\ pc' = pc
      BY <1>0, <1>8, <2>4, Zenon
  DEF queueInLoop, NeedsWakeup, CanCall, UserCode, LoopingIsInLoop, BatchDiscipline, loopVars
    <3>2. QED
      BY <3>1, Zenon
  <2>5. QED
    BY <2>2, <2>3, <2>4, Zenon
<1>9. ASSUME NEW th \in AllThreads, NEW t \in Tasks, runInLoop(th, t) PROVE WakeupPending'
  BY <1>0, <1>9, Zenon DEF runInLoop, loopVars
<1>10. CASE UNCHANGED vars
  BY <1>0, <1>10, Zenon DEF vars, loopVars, functorVars
<1>11. QED
  BY <1>1, <1>2, <1>3, <1>4, <1>5, <1>6, <1>7, <1>8, <1>9, <1>10, Zenon
  DEF Next, LoopStep, PollWakeup, PollIo, PollTimeout, Call

\* Every step keeps a wakeup under way for a quit() from another thread (EventLoop.cc:151-159).
LEMMA NextQuitWakesPoll == IInv /\ [Next]_vars => QuitWakesPoll'
<1> SUFFICES ASSUME IInv, [Next]_vars PROVE QuitWakesPoll'
  BY Zenon
<1> USE DEF QuitWakesPoll, SomeoneWakes
<1>0. QuitWakesPoll /\ eventfd \in 0 .. EventfdMax
  BY Zenon DEF IInv, TypeOK
<1>1. CASE LoopEnter \/ WhileNotQuit \/ HandleIo \/ HandlerReturns \/ SwapPending \/ RunFunctor
        \/ FunctorReturns \/ EndFunctors \/ Destruct
  BY <1>1, Zenon DEF LoopEnter, WhileNotQuit, HandleIo, HandlerReturns, SwapPending, RunFunctor,
     FunctorReturns, EndFunctors, Destruct, LoopAt
<1>2. CASE handleRead
  BY <1>2, Zenon DEF handleRead, LoopAt
<1>3. ASSUME NEW ready \in SUBSET {"wakeup", "io"}, Poll(ready) PROVE QuitWakesPoll'
  BY <1>3, Zenon DEF Poll
<1>4. ASSUME NEW th \in AllThreads, wakeup(th) PROVE QuitWakesPoll'
  <2>1. eventfd' > 0
    BY <1>0, <1>4, EventfdAssumption DEF wakeup, Signalled
  <2>2. QED
    BY <2>1, Zenon
<1>5. ASSUME NEW th \in AllThreads, quit(th) PROVE QuitWakesPoll'
  BY <1>0, <1>5, Zenon DEF quit, QuitWakes, CanCall, UserCode, loopVars
<1>6. ASSUME NEW th \in AllThreads, NEW t \in Tasks, queueInLoop(th, t) PROVE QuitWakesPoll'
  BY <1>0, <1>6, Zenon DEF queueInLoop, loopVars
<1>7. ASSUME NEW th \in AllThreads, NEW t \in Tasks, runInLoop(th, t) PROVE QuitWakesPoll'
  BY <1>0, <1>7, Zenon DEF runInLoop, loopVars
<1>8. CASE UNCHANGED vars
  BY <1>0, <1>8, Zenon DEF vars, loopVars
<1>9. QED
  BY <1>1, <1>2, <1>3, <1>4, <1>5, <1>6, <1>7, <1>8, Zenon
  DEF Next, LoopStep, PollWakeup, PollIo, PollTimeout, Call

\* Every step keeps the batch that doPendingFunctors() swapped out inside its loop (EventLoop.cc:278-295).
LEMMA NextBatchDiscipline == IInv /\ [Next]_vars => BatchDiscipline' /\ LoopingIsInLoop'
<1> SUFFICES ASSUME IInv, [Next]_vars PROVE BatchDiscipline' /\ LoopingIsInLoop'
  BY Zenon
<1> USE DEF BatchDiscipline, LoopingIsInLoop
<1>0. BatchDiscipline /\ LoopingIsInLoop /\ quit_ \in BOOLEAN
  BY Zenon DEF IInv, TypeOK
<1>1. CASE LoopEnter \/ handleRead \/ HandleIo \/ HandlerReturns \/ Destruct
  BY <1>0, <1>1 DEF LoopEnter, handleRead, HandleIo, HandlerReturns, Destruct, LoopAt,
     functorVars
<1>2. CASE SwapPending \/ RunFunctor \/ FunctorReturns \/ EndFunctors
  BY <1>0, <1>2, Zenon DEF SwapPending, RunFunctor, FunctorReturns, EndFunctors, LoopAt, functorVars
<1>3. ASSUME NEW ready \in SUBSET {"wakeup", "io"}, Poll(ready)
      PROVE  BatchDiscipline' /\ LoopingIsInLoop'
  BY <1>0, <1>3, Zenon DEF Poll, LoopAt, functorVars
<1>4. ASSUME NEW th \in AllThreads, wakeup(th) \/ quit(th)
      PROVE  BatchDiscipline' /\ LoopingIsInLoop'
  BY <1>0, <1>4 DEF wakeup, quit, loopVars, functorVars
<1>5. ASSUME NEW th \in AllThreads, NEW t \in Tasks, queueInLoop(th, t) \/ runInLoop(th, t)
      PROVE  BatchDiscipline' /\ LoopingIsInLoop'
  BY <1>0, <1>5 DEF queueInLoop, runInLoop, loopVars
<1>6. CASE UNCHANGED vars
  BY <1>0, <1>6, Zenon DEF vars, loopVars, functorVars
<1>7. CASE WhileNotQuit
  <2>1. CASE quit_
    BY <1>0, <1>7, <2>1, Zenon DEF WhileNotQuit, LoopAt, functorVars
  <2>2. CASE ~quit_
    BY <1>0, <1>7, <2>2, Zenon DEF WhileNotQuit, LoopAt, functorVars
  <2>3. QED
    BY <2>1, <2>2, Zenon
<1>8. QED
  BY <1>1, <1>2, <1>3, <1>4, <1>5, <1>6, <1>7, Zenon
  DEF Next, LoopStep, PollWakeup, PollIo, PollTimeout, Call

\* IInv holds in every state of the loop.
THEOREM Invariance == Spec => []IInv
<1>1. IInv /\ [Next]_vars => IInv'
  BY NextTypeOK, NextWakeupPending, NextQuitWakesPoll, NextBatchDiscipline, Zenon DEF IInv
<1>2. QED
  BY <1>1, InitIInv, PTL DEF Spec

\* Type correctness of the loop's members, for any number of threads and functors.
THEOREM TypeCorrect == Spec => []TypeOK
<1>1. IInv => TypeOK
  BY Zenon DEF IInv
<1>2. QED
  BY <1>1, Invariance, PTL

\* No interleaving of queueInLoop(), wakeup() and the loop leaves the loop blocked in
\* poll() over a queued functor with nobody about to wake it.
THEOREM WakeupsAreNotLost == Spec => []NoLostWakeup
<1>1. IInv => NoLostWakeup
  BY Zenon DEF IInv, WakeupPending, NoLostWakeup
<1>2. QED
  BY <1>1, Invariance, PTL

\* A quit() that the running loop has not acted on yet always has a wakeup under way
\* when the loop is blocked in poll().
THEOREM QuitReachesPoll == Spec => []QuitWakesPoll
<1>1. IInv => QuitWakesPoll
  BY Zenon DEF IInv
<1>2. QED
  BY <1>1, Invariance, PTL

------------------------------------------------------------------------------
(* The loop implements LoopExecutor. *)

\* Taking the head of the batch takes the head of batch and queue together.
LEMMA BatchFirst ==
  ASSUME NEW f \in Seq(Tasks), NEW p \in Seq(Tasks), f # <<>>
  PROVE  /\ f \o p # <<>>
         /\ Head(f \o p) = Head(f)
         /\ Tail(f \o p) = Tail(f) \o p
<1>1. /\ f \o p \in Seq(Tasks) /\ Len(f \o p) = Len(f) + Len(p)
      /\ \A i \in 1 .. Len(f) + Len(p) : (f \o p)[i] = IF i <= Len(f) THEN f[i] ELSE p[i - Len(f)]
  BY ConcatProperties, Zenon
<1>2. Len(f) \in Nat \ {0} /\ Len(p) \in Nat
  BY EmptySeq, LenProperties, Zenon
<1>3. f \o p # <<>>
  BY <1>1, <1>2, EmptySeq
<1>4. Head(f \o p) = Head(f)
  BY <1>1, <1>2
<1>5. /\ Tail(f) \in Seq(Tasks) /\ Len(Tail(f)) = Len(f) - 1
      /\ \A i \in 1 .. Len(Tail(f)) : Tail(f)[i] = f[i + 1]
  BY HeadTailProperties, Zenon
<1>6. /\ Tail(f \o p) \in Seq(Tasks) /\ Len(Tail(f \o p)) = Len(f \o p) - 1
      /\ \A i \in 1 .. Len(Tail(f \o p)) : Tail(f \o p)[i] = (f \o p)[i + 1]
  BY <1>1, <1>3, HeadTailProperties, Zenon
<1>7. /\ Tail(f) \o p \in Seq(Tasks) /\ Len(Tail(f) \o p) = Len(Tail(f)) + Len(p)
      /\ \A i \in 1 .. Len(Tail(f)) + Len(p) :
           (Tail(f) \o p)[i] = IF i <= Len(Tail(f)) THEN Tail(f)[i] ELSE p[i - Len(Tail(f))]
  BY <1>5, ConcatProperties, Zenon
<1>8. Len(Tail(f \o p)) = Len(Tail(f) \o p)
  BY <1>1, <1>2, <1>5, <1>6, <1>7
<1>9. ASSUME NEW i \in 1 .. Len(Tail(f \o p)) PROVE Tail(f \o p)[i] = (Tail(f) \o p)[i]
  <2>1. i \in Nat /\ i >= 1 /\ i + 1 \in 1 .. Len(f) + Len(p) /\ i \in 1 .. Len(Tail(f)) + Len(p)
    BY <1>1, <1>2, <1>5, <1>6
  <2>2. CASE i + 1 <= Len(f)
    BY <2>1, <2>2, <1>1, <1>2, <1>5, <1>6, <1>7
  <2>3. CASE ~(i + 1 <= Len(f))
    <3>1. Tail(f \o p)[i] = p[i + 1 - Len(f)]
      BY <2>1, <2>3, <1>1, <1>2, <1>6
    <3>2. (Tail(f) \o p)[i] = p[i - (Len(f) - 1)]
      BY <2>1, <2>3, <1>2, <1>5, <1>7
    <3>3. i + 1 - Len(f) = i - (Len(f) - 1)
      BY <2>1, <1>2
    <3>4. QED
      BY <3>1, <3>2, <3>3, Zenon
  <2>4. QED
    BY <2>2, <2>3, Zenon
<1>10. Tail(f \o p) = Tail(f) \o p
  BY <1>6, <1>7, <1>8, <1>9, SeqEqual, Zenon
<1>11. QED
  BY <1>3, <1>4, <1>10, Zenon

\* A functor appended to the queue is appended to batch and queue together.
LEMMA AppendToQueue ==
  ASSUME NEW f \in Seq(Tasks), NEW p \in Seq(Tasks), NEW t \in Tasks
  PROVE  f \o Append(p, t) = Append(f \o p, t)
<1>1. <<t>> \in Seq(Tasks) /\ f \o p \in Seq(Tasks)
  BY ConcatProperties
<1>2. Append(p, t) = p \o <<t>> /\ Append(f \o p, t) = (f \o p) \o <<t>>
  BY <1>1, AppendIsConcat, Zenon
<1>3. QED
  BY <1>1, <1>2, ConcatAssociative

\* A functor that is new to the loop is new to the executor.
LEMMA FreshForExecutor ==
  ASSUME TypeOK, NEW t \in Tasks, Fresh(t)
  PROVE  Executor!Fresh(t)
<1>1. Range(functors \o pendingFunctors_) = Range(functors) \cup Range(pendingFunctors_)
  BY RangeConcatenation DEF TypeOK
<1>2. QED
  BY <1>1, Zenon DEF Fresh, Executor!Fresh, Range, Executor!Range

\* Batches and wakeups do not show: to its callers the loop is one FIFO queue whose
\* functors are each started once, in the order queueInLoop() accepted them.
THEOREM ImplementsExecutor == Spec => FifoExactlyOnce
<1>1. Init => Executor!Init
  BY EmptySeq, ConcatEmptySeq, Zenon DEF Init, Executor!Init
<1>2. ASSUME IInv, [Next]_vars PROVE [Executor!Next]_(Executor!vars)
  <2> USE DEF Executor!vars
  <2>0. /\ TypeOK /\ BatchDiscipline
        /\ functors \in Seq(Tasks) /\ pendingFunctors_ \in Seq(Tasks)
    BY <1>2, Zenon DEF IInv, TypeOK
  <2>1. CASE LoopEnter \/ WhileNotQuit \/ handleRead \/ HandleIo \/ HandlerReturns
          \/ FunctorReturns \/ EndFunctors \/ Destruct
    <3>1. UNCHANGED <<functors, pendingFunctors_, ran>>
      BY <2>1, Zenon DEF LoopEnter, WhileNotQuit, handleRead, HandleIo, HandlerReturns, FunctorReturns,
         EndFunctors, Destruct, functorVars
    <3>2. QED
      BY <3>1, Zenon
  <2>2. ASSUME NEW ready \in SUBSET {"wakeup", "io"}, Poll(ready)
        PROVE  UNCHANGED Executor!vars
    BY <2>2, Zenon DEF Poll, functorVars
  <2>3. CASE SwapPending
    \* the old batch is empty, so the queue becomes the batch as it is
    <3>1. functors = <<>> /\ functors' = pendingFunctors_ /\ pendingFunctors_' = <<>> /\ ran' = ran
      BY <2>0, <2>3, Zenon DEF SwapPending, LoopAt, BatchDiscipline
    <3>2. <<>> \o pendingFunctors_ = pendingFunctors_ \o <<>>
      BY <2>0, ConcatEmptySeq, Zenon
    <3>3. QED
      BY <3>1, <3>2, Zenon
  <2>4. CASE RunFunctor
    <3>1. functors # <<>> /\ functors' = Tail(functors) /\ pendingFunctors_' = pendingFunctors_
          /\ ran' = Append(ran, Head(functors))
      BY <2>4, Zenon DEF RunFunctor
    <3>2. Executor!RunNext
      BY <2>0, <3>1, BatchFirst, Zenon DEF Executor!RunNext
    <3>3. QED
      BY <3>2, Zenon DEF Executor!Next
  <2>5. ASSUME NEW th \in AllThreads, wakeup(th) \/ quit(th) PROVE UNCHANGED Executor!vars
    BY <2>5, Zenon DEF wakeup, quit, functorVars
  <2>6. ASSUME NEW th \in AllThreads, NEW t \in Tasks, queueInLoop(th, t) PROVE Executor!Next
    <3>1. Fresh(t) /\ pendingFunctors_' = Append(pendingFunctors_, t)
          /\ functors' = functors /\ ran' = ran
      BY <2>6, Zenon DEF queueInLoop, Pushed
    <3>2. Executor!Accept(t)
      BY <2>0, <3>1, AppendToQueue, FreshForExecutor, Zenon DEF Executor!Accept
    <3>3. QED
      BY <3>2, Zenon DEF Executor!Next
  <2>7. ASSUME NEW th \in AllThreads, NEW t \in Tasks, runInLoop(th, t) PROVE Executor!Next
    <3>1. Executor!RunNow(t)
      BY <2>0, <2>7, FreshForExecutor, Zenon DEF runInLoop, Executor!RunNow
    <3>2. QED
      BY <3>1, Zenon DEF Executor!Next
  <2>8. CASE UNCHANGED vars
    BY <2>8, Zenon DEF vars, functorVars
  <2>9. QED
    BY <1>2, <2>1, <2>2, <2>3, <2>4, <2>5, <2>6, <2>7, <2>8, Zenon
  DEF Next, LoopStep, PollWakeup, PollIo, PollTimeout, Call
<1>3. QED
  BY <1>1, <1>2, Invariance, PTL DEF Spec, FifoExactlyOnce, Executor!Spec

------------------------------------------------------------------------------
(* EventLoopThread. *)

\* Every step of an EventLoopThread is one that users of a loop may take.
LEMMA ThreadStepIsLoopStep == [ThreadNext]_allVars => [Next]_vars
<1> SUFFICES ASSUME [ThreadNext]_allVars PROVE [Next]_vars
  BY Zenon
<1>1. CASE OwnerStep
  <2>1. UNCHANGED vars \/ quit(Owner)
    BY <1>1, Zenon DEF OwnerStep, startLoop, AwaitLoop, DtorTest, DtorQuit, DtorQuitsLate, DtorJoin
  <2> QED
    BY <2>1, OwnerAssumption, Zenon DEF Next, Call, AllThreads
<1>2. CASE ThreadStep
  BY <1>2, Zenon DEF ThreadStep, Publish, EnterLoop, Clear, Finish, Next
<1>3. CASE InLoop \/ InPoll
  BY <1>3, Zenon DEF InLoop, InPoll, Next
<1>4. ASSUME NEW th \in AllThreads, InWakeup(th) \/ Client(th) PROVE Next
  BY <1>4, Zenon DEF InWakeup, Client, Next, Call
<1>5. CASE UNCHANGED allVars
  BY <1>5, Zenon DEF allVars
<1> QED
  BY <1>1, <1>2, <1>3, <1>4, <1>5, Zenon DEF ThreadNext

\* threadFunc() and its owner use the loop as EventLoop lets its users do, so that what is proved
\* of every loop is true of this one (EventLoopThread.cc:22-85).
THEOREM ThreadUsesLoop == ThreadSpec => Spec
<1>1. ThreadInit => Init
  BY Zenon DEF ThreadInit
<1> QED
  BY <1>1, ThreadStepIsLoopStep, PTL DEF ThreadSpec, Spec

\* Where the two threads can be at the same time: loop_ is set while the thread is between its two
\* critical sections, the loop is left only after quit(), and the owner has a pointer only from the
\* first of the two on.
ThreadInv ==
  /\ ThreadTypeOK
  /\ owner = "new" => thread = "none"
  /\ loop_ <=> thread \in {"published", "looping"}
  /\ pc = "gone" <=> thread = "finished"
  /\ thread \in {"none", "callback", "published", "cleared"} => pc = "idle"
  /\ thread = "looping" /\ pc = "idle" => quit_
  /\ thread \in {"cleared", "finished"} => quit_
  /\ owner \in {"running", "quit"} => thread \notin {"none", "callback"}
  /\ owner = "done" => thread \in {"none", "cleared", "finished"}

\* Every step of the owner and of threadFunc() keeps the pointer and the loop together
\* (EventLoopThread.cc:27-79).
LEMMA ThreadInvNext == IInv /\ TypeOK' /\ ThreadInv /\ [ThreadNext]_allVars => ThreadInv'
<1> SUFFICES ASSUME IInv, TypeOK', ThreadInv, [ThreadNext]_allVars PROVE ThreadInv'
  BY Zenon
<1> USE DEF ThreadInv, ThreadTypeOK
<1>1. CASE startLoop
  BY <1>1, Zenon DEF startLoop, vars, loopVars
<1>2. CASE AwaitLoop
  BY <1>2, Zenon DEF AwaitLoop, LoopReady, vars, loopVars
<1>3. CASE DtorTest
  BY <1>3, Zenon DEF DtorTest, vars, loopVars
<1>4. CASE DtorQuit
  BY <1>4, Zenon DEF DtorQuit, quit, loopVars
<1>5. CASE DtorQuitsLate
  BY <1>5 DEF DtorQuitsLate, vars, loopVars
<1>6. CASE Publish
  BY <1>6, Zenon DEF Publish, Notified, vars, loopVars
<1>7. CASE EnterLoop
  BY <1>7, Zenon DEF EnterLoop, LoopEnter, LoopAt
<1>8. CASE Clear
  BY <1>8, Zenon DEF Clear, Cleared, LoopAt, vars, loopVars
<1>9. CASE Finish
  BY <1>9, Zenon DEF Finish, Destruct, LoopAt
<1>10. CASE InLoop
  \* Only WhileNotQuit leaves the loop, and it has seen quit_.
  <2>1. UNCHANGED threadVars /\ quit_' = quit_ /\ pc # "idle" /\ pc # "gone" /\ pc' # "gone" /\ (pc' = "idle" => quit_)
    <3>1. UNCHANGED threadVars /\ LoopStep
      BY <1>10, Zenon DEF InLoop
    <3>2. CASE WhileNotQuit
      BY <3>1, <3>2, Zenon DEF WhileNotQuit, LoopAt
    <3>3. CASE PollWakeup
      BY <3>1, <3>3, Zenon DEF PollWakeup, Poll, LoopAt
    <3>4. CASE handleRead \/ HandleIo \/ HandlerReturns \/ SwapPending \/ RunFunctor \/ FunctorReturns \/ EndFunctors
      BY <3>1, <3>4, Zenon DEF handleRead, HandleIo, HandlerReturns, SwapPending, RunFunctor, FunctorReturns, EndFunctors, LoopAt
    <3> QED
      BY <3>1, <3>2, <3>3, <3>4, Zenon DEF LoopStep
  <2> QED
    BY <2>1, Zenon DEF threadVars
<1>11. CASE InPoll
  BY <1>11 DEF InPoll, PollIo, PollTimeout, Poll, LoopAt, threadVars
<1>12. ASSUME NEW th \in AllThreads, InWakeup(th) PROVE ThreadInv'
  BY <1>12, Zenon DEF InWakeup, wakeup, loopVars, threadVars
<1>13. ASSUME NEW th \in AllThreads, Client(th) PROVE ThreadInv'
  <2>1. UNCHANGED <<pc, threadVars>> /\ (quit_' = quit_ \/ quit_' = TRUE)
    <3>1. CASE quit(th)
      BY <1>13, <3>1, Zenon DEF Client, quit, loopVars
    <3>2. ASSUME NEW t \in Tasks, queueInLoop(th, t) \/ runInLoop(th, t)
          PROVE  UNCHANGED <<pc, quit_>>
      BY <3>2, Zenon DEF queueInLoop, runInLoop, loopVars
    <3> QED
      BY <1>13, <3>1, <3>2, Zenon DEF Client
  <2> QED
    BY <2>1, Zenon DEF threadVars
<1>14. CASE UNCHANGED allVars
  BY <1>14, Zenon DEF allVars, vars, loopVars, threadVars
<1>15. CASE DtorJoin
  BY <1>15, Zenon DEF DtorJoin, Joinable, vars, loopVars
<1> QED
  BY <1>1, <1>2, <1>3, <1>4, <1>5, <1>6, <1>7, <1>8, <1>9, <1>10, <1>11, <1>12, <1>13, <1>14, <1>15, Zenon
  DEF ThreadNext, OwnerStep, ThreadStep

\* The pointer that startLoop() returned leads to a loop that is alive, in the owner's hands and in
\* those it passes it to, until somebody calls quit(); loop_ never leads to one that is destructed;
\* and the destructor leaves no loop running (EventLoopThread.cc:27-57, 68-81).
THEOREM PointerIsAlwaysGood == ThreadSpec => []PointerIsGood
<1>1. ThreadInit => ThreadInv
  <2> SUFFICES ASSUME ThreadInit PROVE ThreadInv
    BY Zenon
  <2>1. TypeOK /\ pc = "idle" /\ ~quit_ /\ owner = "new" /\ thread = "none" /\ loop_ = FALSE
    BY InitIInv, Zenon DEF ThreadInit, IInv, Init
  <2> QED
    BY <2>1, Zenon DEF ThreadInv, ThreadTypeOK
<1>2. IInv => TypeOK
  BY Zenon DEF IInv
<1>3. ThreadInv => PointerIsGood
  BY Zenon DEF ThreadInv, ThreadTypeOK, PointerIsGood
<1> QED
  BY <1>1, <1>2, <1>3, ThreadInvNext, ThreadUsesLoop, Invariance, PTL DEF ThreadSpec

=============================================================================
