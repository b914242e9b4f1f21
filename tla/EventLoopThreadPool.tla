------------------------- MODULE EventLoopThreadPool -------------------------
(***************************************************************************)
(* muduo::net::EventLoopThreadPool: start() creates numThreads_ loops, one *)
(* after the other, and getNextLoop() deals them out round-robin.  A loop  *)
(* is known by its index in loops_, the base loop is Base.  All calls are  *)
(* made in the base loop's thread.                                         *)
(***************************************************************************)
EXTENDS Integers

CONSTANTS MaxThreads,     \* bound on numThreads_
          MaxCalls        \* bound on how often getNextLoop() returns a loop

ASSUME PoolAssumption == MaxThreads \in Nat /\ MaxCalls \in Nat

VARIABLES numThreads_,    \* what setThreadNum() was given before start()
          started_,
          size,           \* loops_.size()
          next_,
          dealt           \* history: how often getNextLoop() has returned each loop

poolVars == <<numThreads_, started_, size, next_, dealt>>

Base == MaxThreads        \* not an index of loops_
Loops == 0 .. MaxThreads

PoolTypeOK ==
  /\ numThreads_ \in 0 .. MaxThreads
  /\ started_ \in BOOLEAN
  /\ size \in 0 .. MaxThreads
  /\ next_ \in 0 .. MaxThreads
  /\ dealt \in [Loops -> 0 .. MaxCalls]

PoolInit ==
  /\ numThreads_ \in 0 .. MaxThreads
  /\ started_ = FALSE /\ size = 0 /\ next_ = 0 /\ dealt = [l \in Loops |-> 0]

\* start() as one step: it blocks the base loop's thread in startLoop() until every
\* thread has published its loop, so no other call comes between.
startPool ==
  /\ ~started_
  /\ started_' = TRUE
  /\ size' = numThreads_
  /\ UNCHANGED <<numThreads_, next_, dealt>>

\* Mutant: the last loop is never dealt.
Wrapped_Early(n) == IF n >= size - 1 THEN 0 ELSE n

Wrapped(n) == IF n >= size THEN 0 ELSE n

Chosen == IF size = 0 THEN Base ELSE next_

getNextLoop ==
  /\ started_ /\ dealt[Chosen] < MaxCalls
  /\ dealt' = [dealt EXCEPT ![Chosen] = @ + 1]
  /\ next_' = IF size = 0 THEN next_ ELSE Wrapped(next_ + 1)
  /\ UNCHANGED <<numThreads_, started_, size>>

------------------------------------------------------------------------------
\* Round-robin is fair: loops before next_ have been dealt exactly once more than the
\* ones from next_ on, so no loop is ever more than one connection ahead; and loops_[next_]
\* is a valid access once start() is over (EventLoopThreadPool.cc:66-75).
Balanced ==
  /\ \A i, j \in 0 .. numThreads_ - 1 :
        i < j => dealt[i] = dealt[j] + (IF i < next_ /\ next_ <= j THEN 1 ELSE 0)
  /\ numThreads_ > 0 => dealt[Base] = 0
  /\ started_ /\ size > 0 => next_ < size
=============================================================================
