--------------------------- MODULE CountDownLatch ---------------------------
(***************************************************************************)
(* muduo::CountDownLatch, on muduo's MutexLock and Condition.  MutexLock   *)
(* keeps beside the pthread mutex the thread that holds it, holder_, which *)
(* it writes in a step of its own; Condition::wait() clears holder_ while  *)
(* it sleeps.  Each of Waiters calls wait() once, each of Counters calls   *)
(* countDown() once.                                                       *)
(***************************************************************************)
EXTENDS Integers, FiniteSets

CONSTANTS Waiters, Counters, Nobody

ASSUME LatchAssumption ==
  /\ IsFiniteSet(Counters) /\ Waiters \cap Counters = {} /\ Nobody \notin Waiters \union Counters

VARIABLES mutex_,    \* the thread that owns the pthread mutex
          holder_,
          count_,
          at         \* where each thread is in its call

latchVars == <<mutex_, holder_, count_, at>>

Threads == Waiters \union Counters

\* Places where a thread owns the mutex; in Inside it is in the critical section.
Inside == {"inside", "leave"}
Owning == Inside \union {"assign", "reassign", "sleep", "unlock"}
Places == Owning \union {"before", "lock", "asleep", "awake", "after"}

LatchTypeOK ==
  /\ mutex_ \in Threads \union {Nobody} /\ holder_ \in Threads \union {Nobody}
  /\ count_ \in 0 .. Cardinality(Counters) /\ at \in [Threads -> Places]

LatchInit ==
  /\ mutex_ = Nobody /\ holder_ = Nobody
  /\ count_ = Cardinality(Counters) /\ at = [t \in Threads |-> "before"]

Goes(t, place) == at' = [at EXCEPT ![t] = place]

------------------------------------------------------------------------------
(* MutexLock and Condition. *)

Call(t) == at[t] = "before" /\ Goes(t, "lock") /\ UNCHANGED <<mutex_, holder_, count_>>

\* pthread_mutex_lock, in lock() or at the end of pthread_cond_wait.
Acquire(t) ==
  /\ at[t] \in {"lock", "awake"} /\ mutex_ = Nobody
  /\ mutex_' = t /\ Goes(t, IF at[t] = "lock" THEN "assign" ELSE "reassign")
  /\ UNCHANGED <<holder_, count_>>

\* Mutant: a thread that was woken does not look at count_ again.
AfterWait_Return == "leave"

AfterWait == "inside"

\* assignHolder(), in lock() or in the destructor of UnassignGuard.
assignHolder(t) ==
  /\ at[t] \in {"assign", "reassign"}
  /\ holder_' = t /\ Goes(t, IF at[t] = "assign" THEN "inside" ELSE AfterWait)
  /\ UNCHANGED <<mutex_, count_>>

\* Condition::wait(): the UnassignGuard has cleared holder_, pthread_cond_wait lets the mutex go.
Sleep(t) ==
  /\ at[t] = "sleep"
  /\ mutex_' = Nobody /\ Goes(t, "asleep")
  /\ UNCHANGED <<holder_, count_>>

Spurious(t) == at[t] = "asleep" /\ Goes(t, "awake") /\ UNCHANGED <<mutex_, holder_, count_>>

\* unlock() clears holder_ first.
unassignHolder(t) ==
  /\ at[t] = "leave"
  /\ holder_' = Nobody /\ Goes(t, "unlock")
  /\ UNCHANGED <<mutex_, count_>>

Release(t) ==
  /\ at[t] = "unlock"
  /\ mutex_' = Nobody /\ Goes(t, "after")
  /\ UNCHANGED <<holder_, count_>>

------------------------------------------------------------------------------
(* CountDownLatch. *)

\* The body of wait(): the test of the while loop and the start of Condition::wait().
wait(t) ==
  /\ t \in Waiters /\ at[t] = "inside"
  /\ IF count_ > 0 THEN holder_' = Nobody /\ Goes(t, "sleep")
                   ELSE UNCHANGED holder_ /\ Goes(t, "leave")
  /\ UNCHANGED <<mutex_, count_>>

Asleep == {t \in Threads : at[t] = "asleep"}

\* Mutant: notify() in place of notifyAll().
Woken_One == IF Asleep = {} THEN {} ELSE {CHOOSE t \in Asleep : TRUE}

Woken == Asleep

\* The body of countDown().
countDown(t) ==
  /\ t \in Counters /\ at[t] = "inside"
  /\ count_' = count_ - 1
  /\ at' = [u \in Threads |-> IF u = t THEN "leave"
                              ELSE IF count_' = 0 /\ u \in Woken THEN "awake" ELSE at[u]]
  /\ UNCHANGED <<mutex_, holder_>>

InCall(t) ==
  Acquire(t) \/ assignHolder(t) \/ Sleep(t) \/ unassignHolder(t) \/ Release(t) \/ wait(t) \/ countDown(t)

LatchNext == \E t \in Threads : Call(t) \/ InCall(t) \/ Spurious(t)

\* Every thread is scheduled and makes its call in the end, and gets a mutex that is free again
\* and again.
LatchSpec ==
  /\ LatchInit /\ [][LatchNext]_latchVars
  /\ \A t \in Threads : WF_latchVars(Call(t) \/ InCall(t)) /\ SF_latchVars(Acquire(t))

------------------------------------------------------------------------------
(* Properties. *)

\* isLockedByThisThread() is right for the thread in the critical section, at every step and
\* across the sleep in Condition::wait(), and no other thread is ever taken for the holder
\* (Mutex.h:168-220); wait() returns only when all have counted down (CountDownLatch.cc:19-36).
LatchIsExact ==
  /\ LatchTypeOK
  /\ \A t \in Threads : at[t] \in Owning <=> mutex_ = t
  /\ \A t \in Threads : at[t] \in Inside => holder_ = t
  /\ holder_ # Nobody => mutex_ = holder_
  /\ \A w \in Waiters : at[w] \in {"leave", "unlock", "after"} =>
       \A c \in Counters : at[c] \in {"leave", "unlock", "after"}

\* Every wait() returns: whoever sleeps when the count reaches zero is woken, and whoever comes
\* later does not sleep (CountDownLatch.cc:22-35).
WaitReturns == \A w \in Waiters : at[w] = "lock" ~> at[w] = "after"
=============================================================================
