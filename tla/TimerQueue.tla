----------------------------- MODULE TimerQueue -----------------------------
(***************************************************************************)
(* muduo::net::TimerQueue and Timer: the timers of one loop, kept in       *)
(* timers_ (by expiration) and activeTimers_ (by identity), driven by one  *)
(* timerfd.  Timers are added and cancelled by the loop's own thread, also *)
(* from timer callbacks, and by other threads, whose calls the loop runs   *)
(* later, in order (runInLoop, see EventLoop).  Timer objects live at      *)
(* addresses that are reused; a TimerId is an address and a sequence       *)
(* number.  One unit of time is the least delay a timerfd is set to        *)
(* (100 microseconds).                                                     *)
(***************************************************************************)
EXTENDS Integers, Sequences, Functions

CONSTANTS Threads,        \* threads other than the loop's that add and cancel timers
          Addrs,          \* addresses of Timer objects, ordered as pointers are
          Delays,         \* how far ahead of now timers are set
          Intervals,      \* intervals of repeating timers; 0 is "does not repeat"
          MaxSeq,         \* bound: timers created
          MaxTime         \* bound: the clock

ASSUME TimerAssumption ==
  /\ Addrs \subseteq Nat /\ Delays \subseteq Nat /\ Intervals \subseteq Nat
  /\ MaxSeq \in Nat /\ MaxTime \in Nat \ {0}

VARIABLES now,            \* the clock; times are positive, that is, valid()
          timerfd,        \* when the timerfd becomes readable, or Disarmed
          heap,           \* the Timer at each address, or Free
          numCreated,     \* s_numCreated_
          timers_,        \* set of <<expiration, address>>
          activeTimers_,  \* set of <<address, sequence>>
          callingExpiredTimers_, cancelingTimers_,
          expired,        \* handleRead()'s vector of entries
          todo,           \* the part of it whose callbacks have not been called
          pollNow,        \* handleRead()'s "now"
          pending,        \* calls that wait to be run in the loop
          adding,         \* the TimerId a thread in addTimer() has yet to build, by thread
          known,          \* TimerIds returned by addTimer()
          cancelled,      \* history: timers cancelInLoop() has run for after addTimerInLoop()
          fired           \* history: set of [id, due, batch, interval], the callbacks called, batch
                          \*   being the now of their handleRead()

fdVars == <<now, timerfd>>
setVars == <<timers_, activeTimers_>>
batchVars == <<callingExpiredTimers_, cancelingTimers_, expired, todo, pollNow>>
callVars == <<pending, adding, known>>
historyVars == <<cancelled, fired>>
vars == <<fdVars, heap, numCreated, setVars, batchVars, callVars, historyVars>>

Disarmed == -1
Free == [sequence |-> 0, expiration |-> 0, interval |-> 0]
None == <<0, 0>>

IdAt(a) == <<a, heap[a].sequence>>
Allocated(a) == heap[a] # Free
repeat(a) == heap[a].interval > 0
Earliest(ts) == CHOOSE e \in ts : \A f \in ts : e[1] <= f[1]

TypeOK ==
  /\ now \in 1 .. MaxTime
  /\ timerfd \in {Disarmed} \cup Nat
  /\ \A a \in Addrs : heap[a].sequence \in 0 .. MaxSeq /\ heap[a].interval \in Intervals \cup {0}
  /\ numCreated \in 0 .. MaxSeq
  /\ timers_ \subseteq Nat \X Addrs /\ activeTimers_ \subseteq Addrs \X (1 .. MaxSeq)
  /\ callingExpiredTimers_ \in BOOLEAN /\ cancelingTimers_ \subseteq Addrs \X (1 .. MaxSeq)
  /\ Len(todo) <= Len(expired) /\ todo = SubSeq(expired, Len(expired) - Len(todo) + 1, Len(expired))

Init ==
  /\ now = 1 /\ timerfd = Disarmed
  /\ heap = [a \in Addrs |-> Free] /\ numCreated = 0
  /\ timers_ = {} /\ activeTimers_ = {}
  /\ callingExpiredTimers_ = FALSE /\ cancelingTimers_ = {}
  /\ expired = <<>> /\ todo = <<>> /\ pollNow = 0
  /\ pending = <<>> /\ adding = [th \in Threads |-> None] /\ known = {}
  /\ cancelled = {} /\ fired = {}

Tick == now < MaxTime /\ now' = now + 1
        /\ UNCHANGED <<timerfd, heap, numCreated, setVars, batchVars, callVars, historyVars>>

------------------------------------------------------------------------------
(* The timer set, as seen from the loop's thread. *)

\* howMuchTimeFromNow(): at least one unit ahead, even for a time in the past.
TimeFromNow(when) == IF when < now + 1 THEN now + 1 ELSE when

\* Mutant: the timerfd is set only for the first timer.
earliestChanged_OnlyFirst(when) == timers_ = {}

\* insert()'s result.
earliestChanged(when) == timers_ = {} \/ \A e \in timers_ : when < e[1]

\* addTimerInLoop(); h is the heap with the new timer in it.
AddInLoop(a, h) ==
  /\ timers_' = timers_ \cup {<<h[a].expiration, a>>}
  /\ activeTimers_' = activeTimers_ \cup {<<a, h[a].sequence>>}
  /\ timerfd' = IF earliestChanged(h[a].expiration) THEN TimeFromNow(h[a].expiration)
                ELSE timerfd

\* A timer that is not in the sets may be in the batch being called: remember it.
Canceling(id) == IF callingExpiredTimers_ THEN cancelingTimers_ \cup {id} ELSE cancelingTimers_

\* Mutant: the search does not look at the sequence number.
IsActive_ByAddress(id) == \E t \in activeTimers_ : t[1] = id[1]

IsActive(id) == id \in activeTimers_

AddQueued(id) == [op |-> "add", id |-> id] \in Range(pending)

\* Mutant: the timer is erased from timers_ only.
ErasedActive_Not(a) == activeTimers_

ErasedActive(a) == activeTimers_ \ {IdAt(a)}

\* cancelInLoop().
CancelInLoop(id) ==
  /\ IF IsActive(id)
     THEN /\ timers_' = timers_ \ {<<heap[id[1]].expiration, id[1]>>}
          /\ activeTimers_' = ErasedActive(id[1])
          /\ heap' = [heap EXCEPT ![id[1]] = Free]
          /\ UNCHANGED cancelingTimers_
     ELSE /\ cancelingTimers_' = Canceling(id)
          /\ UNCHANGED <<setVars, heap>>
  /\ cancelled' = IF AddQueued(id) THEN cancelled ELSE cancelled \cup {id}
  /\ UNCHANGED <<fdVars, numCreated, callingExpiredTimers_, expired, todo, pollNow, fired>>

------------------------------------------------------------------------------
(* Calls. *)

\* s_numCreated_.incrementAndGet()
NextSequence == numCreated + 1

\* new Timer(cb, when, interval)
NewTimer(a, delay, interval) ==
  /\ ~Allocated(a) /\ numCreated < MaxSeq
  /\ numCreated' = numCreated + 1
  /\ heap' = [heap EXCEPT ![a] = [sequence |-> NextSequence, expiration |-> now + delay,
                                  interval |-> interval]]

\* The loop's thread calls from a timer callback or, outside of handleRead(), from
\* any other code.
InUserCode == callingExpiredTimers_ => Len(todo) < Len(expired)

\* addTimer() by the loop's thread.
addTimer(a, delay, interval) ==
  /\ InUserCode
  /\ NewTimer(a, delay, interval)
  /\ AddInLoop(a, heap')
  /\ known' = known \cup {<<a, heap'[a].sequence>>}
  /\ UNCHANGED <<now, batchVars, pending, adding, historyVars>>

\* addTimer() by another thread: the timer is created and the functor queued.
addTimerBegin(th, a, delay, interval) ==
  /\ adding[th] = None
  /\ NewTimer(a, delay, interval)
  /\ pending' = Append(pending, [op |-> "add", id |-> <<a, NextSequence>>])
  /\ adding' = [adding EXCEPT ![th] = <<a, NextSequence>>]
  /\ UNCHANGED <<fdVars, setVars, batchVars, known, historyVars>>

\* ... and then the timer's sequence() is read to make the TimerId.
addTimerReturn(th) ==
  /\ adding[th] # None
  /\ known' = known \cup {adding[th]}
  /\ adding' = [adding EXCEPT ![th] = None]
  /\ UNCHANGED <<fdVars, heap, numCreated, setVars, batchVars, pending, historyVars>>

\* cancel() by the loop's thread.
cancel(id) == InUserCode /\ id \in known /\ CancelInLoop(id) /\ UNCHANGED callVars

\* cancel() by another thread.
cancelBegin(th, id) ==
  /\ adding[th] = None /\ id \in known
  /\ [op |-> "cancel", id |-> id] \notin Range(pending)
  /\ pending' = Append(pending, [op |-> "cancel", id |-> id])
  /\ UNCHANGED <<fdVars, heap, numCreated, setVars, batchVars, adding, known, historyVars>>

\* The loop runs a queued call, outside of handleRead().
RunPending ==
  /\ pending # <<>> /\ ~callingExpiredTimers_
  /\ LET call == Head(pending) IN
       \/ /\ call.op = "add"
          /\ AddInLoop(call.id[1], heap)
          /\ UNCHANGED <<now, heap, numCreated, batchVars, historyVars>>
       \/ /\ call.op = "cancel"
          /\ CancelInLoop(call.id)
  /\ pending' = Tail(pending)
  /\ UNCHANGED <<adding, known>>

------------------------------------------------------------------------------
(* The timerfd is readable. *)

Before(e, f) == e[1] < f[1] \/ (e[1] = f[1] /\ e[2] < f[2])

IsDue(e) == e[1] <= now

\* The entries of timers_ in the order of the set, as std::copy() leaves them in the vector.
InOrder(entries) ==
  {s \in UNION {[1 .. n -> entries] : n \in 0 .. MaxSeq} :
     Range(s) = entries /\ \A i, j \in DOMAIN s : i < j => Before(s[i], s[j])}

\* handleRead() up to the callbacks, with getExpired().
handleRead ==
  /\ ~callingExpiredTimers_ /\ timerfd # Disarmed /\ timerfd <= now
  /\ pollNow' = now
  /\ timerfd' = Disarmed
  /\ LET due == {e \in timers_ : IsDue(e)} IN
       /\ expired' \in InOrder(due)
       /\ timers_' = timers_ \ due
       /\ activeTimers_' = activeTimers_ \ {IdAt(e[2]) : e \in due}
  /\ todo' = expired'
  /\ callingExpiredTimers_' = TRUE /\ cancelingTimers_' = {}
  /\ UNCHANGED <<now, heap, numCreated, callVars, historyVars>>

\* The next callback is called; the calls it makes are steps of their own.
run ==
  /\ callingExpiredTimers_ /\ todo # <<>>
  /\ fired' = fired \cup {[id |-> IdAt(Head(todo)[2]), due |-> Head(todo)[1], batch |-> pollNow,
                           interval |-> heap[Head(todo)[2]].interval]}
  /\ todo' = Tail(todo)
  /\ UNCHANGED <<fdVars, heap, numCreated, setVars, callingExpiredTimers_, cancelingTimers_,
                 expired, pollNow, callVars, cancelled>>

Restarts(a) == repeat(a) /\ IdAt(a) \notin cancelingTimers_

\* Mutant: the timer keeps its old expiration.
Restarted_Not(a) == heap[a]

\* Timer::restart(now)
Restarted(a) == [heap[a] EXCEPT !.expiration = pollNow + heap[a].interval]

\* The end of handleRead(): reset() restarts or deletes the timers of the batch and
\* sets the timerfd for the earliest timer left.
reset ==
  /\ callingExpiredTimers_ /\ todo = <<>>
  /\ callingExpiredTimers_' = FALSE
  /\ LET batch == {e[2] : e \in Range(expired)}
         again == {a \in batch : Restarts(a)}
     IN  /\ heap' = [a \in Addrs |->
                       IF a \in again THEN Restarted(a)
                       ELSE IF a \in batch THEN Free ELSE heap[a]]
         /\ timers_' = timers_ \cup {<<Restarted(a).expiration, a>> : a \in again}
         /\ activeTimers_' = activeTimers_ \cup {IdAt(a) : a \in again}
  /\ timerfd' = IF timers_' = {} THEN timerfd ELSE TimeFromNow(Earliest(timers_')[1])
  /\ expired' = <<>>
  /\ UNCHANGED <<now, numCreated, cancelingTimers_, todo, pollNow, callVars, historyVars>>

Next ==
  \/ Tick \/ RunPending \/ handleRead \/ run \/ reset
  \/ \E id \in known : cancel(id) \/ \E th \in Threads : cancelBegin(th, id)
  \/ \E th \in Threads : addTimerReturn(th)
  \/ \E a \in Addrs, d \in Delays, i \in Intervals :
       addTimer(a, d, i) \/ \E th \in Threads : addTimerBegin(th, a, d, i)

Spec == Init /\ [][Next]_vars

------------------------------------------------------------------------------
(* Properties. *)

\* timers_ and activeTimers_ hold the same timers (the assertions on their sizes,
\* TimerQueue.cc:163-278), each under the expiration the object has, and a timer of
\* the batch being called is in neither set and not deleted: no timer is deleted
\* twice or reached after it was deleted.
SetsAgree ==
  /\ TypeOK
  /\ activeTimers_ = {IdAt(e[2]) : e \in timers_}
  /\ \A e \in timers_ : Allocated(e[2]) /\ heap[e[2]].expiration = e[1]
  /\ \A e \in Range(expired) : Allocated(e[2]) /\ IdAt(e[2]) \notin activeTimers_

\* Outside of a batch, the timerfd is set no later than the earliest timer, or one
\* unit from now if that is past (insert, reset and resetTimerfd, TimerQueue.cc:74,
\* 149-158, 245-253): no timer can be forgotten, whatever was cancelled meanwhile.
TimerfdArmed ==
  ~callingExpiredTimers_ /\ timers_ # {} =>
    /\ timerfd # Disarmed
    /\ timerfd <= now + 1 \/ timerfd <= Earliest(timers_)[1]

\* What a step does to the timers in the sets.
CancelStep ==
  /\ cancelled' \cap activeTimers_' = {}
  /\ \A id \in activeTimers_ \ activeTimers_' :
       id \in cancelled' \/ \E e \in Range(expired') : IdAt(e[2]) = id

\* A cancelled timer does not come back (cancelInLoop, TimerQueue.cc:160-179, and
\* reset, 229-243), also when its own callback cancels it: it is not active any more.
\* (A cancel() in the loop's thread that overtakes the queued addTimerInLoop() of the
\* same timer is no cancellation: it finds nothing, and the timer is added later.)
\* And nobody else is cancelled: a timer leaves the queue only because it is due or because
\* it was cancelled itself, and cancelling with an old TimerId whose timer's address has been
\* reused does no harm (TimerQueue.cc:164-167).
CancelIsExact == [][CancelStep]_vars

\* A timer is in no batch whose now is before it is due, a one-shot timer is called once, and
\* of two batches that call a repeating timer one is read at least its interval after the other:
\* however late a batch is, the timer does not catch up (getExpired, TimerQueue.cc:204-222, and
\* Timer::restart, Timer.cc:17-27).  It is the batches that are apart: a call that an earlier
\* callback of its batch has delayed may be closer to the next one.
FiringDiscipline ==
  \A f \in fired :
    /\ f.due <= f.batch
    /\ \A g \in fired : f # g /\ f.id = g.id =>
         f.interval > 0 /\ (f.batch + f.interval <= g.batch \/ g.batch + f.interval <= f.batch)

\* "Must be thread safe. Usually be called from other threads." (TimerQueue.h:48):
\* the Timer whose sequence() addTimer() reads to make the TimerId still exists.
AddTimerReadsLiveTimer == \A th \in Threads : adding[th] # None => IdAt(adding[th][1]) = adding[th]
=============================================================================
