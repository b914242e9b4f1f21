-------------------------- MODULE TimerQueueProofs --------------------------
(***************************************************************************)
(* Proofs about TimerQueue, for any number of threads, timers and times.   *)
(* A Timer object that exists is in one place: in the sets, in the batch   *)
(* that handleRead() works on, or in a call that waits to be run.          *)
(***************************************************************************)
EXTENDS TimerQueue, WellFoundedInduction, TLAPS

Ids == Addrs \X (1 .. numCreated)
Entries == Nat \X Addrs
Timers == [sequence : 0 .. numCreated, expiration : Nat, interval : Intervals \cup {0}]
Calls == [op : {"add", "cancel"}, id : Ids]

\* How many callbacks of the batch have been called.
Ran == Len(expired) - Len(todo)
HasRun(a) == \E i \in 1 .. Ran : expired[i][2] = a
Active(a) == \E e \in timers_ : e[2] = a
InBatch(a) == \E i \in 1 .. Len(expired) : expired[i][2] = a
IsAdd(i) == pending[i].op = "add"

TypesInv ==
  /\ now \in 1 .. MaxTime /\ timerfd \in {Disarmed} \cup Nat /\ numCreated \in 0 .. MaxSeq
  /\ heap \in [Addrs -> Timers] /\ \A a \in Addrs : heap[a].sequence = 0 => heap[a] = Free
  /\ timers_ \subseteq Entries /\ callingExpiredTimers_ \in BOOLEAN
  /\ expired \in Seq(Entries) /\ pollNow \in 0 .. now
  /\ pending \in Seq(Calls) /\ adding \in [Threads -> Ids \cup {None}]
  /\ known \subseteq Ids /\ cancelled \subseteq Ids /\ cancelingTimers_ \subseteq Ids

\* todo is the end of expired.
TodoInv ==
  /\ todo \in Seq(Entries) /\ Ran \in Nat
  /\ \A i \in 1 .. Len(todo) : todo[i] = expired[Ran + i]

\* Where a timer is.
PlacesInv ==
  /\ \A e \in timers_ : heap[e[2]].sequence # 0 /\ heap[e[2]].expiration = e[1]
  /\ activeTimers_ = {IdAt(e[2]) : e \in timers_}
  /\ ~callingExpiredTimers_ => expired = <<>>
  /\ \A i \in 1 .. Len(expired) :
       /\ heap[expired[i][2]].sequence # 0 /\ heap[expired[i][2]].expiration = expired[i][1]
       /\ expired[i][1] <= pollNow /\ ~Active(expired[i][2])
  /\ \A i, j \in 1 .. Len(expired) : expired[i][2] = expired[j][2] => i = j
  /\ \A i \in 1 .. Len(pending) : IsAdd(i) =>
       IdAt(pending[i].id[1]) = pending[i].id /\ ~Active(pending[i].id[1]) /\ ~InBatch(pending[i].id[1])
  /\ \A i, j \in 1 .. Len(pending) : IsAdd(i) /\ IsAdd(j) /\ pending[i].id[1] = pending[j].id[1] => i = j

\* A timer that is cancelled has left the sets, or will not be restarted.
CancelInv ==
  \A id \in cancelled :
    /\ id \notin activeTimers_
    /\ \A i \in 1 .. Len(pending) : IsAdd(i) => pending[i].id # id
    /\ InBatch(id[1]) /\ IdAt(id[1]) = id => id \in cancelingTimers_

\* The timerfd is set for each of the timers.
ArmedInv ==
  ~callingExpiredTimers_ =>
    \A e \in timers_ : timerfd # Disarmed /\ (timerfd <= now + 1 \/ timerfd <= e[1])

\* What the calls of a timer tell about its next one.
FiredInv ==
  /\ fired \subseteq [id : Ids, due : Nat, batch : 0 .. now, interval : Nat]
  /\ FiringDiscipline
  /\ \A f \in fired : IdAt(f.id[1]) = f.id =>
       /\ heap[f.id[1]].interval = f.interval
       /\ IF HasRun(f.id[1]) THEN f.batch <= pollNow
          ELSE f.interval > 0 /\ f.batch + f.interval <= heap[f.id[1]].expiration

TimerInv == TypesInv /\ TodoInv /\ PlacesInv /\ CancelInv /\ ArmedInv /\ FiredInv
------------------------------------------------------------------------------
(* What a step leaves alone. *)

\* A queue with no timers.
LEMMA TimerInvInit == Init => TimerInv
<1> SUFFICES ASSUME Init PROVE TimerInv
  BY Zenon
<1>1. /\ now = 1 /\ timerfd = Disarmed /\ heap = [a \in Addrs |-> Free] /\ numCreated = 0 /\ timers_ = {} /\ activeTimers_ = {}
      /\ callingExpiredTimers_ = FALSE /\ cancelingTimers_ = {} /\ expired = <<>> /\ todo = <<>> /\ pollNow = 0
      /\ pending = <<>> /\ adding = [th \in Threads |-> None] /\ known = {} /\ cancelled = {} /\ fired = {}
  BY Zenon DEF Init
<1>2. Len(expired) = 0 /\ Len(todo) = 0 /\ Len(pending) = 0
  BY <1>1, Zenon
<1>3. TypesInv
  <2>1. callingExpiredTimers_ \in BOOLEAN
    BY <1>1, Zenon
  <2>2. Free \in Timers
    BY <1>1 DEF Free, Timers
  <2>3. heap \in [Addrs -> Timers] /\ \A a \in Addrs : heap[a].sequence = 0 => heap[a] = Free
    BY <1>1, <2>2, Zenon
  <2> QED
    BY <1>1, <2>1, <2>3, TimerAssumption DEF TypesInv
<1>4. TodoInv
  BY <1>1, <1>2 DEF TodoInv, Ran
<1>5. PlacesInv
  BY <1>1, <1>2 DEF PlacesInv
<1>6. CancelInv /\ ArmedInv /\ FiredInv
  BY <1>1, Zenon DEF CancelInv, ArmedInv, FiredInv, FiringDiscipline
<1> QED
  BY <1>3, <1>4, <1>5, <1>6, Zenon DEF TimerInv

\* The invariants' parts, each with the variables it is about.
LEMMA TodoFrame ==
  ASSUME TodoInv, UNCHANGED <<expired, todo>>
  PROVE  TodoInv'
BY Zenon DEF TodoInv, Ran

\* Where the timers are depends on the heap, the sets, the batch and the queued calls.
LEMMA PlacesFrame ==
  ASSUME PlacesInv, UNCHANGED <<heap, timers_, activeTimers_, callingExpiredTimers_, expired, pollNow, pending>>
  PROVE  PlacesInv'
BY DEF PlacesInv, Active, InBatch, IsAdd, IdAt

\* What was cancelled depends on the sets, the batch and the queued calls.
LEMMA CancelFrame ==
  ASSUME CancelInv, UNCHANGED <<heap, activeTimers_, expired, pending, cancelled, cancelingTimers_>>
  PROVE  CancelInv'
BY Zenon DEF CancelInv, InBatch, IsAdd, IdAt

\* Whether the timerfd is armed depends on it, on the clock and on timers_.
LEMMA ArmedFrame ==
  ASSUME ArmedInv, UNCHANGED <<now, timerfd, timers_, callingExpiredTimers_>>
  PROVE  ArmedInv'
BY Zenon DEF ArmedInv

\* When timers fired depends on the log of firings, the heap and the batch.
LEMMA FiredFrame ==
  ASSUME FiredInv, UNCHANGED <<now, numCreated, heap, expired, todo, pollNow, fired>>
  PROVE  FiredInv'
BY Zenon DEF FiredInv, FiringDiscipline, HasRun, Ran, IdAt, Ids

\* Creating a timer makes room for its number.
LEMMA Growth ==
  ASSUME numCreated \in Nat, numCreated' = numCreated + 1
  PROVE  /\ Ids \subseteq Ids' /\ Timers \subseteq Timers'
         /\ Calls \subseteq Calls' /\ Seq(Calls) \subseteq Seq(Calls')
<1>1. 1 .. numCreated \subseteq 1 .. numCreated' /\ 0 .. numCreated \subseteq 0 .. numCreated'
  OBVIOUS
<1>2. Ids \subseteq Ids' /\ Timers \subseteq Timers'
  BY <1>1, Zenon DEF Ids, Timers
<1>3. Calls \subseteq Calls'
  BY <1>2, Zenon DEF Calls
<1>4. Seq(Calls) \subseteq Seq(Calls')
  BY <1>3
<1> QED
  BY <1>2, <1>3, <1>4, Zenon

\* The clock ticks.
LEMMA TickKeeps ==
  ASSUME TimerInv, Tick
  PROVE  TimerInv'
<1> USE DEF TimerInv
<1>1. /\ now < MaxTime /\ now' = now + 1
      /\ UNCHANGED <<timerfd, heap, numCreated, timers_, activeTimers_, callingExpiredTimers_, cancelingTimers_,
                     expired, todo, pollNow, pending, adding, known, cancelled, fired>>
  BY Zenon DEF Tick, setVars, batchVars, callVars, historyVars
<1>2. TypesInv'
  <2>1. Ids' = Ids /\ Timers' = Timers /\ Calls' = Calls
    BY <1>1, Zenon DEF Ids, Timers, Calls
  <2>2. now' \in 1 .. MaxTime /\ pollNow' \in 0 .. now'
    BY <1>1, TimerAssumption DEF TypesInv
  <2> QED
    BY <1>1, <2>1, <2>2, Zenon DEF TypesInv
<1>3. ArmedInv'
  BY <1>1 DEF ArmedInv, TypesInv, Disarmed
<1>4. FiredInv'
  <2>1. Ids' = Ids /\ \A a : HasRun(a)' = HasRun(a)
    BY <1>1, Zenon DEF Ids, HasRun, Ran
  <2>2. 0 .. now \subseteq 0 .. now'
    BY <1>1 DEF TypesInv
  <2>3. fired' \subseteq [id : Ids', due : Nat, batch : 0 .. now', interval : Nat]
    BY <1>1, <2>1, <2>2, Zenon DEF FiredInv
  <2> QED
    BY <1>1, <2>1, <2>3, Zenon DEF FiredInv, FiringDiscipline, IdAt
<1> QED
  BY <1>1, <1>2, <1>3, <1>4, TodoFrame, PlacesFrame, CancelFrame, Zenon
------------------------------------------------------------------------------
(* New timers. *)

\* A new timer takes an address nobody uses and a number nobody knows.
LEMMA NewTimerFacts ==
  ASSUME TimerInv, NEW a \in Addrs, NEW d \in Delays, NEW i \in Intervals, NewTimer(a, d, i)
  PROVE  /\ numCreated' = numCreated + 1 /\ numCreated' \in 0 .. MaxSeq
         /\ heap' \in [Addrs -> Timers']
         /\ heap'[a] = [sequence |-> numCreated + 1, expiration |-> now + d, interval |-> i]
         /\ \A b \in Addrs : b # a => heap'[b] = heap[b]
         /\ \A b \in Addrs : heap'[b].sequence = 0 => heap'[b] = Free
         /\ heap[a] = Free /\ now + d \in Nat
         /\ ~Active(a) /\ ~InBatch(a) /\ \A k \in 1 .. Len(pending) : IsAdd(k) => pending[k].id[1] # a
         /\ <<a, numCreated + 1>> \in Ids' /\ <<a, numCreated + 1>> \notin Ids
<1> USE DEF TimerInv
<1> DEFINE new == [sequence |-> numCreated + 1, expiration |-> now + d, interval |-> i]
<1>1. heap[a] = Free /\ numCreated < MaxSeq /\ numCreated' = numCreated + 1 /\ heap' = [heap EXCEPT ![a] = new]
  BY Zenon DEF NewTimer, Allocated, NextSequence
<1>2. numCreated \in Nat /\ now \in Nat /\ d \in Nat /\ numCreated' \in 0 .. MaxSeq /\ heap \in [Addrs -> Timers]
  BY <1>1, TimerAssumption DEF TypesInv
<1>3. now + d \in Nat
  BY <1>2
<1>4. new \in Timers' /\ Timers \subseteq Timers'
  BY <1>1, <1>2, <1>3, Growth DEF Timers
<1>5. heap' \in [Addrs -> Timers'] /\ heap'[a] = new /\ \A b \in Addrs : b # a => heap'[b] = heap[b]
  <2> HIDE DEF new
  <2> QED
    BY <1>1, <1>2, <1>4, Zenon
<1>6. \A b \in Addrs : heap'[b].sequence = 0 => heap'[b] = Free
  BY <1>2, <1>5 DEF TypesInv
<1>7. heap[a].sequence = 0
  BY <1>1 DEF Free
<1>8. ~Active(a) /\ ~InBatch(a)
  BY <1>7, Zenon DEF Active, InBatch, PlacesInv
<1>9. \A k \in 1 .. Len(pending) : IsAdd(k) => pending[k].id[1] # a
  <2> SUFFICES ASSUME NEW k \in 1 .. Len(pending), IsAdd(k), pending[k].id[1] = a
               PROVE  FALSE
    BY Zenon
  <2>1. pending[k] \in Calls
    BY DEF TypesInv
  <2>2. pending[k].id \in Ids /\ IdAt(a) = pending[k].id
    BY <2>1, Zenon DEF Calls, PlacesInv
  <2> QED
    BY <1>2, <1>7, <2>2 DEF Ids, IdAt
<1>10. <<a, numCreated + 1>> \in Ids' /\ <<a, numCreated + 1>> \notin Ids
  BY <1>1, <1>2 DEF Ids
<1> QED
  BY <1>1, <1>2, <1>3, <1>5, <1>6, <1>8, <1>9, <1>10, Zenon

\* No call of the new timer has been made yet.
LEMMA NewTimerFired ==
  ASSUME TimerInv, NEW a \in Addrs, NEW d \in Delays, NEW i \in Intervals, NewTimer(a, d, i),
         UNCHANGED <<now, expired, todo, pollNow, fired>>
  PROVE  FiredInv'
<1>1. numCreated \in Nat
  BY DEF TimerInv, TypesInv
<1>2. Ids \subseteq Ids'
  BY <1>1, NewTimerFacts, Growth, Zenon
<1>3. fired' \subseteq [id : Ids', due : Nat, batch : 0 .. now', interval : Nat]
  BY <1>2, Zenon DEF TimerInv, FiredInv
<1>4. FiringDiscipline'
  BY Zenon DEF TimerInv, FiredInv, FiringDiscipline
<1>5. ASSUME NEW f \in fired', (IdAt(f.id[1]) = f.id)'
      PROVE  /\ heap'[f.id[1]].interval = f.interval
             /\ IF HasRun(f.id[1])' THEN f.batch <= pollNow'
                ELSE f.interval > 0 /\ f.batch + f.interval <= heap'[f.id[1]].expiration
  <2>1. f \in fired /\ f.id \in Ids /\ f.id[1] \in Addrs
    BY Zenon DEF TimerInv, FiredInv, Ids
  <2>2. f.id[1] # a
    <3>1. SUFFICES ASSUME f.id[1] = a PROVE FALSE
      BY Zenon
    <3>2. heap'[a].sequence = numCreated + 1 /\ <<a, numCreated + 1>> \notin Ids
      <4>1. heap'[a] = [sequence |-> numCreated + 1, expiration |-> now + d, interval |-> i]
        BY NewTimerFacts, Zenon
      <4>2. <<a, numCreated + 1>> \notin Ids
        BY NewTimerFacts, Zenon
      <4> QED
        BY <4>1, <4>2
    <3>3. f.id = <<a, numCreated + 1>>
      BY <1>5, <3>1, <3>2, Zenon DEF IdAt
    <3> QED
      BY <2>1, <3>2, <3>3, Zenon
  <2>3. heap'[f.id[1]] = heap[f.id[1]]
    <3>1. \A b \in Addrs : b # a => heap'[b] = heap[b]
      BY NewTimerFacts, Zenon
    <3> QED
      BY <2>1, <2>2, <3>1, Zenon
  <2>4. IdAt(f.id[1]) = f.id
    BY <1>5, <2>3, Zenon DEF IdAt
  <2>5. HasRun(f.id[1])' <=> HasRun(f.id[1])
    BY Zenon DEF HasRun, Ran
  <2>6. /\ heap[f.id[1]].interval = f.interval
        /\ IF HasRun(f.id[1]) THEN f.batch <= pollNow
           ELSE f.interval > 0 /\ f.batch + f.interval <= heap[f.id[1]].expiration
    BY <2>1, <2>4, Zenon DEF TimerInv, FiredInv
  <2> QED
    BY <2>3, <2>5, <2>6, Zenon
<1> QED
  BY <1>3, <1>4, <1>5, Zenon DEF FiredInv

\* The types after a timer was created.
LEMMA NewTimerTypes ==
  ASSUME TimerInv, NEW a \in Addrs, NEW d \in Delays, NEW i \in Intervals, NewTimer(a, d, i),
         UNCHANGED <<now, callingExpiredTimers_, expired, pollNow, cancelled, cancelingTimers_>>,
         timerfd' \in {Disarmed} \cup Nat, timers_' \subseteq Entries, known' \subseteq Ids',
         pending' \in Seq(Calls'), adding' \in [Threads -> Ids' \cup {None}]
  PROVE  TypesInv'
<1>1. numCreated \in Nat
  BY DEF TimerInv, TypesInv
<1>2. Ids \subseteq Ids'
  BY <1>1, NewTimerFacts, Growth, Zenon
<1>3. Entries' = Entries /\ callingExpiredTimers_' \in BOOLEAN
  BY Zenon DEF Entries, TimerInv, TypesInv
<1> QED
  BY <1>2, <1>3, NewTimerFacts, Zenon DEF TimerInv, TypesInv
\* insert() and resetTimerfd(): the timerfd is set for the new timer as for the others.
LEMMA ArmedAdd ==
  ASSUME TimerInv, NEW w \in Nat, NEW a \in Addrs, UNCHANGED <<now, callingExpiredTimers_>>,
         timers_' = timers_ \cup {<<w, a>>},
         timerfd' = IF earliestChanged(w) THEN TimeFromNow(w) ELSE timerfd
  PROVE  ArmedInv' /\ timerfd' \in {Disarmed} \cup Nat
<1> USE DEF TimerInv
<1>1. now \in Nat /\ timerfd \in {Disarmed} \cup Nat /\ timers_ \subseteq Entries
  BY DEF TypesInv
<1>2. \A e \in timers_ : e[1] \in Nat
  BY <1>1, Zenon DEF Entries
<1>3. CASE earliestChanged(w)
  <2>1. timerfd' = TimeFromNow(w)
    BY <1>3, Zenon
  <2>2. timerfd' \in Nat /\ (timerfd' <= now + 1 \/ timerfd' <= w)
    <3>0. TimeFromNow(w) = now + 1 \/ TimeFromNow(w) = w
      BY Zenon DEF TimeFromNow
    <3>1. now + 1 \in Nat /\ (timerfd' = now + 1 \/ timerfd' = w)
      BY <1>1, <2>1, <3>0
    <3> QED
      BY <3>1
  <2>3. \A e \in timers_' : e[1] \in Nat /\ w <= e[1]
    BY <1>2, <1>3 DEF earliestChanged
  <2> QED
    BY <1>1, <2>2, <2>3 DEF ArmedInv, Disarmed
<1>4. CASE ~earliestChanged(w)
  <2>1. timerfd' = timerfd
    BY <1>4, Zenon
  <2>2. PICK e0 \in timers_ : e0[1] <= w
    BY <1>2, <1>4 DEF earliestChanged
  <2>3. ~callingExpiredTimers_ => timerfd # Disarmed /\ (timerfd <= now + 1 \/ timerfd <= e0[1])
    BY <2>2, Zenon DEF ArmedInv
  <2>4. ~callingExpiredTimers_ => timerfd # Disarmed /\ (timerfd <= now + 1 \/ timerfd <= w)
    BY <1>1, <1>2, <2>2, <2>3 DEF Disarmed
  <2> QED
    BY <1>1, <2>1, <2>4 DEF ArmedInv
<1> QED
  BY <1>3, <1>4, Zenon

\* addTimerInLoop() puts into both sets a timer that was in neither, whether the call
\* was queued (n = 1: the first queued call is over) or not (n = 0).
LEMMA PlacesAdd ==
  ASSUME TimerInv, NEW a \in Addrs, NEW n \in {0, 1}, ~Active(a), ~InBatch(a),
         \A b \in Addrs : b # a => heap'[b] = heap[b], heap'[a].sequence # 0,
         timers_' = timers_ \cup {<<heap'[a].expiration, a>>},
         activeTimers_' = activeTimers_ \cup {<<a, heap'[a].sequence>>},
         UNCHANGED <<callingExpiredTimers_, expired, pollNow>>,
         Len(pending') \in Nat,
         \A k \in 1 .. Len(pending') :
           k + n \in 1 .. Len(pending) /\ pending'[k] = pending[k + n] /\ (IsAdd(k)' => pending'[k].id[1] # a)
  PROVE  PlacesInv'
<1> USE DEF TimerInv
<1>1. \A e \in timers_ : e[2] \in Addrs /\ e[2] # a
  BY Zenon DEF TypesInv, Entries, Active
<1>2. \A k \in 1 .. Len(expired) : expired[k] \in Entries /\ expired[k][2] \in Addrs /\ expired[k][2] # a
  BY DEF TypesInv, Entries, InBatch
<1> DEFINE new == <<heap'[a].expiration, a>>
<1>0. new[2] = a /\ new[1] = heap'[a].expiration /\ timers_' = timers_ \cup {new}
  BY Zenon
<1> HIDE DEF new
<1>3. \A b : Active(b)' <=> Active(b) \/ b = a
  BY <1>0, Zenon DEF Active
<1>4. \A b : InBatch(b)' <=> InBatch(b)
  BY Zenon DEF InBatch
<1>5. \A k \in 1 .. Len(pending) : pending[k].id \in Ids /\ pending[k].id[1] \in Addrs
  <2>1. \A k \in 1 .. Len(pending) : pending[k] \in Calls
    BY DEF TypesInv
  <2> QED
    BY <2>1, Zenon DEF Calls, Ids
<1>6. \A e \in timers_' : heap'[e[2]].sequence # 0 /\ heap'[e[2]].expiration = e[1]
  BY <1>0, <1>1 DEF PlacesInv
<1>7. activeTimers_' = {IdAt(e[2])' : e \in timers_'}
  <2>1. \A e \in timers_ : IdAt(e[2])' = IdAt(e[2])
    BY <1>1, Zenon DEF IdAt
  <2>2. IdAt(a)' = <<a, heap'[a].sequence>>
    BY Zenon DEF IdAt
  <2>3. {IdAt(e[2])' : e \in timers_'} = {IdAt(e[2])' : e \in timers_} \cup {IdAt(a)'}
    BY <1>0
  <2> QED
    BY <2>1, <2>2, <2>3 DEF PlacesInv
<1>8. (\A k \in 1 .. Len(expired) :
         /\ heap[expired[k][2]].sequence # 0 /\ heap[expired[k][2]].expiration = expired[k][1]
         /\ expired[k][1] <= pollNow /\ ~Active(expired[k][2]))'
  <2> SUFFICES ASSUME NEW k \in 1 .. Len(expired), NEW b, b = expired[k][2]
               PROVE  /\ heap'[b].sequence # 0 /\ heap'[b].expiration = expired[k][1]
                      /\ expired[k][1] <= pollNow /\ ~Active(b)'
    BY Zenon DEF Active
  <2>1. heap'[b] = heap[b] /\ b # a
    BY <1>2, Zenon
  <2>2. heap[b].sequence # 0 /\ heap[b].expiration = expired[k][1] /\ expired[k][1] <= pollNow /\ ~Active(b)
    BY Zenon DEF PlacesInv
  <2> QED
    BY <1>3, <2>1, <2>2, Zenon
<1>9. (\A k \in 1 .. Len(pending) : IsAdd(k) =>
         IdAt(pending[k].id[1]) = pending[k].id /\ ~Active(pending[k].id[1]) /\ ~InBatch(pending[k].id[1]))'
  <2> SUFFICES ASSUME NEW k \in 1 .. Len(pending'), IsAdd(k)', NEW b, b = pending'[k].id[1]
               PROVE  IdAt(b)' = pending'[k].id /\ ~Active(b)' /\ ~InBatch(b)'
    BY Zenon DEF IdAt, Active, InBatch
  <2>1. k + n \in 1 .. Len(pending) /\ pending'[k] = pending[k + n] /\ b # a
    BY Zenon
  <2>2. IsAdd(k + n) /\ b \in Addrs
    BY <1>5, <2>1, Zenon DEF IsAdd
  <2>3. IdAt(b) = pending[k + n].id /\ ~Active(b) /\ ~InBatch(b)
    BY <2>1, <2>2, Zenon DEF PlacesInv
  <2>4. IdAt(b)' = IdAt(b)
    BY <2>1, <2>2, Zenon DEF IdAt
  <2> QED
    BY <1>3, <1>4, <2>1, <2>3, <2>4, Zenon
<1>10. \A k, l \in 1 .. Len(pending') : IsAdd(k)' /\ IsAdd(l)' /\ pending'[k].id[1] = pending'[l].id[1] => k = l
  <2> SUFFICES ASSUME NEW k \in 1 .. Len(pending'), NEW l \in 1 .. Len(pending'), IsAdd(k)', IsAdd(l)',
                      pending'[k].id[1] = pending'[l].id[1]
               PROVE  k = l
    BY Zenon
  <2>1. /\ k + n \in 1 .. Len(pending) /\ pending'[k] = pending[k + n]
        /\ l + n \in 1 .. Len(pending) /\ pending'[l] = pending[l + n]
    BY Zenon
  <2>2. IsAdd(k + n) /\ IsAdd(l + n)
    BY <2>1, Zenon DEF IsAdd
  <2>3. k + n = l + n
    BY <2>1, <2>2, Zenon DEF PlacesInv
  <2> QED
    BY <2>3
<1>11. ~callingExpiredTimers_' => expired' = <<>>
  BY Zenon DEF PlacesInv
<1>12. \A k, l \in 1 .. Len(expired') : expired'[k][2] = expired'[l][2] => k = l
  BY Zenon DEF PlacesInv
<1> QED
  BY <1>6, <1>7, <1>8, <1>9, <1>10, <1>11, <1>12, Zenon DEF PlacesInv
\* addTimer() by the loop's thread.
LEMMA addTimerKeeps ==
  ASSUME TimerInv, NEW a \in Addrs, NEW d \in Delays, NEW i \in Intervals, addTimer(a, d, i)
  PROVE  TimerInv'
<1> DEFINE w == now + d
<1> DEFINE new == <<a, numCreated + 1>>
<1>1. /\ NewTimer(a, d, i) /\ AddInLoop(a, heap') /\ known' = known \cup {<<a, heap'[a].sequence>>}
      /\ UNCHANGED <<now, callingExpiredTimers_, cancelingTimers_, expired, todo, pollNow, pending, adding, cancelled, fired>>
  BY Zenon DEF addTimer, batchVars, historyVars
<1>2. heap'[a] = [sequence |-> numCreated + 1, expiration |-> now + d, interval |-> i] /\ w \in Nat
  BY <1>1, NewTimerFacts, Zenon
<1>3. numCreated' = numCreated + 1 /\ numCreated \in Nat /\ new \in Ids' /\ new \notin Ids
  <2>1. numCreated \in Nat
    BY DEF TimerInv, TypesInv
  <2>2. numCreated' = numCreated + 1 /\ <<a, numCreated + 1>> \in Ids' /\ <<a, numCreated + 1>> \notin Ids
    BY <1>1, NewTimerFacts, Zenon
  <2> QED
    BY <2>1, <2>2, Zenon
<1>4. heap'[a].sequence = numCreated + 1 /\ heap'[a].sequence # 0 /\ heap'[a].expiration = w
  BY <1>2, <1>3
<1>5. ~Active(a) /\ ~InBatch(a) /\ \A b \in Addrs : b # a => heap'[b] = heap[b]
  BY <1>1, NewTimerFacts, Zenon
<1>6. \A k \in 1 .. Len(pending) : IsAdd(k) => pending[k].id[1] # a
  BY <1>1, NewTimerFacts, Zenon
<1>7. /\ timers_' = timers_ \cup {<<w, a>>} /\ activeTimers_' = activeTimers_ \cup {new}
      /\ timerfd' = IF earliestChanged(w) THEN TimeFromNow(w) ELSE timerfd
  BY <1>1, <1>4, Zenon DEF AddInLoop
<1> HIDE DEF w
<1>8. ArmedInv' /\ timerfd' \in {Disarmed} \cup Nat
  BY <1>1, <1>2, <1>7, ArmedAdd, Zenon
<1>9. TypesInv'
  <2>1. Ids \subseteq Ids' /\ Seq(Calls) \subseteq Seq(Calls')
    BY <1>3, Growth, Zenon
  <2>2. known' \subseteq Ids' /\ pending' \in Seq(Calls') /\ adding' \in [Threads -> Ids' \cup {None}]
    BY <1>1, <1>3, <1>4, <2>1, Zenon DEF TimerInv, TypesInv
  <2>3. timers_' \subseteq Entries
    BY <1>2, <1>7 DEF TimerInv, TypesInv, Entries
  <2> QED
    BY <1>1, <1>8, <2>2, <2>3, NewTimerTypes, Zenon
<1>10. PlacesInv'
  <2>1. Len(pending') \in Nat
    BY <1>1 DEF TimerInv, TypesInv
  <2>2. \A k \in 1 .. Len(pending') :
          k + 0 \in 1 .. Len(pending) /\ pending'[k] = pending[k + 0] /\ (IsAdd(k)' => pending'[k].id[1] # a)
    BY <1>1, <1>6, <2>1 DEF IsAdd
  <2>3. /\ timers_' = timers_ \cup {<<heap'[a].expiration, a>>}
        /\ activeTimers_' = activeTimers_ \cup {<<a, heap'[a].sequence>>}
    BY <1>4, <1>7, Zenon
  <2> QED
    BY <1>1, <1>4, <1>5, <2>1, <2>2, <2>3, PlacesAdd, Zenon
<1>11. CancelInv'
  <2> SUFFICES ASSUME NEW id \in cancelled, NEW b, b = id[1]
               PROVE  /\ id \notin activeTimers_'
                      /\ \A k \in 1 .. Len(pending) : IsAdd(k) => pending[k].id # id
                      /\ InBatch(b) /\ IdAt(b)' = id => id \in cancelingTimers_
    BY <1>1, Zenon DEF CancelInv, IsAdd, InBatch, IdAt
  <2>1. id \in Ids /\ b \in Addrs
    BY Zenon DEF TimerInv, TypesInv, Ids
  <2>2. /\ id \notin activeTimers_
        /\ \A k \in 1 .. Len(pending) : IsAdd(k) => pending[k].id # id
        /\ InBatch(b) /\ IdAt(b) = id => id \in cancelingTimers_
    BY Zenon DEF TimerInv, CancelInv
  <2>3. id \notin activeTimers_'
    BY <1>3, <1>7, <2>1, <2>2, Zenon
  <2>4. InBatch(b) => IdAt(b)' = IdAt(b)
    BY <1>5, <2>1, Zenon DEF IdAt
  <2> QED
    BY <2>2, <2>3, <2>4, Zenon
<1>12. FiredInv'
  BY <1>1, NewTimerFired, Zenon
<1>13. TodoInv'
  BY <1>1, TodoFrame, Zenon DEF TimerInv
<1> QED
  BY <1>8, <1>9, <1>10, <1>11, <1>12, <1>13, Zenon DEF TimerInv

\* A call is queued: what the queue held it still holds, in the same places.
LEMMA Queued ==
  ASSUME NEW S, NEW s \in Seq(S), NEW x \in S
  PROVE  /\ Append(s, x) \in Seq(S) /\ Len(Append(s, x)) = Len(s) + 1 /\ Len(s) \in Nat
         /\ \A k \in 1 .. Len(s) + 1 :
              \/ k \in 1 .. Len(s) /\ Append(s, x)[k] = s[k]
              \/ k = Len(s) + 1 /\ Append(s, x)[k] = x
  OBVIOUS

\* addTimer() by another thread.
LEMMA addTimerBeginKeeps ==
  ASSUME TimerInv, NEW th \in Threads, NEW a \in Addrs, NEW d \in Delays, NEW i \in Intervals,
         addTimerBegin(th, a, d, i)
  PROVE  TimerInv'
<1> DEFINE new == <<a, numCreated + 1>>
<1> DEFINE call == [op |-> "add", id |-> new]
<1>1. /\ NewTimer(a, d, i) /\ pending' = Append(pending, call) /\ adding' = [adding EXCEPT ![th] = new]
      /\ UNCHANGED <<now, timerfd, timers_, activeTimers_, callingExpiredTimers_, cancelingTimers_, expired, todo, pollNow,
                     known, cancelled, fired>>
  BY Zenon DEF addTimerBegin, NextSequence, batchVars, historyVars, fdVars, setVars
<1>2. heap'[a] = [sequence |-> numCreated + 1, expiration |-> now + d, interval |-> i]
  BY <1>1, NewTimerFacts, Zenon
<1>3. numCreated' = numCreated + 1 /\ numCreated \in Nat /\ new \in Ids' /\ new \notin Ids
  <2>1. numCreated \in Nat
    BY DEF TimerInv, TypesInv
  <2>2. numCreated' = numCreated + 1 /\ <<a, numCreated + 1>> \in Ids' /\ <<a, numCreated + 1>> \notin Ids
    BY <1>1, NewTimerFacts, Zenon
  <2> QED
    BY <2>1, <2>2, Zenon
<1>4. IdAt(a)' = new
  BY <1>2, <1>3 DEF IdAt
<1>5. ~Active(a) /\ ~InBatch(a) /\ \A b \in Addrs : b # a => heap'[b] = heap[b]
  BY <1>1, NewTimerFacts, Zenon
<1>6. \A k \in 1 .. Len(pending) : IsAdd(k) => pending[k].id[1] # a
  BY <1>1, NewTimerFacts, Zenon
<1>7. Ids \subseteq Ids' /\ Seq(Calls) \subseteq Seq(Calls')
  BY <1>3, Growth, Zenon
<1>8. /\ pending' \in Seq(Calls') /\ Len(pending') = Len(pending) + 1 /\ Len(pending) \in Nat
      /\ \A k \in 1 .. Len(pending') :
           \/ k \in 1 .. Len(pending) /\ pending'[k] = pending[k]
           \/ k = Len(pending) + 1 /\ pending'[k] = call
  <2>1. call \in Calls' /\ pending \in Seq(Calls')
    BY <1>3, <1>7, Zenon DEF Calls, TimerInv, TypesInv
  <2> HIDE DEF call
  <2> QED
    BY <1>1, <2>1, Queued
<1>9. call.op = "add" /\ call.id = new /\ new[1] = a
  BY Zenon
<1>10. TypesInv'
  <2>1. known' \subseteq Ids' /\ timers_' \subseteq Entries /\ timerfd' \in {Disarmed} \cup Nat
    BY <1>1, <1>7, Zenon DEF TimerInv, TypesInv
  <2>2. adding' \in [Threads -> Ids' \cup {None}]
    <3>1. adding' = [adding EXCEPT ![th] = new] /\ adding \in [Threads -> Ids' \cup {None}]
      BY <1>1, <1>7, Zenon DEF TimerInv, TypesInv
    <3> HIDE DEF new
    <3> QED
      BY <1>3, <3>1, Zenon
  <2> QED
    BY <1>1, <1>8, <2>1, <2>2, NewTimerTypes, Zenon
<1>11. PlacesInv'
  <2>1. \A e \in timers_ : e[2] \in Addrs /\ e[2] # a
    BY <1>5, Zenon DEF TimerInv, TypesInv, Entries, Active
  <2>2. \A k \in 1 .. Len(expired) : expired[k][2] \in Addrs /\ expired[k][2] # a
    BY <1>5 DEF TimerInv, TypesInv, Entries, InBatch
  <2>3. \A b : (Active(b)' <=> Active(b)) /\ (InBatch(b)' <=> InBatch(b))
    BY <1>1, Zenon DEF Active, InBatch
  <2>4. (\A e \in timers_ : heap[e[2]].sequence # 0 /\ heap[e[2]].expiration = e[1])'
    BY <1>1, <1>5, <2>1, Zenon DEF TimerInv, PlacesInv
  <2>5. (activeTimers_ = {IdAt(e[2]) : e \in timers_})'
    <3>1. \A e \in timers_ : IdAt(e[2])' = IdAt(e[2])
      BY <1>5, <2>1, Zenon DEF IdAt
    <3> QED
      BY <1>1, <3>1 DEF TimerInv, PlacesInv
  <2>6. (\A k \in 1 .. Len(expired) :
           /\ heap[expired[k][2]].sequence # 0 /\ heap[expired[k][2]].expiration = expired[k][1]
           /\ expired[k][1] <= pollNow /\ ~Active(expired[k][2]))'
    BY <1>1, <1>5, <2>2, <2>3 DEF TimerInv, PlacesInv, Active
  <2>7. (\A k \in 1 .. Len(pending) : IsAdd(k) =>
           IdAt(pending[k].id[1]) = pending[k].id /\ ~Active(pending[k].id[1]) /\ ~InBatch(pending[k].id[1]))'
    <3> SUFFICES ASSUME NEW k \in 1 .. Len(pending'), IsAdd(k)', NEW b, b = pending'[k].id[1]
                 PROVE  IdAt(b)' = pending'[k].id /\ ~Active(b)' /\ ~InBatch(b)'
      BY Zenon DEF IdAt, Active, InBatch
    <3>1. CASE k \in 1 .. Len(pending) /\ pending'[k] = pending[k]
      <4>1. IsAdd(k) /\ pending[k] \in Calls
        BY <3>1 DEF IsAdd, TimerInv, TypesInv
      <4>2. b \in Addrs /\ b # a
        BY <1>6, <3>1, <4>1, Zenon DEF Calls, Ids
      <4>3. IdAt(b) = pending[k].id /\ ~Active(b) /\ ~InBatch(b)
        BY <3>1, <4>1, Zenon DEF TimerInv, PlacesInv
      <4>4. IdAt(b)' = IdAt(b)
        BY <1>5, <4>2, Zenon DEF IdAt
      <4> QED
        BY <2>3, <3>1, <4>3, <4>4, Zenon
    <3>2. CASE k = Len(pending) + 1 /\ pending'[k] = call
      BY <1>4, <1>5, <1>9, <2>3, <3>2, Zenon
    <3> QED
      BY <1>8, <3>1, <3>2, Zenon
  <2>8. (\A k, l \in 1 .. Len(pending) : IsAdd(k) /\ IsAdd(l) /\ pending[k].id[1] = pending[l].id[1] => k = l)'
    <3> SUFFICES ASSUME NEW k \in 1 .. Len(pending'), NEW l \in 1 .. Len(pending'), IsAdd(k)', IsAdd(l)',
                        pending'[k].id[1] = pending'[l].id[1]
                 PROVE  k = l
      BY Zenon DEF IsAdd
    <3>1. CASE k \in 1 .. Len(pending) /\ pending'[k] = pending[k] /\ l \in 1 .. Len(pending) /\ pending'[l] = pending[l]
      <4>1. IsAdd(k) /\ IsAdd(l)
        BY <3>1, Zenon DEF IsAdd
      <4> QED
        BY <3>1, <4>1, Zenon DEF TimerInv, PlacesInv
    <3>2. CASE k = Len(pending) + 1 /\ pending'[k] = call /\ l \in 1 .. Len(pending) /\ pending'[l] = pending[l]
      <4>1. IsAdd(l)
        BY <3>2, Zenon DEF IsAdd
      <4> QED
        BY <1>6, <1>9, <3>2, <4>1, Zenon
    <3>3. CASE l = Len(pending) + 1 /\ pending'[l] = call /\ k \in 1 .. Len(pending) /\ pending'[k] = pending[k]
      <4>1. IsAdd(k)
        BY <3>3, Zenon DEF IsAdd
      <4> QED
        BY <1>6, <1>9, <3>3, <4>1, Zenon
    <3> QED
      BY <1>8, <3>1, <3>2, <3>3, Zenon
  <2>9. (/\ ~callingExpiredTimers_ => expired = <<>>
         /\ \A k, l \in 1 .. Len(expired) : expired[k][2] = expired[l][2] => k = l)'
    BY <1>1, Zenon DEF TimerInv, PlacesInv
  <2> QED
    BY <2>4, <2>5, <2>6, <2>7, <2>8, <2>9, Zenon DEF PlacesInv
<1>12. CancelInv'
  <2> SUFFICES ASSUME NEW id \in cancelled, NEW b, b = id[1]
               PROVE  /\ id \notin activeTimers_
                      /\ \A k \in 1 .. Len(pending') : IsAdd(k)' => pending'[k].id # id
                      /\ InBatch(b) /\ IdAt(b)' = id => id \in cancelingTimers_
    BY <1>1, Zenon DEF CancelInv, IsAdd, InBatch, IdAt
  <2>1. id \in Ids /\ b \in Addrs
    BY Zenon DEF TimerInv, TypesInv, Ids
  <2>2. /\ id \notin activeTimers_
        /\ \A k \in 1 .. Len(pending) : IsAdd(k) => pending[k].id # id
        /\ InBatch(b) /\ IdAt(b) = id => id \in cancelingTimers_
    BY Zenon DEF TimerInv, CancelInv
  <2>3. ASSUME NEW k \in 1 .. Len(pending'), IsAdd(k)' PROVE pending'[k].id # id
    <3>1. CASE k \in 1 .. Len(pending) /\ pending'[k] = pending[k]
      BY <2>2, <2>3, <3>1, Zenon DEF IsAdd
    <3>2. CASE pending'[k] = call
      BY <1>3, <1>9, <2>1, <3>2, Zenon
    <3> QED
      BY <1>8, <3>1, <3>2, Zenon
  <2>4. InBatch(b) => IdAt(b)' = IdAt(b)
    BY <1>5, <2>1, Zenon DEF IdAt
  <2> QED
    BY <2>2, <2>3, <2>4, Zenon
<1>13. FiredInv'
  BY <1>1, NewTimerFired, Zenon
<1>14. TodoInv' /\ ArmedInv'
  BY <1>1, TodoFrame, ArmedFrame, Zenon DEF TimerInv
<1> QED
  BY <1>10, <1>11, <1>12, <1>13, <1>14, Zenon DEF TimerInv
\* addTimer() returns to another thread.
LEMMA addTimerReturnKeeps ==
  ASSUME TimerInv, NEW th \in Threads, addTimerReturn(th)
  PROVE  TimerInv'
<1>1. /\ adding[th] # None /\ known' = known \cup {adding[th]} /\ adding' = [adding EXCEPT ![th] = None]
      /\ UNCHANGED <<now, timerfd, heap, numCreated, timers_, activeTimers_, callingExpiredTimers_, cancelingTimers_,
                     expired, todo, pollNow, pending, cancelled, fired>>
  BY Zenon DEF addTimerReturn, batchVars, historyVars, fdVars, setVars
<1>2. TypesInv'
  <2>1. Ids' = Ids /\ Timers' = Timers /\ Calls' = Calls
    BY <1>1, Zenon DEF Ids, Timers, Calls
  <2>2. known' \subseteq Ids' /\ adding' \in [Threads -> Ids' \cup {None}]
    BY <1>1, <2>1, Zenon DEF TimerInv, TypesInv
  <2> QED
    BY <1>1, <2>1, <2>2, Zenon DEF TimerInv, TypesInv
<1> QED
  BY <1>1, <1>2, TodoFrame, PlacesFrame, CancelFrame, ArmedFrame, FiredFrame, Zenon DEF TimerInv

\* cancel() by another thread.
LEMMA cancelBeginKeeps ==
  ASSUME TimerInv, NEW th \in Threads, NEW id \in known, cancelBegin(th, id)
  PROVE  TimerInv'
<1> DEFINE call == [op |-> "cancel", id |-> id]
<1>1. /\ pending' = Append(pending, call)
      /\ UNCHANGED <<now, timerfd, heap, numCreated, timers_, activeTimers_, callingExpiredTimers_, cancelingTimers_,
                     expired, todo, pollNow, adding, known, cancelled, fired>>
  BY Zenon DEF cancelBegin, batchVars, historyVars, fdVars, setVars
<1>2. Ids' = Ids /\ Timers' = Timers /\ Calls' = Calls
  BY <1>1, Zenon DEF Ids, Timers, Calls
<1>3. /\ pending' \in Seq(Calls) /\ Len(pending') = Len(pending) + 1 /\ Len(pending) \in Nat
      /\ \A k \in 1 .. Len(pending') :
           \/ k \in 1 .. Len(pending) /\ pending'[k] = pending[k]
           \/ k = Len(pending) + 1 /\ pending'[k] = call
  <2>1. call \in Calls /\ pending \in Seq(Calls)
    BY Zenon DEF Calls, TimerInv, TypesInv
  <2> HIDE DEF call
  <2> QED
    BY <1>1, <2>1, Queued
<1>4. \A k \in 1 .. Len(pending') : IsAdd(k)' => k \in 1 .. Len(pending) /\ pending'[k] = pending[k] /\ IsAdd(k)
  <2>1. call.op # "add"
    BY Zenon
  <2> QED
    BY <1>3, <2>1, Zenon DEF IsAdd
<1>5. TypesInv'
  BY <1>1, <1>2, <1>3, Zenon DEF TimerInv, TypesInv
<1>6. PlacesInv'
  <2>1. \A b : (Active(b)' <=> Active(b)) /\ (InBatch(b)' <=> InBatch(b)) /\ IdAt(b)' = IdAt(b)
    BY <1>1, Zenon DEF Active, InBatch, IdAt
  <2>2. (\A k \in 1 .. Len(pending) : IsAdd(k) =>
           IdAt(pending[k].id[1]) = pending[k].id /\ ~Active(pending[k].id[1]) /\ ~InBatch(pending[k].id[1]))'
    <3> SUFFICES ASSUME NEW k \in 1 .. Len(pending'), IsAdd(k)', NEW b, b = pending'[k].id[1]
                 PROVE  IdAt(b)' = pending'[k].id /\ ~Active(b)' /\ ~InBatch(b)'
      BY Zenon DEF IdAt, Active, InBatch
    <3>1. k \in 1 .. Len(pending) /\ pending'[k] = pending[k] /\ IsAdd(k)
      BY <1>4, Zenon
    <3>2. IdAt(b) = pending[k].id /\ ~Active(b) /\ ~InBatch(b)
      BY <3>1, Zenon DEF TimerInv, PlacesInv
    <3> QED
      BY <2>1, <3>1, <3>2, Zenon
  <2>3. (\A k, l \in 1 .. Len(pending) : IsAdd(k) /\ IsAdd(l) /\ pending[k].id[1] = pending[l].id[1] => k = l)'
    <3> SUFFICES ASSUME NEW k \in 1 .. Len(pending'), NEW l \in 1 .. Len(pending'), IsAdd(k)', IsAdd(l)',
                        pending'[k].id[1] = pending'[l].id[1]
                 PROVE  k = l
      BY Zenon DEF IsAdd
    <3>1. /\ k \in 1 .. Len(pending) /\ pending'[k] = pending[k] /\ IsAdd(k)
          /\ l \in 1 .. Len(pending) /\ pending'[l] = pending[l] /\ IsAdd(l)
      BY <1>4, Zenon
    <3> QED
      BY <3>1, Zenon DEF TimerInv, PlacesInv
  <2>4. (/\ \A e \in timers_ : heap[e[2]].sequence # 0 /\ heap[e[2]].expiration = e[1]
         /\ activeTimers_ = {IdAt(e[2]) : e \in timers_}
         /\ ~callingExpiredTimers_ => expired = <<>>
         /\ \A i \in 1 .. Len(expired) :
              /\ heap[expired[i][2]].sequence # 0 /\ heap[expired[i][2]].expiration = expired[i][1]
              /\ expired[i][1] <= pollNow /\ ~Active(expired[i][2])
         /\ \A i, j \in 1 .. Len(expired) : expired[i][2] = expired[j][2] => i = j)'
    BY <1>1 DEF TimerInv, PlacesInv, IdAt, Active
  <2> QED
    BY <2>2, <2>3, <2>4, Zenon DEF PlacesInv
<1>7. CancelInv'
  <2> SUFFICES ASSUME NEW old \in cancelled
               PROVE  /\ old \notin activeTimers_
                      /\ \A k \in 1 .. Len(pending') : IsAdd(k)' => pending'[k].id # old
                      /\ InBatch(old[1]) /\ IdAt(old[1]) = old => old \in cancelingTimers_
    BY <1>1, Zenon DEF CancelInv, IsAdd, InBatch, IdAt
  <2>1. /\ old \notin activeTimers_
        /\ \A k \in 1 .. Len(pending) : IsAdd(k) => pending[k].id # old
        /\ InBatch(old[1]) /\ IdAt(old[1]) = old => old \in cancelingTimers_
    BY Zenon DEF TimerInv, CancelInv
  <2> QED
    BY <1>4, <2>1, Zenon
<1> QED
  BY <1>1, <1>5, <1>6, <1>7, TodoFrame, ArmedFrame, FiredFrame, Zenon DEF TimerInv
------------------------------------------------------------------------------
(* Cancelling. *)

\* The queue after its first n calls were run.
Rest(n) ==
  /\ pending' \in Seq(Calls) /\ Len(pending') \in Nat
  /\ \A k \in 1 .. Len(pending') : k + n \in 1 .. Len(pending) /\ pending'[k] = pending[k + n]

\* cancelInLoop() for a timer in the sets: it is erased from both and deleted.
LEMMA CancelActive ==
  ASSUME TimerInv, NEW n \in {0, 1}, NEW id \in Ids, id \in activeTimers_, CancelInLoop(id), Rest(n),
         UNCHANGED <<adding, known>>
  PROVE  TimerInv'
<1> USE DEF TimerInv
<1>1. PICK e \in timers_ : IdAt(e[2]) = id
  BY Zenon DEF PlacesInv
<1> DEFINE a == e[2]
<1>2. a \in Addrs /\ e[1] \in Nat /\ e = <<e[1], a>> /\ id[1] = a /\ id = <<a, id[2]>> /\ id[2] \in Nat \ {0} /\ numCreated \in Nat
  BY <1>1 DEF TypesInv, Entries, IdAt, Ids
<1>3. heap[a].expiration = e[1] /\ Active(a)
  BY <1>1, Zenon DEF PlacesInv, Active
<1>4. /\ timers_' = timers_ \ {e} /\ activeTimers_' = activeTimers_ \ {id} /\ heap' = [heap EXCEPT ![a] = Free]
      /\ cancelled' \subseteq cancelled \cup {id}
      /\ UNCHANGED <<cancelingTimers_, now, timerfd, numCreated, callingExpiredTimers_, expired, todo, pollNow, fired>>
  BY <1>1, <1>2, <1>3, Zenon DEF CancelInLoop, IsActive, ErasedActive, fdVars
<1>5. \A f \in timers_ : f[2] \in Addrs /\ f = <<f[1], f[2]>> /\ heap[f[2]].expiration = f[1]
  BY DEF TypesInv, Entries, PlacesInv
<1>6. \A f \in timers_' : f \in timers_ /\ f[2] # a
  BY <1>2, <1>3, <1>4, <1>5, Zenon
<1>7. /\ heap'[a] = Free /\ heap'[a].sequence = 0 /\ heap' \in [Addrs -> Timers]
      /\ \A b \in Addrs : b # a => heap'[b] = heap[b]
  <2>1. heap \in [Addrs -> Timers] /\ Free \in Timers
    BY <1>2 DEF TypesInv, Timers, Free
  <2>2. heap' \in [Addrs -> Timers] /\ heap'[a] = Free /\ \A b \in Addrs : b # a => heap'[b] = heap[b]
    BY <1>2, <1>4, <2>1, Zenon
  <2> QED
    BY <2>2 DEF Free
<1> HIDE DEF a
<1>8. Ids' = Ids /\ Timers' = Timers /\ Calls' = Calls
  BY <1>4, Zenon DEF Ids, Timers, Calls
<1>9. \A b : (Active(b)' => Active(b)) /\ (InBatch(b)' <=> InBatch(b))
  BY <1>4, Zenon DEF Active, InBatch
<1>10. TypesInv'
  <2>1. \A b \in Addrs : heap'[b].sequence = 0 => heap'[b] = Free
    BY <1>7, Zenon DEF TypesInv
  <2>2. cancelled' \subseteq Ids /\ timers_' \subseteq Entries /\ pending' \in Seq(Calls)
    BY <1>4, Zenon DEF TypesInv, Rest
  <2> QED
    BY <1>4, <1>7, <1>8, <2>1, <2>2, Zenon DEF TypesInv
<1>11. ~InBatch(a) /\ \A k \in 1 .. Len(expired) : expired[k][2] \in Addrs /\ expired[k][2] # a
  <2>1. \A k \in 1 .. Len(expired) : expired[k] \in Entries /\ ~Active(expired[k][2])
    BY DEF TypesInv, PlacesInv
  <2>2. \A k \in 1 .. Len(expired) : expired[k][2] \in Addrs /\ expired[k][2] # a
    BY <1>3, <2>1, Zenon DEF Entries
  <2> QED
    BY <2>2, Zenon DEF InBatch
<1>12. \A k \in 1 .. Len(pending) : IsAdd(k) => pending[k].id[1] \in Addrs /\ pending[k].id[1] # a
  <2> SUFFICES ASSUME NEW k \in 1 .. Len(pending), IsAdd(k)
               PROVE  pending[k].id[1] \in Addrs /\ pending[k].id[1] # a
    BY Zenon
  <2>1. pending[k] \in Calls
    BY DEF TypesInv
  <2>2. ~Active(pending[k].id[1])
    BY Zenon DEF PlacesInv
  <2> QED
    BY <1>3, <2>1, <2>2, Zenon DEF Calls, Ids
<1>13. PlacesInv'
  <2>1. (\A f \in timers_ : heap[f[2]].sequence # 0 /\ heap[f[2]].expiration = f[1])'
    BY <1>5, <1>6, <1>7 DEF PlacesInv
  <2>2. (activeTimers_ = {IdAt(f[2]) : f \in timers_})'
    <3>1. \A f \in timers_' : IdAt(f[2])' = IdAt(f[2])
      BY <1>5, <1>6, <1>7, Zenon DEF IdAt
    <3>2. \A f \in timers_ : f # e => IdAt(f[2]) # id
      BY <1>2, <1>4, <1>6 DEF IdAt
    <3>3. activeTimers_ \ {id} = {IdAt(f[2]) : f \in timers_ \ {e}}
      BY <1>1, <3>2 DEF PlacesInv
    <3> QED
      BY <1>4, <3>1, <3>3, Zenon
  <2>3. (\A k \in 1 .. Len(expired) :
           /\ heap[expired[k][2]].sequence # 0 /\ heap[expired[k][2]].expiration = expired[k][1]
           /\ expired[k][1] <= pollNow /\ ~Active(expired[k][2]))'
    <3> SUFFICES ASSUME NEW k \in 1 .. Len(expired), NEW b, b = expired[k][2]
                 PROVE  /\ heap'[b].sequence # 0 /\ heap'[b].expiration = expired[k][1]
                        /\ expired[k][1] <= pollNow /\ ~Active(b)'
      BY <1>4 DEF Active
    <3>1. heap'[b] = heap[b]
      BY <1>7, <1>11, Zenon
    <3>2. heap[b].sequence # 0 /\ heap[b].expiration = expired[k][1] /\ expired[k][1] <= pollNow /\ ~Active(b)
      BY Zenon DEF PlacesInv
    <3> QED
      BY <1>9, <3>1, <3>2, Zenon
  <2>4. (\A k \in 1 .. Len(pending) : IsAdd(k) =>
           IdAt(pending[k].id[1]) = pending[k].id /\ ~Active(pending[k].id[1]) /\ ~InBatch(pending[k].id[1]))'
    <3> SUFFICES ASSUME NEW k \in 1 .. Len(pending'), IsAdd(k)', NEW b, b = pending'[k].id[1]
                 PROVE  IdAt(b)' = pending'[k].id /\ ~Active(b)' /\ ~InBatch(b)'
      BY Zenon DEF IdAt, Active, InBatch
    <3>1. k + n \in 1 .. Len(pending) /\ pending'[k] = pending[k + n]
      BY Zenon DEF Rest
    <3>2. IsAdd(k + n)
      BY <3>1, Zenon DEF IsAdd
    <3>3. IdAt(b) = pending[k + n].id /\ ~Active(b) /\ ~InBatch(b) /\ b \in Addrs /\ b # a
      BY <1>12, <3>1, <3>2, Zenon DEF PlacesInv
    <3>4. IdAt(b)' = IdAt(b)
      BY <1>7, <3>3, Zenon DEF IdAt
    <3> QED
      BY <1>9, <3>1, <3>3, <3>4, Zenon
  <2>5. (\A k, l \in 1 .. Len(pending) : IsAdd(k) /\ IsAdd(l) /\ pending[k].id[1] = pending[l].id[1] => k = l)'
    <3> SUFFICES ASSUME NEW k \in 1 .. Len(pending'), NEW l \in 1 .. Len(pending'), IsAdd(k)', IsAdd(l)',
                        pending'[k].id[1] = pending'[l].id[1]
                 PROVE  k = l
      BY Zenon DEF IsAdd
    <3>1. /\ k + n \in 1 .. Len(pending) /\ pending'[k] = pending[k + n]
          /\ l + n \in 1 .. Len(pending) /\ pending'[l] = pending[l + n]
      BY Zenon DEF Rest
    <3>2. IsAdd(k + n) /\ IsAdd(l + n)
      BY <3>1, Zenon DEF IsAdd
    <3>3. k + n = l + n
      BY <3>1, <3>2, Zenon DEF PlacesInv
    <3> QED
      BY <3>3
  <2>6. (/\ ~callingExpiredTimers_ => expired = <<>>
         /\ \A k, l \in 1 .. Len(expired) : expired[k][2] = expired[l][2] => k = l)'
    BY <1>4, Zenon DEF PlacesInv
  <2> QED
    BY <2>1, <2>2, <2>3, <2>4, <2>5, <2>6, Zenon DEF PlacesInv
<1>14. CancelInv'
  <2> SUFFICES ASSUME NEW old \in cancelled', NEW b, b = old[1]
               PROVE  /\ old \notin activeTimers_'
                      /\ \A k \in 1 .. Len(pending') : IsAdd(k)' => pending'[k].id # old
                      /\ InBatch(b) /\ IdAt(b)' = old => old \in cancelingTimers_
    BY <1>4, Zenon DEF CancelInv, IsAdd, InBatch, IdAt
  <2>1. CASE old = id
    <3>1. \A k \in 1 .. Len(pending') : IsAdd(k)' => pending'[k].id # id
      BY <1>2, <1>12, Zenon DEF Rest, IsAdd
    <3> QED
      BY <1>2, <1>4, <1>11, <2>1, <3>1, Zenon
  <2>2. CASE old \in cancelled
    <3>1. /\ old \notin activeTimers_
          /\ \A k \in 1 .. Len(pending) : IsAdd(k) => pending[k].id # old
          /\ InBatch(b) /\ IdAt(b) = old => old \in cancelingTimers_
      BY <2>2, Zenon DEF CancelInv
    <3>2. b \in Addrs
      BY <2>2, Zenon DEF TypesInv, Ids
    <3>3. InBatch(b) => IdAt(b)' = IdAt(b)
      BY <1>7, <1>11, <3>2, Zenon DEF IdAt
    <3>4. \A k \in 1 .. Len(pending') : IsAdd(k)' => pending'[k].id # old
      BY <3>1, Zenon DEF Rest, IsAdd
    <3> QED
      BY <1>4, <3>1, <3>3, <3>4, Zenon
  <2> QED
    BY <1>4, <2>1, <2>2, Zenon
<1>15. ArmedInv'
  BY <1>4, <1>6, Zenon DEF ArmedInv
<1>16. FiredInv'
  <2>1. ASSUME NEW f \in fired, NEW b, b = f.id[1], IdAt(b)' = f.id
        PROVE  /\ heap'[b].interval = f.interval
               /\ IF HasRun(b) THEN f.batch <= pollNow
                  ELSE f.interval > 0 /\ f.batch + f.interval <= heap'[b].expiration
    <3>1. f.id \in Ids /\ b \in Addrs
      BY <2>1, Zenon DEF FiredInv, Ids
    <3>2. b # a
      BY <1>7, <2>1, <3>1 DEF IdAt, Ids
    <3>3. heap'[b] = heap[b] /\ IdAt(b) = f.id
      BY <1>7, <2>1, <3>1, <3>2, Zenon DEF IdAt
    <3> QED
      BY <2>1, <3>3, Zenon DEF FiredInv
  <2>2. \A b : HasRun(b)' <=> HasRun(b)
    BY <1>4, Zenon DEF HasRun, Ran
  <2>3. FiringDiscipline' /\ fired' \subseteq [id : Ids', due : Nat, batch : 0 .. now', interval : Nat]
    BY <1>4, <1>8, Zenon DEF FiredInv, FiringDiscipline
  <2>4. (\A f \in fired : IdAt(f.id[1]) = f.id =>
          /\ heap[f.id[1]].interval = f.interval
          /\ IF HasRun(f.id[1]) THEN f.batch <= pollNow
             ELSE f.interval > 0 /\ f.batch + f.interval <= heap[f.id[1]].expiration)'
    BY <1>4, <2>1, <2>2, Zenon
  <2> QED
    BY <2>3, <2>4, Zenon DEF FiredInv
<1>17. TodoInv'
  BY <1>4, TodoFrame, Zenon
<1> QED
  BY <1>10, <1>13, <1>14, <1>15, <1>16, <1>17, Zenon
\* cancelInLoop() for a timer that is not in the sets: it is remembered for reset().
LEMMA CancelInactive ==
  ASSUME TimerInv, NEW n \in {0, 1}, NEW id \in Ids, id \notin activeTimers_, CancelInLoop(id), Rest(n),
         UNCHANGED <<adding, known>>
  PROVE  TimerInv'
<1> USE DEF TimerInv
<1>1. /\ cancelingTimers_' = Canceling(id)
      /\ UNCHANGED <<timers_, activeTimers_, heap, now, timerfd, numCreated, callingExpiredTimers_, expired, todo, pollNow, fired>>
  BY Zenon DEF CancelInLoop, IsActive, setVars, fdVars
<1>2. /\ cancelingTimers_ \subseteq cancelingTimers_' /\ cancelingTimers_' \subseteq cancelingTimers_ \cup {id}
      /\ callingExpiredTimers_ => id \in cancelingTimers_'
  <2>1. CASE callingExpiredTimers_
    BY <1>1, <2>1, Zenon DEF Canceling
  <2>2. CASE ~callingExpiredTimers_
    BY <1>1, <2>2, Zenon DEF Canceling
  <2> QED
    BY <2>1, <2>2, Zenon
<1>3. cancelled' \subseteq cancelled \cup {id} /\ (AddQueued(id) => cancelled' = cancelled)
  BY Zenon DEF CancelInLoop
<1>4. Ids' = Ids /\ Timers' = Timers /\ Calls' = Calls
  BY <1>1, Zenon DEF Ids, Timers, Calls
<1>5. TypesInv'
  <2>1. cancelled' \subseteq Ids /\ cancelingTimers_' \subseteq Ids /\ pending' \in Seq(Calls)
    BY <1>2, <1>3, Zenon DEF TypesInv, Rest
  <2> QED
    BY <1>1, <1>4, <2>1, Zenon DEF TypesInv
<1>6. \A b : (Active(b)' <=> Active(b)) /\ (InBatch(b)' <=> InBatch(b)) /\ IdAt(b)' = IdAt(b)
  BY <1>1, Zenon DEF Active, InBatch, IdAt
<1>7. PlacesInv'
  <2>1. (\A k \in 1 .. Len(pending) : IsAdd(k) =>
           IdAt(pending[k].id[1]) = pending[k].id /\ ~Active(pending[k].id[1]) /\ ~InBatch(pending[k].id[1]))'
    <3> SUFFICES ASSUME NEW k \in 1 .. Len(pending'), IsAdd(k)', NEW b, b = pending'[k].id[1]
                 PROVE  IdAt(b)' = pending'[k].id /\ ~Active(b)' /\ ~InBatch(b)'
      BY Zenon DEF IdAt, Active, InBatch
    <3>1. k + n \in 1 .. Len(pending) /\ pending'[k] = pending[k + n]
      BY Zenon DEF Rest
    <3>2. IsAdd(k + n)
      BY <3>1, Zenon DEF IsAdd
    <3>3. IdAt(b) = pending[k + n].id /\ ~Active(b) /\ ~InBatch(b)
      BY <3>1, <3>2, Zenon DEF PlacesInv
    <3> QED
      BY <1>6, <3>1, <3>3, Zenon
  <2>2. (\A k, l \in 1 .. Len(pending) : IsAdd(k) /\ IsAdd(l) /\ pending[k].id[1] = pending[l].id[1] => k = l)'
    <3> SUFFICES ASSUME NEW k \in 1 .. Len(pending'), NEW l \in 1 .. Len(pending'), IsAdd(k)', IsAdd(l)',
                        pending'[k].id[1] = pending'[l].id[1]
                 PROVE  k = l
      BY Zenon DEF IsAdd
    <3>1. /\ k + n \in 1 .. Len(pending) /\ pending'[k] = pending[k + n]
          /\ l + n \in 1 .. Len(pending) /\ pending'[l] = pending[l + n]
      BY Zenon DEF Rest
    <3>2. IsAdd(k + n) /\ IsAdd(l + n)
      BY <3>1, Zenon DEF IsAdd
    <3>3. k + n = l + n
      BY <3>1, <3>2, Zenon DEF PlacesInv
    <3> QED
      BY <3>3
  <2>3. (/\ \A e \in timers_ : heap[e[2]].sequence # 0 /\ heap[e[2]].expiration = e[1]
         /\ activeTimers_ = {IdAt(e[2]) : e \in timers_}
         /\ ~callingExpiredTimers_ => expired = <<>>
         /\ \A i \in 1 .. Len(expired) :
              /\ heap[expired[i][2]].sequence # 0 /\ heap[expired[i][2]].expiration = expired[i][1]
              /\ expired[i][1] <= pollNow /\ ~Active(expired[i][2])
         /\ \A i, j \in 1 .. Len(expired) : expired[i][2] = expired[j][2] => i = j)'
    BY <1>1 DEF PlacesInv, IdAt, Active
  <2> QED
    BY <2>1, <2>2, <2>3, Zenon DEF PlacesInv
<1>8. CancelInv'
  <2> SUFFICES ASSUME NEW old \in cancelled'
               PROVE  /\ old \notin activeTimers_
                      /\ \A k \in 1 .. Len(pending') : IsAdd(k)' => pending'[k].id # old
                      /\ InBatch(old[1]) /\ IdAt(old[1]) = old => old \in cancelingTimers_'
    BY <1>1, Zenon DEF CancelInv, IsAdd, InBatch, IdAt
  <2>1. CASE old \in cancelled
    <3>1. /\ old \notin activeTimers_
          /\ \A k \in 1 .. Len(pending) : IsAdd(k) => pending[k].id # old
          /\ InBatch(old[1]) /\ IdAt(old[1]) = old => old \in cancelingTimers_
      BY <2>1, Zenon DEF CancelInv
    <3>2. \A k \in 1 .. Len(pending') : IsAdd(k)' => pending'[k].id # old
      BY <3>1, Zenon DEF Rest, IsAdd
    <3> QED
      BY <1>2, <3>1, <3>2, Zenon
  <2>2. CASE old = id /\ ~AddQueued(id)
    <3>1. InBatch(id[1]) => callingExpiredTimers_
      BY DEF InBatch, PlacesInv
    <3>2. ASSUME NEW k \in 1 .. Len(pending'), IsAdd(k)' PROVE pending'[k].id # id
      <4>1. k + n \in 1 .. Len(pending) /\ pending'[k] = pending[k + n]
        BY Zenon DEF Rest
      <4>2. pending[k + n] \in Calls /\ pending[k + n].op = "add" /\ pending[k + n] \in Range(pending)
        BY <3>2, <4>1 DEF TypesInv, IsAdd, Range
      <4>3. pending[k + n].id = id => pending[k + n] = [op |-> "add", id |-> id]
        BY <4>2, Zenon DEF Calls
      <4> QED
        BY <2>2, <4>1, <4>2, <4>3, Zenon DEF AddQueued
    <3> QED
      BY <1>2, <2>2, <3>1, <3>2, Zenon
  <2> QED
    BY <1>3, <2>1, <2>2, Zenon
<1> QED
  BY <1>1, <1>5, <1>7, <1>8, TodoFrame, ArmedFrame, FiredFrame, Zenon

\* cancel() by the loop's thread.
LEMMA cancelKeeps ==
  ASSUME TimerInv, NEW id \in known, cancel(id)
  PROVE  TimerInv'
<1>1. id \in Ids /\ CancelInLoop(id) /\ UNCHANGED <<pending, adding, known>>
  BY Zenon DEF TimerInv, TypesInv, cancel, callVars
<1>2. Rest(0)
  BY <1>1 DEF Rest, TimerInv, TypesInv
<1> QED
  BY <1>1, <1>2, CancelActive, CancelInactive, Zenon

\* The loop runs a queued call.
LEMMA RunPendingKeeps ==
  ASSUME TimerInv, RunPending
  PROVE  TimerInv'
<1> DEFINE call == Head(pending)
<1>1. pending \in Seq(Calls) /\ pending # <<>> /\ pending' = Tail(pending) /\ UNCHANGED <<adding, known>>
  BY Zenon DEF TimerInv, TypesInv, RunPending
<1>2. /\ Len(pending) \in Nat /\ call = pending[1] /\ 1 \in 1 .. Len(pending) /\ call \in Calls
  BY <1>1
<1>3. Rest(1)
  BY <1>1 DEF Rest
<1>4. CASE call.op = "cancel" /\ CancelInLoop(call.id)
  <2>1. call.id \in Ids
    BY <1>2, Zenon DEF Calls
  <2> QED
    BY <1>1, <1>3, <1>4, <2>1, CancelActive, CancelInactive, Zenon
<1>5. CASE call.op = "add" /\ AddInLoop(call.id[1], heap) /\ UNCHANGED <<now, heap, numCreated, batchVars, historyVars>>
  <2> DEFINE a == call.id[1]
  <2> DEFINE w == heap[a].expiration
  <2>1. /\ timers_' = timers_ \cup {<<w, a>>} /\ activeTimers_' = activeTimers_ \cup {<<a, heap[a].sequence>>}
        /\ timerfd' = IF earliestChanged(w) THEN TimeFromNow(w) ELSE timerfd
        /\ UNCHANGED <<now, heap, numCreated, callingExpiredTimers_, cancelingTimers_, expired, todo, pollNow, cancelled, fired>>
    BY <1>5, Zenon DEF AddInLoop, batchVars, historyVars
  <2>2. call.id \in Ids /\ a \in Addrs /\ heap[a] \in Timers
    BY <1>2, Zenon DEF Calls, Ids, TimerInv, TypesInv
  <2>3. w \in Nat
    BY <2>2, Zenon DEF Timers
  <2>4. IsAdd(1) /\ IdAt(a) = call.id /\ ~Active(a) /\ ~InBatch(a)
    BY <1>2, <1>5, Zenon DEF IsAdd, TimerInv, PlacesInv
  <2>5. heap[a].sequence # 0 /\ <<a, heap[a].sequence>> = call.id
    BY <2>2, <2>4 DEF IdAt, Ids
  <2>6. \A k \in 1 .. Len(pending') : IsAdd(k)' => pending'[k].id[1] # a
    <3> SUFFICES ASSUME NEW k \in 1 .. Len(pending'), IsAdd(k)', pending'[k].id[1] = a
                 PROVE  FALSE
      BY Zenon
    <3>1. k + 1 \in 1 .. Len(pending) /\ pending'[k] = pending[k + 1]
      BY <1>3, Zenon DEF Rest
    <3>2. IsAdd(k + 1)
      BY <3>1, Zenon DEF IsAdd
    <3>3. k + 1 = 1
      BY <1>2, <2>4, <3>1, <3>2, Zenon DEF TimerInv, PlacesInv
    <3> QED
      BY <1>2, <3>1, <3>3
  <2> HIDE DEF a, w
  <2>7. ArmedInv' /\ timerfd' \in {Disarmed} \cup Nat
    BY <2>1, <2>2, <2>3, ArmedAdd, Zenon
  <2>8. TypesInv'
    <3>1. Ids' = Ids /\ Timers' = Timers /\ Calls' = Calls
      BY <2>1, Zenon DEF Ids, Timers, Calls
    <3>2. timers_' \subseteq Entries /\ pending' \in Seq(Calls)
      BY <1>3, <2>1, <2>2, <2>3 DEF TimerInv, TypesInv, Entries, Rest
    <3> QED
      BY <1>1, <2>1, <2>7, <3>1, <3>2, Zenon DEF TimerInv, TypesInv
  <2>9. PlacesInv'
    <3>1. /\ \A b \in Addrs : b # a => heap'[b] = heap[b]
          /\ heap'[a].sequence # 0
          /\ timers_' = timers_ \cup {<<heap'[a].expiration, a>>}
          /\ activeTimers_' = activeTimers_ \cup {<<a, heap'[a].sequence>>}
      BY <2>1, <2>5, Zenon DEF w
    <3>2. Len(pending') \in Nat /\ \A k \in 1 .. Len(pending') :
            k + 1 \in 1 .. Len(pending) /\ pending'[k] = pending[k + 1] /\ (IsAdd(k)' => pending'[k].id[1] # a)
      BY <1>3, <2>6, Zenon DEF Rest
    <3> QED
      BY <2>1, <2>2, <2>4, <3>1, <3>2, PlacesAdd, Zenon
  <2>10. CancelInv'
    <3> SUFFICES ASSUME NEW old \in cancelled
                 PROVE  /\ old \notin activeTimers_'
                        /\ \A k \in 1 .. Len(pending') : IsAdd(k)' => pending'[k].id # old
                        /\ InBatch(old[1]) /\ IdAt(old[1]) = old => old \in cancelingTimers_
      BY <2>1, Zenon DEF CancelInv, IsAdd, InBatch, IdAt
    <3>1. /\ old \notin activeTimers_
          /\ \A k \in 1 .. Len(pending) : IsAdd(k) => pending[k].id # old
          /\ InBatch(old[1]) /\ IdAt(old[1]) = old => old \in cancelingTimers_
      BY Zenon DEF TimerInv, CancelInv
    <3>2. \A k \in 1 .. Len(pending') : IsAdd(k)' => pending'[k].id # old
      BY <1>3, <3>1, Zenon DEF Rest, IsAdd
    <3>3. old # call.id
      BY <1>2, <2>4, <3>1, Zenon
    <3> QED
      BY <2>1, <2>5, <3>1, <3>2, <3>3, Zenon
  <2> QED
    BY <2>1, <2>7, <2>8, <2>9, <2>10, TodoFrame, FiredFrame, Zenon DEF TimerInv
<1> QED
  BY <1>4, <1>5, Zenon DEF RunPending
------------------------------------------------------------------------------
(* The batch. *)

\* The vector that getExpired() fills: entries of the set, each address once.
LEMMA InOrderFacts ==
  ASSUME NEW D, D \subseteq Entries, NEW s \in InOrder(D), \A e, f \in D : e[2] = f[2] => e[1] = f[1]
  PROVE  /\ s \in Seq(Entries) /\ Len(s) \in Nat
         /\ \A k \in 1 .. Len(s) : s[k] \in D
         /\ \A e \in D : \E k \in 1 .. Len(s) : s[k] = e
         /\ \A k, l \in 1 .. Len(s) : s[k][2] = s[l][2] => k = l
<1>1. PICK m \in 0 .. MaxSeq : s \in [1 .. m -> D]
  BY Zenon DEF InOrder
<1>2. m \in Nat /\ s \in Seq(D) /\ Len(s) = m /\ DOMAIN s = 1 .. m
  BY <1>1, TimerAssumption
<1>3. s \in Seq(Entries) /\ \A k \in 1 .. Len(s) : s[k] \in D
  BY <1>1, <1>2
<1>4. \A e \in D : \E k \in 1 .. Len(s) : s[k] = e
  BY <1>2, Zenon DEF InOrder, Range
<1>5. \A k, l \in 1 .. Len(s) : k < l => s[k][2] # s[l][2]
  <2> SUFFICES ASSUME NEW k \in 1 .. Len(s), NEW l \in 1 .. Len(s), k < l, s[k][2] = s[l][2]
               PROVE  FALSE
    BY Zenon
  <2>1. Before(s[k], s[l])
    BY <1>2, Zenon DEF InOrder
  <2>2. s[k] \in D /\ s[l] \in D /\ s[k] \in Entries
    BY <1>3, Zenon
  <2>3. s[k][1] = s[l][1]
    BY <2>2, Zenon
  <2>4. s[k][1] \in Nat /\ s[k][2] \in Nat
    BY <2>2, TimerAssumption, Zenon DEF Entries
  <2> QED
    BY <2>1, <2>3, <2>4 DEF Before
<1>6. \A k, l \in 1 .. Len(s) : s[k][2] = s[l][2] => k = l
  BY <1>2, <1>5
<1> QED
  BY <1>2, <1>3, <1>4, <1>6, Zenon

\* getExpired() and the start of the batch.
LEMMA handleReadKeeps ==
  ASSUME TimerInv, handleRead
  PROVE  TimerInv'
<1> USE DEF TimerInv
<1> DEFINE due == {e \in timers_ : IsDue(e)}
<1>1. /\ ~callingExpiredTimers_ /\ pollNow' = now /\ timerfd' = Disarmed /\ expired' \in InOrder(due)
      /\ timers_' = timers_ \ due /\ activeTimers_' = activeTimers_ \ {IdAt(e[2]) : e \in due} /\ todo' = expired'
      /\ callingExpiredTimers_' = TRUE /\ cancelingTimers_' = {}
      /\ UNCHANGED <<now, heap, numCreated, pending, adding, known, cancelled, fired>>
  BY Zenon DEF handleRead, callVars, historyVars
<1>2. \A e, f \in timers_ : e[2] = f[2] => e = f
  <2>1. \A e \in timers_ : e = <<e[1], e[2]>> /\ heap[e[2]].expiration = e[1]
    BY DEF TypesInv, Entries, PlacesInv
  <2> QED
    BY <2>1, Zenon
<1>3. due \subseteq Entries /\ due \subseteq timers_ /\ \A e \in due : e[1] <= now
  BY Zenon DEF TypesInv, IsDue
<1> HIDE DEF due
<1>4. /\ expired' \in Seq(Entries) /\ Len(expired') \in Nat
      /\ \A k \in 1 .. Len(expired') : expired'[k] \in due
      /\ \A k, l \in 1 .. Len(expired') : expired'[k][2] = expired'[l][2] => k = l
  <2>1. \A e, f \in due : e[2] = f[2] => e[1] = f[1]
    BY <1>2, <1>3, Zenon
  <2>2. ASSUME NEW s \in InOrder(due)
        PROVE  /\ s \in Seq(Entries) /\ Len(s) \in Nat
               /\ \A k \in 1 .. Len(s) : s[k] \in due
               /\ \A k, l \in 1 .. Len(s) : s[k][2] = s[l][2] => k = l
    BY <1>3, <2>1, InOrderFacts
  <2> QED
    BY <1>1, <2>2, Zenon
<1>5. TypesInv'
  <2>1. Ids' = Ids /\ Timers' = Timers /\ Calls' = Calls
    BY <1>1, Zenon DEF Ids, Timers, Calls
  <2>2. callingExpiredTimers_' \in BOOLEAN
    BY <1>1, Zenon
  <2>3. pollNow' \in 0 .. now' /\ timerfd' \in {Disarmed} \cup Nat /\ cancelingTimers_' \subseteq Ids
    BY <1>1 DEF TypesInv
  <2> QED
    BY <1>1, <1>4, <2>1, <2>2, <2>3, Zenon DEF TypesInv
<1>6. TodoInv'
  BY <1>1, <1>4 DEF TodoInv, Ran
<1>7. \A b : (Active(b)' => Active(b)) /\ (InBatch(b)' => Active(b) /\ ~Active(b)')
  <2>1. \A b : Active(b)' => Active(b)
    BY <1>1, Zenon DEF Active
  <2>2. ASSUME NEW b, InBatch(b)' PROVE Active(b) /\ ~Active(b)'
    <3>1. PICK k \in 1 .. Len(expired') : expired'[k][2] = b
      BY <2>2, Zenon DEF InBatch
    <3>2. expired'[k] \in due /\ expired'[k] \in timers_
      BY <1>3, <1>4, Zenon
    <3> QED
      BY <1>1, <1>2, <3>1, <3>2, Zenon DEF Active
  <2> QED
    BY <2>1, <2>2, Zenon
<1>8. PlacesInv'
  <2>1. (\A e \in timers_ : heap[e[2]].sequence # 0 /\ heap[e[2]].expiration = e[1])'
    BY <1>1, Zenon DEF PlacesInv
  <2>2. (activeTimers_ = {IdAt(e[2]) : e \in timers_})'
    <3>1. \A e \in timers_, f \in due : IdAt(e[2]) = IdAt(f[2]) => e = f
      BY <1>2, <1>3, Zenon DEF IdAt
    <3>2. activeTimers_ \ {IdAt(f[2]) : f \in due} = {IdAt(e[2]) : e \in timers_ \ due}
      BY <3>1 DEF PlacesInv
    <3>3. \A b : IdAt(b)' = IdAt(b)
      BY <1>1, Zenon DEF IdAt
    <3> QED
      BY <1>1, <3>2, <3>3, Zenon
  <2>3. (\A k \in 1 .. Len(expired) :
           /\ heap[expired[k][2]].sequence # 0 /\ heap[expired[k][2]].expiration = expired[k][1]
           /\ expired[k][1] <= pollNow /\ ~Active(expired[k][2]))'
    <3> SUFFICES ASSUME NEW k \in 1 .. Len(expired'), NEW b, b = expired'[k][2]
                 PROVE  /\ heap[b].sequence # 0 /\ heap[b].expiration = expired'[k][1]
                        /\ expired'[k][1] <= now /\ ~Active(b)'
      BY <1>1, Zenon DEF Active
    <3>1. expired'[k] \in due /\ expired'[k] \in timers_
      BY <1>3, <1>4, Zenon
    <3>2. heap[b].sequence # 0 /\ heap[b].expiration = expired'[k][1] /\ expired'[k][1] <= now
      BY <1>3, <3>1, Zenon DEF PlacesInv
    <3>3. InBatch(b)'
      BY Zenon DEF InBatch
    <3> QED
      BY <1>7, <3>2, <3>3, Zenon
  <2>4. (\A k \in 1 .. Len(pending) : IsAdd(k) =>
           IdAt(pending[k].id[1]) = pending[k].id /\ ~Active(pending[k].id[1]) /\ ~InBatch(pending[k].id[1]))'
    <3> SUFFICES ASSUME NEW k \in 1 .. Len(pending), IsAdd(k), NEW b, b = pending[k].id[1]
                 PROVE  IdAt(b) = pending[k].id /\ ~Active(b)' /\ ~InBatch(b)'
      BY <1>1, Zenon DEF IdAt, Active, InBatch, IsAdd
    <3>1. IdAt(b) = pending[k].id /\ ~Active(b)
      BY Zenon DEF PlacesInv
    <3> QED
      BY <1>7, <3>1, Zenon
  <2>5. (\A k, l \in 1 .. Len(pending) : IsAdd(k) /\ IsAdd(l) /\ pending[k].id[1] = pending[l].id[1] => k = l)'
    BY <1>1, Zenon DEF PlacesInv, IsAdd
  <2>6. (/\ ~callingExpiredTimers_ => expired = <<>>
         /\ \A k, l \in 1 .. Len(expired) : expired[k][2] = expired[l][2] => k = l)'
    BY <1>1, <1>4, Zenon
  <2> QED
    BY <2>1, <2>2, <2>3, <2>4, <2>5, <2>6, Zenon DEF PlacesInv
<1>9. CancelInv'
  <2> SUFFICES ASSUME NEW old \in cancelled, NEW b, b = old[1]
               PROVE  /\ old \notin activeTimers_'
                      /\ \A k \in 1 .. Len(pending) : IsAdd(k) => pending[k].id # old
                      /\ ~(InBatch(b)' /\ IdAt(b) = old)
    BY <1>1, Zenon DEF CancelInv, IsAdd, InBatch, IdAt
  <2>1. old \notin activeTimers_ /\ \A k \in 1 .. Len(pending) : IsAdd(k) => pending[k].id # old
    BY Zenon DEF CancelInv
  <2>2. Active(b) => IdAt(b) \in activeTimers_
    BY Zenon DEF Active, PlacesInv
  <2> QED
    BY <1>1, <1>7, <2>1, <2>2, Zenon
<1>10. ArmedInv'
  BY <1>1, Zenon DEF ArmedInv
<1>11. FiredInv'
  <2>1. \A b : ~HasRun(b)
    <3>1. expired = <<>> /\ Len(expired) = 0 /\ Len(todo) \in Nat
      BY <1>1 DEF PlacesInv, TodoInv
    <3> QED
      BY <3>1, SMTT(20) DEF HasRun, Ran
  <2>2. \A b : ~HasRun(b)'
    <3>1. Ran' = 0
      BY <1>1, <1>4 DEF Ran
    <3> QED
      BY <3>1 DEF HasRun
  <2>3. FiringDiscipline' /\ fired' \subseteq [id : Ids', due : Nat, batch : 0 .. now', interval : Nat]
    BY <1>1, Zenon DEF FiredInv, FiringDiscipline, Ids
  <2>4. ASSUME NEW f \in fired, IdAt(f.id[1]) = f.id
        PROVE  heap[f.id[1]].interval = f.interval /\ f.interval > 0 /\ f.batch + f.interval <= heap[f.id[1]].expiration
    BY <2>1, <2>4, Zenon DEF FiredInv
  <2>5. (\A f \in fired : IdAt(f.id[1]) = f.id =>
          /\ heap[f.id[1]].interval = f.interval
          /\ IF HasRun(f.id[1]) THEN f.batch <= pollNow
             ELSE f.interval > 0 /\ f.batch + f.interval <= heap[f.id[1]].expiration)'
    BY <1>1, <2>2, <2>4, Zenon DEF IdAt
  <2> QED
    BY <2>3, <2>5, Zenon DEF FiredInv
<1> QED
  BY <1>5, <1>6, <1>8, <1>9, <1>10, <1>11, Zenon
\* A callback is called.
LEMMA runKeeps ==
  ASSUME TimerInv, run
  PROVE  TimerInv'
<1> USE DEF TimerInv
<1> DEFINE e == Head(todo)
<1> DEFINE a == e[2]
<1> DEFINE g == [id |-> IdAt(a), due |-> e[1], batch |-> pollNow, interval |-> heap[a].interval]
<1>1. /\ callingExpiredTimers_ /\ todo # <<>> /\ fired' = fired \cup {g} /\ todo' = Tail(todo)
      /\ UNCHANGED <<now, timerfd, heap, numCreated, timers_, activeTimers_, callingExpiredTimers_, cancelingTimers_,
                     expired, pollNow, pending, adding, known, cancelled>>
  BY Zenon DEF run, fdVars, setVars, callVars
<1>2. Ran \in Nat /\ Len(expired) \in Nat /\ todo \in Seq(Entries) /\ Ran = Len(expired) - Len(todo)
  BY DEF TodoInv, TypesInv, Ran
<1>3. /\ Len(todo) \in Nat \ {0} /\ e = todo[1] /\ todo' \in Seq(Entries) /\ Len(todo') = Len(todo) - 1
      /\ \A k \in 1 .. Len(todo') : todo'[k] = todo[k + 1]
  BY <1>1, <1>2
<1>4. Ran + 1 \in 1 .. Len(expired) /\ e = expired[Ran + 1] /\ Ran' = Ran + 1
  <2>1. e = expired[Ran + 1]
    BY <1>3 DEF TodoInv
  <2>2. Ran' = Len(expired) - Len(todo')
    BY <1>1, Zenon DEF Ran
  <2> QED
    BY <1>2, <1>3, <2>1, <2>2
<1>5. TodoInv'
  <2>1. \A k \in 1 .. Len(todo') : todo'[k] = expired[Ran + (k + 1)]
    BY <1>2, <1>3 DEF TodoInv
  <2>2. \A k \in 1 .. Len(todo') : Ran + (k + 1) = Ran' + k
    BY <1>2, <1>4
  <2> QED
    BY <1>1, <1>2, <1>3, <1>4, <2>1, <2>2 DEF TodoInv
<1>6. TypesInv'
  BY <1>1, Zenon DEF TypesInv, Ids, Timers, Calls
<1>7. /\ heap[a].sequence # 0 /\ heap[a].expiration = e[1] /\ e[1] <= pollNow
  BY <1>4, Zenon DEF PlacesInv
<1>8. a \in Addrs /\ e[1] \in Nat /\ heap[a] \in Timers /\ numCreated \in Nat /\ pollNow \in 0 .. now /\ now \in Nat /\ pollNow \in Nat
  <2>1. expired[Ran + 1] \in Entries
    BY <1>4 DEF TypesInv
  <2> QED
    BY <1>4, <2>1 DEF TypesInv, Entries
<1>9. ~HasRun(a) /\ \A b : HasRun(b)' <=> HasRun(b) \/ b = a
  <2>1. \A k \in 1 .. Ran : expired[k][2] # a
    BY <1>2, <1>4 DEF PlacesInv
  <2>2. 1 .. Ran' = 1 .. Ran \cup {Ran + 1}
    BY <1>2, <1>4
  <2> QED
    BY <1>1, <1>4, <2>1, <2>2, Zenon DEF HasRun
<1>10. /\ g.id = IdAt(a) /\ g.id[1] = a /\ g.due = e[1] /\ g.batch = pollNow /\ g.interval = heap[a].interval
       /\ g \in [id : Ids, due : Nat, batch : 0 .. now, interval : Nat]
  <2>1. IdAt(a) \in Ids /\ heap[a].interval \in Nat
    <3>1. heap[a].sequence \in 0 .. numCreated /\ heap[a].interval \in Intervals \cup {0}
      BY <1>8, Zenon DEF Timers
    <3>2. heap[a].interval \in Nat
      <4>1. Intervals \cup {0} \subseteq Nat
        BY TimerAssumption
      <4> QED
        BY <3>1, <4>1, Zenon
    <3>3. heap[a].sequence \in 1 .. numCreated
      <4>1. PICK n \in 0 .. numCreated : n = heap[a].sequence
        BY <3>1, Zenon
      <4>2. n \in 1 .. numCreated
        BY <1>7, <4>1
      <4> QED
        BY <4>1, <4>2, Zenon
    <3> QED
      BY <1>8, <3>2, <3>3, Zenon DEF IdAt, Ids
  <2>2. g.id = IdAt(a) /\ g.due = e[1] /\ g.batch = pollNow /\ g.interval = heap[a].interval
    BY Zenon
  <2>3. g \in [id : Ids, due : Nat, batch : 0 .. now, interval : Nat]
    BY <1>8, <2>1, Zenon
  <2>4. IdAt(a)[1] = a
    BY Zenon DEF IdAt
  <2> HIDE DEF g
  <2> QED
    BY <2>2, <2>3, <2>4, Zenon
<1>11. ASSUME NEW f \in fired, f.id = IdAt(a)
       PROVE  f.interval = heap[a].interval /\ f.interval > 0 /\ f.batch + f.interval <= pollNow /\ f.batch <= pollNow
  <2>1. f.id[1] = a /\ IdAt(f.id[1]) = f.id
    BY <1>11 DEF IdAt
  <2>2. f.interval = heap[a].interval /\ f.interval > 0 /\ f.batch + f.interval <= heap[a].expiration
    BY <1>9, <2>1, Zenon DEF FiredInv
  <2>3. f.batch \in Nat /\ f.interval \in Nat
    BY <1>8 DEF FiredInv
  <2> QED
    BY <1>7, <1>8, <2>2, <2>3
<1> HIDE DEF g, a, e
<1>12. FiringDiscipline'
  <2>1. ASSUME NEW f \in fired' PROVE f.due <= f.batch
    BY <1>1, <1>7, <1>10, Zenon DEF FiredInv, FiringDiscipline
  <2>2. ASSUME NEW f \in fired', NEW h \in fired', f # h, f.id = h.id
        PROVE  f.interval > 0 /\ (f.batch + f.interval <= h.batch \/ h.batch + f.interval <= f.batch)
    <3>1. CASE f \in fired /\ h \in fired
      BY <2>2, <3>1, Zenon DEF FiredInv, FiringDiscipline
    <3>2. CASE f \in fired /\ h = g
      <4>1. f.id = IdAt(a)
        BY <1>10, <2>2, <3>2, Zenon
      <4>2. f.interval > 0 /\ f.batch + f.interval <= pollNow
        BY <1>11, <3>2, <4>1, Zenon
      <4> QED
        BY <1>10, <3>2, <4>2, Zenon
    <3>3. CASE f = g /\ h \in fired
      <4>1. h.id = IdAt(a)
        BY <1>10, <2>2, <3>3, Zenon
      <4>2. h.interval = heap[a].interval /\ h.interval > 0 /\ h.batch + h.interval <= pollNow
        BY <1>11, <3>3, <4>1, Zenon
      <4> QED
        BY <1>10, <3>3, <4>2, Zenon
    <3> QED
      BY <1>1, <2>2, <3>1, <3>2, <3>3, Zenon
  <2> QED
    BY <2>1, <2>2, Zenon DEF FiringDiscipline
<1>13. ASSUME NEW f \in fired', NEW b, b = f.id[1], IdAt(b) = f.id
       PROVE  /\ heap[b].interval = f.interval
              /\ IF HasRun(b)' THEN f.batch <= pollNow
                 ELSE f.interval > 0 /\ f.batch + f.interval <= heap[b].expiration
  <2>1. CASE f = g
    BY <1>8, <1>9, <1>10, <1>13, <2>1
  <2>2. CASE f \in fired /\ b = a
    BY <1>9, <1>11, <1>13, <2>2, Zenon
  <2>3. CASE f \in fired /\ b # a
    <3>1. /\ heap[b].interval = f.interval
          /\ IF HasRun(b) THEN f.batch <= pollNow
             ELSE f.interval > 0 /\ f.batch + f.interval <= heap[b].expiration
      BY <1>13, <2>3, Zenon DEF FiredInv
    <3> QED
      BY <1>9, <2>3, <3>1, Zenon
  <2> QED
    BY <1>1, <2>1, <2>2, <2>3, Zenon
<1>14. FiredInv'
  <2>1. fired' \subseteq [id : Ids', due : Nat, batch : 0 .. now', interval : Nat]
    BY <1>1, <1>10, Zenon DEF FiredInv, Ids
  <2>2. (\A f \in fired : IdAt(f.id[1]) = f.id =>
          /\ heap[f.id[1]].interval = f.interval
          /\ IF HasRun(f.id[1]) THEN f.batch <= pollNow
             ELSE f.interval > 0 /\ f.batch + f.interval <= heap[f.id[1]].expiration)'
    BY <1>1, <1>13, Zenon DEF IdAt
  <2> QED
    BY <1>12, <2>1, <2>2, Zenon DEF FiredInv
<1> QED
  BY <1>1, <1>5, <1>6, <1>14, PlacesFrame, CancelFrame, ArmedFrame, Zenon
\* A set of timers that is not empty has an earliest one.
LEMMA EarliestIs ==
  ASSUME NEW ts, ts \subseteq Entries, ts # {}
  PROVE  Earliest(ts) \in ts /\ \A f \in ts : Earliest(ts)[1] <= f[1]
<1> DEFINE T == {f[1] : f \in ts}
<1> DEFINE R == {ss \in Nat \X Nat : ss[1] < ss[2]}
<1>1. T \subseteq Nat /\ T # {}
  BY Zenon DEF Entries
<1>2. IsWellFoundedOn(R, Nat)
  BY NatLessThanWellFounded, Zenon DEF OpToRel
<1>3. PICK x \in T : \A y \in T : ~(<<y, x>> \in R)
  <2> HIDE DEF T, R
  <2> QED
    BY <1>1, <1>2, WFMin, Zenon
<1>4. \A y \in T : x <= y
  <2> SUFFICES ASSUME NEW y \in T PROVE x <= y
    BY Zenon
  <2>1. x \in Nat /\ y \in Nat
    BY <1>1, <1>3, Zenon
  <2>2. ~(<<y, x>> \in R)
    BY <1>3, Zenon
  <2>3. y < x => <<y, x>> \in R
    BY <2>1, Zenon
  <2> QED
    BY <2>1, <2>2, <2>3
<1>5. PICK e \in ts : e[1] = x
  BY <1>3, Zenon
<1>6. \A f \in ts : e[1] <= f[1]
  BY <1>4, <1>5, Zenon
<1> QED
  BY <1>5, <1>6, Zenon DEF Earliest
\* The end of the batch.
LEMMA resetKeeps ==
  ASSUME TimerInv, reset
  PROVE  TimerInv'
<1> USE DEF TimerInv
<1> DEFINE batch == {e[2] : e \in Range(expired)}
<1> DEFINE again == {a \in batch : Restarts(a)}
<1> DEFINE added == {<<Restarted(a).expiration, a>> : a \in again}
<1>1. /\ callingExpiredTimers_ /\ todo = <<>> /\ callingExpiredTimers_' = FALSE
      /\ heap' = [a \in Addrs |-> IF a \in again THEN Restarted(a) ELSE IF a \in batch THEN Free ELSE heap[a]]
      /\ timers_' = timers_ \cup added /\ activeTimers_' = activeTimers_ \cup {IdAt(a) : a \in again}
      /\ timerfd' = IF timers_' = {} THEN timerfd ELSE TimeFromNow(Earliest(timers_')[1])
      /\ expired' = <<>>
      /\ UNCHANGED <<now, numCreated, cancelingTimers_, todo, pollNow, pending, adding, known, cancelled, fired>>
  BY Zenon DEF reset, callVars, historyVars
<1>2. /\ expired \in Seq(Entries) /\ Len(expired) \in Nat /\ DOMAIN expired = 1 .. Len(expired)
      /\ \A k \in 1 .. Len(expired) : expired[k] \in Entries
  BY DEF TypesInv
<1>3. \A b : b \in batch <=> InBatch(b)
  BY <1>2, Zenon DEF Range, InBatch
<1> HIDE DEF batch
<1>4. \A b \in batch : b \in Addrs /\ heap[b].sequence # 0 /\ ~Active(b)
  <2> SUFFICES ASSUME NEW b \in batch PROVE b \in Addrs /\ heap[b].sequence # 0 /\ ~Active(b)
    BY Zenon
  <2>1. PICK k \in 1 .. Len(expired) : expired[k][2] = b
    BY <1>3, Zenon DEF InBatch
  <2> QED
    BY <1>2, <2>1, Zenon DEF PlacesInv, Entries
<1>5. numCreated \in Nat /\ pollNow \in Nat /\ now \in Nat /\ heap \in [Addrs -> Timers] /\ Free \in Timers
  BY DEF TypesInv, Free, Timers
<1>6. \A b \in Addrs : heap[b].interval \in Nat /\ heap[b].interval \in Intervals \cup {0} /\ heap[b].expiration \in Nat
                       /\ heap[b].sequence \in 0 .. numCreated
  <2>1. \A b \in Addrs : heap[b] \in Timers
    BY <1>5, Zenon
  <2>2. \A b \in Addrs : heap[b].interval \in Intervals \cup {0} /\ heap[b].expiration \in Nat /\ heap[b].sequence \in 0 .. numCreated
    BY <2>1, Zenon DEF Timers
  <2>3. Intervals \cup {0} \subseteq Nat
    BY TimerAssumption
  <2> QED
    BY <2>2, <2>3, Zenon
<1>7. \A a \in again : /\ a \in batch /\ a \in Addrs /\ heap[a].interval > 0 /\ IdAt(a) \notin cancelingTimers_
                       /\ Restarted(a).sequence = heap[a].sequence /\ Restarted(a).interval = heap[a].interval
                       /\ Restarted(a).expiration = pollNow + heap[a].interval /\ Restarted(a) \in Timers
  <2> SUFFICES ASSUME NEW a \in again
               PROVE  /\ a \in batch /\ a \in Addrs /\ heap[a].interval > 0 /\ IdAt(a) \notin cancelingTimers_
                      /\ Restarted(a).sequence = heap[a].sequence /\ Restarted(a).interval = heap[a].interval
                      /\ Restarted(a).expiration = pollNow + heap[a].interval /\ Restarted(a) \in Timers
    BY Zenon
  <2>1. a \in batch /\ a \in Addrs /\ heap[a].interval > 0 /\ IdAt(a) \notin cancelingTimers_
    BY <1>4, Zenon DEF Restarts, repeat
  <2>2. heap[a] \in Timers /\ heap[a].interval \in Nat /\ pollNow + heap[a].interval \in Nat
    BY <1>5, <1>6, <2>1
  <2>3. /\ Restarted(a).sequence = heap[a].sequence /\ Restarted(a).interval = heap[a].interval
        /\ Restarted(a).expiration = pollNow + heap[a].interval /\ Restarted(a) \in Timers
    BY <2>2, Zenon DEF Restarted, Timers
  <2> QED
    BY <2>1, <2>3, Zenon
<1> HIDE DEF again
<1>8. /\ \A a \in again : heap'[a] = Restarted(a)
      /\ \A b \in Addrs : b \in batch /\ b \notin again => heap'[b] = Free /\ heap'[b].sequence = 0
      /\ \A b \in Addrs : b \notin batch => heap'[b] = heap[b]
      /\ heap' \in [Addrs -> Timers]
  <2>1. /\ \A a \in again : heap'[a] = Restarted(a)
        /\ \A b \in Addrs : b \in batch /\ b \notin again => heap'[b] = Free
        /\ \A b \in Addrs : b \notin batch => heap'[b] = heap[b]
    BY <1>1, <1>7, Zenon
  <2>2. \A b \in Addrs : heap'[b] \in Timers
    BY <1>5, <1>7, <2>1, Zenon
  <2>3. heap' \in [Addrs -> Timers]
    BY <1>1, <2>2, Zenon
  <2> QED
    BY <2>1, <2>3 DEF Free
<1>9. \A e \in added : e[2] \in again /\ e[1] = pollNow + heap[e[2]].interval /\ e \in Entries
  <2> SUFFICES ASSUME NEW a \in again, NEW e, e = <<Restarted(a).expiration, a>>
               PROVE  e[2] \in again /\ e[1] = pollNow + heap[e[2]].interval /\ e \in Entries
    BY Zenon
  <2>1. a \in Addrs /\ Restarted(a).expiration = pollNow + heap[a].interval /\ heap[a].interval \in Nat
    BY <1>6, <1>7, Zenon
  <2> QED
    BY <1>5, <2>1 DEF Entries
<1>10. \A a \in again : \E e \in added : e[2] = a
  <2> TAKE a \in again
  <2>1. <<Restarted(a).expiration, a>> \in added
    BY Zenon
  <2> QED
    BY <2>1, Zenon
<1> HIDE DEF added
<1>11. \A e \in timers_ : e[2] \in Addrs /\ e[2] \notin batch
  BY <1>4, Zenon DEF TypesInv, Entries, Active
<1>12. \A b : (Active(b)' <=> Active(b) \/ b \in again) /\ ~InBatch(b)'
  <2>1. \A b : Active(b)' <=> Active(b) \/ b \in again
    BY <1>1, <1>9, <1>10, Zenon DEF Active
  <2>2. Len(expired') = 0
    BY <1>1, Zenon
  <2> QED
    BY <2>1, <2>2 DEF InBatch
<1>13. /\ \A a \in again : IdAt(a)' = IdAt(a)
       /\ \A b \in Addrs : b \notin batch => IdAt(b)' = IdAt(b)
  BY <1>7, <1>8, Zenon DEF IdAt
<1>14. timers_' \subseteq Entries
  BY <1>1, <1>9, Zenon DEF TypesInv
<1>15. timers_' # {} => timerfd' \in Nat /\ \A e \in timers_' : timerfd' <= now + 1 \/ timerfd' <= e[1]
  <2> SUFFICES ASSUME timers_' # {}
               PROVE  timerfd' \in Nat /\ \A e \in timers_' : timerfd' <= now + 1 \/ timerfd' <= e[1]
    BY Zenon
  <2> DEFINE w == Earliest(timers_')[1]
  <2>1. Earliest(timers_') \in timers_' /\ \A e \in timers_' : w <= e[1]
    BY <1>14, EarliestIs, Zenon
  <2>2. w \in Nat
    BY <1>14, <2>1, Zenon DEF Entries
  <2>3. timerfd' = TimeFromNow(w)
    BY <1>1, Zenon
  <2> HIDE DEF w
  <2>4. timerfd' = now + 1 \/ timerfd' = w
    BY <2>3, Zenon DEF TimeFromNow
  <2> QED
    BY <1>5, <2>1, <2>2, <2>4
<1>16. TypesInv'
  <2>1. Ids' = Ids /\ Timers' = Timers /\ Calls' = Calls
    BY <1>1, Zenon DEF Ids, Timers, Calls
  <2>2. callingExpiredTimers_' \in BOOLEAN
    BY <1>1, Zenon
  <2>3. timerfd' \in {Disarmed} \cup Nat
    BY <1>1, <1>15, Zenon DEF TypesInv
  <2>4. \A b \in Addrs : heap'[b].sequence = 0 => heap'[b] = Free
    <3> SUFFICES ASSUME NEW b \in Addrs, heap'[b].sequence = 0 PROVE heap'[b] = Free
      BY Zenon
    <3>1. b \notin again
      BY <1>4, <1>7, <1>8, Zenon
    <3> QED
      BY <1>8, <3>1, Zenon DEF TypesInv
  <2>5. expired' \in Seq(Entries)
    BY <1>1
  <2> QED
    BY <1>1, <1>8, <1>14, <2>1, <2>2, <2>3, <2>4, <2>5, Zenon DEF TypesInv
<1>17. TodoInv'
  BY <1>1, SMTT(20) DEF TodoInv, Ran
<1>18. PlacesInv'
  <2>1. (\A e \in timers_ : heap[e[2]].sequence # 0 /\ heap[e[2]].expiration = e[1])'
    <3> SUFFICES ASSUME NEW e \in timers_' PROVE heap'[e[2]].sequence # 0 /\ heap'[e[2]].expiration = e[1]
      BY Zenon
    <3>1. CASE e \in timers_
      BY <1>8, <1>11, <3>1, Zenon DEF PlacesInv
    <3>2. CASE e \in added
      BY <1>4, <1>7, <1>8, <1>9, <3>2
    <3> QED
      BY <1>1, <3>1, <3>2, Zenon
  <2>2. (activeTimers_ = {IdAt(e[2]) : e \in timers_})'
    <3>1. \A e \in timers_ : IdAt(e[2])' = IdAt(e[2])
      BY <1>11, <1>13, Zenon
    <3>2. \A e \in added : e[2] \in again /\ IdAt(e[2])' = IdAt(e[2])
      BY <1>9, <1>13, Zenon
    <3>3. \A x : x \in activeTimers_' => \E e \in timers_' : x = IdAt(e[2])'
      <4> SUFFICES ASSUME NEW x \in activeTimers_' PROVE \E e \in timers_' : x = IdAt(e[2])'
        BY Zenon
      <4>1. CASE x \in activeTimers_
        <5>1. PICK e \in timers_ : x = IdAt(e[2])
          BY <4>1, Zenon DEF PlacesInv
        <5> QED
          BY <1>1, <3>1, <5>1, Zenon
      <4>2. CASE x \in {IdAt(a) : a \in again}
        <5>1. PICK a \in again : x = IdAt(a)
          BY <4>2, Zenon
        <5>2. PICK e \in added : e[2] = a
          BY <1>10, Zenon
        <5> QED
          BY <1>1, <3>2, <5>1, <5>2, Zenon
      <4> QED
        BY <1>1, <4>1, <4>2, Zenon
    <3>4. \A e \in timers_' : IdAt(e[2])' \in activeTimers_'
      BY <1>1, <3>1, <3>2, Zenon DEF PlacesInv
    <3> QED
      BY <3>3, <3>4, Zenon
  <2>3. Len(expired') = 0 /\ expired' = <<>>
    BY <1>1, Zenon
  <2>4. (\A k \in 1 .. Len(pending) : IsAdd(k) =>
           IdAt(pending[k].id[1]) = pending[k].id /\ ~Active(pending[k].id[1]) /\ ~InBatch(pending[k].id[1]))'
    <3> SUFFICES ASSUME NEW k \in 1 .. Len(pending), IsAdd(k), NEW b, b = pending[k].id[1]
                 PROVE  IdAt(b)' = pending[k].id /\ ~Active(b)' /\ ~InBatch(b)'
      <4>1. pending' = pending
        BY <1>1, Zenon
      <4> QED
        BY <4>1 DEF IdAt, Active, InBatch, IsAdd
    <3>1. IdAt(b) = pending[k].id /\ ~Active(b) /\ ~InBatch(b)
      BY Zenon DEF PlacesInv
    <3>2. pending[k] \in Calls
      BY DEF TypesInv
    <3>3. b \in Addrs /\ b \notin batch /\ b \notin again
      BY <1>3, <1>7, <3>1, <3>2, Zenon DEF Calls, Ids
    <3> QED
      BY <1>12, <1>13, <3>1, <3>3, Zenon
  <2>5. (\A k, l \in 1 .. Len(pending) : IsAdd(k) /\ IsAdd(l) /\ pending[k].id[1] = pending[l].id[1] => k = l)'
    BY <1>1, Zenon DEF PlacesInv, IsAdd
  <2> QED
    BY <2>1, <2>2, <2>3, <2>4, <2>5 DEF PlacesInv
<1>19. CancelInv'
  <2> SUFFICES ASSUME NEW old \in cancelled
               PROVE  /\ old \notin activeTimers_'
                      /\ \A k \in 1 .. Len(pending) : IsAdd(k) => pending[k].id # old
                      /\ ~InBatch(old[1])'
    BY <1>1, Zenon DEF CancelInv, IsAdd, InBatch
  <2>1. /\ old \notin activeTimers_
        /\ \A k \in 1 .. Len(pending) : IsAdd(k) => pending[k].id # old
        /\ InBatch(old[1]) /\ IdAt(old[1]) = old => old \in cancelingTimers_
    BY Zenon DEF CancelInv
  <2>2. \A a \in again : IdAt(a) # old
    <3> SUFFICES ASSUME NEW a \in again, IdAt(a) = old PROVE FALSE
      BY Zenon
    <3>1. old[1] = a /\ InBatch(a)
      BY <1>3, <1>7, Zenon DEF IdAt
    <3> QED
      BY <1>7, <2>1, <3>1, Zenon
  <2>3. Len(expired') = 0
    BY <1>1, Zenon
  <2> QED
    BY <1>1, <2>1, <2>2, <2>3 DEF InBatch
<1>20. ArmedInv'
  <2> SUFFICES ASSUME NEW e \in timers_'
               PROVE  timerfd' # Disarmed /\ (timerfd' <= now' + 1 \/ timerfd' <= e[1])
    BY Zenon DEF ArmedInv
  <2>1. timerfd' \in Nat /\ (timerfd' <= now + 1 \/ timerfd' <= e[1]) /\ now' = now
    BY <1>1, <1>15, Zenon
  <2>2. timerfd' # Disarmed
    BY <2>1 DEF Disarmed
  <2> QED
    BY <2>1, <2>2, Zenon
<1>21. FiredInv'
  <2>1. \A b : HasRun(b) <=> b \in batch
    <3>1. Ran = Len(expired)
      BY <1>1, <1>2 DEF Ran
    <3> QED
      BY <1>3, <3>1, Zenon DEF HasRun, InBatch
  <2>2. \A b : ~HasRun(b)'
    <3>1. Ran' = 0
      BY <1>1 DEF Ran
    <3> QED
      BY <3>1 DEF HasRun
  <2>3. FiringDiscipline' /\ fired' \subseteq [id : Ids', due : Nat, batch : 0 .. now', interval : Nat]
    BY <1>1, Zenon DEF FiredInv, FiringDiscipline, Ids
  <2>4. ASSUME NEW f \in fired, NEW b, b = f.id[1], IdAt(b)' = f.id
        PROVE  heap'[b].interval = f.interval /\ f.interval > 0 /\ f.batch + f.interval <= heap'[b].expiration
    <3>1. f.id \in Ids /\ b \in Addrs /\ f.batch \in Nat /\ f.interval \in Nat /\ f.id[2] # 0
      BY <1>5, <2>4 DEF FiredInv, Ids
    <3>2. CASE b \in again
      <4>1. IdAt(b) = f.id /\ HasRun(b)
        BY <1>7, <1>13, <2>1, <2>4, <3>2, Zenon
      <4>2. heap[b].interval = f.interval /\ f.batch <= pollNow
        BY <2>4, <4>1, Zenon DEF FiredInv
      <4>3. heap'[b].interval = heap[b].interval /\ heap[b].interval > 0 /\ heap'[b].expiration = pollNow + heap[b].interval
        BY <1>7, <1>8, <3>2, Zenon
      <4> QED
        BY <1>5, <3>1, <4>2, <4>3
    <3>3. CASE b \in batch /\ b \notin again
      BY <1>8, <2>4, <3>1, <3>3 DEF IdAt
    <3>4. CASE b \notin batch
      <4>1. heap'[b] = heap[b] /\ IdAt(b) = f.id /\ ~HasRun(b)
        BY <1>8, <1>13, <2>1, <2>4, <3>1, <3>4, Zenon
      <4> QED
        BY <2>4, <4>1, Zenon DEF FiredInv
    <3> QED
      BY <3>2, <3>3, <3>4, Zenon
  <2>5. (\A f \in fired : IdAt(f.id[1]) = f.id =>
          /\ heap[f.id[1]].interval = f.interval
          /\ IF HasRun(f.id[1]) THEN f.batch <= pollNow
             ELSE f.interval > 0 /\ f.batch + f.interval <= heap[f.id[1]].expiration)'
    BY <1>1, <2>2, <2>4, Zenon DEF IdAt
  <2> QED
    BY <2>3, <2>5, Zenon DEF FiredInv
<1> QED
  BY <1>16, <1>17, <1>18, <1>19, <1>20, <1>21, Zenon
------------------------------------------------------------------------------
(* The theorems. *)

\* Every step of the loop, of its callbacks and of other threads keeps the invariant.
LEMMA TimerInvNext == TimerInv /\ [Next]_vars => TimerInv'
<1> SUFFICES ASSUME TimerInv, [Next]_vars PROVE TimerInv'
  BY Zenon
<1>1. CASE UNCHANGED vars
  <2>1. UNCHANGED <<now, timerfd, heap, numCreated, timers_, activeTimers_, callingExpiredTimers_, cancelingTimers_,
                    expired, todo, pollNow, pending, adding, known, cancelled, fired>>
    BY <1>1, Zenon DEF vars, fdVars, setVars, batchVars, callVars, historyVars
  <2>2. TypesInv'
    BY <2>1, Zenon DEF TimerInv, TypesInv, Ids, Timers, Calls
  <2> QED
    BY <2>1, <2>2, TodoFrame, PlacesFrame, CancelFrame, ArmedFrame, FiredFrame, Zenon DEF TimerInv
<1>2. CASE Next
  <2>1. CASE Tick
    BY <2>1, TickKeeps, Zenon
  <2>2. CASE RunPending
    BY <2>2, RunPendingKeeps, Zenon
  <2>3. CASE handleRead
    BY <2>3, handleReadKeeps, Zenon
  <2>4. CASE run
    BY <2>4, runKeeps, Zenon
  <2>5. CASE reset
    BY <2>5, resetKeeps, Zenon
  <2>6. ASSUME NEW id \in known, cancel(id) PROVE TimerInv'
    BY <2>6, cancelKeeps, Zenon
  <2>7. ASSUME NEW id \in known, NEW th \in Threads, cancelBegin(th, id) PROVE TimerInv'
    BY <2>7, cancelBeginKeeps, Zenon
  <2>8. ASSUME NEW th \in Threads, addTimerReturn(th) PROVE TimerInv'
    BY <2>8, addTimerReturnKeeps, Zenon
  <2>9. ASSUME NEW a \in Addrs, NEW d \in Delays, NEW i \in Intervals, addTimer(a, d, i) PROVE TimerInv'
    BY <2>9, addTimerKeeps, Zenon
  <2>10. ASSUME NEW a \in Addrs, NEW d \in Delays, NEW i \in Intervals, NEW th \in Threads, addTimerBegin(th, a, d, i)
         PROVE  TimerInv'
    BY <2>10, addTimerBeginKeeps, Zenon
  <2> QED
    BY <1>2, <2>1, <2>2, <2>3, <2>4, <2>5, <2>6, <2>7, <2>8, <2>9, <2>10, Zenon DEF Next
<1> QED
  BY <1>1, <1>2, Zenon

\* The invariant always holds.
LEMMA TimerInvHolds == Spec => []TimerInv
BY TimerInvInit, TimerInvNext, PTL DEF Spec

\* todo as the code has it: the end of the vector.
LEMMA TodoIsSuffix == TimerInv => Len(todo) <= Len(expired) /\ todo = SubSeq(expired, Len(expired) - Len(todo) + 1, Len(expired))
<1> SUFFICES ASSUME TimerInv PROVE Len(todo) <= Len(expired) /\ todo = SubSeq(expired, Len(expired) - Len(todo) + 1, Len(expired))
  BY Zenon
<1>1. /\ todo \in Seq(Entries) /\ expired \in Seq(Entries) /\ Len(todo) \in Nat /\ Len(expired) \in Nat
      /\ Ran \in Nat /\ Ran = Len(expired) - Len(todo)
      /\ \A i \in 1 .. Len(todo) : todo[i] = expired[Ran + i]
  BY DEF TimerInv, TypesInv, TodoInv, Ran
<1> DEFINE rest == SubSeq(expired, Ran + 1, Len(expired))
<1>2. rest \in Seq(Entries) /\ Len(rest) = Len(todo)
  BY <1>1
<1>3. \A i \in 1 .. Len(todo) : rest[i] = expired[Ran + i]
  BY <1>1, <1>2
<1> HIDE DEF rest
<1>4. todo = rest
  BY <1>1, <1>2, <1>3
<1>5. Len(todo) <= Len(expired) /\ Len(expired) - Len(todo) + 1 = Ran + 1
  BY <1>1
<1> QED
  BY <1>4, <1>5, Zenon DEF rest

\* Whatever threads and callbacks add and cancel, timers_ and activeTimers_ hold the same
\* timers, each under its expiration, and no timer of the batch is in them or deleted (the
\* assertions of TimerQueue.cc).
THEOREM SetsAlwaysAgree == Spec => []SetsAgree
<1>1. TimerInv => SetsAgree
  <2> SUFFICES ASSUME TimerInv PROVE SetsAgree
    BY Zenon
  <2>1. /\ numCreated \in 0 .. MaxSeq /\ MaxSeq \in Nat /\ heap \in [Addrs -> Timers] /\ timers_ \subseteq Entries
        /\ cancelingTimers_ \subseteq Ids /\ expired \in Seq(Entries)
    BY TimerAssumption, Zenon DEF TimerInv, TypesInv
  <2>2. 1 .. numCreated \subseteq 1 .. MaxSeq /\ 0 .. numCreated \subseteq 0 .. MaxSeq
    BY <2>1
  <2>3. \A a \in Addrs : heap[a].sequence \in 0 .. MaxSeq /\ heap[a].interval \in Intervals \cup {0}
    <3>1. \A a \in Addrs : heap[a].sequence \in 0 .. numCreated /\ heap[a].interval \in Intervals \cup {0}
      BY <2>1, Zenon DEF Timers
    <3> QED
      BY <2>2, <3>1, Zenon
  <2>4. \A e \in timers_ : e[2] \in Addrs /\ heap[e[2]].sequence \in 1 .. numCreated /\ heap[e[2]].expiration = e[1]
    <3>1. \A e \in timers_ : e[2] \in Addrs /\ heap[e[2]].sequence # 0 /\ heap[e[2]].expiration = e[1]
      BY <2>1, Zenon DEF TimerInv, PlacesInv, Entries
    <3>2. \A e \in timers_ : heap[e[2]].sequence \in 0 .. numCreated
      BY <2>1, <3>1, Zenon DEF Timers
    <3> QED
      BY <2>1, <3>1, <3>2
  <2>5. activeTimers_ = {IdAt(e[2]) : e \in timers_}
    BY Zenon DEF TimerInv, PlacesInv
  <2>6. activeTimers_ \subseteq Addrs \X (1 .. MaxSeq) /\ cancelingTimers_ \subseteq Addrs \X (1 .. MaxSeq)
    <3>1. \A e \in timers_ : IdAt(e[2]) \in Addrs \X (1 .. MaxSeq)
      BY <2>2, <2>4, Zenon DEF IdAt
    <3> QED
      BY <2>1, <2>2, <2>5, <3>1, Zenon DEF Ids
  <2>7. TypeOK
    <3>1. callingExpiredTimers_ \in BOOLEAN /\ now \in 1 .. MaxTime /\ timerfd \in {Disarmed} \cup Nat /\ numCreated \in 0 .. MaxSeq
      BY Zenon DEF TimerInv, TypesInv
    <3>2. timers_ \subseteq Nat \X Addrs
      BY <2>1, Zenon DEF Entries
    <3> QED
      BY <2>3, <2>6, <3>1, <3>2, TodoIsSuffix, Zenon DEF TypeOK
  <2>8. \A e \in timers_ : Allocated(e[2]) /\ heap[e[2]].expiration = e[1]
    BY <2>1, <2>4 DEF Allocated, Free
  <2>9. ASSUME NEW e \in Range(expired) PROVE Allocated(e[2]) /\ IdAt(e[2]) \notin activeTimers_
    <3>1. PICK k \in 1 .. Len(expired) : e = expired[k]
      BY <2>1, <2>9 DEF Range
    <3>2. heap[e[2]].sequence # 0 /\ ~Active(e[2])
      BY <3>1, Zenon DEF TimerInv, PlacesInv
    <3>3. IdAt(e[2]) \notin activeTimers_
      BY <2>5, <3>2, Zenon DEF IdAt, Active
    <3> QED
      BY <3>2, <3>3 DEF Allocated, Free
  <2> QED
    BY <2>5, <2>7, <2>8, <2>9, Zenon DEF SetsAgree
<1> QED
  BY <1>1, TimerInvHolds, PTL

\* Outside of a batch the timerfd is set no later than the earliest timer, or one unit
\* from now: no timer is forgotten, whatever was added and cancelled meanwhile.
THEOREM TimerfdAlwaysArmed == Spec => []TimerfdArmed
<1>1. TimerInv => TimerfdArmed
  <2> SUFFICES ASSUME TimerInv, ~callingExpiredTimers_, timers_ # {}
               PROVE  timerfd # Disarmed /\ (timerfd <= now + 1 \/ timerfd <= Earliest(timers_)[1])
    BY Zenon DEF TimerfdArmed
  <2>1. Earliest(timers_) \in timers_
    BY EarliestIs, Zenon DEF TimerInv, TypesInv
  <2> QED
    BY <2>1, Zenon DEF TimerInv, ArmedInv
<1> QED
  BY <1>1, TimerInvHolds, PTL

\* No timer is in a batch that is read before it is due, a one-shot timer is called once, and the
\* batches that call a repeating timer are at least its interval apart (TimerQueue.cc:204-222,
\* Timer.cc:17-27).
THEOREM FiringIsAlwaysDisciplined == Spec => []FiringDiscipline
<1>1. TimerInv => FiringDiscipline
  BY Zenon DEF TimerInv, FiredInv
<1> QED
  BY <1>1, TimerInvHolds, PTL
\* A step of CancelInLoop() takes a timer from the sets only when it is the one cancelled.
LEMMA CancelTakesOne ==
  ASSUME TimerInv, NEW id \in Ids, CancelInLoop(id)
  PROVE  \A x \in activeTimers_ \ activeTimers_' : x \in cancelled'
<1>1. CASE id \notin activeTimers_
  BY <1>1, Zenon DEF CancelInLoop, IsActive, setVars
<1>2. CASE id \in activeTimers_
  <2>1. PICK e \in timers_ : IdAt(e[2]) = id
    BY <1>2, Zenon DEF TimerInv, PlacesInv
  <2>2. id[1] = e[2] /\ Active(id[1])
    BY <2>1, Zenon DEF IdAt, Active
  <2>3. activeTimers_' = activeTimers_ \ {id}
    BY <1>2, <2>1, <2>2, Zenon DEF CancelInLoop, IsActive, ErasedActive
  <2>4. ~AddQueued(id)
    <3> SUFFICES ASSUME AddQueued(id) PROVE FALSE
      BY Zenon
    <3>1. PICK k \in DOMAIN pending : pending[k] = [op |-> "add", id |-> id]
      BY Zenon DEF AddQueued, Range
    <3>2. k \in 1 .. Len(pending) /\ IsAdd(k) /\ pending[k].id = id
      BY <3>1 DEF TimerInv, TypesInv, IsAdd
    <3> QED
      BY <2>2, <3>2, Zenon DEF TimerInv, PlacesInv
  <2>5. id \in cancelled'
    BY <2>4, Zenon DEF CancelInLoop
  <2> QED
    BY <2>3, <2>5, Zenon
<1> QED
  BY <1>1, <1>2, Zenon

\* Every step treats cancelled timers as cancelInLoop() and reset() promise (TimerQueue.cc:160-179, 225-254).
LEMMA CancelStepHolds == TimerInv /\ TimerInv' /\ [Next]_vars => CancelStep \/ UNCHANGED vars
<1> SUFFICES ASSUME TimerInv, TimerInv', Next PROVE CancelStep
  BY Zenon
<1>1. cancelled' \cap activeTimers_' = {}
  BY Zenon DEF TimerInv, CancelInv
<1>2. SUFFICES \A x \in activeTimers_ \ activeTimers_' : x \in cancelled' \/ \E e \in Range(expired') : IdAt(e[2]) = x
  BY <1>1, Zenon DEF CancelStep
<1>3. CASE activeTimers_ \subseteq activeTimers_'
  BY <1>3, Zenon
<1>4. ASSUME NEW id \in Ids, CancelInLoop(id)
      PROVE  \A x \in activeTimers_ \ activeTimers_' : x \in cancelled' \/ \E e \in Range(expired') : IdAt(e[2]) = x
  BY <1>4, CancelTakesOne, Zenon
<1>5. CASE Tick \/ run \/ reset
  BY <1>3, <1>5, Zenon DEF Tick, run, reset, setVars
<1>6. CASE RunPending
  <2>1. Head(pending) \in Calls
    BY <1>6 DEF TimerInv, TypesInv, RunPending
  <2>2. Head(pending).id \in Ids
    BY <2>1, Zenon DEF Calls
  <2>3. CASE AddInLoop(Head(pending).id[1], heap)
    BY <1>3, <2>3, Zenon DEF AddInLoop
  <2>4. CASE CancelInLoop(Head(pending).id)
    BY <1>4, <2>2, <2>4, Zenon
  <2> QED
    BY <1>6, <2>3, <2>4, Zenon DEF RunPending
<1>7. CASE handleRead
  <2> DEFINE due == {e \in timers_ : IsDue(e)}
  <2>1. expired' \in InOrder(due) /\ activeTimers_' = activeTimers_ \ {IdAt(e[2]) : e \in due}
    BY <1>7, Zenon DEF handleRead
  <2>2. Range(expired') = due
    BY <2>1, Zenon DEF InOrder
  <2> QED
    BY <2>1, <2>2, Zenon
<1>8. ASSUME NEW id \in known, cancel(id)
      PROVE  \A x \in activeTimers_ \ activeTimers_' : x \in cancelled' \/ \E e \in Range(expired') : IdAt(e[2]) = x
  <2>1. id \in Ids /\ CancelInLoop(id)
    BY <1>8, Zenon DEF cancel, TimerInv, TypesInv
  <2> QED
    BY <1>4, <2>1, Zenon
<1>9. CASE \E id \in known, th \in Threads : cancelBegin(th, id)
  BY <1>3, <1>9, Zenon DEF cancelBegin, setVars
<1>10. CASE \E th \in Threads : addTimerReturn(th)
  BY <1>3, <1>10, Zenon DEF addTimerReturn, setVars
<1>11. CASE \E a \in Addrs, d \in Delays, i \in Intervals : addTimer(a, d, i)
  BY <1>3, <1>11, Zenon DEF addTimer, AddInLoop
<1>12. CASE \E a \in Addrs, d \in Delays, i \in Intervals, th \in Threads : addTimerBegin(th, a, d, i)
  BY <1>3, <1>12, Zenon DEF addTimerBegin, setVars
<1> QED
  BY <1>5, <1>6, <1>7, <1>8, <1>9, <1>10, <1>11, <1>12, Zenon DEF Next

\* A cancelled timer does not come back, also when its own callback cancels it, and a
\* timer leaves the sets only because it is due or was cancelled itself: an old TimerId
\* whose address has been reused takes nothing away (cancelInLoop and reset).
THEOREM CancelIsAlwaysExact == Spec => CancelIsExact
BY TimerInvHolds, CancelStepHolds, PTL DEF Spec, CancelIsExact
=============================================================================
