--------------------------- MODULE EventLoopThread ---------------------------
(***************************************************************************)
(* muduo::net::EventLoopThread: an owner starts a thread that runs an      *)
(* EventLoop on its stack, receives a pointer to it, and in the destructor *)
(* quits the loop and joins the thread.  The loop is the one of EventLoop, *)
(* whose actions are taken here only where threadFunc() is in the place    *)
(* that performs them.  Users of the loop may quit() it before the         *)
(* destructor does.                                                        *)
(***************************************************************************)
EXTENDS EventLoop

CONSTANT Owner            \* the thread that owns the EventLoopThread object

ASSUME OwnerAssumption == Owner \in Threads

VARIABLES owner,          \* "new", in startLoop() "start" or asleep in cond_.wait() "wait",
                          \* "running", in the destructor "quit" or "join", "done", "crashed"
          thread,         \* "none", "callback", "published", "looping", "cleared", "finished"
          loop_           \* is the member loop_ set?

threadVars == <<owner, thread, loop_>>
allVars == <<vars, threadVars>>

ThreadTypeOK ==
  /\ TypeOK
  /\ owner \in {"new", "start", "wait", "running", "quit", "join", "done", "crashed"}
  /\ thread \in {"none", "callback", "published", "looping", "cleared", "finished"}
  /\ loop_ \in BOOLEAN

ThreadInit == Init /\ owner = "new" /\ thread = "none" /\ loop_ = FALSE

------------------------------------------------------------------------------
(* The owner. *)

\* startLoop() up to thread_.start(): the new thread constructs its EventLoop.
startLoop ==
  /\ owner = "new"
  /\ owner' = "start" /\ thread' = "callback"
  /\ UNCHANGED <<vars, loop_>>

\* Mutant: startLoop() waits once, without looking at loop_.
LoopReady_Assumed == TRUE

LoopReady == loop_

\* The while loop over cond_.wait(), with mutex_ held between test and wait.
AwaitLoop ==
  /\ owner = "start"
  /\ owner' = IF LoopReady THEN "running" ELSE "wait"
  /\ UNCHANGED <<vars, thread, loop_>>

\* The destructor looks at loop_ without the mutex.
DtorTest ==
  /\ owner \in {"new", "running"} /\ Owner \notin waking
  /\ owner' = IF loop_ THEN "quit" ELSE "done"
  /\ UNCHANGED <<vars, thread, loop_>>

DtorQuit ==
  /\ owner = "quit"
  /\ quit(Owner)
  /\ owner' = "join"
  /\ UNCHANGED <<thread, loop_>>

\* A user's quit() has made threadFunc() clear loop_ since the test: the destructor meets NULL, or
\* a loop that is destructed, where what happens is undefined, nothing or a crash.
DtorQuitsLate ==
  /\ owner = "quit" /\ ~loop_
  /\ owner' = "crashed" \/ (pc = "gone" /\ owner' = "join")
  /\ UNCHANGED <<vars, thread, loop_>>

Joinable == thread = "finished"

DtorJoin ==
  /\ owner = "join" /\ Owner \notin waking /\ Joinable
  /\ owner' = "done"
  /\ UNCHANGED <<vars, thread, loop_>>

------------------------------------------------------------------------------
(* threadFunc(). *)

\* Mutant: loop_ is set without notifying.
Notified_Nobody == owner

Notified == IF owner = "wait" THEN "start" ELSE owner

\* callback_ has returned: loop_ is set and the owner notified, in one critical section.
Publish ==
  /\ thread = "callback" /\ LoopThread \notin waking
  /\ thread' = "published" /\ loop_' = TRUE /\ owner' = Notified
  /\ UNCHANGED vars

EnterLoop ==
  /\ thread = "published"
  /\ LoopEnter
  /\ thread' = "looping"
  /\ UNCHANGED <<owner, loop_>>

\* Mutant: the pointer is left as it was.
Cleared_Not == loop_

Cleared == FALSE

\* loop() has returned: the pointer is cleared under the mutex.
Clear ==
  /\ thread = "looping" /\ LoopAt("idle")
  /\ thread' = "cleared" /\ loop_' = Cleared
  /\ UNCHANGED <<vars, owner>>

\* The end of threadFunc()'s scope releases the mutex and destructs the loop.
Finish ==
  /\ thread = "cleared"
  /\ Destruct
  /\ thread' = "finished"
  /\ UNCHANGED <<owner, loop_>>

------------------------------------------------------------------------------
\* Who calls into the loop: the owner and the threads it passes the pointer to, while the object
\* lives; the loop's own user code, from the init callback on.  Any of them may call quit(), and
\* none calls a loop that is destructed.
Client(th) ==
  /\ IF isInLoopThread(th) THEN thread = "callback" \/ pc \in UserCode \ {"idle"}
                           ELSE owner = "running"
  /\ quit(th) \/ \E t \in Tasks : queueInLoop(th, t) \/ runInLoop(th, t)
  /\ UNCHANGED threadVars

OwnerStep == startLoop \/ AwaitLoop \/ DtorTest \/ DtorQuit \/ DtorQuitsLate \/ DtorJoin
ThreadStep == Publish \/ EnterLoop \/ Clear \/ Finish
InLoop == LoopStep /\ UNCHANGED threadVars
InPoll == (PollIo \/ PollTimeout) /\ UNCHANGED threadVars
InWakeup(th) == wakeup(th) /\ UNCHANGED threadVars

ThreadNext ==
  \/ OwnerStep \/ ThreadStep \/ InLoop \/ InPoll
  \/ \E th \in AllThreads : InWakeup(th) \/ Client(th)

\* Both threads are scheduled; the owner may keep the object as long as it likes, so
\* only the destructor's own steps are fair.
ThreadSpec ==
  /\ ThreadInit /\ [][ThreadNext]_allVars
  /\ WF_allVars(ThreadStep) /\ WF_allVars(InLoop)
  /\ WF_allVars(AwaitLoop \/ DtorQuit \/ DtorQuitsLate \/ DtorJoin)
  /\ \A th \in AllThreads : WF_allVars(InWakeup(th))

------------------------------------------------------------------------------
(* Properties. *)

\* loop_ never points to a loop that is destructed; the pointer startLoop() returned is good until
\* somebody calls quit(), so that the destructor, between its look at loop_ and its own quit(), can
\* lose the loop only to a quit() of a user; and when the destructor is done no loop is left running
\* (EventLoopThread.cc:27-37, 47-54, 68-81).
PointerIsGood ==
  /\ ThreadTypeOK
  /\ loop_ => pc # "gone"
  /\ owner \in {"running", "quit"} /\ ~quit_ => loop_
  /\ owner = "done" => thread \in {"none", "cleared", "finished"}

\* startLoop() returns, unless the loop's own code has quit it before the owner looked again; and
\* once the thread is inside loop(), the destructor's quit() ends it and the join returns, unless
\* that quit() came to a loop that a user had ended (EventLoopThread.cc:30-35, 48-52).
StartAndJoinReturn ==
  /\ owner = "start" ~> owner = "running" \/ thread \in {"cleared", "finished"}
  /\ owner = "quit" /\ looping_ ~> owner \in {"done", "crashed"}
=============================================================================
