---------------------------- MODULE AsyncLogging ----------------------------
(***************************************************************************)
(* muduo::AsyncLogging: threads append lines to a buffer under a mutex, a  *)
(* logging thread swaps the full buffers for empty ones and writes them.   *)
(* A line is its number, of length one; a buffer is the sequence of its    *)
(* lines.  A spare buffer is empty: only whether it is there counts.       *)
(***************************************************************************)
EXTENDS Integers, Sequences, FiniteSets, SequencesExt

CONSTANTS kLargeBuffer,   \* capacity of a buffer
          MaxBuffers,     \* 25: more buffers than that are too many to write
          MaxLines        \* bound: lines appended

VARIABLES currentBuffer_, nextBuffer_, buffers_, running_,
          pc,                      \* of the logging thread
          newBuffer1, newBuffer2,  \* its spare buffers
          buffersToWrite,
          file,                    \* what was written; 0 is the message that lines were dropped
          flushed,                 \* entries of file that were flushed
          dropped,                 \* lines dropped
          owner,                   \* "new", "started", "joining" or "stopped"
          lines                    \* lines appended

frontVars == <<currentBuffer_, nextBuffer_, buffers_>>
backVars == <<newBuffer1, newBuffer2, buffersToWrite>>
fileVars == <<file, flushed, dropped>>
vars == <<frontVars, backVars, fileVars, running_, pc, owner, lines>>

Line == 1 .. MaxLines

TypeOK ==
  /\ \A b \in {currentBuffer_} \union Range(buffers_) \union Range(buffersToWrite) :
       b \in Seq(Line) /\ Len(b) < kLargeBuffer
  /\ nextBuffer_ \in BOOLEAN /\ newBuffer1 \in BOOLEAN /\ newBuffer2 \in BOOLEAN
  /\ running_ \in BOOLEAN /\ pc \in {"none", "loop", "lock", "wait", "write", "flush", "done"}
  /\ file \in Seq(Line \union {0}) /\ flushed \in 0 .. Len(file) /\ dropped \subseteq Line
  /\ owner \in {"new", "started", "joining", "stopped"} /\ lines \in 0 .. MaxLines

Init ==
  /\ currentBuffer_ = <<>> /\ nextBuffer_ = TRUE /\ buffers_ = <<>>
  /\ newBuffer1 = FALSE /\ newBuffer2 = FALSE /\ buffersToWrite = <<>>
  /\ file = <<>> /\ flushed = 0 /\ dropped = {}
  /\ running_ = FALSE /\ pc = "none" /\ owner = "new" /\ lines = 0

------------------------------------------------------------------------------
(* The front end. *)

\* avail() > len
Fits == kLargeBuffer - Len(currentBuffer_) > 1

append ==
  /\ lines < MaxLines /\ lines' = lines + 1
  /\ IF Fits
     THEN currentBuffer_' = Append(currentBuffer_, lines + 1) /\ UNCHANGED <<nextBuffer_, buffers_>>
     ELSE /\ buffers_' = Append(buffers_, currentBuffer_)
          /\ currentBuffer_' = <<lines + 1>>
          /\ nextBuffer_' = FALSE
  /\ UNCHANGED <<backVars, fileVars, running_, pc, owner>>

\* start(), which returns when threadFunc() has counted latch_ down.
start ==
  /\ owner = "new" /\ owner' = "started"
  /\ running_' = TRUE /\ pc' = "loop" /\ newBuffer1' = TRUE /\ newBuffer2' = TRUE
  /\ UNCHANGED <<frontVars, buffersToWrite, fileVars, lines>>

\* stop() up to the join.
stop ==
  /\ owner = "started" /\ owner' = "joining"
  /\ running_' = FALSE
  /\ UNCHANGED <<frontVars, backVars, fileVars, pc, lines>>

stopReturns ==
  /\ owner = "joining" /\ pc = "done" /\ owner' = "stopped"
  /\ UNCHANGED <<frontVars, backVars, fileVars, running_, pc, lines>>

------------------------------------------------------------------------------
(* threadFunc() *)

GoesOn == running_

\* while (running_), and the flush after it.
Loop ==
  /\ pc = "loop"
  /\ pc' = IF GoesOn THEN "lock" ELSE "done"
  /\ flushed' = IF GoesOn THEN flushed ELSE Len(file)
  /\ UNCHANGED <<frontVars, backVars, file, dropped, running_, owner, lines>>

\* Mutant: the buffer in use is left out.
Collected_OnlyFull == buffers_

Collected == Append(buffers_, currentBuffer_)

\* Mutant: the front end is given a spare buffer that it has.
NeedsSpare_Always == TRUE

NeedsSpare == ~nextBuffer_

\* The critical section after the wait, if any.
Swap ==
  /\ buffersToWrite' = Collected /\ buffers_' = <<>>
  /\ currentBuffer_' = <<>> /\ newBuffer1' = FALSE
  /\ nextBuffer_' = TRUE /\ newBuffer2' = (newBuffer2 /\ ~NeedsSpare)
  /\ pc' = "write"

Lock ==
  /\ pc = "lock"
  /\ IF buffers_ = <<>> THEN pc' = "wait" /\ UNCHANGED <<frontVars, backVars>> ELSE Swap
  /\ UNCHANGED <<fileVars, running_, owner, lines>>

\* Mutant: the wait has no timeout.
WaitEnds_Notified == buffers_ # <<>> \/ ~running_

\* waitForSeconds() returns when it is notified, by itself, or after flushInterval_.
WaitEnds == TRUE

Wait ==
  /\ pc = "wait" /\ WaitEnds
  /\ Swap
  /\ UNCHANGED <<fileVars, running_, owner, lines>>

TooMany == Len(buffersToWrite) > MaxBuffers

\* Mutant: nothing tells that lines were dropped.
Message_None == <<>>

Message == IF TooMany THEN <<0>> ELSE <<>>

\* The buffers that are written.
Kept == IF TooMany THEN SubSeq(buffersToWrite, 1, 2) ELSE buffersToWrite

\* Buffers are dropped if there are too many, the rest is written, and two of them, emptied,
\* become the spare ones that are missing.
Write ==
  /\ pc = "write" /\ pc' = "flush"
  /\ file' = file \o Message \o FlattenSeq(Kept)
  /\ dropped' = dropped \union (ToSet(FlattenSeq(buffersToWrite)) \ ToSet(FlattenSeq(Kept)))
  /\ newBuffer1' = (Len(Kept) >= 1)
  /\ newBuffer2' = (newBuffer2 \/ Len(Kept) >= 2)
  /\ buffersToWrite' = <<>>
  /\ UNCHANGED <<frontVars, flushed, running_, owner, lines>>

Flush ==
  /\ pc = "flush" /\ pc' = "loop"
  /\ flushed' = Len(file)
  /\ UNCHANGED <<frontVars, backVars, file, dropped, running_, owner, lines>>

threadFunc == Loop \/ Lock \/ Wait \/ Write \/ Flush

Next == append \/ start \/ stop \/ stopReturns \/ threadFunc

Spec == Init /\ [][Next]_vars

\* The logging thread runs, and its wait ends after flushInterval_ at the latest.
FairSpec == Spec /\ WF_vars(threadFunc) /\ WF_vars(stopReturns)

------------------------------------------------------------------------------
(* Properties. *)

Written == SelectSeq(file, LAMBDA x : x # 0)

Gaps == {i \in 1 .. Len(Written) - 1 : Written[i + 1] # Written[i] + 1}

\* Lines are written in the order they were appended, none twice, across buffers that fill
\* up, timeouts and dropped buffers; and wherever lines are missing in the file, a message in it
\* says so (AsyncLogging.cc:114-126).
LinesInOrder ==
  /\ \A i \in 1 .. Len(Written) - 1 : Written[i] < Written[i + 1]
  /\ Cardinality(Gaps) <= Len(SelectSeq(file, LAMBDA x : x = 0))

\* Every line appended is in the file, in one of the buffers, or was dropped: none is lost
\* when buffers change hands (AsyncLogging.cc:36-63, 91-112).
NoLineLost ==
  /\ TypeOK
  /\ 1 .. lines = ToSet(Written) \union dropped \union ToSet(currentBuffer_)
                    \union ToSet(FlattenSeq(buffers_)) \union ToSet(FlattenSeq(buffersToWrite))

\* At the top of the loop both spare buffers are there (AsyncLogging.cc:83-85): those
\* written give enough back, also after lines were dropped.
SparesReturn == pc = "loop" => newBuffer1 /\ newBuffer2 /\ buffersToWrite = <<>>

\* The lines are in the file, in order, or accounted for, and no buffer is lost on the way.
LinesAccountedFor == LinesInOrder /\ NoLineLost /\ SparesReturn

\* While the logger runs a line is on disk in the end, however few lines there are and
\* although append() notifies only when a buffer is full; and stop() returns, with what was
\* written by then flushed (AsyncLogging.cc:96, AsyncLogging.h:49-55).
LinesReachDisk ==
  /\ \A n \in Line : lines >= n ~> n \in ToSet(SubSeq(file, 1, flushed)) \union dropped \/ ~running_
  /\ owner = "joining" ~> owner = "stopped" /\ flushed = Len(file)
=============================================================================
