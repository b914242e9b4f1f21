------------------------------- MODULE LogFile -------------------------------
(***************************************************************************)
(* muduo::LogFile and FileUtil::AppendFile: a log that goes on in a new    *)
(* file when the one in use is large or of an earlier day.  append() and   *)
(* flush() hold mutex_, so each is one step.  A file is named after the    *)
(* second it is opened in; a line is its number.  What stdio holds back is *)
(* the tail of the file in use; a crash loses it.                          *)
(***************************************************************************)
EXTENDS Integers, Sequences, FiniteSets, SequencesExt

CONSTANTS rollSize_, flushInterval_, checkEveryN_,
          kRollPerSeconds_,  \* a day
          Lengths,           \* of lines
          MaxLines, MaxTime  \* bounds: lines appended, the clock

VARIABLES now,               \* time(NULL)
          files,             \* the files, [name, lines], the one in use last
          writtenBytes_, count_, startOfPeriod_, lastRoll_, lastFlush_,
          safe,              \* lines of the file in use that are out of stdio's buffer
          at,                \* when line n was appended
          failed,            \* lines the disk refused
          setBack            \* the clock was set back

vars == <<now, files, writtenBytes_, count_, startOfPeriod_, lastRoll_, lastFlush_, safe, at,
          failed, setBack>>

Day(t) == (t \div kRollPerSeconds_) * kRollPerSeconds_

InUse == Last(files).lines

TypeOK ==
  /\ now \in 1 .. MaxTime /\ writtenBytes_ \in Nat /\ count_ \in 0 .. checkEveryN_ - 1
  /\ \A i \in DOMAIN files : files[i].name \in 1 .. MaxTime /\ files[i].lines \in Seq(1 .. MaxLines)
  /\ {startOfPeriod_, lastRoll_, lastFlush_} \subseteq 0 .. MaxTime
  /\ safe \in 0 .. Len(InUse) /\ failed \subseteq DOMAIN at /\ setBack \in BOOLEAN

\* The constructor, which opens the first file.
Init ==
  /\ now = 1 /\ files = <<[name |-> 1, lines |-> <<>>]>> /\ writtenBytes_ = 0 /\ count_ = 0
  /\ startOfPeriod_ = Day(1) /\ lastRoll_ = 1 /\ lastFlush_ = 1
  /\ safe = 0 /\ at = <<>> /\ failed = {} /\ setBack = FALSE

------------------------------------------------------------------------------
\* Mutant: a file may be opened in the second of the one before.
MayRoll_Always(t) == TRUE

MayRoll(t) == t > lastRoll_

\* rollFile() at time t, after the lines of the file in use became `lines` and their bytes `bytes`.
\* The old file is closed, which flushes it; the new one starts empty.
rollFile(t, lines, bytes) ==
  IF MayRoll(t)
  THEN /\ files' = [files EXCEPT ![Len(files)].lines = lines] \o <<[name |-> t, lines |-> <<>>]>>
       /\ writtenBytes_' = 0 /\ safe' = 0
       /\ lastRoll_' = t /\ lastFlush_' = t /\ startOfPeriod_' = Day(t)
  ELSE /\ files' = [files EXCEPT ![Len(files)].lines = lines]
       /\ writtenBytes_' = bytes
       /\ UNCHANGED <<safe, lastRoll_, lastFlush_, startOfPeriod_>>

\* Mutant: the check is one append late.
CheckIsDue_Late == count_ + 1 > checkEveryN_

CheckIsDue == count_ + 1 >= checkEveryN_

\* Mutant: the clock is compared only when a file is full.
FlushIsDue_Never == FALSE

FlushIsDue == now - lastFlush_ > flushInterval_

\* The append went through, and no file is changed.
Stay(lines, bytes) ==
  /\ files' = [files EXCEPT ![Len(files)].lines = lines] /\ writtenBytes_' = bytes
  /\ UNCHANGED <<startOfPeriod_, lastRoll_>>

\* append() of a line of len bytes, of which the disk takes all or not all.  AppendFile counts
\* the bytes either way.  rollFile() reads the clock again, t.
append(len, taken, t) ==
  LET n == Len(at) + 1
      lines == IF taken THEN Append(InUse, n) ELSE InUse
      bytes == writtenBytes_ + len
  IN /\ n <= MaxLines /\ at' = Append(at, now)
     /\ failed' = IF taken THEN failed ELSE failed \union {n}
     /\ now' = t /\ UNCHANGED setBack
     /\ \/ /\ bytes > rollSize_
           /\ rollFile(t, lines, bytes) /\ UNCHANGED count_
        \/ /\ bytes <= rollSize_ /\ ~CheckIsDue
           /\ count_' = count_ + 1
           /\ Stay(lines, bytes) /\ UNCHANGED <<safe, lastFlush_>>
        \/ /\ bytes <= rollSize_ /\ CheckIsDue /\ Day(now) # startOfPeriod_
           /\ count_' = 0 /\ rollFile(t, lines, bytes)
        \/ /\ bytes <= rollSize_ /\ CheckIsDue /\ Day(now) = startOfPeriod_
           /\ count_' = 0 /\ Stay(lines, bytes)
           /\ safe' = (IF FlushIsDue THEN Len(lines) ELSE safe)
           /\ lastFlush_' = (IF FlushIsDue THEN now ELSE lastFlush_)

flush ==
  /\ safe < Len(InUse) /\ safe' = Len(InUse)
  /\ UNCHANGED <<now, files, writtenBytes_, count_, startOfPeriod_, lastRoll_, lastFlush_, at, failed, setBack>>

Tick ==
  /\ now < MaxTime /\ now' = now + 1
  /\ UNCHANGED <<files, writtenBytes_, count_, startOfPeriod_, lastRoll_, lastFlush_, safe, at, failed, setBack>>

\* The wall clock is set back by a second, once.
SetBack ==
  /\ ~setBack /\ now > 1 /\ now' = now - 1 /\ setBack' = TRUE
  /\ UNCHANGED <<files, writtenBytes_, count_, startOfPeriod_, lastRoll_, lastFlush_, safe, at, failed>>

Next ==
  \/ \E len \in Lengths, taken \in BOOLEAN, t \in {now, now + 1} \intersect 1 .. MaxTime : append(len, taken, t)
  \/ flush \/ Tick \/ SetBack

Spec == Init /\ [][Next]_vars

------------------------------------------------------------------------------
(* Properties. *)

\* Rolling loses no line, repeats none and keeps their order: the files, one after the other, are
\* the lines the disk took.  No two files have the same name, so none is opened a second time; and
\* a file that is too large is left unless the clock has not passed the second it was opened in
\* (LogFile.cc:70-120).
FilesInOrder ==
  /\ TypeOK
  /\ FlattenSeq([i \in DOMAIN files |-> files[i].lines]) = SelectSeq([n \in DOMAIN at |-> n], LAMBDA n : n \notin failed)
  /\ \A i \in 1 .. Len(files) - 1 : files[i].name < files[i + 1].name
  /\ writtenBytes_ > rollSize_ => Last(at) <= lastRoll_

LinesSince(t) == {i \in DOMAIN InUse : at[InUse[i]] >= t}

\* The clock is looked at once in checkEveryN_ appends, so this is how late LogFile may be: fewer
\* than checkEveryN_ lines of a later day are in the file of an earlier one, and of those appended
\* more than flushInterval_ after the last flush fewer than checkEveryN_ are in stdio's buffer
\* (LogFile.cc:81-97).
NotLate ==
  ~setBack =>
    /\ Cardinality(LinesSince(startOfPeriod_ + kRollPerSeconds_)) < checkEveryN_
    /\ Cardinality({i \in LinesSince(lastFlush_ + flushInterval_ + 1) : i > safe}) < checkEveryN_
=============================================================================
