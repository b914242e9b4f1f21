------------------------------- MODULE Logger -------------------------------
(***************************************************************************)
(* muduo::Logger, LogStream and FixedBuffer: a line is put together in a   *)
(* buffer of fixed size and handed to g_output when the Logger is          *)
(* destructed.  An item of a line is its kind and its length; what does    *)
(* not fit is left out.  The thread keeps the text of the second it logged *)
(* last.                                                                   *)
(***************************************************************************)
EXTENDS Integers, Sequences, FiniteSets, SequencesExt

CONSTANTS kSmallBuffer, kMaxNumericSize,
          TextLengths, NumberLengths,  \* of what user code puts in a line
          Seconds,                     \* the clock
          MaxItems                     \* bound: items user code puts in a line

VARIABLES now, g_logTimeZone,
          t_lastSecond, t_time,  \* the cached text: of which second, in which zone
          line,                  \* the line in progress or handed out last: items, their length and that of
                                 \* all that was offered, level, stamp
          state,                 \* "idle", "open", "aborted"
          put,                   \* what user code has put in it
          changed                \* the zone was changed after t_time was made

vars == <<now, g_logTimeZone, t_lastSecond, t_time, line, state, put, changed>>

Zones == {"UTC", "local"}

Text(n) == [kind |-> "text", len |-> n]
Number(n) == [kind |-> "number", len |-> n]
Newline == [kind |-> "newline", len |-> 1]
Items == {Text(n) : n \in TextLengths} \union {Number(n) : n \in NumberLengths}

NoLine == [items |-> <<>>, length |-> 0, offered |-> 0, level |-> "INFO", second |-> 0, zone |-> "UTC", suffix |-> "Z"]

Init ==
  /\ now \in Seconds /\ g_logTimeZone = "UTC" /\ t_lastSecond = 0 /\ t_time = [second |-> 0, zone |-> "UTC"]
  /\ line = NoLine /\ state = "idle" /\ put = <<>> /\ changed = FALSE

------------------------------------------------------------------------------
(* FixedBuffer and LogStream. *)

avail(l) == kSmallBuffer - l.length

\* Mutant: a text may fill the buffer to the last byte.
Fits_Exactly(l, item) ==
  IF item.kind = "number" THEN avail(l) >= kMaxNumericSize ELSE avail(l) >= item.len

\* append() leaves one byte free; formatInteger() and its like want room for any number.
Fits(l, item) ==
  IF item.kind = "number" THEN avail(l) >= kMaxNumericSize ELSE avail(l) > item.len

\* operator<<: the whole item or nothing.
Shift(l, item) ==
  IF Fits(l, item) THEN [l EXCEPT !.items = Append(@, item), !.length = @ + item.len, !.offered = @ + item.len]
  ELSE [l EXCEPT !.offered = @ + item.len]

ShiftAll(l, items) ==
  LET upTo[i \in 0 .. Len(items)] == IF i = 0 THEN l ELSE Shift(upTo[i - 1], items[i])
  IN upTo[Len(items)]

------------------------------------------------------------------------------
(* Logger. *)

\* Mutant: a second is new only when it is later.
SecondIsNew_Later == now > t_lastSecond

SecondIsNew == now # t_lastSecond

\* formatTime(): date and time from the cache, microseconds and the zone's suffix after it.
formatTime ==
  IF SecondIsNew
  THEN t_lastSecond' = now /\ t_time' = [second |-> now, zone |-> g_logTimeZone] /\ changed' = FALSE
  ELSE UNCHANGED <<t_lastSecond, t_time, changed>>

Suffix == IF g_logTimeZone = "UTC" THEN Text(9) ELSE Text(8)

\* What the constructors put first: the level, and the text of errno or the function's name.  Of
\* the levels that differ by name only, one stands for all.
Forms == {[level |-> "INFO", head |-> <<>>],
          [level |-> "DEBUG", head |-> <<Text(20), Text(1)>>],
          [level |-> "ERROR", head |-> <<Text(18), Text(8), Number(1), Text(2)>>],
          [level |-> "FATAL", head |-> <<Text(18), Text(8), Number(1), Text(2)>>]}

\* The constructor: time, thread, level, and the head.
Construct(form) ==
  /\ state = "idle" /\ state' = "open" /\ put' = <<>>
  /\ formatTime
  /\ \E empty \in {[NoLine EXCEPT !.level = form.level, !.second = t_time'.second, !.zone = t_time'.zone,
                                  !.suffix = IF g_logTimeZone = "UTC" THEN "Z" ELSE ""]} :
       line' = ShiftAll(empty, <<Text(17), Suffix, Text(6), Text(6)>> \o form.head)
  /\ UNCHANGED <<now, g_logTimeZone>>

Put(item) ==
  /\ state = "open" /\ Len(put) < MaxItems /\ put' = Append(put, item)
  /\ line' = Shift(line, item)
  /\ UNCHANGED <<now, g_logTimeZone, t_lastSecond, t_time, state, changed>>

\* finish() adds " - ", the file's name, ':', the line number and the newline.
FinishItems == <<Text(3), Text(12), Text(1), Number(3), Newline>>

\* The destructor: finish(), g_output; a FATAL line is flushed and the process aborts.
Destruct ==
  /\ state = "open" /\ state' = IF line.level = "FATAL" THEN "aborted" ELSE "idle"
  /\ line' = ShiftAll(line, FinishItems)
  /\ UNCHANGED <<now, g_logTimeZone, t_lastSecond, t_time, put, changed>>

setTimeZone(zone) ==
  /\ state = "idle" /\ zone # g_logTimeZone /\ g_logTimeZone' = zone /\ changed' = TRUE
  /\ line' = NoLine /\ put' = <<>>
  /\ UNCHANGED <<now, t_lastSecond, t_time, state>>

\* The wall clock goes on, or is set back.
Clock ==
  /\ state = "idle" /\ now' \in Seconds \ {now} /\ line' = NoLine /\ put' = <<>>
  /\ UNCHANGED <<g_logTimeZone, t_lastSecond, t_time, state, changed>>

Next ==
  \/ \E form \in Forms : Construct(form)
  \/ \E item \in Items : Put(item)
  \/ Destruct \/ Clock
  \/ \E zone \in Zones : setTimeZone(zone)

Spec == Init /\ [][Next]_vars

------------------------------------------------------------------------------
(* Properties. *)

HandedOut == state # "open" /\ line # NoLine

\* A line stays inside the buffer with a byte to spare, whatever is put in it, and begins with its
\* time, thread and level.  One that leaves room for a number is complete; and one that was handed
\* out without its newline is full to the last byte but one, so that only such a line runs into
\* the next (LogStream.h:46-54, LogStream.cc:244-253, Logging.cc:186-223).
LinesAreWhole ==
  /\ line.length < kSmallBuffer
  /\ line # NoLine => SubSeq(line.items, 2, 4) \in {<<Text(9), Text(6), Text(6)>>, <<Text(8), Text(6), Text(6)>>}
  /\ line.offered + kMaxNumericSize <= kSmallBuffer => line.length = line.offered
  /\ HandedOut /\ Last(line.items) # Newline => line.length = kSmallBuffer - 1

\* The second a line shows is the one it was logged in, also when the clock is set back, and the
\* zone it names is the one the time is in, unless the zone was changed within the second this
\* thread logged in last (Logging.cc:145-184).
StampIsRight ==
  line # NoLine =>
    /\ line.second = now
    /\ \/ changed
       \/ line.zone = g_logTimeZone /\ (line.suffix = "Z" <=> line.zone = "UTC")
=============================================================================
