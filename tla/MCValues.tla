------------------------------ MODULE MCValues ------------------------------
(* The classes that one thread uses at a time: Buffer, Logger with its LogStream, the           *)
(* conversions of numbers, LogFile, Date and TimeZone.  Buffers are of a few bytes, with two    *)
(* for prepend() and two for the read overflow; log lines are of the real size, but in LogFile  *)
(* of one byte or two; the days are those of 400 years, after which the calendar repeats.       *)
EXTENDS Buffer

CONSTANTS LastYear, MaxItems, MaxLines, MaxTime

VARIABLES uses,
          now, g_logTimeZone, t_lastSecond, t_time, line, state, put, changed,
          call, text, julianDayNumber_, data, asked,
          clock, files, writtenBytes_, count_, startOfPeriod_, lastRoll_, lastFlush_, safe, at, failed, setBack

loggerVars == <<now, g_logTimeZone, t_lastSecond, t_time, line, state, put, changed>>
zoneVars == <<data, asked>>
fileVars == <<clock, files, writtenBytes_, count_, startOfPeriod_, lastRoll_, lastFlush_, safe, at, failed, setBack>>
all == <<uses, bufferVars, loggerVars, call, text, julianDayNumber_, zoneVars, fileVars>>

MCData == {<<1>>, <<3, 1, 1>>}
MCInts == {-1, 7}

\* A line is 38 bytes long before user code puts something in it, so that 3961 more fill the buffer.
Log ==
  INSTANCE Logger WITH
    kSmallBuffer <- 4000, kMaxNumericSize <- 32, TextLengths <- {1, 900, 3000, 3961},
    NumberLengths <- {1, 20}, Seconds <- 1 .. 3

Near(threshold) == threshold - 200 .. threshold + 200

Numbers ==
  INSTANCE Conversions WITH
    Integer <- -1100 .. 1100 \union {-32768, 32767, 65535, 1000000000},
    SI <- Near(100200) \union UNION {Near(t) : t \in {999500, 9995000, 99950000}} \union {99999999},
    IEC <- Near(102600) \union UNION {Near(t) : t \in {1023488, 10234880, 104806400}} \union {104857599}

\* Files of at most three bytes, days of three seconds, and a look at the clock with every second line.
Rolling ==
  INSTANCE LogFile WITH
    rollSize_ <- 3, flushInterval_ <- 1, checkEveryN_ <- 2, kRollPerSeconds_ <- 3, Lengths <- {1, 2}, now <- clock

Day == INSTANCE Date

Type(hours, dst) == [gmtOffset |-> hours * 3600, isDst |-> dst]

\* Two years of New York and of London; of Sydney, where daylight saving time spans the new year.
NewYork == [trans |-> <<1143961200, 1162101600, 1173596400, 1194156000>>, localtimes |-> <<2, 1, 2, 1>>,
            types |-> <<Type(-5, FALSE), Type(-4, TRUE)>>]
London == [trans |-> <<1143334800, 1162083600, 1174784400, 1193533200>>, localtimes |-> <<2, 1, 2, 1>>,
           types |-> <<Type(0, FALSE), Type(1, TRUE)>>]
Sydney == [trans |-> <<1162051200, 1174752000, 1193500800>>, localtimes |-> <<2, 1, 2>>,
           types |-> <<Type(10, FALSE), Type(11, TRUE)>>]

Changes == UNION {{z.trans[i] : i \in DOMAIN z.trans} : z \in {NewYork, London, Sydney}}

Zone ==
  INSTANCE TimeZone WITH
    ZoneFiles <- {NewYork, London, Sydney},
    Times <- {0, -1, -86400, -86401, 86399, 951782400, -2147400000}
               \union {c + 900 * k + d : c \in Changes, k \in -9 .. 9, d \in {-1, 0}}

\* What the program does not use stays in one state.
MCInit ==
  /\ uses \in {"Buffer", "Logger", "LogStream", "LogFile", "Date", "TimeZone"}
  /\ BufferInit /\ Log!Init /\ (uses = "Logger" \/ now = 1)
  /\ Numbers!Init /\ Rolling!Init /\ Day!Init
  /\ Zone!Init /\ (uses = "TimeZone" \/ data = Zone!Fixed(0))

In(class, A) == uses = class /\ A /\ UNCHANGED uses

MCNext ==
  \/ In("Buffer", BufferNext) /\ UNCHANGED <<loggerVars, call, text, julianDayNumber_, zoneVars, fileVars>>
  \/ In("Logger", Log!Next) /\ UNCHANGED <<bufferVars, call, text, julianDayNumber_, zoneVars, fileVars>>
  \/ In("LogStream", Numbers!Next) /\ UNCHANGED <<bufferVars, loggerVars, julianDayNumber_, zoneVars, fileVars>>
  \/ In("Date", Day!Tomorrow) /\ UNCHANGED <<bufferVars, loggerVars, call, text, zoneVars, fileVars>>
  \/ In("TimeZone", Zone!Next) /\ UNCHANGED <<bufferVars, loggerVars, call, text, julianDayNumber_, fileVars>>
  \/ In("LogFile", Rolling!Next) /\ UNCHANGED <<bufferVars, loggerVars, call, text, julianDayNumber_, zoneVars>>

MCSpec == MCInit /\ [][MCNext]_all

------------------------------------------------------------------------------
(* The properties of the instances. *)

\* See Logger: a line stays inside its buffer, is complete if it is short, and ends with a newline
\* or full; and it shows the time it was logged at (LogStream.h:46-54, Logging.cc:145-223).
LinesAreRight == Log!LinesAreWhole /\ Log!StampIsRight

\* See Buffer and Conversions: what is written of a number, in bytes of network order or in digits,
\* reads back as it, and formatted numbers keep to their width (Buffer.h:310-370, LogStream.cc:47-210).
NumbersReadBack == IntRoundTrip /\ Numbers!ConversionsAreExact

\* See LogFile: rolling loses, repeats and reorders no line and opens no file twice, and is late,
\* as flushing is, by fewer than checkEveryN_ lines (LogFile.cc:70-120).
FilesAreRight == Rolling!FilesInOrder /\ Rolling!NotLate

\* See Date: day after day, Date is the Gregorian calendar (Date.cc:22-44).
ImplementsCalendar == Day!ImplementsCalendar

\* See TimeZone: UTC and local times read back (TimeZone.cc:225-365).
TimesReadBack == Zone!TimesReadBack
=============================================================================
