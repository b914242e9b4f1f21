------------------------------ MODULE TimeZone ------------------------------
(***************************************************************************)
(* muduo::TimeZone: a zone file gives the times at which the offset from   *)
(* UTC changes; toLocalTime() and fromLocalTime() look them up.  A struct  *)
(* tm is a record.  gmtime_r() and timegm() are toUtcTime() and            *)
(* fromUtcTime(), which the code means to use in their place.              *)
(***************************************************************************)
EXTENDS Integers, Sequences

CONSTANTS ZoneFiles,      \* trans, localtimes (from 1) and types, each type gmtOffset and isDst
          Times           \* seconds since the epoch

VARIABLES data,           \* of the TimeZone: transitions and localtimes
          asked           \* the time asked for, if any

vars == <<data, asked>>

DateOf(n) == INSTANCE Date WITH julianDayNumber_ <- n, LastYear <- 0

kJulianDayOf1970_01_01 == DateOf(0)!kJulianDayOf1970_01_01

------------------------------------------------------------------------------
(* UTC *)

kSecondsPerDay == 24 * 60 * 60

\* t % n and t / n of C++, which truncate.
Rem(t, n) == IF t < 0 THEN -((-t) % n) ELSE t % n
Quot(t, n) == IF t < 0 THEN -((-t) \div n) ELSE t \div n

\* Mutant: seconds before midnight, before 1970, are left negative.
Borrows_Never(seconds) == FALSE

Borrows(seconds) == seconds < 0

toUtcTime(t) ==
  LET rem == Rem(t, kSecondsPerDay)
      quot == Quot(t, kSecondsPerDay)
      seconds == IF Borrows(rem) THEN rem + kSecondsPerDay ELSE rem
      days == IF Borrows(rem) THEN quot - 1 ELSE quot
      date == days + kJulianDayOf1970_01_01
      ymd == DateOf(date)!yearMonthDay
  IN [sec |-> seconds % 60, min |-> (seconds \div 60) % 60, hour |-> seconds \div 3600,
      year |-> ymd.year, mon |-> ymd.month, mday |-> ymd.day,
      wday |-> DateOf(date)!weekDay, yday |-> DateOf(date)!yearDay]

fromUtcTime(tm) ==
  (DateOf(0)!getJulianDayNumber(tm.year, tm.mon, tm.mday) - kJulianDayOf1970_01_01) * kSecondsPerDay
    + tm.hour * 3600 + tm.min * 60 + tm.sec

------------------------------------------------------------------------------
(* Zones *)

\* readTimeZoneFile(), which reads the types, from 0, and builds the transitions after them.  A file
\* that is cut short, before the last type, leaves the types it has; one that is not there, nothing.
\* The TimeZone is valid either way.
Whole(file) ==
  [localtimes |-> file.types,
   transitions |-> [i \in DOMAIN file.trans |->
     [gmttime |-> file.trans[i],
      localtime |-> file.trans[i] + file.types[file.localtimes[i]].gmtOffset,
      localtimeIdx |-> file.localtimes[i]]]]

Short(file, types) == [localtimes |-> SubSeq(file.types, 1, types), transitions |-> <<>>]

readTimeZoneFile(file) == {Whole(file)} \union {Short(file, n) : n \in 0 .. Len(file.types) - 1}

\* A fixed zone: the other constructor.
Fixed(eastOfUtc) ==
  [localtimes |-> <<[gmtOffset |-> eastOfUtc, isDst |-> FALSE]>>, transitions |-> <<>>]

\* findLocaltime(): the last transition that t, compared with `key`, has reached.
findLocaltime(t, key) ==
  LET passed == {i \in DOMAIN data.transitions : data.transitions[i][key] <= t}
  IN IF passed = {} THEN data.localtimes[1]
     ELSE data.localtimes[data.transitions[CHOOSE i \in passed : \A j \in passed : j <= i].localtimeIdx]

toLocalTime(t) ==
  LET local == findLocaltime(t, "gmttime")
  IN [tm |-> toUtcTime(t + local.gmtOffset), isdst |-> local.isDst]

\* Mutant: the hour that is repeated is always taken for standard time.
InFirstOfTwoHours_Never(localTm, tryTm) == FALSE

\* localTm is in daylight saving time and reads the same an hour later.
InFirstOfTwoHours(localTm, tryTm) ==
  localTm.isdst /\ ~tryTm.isdst /\ tryTm.tm.hour = localTm.tm.hour /\ tryTm.tm.min = localTm.tm.min

fromLocalTime(localTm) ==
  LET seconds == fromUtcTime(localTm.tm)
      local == findLocaltime(seconds, "localtime")
      tryTm == toLocalTime(seconds - local.gmtOffset)
  IN seconds - local.gmtOffset - (IF InFirstOfTwoHours(localTm, tryTm) THEN 3600 ELSE 0)

------------------------------------------------------------------------------
Init == asked = <<>> /\ \/ data \in UNION {readTimeZoneFile(f) : f \in ZoneFiles}
                        \/ \E h \in {-12, 0, 8} : data = Fixed(h * 3600)

\* findLocaltime() takes localtimes.front() in the end, so one must have been read.
Ask(t) == asked = <<>> /\ data.localtimes # <<>> /\ asked' = <<t>> /\ UNCHANGED data

Next == \E t \in Times : Ask(t)

Spec == Init /\ [][Next]_vars

------------------------------------------------------------------------------
(* Properties. *)

InRange(tm) == tm.sec \in 0 .. 59 /\ tm.min \in 0 .. 59 /\ tm.hour \in 0 .. 23

\* toUtcTime() gives a time of day in its range, before 1970 too, and fromUtcTime() takes it back
\* (TimeZone.cc:324-365).  A local time and its tm_isdst tell one point in time: fromLocalTime()
\* takes back what toLocalTime() gives, in the hour that is repeated when daylight saving time ends
\* too, in every zone where it is one hour (TimeZone.cc:225-322).
TimesReadBack ==
  asked # <<>> =>
    /\ InRange(toUtcTime(asked[1])) /\ fromUtcTime(toUtcTime(asked[1])) = asked[1]
    /\ fromLocalTime(toLocalTime(asked[1])) = asked[1]
=============================================================================
