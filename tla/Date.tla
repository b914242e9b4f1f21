-------------------------------- MODULE Date --------------------------------
(***************************************************************************)
(* muduo::Date: a day by its Julian Day Number, and the conversions to and *)
(* from year, month and day, in integer arithmetic that truncates.  No     *)
(* operand is negative.                                                    *)
(***************************************************************************)
EXTENDS Integers

CONSTANT LastYear        \* bound: the last year looked at

VARIABLE julianDayNumber_

getJulianDayNumber(year, month, day) ==
  LET a == (14 - month) \div 12
      y == year + 4800 - a
      m == month + 12 * a - 3
  IN day + (153 * m + 2) \div 5 + y * 365 + y \div 4 - y \div 100 + y \div 400 - 32045

kJulianDayOf1970_01_01 == getJulianDayNumber(1970, 1, 1)

\* Mutant: the century ends a day late, after a February with 29 days.
Centuries_Late(a) == (4 * a) \div 146097

\* Centuries since -4800 of the day a days after its March.
Centuries(a) == (4 * a + 3) \div 146097

\* getYearMonthDay(julianDayNumber_)
yearMonthDay ==
  LET a == julianDayNumber_ + 32044
      b == Centuries(a)
      c == a - (b * 146097) \div 4
      d == (4 * c + 3) \div 1461
      e == c - (1461 * d) \div 4
      m == (5 * e + 2) \div 153
  IN [day |-> e - (153 * m + 2) \div 5 + 1,
      month |-> m + 3 - 12 * (m \div 10),
      year |-> b * 100 + d - 4800 + m \div 10]

weekDay == (julianDayNumber_ + 1) % 7

\* As TimeZone::toUtcTime() counts it.
yearDay == julianDayNumber_ - getJulianDayNumber(yearMonthDay.year, 1, 1)

Init == julianDayNumber_ = getJulianDayNumber(1900, 1, 1)

Tomorrow == yearMonthDay.year <= LastYear /\ julianDayNumber_' = julianDayNumber_ + 1

Spec == Init /\ [][Tomorrow]_julianDayNumber_

------------------------------------------------------------------------------
Calendar ==
  INSTANCE Gregorian WITH
    year <- yearMonthDay.year, month <- yearMonthDay.month, day <- yearMonthDay.day

\* Day after day, through a cycle of 400 years of the calendar, year, month, day, day of the week
\* and of the year are those of the Gregorian calendar (Date.cc:31-44, Date.h:98-101), and
\* getJulianDayNumber() is the inverse (Date.cc:22-29).
ImplementsCalendar ==
  /\ Calendar!Spec
  /\ [](getJulianDayNumber(yearMonthDay.year, yearMonthDay.month, yearMonthDay.day) = julianDayNumber_)
=============================================================================
