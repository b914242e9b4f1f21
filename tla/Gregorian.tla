------------------------------ MODULE Gregorian ------------------------------
(* The Gregorian calendar, day after day from Monday, January 1st, 1900: what Date promises. *)
EXTENDS Integers

VARIABLES year, month, day,
          weekDay,        \* 0 is Sunday
          yearDay         \* days since January 1st

Leap == year % 4 = 0 /\ (year % 100 = 0 => year % 400 = 0)

MonthLength ==
  CASE month = 2 -> IF Leap THEN 29 ELSE 28
    [] month \in {4, 6, 9, 11} -> 30
    [] OTHER -> 31

Init == year = 1900 /\ month = 1 /\ day = 1 /\ weekDay = 1 /\ yearDay = 0

NextDay ==
  /\ weekDay' = (weekDay + 1) % 7
  /\ \/ day < MonthLength /\ day' = day + 1 /\ yearDay' = yearDay + 1 /\ UNCHANGED <<month, year>>
     \/ day = MonthLength /\ month < 12 /\ day' = 1 /\ month' = month + 1 /\ yearDay' = yearDay + 1 /\ UNCHANGED year
     \/ day = MonthLength /\ month = 12 /\ day' = 1 /\ month' = 1 /\ year' = year + 1 /\ yearDay' = 0

Spec == Init /\ [][NextDay]_<<year, month, day, weekDay, yearDay>>
=============================================================================
