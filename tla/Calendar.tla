------------------------------ MODULE Calendar ------------------------------
(***************************************************************************)
(* stu_gmtime, the calendar date of a time, checked against a calendar     *)
(* that turns its pages day by day.  A time is given as a day and a second *)
(* of the day, whose sum in seconds the code takes apart again first.      *)
(*                                                                         *)
(* The operators that follow "A faulty variant" are not used by Spec: each *)
(* is a plausible mistake in the definition after it.                      *)
(***************************************************************************)
EXTENDS Integers

CONSTANTS
    MaxDay,     \* bound: 146097 days are the 400 years after which dates repeat
    Seconds     \* the seconds of a day that are looked at

VARIABLES day, date

vars == <<day, date>>

-----------------------------------------------------------------------------
Leap(year) == year % 4 = 0 /\ (year % 100 # 0 \/ year % 400 = 0)

\* Days before March 1 of the year, counted from March 1, 1 BC.
Before(year) == 365 * year + year \div 4 - year \div 100 + year \div 400

\* A faulty variant: "adjusted to 1 only".
AdjustedByOne(days) == ((days + 1) * 400) \div (365 * 400 + 100 - 4 + 1)

\* The year that begins on March 1, or the next one at the end of February.
Adjusted(days) == ((days + 2) * 400) \div (365 * 400 + 100 - 4 + 1)

\* "The empirical formula that maps yday to month."
Month(yday) == ((yday + 31) * 10) \div 306

\* stu_gmtime.
Gmtime(d, second) ==
    LET days  == d - (31 + 28) + 719527
        y     == Adjusted(days)
        over  == days - Before(y) < 0
        yday  == IF over THEN 365 + (IF Leap(y) THEN 1 ELSE 0) + days - Before(y) ELSE days - Before(y)
        year  == IF over THEN y - 1 ELSE y
        mon   == Month(yday)
    IN  [wday |-> (4 + d) % 7,
         hour |-> second \div 3600, min |-> (second % 3600) \div 60, sec |-> second % 60,
         mday |-> yday - ((367 * mon) \div 12 - 30) + 1,
         year |-> IF yday >= 306 THEN year + 1 ELSE year,
         mon  |-> IF yday >= 306 THEN mon - 10 ELSE mon + 2]

-----------------------------------------------------------------------------
(* The reference: the next day of a calendar.                              *)

LeapYear(year) == 4 * (year \div 4) = year /\ ~ \E k \in {100, 200, 300} : (year - k) % 400 = 0

MonthLength(year, mon) ==
    CASE mon = 2 -> IF LeapYear(year) THEN 29 ELSE 28
      [] mon \in {4, 6, 9, 11} -> 30
      [] OTHER -> 31

Tomorrow(d) ==
    LET rest == [d EXCEPT !.wday = (@ + 1) % 7]
    IN  IF d.mday < MonthLength(d.year, d.mon) THEN [rest EXCEPT !.mday = @ + 1]
        ELSE IF d.mon < 12 THEN [rest EXCEPT !.mday = 1, !.mon = @ + 1]
        ELSE [rest EXCEPT !.mday = 1, !.mon = 1, !.year = @ + 1]

\* "January 1, 1970 was Thursday."
Init == day = 0 /\ date = [year |-> 1970, mon |-> 1, mday |-> 1, wday |-> 4]

NextDay ==
    /\ day < MaxDay
    /\ day' = day + 1
    /\ date' = Tomorrow(date)

Spec == Init /\ [][NextDay]_vars

\* stu_gmtime gives the date of every day of 400 years and the clock time of the
\* seconds looked at.
GmtimeRight ==
    \A s \in Seconds :
        LET tm == Gmtime(day, s)
        IN  /\ [year |-> tm.year, mon |-> tm.mon, mday |-> tm.mday, wday |-> tm.wday] = date
            /\ tm.hour \in 0 .. 23 /\ tm.min \in 0 .. 59 /\ tm.sec \in 0 .. 59
            /\ 3600 * tm.hour + 60 * tm.min + tm.sec = s
=============================================================================
