------------------------------ MODULE Calendar ------------------------------
(***************************************************************************)
(* calendar.cpp: a month is drawn from the weekday on which the C library  *)
(* says it begins and the length the program works out for itself, and the *)
(* user turns the pages.                                                   *)
(***************************************************************************)
EXTENDS Integers, SequencesExt

CONSTANTS FirstYear, LastYear   \* bound the pages turned

VARIABLES m, y

\* Mutant: every fourth year.
is_leap_always4(year) == year % 4 = 0

is_leap(year) == (year % 4 = 0 /\ year % 100 # 0) \/ year % 400 = 0

get_days_in_month(month, year) ==
    IF month = 2 /\ is_leap(year) THEN 29
    ELSE <<31, 28, 31, 30, 31, 30, 31, 31, 30, 31, 30, 31>>[month]

\* mktime: the days since 1 March of the year 0, a Wednesday, in the Gregorian calendar.
DayNumber(day, month, year) ==
    LET shifted == (month + 9) % 12
        begun == IF month > 2 THEN year ELSE year - 1
    IN  365 * begun + begun \div 4 - begun \div 100 + begun \div 400
        + (153 * shifted + 2) \div 5 + day - 1
mktime(day, month, year) == (DayNumber(day, month, year) + 3) % 7

get_start_day(month, year) == mktime(1, month, year)

\* The rows printed, the first one behind its blanks.
Blank == 0
display_calendar(month, year) ==
    LET start == get_start_day(month, year)
        Printed(rows, d) ==
            LET row == Append(Last(rows), d)
                done == Append(Front(rows), row)
            IN  IF (start + d) % 7 = 0 THEN Append(done, <<>>) ELSE done
    IN  FoldLeft(Printed, << [i \in 1..start |-> Blank] >>,
                 [d \in 1..get_days_in_month(month, year) |-> d])

-----------------------------------------------------------------------------

\* What is assumed of the constants, where they get their values.
CalendarAssumption == FirstYear \in Nat \ {0} /\ LastYear \in Nat /\ FirstYear <= LastYear

NextMonth ==
    /\ m < 12 \/ y < LastYear
    /\ m' = (m % 12) + 1
    /\ y' = IF m = 12 THEN y + 1 ELSE y

PrevMonth ==
    /\ m > 1 \/ y > FirstYear
    /\ m' = IF m = 1 THEN 12 ELSE m - 1
    /\ y' = IF m = 1 THEN y - 1 ELSE y

\* It starts at the present month, and the user turns back as well as forth.
Init == m \in 1..12 /\ y = FirstYear

Next == NextMonth \/ PrevMonth

Spec == Init /\ [][Next]_<<m, y>>

-----------------------------------------------------------------------------

\* What is shown: each day of the month once, in reading order and in the column of the weekday
\* that mktime gives it, and after the last day the first one of the next month, though the
\* length of the month and its first weekday come from two calendars.
MonthIsRight ==
    LET rows == display_calendar(m, y)
        last == get_days_in_month(m, y)
        Cell == {p \in (DOMAIN rows) \X (1..7) : p[2] \in DOMAIN rows[p[1]] /\ rows[p[1]][p[2]] # Blank}
        Day(p) == rows[p[1]][p[2]]
        Before(p, q) == p[1] < q[1] \/ (p[1] = q[1] /\ p[2] < q[2])
    IN  /\ \A p \in Cell : Day(p) \in 1..last
        /\ \A d \in 1..last : \E p \in Cell : Day(p) = d /\ p[2] = mktime(d, m, y) + 1
        /\ \A p, q \in Cell : Before(p, q) => Day(p) < Day(q)
        /\ \A r \in DOMAIN rows : Len(rows[r]) <= 7
        /\ DayNumber(last + 1, m, y) = DayNumber(1, (m % 12) + 1, IF m = 12 THEN y + 1 ELSE y)
=============================================================================
