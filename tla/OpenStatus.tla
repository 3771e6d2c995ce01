------------------------------ MODULE OpenStatus ------------------------------
(***************************************************************************)
(* lemon_parse_time and lemon_open_status of the database, on one business *)
(* whose opening hours stay as they are while local time passes.  A token  *)
(* of the hours is a record of what the regular expressions take from it.  *)
(***************************************************************************)
EXTENDS Integers

CONSTANTS
  Days,      \* number of days looked at, names of days stand for 0, 1, ...
  HourLen,   \* minutes of an hour
  Hours,     \* the hours objects of the businesses
  NULL

ASSUME ClockAssumption == Days \in Nat \ {0} /\ HourLen \in Nat \ {0}

VARIABLES hours, day, now

clock == <<hours, day, now>>

DayLen == 24 * HourLen

clock12 == {"AM", "PM"}

\* 12 AM is midnight, 12 PM is noon.
to24(h, ampm) ==
  IF ampm = "AM" THEN IF h = 12 THEN 0 ELSE h
                 ELSE IF h = 12 THEN 12 ELSE h + 12

\* A token of another form than the two clocks is unknown.
lemon_parse_time(token) ==
  CASE token.clock \in clock12 /\ token.h <= 12 /\ token.mi < HourLen ->
         to24(token.h, token.clock) * HourLen + token.mi
    [] token.clock = "24" /\ token.h <= 23 /\ token.mi < HourLen ->
         token.h * HourLen + token.mi
    [] OTHER -> NULL

Status(isOpen, later) == [is_open_now |-> isOpen, opens_later |-> later]

Unknown == Status(NULL, FALSE)

\* Mutant of Interval: overnight is not told apart.
IntervalSameDay(o, c, t) == Status(t >= o /\ t < c, t < o)

\* A closing time at or before the opening one is overnight: open until midnight.
Interval(o, c, t) ==
  IF c > o THEN Status(t >= o /\ t < c, t < o) ELSE Status(t >= o, t < o)

lemon_open_status(hrs, d, t) ==
  LET entry == hrs[d]
      o == lemon_parse_time(entry.open)
      c == lemon_parse_time(entry.close)
  IN CASE hrs = NULL \/ entry = NULL -> Unknown
       [] OTHER -> IF entry.closed THEN Status(FALSE, FALSE)
                   ELSE IF o = NULL \/ c = NULL THEN Unknown
                   ELSE Interval(o, c, t)

ClockInit == hours \in Hours /\ day = 0 /\ now = 0

\* Local time passes.
Tick ==
  /\ day < Days
  /\ IF now + 1 < DayLen THEN now' = now + 1 /\ UNCHANGED day
                         ELSE now' = 0 /\ day' = day + 1
  /\ UNCHANGED hours
-----------------------------------------------------------------------------
status == IF day < Days THEN lemon_open_status(hours, day, now) ELSE Unknown

\* Who is told that a business opens later can wait for it: it does the same day
\* (lemon_open_status; rank/signals.go signalOpenStatus ranks it above a closed one).
OpensLaterKept ==
  \A d \in 0..Days-1 :
    (day = d /\ status.opens_later) ~> (day = d /\ status.is_open_now = TRUE)
=============================================================================
