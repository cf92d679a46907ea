------------------------------- MODULE Dates --------------------------------
(***************************************************************************)
(* Dates and events of the calendar: vadrouille/cal_date.c, the list of    *)
(* events of vadrouille/calendar.c and the dates a user enters in          *)
(* vadrouille/cal_editor.c.  A date has a year (0: not set), a month from  *)
(* 0, a day, and an hour above 23 if it has no time.  What a user enters   *)
(* is the numbers in it; the only separator that matters is an h after the *)
(* first.                                                                  *)
(***************************************************************************)
EXTENDS Integers, SequencesExt

is_leap_year(year) == year % 4 = 0 /\ (year % 100 # 0 \/ year % 400 = 0)

(* Mutant: every fourth year is a leap year.                               *)
month_days_Julian(year, month) ==
  <<31, 28, 31, 30, 31, 30, 31, 31, 30, 31, 30, 31>>[month + 1] + IF month = 1 /\ year % 4 = 0 THEN 1 ELSE 0

month_days(year, month) ==
  <<31, 28, 31, 30, 31, 30, 31, 31, 30, 31, 30, 31>>[month + 1] + IF month = 1 /\ is_leap_year(year) THEN 1 ELSE 0

cal_date_is_set(cd)   == cd.year # 0
cal_date_has_time(cd) == cal_date_is_set(cd) /\ cd.hour <= 23

(* The loop of cal_date_ctor over the days beyond the end of the month.    *)
RECURSIVE BoundDay(_)
BoundDay(cd) ==
  LET max_days == month_days(cd.year, cd.month)
  IN  IF cd.day <= max_days THEN cd
      ELSE BoundDay([cd EXCEPT !.day = @ - max_days, !.month = (cd.month + 1) % 12,
                               !.year = @ + (cd.month + 1) \div 12])

cal_date_ctor(y, M, d, h, m) ==
  LET raw   == [year |-> y, month |-> M, day |-> d, hour |-> h, min |-> m]
      hours == h + m \div 60
      timed == IF cal_date_has_time(raw)
               THEN [raw EXCEPT !.min = m % 60, !.hour = hours % 24, !.day = d + hours \div 24]
               ELSE raw
  IN  IF ~ cal_date_is_set(raw) THEN raw
      ELSE BoundDay([timed EXCEPT !.year = y + M \div 12, !.month = M % 12])

NotSet == cal_date_ctor(0, 0, 0, 0, 0)

(* The numbers in cd->str.                                                 *)
Printed(cd) ==
  IF ~ cal_date_is_set(cd) THEN <<>>
  ELSE <<cd.year, cd.month + 1, cd.day>> \o IF cal_date_has_time(cd) THEN <<cd.hour, cd.min>> ELSE <<>>

(* From the fields that sc_gmfield2uint has read.                          *)
cal_date_ctor_from_str(f) ==
  IF Len(f) = 3 THEN cal_date_ctor(f[1], f[2] - 1, f[3], 99, 99)
                ELSE cal_date_ctor(f[1], f[2] - 1, f[3], f[4], f[5])

Minutes == [none |-> 1, m |-> 1, h |-> 60, d |-> 60 * 24]

(* Numbers with their units.                                               *)
parse_duration(parts) == FoldLeft(LAMBDA d, p : d + p.n * Minutes[p.unit], 0, parts)

Refused == [ok |-> FALSE]
Date(y, M, d, h, m) == [ok |-> TRUE, cd |-> cal_date_ctor(y, M, d, h, m)]

get_hour(y, M, d, n) ==
  CASE n = <<>>                                   -> Date(y, M, d, 99, 0)
    [] n # <<>> /\ n[1] \notin 0 .. 23            -> Refused
    [] Len(n) = 1 /\ n[1] \in 0 .. 23             -> Date(y, M, d, n[1], 0)
    [] Len(n) > 1 /\ n[1] \in 0 .. 23             -> IF n[2] \in 0 .. 59 THEN Date(y, M, d, n[1], n[2]) ELSE Refused

(* i: [plus, parts, hours, nums], the parts for a duration, the numbers    *)
(* for a date or, if the first is followed by an h, for a time.  (In the   *)
(* case of a duration an assertion reads the date that is yet to be built: *)
(* this is the result if it does not end the program.)                     *)
cal_date_ctor_from_input(i, ref) ==
  IF i.plus /\ cal_date_is_set(ref)
  THEN LET hour == IF cal_date_has_time(ref) THEN ref.hour ELSE 0
           min  == IF cal_date_has_time(ref) THEN ref.min ELSE 0
       IN  Date(ref.year, ref.month, ref.day, hour, min + parse_duration(i.parts))
  ELSE LET n == i.nums
       IN  CASE n = <<>>                                        -> Date(0, 0, 0, 99, 0)
             [] n # <<>> /\ i.hours /\ cal_date_is_set(ref)     -> get_hour(ref.year, ref.month, ref.day, n)
             [] n # <<>> /\ ~ (i.hours /\ cal_date_is_set(ref)) ->
                  IF Len(n) < 3 \/ n[2] \notin 1 .. 12 \/ n[3] \notin 1 .. 31 THEN Refused
                  ELSE IF n[3] > month_days(n[1], n[2] - 1) THEN Refused
                  ELSE get_hour(n[1], n[2] - 1, n[3], SubSeq(n, 4, Len(n)))

guint_compare(a, b) == IF a < b THEN -1 ELSE IF a > b THEN 1 ELSE 0

(* Mutant: a date without a time is compared by its hour like the others.  *)
cal_date_compare_Plain(a, b) ==
  LET fields(x) == <<x.year, x.month, x.day, x.hour, x.min>>
      diff      == {k \in 1 .. 5 : fields(a)[k] # fields(b)[k]}
  IN  IF diff = {} THEN 0 ELSE guint_compare(fields(a)[Min(diff)], fields(b)[Min(diff)])

(* A date without a time is before every time of its day but 0h00.         *)
cal_date_compare(a, b) ==
  LET fields(x) == <<x.year, x.month, x.day, x.hour, x.min>>
      diff      == {k \in 1 .. 5 : fields(a)[k] # fields(b)[k]}
      later(x)  == cal_date_has_time(x) /\ (x.hour > 0 \/ x.min > 0)
  IN  IF diff = {} THEN 0
      ELSE IF Min(diff) <= 3 THEN guint_compare(fields(a)[Min(diff)], fields(b)[Min(diff)])
      ELSE IF ~ cal_date_has_time(a) THEN (IF later(b) THEN -1 ELSE 0)
      ELSE IF ~ cal_date_has_time(b) /\ later(a) THEN 1
      ELSE guint_compare(fields(a)[Min(diff)], fields(b)[Min(diff)])

-----------------------------------------------------------------------------
(* The events of all folders, in one list sorted by start.                 *)

cal_msg_insert(cal_msgs, cmsg) ==
  LET later == {i \in DOMAIN cal_msgs : cal_date_compare(cal_msgs[i].start, cmsg.start) > 0}
  IN  InsertAt(cal_msgs, IF later = {} THEN Len(cal_msgs) + 1 ELSE Min(later), cmsg)

(* An event that stops before it starts is refused.                        *)
cal_msg_ctor(cal_msgs, e) ==
  LET start == cal_date_ctor_from_str(e.start)
      stop  == IF e.stop = <<>> THEN NotSet ELSE cal_date_ctor_from_str(e.stop)
  IN  IF cal_date_is_set(stop) /\ cal_date_compare(start, stop) > 0 THEN cal_msgs
      ELSE cal_msg_insert(cal_msgs, [id |-> e.id, dir |-> e.dir, start |-> start, stop |-> stop])

LastDate(cmsg) == IF cal_date_is_set(cmsg.stop) THEN cmsg.stop ELSE cmsg.start

foreach_event_in_view_between(cal_msgs, dirs, start, stop) ==
  LET after == {i \in DOMAIN cal_msgs : cal_date_compare(cal_msgs[i].start, stop) > 0}
      last  == IF after = {} THEN Len(cal_msgs) ELSE Min(after) - 1
  IN  SelectSeq(SubSeq(cal_msgs, 1, last),
                LAMBDA c : c.dir \in dirs /\ cal_date_compare(LastDate(c), start) >= 0)

reset_month(cal_msgs, dirs, year, month) ==
  [d \in 1 .. month_days(year, month) |->
     foreach_event_in_view_between(cal_msgs, dirs, cal_date_ctor(year, month, d, 0, 0),
                                                   cal_date_ctor(year, month, d, 23, 59))]

(* How many events of the day are shown before the mark of the present.    *)
reset_day(events, now) ==
  LET next == {i \in DOMAIN events : cal_date_compare(now, events[i].start) <= 0}
  IN  IF next = {} THEN Len(events) ELSE Min(next) - 1
=============================================================================
