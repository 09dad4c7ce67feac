----------------------------- MODULE SntpCalendar -----------------------------
(***************************************************************************)
(* src/Internet/SNTP/sntp.c: get_seconds_from_ntp_server and calcdatetime, *)
(* which turn a server's seconds into a local date, and                    *)
(* changedatetime_to_seconds, which turns it back.                         *)
(*                                                                         *)
(* A time is <<days, seconds of the day>> since the start of 1900: the     *)
(* code's seconds, of which the years' loop takes whole days.  A date is   *)
(* Nowdatetime.  A step is one round of a loop.                            *)
(***************************************************************************)
EXTENDS Integers, Sequences

CONSTANTS CalDays,         \* days on which the time is asked for
          CalSeconds,      \* and seconds of the day
          CalZones         \* values of time_zone

Epoch == 1900
SecsPerDay == 86400
LastDay == 49709   \* the last day of the 32-bit seconds, some hours of it

(* The minutes that get_seconds_from_ntp_server adds for each time zone.   *)
ZoneMinutes ==
  << -720, -660, -600, -570, -540, -480, -480, -420, -420, -360,
     -360, -300, -300, -300, -270, -240, -240, -210, -180, -120,
      -60,    0,    0,   60,   60,   60,  120,  120,  180,  180,
      210,  240,  270,  300,  330,  345,  360,  390,  420,  480,
      540,  570,  600,  630,  660,  690,  720,  765,  780,  840 >>

\* A zone west of Greenwich has no first day.
ASSUME CalAssumption ==
  /\ CalDays \subseteq 1 .. LastDay /\ CalSeconds \subseteq 0 .. SecsPerDay - 1
  /\ CalZones \subseteq 0 .. 49

VARIABLES
  calNtp,          \* the time the server sent
  calZone,         \* time_zone
  calAt,           \* which loop is under way, or what was done last
  calYear,         \* r and y of calcdatetime, i of changedatetime_to_seconds
  calMonth,        \* yf, and i
  calDays,         \* the days left; run_year_cnt, and then total_day
  calDate,         \* Nowdatetime, once it was written
  calBack          \* what changedatetime_to_seconds has made of it

calAsked == <<calNtp, calZone>>
calVars == <<calAsked, calAt, calYear, calMonth, calDays, calDate, calBack>>
NoDate == <<>>

CalTypeOK ==
  /\ calNtp \in Nat \X (0 .. SecsPerDay - 1)
  /\ calZone \in CalZones
  /\ calAt \in {"asked", "years", "months", "told", "leaps", "days", "back"}
  /\ calYear \in Nat /\ calMonth \in 1 .. 13 /\ calDays \in Nat
  /\ calDate = NoDate \/ DOMAIN calDate = {"yy", "mo", "dd", "hh", "mm", "ss"}
  /\ calBack = NoDate \/ calBack \in Nat \X (0 .. SecsPerDay - 1)

CalInit ==
  /\ calNtp \in CalDays \X CalSeconds /\ calZone \in CalZones
  /\ calAt = "asked" /\ calYear = Epoch /\ calMonth = 1 /\ calDays = 0
  /\ calDate = NoDate /\ calBack = NoDate

-----------------------------------------------------------------------------
\* The time so many seconds after the start of a day.
TimeAt(day, seconds) == <<day + seconds \div SecsPerDay, seconds % SecsPerDay>>

LocalTime == TimeAt(calNtp[1], calNtp[2] + 60 * ZoneMinutes[calZone + 1])

(* Every fourth year.                                                      *)
LeapJulian(y) == y % 4 = 0

Leap(y) == y % 400 = 0 \/ (y % 100 # 0 /\ y % 4 = 0)

YearDays(y) == IF Leap(y) THEN 366 ELSE 365

MonthDays(y, m) ==
  CASE m = 2 -> IF Leap(y) THEN 29 ELSE 28
    [] m \in {4, 6, 9, 11} -> 30
    [] OTHER -> 31

(* SNTP_run has an answer and calls calcdatetime.                          *)
CalTold ==
  /\ calAt = "asked" /\ calAt' = "years"
  /\ calYear' = Epoch /\ calMonth' = 1 /\ calDays' = LocalTime[1]
  /\ UNCHANGED <<calAsked, calDate, calBack>>

(* The first loop: another year is over.                                   *)
YearPasses ==
  /\ calAt = "years" /\ calDays >= YearDays(calYear)
  /\ calYear' = calYear + 1 /\ calDays' = calDays - YearDays(calYear)
  /\ UNCHANGED <<calAsked, calAt, calMonth, calDate, calBack>>

YearFound ==
  /\ calAt = "years" /\ calDays < YearDays(calYear)
  /\ calAt' = "months"
  /\ UNCHANGED <<calAsked, calYear, calMonth, calDays, calDate, calBack>>

(* The second loop, which is left below 28 days without a look at the      *)
(* month.                                                                  *)
InMonth == calDays < 28 \/ calDays < MonthDays(calYear, calMonth)

MonthPasses ==
  /\ calAt = "months" /\ ~InMonth
  /\ calMonth' = calMonth + 1
  /\ calDays' = calDays - MonthDays(calYear, calMonth)
  /\ UNCHANGED <<calAsked, calAt, calYear, calDate, calBack>>

MonthFound ==
  /\ calAt = "months" /\ InMonth /\ calAt' = "told"
  /\ LET seconds == LocalTime[2]
     IN  calDate' = [yy |-> calYear, mo |-> calMonth, dd |-> calDays + 1,
                     hh |-> seconds \div 3600, mm |-> (seconds % 3600) \div 60,
                     ss |-> (seconds % 3600) % 60]
  /\ UNCHANGED <<calAsked, calYear, calMonth, calDays, calBack>>

(* The days changedatetime_to_seconds adds in the round of month i: those  *)
(* of the month before.                                                    *)
DaysBefore(y, i) ==
  CASE i \in {5, 7, 10, 12} -> 30
    [] i = 3 -> IF Leap(y) THEN 29 ELSE 28
    [] i \in {2, 4, 6, 8, 9, 11} -> 31
    [] OTHER -> 0

(* The application calls changedatetime_to_seconds.                        *)
CalAsksBack ==
  /\ calAt = "told" /\ calAt' = "leaps"
  /\ calYear' = Epoch /\ calDays' = 0
  /\ UNCHANGED <<calAsked, calMonth, calDate, calBack>>

(* Its first loop counts leap years, its second adds the months.           *)
LeapCounted ==
  /\ calAt = "leaps" /\ calYear < calDate.yy
  /\ calYear' = calYear + 1
  /\ calDays' = IF Leap(calYear) THEN calDays + 1 ELSE calDays
  /\ UNCHANGED <<calAsked, calAt, calMonth, calDate, calBack>>

LeapsCounted ==
  /\ calAt = "leaps" /\ calYear >= calDate.yy
  /\ calAt' = "days" /\ calMonth' = 1
  /\ calDays' = (calDate.yy - Epoch - calDays) * 365 + calDays * 366
  /\ UNCHANGED <<calAsked, calYear, calDate, calBack>>

DaysAdded ==
  /\ calAt = "days" /\ calMonth <= calDate.mo
  /\ calMonth' = calMonth + 1
  /\ calDays' = calDays + DaysBefore(calDate.yy, calMonth)
  /\ UNCHANGED <<calAsked, calAt, calYear, calDate, calBack>>

CalReturns ==
  /\ calAt = "days" /\ calMonth > calDate.mo /\ calAt' = "back"
  /\ calBack' = TimeAt(calDays + calDate.dd - 1,
                       calDate.ss + calDate.mm * 60 + calDate.hh * 3600)
  /\ UNCHANGED <<calAsked, calYear, calMonth, calDays, calDate>>

CalNext ==
  \/ CalTold \/ YearPasses \/ YearFound \/ MonthPasses \/ MonthFound
  \/ CalAsksBack \/ LeapCounted \/ LeapsCounted \/ DaysAdded \/ CalReturns
CalSpec == CalInit /\ [][CalNext]_calVars

-----------------------------------------------------------------------------
(* The Gregorian calendar, in years that begin in March: the days from the *)
(* start of 1900 to a date.                                                *)
CivilDay(y, m, d) ==
  LET year  == IF m <= 2 THEN y - 1 ELSE y
      month == (m + 9) % 12
  IN  365 * year + year \div 4 - year \div 100 + year \div 400
        + (153 * month + 2) \div 5 + d - 1 - 693901

\* A month ends on the day before the next one's first.
CivilDate(date) ==
  LET next == IF date.mo = 12 THEN CivilDay(date.yy + 1, 1, 1)
              ELSE CivilDay(date.yy, date.mo + 1, 1)
  IN  date.mo \in 1 .. 12 /\ date.dd \in 1 .. next - CivilDay(date.yy, date.mo, 1)

(* The date the application is told is that of the calendar, in its time   *)
(* zone, to the second, and the way back leads to where it came from       *)
(* (get_seconds_from_ntp_server, calcdatetime, changedatetime_to_seconds). *)
SntpDateIsCivil ==
  /\ calDate # NoDate =>
       /\ CivilDate(calDate)
       /\ LocalTime = <<CivilDay(calDate.yy, calDate.mo, calDate.dd),
                        (calDate.hh * 60 + calDate.mm) * 60 + calDate.ss>>
  /\ calBack # NoDate => calBack = LocalTime
=============================================================================
