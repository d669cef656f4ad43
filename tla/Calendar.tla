------------------------------ MODULE Calendar ------------------------------
(***************************************************************************)
(* From the seconds of an NTP answer to the local time on the screen:      *)
(* sntp_process(), the conversions of drivers/fsl_rtc.c, getLocalizedTime()*)
(* and isDst() of the main program.                                        *)
(*                                                                         *)
(* An instant is [day, second]: TLC's integers do not hold a u32, and every*)
(* conversion splits its seconds by 86400 first.  time_t is wide and signed.*)
(***************************************************************************)
EXTENDS Integers

CONSTANTS
  EST,           \* hours from UTC
  FirstAnswers,  \* instants which the first answer may tell
  Later(_),      \* the instants the next answer may tell
  NoAnswer

VARIABLES
  server,    \* the instant of the last answer, since 1970
  rtc        \* the RTC's seconds register

calendarVars == <<server, rtc>>

Instant(d, s) == [day |-> d + s \div 86400, second |-> s % 86400]

Sum(t, u) == Instant(t.day + u.day, t.second + u.second)

Before(t, u) == t.day < u.day \/ (t.day = u.day /\ t.second < u.second)

\* Arithmetic of u32: 2^32 seconds are 49710 days and 23296 seconds.
U32(t) ==
  IF t.day < 0 THEN Sum(t, Instant(49710, 23296))
  ELSE IF Before(t, Instant(49710, 23296)) THEN t
  ELSE Sum(t, Instant(-49710, -23296))

DIFF_SEC_1970_2036 == Instant(24143, 23296)

\* The seconds since 1900 in 32 bits, as the server puts them into its answer.
xmit(t) == U32(Sum(t, Instant(25567, 0)))
-----------------------------------------------------------------------------
(* drivers/fsl_rtc.c                                                        *)

DaysPerMonth(leap) == <<31, IF leap THEN 29 ELSE 28, 31, 30, 31, 30, 31, 31, 30, 31, 30, 31>>

\* Days of a common year before each month; before the 13th, all of them.
monthDays == <<0, 31, 59, 90, 120, 151, 181, 212, 243, 273, 304, 334, 365>>

DaysBeforeMonth(leap, m) == monthDays[m] + (IF leap /\ m > 2 THEN 1 ELSE 0)

\* What the loop over the years has taken from the days when it reaches a year:
\* every fourth year is a leap year.
DaysBeforeYear(year) == 365 * (year - 1970) + ((year - 1) \div 4 - 1969 \div 4)

RTC_ConvertSecondsToDatetime(t) ==
  LET days == t.day + 1
      year == CHOOSE y \in 1970 .. 2106 :
                DaysBeforeYear(y) < days /\ days <= DaysBeforeYear(y + 1)
      left == days - DaysBeforeYear(year)
      before(m) == DaysBeforeMonth(year % 4 = 0, m)
      month == CHOOSE m \in 1 .. 12 : before(m) < left /\ left <= before(m + 1)
  IN [year |-> year, month |-> month, day |-> left - before(month), second |-> t.second]

RTC_CheckDatetimeFormat(date) ==
  LET leap == (date.year % 4 = 0 /\ date.year % 100 # 0) \/ date.year % 400 = 0
  IN /\ date.year \in 1970 .. 2099
     /\ date.month \in 1 .. 12
     /\ 0 <= date.second /\ date.second < 86400
     /\ date.day \in 1 .. DaysPerMonth(leap)[date.month]

\* Mutant of RTC_ConvertDatetimeToSeconds: the leap day belongs to January.
ConvertDatetimeJanuary(date) ==
  Instant((date.year - 1970) * 365 + (date.year \div 4 - 1970 \div 4)
            + monthDays[date.month] + (date.day - 1)
            - (IF date.year % 4 = 0 /\ date.month < 2 THEN 1 ELSE 0),
          date.second)

RTC_ConvertDatetimeToSeconds(date) ==
  Instant((date.year - 1970) * 365 + (date.year \div 4 - 1970 \div 4)
            + monthDays[date.month] + (date.day - 1)
            - (IF date.year % 4 = 0 /\ date.month <= 2 THEN 1 ELSE 0),
          date.second)
-----------------------------------------------------------------------------
(* main_epaper_clock.c                                                      *)

\* gmtime() by the Gregorian rules: the date whose day is the given one.
IsLeap(year) == (year % 4 = 0 /\ year % 100 # 0) \/ year % 400 = 0

DayNumber(year, month, day) ==
  365 * (year - 1970) + ((year - 1) \div 4 - 492) - ((year - 1) \div 100 - 19)
    + ((year - 1) \div 400 - 4) + DaysBeforeMonth(IsLeap(year), month) + day - 1

gmtime(t) ==
  LET guess == 1970 + t.day \div 366
      year == CHOOSE y \in guess - 1 .. guess + 1 :
                DayNumber(y, 1, 1) <= t.day /\ t.day < DayNumber(y + 1, 1, 1)
      month == CHOOSE m \in 1 .. 12 :
                 DayNumber(year, m, 1) <= t.day /\ t.day < DayNumber(year, m + 1, 1)
  IN [year |-> year, month |-> month, day |-> t.day - DayNumber(year, month, 1) + 1,
      second |-> t.second, wday |-> (t.day + 4) % 7]

\* Mutant of isDst: the second Sunday is no earlier than the 9th.
isDstLate(tm) ==
  LET previousSunday == tm.day - tm.wday
  IN \/ 3 < tm.month /\ tm.month < 11
     \/ tm.month = 3 /\ previousSunday > 8
     \/ tm.month = 11 /\ previousSunday <= 0

isDst(tm) ==
  LET previousSunday == tm.day - tm.wday
  IN \/ 3 < tm.month /\ tm.month < 11
     \/ tm.month = 3 /\ previousSunday >= 8
     \/ tm.month = 11 /\ previousSunday <= 0

Hours(n) == Instant(0, 3600 * n)

getLocalizedTime(utc) ==
  LET standard == Sum(utc, Hours(EST))
  IN gmtime(IF isDst(gmtime(standard)) THEN Sum(utc, Hours(EST + 1)) ELSE standard)
-----------------------------------------------------------------------------
(* sntp_process()                                                           *)

internet_time(sec) == U32(Sum(sec, DIFF_SEC_1970_2036))

\* The driver may refuse the date; its result is printed, no more.
sntp_process(t) ==
  LET date == RTC_ConvertSecondsToDatetime(internet_time(xmit(t)))
  IN /\ server' = t
     /\ rtc' = IF RTC_CheckDatetimeFormat(date) THEN RTC_ConvertDatetimeToSeconds(date) ELSE rtc

CalendarInit == server = NoAnswer /\ rtc = Instant(0, 0)

CalendarNext ==
  \E t \in IF server = NoAnswer THEN FirstAnswers ELSE Later(server) : sntp_process(t)

CalendarSpec == CalendarInit /\ [][CalendarNext]_calendarVars
-----------------------------------------------------------------------------
(* Properties                                                               *)

\* Conversion, check and conversion back neither refuse nor move an answer of the
\* years the driver knows, on either side of the NTP era of 2036; after an answer of
\* other years, which 32 bits may fold back, the RTC still holds a time of these.
RtcHoldsServerTime ==
  server # NoAnswer =>
    IF server.day \in 0 .. DayNumber(2100, 1, 1) - 1
    THEN rtc = server
    ELSE rtc.day \in 0 .. DayNumber(2100, 1, 1) - 1

\* The n-th Sunday of a month, as a day since 1970.
Sunday(n, month, year) ==
  CHOOSE day \in DayNumber(year, month, 7 * n - 6) .. DayNumber(year, month, 7 * n) :
    (day + 4) % 7 = 0

\* The United States' rule in standard time: from two o'clock on the second Sunday
\* of March to one o'clock on the first of November.
Begins(year) == Instant(Sunday(2, 3, year), 7200)
Ends(year) == Instant(Sunday(1, 11, year), 3600)

DaylightSaving(t) ==
  LET year == gmtime(t).year IN ~ Before(t, Begins(year)) /\ Before(t, Ends(year))

\* From midnight of the two Sundays to the hour at which the rule switches.
SwitchNight(t) ==
  \E switch \in {Begins(gmtime(t).year), Ends(gmtime(t).year)} :
    t.day = switch.day /\ t.second < switch.second

\* getLocalizedTime shows the local time of the rule, but in those two nights of
\* a year, in which isDst, given a date and no hour, is ahead of it.
LocalTimeRight ==
  LET standard == Sum(rtc, Hours(EST))
      right == Sum(standard, Hours(IF DaylightSaving(standard) THEN 1 ELSE 0))
  IN (getLocalizedTime(rtc) = gmtime(right)) <=> ~ SwitchNight(standard)
=============================================================================
