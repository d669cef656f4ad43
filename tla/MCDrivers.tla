------------------------------ MODULE MCDrivers ------------------------------
(* The rings of the Ethernet driver, the calendar and the painting.  They     *)
(* share nothing, so each is gone through while the others are as they begin. *)
EXTENDS EnetRing, Calendar, Paint

MCEST == -5

\* The first answer comes at the start of any year; 2104 is folded back to 1968.
MCFirstAnswers == {Instant(DayNumber(y, 1, 1), 0) : y \in 1968 .. 2103}

\* Every hour of the fortnights in which the NTP era ends and daylight saving time
\* starts and ends, in years which start on every day of the week; both ends of the
\* last days of a month, and every day.
EveryHour(tm) ==
  tm.year \in {2023, 2024, 2025, 2026, 2028, 2030, 2036, 2038} /\ tm.month \in {2, 3, 11} /\ tm.day < 16

MCLater(t) ==
  LET tm == gmtime(t)
  IN {IF tm.year = 2104 THEN t
      ELSE IF EveryHour(tm) THEN Sum(t, Hours(1))
      ELSE IF tm.day >= 28 /\ t.second = 0 THEN Instant(t.day, 86399)
      ELSE Instant(t.day + 1, 0)}

\* A time of four characters with every digit in both places of the minute, and
\* times of five before and after noon; what days of the week, temperatures and
\* descriptions need in room.
MCFaces ==
  {[hour |-> q[1], min |-> IF q[2] < 6 THEN 11 * q[2] ELSE 11 * q[2] - 60, wday |-> q[2] % 7,
    temperature |-> <<72, -99, 104, -8, 5>>[(q[2] % 5) + 1],
    description |-> <<0, 18, 19, 37>>[(q[2] % 4) + 1]] :
     q \in ({9} \X (0 .. 9)) \union {<<0, 7>>, <<12, 3>>}}

MCNext ==
  \/ Next /\ server = NoAnswer /\ face = Blank /\ UNCHANGED <<calendarVars, paintVars>>
  \/ Init /\ CalendarNext /\ face = Blank /\ UNCHANGED <<vars, paintVars>>
  \/ Init /\ server = NoAnswer /\ PaintNext /\ UNCHANGED <<vars, calendarVars>>

MCInit == Init /\ CalendarInit /\ PaintInit

MCSpec ==
  /\ MCInit
  /\ [][MCNext]_<<vars, calendarVars, paintVars>>
  /\ Fairness
=============================================================================
