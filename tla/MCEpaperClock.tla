---------------------------- MODULE MCEpaperClock ----------------------------
(* Small instances of EpaperClock: minutes of 12 seconds, hours of 2 minutes. *)
EXTENDS EpaperClock

MCFrames == SUBSET (0 .. Minutes - 1)
MCBlank == {}
MCNoFrame == {-1}

\* West of Greenwich.
MCTimeZone == -1

\* SNTP finds the clock slow by a second, or right.
CatchUp == {0, 1}
\* SNTP corrects the clock by a second either way.
SecondJumps == {-1, 0, 1}
\* The second day of the Cycle has daylight saving time.
SummerDay == 2 .. 3
=============================================================================
