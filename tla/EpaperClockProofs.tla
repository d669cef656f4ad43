-------------------------- MODULE EpaperClockProofs --------------------------
(***************************************************************************)
(* Theorems about EpaperClock for all lengths of minutes, hours and days,  *)
(* all refresh times, time zones and corrections.                          *)
(***************************************************************************)
EXTENDS EpaperClock, FiniteSetTheorems, TLAPS

USE DEF tm_sec, tm_min, tm_hour, Hour

-----------------------------------------------------------------------------
(* Time                                                                     *)

\* A Cycle has at least one minute, of SecsPerMin seconds.
LEMMA CycleLength == /\ Minutes \in Nat \ {0}
                     /\ Cycle \in Nat \ {0}
                     /\ Cycle = SecsPerMin * Minutes
<1>1. Hours \in Nat \ {0}
  BY LengthsAssumption DEF Hours
<1>2. Minutes \in Nat \ {0}
  BY <1>1, LengthsAssumption DEF Minutes
<1>3. Cycle \in Nat \ {0}
  BY <1>2, LengthsAssumption DEF Cycle
<1> QED
  BY <1>2, <1>3 DEF Cycle

\* A sum taken modulo the Cycle is a time: the RTC and both conversions of
\* getLocalizedTime wrap.
LEMMA Wraps == ASSUME NEW t \in Int PROVE t % Cycle \in Times
  BY CycleLength DEF Times

\* The first second, to which RTC_Init sets an invalid RTC, is a time.
LEMMA FirstSecond == 1 \in Times
<1>1. SecsPerMin \in Nat /\ SecsPerMin >= 2
  BY LengthsAssumption
<1>2. SecsPerMin * Minutes = SecsPerMin + SecsPerMin * (Minutes - 1) /\ Minutes - 1 \in Nat
  BY <1>1, CycleLength
<1>3. SecsPerMin * (Minutes - 1) >= 0
  BY <1>1, <1>2
<1> QED
  BY <1>1, <1>2, <1>3, CycleLength DEF Times

\* Every time lies in one of the Minutes.
LEMMA MinuteRange == ASSUME NEW t \in Times PROVE Minute(t) \in 0 .. Minutes - 1
<1> DEFINE q == t \div SecsPerMin
<1>1. t \in Nat /\ t < SecsPerMin * Minutes /\ SecsPerMin \in Nat \ {0} /\ Minutes \in Nat
  BY CycleLength, LengthsAssumption DEF Times
<1>2. q \in Nat /\ SecsPerMin * q <= t
  BY <1>1
<1>3. q < Minutes
  <2> SUFFICES ASSUME q >= Minutes PROVE FALSE
    BY <1>1, <1>2
  <2> HIDE DEF q
  <2>1. q - Minutes \in Nat /\ q = Minutes + (q - Minutes)
    BY <1>1, <1>2
  <2>2. SecsPerMin * q = SecsPerMin * Minutes + SecsPerMin * (q - Minutes)
    BY <2>1, <1>1, <1>2
  <2>3. SecsPerMin * (q - Minutes) >= 0
    BY <2>1, <1>1
  <2> QED
    BY <2>2, <2>3, <1>1, <1>2
<1> QED
  BY <1>1, <1>2, <1>3 DEF Minute

\* The local time is a time.
LEMMA LocalTime == ASSUME NEW t \in Times PROVE getLocalizedTime(t) \in Times
<1> DEFINE hour == SecsPerMin * MinsPerHour
           standard == (t + hour * TimeZone) % Cycle
<1>1. hour \in Int /\ t \in Int
  BY LengthsAssumption DEF Times
<1>2. hour * TimeZone \in Int
  BY <1>1, ZoneAssumption
<1>3. standard \in Times
  BY <1>1, <1>2, Wraps
<1>4. standard + hour \in Int
  BY <1>1, <1>3 DEF Times
<1>5. (standard + hour) % Cycle \in Times
  BY <1>4, Wraps
<1>6. getLocalizedTime(t) = IF isDst(standard) THEN (standard + hour) % Cycle ELSE standard
  BY DEF getLocalizedTime
<1> QED
  BY <1>3, <1>5, <1>6

-----------------------------------------------------------------------------
(* Types                                                                    *)

USE DEF Goto, rtcVars, threadVars, historyVars, panelVars

\* The driver calls leave a frame in each register.
LEMMA PanelTypes ==
  ASSUME PanelTypeOK, NEW f \in Frames
  PROVE /\ WriteSram(f) => sram' \in Frames
        /\ StartDrawing(f) => /\ drawing' \in Frames \union {NoFrame}
                              /\ age' \in Nat /\ screen' \in Frames
        /\ \A m \in Modes : einkSetRefreshMode(m) => mode' \in Modes
        /\ einkDisplayFrameFromBufferNonBlocking(f) => PanelTypeOK'
        /\ einkClearFrame => sram' \in Frames
        /\ PanelDone => PanelTypeOK'
        /\ PanelTick => PanelTypeOK'
  BY FramesAssumption
  DEF PanelTypeOK, WriteSram, StartDrawing, einkSetRefreshMode, Written, isBusy,
      einkDisplayFrameFromBufferNonBlocking, einkClearFrame, PanelDone, PanelTick, Modes

\* TypeOK is not inductive: the loop that clears the panel counts down before
\* it tests, and only stays above zero because it is entered with refreshes
\* left to do.
TypeInv ==
  /\ TypeOK
  /\ pc = "refresh" => left > 0

\* The types hold at first.
LEMMA InitTypeOK == Init => TypeInv
<1> SUFFICES ASSUME Init PROVE TypeInv
  OBVIOUS
<1>1. PanelTypeOK
  BY FramesAssumption DEF Init, PanelInit, PanelTypeOK, Modes
<1>2. 0 \in Times
  BY CycleLength DEF Times
<1>3. -1 \in -1 .. Minutes - 1 /\ 0 \in 0 .. MaxStall /\ 0 \in 0 .. MaxSteady
  BY CycleLength, NetAssumption, LengthsAssumption DEF MaxSteady
<1>4. pc \in Places /\ pc # "refresh"
  BY DEF Init, Places, BootPlaces
<1>5. imgBuffer \subseteq 0 .. Minutes - 1 /\ left \in 0 .. 3
  BY DEF Init
<1>6. rtc \in Times /\ timeinfo \in Times /\ running \in BOOLEAN /\ g_SecsFlag \in BOOLEAN
  BY <1>2 DEF Init
<1>7. asked \in -1 .. Minutes - 1 /\ stall \in 0 .. MaxStall /\ steady \in 0 .. MaxSteady
  BY <1>3 DEF Init
<1> QED
  BY <1>1, <1>4, <1>5, <1>6, <1>7 DEF TypeInv, TypeOK

\* Every step keeps the types, one step below for each action.
LEMMA StepTypeOK == TypeInv /\ [Next]_vars => TypeInv'
<1> SUFFICES ASSUME TypeInv, [Next]_vars PROVE TypeInv'
  OBVIOUS
<1> USE DEF TypeInv, TypeOK, Places, BootPlaces, LoopPlaces, UpdatePlaces
<1>a. PanelTypeOK /\ Blank \in Frames /\ FULL_REFRESH \in Modes /\ FAST_REFRESH \in Modes
  BY FramesAssumption DEF Modes
<1>b. \A t \in Times : getLocalizedTime(t) \in Times /\ Minute(t) \in 0 .. Minutes - 1
  BY LocalTime, MinuteRange
<1>1. CASE BootClear
  BY <1>1, <1>a, PanelTypes DEF BootClear, PanelTypeOK
<1>2. CASE BootRefresh
  BY <1>2, <1>a, PanelTypes DEF BootRefresh, PanelTypeOK
<1>3. CASE DhcpBound
  BY <1>3 DEF DhcpBound, PanelTypeOK
<1>4. CASE RtcInit
  BY <1>4, FirstSecond, WarmAssumption DEF RtcInit, PanelTypeOK
<1>5. CASE BootWait
  BY <1>5, <1>a, PanelTypes DEF BootWait, PanelTypeOK
<1>6. CASE Poll
  BY <1>6 DEF Poll, PanelTypeOK
<1>7. ASSUME NEW t \in Times, SntpSet(t) PROVE TypeInv'
  BY <1>7, LengthsAssumption DEF SntpSet, PanelTypeOK, MaxSteady
<1>8. CASE TestFlag
  BY <1>8 DEF TestFlag, PanelTypeOK
<1>9. CASE Read
  <2>1. timeinfo' \in Times
    BY <1>9, <1>b DEF Read
  <2>2. pc' \in Places
    BY <1>9 DEF Read
  <2> QED
    BY <1>9, <2>1, <2>2, NetAssumption DEF Read, PanelTypeOK
<1>10. CASE SetFull
  BY <1>10, <1>a, PanelTypes DEF SetFull, PanelTypeOK
<1>11. CASE Clear
  BY <1>11, <1>a, PanelTypes DEF Clear, PanelTypeOK
<1>12. CASE Refresh
  BY <1>12, <1>a, PanelTypes DEF Refresh, PanelTypeOK
<1>13. CASE Wait
  BY <1>13 DEF Wait, PanelTypeOK
<1>14. CASE SetFast
  BY <1>14, <1>a, PanelTypes DEF SetFast, PanelTypeOK
<1>15. CASE Paint
  BY <1>15, <1>b DEF Paint, PanelTypeOK, FaceOf
<1>16. CASE Push
  BY <1>16, <1>a, PanelTypes, FaceAssumption DEF Push, PanelTypeOK
<1>17. CASE AskWeather
  BY <1>17, <1>b, CycleLength DEF AskWeather, PanelTypeOK
<1>18. CASE RTC_Seconds_IRQHandler
  <2>1. PanelTypeOK' /\ rtc' \in Times
    BY <1>18, <1>a, PanelTypes, Wraps DEF RTC_Seconds_IRQHandler, Times
  <2>2. stall' \in 0 .. MaxStall
    BY <1>18, NetAssumption DEF RTC_Seconds_IRQHandler
  <2>3. steady' \in 0 .. MaxSteady
    BY <1>18, LengthsAssumption DEF RTC_Seconds_IRQHandler, MaxSteady
  <2> QED
    BY <1>18, <2>1, <2>2, <2>3 DEF RTC_Seconds_IRQHandler
<1>19. CASE PanelFinishes
  BY <1>19, <1>a, PanelTypes DEF PanelFinishes
<1>20. CASE UNCHANGED vars
  BY <1>20 DEF vars, PanelTypeOK
<1> QED
  BY <1>1, <1>2, <1>3, <1>4, <1>5, <1>6, <1>7, <1>8, <1>9, <1>10, <1>11, <1>12, <1>13,
     <1>14, <1>15, <1>16, <1>17, <1>18, <1>19, <1>20
  DEF Next, Thread, Boot, updateData

\* Every variable keeps its type: among others the counter of the RTC and the
\* local time wrap at the Cycle, whatever SNTP sets, and the clearing loop of
\* updateData never asks for more refreshes than three.
THEOREM TypeCorrect == Spec => []TypeOK
<1>1. TypeInv => TypeOK
  BY DEF TypeInv
<1> QED
  BY <1>1, InitTypeOK, StepTypeOK, PTL DEF Spec

-----------------------------------------------------------------------------
(* No overprint                                                             *)

\* A frame that shows nothing or a single minute.
OneMinute(f) == f = {} \/ \E m \in 0 .. Minutes - 1 : f = {m}

\* Every frame on its way to the screen shows one minute, because updateData
\* finds the image buffer empty and leaves it empty, whatever the panel did
\* with the frame: the buffer has a minute in it only between the two.
ImageInv ==
  /\ OneMinute(sram)
  /\ OneMinute(screen)
  /\ drawing # NoFrame => OneMinute(drawing)
  /\ IF pc = "push" THEN OneMinute(imgBuffer) ELSE imgBuffer = {}

\* A frame of one minute has one minute at most.
LEMMA OneMinuteCardinality ==
  ASSUME NEW f, OneMinute(f)
  PROVE Cardinality(f) <= 1
<1>1. CASE f = {}
  BY <1>1, FS_EmptySet
<1>2. CASE \E m \in 0 .. Minutes - 1 : f = {m}
  <2>1. PICK m : f = {m}
    BY <1>2
  <2>2. Cardinality({m}) = 1
    BY FS_Singleton
  <2> QED
    BY <2>1, <2>2
<1> QED
  BY <1>1, <1>2 DEF OneMinute

\* The invariant on the frames gives the property.
LEMMA ImageInvHolds == ImageInv => NoOverprint
<1> SUFFICES ASSUME ImageInv, NEW f \in {sram, drawing, screen, imgBuffer} \ {NoFrame}
             PROVE Cardinality(f) <= 1
  BY DEF NoOverprint
<1>1. OneMinute(f)
  BY DEF ImageInv, OneMinute
<1> QED
  BY <1>1, OneMinuteCardinality

\* The driver calls write and draw the frame they are given, or none.
LEMMA PanelKeepsMinutes ==
  ASSUME ImageInv, NEW f, OneMinute(f), f # NoFrame
  PROVE /\ WriteSram(f) => OneMinute(sram')
        /\ StartDrawing(f) => /\ drawing' # NoFrame => OneMinute(drawing')
                              /\ OneMinute(screen')
        /\ einkDisplayFrameFromBufferNonBlocking(f) \/ PanelDone \/ PanelTick
             => /\ OneMinute(sram') /\ OneMinute(screen')
                /\ drawing' # NoFrame => OneMinute(drawing')
<1> USE DEF ImageInv, Written, isBusy, WriteSram, StartDrawing
<1>1. WriteSram(f) => OneMinute(sram')
  OBVIOUS
<1>2. StartDrawing(f) => /\ drawing' # NoFrame => OneMinute(drawing')
                         /\ OneMinute(screen')
  OBVIOUS
<1>3. ASSUME einkDisplayFrameFromBufferNonBlocking(f)
      PROVE /\ OneMinute(sram') /\ OneMinute(screen')
            /\ drawing' # NoFrame => OneMinute(drawing')
  BY <1>3 DEF einkDisplayFrameFromBufferNonBlocking
<1>4. ASSUME PanelDone \/ PanelTick
      PROVE /\ OneMinute(sram') /\ OneMinute(screen')
            /\ drawing' # NoFrame => OneMinute(drawing')
  BY <1>4 DEF PanelDone, PanelTick
<1> QED
  BY <1>1, <1>2, <1>3, <1>4

\* At first all frames are blank.
LEMMA InitImageInv == Init => ImageInv
  BY FaceAssumption DEF Init, PanelInit, ImageInv, OneMinute

\* Every step leaves one minute at most in each frame.
LEMMA StepImageInv == TypeOK /\ ImageInv /\ [Next]_vars => ImageInv'
<1> SUFFICES ASSUME TypeOK, ImageInv, [Next]_vars PROVE ImageInv'
  OBVIOUS
<1>a. OneMinute({}) /\ OneMinute(Blank) /\ Blank # NoFrame
  BY FaceAssumption, FramesAssumption DEF OneMinute
<1>b. \A t \in Times : OneMinute(FaceOf(t))
  BY MinuteRange DEF OneMinute, FaceOf
\* Steps that leave the panel and the buffer alone.
<1>1. CASE \/ DhcpBound \/ RtcInit \/ BootWait \/ Poll \/ TestFlag \/ SetFull \/ Wait
           \/ SetFast \/ AskWeather \/ UNCHANGED vars
  BY <1>1 DEF DhcpBound, RtcInit, BootWait, Poll, TestFlag, SetFull, Wait, SetFast,
              AskWeather, vars, ImageInv
<1>2. CASE Read
  BY <1>2 DEF Read, ImageInv
<1>3. ASSUME NEW t \in Times, SntpSet(t) PROVE ImageInv'
  BY <1>3 DEF SntpSet, ImageInv
\* Steps that write to the panel.
<1>4. CASE BootClear \/ Clear
  BY <1>4, <1>a, PanelKeepsMinutes DEF BootClear, Clear, einkClearFrame, ImageInv
<1>5. CASE BootRefresh \/ Refresh
  <2>1. OneMinute(sram) /\ sram # NoFrame
    BY FramesAssumption DEF ImageInv, TypeOK, PanelTypeOK
  <2> QED
    BY <1>5, <2>1, PanelKeepsMinutes DEF BootRefresh, Refresh, ImageInv
<1>6. CASE Paint
  <2>1. imgBuffer' = FaceOf(timeinfo) /\ pc' = "push"
    BY <1>6 DEF Paint, ImageInv
  <2> QED
    BY <1>6, <2>1, <1>b DEF Paint, ImageInv, TypeOK
<1>7. CASE Push
  <2>1. OneMinute(imgBuffer) /\ imgBuffer # NoFrame
    BY <1>7, FaceAssumption, FramesAssumption DEF Push, ImageInv, TypeOK
  <2> QED
    BY <1>7, <2>1, PanelKeepsMinutes DEF Push, ImageInv
<1>8. CASE RTC_Seconds_IRQHandler
  BY <1>8, <1>a, PanelKeepsMinutes DEF RTC_Seconds_IRQHandler, ImageInv
<1>9. CASE PanelFinishes
  BY <1>9, <1>a, PanelKeepsMinutes DEF PanelFinishes, ImageInv
<1> QED
  BY <1>1, <1>2, <1>3, <1>4, <1>5, <1>6, <1>7, <1>8, <1>9
  DEF Next, Thread, Boot, updateData

\* However late the thread is, whatever SNTP does to the clock and whatever a
\* busy panel makes of a command, no frame in the buffer, in the panel or on
\* the screen ever has the digits of two minutes on top of each other.
THEOREM NeverOverprints == Spec => []NoOverprint
  BY InitImageInv, StepImageInv, ImageInvHolds, TypeCorrect, PTL DEF Spec

-----------------------------------------------------------------------------
(* Fast refreshes                                                           *)

\* The panel is idle when updateData goes back to the fast tables, so this
\* command is obeyed; and it is in full mode only on the way there.
ModeInv ==
  /\ pc \in LoopPlaces \union {"read", "setFull", "askWeather", "paint", "push"}
       => mode = FAST_REFRESH
  /\ pc \in {"clear", "refresh", "wait"} /\ tm_hour(timeinfo) # 0 => mode = FAST_REFRESH
  /\ pc = "setFull" => tm_hour(timeinfo) = 0
  /\ pc = "setFast" => ~isBusy

\* At first the thread is at none of these places.
LEMMA InitModeInv == Init => ModeInv
  BY DEF Init, ModeInv, LoopPlaces

\* Every step keeps what is known of the refresh mode at each place of the loop.
LEMMA StepModeInv == TypeOK /\ ModeInv /\ [Next]_vars => ModeInv'
<1> SUFFICES ASSUME TypeOK, ModeInv, [Next]_vars PROVE ModeInv'
  OBVIOUS
<1> USE DEF ModeInv, LoopPlaces, isBusy
<1> HIDE DEF tm_hour, tm_min, tm_sec
<1>1. CASE BootClear \/ BootRefresh \/ DhcpBound \/ RtcInit
  BY <1>1 DEF BootClear, BootRefresh, DhcpBound, RtcInit
<1>2. CASE BootWait \/ SetFast
  BY <1>2 DEF BootWait, SetFast, einkSetRefreshMode, Written
<1>3. CASE Poll \/ TestFlag \/ AskWeather \/ UNCHANGED vars
  BY <1>3 DEF Poll, TestFlag, AskWeather, vars
<1>4. ASSUME NEW t \in Times, SntpSet(t) PROVE ModeInv'
  BY <1>4 DEF SntpSet
<1>5. CASE Read
  BY <1>5 DEF Read
<1>6. CASE SetFull
  BY <1>6 DEF SetFull
<1>7. CASE Clear \/ Refresh
  BY <1>7 DEF Clear, Refresh
<1>8. CASE Wait
  <2>1. left \in Nat
    BY DEF TypeOK
  <2> QED
    BY <1>8, <2>1 DEF Wait
<1>9. CASE Paint
  BY <1>9 DEF Paint
<1>10. CASE Push
  BY <1>10 DEF Push, einkDisplayFrameFromBufferNonBlocking
<1>11. CASE RTC_Seconds_IRQHandler
  BY <1>11 DEF RTC_Seconds_IRQHandler, PanelTick
<1>12. CASE PanelFinishes
  BY <1>12 DEF PanelFinishes, PanelDone
<1> QED
  BY <1>1, <1>2, <1>3, <1>4, <1>5, <1>6, <1>7, <1>8, <1>9, <1>10, <1>11, <1>12
  DEF Next, Thread, Boot, updateData

\* Minutes are drawn by fast refreshes only, although updateData changes the
\* mode by commands a busy panel may ignore.
THEOREM DrawsFast == Spec => []FastBetweenUpdates
<1>1. ModeInv => FastBetweenUpdates
  BY DEF ModeInv, FastBetweenUpdates
<1> QED
  BY <1>1, InitModeInv, StepModeInv, TypeCorrect, PTL DEF Spec

-----------------------------------------------------------------------------
(* Minutes and seconds                                                      *)

\* Quotient and remainder are unique.
LEMMA Division ==
  ASSUME NEW n \in Nat \ {0}, NEW q \in Int, NEW r \in 0 .. n - 1
  PROVE  (n * q + r) % n = r /\ (n * q + r) \div n = q
<1>1. PICK a \in Int : a = n * q + r
  OBVIOUS
<1>2. PICK p \in Int, s \in 0 .. n - 1 : p = a \div n /\ s = a % n /\ a = n * p + s
  BY <1>1
<1>3. PICK d \in Int : d = p - q
  OBVIOUS
<1>4. n * p = n * q + n * d
  BY <1>3
<1>5. n * d = r - s
  BY <1>1, <1>2, <1>4
<1>6. d = 0
  <2>1. CASE d >= 1
    <3>1. PICK e \in Nat : d = e + 1
      BY <2>1
    <3>2. n * d = n + n * e /\ n * e >= 0
      BY <3>1
    <3> QED
      BY <1>5, <3>2
  <2>2. CASE d <= -1
    <3>1. PICK e \in Nat : d = -1 - e
      BY <2>2
    <3>2. n * d = -n - n * e /\ n * e >= 0
      BY <3>1
    <3> QED
      BY <1>5, <3>2
  <2> QED
    BY <2>1, <2>2
<1> QED
  BY <1>1, <1>2, <1>3, <1>5, <1>6

\* Every number has a quotient and a remainder.
LEMMA Divides ==
  ASSUME NEW n \in Nat \ {0}, NEW a \in Int
  PROVE  \E q \in Int, r \in 0 .. n - 1 : q = a \div n /\ r = a % n /\ a = n * q + r
  OBVIOUS

\* A second of a minute of the Cycle.
LEMMA Second ==
  ASSUME NEW m \in 0 .. Minutes - 1, NEW s \in 0 .. SecsPerMin - 1
  PROVE  /\ SecsPerMin * m + s \in Times
         /\ tm_sec(SecsPerMin * m + s) = s /\ Minute(SecsPerMin * m + s) = m
<1>1. SecsPerMin \in Nat \ {0} /\ Minutes \in Nat \ {0} /\ m \in Int
  BY LengthsAssumption, CycleLength
<1>2. PICK d \in Nat : Minutes = m + 1 + d
  BY <1>1
<1>3. SecsPerMin * Minutes = SecsPerMin * m + SecsPerMin + SecsPerMin * d
  BY <1>1, <1>2
<1>4. SecsPerMin * d \in Nat /\ SecsPerMin * m \in Nat
  BY <1>1
<1>5. SecsPerMin * m + s \in Times
  BY <1>1, <1>3, <1>4, CycleLength DEF Times
<1> QED
  BY <1>1, <1>5, Division DEF Minute

\* Every time is such a second.
LEMMA TimeIs ==
  ASSUME NEW t \in Times
  PROVE  /\ Minute(t) \in 0 .. Minutes - 1 /\ tm_sec(t) \in 0 .. SecsPerMin - 1
         /\ t = SecsPerMin * Minute(t) + tm_sec(t)
<1>1. SecsPerMin \in Nat \ {0} /\ t \in Nat
  BY LengthsAssumption, CycleLength DEF Times
<1> QED
  BY <1>1, MinuteRange DEF Minute

\* A second later it is the next second of the minute, or the first of another.
LEMMA NextSecond ==
  ASSUME NEW t \in Times
  PROVE  LET u == (t + 1) % Cycle
         IN IF tm_sec(t) + 1 < SecsPerMin
            THEN Minute(u) = Minute(t) /\ tm_sec(u) = tm_sec(t) + 1
            ELSE tm_sec(u) = 0
<1> HIDE DEF tm_sec
<1>1. PICK m \in 0 .. Minutes - 1, s \in 0 .. SecsPerMin - 1 :
        m = Minute(t) /\ s = tm_sec(t) /\ t = SecsPerMin * m + s
  BY TimeIs
<1>2. SecsPerMin \in Nat \ {0} /\ Minutes \in Nat \ {0}
  BY LengthsAssumption, CycleLength
<1>3. \A v \in Times : v % Cycle = v
  BY CycleLength DEF Times
<1>4. CASE s + 1 < SecsPerMin
  <2>1. s + 1 \in 0 .. SecsPerMin - 1 /\ t + 1 = SecsPerMin * m + (s + 1)
    BY <1>1, <1>2, <1>4
  <2>2. t + 1 \in Times /\ Minute(t + 1) = m /\ tm_sec(t + 1) = s + 1
    BY <2>1, Second
  <2> QED
    BY <1>1, <1>3, <1>4, <2>2
<1>5. CASE ~ (s + 1 < SecsPerMin)
  <2>1. s + 1 = SecsPerMin /\ 0 \in 0 .. SecsPerMin - 1
    BY <1>2, <1>5
  <2>2. t + 1 = SecsPerMin * (m + 1) + 0
    BY <1>1, <1>2, <2>1
  <2>3. CASE m + 1 \in 0 .. Minutes - 1
    <3>1. t + 1 \in Times /\ tm_sec(t + 1) = 0
      BY <2>1, <2>2, <2>3, Second
    <3> QED
      BY <1>1, <1>3, <1>5, <3>1
  <2>4. CASE m + 1 \notin 0 .. Minutes - 1
    <3>1. m + 1 = Minutes
      BY <1>2, <2>4
    <3>2. t + 1 = Cycle
      BY <1>2, <2>2, <3>1, CycleLength
    <3>3. Cycle % Cycle = 0
      BY CycleLength
    <3>4. tm_sec(0) = 0
      BY <1>2 DEF tm_sec
    <3> QED
      BY <1>1, <1>5, <3>2, <3>3, <3>4
  <2> QED
    BY <2>3, <2>4
<1> QED
  BY <1>4, <1>5

\* Whole minutes shift the minute and keep the second.
LEMMA ShiftByMinutes ==
  ASSUME NEW t \in Times, NEW k \in Int
  PROVE  LET u == (t + SecsPerMin * k) % Cycle
         IN /\ u \in Times
            /\ tm_sec(u) = tm_sec(t)
            /\ Minute(u) = (Minute(t) + k) % Minutes
<1> HIDE DEF tm_sec
<1>1. PICK m \in 0 .. Minutes - 1, s \in 0 .. SecsPerMin - 1 :
        m = Minute(t) /\ s = tm_sec(t) /\ t = SecsPerMin * m + s
  BY TimeIs
<1>2. SecsPerMin \in Nat \ {0} /\ Minutes \in Nat \ {0} /\ Cycle \in Nat \ {0}
  BY LengthsAssumption, CycleLength
<1>3. PICK q \in Int, r \in 0 .. Minutes - 1 : m + k = Minutes * q + r /\ r = (m + k) % Minutes
  <2>1. PICK a \in Int, n \in Nat \ {0} : a = m + k /\ n = Minutes
    BY <1>2
  <2> QED
    BY <2>1, Divides
<1>4. SecsPerMin * r + s \in Times
  BY Second
<1>5. t + SecsPerMin * k = Cycle * q + (SecsPerMin * r + s)
  <2>1. t + SecsPerMin * k = SecsPerMin * (m + k) + s
    BY <1>1, <1>2
  <2>2. PICK p \in Int : p = Minutes * q
    BY <1>2
  <2>3. SecsPerMin * (p + r) = SecsPerMin * p + SecsPerMin * r
    BY <1>2, <2>2
  <2>4. SecsPerMin * p = Cycle * q
    BY <1>2, <2>2, CycleLength
  <2>5. m + k = p + r
    BY <1>3, <2>2
  <2>6. PICK x, y, z \in Int : x = SecsPerMin * (m + k) /\ y = SecsPerMin * p /\ z = SecsPerMin * r
    BY <1>2, <2>2
  <2>7. x = y + z
    BY <2>3, <2>5, <2>6
  <2>8. t + SecsPerMin * k = y + z + s /\ y = Cycle * q
    BY <2>1, <2>4, <2>6, <2>7
  <2> QED
    BY <2>6, <2>8
<1>6. (t + SecsPerMin * k) % Cycle = SecsPerMin * r + s
  <2>1. PICK n \in Nat \ {0} : n = Cycle
    BY <1>2
  <2>2. PICK x \in 0 .. n - 1 : x = SecsPerMin * r + s
    BY <1>4, <2>1 DEF Times
  <2>3. (n * q + x) % n = x
    BY Division
  <2> QED
    BY <1>5, <2>1, <2>2, <2>3
<1> QED
  BY <1>1, <1>3, <1>4, <1>6, Second

\* The hour of a time is that of its minute.
LEMMA HourOfMinute ==
  ASSUME NEW t \in Times
  PROVE  Hour(t) = Minute(t) \div MinsPerHour
<1> HIDE DEF tm_sec
<1>1. PICK m \in 0 .. Minutes - 1, s \in 0 .. SecsPerMin - 1 :
        m = Minute(t) /\ s = tm_sec(t) /\ t = SecsPerMin * m + s
  BY TimeIs
<1>2. SecsPerMin \in Nat \ {0} /\ MinsPerHour \in Nat \ {0}
  BY LengthsAssumption
<1>3. PICK h \in Int, i \in 0 .. MinsPerHour - 1 : m = MinsPerHour * h + i /\ h = m \div MinsPerHour
  <2>1. PICK n \in Nat \ {0} : n = MinsPerHour
    BY <1>2
  <2> QED
    BY <2>1, Divides
<1>4. PICK n \in Nat \ {0} : n = SecsPerMin * MinsPerHour
  BY <1>2
<1>5. t = n * h + (SecsPerMin * i + s)
  <2>1. SecsPerMin * (MinsPerHour * h + i) = n * h + SecsPerMin * i
    BY <1>2, <1>4
  <2> QED
    BY <1>1, <1>2, <1>3, <1>4, <2>1
<1>6. SecsPerMin * i + s \in 0 .. n - 1
  <2>1. PICK d \in Nat : MinsPerHour = i + 1 + d
    BY <1>2
  <2>2. n = SecsPerMin * i + SecsPerMin + SecsPerMin * d /\ SecsPerMin * d \in Nat
        /\ SecsPerMin * i \in Nat
    BY <1>2, <1>4, <2>1
  <2> QED
    BY <1>2, <2>2
<1>7. t \div n = h
  <2>1. PICK x \in 0 .. n - 1 : x = SecsPerMin * i + s
    BY <1>6
  <2> QED
    BY <1>5, <2>1, Division
<1> QED
  BY <1>1, <1>3, <1>4, <1>7 DEF Hour

\* The local time has the second of the RTC, and a minute that its minute decides.
LEMMA LocalMinute ==
  /\ \A t \in Times : tm_sec(getLocalizedTime(t)) = tm_sec(t)
  /\ \A t, u \in Times : Minute(t) = Minute(u) =>
       Minute(getLocalizedTime(t)) = Minute(getLocalizedTime(u))
<1> HIDE DEF tm_sec, Hour
<1>1. PICK zone \in Int : zone = MinsPerHour * TimeZone
  BY LengthsAssumption, ZoneAssumption
<1>2. SecsPerMin * MinsPerHour * TimeZone = SecsPerMin * zone
  BY <1>1, LengthsAssumption, ZoneAssumption
<1> DEFINE Standard(t) == (t + SecsPerMin * zone) % Cycle
           Summer(t) == (Standard(t) + SecsPerMin * MinsPerHour) % Cycle
<1>3. \A t : getLocalizedTime(t) = IF isDst(Standard(t)) THEN Summer(t) ELSE Standard(t)
  BY <1>2 DEF getLocalizedTime
<1>4. \A t \in Times : /\ Standard(t) \in Times
                       /\ tm_sec(Standard(t)) = tm_sec(t)
                       /\ Minute(Standard(t)) = (Minute(t) + zone) % Minutes
  BY ShiftByMinutes
<1> HIDE DEF Standard
<1>5. \A t \in Times : /\ tm_sec(Summer(t)) = tm_sec(t)
                       /\ Minute(Summer(t)) = (Minute(Standard(t)) + MinsPerHour) % Minutes
  BY <1>4, LengthsAssumption, ShiftByMinutes
<1> HIDE DEF Summer
<1>6. \A t \in Times : isDst(Standard(t)) <=> Minute(Standard(t)) \div MinsPerHour \in DstHours
  BY <1>4, HourOfMinute DEF isDst
<1>7. ASSUME NEW t \in Times, NEW u \in Times, Minute(t) = Minute(u)
      PROVE  Minute(getLocalizedTime(t)) = Minute(getLocalizedTime(u))
  <2>1. Minute(Standard(t)) = Minute(Standard(u))
    BY <1>4, <1>7
  <2>2. isDst(Standard(t)) <=> isDst(Standard(u))
    BY <1>6, <2>1
  <2>3. Minute(Summer(t)) = Minute(Summer(u))
    BY <1>5, <2>1
  <2> QED
    BY <1>3, <2>1, <2>2, <2>3
<1>8. ASSUME NEW t \in Times PROVE tm_sec(getLocalizedTime(t)) = tm_sec(t)
  BY <1>3, <1>4, <1>5
<1> QED
  BY <1>7, <1>8

-----------------------------------------------------------------------------
(* The minute of an update                                                  *)

HIDE DEF tm_sec, tm_min, tm_hour, Hour

\* The longest clearing of the panel, in seconds interrupts.
Clearing == IF FullTicks > 3 * FastTicks THEN FullTicks ELSE 3 * FastTicks

\* How many refreshes an update in this hour clears the panel with, how long each
\* may take, and how long n of them.
Refreshes(hour) == IF hour = 0 THEN 1 ELSE 3
Longest(hour) == IF hour = 0 THEN Clearing ELSE FastTicks
Waited(hour, n) == n * Longest(hour)

\* The places between the reading of the clock at second 0 and the push.
DrawingPlaces == {"setFull", "clear", "refresh", "wait", "setFast", "paint", "push"}

\* The seconds of the current minute are those the update has stalled and waited for
\* refreshes; so the minute it has read is not over.
UpdateInv ==
  LET hour == tm_hour(timeinfo)
      done == Refreshes(hour) - left
  IN /\ pc \in DrawingPlaces => Minute(timeinfo) = Minute(getLocalizedTime(rtc))
     /\ pc \in {"setFull", "clear"} => tm_sec(rtc) <= stall
     /\ pc = "refresh" => done >= 0 /\ tm_sec(rtc) <= stall + Waited(hour, done)
     /\ pc = "wait" =>
          /\ done >= 1
          /\ IF isBusy
             THEN age <= Longest(hour) /\ tm_sec(rtc) <= stall + Waited(hour, done - 1) + age
             ELSE tm_sec(rtc) <= stall + Waited(hour, done)
     /\ pc \in {"setFast", "paint", "push"} => tm_sec(rtc) <= stall + Clearing
     /\ pc = "push" => imgBuffer = FaceOf(timeinfo)

\* Stalls and one clearing fit into a minute.
UpdateFits == MaxStall + Clearing < SecsPerMin

\* The refreshes of a clearing add up to Clearing at most.
LEMMA WaitedFor ==
  ASSUME NEW hour
  PROVE  /\ Clearing \in Nat /\ FullTicks <= Clearing /\ FastTicks <= Clearing
         /\ Longest(hour) \in Nat /\ Refreshes(hour) \in {1, 3}
         /\ Waited(hour, 0) = 0
         /\ \A n \in 0 .. 3 : Waited(hour, n) \in Nat
         /\ \A n \in 0 .. 2 : Waited(hour, n + 1) = Waited(hour, n) + Longest(hour)
         /\ \A n \in 0 .. 3 : n <= Refreshes(hour) => Waited(hour, n) <= Clearing
<1>1. Clearing \in Nat /\ FullTicks <= Clearing /\ FastTicks <= Clearing
      /\ 3 * FastTicks <= Clearing /\ FastTicks \in Nat
  BY TicksAssumption DEF Clearing
<1>2. PICK l \in Nat : l = Longest(hour)
  BY <1>1 DEF Longest
<1>3. 0 * l = 0 /\ 1 * l = l /\ 2 * l = l + l /\ 3 * l = l + l + l
  BY <1>2
<1>4. \A n \in 0 .. 3 : n = 0 \/ n = 1 \/ n = 2 \/ n = 3
  OBVIOUS
<1>5. Waited(hour, 0) = 0 /\ Waited(hour, 1) = l /\ Waited(hour, 2) = l + l
      /\ Waited(hour, 3) = l + l + l
  BY <1>2, <1>3 DEF Waited
<1>6. CASE hour = 0
  BY <1>1, <1>2, <1>4, <1>5, <1>6 DEF Longest, Refreshes
<1>7. CASE hour # 0
  BY <1>1, <1>2, <1>4, <1>5, <1>7 DEF Longest, Refreshes
<1> QED
  BY <1>6, <1>7

\* A second that passes while an update is under way is a second of its minute.
LEMMA SecondOfUpdate ==
  ASSUME UpdateFits, TypeInv, ModeInv, UpdateInv, RTC_Seconds_IRQHandler, pc \in DrawingPlaces
  PROVE  /\ tm_sec(rtc) + 1 <= stall' + Clearing
         /\ Minute(rtc') = Minute(rtc) /\ tm_sec(rtc') = tm_sec(rtc) + 1
         /\ IF pc = "wait" /\ isBusy
            THEN stall' = stall /\ age' = age + 1 /\ age' <= Longest(tm_hour(timeinfo))
            ELSE stall' = stall + 1
<1> DEFINE hour == tm_hour(timeinfo)
<1> HIDE DEF hour
<1>1. /\ stall \in Nat /\ stall' \in Nat /\ stall' <= MaxStall /\ left \in 0 .. 3 /\ age \in Nat
      /\ MaxStall \in Nat /\ SecsPerMin \in Nat
  BY NetAssumption, LengthsAssumption DEF TypeInv, TypeOK, PanelTypeOK, RTC_Seconds_IRQHandler
<1>2. tm_sec(rtc) \in Nat /\ rtc \in Times
  BY TimeIs, LengthsAssumption DEF TypeInv, TypeOK
<1>3. IF pc = "wait" /\ isBusy
      THEN stall' = stall /\ age' = age + 1 /\ age' <= Longest(hour)
      ELSE stall' = stall + 1
  <2>1. CASE pc = "wait" /\ isBusy
    <3>1. stall' = stall /\ age' = age + 1 /\ age < RefreshTicks
      BY <2>1 DEF RTC_Seconds_IRQHandler, Pending, PanelTick, LoopPlaces
    <3>2. RefreshTicks \in Nat /\ RefreshTicks <= Longest(hour)
      BY <2>1, WaitedFor, TicksAssumption DEF RefreshTicks, Longest, ModeInv, hour, FULL_REFRESH, FAST_REFRESH
    <3>3. Longest(hour) \in Nat
      BY WaitedFor
    <3> QED
      BY <1>1, <2>1, <3>1, <3>2, <3>3
  <2>2. CASE ~ (pc = "wait" /\ isBusy)
    BY <2>2 DEF RTC_Seconds_IRQHandler, Pending, DrawingPlaces, UpdatePlaces
  <2> QED
    BY <2>1, <2>2
<1>4. tm_sec(rtc) + 1 <= stall' + Clearing
  <2>1. CASE pc = "wait" /\ isBusy
    <3>1. PICK n \in 0 .. 2 : n = Refreshes(hour) - left - 1
      BY <1>1, <2>1, WaitedFor DEF UpdateInv, hour
    <3>2. tm_sec(rtc) <= stall + Waited(hour, n) + age
      BY <2>1, <3>1 DEF UpdateInv, hour
    <3>3. n + 1 \in 0 .. 3 /\ n + 1 <= Refreshes(hour) /\ n \in 0 .. 3
      BY <1>1, <3>1, WaitedFor
    <3>4. Waited(hour, n + 1) = Waited(hour, n) + Longest(hour) /\ Waited(hour, n + 1) <= Clearing
          /\ Waited(hour, n) \in Nat /\ Longest(hour) \in Nat /\ Clearing \in Nat
      BY <3>1, <3>3, WaitedFor
    <3> QED
      BY <1>1, <1>2, <1>3, <2>1, <3>2, <3>4
  <2>2. CASE pc = "refresh" \/ (pc = "wait" /\ ~isBusy)
    <3>1. PICK n \in 0 .. 3 : n = Refreshes(hour) - left
      BY <1>1, <2>2, WaitedFor DEF UpdateInv, hour
    <3>2. tm_sec(rtc) <= stall + Waited(hour, n)
      BY <2>2, <3>1 DEF UpdateInv, hour
    <3>3. Waited(hour, n) <= Clearing /\ Waited(hour, n) \in Nat /\ Clearing \in Nat
      <4>1. n <= Refreshes(hour)
        BY <1>1, <3>1, WaitedFor
      <4> QED
        BY <4>1, <3>1, WaitedFor
    <3> QED
      BY <1>1, <1>2, <1>3, <2>2, <3>2, <3>3
  <2>3. CASE pc \in {"setFull", "clear", "setFast", "paint", "push"}
    <3>1. Clearing \in Nat
      BY WaitedFor
    <3>2. tm_sec(rtc) <= stall + Clearing
      BY <1>1, <1>2, <2>3, <3>1 DEF UpdateInv
    <3> QED
      BY <1>1, <1>2, <1>3, <2>3, <3>1, <3>2
  <2> QED
    BY <2>1, <2>2, <2>3 DEF DrawingPlaces
<1>5. tm_sec(rtc) + 1 < SecsPerMin
  <2>1. Clearing \in Nat
    BY WaitedFor
  <2> QED
    BY <1>1, <1>2, <1>4, <2>1 DEF UpdateFits
<1>6. rtc' = (rtc + 1) % Cycle
  BY DEF RTC_Seconds_IRQHandler
<1> QED
  BY <1>2, <1>3, <1>4, <1>5, <1>6, NextSecond DEF hour

\* At first no update is under way.
LEMMA InitUpdateInv == Init => UpdateInv
  BY DEF Init, UpdateInv, DrawingPlaces

\* Every step keeps the account of the seconds of the update.
LEMMA StepUpdateInv ==
  ASSUME UpdateFits
  PROVE  TypeInv /\ ImageInv /\ ModeInv /\ UpdateInv /\ [Next]_vars => UpdateInv'
<1> SUFFICES ASSUME TypeInv, ImageInv, ModeInv, UpdateInv, [Next]_vars PROVE UpdateInv'
  OBVIOUS
<1> DEFINE hour == tm_hour(timeinfo)
<1>a. left \in 0 .. 3 /\ stall \in Nat /\ age \in Nat /\ rtc \in Times /\ timeinfo \in Times
  BY NetAssumption DEF TypeInv, TypeOK, PanelTypeOK
<1>b. \A t \in Times : tm_sec(t) \in Nat
  BY TimeIs, LengthsAssumption
<1>c. Clearing \in Nat /\ Refreshes(hour) \in {1, 3} /\ Longest(hour) \in Nat
  BY WaitedFor
<1> HIDE DEF hour
\* Steps outside an update.
<1>1. CASE pc \in BootPlaces \union LoopPlaces /\ ~ RTC_Seconds_IRQHandler
  <2>1. pc' \in BootPlaces \union LoopPlaces \union {"read"}
    BY <1>1 DEF Next, Thread, Boot, updateData, BootClear, BootRefresh, DhcpBound, RtcInit, BootWait,
                Poll, SntpSet, TestFlag, Read, SetFull, Clear, Refresh, Wait, SetFast, Paint, Push,
                AskWeather, PanelFinishes, vars, BootPlaces, LoopPlaces
  <2> QED
    BY <2>1 DEF UpdateInv, DrawingPlaces, BootPlaces, LoopPlaces
<1>2. CASE AskWeather
  BY <1>2 DEF AskWeather, UpdateInv, DrawingPlaces
<1>3. CASE Read
  <2>1. CASE pc' \in DrawingPlaces
    <3>1. timeinfo' = getLocalizedTime(rtc) /\ rtc' = rtc /\ tm_sec(timeinfo') = 0 /\ stall' = 0
          /\ pc' \in {"setFull", "clear", "paint"}
      BY <1>3, <2>1 DEF Read, DrawingPlaces
    <3>2. tm_sec(rtc) = 0
      BY <1>a, <3>1, LocalMinute
    <3> QED
      BY <1>c, <3>1, <3>2 DEF UpdateInv
  <2>2. CASE pc' \notin DrawingPlaces
    BY <2>2 DEF UpdateInv, DrawingPlaces
  <2> QED
    BY <2>1, <2>2
<1>4. CASE SetFull
  BY <1>4 DEF SetFull, UpdateInv, DrawingPlaces
<1>5. CASE Clear
  <2>1. /\ tm_sec(rtc) <= stall /\ left' = Refreshes(hour) /\ timeinfo' = timeinfo
        /\ rtc' = rtc /\ stall' = stall /\ pc = "clear" /\ pc' = "refresh"
    BY <1>5 DEF Clear, UpdateInv, Refreshes, hour
  <2>2. Refreshes(hour) - left' = 0 /\ Waited(hour, 0) = 0
    BY <1>c, <2>1, WaitedFor
  <2>3. tm_sec(rtc) <= stall + 0
    BY <1>a, <1>b, <2>1
  <2> QED
    BY <2>1, <2>2, <2>3 DEF UpdateInv, DrawingPlaces, hour
<1>6. CASE Refresh
  <2>1. /\ left > 0 /\ left' = left - 1 /\ timeinfo' = timeinfo /\ age' = 0
        /\ rtc' = rtc /\ stall' = stall /\ pc = "refresh" /\ pc' = "wait"
    BY <1>6 DEF Refresh, StartDrawing, TypeInv
  <2>2. PICK n \in 0 .. 2 : n = Refreshes(hour) - left
    BY <1>a, <1>c, <2>1 DEF UpdateInv, hour
  <2>3. tm_sec(rtc) <= stall + Waited(hour, n)
    BY <2>1, <2>2 DEF UpdateInv, hour
  <2>4. Refreshes(hour) - left' = n + 1 /\ n + 1 - 1 = n /\ n \in 0 .. 3
    BY <1>a, <1>c, <2>1, <2>2
  <2>5. Waited(hour, n) \in Nat /\ Waited(hour, n + 1) = Waited(hour, n) + Longest(hour)
    BY <2>2, <2>4, WaitedFor
  <2>6. /\ tm_sec(rtc) <= stall + Waited(hour, n) + 0 /\ 0 <= Longest(hour)
        /\ tm_sec(rtc) <= stall + Waited(hour, n + 1) /\ n + 1 >= 1
    BY <1>a, <1>b, <1>c, <2>2, <2>3, <2>5
  <2> QED
    BY <2>1, <2>4, <2>6 DEF UpdateInv, DrawingPlaces, hour
<1>7. CASE Wait
  <2>1. /\ timeinfo' = timeinfo /\ left' = left /\ rtc' = rtc /\ stall' = stall /\ pc = "wait"
        /\ ~isBusy
        /\ IF left > 0 THEN pc' = "refresh" ELSE pc' \in {"setFast", "paint"}
    BY <1>7, <1>a DEF Wait
  <2>2. PICK n \in 1 .. 3 : n = Refreshes(hour) - left /\ tm_sec(rtc) <= stall + Waited(hour, n)
    BY <1>a, <1>c, <2>1 DEF UpdateInv, hour
  <2>3. CASE left > 0
    <3>1. n >= 0
      BY <2>2
    <3> QED
      BY <2>1, <2>2, <2>3, <3>1 DEF UpdateInv, DrawingPlaces, hour
  <2>4. CASE ~ (left > 0)
    <3>1. n <= Refreshes(hour) /\ n \in 0 .. 3
      BY <1>a, <1>c, <2>2
    <3>2. Waited(hour, n) <= Clearing /\ Waited(hour, n) \in Nat
      BY <3>1, WaitedFor
    <3>3. tm_sec(rtc) <= stall + Clearing
      BY <1>a, <1>b, <1>c, <2>2, <3>2
    <3> QED
      BY <2>1, <2>4, <3>3 DEF UpdateInv, DrawingPlaces
  <2> QED
    BY <2>3, <2>4
<1>8. CASE SetFast
  BY <1>8 DEF SetFast, UpdateInv, DrawingPlaces
<1>9. CASE Paint
  <2>1. imgBuffer' = FaceOf(timeinfo)
    BY <1>9 DEF Paint, ImageInv
  <2> QED
    BY <1>9, <2>1 DEF Paint, UpdateInv, DrawingPlaces
<1>10. CASE Push
  BY <1>10 DEF Push, UpdateInv, DrawingPlaces
<1>11. CASE RTC_Seconds_IRQHandler
  <2>0. /\ timeinfo' = timeinfo /\ left' = left /\ pc' = pc /\ imgBuffer' = imgBuffer
        /\ drawing' = drawing /\ rtc' \in Times
    BY <1>11, <1>a, Wraps DEF RTC_Seconds_IRQHandler, PanelTick, Times
  <2>1. CASE pc \notin DrawingPlaces
    BY <2>0, <2>1 DEF UpdateInv, DrawingPlaces
  <2>2. CASE pc \in DrawingPlaces
    <3>1. /\ Minute(rtc') = Minute(rtc) /\ tm_sec(rtc') = tm_sec(rtc) + 1
          /\ IF pc = "wait" /\ isBusy
             THEN stall' = stall /\ age' = age + 1 /\ age' <= Longest(hour)
             ELSE stall' = stall + 1
      BY <1>11, <2>2, SecondOfUpdate DEF hour
    <3>2. Minute(timeinfo) = Minute(getLocalizedTime(rtc'))
      BY <1>a, <2>0, <2>2, <3>1, LocalMinute DEF UpdateInv
    <3>3. PICK s \in Nat : s = tm_sec(rtc)
      BY <1>a, <1>b
    <3>4. CASE pc = "wait" /\ isBusy
      <4>1. PICK n \in 0 .. 2 : n = Refreshes(hour) - left - 1
        BY <1>a, <1>c, <3>4 DEF UpdateInv, hour
      <4>2. s <= stall + Waited(hour, n) + age /\ Waited(hour, n) \in Nat
        <5>1. n \in 0 .. 3
          BY <4>1
        <5> QED
          BY <3>3, <3>4, <4>1, <5>1, WaitedFor DEF UpdateInv, hour
      <4>3. s + 1 <= stall + Waited(hour, n) + (age + 1)
        BY <1>a, <3>3, <4>2
      <4> QED
        BY <2>0, <3>1, <3>2, <3>3, <3>4, <4>1, <4>3 DEF UpdateInv, DrawingPlaces, isBusy, hour
    <3>5. CASE pc = "refresh" \/ (pc = "wait" /\ ~isBusy)
      <4>1. PICK n \in 0 .. 3 : n = Refreshes(hour) - left
        BY <1>a, <1>c, <3>5 DEF UpdateInv, hour
      <4>2. s <= stall + Waited(hour, n) /\ Waited(hour, n) \in Nat
        BY <3>3, <3>5, <4>1, WaitedFor DEF UpdateInv, hour
      <4>3. s + 1 <= (stall + 1) + Waited(hour, n)
        BY <1>a, <3>3, <4>2
      <4> QED
        BY <2>0, <3>1, <3>2, <3>3, <3>5, <4>1, <4>3 DEF UpdateInv, DrawingPlaces, isBusy, hour
    <3>6. CASE pc \in {"setFull", "clear"}
      <4>1. s + 1 <= stall + 1
        BY <1>a, <3>3, <3>6 DEF UpdateInv
      <4> QED
        BY <2>0, <3>1, <3>2, <3>3, <3>6, <4>1 DEF UpdateInv, DrawingPlaces
    <3>7. CASE pc \in {"setFast", "paint", "push"}
      <4>1. s + 1 <= (stall + 1) + Clearing
        <5>1. s <= stall + Clearing
          BY <3>3, <3>7 DEF UpdateInv
        <5> QED
          BY <1>a, <1>c, <3>3, <5>1
      <4> QED
        BY <2>0, <3>1, <3>2, <3>3, <3>7, <4>1 DEF UpdateInv, DrawingPlaces
    <3> QED
      BY <2>2, <3>4, <3>5, <3>6, <3>7 DEF DrawingPlaces
  <2> QED
    BY <2>1, <2>2
<1>12. CASE PanelFinishes
  <2>0. /\ timeinfo' = timeinfo /\ left' = left /\ pc' = pc /\ imgBuffer' = imgBuffer
        /\ rtc' = rtc /\ stall' = stall /\ isBusy /\ ~isBusy'
    BY <1>12 DEF PanelFinishes, PanelDone, isBusy
  <2>1. CASE pc = "wait"
    <3>1. PICK n \in 0 .. 2 : n + 1 = Refreshes(hour) - left /\ n = Refreshes(hour) - left - 1
      BY <1>a, <1>c, <2>1 DEF UpdateInv, hour
    <3>2. age <= Longest(hour) /\ tm_sec(rtc) <= stall + Waited(hour, n) + age
      BY <2>0, <2>1, <3>1 DEF UpdateInv, hour
    <3>3. Waited(hour, n) \in Nat /\ Waited(hour, n + 1) = Waited(hour, n) + Longest(hour)
      <4>1. n \in 0 .. 3
        BY <3>1
      <4> QED
        BY <3>1, <4>1, WaitedFor
    <3>4. tm_sec(rtc) <= stall + Waited(hour, n + 1) /\ n + 1 >= 1
      BY <1>a, <1>b, <1>c, <3>1, <3>2, <3>3
    <3> QED
      BY <2>0, <2>1, <3>1, <3>4 DEF UpdateInv, DrawingPlaces, hour
  <2>2. CASE pc # "wait"
    BY <2>0, <2>2 DEF UpdateInv
  <2> QED
    BY <2>1, <2>2
<1>13. CASE UNCHANGED vars
  BY <1>13 DEF vars, UpdateInv, isBusy
<1> QED
  BY <1>1, <1>2, <1>3, <1>4, <1>5, <1>6, <1>7, <1>8, <1>9, <1>10, <1>11, <1>12, <1>13
  DEF Next, Thread, Boot, updateData, BootClear, BootRefresh, DhcpBound, RtcInit, BootWait, Poll,
      SntpSet, TestFlag, BootPlaces, LoopPlaces

\* When stalls and one clearing fit into a minute, no frame is pushed after the minute
\* it shows: the three refreshes that clear the panel on the hour, and a thread that
\* falls behind beside them, never take the update past the minute it has read.
THEOREM PushesInTime ==
  ASSUME UpdateFits
  PROVE  Spec => []PushedMinuteIsCurrent
<1>1. UpdateInv => PushedMinuteIsCurrent
  BY DEF UpdateInv, DrawingPlaces, PushedMinuteIsCurrent, FaceOf
<1> QED
  BY <1>1, InitTypeOK, StepTypeOK, InitImageInv, StepImageInv, InitModeInv, StepModeInv,
     InitUpdateInv, StepUpdateInv, PTL DEF Spec, TypeInv

\* Steps that leave the panel and the RTC alone show nothing; those that move the
\* RTC make another minute the current one.
LEMMA StepShowsNothing ==
  ASSUME UNCHANGED <<sram, drawing, screen>>
  PROVE  /\ rtc' = rtc => [Display!Next]_(Display!displayVars)
         /\ rtc' \in Times => [Display!Next]_(Display!displayVars)
<1>1. CASE rtc' = rtc
  <2>1. FaceOf(getLocalizedTime(rtc))' = FaceOf(getLocalizedTime(rtc))
    BY <1>1 DEF getLocalizedTime, FaceOf
  <2> QED
    BY <2>1 DEF Display!displayVars
<1>2. CASE rtc' \in Times
  <2>1. FaceOf(getLocalizedTime(rtc'))  \in {FaceOf(t) : t \in Times}
    BY <1>2, LocalTime
  <2>2. Display!Pass
    BY <2>1 DEF Display!Pass
  <2> QED
    BY <2>2 DEF Display!Next
<1> QED
  BY <1>1, <1>2

\* Every step of the clock is a step of the display or none.
LEMMA StepShows ==
  TypeInv /\ UpdateInv /\ [Next]_vars => [Display!Next]_(Display!displayVars)
<1> SUFFICES ASSUME TypeInv, UpdateInv, [Next]_vars
             PROVE  [Display!Next]_(Display!displayVars)
  OBVIOUS
<1>a. rtc \in Times
  BY DEF TypeInv, TypeOK
<1>b. rtc' = rtc => FaceOf(getLocalizedTime(rtc))' = FaceOf(getLocalizedTime(rtc))
  BY DEF getLocalizedTime, FaceOf
\* Steps the panel does not see.
<1>1. CASE \/ DhcpBound \/ BootWait \/ Poll \/ TestFlag \/ Read \/ SetFull \/ Wait \/ SetFast
           \/ Paint \/ AskWeather \/ UNCHANGED vars
  <2>1. UNCHANGED <<sram, drawing, screen>> /\ rtc' = rtc
    BY <1>1 DEF DhcpBound, BootWait, Poll, TestFlag, Read, SetFull, Wait, SetFast, Paint, AskWeather,
                vars, panelVars, rtcVars
  <2> QED
    BY <2>1, StepShowsNothing
\* Steps that move the RTC.
<1>2. CASE RtcInit \/ RTC_Seconds_IRQHandler \/ \E t \in Times : SntpSet(t)
  <2>1. UNCHANGED <<sram, drawing, screen>>
    BY <1>2 DEF RtcInit, RTC_Seconds_IRQHandler, SntpSet, PanelTick, panelVars
  <2>2. rtc' \in Times
    <3>1. (rtc + 1) % Cycle \in Times
      BY <1>a, Wraps DEF Times
    <3> QED
      BY <1>2, <1>a, <3>1, FirstSecond DEF RtcInit, RTC_Seconds_IRQHandler, SntpSet
  <2> QED
    BY <2>1, <2>2, StepShowsNothing
\* Steps that write to the panel: a busy one obeys or ignores.
<1>3. CASE BootClear \/ Clear
  <2>1. /\ rtc' = rtc /\ UNCHANGED <<drawing, screen>>
        /\ sram' = Blank \/ sram' = sram
    BY <1>3 DEF BootClear, Clear, einkClearFrame, WriteSram, Written, rtcVars
  <2>2. CASE sram' = Blank
    BY <1>b, <2>1, <2>2 DEF Display!Forget, Display!Next
  <2>3. CASE sram' = sram
    BY <2>1, <2>3, StepShowsNothing
  <2> QED
    BY <2>1, <2>2, <2>3
<1>4. CASE BootRefresh \/ Refresh
  <2>1. /\ rtc' = rtc /\ UNCHANGED <<sram, screen>>
        /\ drawing' = sram \/ drawing' = drawing
    BY <1>4 DEF BootRefresh, Refresh, StartDrawing, Written, rtcVars
  <2>2. CASE drawing' = sram
    BY <1>b, <2>1, <2>2 DEF Display!Repeat, Display!Next
  <2>3. CASE drawing' = drawing
    BY <2>1, <2>3, StepShowsNothing
  <2> QED
    BY <2>1, <2>2, <2>3
<1>5. CASE Push
  <2>1. rtc' = rtc /\ pc = "push" /\ einkDisplayFrameFromBufferNonBlocking(imgBuffer)
    BY <1>5 DEF Push, rtcVars
  <2>2. CASE isBusy
    <3>1. UNCHANGED <<sram, drawing, screen>>
      BY <2>1, <2>2 DEF einkDisplayFrameFromBufferNonBlocking, panelVars
    <3> QED
      BY <2>1, <3>1, StepShowsNothing
  <2>3. CASE ~isBusy
    <3>1. drawing = NoFrame /\ sram' = imgBuffer /\ drawing' = imgBuffer /\ screen' = screen
      BY <2>1, <2>3 DEF einkDisplayFrameFromBufferNonBlocking, WriteSram, StartDrawing, Written, isBusy
    <3>2. imgBuffer = FaceOf(getLocalizedTime(rtc))
      BY <2>1 DEF UpdateInv, DrawingPlaces, FaceOf
    <3>3. Display!Show
      BY <1>b, <2>1, <3>1, <3>2 DEF Display!Show
    <3> QED
      BY <3>3 DEF Display!Next
  <2> QED
    BY <2>2, <2>3
<1>6. CASE PanelFinishes
  <2>1. /\ rtc' = rtc /\ sram' = sram
        /\ drawing # NoFrame /\ screen' = drawing /\ drawing' = NoFrame
    BY <1>6 DEF PanelFinishes, PanelDone, isBusy, rtcVars
  <2> QED
    BY <1>b, <2>1 DEF Display!Finish, Display!Next
<1> QED
  BY <1>1, <1>2, <1>3, <1>4, <1>5, <1>6 DEF Next, Thread, Boot, updateData

\* When stalls and one clearing fit into a minute, the panel is a MinuteDisplay: for any
\* corrections by SNTP and whatever a busy panel makes of commands, nothing gets on the
\* screen but blank frames and minutes that were current when their drawing began.
THEOREM ImplementsDisplay ==
  ASSUME UpdateFits
  PROVE  Spec => ShowsOnlyCurrentMinutes
<1>1. Init => Display!Init
  <2> SUFFICES ASSUME Init PROVE Display!Init
    OBVIOUS
  <2>1. rtc \in Times
    BY DEF Init
  <2>2. FaceOf(getLocalizedTime(rtc)) \in {FaceOf(t) : t \in Times}
    BY <2>1, LocalTime
  <2> QED
    BY <2>2 DEF Init, PanelInit, Display!Init
<1> QED
  BY <1>1, StepShows, InitTypeOK, StepTypeOK, InitImageInv, StepImageInv, InitModeInv, StepModeInv,
     InitUpdateInv, StepUpdateInv, PTL DEF Spec, TypeInv, ShowsOnlyCurrentMinutes, Display!Spec

-----------------------------------------------------------------------------
(* What a busy panel is drawing                                             *)

\* The thread gets round its loop within every second, and the slowest drawing of a
\* minute is over before the minute is.
KeepsUp == MaxStall = 0 /\ FastTicks > 0 /\ Settled < SecsPerMin

\* A refresh that is under way and was begun after SNTP last moved the clock was begun
\* by a push in this minute: while it goes on the thread is at no place that would
\* write to the panel blindly, and the next minute has not begun.
BusyInv ==
  /\ ~running => steady = 0
  /\ pc \in BootPlaces => ~running
  /\ isBusy => age <= Clearing
  /\ pc = "read" => ~g_SecsFlag
  /\ pc \in DrawingPlaces /\ g_SecsFlag => tm_sec(rtc) >= 1
  /\ isBusy /\ steady > age /\ pc \notin BootPlaces =>
       /\ pc \in LoopPlaces \union {"read", "askWeather", "wait"}
       /\ pc # "wait" => tm_sec(rtc) <= Clearing + age
       /\ g_SecsFlag \/ pc = "read" => tm_sec(rtc) >= 1

\* What KeepsUp says, in numbers.
LEMMA KeepingUp ==
  ASSUME KeepsUp
  PROVE  /\ UpdateFits /\ Settled = Clearing + FastTicks /\ Settled \in Nat
         /\ Clearing \in Nat /\ FastTicks \in Nat \ {0} /\ Settled < SecsPerMin
<1>1. Settled = Clearing + FastTicks /\ Clearing \in Nat /\ FastTicks \in Nat \ {0}
  BY WaitedFor, TicksAssumption DEF Settled, Clearing, KeepsUp
<1>2. SecsPerMin \in Nat /\ MaxStall = 0 /\ Settled < SecsPerMin
  BY LengthsAssumption DEF KeepsUp
<1> QED
  BY <1>1, <1>2 DEF UpdateFits

\* A thread that keeps up lets no second pass with work to do.
LEMMA TickWhenIdle ==
  ASSUME KeepsUp, TypeOK, BusyInv, RTC_Seconds_IRQHandler
  PROVE  /\ (pc \in LoopPlaces /\ ~g_SecsFlag) \/ (pc = "wait" /\ isBusy)
         /\ stall' = 0 /\ stall = 0
<1>1. stall = 0 /\ stall' = 0 /\ ~Pending
  BY DEF KeepsUp, RTC_Seconds_IRQHandler, TypeOK
<1>2. pc \notin BootPlaces
  BY DEF BusyInv, RTC_Seconds_IRQHandler
<1> QED
  BY <1>1, <1>2 DEF Pending, TypeOK, Places, UpdatePlaces

\* At first the RTC stands.
LEMMA InitBusyInv == Init => BusyInv
<1>1. Clearing \in Nat
  BY WaitedFor
<1> QED
  BY <1>1 DEF Init, PanelInit, BusyInv, BootPlaces, DrawingPlaces

\* Every step keeps what is known of a busy panel.
LEMMA StepBusyInv ==
  ASSUME KeepsUp
  PROVE  TypeInv /\ ModeInv /\ UpdateInv /\ BusyInv /\ [Next]_vars => BusyInv'
<1> SUFFICES ASSUME TypeInv, ModeInv, UpdateInv, BusyInv, [Next]_vars PROVE BusyInv'
  OBVIOUS
<1>a. /\ stall = 0 /\ age \in Nat /\ rtc \in Times /\ timeinfo \in Times /\ steady \in 0 .. MaxSteady
      /\ Clearing \in Nat /\ MaxSteady \in Nat /\ pc \in Places
  BY NetAssumption, WaitedFor, LengthsAssumption
  DEF TypeInv, TypeOK, PanelTypeOK, KeepsUp, MaxSteady
<1>b. \A t \in Times : tm_sec(t) \in Nat
  BY TimeIs, LengthsAssumption
<1>c. DrawingPlaces \intersect BootPlaces = {} /\ LoopPlaces \intersect BootPlaces = {}
      /\ LoopPlaces \intersect DrawingPlaces = {}
  BY DEF DrawingPlaces, BootPlaces, LoopPlaces
\* The boot sequence.
<1>1. CASE BootClear
  BY <1>1 DEF BootClear, BusyInv, isBusy, BootPlaces, DrawingPlaces
<1>2. CASE BootRefresh
  BY <1>2, <1>a DEF BootRefresh, StartDrawing, BusyInv, isBusy, BootPlaces, DrawingPlaces
<1>3. CASE DhcpBound \/ RtcInit
  <2>1. /\ pc' \in {"rtcInit", "bootWait"} /\ ~running' /\ steady' = 0
        /\ drawing' = drawing /\ age' = age
    <3>1. CASE DhcpBound
      BY <3>1 DEF DhcpBound, BusyInv, BootPlaces
    <3>2. CASE RtcInit
      BY <3>2 DEF RtcInit, BusyInv, BootPlaces
    <3> QED
      BY <1>3, <3>1, <3>2
  <2> QED
    BY <2>1 DEF BusyInv, isBusy, BootPlaces, DrawingPlaces
<1>4. CASE BootWait
  BY <1>4 DEF BootWait, BusyInv, isBusy, BootPlaces, DrawingPlaces
\* The main loop.
<1>5. CASE Poll
  BY <1>5, <1>c DEF Poll, BusyInv, isBusy, LoopPlaces, DrawingPlaces, BootPlaces
<1>6. ASSUME NEW t \in Times, SntpSet(t) PROVE BusyInv'
  <2>1. CASE running /\ t = rtc
    BY <1>6, <2>1 DEF SntpSet, BusyInv, isBusy, LoopPlaces, DrawingPlaces, BootPlaces
  <2>2. CASE ~ (running /\ t = rtc)
    BY <1>6, <2>2, <1>a DEF SntpSet, BusyInv, isBusy, LoopPlaces, DrawingPlaces, BootPlaces
  <2> QED
    BY <2>1, <2>2
<1>7. CASE TestFlag
  BY <1>7 DEF TestFlag, BusyInv, isBusy, LoopPlaces, DrawingPlaces, BootPlaces
\* An update.
<1>8. CASE Read
  <2>1. /\ pc = "read" /\ ~g_SecsFlag /\ g_SecsFlag' = g_SecsFlag /\ rtc' = rtc
        /\ drawing' = drawing /\ age' = age /\ steady' = steady /\ running' = running
    BY <1>8 DEF Read, BusyInv
  <2>2. pc' \in DrawingPlaces \union {"askWeather", "poll"}
    BY <1>8 DEF Read, DrawingPlaces
  <2>3. ASSUME isBusy, steady > age PROVE pc' \in {"askWeather", "poll"}
    <3>1. tm_sec(rtc) >= 1
      BY <2>1, <2>3 DEF BusyInv, BootPlaces
    <3>2. tm_sec(getLocalizedTime(rtc)) # 0
      BY <1>a, <3>1, LocalMinute
    <3> QED
      BY <1>8, <3>2 DEF Read
  <2> QED
    BY <2>1, <2>2, <2>3 DEF BusyInv, isBusy, LoopPlaces, DrawingPlaces, BootPlaces
<1>9. CASE SetFull \/ Clear \/ SetFast \/ Paint
  BY <1>9 DEF SetFull, Clear, SetFast, Paint, BusyInv, isBusy, LoopPlaces, DrawingPlaces, BootPlaces
<1>10. CASE Refresh
  BY <1>10, <1>a DEF Refresh, StartDrawing, BusyInv, isBusy, LoopPlaces, DrawingPlaces, BootPlaces
<1>11. CASE Wait
  BY <1>11 DEF Wait, BusyInv, isBusy, LoopPlaces, DrawingPlaces, BootPlaces
<1>12. CASE Push
  <2>0. /\ pc = "push" /\ pc' = "poll" /\ rtc' = rtc /\ steady' = steady /\ running' = running
        /\ g_SecsFlag' = g_SecsFlag
    BY <1>12 DEF Push
  <2>1. CASE isBusy
    <3>1. drawing' = drawing /\ age' = age
      BY <1>12, <2>1 DEF Push, einkDisplayFrameFromBufferNonBlocking
    <3> QED
      BY <2>0, <2>1, <3>1 DEF BusyInv, isBusy, LoopPlaces, DrawingPlaces, BootPlaces
  <2>2. CASE ~isBusy
    <3>1. age' = 0
      BY <1>12, <2>2 DEF Push, einkDisplayFrameFromBufferNonBlocking, StartDrawing
    <3>2. tm_sec(rtc) <= Clearing + 0
      BY <2>0, <1>a, <1>b DEF UpdateInv
    <3> QED
      BY <1>a, <2>0, <2>2, <3>1, <3>2 DEF BusyInv, isBusy, LoopPlaces, DrawingPlaces, BootPlaces
  <2> QED
    BY <2>1, <2>2
<1>13. CASE AskWeather
  BY <1>13 DEF AskWeather, BusyInv, isBusy, LoopPlaces, DrawingPlaces, BootPlaces
\* What runs beside the thread.
<1>14. CASE RTC_Seconds_IRQHandler
  <2>0. /\ pc' = pc /\ drawing' = drawing /\ running /\ running' = running /\ g_SecsFlag' = TRUE
        /\ age' = IF isBusy THEN age + 1 ELSE age
        /\ isBusy => age < RefreshTicks
        /\ rtc' = (rtc + 1) % Cycle
        /\ steady' = IF steady < MaxSteady THEN steady + 1 ELSE steady
    BY <1>14 DEF RTC_Seconds_IRQHandler, PanelTick
  <2>1. (pc \in LoopPlaces /\ ~g_SecsFlag) \/ (pc = "wait" /\ isBusy)
    BY <1>14, TickWhenIdle DEF TypeInv
  <2>2. isBusy => age + 1 <= Clearing
    <3>1. RefreshTicks \in Nat /\ RefreshTicks <= Clearing
      BY TicksAssumption, WaitedFor DEF RefreshTicks
    <3> QED
      BY <1>a, <2>0, <3>1
  <2>3. isBusy /\ steady' > age' => steady > age
    BY <1>a, <2>0
  <2>4. CASE pc = "wait" /\ isBusy
    <3>1. tm_sec(rtc') = tm_sec(rtc) + 1
      BY <1>14, <2>4, KeepingUp, SecondOfUpdate DEF DrawingPlaces
    <3>2. tm_sec(rtc') >= 1
      BY <1>a, <1>b, <3>1
    <3> QED
      BY <2>0, <2>2, <2>4, <3>2 DEF BusyInv, isBusy, LoopPlaces, DrawingPlaces, BootPlaces
  <2>5. CASE pc \in LoopPlaces
    <3>1. pc \notin BootPlaces \union DrawingPlaces \union {"read", "wait"}
      BY <2>5 DEF BootPlaces, LoopPlaces, DrawingPlaces
    <3>2. ASSUME isBusy, steady' > age' PROVE tm_sec(rtc') >= 1 /\ tm_sec(rtc') <= Clearing + age'
      <4>1. tm_sec(rtc) <= Clearing + age
        BY <2>3, <3>1, <3>2 DEF BusyInv
      <4>2. age < FastTicks
        BY <2>0, <2>5, <3>2 DEF RefreshTicks, ModeInv, FULL_REFRESH, FAST_REFRESH
      <4>3. PICK s \in Nat, c \in Nat, f \in Nat : s = tm_sec(rtc) /\ c = Clearing /\ f = FastTicks
        BY <1>a, <1>b, KeepingUp
      <4>4. c + f < SecsPerMin /\ SecsPerMin \in Nat
        BY <4>3, KeepingUp, LengthsAssumption
      <4>5. s + 1 < SecsPerMin
        BY <1>a, <4>1, <4>2, <4>3, <4>4
      <4>6. tm_sec(rtc') = s + 1
        BY <1>a, <2>0, <4>3, <4>5, NextSecond
      <4> QED
        BY <1>a, <2>0, <3>2, <4>1, <4>3, <4>6
    <3> QED
      BY <1>a, <2>0, <2>2, <3>1, <3>2, <2>5 DEF BusyInv, isBusy
  <2> QED
    BY <2>1, <2>4, <2>5
<1>15. CASE PanelFinishes
  BY <1>15 DEF PanelFinishes, PanelDone, BusyInv, isBusy
<1>16. CASE UNCHANGED vars
  BY <1>16 DEF vars, BusyInv, isBusy
<1> QED
  BY <1>1, <1>2, <1>3, <1>4, <1>5, <1>6, <1>7, <1>8, <1>9, <1>10, <1>11, <1>12, <1>13, <1>14,
     <1>15, <1>16
  DEF Next, Thread, Boot, updateData

\* So a panel that is busy in an undisturbed minute meets no blind write.
LEMMA NotBusyInUpdate ==
  ASSUME KeepsUp, TypeOK, BusyInv, Undisturbed, pc \in DrawingPlaces \ {"wait"}
  PROVE  ~isBusy
<1>1. steady >= Settled
  <2>1. tm_sec(rtc) \in Nat /\ steady \in Nat /\ Settled \in Nat
    BY TimeIs, LengthsAssumption, KeepingUp DEF TypeOK, MaxSteady
  <2> QED
    BY <2>1 DEF Undisturbed
<1>2. isBusy => steady > age
  <2>1. age \in Nat /\ steady \in Nat
    BY LengthsAssumption DEF TypeOK, PanelTypeOK, MaxSteady
  <2> QED
    BY <1>1, <2>1, KeepingUp DEF BusyInv
<1> QED
  BY <1>2 DEF BusyInv, DrawingPlaces, BootPlaces, LoopPlaces

\* When the thread keeps up, einkClearFrame, einkSetRefreshMode and DISPLAY_REFRESH,
\* which do not look at BUSY, never meet a panel that still draws an earlier minute,
\* unless SNTP has just moved the clock.
THEOREM WritesToIdlePanel ==
  ASSUME KeepsUp
  PROVE  Spec => []BlindWritesOnlyWhenIdle
<1>1. TypeInv /\ BusyInv => BlindWritesOnlyWhenIdle
  BY NotBusyInUpdate DEF BlindWritesOnlyWhenIdle, BlindPlaces, DrawingPlaces, TypeInv
<1>2. UpdateFits
  BY KeepingUp
<1> QED
  BY <1>1, <1>2, InitTypeOK, StepTypeOK, InitImageInv, StepImageInv, InitModeInv, StepModeInv,
     InitUpdateInv, StepUpdateInv, InitBusyInv, StepBusyInv, PTL DEF Spec, TypeInv

-----------------------------------------------------------------------------
(* The minute on the screen                                                 *)

\* An update is due at the first second of a minute, or the minute is on the screen or
\* being drawn.
Due == tm_sec(rtc) = 0 /\ ((pc \in LoopPlaces /\ g_SecsFlag) \/ pc = "read")
Shown ==
  /\ pc \in LoopPlaces \union {"read", "askWeather"}
  /\ (IF isBusy THEN drawing ELSE screen) = FaceOf(getLocalizedTime(rtc))

\* In a minute that SNTP leaves alone an update is due, under way, or its frame is
\* on the way to the screen.
ScreenInv == Undisturbed => Due \/ pc \in DrawingPlaces \/ Shown

\* An undisturbed minute was undisturbed a second ago, unless it begins now.
LEMMA WasUndisturbed ==
  ASSUME KeepsUp, TypeOK, RTC_Seconds_IRQHandler, Undisturbed'
  PROVE  \/ tm_sec(rtc') = 0
         \/ Undisturbed /\ Minute(rtc') = Minute(rtc) /\ tm_sec(rtc') = tm_sec(rtc) + 1
<1>1. rtc \in Times /\ rtc' = (rtc + 1) % Cycle
      /\ steady' = (IF steady < MaxSteady THEN steady + 1 ELSE steady)
  BY DEF TypeOK, RTC_Seconds_IRQHandler
<1>2. PICK s, y, z, n \in Nat : s = tm_sec(rtc) /\ y = steady /\ z = steady' /\ n = Settled
  <2>1. tm_sec(rtc) \in Nat /\ steady \in Nat /\ MaxSteady \in Nat /\ Settled \in Nat
    BY TimeIs, LengthsAssumption, KeepingUp DEF TypeOK, MaxSteady
  <2> QED
    BY <1>1, <2>1
<1>3. CASE s + 1 < SecsPerMin
  <2>1. Minute(rtc') = Minute(rtc) /\ tm_sec(rtc') = s + 1
    BY <1>1, <1>2, <1>3, NextSecond
  <2>2. z >= s + 1 + n
    BY <1>2, <2>1 DEF Undisturbed, Settled
  <2>3. z <= y + 1
    BY <1>1, <1>2
  <2>4. y >= s + n
    BY <1>2, <2>2, <2>3
  <2> QED
    BY <1>2, <2>1, <2>4 DEF Undisturbed
<1>4. CASE ~ (s + 1 < SecsPerMin)
  BY <1>1, <1>2, <1>4, NextSecond
<1> QED
  BY <1>3, <1>4

\* Nothing is undisturbed right after SNTP has moved the clock, or before it has set it.
LEMMA NotUndisturbed ==
  ASSUME KeepsUp, TypeOK, steady = 0
  PROVE  ~Undisturbed
<1>1. tm_sec(rtc) \in Nat /\ Settled \in Nat \ {0}
  <2>1. Clearing \in Nat /\ FastTicks \in Nat \ {0} /\ Settled = Clearing + FastTicks
    BY KeepingUp
  <2> QED
    BY <2>1, TimeIs, LengthsAssumption DEF TypeOK
<1> QED
  BY <1>1 DEF Undisturbed

\* At first nothing is.
LEMMA InitScreenInv == ASSUME KeepsUp PROVE Init => ScreenInv
  BY InitTypeOK, NotUndisturbed DEF Init, TypeInv, ScreenInv

\* Every step keeps the minute on its way: an update becomes due when the minute begins,
\* starts drawing in second 0, and finds an idle panel for its frame.
LEMMA StepScreenInv ==
  ASSUME KeepsUp
  PROVE  TypeInv /\ TypeInv' /\ ModeInv /\ UpdateInv /\ BusyInv /\ ScreenInv /\ [Next]_vars => ScreenInv'
<1> SUFFICES ASSUME TypeInv, TypeInv', ModeInv, UpdateInv, BusyInv, ScreenInv, [Next]_vars, Undisturbed'
             PROVE  (Due \/ pc \in DrawingPlaces \/ Shown)'
  BY DEF ScreenInv
<1>a. rtc \in Times /\ timeinfo \in Times /\ screen \in Frames /\ imgBuffer \in Frames
  BY FaceAssumption DEF TypeInv, TypeOK, PanelTypeOK
<1>b. steady' # 0
  <2>1. ASSUME steady' = 0 PROVE FALSE
    <3>1. tm_sec(rtc') \in Nat /\ Settled \in Nat \ {0}
      <4>1. Clearing \in Nat /\ FastTicks \in Nat \ {0} /\ Settled = Clearing + FastTicks
        BY KeepingUp
      <4> QED
        BY <4>1, TimeIs, LengthsAssumption DEF TypeInv, TypeOK
    <3> QED
      BY <2>1, <3>1 DEF Undisturbed, Settled
  <2> QED
    BY <2>1
<1>c. ASSUME rtc' = rtc, steady' = steady PROVE Due \/ pc \in DrawingPlaces \/ Shown
  BY <1>c DEF ScreenInv, Undisturbed, Settled
\* The boot sequence: SNTP has not set the clock yet.
<1>1. CASE BootClear \/ BootRefresh \/ DhcpBound \/ RtcInit \/ BootWait
  <2>1. steady' = 0
    BY <1>1 DEF BootClear, BootRefresh, DhcpBound, RtcInit, BootWait, BusyInv, BootPlaces
  <2> QED
    BY <1>b, <2>1
\* The main loop.
<1>2. CASE Poll
  <2>1. Due \/ Shown
    BY <1>2, <1>c DEF Poll, DrawingPlaces
  <2> QED
    BY <1>2, <2>1 DEF Poll, Due, Shown, isBusy, LoopPlaces
<1>3. ASSUME NEW t \in Times, SntpSet(t) PROVE (Due \/ pc \in DrawingPlaces \/ Shown)'
  <2>1. rtc' = rtc /\ steady' = steady
    BY <1>3, <1>b DEF SntpSet
  <2>2. Due \/ Shown
    BY <1>3, <1>c, <2>1 DEF SntpSet, DrawingPlaces
  <2> QED
    BY <1>3, <2>1, <2>2 DEF SntpSet, Due, Shown, isBusy, LoopPlaces
<1>4. CASE TestFlag
  <2>1. Due \/ Shown
    BY <1>4, <1>c DEF TestFlag, DrawingPlaces
  <2> QED
    BY <1>4, <2>1 DEF TestFlag, Due, Shown, isBusy, LoopPlaces
\* An update.
<1>5. CASE Read
  <2>1. Due \/ Shown
    BY <1>5, <1>c DEF Read, DrawingPlaces
  <2>2. CASE Due
    <3>1. tm_sec(getLocalizedTime(rtc)) = 0
      BY <1>a, <2>2, LocalMinute DEF Due
    <3>2. pc' \in {"setFull", "clear", "paint"}
      <4>1. SecsPerMin \div 2 # 0
        BY LengthsAssumption
      <4> QED
        BY <1>5, <3>1, <4>1 DEF Read
    <3> QED
      BY <3>2 DEF DrawingPlaces
  <2>3. CASE Shown
    <3>1. pc' \in DrawingPlaces \union {"askWeather", "poll"} /\ rtc' = rtc
          /\ drawing' = drawing /\ screen' = screen
      BY <1>5 DEF Read, DrawingPlaces
    <3> QED
      BY <2>3, <3>1 DEF Shown, isBusy, LoopPlaces
  <2> QED
    BY <2>1, <2>2, <2>3
<1>6. CASE SetFull \/ Clear \/ Refresh \/ SetFast \/ Paint
  BY <1>6 DEF SetFull, Clear, Refresh, SetFast, Paint, DrawingPlaces
<1>7. CASE Wait
  BY <1>7 DEF Wait, DrawingPlaces
<1>8. CASE Push
  <2>0. pc = "push" /\ pc' = "poll" /\ rtc' = rtc /\ steady' = steady
    BY <1>8 DEF Push
  <2>1. ~isBusy
    <3>1. Undisturbed
      BY <2>0 DEF Undisturbed, Settled
    <3> QED
      BY <2>0, <3>1, NotBusyInUpdate DEF DrawingPlaces, TypeInv
  <2>2. drawing' = imgBuffer
    BY <1>8, <2>1 DEF Push, einkDisplayFrameFromBufferNonBlocking, StartDrawing, Written
  <2>3. imgBuffer = FaceOf(getLocalizedTime(rtc))
    BY <2>0 DEF UpdateInv, DrawingPlaces, FaceOf
  <2>4. drawing' # NoFrame
    BY <1>a, <2>2, FramesAssumption
  <2> QED
    BY <2>0, <2>2, <2>3, <2>4 DEF Shown, isBusy, LoopPlaces
<1>9. CASE AskWeather
  <2>1. Shown
    BY <1>9, <1>c DEF AskWeather, DrawingPlaces, Due, LoopPlaces
  <2> QED
    BY <1>9, <2>1 DEF AskWeather, Shown, isBusy, LoopPlaces
\* What runs beside the thread.
<1>10. CASE RTC_Seconds_IRQHandler
  <2>0. pc' = pc /\ drawing' = drawing /\ screen' = screen /\ g_SecsFlag' = TRUE
    BY <1>10 DEF RTC_Seconds_IRQHandler, PanelTick
  <2>1. (pc \in LoopPlaces /\ ~g_SecsFlag) \/ pc = "wait"
    BY <1>10, TickWhenIdle DEF TypeInv
  <2>2. CASE pc = "wait"
    BY <2>0, <2>2 DEF DrawingPlaces
  <2>3. CASE pc \in LoopPlaces /\ ~g_SecsFlag
    <3>1. CASE tm_sec(rtc') = 0
      BY <2>0, <2>3, <3>1 DEF Due
    <3>2. CASE tm_sec(rtc') # 0
      <4>1. Undisturbed /\ Minute(rtc') = Minute(rtc)
        BY <1>10, <3>2, WasUndisturbed DEF TypeInv
      <4>2. Shown
        BY <2>3, <4>1 DEF ScreenInv, Due, DrawingPlaces, LoopPlaces
      <4>3. rtc' \in Times
        BY DEF TypeInv, TypeOK
      <4>4. FaceOf(getLocalizedTime(rtc')) = FaceOf(getLocalizedTime(rtc))
        BY <1>a, <4>1, <4>3, LocalMinute DEF FaceOf
      <4> QED
        BY <2>0, <4>2, <4>4 DEF Shown, isBusy
    <3> QED
      BY <3>1, <3>2
  <2> QED
    BY <2>1, <2>2, <2>3
<1>11. CASE PanelFinishes
  <2>1. /\ pc' = pc /\ rtc' = rtc /\ g_SecsFlag' = g_SecsFlag /\ steady' = steady
        /\ isBusy /\ drawing' = NoFrame /\ screen' = drawing
    BY <1>11 DEF PanelFinishes, PanelDone
  <2> QED
    BY <1>c, <2>1 DEF Due, Shown, isBusy
<1>12. CASE UNCHANGED vars
  BY <1>12, <1>c DEF vars, Due, Shown, isBusy
<1> QED
  BY <1>1, <1>2, <1>3, <1>4, <1>5, <1>6, <1>7, <1>8, <1>9, <1>10, <1>11, <1>12
  DEF Next, Thread, Boot, updateData

\* When the thread keeps up, the screen shows the current local minute in every minute
\* that SNTP leaves alone, from the second on by which its drawing is over: although
\* updateData acts only in the very second 0, skips seconds while it clears the panel
\* and does not look at whether the panel took the frame.
THEOREM ShowsTheMinute ==
  ASSUME KeepsUp
  PROVE  Spec => []MinuteOnScreen
<1>1. TypeInv /\ ScreenInv => MinuteOnScreen
  <2> SUFFICES ASSUME TypeInv, ScreenInv, Undisturbed, BetweenUpdates, tm_sec(rtc) >= Settled, ~isBusy
               PROVE  screen = FaceOf(getLocalizedTime(rtc))
    BY DEF MinuteOnScreen
  <2>1. tm_sec(rtc) # 0
    BY KeepingUp
  <2> QED
    BY <2>1 DEF ScreenInv, Due, Shown, BetweenUpdates, LoopPlaces, DrawingPlaces
<1>2. UpdateFits
  BY KeepingUp
<1> QED
  BY <1>1, <1>2, InitTypeOK, StepTypeOK, InitImageInv, StepImageInv, InitModeInv, StepModeInv,
     InitUpdateInv, StepUpdateInv, InitBusyInv, StepBusyInv, InitScreenInv, StepScreenInv,
     PTL DEF Spec, TypeInv

-----------------------------------------------------------------------------
(* The weather of the minute                                                *)

\* Clearing the panel is over before the middle of the minute, at which the weather is
\* asked for.
ClearedInTime == Clearing < SecsPerMin \div 2

\* From the middle of such a minute on the weather has been asked for, or is about to.
WeatherInv ==
  Undisturbed /\ tm_sec(rtc) >= SecsPerMin \div 2 =>
    \/ asked = Minute(rtc)
    \/ /\ tm_sec(rtc) = SecsPerMin \div 2
       /\ (pc \in LoopPlaces /\ g_SecsFlag) \/ pc \in {"read", "askWeather"}

\* At first nothing is undisturbed.
LEMMA InitWeatherInv == ASSUME KeepsUp PROVE Init => WeatherInv
  BY InitTypeOK, NotUndisturbed DEF Init, TypeInv, WeatherInv

\* Every step keeps this: second SecsPerMin \div 2 comes while the thread is in its loop,
\* and does not pass before the update has read it.
LEMMA StepWeatherInv ==
  ASSUME KeepsUp, ClearedInTime
  PROVE  TypeInv /\ TypeInv' /\ ModeInv /\ UpdateInv /\ BusyInv /\ WeatherInv /\ [Next]_vars => WeatherInv'
<1> DEFINE Asking == \/ asked = Minute(rtc)
                     \/ /\ tm_sec(rtc) = SecsPerMin \div 2
                        /\ (pc \in LoopPlaces /\ g_SecsFlag) \/ pc \in {"read", "askWeather"}
<1> SUFFICES ASSUME TypeInv, TypeInv', ModeInv, UpdateInv, BusyInv, WeatherInv, [Next]_vars,
                    Undisturbed', tm_sec(rtc') >= SecsPerMin \div 2
             PROVE  Asking'
  BY DEF WeatherInv
<1>a. rtc \in Times /\ rtc' \in Times /\ SecsPerMin \div 2 \in Nat \ {0}
      /\ \A t \in Times : tm_sec(t) \in Nat
  BY LengthsAssumption, TimeIs DEF TypeInv, TypeOK
<1>b. steady' # 0
  <2>1. ASSUME steady' = 0 PROVE FALSE
    <3>1. Settled \in Nat \ {0}
      <4>1. Clearing \in Nat /\ FastTicks \in Nat \ {0} /\ Settled = Clearing + FastTicks
        BY KeepingUp
      <4> QED
        BY <4>1
    <3>2. tm_sec(rtc') \in Nat
      BY <1>a
    <3> QED
      BY <2>1, <3>1, <3>2 DEF Undisturbed, Settled
  <2> QED
    BY <2>1
<1>c. ASSUME rtc' = rtc, steady' = steady PROVE Asking
  BY <1>c DEF WeatherInv, Undisturbed, Settled
\* The boot sequence: SNTP has not set the clock yet.
<1>1. CASE BootClear \/ BootRefresh \/ DhcpBound \/ RtcInit \/ BootWait
  <2>1. steady' = 0
    BY <1>1 DEF BootClear, BootRefresh, DhcpBound, RtcInit, BootWait, BusyInv, BootPlaces
  <2> QED
    BY <1>b, <2>1
\* The main loop.
<1>2. CASE Poll
  BY <1>2, <1>c DEF Poll, LoopPlaces
<1>3. ASSUME NEW t \in Times, SntpSet(t) PROVE Asking'
  <2>1. rtc' = rtc /\ steady' = steady
    BY <1>3, <1>b DEF SntpSet
  <2> QED
    BY <1>3, <1>c, <2>1 DEF SntpSet, LoopPlaces
<1>4. CASE TestFlag
  BY <1>4, <1>c DEF TestFlag, LoopPlaces
\* An update.
<1>5. CASE Read
  <2>1. rtc' = rtc /\ asked' = asked /\ Asking /\ pc = "read"
    BY <1>5, <1>c DEF Read
  <2>2. CASE asked = Minute(rtc)
    BY <2>1, <2>2
  <2>3. CASE tm_sec(rtc) = SecsPerMin \div 2
    <3>1. tm_sec(getLocalizedTime(rtc)) = SecsPerMin \div 2
      BY <1>a, <2>3, LocalMinute
    <3>2. pc' = "askWeather"
      BY <1>a, <1>5, <3>1 DEF Read
    <3> QED
      BY <2>1, <2>3, <3>2
  <2> QED
    BY <2>1, <2>2, <2>3
<1>6. CASE SetFull \/ Clear \/ Refresh \/ Wait \/ SetFast \/ Paint \/ Push
  <2>1. rtc' = rtc /\ steady' = steady /\ asked' = asked /\ pc \in DrawingPlaces
    BY <1>6 DEF SetFull, Clear, Refresh, Wait, SetFast, Paint, Push, DrawingPlaces
  <2>2. pc \notin LoopPlaces \union {"read", "askWeather"}
    BY <2>1 DEF LoopPlaces, DrawingPlaces
  <2> QED
    BY <1>c, <2>1, <2>2
<1>7. CASE AskWeather
  BY <1>7 DEF AskWeather
\* What runs beside the thread.
<1>8. CASE RTC_Seconds_IRQHandler
  <2>0. pc' = pc /\ asked' = asked /\ g_SecsFlag' = TRUE
    BY <1>8 DEF RTC_Seconds_IRQHandler
  <2>1. /\ (pc \in LoopPlaces /\ ~g_SecsFlag) \/ (pc = "wait" /\ isBusy)
        /\ stall' = 0
    BY <1>8, TickWhenIdle DEF TypeInv
  <2>2. Undisturbed /\ Minute(rtc') = Minute(rtc) /\ tm_sec(rtc') = tm_sec(rtc) + 1
    BY <1>8, <1>a, WasUndisturbed DEF TypeInv
  <2>3. CASE pc = "wait" /\ isBusy
    <3>1. tm_sec(rtc) + 1 <= 0 + Clearing
      BY <1>8, <2>1, <2>3, KeepingUp, SecondOfUpdate DEF DrawingPlaces
    <3>2. PICK s \in Nat, c \in Nat, m \in Nat : s = tm_sec(rtc) /\ c = Clearing /\ m = SecsPerMin \div 2
      BY <1>a, KeepingUp
    <3>3. s + 1 <= c /\ c < m /\ s + 1 >= m
      BY <2>2, <3>1, <3>2 DEF ClearedInTime
    <3> QED
      BY <3>2, <3>3
  <2>4. CASE pc \in LoopPlaces /\ ~g_SecsFlag
    <3>1. CASE tm_sec(rtc) >= SecsPerMin \div 2
      <4>1. asked = Minute(rtc)
        BY <2>2, <2>4, <3>1 DEF WeatherInv, LoopPlaces
      <4> QED
        BY <2>0, <2>2, <4>1
    <3>2. CASE ~ (tm_sec(rtc) >= SecsPerMin \div 2)
      <4>1. tm_sec(rtc') = SecsPerMin \div 2
        BY <1>a, <2>2, <3>2
      <4> QED
        BY <2>0, <2>4, <4>1
    <3> QED
      BY <3>1, <3>2
  <2> QED
    BY <2>1, <2>3, <2>4
<1>9. CASE PanelFinishes
  BY <1>9, <1>c DEF PanelFinishes
<1>10. CASE UNCHANGED vars
  BY <1>10, <1>c DEF vars
<1> QED
  BY <1>1, <1>2, <1>3, <1>4, <1>5, <1>6, <1>7, <1>8, <1>9, <1>10
  DEF Next, Thread, Boot, updateData

\* When the thread keeps up and clears the panel within half a minute, the update that
\* reads tm_sec = 30 exactly is never missed: every minute that SNTP leaves alone asks
\* for the weather.
THEOREM AsksEveryMinute ==
  ASSUME KeepsUp, ClearedInTime
  PROVE  Spec => []WeatherEveryMinute
<1>1. WeatherInv => WeatherEveryMinute
  BY DEF WeatherInv, WeatherEveryMinute, BetweenUpdates, LoopPlaces
<1>2. UpdateFits
  BY KeepingUp
<1> QED
  BY <1>1, <1>2, InitTypeOK, StepTypeOK, InitImageInv, StepImageInv, InitModeInv, StepModeInv,
     InitUpdateInv, StepUpdateInv, InitBusyInv, StepBusyInv, InitWeatherInv, StepWeatherInv,
     PTL DEF Spec, TypeInv
=============================================================================
