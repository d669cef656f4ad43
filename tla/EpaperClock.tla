----------------------------- MODULE EpaperClock -----------------------------
(***************************************************************************)
(* main(), updateData() and the RTC seconds interrupt of                   *)
(* main_epaper_clock.c, driving the panel of module Eink.                  *)
(*                                                                         *)
(* One thread runs everything; the seconds interrupt and the panel run     *)
(* beside it, so they may step between any two steps of the thread.  The   *)
(* interrupt only sets the flag g_SecsFlag: seconds are not counted, and   *)
(* the thread acts on the minute only in an update that reads tm_sec = 0   *)
(* and asks for the weather only in one that reads tm_sec = 30.            *)
(*                                                                         *)
(* Time is the seconds counter of the RTC modulo a Cycle of whole days;    *)
(* the lengths of a minute, an hour and a day are constants.               *)
(***************************************************************************)
EXTENDS Eink, Integers, FiniteSets

CONSTANTS
  SecsPerMin,    \* 60
  MinsPerHour,   \* 60
  HoursPerDay,   \* 24
  Days,          \* days in a Cycle
  TimeZone,      \* EST, in hours
  DstHours,      \* hours of the Cycle (standard time) in which isDst holds
  Jumps,         \* by how many seconds an SNTP answer may move a running RTC
  MinQuiet,      \* seconds at least between two answers that move the RTC
  MaxStall,      \* seconds interrupts that may pass while work is waiting
  WarmStart      \* the RTC may have been running when the processor was reset

ASSUME LengthsAssumption ==
  /\ SecsPerMin \in Nat \ {0, 1}
  /\ MinsPerHour \in Nat \ {0}
  /\ HoursPerDay \in Nat \ {0}
  /\ Days \in Nat \ {0}
ASSUME ZoneAssumption == TimeZone \in Int /\ DstHours \subseteq Nat
ASSUME NetAssumption == Jumps \subseteq Int /\ MinQuiet \in Nat /\ MaxStall \in Nat
ASSUME WarmAssumption == WarmStart \in BOOLEAN

Hours == HoursPerDay * Days
Minutes == MinsPerHour * Hours
ASSUME FaceAssumption == Frames = SUBSET (0 .. Minutes - 1) /\ Blank = {}

Cycle == SecsPerMin * Minutes
Times == 0 .. Cycle - 1

\* No property asks how long ago a correction older than this was.
MaxSteady == 2 * SecsPerMin

VARIABLES
  rtc,          \* the TSR register of the RTC
  running,      \* the RTC counts: set by the first SNTP answer
  g_SecsFlag,
  pc,           \* where the thread is
  timeinfo,     \* the local time updateData works with
  left,         \* refreshes the clearing of the panel still has to do
  imgBuffer,    \* the local minutes drawn into the image buffers
  stall,        \* interrupts since the pending update became due
  asked,        \* the (UTC) minute in which updateData last asked for the
                \* weather, -1 for none
  steady        \* seconds since SNTP last moved the RTC, up to MaxSteady

threadVars == <<pc, timeinfo, left, imgBuffer>>
historyVars == <<asked, steady>>
vars == <<panelVars, rtc, running, g_SecsFlag, threadVars, stall, historyVars>>

-----------------------------------------------------------------------------
(* Time                                                                     *)

tm_sec(t) == t % SecsPerMin
Minute(t) == t \div SecsPerMin
tm_min(t) == Minute(t) % MinsPerHour
Hour(t) == t \div (SecsPerMin * MinsPerHour)
tm_hour(t) == Hour(t) % HoursPerDay

isDst(t) == Hour(t) \in DstHours

\* Two conversions: the date in standard time decides on daylight saving.
getLocalizedTime(utc) ==
  LET hour == SecsPerMin * MinsPerHour
      standard == (utc + hour * TimeZone) % Cycle
  IN IF isDst(standard) THEN (standard + hour) % Cycle ELSE standard

\* A frame is the set of minutes whose text has been drawn into it.
FaceOf(t) == {Minute(t)}

-----------------------------------------------------------------------------
(* Where the thread can be.  Each place is named for the call it makes next. *)

BootPlaces == {"einkClearFrame", "firstRefresh", "dhcpWait", "rtcInit", "bootWait"}
LoopPlaces == {"poll", "testFlag"}
UpdatePlaces == {"read", "setFull", "clear", "refresh", "wait", "setFast",
                 "paint", "push", "askWeather"}
Places == BootPlaces \union LoopPlaces \union UpdatePlaces

\* Places at which the next call writes to the panel without looking at BUSY.
BlindPlaces == {"setFull", "clear", "refresh", "setFast"}

TypeOK ==
  /\ PanelTypeOK
  /\ rtc \in Times
  /\ running \in BOOLEAN
  /\ g_SecsFlag \in BOOLEAN
  /\ pc \in Places
  /\ timeinfo \in Times
  /\ left \in 0 .. 3
  /\ imgBuffer \subseteq 0 .. Minutes - 1
  /\ stall \in 0 .. MaxStall
  /\ asked \in -1 .. Minutes - 1
  /\ steady \in 0 .. MaxSteady

Init ==
  /\ PanelInit
  /\ rtc \in Times          \* the RTC keeps its time, or counts, over a reset
  /\ running = FALSE
  /\ g_SecsFlag = FALSE
  /\ pc = "einkClearFrame"
  /\ timeinfo = 0
  /\ left = 0
  /\ imgBuffer = {}
  /\ stall = 0
  /\ asked = -1
  /\ steady = 0

Goto(from, to) == pc = from /\ pc' = to

rtcVars == <<rtc, running, g_SecsFlag>>

-----------------------------------------------------------------------------
(* The boot sequence                                                        *)

BootClear ==
  /\ Goto("einkClearFrame", "firstRefresh")
  /\ einkClearFrame
  /\ UNCHANGED <<drawing, screen, mode, age, rtcVars, timeinfo, left, imgBuffer, stall,
                 historyVars>>

\* einkDisplayFrameFromSRAMNonBlocking
BootRefresh ==
  /\ Goto("firstRefresh", "dhcpWait")
  /\ StartDrawing(sram)
  /\ UNCHANGED <<sram, mode, rtcVars, timeinfo, left, imgBuffer, stall, historyVars>>

\* The loop around print_dhcp_state ends when DHCP is bound.
DhcpBound ==
  /\ Goto("dhcpWait", "rtcInit")
  /\ UNCHANGED <<panelVars, rtcVars, timeinfo, left, imgBuffer, stall, historyVars>>

\* RTC_Init .. RTC_EnableInterrupts, sntp_init and the first weather request.
\* RTC_Init resets an RTC whose time is invalid and sets it to 1.  The RTC
\* then stays stopped; but if it was running when the processor was reset, a
\* seconds interrupt may be pending, which EnableIRQ lets through.
RtcInit ==
  /\ Goto("rtcInit", "bootWait")
  /\ running' = FALSE
  /\ rtc' \in {rtc, 1}
  /\ g_SecsFlag' \in {FALSE, WarmStart}
  /\ UNCHANGED <<panelVars, timeinfo, left, imgBuffer, stall,
                 historyVars>>

BootWait ==
  /\ ~isBusy
  /\ Goto("bootWait", "poll")
  /\ einkSetRefreshMode(FAST_REFRESH)
  /\ UNCHANGED <<sram, drawing, screen, age, rtcVars, timeinfo, left, imgBuffer, stall,
                 historyVars>>

-----------------------------------------------------------------------------
(* The main loop                                                            *)

\* ethernetif_input and sys_check_timeouts when no SNTP answer is handled.
Poll ==
  /\ Goto("poll", "testFlag")
  /\ UNCHANGED <<panelVars, rtcVars, timeinfo, left, imgBuffer, stall, historyVars>>

\* ethernetif_input hands sntp_recv an answer: stop the RTC, write TSR, start.
\* The first answer may set any time, later ones correct it.  sntp.c asks
\* every SNTP_UPDATE_DELAY = 360 seconds, which MinQuiet stands for.
SntpSet(t) ==
  /\ Goto("poll", "testFlag")
  /\ running => \E d \in Jumps : t = (rtc + d) % Cycle /\ (d = 0 \/ steady >= MinQuiet)
  /\ rtc' = t
  /\ running' = TRUE
  /\ steady' = IF running /\ t = rtc THEN steady ELSE 0
  /\ UNCHANGED <<panelVars, g_SecsFlag, timeinfo, left, imgBuffer, stall, asked>>

TestFlag ==
  /\ pc = "testFlag"
  /\ pc' = IF g_SecsFlag THEN "read" ELSE "poll"
  /\ g_SecsFlag' = FALSE
  /\ UNCHANGED <<panelVars, rtc, running, timeinfo, left, imgBuffer, stall, historyVars>>

-----------------------------------------------------------------------------
(* updateData                                                               *)

\* Mutant of Read: nothing is painted but the hours.
ReadOnTheHour ==
  LET now == getLocalizedTime(rtc) IN
  /\ pc = "read"
  /\ timeinfo' = now
  /\ pc' = CASE tm_sec(now) = 0 /\ tm_hour(now) = 0 /\ tm_min(now) = 0 -> "setFull"
             [] tm_sec(now) = 0 /\ tm_hour(now) # 0 /\ tm_min(now) = 0 -> "clear"
             [] tm_sec(now) = SecsPerMin \div 2 -> "askWeather"
             [] OTHER -> "poll"
  /\ stall' = 0
  /\ UNCHANGED <<panelVars, rtcVars, left, imgBuffer, historyVars>>

\* RTC_GetDatetime, getLocalizedTime and the tests on the result.
Read ==
  LET now == getLocalizedTime(rtc) IN
  /\ pc = "read"
  /\ timeinfo' = now
  /\ pc' = CASE tm_sec(now) = 0 /\ tm_hour(now) = 0 /\ tm_min(now) = 0 -> "setFull"
             [] tm_sec(now) = 0 /\ tm_hour(now) # 0 /\ tm_min(now) = 0 -> "clear"
             [] tm_sec(now) = 0 /\ tm_min(now) # 0 -> "paint"
             [] tm_sec(now) = SecsPerMin \div 2 -> "askWeather"
             [] OTHER -> "poll"
  /\ stall' = 0
  /\ UNCHANGED <<panelVars, rtcVars, left, imgBuffer, historyVars>>

\* At midnight the panel is cleared by one full refresh, on any other hour
\* by three fast ones.
SetFull ==
  /\ Goto("setFull", "clear")
  /\ einkSetRefreshMode(FULL_REFRESH)
  /\ UNCHANGED <<sram, drawing, screen, age, rtcVars, timeinfo, left, imgBuffer, stall,
                 historyVars>>

\* Mutant of Clear: six refreshes.
ClearSixTimes ==
  /\ Goto("clear", "refresh")
  /\ einkClearFrame
  /\ left' = 6
  /\ UNCHANGED <<drawing, screen, mode, age, rtcVars, timeinfo, imgBuffer, stall,
                 historyVars>>

Clear ==
  /\ Goto("clear", "refresh")
  /\ einkClearFrame
  /\ left' = IF tm_hour(timeinfo) = 0 THEN 1 ELSE 3
  /\ UNCHANGED <<drawing, screen, mode, age, rtcVars, timeinfo, imgBuffer, stall,
                 historyVars>>

\* einkDisplayFrameFromSRAMBlocking: DISPLAY_REFRESH ...
Refresh ==
  /\ Goto("refresh", "wait")
  /\ StartDrawing(sram)
  /\ left' = left - 1
  /\ UNCHANGED <<sram, mode, rtcVars, timeinfo, imgBuffer, stall, historyVars>>

\* Mutants of Wait: one refresh too many, no waiting at all, and no return to
\* the fast tables.
WaitOnceMore ==
  /\ pc = "wait"
  /\ ~isBusy
  /\ pc' = CASE left >= 0 -> "refresh"
             [] left < 0 /\ tm_hour(timeinfo) = 0 -> "setFast"
             [] OTHER -> "paint"
  /\ UNCHANGED <<panelVars, rtcVars, timeinfo, left, imgBuffer, stall, historyVars>>

WaitNotAtAll ==
  /\ pc = "wait"
  /\ pc' = CASE left > 0 -> "refresh"
             [] left = 0 /\ tm_hour(timeinfo) = 0 -> "setFast"
             [] OTHER -> "paint"
  /\ UNCHANGED <<panelVars, rtcVars, timeinfo, left, imgBuffer, stall, historyVars>>

WaitStayFull ==
  /\ pc = "wait"
  /\ ~isBusy
  /\ pc' = IF left > 0 THEN "refresh" ELSE "paint"
  /\ UNCHANGED <<panelVars, rtcVars, timeinfo, left, imgBuffer, stall, historyVars>>

\* ... and einkWaitUntilIdle.
Wait ==
  /\ pc = "wait"
  /\ ~isBusy
  /\ pc' = CASE left > 0 -> "refresh"
             [] left = 0 /\ tm_hour(timeinfo) = 0 -> "setFast"
             [] OTHER -> "paint"
  /\ UNCHANGED <<panelVars, rtcVars, timeinfo, left, imgBuffer, stall, historyVars>>

SetFast ==
  /\ Goto("setFast", "paint")
  /\ einkSetRefreshMode(FAST_REFRESH)
  /\ UNCHANGED <<sram, drawing, screen, age, rtcVars, timeinfo, left, imgBuffer, stall,
                 historyVars>>

\* Mutant of Paint: draws the time of the RTC, not the local time.
PaintUtc ==
  /\ Goto("paint", "push")
  /\ imgBuffer' = imgBuffer \union FaceOf(rtc)
  /\ UNCHANGED <<panelVars, rtcVars, timeinfo, left, stall, historyVars>>

\* The paintDrawString calls draw over what the buffers hold.
Paint ==
  /\ Goto("paint", "push")
  /\ imgBuffer' = imgBuffer \union FaceOf(timeinfo)
  /\ UNCHANGED <<panelVars, rtcVars, timeinfo, left, stall, historyVars>>

\* Mutant of Push: a frame the panel has refused stays in the buffer.
PushKeepRefused ==
  /\ Goto("push", "poll")
  /\ einkDisplayFrameFromBufferNonBlocking(imgBuffer)
  /\ imgBuffer' = IF isBusy THEN imgBuffer ELSE {}
  /\ UNCHANGED <<rtcVars, timeinfo, left, stall, historyVars>>

\* The result of the push is not looked at: the buffers are cleared anyway.
Push ==
  /\ Goto("push", "poll")
  /\ einkDisplayFrameFromBufferNonBlocking(imgBuffer)
  /\ imgBuffer' = {}
  /\ UNCHANGED <<rtcVars, timeinfo, left, stall, historyVars>>

AskWeather ==
  /\ Goto("askWeather", "poll")
  /\ asked' = Minute(rtc)
  /\ UNCHANGED <<panelVars, rtcVars, timeinfo, left, imgBuffer, stall, steady>>

-----------------------------------------------------------------------------
(* What runs beside the thread                                              *)

\* The thread has work it could be doing: an update is due or under way and
\* does not wait for the panel.
Pending ==
  \/ pc \in LoopPlaces /\ g_SecsFlag
  \/ pc \in UpdatePlaces \ {"wait"}
  \/ pc = "wait" /\ ~isBusy

\* The RTC counts a second and RTC_Seconds_IRQHandler runs.  MaxStall bounds
\* how many seconds may pass while work is pending; 0 is a thread that always
\* gets round its loop within a second.
RTC_Seconds_IRQHandler ==
  /\ running
  /\ Pending => stall < MaxStall
  /\ PanelTick
  /\ rtc' = (rtc + 1) % Cycle
  /\ g_SecsFlag' = TRUE
  /\ stall' = IF Pending THEN stall + 1 ELSE stall
  /\ steady' = IF steady < MaxSteady THEN steady + 1 ELSE steady
  /\ UNCHANGED <<running, threadVars, asked>>

PanelFinishes ==
  /\ PanelDone
  /\ UNCHANGED <<rtcVars, threadVars, stall, historyVars>>

Boot == BootClear \/ BootRefresh \/ DhcpBound \/ RtcInit \/ BootWait

updateData ==
  \/ Read \/ SetFull \/ Clear \/ Refresh \/ Wait \/ SetFast \/ Paint \/ Push
  \/ AskWeather

Thread == Boot \/ Poll \/ TestFlag \/ updateData

Next ==
  \/ Thread
  \/ \E t \in Times : SntpSet(t)
  \/ RTC_Seconds_IRQHandler
  \/ PanelFinishes

\* The thread runs, the RTC counts, the panel finishes its refreshes; and
\* some server answers SNTP while the clock is not set.
Fairness ==
  /\ WF_vars(Thread)
  /\ WF_vars(RTC_Seconds_IRQHandler)
  /\ WF_vars(PanelFinishes)
  /\ SF_vars(~running /\ \E t \in Times : SntpSet(t))

Spec == Init /\ [][Next]_vars /\ Fairness
-----------------------------------------------------------------------------
(* Properties                                                               *)

\* The thread is between two updates and none is due.
BetweenUpdates == pc \in LoopPlaces /\ ~g_SecsFlag

\* By this second of a minute the drawing of the minute is over.
Settled ==
  LET clearing == IF FullTicks > 3 * FastTicks THEN FullTicks ELSE 3 * FastTicks
  IN clearing + FastTicks

\* SNTP has not moved the clock since its minute began, nor so shortly before
\* that the panel could still have been drawing an earlier one.
Undisturbed == steady >= tm_sec(rtc) + Settled

\* updateData compares tm_sec with 0 for equality, after waiting out up to
\* three refreshes and without looking at whether the panel took the frame
\* (main_epaper_clock.c:651, 715).  Still, in a minute that SNTP leaves alone
\* the screen shows the current local minute from the Settled second on,
\* however the seconds interrupts, the panel and the thread interleave and
\* whatever corrections and stale updates came before.
MinuteOnScreen ==
  Undisturbed /\ BetweenUpdates /\ tm_sec(rtc) >= Settled /\ ~isBusy
    => screen = FaceOf(getLocalizedTime(rtc))

\* The weather is asked for in an update that reads tm_sec = 30 exactly
\* (line 721).  The clearing refreshes, which skip seconds, are over before:
\* every minute of an undisturbed clock gets its request.
WeatherEveryMinute ==
  Undisturbed /\ BetweenUpdates /\ tm_sec(rtc) >= SecsPerMin \div 2
    => asked = Minute(rtc)

\* A frame never carries the digits of two minutes on top of each other:
\* the image buffers are cleared after every push, also when the busy panel
\* refused the frame (line 715).
NoOverprint ==
  \A f \in {sram, drawing, screen, imgBuffer} \ {NoFrame} : Cardinality(f) <= 1

\* updateData reads the clock once and pushes the frame after up to three
\* blocking refreshes (lines 643 to 715).  The minute it read is still the
\* current one when the frame is pushed.
PushedMinuteIsCurrent ==
  pc = "push" => imgBuffer = FaceOf(getLocalizedTime(rtc))

Display ==
  INSTANCE MinuteDisplay WITH
    Faces <- {FaceOf(t) : t \in Times},
    now <- FaceOf(getLocalizedTime(rtc)),
    kept <- sram

\* Whoever looks at the panel: what updateData pushes after up to three blocking
\* refreshes (lines 643 to 715) is the minute of that moment, and between the
\* pushes, with commands obeyed or ignored by a busy panel (eink_control.c:230-368),
\* nothing gets on the screen but blank frames and the minute pushed last.
ShowsOnlyCurrentMinutes == Display!Spec

\* einkClearFrame, einkDisplayFrameFromSRAMBlocking and einkSetRefreshMode
\* send commands without looking at the BUSY pin (main_epaper_clock.c:659-669).
\* In a minute that SNTP leaves alone none of them meets a panel that is
\* drawing: the refresh the last update left behind, which nobody waited for,
\* is over before the next update starts.
BlindWritesOnlyWhenIdle == Undisturbed /\ pc \in BlindPlaces => ~isBusy

\* The full-refresh tables are selected on the way through midnight only: no
\* minute is ever pushed with the slow, flashing full refresh, although a
\* panel that is busy may have ignored the command (lines 659 and 662).
FastBetweenUpdates == pc \in LoopPlaces \union {"paint", "push"} => mode = FAST_REFRESH

\* Comment "if it's a new minute, refresh the screen" (line 650): once the
\* clock has drawn a minute, every later minute is on the screen when its
\* drawing is over.
EveryNewMinuteIsDrawn ==
  screen # Blank /\ BetweenUpdates /\ tm_sec(rtc) >= Settled /\ ~isBusy
    => screen = FaceOf(getLocalizedTime(rtc))

\* The minute u is current and on the screen.
Shows(u) == Minute(rtc) = u /\ screen = FaceOf(getLocalizedTime(rtc))

\* The minute u comes to its last second without a correction by SNTP.
Whole(u) == Minute(rtc) = u /\ Undisturbed /\ tm_sec(rtc) = SecsPerMin - 1

\* Only the seconds interrupt (line 131) of an RTC that some SNTP answer must
\* first start (line 825) drives the display, and a minute that is missed is
\* never made up for.  Still, from boot on the clock shows every minute while it is
\* current, cycle after cycle: once SNTP no longer moves the clock, all of them,
\* and before that each one it leaves alone again and again.
KeepsShowingTime ==
  \A u \in {Minute(t) : t \in Times} :
    <>[](running => steady > 0) \/ []<>Whole(u)  =>  []<>Shows(u)
=============================================================================
