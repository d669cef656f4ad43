-------------------------------- MODULE Eink --------------------------------
(***************************************************************************)
(* The 2.7 inch e-paper panel and the driver calls of eink_control.c that  *)
(* touch it.  The panel holds one frame in its SRAM; DISPLAY_REFRESH makes *)
(* it draw that frame, which takes a while during which the BUSY pin is    *)
(* low.  Only two driver calls look at the pin: einkWaitUntilIdle and      *)
(* einkDisplayFrameFromBufferNonBlocking.  All others write regardless.    *)
(*                                                                         *)
(* The black and the red plane are always written together, so one frame   *)
(* stands for both.  The panel documentation does not say what a command   *)
(* sent during a refresh does: here it is either obeyed or ignored.        *)
(***************************************************************************)
EXTENDS Naturals

CONSTANTS
  Frames,      \* what the SRAM and the screen can hold
  Blank,       \* the frame einkClearFrame writes: all bytes 0
  NoFrame,     \* "no refresh is going on"
  FastTicks,   \* the longest FAST_REFRESH, in seconds interrupts
  FullTicks    \* the longest FULL_REFRESH, in seconds interrupts

ASSUME FramesAssumption == Blank \in Frames /\ NoFrame \notin Frames
ASSUME TicksAssumption == FastTicks \in Nat /\ FullTicks \in Nat

VARIABLES
  sram,      \* the frame in the panel's SRAM
  drawing,   \* the frame being drawn, NoFrame when the panel is idle
  screen,    \* the frame the panel shows
  mode,      \* which look-up tables PANEL_SETTING selects
  age        \* seconds interrupts since the refresh began

panelVars == <<sram, drawing, screen, mode, age>>

FULL_REFRESH == "full"
FAST_REFRESH == "fast"
Modes == {FULL_REFRESH, FAST_REFRESH}

PanelTypeOK ==
  /\ sram \in Frames
  /\ drawing \in Frames \union {NoFrame}
  /\ screen \in Frames
  /\ mode \in Modes
  /\ age \in Nat

\* GPIO_PinRead of the BUSY pin, which is active low.
isBusy == drawing # NoFrame

RefreshTicks == IF mode = FULL_REFRESH THEN FullTicks ELSE FastTicks

\* einkInit leaves the panel in full mode with a PARTIAL_DISPLAY_REFRESH as
\* its last command, which it does not wait for.
PanelInit ==
  /\ sram = Blank
  /\ screen = Blank
  /\ drawing \in {NoFrame, Blank}
  /\ mode = FULL_REFRESH
  /\ age = 0

\* What a register holds after the panel was told to hold v.
Written(old, v) == IF isBusy THEN {old, v} ELSE {v}

\* DATA_START_TRANSMISSION_1 and _2 with the bytes of frame f.
WriteSram(f) == sram' \in Written(sram, f)

einkClearFrame == WriteSram(Blank)

\* DISPLAY_REFRESH, with f in the SRAM.
StartDrawing(f) ==
  /\ drawing' \in Written(drawing, f)
  /\ age' = 0
  /\ UNCHANGED screen

einkSetRefreshMode(m) == mode' \in Written(mode, m)

\* Returns early when the panel is busy: then no command is sent at all.
einkDisplayFrameFromBufferNonBlocking(f) ==
  IF isBusy
  THEN UNCHANGED panelVars
  ELSE /\ WriteSram(f)
       /\ StartDrawing(f)
       /\ UNCHANGED mode

\* The panel finishes the refresh.
PanelDone ==
  /\ isBusy
  /\ screen' = drawing
  /\ drawing' = NoFrame
  /\ UNCHANGED <<sram, mode, age>>

\* A second passes for the panel: a refresh that has used up its time must
\* have ended before.
PanelTick ==
  /\ isBusy => age < RefreshTicks
  /\ age' = IF isBusy THEN age + 1 ELSE age
  /\ UNCHANGED <<sram, drawing, screen, mode>>
=============================================================================
