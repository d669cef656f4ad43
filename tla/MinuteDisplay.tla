---------------------------- MODULE MinuteDisplay ----------------------------
(* What the clock promises who looks at it: the display gets no minute to    *)
(* draw but the current one.  It may come late or not at all, be drawn again *)
(* or give way to a blank display; but a minute the display has not got, or  *)
(* one it got before the last, does not come on the screen.                  *)

CONSTANTS Faces, Blank, NoFrame

VARIABLES
  now,       \* the face of the current minute
  kept,      \* what the display draws when told to draw again
  drawing,   \* what it is drawing, or NoFrame
  screen     \* what is seen

displayVars == <<now, kept, drawing, screen>>

Init ==
  /\ now \in Faces
  /\ kept = Blank
  /\ drawing \in {NoFrame, Blank}
  /\ screen = Blank

\* Time passes or the clock is set.
Pass == now' \in Faces /\ UNCHANGED <<kept, drawing, screen>>

\* The current minute, and no other, may be drawn on an idle display.
Show ==
  /\ drawing = NoFrame
  /\ kept' = now
  /\ drawing' = now
  /\ UNCHANGED <<now, screen>>

Repeat == drawing' = kept /\ UNCHANGED <<now, kept, screen>>

Forget == kept' = Blank /\ UNCHANGED <<now, drawing, screen>>

Finish ==
  /\ drawing # NoFrame
  /\ screen' = drawing
  /\ drawing' = NoFrame
  /\ UNCHANGED <<now, kept>>

Next == Pass \/ Show \/ Repeat \/ Forget \/ Finish

Spec == Init /\ [][Next]_displayVars
=============================================================================
