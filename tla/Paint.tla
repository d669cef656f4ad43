-------------------------------- MODULE Paint --------------------------------
(***************************************************************************)
(* What updateData paints and where the dots go: the texts and the icon of *)
(* the clock's face, the font, the rotation and the addressing of the      *)
(* buffers (paint... of source/eink_control.c).                            *)
(*                                                                         *)
(* The image is the set of the bits that are set in a buffer, counted from *)
(* its first byte, most significant bit first.  The black and the red      *)
(* buffer are addressed alike; one image stands for both.                  *)
(***************************************************************************)
EXTENDS Integers, Sequences, FiniteSets, FiniteSetsExt, Functions

CONSTANTS
  PAINT_WIDTH,
  PAINT_HEIGHT,
  Faces      \* [hour, min, wday, temperature, description: its length]

ASSUME PaintAssumption ==
  /\ PAINT_WIDTH \in Nat \ {0} /\ PAINT_WIDTH % 8 = 0
  /\ PAINT_HEIGHT \in Nat \ {0}

ASSUME FacesAssumption ==
  Faces \subseteq [hour : 0 .. 23, min : 0 .. 59, wday : 0 .. 6, temperature : Int,
                   description : Nat]

VARIABLES
  image,     \* imgBuffer and colorBuffer
  face       \* what it shows, or Blank

paintVars == <<image, face>>

Blank == [hour |-> -1]

Columns == 0 .. PAINT_WIDTH - 1
Rows == 0 .. PAINT_HEIGHT - 1
-----------------------------------------------------------------------------
(* Dots                                                                     *)

\* 0x80 >> (x % 8) of the byte at (x + y * PAINT_WIDTH) / 8.
Bit(x, y) == 8 * ((x + y * PAINT_WIDTH) \div 8) + (x % 8)

\* Each byte of a row holds its eight dots: the width is a multiple of 8.
BufferBits == 0 .. PAINT_WIDTH * PAINT_HEIGHT - 1

\* paintDrawPixel with ROTATE_270 and paintDrawAbsolutePixel: the bits of what is
\* visible of some dots [x, y].
paintDrawPixels(dots) ==
  {Bit(d[2], PAINT_HEIGHT - d[1]) : d \in
     {e \in dots : e[1] \in Rows /\ e[2] \in Columns /\ PAINT_HEIGHT - e[1] \in Rows}}

\* The characters of Font12 the clock shows, a byte for each of the 12 rows.  Of
\* the letters in date and description only the room they take is of interest.
Font12_Table == [
  zero  |-> <<0, 56, 68, 68, 68, 68, 68, 68, 56, 0, 0, 0>>,
  one   |-> <<0, 48, 16, 16, 16, 16, 16, 16, 124, 0, 0, 0>>,
  two   |-> <<0, 56, 68, 4, 8, 16, 32, 68, 124, 0, 0, 0>>,
  three |-> <<0, 56, 68, 4, 24, 4, 4, 68, 56, 0, 0, 0>>,
  four  |-> <<0, 12, 20, 20, 36, 68, 126, 4, 14, 0, 0, 0>>,
  five  |-> <<0, 60, 32, 32, 56, 4, 4, 68, 56, 0, 0, 0>>,
  six   |-> <<0, 28, 32, 64, 120, 68, 68, 68, 56, 0, 0, 0>>,
  seven |-> <<0, 124, 68, 4, 8, 8, 8, 16, 16, 0, 0, 0>>,
  eight |-> <<0, 56, 68, 68, 56, 68, 68, 68, 56, 0, 0, 0>>,
  nine  |-> <<0, 56, 68, 68, 68, 60, 4, 8, 112, 0, 0, 0>>,
  colon |-> <<0, 0, 0, 48, 48, 0, 0, 48, 48, 0, 0, 0>>,
  minus |-> <<0, 0, 0, 0, 0, 124, 0, 0, 0, 0, 0, 0>>,
  A     |-> <<0, 48, 16, 40, 40, 40, 124, 68, 238, 0, 0, 0>>,
  F     |-> <<0, 126, 34, 40, 56, 40, 32, 32, 112, 0, 0, 0>>,
  M     |-> <<0, 238, 108, 108, 84, 84, 68, 68, 238, 0, 0, 0>>,
  P     |-> <<0, 120, 36, 36, 36, 56, 32, 32, 112, 0, 0, 0>>,
  space |-> <<0, 0, 0, 0, 0, 0, 0, 0, 0, 0, 0, 0>>,
  letter |-> <<0, 254, 254, 254, 254, 254, 254, 254, 254, 254, 254, 0>>]

Font12 == [Width |-> 7, Height |-> 12]

\* 0x80 >> i for the columns of a character.
ColumnBit == <<128, 64, 32, 16, 8, 4, 2>>

\* The dots of a character that are set, from its upper left corner.
Lit ==
  [c \in DOMAIN Font12_Table |->
     {d \in (0 .. Font12.Width - 1) \X (0 .. Font12.Height - 1) :
        (Font12_Table[c][d[2] + 1] \div ColumnBit[d[1] + 1]) % 2 = 1}]

\* Each dot as a square of dots, moved to [x, y].
Scaled(dots, x, y, scale) ==
  {<<x + d[1] * scale + k, y + d[2] * scale + l>> :
     d \in dots, k \in 0 .. scale - 1, l \in 0 .. scale - 1}

\* paintDrawString and paintDrawChar: the dots of a text.
paintDrawString(x, y, text, scale) ==
  UNION {Scaled(Lit[text[n]], x + (n - 1) * Font12.Width * scale, y, scale) : n \in DOMAIN text}

\* paintDrawIcon: the room which the largest of the 80 by 80 icons takes.
paintDrawIcon(x, y) == Scaled((5 .. 74) \X (12 .. 68), x, y, 1)

\* paintClear visits every dot.
AllDots == {Bit(x, y) : x \in Columns, y \in Rows}
paintClear(bits) == bits \ AllDots
-----------------------------------------------------------------------------
(* Texts                                                                    *)

Digit(n) ==
  <<"zero", "one", "two", "three", "four", "five", "six", "seven", "eight", "nine">>[n + 1]

Decimal(n) ==
  (IF n >= 100 THEN <<Digit(n \div 100)>> ELSE <<>>)
    \o (IF n >= 10 THEN <<Digit((n \div 10) % 10)>> ELSE <<>>) \o <<Digit(n % 10)>>

Letters(n) == [i \in 1 .. n |-> "letter"]

getTwelveHourTime(hour) == IF hour > 12 THEN hour - 12 ELSE IF hour = 0 THEN 12 ELSE hour

timeBuf(f) ==
  Decimal(getTwelveHourTime(f.hour)) \o <<"colon", Digit(f.min \div 10), Digit(f.min % 10)>>

\* "Sunday, Jan 01": the name of the day and eight characters.
dateBuf(f) == Letters(<<6, 6, 7, 9, 8, 6, 8>>[f.wday + 1] + 8)

temperatureBuf(f) ==
  (IF f.temperature < 0 THEN <<"minus">> ELSE <<>>)
    \o Decimal(IF f.temperature < 0 THEN - f.temperature ELSE f.temperature) \o <<"space", "F">>

digitScale == 7

\* The items of a face, each a set of dots.
ItemsWithMargin(f, margin) == <<
  paintDrawString(Len(timeBuf(f)) * 7 * digitScale - margin, 25,
                  IF f.hour > 11 THEN <<"P", "M">> ELSE <<"A", "M">>, 2),
  paintDrawString(4, 0, dateBuf(f), 2),
  paintDrawString(-3, 20, timeBuf(f), digitScale),
  paintDrawString(80, 93, temperatureBuf(f), 5),
  paintDrawIcon(0, 80),
  paintDrawString(4, 150, Letters(f.description), IF f.description <= 18 THEN 2 ELSE 1) >>

\* Mutant of Items: the time of day begins where the characters of the time end.
ItemsApart(f) == ItemsWithMargin(f, 3)

Items(f) == ItemsWithMargin(f, 9)
-----------------------------------------------------------------------------
PaintInit == image = {} /\ face = Blank

\* The painting of updateData, on top of what the buffers hold.
PaintFace ==
  /\ face = Blank
  /\ \E f \in Faces :
       /\ face' = f
       /\ image' = image \union UNION {paintDrawPixels(dots) : dots \in Range(Items(f))}

\* The frame has been pushed.
ClearBuffers ==
  /\ face # Blank
  /\ face' = Blank
  /\ image' = paintClear(image)

PaintNext == PaintFace \/ ClearBuffers

PaintSpec == PaintInit /\ [][PaintNext]_paintVars
-----------------------------------------------------------------------------
(* Properties                                                               *)

\* No bit outside the buffers is ever set, and clearing leaves none behind in them
\* for the next minute.
ImageInBuffer ==
  /\ image \subseteq BufferBits
  /\ face = Blank => image = {}

\* The dots of all items of a face together.
DotsOf(f) == FoldFunction(LAMBDA dots, n : n + Cardinality(dots), 0, Items(f))

\* Every dot of every item of the face has a bit of its own in the buffer, and
\* no other bit is set: nothing is cut off at an edge, no two items overlap, the
\* rotation and the addressing neither move a dot out of the buffer nor two dots to
\* one bit.  The layout of updateData gets by with a few dots at any time of day.
FaceReadable ==
  /\ ImageInBuffer
  /\ face # Blank => Cardinality(image) = DotsOf(face)
=============================================================================
