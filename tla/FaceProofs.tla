------------------------------ MODULE FaceProofs ------------------------------
(***************************************************************************)
(* Theorems about what the face of the clock shows and how it gets there:  *)
(* about Calendar, for all answers of a time server and all time zones,    *)
(* and about Paint, for buffers of every size whose rows are whole bytes   *)
(* and, where the layout counts, for every face the clock may show.        *)
(***************************************************************************)
EXTENDS Calendar, Paint, FiniteSetTheorems, WellFoundedInduction, SequenceTheorems, TLAPS

-----------------------------------------------------------------------------
(* Dots and bits                                                            *)

\* A row begins with a byte: the bit of a dot is where it would be if the rows
\* were one line of dots.
LEMMA BitInLine ==
  ASSUME NEW x \in Columns, NEW y \in Rows
  PROVE  Bit(x, y) = x + y * PAINT_WIDTH
<1> DEFINE w == PAINT_WIDTH \div 8
<1>1. PAINT_WIDTH = 8 * w /\ w \in Nat
  BY PaintAssumption
<1>2. x \in Nat /\ y \in Nat
  BY PaintAssumption DEF Columns, Rows
<1>3. y * PAINT_WIDTH = 8 * (y * w) /\ y * w \in Nat
  BY <1>1, <1>2
<1> HIDE DEF w
<1>4. \A n \in Nat : 8 * ((x + 8 * n) \div 8) + (x % 8) = x + 8 * n
  BY <1>2
<1> QED
  BY <1>3, <1>4 DEF Bit

\* Different dots have different bits, and all of them are in the buffer.
THEOREM DotsHaveTheirOwnBits ==
  /\ \A x \in Columns, y \in Rows : Bit(x, y) \in BufferBits
  /\ \A x1, x2 \in Columns, y1, y2 \in Rows :
       Bit(x1, y1) = Bit(x2, y2) => x1 = x2 /\ y1 = y2
<1> USE PaintAssumption DEF Columns, Rows
<1>1. ASSUME NEW x \in Columns, NEW y \in Rows
      PROVE  Bit(x, y) \in BufferBits
  <2>1. y * PAINT_WIDTH \in Nat
    OBVIOUS
  <2>2. y + 1 <= PAINT_HEIGHT
    OBVIOUS
  <2>3. (y + 1) * PAINT_WIDTH <= PAINT_HEIGHT * PAINT_WIDTH
    BY <2>2
  <2>4. (y + 1) * PAINT_WIDTH = y * PAINT_WIDTH + PAINT_WIDTH
    OBVIOUS
  <2> QED
    BY <2>1, <2>3, <2>4, BitInLine DEF BufferBits
<1>2. ASSUME NEW x1 \in Columns, NEW x2 \in Columns, NEW y1 \in Rows, NEW y2 \in Rows,
             x1 + y1 * PAINT_WIDTH = x2 + y2 * PAINT_WIDTH, y1 < y2
      PROVE  FALSE
  <2>1. y1 * PAINT_WIDTH \in Nat /\ y2 * PAINT_WIDTH \in Nat
    OBVIOUS
  <2>2. (y1 + 1) * PAINT_WIDTH <= y2 * PAINT_WIDTH
    BY <1>2
  <2>3. (y1 + 1) * PAINT_WIDTH = y1 * PAINT_WIDTH + PAINT_WIDTH
    OBVIOUS
  <2> QED
    BY <1>2, <2>1, <2>2, <2>3
<1>3. ASSUME NEW x1 \in Columns, NEW x2 \in Columns, NEW y1 \in Rows, NEW y2 \in Rows,
             Bit(x1, y1) = Bit(x2, y2)
      PROVE  x1 = x2 /\ y1 = y2
  <2>1. x1 + y1 * PAINT_WIDTH = x2 + y2 * PAINT_WIDTH
    BY <1>3, BitInLine
  <2>2. ~ (y1 < y2) /\ ~ (y2 < y1)
    BY <1>2, <2>1
  <2>3. y1 = y2
    BY <2>2
  <2>4. y1 * PAINT_WIDTH \in Nat
    OBVIOUS
  <2> QED
    BY <2>1, <2>3, <2>4
<1> QED
  BY <1>1, <1>3

\* paintClear leaves no bit of the buffer set: every bit is the bit of a dot.
THEOREM ClearsTheBuffer == paintClear(BufferBits) = {}
<1> USE PaintAssumption
<1>1. ASSUME NEW b \in BufferBits
      PROVE  b \in AllDots
  <2> DEFINE y == b \div PAINT_WIDTH
             x == b % PAINT_WIDTH
  <2>1. b \in Nat /\ b < PAINT_WIDTH * PAINT_HEIGHT
    BY DEF BufferBits
  <2>2. x \in Columns /\ y \in Nat /\ b = x + y * PAINT_WIDTH
    BY <2>1 DEF Columns
  <2>3. y < PAINT_HEIGHT
    <3>1. SUFFICES ASSUME PAINT_HEIGHT <= y
                   PROVE  FALSE
      BY <2>2
    <3>2. PAINT_HEIGHT * PAINT_WIDTH <= y * PAINT_WIDTH
      BY <2>2, <3>1
    <3>3. x >= 0 /\ y * PAINT_WIDTH \in Nat
      BY <2>2 DEF Columns
    <3> QED
      BY <2>1, <2>2, <3>2, <3>3
  <2>4. y \in Rows
    BY <2>2, <2>3 DEF Rows
  <2>5. Bit(x, y) = b
    BY <2>2, <2>4, BitInLine
  <2> QED
    BY <2>2, <2>4, <2>5 DEF AllDots
<1> QED
  BY <1>1 DEF paintClear

\* Whatever a face consists of, what is painted of it lies in the buffer.
LEMMA PixelsInBuffer ==
  ASSUME NEW dots PROVE paintDrawPixels(dots) \subseteq BufferBits
BY DotsHaveTheirOwnBits DEF paintDrawPixels

\* No face is taken for none.
LEMMA NoFaceIsBlank == \A f \in Faces : f # Blank
<1> SUFFICES ASSUME NEW f \in Faces PROVE f # Blank
  OBVIOUS
<1>1. f.hour \in 0 .. 23
  BY FacesAssumption
<1>2. Blank.hour = -1
  BY DEF Blank
<1> QED
  BY <1>1, <1>2

\* One step of the painting.
LEMMA StepImageInBuffer == ImageInBuffer /\ [PaintNext]_paintVars => ImageInBuffer'
<1> SUFFICES ASSUME ImageInBuffer, [PaintNext]_paintVars
             PROVE  ImageInBuffer'
  OBVIOUS
<1>1. CASE PaintFace
  <2>1. PICK f \in Faces :
          /\ face' = f
          /\ image' = image \union UNION {paintDrawPixels(dots) : dots \in Range(Items(f))}
    BY <1>1 DEF PaintFace
  <2>2. image' \subseteq BufferBits
    BY <2>1, PixelsInBuffer DEF ImageInBuffer
  <2>3. face' # Blank
    BY <2>1, NoFaceIsBlank
  <2> QED
    BY <2>2, <2>3 DEF ImageInBuffer, BufferBits
<1>2. CASE ClearBuffers
  <2>1. image' = image \ AllDots
    BY <1>2 DEF ClearBuffers, paintClear
  <2>2. BufferBits \subseteq AllDots
    BY ClearsTheBuffer DEF paintClear
  <2> QED
    BY <2>1, <2>2 DEF ImageInBuffer, BufferBits
<1>3. CASE UNCHANGED paintVars
  BY <1>3 DEF paintVars, ImageInBuffer, BufferBits
<1> QED
  BY <1>1, <1>2, <1>3 DEF PaintNext

\* Painting never writes outside the buffers, and each minute begins with blank
\* ones, whatever the faces are.
THEOREM StaysInBuffer == PaintSpec => []ImageInBuffer
<1>1. PaintInit => ImageInBuffer
  BY DEF PaintInit, ImageInBuffer
<1> QED
  BY <1>1, StepImageInBuffer, PTL DEF PaintSpec

-----------------------------------------------------------------------------
(* What is lit of a character                                               *)

\* What the time is written with, and what else is but letters.
TimeChars ==
  {"zero", "one", "two", "three", "four", "five", "six", "seven", "eight", "nine", "colon"}
CapitalChars == {"A", "F", "M", "P", "minus", "space"}
ShortChars == TimeChars \union CapitalChars

\* Of the rows of a character, the first and the last three are dark.
ShortRows(rows) == \A k \in 1 .. 12 : rows[k] \in Nat /\ (k = 1 \/ k > 9 => rows[k] = 0)

\* What the time is written with is dark at its left, and at its right in the upper rows.
TimeRows(rows) ==
  /\ ShortRows(rows)
  /\ \A k \in 1 .. 12 : rows[k] < 128 /\ (k <= 4 => rows[k] % 4 = 0)

\* So are the digits and the colon of Font12 ...
LEMMA TimeCharRows == ASSUME NEW c \in TimeChars PROVE TimeRows(Font12_Table[c])
<1>1. TimeRows(Font12_Table["zero"])
  <2>1. TimeRows(<<0, 56, 68, 68, 68, 68, 68, 68, 56, 0, 0, 0>>)
    BY DEF TimeRows, ShortRows
  <2> QED
    BY <2>1 DEF Font12_Table
<1>2. TimeRows(Font12_Table["one"])
  <2>1. TimeRows(<<0, 48, 16, 16, 16, 16, 16, 16, 124, 0, 0, 0>>)
    BY DEF TimeRows, ShortRows
  <2> QED
    BY <2>1 DEF Font12_Table
<1>3. TimeRows(Font12_Table["two"])
  <2>1. TimeRows(<<0, 56, 68, 4, 8, 16, 32, 68, 124, 0, 0, 0>>)
    BY DEF TimeRows, ShortRows
  <2> QED
    BY <2>1 DEF Font12_Table
<1>4. TimeRows(Font12_Table["three"])
  <2>1. TimeRows(<<0, 56, 68, 4, 24, 4, 4, 68, 56, 0, 0, 0>>)
    BY DEF TimeRows, ShortRows
  <2> QED
    BY <2>1 DEF Font12_Table
<1>5. TimeRows(Font12_Table["four"])
  <2>1. TimeRows(<<0, 12, 20, 20, 36, 68, 126, 4, 14, 0, 0, 0>>)
    BY DEF TimeRows, ShortRows
  <2> QED
    BY <2>1 DEF Font12_Table
<1>6. TimeRows(Font12_Table["five"])
  <2>1. TimeRows(<<0, 60, 32, 32, 56, 4, 4, 68, 56, 0, 0, 0>>)
    BY DEF TimeRows, ShortRows
  <2> QED
    BY <2>1 DEF Font12_Table
<1>7. TimeRows(Font12_Table["six"])
  <2>1. TimeRows(<<0, 28, 32, 64, 120, 68, 68, 68, 56, 0, 0, 0>>)
    BY DEF TimeRows, ShortRows
  <2> QED
    BY <2>1 DEF Font12_Table
<1>8. TimeRows(Font12_Table["seven"])
  <2>1. TimeRows(<<0, 124, 68, 4, 8, 8, 8, 16, 16, 0, 0, 0>>)
    BY DEF TimeRows, ShortRows
  <2> QED
    BY <2>1 DEF Font12_Table
<1>9. TimeRows(Font12_Table["eight"])
  <2>1. TimeRows(<<0, 56, 68, 68, 56, 68, 68, 68, 56, 0, 0, 0>>)
    BY DEF TimeRows, ShortRows
  <2> QED
    BY <2>1 DEF Font12_Table
<1>10. TimeRows(Font12_Table["nine"])
  <2>1. TimeRows(<<0, 56, 68, 68, 68, 60, 4, 8, 112, 0, 0, 0>>)
    BY DEF TimeRows, ShortRows
  <2> QED
    BY <2>1 DEF Font12_Table
<1>11. TimeRows(Font12_Table["colon"])
  <2>1. TimeRows(<<0, 0, 0, 48, 48, 0, 0, 48, 48, 0, 0, 0>>)
    BY DEF TimeRows, ShortRows
  <2> QED
    BY <2>1 DEF Font12_Table
<1> QED
  BY <1>1, <1>2, <1>3, <1>4, <1>5, <1>6, <1>7, <1>8, <1>9, <1>10, <1>11 DEF TimeChars

\* ... and of the other characters, but the letters, the rows are as short.
LEMMA CapitalCharRows == ASSUME NEW c \in CapitalChars PROVE ShortRows(Font12_Table[c])
<1>1. ShortRows(Font12_Table["A"])
  <2>1. ShortRows(<<0, 48, 16, 40, 40, 40, 124, 68, 238, 0, 0, 0>>)
    BY DEF ShortRows
  <2> QED
    BY <2>1 DEF Font12_Table
<1>2. ShortRows(Font12_Table["F"])
  <2>1. ShortRows(<<0, 126, 34, 40, 56, 40, 32, 32, 112, 0, 0, 0>>)
    BY DEF ShortRows
  <2> QED
    BY <2>1 DEF Font12_Table
<1>3. ShortRows(Font12_Table["M"])
  <2>1. ShortRows(<<0, 238, 108, 108, 84, 84, 68, 68, 238, 0, 0, 0>>)
    BY DEF ShortRows
  <2> QED
    BY <2>1 DEF Font12_Table
<1>4. ShortRows(Font12_Table["P"])
  <2>1. ShortRows(<<0, 120, 36, 36, 36, 56, 32, 32, 112, 0, 0, 0>>)
    BY DEF ShortRows
  <2> QED
    BY <2>1 DEF Font12_Table
<1>5. ShortRows(Font12_Table["minus"])
  <2>1. ShortRows(<<0, 0, 0, 0, 0, 124, 0, 0, 0, 0, 0, 0>>)
    BY DEF ShortRows
  <2> QED
    BY <2>1 DEF Font12_Table
<1>6. ShortRows(Font12_Table["space"])
  <2>1. ShortRows(<<0, 0, 0, 0, 0, 0, 0, 0, 0, 0, 0, 0>>)
    BY DEF ShortRows
  <2> QED
    BY <2>1 DEF Font12_Table
<1> QED
  BY <1>1, <1>2, <1>3, <1>4, <1>5, <1>6 DEF CapitalChars

\* A bit of a byte: none of 0, the first of none below 128, the seventh of no multiple of 4.
LEMMA BitsOff ==
  /\ \A i \in 1 .. 7 : (0 \div ColumnBit[i]) % 2 = 0
  /\ \A b \in Nat : b < 128 => (b \div ColumnBit[1]) % 2 = 0
  /\ \A b \in Nat : b % 4 = 0 => (b \div ColumnBit[7]) % 2 = 0
<1>1. /\ ColumnBit[1] = 128 /\ ColumnBit[2] = 64 /\ ColumnBit[3] = 32 /\ ColumnBit[4] = 16
      /\ ColumnBit[5] = 8 /\ ColumnBit[6] = 4 /\ ColumnBit[7] = 2
  BY DEF ColumnBit
<1>2. \A i \in 1 .. 7 : (0 \div ColumnBit[i]) % 2 = 0
  <2>1. \A n \in {128, 64, 32, 16, 8, 4, 2} : (0 \div n) % 2 = 0
    OBVIOUS
  <2> QED
    BY <1>1, <2>1
<1>3. \A b \in Nat : b < 128 => (b \div 128) % 2 = 0
  OBVIOUS
<1>4. \A b \in Nat : b % 4 = 0 => (b \div 2) % 2 = 0
  OBVIOUS
<1> QED
  BY <1>1, <1>2, <1>3, <1>4

\* Where the dots of a character are lit.
LEMMA LitDots ==
  ASSUME NEW c \in DOMAIN Font12_Table, NEW d \in Lit[c]
  PROVE  \E i \in 0 .. 6, j \in 0 .. 11 :
           d = <<i, j>> /\ (Font12_Table[c][j + 1] \div ColumnBit[i + 1]) % 2 = 1
<1>1. d \in (0 .. 6) \X (0 .. 11) /\ (Font12_Table[c][d[2] + 1] \div ColumnBit[d[1] + 1]) % 2 = 1
  BY DEF Lit, Font12
<1>2. PICK i \in 0 .. 6, j \in 0 .. 11 : d = <<i, j>>
  BY <1>1
<1> QED
  BY <1>1, <1>2

\* The font has the short characters, the ones of the time among them, and the letter.
LEMMA CharsKnown ==
  /\ DOMAIN Font12_Table = ShortChars \union {"letter"}
  /\ TimeChars \subseteq ShortChars
BY DEF Font12_Table, ShortChars, TimeChars, CapitalChars

\* Short characters take the rows from 1 to 8 ...
LEMMA ShortLit ==
  ASSUME NEW c \in ShortChars, NEW d \in Lit[c]
  PROVE  \E i \in 0 .. 6, j \in 1 .. 8 : d = <<i, j>>
<1>1. c \in DOMAIN Font12_Table
  BY CharsKnown
<1>2. PICK i \in 0 .. 6, j \in 0 .. 11 :
        d = <<i, j>> /\ (Font12_Table[c][j + 1] \div ColumnBit[i + 1]) % 2 = 1
  BY <1>1, LitDots
<1>3. ShortRows(Font12_Table[c])
  BY TimeCharRows, CapitalCharRows DEF TimeRows, ShortChars
<1>4. Font12_Table[c][j + 1] # 0
  <2>1. (0 \div ColumnBit[i + 1]) % 2 = 0
    BY BitsOff
  <2> QED
    BY <1>2, <2>1
<1>5. j + 1 \in 1 .. 12 /\ ~ (j + 1 = 1 \/ j + 1 > 9)
  BY <1>3, <1>4 DEF ShortRows
<1> QED
  BY <1>2, <1>5

\* ... those of the time the columns from 1 on, and in the rows up to 3 none beyond 5 ...
LEMMA TimeLit ==
  ASSUME NEW c \in TimeChars, NEW d \in Lit[c]
  PROVE  \E i \in 1 .. 6, j \in 1 .. 8 : d = <<i, j>> /\ (j <= 3 => i <= 5)
<1>1. c \in DOMAIN Font12_Table /\ c \in ShortChars
  BY CharsKnown
<1>2. PICK i \in 0 .. 6, j \in 0 .. 11 :
        d = <<i, j>> /\ (Font12_Table[c][j + 1] \div ColumnBit[i + 1]) % 2 = 1
  BY <1>1, LitDots
<1>3. PICK k \in 0 .. 6, l \in 1 .. 8 : d = <<k, l>>
  BY <1>1, ShortLit
<1>4. k = i /\ l = j
  BY <1>2, <1>3
<1>5. PICK b : b = Font12_Table[c][j + 1]
  OBVIOUS
<1>6. b \in Nat /\ b < 128 /\ (j <= 3 => b % 4 = 0)
  <2>1. j + 1 \in 1 .. 12 /\ (j <= 3 => j + 1 <= 4)
    OBVIOUS
  <2> QED
    BY <1>5, <2>1, TimeCharRows DEF TimeRows, ShortRows
<1>7. i # 0
  <2>1. (b \div ColumnBit[1]) % 2 = 0
    BY <1>6, BitsOff
  <2> QED
    BY <1>2, <1>5, <2>1
<1>8. j <= 3 => i # 6
  <2>1. j <= 3 => (b \div ColumnBit[7]) % 2 = 0
    BY <1>6, BitsOff
  <2> QED
    BY <1>2, <1>5, <2>1
<1>9. i \in 1 .. 6 /\ j \in 1 .. 8 /\ (j <= 3 => i <= 5)
  BY <1>3, <1>4, <1>7, <1>8
<1> QED
  BY <1>2, <1>9

\* ... and a letter the rows from 1 to 10.
LEMMA LetterLit ==
  ASSUME NEW d \in Lit["letter"]
  PROVE  \E i \in 0 .. 6, j \in 1 .. 10 : d = <<i, j>>
<1>1. PICK i \in 0 .. 6, j \in 0 .. 11 :
        d = <<i, j>> /\ (Font12_Table["letter"][j + 1] \div ColumnBit[i + 1]) % 2 = 1
  BY LitDots, CharsKnown
<1>2. Font12_Table["letter"][1] = 0 /\ Font12_Table["letter"][12] = 0
  BY DEF Font12_Table
<1>3. (0 \div ColumnBit[i + 1]) % 2 = 0
  BY BitsOff
<1>4. j # 0 /\ j # 11
  BY <1>1, <1>2, <1>3
<1> QED
  BY <1>1, <1>4

-----------------------------------------------------------------------------
(* Where the items of a face are                                            *)

\* All the dots are in the columns from a to b and the rows from c to e.
InBox(dots, a, b, c, e) ==
  \A p \in dots : \E u, v \in Int : p = <<u, v>> /\ a <= u /\ u <= b /\ c <= v /\ v <= e

\* The dot p lies in the square of dot [i, j] of character n.
InSquare(p, x, y, scale, n, i, j) ==
  \E k, l \in 0 .. scale - 1 :
    p = <<x + (n - 1) * 7 * scale + i * scale + k, y + j * scale + l>>

\* A dot of a text is a dot of the square of a dot of one of its characters.
LEMMA TextDots ==
  ASSUME NEW x \in Int, NEW y \in Int, NEW scale \in Nat \ {0},
         NEW text \in Seq(DOMAIN Font12_Table), NEW p \in paintDrawString(x, y, text, scale)
  PROVE  \E n \in 1 .. Len(text) : \E d \in Lit[text[n]] : InSquare(p, x, y, scale, n, d[1], d[2])
<1>1. PICK n \in DOMAIN text :
        p \in Scaled(Lit[text[n]], x + (n - 1) * Font12.Width * scale, y, scale)
  BY DEF paintDrawString
<1>2. PICK d \in Lit[text[n]], k \in 0 .. scale - 1, l \in 0 .. scale - 1 :
        p = <<x + (n - 1) * Font12.Width * scale + d[1] * scale + k, y + d[2] * scale + l>>
  BY <1>1 DEF Scaled
<1>3. n \in 1 .. Len(text)
  OBVIOUS
<1>4. Font12.Width = 7
  BY DEF Font12
<1>5. InSquare(p, x, y, scale, n, d[1], d[2])
  BY <1>2, <1>4 DEF InSquare
<1> QED
  BY <1>3, <1>5

\* The scales of updateData.
Scales == {1, 2, 5, 7}

\* A text is in the room its characters have.
LEMMA TextInBox ==
  ASSUME NEW x \in Int, NEW y \in Int, NEW scale \in Scales, NEW h \in {8, 10},
         NEW text \in Seq(DOMAIN Font12_Table),
         \A n \in 1 .. Len(text) : \A d \in Lit[text[n]] : \E i \in 0 .. 6, j \in 1 .. h : d = <<i, j>>
  PROVE  InBox(paintDrawString(x, y, text, scale),
               x, x + 7 * scale * Len(text) - 1, y + scale, y + (h + 1) * scale - 1)
<1> SUFFICES ASSUME NEW p \in paintDrawString(x, y, text, scale)
             PROVE  \E u, v \in Int : /\ p = <<u, v>>
                                      /\ x <= u /\ u <= x + 7 * scale * Len(text) - 1
                                      /\ y + scale <= v /\ v <= y + (h + 1) * scale - 1
  BY DEF InBox
<1>1. scale \in Nat \ {0} /\ Len(text) \in Nat
  BY DEF Scales
<1>2. PICK n \in 1 .. Len(text) : \E d \in Lit[text[n]] : InSquare(p, x, y, scale, n, d[1], d[2])
  BY <1>1, TextDots
<1>3. PICK d \in Lit[text[n]] : InSquare(p, x, y, scale, n, d[1], d[2])
  BY <1>2
<1>4. PICK i \in 0 .. 6, j \in 1 .. h : d = <<i, j>>
  OBVIOUS
<1>5. PICK m \in Nat : m = Len(text) /\ n <= m
  BY <1>1
<1>6. PICK k \in 0 .. scale - 1, l \in 0 .. scale - 1 :
        p = <<x + (n - 1) * 7 * scale + i * scale + k, y + j * scale + l>>
  BY <1>3, <1>4 DEF InSquare
<1>7. PICK u \in Int, v \in Int :
        /\ p = <<u, v>>
        /\ u = x + (n - 1) * 7 * scale + i * scale + k /\ v = y + j * scale + l
  BY <1>1, <1>6
<1>8. /\ x <= u /\ u <= x + 7 * scale * m - 1
      /\ y + scale <= v /\ v <= y + (h + 1) * scale - 1
  <2>1. scale = 1 \/ scale = 2 \/ scale = 5 \/ scale = 7
    BY DEF Scales
  <2>2. CASE scale = 1
    <3>1. 0 <= k /\ k <= 0 /\ 0 <= l /\ l <= 0 /\ 0 <= i /\ i <= 6 /\ 1 <= j /\ j <= h
      BY <2>2
    <3>2. u = x + 7 * n - 7 + 1 * i + k /\ v = y + 1 * j + l
      BY <1>7, <2>2
    <3>3. x <= u /\ u <= x + 7 * m - 1
      BY <1>5, <3>1, <3>2
    <3>4. y + 1 <= v /\ v <= y + 1 * h + 1 - 1
      BY <3>1, <3>2
    <3> QED
      BY <2>2, <3>3, <3>4
  <2>3. CASE scale = 2
    <3>1. 0 <= k /\ k <= 1 /\ 0 <= l /\ l <= 1 /\ 0 <= i /\ i <= 6 /\ 1 <= j /\ j <= h
      BY <2>3
    <3>2. u = x + 14 * n - 14 + 2 * i + k /\ v = y + 2 * j + l
      BY <1>7, <2>3
    <3>3. x <= u /\ u <= x + 14 * m - 1
      BY <1>5, <3>1, <3>2
    <3>4. y + 2 <= v /\ v <= y + 2 * h + 2 - 1
      BY <3>1, <3>2
    <3> QED
      BY <2>3, <3>3, <3>4
  <2>4. CASE scale = 5
    <3>1. 0 <= k /\ k <= 4 /\ 0 <= l /\ l <= 4 /\ 0 <= i /\ i <= 6 /\ 1 <= j /\ j <= h
      BY <2>4
    <3>2. u = x + 35 * n - 35 + 5 * i + k /\ v = y + 5 * j + l
      BY <1>7, <2>4
    <3>3. x <= u /\ u <= x + 35 * m - 1
      BY <1>5, <3>1, <3>2
    <3>4. y + 5 <= v /\ v <= y + 5 * h + 5 - 1
      BY <3>1, <3>2
    <3> QED
      BY <2>4, <3>3, <3>4
  <2>5. CASE scale = 7
    <3>1. 0 <= k /\ k <= 6 /\ 0 <= l /\ l <= 6 /\ 0 <= i /\ i <= 6 /\ 1 <= j /\ j <= h
      BY <2>5
    <3>2. u = x + 49 * n - 49 + 7 * i + k /\ v = y + 7 * j + l
      BY <1>7, <2>5
    <3>3. x <= u /\ u <= x + 49 * m - 1
      BY <1>5, <3>1, <3>2
    <3>4. y + 7 <= v /\ v <= y + 7 * h + 7 - 1
      BY <3>1, <3>2
    <3> QED
      BY <2>5, <3>3, <3>4
  <2> QED
    BY <2>1, <2>2, <2>3, <2>4, <2>5
<1> QED
  BY <1>5, <1>7, <1>8

\* The digits of a number.
LEMMA DigitIs == \A n \in 0 .. 9 : Digit(n) \in TimeChars
<1> SUFFICES ASSUME NEW n \in 0 .. 9 PROVE Digit(n) \in TimeChars
  OBVIOUS
<1>1. n + 1 \in 1 .. 10
  OBVIOUS
<1>2. \A k \in 1 .. 10 :
        <<"zero", "one", "two", "three", "four", "five", "six", "seven", "eight", "nine">>[k] \in TimeChars
  BY DEF TimeChars
<1> QED
  BY <1>1, <1>2 DEF Digit

\* Two texts after each other.
LEMMA Concatenated ==
  ASSUME NEW S, NEW s \in Seq(S), NEW t \in Seq(S)
  PROVE  s \o t \in Seq(S) /\ Len(s \o t) = Len(s) + Len(t)
BY ConcatProperties

\* Texts of up to three characters.
LEMMA ShortTexts ==
  ASSUME NEW S, NEW a \in S, NEW b \in S, NEW c \in S
  PROVE  /\ <<>> \in Seq(S) /\ Len(<<>>) = 0
         /\ <<a>> \in Seq(S) /\ Len(<<a>>) = 1
         /\ <<a, b>> \in Seq(S) /\ Len(<<a, b>>) = 2
         /\ <<a, b, c>> \in Seq(S) /\ Len(<<a, b, c>>) = 3
OBVIOUS

\* The numbers of up to three digits, and those of two.
Numbers == {n \in Int : 0 <= n /\ n <= 999}
SmallNumbers == {n \in Int : 0 <= n /\ n <= 99}

\* Of the text of a number: it has a character for each digit.
NumberText(s, n) ==
  /\ s \in Seq(TimeChars)
  /\ Len(s) \in {1, 2, 3} /\ (n \in SmallNumbers => Len(s) \in {1, 2})

\* That is what sprintf makes of a number.
LEMMA DecimalIs ==
  ASSUME NEW n \in Numbers
  PROVE  NumberText(Decimal(n), n)
<1> DEFINE hundreds == IF n >= 100 THEN <<Digit(n \div 100)>> ELSE <<>>
           tens == IF n >= 10 THEN <<Digit((n \div 10) % 10)>> ELSE <<>>
           ones == <<Digit(n % 10)>>
<1>0. n \in Int /\ 0 <= n /\ n <= 999
  BY DEF Numbers
<1>1. PICK a \in TimeChars, b \in TimeChars, c \in TimeChars :
        a = Digit(n \div 100) /\ b = Digit((n \div 10) % 10) /\ c = Digit(n % 10)
  <2>1. n \div 100 \in 0 .. 9 /\ (n \div 10) % 10 \in 0 .. 9 /\ n % 10 \in 0 .. 9
    BY <1>0
  <2>2. /\ Digit(n \div 100) \in TimeChars /\ Digit((n \div 10) % 10) \in TimeChars
        /\ Digit(n % 10) \in TimeChars
    BY <2>1, DigitIs
  <2> QED
    BY <2>2, Zenon
<1>2. /\ hundreds \in Seq(TimeChars)
      /\ (n >= 100 => Len(hundreds) = 1) /\ (~ (n >= 100) => Len(hundreds) = 0)
  <2>1. <<a>> \in Seq(TimeChars) /\ Len(<<a>>) = 1 /\ <<>> \in Seq(TimeChars) /\ Len(<<>>) = 0
    BY ShortTexts, Zenon
  <2>2. CASE n >= 100
    BY <1>1, <2>1, <2>2, Zenon
  <2>3. CASE ~ (n >= 100)
    BY <2>1, <2>3, Zenon
  <2> QED
    BY <2>2, <2>3
<1>3. /\ tens \in Seq(TimeChars)
      /\ (n >= 10 => Len(tens) = 1) /\ (~ (n >= 10) => Len(tens) = 0)
  <2>1. <<b>> \in Seq(TimeChars) /\ Len(<<b>>) = 1 /\ <<>> \in Seq(TimeChars) /\ Len(<<>>) = 0
    BY ShortTexts, Zenon
  <2>2. CASE n >= 10
    BY <1>1, <2>1, <2>2, Zenon
  <2>3. CASE ~ (n >= 10)
    BY <2>1, <2>3, Zenon
  <2> QED
    BY <2>2, <2>3
<1>4. ones \in Seq(TimeChars) /\ Len(ones) = 1
  BY <1>1, ShortTexts, Zenon
<1>5. Decimal(n) = (hundreds \o tens) \o ones
  BY DEF Decimal
<1> HIDE DEF hundreds, tens, ones
<1>6. hundreds \o tens \in Seq(TimeChars) /\ Len(hundreds \o tens) = Len(hundreds) + Len(tens)
  BY <1>2, <1>3, Concatenated, Zenon
<1>7. /\ Decimal(n) \in Seq(TimeChars)
      /\ Len(Decimal(n)) = (Len(hundreds) + Len(tens)) + Len(ones)
  <2>1. PICK v \in Seq(TimeChars), w \in Seq(TimeChars) : v = hundreds \o tens /\ w = ones
    BY <1>4, <1>6, Zenon
  <2>2. v \o w \in Seq(TimeChars) /\ Len(v \o w) = Len(v) + Len(w)
    BY Concatenated, Zenon
  <2>3. Decimal(n) = v \o w
    BY <1>5, <2>1, Zenon
  <2>4. Len(v) = Len(hundreds) + Len(tens) /\ Len(w) = Len(ones)
    BY <1>6, <2>1, Zenon
  <2> QED
    BY <2>2, <2>3, <2>4, Zenon
<1>8. PICK h \in Int, t \in Int, o \in Int :
        h = Len(hundreds) /\ t = Len(tens) /\ o = Len(ones)
  <2>1. Len(hundreds) \in Int /\ Len(tens) \in Int /\ Len(ones) \in Int
    BY <1>2, <1>3, <1>4
  <2> QED
    BY <2>1, Zenon
<1>9. /\ (n >= 100 => h = 1) /\ (~ (n >= 100) => h = 0)
      /\ (n >= 10 => t = 1) /\ (~ (n >= 10) => t = 0)
      /\ o = 1
  BY <1>2, <1>3, <1>4, <1>8
<1>10. PICK l \in Int : l = (h + t) + o /\ Len(Decimal(n)) = l
  <2>1. PICK l \in Int : l = (h + t) + o
    OBVIOUS
  <2>2. Len(Decimal(n)) = l
    BY <1>7, <1>8, <2>1, Zenon
  <2> QED
    BY <2>1, <2>2, Zenon
<1>11. l \in {1, 2, 3} /\ (n \in SmallNumbers => l \in {1, 2})
  <2>1. CASE n >= 100
    <3>1. h = 1 /\ t = 1 /\ o = 1
      BY <1>0, <1>9, <2>1
    <3>2. l = 3 /\ n \notin SmallNumbers
      BY <1>10, <2>1, <3>1 DEF SmallNumbers
    <3> QED
      BY <3>2
  <2>2. CASE ~ (n >= 100)
    <3>1. h = 0 /\ (t = 0 \/ t = 1) /\ o = 1
      BY <1>0, <1>9, <2>2
    <3>2. l = 1 \/ l = 2
      BY <1>10, <3>1
    <3> QED
      BY <3>2
  <2> QED
    BY <2>1, <2>2
<1> QED
  BY <1>7, <1>10, <1>11, Zenon DEF NumberText

\* A text of more characters may have those of fewer.
LEMMA WiderText ==
  ASSUME NEW S, NEW T, S \subseteq T, NEW s \in Seq(S)
  PROVE  s \in Seq(T)
OBVIOUS

\* The faces a clock of this panel shows: 264 by 176 dots, a temperature of two
\* digits with a sign or three without, a description that fits the width.
FacesOfTheClock ==
  /\ PAINT_WIDTH = 176 /\ PAINT_HEIGHT = 264
  /\ \A f \in Faces : -99 <= f.temperature /\ f.temperature <= 999 /\ f.description <= 37

\* The time has four or five characters.
LEMMA TimeText ==
  ASSUME NEW f \in Faces
  PROVE  timeBuf(f) \in Seq(TimeChars) /\ Len(timeBuf(f)) \in 4 .. 5
<1>1. f.hour \in 0 .. 23 /\ f.min \in 0 .. 59
  BY FacesAssumption
<1>2. PICK n \in Numbers : n = getTwelveHourTime(f.hour) /\ n \in SmallNumbers
  BY <1>1 DEF getTwelveHourTime, Numbers, SmallNumbers
<1>3. Decimal(n) \in Seq(TimeChars) /\ Len(Decimal(n)) \in {1, 2}
  BY <1>2, DecimalIs DEF NumberText
<1>4. f.min \div 10 \in 0 .. 9 /\ f.min % 10 \in 0 .. 9
  <2>1. PICK m \in Int : m = f.min /\ 0 <= m /\ m <= 59
    BY <1>1
  <2>2. m \div 10 \in 0 .. 9 /\ m % 10 \in 0 .. 9
    BY <2>1
  <2> QED
    BY <2>1, <2>2
<1>5. PICK a \in TimeChars, b \in TimeChars, c \in TimeChars :
        a = "colon" /\ b = Digit(f.min \div 10) /\ c = Digit(f.min % 10)
  BY <1>4, DigitIs DEF TimeChars
<1>6. PICK s, t : s = Decimal(n) /\ t = <<a, b, c>>
  OBVIOUS
<1>7. timeBuf(f) = s \o t
  BY <1>2, <1>5, <1>6 DEF timeBuf
<1>8. s \in Seq(TimeChars) /\ t \in Seq(TimeChars) /\ Len(t) = 3
  BY <1>3, <1>6, ShortTexts, Zenon
<1>9. timeBuf(f) \in Seq(TimeChars) /\ Len(timeBuf(f)) = Len(s) + Len(t)
  BY <1>7, <1>8, Concatenated, Zenon
<1>10. PICK k \in {1, 2}, l \in {3} : k = Len(s) /\ l = Len(t)
  BY <1>3, <1>6, <1>8, Zenon
<1>11. PICK o \in 4 .. 5 : o = k + l
  OBVIOUS
<1> QED
  BY <1>9, <1>10, <1>11, Zenon

\* The temperature has at most five.
LEMMA TemperatureText ==
  ASSUME NEW f \in Faces, -99 <= f.temperature, f.temperature <= 999
  PROVE  temperatureBuf(f) \in Seq(ShortChars) /\ Len(temperatureBuf(f)) \in 0 .. 5
<1>1. PICK t \in Int : t = f.temperature /\ -99 <= t /\ t <= 999
  BY FacesAssumption
<1>2. PICK n \in Numbers : n = (IF t < 0 THEN - t ELSE t) /\ (t < 0 => n \in SmallNumbers)
  BY <1>1 DEF Numbers, SmallNumbers
<1>3. PICK a \in ShortChars, b \in ShortChars, c \in ShortChars : a = "minus" /\ b = "space" /\ c = "F"
  BY DEF ShortChars, CapitalChars
<1>4. PICK r, s, u : r = (IF t < 0 THEN <<a>> ELSE <<>>) /\ s = Decimal(n) /\ u = <<b, c>>
  OBVIOUS
<1>5. temperatureBuf(f) = (r \o s) \o u
  BY <1>1, <1>2, <1>3, <1>4 DEF temperatureBuf
<1>6. NumberText(s, n) /\ s \in Seq(ShortChars)
  <2>1. NumberText(s, n)
    BY <1>4, DecimalIs
  <2>2. s \in Seq(TimeChars)
    BY <2>1 DEF NumberText
  <2> QED
    BY <2>1, <2>2, CharsKnown, WiderText
<1>7. r \in Seq(ShortChars) /\ (t < 0 => Len(r) = 1) /\ (~ (t < 0) => Len(r) = 0)
  <2>1. <<a>> \in Seq(ShortChars) /\ Len(<<a>>) = 1 /\ <<>> \in Seq(ShortChars) /\ Len(<<>>) = 0
    BY ShortTexts, Zenon
  <2>2. CASE t < 0
    <3>1. r = <<a>>
      BY <1>4, <2>2
    <3> QED
      BY <2>1, <2>2, <3>1, Zenon
  <2>3. CASE ~ (t < 0)
    <3>1. r = <<>>
      BY <1>4, <2>3
    <3> QED
      BY <2>1, <2>3, <3>1, Zenon
  <2> QED
    BY <2>2, <2>3
<1>8. u \in Seq(ShortChars) /\ Len(u) = 2
  BY <1>4, ShortTexts, Zenon
<1>9. r \o s \in Seq(ShortChars) /\ Len(r \o s) = Len(r) + Len(s)
  BY <1>6, <1>7, Concatenated, Zenon
<1>10. /\ temperatureBuf(f) \in Seq(ShortChars)
       /\ Len(temperatureBuf(f)) = (Len(r) + Len(s)) + Len(u)
  <2>1. PICK v \in Seq(ShortChars), w \in Seq(ShortChars) : v = r \o s /\ w = u
    BY <1>8, <1>9, Zenon
  <2>2. v \o w \in Seq(ShortChars) /\ Len(v \o w) = Len(v) + Len(w)
    BY Concatenated, Zenon
  <2>3. temperatureBuf(f) = v \o w
    BY <1>5, <2>1, Zenon
  <2>4. Len(v) = Len(r) + Len(s) /\ Len(w) = Len(u)
    BY <1>9, <2>1, Zenon
  <2> QED
    BY <2>2, <2>3, <2>4, Zenon
<1>11. PICK i \in Int, j \in Int, k \in Int :
         /\ i = Len(r) /\ j = Len(s) /\ k = Len(u)
         /\ (t < 0 => i = 1) /\ (~ (t < 0) => i = 0)
         /\ j \in {1, 2, 3} /\ (t < 0 => j \in {1, 2})
         /\ k = 2
  <2>1. Len(r) \in Int /\ Len(s) \in Int /\ Len(u) \in Int
    BY <1>6, <1>7, <1>8
  <2>2. Len(s) \in {1, 2, 3} /\ (t < 0 => Len(s) \in {1, 2})
    BY <1>2, <1>6 DEF NumberText
  <2> QED
    BY <1>7, <1>8, <2>1, <2>2, Zenon
<1>12. PICK o \in 0 .. 5 : o = (i + j) + k
  <2>0. (i = 0 /\ j <= 3) \/ (i = 1 /\ j <= 2)
    <3>1. CASE t < 0
      <4>1. i = 1 /\ j \in {1, 2}
        BY <1>11, <3>1
      <4> QED
        BY <4>1
    <3>2. CASE ~ (t < 0)
      <4>1. i = 0 /\ j \in {1, 2, 3}
        BY <1>11, <3>2
      <4> QED
        BY <4>1
    <3> QED
      BY <3>1, <3>2
  <2>1. (i + j) + k \in 0 .. 5
    <3>1. 1 <= j /\ k = 2
      BY <1>11
    <3> QED
      BY <2>0, <3>1
  <2> QED
    BY <2>1, Zenon
<1> QED
  BY <1>10, <1>11, <1>12, Zenon

\* The date has at most 17.
LEMMA DateText ==
  ASSUME NEW f \in Faces
  PROVE  \E n \in 0 .. 17 : dateBuf(f) = Letters(n)
<1>1. f.wday + 1 \in 1 .. 7
  BY FacesAssumption
<1>2. \A k \in 1 .. 7 : <<6, 6, 7, 9, 8, 6, 8>>[k] + 8 \in 0 .. 17
  OBVIOUS
<1> QED
  BY <1>1, <1>2 DEF dateBuf

\* Any number of letters is a text.
LEMMA LettersAre ==
  ASSUME NEW n \in Nat
  PROVE  Letters(n) \in Seq({"letter"}) /\ Len(Letters(n)) = n
BY DEF Letters

\* A box within a box.
LEMMA WiderBox ==
  ASSUME NEW dots, NEW a \in Int, NEW b \in Int, NEW c \in Int, NEW e \in Int,
         InBox(dots, a, b, c, e),
         NEW a2 \in Int, NEW b2 \in Int, NEW c2 \in Int, NEW e2 \in Int,
         a2 <= a, b <= b2, c2 <= c, e <= e2
  PROVE  InBox(dots, a2, b2, c2, e2)
BY DEF InBox

\* More characters take more room.
LEMMA Room ==
  ASSUME NEW scale \in Scales, NEW l \in Nat, NEW n \in Nat, l <= n
  PROVE  7 * scale * l \in Nat /\ 7 * scale * n \in Nat /\ 7 * scale * l <= 7 * scale * n
<1>1. CASE scale = 1
  BY <1>1
<1>2. CASE scale = 2
  BY <1>2
<1>3. CASE scale = 5
  BY <1>3
<1>4. CASE scale = 7
  BY <1>4
<1> QED
  BY <1>1, <1>2, <1>3, <1>4 DEF Scales

\* Texts of short characters ...
LEMMA ShortTextInBox ==
  ASSUME NEW x \in Int, NEW y \in Int, NEW scale \in Scales, NEW text \in Seq(ShortChars),
         NEW n \in Nat, Len(text) <= n
  PROVE  InBox(paintDrawString(x, y, text, scale),
               x, x + 7 * scale * n - 1, y + scale, y + 9 * scale - 1)
<1>1. text \in Seq(DOMAIN Font12_Table)
  BY CharsKnown, WiderText
<1>2. \A k \in 1 .. Len(text) : \A d \in Lit[text[k]] : \E i \in 0 .. 6, j \in 1 .. 8 : d = <<i, j>>
  <2>1. \A k \in 1 .. Len(text) : text[k] \in ShortChars
    OBVIOUS
  <2> QED
    BY <2>1, ShortLit
<1>3. PICK h \in {8, 10}, l \in Nat : h = 8 /\ l = Len(text) /\ l <= n
  OBVIOUS
<1>4. InBox(paintDrawString(x, y, text, scale),
            x, x + 7 * scale * Len(text) - 1, y + scale, y + (h + 1) * scale - 1)
  BY <1>1, <1>2, <1>3, TextInBox
<1>5. PICK r \in Nat, q \in Nat : r = 7 * scale * l /\ q = 7 * scale * n /\ r <= q
  BY <1>3, Room
<1>6. /\ x + r - 1 \in Int /\ x + q - 1 \in Int /\ x + r - 1 <= x + q - 1
      /\ y + scale \in Int /\ y + (h + 1) * scale - 1 = y + 9 * scale - 1 /\ y + 9 * scale - 1 \in Int
  <2>1. scale \in Int
    BY DEF Scales
  <2> QED
    BY <1>3, <1>5, <2>1
<1>7. PICK a \in Int, b \in Int, c \in Int, e \in Int, b2 \in Int :
        /\ a = x /\ b = x + r - 1 /\ c = y + scale /\ e = y + 9 * scale - 1 /\ b2 = x + q - 1
        /\ b <= b2 /\ e = y + (h + 1) * scale - 1
  BY <1>6
<1>8. InBox(paintDrawString(x, y, text, scale), a, b, c, e)
  BY <1>3, <1>4, <1>5, <1>7
<1>9. InBox(paintDrawString(x, y, text, scale), a, b2, c, e)
  BY <1>7, <1>8, WiderBox
<1> QED
  BY <1>5, <1>7, <1>9

\* ... and of letters.
LEMMA LettersInBox ==
  ASSUME NEW x \in Int, NEW y \in Int, NEW scale \in Scales, NEW k \in Nat, NEW n \in Nat, k <= n
  PROVE  InBox(paintDrawString(x, y, Letters(k), scale),
               x, x + 7 * scale * n - 1, y + scale, y + 11 * scale - 1)
<1>0. PICK text \in Seq({"letter"}) : text = Letters(k) /\ Len(text) = k
  BY LettersAre
<1>1. text \in Seq(DOMAIN Font12_Table)
  BY CharsKnown, WiderText
<1>2. \A i \in 1 .. Len(text) : \A d \in Lit[text[i]] : \E q \in 0 .. 6, j \in 1 .. 10 : d = <<q, j>>
  <2>1. \A i \in 1 .. Len(text) : text[i] = "letter"
    OBVIOUS
  <2> QED
    BY <2>1, LetterLit
<1>3. PICK h \in {8, 10}, l \in Nat : h = 10 /\ l = Len(text) /\ l <= n
  BY <1>0
<1>4. InBox(paintDrawString(x, y, text, scale),
            x, x + 7 * scale * Len(text) - 1, y + scale, y + (h + 1) * scale - 1)
  BY <1>1, <1>2, <1>3, TextInBox
<1>5. PICK r \in Nat, q \in Nat : r = 7 * scale * l /\ q = 7 * scale * n /\ r <= q
  BY <1>3, Room
<1>6. /\ x + r - 1 \in Int /\ x + q - 1 \in Int /\ x + r - 1 <= x + q - 1
      /\ y + scale \in Int /\ y + (h + 1) * scale - 1 = y + 11 * scale - 1 /\ y + 11 * scale - 1 \in Int
  <2>1. scale \in Int
    BY DEF Scales
  <2> QED
    BY <1>3, <1>5, <2>1
<1>7. PICK a \in Int, b \in Int, c \in Int, e \in Int, b2 \in Int :
        /\ a = x /\ b = x + r - 1 /\ c = y + scale /\ e = y + 11 * scale - 1 /\ b2 = x + q - 1
        /\ b <= b2 /\ e = y + (h + 1) * scale - 1
  BY <1>6
<1>8. InBox(paintDrawString(x, y, Letters(k), scale), a, b, c, e)
  BY <1>0, <1>3, <1>4, <1>5, <1>7
<1>9. InBox(paintDrawString(x, y, Letters(k), scale), a, b2, c, e)
  BY <1>7, <1>8, WiderBox
<1> QED
  BY <1>5, <1>7, <1>9

\* Of the dots of the time, those in the rows down to 42 end two columns before the
\* dots of the time of day can begin.
TimeDots(dots, m) ==
  \A p \in dots : \E u, v \in Int :
    /\ p = <<u, v>>
    /\ 4 <= u /\ u <= 241 /\ 27 <= v /\ v <= 82
    /\ v <= 42 => u <= 49 * m - 11

\* All dots of the time are like that.
LEMMA TimeInBox ==
  ASSUME NEW text \in Seq(TimeChars), NEW m \in 4 .. 5, Len(text) = m
  PROVE  TimeDots(paintDrawString(-3, 20, text, 7), m)
<1>0. PICK x \in Int, y \in Int, scale \in Nat \ {0} : x = -3 /\ y = 20 /\ scale = 7
  OBVIOUS
<1> SUFFICES ASSUME NEW p \in paintDrawString(x, y, text, scale)
             PROVE  \E u, v \in Int : /\ p = <<u, v>>
                                      /\ 4 <= u /\ u <= 241 /\ 27 <= v /\ v <= 82
                                      /\ v <= 42 => u <= 49 * m - 11
  <2>1. TimeDots(paintDrawString(x, y, text, scale), m)
    BY DEF TimeDots
  <2> QED
    BY <1>0, <2>1
<1>1. text \in Seq(DOMAIN Font12_Table)
  <2>1. TimeChars \subseteq DOMAIN Font12_Table
    BY CharsKnown
  <2> QED
    BY <2>1, WiderText
<1>2. PICK n \in 1 .. m : \E d \in Lit[text[n]] : InSquare(p, x, y, scale, n, d[1], d[2])
  BY <1>1, TextDots
<1>3. PICK d \in Lit[text[n]] : InSquare(p, x, y, scale, n, d[1], d[2])
  BY <1>2
<1>4. text[n] \in TimeChars
  OBVIOUS
<1>5. PICK i \in 1 .. 6, j \in 1 .. 8 : d = <<i, j>> /\ (j <= 3 => i <= 5)
  BY <1>4, TimeLit
<1>6. PICK k \in 0 .. 6, l \in 0 .. 6 :
        p = <<-3 + (n - 1) * 7 * 7 + i * 7 + k, 20 + j * 7 + l>>
  BY <1>0, <1>3, <1>5 DEF InSquare
<1>7. PICK u \in Int, v \in Int :
        p = <<u, v>> /\ u = -3 + (n - 1) * 7 * 7 + i * 7 + k /\ v = 20 + j * 7 + l
  BY <1>6
<1>8. 4 <= u /\ u <= 241 /\ 27 <= v /\ v <= 82
  BY <1>7
<1>9. v <= 42 => u <= 49 * m - 11
  BY <1>5, <1>7
<1> QED
  BY <1>7, <1>8, <1>9

\* Where the items of a face are whose time has m characters.
Boxes(items, m) ==
  /\ InBox(items[1], 49 * m - 9, 49 * m + 18, 27, 42)
  /\ InBox(items[2], 4, 241, 2, 21)
  /\ TimeDots(items[3], m)
  /\ InBox(items[4], 80, 254, 98, 137)
  /\ InBox(items[5], 5, 74, 92, 148)
  /\ InBox(items[6], 4, 262, 151, 171)

\* The description, in the scale its length calls for, has the room of 37 letters.
LEMMA DescriptionInBox ==
  ASSUME NEW k \in Nat, k <= 37
  PROVE  InBox(paintDrawString(4, 150, Letters(k), IF k <= 18 THEN 2 ELSE 1), 4, 262, 151, 171)
<1>1. PICK x \in Int, y \in Int, c \in Int, e \in Int, b \in Int :
        x = 4 /\ y = 150 /\ c = 151 /\ e = 171 /\ b = 262
  OBVIOUS
<1>2. CASE k <= 18
  <2>1. PICK scale \in Scales, n \in Nat : scale = 2 /\ n = 18 /\ k <= n
    BY <1>2 DEF Scales
  <2>2. PICK dots : dots = paintDrawString(x, y, Letters(k), scale)
    OBVIOUS
  <2>3. InBox(dots, x, x + 7 * scale * n - 1, y + scale, y + 11 * scale - 1)
    BY <2>1, <2>2, LettersInBox
  <2>4. PICK b1 \in Int, c1 \in Int, e1 \in Int :
          /\ b1 = x + 7 * scale * n - 1 /\ c1 = y + scale /\ e1 = y + 11 * scale - 1
          /\ b1 <= b /\ c <= c1 /\ e1 <= e
    BY <1>1, <2>1
  <2>5. InBox(dots, x, b1, c1, e1)
    BY <2>3, <2>4
  <2>6. InBox(dots, x, b, c, e)
    BY <2>4, <2>5, WiderBox
  <2> QED
    BY <1>1, <1>2, <2>1, <2>2, <2>6
<1>3. CASE ~ (k <= 18)
  <2>1. PICK scale \in Scales, n \in Nat : scale = 1 /\ n = 37 /\ k <= n
    BY DEF Scales
  <2>2. PICK dots : dots = paintDrawString(x, y, Letters(k), scale)
    OBVIOUS
  <2>3. InBox(dots, x, x + 7 * scale * n - 1, y + scale, y + 11 * scale - 1)
    BY <2>1, <2>2, LettersInBox
  <2>4. PICK b1 \in Int, c1 \in Int, e1 \in Int :
          /\ b1 = x + 7 * scale * n - 1 /\ c1 = y + scale /\ e1 = y + 11 * scale - 1
          /\ b1 <= b /\ c <= c1 /\ e1 <= e
    BY <1>1, <2>1
  <2>5. InBox(dots, x, b1, c1, e1)
    BY <2>3, <2>4
  <2>6. InBox(dots, x, b, c, e)
    BY <2>4, <2>5, WiderBox
  <2> QED
    BY <1>1, <1>3, <2>1, <2>2, <2>6
<1> QED
  BY <1>2, <1>3

\* The icon has the room of its bitmap.
LEMMA IconInBox == InBox(paintDrawIcon(0, 80), 5, 74, 92, 148)
<1> SUFFICES ASSUME NEW p \in paintDrawIcon(0, 80)
             PROVE  \E u, v \in Int : p = <<u, v>> /\ 5 <= u /\ u <= 74 /\ 92 <= v /\ v <= 148
  BY DEF InBox
<1>1. PICK d \in (5 .. 74) \X (12 .. 68), k \in 0 .. 0, l \in 0 .. 0 :
        p = <<0 + d[1] * 1 + k, 80 + d[2] * 1 + l>>
  BY DEF paintDrawIcon, Scaled
<1>2. PICK i \in Int, j \in Int : d = <<i, j>> /\ 5 <= i /\ i <= 74 /\ 12 <= j /\ j <= 68
  OBVIOUS
<1>3. PICK v \in Int : v = 80 + j /\ 92 <= v /\ v <= 148
  BY <1>2
<1>4. p = <<i, v>>
  BY <1>1, <1>2, <1>3
<1> QED
  BY <1>2, <1>3, <1>4

\* Where the items of the faces of the clock are.
LEMMA ItemBoxes ==
  ASSUME FacesOfTheClock, NEW f \in Faces
  PROVE  DOMAIN Items(f) = 1 .. 6 /\ \E m \in 4 .. 5 : Boxes(Items(f), m)
<1>1. PICK m \in 4 .. 5 : m = Len(timeBuf(f)) /\ timeBuf(f) \in Seq(TimeChars)
  BY TimeText
<1> DEFINE ampm == IF f.hour > 11 THEN <<"P", "M">> ELSE <<"A", "M">>
<1>2. /\ DOMAIN Items(f) = 1 .. 6
      /\ Items(f)[1] = paintDrawString(m * 7 * 7 - 9, 25, ampm, 2)
      /\ Items(f)[2] = paintDrawString(4, 0, dateBuf(f), 2)
      /\ Items(f)[3] = paintDrawString(-3, 20, timeBuf(f), 7)
      /\ Items(f)[4] = paintDrawString(80, 93, temperatureBuf(f), 5)
      /\ Items(f)[5] = paintDrawIcon(0, 80)
      /\ Items(f)[6] = paintDrawString(4, 150, Letters(f.description), IF f.description <= 18 THEN 2 ELSE 1)
  BY <1>1 DEF Items, ItemsWithMargin, digitScale
<1>3. InBox(Items(f)[1], 49 * m - 9, 49 * m + 18, 27, 42)
  <2>1. ampm \in Seq(ShortChars) /\ Len(ampm) = 2
    <3>1. PICK a \in ShortChars, b \in ShortChars, c \in ShortChars : a = "A" /\ b = "P" /\ c = "M"
      BY DEF ShortChars, CapitalChars
    <3>2. <<a, c>> \in Seq(ShortChars) /\ <<b, c>> \in Seq(ShortChars)
      OBVIOUS
    <3> QED
      BY <3>1, <3>2
  <2>2. PICK text \in Seq(ShortChars) : text = ampm /\ Len(text) = 2
    BY <2>1, Zenon
  <2> HIDE DEF ampm
  <2>3. PICK x \in Int, y \in Int, scale \in Scales, n \in Nat :
          x = m * 7 * 7 - 9 /\ y = 25 /\ scale = 2 /\ n = 2 /\ Len(text) <= n
    BY <2>2 DEF Scales
  <2>4. InBox(paintDrawString(x, y, text, scale), x, x + 7 * scale * n - 1, y + scale, y + 9 * scale - 1)
    BY <2>2, <2>3, ShortTextInBox
  <2>5. /\ x = 49 * m - 9 /\ x + 7 * scale * n - 1 = 49 * m + 18
        /\ y + scale = 27 /\ y + 9 * scale - 1 = 42
    BY <2>3
  <2>6. Items(f)[1] = paintDrawString(x, y, text, scale)
    BY <1>2, <2>2, <2>3
  <2> QED
    BY <2>4, <2>5, <2>6
<1>4. InBox(Items(f)[2], 4, 241, 2, 21)
  <2>1. PICK k \in Nat : dateBuf(f) = Letters(k) /\ k <= 17
    BY DateText
  <2>2. PICK x \in Int, y \in Int, scale \in Scales, n \in Nat :
          x = 4 /\ y = 0 /\ scale = 2 /\ n = 17
    BY DEF Scales
  <2>3. InBox(paintDrawString(x, y, Letters(k), scale), x, x + 7 * scale * n - 1, y + scale, y + 11 * scale - 1)
    BY <2>1, <2>2, LettersInBox
  <2>4. /\ x = 4 /\ x + 7 * scale * n - 1 = 241
        /\ y + scale = 2 /\ y + 11 * scale - 1 = 21
    BY <2>2
  <2> QED
    BY <1>2, <2>1, <2>2, <2>3, <2>4
<1>5. TimeDots(Items(f)[3], m)
  BY <1>1, <1>2, TimeInBox
<1>6. InBox(Items(f)[4], 80, 254, 98, 137)
  <2>1. PICK text \in Seq(ShortChars) : text = temperatureBuf(f) /\ Len(text) <= 5
    <3>1. -99 <= f.temperature /\ f.temperature <= 999
      BY DEF FacesOfTheClock
    <3>2. temperatureBuf(f) \in Seq(ShortChars) /\ Len(temperatureBuf(f)) \in 0 .. 5
      BY <3>1, TemperatureText
    <3>3. \A i \in 0 .. 5 : i <= 5
      OBVIOUS
    <3> QED
      BY <3>2, <3>3, Zenon
  <2>2. PICK x \in Int, y \in Int, scale \in Scales, n \in Nat :
          x = 80 /\ y = 93 /\ scale = 5 /\ n = 5
    BY DEF Scales
  <2>3. InBox(paintDrawString(x, y, text, scale), x, x + 7 * scale * n - 1, y + scale, y + 9 * scale - 1)
    BY <2>1, <2>2, ShortTextInBox
  <2>4. /\ x = 80 /\ x + 7 * scale * n - 1 = 254
        /\ y + scale = 98 /\ y + 9 * scale - 1 = 137
    BY <2>2
  <2> QED
    BY <1>2, <2>1, <2>2, <2>3, <2>4
<1>7. InBox(Items(f)[5], 5, 74, 92, 148)
  BY <1>2, IconInBox
<1>8. InBox(Items(f)[6], 4, 262, 151, 171)
  <2>1. PICK k \in Nat : k = f.description /\ k <= 37
    BY FacesAssumption DEF FacesOfTheClock
  <2> QED
    BY <1>2, <2>1, DescriptionInBox
<1> QED
  BY <1>2, <1>3, <1>4, <1>5, <1>6, <1>7, <1>8 DEF Boxes

\* No box of a face touches another, nor the edge of the panel.
LEMMA BoxesApart ==
  ASSUME NEW items, NEW m \in 4 .. 5, Boxes(items, m)
  PROVE  /\ \A i \in 1 .. 6 : items[i] \subseteq (1 .. 263) \X (0 .. 175)
         /\ \A i, j \in 1 .. 6 : i # j => items[i] \cap items[j] = {}
<1> DEFINE In(i, p) ==
      \E u, v \in Int :
        /\ p = <<u, v>>
        /\ i = 1 => 49 * m - 9 <= u /\ u <= 49 * m + 18 /\ 27 <= v /\ v <= 42
        /\ i = 2 => 4 <= u /\ u <= 241 /\ 2 <= v /\ v <= 21
        /\ i = 3 => 4 <= u /\ u <= 241 /\ 27 <= v /\ v <= 82 /\ (v <= 42 => u <= 49 * m - 11)
        /\ i = 4 => 80 <= u /\ u <= 254 /\ 98 <= v /\ v <= 137
        /\ i = 5 => 5 <= u /\ u <= 74 /\ 92 <= v /\ v <= 148
        /\ i = 6 => 4 <= u /\ u <= 262 /\ 151 <= v /\ v <= 171
<1>1. \A p \in items[1] : In(1, p)
  BY DEF Boxes, InBox
<1>2. \A p \in items[2] : In(2, p)
  BY DEF Boxes, InBox
<1>3. \A p \in items[3] : In(3, p)
  BY DEF Boxes, TimeDots
<1>4. \A p \in items[4] : In(4, p)
  BY DEF Boxes, InBox
<1>5. \A p \in items[5] : In(5, p)
  BY DEF Boxes, InBox
<1>6. \A p \in items[6] : In(6, p)
  BY DEF Boxes, InBox
<1>7. \A i \in 1 .. 6 : i = 1 \/ i = 2 \/ i = 3 \/ i = 4 \/ i = 5 \/ i = 6
  OBVIOUS
<1>8. \A i \in 1 .. 6 : \A p \in items[i] : In(i, p)
  <2> HIDE DEF In
  <2> QED
    BY <1>1, <1>2, <1>3, <1>4, <1>5, <1>6, <1>7
<1>9. ASSUME NEW i \in 1 .. 6, NEW p \in items[i] PROVE p \in (1 .. 263) \X (0 .. 175)
  <2>1. In(i, p)
    BY <1>8
  <2>2. PICK u \in Int, v \in Int : p = <<u, v>> /\ 1 <= u /\ u <= 263 /\ 0 <= v /\ v <= 175
    BY <1>7, <2>1
  <2>3. u \in 1 .. 263 /\ v \in 0 .. 175
    BY <2>2
  <2> QED
    BY <2>2, <2>3
<1>10. ASSUME NEW i \in 1 .. 6, NEW j \in 1 .. 6, i # j, NEW p \in items[i], p \in items[j] PROVE FALSE
  <2>1. In(i, p) /\ In(j, p)
    BY <1>8, <1>10
  <2> QED
    BY <1>7, <1>10, <2>1
<1> QED
  BY <1>9, <1>10

-----------------------------------------------------------------------------
(* The dots of a face, counted                                              *)

\* The dots that are not cut off.
Visible == {e \in Rows \X Columns : PAINT_HEIGHT - e[1] \in Rows}

\* They are painted one bit each ...
LEMMA PixelsCounted ==
  ASSUME NEW dots \in SUBSET Visible
  PROVE  /\ IsFiniteSet(dots) /\ IsFiniteSet(paintDrawPixels(dots))
         /\ Cardinality(dots) \in Nat
         /\ Cardinality(paintDrawPixels(dots)) = Cardinality(dots)
<1> DEFINE f == [d \in dots |-> Bit(d[2], PAINT_HEIGHT - d[1])]
           bits == paintDrawPixels(dots)
<1>1. IsFiniteSet(dots)
  <2>1. IsFiniteSet(Rows) /\ IsFiniteSet(Columns)
    <3>1. PICK a \in Int, b \in Int, c \in Int :
            a = 0 /\ b = PAINT_HEIGHT - 1 /\ c = PAINT_WIDTH - 1
      BY PaintAssumption
    <3>2. IsFiniteSet(a .. b) /\ IsFiniteSet(a .. c)
      BY FS_Interval
    <3> QED
      BY <3>1, <3>2 DEF Rows, Columns
  <2>2. IsFiniteSet(Rows \X Columns)
    BY <2>1, FS_Product
  <2>3. dots \subseteq Rows \X Columns
    BY DEF Visible
  <2> QED
    BY <2>2, <2>3, FS_Subset
<1>2. \A d \in dots : /\ d[1] \in Rows /\ d[2] \in Columns /\ PAINT_HEIGHT - d[1] \in Rows
                      /\ d = <<d[1], d[2]>> /\ d[1] \in Int
  BY DEF Visible, Rows
<1>3. bits = {f[d] : d \in dots}
  <2>1. {e \in dots : e[1] \in Rows /\ e[2] \in Columns /\ PAINT_HEIGHT - e[1] \in Rows} = dots
    BY <1>2
  <2> QED
    BY <2>1 DEF paintDrawPixels
<1>4. \A d, e \in dots : f[d] = f[e] => d = e
  <2> SUFFICES ASSUME NEW d \in dots, NEW e \in dots, f[d] = f[e] PROVE d = e
    OBVIOUS
  <2>1. d[2] = e[2] /\ PAINT_HEIGHT - d[1] = PAINT_HEIGHT - e[1]
    BY <1>2, DotsHaveTheirOwnBits
  <2>2. d[1] = e[1]
    BY <1>2, <2>1, PaintAssumption
  <2> QED
    BY <1>2, <2>1, <2>2
<1> HIDE DEF bits
<1>5. f \in Bijection(dots, bits)
  <2>1. f \in [dots -> bits]
    BY <1>3
  <2> HIDE DEF f
  <2> QED
    BY <1>3, <1>4, <2>1 DEF Bijection, Injection, Surjection, IsInjective
<1>6. IsFiniteSet(bits) /\ Cardinality(bits) = Cardinality(dots)
  BY <1>1, <1>5, FS_Bijection DEF ExistsBijection
<1>7. Cardinality(dots) \in Nat
  BY <1>1, FS_CardinalityType
<1> QED
  BY <1>1, <1>6, <1>7 DEF bits

\* ... and different dots in different bits.
LEMMA PixelsApart ==
  ASSUME NEW a \in SUBSET Visible, NEW b \in SUBSET Visible, a \cap b = {}
  PROVE  paintDrawPixels(a) \cap paintDrawPixels(b) = {}
<1> SUFFICES ASSUME NEW p \in paintDrawPixels(a), p \in paintDrawPixels(b)
             PROVE  FALSE
  OBVIOUS
<1>1. PICK d \in a : p = Bit(d[2], PAINT_HEIGHT - d[1])
  BY DEF paintDrawPixels
<1>2. PICK e \in b : p = Bit(e[2], PAINT_HEIGHT - e[1])
  BY DEF paintDrawPixels
<1>3. \A x \in Visible : /\ x[1] \in Rows /\ x[2] \in Columns /\ PAINT_HEIGHT - x[1] \in Rows
                         /\ x = <<x[1], x[2]>> /\ x[1] \in Int
  BY DEF Visible, Rows
<1>4. d[2] = e[2] /\ PAINT_HEIGHT - d[1] = PAINT_HEIGHT - e[1]
  BY <1>1, <1>2, <1>3, DotsHaveTheirOwnBits
<1>5. d[1] = e[1]
  BY <1>3, <1>4, PaintAssumption
<1> QED
  BY <1>3, <1>4, <1>5

\* Sets without a common element together.
LEMMA Together ==
  ASSUME NEW a, NEW b, IsFiniteSet(a), IsFiniteSet(b), a \cap b = {}
  PROVE  IsFiniteSet(a \union b) /\ Cardinality(a \union b) = Cardinality(a) + Cardinality(b)
<1>1. /\ IsFiniteSet(a \union b)
      /\ Cardinality(a \union b) = Cardinality(a) + Cardinality(b) - Cardinality(a \cap b)
  BY FS_Union
<1>2. Cardinality(a \cap b) = 0
  BY FS_EmptySet
<1>3. Cardinality(a) \in Nat /\ Cardinality(b) \in Nat
  BY FS_CardinalityType
<1> QED
  BY <1>1, <1>2, <1>3

\* What the item i counts for among the items s, and what all of them do.
Part(items, i, s) == IF i \in s THEN Cardinality(items[i]) ELSE 0
Total(items, s) ==
  Part(items, 1, s) + Part(items, 2, s) + Part(items, 3, s) + Part(items, 4, s) + Part(items, 5, s)
    + Part(items, 6, s)

\* Taking an index out takes its part out.
LEMMA TotalStep ==
  ASSUME NEW items, \A i \in 1 .. 6 : Cardinality(items[i]) \in Nat,
         NEW s \in SUBSET (1 .. 6), NEW x \in s
  PROVE  Total(items, s) = Total(items, s \ {x}) + Cardinality(items[x])
<1> DEFINE t == s \ {x}
<1>1. \A i \in 1 .. 6 : Part(items, i, s) \in Nat /\ Part(items, i, t) \in Nat
  BY DEF Part
<1>2. \A i \in 1 .. 6 : i # x => Part(items, i, s) = Part(items, i, t)
  BY DEF Part
<1>3. Part(items, x, s) = Cardinality(items[x]) /\ Part(items, x, t) = 0
  BY DEF Part
<1>4. x \in {1, 2, 3, 4, 5, 6}
  OBVIOUS
<1>5. \A i \in 1 .. 6 : Part(items, i, s) = Part(items, i, t) + (IF i = x THEN Cardinality(items[x]) ELSE 0)
  BY <1>1, <1>2, <1>3
<1>6. PICK c \in Nat : c = Cardinality(items[x])
  OBVIOUS
<1> HIDE DEF t
<1>7. PICK a1 \in Nat, a2 \in Nat, a3 \in Nat, a4 \in Nat, a5 \in Nat, a6 \in Nat :
        /\ a1 = Part(items, 1, t) /\ a2 = Part(items, 2, t) /\ a3 = Part(items, 3, t)
        /\ a4 = Part(items, 4, t) /\ a5 = Part(items, 5, t) /\ a6 = Part(items, 6, t)
  <2>1. /\ Part(items, 1, t) \in Nat /\ Part(items, 2, t) \in Nat /\ Part(items, 3, t) \in Nat
        /\ Part(items, 4, t) \in Nat /\ Part(items, 5, t) \in Nat /\ Part(items, 6, t) \in Nat
    BY <1>1
  <2> QED
    BY <2>1, Zenon
<1>8. Total(items, t) = a1 + a2 + a3 + a4 + a5 + a6
  BY <1>7 DEF Total
<1>9. Total(items, s) = (a1 + (IF 1 = x THEN c ELSE 0)) + (a2 + (IF 2 = x THEN c ELSE 0))
                        + (a3 + (IF 3 = x THEN c ELSE 0)) + (a4 + (IF 4 = x THEN c ELSE 0))
                        + (a5 + (IF 5 = x THEN c ELSE 0)) + (a6 + (IF 6 = x THEN c ELSE 0))
  BY <1>5, <1>6, <1>7 DEF Total
<1>10. Total(items, s) = Total(items, t) + c
  BY <1>4, <1>8, <1>9
<1> QED
  BY <1>6, <1>10 DEF t

\* The fold over the items, in whichever order it takes them, is their sum: it is so for
\* no items, and there are no fewest items for which it is not.
LEMMA FoldIs ==
  ASSUME NEW items, DOMAIN items = 1 .. 6, \A i \in 1 .. 6 : Cardinality(items[i]) \in Nat
  PROVE  FoldFunction(LAMBDA dots, n : n + Cardinality(dots), 0, items) = Total(items, 1 .. 6)
<1>0. IsFiniteSet(1 .. 6)
  <2>1. PICK a \in Int, b \in Int : a = 1 /\ b = 6
    OBVIOUS
  <2>2. IsFiniteSet(a .. b)
    BY FS_Interval
  <2> QED
    BY <2>1, <2>2
<1> DEFINE Once(g) == [s \in SUBSET (1 .. 6) |->
                         IF s = {} THEN 0
                         ELSE g[s \ {CHOOSE x \in s : TRUE}] + Cardinality(items[CHOOSE x \in s : TRUE])]
           sum == CHOOSE g : g = Once(g)
           total == [s \in SUBSET (1 .. 6) |-> Total(items, s)]
<1>1. FoldFunction(LAMBDA dots, n : n + Cardinality(dots), 0, items) = sum[1 .. 6]
  BY DEF FoldFunction, FoldFunctionOnSet, MapThenFoldSet
<1>2. \A s \in SUBSET (1 .. 6) : s # {} =>
        \E x \in s : /\ x = (CHOOSE y \in s : TRUE)
                     /\ s \ {x} \in SUBSET (1 .. 6)
                     /\ Total(items, s) = Total(items, s \ {x}) + Cardinality(items[x])
  <2> SUFFICES ASSUME NEW s \in SUBSET (1 .. 6), s # {}
               PROVE  \E x \in s : /\ x = (CHOOSE y \in s : TRUE)
                                   /\ s \ {x} \in SUBSET (1 .. 6)
                                   /\ Total(items, s) = Total(items, s \ {x}) + Cardinality(items[x])
    OBVIOUS
  <2>1. PICK x \in s : x = (CHOOSE y \in s : TRUE)
    OBVIOUS
  <2>2. Total(items, s) = Total(items, s \ {x}) + Cardinality(items[x])
    BY TotalStep
  <2> QED
    BY <2>1, <2>2
<1>3. Total(items, {}) = 0
  BY DEF Total, Part
<1>4. total = Once(total)
  <2>1. ASSUME NEW s \in SUBSET (1 .. 6) PROVE total[s] = Once(total)[s]
    BY <1>2, <1>3
  <2> QED
    BY <2>1
<1>5. sum = Once(sum)
  <2> HIDE DEF Once, total
  <2> QED
    BY <1>4
<1>6. \A s \in SUBSET (1 .. 6) : sum[s] = Total(items, s)
  <2> HIDE DEF sum
  <2> DEFINE wrong == {s \in SUBSET (1 .. 6) : sum[s] # Total(items, s)}
  <2> SUFFICES ASSUME wrong # {} PROVE FALSE
    OBVIOUS
  <2>1. PICK s \in wrong : \A r \in wrong : <<r, s>> \notin StrictSubsetOrdering(1 .. 6)
    <3>2. ASSUME NEW r \in wrong PROVE r \in FiniteSubsetsOf(1 .. 6)
      <4>1. r \in SUBSET (1 .. 6)
        OBVIOUS
      <4>2. IsFiniteSet(r)
        BY <1>0, <4>1, FS_Subset
      <4> QED
        BY <4>1, <4>2 DEF FiniteSubsetsOf
    <3> HIDE DEF wrong
    <3> QED
      BY <3>2, FS_StrictSubsetOrderingWellFounded, WFMin
  <2>2. s # {}
    BY <1>3, <1>5
  <2>3. PICK x \in s : /\ x = (CHOOSE y \in s : TRUE)
                       /\ s \ {x} \in SUBSET (1 .. 6)
                       /\ Total(items, s) = Total(items, s \ {x}) + Cardinality(items[x])
    BY <1>2, <2>2
  <2>4. sum[s] = sum[s \ {x}] + Cardinality(items[x])
    BY <1>5, <2>2, <2>3
  <2>5. s \ {x} \in wrong
    BY <2>3, <2>4
  <2>6. <<s \ {x}, s>> \in StrictSubsetOrdering(1 .. 6)
    <3>1. s \in SUBSET (1 .. 6) /\ s \ {x} \in SUBSET (1 .. 6)
      BY <2>3
    <3>2. s \ {x} \subseteq s /\ s \ {x} # s
      OBVIOUS
    <3> QED
      BY <3>1, <3>2 DEF StrictSubsetOrdering
  <2> HIDE DEF wrong
  <2> QED
    BY <2>1, <2>5, <2>6, Zenon
<1> HIDE DEF sum
<1> QED
  BY <1>1, <1>6

\* So the bits of six items which neither touch nor are cut off are as many as their dots.
LEMMA FaceCounted ==
  ASSUME NEW items, DOMAIN items = 1 .. 6,
         \A i \in 1 .. 6 : items[i] \in SUBSET Visible,
         \A i, j \in 1 .. 6 : i # j => items[i] \cap items[j] = {}
  PROVE  Cardinality(UNION {paintDrawPixels(dots) : dots \in Range(items)}) =
           FoldFunction(LAMBDA dots, n : n + Cardinality(dots), 0, items)
<1> DEFINE bits == [i \in 1 .. 6 |-> paintDrawPixels(items[i])]
<1>1. \A i \in 1 .. 6 : /\ Cardinality(items[i]) \in Nat /\ IsFiniteSet(bits[i])
                        /\ Cardinality(bits[i]) = Cardinality(items[i])
  BY PixelsCounted
<1>2. \A i, j \in 1 .. 6 : i # j => bits[i] \cap bits[j] = {}
  BY PixelsApart
<1>3. UNION {paintDrawPixels(dots) : dots \in Range(items)} =
        bits[1] \union bits[2] \union bits[3] \union bits[4] \union bits[5] \union bits[6]
  <2>1. Range(items) = {items[1], items[2], items[3], items[4], items[5], items[6]}
    <3>1. Range(items) = {items[i] : i \in 1 .. 6}
      BY DEF Range
    <3>2. 1 .. 6 = {1, 2, 3, 4, 5, 6}
      OBVIOUS
    <3> QED
      BY <3>1, <3>2
  <2> QED
    BY <2>1
<1> HIDE DEF bits
<1>4. PICK b1, b2, b3, b4, b5, b6 :
        /\ b1 = bits[1] /\ b2 = bits[2] /\ b3 = bits[3] /\ b4 = bits[4] /\ b5 = bits[5] /\ b6 = bits[6]
        /\ IsFiniteSet(b1) /\ IsFiniteSet(b2) /\ IsFiniteSet(b3)
        /\ IsFiniteSet(b4) /\ IsFiniteSet(b5) /\ IsFiniteSet(b6)
  <2>1. /\ IsFiniteSet(bits[1]) /\ IsFiniteSet(bits[2]) /\ IsFiniteSet(bits[3])
        /\ IsFiniteSet(bits[4]) /\ IsFiniteSet(bits[5]) /\ IsFiniteSet(bits[6])
    BY <1>1
  <2> QED
    BY <2>1, Zenon
<1>5. /\ b1 \cap b2 = {}
      /\ (b1 \union b2) \cap b3 = {}
      /\ (b1 \union b2 \union b3) \cap b4 = {}
      /\ (b1 \union b2 \union b3 \union b4) \cap b5 = {}
      /\ (b1 \union b2 \union b3 \union b4 \union b5) \cap b6 = {}
  <2>1. /\ b1 \cap b2 = {}
        /\ b1 \cap b3 = {} /\ b2 \cap b3 = {}
        /\ b1 \cap b4 = {} /\ b2 \cap b4 = {} /\ b3 \cap b4 = {}
        /\ b1 \cap b5 = {} /\ b2 \cap b5 = {} /\ b3 \cap b5 = {} /\ b4 \cap b5 = {}
        /\ b1 \cap b6 = {} /\ b2 \cap b6 = {} /\ b3 \cap b6 = {} /\ b4 \cap b6 = {} /\ b5 \cap b6 = {}
    BY <1>2, <1>4
  <2> QED
    BY <2>1
<1>6. PICK n1 \in Nat, n2 \in Nat, n3 \in Nat, n4 \in Nat, n5 \in Nat, n6 \in Nat :
        /\ n1 = Cardinality(b1) /\ n2 = Cardinality(b2) /\ n3 = Cardinality(b3)
        /\ n4 = Cardinality(b4) /\ n5 = Cardinality(b5) /\ n6 = Cardinality(b6)
  <2>1. /\ Cardinality(b1) \in Nat /\ Cardinality(b2) \in Nat /\ Cardinality(b3) \in Nat
        /\ Cardinality(b4) \in Nat /\ Cardinality(b5) \in Nat /\ Cardinality(b6) \in Nat
    BY <1>4, FS_CardinalityType
  <2> QED
    BY <2>1, Zenon
<1>7. PICK c2, c3, c4, c5, c6 :
        /\ c2 = b1 \union b2 /\ c3 = c2 \union b3 /\ c4 = c3 \union b4
        /\ c5 = c4 \union b5 /\ c6 = c5 \union b6
        /\ c2 \cap b3 = {} /\ c3 \cap b4 = {} /\ c4 \cap b5 = {} /\ c5 \cap b6 = {}
  BY <1>5
<1>8. IsFiniteSet(c2) /\ Cardinality(c2) = n1 + n2
  BY <1>4, <1>5, <1>6, <1>7, Together
<1>9. IsFiniteSet(c3) /\ Cardinality(c3) = n1 + n2 + n3
  <2>1. IsFiniteSet(c2 \union b3) /\ Cardinality(c2 \union b3) = Cardinality(c2) + Cardinality(b3)
    BY <1>4, <1>7, <1>8, Together, Zenon
  <2> QED
    BY <1>6, <1>7, <1>8, <2>1
<1>10. IsFiniteSet(c4) /\ Cardinality(c4) = n1 + n2 + n3 + n4
  <2>1. IsFiniteSet(c3 \union b4) /\ Cardinality(c3 \union b4) = Cardinality(c3) + Cardinality(b4)
    BY <1>4, <1>7, <1>9, Together, Zenon
  <2> QED
    BY <1>6, <1>7, <1>9, <2>1
<1>11. IsFiniteSet(c5) /\ Cardinality(c5) = n1 + n2 + n3 + n4 + n5
  <2>1. IsFiniteSet(c4 \union b5) /\ Cardinality(c4 \union b5) = Cardinality(c4) + Cardinality(b5)
    BY <1>4, <1>7, <1>10, Together, Zenon
  <2> QED
    BY <1>6, <1>7, <1>10, <2>1
<1>12. Cardinality(c6) = n1 + n2 + n3 + n4 + n5 + n6
  <2>1. IsFiniteSet(c5 \union b6) /\ Cardinality(c5 \union b6) = Cardinality(c5) + Cardinality(b6)
    BY <1>4, <1>7, <1>11, Together, Zenon
  <2> QED
    BY <1>6, <1>7, <1>11, <2>1
<1>13. Total(items, 1 .. 6) = n1 + n2 + n3 + n4 + n5 + n6
  <2>1. /\ n1 = Cardinality(items[1]) /\ n2 = Cardinality(items[2]) /\ n3 = Cardinality(items[3])
        /\ n4 = Cardinality(items[4]) /\ n5 = Cardinality(items[5]) /\ n6 = Cardinality(items[6])
    BY <1>1, <1>4, <1>6
  <2> QED
    BY <2>1 DEF Total, Part
<1>14. UNION {paintDrawPixels(dots) : dots \in Range(items)} = c6
  BY <1>3, <1>4, <1>7
<1>15. FoldFunction(LAMBDA dots, n : n + Cardinality(dots), 0, items) = Total(items, 1 .. 6)
  BY <1>1, FoldIs
<1> QED
  BY <1>12, <1>13, <1>14, <1>15

\* Of every face of the clock that fits the panel, painting sets a bit for each dot and
\* no other: nothing is cut off and nothing overlaps, at any time of day: FaceReadable.
THEOREM ReadsTheFace ==
  ASSUME FacesOfTheClock
  PROVE  PaintSpec => []FaceReadable
<1> DEFINE bitsOf(f) == UNION {paintDrawPixels(dots) : dots \in Range(Items(f))}
<1>1. \A f \in Faces : Cardinality(bitsOf(f)) = DotsOf(f)
  <2> SUFFICES ASSUME NEW f \in Faces PROVE Cardinality(bitsOf(f)) = DotsOf(f)
    OBVIOUS
  <2>1. PICK items : items = Items(f)
    OBVIOUS
  <2>2. PICK m \in 4 .. 5 : Boxes(items, m) /\ DOMAIN items = 1 .. 6
    BY <2>1, ItemBoxes
  <2>3. (1 .. 263) \X (0 .. 175) \subseteq Visible
    BY DEF FacesOfTheClock, Visible, Rows, Columns
  <2>4. /\ \A i \in 1 .. 6 : items[i] \in SUBSET Visible
        /\ \A i, j \in 1 .. 6 : i # j => items[i] \cap items[j] = {}
    BY <2>2, <2>3, BoxesApart
  <2> QED
    BY <2>1, <2>2, <2>4, FaceCounted DEF DotsOf
<1> HIDE DEF bitsOf
<1>2. PaintInit => FaceReadable
  BY DEF PaintInit, FaceReadable, ImageInBuffer
<1>3. FaceReadable /\ [PaintNext]_paintVars => FaceReadable'
  <2> SUFFICES ASSUME FaceReadable, [PaintNext]_paintVars
               PROVE  FaceReadable'
    OBVIOUS
  <2>1. ImageInBuffer /\ ImageInBuffer'
    BY StepImageInBuffer DEF FaceReadable
  <2>2. CASE PaintFace
    <3>1. PICK f \in Faces : face' = f /\ image' = image \union bitsOf(f)
      BY <2>2 DEF PaintFace, bitsOf
    <3>2. image = {}
      BY <2>1, <2>2 DEF PaintFace, ImageInBuffer
    <3>3. Cardinality(image') = DotsOf(f)
      BY <1>1, <3>1, <3>2
    <3> QED
      BY <2>1, <3>1, <3>3 DEF FaceReadable
  <2>3. CASE ClearBuffers
    BY <2>1, <2>3 DEF ClearBuffers, FaceReadable
  <2>4. CASE UNCHANGED paintVars
    BY <2>1, <2>4 DEF paintVars, FaceReadable
  <2> QED
    BY <2>2, <2>3, <2>4 DEF PaintNext
<1> QED
  BY <1>2, <1>3, PTL DEF PaintSpec

-----------------------------------------------------------------------------
(* Division                                                                 *)

\* Quotient and remainder are unique ...
LEMMA Division ==
  ASSUME NEW a \in Int, NEW n \in Nat \ {0}, NEW q \in Int, NEW r \in 0 .. n - 1, a = n * q + r
  PROVE  a \div n = q /\ a % n = r
  OBVIOUS

\* ... and every number has them.
LEMMA Divides ==
  ASSUME NEW n \in Nat \ {0}, NEW a \in Int
  PROVE  \E q \in Int, r \in 0 .. n - 1 : q = a \div n /\ r = a % n /\ a = n * q + r
  OBVIOUS

-----------------------------------------------------------------------------
(* Instants                                                                 *)

DaySeconds == {s \in Int : 0 <= s /\ s < 86400}

\* An instant is determined by its day and its second.
LEMMA InstantIs ==
  ASSUME NEW d \in Int, NEW s \in DaySeconds
  PROVE  Instant(d, s) = [day |-> d, second |-> s]
<1>1. s \in Int /\ s \div 86400 = 0 /\ s % 86400 = s
  BY DEF DaySeconds
<1> QED
  BY <1>1 DEF Instant

\* A sum carries at most one day.
LEMMA SumIs ==
  ASSUME NEW d \in Int, NEW e \in Int, NEW s \in DaySeconds, NEW r \in DaySeconds
  PROVE  Sum([day |-> d, second |-> s], [day |-> e, second |-> r]) =
           IF s + r < 86400 THEN [day |-> d + e, second |-> s + r]
           ELSE [day |-> d + e + 1, second |-> s + r - 86400]
<1>0. s \in Int /\ r \in Int
  BY DEF DaySeconds
<1>1. PICK n \in Int : n = s + r /\ 0 <= n /\ n < 172800
  BY DEF DaySeconds
<1>2. CASE n < 86400
  <2>1. n \div 86400 = 0 /\ n % 86400 = n
    BY <1>1, <1>2
  <2> QED
    BY <1>1, <1>2, <2>1 DEF Sum, Instant
<1>3. CASE ~ (n < 86400)
  <2>1. n \div 86400 = 1 /\ n % 86400 = n - 86400
    BY <1>1, <1>3
  <2>2. Sum([day |-> d, second |-> s], [day |-> e, second |-> r]) = Instant(d + e, n)
    BY <1>1 DEF Sum
  <2>3. Instant(d + e, n) = [day |-> d + e + 1, second |-> n - 86400]
    BY <2>1 DEF Instant
  <2>4. n - 86400 = s + r - 86400 /\ ~ (s + r < 86400)
    BY <1>0, <1>1, <1>3
  <2> QED
    BY <2>2, <2>3, <2>4
<1> QED
  BY <1>2, <1>3

\* What the 32 bits of the SNTP client's seconds hold: 49710 days and 23296 seconds.
Days32 == {d \in Int : 0 <= d /\ d <= 49710}

\* The instants whose seconds since 1900 these 32 bits hold, or fold once: from 1900 to 2172.
Instants == [day : {d \in Int : -25567 <= d /\ d <= 73852}, second : DaySeconds]

\* The constants of the 32-bit arithmetic.
LEMMA U32Instants ==
  /\ Instant(49710, 23296) = [day |-> 49710, second |-> 23296]
  /\ Instant(-49710, -23296) = [day |-> -49711, second |-> 63104]
  /\ DIFF_SEC_1970_2036 = [day |-> 24143, second |-> 23296]
  /\ Instant(25567, 0) = [day |-> 25567, second |-> 0]
<1>1. 23296 \in DaySeconds /\ 0 \in DaySeconds
  BY DEF DaySeconds
<1>2. PICK a \in Int, n \in Nat \ {0}, r \in Int : a = -23296 /\ n = 86400 /\ r = 63104
  OBVIOUS
<1>3. r \in 0 .. n - 1 /\ a = n * (-1) + r
  BY <1>2
<1>4. a \div n = -1 /\ a % n = r
  BY <1>3, Division
<1>5. Instant(-49710, -23296) = [day |-> -49711, second |-> 63104]
  BY <1>2, <1>4 DEF Instant
<1>6. Instant(49710, 23296) = [day |-> 49710, second |-> 23296]
  BY <1>1, InstantIs
<1>7. DIFF_SEC_1970_2036 = [day |-> 24143, second |-> 23296]
  BY <1>1, InstantIs DEF DIFF_SEC_1970_2036
<1>8. Instant(25567, 0) = [day |-> 25567, second |-> 0]
  BY <1>1, InstantIs
<1> QED
  BY <1>5, <1>6, <1>7, <1>8

\* Arithmetic of u32 folds an instant that does not fit once.
LEMMA U32Is ==
  ASSUME NEW n \in Nat, NEW r \in DaySeconds
  PROVE  U32([day |-> n, second |-> r]) =
           IF n < 49710 \/ (n = 49710 /\ r < 23296) THEN [day |-> n, second |-> r]
           ELSE IF r < 23296 THEN [day |-> n - 49711, second |-> r + 63104]
           ELSE [day |-> n - 49710, second |-> r - 23296]
<1>1. 0 <= r /\ r < 86400 /\ r \in Int
  BY DEF DaySeconds
<1>2. 63104 \in DaySeconds
  BY DEF DaySeconds
<1>3. Before([day |-> n, second |-> r], Instant(49710, 23296))
        <=> (n < 49710 \/ (n = 49710 /\ r < 23296))
  BY U32Instants DEF Before
<1>4. PICK e \in Int, w \in DaySeconds :
        e = -49711 /\ w = 63104 /\ Instant(-49710, -23296) = [day |-> e, second |-> w]
  BY <1>2, U32Instants
<1>5. Sum([day |-> n, second |-> r], [day |-> e, second |-> w]) =
        IF r + w < 86400 THEN [day |-> n + e, second |-> r + w]
        ELSE [day |-> n + e + 1, second |-> r + w - 86400]
  BY SumIs
<1>6. Sum([day |-> n, second |-> r], Instant(-49710, -23296)) =
        IF r < 23296 THEN [day |-> n - 49711, second |-> r + 63104]
        ELSE [day |-> n - 49710, second |-> r - 23296]
  <2>1. n + e = n - 49711 /\ n + e + 1 = n - 49710 /\ r + w - 86400 = r - 23296
        /\ (r + w < 86400 <=> r < 23296)
    BY <1>1, <1>4
  <2> QED
    BY <1>4, <1>5, <2>1
<1>7. U32([day |-> n, second |-> r]) =
        IF Before([day |-> n, second |-> r], Instant(49710, 23296)) THEN [day |-> n, second |-> r]
        ELSE Sum([day |-> n, second |-> r], Instant(-49710, -23296))
  BY DEF U32
<1>8. CASE n < 49710 \/ (n = 49710 /\ r < 23296)
  BY <1>3, <1>7, <1>8
<1>9. CASE ~ (n < 49710 \/ (n = 49710 /\ r < 23296))
  BY <1>3, <1>6, <1>7, <1>9
<1> QED
  BY <1>8, <1>9

\* Seconds since 1900 in 32 bits and back to seconds since 1970 in 32 bits: the result
\* fits, and it is the instant itself where that fits.
LEMMA ThroughU32 ==
  ASSUME NEW t \in Instants
  PROVE  /\ internet_time(xmit(t)) \in [day : Days32, second : DaySeconds]
         /\ 0 <= t.day /\ t.day < 49710 => internet_time(xmit(t)) = t
<1>1. PICK d \in Int, s \in DaySeconds : t = [day |-> d, second |-> s] /\ -25567 <= d /\ d <= 73852
  BY DEF Instants
<1>2. 0 <= s /\ s < 86400 /\ s \in Int /\ 0 \in DaySeconds /\ 23296 \in DaySeconds
  BY DEF DaySeconds
<1>3. PICK n \in Nat : n = d + 25567 /\ n < 99420
  BY <1>1
<1>4. PICK n1 \in Int, s1 \in Int :
        /\ xmit(t) = [day |-> n1, second |-> s1]
        /\ IF n < 49710 \/ (n = 49710 /\ s < 23296) THEN n1 = n /\ s1 = s
           ELSE IF s < 23296 THEN n1 = n - 49711 /\ s1 = s + 63104
           ELSE n1 = n - 49710 /\ s1 = s - 23296
  <2>1. PICK e \in Int, w \in DaySeconds :
          e = 25567 /\ w = 0 /\ Instant(25567, 0) = [day |-> e, second |-> w]
    BY <1>2, U32Instants
  <2>2. Sum([day |-> d, second |-> s], [day |-> e, second |-> w]) =
          IF s + w < 86400 THEN [day |-> d + e, second |-> s + w]
          ELSE [day |-> d + e + 1, second |-> s + w - 86400]
    BY SumIs
  <2>3. d + e = n /\ s + w = s
    BY <1>2, <1>3, <2>1
  <2>4. xmit(t) = U32([day |-> n, second |-> s])
    BY <1>1, <1>2, <2>1, <2>2, <2>3 DEF xmit
  <2>5. U32([day |-> n, second |-> s]) =
          IF n < 49710 \/ (n = 49710 /\ s < 23296) THEN [day |-> n, second |-> s]
          ELSE IF s < 23296 THEN [day |-> n - 49711, second |-> s + 63104]
          ELSE [day |-> n - 49710, second |-> s - 23296]
    BY U32Is
  <2> QED
    BY <1>2, <1>3, <2>4, <2>5
<1>5. n1 \in Nat /\ n1 <= 49710 /\ s1 \in DaySeconds /\ 0 <= s1 /\ s1 < 86400
      /\ (n1 = 49710 => s1 < 23296)
  BY <1>2, <1>3, <1>4 DEF DaySeconds
<1>6. PICK n2 \in Int, s2 \in Int :
        /\ Sum(xmit(t), DIFF_SEC_1970_2036) = [day |-> n2, second |-> s2]
        /\ IF s1 + 23296 < 86400 THEN n2 = n1 + 24143 /\ s2 = s1 + 23296
           ELSE n2 = n1 + 24143 + 1 /\ s2 = s1 + 23296 - 86400
  <2>1. PICK e \in Int, w \in DaySeconds :
          e = 24143 /\ w = 23296 /\ DIFF_SEC_1970_2036 = [day |-> e, second |-> w]
    BY <1>2, U32Instants
  <2>2. Sum([day |-> n1, second |-> s1], [day |-> e, second |-> w]) =
          IF s1 + w < 86400 THEN [day |-> n1 + e, second |-> s1 + w]
          ELSE [day |-> n1 + e + 1, second |-> s1 + w - 86400]
    BY <1>5, SumIs
  <2> QED
    BY <1>4, <1>5, <2>1, <2>2
<1>7. n2 \in Nat /\ s2 \in DaySeconds /\ 0 <= s2 /\ s2 < 86400
  BY <1>5, <1>6 DEF DaySeconds
<1>8. PICK n3 \in Int, s3 \in Int :
        /\ internet_time(xmit(t)) = [day |-> n3, second |-> s3]
        /\ IF n2 < 49710 \/ (n2 = 49710 /\ s2 < 23296) THEN n3 = n2 /\ s3 = s2
           ELSE IF s2 < 23296 THEN n3 = n2 - 49711 /\ s3 = s2 + 63104
           ELSE n3 = n2 - 49710 /\ s3 = s2 - 23296
  <2>1. internet_time(xmit(t)) = U32([day |-> n2, second |-> s2])
    BY <1>6 DEF internet_time
  <2>2. U32([day |-> n2, second |-> s2]) =
          IF n2 < 49710 \/ (n2 = 49710 /\ s2 < 23296) THEN [day |-> n2, second |-> s2]
          ELSE IF s2 < 23296 THEN [day |-> n2 - 49711, second |-> s2 + 63104]
          ELSE [day |-> n2 - 49710, second |-> s2 - 23296]
    BY <1>7, U32Is
  <2> QED
    BY <1>7, <2>1, <2>2
<1>9. 0 <= n3 /\ n3 <= 49710 /\ 0 <= s3 /\ s3 < 86400
  BY <1>5, <1>6, <1>7, <1>8
<1>10. 0 <= d /\ d < 49710 => n3 = d /\ s3 = s
  BY <1>2, <1>3, <1>4, <1>5, <1>6, <1>7, <1>8
<1> QED
  BY <1>1, <1>8, <1>9, <1>10 DEF Days32, DaySeconds

-----------------------------------------------------------------------------
(* Months and years                                                         *)

\* The days before each month.
LEMMA MonthDays ==
  ASSUME NEW leap \in BOOLEAN
  PROVE  /\ DaysBeforeMonth(leap, 1) = 0 /\ DaysBeforeMonth(leap, 2) = 31
         /\ leap => /\ DaysBeforeMonth(leap, 3) = 60 /\ DaysBeforeMonth(leap, 4) = 91
                    /\ DaysBeforeMonth(leap, 5) = 121 /\ DaysBeforeMonth(leap, 6) = 152
                    /\ DaysBeforeMonth(leap, 7) = 182 /\ DaysBeforeMonth(leap, 8) = 213
                    /\ DaysBeforeMonth(leap, 9) = 244 /\ DaysBeforeMonth(leap, 10) = 274
                    /\ DaysBeforeMonth(leap, 11) = 305 /\ DaysBeforeMonth(leap, 12) = 335
                    /\ DaysBeforeMonth(leap, 13) = 366
         /\ ~leap => /\ DaysBeforeMonth(leap, 3) = 59 /\ DaysBeforeMonth(leap, 4) = 90
                     /\ DaysBeforeMonth(leap, 5) = 120 /\ DaysBeforeMonth(leap, 6) = 151
                     /\ DaysBeforeMonth(leap, 7) = 181 /\ DaysBeforeMonth(leap, 8) = 212
                     /\ DaysBeforeMonth(leap, 9) = 243 /\ DaysBeforeMonth(leap, 10) = 273
                     /\ DaysBeforeMonth(leap, 11) = 304 /\ DaysBeforeMonth(leap, 12) = 334
                     /\ DaysBeforeMonth(leap, 13) = 365
<1>1. CASE leap
  BY <1>1 DEF DaysBeforeMonth, monthDays
<1>2. CASE ~leap
  BY <1>2 DEF DaysBeforeMonth, monthDays
<1> QED
  BY <1>1, <1>2

\* The month after the last but one, and so on.
LEMMA NextMonth ==
  /\ 1 + 1 = 2 /\ 2 + 1 = 3 /\ 3 + 1 = 4 /\ 4 + 1 = 5 /\ 5 + 1 = 6 /\ 6 + 1 = 7 /\ 7 + 1 = 8
  /\ 8 + 1 = 9 /\ 9 + 1 = 10 /\ 10 + 1 = 11 /\ 11 + 1 = 12 /\ 12 + 1 = 13
  OBVIOUS

\* The table of their lengths agrees.
LEMMA MonthLength ==
  ASSUME NEW leap \in BOOLEAN, NEW m \in 1 .. 12
  PROVE  /\ DaysBeforeMonth(leap, m) \in Nat /\ DaysBeforeMonth(leap, m + 1) \in Nat
         /\ DaysPerMonth(leap)[m] = DaysBeforeMonth(leap, m + 1) - DaysBeforeMonth(leap, m)
         /\ DaysPerMonth(leap)[m] \in Nat
<1> USE NextMonth, MonthDays DEF DaysPerMonth
<1>1. CASE m = 1
  BY <1>1
<1>2. CASE m = 2
  BY <1>2
<1>3. CASE m = 3
  BY <1>3
<1>4. CASE m = 4
  BY <1>4
<1>5. CASE m = 5
  BY <1>5
<1>6. CASE m = 6
  BY <1>6
<1>7. CASE m = 7
  BY <1>7
<1>8. CASE m = 8
  BY <1>8
<1>9. CASE m = 9
  BY <1>9
<1>10. CASE m = 10
  BY <1>10
<1>11. CASE m = 11
  BY <1>11
<1>12. CASE m = 12
  BY <1>12
<1> QED
  BY <1>1, <1>2, <1>3, <1>4, <1>5, <1>6, <1>7, <1>8, <1>9, <1>10, <1>11, <1>12

\* The leap day falls after the second month.
LEMMA LeapDay ==
  ASSUME NEW leap \in BOOLEAN, NEW m \in 1 .. 12
  PROVE  /\ monthDays[m] \in Nat
         /\ DaysBeforeMonth(leap, m) = monthDays[m] + (IF leap /\ m > 2 THEN 1 ELSE 0)
<1>1. \/ m = 1 \/ m = 2 \/ m = 3 \/ m = 4 \/ m = 5 \/ m = 6
      \/ m = 7 \/ m = 8 \/ m = 9 \/ m = 10 \/ m = 11 \/ m = 12
  OBVIOUS
<1>2. monthDays[m] \in Nat
  BY <1>1 DEF monthDays
<1> QED
  BY <1>2 DEF DaysBeforeMonth

\* Every day of a year lies in one of its months.
LEMMA MonthOf ==
  ASSUME NEW leap \in BOOLEAN, NEW n \in Int, 1 <= n, n <= DaysBeforeMonth(leap, 13)
  PROVE  \E m \in 1 .. 12 : DaysBeforeMonth(leap, m) < n /\ n <= DaysBeforeMonth(leap, m + 1)
<1> SUFFICES ASSUME \A m \in 1 .. 12 : ~ (DaysBeforeMonth(leap, m) < n /\ n <= DaysBeforeMonth(leap, m + 1))
             PROVE  FALSE
  OBVIOUS
<1>1. ~ (DaysBeforeMonth(leap, 1) < n /\ n <= DaysBeforeMonth(leap, 2))
  BY NextMonth
<1>2. ~ (DaysBeforeMonth(leap, 2) < n /\ n <= DaysBeforeMonth(leap, 3))
  BY NextMonth
<1>3. ~ (DaysBeforeMonth(leap, 3) < n /\ n <= DaysBeforeMonth(leap, 4))
  BY NextMonth
<1>4. ~ (DaysBeforeMonth(leap, 4) < n /\ n <= DaysBeforeMonth(leap, 5))
  BY NextMonth
<1>5. ~ (DaysBeforeMonth(leap, 5) < n /\ n <= DaysBeforeMonth(leap, 6))
  BY NextMonth
<1>6. ~ (DaysBeforeMonth(leap, 6) < n /\ n <= DaysBeforeMonth(leap, 7))
  BY NextMonth
<1>7. ~ (DaysBeforeMonth(leap, 7) < n /\ n <= DaysBeforeMonth(leap, 8))
  BY NextMonth
<1>8. ~ (DaysBeforeMonth(leap, 8) < n /\ n <= DaysBeforeMonth(leap, 9))
  BY NextMonth
<1>9. ~ (DaysBeforeMonth(leap, 9) < n /\ n <= DaysBeforeMonth(leap, 10))
  BY NextMonth
<1>10. ~ (DaysBeforeMonth(leap, 10) < n /\ n <= DaysBeforeMonth(leap, 11))
  BY NextMonth
<1>11. ~ (DaysBeforeMonth(leap, 11) < n /\ n <= DaysBeforeMonth(leap, 12))
  BY NextMonth
<1>12. ~ (DaysBeforeMonth(leap, 12) < n /\ n <= DaysBeforeMonth(leap, 13))
  BY NextMonth
<1> QED
  BY <1>1, <1>2, <1>3, <1>4, <1>5, <1>6, <1>7, <1>8, <1>9, <1>10, <1>11, <1>12, MonthDays

\* The years begin every 1461 days in the same way.
LEMMA FourYears ==
  ASSUME NEW k \in Int, NEW j \in 0 .. 4
  PROVE  DaysBeforeYear(1969 + 4 * k + j) = 1461 * k + 365 * (j - 1) + (IF j = 4 THEN 1 ELSE 0)
<1>1. PICK y \in Int : y = 1969 + 4 * k + j
  OBVIOUS
<1>2. CASE j = 4
  <2>1. y - 1 = 4 * (493 + k) + 0
    BY <1>1, <1>2
  <2>2. (y - 1) \div 4 = 493 + k
    BY <2>1, Division
  <2> QED
    BY <1>1, <1>2, <2>2 DEF DaysBeforeYear
<1>3. CASE j \in 0 .. 3
  <2>1. y - 1 = 4 * (492 + k) + j
    BY <1>1
  <2>2. (y - 1) \div 4 = 492 + k
    BY <1>3, <2>1, Division
  <2> QED
    BY <1>1, <1>3, <2>2 DEF DaysBeforeYear
<1> QED
  BY <1>2, <1>3

\* The days which 32 bits of seconds hold, and the day before.
KnownDays == {d \in Int : -1 <= d /\ d <= 49710}

\* Each of them lies in a year the conversion looks at.
LEMMA YearOf ==
  ASSUME NEW d \in KnownDays
  PROVE  \E y \in 1969 .. 2106 : /\ DaysBeforeYear(y) <= d /\ d < DaysBeforeYear(y + 1)
                                 /\ d >= 0 => y >= 1970
<1>0. d \in Int /\ -1 <= d /\ d <= 49710
  BY DEF KnownDays
<1>1. PICK k \in Int, r \in 0 .. 1460 : d + 365 = 1461 * k + r
  <2>1. PICK n \in Int, l \in Nat \ {0} : n = d + 365 /\ l = 1461
    BY <1>0
  <2>2. PICK k \in Int, r \in 0 .. l - 1 : k = n \div l /\ r = n % l /\ n = l * k + r
    BY Divides
  <2> QED
    BY <1>0, <2>1, <2>2
<1>2. PICK j \in 0 .. 3 : 365 * j <= r /\ r < 365 * (j + 1) + (IF j = 3 THEN 1 ELSE 0)
  <2>1. CASE r < 365
    BY <2>1
  <2>2. CASE 365 <= r /\ r < 730
    BY <2>2
  <2>3. CASE 730 <= r /\ r < 1095
    BY <2>3
  <2>4. CASE 1095 <= r
    BY <2>4
  <2> QED
    BY <2>1, <2>2, <2>3, <2>4
<1>3. PICK y \in Int : y = 1969 + 4 * k + j
  OBVIOUS
<1>4. DaysBeforeYear(y) = 1461 * k + 365 * (j - 1)
  <2>1. j \in 0 .. 4 /\ j # 4
    OBVIOUS
  <2> QED
    BY <1>3, <2>1, FourYears
<1>5. DaysBeforeYear(y + 1) = 1461 * k + 365 * j + (IF j = 3 THEN 1 ELSE 0)
  <2>1. PICK i \in 0 .. 4 : i = j + 1
    OBVIOUS
  <2>2. y + 1 = 1969 + 4 * k + i
    BY <1>3, <2>1
  <2> QED
    BY <2>1, <2>2, FourYears
<1>6. DaysBeforeYear(y) <= d /\ d < DaysBeforeYear(y + 1)
  BY <1>0, <1>1, <1>2, <1>4, <1>5
<1>7. y >= 1969 /\ y <= 2106 /\ (d >= 0 => y >= 1970)
  <2>1. k >= 0
    BY <1>0, <1>1
  <2>2. k <= 34 /\ (k = 34 => r < 730)
    BY <1>0, <1>1
  <2>3. k = 34 => j <= 1
    BY <1>2, <2>2
  <2>4. d >= 0 => k >= 1 \/ r >= 365
    BY <1>0, <1>1, <2>1
  <2>5. r >= 365 => j >= 1
    BY <1>2
  <2> QED
    BY <1>3, <2>1, <2>2, <2>3, <2>4, <2>5
<1> QED
  BY <1>6, <1>7

\* Every fourth year is a leap year.
LEMMA YearLength ==
  ASSUME NEW y \in Int
  PROVE  /\ DaysBeforeYear(y) \in Int
         /\ DaysBeforeYear(y + 1) = DaysBeforeYear(y) + DaysBeforeMonth(y % 4 = 0, 13)
         /\ (y \div 4 = (y - 1) \div 4 + (IF y % 4 = 0 THEN 1 ELSE 0))
<1>1. PICK k \in Int, r \in 0 .. 3 : y = 4 * k + r /\ k = y \div 4 /\ r = y % 4
  <2>1. PICK n \in Nat \ {0} : n = 4
    OBVIOUS
  <2>2. PICK k \in Int, r \in 0 .. n - 1 : y = n * k + r /\ k = y \div n /\ r = y % n
    BY Divides
  <2> QED
    BY <2>1, <2>2
<1>2. CASE r = 0
  <2>1. y - 1 = 4 * (k - 1) + 3 /\ y + 1 - 1 = 4 * k + 0
    BY <1>1, <1>2
  <2>2. (y - 1) \div 4 = k - 1 /\ (y + 1 - 1) \div 4 = k
    BY <2>1, Division
  <2>3. DaysBeforeMonth(y % 4 = 0, 13) = 366
    BY <1>1, <1>2 DEF DaysBeforeMonth, monthDays
  <2> QED
    BY <1>1, <1>2, <2>2, <2>3 DEF DaysBeforeYear
<1>3. CASE r # 0
  <2>1. PICK s \in 0 .. 3 : s = r - 1
    BY <1>3
  <2>2. y - 1 = 4 * k + s /\ y + 1 - 1 = 4 * k + r
    BY <1>1, <2>1
  <2>3. (y - 1) \div 4 = k /\ (y + 1 - 1) \div 4 = k
    BY <2>2, Division
  <2>4. DaysBeforeMonth(y % 4 = 0, 13) = 365
    BY <1>1, <1>3 DEF DaysBeforeMonth, monthDays
  <2> QED
    BY <1>1, <1>3, <2>3, <2>4 DEF DaysBeforeYear
<1> QED
  BY <1>2, <1>3

\* The years the RTC driver accepts are over with day 47481.
LEMMA LastYear ==
  /\ DayNumber(2100, 1, 1) = 47482
  /\ \A y \in Int : y <= 2099 => DaysBeforeYear(y + 1) <= 47482
  /\ \A y \in Int : y >= 2100 => DaysBeforeYear(y) >= 47482
<1>1. DayNumber(2100, 1, 1) = 47482
  <2>1. IsLeap(2100) \in BOOLEAN
    BY DEF IsLeap
  <2>2. DaysBeforeMonth(IsLeap(2100), 1) = 0
    BY <2>1, MonthDays
  <2>3. (2100 - 1) \div 4 = 524 /\ (2100 - 1) \div 100 = 20 /\ (2100 - 1) \div 400 = 5
    OBVIOUS
  <2> QED
    BY <2>2, <2>3 DEF DayNumber
<1>2. 1969 \div 4 = 492
  OBVIOUS
<1>3. ASSUME NEW y \in Int, y <= 2099
      PROVE  DaysBeforeYear(y + 1) <= 47482
  <2>1. PICK q \in Int : q = (y + 1 - 1) \div 4 /\ 4 * q <= y
    OBVIOUS
  <2>2. q <= 524
    BY <1>3, <2>1
  <2>3. DaysBeforeYear(y + 1) = 365 * (y + 1 - 1970) + (q - 492)
    BY <1>2, <2>1 DEF DaysBeforeYear
  <2> QED
    BY <1>3, <2>2, <2>3
<1>4. ASSUME NEW y \in Int, y >= 2100
      PROVE  DaysBeforeYear(y) >= 47482
  <2>1. PICK q \in Int : q = (y - 1) \div 4 /\ y - 1 <= 4 * q + 3
    OBVIOUS
  <2>2. q >= 524
    BY <1>4, <2>1
  <2>3. DaysBeforeYear(y) = 365 * (y - 1970) + (q - 492)
    BY <1>2, <2>1 DEF DaysBeforeYear
  <2> QED
    BY <1>4, <2>2, <2>3
<1> QED
  BY <1>1, <1>3, <1>4

-----------------------------------------------------------------------------
(* The RTC driver                                                           *)

\* The years in which 32 bits of seconds lie.
Years == {y \in Int : 1970 <= y /\ y <= 2106}

\* What the conversion to a date finds: the year, the month of it and the day of that.
LEMMA ToDatetime ==
  ASSUME NEW t \in [day : Days32, second : DaySeconds]
  PROVE  \E year \in Years, month \in 1 .. 12, n \in Nat :
           /\ RTC_ConvertSecondsToDatetime(t) =
                [year |-> year, month |-> month, day |-> n, second |-> t.second]
           /\ 1 <= n /\ n <= DaysPerMonth(year % 4 = 0)[month]
           /\ t.day + 1 = DaysBeforeYear(year) + DaysBeforeMonth(year % 4 = 0, month) + n
           /\ t.day < DaysBeforeYear(year + 1) /\ DaysBeforeYear(year) <= t.day
<1>1. t.day \in Int /\ 0 <= t.day /\ t.day <= 49710
  BY DEF Days32
<1> DEFINE days == t.day + 1
           year == CHOOSE y \in 1970 .. 2106 :
                     DaysBeforeYear(y) < days /\ days <= DaysBeforeYear(y + 1)
           left == days - DaysBeforeYear(year)
           before(m) == DaysBeforeMonth(year % 4 = 0, m)
           month == CHOOSE m \in 1 .. 12 : before(m) < left /\ left <= before(m + 1)
<1>2. year \in 1970 .. 2106 /\ DaysBeforeYear(year) < days /\ days <= DaysBeforeYear(year + 1)
  <2>1. PICK y \in 1969 .. 2106 : DaysBeforeYear(y) <= t.day /\ t.day < DaysBeforeYear(y + 1) /\ y >= 1970
    <3>1. PICK d \in KnownDays : d = t.day /\ d >= 0
      BY <1>1 DEF KnownDays
    <3>2. \E y \in 1969 .. 2106 : /\ DaysBeforeYear(y) <= d /\ d < DaysBeforeYear(y + 1)
                                  /\ d >= 0 => y >= 1970
      BY YearOf
    <3> QED
      BY <3>1, <3>2
  <2>2. DaysBeforeYear(y) \in Int /\ DaysBeforeYear(y + 1) \in Int
    BY YearLength
  <2>3. y \in 1970 .. 2106 /\ DaysBeforeYear(y) < days /\ days <= DaysBeforeYear(y + 1)
    BY <1>1, <2>1, <2>2
  <2>4. \E x \in 1970 .. 2106 : DaysBeforeYear(x) < days /\ days <= DaysBeforeYear(x + 1)
    BY <2>3
  <2> HIDE DEF days
  <2> QED
    BY <2>4
<1> HIDE DEF year
<1>3. PICK leap \in BOOLEAN : leap = (year % 4 = 0)
  OBVIOUS
<1>4. DaysBeforeYear(year) \in Int /\ DaysBeforeYear(year + 1) = DaysBeforeYear(year) + before(13)
      /\ before(13) \in Nat
  <2>1. DaysBeforeYear(year) \in Int /\ DaysBeforeYear(year + 1) = DaysBeforeYear(year) + before(13)
    BY <1>2, YearLength
  <2>2. DaysBeforeMonth(leap, 13) \in Nat
    BY MonthDays
  <2> QED
    BY <1>3, <2>1, <2>2
<1>5. left \in Int /\ 1 <= left /\ left <= before(13)
  BY <1>1, <1>2, <1>4
<1> HIDE DEF left
<1>6. month \in 1 .. 12 /\ before(month) < left /\ left <= before(month + 1)
  <2>1. PICK m \in 1 .. 12 : before(m) < left /\ left <= before(m + 1)
    BY <1>3, <1>5, MonthOf
  <2> QED
    BY <2>1
<1>7. RTC_ConvertSecondsToDatetime(t) =
        [year |-> year, month |-> month, day |-> left - before(month), second |-> t.second]
  BY DEF RTC_ConvertSecondsToDatetime, year, left
<1> HIDE DEF month
<1>8. before(month) \in Nat /\ before(month + 1) \in Nat
      /\ DaysPerMonth(year % 4 = 0)[month] = before(month + 1) - before(month)
  BY <1>3, <1>6, MonthLength
<1>9. PICK n \in Nat : n = left - before(month) /\ 1 <= n
  BY <1>5, <1>6, <1>8
<1>10. n <= DaysPerMonth(year % 4 = 0)[month]
  BY <1>5, <1>6, <1>8, <1>9
<1>11. t.day + 1 = DaysBeforeYear(year) + before(month) + n
  BY <1>1, <1>4, <1>8, <1>9 DEF left
<1>12. t.day < DaysBeforeYear(year + 1) /\ DaysBeforeYear(year) <= t.day
  BY <1>1, <1>2, <1>4
<1>13. year \in Years
  BY <1>2 DEF Years
<1>14. month \in 1 .. 12
  BY <1>6
<1> WITNESS year \in Years, month \in 1 .. 12, n \in Nat
<1> QED
  BY <1>7, <1>9, <1>10, <1>11, <1>12

\* The check accepts just the years from 1970 to 2099, of which every fourth is a leap
\* year, and the conversion back undoes the conversion.
LEMMA ThereAndBack ==
  ASSUME NEW t \in [day : Days32, second : DaySeconds]
  PROVE  LET date == RTC_ConvertSecondsToDatetime(t)
         IN /\ RTC_CheckDatetimeFormat(date) <=> t.day < 47482
            /\ RTC_ConvertDatetimeToSeconds(date) = t
<1>1. PICK d \in Int, s \in DaySeconds : t = [day |-> d, second |-> s] /\ 0 <= d
  BY DEF Days32
<1>2. PICK year \in Years, month \in 1 .. 12, n \in Nat :
        /\ RTC_ConvertSecondsToDatetime(t) =
             [year |-> year, month |-> month, day |-> n, second |-> t.second]
        /\ 1 <= n /\ n <= DaysPerMonth(year % 4 = 0)[month]
        /\ t.day + 1 = DaysBeforeYear(year) + DaysBeforeMonth(year % 4 = 0, month) + n
        /\ t.day < DaysBeforeYear(year + 1) /\ DaysBeforeYear(year) <= t.day
  BY ToDatetime
<1>y. year \in Int /\ 1970 <= year /\ year <= 2106
  BY DEF Years
<1> DEFINE date == [year |-> year, month |-> month, day |-> n, second |-> s]
<1>3. RTC_ConvertSecondsToDatetime(t) = date
  BY <1>1, <1>2
<1>4. DaysBeforeYear(year) \in Int /\ DaysBeforeYear(year + 1) \in Int
      /\ (year \div 4 = (year - 1) \div 4 + (IF year % 4 = 0 THEN 1 ELSE 0))
  BY <1>y, YearLength
<1>5. d < 47482 <=> year <= 2099
  <2>1. CASE year <= 2099
    <3>1. DaysBeforeYear(year + 1) <= 47482
      BY <1>y, <2>1, LastYear
    <3>2. d < DaysBeforeYear(year + 1)
      BY <1>1, <1>2
    <3> QED
      BY <1>4, <2>1, <3>1, <3>2
  <2>2. CASE ~ (year <= 2099)
    <3>1. DaysBeforeYear(year) >= 47482
      BY <1>y, <2>2, LastYear
    <3>2. DaysBeforeYear(year) <= d
      BY <1>1, <1>2
    <3> QED
      BY <1>4, <2>2, <3>1, <3>2
  <2> QED
    BY <2>1, <2>2
<1>6. RTC_CheckDatetimeFormat(date) <=> d < 47482
  <2> DEFINE leap == (year % 4 = 0 /\ year % 100 # 0) \/ year % 400 = 0
  <2>1. s \in Int /\ 0 <= s /\ s < 86400
    BY DEF DaySeconds
  <2>2. RTC_CheckDatetimeFormat(date) <=> year \in 1970 .. 2099 /\ n \in 1 .. DaysPerMonth(leap)[month]
    BY <1>y, <2>1 DEF RTC_CheckDatetimeFormat
  <2>3. year <= 2099 => (leap <=> year % 4 = 0)
    <3>1. ASSUME year % 100 = 0, year <= 2099 PROVE year = 2000
      BY <1>y, <3>1
    <3>2. 2000 % 400 = 0 /\ 2000 % 4 = 0
      OBVIOUS
    <3>3. ASSUME year % 400 = 0, year <= 2099 PROVE year = 2000
      BY <1>y, <3>3
    <3> QED
      BY <3>1, <3>2, <3>3
  <2>4. year <= 2099 => DaysPerMonth(leap) = DaysPerMonth(year % 4 = 0)
    <3> HIDE DEF leap
    <3> QED
      BY <2>3 DEF DaysPerMonth
  <2>5. DaysPerMonth(year % 4 = 0)[month] \in Nat
    <3>1. PICK l \in BOOLEAN : l = (year % 4 = 0)
      OBVIOUS
    <3> QED
      BY <3>1, MonthLength
  <2> HIDE DEF leap
  <2>6. n \in 1 .. DaysPerMonth(year % 4 = 0)[month]
    BY <1>2, <2>5
  <2> QED
    BY <1>5, <1>y, <2>2, <2>4, <2>6
<1>7. RTC_ConvertDatetimeToSeconds(date) = t
  <2>1. 1970 \div 4 = 492 /\ 1969 \div 4 = 492
    OBVIOUS
  <2>0. \A x \in Int : x \div 4 \in Int
    OBVIOUS
  <2>2. PICK p \in Int, q \in Int, a \in Int, b \in Int :
          /\ p = (year - 1) \div 4 /\ q = year \div 4
          /\ a = monthDays[month] /\ b = DaysBeforeMonth(year % 4 = 0, month)
          /\ b = a + (IF year % 4 = 0 /\ month > 2 THEN 1 ELSE 0)
    <3>1. PICK l \in BOOLEAN : l = (year % 4 = 0)
      OBVIOUS
    <3>2. /\ monthDays[month] \in Nat
          /\ DaysBeforeMonth(l, month) = monthDays[month] + (IF l /\ month > 2 THEN 1 ELSE 0)
      BY LeapDay
    <3>3. PICK a \in Int, b \in Int :
            a = monthDays[month] /\ b = DaysBeforeMonth(l, month)
            /\ b = a + (IF l /\ month > 2 THEN 1 ELSE 0)
      BY <3>2
    <3>4. PICK p \in Int, q \in Int : p = (year - 1) \div 4 /\ q = year \div 4
      BY <1>y
    <3> QED
      BY <3>1, <3>3, <3>4
  <2>3. q = p + (IF year % 4 = 0 THEN 1 ELSE 0)
    BY <1>4, <2>2
  <2>4. d + 1 = 365 * (year - 1970) + (p - 492) + b + n
    BY <1>1, <1>2, <1>y, <2>1, <2>2 DEF DaysBeforeYear
  <2>5. (year - 1970) * 365 + (q - 492) + a + (n - 1)
          - (IF year % 4 = 0 /\ month <= 2 THEN 1 ELSE 0) = d
    <3>1. CASE year % 4 = 0
      BY <1>y, <2>2, <2>3, <2>4, <3>1
    <3>2. CASE year % 4 # 0
      BY <1>y, <2>2, <2>3, <2>4, <3>2
    <3> QED
      BY <3>1, <3>2
  <2>6. RTC_ConvertDatetimeToSeconds(date) = Instant(d, s)
    BY <2>1, <2>2, <2>5 DEF RTC_ConvertDatetimeToSeconds
  <2>7. Instant(d, s) = [day |-> d, second |-> s]
    BY InstantIs
  <2> QED
    BY <1>1, <2>6, <2>7
<1> QED
  BY <1>1, <1>3, <1>6, <1>7

\* The answers of time servers lie between 1900 and 2172.
AnswersInReach ==
  /\ FirstAnswers \subseteq Instants
  /\ \A t \in Instants : Later(t) \subseteq Instants

\* The times the RTC may hold.
RtcTimes == [day : {d \in Int : 0 <= d /\ d < 47482}, second : DaySeconds]

\* The RTC holds one of its times: the last answer if that is one of them.
RtcInv ==
  /\ server = NoAnswer \/ server \in Instants
  /\ rtc \in RtcTimes
  /\ server # NoAnswer /\ server \in RtcTimes => rtc = server

\* At first the RTC holds the beginning of 1970.
LEMMA InitRtcInv == CalendarInit => RtcInv
<1> SUFFICES ASSUME CalendarInit PROVE RtcInv
  OBVIOUS
<1>1. 0 \in DaySeconds
  BY DEF DaySeconds
<1>2. Instant(0, 0) = [day |-> 0, second |-> 0]
  BY <1>1, InstantIs
<1>3. rtc \in RtcTimes
  BY <1>1, <1>2 DEF CalendarInit, RtcTimes
<1> QED
  BY <1>3 DEF CalendarInit, RtcInv

\* An answer sets the RTC, or is refused as a date of other years.
LEMMA StepRtcInv == ASSUME AnswersInReach PROVE RtcInv /\ [CalendarNext]_calendarVars => RtcInv'
<1> SUFFICES ASSUME RtcInv, [CalendarNext]_calendarVars PROVE RtcInv'
  OBVIOUS
<1>1. CASE CalendarNext
  <2>1. PICK t \in Instants : sntp_process(t)
    BY <1>1 DEF CalendarNext, AnswersInReach, RtcInv
  <2>2. PICK u \in [day : Days32, second : DaySeconds] :
          u = internet_time(xmit(t)) /\ (0 <= t.day /\ t.day < 49710 => u = t)
    BY ThroughU32
  <2> DEFINE date == RTC_ConvertSecondsToDatetime(u)
  <2>3. /\ RTC_CheckDatetimeFormat(date) <=> u.day < 47482
        /\ RTC_ConvertDatetimeToSeconds(date) = u
    BY ThereAndBack
  <2>4. server' = t /\ rtc' = IF u.day < 47482 THEN u ELSE rtc
    BY <2>1, <2>2, <2>3 DEF sntp_process
  <2>5. u.day < 47482 => u \in RtcTimes
    BY <2>2 DEF RtcTimes, Days32
  <2>6. t \in RtcTimes => u = t /\ u.day < 47482
    BY <2>2 DEF RtcTimes
  <2> QED
    BY <2>4, <2>5, <2>6 DEF RtcInv
<1>2. CASE UNCHANGED calendarVars
  BY <1>2 DEF calendarVars, RtcInv
<1> QED
  BY <1>1, <1>2

\* An answer of a time server reaches the RTC unchanged if it lies in the years the
\* driver accepts, before and after the 32 bits of NTP fold in 2036, and whatever else
\* the server says the RTC keeps a time of these years.
THEOREM SetsTheRtc ==
  ASSUME AnswersInReach
  PROVE  CalendarSpec => []RtcHoldsServerTime
<1>1. RtcInv => RtcHoldsServerTime
  <2> SUFFICES ASSUME RtcInv, server # NoAnswer
               PROVE  IF server.day \in 0 .. DayNumber(2100, 1, 1) - 1
                      THEN rtc = server
                      ELSE rtc.day \in 0 .. DayNumber(2100, 1, 1) - 1
    BY DEF RtcHoldsServerTime
  <2>1. PICK n \in Nat : n = DayNumber(2100, 1, 1) - 1 /\ \A d \in Int : d <= n <=> d < 47482
    BY LastYear
  <2>2. server \in Instants /\ (server \in RtcTimes => rtc = server) /\ rtc \in RtcTimes
    BY DEF RtcInv
  <2>3. server.day \in 0 .. n => server \in RtcTimes
    BY <2>1, <2>2 DEF Instants, RtcTimes
  <2>4. rtc.day \in 0 .. n
    BY <2>1, <2>2 DEF RtcTimes
  <2> QED
    BY <2>1, <2>2, <2>3, <2>4
<1> QED
  BY <1>1, InitRtcInv, StepRtcInv, PTL DEF CalendarSpec

-----------------------------------------------------------------------------
(* Local time                                                               *)

\* A remainder may be taken before or after adding.
LEMMA Carry ==
  ASSUME NEW n \in Nat \ {0}, NEW s \in Int, NEW h \in Int
  PROVE  /\ h \div n + (s + (h % n)) \div n = (s + h) \div n
         /\ (s + (h % n)) % n = (s + h) % n
<1>1. PICK q \in Int, r \in 0 .. n - 1 : q = h \div n /\ r = h % n /\ h = n * q + r
  BY Divides
<1>2. PICK a \in Int : a = s + r
  OBVIOUS
<1>3. PICK p \in Int, w \in 0 .. n - 1 : p = a \div n /\ w = a % n /\ a = n * p + w
  BY Divides
<1>4. PICK b \in Int : b = s + h
  OBVIOUS
<1>5. b = n * (q + p) + w
  <2>1. n * (q + p) = n * q + n * p
    OBVIOUS
  <2>2. PICK x, y \in Int : x = n * q /\ y = n * p
    OBVIOUS
  <2> QED
    BY <1>1, <1>2, <1>3, <1>4, <2>1, <2>2
<1>6. b \div n = q + p /\ b % n = w
  <2>1. PICK z \in Int : z = q + p
    OBVIOUS
  <2> QED
    BY <1>5, <2>1, Division
<1>7. s + (h % n) = a
  <2>1. h % n = r
    BY <1>1
  <2> QED
    BY <1>2, <2>1
<1>8. h \div n + a \div n = q + p
  BY <1>1, <1>3, Zenon
<1> QED
  BY <1>3, <1>4, <1>6, <1>7, <1>8, Zenon

\* Hours are added to the seconds.
LEMMA SumHours ==
  ASSUME NEW d \in Int, NEW s \in Int, NEW k \in Int
  PROVE  Sum(Instant(d, s), Hours(k)) = Instant(d, s + 3600 * k)
<1>1. PICK n \in Nat \ {0} : n = 86400
  OBVIOUS
<1>2. PICK h \in Int : h = 3600 * k
  OBVIOUS
<1>3. \A e, x \in Int : Instant(e, x) = [day |-> e + x \div n, second |-> x % n]
  BY <1>1 DEF Instant
<1> HIDE <1>1
<1>4. \A x \in Int : \E y \in Int, b \in Int : y = x \div n /\ b = x % n
  OBVIOUS
<1>q. PICK q \in Int, r \in Int : q = s \div n /\ r = s % n
  BY <1>4
<1>p. PICK p \in Int, v \in Int : p = h \div n /\ v = h % n
  BY <1>4
<1>a. PICK x \in Int, a \in Int, w \in Int : x = r + v /\ a = x \div n /\ w = x % n
  BY <1>4
<1>c. PICK y \in Int, c \in Int, z \in Int : y = s + h /\ c = y \div n /\ z = y % n
  BY <1>4
<1>5. p + q + a = c /\ w = z
  <2>1. p + (r + (h % n)) \div n = (r + h) \div n /\ (r + (h % n)) % n = (r + h) % n
    <3>1. h \div n + (r + (h % n)) \div n = (r + h) \div n /\ (r + (h % n)) % n = (r + h) % n
      BY Carry
    <3> QED
      BY <1>p, <3>1, Zenon
  <2>2. q + (h + (s % n)) \div n = (h + s) \div n /\ (h + (s % n)) % n = (h + s) % n
    <3>1. s \div n + (h + (s % n)) \div n = (h + s) \div n /\ (h + (s % n)) % n = (h + s) % n
      BY Carry
    <3> QED
      BY <1>q, <3>1, Zenon
  <2>3. h + r = r + h /\ h + s = s + h
    OBVIOUS
  <2>4. PICK b \in Int, e \in Int : b = (r + h) \div n /\ e = (r + h) % n
    BY <1>4
  <2>5. p + a = b /\ w = e
    BY <1>p, <1>a, <2>1, <2>4
  <2>6. q + b = c /\ e = z
    BY <1>q, <1>c, <2>2, <2>3, <2>4
  <2> QED
    BY <2>5, <2>6
<1>6. Sum(Instant(d, s), Hours(k)) = [day |-> d + q + (0 + p) + a, second |-> w]
  <2>1. Instant(d, s) = [day |-> d + q, second |-> r]
    BY <1>3, <1>q
  <2>2. Hours(k) = Instant(0, h)
    BY <1>2 DEF Hours
  <2>3. PICK o \in Int : o = 0
    OBVIOUS
  <2>4. Instant(o, h) = [day |-> o + p, second |-> v]
    BY <1>3, <1>p
  <2>5. Hours(k) = [day |-> o + p, second |-> v]
    BY <2>2, <2>3, <2>4
  <2>6. PICK e \in Int : e = d + q + (o + p)
    OBVIOUS
  <2>7. Sum(Instant(d, s), Hours(k)) = Instant(e, x)
    BY <1>a, <2>1, <2>5, <2>6 DEF Sum
  <2>8. Instant(e, x) = [day |-> e + a, second |-> w]
    BY <1>3, <1>a
  <2> QED
    BY <2>3, <2>6, <2>7, <2>8
<1>7. d + q + (0 + p) + a = d + c
  BY <1>5
<1>8. Instant(d, s + 3600 * k) = [day |-> d + c, second |-> z]
  <2>1. s + 3600 * k = y
    BY <1>2, <1>c
  <2>2. Instant(d, y) = [day |-> d + c, second |-> z]
    BY <1>3, <1>c
  <2> QED
    BY <2>1, <2>2
<1> QED
  BY <1>5, <1>6, <1>7, <1>8

\* The years around those of the RTC, and their days.
GregorianYears == {y \in Int : 1968 <= y /\ y <= 2100}

GregorianDays == {d \in Int : -1 <= d /\ d <= 47483}

\* In these years the Gregorian calendar has every leap year but the last.
LEMMA Gregorian ==
  ASSUME NEW y \in GregorianYears
  PROVE  /\ DayNumber(y, 1, 1) = DaysBeforeYear(y) /\ DaysBeforeYear(y) \in Int
         /\ IsLeap(y) \in BOOLEAN
         /\ \A m \in 1 .. 13, n \in Int :
              DayNumber(y, m, n) = DayNumber(y, 1, 1) + DaysBeforeMonth(IsLeap(y), m) + n - 1
         /\ DayNumber(y + 1, 1, 1) = DayNumber(y, 1, 1) + DaysBeforeMonth(IsLeap(y), 13)
<1>1. y \in Int /\ 1968 <= y /\ y <= 2100
  BY DEF GregorianYears
<1>2. \A x \in Int : IsLeap(x) \in BOOLEAN
  BY DEF IsLeap
<1>3. ASSUME NEW x \in Int, 1968 <= x, x <= 2100
      PROVE  DayNumber(x, 1, 1) = DaysBeforeYear(x) /\ DaysBeforeYear(x) \in Int
  <2>1. ((x - 1) \div 100 - 19) = ((x - 1) \div 400 - 4)
    <3>1. CASE x <= 2000
      <4>1. (x - 1) \div 100 = 19 /\ (x - 1) \div 400 = 4
        BY <1>3, <3>1
      <4> QED
        BY <4>1
    <3>2. CASE ~ (x <= 2000)
      <4>1. (x - 1) \div 100 = 20 /\ (x - 1) \div 400 = 5
        BY <1>3, <3>2
      <4> QED
        BY <4>1
    <3> QED
      BY <3>1, <3>2
  <2>2. PICK a \in Int, b \in Int, c \in Int :
          a = (x - 1) \div 100 /\ b = (x - 1) \div 400 /\ c = (x - 1) \div 4
    OBVIOUS
  <2>3. DaysBeforeMonth(IsLeap(x), 1) = 0
    BY <1>2, MonthDays
  <2>4. 1969 \div 4 = 492
    OBVIOUS
  <2>5. DayNumber(x, 1, 1) = 365 * (x - 1970) + (c - 492) - (a - 19) + (b - 4) + 0 + 1 - 1
    BY <2>2, <2>3 DEF DayNumber
  <2>6. DaysBeforeYear(x) = 365 * (x - 1970) + (c - 492)
    BY <2>2, <2>4 DEF DaysBeforeYear
  <2> QED
    BY <2>1, <2>2, <2>5, <2>6
<1>4. \A m \in 1 .. 13, n \in Int :
        DayNumber(y, m, n) = DayNumber(y, 1, 1) + DaysBeforeMonth(IsLeap(y), m) + n - 1
  <2>1. PICK j \in Int :
          j = 365 * (y - 1970) + ((y - 1) \div 4 - 492) - ((y - 1) \div 100 - 19)
                + ((y - 1) \div 400 - 4)
    BY <1>1
  <2>2. \A m, n : DayNumber(y, m, n) = j + DaysBeforeMonth(IsLeap(y), m) + n - 1
    BY <2>1 DEF DayNumber
  <2>3. DaysBeforeMonth(IsLeap(y), 1) = 0
    BY <1>1, <1>2, MonthDays
  <2>4. DayNumber(y, 1, 1) = j + 0 + 1 - 1
    BY <2>2, <2>3
  <2> QED
    BY <2>2, <2>4
<1>5. DayNumber(y + 1, 1, 1) = DayNumber(y, 1, 1) + DaysBeforeMonth(IsLeap(y), 13)
  <2>1. CASE y <= 2099
    <3>1. IsLeap(y) <=> y % 4 = 0
      <4>1. y % 100 = 0 => y = 2000
        BY <1>1, <2>1
      <4>2. y % 400 = 0 => y = 2000
        BY <1>1, <2>1
      <4>3. 2000 % 400 = 0 /\ 2000 % 4 = 0
        OBVIOUS
      <4> QED
        BY <4>1, <4>2, <4>3 DEF IsLeap
    <3>2. IsLeap(y) = (y % 4 = 0)
      BY <1>1, <1>2, <3>1
    <3>3. DaysBeforeYear(y + 1) = DaysBeforeYear(y) + DaysBeforeMonth(y % 4 = 0, 13)
      BY <1>1, YearLength
    <3>4. DayNumber(y, 1, 1) = DaysBeforeYear(y)
      BY <1>1, <1>3
    <3>5. DayNumber(y + 1, 1, 1) = DaysBeforeYear(y + 1)
      <4>1. PICK x \in Int : x = y + 1
        BY <1>1
      <4>2. DayNumber(x, 1, 1) = DaysBeforeYear(x)
        BY <1>1, <1>3, <2>1, <4>1
      <4> QED
        BY <4>1, <4>2
    <3> QED
      BY <3>2, <3>3, <3>4, <3>5
  <2>2. CASE ~ (y <= 2099)
    <3>1. y = 2100
      BY <1>1, <2>2
    <3>2. ~ IsLeap(2100) /\ IsLeap(2101) \in BOOLEAN
      BY DEF IsLeap
    <3>3. DaysBeforeMonth(IsLeap(2100), 13) = 365
      BY <1>2, <3>2, MonthDays
    <3>4. DaysBeforeMonth(IsLeap(2101), 1) = 0
      BY <3>2, MonthDays
    <3>5. (2101 - 1) \div 4 = 525 /\ (2101 - 1) \div 100 = 21 /\ (2101 - 1) \div 400 = 5
      OBVIOUS
    <3>6. DayNumber(2101, 1, 1) = 47847
      BY <3>4, <3>5 DEF DayNumber
    <3>7. y + 1 = 2101
      BY <3>1
    <3> QED
      BY <3>1, <3>3, <3>6, <3>7, LastYear
  <2> QED
    BY <2>1, <2>2
<1>6. DayNumber(y, 1, 1) = DaysBeforeYear(y) /\ DaysBeforeYear(y) \in Int /\ IsLeap(y) \in BOOLEAN
  BY <1>1, <1>2, <1>3
<1> QED
  BY <1>4, <1>5, <1>6, Zenon

\* The year of a day is one of the three at which gmtime looks.
LEMMA YearNear ==
  ASSUME NEW d \in GregorianDays
  PROVE  \E y \in (1970 + d \div 366) - 1 .. (1970 + d \div 366) + 1 :
           DayNumber(y, 1, 1) <= d /\ d < DayNumber(y + 1, 1, 1)
<1>1. d \in Int /\ -1 <= d /\ d <= 47483
  BY DEF GregorianDays
<1>2. PICK y \in Int : DaysBeforeYear(y) <= d /\ d < DaysBeforeYear(y + 1) /\ 1969 <= y
  <2>1. PICK e \in KnownDays : e = d
    BY <1>1 DEF KnownDays
  <2>2. \E y \in 1969 .. 2106 : DaysBeforeYear(y) <= e /\ e < DaysBeforeYear(y + 1)
    BY YearOf
  <2> QED
    BY <2>1, <2>2
<1>3. PICK l \in Int, m \in Int, g \in Int :
        /\ l = (y - 1) \div 4 /\ 4 * l <= y - 1 /\ y - 1 <= 4 * l + 3
        /\ m = y \div 4 /\ 4 * m <= y /\ y <= 4 * m + 3
        /\ g = d \div 366 /\ 366 * g <= d /\ d <= 366 * g + 365
  BY <1>1
<1>4. /\ DaysBeforeYear(y) = 365 * (y - 1970) + (l - 492)
      /\ DaysBeforeYear(y + 1) = 365 * (y - 1969) + (m - 492)
  <2>1. 1969 \div 4 = 492
    OBVIOUS
  <2>2. (y + 1 - 1) \div 4 = m
    BY <1>3
  <2>3. 365 * (y + 1 - 1970) = 365 * (y - 1969)
    OBVIOUS
  <2> QED
    BY <1>3, <2>1, <2>2, <2>3 DEF DaysBeforeYear
<1>5. y <= 2100
  BY <1>1, <1>2, <1>3, <1>4
<1>6. (1970 + g) - 1 <= y /\ y <= (1970 + g) + 1
  BY <1>1, <1>2, <1>3, <1>4, <1>5
<1>7. y \in GregorianYears
  BY <1>2, <1>5 DEF GregorianYears
<1>8. DayNumber(y, 1, 1) <= d
  BY <1>2, <1>7, Gregorian
<1>9. d < DayNumber(y + 1, 1, 1)
  <2>1. CASE y <= 2099
    <3>1. PICK x \in GregorianYears : x = y + 1
      BY <1>2, <2>1 DEF GregorianYears
    <3>2. DayNumber(x, 1, 1) = DaysBeforeYear(x)
      BY Gregorian
    <3> QED
      BY <1>2, <3>1, <3>2
  <2>2. CASE ~ (y <= 2099)
    <3>1. y = 2100
      BY <1>5, <2>2
    <3>2. IsLeap(y) \in BOOLEAN /\ DayNumber(y + 1, 1, 1) = DayNumber(y, 1, 1) + DaysBeforeMonth(IsLeap(y), 13)
      BY <1>7, Gregorian
    <3>3. PICK n \in Int : n = DaysBeforeMonth(IsLeap(y), 13) /\ n >= 365
      BY <3>2, MonthDays
    <3> QED
      BY <1>1, <3>1, <3>2, <3>3, LastYear
  <2> QED
    BY <2>1, <2>2
<1> QED
  BY <1>3, <1>6, <1>8, <1>9

\* The date which gmtime finds.
LEMMA GmtimeIs ==
  ASSUME NEW d \in GregorianDays, NEW s \in DaySeconds
  PROVE  \E year \in GregorianYears, month \in 1 .. 12, n \in Int :
           /\ gmtime([day |-> d, second |-> s]) =
                [year |-> year, month |-> month, day |-> n, second |-> s, wday |-> (d + 4) % 7]
           /\ d = DayNumber(year, 1, 1) + DaysBeforeMonth(IsLeap(year), month) + n - 1
           /\ 1 <= n /\ DaysBeforeMonth(IsLeap(year), month) + n <= DaysBeforeMonth(IsLeap(year), month + 1)
<1>1. d \in Int /\ -1 <= d /\ d <= 47483
  BY DEF GregorianDays
<1> DEFINE guess == 1970 + d \div 366
           year == CHOOSE y \in guess - 1 .. guess + 1 :
                     DayNumber(y, 1, 1) <= d /\ d < DayNumber(y + 1, 1, 1)
           month == CHOOSE m \in 1 .. 12 :
                      DayNumber(year, m, 1) <= d /\ d < DayNumber(year, m + 1, 1)
           n == d - DayNumber(year, month, 1) + 1
<1>2. /\ year \in guess - 1 .. guess + 1
      /\ DayNumber(year, 1, 1) <= d /\ d < DayNumber(year + 1, 1, 1)
  BY YearNear
<1>3. gmtime([day |-> d, second |-> s]) =
        [year |-> year, month |-> month, day |-> n, second |-> s, wday |-> (d + 4) % 7]
  BY DEF gmtime
<1> HIDE DEF year
<1>4. year \in GregorianYears
  <2>1. PICK g \in Int : g = d \div 366 /\ 366 * g <= d /\ d <= 366 * g + 365
    BY <1>1
  <2>2. -1 <= g /\ g <= 129
    BY <1>1, <2>1
  <2>3. year \in g + 1969 .. g + 1971
    BY <1>2, <2>1
  <2> QED
    BY <2>2, <2>3 DEF GregorianYears
<1>5. PICK leap \in BOOLEAN, j \in Int : leap = IsLeap(year) /\ j = DayNumber(year, 1, 1)
  BY <1>4, Gregorian
<1>6. \A m \in 1 .. 13, i \in Int : DayNumber(year, m, i) = j + DaysBeforeMonth(leap, m) + i - 1
  BY <1>4, <1>5, Gregorian, Zenon
<1>7. PICK k \in Int : k = d - j + 1 /\ 1 <= k /\ k <= DaysBeforeMonth(leap, 13)
  <2>1. DayNumber(year + 1, 1, 1) = j + DaysBeforeMonth(leap, 13)
    BY <1>4, <1>5, Gregorian
  <2>2. DaysBeforeMonth(leap, 13) \in Int
    BY MonthDays
  <2> QED
    BY <1>1, <1>2, <1>5, <2>1, <2>2
<1>8. \A m \in 1 .. 12 :
        /\ DaysBeforeMonth(leap, m) \in Int /\ DaysBeforeMonth(leap, m + 1) \in Int
        /\ DayNumber(year, m, 1) = j + DaysBeforeMonth(leap, m)
        /\ DayNumber(year, m + 1, 1) = j + DaysBeforeMonth(leap, m + 1)
  <2> TAKE m \in 1 .. 12
  <2>1. DaysBeforeMonth(leap, m) \in Int /\ DaysBeforeMonth(leap, m + 1) \in Int
    BY MonthLength
  <2>2. PICK o \in 1 .. 13 : o = m + 1
    OBVIOUS
  <2>3. DayNumber(year, m, 1) = j + DaysBeforeMonth(leap, m) + 1 - 1
    BY <1>6
  <2>4. DayNumber(year, o, 1) = j + DaysBeforeMonth(leap, o) + 1 - 1
    BY <1>6
  <2> QED
    BY <2>1, <2>2, <2>3, <2>4
<1>9. month \in 1 .. 12 /\ DayNumber(year, month, 1) <= d /\ d < DayNumber(year, month + 1, 1)
  <2>1. PICK m \in 1 .. 12 : DaysBeforeMonth(leap, m) < k /\ k <= DaysBeforeMonth(leap, m + 1)
    BY <1>7, MonthOf
  <2>2. DayNumber(year, m, 1) <= d /\ d < DayNumber(year, m + 1, 1)
    BY <1>1, <1>7, <1>8, <2>1
  <2> QED
    BY <2>2
<1> HIDE DEF month
<1>10. PICK a \in Int, b \in Int :
         /\ a = DaysBeforeMonth(leap, month) /\ b = DaysBeforeMonth(leap, month + 1)
         /\ DayNumber(year, month, 1) = j + a /\ DayNumber(year, month + 1, 1) = j + b
  BY <1>8, <1>9
<1>11. n \in Int /\ d = j + a + n - 1 /\ 1 <= n /\ a + n <= b
  BY <1>1, <1>9, <1>10
<1> HIDE DEF n
<1>12. month \in 1 .. 12
  BY <1>9
<1>13. n \in Int
  BY <1>11
<1> WITNESS year \in GregorianYears, month \in 1 .. 12, n \in Int
<1> QED
  BY <1>3, <1>5, <1>10, <1>11

\* Where the days of a month lie in their year, counted from the first of March on.
LEMMA DayInYear ==
  ASSUME NEW leap \in BOOLEAN, NEW m \in 1 .. 12, NEW n \in Int,
         1 <= n, DaysBeforeMonth(leap, m) + n <= DaysBeforeMonth(leap, m + 1)
  PROVE  \E f \in Int, k \in Int :
           /\ f = DaysBeforeMonth(leap, 3) /\ DaysBeforeMonth(leap, 11) = f + 245
           /\ k = DaysBeforeMonth(leap, m) + n
           /\ m < 3 => k <= f
           /\ m = 3 => k = f + n
           /\ 3 < m /\ m < 11 => f + 31 < k /\ k <= f + 245
           /\ m = 11 => k = f + 245 + n
           /\ 11 < m => f + 275 < k
<1>1. PICK f \in Int : f = DaysBeforeMonth(leap, 3) /\ DaysBeforeMonth(leap, 11) = f + 245
  BY MonthDays
<1>2. /\ DaysBeforeMonth(leap, 1) = 0 /\ DaysBeforeMonth(leap, 2) = 31
      /\ f >= 59 /\ DaysBeforeMonth(leap, 4) = f + 31 /\ DaysBeforeMonth(leap, 5) = f + 61
      /\ DaysBeforeMonth(leap, 6) = f + 92 /\ DaysBeforeMonth(leap, 7) = f + 122
      /\ DaysBeforeMonth(leap, 8) = f + 153 /\ DaysBeforeMonth(leap, 9) = f + 184
      /\ DaysBeforeMonth(leap, 10) = f + 214 /\ DaysBeforeMonth(leap, 12) = f + 275
  BY <1>1, MonthDays
<1>3. PICK a \in Int, b \in Int, k \in Int :
        a = DaysBeforeMonth(leap, m) /\ b = DaysBeforeMonth(leap, m + 1) /\ k = a + n
        /\ a < k /\ k <= b
  BY MonthLength
<1>4. m < 3 => k <= f
  <2>1. CASE m = 1
    BY <1>2, <1>3, <2>1, NextMonth
  <2>2. CASE m = 2
    BY <1>1, <1>3, <2>2, NextMonth
  <2> QED
    BY <2>1, <2>2
<1>5. m = 3 => k = f + n
  BY <1>1, <1>3
<1>6. 3 < m /\ m < 11 => f + 31 < k /\ k <= f + 245
  <2>1. CASE m = 4
    BY <1>2, <1>3, <2>1, NextMonth
  <2>2. CASE m = 5
    BY <1>2, <1>3, <2>2, NextMonth
  <2>3. CASE m = 6
    BY <1>2, <1>3, <2>3, NextMonth
  <2>4. CASE m = 7
    BY <1>2, <1>3, <2>4, NextMonth
  <2>5. CASE m = 8
    BY <1>2, <1>3, <2>5, NextMonth
  <2>6. CASE m = 9
    BY <1>2, <1>3, <2>6, NextMonth
  <2>7. CASE m = 10
    BY <1>1, <1>2, <1>3, <2>7, NextMonth
  <2> QED
    BY <2>1, <2>2, <2>3, <2>4, <2>5, <2>6, <2>7
<1>7. m = 11 => k = f + 245 + n
  BY <1>1, <1>3
<1>8. 11 < m => f + 275 < k
  <2>1. 11 < m => m = 12
    OBVIOUS
  <2> QED
    BY <1>2, <1>3, <2>1
<1> QED
  BY <1>1, <1>3, <1>4, <1>5, <1>6, <1>7, <1>8

\* Every seven days in a row hold a Sunday.
LEMMA SundayIs ==
  ASSUME NEW i \in 1 .. 2, NEW m \in 1 .. 12, NEW year \in GregorianYears,
         NEW j \in {x \in Int : \A o \in Int : DayNumber(year, m, o) = x + o}
  PROVE  \E w \in Int : /\ Sunday(i, m, year) = 7 * w - 4
                        /\ j + 7 * i - 6 <= 7 * w - 4 /\ 7 * w - 4 <= j + 7 * i
<1>1. DayNumber(year, m, 7 * i - 6) = j + (7 * i - 6) /\ DayNumber(year, m, 7 * i) = j + 7 * i
  OBVIOUS
<1>2. PICK a \in Int, b \in Int : a = j + (7 * i - 6) /\ b = j + 7 * i /\ b = a + 6
  OBVIOUS
<1>3. Sunday(i, m, year) = CHOOSE day \in a .. b : (day + 4) % 7 = 0
  BY <1>1, <1>2 DEF Sunday
<1>4. \E day \in a .. b : (day + 4) % 7 = 0
  <2>1. PICK w \in Int : w = (b + 4) \div 7 /\ 7 * w <= b + 4 /\ b + 4 <= 7 * w + 6
    OBVIOUS
  <2>2. PICK day \in Int : day = 7 * w - 4
    OBVIOUS
  <2>3. day \in a .. b
    BY <1>2, <2>1, <2>2
  <2>4. (day + 4) % 7 = 0
    BY <2>2
  <2> QED
    BY <2>3, <2>4
<1>5. Sunday(i, m, year) \in a .. b /\ (Sunday(i, m, year) + 4) % 7 = 0
  BY <1>3, <1>4
<1>6. PICK day \in a .. b : day = Sunday(i, m, year)
  BY <1>5
<1>7. PICK w \in Int : day + 4 = 7 * w
  BY <1>5, <1>6
<1>8. Sunday(i, m, year) = 7 * w - 4
  BY <1>6, <1>7
<1>9. j + 7 * i - 6 <= 7 * w - 4 /\ 7 * w - 4 <= j + 7 * i
  BY <1>2, <1>7
<1> QED
  BY <1>8, <1>9

\* isDst goes by the dates: from the second Sunday of March to the day before the
\* first of November.
LEMMA IsDstIs ==
  ASSUME NEW d \in GregorianDays, NEW s \in DaySeconds
  PROVE  \E b \in Int, e \in Int :
           LET tm == gmtime([day |-> d, second |-> s])
           IN /\ b = Sunday(2, 3, tm.year) /\ e = Sunday(1, 11, tm.year) /\ b < e
              /\ isDst(tm) <=> b <= d /\ d < e
              /\ tm.second = s
<1>1. d \in Int
  BY DEF GregorianDays
<1>2. PICK year \in GregorianYears, month \in 1 .. 12, n \in Int :
        /\ gmtime([day |-> d, second |-> s]) =
             [year |-> year, month |-> month, day |-> n, second |-> s, wday |-> (d + 4) % 7]
        /\ d = DayNumber(year, 1, 1) + DaysBeforeMonth(IsLeap(year), month) + n - 1
        /\ 1 <= n /\ DaysBeforeMonth(IsLeap(year), month) + n <= DaysBeforeMonth(IsLeap(year), month + 1)
  BY GmtimeIs
<1> DEFINE tm == [year |-> year, month |-> month, day |-> n, second |-> s, wday |-> (d + 4) % 7]
<1>3. PICK leap \in BOOLEAN, j \in Int : leap = IsLeap(year) /\ j = DayNumber(year, 1, 1)
  BY Gregorian
<1>4. \A m \in 1 .. 13, o \in Int : DayNumber(year, m, o) = j + DaysBeforeMonth(leap, m) + o - 1
  BY <1>3, Gregorian, Zenon
<1>5. PICK f \in Int, k \in Int :
        /\ f = DaysBeforeMonth(leap, 3) /\ DaysBeforeMonth(leap, 11) = f + 245
        /\ k = DaysBeforeMonth(leap, month) + n
        /\ month < 3 => k <= f
        /\ month = 3 => k = f + n
        /\ 3 < month /\ month < 11 => f + 31 < k /\ k <= f + 245
        /\ month = 11 => k = f + 245 + n
        /\ 11 < month => f + 275 < k
  <2>1. 1 <= n /\ DaysBeforeMonth(leap, month) + n <= DaysBeforeMonth(leap, month + 1)
    BY <1>2, <1>3
  <2> QED
    BY <2>1, DayInYear
<1>6. d = j + k - 1
  <2>1. DaysBeforeMonth(leap, month) \in Int
    BY MonthLength
  <2> QED
    BY <1>2, <1>3, <1>5, <2>1
<1>7. PICK u \in Int : /\ Sunday(2, 3, year) = 7 * u - 4
                       /\ j + f - 1 + 8 <= 7 * u - 4 /\ 7 * u - 4 <= j + f - 1 + 14
  <2>1. PICK i \in 1 .. 2, m \in 1 .. 12, h \in Int : i = 2 /\ m = 3 /\ h = j + f - 1
    OBVIOUS
  <2>2. h \in {x \in Int : \A o \in Int : DayNumber(year, m, o) = x + o}
    BY <1>4, <1>5, <2>1
  <2>3. \E w \in Int : /\ Sunday(i, m, year) = 7 * w - 4
                       /\ h + 7 * i - 6 <= 7 * w - 4 /\ 7 * w - 4 <= h + 7 * i
    BY <2>2, SundayIs
  <2> QED
    BY <2>1, <2>3
<1>8. PICK v \in Int : /\ Sunday(1, 11, year) = 7 * v - 4
                       /\ j + f + 244 + 1 <= 7 * v - 4 /\ 7 * v - 4 <= j + f + 244 + 7
  <2>1. PICK i \in 1 .. 2, m \in 1 .. 12, h \in Int : i = 1 /\ m = 11 /\ h = j + f + 244
    OBVIOUS
  <2>2. h \in {x \in Int : \A o \in Int : DayNumber(year, m, o) = x + o}
    BY <1>4, <1>5, <2>1
  <2>3. \E w \in Int : /\ Sunday(i, m, year) = 7 * w - 4
                       /\ h + 7 * i - 6 <= 7 * w - 4 /\ 7 * w - 4 <= h + 7 * i
    BY <2>2, SundayIs
  <2> QED
    BY <2>1, <2>3
<1>9. PICK c \in Int, w \in 0 .. 6 : w = (d + 4) % 7 /\ d + 4 = 7 * c + w
  BY <1>1
<1>10. isDst(tm) <=> \/ 3 < month /\ month < 11
                     \/ month = 3 /\ n - w >= 8
                     \/ month = 11 /\ n - w <= 0
  BY <1>9 DEF isDst
<1>11. PICK b \in Int, e \in Int : b = 7 * u - 4 /\ e = 7 * v - 4
  OBVIOUS
<1>12. b < e
  BY <1>7, <1>8, <1>11
<1>13. isDst(tm) <=> b <= d /\ d < e
  <2>1. CASE month < 3
    <3>1. d < b
      BY <1>5, <1>6, <1>7, <1>11, <2>1
    <3> QED
      BY <1>1, <1>10, <1>11, <2>1, <3>1
  <2>2. CASE month = 3
    <3>1. d = j + f + n - 1 /\ n <= 31
      <4>1. DaysBeforeMonth(leap, 4) = f + 31
        BY <1>5, MonthDays
      <4>2. k <= f + 31
        BY <1>2, <1>3, <1>5, <2>2, <4>1, NextMonth
      <4> QED
        BY <1>5, <1>6, <2>2, <4>2
    <3>2. d < e
      BY <1>8, <1>11, <3>1
    <3>3. n - w >= 8 <=> c >= u
      BY <1>7, <1>9, <3>1
    <3>4. b <= d <=> c >= u
      BY <1>1, <1>9, <1>11
    <3> QED
      BY <1>10, <2>2, <3>2, <3>3, <3>4
  <2>3. CASE 3 < month /\ month < 11
    <3>1. b <= d
      BY <1>5, <1>6, <1>7, <1>11, <2>3
    <3>2. d < e
      BY <1>5, <1>6, <1>8, <1>11, <2>3
    <3> QED
      BY <1>10, <2>3, <3>1, <3>2
  <2>4. CASE month = 11
    <3>1. d = j + f + 245 + n - 1
      BY <1>5, <1>6, <2>4
    <3>2. b <= d
      BY <1>2, <1>7, <1>11, <3>1
    <3>3. n - w <= 0 <=> c < v
      BY <1>8, <1>9, <3>1
    <3>4. d < e <=> c < v
      BY <1>1, <1>9, <1>11
    <3> QED
      BY <1>10, <2>4, <3>2, <3>3, <3>4
  <2>5. CASE 11 < month
    <3>1. e <= d
      BY <1>5, <1>6, <1>8, <1>11, <2>5
    <3> QED
      BY <1>1, <1>10, <1>11, <2>5, <3>1
  <2> QED
    BY <2>1, <2>2, <2>3, <2>4, <2>5
<1>14. gmtime([day |-> d, second |-> s]) = tm /\ tm.year = year /\ tm.second = s
  BY <1>2
<1> HIDE DEF tm
<1> QED
  BY <1>7, <1>8, <1>11, <1>12, <1>13, <1>14

\* The zones of the world, in hours from UTC.
ZoneOfTheWorld == EST \in -12 .. 14

\* An hour more is another second of the day, none the same.
LEMMA NextHour ==
  ASSUME NEW d \in Int, NEW s \in DaySeconds
  PROVE  /\ Sum([day |-> d, second |-> s], Hours(0)) = [day |-> d, second |-> s]
         /\ \E e \in Int, r \in DaySeconds :
              /\ Sum([day |-> d, second |-> s], Hours(1)) = [day |-> e, second |-> r]
              /\ d <= e /\ e <= d + 1 /\ r # s
<1>1. s \in Int /\ 0 <= s /\ s < 86400
  BY DEF DaySeconds
<1>2. PICK o \in Int, z \in DaySeconds, h \in DaySeconds : o = 0 /\ z = 0 /\ h = 3600
  BY DEF DaySeconds
<1>3. Instant(o, z) = [day |-> o, second |-> z] /\ Instant(o, h) = [day |-> o, second |-> h]
  BY InstantIs
<1>4. Hours(0) = [day |-> o, second |-> z]
  BY <1>2, <1>3 DEF Hours
<1>5. Hours(1) = [day |-> o, second |-> h]
  BY <1>2, <1>3 DEF Hours
<1>6. Sum([day |-> d, second |-> s], [day |-> o, second |-> z]) =
        IF s + z < 86400 THEN [day |-> d + o, second |-> s + z]
        ELSE [day |-> d + o + 1, second |-> s + z - 86400]
  BY SumIs
<1>7. Sum([day |-> d, second |-> s], [day |-> o, second |-> h]) =
        IF s + h < 86400 THEN [day |-> d + o, second |-> s + h]
        ELSE [day |-> d + o + 1, second |-> s + h - 86400]
  BY SumIs
<1>8. Sum([day |-> d, second |-> s], Hours(0)) = [day |-> d, second |-> s]
  <2>1. s + z = s /\ d + o = d /\ s + z < 86400
    BY <1>1, <1>2
  <2> QED
    BY <1>4, <1>6, <2>1
<1>9. PICK e \in Int, r \in Int :
        /\ Sum([day |-> d, second |-> s], Hours(1)) = [day |-> e, second |-> r]
        /\ IF s + h < 86400 THEN e = d + o /\ r = s + h ELSE e = d + o + 1 /\ r = s + h - 86400
  BY <1>5, <1>7, <1>1, <1>2
<1>10. d <= e /\ e <= d + 1 /\ r # s /\ 0 <= r /\ r < 86400
  BY <1>1, <1>2, <1>9
<1>11. r \in DaySeconds
  BY <1>10 DEF DaySeconds
<1> QED
  BY <1>8, <1>9, <1>10, <1>11

\* The standard time of the zone is [d, s], which gmtime knows, and an hour more is
\* what getLocalizedTime adds.
InZone(t, d, s) ==
  /\ Sum(t, Hours(EST)) = [day |-> d, second |-> s] /\ -1 <= d /\ d <= 47482
  /\ Sum(t, Hours(EST + 1)) = Sum([day |-> d, second |-> s], Hours(1))

\* Every time of the RTC has a time of the zone.
LEMMA ZoneTime ==
  ASSUME ZoneOfTheWorld, NEW t \in RtcTimes
  PROVE  \E d \in Int, s \in DaySeconds : InZone(t, d, s)
<1>1. PICK c \in Int, r \in DaySeconds : t = [day |-> c, second |-> r] /\ 0 <= c /\ c < 47482
  BY DEF RtcTimes
<1>2. r \in Int /\ 0 <= r /\ r < 86400 /\ EST \in Int /\ -12 <= EST /\ EST <= 14
  BY DEF DaySeconds, ZoneOfTheWorld
<1>3. t = Instant(c, r)
  BY <1>1, InstantIs
<1>4. PICK x \in Int : x = r + 3600 * EST /\ -86400 < x /\ x < 172800
  BY <1>2
<1>5. Sum(t, Hours(EST)) = Instant(c, x)
  BY <1>2, <1>3, <1>4, SumHours
<1>6. Sum(t, Hours(EST + 1)) = Sum(Instant(c, x), Hours(1))
  <2>1. PICK k \in Int, y \in Int : k = EST + 1 /\ y = r + 3600 * k /\ y = x + 3600 * 1
    BY <1>2, <1>4
  <2>2. Sum(Instant(c, r), Hours(k)) = Instant(c, y)
    BY <1>2, <2>1, SumHours
  <2>3. Sum(Instant(c, x), Hours(1)) = Instant(c, y)
    BY <1>4, <2>1, SumHours
  <2> QED
    BY <1>3, <2>1, <2>2, <2>3
<1>n. PICK n \in Nat \ {0} : n = 86400
  OBVIOUS
<1>q. PICK q \in Int, s \in Int : q = x \div n /\ s = x % n /\ x = n * q + s /\ 0 <= s /\ s <= n - 1
  <2>1. PICK q \in Int, s \in 0 .. n - 1 : q = x \div n /\ s = x % n /\ x = n * q + s
    BY Divides
  <2>2. s \in Int /\ 0 <= s /\ s <= n - 1
    OBVIOUS
  <2> QED
    BY <2>1, <2>2, Zenon
<1>7. q = x \div 86400 /\ s = x % 86400 /\ x = 86400 * q + s /\ 0 <= s /\ s < 86400
  BY <1>n, <1>q
<1>8. -1 <= q /\ q <= 1
  BY <1>4, <1>7
<1>9. PICK d \in Int : d = c + q
  OBVIOUS
<1>10. Instant(c, x) = [day |-> d, second |-> s] /\ s \in DaySeconds
  BY <1>7, <1>9 DEF Instant, DaySeconds
<1>11. -1 <= d /\ d <= 47482
  BY <1>1, <1>8, <1>9
<1> QED
  BY <1>5, <1>6, <1>10, <1>11 DEF InZone

\* getLocalizedTime shows the local time of the rule whatever the RTC holds, but in the
\* nights in which the rule switches: LocalTimeRight.
THEOREM ShowsLocalTime ==
  ASSUME AnswersInReach, ZoneOfTheWorld
  PROVE  CalendarSpec => []LocalTimeRight
<1>1. RtcInv => LocalTimeRight
  <2> SUFFICES ASSUME RtcInv
               PROVE  LocalTimeRight
    OBVIOUS
  <2>0. PICK d \in Int, s \in DaySeconds : InZone(rtc, d, s)
    BY ZoneTime, Zenon DEF RtcInv
  <2>1. /\ Sum(rtc, Hours(EST)) = [day |-> d, second |-> s] /\ -1 <= d /\ d <= 47482
        /\ Sum(rtc, Hours(EST + 1)) = Sum([day |-> d, second |-> s], Hours(1))
    BY <2>0 DEF InZone
  <2>2. PICK standard : standard = [day |-> d, second |-> s]
    OBVIOUS
  <2>later. PICK later : later = Sum(standard, Hours(1))
    OBVIOUS
  <2>3. PICK d1 \in Int, s1 \in DaySeconds :
          /\ later = [day |-> d1, second |-> s1] /\ Sum(standard, Hours(1)) = later
          /\ d <= d1 /\ d1 <= d + 1 /\ s1 # s /\ Sum(standard, Hours(0)) = standard
    <3>1. /\ Sum([day |-> d, second |-> s], Hours(0)) = [day |-> d, second |-> s]
          /\ \E e \in Int, r \in DaySeconds :
               /\ Sum([day |-> d, second |-> s], Hours(1)) = [day |-> e, second |-> r]
               /\ d <= e /\ e <= d + 1 /\ r # s
      BY NextHour, Zenon
    <3>2. PICK e \in Int, r \in DaySeconds :
            /\ Sum([day |-> d, second |-> s], Hours(1)) = [day |-> e, second |-> r]
            /\ d <= e /\ e <= d + 1 /\ r # s
      BY <3>1
    <3>3. later = [day |-> e, second |-> r] /\ Sum(standard, Hours(1)) = later
      BY <2>2, <2>later, <3>2
    <3>4. Sum(standard, Hours(0)) = standard
      BY <2>2, <3>1
    <3> QED
      BY <3>2, <3>3, <3>4, Zenon
  <2>4. d \in GregorianDays /\ d1 \in GregorianDays
    BY <2>1, <2>3 DEF GregorianDays
  <2>date. PICK date : date = gmtime(standard)
    OBVIOUS
  <2>5. PICK b \in Int, e \in Int :
          /\ b = Sunday(2, 3, date.year) /\ e = Sunday(1, 11, date.year) /\ b < e
          /\ isDst(date) <=> b <= d /\ d < e
          /\ date.second = s
    <3>1. PICK b \in Int, e \in Int :
            LET tm == gmtime([day |-> d, second |-> s])
            IN /\ b = Sunday(2, 3, tm.year) /\ e = Sunday(1, 11, tm.year) /\ b < e
               /\ isDst(tm) <=> b <= d /\ d < e
               /\ tm.second = s
      BY <2>4, IsDstIs
    <3> QED
      BY <2>2, <2>date, <3>1
  <2>6. gmtime(later).second = s1
    BY <2>3, <2>4, IsDstIs
  <2>7. gmtime(later) # gmtime(standard)
    BY <2>date, <2>3, <2>5, <2>6
  <2>8. getLocalizedTime(rtc) = gmtime(IF isDst(date) THEN later ELSE standard)
    BY <2>1, <2>2, <2>3, <2>date DEF getLocalizedTime
  <2>9. Begins(date.year) = [day |-> b, second |-> 7200] /\ Ends(date.year) = [day |-> e, second |-> 3600]
    <3>1. 7200 \in DaySeconds /\ 3600 \in DaySeconds
      BY DEF DaySeconds
    <3> QED
      BY <2>5, <3>1, InstantIs DEF Begins, Ends
  <2>10. standard.day = d /\ standard.second = s
    BY <2>2
  <2>11. DaylightSaving(standard) <=> /\ ~ (d < b \/ (d = b /\ s < 7200))
                                      /\ d < e \/ (d = e /\ s < 3600)
    BY <2>date, <2>9, <2>10 DEF DaylightSaving, Before
  <2>12. SwitchNight(standard) <=> (d = b /\ s < 7200) \/ (d = e /\ s < 3600)
    BY <2>date, <2>9, <2>10 DEF SwitchNight
  <2>13. (isDst(date) <=> DaylightSaving(standard)) <=> ~ SwitchNight(standard)
    <3>1. s \in Int
      BY DEF DaySeconds
    <3> QED
      BY <2>5, <2>11, <2>12, <3>1
  <2>14. gmtime(Sum(standard, Hours(IF DaylightSaving(standard) THEN 1 ELSE 0)))
           = gmtime(IF DaylightSaving(standard) THEN later ELSE standard)
    BY <2>3
  <2>15. (getLocalizedTime(rtc) = gmtime(Sum(standard, Hours(IF DaylightSaving(standard) THEN 1 ELSE 0))))
           <=> (isDst(date) <=> DaylightSaving(standard))
    BY <2>7, <2>8, <2>14
  <2> QED
    BY <2>1, <2>2, <2>13, <2>15 DEF LocalTimeRight
<1> QED
  BY <1>1, InitRtcInv, StepRtcInv, PTL DEF CalendarSpec
=============================================================================
