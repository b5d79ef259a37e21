----------------------------- MODULE Detections -----------------------------
(***************************************************************************)
(* From the output of a network to a rectangle on the screen: the two      *)
(* adapters main starts (SSDMobile and Tensorflow), the rectangles a       *)
(* detector files (Detection), and what drawing one needs (Graphic).  The  *)
(* networks and the suppression of overlaps are external.  A coordinate of *)
(* a network is a fraction of the width or height, counted in 1/Scale.     *)
(***************************************************************************)
EXTENDS Integers, Sequences, SequencesExt, FiniteSetsExt

CONSTANTS
  ClassFiles,    \* the names in the class file of each adapter
  SetUp,         \* the adapters in the order in which main sets them up
  Cols, Rows,    \* size of a frame
  Scale          \* the denominator of coordinates

ASSUME DetectionsAssumption ==
  /\ Cols \in Nat \ {0} /\ Rows \in Nat \ {0} /\ Scale \in Nat \ {0}
  /\ SetUp \in Seq(DOMAIN ClassFiles)
  /\ \A a \in DOMAIN ClassFiles : ClassFiles[a] \in Seq(ToSet(ClassFiles[a]))

-----------------------------------------------------------------------------
(* Starting up.                                                            *)

\* readClassFile: a class for each line.
Classes(adapter) == ClassFiles[adapter]
ClassNumber(adapter) == Len(Classes(adapter))

\* Mutant: the last adapter's number is kept.
SetLastClassesNumber(number, n) == n

\* vBuffer::setClassesNumber.
SetClassesNumber(number, n) == IF n > number THEN n ELSE number

\* What vBuffer starts with; setBuffer of each adapter may ask for more, before
\* Graphic::setImageQueue gives each class its colour.
InitialClasses == 100

ClassColors ==
  LET After[i \in 0..Len(SetUp)] ==
        IF i = 0 THEN InitialClasses
        ELSE SetClassesNumber(After[i - 1], ClassNumber(SetUp[i]))
  IN  After[Len(SetUp)]

-----------------------------------------------------------------------------
(* The adapters.                                                           *)

\* A float that becomes an int loses its fraction; a counts in 1/Scale.
Truncated(a) == IF a >= 0 THEN a \div Scale ELSE -((-a) \div Scale)

Rectangle(left, top, width, height) ==
  [x |-> left, y |-> top, width |-> width, height |-> height]

\* Network outputs are fractions of the frame.
SSDMobileBox(d) ==
  Rectangle(Truncated(d.left * Cols), Truncated(d.top * Rows),
            Truncated((d.right - d.left) * Cols + Scale),
            Truncated((d.bottom - d.top) * Rows + Scale))

Corners(left, top, right, bottom) ==
  Rectangle(left, top, right - left + 1, bottom - top + 1)

\* The output is taken for pixels first; a rectangle too small to be one shows
\* that it holds fractions of the frame.
TensorflowBox(d) ==
  LET pixels == Corners(Truncated(d.left), Truncated(d.top),
                        Truncated(d.right), Truncated(d.bottom))
  IN  IF pixels.width <= 2 \/ pixels.height <= 2
      THEN Corners(Truncated(d.left * Cols), Truncated(d.top * Rows),
                   Truncated(d.right * Cols), Truncated(d.bottom * Rows))
      ELSE pixels

\* detect, and the rectangle objectDetection makes of an index it returns: 0 is
\* the class of the background.
RectOut(adapter, d) ==
  [id   |-> d.class - 1,
   name |-> Classes(adapter)[(d.class - 1) + 1],
   box  |-> IF adapter = "ssd" THEN SSDMobileBox(d) ELSE TensorflowBox(d)]

\* drawResult: the assertion on a rectangle, and the two colours of the name
\* and the time that it writes on every frame.
CanDraw(rect) == rect.id < ClassColors
CanSign == {43, 88} \subseteq 0..(ClassColors - 1)

-----------------------------------------------------------------------------
\* A side of an object, from a to b, that begins on the frame or less than a
\* frame before it and ends less than a frame behind it.
OnFrame(a, b) == -Scale < a /\ a <= b /\ b < 2 * Scale

\* What any adapter finds can be drawn, under the name its own file gives the
\* class, and both adapters put the same output at the same place: the corner
\* is the same and the sizes differ by the pixel that truncation makes.
Drawable(d) ==
  LET Near(a, b) == a - b \in -1..1
      s == SSDMobileBox(d)
      t == TensorflowBox(d)
  IN  /\ CanSign
      /\ \A adapter \in ToSet(SetUp) :
           d.class <= ClassNumber(adapter) =>
             LET rect == RectOut(adapter, d)
             IN  CanDraw(rect) /\ rect.name = ClassFiles[adapter][d.class]
      /\ s.x = t.x /\ s.y = t.y
      /\ Near(s.width, t.width) /\ Near(s.height, t.height)
=============================================================================
