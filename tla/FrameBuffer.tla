---------------------------- MODULE FrameBuffer ----------------------------
(***************************************************************************)
(* ilo2/framebuffer.py: the remote screen as the decoder paints it, with    *)
(* one dirty bounding box.  Every operation runs under the lock of the      *)
(* buffer and is one step; JPEG encoding works on a copy outside of it.     *)
(* What a pixel shows is abstracted to the version it was painted at.       *)
(***************************************************************************)
EXTENDS Naturals

CONSTANTS TileSize,    \* 16 in the code
          MaxVersion,  \* bound: changes of the image
          None

ASSUME TileAssumption == TileSize \in Nat \ {0}
ASSUME VersionAssumption == MaxVersion \in Nat

VARIABLES image,     \* None, or [w, h, px]
          version,   \* bumped on every change
          dirty,     \* None, or the box [x0, y0, x1, y1], x1 and y1 exclusive
          needsFull  \* set by resize(): nothing a consumer has is worth keeping

fbVars == <<image, version, dirty, needsFull>>

Pixels(w, h) == (0..(w - 1)) \X (0..(h - 1))
Versions == 0..MaxVersion
ImagesOf(w, h) == [w : {w}, h : {h}, px : [Pixels(w, h) -> Versions]]
Boxes == [x0 : Nat, y0 : Nat, x1 : Nat, y1 : Nat]

Inside(box, p) ==
  /\ box.x0 <= p[1] /\ p[1] < box.x1
  /\ box.y0 <= p[2] /\ p[2] < box.y1

Lesser(a, b) == IF a < b THEN a ELSE b
Greater(a, b) == IF a < b THEN b ELSE a

FrameInit ==
  /\ image = None
  /\ version = 0
  /\ dirty = None
  /\ needsFull = FALSE

\* Mutant: resize() that does not ask for a full frame.
ResizeQuietly(w, h) ==
  IF image # None /\ image.w = w /\ image.h = h
  THEN UNCHANGED fbVars
  ELSE /\ image' = [w |-> w, h |-> h, px |-> [p \in Pixels(w, h) |-> version + 1]]
       /\ version' = version + 1
       /\ dirty' = None
       /\ needsFull' = (needsFull \/ image = None)

\* Mutant: the pixels of the new image are laid out the other way round.
ResizeSwapped(w, h) ==
  IF image # None /\ image.w = w /\ image.h = h
  THEN UNCHANGED fbVars
  ELSE /\ image' = [w |-> w, h |-> h, px |-> [p \in Pixels(h, w) |-> version + 1]]
       /\ version' = version + 1
       /\ dirty' = None
       /\ needsFull' = TRUE

\* resize(): the announcement of the size the image has is ignored.
Resize(w, h) ==
  IF image # None /\ image.w = w /\ image.h = h
  THEN UNCHANGED fbVars
  ELSE /\ image' = [w |-> w, h |-> h, px |-> [p \in Pixels(w, h) |-> version + 1]]
       /\ version' = version + 1
       /\ dirty' = None
       /\ needsFull' = TRUE

\* The part of the image a tile at (x, y) covers.
TileBox(x, y) == [x0 |-> x, y0 |-> y,
                  x1 |-> Lesser(x + TileSize, image.w),
                  y1 |-> Lesser(y + TileSize, image.h)]

\* Mutant: the box grows to the right and down only.
GrowForwards(box) ==
  IF dirty = None
  THEN box
  ELSE [x0 |-> dirty.x0, y0 |-> dirty.y0,
        x1 |-> Greater(dirty.x1, box.x1), y1 |-> Greater(dirty.y1, box.y1)]

\* The smallest box around the dirty one and another.
Grown(box) ==
  IF dirty = None
  THEN box
  ELSE [x0 |-> Lesser(dirty.x0, box.x0), y0 |-> Lesser(dirty.y0, box.y0),
        x1 |-> Greater(dirty.x1, box.x1), y1 |-> Greater(dirty.y1, box.y1)]

\* paste_block(): a tile that begins outside of the image is dropped.
PasteBlock(x, y) ==
  IF image = None \/ x >= image.w \/ y >= image.h
  THEN UNCHANGED fbVars
  ELSE /\ image' = [w |-> image.w, h |-> image.h,
                     px |-> [p \in Pixels(image.w, image.h) |->
                               IF Inside(TileBox(x, y), p) THEN version + 1
                                                           ELSE image.px[p]]]
       /\ version' = version + 1
       /\ dirty' = Grown(TileBox(x, y))
       /\ UNCHANGED needsFull

Whole == [x0 |-> 0, y0 |-> 0, x1 |-> image.w, y1 |-> image.h]

\* A rectangle of the image, as it is sent.
Crop(box) ==
  [x |-> box.x0, y |-> box.y0, w |-> box.x1 - box.x0, h |-> box.y1 - box.y0,
   px |-> [p \in {q \in Pixels(image.w, image.h) : Inside(box, q)} |-> image.px[p]]]

HasUpdate == image # None /\ (needsFull \/ dirty # None)

\* What take_update() returns, and what it leaves behind.
Update == Crop(IF needsFull THEN Whole ELSE dirty)

TakeUpdate ==
  /\ needsFull' = FALSE
  /\ dirty' = None
  /\ UNCHANGED <<image, version>>

FullSnapshot == Crop(Whole)
=============================================================================
