------------------------- MODULE FrameStreamProofs -------------------------
(***************************************************************************)
(* Proofs about FrameStream, for every video mode, tile size and place.     *)
(***************************************************************************)
EXTENDS FrameStream, TLAPS

-----------------------------------------------------------------------------
(* Images and boxes.                                                        *)

IsImage(im) ==
  /\ im.w \in Nat \ {0}
  /\ im.h \in Nat \ {0}
  /\ im.px \in [Pixels(im.w, im.h) -> Versions]

LEMMA ImageFields ==
  ASSUME NEW im, AnImage(im)
  PROVE  /\ IsImage(im)
         /\ im # None
         /\ im = [w |-> im.w, h |-> im.h, px |-> im.px]
<1>1. PICK s \in Sizes : im \in ImagesOf(s[1], s[2])
  BY DEF AnImage
<1>2. s[1] \in Nat \ {0} /\ s[2] \in Nat \ {0}
  BY SizesAssumption
<1> QED
  BY <1>1, <1>2, NoneAssumption DEF ImagesOf, IsImage

LEMMA ImageOfFields ==
  ASSUME NEW w, NEW h, <<w, h>> \in Sizes, NEW px \in [Pixels(w, h) -> Versions]
  PROVE  AnImage([w |-> w, h |-> h, px |-> px])
<1> DEFINE s == <<w, h>>
<1>1. [w |-> w, h |-> h, px |-> px] \in ImagesOf(s[1], s[2])
  BY DEF ImagesOf
<1> QED
  BY <1>1 DEF AnImage

\* A tile that begins within the image covers a box of it.
LEMMA TileBoxType ==
  ASSUME IsImage(image), NEW x \in Nat, NEW y \in Nat
  PROVE  TileBox(x, y) \in Boxes
  BY TileAssumption DEF IsImage, TileBox, Boxes, Lesser

LEMMA GrownType ==
  ASSUME NEW box \in Boxes, dirty \in Boxes \cup {None}
  PROVE  Grown(box) \in Boxes
  BY DEF Grown, Boxes, Lesser, Greater

\* The grown box contains both boxes it was made of.
LEMMA GrownCovers ==
  ASSUME NEW box \in Boxes, dirty \in Boxes \cup {None},
         NEW a \in Nat, NEW b \in Nat,
         \/ Inside(box, <<a, b>>)
         \/ dirty # None /\ Inside(dirty, <<a, b>>)
  PROVE  Inside(Grown(box), <<a, b>>)
  BY DEF Grown, Boxes, Lesser, Greater, Inside

\* All of an image is inside Whole.
LEMMA AllInsideWhole ==
  ASSUME IsImage(image), NEW p \in Pixels(image.w, image.h)
  PROVE  Inside(Whole, p)
  BY DEF IsImage, Pixels, Inside, Whole

-----------------------------------------------------------------------------
(* The inductive invariant: types and NothingMissed.                        *)

IInv == StreamTypeOK /\ NothingMissed

\* Two images of the same size with the same pixels are the same.
LEMMA SameImage ==
  ASSUME NEW im, AnImage(im), NEW px, px \in [Pixels(im.w, im.h) -> Versions],
         \A p \in Pixels(im.w, im.h) : px[p] = im.px[p]
  PROVE  [w |-> im.w, h |-> im.h, px |-> px] = im
<1>1. im = [w |-> im.w, h |-> im.h, px |-> im.px]
      /\ im.px \in [Pixels(im.w, im.h) -> Versions]
  BY ImageFields DEF IsImage
<1>2. px = im.px
  BY <1>1
<1> QED
  BY <1>1, <1>2

\* Taking an update brings the consumer to the current image.
LEMMA ConsumeRefreshes ==
  ASSUME IInv, Consume
  PROVE  seen' = image
<1> DEFINE pixels == Pixels(image.w, image.h)
<1>1. AnImage(image) /\ IsImage(image)
  BY ImageFields DEF IInv, StreamTypeOK, Consume, HasUpdate
<1>2. image.px \in [pixels -> Versions]
  BY <1>1 DEF IsImage
<1>3. CASE needsFull
  <2> DEFINE inside == {q \in pixels : Inside(Whole, q)}
  <2>1. inside = pixels
    BY <1>1, AllInsideWhole
  <2>2. /\ Update.w = image.w /\ Update.h = image.h
        /\ Update.px = [p \in inside |-> image.px[p]]
    BY <1>1, <1>3 DEF Update, Crop, Whole, IsImage
  <2>3. Update.px = image.px
    BY <1>2, <2>1, <2>2
  <2>4. seen' = [w |-> image.w, h |-> image.h, px |-> image.px]
    BY <1>3, <2>2, <2>3 DEF Consume, Drawn
  <2> QED
    BY <1>1, <2>4, ImageFields
<1>4. CASE ~needsFull
  <2> DEFINE inside == {q \in pixels : Inside(dirty, q)}
             px == [p \in pixels |-> IF p \in inside THEN image.px[p] ELSE seen.px[p]]
  <2>1. Update.px = [p \in inside |-> image.px[p]]
    BY <1>4 DEF Update, Crop
  <2>2. seen.w = image.w /\ seen.h = image.h
    BY <1>1, <1>4, ImageFields DEF IInv, NothingMissed
  <2>3. seen' = [w |-> image.w, h |-> image.h, px |-> px]
    BY <1>4, <2>1, <2>2 DEF Consume, Drawn
  <2>4. \A p \in pixels : px[p] = image.px[p]
    BY <1>1, <1>4, ImageFields DEF IInv, NothingMissed
  <2>5. px \in [pixels -> Versions]
    BY <1>2, <2>4
  <2> QED
    BY <1>1, <2>3, <2>4, <2>5, SameImage
<1> QED
  BY <1>3, <1>4

LEMMA InvAnnounce ==
  ASSUME IInv, NEW s \in Sizes, Announce(s[1], s[2])
  PROVE  IInv'
<1>1. CASE UNCHANGED fbVars
  BY <1>1 DEF Announce, IInv, StreamTypeOK, NothingMissed, AnImage, fbVars
<1>2. CASE ~UNCHANGED fbVars
  <2>1. /\ image' = [w |-> s[1], h |-> s[2],
                      px |-> [p \in Pixels(s[1], s[2]) |-> version + 1]]
        /\ version' = version + 1
        /\ dirty' = None
        /\ needsFull' = TRUE
        /\ seen' = seen
    BY <1>2 DEF Announce, Resize
  <2>2. version + 1 \in Versions
    BY VersionAssumption DEF Announce, Changing, IInv, StreamTypeOK, Versions
  <2>3. s = <<s[1], s[2]>>
    BY SizesAssumption
  <2>4. AnImage(image')
    BY <2>1, <2>2, <2>3, ImageOfFields
  <2>5. needsFull' \in BOOLEAN
    BY <2>1, Zenon
  <2> QED
    BY <2>1, <2>2, <2>4, <2>5 DEF IInv, StreamTypeOK, NothingMissed, AnImage
<1> QED
  BY <1>1, <1>2

LEMMA InvPaint ==
  ASSUME IInv, NEW c \in Corners, Paint(c[1], c[2])
  PROVE  IInv'
<1> DEFINE pixels == Pixels(image.w, image.h)
           box == TileBox(c[1], c[2])
<1>1. CASE UNCHANGED fbVars
  BY <1>1 DEF Paint, IInv, StreamTypeOK, NothingMissed, AnImage, fbVars
<1>2. CASE ~UNCHANGED fbVars
  <2>1. /\ image # None
        /\ image' = [w |-> image.w, h |-> image.h,
                      px |-> [p \in pixels |-> IF Inside(box, p) THEN version + 1
                                                                ELSE image.px[p]]]
        /\ version' = version + 1
        /\ dirty' = Grown(box)
        /\ needsFull' = needsFull
        /\ seen' = seen
    BY <1>2 DEF Paint, PasteBlock
  <2>2. AnImage(image) /\ IsImage(image)
    BY <2>1, ImageFields DEF IInv, StreamTypeOK
  <2>3. version + 1 \in Versions
    BY VersionAssumption DEF Paint, Changing, IInv, StreamTypeOK, Versions
  <2>4. dirty' \in Boxes /\ dirty' # None /\ box \in Boxes
    <3>1. c[1] \in Nat /\ c[2] \in Nat
      BY CornersAssumption
    <3> QED
      BY <2>1, <2>2, <3>1, TileBoxType, GrownType, NoneAssumption
         DEF IInv, StreamTypeOK
  <2>5. /\ AnImage(image')
        /\ image'.w = image.w /\ image'.h = image.h
        /\ \A p \in pixels : ~Inside(box, p) => image'.px[p] = image.px[p]
    <3> DEFINE px == [p \in pixels |-> IF Inside(box, p) THEN version + 1
                                                        ELSE image.px[p]]
    <3>1. px \in [pixels -> Versions]
      BY <2>2, <2>3 DEF IsImage
    <3>2. PICK s \in Sizes : image \in ImagesOf(s[1], s[2])
      BY <2>2 DEF AnImage
    <3>3. s = <<image.w, image.h>>
      BY <3>2, SizesAssumption DEF ImagesOf
    <3> QED
      BY <2>1, <3>1, <3>3, ImageOfFields
  <2>6. StreamTypeOK'
    BY <2>1, <2>3, <2>4, <2>5 DEF IInv, StreamTypeOK, AnImage
  <2>7. ASSUME ~needsFull
        PROVE  /\ seen # None
               /\ seen.w = image.w /\ seen.h = image.h
               /\ \A p \in pixels :
                    seen.px[p] # image'.px[p] => Inside(dirty', p)
    <3>1. /\ seen # None
          /\ seen.w = image.w /\ seen.h = image.h
          /\ \A p \in pixels :
               seen.px[p] # image.px[p] => dirty # None /\ Inside(dirty, p)
      BY <2>1, <2>7 DEF IInv, NothingMissed
    <3>2. ASSUME NEW p \in pixels, seen.px[p] # image'.px[p]
          PROVE  Inside(dirty', p)
      <4>1. \/ Inside(box, p)
            \/ dirty # None /\ Inside(dirty, p)
        BY <2>5, <3>1, <3>2
      <4>2. PICK a \in Nat, b \in Nat : p = <<a, b>>
        BY <2>2 DEF Pixels, IsImage
      <4> QED
        BY <2>1, <2>4, <4>1, <4>2, GrownCovers DEF IInv, StreamTypeOK
    <3> QED
      BY <3>1, <3>2
  <2>8. NothingMissed'
    BY <2>1, <2>4, <2>5, <2>7 DEF NothingMissed
  <2> QED
    BY <2>6, <2>8 DEF IInv
<1> QED
  BY <1>1, <1>2

LEMMA InvConsume ==
  ASSUME IInv, Consume
  PROVE  IInv'
<1>1. /\ seen' = image /\ image' = image /\ version' = version
      /\ dirty' = None /\ needsFull' = FALSE /\ image # None
  BY ConsumeRefreshes DEF Consume, TakeUpdate, HasUpdate
<1>2. needsFull' \in BOOLEAN
  BY <1>1, Zenon
<1> QED
  BY <1>1, <1>2 DEF IInv, StreamTypeOK, NothingMissed, AnImage

LEMMA InvInit == Init => IInv
<1> SUFFICES ASSUME Init PROVE IInv
  OBVIOUS
<1>1. needsFull \in BOOLEAN
  BY Zenon DEF Init, FrameInit
<1> QED
  BY <1>1, VersionAssumption
     DEF Init, FrameInit, IInv, StreamTypeOK, NothingMissed, Versions

LEMMA Invariant == Spec => []IInv
<1>1. IInv /\ [Next]_streamVars => IInv'
  <2> SUFFICES ASSUME IInv, [Next]_streamVars PROVE IInv'
    OBVIOUS
  <2>1. CASE UNCHANGED streamVars
    BY <2>1 DEF streamVars, fbVars, IInv, StreamTypeOK, NothingMissed, AnImage
  <2> QED
    BY <2>1, InvAnnounce, InvPaint, InvConsume DEF Next
<1> QED
  BY <1>1, InvInit, PTL DEF Spec

\* The dirty box and the full flag cover every pixel the consumer lacks, for
\* every video mode, tile size and order of painting and taking.
THEOREM NothingIsMissed == Spec => []NothingMissed
<1>1. IInv => NothingMissed
  BY DEF IInv
<1> QED
  BY <1>1, Invariant, PTL

THEOREM StreamTypeCorrect == Spec => []StreamTypeOK
<1>1. IInv => StreamTypeOK
  BY DEF IInv
<1> QED
  BY <1>1, Invariant, PTL

\* Partial updates are as good as full frames: whatever the decoder paints
\* between two updates, each brings the consumer to the current image.
THEOREM DirtyBoxesSuffice == Spec => AsGoodAsFullFrames
<1>1. Init => Full!Start
  BY DEF Init, FrameInit, Full!Start
<1>2. IInv /\ [Next]_streamVars => [Full!Paint \/ Full!Refresh]_<<image, seen>>
  <2> SUFFICES ASSUME IInv, [Next]_streamVars
               PROVE  [Full!Paint \/ Full!Refresh]_<<image, seen>>
    OBVIOUS
  <2>1. CASE Consume
    BY <2>1, ConsumeRefreshes DEF Full!Refresh, Consume, TakeUpdate
  <2>2. CASE ~Consume
    BY <2>2 DEF Next, Announce, Paint, streamVars, fbVars, Full!Paint
  <2> QED
    BY <2>1, <2>2
<1> QED
  BY <1>1, <1>2, Invariant, PTL DEF Spec, AsGoodAsFullFrames, Full!FullSpec
=============================================================================
