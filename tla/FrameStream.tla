---------------------------- MODULE FrameStream ----------------------------
(***************************************************************************)
(* The frame buffer between its writer, the receiver thread of a console,   *)
(* and one consumer that applies every update it takes.                     *)
(***************************************************************************)
EXTENDS FrameBuffer

CONSTANTS Sizes,   \* the video modes <<w, h>> the iLO2 announces
          Corners  \* where it places tiles

ASSUME SizesAssumption == \A s \in Sizes : s \in Nat \X Nat /\ s[1] > 0 /\ s[2] > 0
ASSUME CornersAssumption == Corners \subseteq Nat \X Nat
ASSUME NoneAssumption ==
  None \notin Boxes /\ \A s \in Sizes : None \notin ImagesOf(s[1], s[2])

VARIABLE seen  \* what the consumer has made of the updates it took

streamVars == <<fbVars, seen>>

AnImage(im) == \E s \in Sizes : im \in ImagesOf(s[1], s[2])

StreamTypeOK ==
  /\ image = None \/ AnImage(image)
  /\ version \in Versions
  /\ dirty \in Boxes \cup {None}
  /\ needsFull \in BOOLEAN
  /\ seen = None \/ AnImage(seen)

Changing == version < MaxVersion

Init == FrameInit /\ seen = None

\* DVC mode change: on_resize.
Announce(w, h) == Changing /\ Resize(w, h) /\ UNCHANGED seen

\* DVC block: on_block.
Paint(x, y) == Changing /\ PasteBlock(x, y) /\ UNCHANGED seen

\* A full frame replaces what the consumer has, any other is drawn onto it.
Drawn(u) ==
  IF needsFull
  THEN [w |-> u.w, h |-> u.h, px |-> u.px]
  ELSE [w |-> seen.w, h |-> seen.h,
        px |-> [p \in Pixels(seen.w, seen.h) |->
                  IF p \in DOMAIN u.px THEN u.px[p] ELSE seen.px[p]]]

Consume ==
  /\ HasUpdate
  /\ seen' = Drawn(Update)
  /\ TakeUpdate

Next ==
  \/ \E s \in Sizes : Announce(s[1], s[2])
  \/ \E c \in Corners : Paint(c[1], c[2])
  \/ Consume

Spec == Init /\ [][Next]_streamVars

-----------------------------------------------------------------------------

\* The bookkeeping misses no pixel: what the consumer has differs from the image
\* inside the dirty box only, unless a full frame is due anyway.
NothingMissed ==
  image # None /\ ~needsFull =>
    /\ seen # None
    /\ seen.w = image.w /\ seen.h = image.h
    /\ \A p \in Pixels(image.w, image.h) :
         seen.px[p] # image.px[p] => dirty # None /\ Inside(dirty, p)

Full == INSTANCE FullFrames WITH img <- image, got <- seen

\* Sending what changed is as good as sending everything.
AsGoodAsFullFrames == Full!FullSpec
=============================================================================
