----------------------------- MODULE FullFrames -----------------------------
(***************************************************************************)
(* What a consumer of FrameBuffer is promised, dirty boxes or not: every    *)
(* update brings it to the current image, as if it had been sent whole, and *)
(* nothing but an update changes what it has.                               *)
(***************************************************************************)
VARIABLES img,  \* the image the decoder paints
          got   \* what the consumer has

Start == img = got

Paint == got' = got

Refresh ==
  /\ img' = img
  /\ got' = img

FullSpec == Start /\ [][Paint \/ Refresh]_<<img, got>>
=============================================================================
