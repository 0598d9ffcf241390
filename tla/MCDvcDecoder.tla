---------------------------- MODULE MCDvcDecoder ----------------------------
(* The decoder as an instance for TLC.                                      *)
EXTENDS DvcDecoder
=============================================================================
