--------------------------- MODULE MCFrameStream ---------------------------
(* Instances of FrameStream for TLC.                                        *)
EXTENDS FrameStream

\* Two video modes, the second with a clipped last row of tiles.
MCSizes == {<<4, 2>>, <<4, 3>>}

\* Every tile of either mode, and one outside.
MCCorners == {<<0, 0>>, <<2, 0>>, <<0, 2>>, <<2, 2>>, <<4, 0>>}
=============================================================================
