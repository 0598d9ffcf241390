---------------------------- MODULE MCWebClients ----------------------------
(* Instances of WebClients for TLC.                                         *)
EXTENDS WebClients, TLC

\* Two video modes of one row, with tiles of one pixel.
MCSizes == {<<3, 1>>, <<2, 1>>}

\* One of them is enough where pixels do not matter.
OneMode == {<<2, 1>>}

\* Tiles that never begin a dirty box at the origin.
AwayFromOrigin == {<<1, 0>>, <<2, 0>>}

OneTile == {<<1, 0>>}

\* ... and one that does.
WithOrigin == {<<0, 0>>, <<2, 0>>}

\* Liveness of two pages: at most two of the paintings, state changes, forced frames
\* and pages that are gone, of any kind, but not a painting and a state change.  None
\* of the fair steps makes them more, so what is left are behaviours of FairSpec.
Few ==
  /\ version + (MaxSets - sets) + (MaxForces - forces) + Cardinality(Gone) <= 2
  /\ version = 0 \/ sets = MaxSets

\* The clients are interchangeable (safety only).
AnyClient == Permutations(Clients)
=============================================================================
