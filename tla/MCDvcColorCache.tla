-------------------------- MODULE MCDvcColorCache ---------------------------
(* The colour cache as an instance for TLC, and what it implements.         *)
EXTENDS DvcColorCache

\* The cached colours, the latest first.
ByRank == [i \in 1..cache.active |-> CHOOSE c \in Cached(cache) : cache.usage[c] = i - 1]

Promise == INSTANCE RecentColors WITH recent <- ByRank,
                                      touched <- Cardinality(InBlock(cache))

\* The cache behaves as a bounded most-recently-used list that forgets, at
\* the end of each block, the colours the block did not use.
IsRecentColors == Promise!Spec
=============================================================================
