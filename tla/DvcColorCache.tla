---------------------------- MODULE DvcColorCache ---------------------------
(***************************************************************************)
(* The colour cache of the video decoder (ilo2/dvc.py).  The iLO2 keeps the *)
(* same cache, so that it can send the rank of a recent colour instead of   *)
(* the colour; the two stay equal only if every replacement, hit and prune  *)
(* reorders the ranks exactly.  The arrays dvc_cc_color, dvc_cc_usage and   *)
(* dvc_cc_block are functions of the cached colour: which slot of the array *)
(* a colour is in decides nothing as long as ranks are unique (Ranks).      *)
(***************************************************************************)
EXTENDS Naturals, FiniteSets

CONSTANTS Colors,  \* RGB444 values
          Slots    \* 17 in the code

ASSUME SlotsAssumption == Slots \in 1..17
ASSUME ColorsAssumption == Colors # {}

VARIABLE cache  \* usage: rank of each cached colour, 0 the latest
                \* block: 1 if it was used in the current block of pixels
                \* active: the number of cached colours
                \* pixcode: the state that reads the rank of a pixel
                \* fan: NEXT_1[31], the successor of PIXFAN, a table that all
                \*      decoders of the process share

Widths == {"PIXLRU0", "PIXCODE1", "PIXCODE2", "PIXCODE3", "PIXCODE4"}
Pixcodes == Widths \cup {"LATCHED"}
Cached(k) == DOMAIN k.usage

\* Mutant: the second bound is off by one.
PixcodeOffByOne(n) ==
  CASE n < 2 -> "LATCHED"
    [] n = 2 -> "PIXLRU0"
    [] n = 3 -> "PIXCODE1"
    [] n \in 4..6 -> "PIXCODE2"
    [] n \in 7..9 -> "PIXCODE3"
    [] OTHER -> "PIXCODE4"

\* The narrowest state that can name the ranks of n colours.
PixcodeFor(n) ==
  CASE n < 2 -> "LATCHED"
    [] n = 2 -> "PIXLRU0"
    [] n = 3 -> "PIXCODE1"
    [] n \in 4..5 -> "PIXCODE2"
    [] n \in 6..9 -> "PIXCODE3"
    [] OTHER -> "PIXCODE4"

\* The codes a state can read: its width in bits is BITS_TO_READ.
CodesOf(state) ==
  CASE state \in {"PIXLRU0", "PIXLRU1", "PIXCODE1"} -> 0..1
    [] state = "PIXCODE2" -> 0..3
    [] state = "PIXCODE3" -> 0..7
    [] state = "PIXCODE4" -> 0..15
    [] OTHER -> {}

\* The rank that a code means.  PIXLRU1 has taken rank 1, the others skip it.
RankOf(k, state, code) ==
  IF k.active = 1 THEN k.usage[CHOOSE c \in Cached(k) : TRUE]
  ELSE CASE state = "PIXLRU0" -> 0
         [] state = "PIXLRU1" -> 1
         [] OTHER             -> IF code = 0 THEN 0 ELSE code + 1

Ranked(k, n) == {c \in Cached(k) : k.usage[c] = n}

NewCache(fan) == [usage |-> [c \in {} |-> 0], block |-> [c \in {} |-> 0],
                  active |-> 0, pixcode |-> "LATCHED", fan |-> fan]

\* cache_reset(): the pixel code and the shared table stay as they are.
Cleared(k) == [usage |-> [c \in {} |-> 0], block |-> [c \in {} |-> 0],
               active |-> 0, pixcode |-> k.pixcode, fan |-> k.fan]

\* The ranks once c, whose rank was r, is the latest.
Reranked(k, live, c, r) ==
  [d \in live |-> IF d = c THEN 0
                  ELSE IF k.usage[d] < r THEN k.usage[d] + 1 ELSE k.usage[d]]

\* Mutant: the colour found is not marked as used in the block.
FoundUnmarked(k, c) ==
  [usage |-> Reranked(k, Cached(k), c, k.usage[c]),
   block |-> k.block,
   active |-> k.active, pixcode |-> k.pixcode, fan |-> k.fan]

\* A cached colour is used: cache_find(), or a hit of cache_lru().
Found(k, c) ==
  [usage |-> Reranked(k, Cached(k), c, k.usage[c]),
   block |-> [d \in Cached(k) |-> IF d = c THEN 1 ELSE k.block[d]],
   active |-> k.active, pixcode |-> k.pixcode, fan |-> k.fan]

Marked(k, live, c) == [d \in live |-> IF d = c THEN 1 ELSE k.block[d]]

\* A new colour takes a free slot, and the pixel code follows the size ...
Appended(k, c) ==
  LET live == Cached(k) \cup {c}
  IN  [usage |-> Reranked(k, live, c, k.active),
       block |-> Marked(k, live, c),
       active |-> k.active + 1,
       pixcode |-> PixcodeFor(k.active + 1), fan |-> PixcodeFor(k.active + 1)]

\* ... or the slot of the least recently used.
Replaced(k, c, old) ==
  LET live == (Cached(k) \ {old}) \cup {c}
  IN  [usage |-> Reranked(k, live, c, k.usage[old]),
       block |-> Marked(k, live, c),
       active |-> k.active, pixcode |-> k.pixcode, fan |-> k.fan]

\* Mutant: the latest colour is replaced.
InsertedOverLatest(k, c) ==
  IF k.active < Slots THEN {Appended(k, c)}
                      ELSE {Replaced(k, c, old) : old \in Ranked(k, 0)}

\* Mutant: the array is taken to have a slot more than it has.
InsertedBeyond(k, c) ==
  IF k.active <= Slots THEN {Appended(k, c)}
                       ELSE {Replaced(k, c, old) : old \in Ranked(k, k.active - 1)}

\* cache_lru() of a colour that is not cached.
Inserted(k, c) ==
  IF k.active < Slots THEN {Appended(k, c)}
                      ELSE {Replaced(k, c, old) : old \in Ranked(k, k.active - 1)}

InBlock(k) == {c \in Cached(k) : k.block[c] = 1}

\* cache_prune(): what the block that just ended did not use is dropped.
Pruned(k) ==
  LET n == Cardinality(InBlock(k))
  IN  [usage |-> [c \in InBlock(k) |-> k.usage[c]],
       block |-> [c \in InBlock(k) |-> 0],
       active |-> n, pixcode |-> PixcodeFor(n), fan |-> PixcodeFor(n)]
-----------------------------------------------------------------------------
(* The cache on its own: pixels of any colours, in blocks of any length.    *)

CacheInit == \E fan \in Pixcodes \cup {"PIXCODE"} : cache = NewCache(fan)

\* A pixel; the one that completes its block is followed by a prune.
Pixel(k) == cache' = k \/ cache' = Pruned(k)

UseCached == \E c \in Cached(cache) : Pixel(Found(cache, c))
UseNew == \E c \in Colors \ Cached(cache) : \E k \in Inserted(cache, c) : Pixel(k)
Clear == cache' = Cleared(cache)

CacheNext == UseCached \/ UseNew \/ Clear
CacheSpec == CacheInit /\ [][CacheNext]_cache
-----------------------------------------------------------------------------
\* The fields have their types, and a width is only ever one of the states'.
CacheTypeOK ==
  /\ Cached(cache) \subseteq Colors
  /\ DOMAIN cache.block = Cached(cache)
  /\ \A c \in Cached(cache) : cache.usage[c] \in Nat /\ cache.block[c] \in {0, 1}
  /\ cache.active \in 0..Slots
  /\ cache.pixcode \in Pixcodes
  /\ cache.fan \in Pixcodes \cup {"PIXCODE"}

\* The ranks are a permutation of 0 .. active - 1, and what the block used
\* ranks before what it did not: dropping the rest leaves no gap.
Ranks ==
  /\ \A c \in Cached(cache) : cache.usage[c] < cache.active
  /\ \A n \in 0..(cache.active - 1) : \E c \in Cached(cache) : cache.usage[c] = n
  /\ \A c, d \in Cached(cache) : cache.usage[c] = cache.usage[d] => c = d
  /\ \A c, d \in Cached(cache) :
       cache.block[c] = 1 /\ cache.block[d] = 0 => cache.usage[c] < cache.usage[d]

\* Every cached colour can be named: by PIXLRU1, or by a code of the state
\* that follows PIXFAN, which is the pixel code of this cache.
Addressable ==
  \A c \in Cached(cache) : \E state \in {"PIXLRU1", cache.fan} :
    /\ state \in {"PIXLRU1", cache.pixcode}
    /\ \E code \in CodesOf(state) : cache.usage[c] = RankOf(cache, state, code)
=============================================================================
