-------------------------- MODULE DvcDecoderProofs --------------------------
(***************************************************************************)
(* Whatever the stream, the decoder of ilo2/dvc.py ends or forgets every    *)
(* tile it begins before it runs a command, and it uses the colour cache as *)
(* that is specified on its own: for tiles of any size, any set of colours, *)
(* every size of the cache up to the 17 slots of the code.                  *)
(***************************************************************************)
EXTENDS DvcDecoder, DvcColorCacheProofs

\* The states that repeat the last pixel.
Runs == {"PIXRPT", "PIXRPT1", "PIXDUP", "PIXRPTSTD1", "PIXRPTSTD2", "PIXRPTNSTD"}

\* The latest colour of the cache is of the current tile.
Recent(k) == \E c \in Cached(k) : k.usage[c] = 0 /\ k.block[c] = 1

\* A tile that ends in state s leaves nothing behind.
Clean(s, k, p) == s \notin PixelStates \cup OutOfStep => p = 0 /\ InBlock(k) = {}

DecoderInv ==
  /\ Sound(cache)
  /\ state \in States
  /\ pixels \in 0..BlockSize
  /\ cmd \in Commands
  /\ params \in 0..(ParamSlots + 1)
  /\ fatal \in 0..(FatalLast - 1)
  /\ asked \in BOOLEAN
  /\ Clean(state, cache, pixels)
  /\ state \in Runs => Recent(cache)

-----------------------------------------------------------------------------
(* The graph of states.                                                     *)

LEMMA StateNames ==
  /\ States = {
       "RESET", "START", "PIXELS", "PIXLRU1", "PIXLRU0", "PIXCODE1", "PIXCODE2", "PIXCODE3",
       "PIXGREY", "PIXRGBR", "PIXRPT", "PIXRPT1", "PIXRPTSTD1", "PIXRPTSTD2", "PIXRPTNSTD",
       "CMD", "CMD0", "MOVEXY0", "EXTCMD", "CMDX", "MOVESHORTX", "MOVELONGX", "BLKRPT",
       "EXTCMD1", "FIRMWARE", "EXTCMD2", "MODE0", "TIMEOUT", "BLKRPT1", "BLKRPTSTD",
       "BLKRPTNSTD", "PIXFAN", "PIXCODE4", "PIXDUP", "BLKDUP", "PIXCODE", "PIXSPEC", "EXIT",
       "LATCHED", "MOVEXY1", "MODE1", "PIXRGBG", "PIXRGBB", "HUNT", "PRINT0", "PRINT1",
       "CORP", "MODE2" }
BY DEF States, Table

\* After a pixel: its tile goes on, or a run begins.
LEMMA AfterPixel ==
  ASSUME state \in Widths \cup {"PIXLRU1", "PIXGREY", "PIXRGBB"}, NEW code
  PROVE  Successor(code) \in {"PIXELS", "PIXRPT", "PIXRPT1"}
BY DEF Successor, Table, Widths

LEMMA AfterLeadOn ==
  ASSUME NEW code, cache.fan \in Pixcodes \cup {"PIXCODE"}
  PROVE  /\ state = "START" => Successor(code) \in {"PIXELS", "CMD"}
         /\ state \in {"PIXRPT", "PIXRPT1"} =>
              Successor(code) \in {"PIXELS", "PIXRPT1", "PIXDUP", "PIXRPTSTD1"}
         /\ state \in {"PIXELS", "PIXFAN", "PIXSPEC", "PIXRGBR", "PIXRGBG"} =>
              Successor(code) \in Pixcodes \cup {"PIXFAN", "PIXLRU1", "PIXSPEC", "PIXCODE",
                                                 "PIXGREY", "PIXRGBR", "PIXRGBG", "PIXRGBB"}
         /\ state \in {"BLKRPT", "BLKRPT1"} =>
              Successor(code) \in {"BLKDUP", "BLKRPT1", "BLKRPTSTD", "BLKRPTNSTD"}
BY DEF Successor, Table

LEMMA AfterCommandPrefix ==
  ASSUME state \in {"CMD", "CMD0", "EXTCMD", "CMDX", "EXTCMD1", "EXTCMD2",
                    "MOVEXY0", "MODE0", "MOVEXY1", "MOVESHORTX", "MOVELONGX"}, NEW code
  PROVE  Successor(code) \in {"CMD0", "MOVEXY0", "CMDX", "EXTCMD", "BLKRPT", "EXTCMD1",
                              "MOVESHORTX", "MOVELONGX", "EXTCMD2", "FIRMWARE", "MODE0",
                              "TIMEOUT", "MOVEXY1", "START", "MODE1"}
BY DEF Successor, Table
-----------------------------------------------------------------------------
(* Operations on the cache, as the decoder uses them.                       *)

LEMMA UsedIsRecent ==
  /\ \A k : \A c \in Cached(k) : Recent(Found(k, c))
  /\ \A k : \A c \in Colors : \A j \in Inserted(k, c) : Recent(j)
<1>1. ASSUME NEW k, NEW c \in Cached(k) PROVE Recent(Found(k, c))
  <2> DEFINE j == Found(k, c)
  <2>1. j.usage = Reranked(k, Cached(k), c, k.usage[c])
        /\ j.block = [d \in Cached(k) |-> IF d = c THEN 1 ELSE k.block[d]]
    BY DEF Found
  <2> HIDE DEF j
  <2>2. c \in Cached(j) /\ j.usage[c] = 0 /\ j.block[c] = 1
    BY <2>1, <1>1 DEF Reranked, Cached
  <2>3. Recent(j)
    BY <2>2 DEF Recent
  <2> QED BY <2>3 DEF j
<1>2. ASSUME NEW k, NEW c \in Colors, NEW j \in Inserted(k, c) PROVE Recent(j)
  <2>1. PICK live, r :
          c \in live /\ j.usage = Reranked(k, live, c, r) /\ j.block = Marked(k, live, c)
    <3>1. CASE j = Appended(k, c)
      BY <3>1 DEF Appended
    <3>2. ASSUME NEW old, j = Replaced(k, c, old)
          PROVE  \E live, r : c \in live /\ j.usage = Reranked(k, live, c, r)
                                        /\ j.block = Marked(k, live, c)
      BY <3>2 DEF Replaced
    <3> QED BY <3>1, <3>2 DEF Inserted
  <2>2. c \in Cached(j) /\ j.usage[c] = 0 /\ j.block[c] = 1
    BY <2>1 DEF Reranked, Marked, Cached
  <2> QED BY <2>2 DEF Recent
<1> QED BY <1>1, <1>2

LEMMA PrunedIsClean ==
  ASSUME NEW k PROVE InBlock(Pruned(k)) = {}
<1> DEFINE j == Pruned(k)
<1>1. j.usage = [c \in InBlock(k) |-> k.usage[c]] /\ j.block = [c \in InBlock(k) |-> 0]
  BY DEF Pruned
<1> HIDE DEF j
<1>2. Cached(j) = InBlock(k) /\ \A c \in InBlock(k) : j.block[c] = 0
  BY <1>1 DEF Cached
<1>3. InBlock(j) = {}
  BY <1>2 DEF InBlock
<1> QED BY <1>3 DEF j

LEMMA ClearedIsClean ==
  ASSUME NEW k, Sound(k)
  PROVE  Sound(Cleared(k)) /\ InBlock(Cleared(k)) = {}
<1> DEFINE j == Cleared(k)
<1>1. /\ j.usage = [c \in {} |-> 0] /\ j.block = [c \in {} |-> 0]
      /\ j.active = 0 /\ j.pixcode = k.pixcode /\ j.fan = k.fan
  BY DEF Cleared
<1>2. k.pixcode \in Pixcodes /\ k.fan \in Pixcodes \cup {"PIXCODE"}
  BY DEF Sound
<1> HIDE DEF j
<1>3. Cached(j) = {}
  BY <1>1 DEF Cached
<1>4. Sound(j)
  BY <1>1, <1>2, <1>3, EmptySound
<1>5. InBlock(j) = {}
  BY <1>3 DEF InBlock
<1> QED BY <1>4, <1>5 DEF j

\* To find the latest colour again, if it is of the tile, changes nothing that
\* a prune looks at.
LEMMA LatestAgain ==
  ASSUME NEW k, Sound(k), NEW c \in Cached(k), k.usage[c] = 0, k.block[c] = 1
  PROVE  Pruned(Found(k, c)) = Pruned(k)
<1> DEFINE j == Found(k, c)
<1>1. /\ j.usage = [d \in Cached(k) |-> IF d = c THEN 0
                                         ELSE IF k.usage[d] < 0 THEN k.usage[d] + 1 ELSE k.usage[d]]
      /\ j.block = [d \in Cached(k) |-> IF d = c THEN 1 ELSE k.block[d]]
  BY DEF Found, Reranked
<1>2. \A d \in Cached(k) : k.usage[d] \in Nat
  BY DEF Sound, Numbers
<1> HIDE DEF j
<1>3. Cached(j) = Cached(k)
  BY <1>1 DEF Cached
<1>4. \A d \in Cached(k) : j.usage[d] = k.usage[d] /\ j.block[d] = k.block[d]
  BY <1>1, <1>2
<1>5. InBlock(j) = InBlock(k) /\ InBlock(k) \subseteq Cached(k)
  BY <1>3, <1>4 DEF InBlock
<1>6. [d \in InBlock(j) |-> j.usage[d]] = [d \in InBlock(k) |-> k.usage[d]]
  BY <1>4, <1>5
<1>7. Pruned(j) = Pruned(k)
  BY <1>5, <1>6 DEF Pruned
<1> QED BY <1>7 DEF j
-----------------------------------------------------------------------------
(* The steps.                                                               *)

\* The end of a field, whatever led to it.
LEMMA FieldEnds ==
  ASSUME NEW k, NEW p, NEW next, EndField(k, p, next)
  PROVE  /\ \/ next = "PIXELS" /\ p = BlockSize /\ cache' = Pruned(k) /\ pixels' = 0
               /\ state' \in {"START", "LATCHED"}
            \/ cache' = k /\ pixels' = p /\ state' \in {next, "LATCHED"}
               /\ ~(next = "PIXELS" /\ p = BlockSize)
         /\ fatal' \in {fatal, 0} /\ asked' \in {asked, TRUE}
BY DEF EndField, Goto, Resync

\* A field that is not a pixel completes no tile.
LEMMA PlainFieldEnds ==
  ASSUME NEW k, NEW p, NEW next, next # "PIXELS", EndField(k, p, next)
  PROVE  /\ cache' = k /\ pixels' = p /\ state' \in {next, "LATCHED"}
         /\ fatal' \in {fatal, 0} /\ asked' \in {asked, TRUE}
BY DEF EndField, Goto, Resync

LEMMA EndFieldKeeps ==
  ASSUME DecoderInv, NEW k, NEW p \in 0..BlockSize, NEW next \in States, EndField(k, p, next),
         Sound(k), Clean(next, k, p), next \in Runs => Recent(k),
         cmd' \in Commands, params' \in 0..(ParamSlots + 1)
  PROVE  DecoderInv'
<1>1. /\ \/ next = "PIXELS" /\ p = BlockSize /\ cache' = Pruned(k) /\ pixels' = 0
            /\ state' \in {"START", "LATCHED"}
         \/ cache' = k /\ pixels' = p /\ state' \in {next, "LATCHED"}
      /\ fatal' \in {fatal, 0} /\ asked' \in {asked, TRUE}
  BY FieldEnds
<1>2. /\ {"START", "LATCHED"} \subseteq States /\ {"START", "LATCHED"} \cap Runs = {}
      /\ "LATCHED" \in OutOfStep
  BY StateNames DEF Runs, OutOfStep
<1>3. fatal' \in 0..(FatalLast - 1)
  BY <1>1, FatalAssumption DEF DecoderInv
<1>4. asked' \in BOOLEAN
  BY <1>1 DEF DecoderInv
<1>5. CASE cache' = Pruned(k) /\ pixels' = 0 /\ state' \in {"START", "LATCHED"}
  <2>1. Sound(cache') /\ InBlock(cache') = {} /\ state' \in States /\ state' \notin Runs
    BY <1>2, <1>5, PrunedSound, PrunedIsClean
  <2>2. pixels' \in 0..BlockSize
    BY <1>5, BlockAssumption
  <2>3. Clean(state', cache', pixels')
    BY <1>5, <2>1 DEF Clean
  <2> QED BY <1>3, <1>4, <2>1, <2>2, <2>3 DEF DecoderInv
<1>6. CASE cache' = k /\ pixels' = p /\ state' \in {next, "LATCHED"}
  <2>1. Clean(state', cache', pixels')
    BY <1>2, <1>6 DEF Clean
  <2>2. state' \in Runs => Recent(cache')
    BY <1>2, <1>6
  <2> QED BY <1>2, <1>3, <1>4, <1>6, <2>1, <2>2 DEF DecoderInv
<1> QED BY <1>1, <1>5, <1>6

\* A pixel that may complete its tile.
LEMMA AddPixelKeeps ==
  ASSUME DecoderInv, NEW k, NEW next \in {"PIXELS", "PIXRPT", "PIXRPT1"},
         AddPixel(k, next), Sound(k), Recent(k), UNCHANGED <<cmd, params>>
  PROVE  DecoderInv' /\ (cache' = k \/ cache' = Pruned(k))
<1>1. /\ {"PIXELS", "PIXRPT", "PIXRPT1", "LATCHED"} \subseteq States \cap (PixelStates \cup OutOfStep)
      /\ "LATCHED" \notin Runs
  BY StateNames DEF PixelStates, OutOfStep, Runs
<1>2. pixels \in 0..BlockSize /\ BlockSize \in Nat /\ cmd' \in Commands
      /\ params' \in 0..(ParamSlots + 1)
  BY BlockAssumption DEF DecoderInv
<1>3. CASE pixels = BlockSize /\ EndField(k, pixels, "LATCHED")
  <2>1. DecoderInv'
    BY <1>1, <1>2, <1>3, EndFieldKeeps DEF Clean
  <2> QED BY <2>1, <1>3, FieldEnds
<1>4. CASE pixels # BlockSize /\ EndField(k, pixels + 1, next)
  <2>1. pixels + 1 \in 0..BlockSize
    BY <1>2, <1>4
  <2>2. Clean(next, k, pixels + 1)
    BY <1>1 DEF Clean
  <2>3. DecoderInv'
    BY <1>1, <1>2, <1>4, <2>1, <2>2, EndFieldKeeps
  <2> QED BY <2>3, <1>4, FieldEnds
<1> QED BY <1>3, <1>4 DEF AddPixel

LEMMA PixelKeeps ==
  ASSUME DecoderInv, PixelByRank \/ PixelByColor
  PROVE  DecoderInv' /\ [CacheNext]_cache
<1>1. /\ Sound(cache) /\ pixels \in 0..BlockSize /\ Cached(cache) \subseteq Colors
      /\ UNCHANGED <<cmd, params>> /\ cmd' \in Commands /\ params' \in 0..(ParamSlots + 1)
  BY DEF DecoderInv, Sound, PixelByRank, PixelByColor
<1>2. "LATCHED" \in States /\ "LATCHED" \notin Runs
  BY StateNames DEF Runs
<1>3. \A k : Clean("LATCHED", k, pixels)
  BY DEF Clean, OutOfStep
<1>4. CASE PixelByRank
  <2>1. PICK code \in Codes :
          LET named == Ranked(cache, RankOf(cache, state, code))
          IN  \/ /\ named = {}
                 /\ EndField(cache, pixels, "LATCHED")
              \/ \E c \in named : AddPixel(Found(cache, c), Successor(code))
    BY <1>4 DEF PixelByRank
  <2>2. CASE EndField(cache, pixels, "LATCHED")
    <3>1. DecoderInv'
      BY <1>1, <1>2, <1>3, <2>2, EndFieldKeeps
    <3>2. cache' = cache
      BY <2>2, FieldEnds
    <3> QED BY <3>1, <3>2
  <2>3. ASSUME NEW c \in Cached(cache), AddPixel(Found(cache, c), Successor(code))
        PROVE  DecoderInv' /\ [CacheNext]_cache
    <3>1. Successor(code) \in {"PIXELS", "PIXRPT", "PIXRPT1"}
      BY <1>4, AfterPixel DEF PixelByRank
    <3>2. Sound(Found(cache, c)) /\ Recent(Found(cache, c))
      BY <1>1, FoundSound, UsedIsRecent
    <3>3. DecoderInv' /\ (cache' = Found(cache, c) \/ cache' = Pruned(Found(cache, c)))
      BY <1>1, <2>3, <3>1, <3>2, AddPixelKeeps
    <3>4. UseCached
      BY <3>3 DEF UseCached, Pixel
    <3> QED BY <3>3, <3>4 DEF CacheNext
  <2> QED BY <2>1, <2>2, <2>3 DEF Ranked
<1>5. CASE PixelByColor
  <2>1. Successor(0) \in {"PIXELS", "PIXRPT", "PIXRPT1"}
    BY <1>5, AfterPixel DEF PixelByColor
  <2>2. PICK c \in Colors :
          \/ c \in Cached(cache) /\ EndField(Found(cache, c), pixels, "LATCHED")
          \/ c \notin Cached(cache) /\ \E k \in Inserted(cache, c) : AddPixel(k, Successor(0))
    BY <1>5 DEF PixelByColor
  <2>3. CASE c \in Cached(cache) /\ EndField(Found(cache, c), pixels, "LATCHED")
    <3>1. Sound(Found(cache, c))
      BY <1>1, <2>3, FoundSound
    <3>2. DecoderInv'
      BY <1>1, <1>2, <1>3, <2>3, <3>1, EndFieldKeeps
    <3>3. cache' = Found(cache, c)
      BY <2>3, FieldEnds
    <3>4. UseCached
      BY <2>3, <3>3 DEF UseCached, Pixel
    <3> QED BY <3>2, <3>4 DEF CacheNext
  <2>4. ASSUME c \notin Cached(cache), NEW k \in Inserted(cache, c), AddPixel(k, Successor(0))
        PROVE  DecoderInv' /\ [CacheNext]_cache
    <3>1. Sound(k) /\ Recent(k)
      BY <1>1, <2>4, InsertedSound, UsedIsRecent
    <3>2. DecoderInv' /\ (cache' = k \/ cache' = Pruned(k))
      BY <1>1, <2>1, <2>4, <3>1, AddPixelKeeps
    <3>3. UseNew
      BY <2>4, <3>2 DEF UseNew, Pixel
    <3> QED BY <3>2, <3>3 DEF CacheNext
  <2> QED BY <2>2, <2>3, <2>4
<1> QED BY <1>4, <1>5

\* A run that fills its tile prunes what the latest colour, used once more,
\* would leave: a step the cache knows.
LEMMA RunEnds ==
  ASSUME DecoderInv, state \in Runs, NEW p, NEW next, EndField(cache, p, next)
  PROVE  [CacheNext]_cache
<1>1. PICK c \in Cached(cache) : cache.usage[c] = 0 /\ cache.block[c] = 1
  BY DEF DecoderInv, Recent
<1>2. Sound(cache)
  BY DEF DecoderInv
<1>3. cache' = cache \/ cache' = Pruned(cache)
  BY FieldEnds
<1>4. CASE cache' = Pruned(cache)
  <2>1. cache' = Pruned(Found(cache, c))
    BY <1>1, <1>2, <1>4, LatestAgain
  <2>2. UseCached
    BY <2>1 DEF UseCached, Pixel
  <2> QED BY <2>2 DEF CacheNext
<1> QED BY <1>3, <1>4

LEMMA RepeatKeeps ==
  ASSUME DecoderInv, Repeat
  PROVE  DecoderInv' /\ [CacheNext]_cache
<1>1. /\ Sound(cache) /\ pixels \in 0..BlockSize /\ BlockSize \in Nat
      /\ cmd' \in Commands /\ params' \in 0..(ParamSlots + 1)
  BY BlockAssumption DEF DecoderInv, Repeat
<1>2. state \in Runs /\ Recent(cache)
  BY DEF Repeat, Runs, DecoderInv
<1>3. /\ {"PIXELS", "LATCHED", "PIXRPTSTD2", "PIXRPTNSTD"}
           \subseteq States \cap (PixelStates \cup OutOfStep)
  BY StateNames DEF PixelStates, OutOfStep
<1>4. ASSUME NEW n \in Nat, Fill(n) PROVE DecoderInv' /\ [CacheNext]_cache
  <2>1. CASE pixels + n > BlockSize /\ EndField(cache, BlockSize, "LATCHED")
    <3>1. BlockSize \in 0..BlockSize /\ Clean("LATCHED", cache, BlockSize)
      BY <1>1, <1>3 DEF Clean
    <3>2. DecoderInv'
      BY <1>1, <1>2, <1>3, <2>1, <3>1, EndFieldKeeps
    <3> QED BY <1>2, <2>1, <3>2, RunEnds
  <2>2. CASE ~(pixels + n > BlockSize) /\ EndField(cache, pixels + n, "PIXELS")
    <3>1. pixels + n \in 0..BlockSize
      BY <1>1, <2>2
    <3>2. Clean("PIXELS", cache, pixels + n)
      BY <1>3 DEF Clean
    <3>3. DecoderInv'
      BY <1>1, <1>2, <1>3, <2>2, <3>1, <3>2, EndFieldKeeps
    <3> QED BY <1>2, <2>2, <3>3, RunEnds
  <2> QED BY <1>4, <2>1, <2>2 DEF Fill
<1>5. ASSUME NEW next \in {"PIXRPTSTD2", "PIXRPTNSTD"}, EndField(cache, pixels, next)
      PROVE  DecoderInv' /\ [CacheNext]_cache
  <2>1. Clean(next, cache, pixels)
    BY <1>3 DEF Clean
  <2>2. DecoderInv'
    BY <1>1, <1>2, <1>3, <1>5, <2>1, EndFieldKeeps
  <2> QED BY <1>2, <1>5, <2>2, RunEnds
<1>6. \A code \in Codes : code \in Nat /\ code + 8 \in Nat
  BY DEF Codes
<1>7. \A code \in 0..5 : code + 2 \in Nat
  OBVIOUS
<1> QED BY <1>4, <1>5, <1>6, <1>7 DEF Repeat

LEMMA LeadOnKeeps ==
  ASSUME DecoderInv, LeadOn
  PROVE  DecoderInv' /\ [CacheNext]_cache
<1>1. /\ Sound(cache) /\ pixels \in 0..BlockSize /\ BlockSize # 0
      /\ cache.fan \in Pixcodes \cup {"PIXCODE"} /\ Clean(state, cache, pixels)
      /\ cmd' \in Commands /\ params' \in 0..(ParamSlots + 1)
  BY BlockAssumption DEF DecoderInv, Sound, LeadOn
<1>2. PICK code \in Codes : EndField(cache, pixels, Successor(code))
  BY DEF LeadOn
<1> DEFINE next == Successor(code)
<1>3. CASE state = "START"
  <2>1. next \in {"PIXELS", "CMD"} /\ pixels = 0
    BY <1>1, <1>3, AfterLeadOn DEF Clean, PixelStates, Widths, OutOfStep
  <2>2. InBlock(cache) = {}
    BY <1>1, <1>3 DEF Clean, PixelStates, Widths, OutOfStep
  <2> HIDE DEF next
  <2>3. next \in States /\ next \notin Runs /\ Clean(next, cache, pixels)
    BY <2>1, <2>2, StateNames DEF Runs, Clean
  <2>4. EndField(cache, pixels, next)
    BY <1>2 DEF next
  <2>5. DecoderInv'
    BY <1>1, <2>3, <2>4, EndFieldKeeps
  <2>6. cache' = cache
    BY <1>1, <2>1, <2>4, FieldEnds
  <2> QED BY <2>5, <2>6
<1>4. CASE state \in {"PIXRPT", "PIXRPT1"}
  <2>1. next \in {"PIXELS", "PIXRPT1", "PIXDUP", "PIXRPTSTD1"}
    BY <1>1, <1>4, AfterLeadOn
  <2>2. state \in Runs /\ Recent(cache)
    BY <1>4 DEF Runs, DecoderInv
  <2> HIDE DEF next
  <2>3. next \in States /\ Clean(next, cache, pixels)
    BY <2>1, StateNames DEF Clean, PixelStates
  <2>4. EndField(cache, pixels, next)
    BY <1>2 DEF next
  <2>5. DecoderInv'
    BY <1>1, <2>2, <2>3, <2>4, EndFieldKeeps
  <2> QED BY <2>2, <2>4, <2>5, RunEnds
<1>5. CASE state \in {"PIXELS", "PIXFAN", "PIXSPEC", "PIXRGBR", "PIXRGBG"}
  <2>1. next \in Pixcodes \cup {"PIXFAN", "PIXLRU1", "PIXSPEC", "PIXCODE",
                                "PIXGREY", "PIXRGBR", "PIXRGBG", "PIXRGBB"}
    BY <1>1, <1>5, AfterLeadOn
  <2> HIDE DEF next
  <2>2. next \in States /\ next \notin Runs /\ next # "PIXELS" /\ Clean(next, cache, pixels)
    BY <2>1, StateNames DEF Clean, PixelStates, OutOfStep, Pixcodes, Widths, Runs
  <2>3. EndField(cache, pixels, next)
    BY <1>2 DEF next
  <2>4. DecoderInv'
    BY <1>1, <2>2, <2>3, EndFieldKeeps
  <2>5. cache' = cache
    BY <2>2, <2>3, FieldEnds
  <2> QED BY <2>4, <2>5
<1>6. CASE state \in {"BLKRPT", "BLKRPT1"}
  <2>1. next \in {"BLKDUP", "BLKRPT1", "BLKRPTSTD", "BLKRPTNSTD"}
    BY <1>1, <1>6, AfterLeadOn
  <2>2. pixels = 0 /\ InBlock(cache) = {}
    BY <1>1, <1>6 DEF Clean, PixelStates, Widths, OutOfStep
  <2> HIDE DEF next
  <2>3. next \in States /\ next \notin Runs /\ next # "PIXELS" /\ Clean(next, cache, pixels)
    BY <2>1, <2>2, StateNames DEF Runs, Clean
  <2>4. EndField(cache, pixels, next)
    BY <1>2 DEF next
  <2>5. DecoderInv'
    BY <1>1, <2>3, <2>4, EndFieldKeeps
  <2>6. cache' = cache
    BY <2>3, <2>4, FieldEnds
  <2> QED BY <2>5, <2>6
<1> QED BY <1>3, <1>4, <1>5, <1>6 DEF LeadOn

\* Between tiles: commands leave pixels and colours as they are.
LEMMA CommandEnds ==
  ASSUME DecoderInv, state \notin PixelStates \cup OutOfStep,
         NEW next \in States \ (Runs \cup {"PIXELS"}), EndField(cache, pixels, next),
         cmd' \in Commands, params' \in 0..(ParamSlots + 1)
  PROVE  DecoderInv' /\ [CacheNext]_cache
<1>1. Sound(cache) /\ pixels \in 0..BlockSize /\ pixels = 0 /\ InBlock(cache) = {}
  BY DEF DecoderInv, Clean
<1>2. Clean(next, cache, pixels)
  BY <1>1 DEF Clean
<1>3. DecoderInv'
  BY <1>1, <1>2, EndFieldKeeps
<1>4. cache' = cache
  BY FieldEnds
<1> QED BY <1>3, <1>4

LEMMA CommandKeeps ==
  ASSUME DecoderInv, CommandPrefix \/ Move \/ Timeout \/ Firmware \/ Corp \/ PrintText
  PROVE  DecoderInv' /\ [CacheNext]_cache
<1>1. cmd \in Commands /\ params \in 0..(ParamSlots + 1) /\ ParamSlots \in Nat
  BY CodeAssumption DEF DecoderInv
<1>2. {"CMD0", "MOVEXY0", "CMDX", "EXTCMD", "BLKRPT", "EXTCMD1", "MOVESHORTX", "MOVELONGX",
       "EXTCMD2", "FIRMWARE", "MODE0", "TIMEOUT", "MOVEXY1", "START", "MODE1", "LATCHED",
       "CORP", "EXIT", "PRINT0", "PRINT1"} \subseteq States \ (Runs \cup {"PIXELS"})
  BY StateNames DEF Runs
<1>3. state \in {"CMD", "CMD0", "EXTCMD", "CMDX", "EXTCMD1", "EXTCMD2", "MOVEXY0", "MODE0",
                 "MOVEXY1", "MOVESHORTX", "MOVELONGX", "TIMEOUT", "FIRMWARE", "CORP",
                 "PRINT0", "PRINT1"}
  BY DEF CommandPrefix, Move, Timeout, Firmware, Corp, PrintText
<1>4. state \notin PixelStates \cup OutOfStep
  BY <1>3 DEF PixelStates, Widths, OutOfStep
<1>5. CASE CommandPrefix \/ Move
  <2>1. PICK code : EndField(cache, pixels, Successor(code))
    BY <1>5 DEF CommandPrefix, Move
  <2>2. Successor(code) \in {"CMD0", "MOVEXY0", "CMDX", "EXTCMD", "BLKRPT", "EXTCMD1",
                             "MOVESHORTX", "MOVELONGX", "EXTCMD2", "FIRMWARE", "MODE0",
                             "TIMEOUT", "MOVEXY1", "START", "MODE1"}
    BY <1>5, AfterCommandPrefix DEF CommandPrefix, Move
  <2>3. UNCHANGED <<cmd, params>>
    BY <1>5 DEF CommandPrefix, Move
  <2> QED BY <1>1, <1>2, <1>4, <2>1, <2>2, <2>3, CommandEnds
<1>6. CASE Timeout
  BY <1>1, <1>2, <1>4, <1>6, CommandEnds DEF Timeout
<1>7. CASE Firmware
  <2>1. CASE UNCHANGED dvcVars
    BY <2>1 DEF DecoderInv, dvcVars
  <2>2. CASE params <= ParamSlots /\ params' = params + 1 /\ cmd' \in Commands
             /\ EndField(cache, pixels, "CORP")
    <3>1. params' \in 0..(ParamSlots + 1)
      BY <1>1, <2>2
    <3> QED BY <1>2, <1>4, <2>2, <3>1, CommandEnds
  <2> QED BY <1>7, <2>1, <2>2 DEF Firmware
<1>8. CASE Corp
  <2>1. PICK next \in {"FIRMWARE", "EXIT", "PRINT0", "START"} : EndField(cache, pixels, next)
    BY <1>8 DEF Corp
  <2>2. params' \in {params, 0} /\ cmd' = cmd
    BY <1>8 DEF Corp
  <2>3. params' \in 0..(ParamSlots + 1)
    BY <1>1, <2>2
  <2> QED BY <1>1, <1>2, <1>4, <2>1, <2>2, <2>3, CommandEnds
<1>9. CASE PrintText
  <2>1. PICK next \in {"PRINT1", "START"} : EndField(cache, pixels, next)
    BY <1>9 DEF PrintText
  <2>2. UNCHANGED <<cmd, params>>
    BY <1>9 DEF PrintText
  <2> QED BY <1>1, <1>2, <1>4, <2>1, <2>2, CommandEnds
<1> QED BY <1>5, <1>6, <1>7, <1>8, <1>9

LEMMA OtherFieldsKeep ==
  ASSUME DecoderInv, PixelCode \/ RepeatTiles \/ NewMode \/ Reset
  PROVE  DecoderInv' /\ [CacheNext]_cache
<1>1. /\ Sound(cache) /\ pixels \in 0..BlockSize /\ 0 \in 0..BlockSize
      /\ Clean(state, cache, pixels) /\ cmd \in Commands
      /\ params \in 0..(ParamSlots + 1) /\ 0 \in 0..(ParamSlots + 1)
      /\ fatal \in 0..(FatalLast - 1) /\ 0 \in 0..(FatalLast - 1) /\ asked \in BOOLEAN
  <2>1. 0 \in 0..BlockSize /\ 0 \in 0..(ParamSlots + 1)
    BY BlockAssumption, CodeAssumption
  <2>2. 0 \in 0..(FatalLast - 1)
    BY FatalAssumption
  <2> QED BY <2>1, <2>2 DEF DecoderInv
<1>2. "START" \in States /\ "START" \notin Runs /\ "MODE2" \in States /\ "MODE2" \notin Runs
  BY StateNames DEF Runs
<1>3. CASE PixelCode
  <2>1. EndField(cache, pixels, cache.pixcode) /\ UNCHANGED <<cmd, params>>
    BY <1>3 DEF PixelCode
  <2>2. cache.pixcode \in Widths \cup {"LATCHED"}
    BY <1>1 DEF Sound, Pixcodes
  <2>3. /\ cache.pixcode \in States \ (Runs \cup {"PIXELS"})
        /\ Clean(cache.pixcode, cache, pixels)
    BY <2>2, StateNames DEF Runs, Widths, Clean, PixelStates, OutOfStep
  <2>4. DecoderInv'
    BY <1>1, <2>1, <2>3, EndFieldKeeps
  <2>5. cache' = cache
    BY <2>1, <2>3, FieldEnds
  <2> QED BY <2>4, <2>5
<1>4. CASE RepeatTiles
  <2>1. EndField(cache, 0, "START") /\ UNCHANGED <<cmd, params>>
        /\ state \in {"BLKDUP", "BLKRPTSTD", "BLKRPTNSTD"}
    BY <1>4 DEF RepeatTiles
  <2>2. InBlock(cache) = {}
    BY <1>1, <2>1 DEF Clean, PixelStates, Widths, OutOfStep
  <2>3. Clean("START", cache, 0)
    BY <2>2 DEF Clean
  <2>4. DecoderInv'
    BY <1>1, <1>2, <2>1, <2>3, EndFieldKeeps
  <2>5. cache' = cache
    BY <2>1, FieldEnds
  <2> QED BY <2>4, <2>5
<1>5. CASE state = "MODE1" /\ EndField(cache, pixels, "MODE2") /\ UNCHANGED <<cmd, params>>
  <2>1. state \notin PixelStates \cup OutOfStep /\ "MODE2" # "PIXELS"
    BY <1>5 DEF PixelStates, Widths, OutOfStep
  <2> QED BY <1>1, <1>2, <1>5, <2>1, CommandEnds
<1>6. CASE state = "MODE2" /\ EndField(Cleared(cache), 0, "START") /\ UNCHANGED <<cmd, params>>
  <2>1. Sound(Cleared(cache)) /\ InBlock(Cleared(cache)) = {}
    BY <1>1, ClearedIsClean
  <2>2. Clean("START", Cleared(cache), 0)
    BY <2>1 DEF Clean
  <2>3. DecoderInv'
    BY <1>1, <1>2, <1>6, <2>1, <2>2, EndFieldKeeps
  <2> DEFINE k == Cleared(cache)
             next == "START"
  <2>4. next # "PIXELS" /\ EndField(k, 0, next)
    BY <1>6
  <2> HIDE DEF k, next
  <2>5. cache' = k
    BY <2>4, PlainFieldEnds
  <2>6. cache' = Cleared(cache)
    BY <2>5 DEF k
  <2> QED BY <2>3, <2>6 DEF CacheNext, Clear
<1>7. CASE Reset
  <2>1. /\ cache' = Cleared(cache) /\ state' = "START" /\ pixels' = 0
        /\ fatal' = 0 /\ params' = 0 /\ UNCHANGED <<cmd, asked>>
    BY <1>7 DEF Reset
  <2>2. Sound(cache') /\ InBlock(cache') = {}
    BY <1>1, <2>1, ClearedIsClean
  <2>3. Clean(state', cache', pixels')
    BY <2>1, <2>2 DEF Clean
  <2>4. DecoderInv'
    BY <1>1, <1>2, <2>1, <2>2, <2>3 DEF DecoderInv
  <2> QED BY <2>1, <2>4 DEF CacheNext, Clear
<1> QED BY <1>3, <1>4, <1>5, <1>6, <1>7 DEF NewMode

\* Out of step, no tile counts.
LEMMA OutOfStepKeeps ==
  ASSUME DecoderInv, Latched \/ Hunt \/ Exit \/ ResetSequence \/ Answer \/ RequestLost
  PROVE  DecoderInv' /\ [CacheNext]_cache
<1>1. /\ {"LATCHED", "HUNT", "RESET"} \subseteq States /\ {"LATCHED", "HUNT", "RESET"} \cap Runs = {}
      /\ {"LATCHED", "HUNT", "RESET"} = OutOfStep
  BY StateNames DEF Runs, OutOfStep
<1>2. fatal \in 0..(FatalLast - 1) /\ FatalLast \in Nat /\ FatalAgain \in 0..(FatalLast - 1)
      /\ 0 \in 0..(FatalLast - 1)
  BY FatalAssumption DEF DecoderInv
<1>3. asked \in BOOLEAN
  BY DEF DecoderInv
<1>4. ASSUME UNCHANGED <<cache, pixels, cmd, params>>, state' \in OutOfStep \/ state' = state,
             fatal' \in 0..(FatalLast - 1), asked' \in BOOLEAN
      PROVE  DecoderInv' /\ [CacheNext]_cache
  <2>1. state' \in States /\ Clean(state', cache', pixels') /\ (state' \in Runs => Recent(cache'))
    BY <1>1, <1>4 DEF DecoderInv, Clean
  <2> QED BY <1>4, <2>1 DEF DecoderInv
<1>5. CASE Latched
  <2>1. fatal' \in 0..(FatalLast - 1)
    <3>1. fatal' = IF fatal + 1 = FatalLast THEN FatalAgain ELSE fatal + 1
      BY <1>5 DEF Latched
    <3> QED BY <3>1, <1>2
  <2>2. asked' \in BOOLEAN
    BY <1>5 DEF Latched
  <2> QED BY <1>4, <1>5, <2>1, <2>2 DEF Latched
<1>6. CASE HuntEnds
  <2>1. EndField(cache, pixels, "RESET") /\ UNCHANGED <<cmd, params>>
    BY <1>6 DEF HuntEnds
  <2> DEFINE next == "RESET"
  <2>2. next # "PIXELS" /\ EndField(cache, pixels, next)
    BY <2>1
  <2> HIDE DEF next
  <2>3. /\ cache' = cache /\ pixels' = pixels /\ state' \in {next, "LATCHED"}
        /\ fatal' \in {fatal, 0} /\ asked' \in {asked, TRUE}
    BY <2>2, PlainFieldEnds
  <2>4. state' \in {"RESET", "LATCHED"}
    BY <2>3 DEF next
  <2>5. fatal' \in 0..(FatalLast - 1) /\ asked' \in BOOLEAN
    BY <1>2, <1>3, <2>3
  <2> QED BY <1>1, <1>4, <2>1, <2>3, <2>4, <2>5
<1>7. CASE UNCHANGED dvcVars
  BY <1>2, <1>3, <1>4, <1>7 DEF dvcVars
<1>8. CASE Exit
  BY <1>1, <1>2, <1>4, <1>8 DEF Exit, Resync
<1>9. CASE ResetSequence
  BY <1>1, <1>2, <1>3, <1>4, <1>9 DEF ResetSequence
<1>10. CASE Answer
  BY <1>1, <1>2, <1>4, <1>10 DEF Answer
<1>11. CASE RequestLost
  BY <1>2, <1>4, <1>11 DEF RequestLost
<1> QED BY <1>5, <1>6, <1>7, <1>8, <1>9, <1>10, <1>11 DEF Hunt
-----------------------------------------------------------------------------
(* What the decoder does at all times.                                      *)

LEMMA InitDecoder == DecoderInit => DecoderInv
<1> SUFFICES ASSUME DecoderInit PROVE DecoderInv
  OBVIOUS
<1>1. /\ CacheInit /\ state = "RESET" /\ pixels = 0 /\ cmd = "other" /\ params = 0
      /\ fatal = 0 /\ asked = FALSE
  BY DEF DecoderInit
<1>2. Sound(cache)
  BY <1>1, InitSound
<1>3. 0 \in 0..BlockSize /\ 0 \in 0..(ParamSlots + 1) /\ 0 \in 0..(FatalLast - 1)
  BY BlockAssumption, CodeAssumption, FatalAssumption
<1>4. "RESET" \in States /\ "RESET" \notin Runs /\ Clean("RESET", cache, 0)
  BY StateNames DEF Runs, Clean, OutOfStep
<1> QED BY <1>1, <1>2, <1>3, <1>4 DEF DecoderInv, Commands

LEMMA DecoderStep ==
  ASSUME DecoderInv, [DecoderNext]_dvcVars
  PROVE  DecoderInv' /\ [CacheNext]_cache
<1>1. CASE UNCHANGED dvcVars
  BY <1>1 DEF dvcVars, DecoderInv
<1> QED
  BY <1>1, PixelKeeps, RepeatKeeps, LeadOnKeeps, CommandKeeps, OtherFieldsKeep, OutOfStepKeeps
  DEF DecoderNext, Field

LEMMA DecoderAlways == DecoderSpec => []DecoderInv
BY InitDecoder, DecoderStep, PTL DEF DecoderSpec

\* dvc_pixel_count never passes dvc_size of a block, cmd_p_count the buffer by
\* more than the byte that raises, fatal_count its last threshold; and the cache
\* keeps its types.
THEOREM DecoderTypeCorrect == DecoderSpec => []DecoderTypeOK
<1>1. DecoderInv => DecoderTypeOK
  <2> SUFFICES ASSUME DecoderInv PROVE DecoderTypeOK
    OBVIOUS
  <2>1. CacheTypeOK
    BY SoundTypes DEF DecoderInv
  <2>2. fatal \in 0..FatalLast
    BY FatalAssumption DEF DecoderInv
  <2> QED BY <2>1, <2>2 DEF DecoderInv, DecoderTypeOK
<1> QED BY <1>1, DecoderAlways, PTL

\* Whatever the stream, resets in the middle of a tile, overflowing runs and
\* latches included: a command, a repetition or a new mode never finds pixels
\* or colours of a tile that was begun.
THEOREM CommandsBetweenTiles == DecoderSpec => []WholeTiles
<1>1. DecoderInv => WholeTiles
  BY DEF DecoderInv, Clean, WholeTiles
<1> QED BY <1>1, DecoderAlways, PTL

\* The decoder implements the specification of the colour cache: each of its
\* calls of cache_lru, cache_find, cache_prune and cache_reset, in the order its
\* states make them, is a step of the cache or leaves it alone.
THEOREM DecoderUsesCache == DecoderSpec => UsesCache
<1>1. DecoderInit => CacheInit
  BY DEF DecoderInit
<1>2. DecoderInv /\ [DecoderNext]_dvcVars => [CacheNext]_cache
  BY DecoderStep
<1> QED BY <1>1, <1>2, DecoderAlways, PTL DEF DecoderSpec, UsesCache

\* So what is proved of the cache on its own holds in the decoder: the ranks are
\* a permutation, every cached colour can be named, and whatever the stream, the
\* cache is a list of the most recent colours.
THEOREM DecoderRanks == DecoderSpec => [](Ranks /\ Addressable) /\ IsRecentColors
<1>1. UsesCache <=> CacheSpec
  BY DEF UsesCache, CacheSpec
<1> QED
  BY <1>1, DecoderUsesCache, RanksArePermutation, EveryColorHasACode, RanksAreRecency, PTL
=============================================================================
