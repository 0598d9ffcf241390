----------------------------- MODULE DvcDecoder -----------------------------
(***************************************************************************)
(* ilo2/dvc.py: the decoder of the video stream, a graph of 48 states.  A   *)
(* step reads one field and runs its handler; the bits of a field, which    *)
(* the stream chooses, are chosen by the step.  Colours are those of the    *)
(* cache; where a tile goes and what it shows are left out (FrameStream     *)
(* takes any tile at any place), so are texts and the frame rate.           *)
(* The iLO2 at the other end, the channel and the receiver thread that      *)
(* feeds the decoder are its environment.                                   *)
(***************************************************************************)
EXTENDS DvcColorCache

CONSTANTS BlockSize,   \* pixels of a tile: 256 in the code
          MaxCode,     \* bound: codes of wider fields are not tried beyond it
          ParamSlots,  \* bytes of cmd_p_buff: 256 in the code
          FatalFirst, FatalSecond, FatalLast, FatalAgain
                       \* 11680, 120000, 12000000 and 41 in the code

ASSUME BlockAssumption == BlockSize \in Nat \ {0}
ASSUME CodeAssumption == MaxCode \in Nat /\ ParamSlots \in Nat
ASSUME FatalAssumption ==
  /\ {FatalFirst, FatalSecond, FatalLast, FatalAgain} \subseteq Nat
  /\ FatalAgain <= FatalFirst /\ FatalFirst < FatalSecond /\ FatalSecond < FatalLast

VARIABLES state,   \* dvc_decoder_state
          pixels,  \* dvc_pixel_count
          cmd,     \* cmd_last, as far as the decoder acts on it
          params,  \* cmd_p_count
          fatal,   \* fatal_count
          asked    \* a refresh request is on its way to the iLO2

dvcVars == <<cache, state, pixels, cmd, params, fatal, asked>>

\* BITS_TO_READ, NEXT_0 and NEXT_1.
Table == [
  RESET |-> <<0, "START", "START">>, START |-> <<1, "PIXELS", "CMD">>,
  PIXELS |-> <<1, "PIXFAN", "PIXLRU1">>, PIXLRU1 |-> <<1, "PIXELS", "PIXRPT1">>,
  PIXLRU0 |-> <<1, "PIXELS", "PIXRPT1">>, PIXCODE1 |-> <<1, "PIXRPT", "PIXRPT">>,
  PIXCODE2 |-> <<2, "PIXRPT", "PIXRPT">>, PIXCODE3 |-> <<3, "PIXRPT", "PIXRPT">>,
  PIXGREY |-> <<4, "PIXRPT", "PIXRPT">>, PIXRGBR |-> <<4, "PIXRGBG", "PIXRGBG">>,
  PIXRPT |-> <<1, "PIXELS", "PIXRPT1">>, PIXRPT1 |-> <<1, "PIXDUP", "PIXRPTSTD1">>,
  PIXRPTSTD1 |-> <<3, "PIXELS", "PIXELS">>, PIXRPTSTD2 |-> <<3, "PIXELS", "PIXELS">>,
  PIXRPTNSTD |-> <<8, "PIXELS", "PIXELS">>, CMD |-> <<1, "CMD0", "MOVEXY0">>,
  CMD0 |-> <<1, "CMDX", "EXTCMD">>, MOVEXY0 |-> <<7, "MOVEXY1", "MOVEXY1">>,
  EXTCMD |-> <<1, "BLKRPT", "EXTCMD1">>, CMDX |-> <<1, "MOVESHORTX", "MOVELONGX">>,
  MOVESHORTX |-> <<3, "START", "START">>, MOVELONGX |-> <<7, "START", "START">>,
  BLKRPT |-> <<1, "BLKDUP", "BLKRPT1">>, EXTCMD1 |-> <<1, "EXTCMD2", "FIRMWARE">>,
  FIRMWARE |-> <<8, "CORP", "CORP">>, EXTCMD2 |-> <<1, "MODE0", "TIMEOUT">>,
  MODE0 |-> <<7, "MODE1", "MODE1">>, TIMEOUT |-> <<0, "START", "START">>,
  BLKRPT1 |-> <<1, "BLKRPTSTD", "BLKRPTNSTD">>, BLKRPTSTD |-> <<3, "START", "START">>,
  BLKRPTNSTD |-> <<7, "START", "START">>, PIXFAN |-> <<1, "PIXSPEC", "PIXCODE">>,
  PIXCODE4 |-> <<4, "PIXRPT", "PIXRPT">>, PIXDUP |-> <<0, "PIXELS", "PIXELS">>,
  BLKDUP |-> <<0, "START", "START">>, PIXCODE |-> <<0, "PIXCODE", "PIXCODE">>,
  PIXSPEC |-> <<1, "PIXGREY", "PIXRGBR">>, EXIT |-> <<0, "EXIT", "EXIT">>,
  LATCHED |-> <<1, "LATCHED", "LATCHED">>, MOVEXY1 |-> <<7, "START", "START">>,
  MODE1 |-> <<7, "MODE2", "MODE2">>, PIXRGBG |-> <<4, "PIXRGBB", "PIXRGBB">>,
  PIXRGBB |-> <<4, "PIXRPT", "PIXRPT">>, HUNT |-> <<1, "HUNT", "RESET">>,
  PRINT0 |-> <<8, "PRINT1", "PRINT1">>, PRINT1 |-> <<8, "PRINT1", "PRINT1">>,
  CORP |-> <<1, "START", "FIRMWARE">>, MODE2 |-> <<4, "START", "START">> ]

States == DOMAIN Table
Commands == {"exit", "print", "other"}

\* The codes a field of the current state can have.
Codes == {code \in 0..MaxCode : code < 2 ^ Table[state][1]}

\* NEXT_0 or NEXT_1; the successor of PIXFAN is the one the cache has set.
Successor(code) ==
  IF code = 0 THEN Table[state][2]
  ELSE IF state = "PIXFAN" THEN cache.fan ELSE Table[state][3]

DecoderInit ==
  /\ CacheInit
  /\ state = "RESET"
  /\ pixels = 0
  /\ cmd = "other"
  /\ params = 0
  /\ fatal = 0
  /\ asked = FALSE

\* feed() when process_bits() gives up: latched until the next reset sequence.
Resync ==
  /\ state' = "LATCHED"
  /\ fatal' = 0
  /\ asked' = TRUE

\* A state that is its own successor is dead, but for those that mean to wait.
Goto(next) ==
  IF next = state /\ state \notin {"HUNT", "LATCHED", "PRINT1"}
  THEN Resync
  ELSE state' = next /\ UNCHANGED <<fatal, asked>>

\* The end of every field: a full tile is delivered (next_block(1)), and the
\* cache keeps the colours it used.
EndField(k, p, next) ==
  IF next = "PIXELS" /\ p = BlockSize
  THEN cache' = Pruned(k) /\ pixels' = 0 /\ Goto("START")
  ELSE cache' = k /\ pixels' = p /\ Goto(next)

\* One more pixel of a colour, unless the tile is full.
AddPixel(k, next) ==
  IF pixels = BlockSize THEN EndField(k, pixels, "LATCHED")
                        ELSE EndField(k, pixels + 1, next)

\* A pixel that is named by its rank in the cache.
PixelByRank ==
  /\ state \in Widths \cup {"PIXLRU1"}
  /\ \E code \in Codes :
       LET named == Ranked(cache, RankOf(cache, state, code))
       IN  \/ /\ named = {}
              /\ EndField(cache, pixels, "LATCHED")
           \/ \E c \in named : AddPixel(Found(cache, c), Successor(code))
  /\ UNCHANGED <<cmd, params>>

\* Mutant: the cache is not searched for a colour that should not be there.
PixelByColorUnchecked ==
  /\ state \in {"PIXGREY", "PIXRGBB"}
  /\ \E c \in Colors : \E k \in Inserted(cache, c) : AddPixel(k, Successor(0))
  /\ UNCHANGED <<cmd, params>>

\* A pixel of a new colour; one that was cached should have been named.
PixelByColor ==
  /\ state \in {"PIXGREY", "PIXRGBB"}
  /\ \E c \in Colors :
       \/ /\ c \in Cached(cache)
          /\ EndField(Found(cache, c), pixels, "LATCHED")
       \/ /\ c \notin Cached(cache)
          /\ \E k \in Inserted(cache, c) : AddPixel(k, Successor(0))
  /\ UNCHANGED <<cmd, params>>

\* Mutant: a run is not cut at the end of the tile.
FillUnbounded(n) == EndField(cache, pixels + n, "PIXELS")

\* n more pixels of the last colour; a tile that overflows is an error.
Fill(n) ==
  IF pixels + n > BlockSize THEN EndField(cache, BlockSize, "LATCHED")
                            ELSE EndField(cache, pixels + n, "PIXELS")

\* Runs of the last colour.
Repeat ==
  /\ \/ state = "PIXDUP" /\ Fill(1)
     \/ state = "PIXRPTSTD1" /\ \E code \in 0..5 : Fill(code + 2)
     \/ state = "PIXRPTSTD1" /\ EndField(cache, pixels, "PIXRPTSTD2")
     \/ state = "PIXRPTSTD1" /\ EndField(cache, pixels, "PIXRPTNSTD")
     \/ state = "PIXRPTSTD2" /\ \E code \in Codes : Fill(code + 8)
     \/ state = "PIXRPTNSTD" /\ \E code \in Codes : Fill(code)
  /\ UNCHANGED <<cmd, params>>

\* Fields that only lead on, or give the first parts of a colour.
LeadOn ==
  /\ state \in {"START", "PIXELS", "PIXRPT", "PIXRPT1", "BLKRPT", "BLKRPT1",
                "PIXFAN", "PIXSPEC", "PIXRGBR", "PIXRGBG"}
  /\ \E code \in Codes : EndField(cache, pixels, Successor(code))
  /\ UNCHANGED <<cmd, params>>

\* Fields that lead to a command.
CommandPrefix ==
  /\ state \in {"CMD", "CMD0", "EXTCMD", "CMDX", "EXTCMD1", "EXTCMD2"}
  /\ \E code \in Codes : EndField(cache, pixels, Successor(code))
  /\ UNCHANGED <<cmd, params>>

\* The place of the next tile; out of range it is 0.
Move ==
  /\ state \in {"MOVEXY0", "MODE0", "MOVEXY1", "MOVESHORTX", "MOVELONGX"}
  /\ EndField(cache, pixels, Successor(0))
  /\ UNCHANGED <<cmd, params>>

\* The pixel code of the cache, before any colour has set the table.
PixelCode ==
  /\ state = "PIXCODE"
  /\ EndField(cache, pixels, cache.pixcode)
  /\ UNCHANGED <<cmd, params>>

\* next_block(n): the last tile again, at the next places.
RepeatTiles ==
  /\ state \in {"BLKDUP", "BLKRPTSTD", "BLKRPTNSTD"}
  /\ EndField(cache, 0, "START")
  /\ UNCHANGED <<cmd, params>>

\* The size of a new video mode, which begins with an empty cache.
NewMode ==
  /\ \/ state = "MODE1" /\ EndField(cache, pixels, "MODE2")
     \/ state = "MODE2" /\ EndField(Cleared(cache), 0, "START")
  /\ UNCHANGED <<cmd, params>>

\* A second timeout in the byte after the first is an error.  Bytes are not
\* counted: either may be the case.
Timeout ==
  /\ state = "TIMEOUT"
  /\ \E next \in {"START", "LATCHED"} : EndField(cache, pixels, next)
  /\ UNCHANGED <<cmd, params>>

\* A byte of a firmware command.  The byte after the last that cmd_p_buff has
\* room for raises an IndexError, which the console logs: the state stays.
Firmware ==
  /\ state = "FIRMWARE"
  /\ \/ /\ params <= ParamSlots
        /\ params' = params + 1
        /\ cmd' \in Commands
        /\ EndField(cache, pixels, "CORP")
     \/ /\ params > ParamSlots
        /\ UNCHANGED dvcVars

\* The command goes on, or it is complete and dispatched.  "other" stands for
\* those that concern the screen, the key or the session, not the decoder.
Corp ==
  /\ state = "CORP"
  /\ \/ /\ EndField(cache, pixels, "FIRMWARE")
        /\ UNCHANGED params
     \/ /\ EndField(cache, pixels, CASE cmd = "exit"  -> "EXIT"
                                     [] cmd = "print" -> "PRINT0"
                                     [] OTHER         -> "START")
        /\ params' = 0
  /\ UNCHANGED cmd

\* A text for a channel ends with a zero byte.
PrintText ==
  /\ \/ state = "PRINT0" /\ EndField(cache, pixels, "PRINT1")
     \/ state = "PRINT1" /\ \E next \in {"PRINT1", "START"} : EndField(cache, pixels, next)
  /\ UNCHANGED <<cmd, params>>

\* Mutant: the pixel count survives a reset.
ResetKeepingPixels ==
  /\ state = "RESET"
  /\ cache' = Cleared(cache)
  /\ state' = "START"
  /\ fatal' = 0
  /\ params' = 0
  /\ UNCHANGED <<pixels, cmd, asked>>

\* Whatever was begun is forgotten.
Reset ==
  /\ state = "RESET"
  /\ cache' = Cleared(cache)
  /\ state' = "START"
  /\ pixels' = 0
  /\ fatal' = 0
  /\ params' = 0
  /\ UNCHANGED <<cmd, asked>>

\* Mutant: after the third request the count goes on.
LatchedGivesUp ==
  /\ state = "LATCHED"
  /\ asked' = (asked \/ fatal \in {FatalFirst, FatalSecond - 1, FatalLast - 1})
  /\ fatal' = IF fatal = FatalLast THEN fatal ELSE fatal + 1
  /\ UNCHANGED <<cache, state, pixels, cmd, params>>

\* Out of step: bits are dropped, and a refresh is requested now and then.
Latched ==
  /\ state = "LATCHED"
  /\ asked' = (asked \/ fatal \in {FatalFirst, FatalSecond - 1, FatalLast - 1})
  /\ fatal' = IF fatal + 1 = FatalLast THEN FatalAgain ELSE fatal + 1
  /\ UNCHANGED <<cache, state, pixels, cmd, params>>

\* The first one bit ends a reset sequence.
HuntEnds ==
  /\ state = "HUNT"
  /\ EndField(cache, pixels, "RESET")
  /\ UNCHANGED <<cmd, params>>

Hunt == HuntEnds \/ (state = "HUNT" /\ UNCHANGED dvcVars)

\* process_bits() returns 1.
Exit ==
  /\ state = "EXIT"
  /\ Resync
  /\ UNCHANGED <<cache, pixels, cmd, params>>

\* add_bits(): more than 30 zero bits in a row.  A byte is only taken in when
\* a field needs bits.
ResetSequence ==
  /\ Table[state][1] > 0
  /\ state' = "HUNT"
  /\ UNCHANGED <<cache, pixels, cmd, params, fatal, asked>>

\* The iLO2 starts over with a reset sequence; requests and answers get lost.
Answer ==
  /\ asked
  /\ Table[state][1] > 0
  /\ state' = "HUNT"
  /\ asked' = FALSE
  /\ UNCHANGED <<cache, pixels, cmd, params, fatal>>

RequestLost ==
  /\ asked
  /\ asked' = FALSE
  /\ UNCHANGED <<cache, state, pixels, cmd, params, fatal>>

Field ==
  \/ PixelByRank \/ PixelByColor \/ Repeat \/ PixelCode \/ LeadOn \/ CommandPrefix \/ Move
  \/ RepeatTiles \/ NewMode \/ Timeout \/ Firmware \/ Corp \/ PrintText
  \/ Reset \/ Latched \/ Hunt \/ Exit

DecoderNext == Field \/ ResetSequence \/ Answer \/ RequestLost

\* The stream goes on, its zeros end, and of the requests that are made again
\* and again one is answered.
DecoderSpec ==
  /\ DecoderInit /\ [][DecoderNext]_dvcVars
  /\ WF_dvcVars(Field) /\ SF_dvcVars(HuntEnds) /\ SF_dvcVars(Answer)
-----------------------------------------------------------------------------
\* The states in which a tile may be unfinished.
PixelStates == Widths \cup {"PIXELS", "PIXLRU1", "PIXGREY", "PIXRGBR", "PIXRGBG",
  "PIXRGBB", "PIXRPT", "PIXRPT1", "PIXRPTSTD1", "PIXRPTSTD2", "PIXRPTNSTD",
  "PIXFAN", "PIXDUP", "PIXCODE", "PIXSPEC"}
OutOfStep == {"LATCHED", "HUNT", "RESET"}

\* The fields have their types: a tile never has more pixels than fit.
DecoderTypeOK ==
  /\ CacheTypeOK
  /\ state \in States
  /\ pixels \in 0..BlockSize
  /\ cmd \in Commands
  /\ params \in 0..(ParamSlots + 1)
  /\ fatal \in 0..FatalLast
  /\ asked \in BOOLEAN

\* Commands run between tiles: no tile is half painted, and no colour still
\* counts as used by the tile before, even after errors and resets.
WholeTiles ==
  state \notin PixelStates \cup OutOfStep =>
    pixels = 0 /\ InBlock(cache) = {}

\* Whatever the stream, the decoder is a user of the colour cache as that is
\* specified on its own, so what is proved of the cache holds here.
UsesCache == CacheInit /\ [][CacheNext]_cache

\* A tile that is begun ends, or is given up; a decoder that is out of step
\* asks until it is answered and starts over.
SelfHeals == state \in PixelStates \cup {"LATCHED"} ~> state = "START"
=============================================================================
