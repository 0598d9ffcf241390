# ILO2Remastered in TLA+

ILO2Remastered is a Python server that logs in to an HP iLO2 management
processor, opens its remote console (KVM), decodes the video and shows it in
browsers, and brings the console back whenever it is lost. These modules model
that program. TLC checks them on small instances; TLAPS proves every safety
property and the refinements for every value of the constants, some under
hypotheses that are named below. File names below are relative to `src/`.

## The system

| component | state it keeps | operations | talks to | what is hard |
|---|---|---|---|---|
| Console lifecycle (`ilo2/webserver.py`) | `_connecting`, `console`, `console_state`, retry timers, `_confirmed_reset` tasks | `start_console_thread`, `_connect_worker`, `_schedule_reconnect`, `_on_console_disconnected`, `_confirmed_reset`, `run`, `main` | IloSession, IloConsole, browsers | worker, receiver, timer and event-loop threads; lost requests and replies; shutdown at any time |
| IloSession (`ilo2/session.py`) | `session_cookie` | `login`, `logout`, `_get`, `fetch_console_params`, `reset_management_processor`, RIBCL calls | legacy TLS request, iLO2 | a pool of 2-4 slots the program can leak into |
| KVM channel (`ilo2/console.py`, `ilo2/crypto.py`) | socket, `_stop`, `_send_lock`, two RC4 ciphers, `_esc_state`, `dvc_mode` | `connect`, `transmit`, `_recv_loop`, `_process_incoming`, `_on_change_key`, `_on_seize`, `disconnect` | iLO2, decoder, lifecycle | key streams of two threads and two directions; a peer that stops reading |
| DVC decoder (`ilo2/dvc.py`) | state, colour cache, pixel count, command buffer, `fatal_count` | `feed`, `process_bits`, `cache_lru`, `cache_find`, `cache_prune`, `cache_reset` | KVM channel, frame buffer | a cache that has to equal the encoder's; resynchronisation |
| Frame buffer (`ilo2/framebuffer.py`) | image, version, dirty box, needs-full flag | `resize`, `paste_block`, `take_update`, `full_snapshot` | decoder, broadcast loop | painting between two updates; clipping |
| Websocket clients (`ilo2/webserver.py`) | `clients`, `_event_queue`, the tasks | `_ws_handler`, `_broadcast_loop`, `_broadcast`, `force_full_frame`, `set_console_state` | frame buffer, lifecycle, pages | every `await` lets others overtake; slow and vanished pages |
| Web page (`web/index.html`) | canvas, frame queue, overlay, socket | `onmessage`, `drawFrame` | websocket | asynchronous decoding |
| Legacy TLS request (`ilo2/legacy_tls.py`) | the bytes read so far | `raw_request`, `ribcl_raw`, `request` | iLO2 | the end of a reply is a guess from a prefix |
| Status polling and actions, authentication, program start, static pages | cached dictionaries; counters and tokens; none; none | | | not modelled, see below |

What makes each one correct: one worker at a time, no slot lost, nobody left
without console, picture and explanation (lifecycle); one unbroken key stream
and threads that end (channel); a cache of unique ranks, whole tiles and a way
back into step (decoder); a picture that ends up equal to the decoder's and
never goes backwards (frame buffer, clients, page); whole replies and no
waiting (request).

## The modules

* **IloController** - the iLO2 firmware, external: the slot pool, arming of the
  KVM port, the active connection, the reboot. Its operators are fragments the
  next module conjoins with the program's half of each exchange.
* **ConsoleLifecycle** EXTENDS IloController - every request is one step, and
  everything up to the next request belongs to it. The `pc` of a worker names
  the statement of `_connect_worker` it is at; `con` is the receiver thread of
  each `IloConsole`; `fresh` and `ripe` count retry timers before and after
  their 20 s. **ConsoleDuty** is its promise: while the server runs somebody is
  in charge of the console, or its user was told why not.
* **FrameBuffer** - the dirty box and its operations; **FrameStream** composes
  it with one consumer; **FullFrames** is the promise that updates are as good
  as whole frames. **WebClients** EXTENDS FrameBuffer - handlers, broadcast
  loop, setters of the console state and the pages. A step ends at an `await`. A
  connection is `frozen` while its page is alive but reads nothing, `vanished` when
  nobody is at the other end any more; a page is `broken` once its `frameQueue` is
  rejected.
* **DvcColorCache** - `cache_lru`, `cache_find`, `cache_prune`, `cache_reset`
  with usage ranks, block marks, pixel code and the shared entry
  `NEXT_1[31]`; **RecentColors** is the promise, a bounded
  most-recently-used list. **DvcDecoder** EXTENDS it - the graph of 48 states
  (`Table`) with the handler of every state; a step is a field.
* **KvmChannel** - two threads in `transmit()`, byte by byte; the receive loop;
  key rotation in its two assignments; closing. An encrypted byte *is* the cell
  of the key stream that encrypted it, so a gap or an overlap shows at the
  wire. The iLO2 and the two directions of the connection are external.
* **HttpFraming** - `_response_complete`, `_chunked_body_complete` and
  `_dechunk` over sequences of symbols, and the two reading loops. A reply is
  given with the places of its header, its chunks and its payload, and
  `WellFormed` says when they belong together; what the code computes is
  compared with them. The header is tested twice, for an exact text where the end
  is looked for and parsed where the body is taken; `Tight` is a spelling that only
  the second test knows. The loops of the code are recursive functions.
* `MC...` modules give the constants of the runs their values. `...Proofs`
  modules hold the theorems, each about the module it is named after;
  `WebPicturesProofs` builds on the invariants of `WebClientsProofs`,
  `DvcDecoderProofs` on those of the cache. Definitions with *Mutant* in their comment are
  plausible bugs that show what each property is for; no specification uses
  them.

## The runs

| run | states | what it asks |
|---|---|---|
| lifecycle | safety of the running server: two workers, two faults of a reliable network, two clicks, a reset | `OneWorker`, `OneSlot`, `Supervised`, `ConnectedIsBacked` |
| attempts | all faults, a click, a reset, a shutdown at any time, with fairness | implements `ConsoleDuty` (`FulfilsDuty`, `DutyProgress`), `ResetRecovers` |
| unattended | nobody clicks, a restart, with fairness | `OneDuty`, `ExhaustedParks`, `HealthyConsoleKept`, `ComesBack` |
| frames | two modes, all tiles, six changes | `NothingMissed`, refines `FullFrames` (`AsGoodAsFullFrames`) |
| pictures | two pages, a forced frame | `MirrorSettled`, `NeverBackwards` |
| delivery | two pages; two of: a painting, a state change, a forced frame, a page that freezes, vanishes, closes or breaks; fairness | `KnowsState`, `Delivered` |
| colours | seven colours, six slots | `Ranks`, `Addressable`, refines `RecentColors` (`IsRecentColors`) |
| decoder | any stream of fields, four colours, three slots, tiles of nine pixels | `WholeTiles`, `UsesCache`, `SelfHeals` |
| channel | a message of the page, three bytes of video, connections of one and two bytes | `InStep`, `DecryptInStep`, `SendsEnd`, `ReceiverFinishes` |
| framing | 50 replies, ten orders of header lines by five payloads, cut into any pieces | `EndsWhole`, `NoIdling`, `BodyIsPayload` |
| shutdown_race | violation | a login that completes after the final logout leaves its slot taken (`NoSlotLeftBehind`) |
| topleft | violation | a partial update at (0,0) is taken for a new mode (`MirrorSettled`) |

One run of every module also checks its type invariant.

### Bounds, and why they are enough

*Lifecycle.* Two workers are one more than `_connecting` admits. Three consoles
are an old one, its successor and one more. Two faults let one hit the recovery
from the other. Timers are counted up to `MaxTimers` (one or two) and saturate
beyond it: more pending timers do what two do. *Pages.* Two pages distinguish
"this page" from "another"; a buffer of one message is the smallest that can be
full; two or three versions of a pixel show an order. Mirroring (`pictures`) is
checked with all pages reading, delivery with at most two things going on
(`MCWebClients!Few`): a page that holds up another one while something is painted or
set, two state changes in a row, and a forced frame on its way to two pages. A forced
frame that is held up needs three, and so is not checked. The bound is put on steps
that are not fair, so no fair step is cut off. *Colours.* Six slots reach
every pixel code but the four-bit one, which the proof covers, and one colour
more than slots forces replacement. *Decoder.* Nine pixels let both short and
standard runs end, fill and overflow a tile; `ParamSlots = 1` overflows the
command buffer; the fatal counts keep the order of 11680, 120000, 12000000 and
41. *Channel.* A message of two bytes has a place inside it for a rotation, and a
connection of one byte fills inside a message. *Framing.* The payloads include
one that looks like the last chunk, sizes of two digits and no body at all; a
length is in the first, a middle and the last header line.

### Fairness

Python threads run, timers expire and requests return, so worker, receiver,
timer and main steps are weakly fair (`ConsoleLifecycle!Fairness`). Time passing
(`DelayElapses`, `IloBoots`) is strongly fair: `NoLastStatements` delays these
steps but cannot stop the clock. In `WebClients` fairness is one condition per
task: weak for the setters, the broadcast loop and a page that reads, strong for a
handler, which the event loop runs again and again, whenever the broadcast loop
awaits something. TCP gives up an end that does not acknowledge, so a page that has
*vanished* is gone in the end (`GiveUp`). The ping timeout of the websocket library
is not fair: on a connection whose buffers are full the ping waits behind the blocked
send. So a page that is alive but *frozen* may hold up everybody for ever;
`Delivered` says what happens if none stays so. In `KvmChannel` only the two
threads are fair: `_send_lock` is not a fair lock, and nothing is assumed of the
iLO2, which may stop reading, writing or existing. In `DvcDecoder` the stream
goes on, and of refresh requests that are made again and again one is answered
and contains a one bit. Users, faults and signals are never fair.

Deadlock is checked in `colours` and `decoder`. The other systems may stop:
budgets of faults and clicks run out, the pages have drawn everything, both
threads of a channel have ended, a reply is read.

### Assumptions of the models

* A request to the iLO2 is one step, also the final logout.
* A signal stops the server once. Its event loop cancels the tasks, but a reset that
  was handed to a thread of the executor goes on, and `main` logs out after that
  thread has ended (`Stop`, `FinalLogout`). A second signal in between is left out.
* A thread in its last non-blocking statements leaves them within the 20 s of a
  retry delay and the 30-60 s of a reboot (`NoLastStatements`).
* A pixel is the version it was painted at; JPEG coding is left out.
* One connection of a page is opened once; a page that reconnects is another. Only
  a page whose `frameQueue` is rejected differs from a new one: it stays so when it
  reconnects, and here it does not.
* The decoder's positions, pixel values, texts and frame rate are left out, and
  so is the assembly of a field from bits: a field is chosen. The zero-run
  detector of `add_bits()` is a step that may happen whenever bits are needed.
* The cache is a function of the colour, not of the slot it is in. That is
  exact because ranks are unique, which is what `Ranks` says.
* The channel is modelled with encryption and after the login packet, which is
  sent before the receiver thread starts.
* In `HttpFraming` a line end is one symbol, and so are the names of the two
  headers and everything else in a header; chunk extensions and blanks around a
  length are left out. A chunk size is any hexadecimal number. The iLO2 sends
  well-formed replies (`RepliesAssumption`), the length in any header line, chunks
  announced in any spelling; a length beside them is ignored, or not there if the
  spelling is not the usual one. Time is counted in ticks.

History variables: `abandoned` (a reset failed and no worker began since),
`behind` (an update overtook the frame a page builds on), `torn` (a rotation hit
an encryption), `cut` (a message was not written to its end), `garbled` (the
wire skipped a cell), `lost` (the iLO2 hung up during a reply, or kept the rest of
it back for longer than its clients wait by contract).
`behind`, `torn`, `cut` and `lost` mark the cases in which the code really does
not keep the property; see the divergences below.

## What is proved

`ConsoleLifecycleProofs`, for all sets of workers, consoles, cookies and resets,
all bounds and all policies of the iLO2:

* `TypeCorrect` - `[]TypeOK`.
* `MutualExclusion` - `[]OneWorker`. The invariant is inductive with the types:
  only `StartConsole` turns a worker on, and only if the lock is free; only
  `Release` and the end of the process turn one off.
* `NeverUnattended` - `[]Supervised`. Not inductive: a worker about to release
  the lock must already have left a console, a retry, a prompt or an abandoned
  reset behind. The strengthening (`HandOver`) says so for each place a worker
  can be.
* `NoStaleConnected` - `[]ConnectedIsBacked`, from the same invariant.

Its second part is about `ConsoleDuty`, for the same parameters:

* `DutyFulfilled` - `FulfilsDuty`: every step of the console lifecycle is a step
  of `ConsoleDuty` or stutters, whatever fails, whoever clicks and whenever the
  process stops. `HandOver` is what the proof needs: who gives a duty up has
  handed it on.
* `NeverTwoSlots` - `[]OneSlot`, assuming `Reliable`: no request, reply or process
  is lost (`FaultKinds` without those three, `MaxStops = 0`). A logout that is
  lost leaves a slot behind, so the claim is not true without it. Inductive
  with "no cookie is at hand where one is asked for" and "an iLO2 that is down
  has an empty pool" (`SlotInv`).
* `DutyIsOne`, `ExhaustionParks`, `StreamingKept` - `[]OneDuty`,
  `[]ExhaustedParks` and `HealthyConsoleKept`, assuming `Untouched`: nobody
  clicks and no other client seizes the console. A click while a console
  streams starts the second duty the divergences below describe. The
  invariant (`OneDutyInv`) lists who may have the duty: a worker that has not
  ended its attempt, a console, or one timer - and that a ripe timer finds no
  worker.

`FrameStreamProofs`, for all modes, tile positions and tile sizes:
`StreamTypeCorrect`, `NothingIsMissed` (`[]NothingMissed`, which is inductive
with the types of image and box) and `DirtyBoxesSuffice`: every step of the
stream is a step of `FullFrames` or stutters.

`DvcColorCacheProofs`, for all colours and any size up to the 17 slots:

* `CacheTypeCorrect`, `RanksArePermutation` (`[]Ranks`) and `EveryColorHasACode`
  (`[]Addressable`). The inductive invariant `Sound` joins the permutation with
  "what the block used comes first" - without which a prune would leave gaps -
  and with "the pixel code is the one of the size". The prune needs a count:
  the marked colours have ranks closed downwards, so there are as many of them
  as ranks, which is what `cache_prune` takes as the new size (`KeptMarked`).

`KvmChannelProofs`, for all sizes of messages and connections and any number of
sends:

* `KeyStreamUnbroken` - `[]InStep`; `OneSender` - `_send_lock` covers
  encryption and write. The inductive invariant `KeyInv` says that the bytes a
  thread holds in its buffer go on from the last one on the wire, and that the
  cipher goes on from them; in the middle of a rotation only the new key is
  settled, which is enough because no byte is encrypted then, or `torn` is set.

Its second part is about the receiver, for streams, messages and connections of
any length:

* `ChannelTypeCorrect` - `[]ChannelTypeOK`.
* `DecryptsInStep` - `[]DecryptInStep`. The invariant (`StreamInv`) is about one
  sequence, the rest of the chunk followed by what is in the connection: text
  comes first, the cells of its video go on from the receiver's without a gap
  to the iLO2's, and, as long as the receiver is in text, the trigger `ESC [ R`
  is still to come in it, at any place, if and only if the iLO2 has sent it.
  That includes a trigger split between what was read and what is to come.

`DvcDecoderProofs`, for any stream of fields, all colours, tile sizes and up to
17 slots:

* `DecoderTypeCorrect` - `[]DecoderTypeOK`; `CommandsBetweenTiles` -
  `[]WholeTiles`. Inductive with "a state that repeats a pixel has one of the
  current tile to repeat", or the run could overflow a tile of nothing.
* `DecoderUsesCache` - `UsesCache`: the decoder implements the specification of
  the cache. With it `DecoderRanks` carries everything proved of the cache over
  to the decoder.

`DvcColorCacheProofs` also proves `RanksAreRecency` - `IsRecentColors`: the cache
with its ranks implements a bounded most-recently-used list. The refinement
mapping sorts the colours by rank (`ByRank`); one lemma per operation says what
becomes of that list (`FoundListed`, `AppendedListed`, `ReplacedListed`,
`PrunedListed`) and of the number of colours the tile used (`...Touched`).

`WebClientsProofs`, for any number of pages and setters, buffers of any size, all
video modes, tiles and bounds. Both theorems assume `NoneIsNoCast`, that `None`
is not the record of a broadcast.

* `EveryoneKnows` - `[]KnowsState`, assuming `OneSetter`, one thread in
  `set_console_state` (see the divergence at `ilo2/webserver.py:171`). The
  invariant (`Informed`) says what a page will know once it has read its inbox,
  the broadcast under way, the batch and the event queue in this order: the
  present state, unless a thread is about to queue it. A page that is greeted
  while older events are queued hears them after the greeting; that they end in
  the present state for everybody, whatever he knew before, is part of it.
* `NeverOlder` - `NeverBackwards`, with any number of setters. The invariant
  (`InOrder`) orders what a page shows, what it decodes, what is in its inbox
  and what is being broadcast to it: pixel by pixel nothing is older than what
  comes before, and nothing is newer than the image. The order has to be stated
  of every two frames, not of neighbours only: partial updates have different
  pixels, so it does not carry over.

`WebPicturesProofs`, for any number of pages and setters, buffers of any size, all
video modes, tiles and bounds. The theorems assume `NoneIsNoRecord`, that `None` is
neither a broadcast nor a picture nor a box, and `InPixels`, that modes and
positions are pairs of numbers.

* `PagesMirror` - `[]MirrorSettled`, assuming `[][~Trims]_vars`: no part of the
  image that begins at (0,0) is sent on its own. Without it the property is
  false, as the run `topleft` shows. The invariant (`Pictured`) follows the picture a
  page comes to show when it has drawn all that is on its way: what it decodes,
  its inbox, the broadcast under way and the update the loop is about to take,
  in this order. It is the image, unless an update has overtaken the frame the
  page builds on (`behind`). That picture is described without recursion, as the
  end of a row of pictures each drawn upon the one before (`Yields`).
* `PagesTyped` - `[]ClientsTypeOK`, under the same condition, or a page takes the
  size of a part for a video mode.

`HttpFramingProofs`, for all sets of well-formed replies - any header, chunks of any
number, size and content - in pieces of any size:

* `FramingTypeCorrect` - `[]FramingTypeOK`: a RIBCL call ends by its deadline, any
  other waits its time-out for the next byte at most.
* `NeverCut` - `[]EndsWhole`: `_response_complete` is true of no part of a reply. The
  loop over chunks is at the beginning of a chunk in every round (`RoundsOfPart`), so
  the last chunk is not mistaken for anything in the data. The exception is a length
  in the last header line: its last digit is dropped, so what is left of it is the
  length divided by ten, and all that is proved is that a tenth has been read.
* `NeverIdle` - `[]NoIdling`: it is true of the whole of a reply that says how it is
  framed, in words it knows. It does not know a length of one digit in the last
  header line, nor chunks in another spelling than its own (`Announced`).
* `BodyArrives` - `[]BodyIsPayload`: after each round `_dechunk` has put out the
  payload up to the chunk it is at (`DechunkGivesPayload`). Of a reply with its length
  in the last header line a beginning of the body is returned.

The loops are recursive functions, and the induction theorems of the library take
an operator, which the provers cannot instantiate. So the module begins with
induction over sets of numbers (`EveryNumber`, from the least-number principle) and
with the existence of functions that are defined step by step within a set
(`RunExists`, `LoopExists`); each loop is then shown to be such a function.

The proofs use the assumptions named `...Assumption` in the modules, the
hypotheses named above and nothing else.

Only model-checked is all liveness (`DutyProgress`, `ResetRecovers`, `ComesBack`,
`Delivered`, `SelfHeals`, `SendsEnd`, `ReceiverFinishes`): it needs fairness and
`ENABLED`, which are out of the provers' reach.

The cases that a theorem excludes by a hypothesis are those in which the code
does not keep the property: `OneSlot` on a network that loses requests,
`MirrorSettled` with parts at (0,0), `OneDuty`, `ExhaustedParks` and
`HealthyConsoleKept` with clicks, `KnowsState` with two setters. Others are named in
the property itself: frames overtaken or not decoded (`MirrorSettled`), a page that
stays frozen (`Delivered`), a length in the last header line (`EndsWhole`, `NoIdling`,
`BodyIsPayload`). Each is explained in the next section.

## Where the code and its documentation disagree

Shown by a run:

* `shutdown_race` - the comment at `ilo2/webserver.py:498` says the slot is
  released on shutdown; a worker still logging in takes one afterwards.
* `topleft` - `web/index.html:385` takes every update at (0,0) of another size
  than the canvas for a new mode; `ilo2/webserver.py:39` says a full frame is
  the case that covers the whole canvas.

Met while modelling; the properties are restricted as said:

* `ilo2/webserver.py:263`: an exhausted pool at the login of a *retry* is
  reported as an error and retried; `docs/ARCHITECTURE.md:228` says it waits for
  the user. `ExhaustedParks` is about the state that is shown.
* `ilo2/webserver.py:187`: `_wait_for_ilo` polls port 443 also when the iLO2 is
  reached through another port, so a reset never brings the console back. The
  runs of `ResetRecovers` have `NatPort = FALSE`.
* `ilo2/webserver.py:245`: a click while a console streams replaces it without
  disconnecting it; the end of the old one schedules a retry that replaces the
  new one, and so on. `ComesBack` and `HealthyConsoleKept` are checked without
  clicks.
* `ilo2/webserver.py:284`: a reset that fails leaves "error" and no retry.
* `ilo2/webserver.py:195`: the end of a replaced console overwrites the state of
  its successor. `ConnectedIsBacked` says what is left of the claim.
* `ilo2/session.py:70`: a logout that is lost leaves a slot behind. `OneSlot` is
  checked with a network that loses no request.
* `ilo2/console.py:211`: a half-open connection is never noticed.
* `ilo2/webserver.py:355` and `403`: an update can overtake the keyframe of a page
  that joins, or a forced frame. `MirrorSettled` excludes such pages (`behind`).
* `ilo2/webserver.py:171`: with two threads in `set_console_state` the last event
  need not be the last state. `KnowsState` is checked with one.
* `web/index.html:391`: a frame decoded after the state "disconnected" hides the
  overlay that explains it; `docs/ARCHITECTURE.md:222` wants it shown.
* `ilo2/console.py:263`: keys are rotated without `_send_lock` although the
  comment in `transmit` says why the lock is needed. `InStep` excludes `torn`.
* `ilo2/console.py:171`: after a failed send the stream goes on with a hole in
  it. `InStep` excludes `cut`.
* `ilo2/dvc.py:454`: an overlong firmware command raises an `IndexError` that is
  logged, and the decoder stays where it is until the next reset sequence.
* `ilo2/dvc.py:218`: `NEXT_1[31]` is shared by all decoders of the process. Its
  initial value is any a predecessor can leave; a predecessor that still decodes
  is not modelled.
* `ilo2/legacy_tls.py:83`: if `Content-Length` is the last header line, `find`
  returns -1 and the slice drops the last digit of the length, so the reply is
  cut, although the docstring (line 69) says "once `data` holds a full HTTP
  response"; a length of one digit is no number any more, and the reply is waited for
  until the time-out. The replies of `framing` are of both kinds, and the properties
  say what is left of the claim (`LengthLast`, `LengthMissed`).
* `ilo2/legacy_tls.py:79`: chunks are recognised by the exact text
  "transfer-encoding: chunked" here and by the parsed header at line 192. A reply
  with other blanks in that line is decoded correctly, but only after a time-out.
* `web/index.html:370`: an image that does not decode (line 384) rejects
  `frameQueue`, and everything chained to it is skipped: the page draws nothing any
  more. `MirrorSettled` excludes such pages (`broken`).
* `ilo2/webserver.py:456`: the broadcast waits for every client in turn. One that is
  alive but reads nothing blocks all others; `Delivered` assumes none stays so.
* `ilo2/webserver.py:280`: a shutdown while a reset waits for the iLO2 is held up by
  that thread, for more than 90 s. A container runtime that kills the process
  after its grace period (`Crash`) skips the final logout.

## Not modelled, and why

* *Status polling, power and UID actions*: two cached dictionaries, each
  replaced whole by whichever poll ends last. Nothing orders two polls
  (`ilo2/webserver.py:296`), so a stale one may win; that is a defect to fix,
  not a property to check. The RIBCL calls hold no state in this program.
* *Authentication and login throttle*: hashing and per-address counters in
  read-modify-write steps without a lock (`ilo2/auth.py:76`); tokens are
  otherwise sequential.
* *Program start and configuration*, *static pages*: sequential, or no state
  shared with the server.
* *Info and status messages* and the forwarding of keys and mouse events to
  `transmit` in `WebClients`: sent like the messages that are modelled.
* *The page's* input handling, zoom, dashboard and dialogs.
* *Bit assembly* in `add_bits`/`get_bits`, the iLO2's encoder, TLS, JPEG.

A next step would be a module for the bit accumulator and its zero runs.
