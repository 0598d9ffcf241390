----------------------------- MODULE WebClients -----------------------------
(***************************************************************************)
(* How the browsers follow the console: the websocket handlers, the         *)
(* broadcast loop and the forced full frames of webserver.py, which share   *)
(* one event loop; the threads that paint into the frame buffer and queue   *)
(* console states beside it; and the page (web/index.html) that draws what  *)
(* it receives.                                                             *)
(*                                                                         *)
(* Every `await ws.send(...)` is a step that waits while that client's      *)
(* buffers are full; other tasks run meanwhile.  Between two awaits a task   *)
(* is interleaved with threads only.                                        *)
(***************************************************************************)
EXTENDS FrameBuffer, Sequences, FiniteSets

CONSTANTS Clients,    \* websocket connections; a page that reconnects opens another
          Setters,    \* threads that call set_console_state
          States,     \* the console states they set
          StartState, \* the console state to begin with, "idle" in a new process
          Sizes,      \* the video modes <<w, h>> the iLO2 announces
          Corners,    \* the tiles it repaints
          BufferSize, \* messages on their way to a client before a send waits
          MaxSets,    \* bound: calls of set_console_state
          MaxForces,  \* bound: force_full_frame messages
          MaxGone     \* bound: pages that are gone, stalled or broken

ASSUME BufferAssumption == BufferSize \in Nat \ {0}
ASSUME BoundsAssumption == MaxSets \in Nat /\ MaxForces \in Nat /\ MaxGone \in Nat
ASSUME ClientsAssumption == "loop" \notin Clients
ASSUME StatesAssumption ==
  None # "set" /\ {None, "set"} \cap (States \cup {StartState}) = {}

VARIABLES
  clients,   \* self.clients
  conn,      \* each connection: "new", "open", "frozen" (its page does not read),
             \* "vanished" (nobody is at the other end any more), "closed"
  handler,   \* each _ws_handler: "off", "keyframe", "greet", "serve", "force"
  loop,      \* _broadcast_loop: "sleep", "drain", "events"
  batch,     \* the events it has drained and not yet broadcast
  cast,      \* the _broadcast under way in the loop or a handler, or None
  events,    \* self._event_queue
  state,     \* self.console_state
  setter,    \* None, "set", or the state a setter has read and not yet queued
  inbox,     \* messages on their way to each page
  decoding,  \* frames a page received and has not drawn, maybe never will: frameQueue
  canvas,    \* what each page shows: None, or [w, h, px]
  told,      \* the last console state each page was told
  veiled,    \* its overlay covers the canvas
  broken,    \* pages whose frameQueue is rejected
  behind,    \* history: an update overtook the full frame a page is to build on
  sets, forces

serverVars == <<clients, handler, loop, batch, cast>>
stateVars == <<events, state, setter, sets>>
pageVars == <<decoding, canvas, told, veiled, broken>>
vars == <<fbVars, serverVars, stateVars, pageVars, conn, inbox, behind, forces>>

AllStates == States \cup {StartState}
Tasks == Clients \cup {"loop"}
Open(c) == conn[c] \in {"open", "frozen", "vanished"}

Frame(u) == [kind |-> "frame", update |-> u]
StateEvent(s) == [kind |-> "state", state |-> s]
LogEvent == [kind |-> "log"]

Init ==
  /\ FrameInit
  /\ clients = {}
  /\ conn = [c \in Clients |-> "new"]
  /\ handler = [c \in Clients |-> "off"]
  /\ loop = "sleep"
  /\ batch = <<>>
  /\ cast = [t \in Tasks |-> None]
  /\ events = <<>>
  /\ state = StartState
  /\ setter = [t \in Setters |-> None]
  /\ inbox = [c \in Clients |-> <<>>]
  /\ decoding = [c \in Clients |-> <<>>]
  /\ canvas = [c \in Clients |-> None]
  /\ told = [c \in Clients |-> None]
  /\ veiled = [c \in Clients |-> TRUE]
  /\ broken = {}
  /\ behind = [c \in Clients |-> FALSE]
  /\ sets = MaxSets
  /\ forces = MaxForces

-----------------------------------------------------------------------------
(* The threads: the decoder paints, anybody sets the console state.         *)

\* There is no decoder before the first console is started.
Paint ==
  /\ state # "idle"
  /\ version < MaxVersion
  /\ \/ \E s \in Sizes : Resize(s[1], s[2])
     \/ \E c \in Corners : PasteBlock(c[1], c[2])
  /\ UNCHANGED <<serverVars, stateVars, pageVars, conn, inbox, behind, forces>>

\* set_console_state: the field is set, ...
SetState(t) ==
  /\ setter[t] = None
  /\ sets > 0
  /\ sets' = sets - 1
  /\ \E s \in States : state' = s
  /\ setter' = [setter EXCEPT ![t] = "set"]
  /\ UNCHANGED <<fbVars, serverVars, pageVars, conn, inbox, behind, forces, events>>

\* ... read again, ...
ReadState(t) ==
  /\ setter[t] = "set"
  /\ setter' = [setter EXCEPT ![t] = state]
  /\ UNCHANGED <<fbVars, serverVars, pageVars, conn, inbox, behind, forces, events, state,
                 sets>>

\* ... and what was read is queued.
QueueState(t) ==
  /\ setter[t] \in States
  /\ events' = Append(events, StateEvent(setter[t]))
  /\ setter' = [setter EXCEPT ![t] = None]
  /\ UNCHANGED <<fbVars, serverVars, pageVars, conn, inbox, behind, forces, state, sets>>

-----------------------------------------------------------------------------
(* Sending.  A message waits while the client's buffers are full; which of    *)
(* two that wait goes first is left open.                                   *)

Full(c) == Len(inbox[c]) >= BufferSize

\* The loop gives way to other tasks while it sleeps or awaits a send.
LoopAwaits == loop = "sleep" \/ cast["loop"] # None
Runs(t) == t = "loop" \/ LoopAwaits

Put(c, m) == inbox' = [inbox EXCEPT ![c] = Append(@, m)]

\* A _broadcast to whoever is there; it ends at once if nobody is.
Cast(m) == IF clients = {} THEN None ELSE [message |-> m, todo |-> clients, dead |-> {}]

\* The rest of a _broadcast.  At its end the dead are discarded, and a handler that
\* forced a full frame reads its next message.
GoOn(t, todo, dead) ==
  IF todo = {}
  THEN /\ clients' = clients \ dead
       /\ cast' = [cast EXCEPT ![t] = None]
       /\ handler' = [c \in Clients |-> IF c = t THEN "serve" ELSE handler[c]]
  ELSE /\ cast' = [cast EXCEPT ![t].todo = todo, ![t].dead = dead]
       /\ UNCHANGED <<clients, handler>>

\* Mutant: ConnectionClosed is not caught, which ends the task.
SendUncaught(t, c) ==
  /\ Runs(t)
  /\ cast[t] # None
  /\ c \in cast[t].todo
  /\ Open(c) /\ ~Full(c)
  /\ Put(c, cast[t].message)
  /\ GoOn(t, cast[t].todo \ {c}, cast[t].dead)
  /\ UNCHANGED <<fbVars, stateVars, pageVars, loop, batch, conn, behind, forces>>

\* _broadcast, one client: a closed one is remembered as dead.
SendNext(t, c) ==
  /\ Runs(t)
  /\ cast[t] # None
  /\ c \in cast[t].todo
  /\ \/ /\ Open(c) /\ ~Full(c)
        /\ Put(c, cast[t].message)
        /\ GoOn(t, cast[t].todo \ {c}, cast[t].dead)
     \/ /\ ~Open(c)
        /\ GoOn(t, cast[t].todo \ {c}, cast[t].dead \cup {c})
        /\ UNCHANGED inbox
  /\ UNCHANGED <<fbVars, stateVars, pageVars, loop, batch, conn, behind, forces>>

-----------------------------------------------------------------------------
(* _broadcast_loop.                                                         *)

LoopFrame == UNCHANGED <<stateVars, pageVars, clients, handler, conn, inbox, forces>>

\* A full frame is under way to c: its keyframe, or a forced one that waits.
Awaited(c) ==
  \/ handler[c] = "keyframe"
  \/ \E d \in Clients : cast[d] # None /\ c \in cast[d].todo

\* An update that is taken now leaves those behind whose full frame is older, and
\* repairs the others if it is a full frame itself.
NoteBehind(whole) ==
  behind' = [c \in Clients |-> \/ Awaited(c)
                               \/ behind[c] /\ ~(whole /\ c \in clients)]

\* The sleep is over: an update, if there is a client and something to show.
Wake ==
  /\ loop = "sleep"
  /\ cast["loop"] = None
  /\ loop' = "drain"
  /\ IF clients # {} /\ HasUpdate
     THEN /\ cast' = [cast EXCEPT !["loop"] = Cast(Frame(Update))]
          /\ TakeUpdate
          /\ NoteBehind(needsFull)
     ELSE UNCHANGED <<fbVars, cast, behind>>
  /\ UNCHANGED batch
  /\ LoopFrame

Drain ==
  /\ loop = "drain"
  /\ cast["loop"] = None
  /\ loop' = IF events = <<>> THEN "sleep" ELSE "events"
  /\ batch' = events
  /\ events' = <<>>
  /\ UNCHANGED <<fbVars, clients, handler, cast, state, setter, sets, pageVars, conn,
                 inbox, behind, forces>>

\* The next event of the batch; after the last, back to sleep.
NextEvent ==
  /\ loop = "events"
  /\ cast["loop"] = None
  /\ IF batch = <<>>
     THEN loop' = "sleep" /\ UNCHANGED <<batch, cast>>
     ELSE /\ cast' = [cast EXCEPT !["loop"] = Cast(Head(batch))]
          /\ batch' = Tail(batch)
          /\ UNCHANGED loop
  /\ UNCHANGED <<fbVars, behind>>
  /\ LoopFrame

-----------------------------------------------------------------------------
(* _ws_handler.                                                             *)

\* self.clients.add(websocket), and the log line about it.
Add(c) ==
  /\ clients' = clients \cup {c}
  /\ events' = Append(events, LogEvent)
  /\ handler' = [handler EXCEPT ![c] = "greet"]

\* Mutant: no keyframe.
ConnectBlank(c) ==
  /\ LoopAwaits
  /\ conn[c] = "new"
  /\ conn' = [conn EXCEPT ![c] = "open"]
  /\ Add(c)
  /\ UNCHANGED <<fbVars, loop, batch, cast, state, setter, sets, pageVars, inbox, behind,
                 forces>>

\* A page connects.  Its handler sends the keyframe before it adds the client;
\* without video there is nothing to wait for.
Connect(c) ==
  /\ LoopAwaits
  /\ conn[c] = "new"
  /\ conn' = [conn EXCEPT ![c] = "open"]
  /\ IF image = None
     THEN Add(c) /\ UNCHANGED inbox
     ELSE /\ Put(c, Frame(FullSnapshot))
          /\ handler' = [handler EXCEPT ![c] = "keyframe"]
          /\ UNCHANGED <<clients, events>>
  /\ UNCHANGED <<fbVars, loop, batch, cast, state, setter, sets, pageVars, behind, forces>>

\* The keyframe is sent, or the page is gone again.
KeyframeSent(c) ==
  /\ LoopAwaits
  /\ handler[c] = "keyframe"
  /\ IF Open(c)
     THEN Add(c)
     ELSE /\ handler' = [handler EXCEPT ![c] = "off"]
          /\ UNCHANGED <<clients, events>>
  /\ UNCHANGED <<fbVars, loop, batch, cast, state, setter, sets, pageVars, conn, inbox,
                 behind, forces>>

\* Mutant: the client is not told the current state.
GreetSilently(c) ==
  /\ LoopAwaits
  /\ handler[c] = "greet"
  /\ handler' = [handler EXCEPT ![c] = IF Open(c) THEN "serve" ELSE "off"]
  /\ UNCHANGED <<fbVars, clients, loop, batch, cast, stateVars, pageVars, conn, inbox,
                 behind, forces>>

\* The current state; a page that is gone by now ends the handler before the try
\* whose finally would remove the client.
Greet(c) ==
  /\ LoopAwaits
  /\ handler[c] = "greet"
  /\ \/ /\ Open(c) /\ ~Full(c)
        /\ Put(c, StateEvent(state))
        /\ handler' = [handler EXCEPT ![c] = "serve"]
     \/ /\ ~Open(c)
        /\ handler' = [handler EXCEPT ![c] = "off"]
        /\ UNCHANGED inbox
  /\ UNCHANGED <<fbVars, clients, loop, batch, cast, stateVars, pageVars, conn, behind,
                 forces>>

\* "force_full_frame" from page c: the whole frame to everybody.
ForceFullFrame(c) ==
  /\ LoopAwaits
  /\ handler[c] = "serve"
  /\ conn[c] = "open"
  /\ forces > 0
  /\ forces' = forces - 1
  /\ image # None
  /\ cast' = [cast EXCEPT ![c] = Cast(Frame(FullSnapshot))]
  /\ handler' = [handler EXCEPT ![c] = "force"]
  /\ behind' = [d \in Clients |-> IF d \in clients THEN Awaited(d) ELSE behind[d]]
  /\ UNCHANGED <<fbVars, clients, loop, batch, stateVars, pageVars, conn, inbox>>

\* The page is gone: finally.
Leave(c) ==
  /\ LoopAwaits
  /\ handler[c] = "serve"
  /\ ~Open(c)
  /\ handler' = [handler EXCEPT ![c] = "off"]
  /\ clients' = clients \ {c}
  /\ events' = Append(events, LogEvent)
  /\ UNCHANGED <<fbVars, loop, batch, cast, state, setter, sets, pageVars, conn, inbox,
                 behind, forces>>

-----------------------------------------------------------------------------
(* The page, and its connection.                                            *)

ServerFrame == UNCHANGED <<fbVars, serverVars, stateVars, behind, forces>>

\* onmessage: a state is shown at once, a frame has to be decoded first.
Receive(c) ==
  /\ conn[c] = "open"
  /\ inbox[c] # <<>>
  /\ inbox' = [inbox EXCEPT ![c] = Tail(@)]
  /\ LET m == Head(inbox[c]) IN
       /\ decoding' = [decoding EXCEPT ![c] = IF m.kind = "frame"
                                              THEN Append(@, m.update) ELSE @]
       /\ told' = [told EXCEPT ![c] = IF m.kind = "state" THEN m.state ELSE @]
       /\ veiled' = [veiled EXCEPT ![c] = IF m.kind = "state"
                                          THEN m.state # "connected" ELSE @]
  /\ UNCHANGED <<canvas, broken, conn>>
  /\ ServerFrame

\* Mutant: an update of another size resizes the canvas wherever it begins.
DrawnAnywhere(cv, u) ==
  IF cv = None \/ cv.w # u.w \/ cv.h # u.h
  THEN [w |-> u.w, h |-> u.h, px |-> u.px]
  ELSE [cv EXCEPT !.px = [p \in DOMAIN @ |-> IF p \in DOMAIN u.px THEN u.px[p] ELSE @[p]]]

\* drawFrame: an update at (0, 0) of another size than the canvas resizes it;
\* what lies outside of the canvas is lost.
Drawn(cv, u) ==
  IF u.x = 0 /\ u.y = 0 /\ (cv = None \/ cv.w # u.w \/ cv.h # u.h)
  THEN [w |-> u.w, h |-> u.h, px |-> u.px]
  ELSE IF cv = None THEN None
  ELSE [cv EXCEPT !.px = [p \in DOMAIN @ |-> IF p \in DOMAIN u.px THEN u.px[p] ELSE @[p]]]

\* Mutant: frames are drawn in the order their decoding ends.
DrawAny(c) ==
  /\ \E i \in DOMAIN decoding[c] :
       /\ canvas' = [canvas EXCEPT ![c] = Drawn(@, decoding[c][i])]
       /\ decoding' = [decoding EXCEPT ![c] =
                         SubSeq(@, 1, i - 1) \o SubSeq(@, i + 1, Len(@))]
  /\ veiled' = [veiled EXCEPT ![c] = FALSE]
  /\ UNCHANGED <<told, broken, conn, inbox>>
  /\ ServerFrame

\* A page does nothing while it is frozen, and no more drawing once it is broken.
Draws(c) == decoding[c] # <<>> /\ conn[c] # "frozen" /\ c \notin broken

\* The frameQueue: frames are drawn in the order they arrived.
Draw(c) ==
  /\ Draws(c)
  /\ canvas' = [canvas EXCEPT ![c] = Drawn(@, Head(decoding[c]))]
  /\ decoding' = [decoding EXCEPT ![c] = Tail(@)]
  /\ veiled' = [veiled EXCEPT ![c] = FALSE]
  /\ UNCHANGED <<told, broken, conn, inbox>>
  /\ ServerFrame

Gone == {c \in Clients : conn[c] \in {"frozen", "vanished", "closed"}} \cup broken
MayGo == Cardinality(Gone) < MaxGone

\* An image does not decode.  The promise of its drawing is rejected, and with it
\* the frameQueue: what is chained to it is never run.
Reject(c) ==
  /\ MayGo
  /\ Draws(c)
  /\ broken' = broken \cup {c}
  /\ UNCHANGED <<decoding, canvas, told, veiled, conn, inbox>>
  /\ ServerFrame

\* The page stops reading: its tab is frozen, or its network is gone.
Stall(c) ==
  /\ MayGo
  /\ conn[c] = "open"
  /\ \E s \in {"frozen", "vanished"} : conn' = [conn EXCEPT ![c] = s]
  /\ UNCHANGED <<pageVars, inbox>>
  /\ ServerFrame

\* The tab is looked at again.
Thaw(c) ==
  /\ conn[c] = "frozen"
  /\ conn' = [conn EXCEPT ![c] = "open"]
  /\ UNCHANGED <<pageVars, inbox>>
  /\ ServerFrame

Closed(c) ==
  /\ conn' = [conn EXCEPT ![c] = "closed"]
  /\ inbox' = [inbox EXCEPT ![c] = <<>>]
  /\ UNCHANGED pageVars
  /\ ServerFrame

Close(c) == MayGo /\ conn[c] = "open" /\ Closed(c)

\* The websockets library closes a connection whose pings are not answered.  A ping
\* that has to wait behind another message, for full buffers, is not even sent.
PingTimeout(c) == conn[c] \in {"frozen", "vanished"} /\ ~Full(c) /\ Closed(c)

\* TCP gives up sending to an end that does not acknowledge: a page that has
\* vanished, but not one that is only frozen.
GiveUp(c) == conn[c] = "vanished" /\ Closed(c)

HandlerStep(c) == KeyframeSent(c) \/ Greet(c) \/ Leave(c)
ConnectionStep(c) == Stall(c) \/ Thaw(c) \/ Close(c) \/ PingTimeout(c) \/ GiveUp(c)
LoopStep == Wake \/ Drain \/ NextEvent
CastStep(t) == \E c \in Clients : SendNext(t, c)

Next ==
  \/ Paint
  \/ \E t \in Setters : SetState(t) \/ ReadState(t) \/ QueueState(t)
  \/ LoopStep
  \/ \E t \in Tasks : CastStep(t)
  \/ \E c \in Clients : \/ Connect(c) \/ HandlerStep(c) \/ ForceFullFrame(c)
                        \/ Receive(c) \/ Draw(c) \/ Reject(c)
                        \/ ConnectionStep(c)

Spec == Init /\ [][Next]_vars

\* The event loop runs every task that is ready in turn: its own loop, and each
\* handler, which is ready again and again, namely whenever that loop awaits
\* something.  Threads are scheduled, pages read and draw unless they are frozen or
\* broken, and TCP gives up a page that has vanished.  Nobody has to connect, paint,
\* stall, thaw or leave, and no ping has to be sent.
Fairness ==
  /\ \A t \in Setters : WF_vars(ReadState(t) \/ QueueState(t))
  /\ WF_vars(LoopStep \/ CastStep("loop"))
  /\ \A c \in Clients : /\ SF_vars(HandlerStep(c) \/ CastStep(c))
                        /\ WF_vars(Receive(c) \/ Draw(c))
                        /\ WF_vars(GiveUp(c))

FairSpec == Spec /\ Fairness

-----------------------------------------------------------------------------

Updates == [x : Nat, y : Nat, w : Nat, h : Nat]
IsUpdate(u) == /\ [x |-> u.x, y |-> u.y, w |-> u.w, h |-> u.h] \in Updates
               /\ \A p \in DOMAIN u.px : u.px[p] \in Versions
               /\ DOMAIN u.px = {<<u.x + i, u.y + j>> : i \in 0..(u.w - 1), j \in 0..(u.h - 1)}
IsMessage(m) == \/ m.kind = "frame" /\ IsUpdate(m.update)
                \/ m.kind = "state" /\ m.state \in AllStates
                \/ m = LogEvent
IsCast(k) == k = None \/ /\ IsMessage(k.message)
                         /\ k.todo \subseteq Clients /\ k.dead \subseteq Clients

\* Types; what is on its way to a client never exceeds its buffers.
ClientsTypeOK ==
  /\ clients \subseteq Clients
  /\ conn \in [Clients -> {"new", "open", "frozen", "vanished", "closed"}]
  /\ handler \in [Clients -> {"off", "keyframe", "greet", "serve", "force"}]
  /\ loop \in {"sleep", "drain", "events"}
  /\ \A t \in Tasks : IsCast(cast[t])
  /\ \A i \in DOMAIN events : IsMessage(events[i]) /\ events[i].kind # "frame"
  /\ \A i \in DOMAIN batch : IsMessage(batch[i]) /\ batch[i].kind # "frame"
  /\ state \in AllStates
  /\ setter \in [Setters -> States \cup {None, "set"}]
  /\ \A c \in Clients : /\ Len(inbox[c]) <= BufferSize
                        /\ \A i \in DOMAIN inbox[c] : IsMessage(inbox[c][i])
                        /\ \A i \in DOMAIN decoding[c] : IsUpdate(decoding[c][i])
                        /\ canvas[c] = None \/ <<canvas[c].w, canvas[c].h>> \in Sizes
  /\ told \in [Clients -> AllStates \cup {None}]
  /\ veiled \in [Clients -> BOOLEAN]
  /\ broken \subseteq Clients
  /\ behind \in [Clients -> BOOLEAN]

\* Nothing is on its way any more.
Settled ==
  /\ batch = <<>>
  /\ \A t \in Tasks : cast[t] = None
  /\ clients = {} \/ ~HasUpdate
  /\ events = <<>>
  /\ \A t \in Setters : setter[t] = None
  /\ \A c \in Clients : /\ handler[c] = IF conn[c] = "open" THEN "serve" ELSE "off"
                        /\ conn[c] = "open" => inbox[c] = <<>> /\ ~Draws(c)

Mirrors(c) == image = None \/ canvas[c] = image

\* Once nothing is on its way, an open page shows exactly what the decoder painted,
\* whatever was sent to it whole, in part, with delay or on request; unless an
\* update overtook a full frame it was waiting for (webserver.py:355, 403), or its
\* frameQueue is rejected (index.html:370).
MirrorSettled ==
  Settled => \A c \in Clients :
    conn[c] = "open" /\ ~behind[c] /\ c \notin broken => Mirrors(c)

\* ... and it was told the present state of the console.
KnowsState ==
  Settled => \A c \in Clients : conn[c] = "open" => told[c] = state

\* As long as nobody asks for a full frame, no pixel of a page goes back to an
\* earlier version: keyframe and updates are sent and drawn in order.
NeverBackwards ==
  [][\A c \in Clients :
       (forces = MaxForces /\ canvas[c] # None /\ canvas'[c] # None
          /\ DOMAIN canvas[c].px = DOMAIN canvas'[c].px)
       => \A p \in DOMAIN canvas[c].px : canvas[c].px[p] <= canvas'[c].px[p]]_vars

\* Whatever is painted, set or asked for is delivered, in spite of pages that vanish
\* or freeze: they hold everybody up until TCP gives up or the page reads again.  One
\* that stays frozen holds everybody up for ever.
Delivered ==
  <>[](\A c \in Clients : conn[c] # "frozen") => <>[]Settled
=============================================================================
