----------------------------- MODULE KvmChannel -----------------------------
(***************************************************************************)
(* ilo2/console.py and ilo2/crypto.py once the login packet is sent: the    *)
(* KVM connection with encryption.  Two threads use it.  The page's thread  *)
(* (the event loop) sends keys and mouse events; the receiver thread reads, *)
(* and from inside the decoder's callbacks it sends refresh requests,       *)
(* rotates the keys and closes the socket.                                  *)
(* A byte is the cell of the RC4 key stream it is encrypted with: the key's *)
(* number and the position.  The peer can only read a stream whose cells    *)
(* follow one another.  The iLO2 and the two TCP directions are external.   *)
(***************************************************************************)
EXTENDS Integers, Sequences, SequencesExt

CONSTANTS None,
          MessageSize,  \* bytes of a message
          UpSize,       \* bytes the connection holds towards the iLO2 ...
          DownSize,     \* ... and towards the console
          MaxSends,     \* bound: messages of the page
          MaxText,      \* bound: bytes before the video stream
          MaxVideo,     \* bound: bytes of the video stream
          VideoKinds    \* what a byte of video may make the decoder do

ASSUME SizeAssumption == {MessageSize, UpSize, DownSize} \subseteq Nat \ {0}
ASSUME BoundsAssumption == {MaxSends, MaxText, MaxVideo} \subseteq Nat
ASSUME NoneAssumption == None \notin {"page", "recv"}
ASSUME KindAssumption == VideoKinds \subseteq {"pixels", "broken", "key", "seize"}

VARIABLES lock,    \* holder of _send_lock
          pc,      \* where each thread is
          todo,    \* bytes of a thread's message that are not encrypted yet
          buf,     \* cells of its encrypted bytes that are not written yet
          enc,     \* _rc4_encrypt: its next cell
          sock,    \* "open", closed, or None
          stop,    \* _stop
          sends,   \* messages of the page so far
          up,      \* bytes on the way to the iLO2
          wire,    \* the cell of the last byte written
          garbled, \* history: a byte was written whose cell does not follow
          torn,    \* history: a rotation hit an encryption
          cut,     \* history: a message was not written to its end
          chunk,   \* bytes received that are not processed yet
          dec,     \* _rc4_decrypt: its next cell
          esc,     \* _esc_state
          dvc,     \* dvc_mode
          down,    \* bytes on the way to the console
          far,     \* the iLO2: its next cell, and the byte it wants to send
          said     \* the text the iLO2 has sent, up to a trigger

sender == <<lock, todo, buf, sends, up, wire, garbled, cut>>
link == <<sock, stop>>
receiver == <<chunk, dec, esc, dvc>>
ilo == <<down, far, said>>
vars == <<sender, pc, enc, torn, link, receiver, ilo>>

Threads == {"page", "recv"}
Text == {"esc", "[", "R"}
Cell(key, pos) == [key |-> key, pos |-> pos]
After(cell) == Cell(cell.key, cell.pos + 1)
NextKey(cell) == Cell(cell.key + 1, 0)

\* The next cell: of the same key, or the first of a later one.
Follows(a, b) == b = After(a) \/ (b.key > a.key /\ b.pos = 0)

Init ==
  /\ lock = None
  /\ pc = [t \in Threads |-> IF t = "page" THEN "idle" ELSE "receiving"]
  /\ todo = [t \in Threads |-> 0]
  /\ buf = [t \in Threads |-> <<>>]
  /\ enc = Cell(0, 1)
  /\ sock = "open"
  /\ stop = FALSE
  /\ sends = 0
  /\ up = 0
  /\ wire = Cell(0, 0)
  /\ garbled = FALSE /\ torn = FALSE /\ cut = FALSE
  /\ chunk = <<>>
  /\ dec = Cell(0, 1)
  /\ esc = 0
  /\ dvc = FALSE
  /\ down = <<>>
  /\ far = [cell |-> Cell(0, 1), byte |-> None, gone |-> FALSE, video |-> 0]
  /\ said = <<>>
-----------------------------------------------------------------------------
(* transmit(), in either thread.                                            *)

\* A key or mouse event, or a button of the page.
PageSends ==
  /\ pc["page"] = "idle"
  /\ sends < MaxSends
  /\ sends' = sends + 1
  /\ pc' = [pc EXCEPT !["page"] = "waiting"]
  /\ todo' = [todo EXCEPT !["page"] = MessageSize]
  /\ UNCHANGED <<lock, buf, up, wire, garbled, cut, enc, torn, link, receiver, ilo>>

Acquire(t) ==
  /\ pc[t] = "waiting"
  /\ lock = None
  /\ lock' = t
  /\ pc' = [pc EXCEPT ![t] = "encrypting"]
  /\ UNCHANGED <<todo, buf, sends, up, wire, garbled, cut, enc, torn, link, receiver, ilo>>

\* Mutant: the lock covers the encryption, not the write.
EncryptAndUnlock(t) ==
  /\ pc[t] = "encrypting"
  /\ buf' = [buf EXCEPT ![t] = Append(@, enc)]
  /\ enc' = After(enc)
  /\ todo' = [todo EXCEPT ![t] = @ - 1]
  /\ pc' = IF todo[t] = 1 THEN [pc EXCEPT ![t] = "checking"] ELSE pc
  /\ lock' = IF todo[t] = 1 THEN None ELSE lock
  /\ torn' = (torn \/ pc["recv"] = "rotating")
  /\ UNCHANGED <<sends, up, wire, garbled, cut, link, receiver, ilo>>

\* Mutant: a byte more than the message has is encrypted.
EncryptOneMore(t) ==
  /\ pc[t] = "encrypting"
  /\ buf' = [buf EXCEPT ![t] = Append(@, enc)]
  /\ enc' = After(enc)
  /\ todo' = [todo EXCEPT ![t] = @ - 1]
  /\ pc' = IF todo[t] = 0 THEN [pc EXCEPT ![t] = "checking"] ELSE pc
  /\ torn' = (torn \/ pc["recv"] = "rotating")
  /\ UNCHANGED <<lock, sends, up, wire, garbled, cut, link, receiver, ilo>>

\* One byte of xor().
Encrypt(t) ==
  /\ pc[t] = "encrypting"
  /\ buf' = [buf EXCEPT ![t] = Append(@, enc)]
  /\ enc' = After(enc)
  /\ todo' = [todo EXCEPT ![t] = @ - 1]
  /\ pc' = IF todo[t] = 1 THEN [pc EXCEPT ![t] = "checking"] ELSE pc
  /\ torn' = (torn \/ pc["recv"] = "rotating")
  /\ UNCHANGED <<lock, sends, up, wire, garbled, cut, link, receiver, ilo>>

\* transmit() returns, or raises into the handler or the decoder's caller.
Return(t) ==
  /\ lock' = None
  /\ buf' = [buf EXCEPT ![t] = <<>>]
  /\ pc' = [pc EXCEPT ![t] = IF t = "page" THEN "idle" ELSE "processing"]

\* _raw_send(): without a socket the encrypted message is dropped.
Check(t) ==
  /\ pc[t] = "checking"
  /\ \/ /\ sock = "none"
        /\ Return(t)
        /\ cut' = TRUE
     \/ /\ sock # "none"
        /\ pc' = [pc EXCEPT ![t] = "sending"]
        /\ UNCHANGED <<lock, buf, cut>>
  /\ UNCHANGED <<todo, sends, up, wire, garbled, enc, torn, link, receiver, ilo>>

\* sendall() gets one more byte into the connection.
Write(t) ==
  /\ pc[t] = "sending"
  /\ sock = "open"
  /\ up < UpSize
  /\ up' = up + 1
  /\ wire' = Head(buf[t])
  /\ garbled' = (garbled \/ ~Follows(wire, Head(buf[t])))
  /\ \/ /\ Len(buf[t]) = 1
        /\ Return(t)
     \/ /\ Len(buf[t]) > 1
        /\ buf' = [buf EXCEPT ![t] = Tail(@)]
        /\ UNCHANGED <<lock, pc>>
  /\ UNCHANGED <<todo, sends, cut, enc, torn, link, receiver, ilo>>

\* Mutant: a socket without timeout.
SendFailsWhenGone(t) ==
  /\ pc[t] = "sending"
  /\ sock # "open" \/ far.gone
  /\ Return(t)
  /\ cut' = TRUE
  /\ UNCHANGED <<todo, sends, up, wire, garbled, enc, torn, link, receiver, ilo>>

\* sendall() fails: the timeout of a second while the connection is full, a
\* peer that is gone, a closed socket (all logged), or None (raised).
SendFails(t) ==
  /\ pc[t] = "sending"
  /\ up = UpSize \/ sock # "open" \/ far.gone
  /\ Return(t)
  /\ cut' = TRUE
  /\ UNCHANGED <<todo, sends, up, wire, garbled, enc, torn, link, receiver, ilo>>

Transmit(t) == Acquire(t) \/ Encrypt(t) \/ Check(t) \/ Write(t) \/ SendFails(t)
-----------------------------------------------------------------------------
(* The receiver thread.                                                     *)

\* recv_into() returns what is there, or the first part of it.
Receive ==
  /\ pc["recv"] = "receiving"
  /\ ~stop /\ sock = "open"
  /\ \E n \in DOMAIN down :
       /\ chunk' = SubSeq(down, 1, n)
       /\ down' = SubSeq(down, n + 1, Len(down))
  /\ pc' = [pc EXCEPT !["recv"] = "processing"]
  /\ UNCHANGED <<sender, enc, torn, link, dec, esc, dvc, far, said>>

\* Mutant: the loop only looks at the socket.
ReceiverEndsByPeer ==
  /\ pc["recv"] = "receiving"
  /\ far.gone /\ down = <<>>
  /\ pc' = [pc EXCEPT !["recv"] = "ended"]
  /\ UNCHANGED <<sender, enc, torn, link, receiver, ilo>>

\* The loop ends: _stop is set, the socket is closed, or the peer is gone.
ReceiverEnds ==
  /\ pc["recv"] = "receiving"
  /\ stop \/ sock # "open" \/ (far.gone /\ down = <<>>)
  /\ pc' = [pc EXCEPT !["recv"] = "ended"]
  /\ UNCHANGED <<sender, enc, torn, link, receiver, ilo>>

ChunkDone ==
  /\ pc["recv"] = "processing"
  /\ chunk = <<>>
  /\ pc' = [pc EXCEPT !["recv"] = "receiving"]
  /\ UNCHANGED <<sender, enc, torn, link, receiver, ilo>>

\* Mutant: other text between the characters of the trigger is passed over.
EscAfterAnything(c) ==
  CASE c = "esc"             -> 1
    [] esc = 1 /\ c = "["    -> 2
    [] OTHER                 -> esc

EscAfter(c) ==
  CASE c = "esc"             -> 1
    [] esc = 1 /\ c = "["    -> 2
    [] OTHER                 -> 0

\* A byte before the trigger.
ProcessText ==
  /\ pc["recv"] = "processing"
  /\ chunk # <<>> /\ ~dvc
  /\ chunk' = Tail(chunk)
  /\ dvc' = (esc = 2 /\ Head(chunk).what = "R")
  /\ esc' = IF dvc' THEN esc ELSE EscAfter(Head(chunk).what)
  /\ UNCHANGED <<sender, pc, enc, torn, link, dec, ilo>>

\* A byte of the video stream is decrypted and fed to the decoder.
Process(what) ==
  /\ pc["recv"] = "processing"
  /\ chunk # <<>> /\ dvc
  /\ Head(chunk).what = what
  /\ chunk' = Tail(chunk)
  /\ UNCHANGED <<esc, dvc, ilo>>

ProcessPixels ==
  /\ Process("pixels")
  /\ dec' = After(dec)
  /\ UNCHANGED <<sender, pc, enc, torn, link>>

\* The decoder is out of step: refresh_screen().
ProcessBroken ==
  /\ Process("broken")
  /\ dec' = After(dec)
  /\ pc' = [pc EXCEPT !["recv"] = "waiting"]
  /\ todo' = [todo EXCEPT !["recv"] = MessageSize]
  /\ UNCHANGED <<lock, buf, sends, up, wire, garbled, cut, enc, torn, link>>

\* _on_change_key(): update_key() assigns the new table first, the indices
\* after it, and takes no lock: it may fall into the encryption of a byte.
ProcessKey ==
  /\ Process("key")
  /\ dec' = After(dec)
  /\ enc' = Cell(enc.key + 1, enc.pos)
  /\ torn' \in {torn} \cup {TRUE : t \in {u \in Threads : pc[u] = "encrypting"}}
  /\ garbled' = (garbled \/ (torn' /\ ~torn))
  /\ pc' = [pc EXCEPT !["recv"] = "rotating"]
  /\ UNCHANGED <<lock, todo, buf, sends, up, wire, cut, link>>

Rotated ==
  /\ pc["recv"] = "rotating"
  /\ enc' = Cell(enc.key, 0)
  /\ dec' = NextKey(dec)
  /\ pc' = [pc EXCEPT !["recv"] = "processing"]
  /\ UNCHANGED <<sender, torn, link, chunk, esc, dvc, ilo>>

\* _on_seize(): disconnect() stops, closes and clears.
ProcessSeize ==
  /\ Process("seize")
  /\ dec' = After(dec)
  /\ stop' = TRUE
  /\ sock' = "closed"
  /\ pc' = [pc EXCEPT !["recv"] = "closing"]
  /\ UNCHANGED <<sender, enc, torn>>

ClearSocket ==
  /\ pc["recv"] = "closing"
  /\ sock' = "none"
  /\ pc' = [pc EXCEPT !["recv"] = "processing"]
  /\ UNCHANGED <<sender, enc, torn, stop, receiver, ilo>>

ReceiveLoop ==
  \/ Receive \/ ReceiverEnds \/ ChunkDone \/ ProcessText \/ ProcessPixels
  \/ ProcessBroken \/ ProcessKey \/ Rotated \/ ProcessSeize \/ ClearSocket
-----------------------------------------------------------------------------
(* The iLO2.  While it waits to write it does not read.                     *)

IloReads ==
  /\ ~far.gone /\ far.byte = None
  /\ up > 0
  /\ up' = up - 1
  /\ UNCHANGED <<lock, todo, buf, sends, wire, garbled, cut, pc, enc, torn, link, receiver, ilo>>

\* The video stream begins with the first ESC [ R of its text.
Trigger == <<"esc", "[", "R">>
Triggered == said = Trigger

IloWants ==
  /\ ~far.gone /\ far.byte = None
  /\ \E what \in Text \cup VideoKinds :
       /\ IF Triggered THEN what \in VideoKinds /\ far.video < MaxVideo
                       ELSE what \in Text /\ Len(said) < MaxText
       /\ far' = [far EXCEPT !.byte = [what |-> what, cell |-> far.cell]]
  /\ UNCHANGED <<sender, pc, enc, torn, link, receiver, down, said>>

IloWrites ==
  /\ ~far.gone /\ far.byte # None
  /\ Len(down) < DownSize
  /\ down' = Append(down, far.byte)
  /\ IF Triggered
     THEN /\ far' = [far EXCEPT !.byte = None, !.video = @ + 1,
                       !.cell = IF far.byte.what = "key" THEN NextKey(@) ELSE After(@)]
          /\ UNCHANGED said
     ELSE /\ LET now == Append(said, far.byte.what)
             IN  said' = IF IsSuffix(Trigger, now) THEN Trigger ELSE now
          /\ far' = [far EXCEPT !.byte = None]
  /\ UNCHANGED <<sender, pc, enc, torn, link, receiver>>

IloGone ==
  /\ ~far.gone
  /\ far' = [far EXCEPT !.gone = TRUE, !.byte = None]
  /\ UNCHANGED <<sender, pc, enc, torn, link, receiver, down, said>>

Next ==
  \/ PageSends
  \/ \E t \in Threads : Transmit(t)
  \/ ReceiveLoop
  \/ IloReads \/ IloWants \/ IloWrites \/ IloGone

\* Both threads run.  Nothing is assumed of the iLO2.
Spec ==
  /\ Init /\ [][Next]_vars
  /\ \A t \in Threads : WF_vars(Transmit(t))
  /\ WF_vars(ReceiveLoop)
-----------------------------------------------------------------------------
Working == {"waiting", "encrypting", "checking", "sending"}
Cells == [key : Nat, pos : Nat]

ChannelTypeOK ==
  /\ lock \in Threads \cup {None}
  /\ pc["page"] \in {"idle"} \cup Working
  /\ pc["recv"] \in {"receiving", "processing", "rotating", "closing", "ended"} \cup Working
  /\ \A t \in Threads : todo[t] \in 0..MessageSize /\ buf[t] \in Seq(Cells)
  /\ {enc, wire, dec, far.cell} \subseteq Cells
  /\ sock \in {"open", "closed", "none"} /\ stop \in BOOLEAN
  /\ up \in 0..UpSize /\ sends \in 0..MaxSends
  /\ {garbled, torn, cut, dvc, far.gone} \subseteq BOOLEAN
  /\ esc \in 0..2
  /\ Len(down) <= DownSize

\* What reaches the iLO2 is one unbroken key stream, whatever the two threads
\* send at the same time: unless a rotation hits an encryption, or a message
\* was not written to its end.
InStep == garbled => torn \/ cut

\* Byte by byte the receiver tells text from video as the iLO2 does, and
\* decrypts with the cell the byte was encrypted with, rotations included.
DecryptInStep ==
  /\ dvc => Triggered
  /\ pc["recv"] = "processing" /\ chunk # <<>> =>
       /\ dvc <=> Head(chunk).what \notin Text
       /\ dvc => Head(chunk).cell = dec

\* No message is waited for for ever, although both ends may stop reading
\* while they wait to write: the socket's timeout breaks the circle.
SendsEnd == \A t \in Threads : pc[t] \in Working ~> pc[t] \notin Working

\* A console that was seized, or whose peer is gone, ends its receiver thread
\* (which reports it).
ReceiverFinishes == stop \/ far.gone ~> pc["recv"] = "ended"
=============================================================================
