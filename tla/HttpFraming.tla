---------------------------- MODULE HttpFraming -----------------------------
(***************************************************************************)
(* ilo2/legacy_tls.py: where a reply of the iLO2 is taken to end.  The      *)
(* connection stays open long after the reply, so raw_request() looks at    *)
(* what has arrived, and ribcl_raw(), whose replies are not framed, waits   *)
(* for a quiet period.                                                      *)
(* The bytes of a reply are symbols: 0..15 for digits, NL for CR LF, CL for *)
(* the name Content-Length, TE for the line "Transfer-Encoding: chunked" and *)
(* Tight for the same line with other blanks than this one, and anything    *)
(* else.  The iLO2 sends well-formed replies, in pieces of any size.        *)
(***************************************************************************)
EXTENDS Naturals, Sequences, SequencesExt

CONSTANTS Replies,  \* what the iLO2 may answer: see WellFormed
          Quiet,    \* quiet_period, in ticks of the clock
          Timeout   \* timeout, in the same ticks

VARIABLES caller,   \* "http" or "ribcl"
          reply,
          got,      \* symbols that have arrived
          silent,   \* ticks since the last of them
          elapsed,  \* ticks since ribcl_raw() set its deadline
          outcome,  \* "reading", or why reading ended
          lost      \* history: the iLO2 hung up early or kept its reply back

vars == <<caller, reply, got, silent, elapsed, outcome, lost>>

NL == 16
TE == 17
CL == 18
Other == 19
Tight == 20

Prefix(s, n) == SubSeq(s, 1, n)
From(s, n) == SubSeq(s, n, Len(s))

\* bytes.find(): the place of the next x from i on, or 0.
Find(s, x, i) == SelectInSubSeq(s, i, Len(s), LAMBDA y : y = x)

\* int(): what it accepts, and what it makes of that.
IsNumber(base, digits) ==
  digits # <<>> /\ \A k \in DOMAIN digits : digits[k] < base
Value(base, digits) ==
  LET value[k \in 0..Len(digits)] ==
        IF k = 0 THEN 0 ELSE base * value[k - 1] + digits[k]
  IN  value[Len(digits)]
-----------------------------------------------------------------------------
(* A reply: its symbols, the place where its header ends, its chunks if it   *)
(* has any, and the payload it carries.                                     *)

Block(r) == Prefix(r.bytes, r.head - 1)
Body(r) == From(r.bytes, r.head + 2)
Chunked(r) == Contains(Block(r), TE) \/ Contains(Block(r), Tight)
HasLength(r) == ~Chunked(r) /\ Contains(Block(r), CL)

\* The header ends with the first empty line.
HeaderEnds(r) ==
  /\ r.bytes \in Seq(Nat)
  /\ r.head \in 2..(Len(r.bytes) - 1)
  /\ r.bytes[r.head] = NL /\ r.bytes[r.head + 1] = NL
  /\ \A i \in 1..(r.head - 1) : r.bytes[i] # NL \/ r.bytes[i + 1] # NL

\* The length of the body, in a line that ends at e, the last one or not.
LengthGiven(r) ==
  LET block == Block(r) IN
    \E c \in DOMAIN block : \E e \in (c + 1)..(Len(block) + 1) :
      /\ block[c] = CL /\ \A i \in 1..(c - 1) : block[i] # CL
      /\ e <= Len(block) => block[e] = NL
      /\ \A i \in c..(e - 1) : block[i] # NL
      /\ LET digits == SubSeq(block, c + 1, e - 1)
         IN  IsNumber(10, digits) /\ Value(10, digits) = Len(Body(r))

\* A chunk: its size line from `at` to `eol`, its data, which continue the payload
\* from `off` on, and a line end.
IsChunk(body, c, payload) ==
  /\ c.at \in 1..Len(body) /\ c.eol \in 1..Len(body) /\ c.at < c.eol
  /\ c.size \in Nat /\ c.off \in Nat
  /\ body[c.eol] = NL /\ \A i \in c.at..(c.eol - 1) : body[i] # NL
  /\ LET line == SubSeq(body, c.at, c.eol - 1)
     IN  IsNumber(16, line) /\ Value(16, line) = c.size
  /\ \A j \in 1..c.size : body[c.eol + j] = payload[c.off + j]
  /\ body[c.eol + c.size + 1] = NL

\* One chunk after the other, the last of them empty.
IsChunkedBody(body, chunks, payload) ==
  LET n == Len(chunks) IN
    /\ chunks # <<>>
    /\ \A k \in 1..n : IsChunk(body, chunks[k], payload)
    /\ chunks[1].at = 1 /\ chunks[1].off = 0
    /\ \A k \in 1..(n - 1) :
         /\ chunks[k].size > 0
         /\ chunks[k + 1].at = chunks[k].eol + chunks[k].size + 2
         /\ chunks[k + 1].off = chunks[k].off + chunks[k].size
    /\ chunks[n].size = 0
    /\ Len(body) = chunks[n].eol + 1 /\ Len(payload) = chunks[n].off

\* A length beside chunks is ignored if it is there at all (RFC 7230, 3.3.2).
WellFormed(r) ==
  /\ HeaderEnds(r)
  /\ Contains(Block(r), Tight) /\ ~Contains(Block(r), TE) => ~Contains(Block(r), CL)
  /\ r.payload \in Seq(Nat) /\ r.chunks \in Seq([at : Nat, eol : Nat, size : Nat, off : Nat])
  /\ IF Chunked(r)
     THEN IsChunkedBody(Body(r), r.chunks, r.payload)
     ELSE Body(r) = r.payload /\ (HasLength(r) => LengthGiven(r))

ASSUME RepliesAssumption == \A r \in Replies : WellFormed(r)
ASSUME TimesAssumption == Quiet \in Nat \ {0} /\ Timeout \in Nat \ {0}
-----------------------------------------------------------------------------
\* The size line at i of a chunked body.
LineEnd(buf, i) == Find(buf, NL, i)
SizeLine(buf, i) == SubSeq(buf, i, LineEnd(buf, i) - 1)
SizeAt(buf, i) == Value(16, SizeLine(buf, i))
HasSize(buf, i) == LineEnd(buf, i) # 0 /\ IsNumber(16, SizeLine(buf, i))
NextChunk(buf, i) == LineEnd(buf, i) + SizeAt(buf, i) + 2

\* The chunk at i has arrived with the line end after its data.
Arrived(buf, i) == HasSize(buf, i) /\ Len(buf) >= NextChunk(buf, i) - 1

\* Mutant: the last chunk is looked for anywhere in the body.
TerminatorSeen(buf) ==
  \E i \in 1..(Len(buf) - 2) : SubSeq(buf, i, i + 2) = <<0, NL, NL>>

\* The loop of _chunked_body_complete(): the chunk it looks at in each round, 0 after
\* it has returned.
NextRound(buf, i) ==
  IF i # 0 /\ Arrived(buf, i) /\ SizeAt(buf, i) # 0 THEN NextChunk(buf, i) ELSE 0
Rounds(buf) ==
  LET at[n \in 0..Len(buf)] == IF n = 0 THEN 1 ELSE NextRound(buf, at[n - 1])
  IN  at

\* _chunked_body_complete(): TRUE is returned at an empty chunk.
ChunkedBodyComplete(buf) ==
  \E n \in 0..Len(buf) :
    LET i == Rounds(buf)[n] IN i # 0 /\ Arrived(buf, i) /\ SizeAt(buf, i) = 0

HeadEnd(data) ==
  LET ends == {i \in 1..(Len(data) - 1) : data[i] = NL /\ data[i + 1] = NL}
  IN  IF ends = {} THEN 0 ELSE Min(ends)

\* The digits after Content-Length in the header block.  find() gives -1 if
\* no line follows, and the slice up to -1 leaves out the last digit.
LengthDigits(block) ==
  LET cl == Find(block, CL, 1)
      eol == Find(block, NL, cl)
  IN  SubSeq(block, cl + 1, IF eol = 0 THEN Len(block) - 1 ELSE eol - 1)

\* Mutant: a response is complete one byte after its end.
ResponseCompleteLate(data) ==
  LET end == HeadEnd(data)
      block == Prefix(data, end - 1)
      body == From(data, end + 2)
  IN  /\ end # 0
      /\ IF Contains(block, TE)
         THEN ChunkedBodyComplete(body)
         ELSE /\ Contains(block, CL)
              /\ IsNumber(10, LengthDigits(block))
              /\ Len(body) > Value(10, LengthDigits(block))

\* _response_complete()
ResponseComplete(data) ==
  LET end == HeadEnd(data)
      block == Prefix(data, end - 1)
      body == From(data, end + 2)
  IN  /\ end # 0
      /\ IF Contains(block, TE)
         THEN ChunkedBodyComplete(body)
         ELSE /\ Contains(block, CL)
              /\ IsNumber(10, LengthDigits(block))
              /\ Len(body) >= Value(10, LengthDigits(block))

\* The data of the chunk at i, or what has arrived of them.
Data(buf, i) ==
  LET last == LineEnd(buf, i) + SizeAt(buf, i)
  IN  SubSeq(buf, LineEnd(buf, i) + 1, IF last < Len(buf) THEN last ELSE Len(buf))

\* Mutant: the line end after a chunk is not skipped.
PutOutShort(buf, done) ==
  IF HasSize(buf, done.at) /\ SizeAt(buf, done.at) # 0
  THEN [at |-> NextChunk(buf, done.at) - 1, out |-> done.out \o Data(buf, done.at)]
  ELSE done

\* The loop of _dechunk(): where it is and what it has put out after each round.
PutOut(buf, done) ==
  IF HasSize(buf, done.at) /\ SizeAt(buf, done.at) # 0
  THEN [at |-> NextChunk(buf, done.at), out |-> done.out \o Data(buf, done.at)]
  ELSE done
Dechunked(buf) ==
  LET done[n \in 0..Len(buf)] ==
        IF n = 0 THEN [at |-> 1, out |-> <<>>] ELSE PutOut(buf, done[n - 1])
  IN  done

\* _dechunk()
Dechunk(buf) == Dechunked(buf)[Len(buf)].out

\* The body that request() returns for the bytes that were read: other than
\* _response_complete(), it parses the headers and does not mind their blanks.
BodyOf(data) ==
  LET end == HeadEnd(data)
      body == From(data, end + 2)
      block == Prefix(data, end - 1)
  IN  IF Contains(block, TE) \/ Contains(block, Tight) THEN Dechunk(body) ELSE body
-----------------------------------------------------------------------------
Init ==
  /\ caller \in {"http", "ribcl"}
  /\ reply \in Replies
  /\ got = 0
  /\ silent = 0
  /\ elapsed = 0
  /\ outcome = "reading"
  /\ lost = FALSE

\* recv() returns a piece of the reply.
Arrive ==
  /\ outcome = "reading"
  /\ got' \in (got + 1)..Len(reply.bytes)
  /\ silent' = 0
  /\ outcome' = IF caller = "http" /\ ResponseComplete(Prefix(reply.bytes, got'))
                THEN "complete" ELSE "reading"
  /\ UNCHANGED <<caller, reply, elapsed, lost>>

\* The connection is closed: after the reply, or early.
Closed ==
  /\ outcome = "reading"
  /\ outcome' = "closed"
  /\ lost' = (got < Len(reply.bytes))
  /\ UNCHANGED <<caller, reply, got, silent, elapsed>>

\* raw_request() gives every recv() the whole time-out.
RequestWaits ==
  /\ caller = "http"
  /\ outcome' = IF silent' = Timeout THEN "timeout" ELSE "reading"
  /\ UNCHANGED elapsed

\* Mutant: ribcl_raw() gives every recv() the whole time-out, too.
RibclWaitsAnew ==
  /\ caller = "ribcl"
  /\ elapsed' = elapsed + 1
  /\ outcome' = IF got > 0 /\ silent' = Quiet THEN "quiet"
                ELSE IF silent' = Timeout THEN "timeout" ELSE "reading"

\* ribcl_raw() takes a reply that has begun to be over after the quiet period;
\* before, it waits, and in any case until its deadline only.
RibclWaits ==
  /\ caller = "ribcl"
  /\ elapsed' = elapsed + 1
  /\ outcome' = IF got > 0 /\ silent' = Quiet THEN "quiet"
                ELSE IF elapsed' = Timeout THEN "timeout" ELSE "reading"

\* The iLO2 keeps something back for longer than its clients wait by contract: for
\* the quiet period once it has begun a RIBCL reply, or for the time-out.
KeptBack ==
  /\ got < Len(reply.bytes)
  /\ \/ caller = "http" /\ silent' >= Timeout
     \/ caller = "ribcl" /\ elapsed' >= Timeout
     \/ caller = "ribcl" /\ got > 0 /\ silent' >= Quiet

\* Time passes without a byte.
Passes ==
  /\ outcome = "reading"
  /\ silent' = silent + 1
  /\ RequestWaits \/ RibclWaits
  /\ lost' = KeptBack
  /\ UNCHANGED <<caller, reply, got>>

Next == Arrive \/ Closed \/ Passes
Spec == Init /\ [][Next]_vars
-----------------------------------------------------------------------------
\* Types; no call waits longer than its time-out for the next byte, and a RIBCL
\* call not longer than that for all of its reply.
FramingTypeOK ==
  /\ caller \in {"http", "ribcl"}
  /\ reply \in Replies
  /\ got \in 0..Len(reply.bytes)
  /\ silent \in 0..Timeout
  /\ elapsed \in 0..Timeout
  /\ outcome \in {"reading", "complete", "closed", "timeout", "quiet"}
  /\ lost \in BOOLEAN

\* The length is in the last header line.  Its last digit is not read (see
\* LengthDigits), so a tenth of the body passes for the whole of it; a length of
\* one digit is not read at all.
LengthLast(r) ==
  LET block == Block(r)
  IN  HasLength(r) /\ Find(block, NL, Find(block, CL, 1)) = 0
LengthMissed(r) == LengthLast(r) /\ Find(Block(r), CL, 1) + 1 = Len(Block(r))

\* The guess of its end does not cut a reply: however it arrives, what is returned
\* is all of it, unless the iLO2 hung up or kept it back for too long.  Of a reply
\* whose length is in the last header line it is a tenth of the body at least.
EndsWhole ==
  outcome # "reading" /\ ~lost =>
    got >= IF LengthLast(reply) THEN reply.head + 1 + Len(Body(reply)) \div 10
                                ELSE Len(reply.bytes)

\* The reply says how it is framed, in words that _response_complete() knows.
Announced(r) == Contains(Block(r), TE) \/ (HasLength(r) /\ ~LengthMissed(r))

\* A reply that says so is not waited for once it is there.
NoIdling ==
  caller = "http" /\ Announced(reply) /\ got = Len(reply.bytes) => outcome # "reading"

\* The caller of request() gets the body that was sent, whatever is in it; a
\* beginning of it, if its length is in the last header line.
BodyIsPayload ==
  outcome # "reading" /\ caller = "http" /\ ~lost =>
    LET body == BodyOf(Prefix(reply.bytes, got))
    IN  body = IF LengthLast(reply) THEN Prefix(reply.payload, Len(body)) ELSE reply.payload
=============================================================================
