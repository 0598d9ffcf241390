-------------------------- MODULE KvmChannelProofs --------------------------
(***************************************************************************)
(* The key stream the iLO2 reads is unbroken however the two threads        *)
(* interleave: for messages of any size, connections of any size and any    *)
(* number of sends.  The invariant follows the cell from the cipher through *)
(* the buffer of the thread that holds _send_lock to the wire.              *)
(***************************************************************************)
EXTENDS KvmChannel, SequenceTheorems, TLAPS

Holding == {"encrypting", "checking", "sending"}
Labels == {"idle", "receiving", "processing", "rotating", "closing", "ended"} \cup Working

\* What the invariant is about; all else a step may change freely.
keyVars == <<lock, pc, buf, enc, wire, garbled, torn, cut>>

KeyTypes ==
  /\ lock \in Threads \cup {None}
  /\ pc \in [Threads -> Labels]
  /\ buf \in [Threads -> Seq(Cells)]
  /\ enc \in Cells
  /\ wire \in Cells

\* _send_lock is held by the thread between encrypting and the end of its
\* write, and only that thread has encrypted bytes that are not written.
Exclusive ==
  /\ \A t \in Threads : pc[t] \in Holding <=> lock = t
  /\ \A t \in Threads : lock # t => buf[t] = <<>>

\* The bytes of s go on from cell a without a gap.
Chain(a, s) ==
  /\ s # <<>> => Follows(a, s[1])
  /\ \A i \in 1..(Len(s) - 1) : Follows(s[i], s[i + 1])

Final(a, s) == IF s = <<>> THEN a ELSE s[Len(s)]

\* What is encrypted next goes on from cell a; in the middle of a rotation only
\* its key is settled.
Ready(a) == IF pc["recv"] = "rotating" THEN enc.key > a.key ELSE Follows(a, enc)

Unbroken ==
  ~torn /\ ~cut =>
    /\ ~garbled
    /\ \A t \in Threads : lock = t => Chain(wire, buf[t]) /\ Ready(Final(wire, buf[t]))
    /\ lock = None => Ready(wire)

KeyInv == KeyTypes /\ Exclusive /\ Unbroken
-----------------------------------------------------------------------------
(* Cells and chains of them.                                                *)

LEMMA CellTypes ==
  /\ \A a \in Cells : After(a) \in Cells /\ NextKey(a) \in Cells
  /\ \A key, pos \in Nat : Cell(key, pos) \in Cells
BY DEF Cells, Cell, After, NextKey

LEMMA AfterFollows == \A a \in Cells : Follows(a, After(a))
BY DEF Follows

LEMMA FollowsKey ==
  ASSUME NEW a \in Cells, NEW b \in Cells, Follows(a, b)
  PROVE  b.key >= a.key
<1>1. CASE b = After(a)
  BY <1>1 DEF Cells, After, Cell
<1>2. CASE b.key > a.key
  BY <1>2 DEF Cells
<1> QED BY <1>1, <1>2 DEF Follows

LEMMA LaterKeyFollows ==
  ASSUME NEW a \in Cells, NEW key \in Nat, key > a.key
  PROVE  Follows(a, Cell(key, 0))
BY DEF Follows, Cell

LEMMA FinalType ==
  ASSUME NEW a \in Cells, NEW s \in Seq(Cells)
  PROVE  Final(a, s) \in Cells
<1>1. CASE s = <<>>
  BY <1>1 DEF Final
<1>2. CASE s # <<>>
  <2>1. Len(s) \in 1..Len(s)
    BY <1>2
  <2> QED BY <2>1, <1>2 DEF Final
<1> QED BY <1>1, <1>2

LEMMA NothingLeft ==
  ASSUME NEW s \in Seq(Cells), Len(s) = 0 PROVE s = <<>>
OBVIOUS

LEMMA ChainAppend ==
  ASSUME NEW a \in Cells, NEW s \in Seq(Cells), NEW e \in Cells,
         Chain(a, s), Follows(Final(a, s), e)
  PROVE  Chain(a, Append(s, e)) /\ Final(a, Append(s, e)) = e /\ Append(s, e) \in Seq(Cells)
<1> DEFINE z == Append(s, e)
<1>1. /\ z \in Seq(Cells) /\ Len(z) = Len(s) + 1 /\ z[Len(z)] = e
      /\ \A i \in 1..Len(s) : z[i] = s[i]
  OBVIOUS
<1>2. z # <<>>
  BY <1>1
<1>3. Final(a, z) = e
  BY <1>1, <1>2 DEF Final
<1>4. Follows(a, z[1])
  <2>1. CASE s = <<>>
    BY <2>1, <1>1 DEF Final
  <2>2. CASE s # <<>>
    BY <2>2, <1>1 DEF Chain
  <2> QED BY <2>1, <2>2
<1>5. \A i \in 1..(Len(z) - 1) : Follows(z[i], z[i + 1])
  <2> TAKE i \in 1..(Len(z) - 1)
  <2>1. CASE i = Len(s)
    <3>1. s # <<>> /\ z[i] = s[Len(s)] /\ z[i + 1] = e
      BY <2>1, <1>1
    <3> QED BY <3>1 DEF Final
  <2>2. CASE i < Len(s)
    <3>1. i \in 1..(Len(s) - 1) /\ z[i] = s[i] /\ z[i + 1] = s[i + 1]
      BY <2>2, <1>1
    <3> QED BY <3>1 DEF Chain
  <2> QED BY <2>1, <2>2, <1>1
<1> HIDE DEF z
<1>6. Chain(a, z) /\ Final(a, z) = e /\ z \in Seq(Cells)
  BY <1>1, <1>2, <1>3, <1>4, <1>5 DEF Chain
<1> QED BY <1>6 DEF z

LEMMA ChainTail ==
  ASSUME NEW a \in Cells, NEW s \in Seq(Cells), s # <<>>, Chain(a, s)
  PROVE  /\ Follows(a, Head(s)) /\ Head(s) \in Cells /\ Tail(s) \in Seq(Cells)
         /\ Chain(Head(s), Tail(s)) /\ Final(Head(s), Tail(s)) = Final(a, s)
<1> DEFINE z == Tail(s)
<1>1. /\ z \in Seq(Cells) /\ Len(z) = Len(s) - 1 /\ Head(s) = s[1] /\ Head(s) \in Cells
      /\ \A i \in 1..Len(z) : z[i] = s[i + 1]
      /\ Len(s) \in Nat \ {0}
  OBVIOUS
<1>2. Follows(a, Head(s))
  BY <1>1 DEF Chain
<1>3. Chain(Head(s), z)
  <2>1. z # <<>> => Follows(Head(s), z[1])
    <3> SUFFICES ASSUME z # <<>> PROVE Follows(Head(s), z[1])
      OBVIOUS
    <3>1. Len(z) >= 1
      BY <1>1
    <3>2. 1 \in 1..(Len(s) - 1) /\ z[1] = s[1 + 1]
      BY <3>1, <1>1
    <3> QED BY <3>2, <1>1 DEF Chain
  <2>2. \A i \in 1..(Len(z) - 1) : Follows(z[i], z[i + 1])
    <3> TAKE i \in 1..(Len(z) - 1)
    <3>1. i + 1 \in 1..(Len(s) - 1) /\ z[i] = s[i + 1] /\ z[i + 1] = s[(i + 1) + 1]
      BY <1>1
    <3> QED BY <3>1 DEF Chain
  <2> HIDE DEF z
  <2> QED BY <2>1, <2>2 DEF Chain
<1>4. Final(Head(s), z) = Final(a, s)
  <2>1. CASE Len(s) = 1
    <3>1. z = <<>>
      <4>1. z \in Seq(Cells) /\ Len(z) = 0
        BY <2>1, <1>1
      <4> HIDE DEF z
      <4> QED BY <4>1
    <3> HIDE DEF z
    <3> QED BY <3>1, <2>1, <1>1 DEF Final
  <2>2. CASE Len(s) > 1
    <3> HIDE DEF z
    <3>1. z # <<>> /\ z[Len(z)] = s[Len(s)]
      <4>1. Len(z) \in 1..Len(z) /\ Len(z) + 1 = Len(s)
        BY <2>2, <1>1
      <4>2. z[Len(z)] = s[Len(z) + 1]
        BY <4>1, <1>1
      <4> QED BY <4>1, <4>2
    <3> QED BY <3>1 DEF Final
  <2> QED BY <2>1, <2>2, <1>1
<1> QED BY <1>1, <1>2, <1>3, <1>4
-----------------------------------------------------------------------------
(* Preservation.                                                            *)

LEMMA ThreadFacts ==
  /\ "page" \in Threads /\ "recv" \in Threads /\ "page" # "recv"
  /\ None \notin Threads
  /\ \A t \in Threads : t = "page" \/ t = "recv"
BY NoneAssumption DEF Threads

\* A thread that is not transmitting goes from one label to another.
LEMMA OtherMove ==
  ASSUME KeyInv, NEW t \in Threads, NEW x \in Labels \ (Holding \cup {"rotating"}),
         pc[t] \notin Holding \cup {"rotating"}, pc' = [pc EXCEPT ![t] = x],
         UNCHANGED <<lock, buf, enc, wire, garbled, torn, cut>>
  PROVE  KeyInv'
<1>1. KeyTypes'
  BY DEF KeyInv, KeyTypes
<1>2. \A u \in Threads : pc'[u] = IF u = t THEN x ELSE pc[u]
  BY DEF KeyInv, KeyTypes
<1>3. Exclusive'
  BY <1>2 DEF KeyInv, Exclusive
<1>4. pc'["recv"] = "rotating" <=> pc["recv"] = "rotating"
  BY <1>2, ThreadFacts
<1>5. \A a : Ready(a)' <=> Ready(a)
  BY <1>4 DEF Ready
<1>6. Unbroken'
  BY <1>5 DEF KeyInv, Unbroken, Chain, Final, Ready
<1> QED BY <1>1, <1>3, <1>6 DEF KeyInv

LEMMA AcquireKeeps ==
  ASSUME KeyInv, NEW t \in Threads, Acquire(t)
  PROVE  KeyInv'
<1>1. /\ lock = None /\ lock' = t /\ pc[t] = "waiting"
      /\ UNCHANGED <<buf, enc, wire, garbled, torn, cut>>
      /\ pc' = [pc EXCEPT ![t] = "encrypting"]
  BY DEF Acquire
<1>2. \A u \in Threads : pc'[u] = IF u = t THEN "encrypting" ELSE pc[u]
  BY <1>1 DEF KeyInv, KeyTypes
<1>3. KeyTypes'
  BY <1>1 DEF KeyInv, KeyTypes, Labels, Working
<1>4. Exclusive'
  <2>1. \A u \in Threads : pc[u] \notin Holding /\ buf[u] = <<>>
    BY <1>1, ThreadFacts DEF KeyInv, Exclusive
  <2> QED BY <2>1, <1>1, <1>2 DEF Exclusive, Holding
<1>5. Unbroken'
  <2>1. pc'["recv"] = "rotating" <=> pc["recv"] = "rotating"
    BY <1>1, <1>2, ThreadFacts
  <2>2. buf[t] = <<>> /\ buf' = buf
    BY <1>1, ThreadFacts DEF KeyInv, Exclusive
  <2>3. ~torn /\ ~cut => ~garbled /\ Ready(wire)
    BY <1>1 DEF KeyInv, Unbroken
  <2>4. Chain(wire, <<>>) /\ Final(wire, <<>>) = wire
    BY DEF Chain, Final
  <2>5. Ready(wire)' <=> Ready(wire)
    BY <2>1, <1>1 DEF Ready
  <2>6. lock' # None /\ \A u \in Threads : lock' = u => u = t
    BY <1>1, ThreadFacts
  <2>7. Chain(wire, buf[t])' /\ Final(wire, buf[t])' = wire'
    BY <2>2, <2>4, <1>1
  <2>8. Ready(Final(wire, buf[t]))' <=> Ready(wire)'
    BY <2>7 DEF Ready
  <2>9. ASSUME ~torn, ~cut, NEW u \in Threads, lock' = u
        PROVE  Chain(wire, buf[u])' /\ Ready(Final(wire, buf[u]))'
    <3>1. u = t
      BY <2>6, <2>9
    <3> QED BY <3>1, <2>3, <2>5, <2>7, <2>8, <2>9
  <2> QED BY <2>3, <2>6, <2>9, <1>1 DEF Unbroken
<1> QED BY <1>3, <1>4, <1>5 DEF KeyInv

LEMMA EncryptKeeps ==
  ASSUME KeyInv, NEW t \in Threads, Encrypt(t)
  PROVE  KeyInv'
<1>1. /\ pc[t] = "encrypting" /\ UNCHANGED <<lock, wire, garbled, cut>>
      /\ buf' = [buf EXCEPT ![t] = Append(@, enc)]
      /\ enc' = After(enc)
      /\ torn' = (torn \/ pc["recv"] = "rotating")
      /\ \/ pc' = pc
         \/ pc' = [pc EXCEPT ![t] = "checking"]
  BY DEF Encrypt
<1>2. /\ \A u \in Threads : u # t => pc'[u] = pc[u] /\ buf'[u] = buf[u]
      /\ pc'[t] \in {"encrypting", "checking"}
      /\ buf'[t] = Append(buf[t], enc)
      /\ buf[t] \in Seq(Cells)
  BY <1>1 DEF KeyInv, KeyTypes
<1>3. lock = t /\ \A u \in Threads : u # t => lock # u
  BY <1>1 DEF KeyInv, Exclusive, Holding
<1>4. KeyTypes'
  <2>1. pc' \in [Threads -> Labels]
    BY <1>1 DEF KeyInv, KeyTypes, Labels, Working
  <2>2. enc \in Cells /\ buf \in [Threads -> Seq(Cells)]
    BY DEF KeyInv, KeyTypes
  <2>3. Append(buf[t], enc) \in Seq(Cells)
    BY <2>2, <1>2
  <2>4. buf' \in [Threads -> Seq(Cells)]
    BY <2>2, <2>3, <1>1
  <2>5. enc' \in Cells
    BY <2>2, <1>1, CellTypes
  <2> QED BY <2>1, <2>4, <2>5, <1>1 DEF KeyInv, KeyTypes
<1>5. Exclusive'
  BY <1>1, <1>2, <1>3 DEF KeyInv, Exclusive, Holding
<1>6. Unbroken'
  <2> SUFFICES ASSUME ~torn', ~cut
               PROVE  ~garbled /\ Chain(wire, buf'[t]) /\ Ready(Final(wire, buf[t]))'
    BY <1>1, <1>3, ThreadFacts DEF Unbroken, Chain, Final, Ready
  <2>1. ~torn /\ pc["recv"] # "rotating"
    BY <1>1
  <2>2. pc'["recv"] # "rotating"
    BY <2>1, <1>1, <1>2, ThreadFacts
  <2>3. ~garbled /\ Chain(wire, buf[t]) /\ Follows(Final(wire, buf[t]), enc)
    BY <2>1, <1>3 DEF KeyInv, Unbroken, Ready
  <2>4. enc \in Cells /\ wire \in Cells
    BY DEF KeyInv, KeyTypes
  <2>5. Chain(wire, buf'[t]) /\ Final(wire, buf'[t]) = enc
    BY <2>3, <2>4, <1>2, ChainAppend
  <2>6. Follows(enc, enc')
    BY <2>4, <1>1, AfterFollows
  <2>7. wire' = wire
    BY <1>1
  <2> QED BY <2>2, <2>3, <2>5, <2>6, <2>7 DEF Ready, Final
<1> QED BY <1>4, <1>5, <1>6 DEF KeyInv

\* transmit() returns: the lock is free and the buffer gone.
LEMMA ReturnReleases ==
  ASSUME KeyInv, NEW t \in Threads, lock = t, Return(t), enc' = enc, wire' \in Cells
  PROVE  /\ KeyTypes' /\ Exclusive'
         /\ pc'["recv"] = "rotating" <=> pc["recv"] = "rotating"
<1>1. /\ lock' = None /\ buf' = [buf EXCEPT ![t] = <<>>]
      /\ pc' = [pc EXCEPT ![t] = IF t = "page" THEN "idle" ELSE "processing"]
  BY DEF Return
<1>2. pc'[t] \in {"idle", "processing"} /\ buf'[t] = <<>>
  BY <1>1 DEF KeyInv, KeyTypes
<1>3. \A u \in Threads : u # t => pc'[u] = pc[u] /\ buf'[u] = buf[u]
  BY <1>1 DEF KeyInv, KeyTypes
<1>4. KeyTypes'
  <2>1. pc' \in [Threads -> Labels]
    BY <1>1 DEF KeyInv, KeyTypes, Labels
  <2>2. buf' \in [Threads -> Seq(Cells)]
    <3>1. <<>> \in Seq(Cells)
      OBVIOUS
    <3> QED BY <3>1, <1>1 DEF KeyInv, KeyTypes
  <2> QED BY <2>1, <2>2, <1>1 DEF KeyInv, KeyTypes
<1>5. Exclusive'
  <2>1. \A u \in Threads : u # t => lock # u /\ pc[u] \notin Holding /\ buf[u] = <<>>
    BY DEF KeyInv, Exclusive
  <2> QED BY <2>1, <1>1, <1>2, <1>3, ThreadFacts DEF Exclusive, Holding
<1>6. pc[t] # "rotating"
  BY DEF KeyInv, Exclusive, Holding
<1> QED BY <1>2, <1>3, <1>4, <1>5, <1>6, ThreadFacts

LEMMA CheckKeeps ==
  ASSUME KeyInv, NEW t \in Threads, Check(t)
  PROVE  KeyInv'
<1>1. pc[t] = "checking" /\ UNCHANGED <<wire, garbled, enc, torn>>
  BY DEF Check
<1>2. lock = t
  BY <1>1 DEF KeyInv, Exclusive, Holding
<1>3. CASE Return(t) /\ cut' = TRUE
  <2>1. wire' \in Cells
    BY <1>1 DEF KeyInv, KeyTypes
  <2>2. Unbroken'
    BY <1>3 DEF Unbroken
  <2> QED BY <2>1, <2>2, <1>1, <1>2, <1>3, ReturnReleases DEF KeyInv
<1>4. CASE pc' = [pc EXCEPT ![t] = "sending"] /\ UNCHANGED <<lock, buf, cut>>
  <2>1. \A u \in Threads : pc'[u] = IF u = t THEN "sending" ELSE pc[u]
    BY <1>4 DEF KeyInv, KeyTypes
  <2>2. KeyTypes'
    BY <1>1, <1>4 DEF KeyInv, KeyTypes, Labels, Working
  <2>3. Exclusive'
    BY <2>1, <1>1, <1>4 DEF KeyInv, Exclusive, Holding
  <2>4. pc'["recv"] = "rotating" <=> pc["recv"] = "rotating"
    BY <2>1, <1>1, ThreadFacts
  <2>5. Unbroken'
    BY <2>4, <1>1, <1>4 DEF KeyInv, Unbroken, Chain, Final, Ready
  <2> QED BY <2>2, <2>3, <2>5 DEF KeyInv
<1> QED BY <1>3, <1>4 DEF Check

LEMMA SendFailsKeeps ==
  ASSUME KeyInv, NEW t \in Threads, SendFails(t)
  PROVE  KeyInv'
<1>1. pc[t] = "sending" /\ Return(t) /\ cut' = TRUE /\ UNCHANGED <<wire, enc>>
  BY DEF SendFails
<1>2. lock = t /\ wire' \in Cells
  BY <1>1 DEF KeyInv, KeyTypes, Exclusive, Holding
<1>3. Unbroken'
  BY <1>1 DEF Unbroken
<1> QED BY <1>1, <1>2, <1>3, ReturnReleases DEF KeyInv

LEMMA WriteKeeps ==
  ASSUME KeyInv, NEW t \in Threads, Write(t)
  PROVE  KeyInv'
<1>1. /\ pc[t] = "sending" /\ UNCHANGED <<cut, enc, torn>>
      /\ wire' = Head(buf[t])
      /\ garbled' = (garbled \/ ~Follows(wire, Head(buf[t])))
      /\ \/ Len(buf[t]) = 1 /\ Return(t)
         \/ /\ Len(buf[t]) > 1
            /\ buf' = [buf EXCEPT ![t] = Tail(@)]
            /\ UNCHANGED <<lock, pc>>
  BY DEF Write
<1>2. lock = t /\ \A u \in Threads : u # t => lock # u
  BY <1>1 DEF KeyInv, Exclusive, Holding
<1>3. buf[t] \in Seq(Cells) /\ buf[t] # <<>> /\ wire \in Cells
  BY <1>1 DEF KeyInv, KeyTypes
<1>4. wire' \in Cells
  BY <1>1, <1>3
<1>5. ~torn /\ ~cut => /\ ~garbled' /\ Chain(wire', Tail(buf[t]))
                       /\ Ready(Final(wire', Tail(buf[t])))
  <2> SUFFICES ASSUME ~torn, ~cut
               PROVE  /\ ~garbled' /\ Chain(wire', Tail(buf[t]))
                      /\ Ready(Final(wire', Tail(buf[t])))
    OBVIOUS
  <2>1. ~garbled /\ Chain(wire, buf[t]) /\ Ready(Final(wire, buf[t]))
    BY <1>2 DEF KeyInv, Unbroken
  <2>2. /\ Follows(wire, Head(buf[t])) /\ Chain(Head(buf[t]), Tail(buf[t]))
        /\ Final(Head(buf[t]), Tail(buf[t])) = Final(wire, buf[t])
    BY <2>1, <1>3, ChainTail
  <2> QED BY <2>1, <2>2, <1>1
<1>6. CASE Len(buf[t]) = 1 /\ Return(t)
  <2>1. KeyTypes' /\ Exclusive' /\ (pc'["recv"] = "rotating" <=> pc["recv"] = "rotating")
    BY <1>1, <1>2, <1>4, <1>6, ReturnReleases
  <2>2. lock' = None
    BY <1>6 DEF Return
  <2>3. Tail(buf[t]) = <<>>
    <3>1. Tail(buf[t]) \in Seq(Cells) /\ Len(Tail(buf[t])) = 0
      BY <1>3, <1>6
    <3> QED BY <3>1, NothingLeft
  <2>4. ~torn /\ ~cut => ~garbled' /\ Ready(wire')
    BY <2>3, <1>5 DEF Final
  <2>5. Unbroken'
    BY <2>1, <2>2, <2>4, <1>1, ThreadFacts DEF Unbroken, Ready
  <2> QED BY <2>1, <2>5 DEF KeyInv
<1>7. CASE Len(buf[t]) > 1 /\ buf' = [buf EXCEPT ![t] = Tail(@)] /\ UNCHANGED <<lock, pc>>
  <2>1. /\ \A u \in Threads : u # t => buf'[u] = buf[u]
        /\ buf'[t] = Tail(buf[t])
    BY <1>7 DEF KeyInv, KeyTypes
  <2>2. KeyTypes'
    <3>1. Tail(buf[t]) \in Seq(Cells)
      BY <1>3
    <3>2. buf' \in [Threads -> Seq(Cells)]
      BY <3>1, <1>7 DEF KeyInv, KeyTypes
    <3> QED BY <3>2, <1>1, <1>4, <1>7 DEF KeyInv, KeyTypes
  <2>3. Exclusive'
    BY <2>1, <1>2, <1>7 DEF KeyInv, Exclusive
  <2>4. Unbroken'
    <3> SUFFICES ASSUME ~torn, ~cut
                 PROVE  /\ ~garbled' /\ Chain(wire', buf'[t])
                        /\ Ready(Final(wire, buf[t]))'
      BY <1>1, <1>2, <1>7, ThreadFacts DEF Unbroken, Chain, Final, Ready
    <3>1. Ready(Final(wire, buf[t]))' <=> Ready(Final(wire', buf'[t]))
      BY <1>1, <1>7 DEF Ready, Final
    <3> QED BY <3>1, <2>1, <1>5
  <2> QED BY <2>2, <2>3, <2>4 DEF KeyInv
<1> QED BY <1>1, <1>6, <1>7

\* The rotation: in its middle only the new key is in place.
LEMMA RotationKeeps ==
  ASSUME KeyInv, ProcessKey \/ Rotated
  PROVE  KeyInv'
<1>1. /\ enc \in Cells /\ wire \in Cells /\ pc \in [Threads -> Labels]
      /\ \A t \in Threads : buf[t] \in Seq(Cells)
  BY DEF KeyInv, KeyTypes
<1>2. \A t \in Threads : Final(wire, buf[t]) \in Cells
  BY <1>1, FinalType
<1>3. CASE ProcessKey
  <2>1. /\ pc["recv"] = "processing" /\ UNCHANGED <<lock, buf, wire, cut>>
        /\ enc' = Cell(enc.key + 1, enc.pos)
        /\ garbled' = (garbled \/ (torn' /\ ~torn))
        /\ pc' = [pc EXCEPT !["recv"] = "rotating"]
        /\ torn' \in {torn} \cup {TRUE : t \in {u \in Threads : pc[u] = "encrypting"}}
    BY <1>3 DEF ProcessKey, Process
  <2>2. pc'["recv"] = "rotating" /\ pc'["page"] = pc["page"]
    BY <2>1, <1>1, ThreadFacts
  <2>3. enc' \in Cells
    BY <2>1, <1>1 DEF Cells, Cell
  <2>4. KeyTypes'
    BY <2>1, <2>3 DEF KeyInv, KeyTypes, Labels
  <2>5. Exclusive'
    BY <2>1, <2>2, ThreadFacts DEF KeyInv, Exclusive, Holding
  <2>6. \A a \in Cells : Follows(a, enc) => enc'.key > a.key
    <3> TAKE a \in Cells
    <3> HAVE Follows(a, enc)
    <3>1. enc.key >= a.key
      BY <1>1, FollowsKey
    <3>2. enc'.key = enc.key + 1 /\ enc.key \in Nat /\ a.key \in Nat
      BY <2>1, <1>1 DEF Cells, Cell
    <3> QED BY <3>1, <3>2
  <2>7. Unbroken'
    <3> SUFFICES ASSUME ~torn', ~cut'
                 PROVE  /\ ~garbled'
                        /\ \A t \in Threads : lock' = t =>
                             Chain(wire', buf'[t]) /\ Ready(Final(wire, buf[t]))'
                        /\ lock' = None => Ready(wire)'
      BY DEF Unbroken, Chain, Final, Ready
    <3>1. ~torn /\ ~garbled'
      <4>1. ~torn
        BY <2>1
      <4>2. ~garbled
        BY <4>1, <2>1 DEF KeyInv, Unbroken
      <4> QED BY <4>1, <4>2, <2>1
    <3>2. \A t \in Threads : lock = t => Chain(wire, buf[t]) /\ Follows(Final(wire, buf[t]), enc)
      BY <3>1, <2>1 DEF KeyInv, Unbroken, Ready
    <3>3. lock = None => Follows(wire, enc)
      BY <3>1, <2>1 DEF KeyInv, Unbroken, Ready
    <3>4. \A t \in Threads : lock = t => enc'.key > Final(wire, buf[t]).key
      BY <3>2, <2>6, <1>2
    <3>5. lock = None => enc'.key > wire.key
      BY <3>3, <2>6, <1>1
    <3>6. wire' = wire /\ buf' = buf /\ lock' = lock
      BY <2>1
    <3> QED BY <3>1, <3>2, <3>4, <3>5, <3>6, <2>2 DEF Ready, Final
  <2> QED BY <2>4, <2>5, <2>7 DEF KeyInv
<1>4. CASE Rotated
  <2>1. /\ pc["recv"] = "rotating" /\ UNCHANGED <<lock, buf, wire, garbled, torn, cut>>
        /\ enc' = Cell(enc.key, 0)
        /\ pc' = [pc EXCEPT !["recv"] = "processing"]
    BY <1>4 DEF Rotated, sender
  <2>2. pc'["recv"] = "processing" /\ pc'["page"] = pc["page"]
    BY <2>1, <1>1, ThreadFacts
  <2>3. enc' \in Cells /\ enc.key \in Nat
    BY <2>1, <1>1 DEF Cells, Cell
  <2>4. KeyTypes'
    BY <2>1, <2>3 DEF KeyInv, KeyTypes, Labels
  <2>5. Exclusive'
    BY <2>1, <2>2, ThreadFacts DEF KeyInv, Exclusive, Holding
  <2>6. \A a \in Cells : enc.key > a.key => Follows(a, enc')
    BY <2>1, <2>3, LaterKeyFollows
  <2>7. Unbroken'
    <3> SUFFICES ASSUME ~torn, ~cut
                 PROVE  /\ ~garbled
                        /\ \A t \in Threads : lock = t =>
                             Chain(wire, buf[t]) /\ Ready(Final(wire, buf[t]))'
                        /\ lock = None => Ready(wire)'
      BY <2>1 DEF Unbroken, Chain, Final, Ready
    <3>1. ~garbled
      BY DEF KeyInv, Unbroken
    <3>2. \A t \in Threads : lock = t =>
            Chain(wire, buf[t]) /\ enc.key > Final(wire, buf[t]).key
      BY <2>1 DEF KeyInv, Unbroken, Ready
    <3>3. lock = None => enc.key > wire.key
      BY <2>1 DEF KeyInv, Unbroken, Ready
    <3>4. \A t \in Threads : lock = t => Follows(Final(wire, buf[t]), enc')
      BY <3>2, <2>6, <1>2
    <3>5. lock = None => Follows(wire, enc')
      BY <3>3, <2>6, <1>1
    <3>6. wire' = wire /\ buf' = buf
      BY <2>1
    <3> QED BY <3>1, <3>2, <3>4, <3>5, <3>6, <2>2 DEF Ready, Final
  <2> QED BY <2>4, <2>5, <2>7 DEF KeyInv
<1> QED BY <1>3, <1>4

\* Steps that leave the key stream and the threads' places alone.
LEMMA IdleKeeps ==
  ASSUME KeyInv, UNCHANGED keyVars
  PROVE  KeyInv'
BY DEF KeyInv, keyVars, KeyTypes, Exclusive, Unbroken, Chain, Final, Ready

LEMMA PageSendsKeeps ==
  ASSUME KeyInv, PageSends
  PROVE  KeyInv'
<1>1. /\ pc["page"] = "idle" /\ pc' = [pc EXCEPT !["page"] = "waiting"]
      /\ UNCHANGED <<lock, buf, enc, wire, garbled, torn, cut>>
  BY DEF PageSends
<1>2. "waiting" \in Labels \ (Holding \cup {"rotating"})
  BY DEF Labels, Working, Holding
<1>3. pc["page"] \notin Holding \cup {"rotating"}
  BY <1>1 DEF Holding
<1> QED BY <1>1, <1>2, <1>3, ThreadFacts, OtherMove

LEMMA ReceiverKeeps ==
  ASSUME KeyInv, ReceiveLoop
  PROVE  KeyInv'
<1> DEFINE Calm == {"receiving", "processing", "closing", "ended", "waiting"}
<1>1. Calm \subseteq Labels \ (Holding \cup {"rotating"})
  BY DEF Labels, Working, Holding
<1>2. ASSUME pc["recv"] \in Calm, NEW x \in Calm, pc' = [pc EXCEPT !["recv"] = x],
             UNCHANGED <<lock, buf, enc, wire, garbled, torn, cut>>
      PROVE  KeyInv'
  <2>1. pc["recv"] \notin Holding \cup {"rotating"}
    BY <1>1, <1>2
  <2>2. x \in Labels \ (Holding \cup {"rotating"})
    BY <1>1, <1>2
  <2> QED BY <2>1, <2>2, <1>2, ThreadFacts, OtherMove
<1>3. CASE Receive
  BY <1>2, <1>3 DEF Receive, sender
<1>4. CASE ReceiverEnds
  BY <1>2, <1>4 DEF ReceiverEnds, sender
<1>5. CASE ChunkDone
  BY <1>2, <1>5 DEF ChunkDone, sender
<1>6. CASE ProcessText
  BY <1>6, IdleKeeps DEF ProcessText, sender, keyVars
<1>7. CASE ProcessPixels
  BY <1>7, IdleKeeps DEF ProcessPixels, sender, keyVars
<1>8. CASE ProcessBroken
  BY <1>2, <1>8 DEF ProcessBroken, Process
<1>9. CASE ProcessKey \/ Rotated
  BY <1>9, RotationKeeps
<1>10. CASE ProcessSeize
  BY <1>2, <1>10 DEF ProcessSeize, Process, sender
<1>11. CASE ClearSocket
  BY <1>2, <1>11 DEF ClearSocket, sender
<1> QED BY <1>3, <1>4, <1>5, <1>6, <1>7, <1>8, <1>9, <1>10, <1>11 DEF ReceiveLoop

LEMMA IloKeeps ==
  ASSUME KeyInv, IloReads \/ IloWants \/ IloWrites \/ IloGone
  PROVE  KeyInv'
<1>1. UNCHANGED keyVars
  BY DEF IloReads, IloWants, IloWrites, IloGone, sender, keyVars
<1> QED BY <1>1, IdleKeeps

LEMMA InitKeys == Init => KeyInv
<1> SUFFICES ASSUME Init PROVE KeyInv
  OBVIOUS
<1>1. /\ lock = None /\ enc = Cell(0, 1) /\ wire = Cell(0, 0)
      /\ ~garbled /\ ~torn /\ ~cut
      /\ pc = [t \in Threads |-> IF t = "page" THEN "idle" ELSE "receiving"]
      /\ buf = [t \in Threads |-> <<>>]
  BY DEF Init
<1>2. \A t \in Threads : buf[t] = <<>> /\ pc[t] \in {"idle", "receiving"}
  BY <1>1
<1>3. KeyTypes
  <2>1. buf \in [Threads -> Seq(Cells)]
    <3>1. <<>> \in Seq(Cells)
      OBVIOUS
    <3> QED BY <3>1, <1>1
  <2>2. pc \in [Threads -> Labels]
    BY <1>1 DEF Labels
  <2> QED BY <2>1, <2>2, <1>1, CellTypes DEF KeyTypes
<1>4. Exclusive
  BY <1>1, <1>2, ThreadFacts DEF Exclusive, Holding
<1>5. Unbroken
  <2>1. Follows(wire, enc)
    BY <1>1 DEF Follows, After, Cell
  <2>2. pc["recv"] # "rotating"
    BY <1>2, ThreadFacts
  <2> QED BY <2>1, <2>2, <1>1, ThreadFacts DEF Unbroken, Ready
<1> QED BY <1>3, <1>4, <1>5 DEF KeyInv

LEMMA KeysAlways == Spec => []KeyInv
<1>1. KeyInv /\ [Next]_vars => KeyInv'
  <2> SUFFICES ASSUME KeyInv, [Next]_vars PROVE KeyInv'
    OBVIOUS
  <2>1. ASSUME NEW t \in Threads, Transmit(t) PROVE KeyInv'
    BY <2>1, AcquireKeeps, EncryptKeeps, CheckKeeps, WriteKeeps, SendFailsKeeps
    DEF Transmit
  <2>2. CASE UNCHANGED vars
    BY <2>2, IdleKeeps DEF vars, sender, keyVars
  <2> QED BY <2>1, <2>2, PageSendsKeeps, ReceiverKeeps, IloKeeps DEF Next
<1> QED BY <1>1, InitKeys, PTL DEF Spec

\* What reaches the iLO2 is one unbroken key stream whatever the two threads of
\* transmit() do at the same time, however long their messages are and wherever
\* the connection fills up; a rotation between two messages, or between the
\* encryption and the write of one, does no harm.
THEOREM KeyStreamUnbroken == Spec => []InStep
<1>1. KeyInv => InStep
  BY DEF KeyInv, Unbroken, InStep
<1> QED BY <1>1, KeysAlways, PTL

\* At no time do two threads encrypt or write: _send_lock covers both.
THEOREM OneSender ==
  Spec => [](\A t, u \in Threads : pc[t] \in Holding /\ pc[u] \in Holding => t = u)
<1>1. KeyInv => \A t, u \in Threads : pc[t] \in Holding /\ pc[u] \in Holding => t = u
  BY DEF KeyInv, Exclusive
<1> QED BY <1>1, KeysAlways, PTL
-----------------------------------------------------------------------------
(***************************************************************************)
(* The receiver thread of a console tells text from video and decrypts with *)
(* the right cell, for streams of any length, connections of any size and   *)
(* however recv_into() cuts them.  What lies between the iLO2 and the       *)
(* receiver is one sequence: the unprocessed rest of the chunk, followed by *)
(* what is still in the connection.                                         *)
(***************************************************************************)

Bytes == [what : Text \cup VideoKinds, cell : Cells]
Fars == [cell : Cells, byte : Bytes \cup {None}, gone : BOOLEAN, video : Nat]
ReceiverLabels == {"receiving", "processing", "rotating", "closing", "ended"} \cup Working

\* What the iLO2 wants to send is of the part of the stream it is in.
Wanted ==
  far.byte # None => /\ far.byte.cell = far.cell
                     /\ Triggered <=> far.byte.what \notin Text

ChannelTypes ==
  /\ pc["page"] \in {"idle"} \cup Working
  /\ pc["recv"] \in ReceiverLabels
  /\ todo \in [Threads -> 0..MessageSize]
  /\ \A t \in Threads : pc[t] \in {"waiting", "encrypting"} => todo[t] > 0
  /\ sock \in {"open", "closed", "none"} /\ stop \in BOOLEAN
  /\ up \in 0..UpSize /\ sends \in 0..MaxSends
  /\ garbled \in BOOLEAN /\ torn \in BOOLEAN /\ cut \in BOOLEAN /\ dvc \in BOOLEAN
  /\ dec \in Cells
  /\ esc \in 0..2
  /\ chunk \in Seq(Bytes) /\ down \in Seq(Bytes)
  /\ Len(down) <= DownSize
  /\ far \in Fars
  /\ said \in Seq(Text)
  /\ Wanted

TypeInv == KeyInv /\ ChannelTypes

\* What lies between the two ends; the cell the next byte of video has; the
\* cell that follows a byte of video.
Stream == chunk \o down
Expected == IF pc["recv"] = "rotating" THEN NextKey(dec) ELSE dec
Successor(byte) == IF byte.what = "key" THEN NextKey(byte.cell) ELSE After(byte.cell)

\* The cell a byte at i has if it is video.
Due(cell, s, i) ==
  IF i = 1 THEN cell
  ELSE IF s[i - 1].what \in Text THEN cell ELSE Successor(s[i - 1])

\* The cells of the video in s go from cell without a gap, and next after them.
CellsFrom(cell, s, next) ==
  /\ \A i \in 1..Len(s) : s[i].what \notin Text => s[i].cell = Due(cell, s, i)
  /\ next = Due(cell, s, Len(s) + 1)

TextFirst(s) ==
  \A i, j \in 1..Len(s) : i <= j /\ s[j].what \in Text => s[i].what \in Text

\* The text at i of s when e characters of a trigger came before s.
Window(e, s, i) ==
  IF i >= 1 THEN s[i].what
  ELSE IF e + i = 1 THEN "esc" ELSE IF e + i = 2 THEN "[" ELSE ""

Spells(e, s, k) ==
  Window(e, s, k) = "esc" /\ Window(e, s, k + 1) = "[" /\ Window(e, s, k + 2) = "R"

EndsEsc(t) == Len(t) >= 1 /\ t[Len(t)] = "esc"
EndsEscBracket(t) == Len(t) >= 2 /\ t[Len(t) - 1] = "esc" /\ t[Len(t)] = "["

\* Before the trigger: it is still to come if and only if the iLO2 has sent it,
\* only video is behind it, and else both ends have seen the same part of it.
Scan(e, s, text) ==
  /\ text = Trigger => \E k \in -1..(Len(s) - 2) : Spells(e, s, k)
  /\ \A k \in -1..(Len(s) - 2) : Spells(e, s, k) =>
       text = Trigger /\ \A i \in (k + 3)..Len(s) : s[i].what \notin Text
  /\ text # Trigger =>
       /\ EndsEsc(text) <=> Window(e, s, Len(s)) = "esc"
       /\ EndsEscBracket(text) <=> /\ Window(e, s, Len(s) - 1) = "esc"
                                   /\ Window(e, s, Len(s)) = "["

\* The stream s fits what the receiver (its next cell, dvc_mode and _esc_state)
\* and the iLO2 (its next cell and its text) know.
InSync(s, cell, d, e, next, text) ==
  /\ TextFirst(s)
  /\ CellsFrom(cell, s, next)
  /\ text # Trigger => \A i \in 1..Len(s) : s[i].what \in Text
  /\ d => text = Trigger /\ \A i \in 1..Len(s) : s[i].what \notin Text
  /\ ~d => Scan(e, s, text)

StreamInv ==
  /\ pc["recv"] = "receiving" => chunk = <<>>
  /\ InSync(Stream, Expected, dvc, esc, far.cell, said)

Sizes == MessageSize \in Nat \ {0} /\ UpSize \in Nat \ {0} /\ DownSize \in Nat \ {0}
         /\ MaxSends \in Nat

LEMMA SizesKnown == Sizes
BY SizeAssumption, BoundsAssumption DEF Sizes

LEMMA TextIsNoVideo ==
  \A what \in Text \cup VideoKinds : what \in VideoKinds <=> what \notin Text
BY KindAssumption DEF Text

-----------------------------------------------------------------------------
(* Type correctness.                                                        *)

LEMMA TransmitTypes ==
  ASSUME TypeInv, NEW t \in Threads, Transmit(t)
  PROVE  ChannelTypes'
<1> USE SizesKnown DEF Sizes
<1>1. /\ t \in {"page", "recv"} /\ pc \in [Threads -> Labels]
      /\ todo \in [Threads -> 0..MessageSize]
  BY DEF TypeInv, KeyInv, KeyTypes, ChannelTypes, Threads
<1>2. UNCHANGED <<sends, torn, link, receiver, ilo>> \/ Encrypt(t)
  BY DEF Transmit, Acquire, Check, Write, SendFails
<1>3. CASE Acquire(t)
  BY <1>1, <1>3 DEF Acquire, TypeInv, ChannelTypes, ReceiverLabels, Working, Threads,
                    Wanted, Triggered, link, receiver, ilo
<1>4. CASE Encrypt(t)
  <2>1. todo[t] \in 1..MessageSize
    BY <1>1, <1>4 DEF Encrypt, TypeInv, ChannelTypes
  <2>2. /\ todo' \in [Threads -> 0..MessageSize]
        /\ \A u \in Threads \ {t} : todo'[u] = todo[u] /\ pc'[u] = pc[u]
        /\ todo'[t] = todo[t] - 1
        /\ pc'[t] = IF todo[t] = 1 THEN "checking" ELSE "encrypting"
    BY <1>1, <1>4, <2>1 DEF Encrypt
  <2>3. \A u \in Threads : pc'[u] \in {"waiting", "encrypting"} => todo'[u] > 0
    <3>1. todo[t] # 1 => todo[t] - 1 > 0
      BY <2>1
    <3>2. pc'[t] \in {"waiting", "encrypting"} => todo'[t] > 0
      BY <2>2, <3>1
    <3>3. \A u \in Threads : pc[u] \in {"waiting", "encrypting"} => todo[u] > 0
      BY DEF TypeInv, ChannelTypes
    <3> QED BY <2>2, <3>2, <3>3
  <2>4. pc'["page"] \in {"idle"} \cup Working /\ pc'["recv"] \in ReceiverLabels
    BY <1>1, <2>2 DEF TypeInv, ChannelTypes, ReceiverLabels, Working, Threads
  <2>5. torn' \in BOOLEAN
    BY <1>4 DEF Encrypt, TypeInv, ChannelTypes
  <2> QED
    BY <1>4, <2>2, <2>3, <2>4, <2>5
       DEF Encrypt, TypeInv, ChannelTypes, Wanted, Triggered, link, receiver, ilo
<1>5. CASE Check(t) \/ Write(t) \/ SendFails(t)
  <2>1. pc[t] \notin {"waiting", "encrypting"} /\ UNCHANGED <<todo, sends, torn, link, receiver, ilo>>
    BY <1>5 DEF Check, Write, SendFails
  <2>2. /\ pc'[t] \in {IF t = "page" THEN "idle" ELSE "processing", "sending"}
        /\ \A u \in Threads \ {t} : pc'[u] = pc[u]
    BY <1>1, <1>5 DEF Check, Write, SendFails, Return
  <2>3. pc'["page"] \in {"idle"} \cup Working /\ pc'["recv"] \in ReceiverLabels
    BY <1>1, <2>2 DEF TypeInv, ChannelTypes, ReceiverLabels, Working, Threads
  <2>4. up' \in 0..UpSize
    BY <1>5 DEF Check, Write, SendFails, TypeInv, ChannelTypes
  <2>5. garbled' \in BOOLEAN /\ cut' \in BOOLEAN
    BY <1>5 DEF Check, Write, SendFails, TypeInv, ChannelTypes
  <2> QED
    BY <2>1, <2>2, <2>3, <2>4, <2>5 DEF TypeInv, ChannelTypes, Wanted, Triggered, link, receiver, ilo
<1> QED
  BY <1>3, <1>4, <1>5 DEF Transmit

LEMMA PageSendsTypes ==
  ASSUME TypeInv, PageSends
  PROVE  ChannelTypes'
<1> USE SizesKnown DEF Sizes
<1>1. /\ pc \in [Threads -> Labels] /\ todo \in [Threads -> 0..MessageSize]
      /\ sends \in 0..MaxSends /\ {"page", "recv"} = Threads
  BY DEF TypeInv, KeyInv, KeyTypes, ChannelTypes, Threads
<1>2. /\ sends < MaxSends /\ sends' = sends + 1
      /\ pc' = [pc EXCEPT !["page"] = "waiting"]
      /\ todo' = [todo EXCEPT !["page"] = MessageSize]
      /\ UNCHANGED <<up, garbled, cut, torn, link, receiver, ilo>>
  BY DEF PageSends
<1>3. /\ pc'["page"] = "waiting" /\ pc'["recv"] = pc["recv"]
      /\ todo'["page"] = MessageSize /\ todo'["recv"] = todo["recv"]
      /\ todo' \in [Threads -> 0..MessageSize]
  BY <1>1, <1>2
<1>4. sends' \in 0..MaxSends
  BY <1>1, <1>2
<1>5. \A t \in Threads : pc'[t] \in {"waiting", "encrypting"} => todo'[t] > 0
  BY <1>1, <1>3 DEF TypeInv, ChannelTypes
<1> QED
  BY <1>2, <1>3, <1>4, <1>5 DEF TypeInv, ChannelTypes, Wanted, Triggered, Working, link, receiver, ilo

\* A step of the receiver thread that moves it to x.
LEMMA ReceiverMoveTypes ==
  ASSUME TypeInv, NEW x \in ReceiverLabels \ {"waiting", "encrypting"},
         pc' = [pc EXCEPT !["recv"] = x], UNCHANGED todo
  PROVE  /\ pc'["page"] \in {"idle"} \cup Working
         /\ pc'["recv"] \in ReceiverLabels
         /\ todo' \in [Threads -> 0..MessageSize]
         /\ \A t \in Threads : pc'[t] \in {"waiting", "encrypting"} => todo'[t] > 0
<1>1. pc \in [Threads -> Labels] /\ {"page", "recv"} = Threads
  BY DEF TypeInv, KeyInv, KeyTypes, Threads
<1>2. pc'["recv"] = x /\ pc'["page"] = pc["page"]
  BY <1>1
<1> QED BY <1>1, <1>2 DEF TypeInv, ChannelTypes

LEMMA CutInTwo ==
  ASSUME NEW S, NEW s \in Seq(S), NEW n \in 1..Len(s)
  PROVE  LET l == SubSeq(s, 1, n)
             r == SubSeq(s, n + 1, Len(s))
         IN  /\ l \in Seq(S) /\ r \in Seq(S) /\ l \o r = s
             /\ Len(l) = n /\ Len(r) = Len(s) - n
<1> DEFINE l == SubSeq(s, 1, n)
           r == SubSeq(s, n + 1, Len(s))
           z == l \o r
<1>1. Len(s) \in Nat /\ n \in Nat /\ \A i \in 1..Len(s) : s[i] \in S
  OBVIOUS
<1>2. l \in Seq(S) /\ Len(l) = n /\ \A i \in 1..n : l[i] = s[i]
  <2>1. \A i \in 1..n : s[i] \in S
    BY <1>1
  <2>2. /\ l \in Seq(S) /\ Len(l) = IF 1 <= n THEN n - 1 + 1 ELSE 0
        /\ \A i \in 1..(n - 1 + 1) : l[i] = s[1 + i - 1]
    <3> HIDE DEF r, z
    <3> QED BY <2>1, <1>1, SubSeqProperties
  <2> HIDE DEF l, r, z
  <2>3. \A i \in 1..n : i \in 1..(n - 1 + 1) /\ 1 + i - 1 = i
    BY <1>1
  <2>4. n - 1 + 1 = n /\ 1 <= n
    BY <1>1
  <2> QED BY <2>2, <2>3, <2>4
<1>3. /\ r \in Seq(S) /\ Len(r) = Len(s) - n
      /\ \A i \in 1..(Len(s) - n) : r[i] = s[n + i]
  <2>1. \A i \in (n + 1)..Len(s) : s[i] \in S
    BY <1>1
  <2>2. /\ r \in Seq(S) /\ Len(r) = IF n + 1 <= Len(s) THEN Len(s) - (n + 1) + 1 ELSE 0
        /\ \A i \in 1..(Len(s) - (n + 1) + 1) : r[i] = s[n + 1 + i - 1]
    <3> HIDE DEF l, z
    <3> QED BY <2>1, <1>1, SubSeqProperties
  <2> HIDE DEF l, r, z
  <2>3. \A i \in 1..(Len(s) - n) : i \in 1..(Len(s) - (n + 1) + 1) /\ n + 1 + i - 1 = n + i
    BY <1>1
  <2>4. Len(r) = Len(s) - n
    BY <1>1, <2>2
  <2>5. ASSUME NEW i \in 1..(Len(s) - n) PROVE r[i] = s[n + i]
    <3>1. r[i] = s[n + 1 + i - 1]
      BY <2>2, <2>3
    <3> QED BY <3>1, <2>3
  <2> QED BY <2>2, <2>4, <2>5
<1> HIDE DEF l, r
<1>4. /\ z \in Seq(S) /\ Len(z) = Len(s)
      /\ \A i \in 1..Len(s) : z[i] = IF i <= n THEN l[i] ELSE r[i - n]
  <2>1. l \in Seq(S) /\ r \in Seq(S) /\ Len(l) = n /\ Len(r) = Len(s) - n
    BY <1>2, <1>3
  <2>2. /\ z \in Seq(S) /\ Len(z) = Len(l) + Len(r)
        /\ \A i \in 1..(Len(l) + Len(r)) : z[i] = IF i <= Len(l) THEN l[i] ELSE r[i - Len(l)]
    BY <2>1, ConcatProperties
  <2>3. Len(l) + Len(r) = Len(s)
    BY <1>1, <2>1
  <2> QED BY <2>1, <2>2, <2>3
<1>5. \A i \in 1..Len(s) : z[i] = s[i]
  <2> HIDE DEF z
  <2> TAKE i \in 1..Len(s)
  <2>1. CASE i <= n
    BY <2>1, <1>1, <1>2, <1>4
  <2>2. CASE i > n
    <3>1. i - n \in 1..(Len(s) - n) /\ n + (i - n) = i /\ ~(i <= n)
      BY <2>2, <1>1
    <3>2. r[i - n] = s[n + (i - n)]
      BY <3>1, <1>3
    <3> QED BY <3>1, <3>2, <1>4
  <2> QED BY <2>1, <2>2, <1>1
<1>6. z = s
  <2> HIDE DEF z
  <2> QED BY <1>4, <1>5, SeqEqual
<1> QED BY <1>2, <1>3, <1>6 DEF l, r

LEMMA ReceiveTypes ==
  ASSUME TypeInv, Receive
  PROVE  ChannelTypes' /\ chunk' \o down' = down /\ chunk' # <<>>
<1> USE SizesKnown DEF Sizes
<1>1. PICK n \in DOMAIN down :
        chunk' = SubSeq(down, 1, n) /\ down' = SubSeq(down, n + 1, Len(down))
  BY DEF Receive
<1>2. down \in Seq(Bytes) /\ n \in 1..Len(down) /\ Len(down) <= DownSize
  BY <1>1 DEF TypeInv, ChannelTypes
<1>3. /\ chunk' \in Seq(Bytes) /\ Len(chunk') = n
      /\ down' \in Seq(Bytes) /\ Len(down') = Len(down) - n
  BY <1>1, <1>2, CutInTwo
<1>4. chunk' \o down' = down
  BY <1>1, <1>2, CutInTwo
<1>5. chunk' # <<>>
  BY <1>2, <1>3
<1>6. Len(down') <= DownSize
  BY <1>2, <1>3
<1>7. pc' = [pc EXCEPT !["recv"] = "processing"] /\ UNCHANGED todo
  BY DEF Receive, sender
<1>8. "processing" \in ReceiverLabels \ {"waiting", "encrypting"}
  BY DEF ReceiverLabels
<1>9. UNCHANGED <<sock, stop, up, sends, garbled, torn, cut, dvc, dec, esc, far, said>>
  BY DEF Receive, sender, link
<1> QED
  BY <1>3, <1>4, <1>5, <1>6, <1>7, <1>8, <1>9, ReceiverMoveTypes DEF TypeInv, ChannelTypes, Wanted, Triggered

LEMMA ProcessTypes ==
  ASSUME TypeInv, chunk # <<>>, chunk' = Tail(chunk)
  PROVE  /\ Head(chunk) \in Bytes /\ chunk' \in Seq(Bytes)
         /\ Len(chunk) >= 1 /\ Head(chunk) = chunk[1] /\ Len(chunk') = Len(chunk) - 1
         /\ \A i \in 1..Len(chunk') : chunk'[i] = chunk[i + 1]
         /\ After(dec) \in Cells /\ NextKey(dec) \in Cells
<1>1. chunk \in Seq(Bytes) /\ dec \in Cells
  BY DEF TypeInv, ChannelTypes
<1>2. /\ Head(chunk) \in Bytes /\ chunk' \in Seq(Bytes)
      /\ Len(chunk) >= 1 /\ Head(chunk) = chunk[1] /\ Len(chunk') = Len(chunk) - 1
      /\ \A i \in 1..Len(chunk') : chunk'[i] = chunk[i + 1]
  BY <1>1
<1> QED BY <1>1, <1>2, CellTypes

\* A byte of video that keeps the receiver thread where it is, or moves it to x.
LEMMA ProcessMoveTypes ==
  ASSUME TypeInv, NEW what, Process(what), dec' \in Cells,
         up' = up, sends' = sends, cut' = cut, stop' \in BOOLEAN,
         sock' \in {"open", "closed", "none"}, garbled' \in BOOLEAN, torn' \in BOOLEAN,
         pc'["page"] \in {"idle"} \cup Working, pc'["recv"] \in ReceiverLabels,
         todo' \in [Threads -> 0..MessageSize],
         \A t \in Threads : pc'[t] \in {"waiting", "encrypting"} => todo'[t] > 0
  PROVE  ChannelTypes'
<1>1. chunk # <<>> /\ chunk' = Tail(chunk) /\ UNCHANGED <<esc, dvc, down, far, said>>
  BY DEF Process, ilo
<1>2. chunk' \in Seq(Bytes)
  BY <1>1, ProcessTypes
<1> QED BY <1>1, <1>2 DEF TypeInv, ChannelTypes, Wanted, Triggered

LEMMA ReceiverTypes ==
  ASSUME TypeInv, ReceiveLoop
  PROVE  ChannelTypes'
<1> USE SizesKnown DEF Sizes
<1>1. /\ pc \in [Threads -> Labels] /\ todo \in [Threads -> 0..MessageSize]
      /\ {"page", "recv"} = Threads /\ dec \in Cells
      /\ pc["page"] \in {"idle"} \cup Working /\ pc["recv"] \in ReceiverLabels
      /\ torn \in BOOLEAN /\ garbled \in BOOLEAN /\ stop \in BOOLEAN
      /\ sock \in {"open", "closed", "none"}
      /\ \A t \in Threads : pc[t] \in {"waiting", "encrypting"} => todo[t] > 0
  BY DEF TypeInv, KeyInv, KeyTypes, ChannelTypes, Threads
<1>2. After(dec) \in Cells /\ NextKey(dec) \in Cells
  BY <1>1, CellTypes
<1>3. {"receiving", "processing", "rotating", "closing", "ended"}
        \subseteq ReceiverLabels \ {"waiting", "encrypting"}
  BY DEF ReceiverLabels
<1>4. CASE Receive
  BY <1>4, ReceiveTypes
<1>5. CASE ReceiverEnds
  <2>1. pc' = [pc EXCEPT !["recv"] = "ended"] /\ UNCHANGED <<sender, torn, link, receiver, ilo>>
    BY <1>5 DEF ReceiverEnds
  <2> QED BY <2>1, <1>3, ReceiverMoveTypes DEF TypeInv, ChannelTypes, Wanted, Triggered, sender, link, receiver, ilo
<1>6. CASE ChunkDone
  <2>1. pc' = [pc EXCEPT !["recv"] = "receiving"] /\ UNCHANGED <<sender, torn, link, receiver, ilo>>
    BY <1>6 DEF ChunkDone
  <2> QED BY <2>1, <1>3, ReceiverMoveTypes DEF TypeInv, ChannelTypes, Wanted, Triggered, sender, link, receiver, ilo
<1>7. CASE ProcessText
  <2>1. /\ chunk # <<>> /\ chunk' = Tail(chunk)
        /\ UNCHANGED <<sender, pc, torn, link, dec, ilo>>
    BY <1>7 DEF ProcessText
  <2>2. dvc' \in BOOLEAN
    BY <1>7 DEF ProcessText
  <2>3. esc' \in 0..2
    <3>1. esc' = esc \/ esc' = EscAfter(Head(chunk).what)
      BY <1>7 DEF ProcessText
    <3>2. esc \in 0..2
      BY DEF TypeInv, ChannelTypes
    <3> QED BY <3>1, <3>2 DEF EscAfter
  <2>4. chunk' \in Seq(Bytes)
    BY <2>1, ProcessTypes
  <2> QED BY <2>1, <2>2, <2>3, <2>4, <1>1 DEF TypeInv, ChannelTypes, Wanted, Triggered, sender, link, ilo
<1>8. CASE ProcessPixels
  <2>1. Process("pixels") /\ dec' = After(dec) /\ UNCHANGED <<sender, pc, torn, link>>
    BY <1>8 DEF ProcessPixels
  <2> QED BY <2>1, <1>1, <1>2, ProcessMoveTypes DEF sender, link
<1>9. CASE ProcessBroken
  <2>1. /\ Process("broken") /\ dec' = After(dec)
        /\ pc' = [pc EXCEPT !["recv"] = "waiting"]
        /\ todo' = [todo EXCEPT !["recv"] = MessageSize]
        /\ UNCHANGED <<sends, up, garbled, cut, torn, link>>
    BY <1>9 DEF ProcessBroken
  <2>2. /\ pc'["recv"] = "waiting" /\ pc'["page"] = pc["page"]
        /\ todo'["recv"] = MessageSize /\ todo'["page"] = todo["page"]
        /\ todo' \in [Threads -> 0..MessageSize]
    BY <2>1, <1>1
  <2>3. pc'["recv"] \in ReceiverLabels
    BY <2>2 DEF ReceiverLabels, Working
  <2>4. \A t \in Threads : pc'[t] \in {"waiting", "encrypting"} => todo'[t] > 0
    BY <2>2, <1>1
  <2> QED BY <2>1, <2>2, <2>3, <2>4, <1>1, <1>2, ProcessMoveTypes DEF link
<1>10. CASE ProcessKey
  <2>1. /\ Process("key") /\ dec' = After(dec)
        /\ pc' = [pc EXCEPT !["recv"] = "rotating"]
        /\ UNCHANGED <<todo, sends, up, cut, link>>
        /\ torn' \in {torn} \cup {TRUE : t \in {u \in Threads : pc[u] = "encrypting"}}
        /\ garbled' = (garbled \/ (torn' /\ ~torn))
    BY <1>10 DEF ProcessKey
  <2>2. torn' \in BOOLEAN
    BY <2>1, <1>1
  <2>3. garbled' \in BOOLEAN
    BY <2>1, <1>1
  <2> QED BY <2>1, <2>2, <2>3, <1>1, <1>2, <1>3, ReceiverMoveTypes, ProcessMoveTypes DEF link
<1>11. CASE Rotated
  <2>1. /\ dec' = NextKey(dec) /\ pc' = [pc EXCEPT !["recv"] = "processing"]
        /\ UNCHANGED <<sender, torn, link, chunk, esc, dvc, ilo>>
    BY <1>11 DEF Rotated
  <2> QED BY <2>1, <1>2, <1>3, ReceiverMoveTypes DEF TypeInv, ChannelTypes, Wanted, Triggered, sender, link, ilo
<1>12. CASE ProcessSeize
  <2>1. /\ Process("seize") /\ dec' = After(dec) /\ stop' = TRUE /\ sock' = "closed"
        /\ pc' = [pc EXCEPT !["recv"] = "closing"] /\ UNCHANGED <<sender, torn>>
    BY <1>12 DEF ProcessSeize
  <2> QED BY <2>1, <1>1, <1>2, <1>3, ReceiverMoveTypes, ProcessMoveTypes DEF sender
<1>13. CASE ClearSocket
  <2>1. /\ sock' = "none" /\ pc' = [pc EXCEPT !["recv"] = "processing"]
        /\ UNCHANGED <<sender, torn, stop, receiver, ilo>>
    BY <1>13 DEF ClearSocket
  <2> QED BY <2>1, <1>3, ReceiverMoveTypes DEF TypeInv, ChannelTypes, Wanted, Triggered, sender, receiver, ilo
<1> QED
  BY <1>4, <1>5, <1>6, <1>7, <1>8, <1>9, <1>10, <1>11, <1>12, <1>13 DEF ReceiveLoop

\* What IloWants and IloWrites do to the state of the iLO2.
LEMMA IloWantsFar ==
  ASSUME TypeInv, IloWants
  PROVE  \E what \in Text \cup VideoKinds :
           /\ far' = [far EXCEPT !.byte = [what |-> what, cell |-> far.cell]]
           /\ Triggered <=> what \notin Text
           /\ Triggered = Triggered' /\ far' \in Fars
           /\ far'.cell = far.cell /\ far'.byte = [what |-> what, cell |-> far.cell]
<1>1. PICK what \in Text \cup VideoKinds :
        /\ far' = [far EXCEPT !.byte = [what |-> what, cell |-> far.cell]]
        /\ IF Triggered THEN what \in VideoKinds ELSE what \in Text
  BY DEF IloWants
<1>2. Triggered <=> what \notin Text
  BY <1>1, TextIsNoVideo
<1>3. Triggered = Triggered'
  BY DEF IloWants, Triggered
<1> DEFINE wanted == [what |-> what, cell |-> far.cell]
<1>4. far \in Fars
  BY DEF TypeInv, ChannelTypes
<1>5. wanted \in Bytes
  BY <1>4 DEF Fars, Bytes
<1>6. far' = [far EXCEPT !.byte = wanted]
  BY <1>1
<1>7. wanted = [what |-> what, cell |-> far.cell]
  OBVIOUS
<1> HIDE DEF wanted
<1>8. far' \in Fars /\ far'.cell = far.cell /\ far'.byte = wanted
  BY <1>4, <1>5, <1>6 DEF Fars
<1> QED BY <1>1, <1>2, <1>3, <1>7, <1>8

LEMMA IloWritesFar ==
  ASSUME TypeInv, IloWrites
  PROVE  /\ far.byte \in Bytes /\ far.byte.cell = far.cell /\ far.cell \in Cells
         /\ Triggered <=> far.byte.what \notin Text
         /\ far' \in Fars /\ far'.byte = None
         /\ far'.cell = IF ~Triggered THEN far.cell
                        ELSE IF far.byte.what = "key" THEN NextKey(far.cell)
                        ELSE After(far.cell)
         /\ down' = Append(down, far.byte) /\ down' \in Seq(Bytes)
         /\ Len(down') <= DownSize
<1>1. /\ far \in Fars /\ down \in Seq(Bytes) /\ DownSize \in Nat
      /\ far.byte # None /\ Len(down) < DownSize /\ down' = Append(down, far.byte)
  BY SizesKnown DEF Sizes, TypeInv, ChannelTypes, IloWrites
<1>2. /\ far.byte \in Bytes /\ far.cell \in Cells /\ far.video \in Nat
      /\ far.byte.cell = far.cell /\ (Triggered <=> far.byte.what \notin Text)
  BY <1>1 DEF Fars, TypeInv, ChannelTypes, Wanted
<1>3. down' \in Seq(Bytes) /\ Len(down') <= DownSize
  BY <1>1, <1>2
<1> DEFINE next == IF far.byte.what = "key" THEN NextKey(far.cell) ELSE After(far.cell)
<1>4. next \in Cells
  BY <1>2, CellTypes
<1>5. IF Triggered THEN far' = [far EXCEPT !.byte = None, !.video = @ + 1, !.cell = next]
                   ELSE far' = [far EXCEPT !.byte = None]
  BY DEF IloWrites
<1>6. far'.cell = (IF Triggered THEN next ELSE far.cell) /\ far'.byte = None /\ far' \in Fars
  <2> HIDE DEF next
  <2>1. CASE Triggered
    <3>1. far' = [far EXCEPT !.byte = None, !.video = @ + 1, !.cell = next]
      BY <2>1, <1>5
    <3>2. far' = [cell |-> next, byte |-> None, gone |-> far.gone, video |-> far.video + 1]
      BY <3>1, <1>1 DEF Fars
    <3>3. far.video + 1 \in Nat /\ far.gone \in BOOLEAN
      BY <1>1, <1>2 DEF Fars
    <3> QED BY <2>1, <3>2, <3>3, <1>4 DEF Fars
  <2>2. CASE ~Triggered
    <3>1. far' = [far EXCEPT !.byte = None]
      BY <2>2, <1>5
    <3>2. far'.cell = far.cell /\ far'.byte = None /\ far' \in Fars
      BY <3>1, <1>1 DEF Fars
    <3> QED BY <2>2, <3>2
  <2> QED BY <2>1, <2>2
<1> QED BY <1>1, <1>2, <1>3, <1>6

LEMMA IloTypes ==
  ASSUME TypeInv, IloReads \/ IloWants \/ IloWrites \/ IloGone
  PROVE  ChannelTypes'
<1> USE SizesKnown DEF Sizes
<1>1. /\ far \in Fars /\ down \in Seq(Bytes) /\ said \in Seq(Text) /\ Wanted
      /\ up \in 0..UpSize /\ Len(down) <= DownSize
  BY DEF TypeInv, ChannelTypes
<1>2. CASE IloReads
  <2>1. up' \in 0..UpSize
    BY <1>1, <1>2 DEF IloReads
  <2> QED BY <2>1, <1>1, <1>2 DEF IloReads, TypeInv, ChannelTypes, Wanted, Triggered,
                                  link, receiver, ilo
<1>3. CASE IloWants
  <2>1. PICK what \in Text \cup VideoKinds :
          /\ far' = [far EXCEPT !.byte = [what |-> what, cell |-> far.cell]]
          /\ Triggered <=> what \notin Text
          /\ Triggered = Triggered' /\ far' \in Fars
          /\ far'.cell = far.cell /\ far'.byte = [what |-> what, cell |-> far.cell]
    BY <1>3, IloWantsFar
  <2>2. far'.byte.what = what /\ far'.byte.cell = far'.cell
    BY <2>1
  <2>3. Wanted'
    BY <2>1, <2>2 DEF Wanted
  <2> QED BY <2>1, <2>3, <1>3 DEF IloWants, TypeInv, ChannelTypes, sender, link, receiver
<1>4. CASE IloWrites
  <2>1. UNCHANGED <<sender, pc, torn, link, receiver>>
    BY <1>4 DEF IloWrites
  <2>2. far' \in Fars /\ Wanted' /\ down' \in Seq(Bytes) /\ Len(down') <= DownSize
    BY <1>4, IloWritesFar DEF Wanted
  <2>3. said' \in Seq(Text)
    <3>1. CASE Triggered
      BY <3>1, <1>1, <1>4 DEF IloWrites
    <3>2. CASE ~Triggered
      <4> DEFINE now == Append(said, far.byte.what)
      <4>1. now \in Seq(Text) /\ Trigger \in Seq(Text)
        BY <3>2, <1>1, <1>4, IloWritesFar DEF Trigger, Text
      <4>2. said' \in {now, Trigger}
        BY <3>2, <1>4 DEF IloWrites
      <4> QED BY <4>1, <4>2
    <3> QED BY <3>1, <3>2
  <2> QED BY <2>1, <2>2, <2>3 DEF TypeInv, ChannelTypes, sender, link, receiver
<1>5. CASE IloGone
  <2>1. far' \in Fars /\ far'.byte = None
    BY <1>1, <1>5 DEF IloGone, Fars
  <2> QED BY <2>1, <1>5 DEF IloGone, TypeInv, ChannelTypes, Wanted, sender, link, receiver
<1> QED BY <1>2, <1>3, <1>4, <1>5

LEMMA InitTypes == Init => ChannelTypes
<1> SUFFICES ASSUME Init PROVE ChannelTypes
  OBVIOUS
<1> USE SizesKnown DEF Sizes
<1>1. /\ pc = [t \in Threads |-> IF t = "page" THEN "idle" ELSE "receiving"]
      /\ todo = [t \in Threads |-> 0] /\ {"page", "recv"} = Threads
      /\ sock = "open" /\ stop = FALSE /\ sends = 0 /\ up = 0
      /\ garbled = FALSE /\ torn = FALSE /\ cut = FALSE /\ dvc = FALSE
      /\ chunk = <<>> /\ dec = Cell(0, 1) /\ esc = 0 /\ down = <<>> /\ said = <<>>
      /\ far = [cell |-> Cell(0, 1), byte |-> None, gone |-> FALSE, video |-> 0]
  BY DEF Init, Threads
<1>2. pc["page"] = "idle" /\ pc["recv"] = "receiving"
  BY <1>1
<1>3. /\ chunk \in Seq(Bytes) /\ down \in Seq(Bytes) /\ said \in Seq(Text)
      /\ Len(down) = 0
  BY <1>1
<1>4. dec \in Cells /\ far \in Fars
  BY <1>1, CellTypes DEF Fars
<1>5. far.byte = None
  BY <1>1
<1>6. /\ todo \in [Threads -> 0..MessageSize]
      /\ \A t \in Threads : pc[t] \in {"idle", "receiving"}
  BY <1>1
<1>7. esc \in 0..2 /\ up \in 0..UpSize /\ sends \in 0..MaxSends /\ 0 <= DownSize
  BY <1>1
<1>8. pc["page"] \in {"idle"} \cup Working /\ pc["recv"] \in ReceiverLabels
  BY <1>2 DEF ReceiverLabels
<1>9. Wanted
  BY <1>5 DEF Wanted
<1> QED BY <1>1, <1>3, <1>4, <1>6, <1>7, <1>8, <1>9 DEF ChannelTypes

LEMMA TypesAlways == Spec => []TypeInv
<1>1. Init => TypeInv
  BY InitTypes, InitKeys DEF TypeInv
<1>2. TypeInv /\ KeyInv' /\ [Next]_vars => TypeInv'
  <2> SUFFICES ASSUME TypeInv, KeyInv', [Next]_vars PROVE ChannelTypes'
    BY DEF TypeInv
  <2>1. ASSUME NEW t \in Threads, Transmit(t) PROVE ChannelTypes'
    BY <2>1, TransmitTypes
  <2>2. CASE UNCHANGED vars
    BY <2>2 DEF TypeInv, ChannelTypes, Wanted, Triggered, vars, sender, link, receiver, ilo
  <2> QED BY <2>1, <2>2, PageSendsTypes, ReceiverTypes, IloTypes DEF Next
<1> QED BY <1>1, <1>2, KeysAlways, PTL DEF Spec

\* Everything the channel keeps stays what it is meant to be: no thread has more
\* than a message to encrypt, and the connections hold no more than their sizes.
THEOREM ChannelTypeCorrect == Spec => []ChannelTypeOK
<1>1. TypeInv => ChannelTypeOK
  <2> SUFFICES ASSUME TypeInv PROVE ChannelTypeOK
    OBVIOUS
  <2>1. lock \in Threads \cup {None} /\ {enc, wire, dec} \subseteq Cells
        /\ \A t \in Threads : buf[t] \in Seq(Cells)
    BY DEF TypeInv, KeyInv, KeyTypes, ChannelTypes
  <2>2. far.cell \in Cells /\ far.gone \in BOOLEAN
    BY DEF TypeInv, ChannelTypes, Fars
  <2> QED BY <2>1, <2>2 DEF TypeInv, ChannelTypes, ReceiverLabels, ChannelTypeOK
<1> QED BY <1>1, TypesAlways, PTL
-----------------------------------------------------------------------------
(* What lies between the ends, as a byte is taken from its front, put at its *)
(* back, or moved within.                                                    *)

\* said ends with the trigger once x is appended.
LEMMA TriggerSuffix ==
  ASSUME NEW t \in Seq(Text), NEW x \in Text
  PROVE  /\ IsSuffix(Trigger, Append(t, x)) <=> EndsEscBracket(t) /\ x = "R"
         /\ Append(t, x) = Trigger => EndsEscBracket(t) /\ x = "R"
         /\ EndsEsc(Append(t, x)) <=> x = "esc"
         /\ EndsEscBracket(Append(t, x)) <=> EndsEsc(t) /\ x = "["
<1> DEFINE now == Append(t, x)
           n == Len(now)
<1>1. /\ now \in Seq(Text) /\ Len(t) \in Nat /\ n = Len(t) + 1 /\ now[n] = x
      /\ \A i \in 1..Len(t) : now[i] = t[i]
  OBVIOUS
<1>2. Len(Trigger) = 3 /\ Trigger[1] = "esc" /\ Trigger[2] = "[" /\ Trigger[3] = "R"
  BY DEF Trigger
<1> DEFINE r == Reverse(Trigger)
           s == Reverse(now)
<1>3. /\ Len(r) = 3 /\ r[1] = "R" /\ r[2] = "[" /\ r[3] = "esc"
      /\ \A i \in 1..3 : r[i] \in Text
  <2>1. r = [i \in 1..3 |-> Trigger[(3 - i) + 1]]
    BY <1>2 DEF Reverse
  <2>2. r \in Seq(Text)
    BY <2>1, <1>2 DEF Text
  <2> QED BY <2>1, <2>2, <1>2
<1>4. /\ s \in Seq(Text) /\ Len(s) = n /\ \A i \in 1..n : s[i] = now[n - i + 1]
  <2> HIDE DEF now
  <2>1. s = [i \in 1..n |-> now[(n - i) + 1]]
    BY DEF Reverse
  <2>2. \A i \in 1..n : now[(n - i) + 1] \in Text
    BY <1>1
  <2>3. s \in Seq(Text) /\ Len(s) = n
    BY <2>1, <2>2, <1>1
  <2> QED BY <2>1, <2>3
<1> HIDE DEF now, n, r, s
<1>5. IsSuffix(Trigger, now) <=> Len(r) <= Len(s) /\ SubSeq(r, 1, Len(r)) = SubSeq(s, 1, Len(r))
  BY DEF IsSuffix, IsPrefix, r, s
<1>6. n >= 3 => (SubSeq(r, 1, 3) = SubSeq(s, 1, 3)
                   <=> \A i \in 1..3 : r[i] = s[i])
  <2> SUFFICES ASSUME n >= 3
               PROVE  SubSeq(r, 1, 3) = SubSeq(s, 1, 3) <=> \A i \in 1..3 : r[i] = s[i]
    OBVIOUS
  <2> DEFINE a == SubSeq(r, 1, 3)
             b == SubSeq(s, 1, 3)
  <2>1. \A i \in 1..3 : r[i] \in Text /\ s[i] \in Text
    BY <1>1, <1>3, <1>4
  <2>2. /\ a \in Seq(Text) /\ Len(a) = 3 /\ \A i \in 1..3 : a[i] = r[i]
        /\ b \in Seq(Text) /\ Len(b) = 3 /\ \A i \in 1..3 : b[i] = s[i]
    <3>1. /\ a \in Seq(Text) /\ Len(a) = IF 1 <= 3 THEN 3 - 1 + 1 ELSE 0
          /\ \A i \in 1..(3 - 1 + 1) : a[i] = r[1 + i - 1]
      BY <2>1, SubSeqProperties
    <3>2. /\ b \in Seq(Text) /\ Len(b) = IF 1 <= 3 THEN 3 - 1 + 1 ELSE 0
          /\ \A i \in 1..(3 - 1 + 1) : b[i] = s[1 + i - 1]
      BY <2>1, SubSeqProperties
    <3> HIDE DEF a, b
    <3>3. \A i \in 1..3 : 1 + i - 1 = i /\ i \in 1..(3 - 1 + 1)
      OBVIOUS
    <3> QED BY <3>1, <3>2, <3>3
  <2> HIDE DEF a, b
  <2>3. (\A i \in 1..3 : r[i] = s[i]) => a = b
    BY <2>2, SeqEqual
  <2>4. a = b => \A i \in 1..3 : r[i] = s[i]
    BY <2>2
  <2> QED BY <2>3, <2>4 DEF a, b
<1>7. n >= 3 => ((\A i \in 1..3 : r[i] = s[i])
                   <=> now[n] = "R" /\ now[n - 1] = "[" /\ now[n - 2] = "esc")
  <2> SUFFICES ASSUME n >= 3
               PROVE  (\A i \in 1..3 : r[i] = s[i])
                        <=> now[n] = "R" /\ now[n - 1] = "[" /\ now[n - 2] = "esc"
    OBVIOUS
  <2>1. s[1] = now[n - 1 + 1] /\ s[2] = now[n - 2 + 1] /\ s[3] = now[n - 3 + 1]
    BY <1>1, <1>4
  <2>2. n - 1 + 1 = n /\ n - 2 + 1 = n - 1 /\ n - 3 + 1 = n - 2
    BY <1>1
  <2>3. (\A i \in 1..3 : r[i] = s[i]) <=> r[1] = s[1] /\ r[2] = s[2] /\ r[3] = s[3]
    OBVIOUS
  <2> QED BY <2>1, <2>2, <2>3, <1>3
<1>8. Len(t) >= 2 => now[n - 1] = t[Len(t)] /\ now[n - 2] = t[Len(t) - 1]
  <2> SUFFICES ASSUME Len(t) >= 2
               PROVE  now[n - 1] = t[Len(t)] /\ now[n - 2] = t[Len(t) - 1]
    OBVIOUS
  <2>1. n - 1 = Len(t) /\ n - 2 = Len(t) - 1 /\ Len(t) \in 1..Len(t) /\ Len(t) - 1 \in 1..Len(t)
    BY <1>1
  <2> QED BY <2>1, <1>1
<1>9. IsSuffix(Trigger, now) <=> EndsEscBracket(t) /\ x = "R"
  <2>1. n >= 3 <=> Len(t) >= 2
    BY <1>1
  <2>2. CASE n >= 3
    <3>1. IsSuffix(Trigger, now) <=> now[n] = "R" /\ now[n - 1] = "[" /\ now[n - 2] = "esc"
      BY <2>2, <1>3, <1>4, <1>5, <1>6, <1>7
    <3> QED BY <3>1, <2>1, <2>2, <1>1, <1>8 DEF EndsEscBracket
  <2>3. CASE ~(n >= 3)
    <3>1. ~IsSuffix(Trigger, now)
      BY <2>3, <1>1, <1>3, <1>4, <1>5
    <3> QED BY <3>1, <2>1, <2>3 DEF EndsEscBracket
  <2> QED BY <2>2, <2>3
<1>10. now = Trigger => EndsEscBracket(t) /\ x = "R"
  <2> SUFFICES ASSUME now = Trigger PROVE EndsEscBracket(t) /\ x = "R"
    OBVIOUS
  <2>1. Len(now) = 3
    BY <1>2
  <2>2. n = 3
    BY <2>1 DEF n
  <2>3. Len(t) = 2
    <3>1. \A m \in Nat : m + 1 = 3 => m = 2
      OBVIOUS
    <3>2. Len(t) + 1 = 3 /\ Len(t) \in Nat
      BY <2>2, <1>1
    <3> QED BY <3>1, <3>2, Zenon
  <2>4. now[3] = "R" /\ now[2] = "[" /\ now[1] = "esc"
    BY <1>2
  <2>5. x = "R" /\ t[2] = "[" /\ t[1] = "esc"
    BY <2>2, <2>3, <2>4, <1>1
  <2> QED BY <2>3, <2>5 DEF EndsEscBracket
<1>11. EndsEsc(now) <=> x = "esc"
  BY <1>1 DEF EndsEsc, n
<1>12. EndsEscBracket(now) <=> EndsEsc(t) /\ x = "["
  <2>1. Len(t) >= 1 => now[n - 1] = t[Len(t)]
    <3>1. Len(t) >= 1 => n - 1 = Len(t) /\ Len(t) \in 1..Len(t)
      BY <1>1
    <3> QED BY <3>1, <1>1
  <2>2. n >= 2 <=> Len(t) >= 1
    BY <1>1
  <2> QED BY <2>1, <2>2, <1>1 DEF EndsEsc, EndsEscBracket, n
<1> QED BY <1>9, <1>10, <1>11, <1>12 DEF now

\* A byte b at the back of s.
LEMMA AppendToStream ==
  ASSUME NEW s \in Seq(Bytes), NEW b \in Bytes
  PROVE  LET z == Append(s, b)
         IN  /\ z \in Seq(Bytes) /\ Len(s) \in Nat /\ Len(z) = Len(s) + 1 /\ z[Len(s) + 1] = b
             /\ \A i \in 1..Len(s) : z[i] = s[i]
             /\ \A i \in 1..Len(z) : i \in 1..Len(s) \/ i = Len(s) + 1
OBVIOUS

LEMMA CellsAppend ==
  ASSUME NEW s \in Seq(Bytes), NEW b \in Bytes, NEW cell, NEW next,
         CellsFrom(cell, s, next), b.cell = next,
         b.what \in Text => \A i \in 1..Len(s) : s[i].what \in Text
  PROVE  CellsFrom(cell, Append(s, b), IF b.what \in Text THEN next ELSE Successor(b))
<1> DEFINE z == Append(s, b)
           n == Len(s)
<1>1. /\ z \in Seq(Bytes) /\ n \in Nat /\ Len(z) = n + 1 /\ z[n + 1] = b
      /\ \A i \in 1..n : z[i] = s[i]
      /\ \A i \in 1..Len(z) : i \in 1..n \/ i = n + 1
  BY AppendToStream
<1> HIDE DEF z
<1>2. \A i \in 1..(n + 1) : Due(cell, z, i) = Due(cell, s, i)
  <2> TAKE i \in 1..(n + 1)
  <2>1. i # 1 => i - 1 \in 1..n
    BY <1>1
  <2>2. i # 1 => z[i - 1] = s[i - 1]
    BY <2>1, <1>1
  <2> QED BY <2>2 DEF Due
<1>3. \A i \in 1..Len(z) : z[i].what \notin Text => z[i].cell = Due(cell, z, i)
  <2> TAKE i \in 1..Len(z)
  <2>1. CASE i \in 1..n
    <3>1. i \in 1..(n + 1)
      BY <2>1, <1>1
    <3> QED BY <2>1, <3>1, <1>1, <1>2 DEF CellsFrom
  <2>2. CASE i = n + 1
    <3>1. n + 1 \in 1..(n + 1)
      BY <1>1
    <3> QED BY <2>2, <3>1, <1>1, <1>2 DEF CellsFrom
  <2> QED BY <2>1, <2>2, <1>1
<1>4. Due(cell, z, Len(z) + 1) = IF b.what \in Text THEN cell ELSE Successor(b)
  <2>1. Len(z) + 1 # 1 /\ Len(z) + 1 - 1 = n + 1
    BY <1>1
  <2> QED BY <2>1, <1>1 DEF Due
<1>5. b.what \in Text => next = cell
  <2> HAVE b.what \in Text
  <2>1. next = Due(cell, s, n + 1)
    BY DEF CellsFrom
  <2>2. n + 1 # 1 => n + 1 - 1 = n /\ n \in 1..n
    BY <1>1
  <2> QED BY <2>1, <2>2 DEF Due
<1> QED BY <1>3, <1>4, <1>5 DEF CellsFrom, z

\* A byte at the front of s is taken.
LEMMA TakeFromStream ==
  ASSUME NEW s \in Seq(Bytes), s # <<>>
  PROVE  LET z == Tail(s)
         IN  /\ z \in Seq(Bytes) /\ Len(s) \in Nat /\ Len(s) >= 1 /\ Len(z) = Len(s) - 1
             /\ s[1] \in Bytes /\ Head(s) = s[1] /\ 1 \in 1..Len(s)
             /\ \A i \in 1..Len(z) : z[i] = s[i + 1] /\ i + 1 \in 1..Len(s)
<1> DEFINE z == Tail(s)
<1>1. /\ z \in Seq(Bytes) /\ Len(s) \in Nat /\ Len(s) >= 1 /\ Len(z) = Len(s) - 1
      /\ s[1] \in Bytes /\ Head(s) = s[1]
      /\ \A i \in 1..Len(z) : z[i] = s[i + 1]
  OBVIOUS
<1> HIDE DEF z
<1>2. 1 \in 1..Len(s) /\ \A i \in 1..Len(z) : i + 1 \in 1..Len(s)
  BY <1>1
<1> QED BY <1>1, <1>2 DEF z

LEMMA CellsTail ==
  ASSUME NEW s \in Seq(Bytes), s # <<>>, NEW cell, NEW next, CellsFrom(cell, s, next),
         TextFirst(s)
  PROVE  /\ s[1].what \notin Text => s[1].cell = cell
         /\ CellsFrom(IF s[1].what \in Text THEN cell ELSE Successor(s[1]), Tail(s), next)
<1> DEFINE z == Tail(s)
           first == IF s[1].what \in Text THEN cell ELSE Successor(s[1])
<1>1. /\ z \in Seq(Bytes) /\ Len(s) \in Nat /\ Len(s) >= 1 /\ Len(z) = Len(s) - 1
      /\ 1 \in 1..Len(s)
      /\ \A i \in 1..Len(z) : z[i] = s[i + 1] /\ i + 1 \in 1..Len(s)
  BY TakeFromStream
<1> HIDE DEF z
<1>2. s[1].what \notin Text => s[1].cell = cell
  BY <1>1 DEF CellsFrom, Due
<1>3. \A i \in 1..(Len(z) + 1) : Due(first, z, i) = Due(cell, s, i + 1)
  <2> TAKE i \in 1..(Len(z) + 1)
  <2>1. i + 1 # 1 /\ i + 1 - 1 = i
    BY <1>1
  <2>2. CASE i = 1
    BY <2>1, <2>2 DEF Due
  <2>3. CASE i # 1
    <3>1. i - 1 \in 1..Len(z) /\ i - 1 + 1 = i /\ i \in 2..Len(s)
      BY <2>3, <1>1
    <3>2. z[i - 1] = s[i]
      BY <3>1, <1>1
    <3>3. s[i].what \in Text => s[1].what \in Text
      <4>1. i \in 1..Len(s) /\ 1 <= i
        BY <3>1
      <4> QED BY <4>1, <1>1 DEF TextFirst
    <3> QED BY <2>1, <2>3, <3>2, <3>3 DEF Due
  <2> QED BY <2>2, <2>3
<1>4. \A i \in 1..Len(z) : z[i].what \notin Text => z[i].cell = Due(first, z, i)
  <2> TAKE i \in 1..Len(z)
  <2>1. i \in 1..(Len(z) + 1)
    BY <1>1
  <2> QED BY <2>1, <1>1, <1>3 DEF CellsFrom
<1>5. next = Due(first, z, Len(z) + 1)
  <2>1. Len(z) + 1 \in 1..(Len(z) + 1) /\ Len(z) + 1 + 1 = Len(s) + 1
    BY <1>1
  <2> QED BY <2>1, <1>3 DEF CellsFrom
<1> QED BY <1>2, <1>4, <1>5 DEF CellsFrom, z

\* The receiver takes a character c that does not end a trigger.
Takes(e, c, f) ==
  ~(e = 2 /\ c = "R") /\ (f = 1 <=> c = "esc") /\ (f = 2 <=> e = 1 /\ c = "[")

\* z with f characters before it reads as s, one place on, with e before it.
Shifted(e, s, f, z) ==
  /\ \A i \in 1..Len(z) : Window(f, z, i) = Window(e, s, i + 1)
  /\ \A i \in 0..Len(z) : Window(f, z, i) = "esc" <=> Window(e, s, i + 1) = "esc"
  /\ \A i \in -1..(Len(z) - 1) :
       Window(f, z, i) = "esc" /\ Window(f, z, i + 1) = "["
         <=> Window(e, s, i + 1) = "esc" /\ Window(e, s, i + 2) = "["

LEMMA WindowTail ==
  ASSUME NEW s \in Seq(Bytes), s # <<>>, NEW e \in 0..2, NEW f \in 0..2,
         Takes(e, s[1].what, f)
  PROVE  Shifted(e, s, f, Tail(s))
<1> DEFINE z == Tail(s)
<1>1. /\ Len(s) \in Nat /\ Len(s) >= 1 /\ Len(z) = Len(s) - 1
      /\ \A i \in 1..Len(z) : z[i] = s[i + 1]
  BY TakeFromStream
<1> HIDE DEF z
<1>2. /\ Window(e, s, 1) = s[1].what
      /\ Window(e, s, 0) = "esc" <=> e = 1
      /\ Window(f, z, 0) = "esc" <=> f = 1
      /\ Window(f, z, 0) = "[" <=> f = 2
      /\ Window(f, z, -1) = "esc" <=> f = 2
  BY DEF Window, Takes
<1>3. \A i \in 1..Len(z) : Window(f, z, i) = Window(e, s, i + 1)
  <2> TAKE i \in 1..Len(z)
  <2>1. i >= 1 /\ i + 1 >= 1
    BY <1>1
  <2> QED BY <2>1, <1>1 DEF Window
<1>4. \A i \in 0..Len(z) : Window(f, z, i) = "esc" <=> Window(e, s, i + 1) = "esc"
  <2> TAKE i \in 0..Len(z)
  <2>1. CASE i = 0
    BY <2>1, <1>2 DEF Takes
  <2>2. CASE i # 0
    <3>1. i \in 1..Len(z)
      BY <2>2, <1>1
    <3> QED BY <3>1, <1>3
  <2> QED BY <2>1, <2>2
<1>5. ASSUME NEW i \in -1..(Len(z) - 1)
      PROVE  Window(f, z, i) = "esc" /\ Window(f, z, i + 1) = "["
               <=> Window(e, s, i + 1) = "esc" /\ Window(e, s, i + 2) = "["
  <2>1. CASE i = -1
    <3>1. i + 1 = 0 /\ i + 2 = 1
      BY <2>1
    <3> QED BY <2>1, <3>1, <1>2 DEF Takes
  <2>2. CASE i # -1
    <3>1. i \in 0..Len(z) /\ i + 1 \in 1..Len(z) /\ i + 1 + 1 = i + 2
      BY <2>2, <1>1
    <3>2. Window(f, z, i + 1) = Window(e, s, i + 2)
      BY <3>1, <1>3
    <3> QED BY <3>1, <3>2, <1>4
  <2> QED BY <2>1, <2>2
<1> QED BY <1>3, <1>4, <1>5 DEF z, Shifted

LEMMA ScanTail ==
  ASSUME NEW s \in Seq(Bytes), s # <<>>, NEW e \in 0..2, NEW f \in 0..2, NEW text,
         Scan(e, s, text), Takes(e, s[1].what, f)
  PROVE  Scan(f, Tail(s), text)
<1> DEFINE z == Tail(s)
<1>1. /\ Len(s) \in Nat /\ Len(s) >= 1 /\ Len(z) = Len(s) - 1
      /\ \A i \in 1..Len(z) : z[i] = s[i + 1]
  BY TakeFromStream
<1>2. Shifted(e, s, f, z)
  BY WindowTail
<1> HIDE DEF z
<1>3. ASSUME NEW k \in -1..(Len(z) - 2)
      PROVE  Spells(f, z, k) <=> Spells(e, s, k + 1)
  <2>1. k \in -1..(Len(z) - 1) /\ k + 2 \in 1..Len(z)
    BY <1>1
  <2>2. k + 1 + 1 = k + 2 /\ k + 2 + 1 = k + 1 + 2
    OBVIOUS
  <2>3. Window(f, z, k + 2) = Window(e, s, k + 1 + 2)
    BY <2>1, <2>2, <1>2 DEF Shifted
  <2> QED BY <2>1, <2>2, <2>3, <1>2 DEF Spells, Shifted
<1>4. ~Spells(e, s, -1)
  <2> SUFFICES ASSUME Spells(e, s, -1) PROVE FALSE
    OBVIOUS
  <2>1. Window(e, s, 0) = "[" /\ Window(e, s, 1) = "R"
    <3>1. -1 + 1 = 0 /\ -1 + 2 = 1
      OBVIOUS
    <3> QED BY <3>1 DEF Spells
  <2> QED BY <2>1 DEF Window, Takes
<1>5. text = Trigger => \E k \in -1..(Len(z) - 2) : Spells(f, z, k)
  <2> HAVE text = Trigger
  <2>1. PICK k \in -1..(Len(s) - 2) : Spells(e, s, k)
    BY DEF Scan
  <2>2. k # -1
    BY <2>1, <1>4
  <2>3. k - 1 \in -1..(Len(z) - 2) /\ k - 1 + 1 = k
    BY <2>2, <1>1
  <2> QED BY <2>1, <2>3, <1>3
<1>6. ASSUME NEW k \in -1..(Len(z) - 2), Spells(f, z, k)
      PROVE  text = Trigger /\ \A i \in (k + 3)..Len(z) : z[i].what \notin Text
  <2>1. k + 1 \in -1..(Len(s) - 2) /\ Spells(e, s, k + 1)
    BY <1>1, <1>3, <1>6
  <2>2. text = Trigger /\ \A i \in (k + 1 + 3)..Len(s) : s[i].what \notin Text
    BY <2>1 DEF Scan
  <2>3. \A i \in (k + 3)..Len(z) : i + 1 \in (k + 1 + 3)..Len(s) /\ i \in 1..Len(z)
    BY <1>1
  <2> QED BY <2>2, <2>3, <1>1
<1>7. /\ Window(f, z, Len(z)) = "esc" <=> Window(e, s, Len(s)) = "esc"
      /\ Window(f, z, Len(z) - 1) = "esc" /\ Window(f, z, Len(z)) = "["
           <=> Window(e, s, Len(s) - 1) = "esc" /\ Window(e, s, Len(s)) = "["
  <2>1. /\ Len(z) \in 0..Len(z) /\ Len(z) + 1 = Len(s)
        /\ Len(z) - 1 \in -1..(Len(z) - 1) /\ Len(z) - 1 + 1 = Len(z)
        /\ Len(z) - 1 + 2 = Len(s) /\ Len(s) - 1 = Len(z)
    BY <1>1
  <2>2. Window(f, z, Len(z)) = "esc" <=> Window(e, s, Len(z) + 1) = "esc"
    BY <2>1, <1>2 DEF Shifted
  <2>3. Window(f, z, Len(z) - 1) = "esc" /\ Window(f, z, Len(z) - 1 + 1) = "["
         <=> Window(e, s, Len(z) - 1 + 1) = "esc" /\ Window(e, s, Len(z) - 1 + 2) = "["
    BY <2>1, <1>2 DEF Shifted
  <2> QED BY <2>1, <2>2, <2>3
<1> QED BY <1>5, <1>6, <1>7 DEF Scan, z

\* The text the iLO2 keeps once it has sent a character.
SaidAfter(text, x) ==
  IF IsSuffix(Trigger, Append(text, x)) THEN Trigger ELSE Append(text, x)

LEMMA ScanAppend ==
  ASSUME NEW s \in Seq(Bytes), NEW b \in Bytes, NEW e \in 0..2, NEW text, Scan(e, s, text)
  PROVE  /\ text = Trigger /\ b.what \notin Text => Scan(e, Append(s, b), text)
         /\ text # Trigger /\ text \in Seq(Text) /\ b.what \in Text =>
              Scan(e, Append(s, b), SaidAfter(text, b.what))
<1> DEFINE z == Append(s, b)
           n == Len(s)
           x == b.what
<1>1. /\ z \in Seq(Bytes) /\ n \in Nat /\ Len(z) = n + 1 /\ z[n + 1] = b
      /\ \A i \in 1..n : z[i] = s[i]
      /\ \A i \in 1..Len(z) : i \in 1..n \/ i = n + 1
  BY AppendToStream
<1> HIDE DEF z
<1>2. /\ \A i \in -1..n : Window(e, z, i) = Window(e, s, i)
      /\ Window(e, z, n + 1) = x
  <2>1. \A i \in -1..n : i >= 1 => i \in 1..n
    BY <1>1
  <2>2. n + 1 >= 1
    BY <1>1
  <2> QED BY <2>1, <2>2, <1>1 DEF Window
<1>3. \A k \in -1..(n - 2) : Spells(e, z, k) <=> Spells(e, s, k)
  <2> TAKE k \in -1..(n - 2)
  <2>1. k \in -1..n /\ k + 1 \in -1..n /\ k + 2 \in -1..n
    BY <1>1
  <2> QED BY <2>1, <1>2 DEF Spells
<1>4. Spells(e, z, n - 1) <=> Window(e, s, n - 1) = "esc" /\ Window(e, s, n) = "[" /\ x = "R"
  <2>1. n - 1 \in -1..n /\ n \in -1..n /\ n - 1 + 1 = n /\ n - 1 + 2 = n + 1
    BY <1>1
  <2> QED BY <2>1, <1>2 DEF Spells
<1>5. /\ n - 1 \in -1..(Len(z) - 2) /\ -1..(n - 2) \subseteq -1..(Len(z) - 2)
      /\ \A k \in -1..(Len(z) - 2) : k \in -1..(n - 2) \/ k = n - 1
  BY <1>1
<1>6. ASSUME text = Trigger, x \notin Text
      PROVE  Scan(e, z, text)
  <2>1. PICK k \in -1..(n - 2) : Spells(e, s, k)
    BY <1>6 DEF Scan
  <2>2. k \in -1..(Len(z) - 2) /\ Spells(e, z, k)
    BY <2>1, <1>3, <1>5
  <2>3. ASSUME NEW j \in -1..(Len(z) - 2), Spells(e, z, j)
        PROVE  \A i \in (j + 3)..Len(z) : z[i].what \notin Text
    <3>1. j \in -1..(n - 2)
      <4>1. x # "R"
        BY <1>6 DEF Text
      <4> QED BY <4>1, <2>3, <1>4, <1>5
    <3>2. \A i \in (j + 3)..n : s[i].what \notin Text
      BY <3>1, <2>3, <1>3 DEF Scan
    <3> TAKE i \in (j + 3)..Len(z)
    <3>3. i = n + 1 \/ (i \in (j + 3)..n /\ i \in 1..n)
      BY <3>1, <1>1
    <3> QED BY <3>2, <3>3, <1>1, <1>6
  <2> QED BY <2>2, <2>3, <1>6 DEF Scan
<1>7. ASSUME text # Trigger, text \in Seq(Text), x \in Text
      PROVE  Scan(e, z, SaidAfter(text, x))
  <2> DEFINE now == SaidAfter(text, x)
  <2>1. /\ EndsEsc(text) <=> Window(e, s, n) = "esc"
        /\ EndsEscBracket(text) <=> Window(e, s, n - 1) = "esc" /\ Window(e, s, n) = "["
        /\ \A k \in -1..(n - 2) : ~Spells(e, s, k)
    BY <1>7 DEF Scan
  <2>2. /\ now = Trigger <=> EndsEscBracket(text) /\ x = "R"
        /\ now # Trigger => /\ EndsEsc(now) <=> x = "esc"
                            /\ EndsEscBracket(now) <=> EndsEsc(text) /\ x = "["
    BY <1>7, TriggerSuffix DEF SaidAfter
  <2> HIDE DEF now
  <2>3. now = Trigger <=> Spells(e, z, n - 1)
    BY <2>1, <2>2, <1>4
  <2>4. ASSUME NEW k \in -1..(Len(z) - 2), Spells(e, z, k)
        PROVE  now = Trigger /\ \A i \in (k + 3)..Len(z) : z[i].what \notin Text
    <3>1. k = n - 1
      BY <2>1, <2>4, <1>3, <1>5
    <3>2. \A i \in (k + 3)..Len(z) : FALSE
      BY <3>1, <1>1
    <3> QED BY <3>1, <3>2, <2>3, <2>4
  <2>5. Window(e, z, Len(z)) = x /\ Window(e, z, Len(z) - 1) = Window(e, s, n)
    <3>1. Len(z) - 1 = n /\ n \in -1..n
      BY <1>1
    <3> QED BY <3>1, <1>1, <1>2
  <2>6. now # Trigger =>
          /\ EndsEsc(now) <=> Window(e, z, Len(z)) = "esc"
          /\ EndsEscBracket(now) <=> /\ Window(e, z, Len(z) - 1) = "esc"
                                     /\ Window(e, z, Len(z)) = "["
    BY <2>1, <2>2, <2>5
  <2> QED BY <2>3, <2>4, <2>6, <1>5 DEF Scan, now
<1> QED BY <1>6, <1>7 DEF z
-----------------------------------------------------------------------------
(* The two ends stay in step.                                               *)

\* The receiver takes the next byte for what it is.
LEMMA HeadIsVideo ==
  ASSUME NEW s \in Seq(Bytes), s # <<>>, NEW cell, NEW d, d, NEW e, NEW next, NEW text,
         InSync(s, cell, d, e, next, text)
  PROVE  s[1].what \notin Text /\ s[1].cell = cell
<1>1. 1 \in 1..Len(s)
  BY TakeFromStream
<1> QED BY <1>1, CellsTail DEF InSync

LEMMA HeadIsText ==
  ASSUME NEW s \in Seq(Bytes), s # <<>>, NEW cell, NEW d, ~d, NEW e, NEW next, NEW text,
         InSync(s, cell, d, e, next, text)
  PROVE  s[1].what \in Text
<1>1. Len(s) \in Nat /\ Len(s) >= 1 /\ 1 \in 1..Len(s)
  BY TakeFromStream
<1>2. CASE text # Trigger
  BY <1>1, <1>2 DEF InSync
<1>3. CASE text = Trigger
  <2>1. PICK k \in -1..(Len(s) - 2) : Spells(e, s, k)
    BY <1>3 DEF InSync, Scan
  <2>2. Window(e, s, k + 2) = "R"
    BY <2>1 DEF Spells
  <2>3. k + 2 \in 1..Len(s) /\ 1 <= k + 2
    BY <1>1, <2>1
  <2>4. s[k + 2].what \in Text
    BY <2>2, <2>3 DEF Window, Text
  <2> QED BY <2>3, <2>4, <1>1 DEF InSync, TextFirst
<1> QED BY <1>2, <1>3

LEMMA TextFirstTail ==
  ASSUME NEW s \in Seq(Bytes), s # <<>>, TextFirst(s)
  PROVE  TextFirst(Tail(s))
<1> DEFINE z == Tail(s)
<1>1. /\ Len(s) \in Nat /\ Len(z) = Len(s) - 1
      /\ \A i \in 1..Len(z) : z[i] = s[i + 1] /\ i + 1 \in 1..Len(s)
  BY TakeFromStream
<1> HIDE DEF z
<1>2. ASSUME NEW i \in 1..Len(z), NEW j \in 1..Len(z), i <= j, z[j].what \in Text
      PROVE  z[i].what \in Text
  <2>1. i + 1 <= j + 1
    BY <1>1, <1>2
  <2> QED BY <2>1, <1>1, <1>2 DEF TextFirst
<1>3. TextFirst(z)
  BY <1>2 DEF TextFirst
<1> QED BY <1>3 DEF z

LEMMA TakeVideo ==
  ASSUME NEW s \in Seq(Bytes), s # <<>>, NEW cell, NEW d, d, NEW e \in 0..2, NEW next, NEW text,
         InSync(s, cell, d, e, next, text)
  PROVE  InSync(Tail(s), Successor(s[1]), d, e, next, text)
<1> DEFINE z == Tail(s)
<1>1. /\ Len(s) \in Nat /\ Len(z) = Len(s) - 1
      /\ \A i \in 1..Len(z) : z[i] = s[i + 1] /\ i + 1 \in 1..Len(s)
  BY TakeFromStream
<1>2. s[1].what \notin Text
  BY HeadIsVideo
<1>3. TextFirst(z) /\ CellsFrom(Successor(s[1]), z, next)
  BY <1>2, CellsTail, TextFirstTail DEF InSync
<1> HIDE DEF z
<1>4. text = Trigger /\ \A i \in 1..Len(z) : z[i].what \notin Text
  BY <1>1 DEF InSync
<1> QED BY <1>3, <1>4 DEF InSync, z

LEMMA TakeText ==
  ASSUME NEW s \in Seq(Bytes), s # <<>>, NEW cell, NEW d, ~d, NEW e \in 0..2, NEW next, NEW text,
         InSync(s, cell, d, e, next, text), NEW g, NEW f \in 0..2,
         g <=> e = 2 /\ s[1].what = "R",
         ~g => Takes(e, s[1].what, f)
  PROVE  InSync(Tail(s), cell, g, f, next, text)
<1> DEFINE z == Tail(s)
<1>1. /\ Len(s) \in Nat /\ Len(s) >= 1 /\ Len(z) = Len(s) - 1
      /\ \A i \in 1..Len(z) : z[i] = s[i + 1] /\ i + 1 \in 1..Len(s)
  BY TakeFromStream
<1>2. s[1].what \in Text
  BY HeadIsText
<1>3. TextFirst(z) /\ CellsFrom(cell, z, next)
  BY <1>2, CellsTail, TextFirstTail DEF InSync
<1>4. ~g => Scan(f, z, text)
  BY ScanTail DEF InSync
<1> HIDE DEF z
<1>5. text # Trigger => \A i \in 1..Len(z) : z[i].what \in Text
  BY <1>1 DEF InSync
<1>6. ASSUME g PROVE text = Trigger /\ \A i \in 1..Len(z) : z[i].what \notin Text
  <2>1. Spells(e, s, -1)
    <3>1. -1 + 1 = 0 /\ -1 + 2 = 1 /\ e = 2 /\ s[1].what = "R"
      BY <1>6
    <3>2. Window(e, s, -1) = "esc" /\ Window(e, s, 0) = "[" /\ Window(e, s, 1) = "R"
      BY <3>1 DEF Window
    <3> QED BY <3>1, <3>2 DEF Spells
  <2>2. -1 \in -1..(Len(s) - 2)
    BY <1>1
  <2>3. text = Trigger /\ \A i \in (-1 + 3)..Len(s) : s[i].what \notin Text
    BY <2>1, <2>2 DEF InSync, Scan
  <2>4. \A i \in 1..Len(z) : i + 1 \in (-1 + 3)..Len(s)
    BY <1>1
  <2> QED BY <2>3, <2>4, <1>1
<1> QED BY <1>3, <1>4, <1>5, <1>6 DEF InSync, z

\* The iLO2 puts a byte b into the connection.
LEMMA PutByte ==
  ASSUME NEW s \in Seq(Bytes), NEW b \in Bytes, NEW cell, NEW d, NEW e \in 0..2, NEW next,
         NEW text \in Seq(Text), InSync(s, cell, d, e, next, text),
         b.cell = next, text = Trigger <=> b.what \notin Text
  PROVE  InSync(Append(s, b), cell, d, e,
                IF b.what \in Text THEN next ELSE Successor(b),
                IF b.what \in Text THEN SaidAfter(text, b.what) ELSE text)
<1> DEFINE z == Append(s, b)
           after == IF b.what \in Text THEN next ELSE Successor(b)
           now == IF b.what \in Text THEN SaidAfter(text, b.what) ELSE text
           n == Len(s)
<1>1. /\ n \in Nat /\ Len(z) = n + 1 /\ z[n + 1] = b
      /\ \A i \in 1..n : z[i] = s[i]
      /\ \A i \in 1..Len(z) : i \in 1..n \/ i = n + 1
  BY AppendToStream
<1>2. b.what \in Text => \A i \in 1..n : s[i].what \in Text
  BY DEF InSync
<1>3. CellsFrom(cell, z, after)
  BY <1>2, CellsAppend DEF InSync
<1>4. ~d => Scan(e, z, now)
  BY ScanAppend DEF InSync
<1> HIDE DEF z
<1>5. TextFirst(z)
  <2> SUFFICES ASSUME NEW i \in 1..Len(z), NEW j \in 1..Len(z), i <= j, z[j].what \in Text
               PROVE  z[i].what \in Text
    BY DEF TextFirst
  <2>1. CASE j \in 1..n
    <3>1. i \in 1..n
      BY <2>1, <1>1
    <3> QED BY <2>1, <3>1, <1>1 DEF InSync, TextFirst
  <2>2. CASE j = n + 1
    BY <2>2, <1>1, <1>2
  <2> QED BY <2>1, <2>2, <1>1
<1>6. now # Trigger => \A i \in 1..Len(z) : z[i].what \in Text
  BY <1>1, <1>2
<1>7. d => now = Trigger /\ \A i \in 1..Len(z) : z[i].what \notin Text
  BY <1>1 DEF InSync
<1> HIDE DEF after, now
<1>8. InSync(z, cell, d, e, after, now)
  BY <1>3, <1>4, <1>5, <1>6, <1>7 DEF InSync
<1> QED BY <1>8 DEF z, after, now

LEMMA StreamTypes ==
  ASSUME TypeInv
  PROVE  /\ chunk \in Seq(Bytes) /\ down \in Seq(Bytes) /\ Stream \in Seq(Bytes)
         /\ chunk # <<>> => /\ Stream # <<>> /\ Stream[1] = Head(chunk)
                            /\ Tail(Stream) = Tail(chunk) \o down
         /\ \A b \in Bytes : Append(Stream, b) = chunk \o Append(down, b)
<1>1. chunk \in Seq(Bytes) /\ down \in Seq(Bytes)
  BY DEF TypeInv, ChannelTypes
<1>2. /\ Stream \in Seq(Bytes) /\ Len(Stream) = Len(chunk) + Len(down)
      /\ \A i \in 1..(Len(chunk) + Len(down)) :
           Stream[i] = IF i <= Len(chunk) THEN chunk[i] ELSE down[i - Len(chunk)]
      /\ Len(chunk) \in Nat /\ Len(down) \in Nat
  BY <1>1, ConcatProperties DEF Stream
<1>3. ASSUME chunk # <<>>
      PROVE  /\ Stream # <<>> /\ Stream[1] = Head(chunk)
             /\ Tail(Stream) = Tail(chunk) \o down
  <2>1. /\ Tail(chunk) \in Seq(Bytes) /\ Len(chunk) >= 1 /\ Head(chunk) = chunk[1]
        /\ Len(Tail(chunk)) = Len(chunk) - 1
        /\ \A i \in 1..Len(Tail(chunk)) : Tail(chunk)[i] = chunk[i + 1]
    BY <1>1, <1>3, TakeFromStream
  <2>2. Len(Stream) >= 1 /\ 1 \in 1..(Len(chunk) + Len(down))
    BY <1>2, <2>1
  <2>3. Stream # <<>>
    BY <2>2
  <2>4. Stream[1] = Head(chunk)
    BY <1>2, <2>1, <2>2
  <2>5. /\ Tail(Stream) \in Seq(Bytes) /\ Len(Tail(Stream)) = Len(Stream) - 1
        /\ \A i \in 1..Len(Tail(Stream)) : Tail(Stream)[i] = Stream[i + 1]
    BY <1>2, <2>3, TakeFromStream
  <2> DEFINE a == Tail(Stream)
             c == Tail(chunk)
             z == c \o down
  <2>6. /\ z \in Seq(Bytes) /\ Len(z) = Len(c) + Len(down)
        /\ \A i \in 1..(Len(c) + Len(down)) :
             z[i] = IF i <= Len(c) THEN c[i] ELSE down[i - Len(c)]
    BY <1>1, <2>1, ConcatProperties
  <2> HIDE DEF a, c, z
  <2>7. Len(a) = Len(z)
    BY <1>2, <2>1, <2>5, <2>6 DEF a, c
  <2>8. \A i \in 1..Len(a) : a[i] = z[i]
    <3> TAKE i \in 1..Len(a)
    <3>1. /\ a[i] = Stream[i + 1] /\ Len(c) = Len(chunk) - 1
          /\ i + 1 \in 1..(Len(chunk) + Len(down)) /\ i \in 1..(Len(c) + Len(down))
      BY <1>2, <2>1, <2>5 DEF a, c
    <3>2. CASE i <= Len(c)
      <4>1. i + 1 <= Len(chunk) /\ i \in 1..Len(c)
        BY <3>1, <3>2, <1>2
      <4>2. Stream[i + 1] = chunk[i + 1]
        BY <4>1, <3>1, <1>2
      <4>3. z[i] = c[i] /\ c[i] = chunk[i + 1]
        BY <4>1, <3>1, <3>2, <2>1, <2>6 DEF c
      <4> QED BY <3>1, <4>2, <4>3
    <3>3. CASE ~(i <= Len(c))
      <4>1. ~(i + 1 <= Len(chunk)) /\ i + 1 - Len(chunk) = i - Len(c)
        BY <3>1, <3>3, <1>2
      <4>2. Stream[i + 1] = down[i + 1 - Len(chunk)]
        BY <4>1, <3>1, <1>2
      <4>3. z[i] = down[i - Len(c)]
        BY <3>1, <3>3, <2>6
      <4> QED BY <3>1, <4>1, <4>2, <4>3
    <3> QED BY <3>2, <3>3
  <2>9. a = z
    BY <2>5, <2>6, <2>7, <2>8, SeqEqual DEF a
  <2> QED BY <2>3, <2>4, <2>9 DEF a, c, z
<1>4. ASSUME NEW b \in Bytes
      PROVE  Append(Stream, b) = chunk \o Append(down, b)
  <2>1. <<b>> \in Seq(Bytes)
    OBVIOUS
  <2>2. Append(Stream, b) = Stream \o <<b>> /\ Append(down, b) = down \o <<b>>
    BY <1>1, <1>2, AppendIsConcat
  <2>3. Stream \o <<b>> = chunk \o (down \o <<b>>)
    BY <1>1, <2>1, ConcatAssociative DEF Stream
  <2> QED BY <2>2, <2>3
<1> QED BY <1>1, <1>2, <1>3, <1>4

streamVars == <<chunk, down, dec, dvc, esc, far, said>>

\* Steps that leave the stream alone and do not rotate the keys.
LEMMA StreamRests ==
  ASSUME TypeInv, StreamInv, UNCHANGED streamVars,
         pc["recv"] = "rotating" <=> pc'["recv"] = "rotating",
         pc'["recv"] = "receiving" => chunk = <<>>
  PROVE  StreamInv'
<1>1. Stream' = Stream /\ Expected' = Expected /\ UNCHANGED <<dvc, esc, far, said, chunk>>
  BY DEF streamVars, Stream, Expected
<1> QED BY <1>1 DEF StreamInv

LEMMA TransmitKeepsStream ==
  ASSUME TypeInv, StreamInv, NEW t \in Threads, Transmit(t)
  PROVE  StreamInv'
<1>1. UNCHANGED streamVars
  BY DEF Transmit, Acquire, Encrypt, Check, Write, SendFails, receiver, ilo, streamVars
<1>2. /\ pc' = pc
      \/ /\ pc[t] \in Working
         /\ \E x \in Working \cup {IF t = "page" THEN "idle" ELSE "processing"} :
              pc' = [pc EXCEPT ![t] = x]
  BY DEF Transmit, Acquire, Encrypt, Check, Write, SendFails, Return, Working
<1>3. pc \in [Threads -> Labels] /\ "recv" \in Threads
  BY DEF TypeInv, KeyInv, KeyTypes, Threads
<1>4. /\ pc["recv"] = "rotating" <=> pc'["recv"] = "rotating"
      /\ pc'["recv"] = "receiving" => chunk = <<>>
  <2>1. CASE pc' = pc
    BY <2>1 DEF StreamInv
  <2>2. CASE t # "recv" /\ \E x : pc' = [pc EXCEPT ![t] = x]
    <3>1. pc'["recv"] = pc["recv"]
      BY <2>2, <1>3
    <3> QED BY <3>1 DEF StreamInv
  <2>3. CASE t = "recv" /\ pc[t] \in Working
             /\ \E x \in Working \cup {"processing"} : pc' = [pc EXCEPT ![t] = x]
    <3>1. pc'["recv"] \in Working \cup {"processing"} /\ pc["recv"] \in Working
      BY <2>3, <1>3
    <3> QED BY <3>1 DEF Working
  <2> QED BY <1>2, <2>1, <2>2, <2>3
<1> QED BY <1>1, <1>4, StreamRests

\* A byte of video is decrypted with the cell it was encrypted with, and the
\* next one is expected to follow it.
LEMMA ProcessKeepsStream ==
  ASSUME TypeInv, StreamInv, NEW what, Process(what),
         Expected' = IF what = "key" THEN NextKey(dec) ELSE After(dec),
         pc'["recv"] # "receiving"
  PROVE  StreamInv'
<1>1. /\ pc["recv"] = "processing" /\ chunk # <<>> /\ dvc /\ Head(chunk).what = what
      /\ chunk' = Tail(chunk) /\ UNCHANGED <<esc, dvc, down, far, said>>
  BY DEF Process, ilo
<1>2. Expected = dec
  BY <1>1 DEF Expected
<1>3. /\ Stream \in Seq(Bytes) /\ Stream # <<>> /\ Stream[1] = Head(chunk)
      /\ Stream' = Tail(Stream)
  BY <1>1, StreamTypes DEF Stream
<1>4. esc \in 0..2
  BY DEF TypeInv, ChannelTypes
<1>5. InSync(Stream, Expected, dvc, esc, far.cell, said)
  BY DEF StreamInv
<1>6. Stream[1].cell = dec
  BY <1>1, <1>2, <1>3, <1>5, HeadIsVideo
<1>7. Successor(Stream[1]) = Expected'
  BY <1>1, <1>3, <1>6 DEF Successor
<1>8. InSync(Tail(Stream), Successor(Stream[1]), dvc, esc, far.cell, said)
  BY <1>1, <1>3, <1>4, <1>5, TakeVideo
<1>9. InSync(Stream', Expected', dvc', esc', far'.cell, said')
  BY <1>1, <1>3, <1>7, <1>8
<1> QED BY <1>9 DEF StreamInv

LEMMA ProcessTextKeepsStream ==
  ASSUME TypeInv, StreamInv, ProcessText
  PROVE  StreamInv'
<1>1. /\ pc["recv"] = "processing" /\ chunk # <<>> /\ ~dvc
      /\ chunk' = Tail(chunk) /\ UNCHANGED <<pc, dec, down, far, said>>
      /\ dvc' = (esc = 2 /\ Head(chunk).what = "R")
      /\ esc' = IF dvc' THEN esc ELSE EscAfter(Head(chunk).what)
  BY DEF ProcessText, ilo
<1>2. Expected' = Expected
  BY <1>1 DEF Expected
<1>3. /\ Stream \in Seq(Bytes) /\ Stream # <<>> /\ Stream[1] = Head(chunk)
      /\ Stream' = Tail(Stream)
  BY <1>1, StreamTypes DEF Stream
<1>4. esc \in 0..2 /\ esc' \in 0..2
  <2>1. esc \in 0..2
    BY DEF TypeInv, ChannelTypes
  <2> QED BY <2>1, <1>1 DEF EscAfter
<1>5. ~dvc' => Takes(esc, Stream[1].what, esc')
  <2> HAVE ~dvc'
  <2>1. esc' = EscAfter(Head(chunk).what) /\ ~(esc = 2 /\ Head(chunk).what = "R")
    BY <1>1
  <2>2. /\ EscAfter(Head(chunk).what) = 1 <=> Head(chunk).what = "esc"
        /\ EscAfter(Head(chunk).what) = 2 <=> esc = 1 /\ Head(chunk).what = "["
    BY DEF EscAfter
  <2> QED BY <2>1, <2>2, <1>3 DEF Takes
<1>6. InSync(Stream, Expected, dvc, esc, far.cell, said)
  BY DEF StreamInv
<1>7. dvc' <=> esc = 2 /\ Stream[1].what = "R"
  BY <1>1, <1>3
<1>8. InSync(Tail(Stream), Expected, dvc', esc', far.cell, said)
  BY <1>1, <1>3, <1>4, <1>5, <1>6, <1>7, TakeText
<1>9. InSync(Stream', Expected', dvc', esc', far'.cell, said')
  BY <1>1, <1>2, <1>3, <1>8
<1> QED BY <1>1, <1>9 DEF StreamInv

LEMMA IloKeepsStream ==
  ASSUME TypeInv, StreamInv, IloReads \/ IloWants \/ IloWrites \/ IloGone
  PROVE  StreamInv'
<1>1. CASE IloReads
  BY <1>1, StreamRests DEF IloReads, receiver, ilo, streamVars, StreamInv
<1>2. ASSUME UNCHANGED <<pc, chunk, down, dec, dvc, esc, said>>, far'.cell = far.cell
      PROVE  StreamInv'
  <2>1. Stream' = Stream /\ Expected' = Expected
    BY <1>2 DEF Stream, Expected
  <2> QED BY <1>2, <2>1 DEF StreamInv
<1>3. CASE IloWants
  BY <1>2, <1>3, IloWantsFar DEF IloWants, receiver
<1>4. CASE IloGone
  <2>1. far' = [far EXCEPT !.gone = TRUE, !.byte = None] /\ far \in Fars
    BY <1>4 DEF IloGone, TypeInv, ChannelTypes
  <2>2. far'.cell = far.cell
    BY <2>1 DEF Fars
  <2> QED BY <1>2, <1>4, <2>2 DEF IloGone, receiver
<1>5. CASE IloWrites
  <2>1. /\ far.byte \in Bytes /\ far.byte.cell = far.cell
        /\ Triggered <=> far.byte.what \notin Text
        /\ far'.cell = IF ~Triggered THEN far.cell
                       ELSE IF far.byte.what = "key" THEN NextKey(far.cell)
                       ELSE After(far.cell)
        /\ down' = Append(down, far.byte)
    BY <1>5, IloWritesFar
  <2>2. UNCHANGED <<pc, chunk, dec, dvc, esc>>
    BY <1>5 DEF IloWrites, receiver
  <2>3. said' = IF Triggered THEN said ELSE SaidAfter(said, far.byte.what)
    BY <1>5 DEF IloWrites, SaidAfter
  <2>4. Expected' = Expected /\ Stream \in Seq(Bytes) /\ Stream' = Append(Stream, far.byte)
    BY <2>1, <2>2, StreamTypes DEF Expected, Stream
  <2>5. said \in Seq(Text) /\ esc \in 0..2
    BY DEF TypeInv, ChannelTypes
  <2>6. InSync(Stream, Expected, dvc, esc, far.cell, said)
    BY DEF StreamInv
  <2>7. said = Trigger <=> far.byte.what \notin Text
    BY <2>1 DEF Triggered
  <2>8. InSync(Append(Stream, far.byte), Expected, dvc, esc,
               IF far.byte.what \in Text THEN far.cell ELSE Successor(far.byte),
               IF far.byte.what \in Text THEN SaidAfter(said, far.byte.what) ELSE said)
    BY <2>1, <2>4, <2>5, <2>6, <2>7, PutByte
  <2>9. far'.cell = (IF far.byte.what \in Text THEN far.cell ELSE Successor(far.byte))
    BY <2>1 DEF Successor
  <2>10. said' = (IF far.byte.what \in Text THEN SaidAfter(said, far.byte.what) ELSE said)
    BY <2>1, <2>3
  <2>11. InSync(Stream', Expected', dvc', esc', far'.cell, said')
    BY <2>2, <2>4, <2>8, <2>9, <2>10
  <2> QED BY <2>2, <2>11 DEF StreamInv
<1> QED BY <1>1, <1>3, <1>4, <1>5

LEMMA ReceiverKeepsStream ==
  ASSUME TypeInv, StreamInv, ReceiveLoop
  PROVE  StreamInv'
<1>1. pc \in [Threads -> Labels] /\ "recv" \in Threads /\ dec \in Cells
  BY DEF TypeInv, KeyInv, KeyTypes, ChannelTypes, Threads
<1>2. CASE Receive
  <2>1. chunk' \o down' = down /\ chunk = <<>> /\ down \in Seq(Bytes)
    BY <1>2, ReceiveTypes DEF Receive, StreamInv, TypeInv, ChannelTypes
  <2>2. Stream' = Stream
    BY <2>1, ConcatEmptySeq DEF Stream
  <2>3. pc'["recv"] = "processing" /\ pc["recv"] = "receiving"
        /\ UNCHANGED <<dec, esc, dvc, far, said>>
    BY <1>1, <1>2 DEF Receive
  <2>4. Expected' = Expected
    BY <2>3 DEF Expected
  <2> QED BY <2>2, <2>3, <2>4 DEF StreamInv
<1>3. CASE ReceiverEnds \/ ChunkDone \/ ClearSocket
  <2>1. /\ UNCHANGED streamVars /\ pc["recv"] # "rotating"
        /\ pc'["recv"] # "rotating" /\ (pc'["recv"] = "receiving" => chunk = <<>>)
    BY <1>1, <1>3 DEF ReceiverEnds, ChunkDone, ClearSocket, receiver, ilo, streamVars
  <2> QED BY <2>1, StreamRests
<1>4. CASE Rotated
  <2>1. pc["recv"] = "rotating" /\ pc'["recv"] = "processing" /\ dec' = NextKey(dec)
        /\ UNCHANGED <<chunk, down, dvc, esc, far, said>>
    BY <1>1, <1>4 DEF Rotated, ilo
  <2>2. Stream' = Stream /\ Expected' = Expected
    BY <2>1 DEF Stream, Expected
  <2> QED BY <2>1, <2>2 DEF StreamInv
<1>5. CASE ProcessText
  BY <1>5, ProcessTextKeepsStream
<1>6. CASE ProcessKey
  <2>1. Process("key") /\ dec' = After(dec) /\ pc'["recv"] = "rotating"
    BY <1>1, <1>6 DEF ProcessKey
  <2>2. NextKey(After(dec)) = NextKey(dec)
    BY DEF NextKey, After, Cell
  <2>3. Expected' = NextKey(dec)
    BY <2>1, <2>2 DEF Expected
  <2> QED BY <2>1, <2>3, ProcessKeepsStream
<1>7. ASSUME NEW what \in {"pixels", "broken", "seize"}, Process(what), dec' = After(dec),
             pc'["recv"] \in {"processing", "waiting", "closing"}
      PROVE  StreamInv'
  <2>1. what # "key" /\ Expected' = After(dec)
    BY <1>7 DEF Expected
  <2> QED BY <1>7, <2>1, ProcessKeepsStream
<1>8. CASE ProcessPixels
  <2>1. Process("pixels") /\ dec' = After(dec) /\ pc'["recv"] = "processing"
    BY <1>8 DEF ProcessPixels, Process
  <2> QED BY <2>1, <1>7
<1>9. CASE ProcessBroken
  <2>1. Process("broken") /\ dec' = After(dec) /\ pc'["recv"] = "waiting"
    BY <1>1, <1>9 DEF ProcessBroken
  <2> QED BY <2>1, <1>7
<1>10. CASE ProcessSeize
  <2>1. Process("seize") /\ dec' = After(dec) /\ pc'["recv"] = "closing"
    BY <1>1, <1>10 DEF ProcessSeize
  <2> QED BY <2>1, <1>7
<1> QED BY <1>2, <1>3, <1>4, <1>5, <1>6, <1>8, <1>9, <1>10 DEF ReceiveLoop

LEMMA InitStream == Init => StreamInv
<1> SUFFICES ASSUME Init PROVE StreamInv
  OBVIOUS
<1>1. /\ pc = [t \in Threads |-> IF t = "page" THEN "idle" ELSE "receiving"]
      /\ "recv" \in Threads /\ chunk = <<>> /\ down = <<>> /\ said = <<>>
      /\ dec = Cell(0, 1) /\ esc = 0 /\ dvc = FALSE
      /\ far = [cell |-> Cell(0, 1), byte |-> None, gone |-> FALSE, video |-> 0]
  BY DEF Init, Threads
<1>2. Stream = <<>> /\ Len(Stream) = 0 /\ Len(said) = 0
  BY <1>1 DEF Stream
<1>3. pc["recv"] = "receiving" /\ Expected = Cell(0, 1) /\ far.cell = Cell(0, 1)
  BY <1>1 DEF Expected
<1>4. CellsFrom(Expected, Stream, far.cell)
  BY <1>2, <1>3 DEF CellsFrom, Due
<1>5. said # Trigger
  BY <1>1 DEF Trigger
<1>6. Scan(esc, Stream, said)
  <2>1. Window(esc, Stream, Len(Stream)) # "esc" /\ Window(esc, Stream, Len(Stream)) # "["
    BY <1>1, <1>2 DEF Window
  <2>2. ~EndsEsc(said) /\ ~EndsEscBracket(said)
    BY <1>2 DEF EndsEsc, EndsEscBracket
  <2>3. \A k \in -1..(Len(Stream) - 2) : FALSE
    BY <1>2
  <2> QED BY <2>1, <2>2, <2>3, <1>5 DEF Scan
<1> QED BY <1>1, <1>2, <1>4, <1>5, <1>6 DEF StreamInv, InSync, TextFirst

LEMMA StreamAlways == Spec => []StreamInv
<1>1. TypeInv /\ StreamInv /\ [Next]_vars => StreamInv'
  <2> SUFFICES ASSUME TypeInv, StreamInv, [Next]_vars PROVE StreamInv'
    OBVIOUS
  <2>1. CASE PageSends
    <3>1. pc'["recv"] = pc["recv"] /\ UNCHANGED streamVars
      BY <2>1 DEF PageSends, receiver, ilo, streamVars, TypeInv, KeyInv, KeyTypes, Threads
    <3> QED BY <3>1, StreamRests DEF StreamInv
  <2>2. CASE UNCHANGED vars
    BY <2>2, StreamRests DEF vars, receiver, ilo, streamVars, StreamInv
  <2>3. ASSUME NEW t \in Threads, Transmit(t) PROVE StreamInv'
    BY <2>3, TransmitKeepsStream
  <2> QED BY <2>1, <2>2, <2>3, ReceiverKeepsStream, IloKeepsStream DEF Next
<1> QED BY <1>1, InitStream, TypesAlways, PTL DEF Spec

\* Byte by byte process_dvc() and dvc_process tell text from video as the iLO2
\* does, and xor() uses the cell the byte was encrypted with: however long the
\* text before ESC [ R is and whatever it holds (a trigger that begins anew in
\* the middle of one), wherever recv_into() cuts the stream, and through any
\* number of key rotations.
THEOREM DecryptsInStep == Spec => []DecryptInStep
<1>1. TypeInv /\ StreamInv => DecryptInStep
  <2> SUFFICES ASSUME TypeInv, StreamInv PROVE DecryptInStep
    OBVIOUS
  <2>1. InSync(Stream, Expected, dvc, esc, far.cell, said) /\ Stream \in Seq(Bytes)
    BY StreamTypes DEF StreamInv
  <2>2. dvc => Triggered
    BY <2>1 DEF InSync, Triggered
  <2>3. ASSUME pc["recv"] = "processing", chunk # <<>>
        PROVE  /\ dvc <=> Head(chunk).what \notin Text
               /\ dvc => Head(chunk).cell = dec
    <3>1. Stream # <<>> /\ Stream[1] = Head(chunk) /\ Expected = dec
      BY <2>3, StreamTypes DEF Expected
    <3>2. dvc => Stream[1].what \notin Text /\ Stream[1].cell = dec
      BY <2>1, <3>1, HeadIsVideo
    <3>3. ~dvc => Stream[1].what \in Text
      BY <2>1, <3>1, HeadIsText
    <3> QED BY <3>1, <3>2, <3>3
  <2> QED BY <2>2, <2>3 DEF DecryptInStep
<1> QED BY <1>1, TypesAlways, StreamAlways, PTL
=============================================================================
