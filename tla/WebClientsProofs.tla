-------------------------- MODULE WebClientsProofs --------------------------
(***************************************************************************)
(* Two promises to the browsers, for any number of pages that connect,      *)
(* stall and leave, however long their buffers are and whatever is painted: *)
(* every page learns the present state of the console, and no page shows a  *)
(* picture older than the one it shows.                                     *)
(*                                                                         *)
(* Two hypotheses.  OneSetter: set_console_state is not called by two       *)
(* threads at once; it sets the field and queues it again without a lock,   *)
(* so that two calls may queue in the other order than they set.            *)
(* NoneIsNoCast: None is not mistaken for a _broadcast under way.           *)
(***************************************************************************)
EXTENDS WebClients, SequenceTheorems, TLAPS

OneSetter == \A s, t \in Setters : s = t
NoneIsNoCast == \A m, todo, dead : None # [message |-> m, todo |-> todo, dead |-> dead]
-----------------------------------------------------------------------------
(* What a queue of messages tells in the end.                               *)

\* A sequence, of whatever messages.
Queue(q) == q \in Seq({q[i] : i \in DOMAIN q})

LEMMA SeqIsQueue ==
  ASSUME NEW S, NEW q \in Seq(S) PROVE Queue(q)
<1>1. q = [i \in 1..Len(q) |-> q[i]] /\ Len(q) \in Nat /\ DOMAIN q = 1..Len(q)
  BY LenProperties
<1>2. \A i \in 1..Len(q) : q[i] \in {q[j] : j \in DOMAIN q}
  BY <1>1
<1> QED BY <1>1, <1>2, SeqDef DEF Queue

LEMMA EmptyQueue == Queue(<<>>) /\ Len(<<>>) = 0
BY DEF Queue

LEMMA QueueDomain ==
  ASSUME NEW q, Queue(q)
  PROVE  /\ Len(q) \in Nat /\ DOMAIN q = 1..Len(q) /\ (q = <<>> <=> Len(q) = 0)
<1>1. q \in Seq({q[i] : i \in DOMAIN q})
  BY DEF Queue
<1> QED BY <1>1, LenProperties, EmptySeq

LEMMA QueueAppend ==
  ASSUME NEW q, Queue(q), NEW m
  PROVE  /\ Queue(Append(q, m)) /\ Len(Append(q, m)) = Len(q) + 1
         /\ DOMAIN Append(q, m) = 1..(Len(q) + 1)
         /\ Append(q, m)[Len(q) + 1] = m
         /\ \A i \in 1..Len(q) : Append(q, m)[i] = q[i]
<1> DEFINE S == {q[i] : i \in DOMAIN q} \cup {m}
           p == Append(q, m)
<1>1. q \in Seq({q[i] : i \in DOMAIN q}) /\ Len(q) \in Nat /\ DOMAIN q = 1..Len(q)
  BY QueueDomain DEF Queue
<1>2. q \in Seq(S)
  <2>1. \A i \in 1..Len(q) : q[i] \in S
    BY <1>1
  <2> QED BY <1>1, <2>1, SeqDef
<1> HIDE DEF S
<1>3. m \in S
  BY DEF S
<1>4. /\ p \in Seq(S) /\ Len(p) = Len(q) + 1 /\ p[Len(q) + 1] = m
      /\ \A i \in 1..Len(q) : p[i] = q[i]
  BY <1>2, <1>3, AppendProperties
<1>5. DOMAIN p = 1..(Len(q) + 1)
  BY <1>4, LenProperties
<1>6. Queue(p)
  BY <1>4, SeqIsQueue
<1> QED BY <1>4, <1>5, <1>6

LEMMA QueueTail ==
  ASSUME NEW q, Queue(q), q # <<>>
  PROVE  /\ Queue(Tail(q)) /\ Head(q) = q[1] /\ 1 \in DOMAIN q
         /\ Len(Tail(q)) = Len(q) - 1 /\ DOMAIN Tail(q) = 1..(Len(q) - 1)
         /\ \A i \in 1..(Len(q) - 1) : Tail(q)[i] = q[i + 1]
<1> DEFINE S == {q[i] : i \in DOMAIN q}
           p == Tail(q)
<1>1. q \in Seq(S)
  BY DEF Queue
<1> HIDE DEF S
<1>2. Len(q) \in Nat /\ Len(q) # 0 /\ DOMAIN q = 1..Len(q)
  BY QueueDomain
<1>3. /\ p \in Seq(S) /\ Len(p) = Len(q) - 1 /\ Head(q) = q[1]
      /\ \A i \in 1..(Len(q) - 1) : p[i] = q[i + 1]
  BY <1>1, <1>2, HeadTailProperties
<1>4. DOMAIN p = 1..(Len(q) - 1)
  BY <1>3, LenProperties
<1>5. Queue(p)
  BY <1>3, SeqIsQueue
<1> QED BY <1>2, <1>3, <1>4, <1>5

\* Where a queue speaks of the console state, and what one knows who knew v
\* and reads a message, or the whole queue.
Spoken(q) == {i \in DOMAIN q : q[i].kind = "state"}
Hear(v, m) == IF m.kind = "state" THEN m.state ELSE v
Tells(v, q, s) ==
  \/ Spoken(q) = {} /\ s = v
  \/ \E i \in Spoken(q) : (\A j \in Spoken(q) : j <= i) /\ s = q[i].state

LEMMA TellsNothing ==
  ASSUME NEW v, NEW s PROVE Tells(v, <<>>, s) <=> s = v
BY DEF Tells, Spoken

LEMMA TellsNow ==
  ASSUME NEW q, Queue(q), NEW v, NEW m, m.kind = "state"
  PROVE  Tells(v, Append(q, m), m.state)
<1> DEFINE p == Append(q, m)
           n == Len(q) + 1
<1>1. Len(q) \in Nat /\ DOMAIN p = 1..n /\ p[n] = m
  BY QueueDomain, QueueAppend
<1> HIDE DEF p
<1>2. n \in Spoken(p) /\ \A j \in Spoken(p) : j <= n
  BY <1>1 DEF Spoken
<1> QED BY <1>1, <1>2 DEF Tells, p

LEMMA TellsMore ==
  ASSUME NEW q, Queue(q), NEW v, NEW s, Tells(v, q, s), NEW m
  PROVE  Tells(v, Append(q, m), Hear(s, m))
<1> DEFINE p == Append(q, m)
           n == Len(q) + 1
<1>1. /\ Len(q) \in Nat /\ DOMAIN q = 1..Len(q) /\ DOMAIN p = 1..n /\ p[n] = m
      /\ \A i \in 1..Len(q) : p[i] = q[i]
  BY QueueDomain, QueueAppend
<1> HIDE DEF p
<1>2. CASE m.kind = "state"
  BY <1>2, TellsNow DEF Hear, p
<1>3. CASE m.kind # "state"
  <2>1. Spoken(p) = Spoken(q)
    BY <1>1, <1>3 DEF Spoken
  <2>2. \A i \in Spoken(q) : p[i] = q[i]
    BY <1>1 DEF Spoken
  <2>3. Hear(s, m) = s
    BY <1>3 DEF Hear
  <2>4. Tells(v, p, s)
    BY <2>1, <2>2 DEF Tells
  <2> QED BY <2>3, <2>4 DEF p
<1> QED BY <1>2, <1>3

LEMMA TellsRest ==
  ASSUME NEW q, Queue(q), q # <<>>, NEW v, NEW s, Tells(v, q, s)
  PROVE  Tells(Hear(v, Head(q)), Tail(q), s)
<1> DEFINE p == Tail(q)
           n == Len(q)
<1>1. /\ n \in Nat /\ DOMAIN q = 1..n /\ Head(q) = q[1] /\ 1 \in DOMAIN q
      /\ DOMAIN p = 1..(n - 1) /\ \A i \in 1..(n - 1) : p[i] = q[i + 1]
  BY QueueDomain, QueueTail
<1> HIDE DEF p, n
<1>2. \A i \in 2..n : i \in Spoken(q) => i - 1 \in Spoken(p) /\ p[i - 1] = q[i]
  <2> SUFFICES ASSUME NEW i \in 2..n, i \in Spoken(q) PROVE i - 1 \in Spoken(p) /\ p[i - 1] = q[i]
    OBVIOUS
  <2>1. i - 1 \in 1..(n - 1) /\ (i - 1) + 1 = i
    BY <1>1
  <2>2. p[i - 1] = q[i]
    BY <1>1, <2>1
  <2> QED BY <1>1, <2>1, <2>2 DEF Spoken
<1>3. \A j \in Spoken(p) : j \in 1..(n - 1) /\ j + 1 \in Spoken(q)
  BY <1>1 DEF Spoken
<1>4. CASE Spoken(q) = {}
  <2>1. Hear(v, Head(q)) = v /\ s = v
    BY <1>1, <1>4 DEF Hear, Tells, Spoken
  <2>2. Spoken(p) = {}
    BY <1>3, <1>4
  <2> QED BY <2>1, <2>2 DEF Tells, p
<1>5. ASSUME NEW i \in Spoken(q), \A j \in Spoken(q) : j <= i, s = q[i].state
      PROVE  Tells(Hear(v, Head(q)), p, s)
  <2>1. i \in 1..n
    BY <1>1 DEF Spoken
  <2>2. CASE i = 1
    <3>1. Hear(v, Head(q)) = s
      BY <1>1, <1>5, <2>2 DEF Hear, Spoken
    <3>2. Spoken(p) = {}
      <4> SUFFICES ASSUME NEW j \in Spoken(p) PROVE FALSE
        OBVIOUS
      <4>1. j \in 1..(n - 1) /\ j + 1 <= 1
        BY <1>3, <1>5, <2>2
      <4> QED BY <4>1, <1>1
    <3> QED BY <3>1, <3>2 DEF Tells
  <2>3. CASE i # 1
    <3>1. i \in 2..n
      BY <2>1, <2>3, <1>1
    <3>2. i - 1 \in Spoken(p) /\ p[i - 1] = q[i]
      BY <3>1, <1>2
    <3>3. ASSUME NEW j \in Spoken(p) PROVE j <= i - 1
      <4>1. j \in 1..(n - 1) /\ j + 1 <= i
        BY <1>3, <1>5
      <4> QED BY <4>1, <3>1, <1>1
    <3>4. p[i - 1].state = s
      BY <3>2, <1>5
    <3> QED BY <3>2, <3>3, <3>4 DEF Tells
  <2> QED BY <2>2, <2>3
<1> QED BY <1>4, <1>5 DEF Tells, p

\* Who knew something else before knows the same in the end, or the queue did not
\* speak of it at all.
LEMMA TellsAnyone ==
  ASSUME NEW q, NEW v, NEW s, Tells(v, q, s), NEW w
  PROVE  Tells(w, q, s) \/ (s = v /\ Tells(w, q, w))
BY DEF Tells

\* The same of two queues that are read one after the other.
Reaches(v, q, r, s) == \E d : Tells(v, q, d) /\ Tells(d, r, s)

LEMMA ReachesAnyone ==
  ASSUME NEW q, NEW r, NEW v, NEW s, Reaches(v, q, r, s), NEW w
  PROVE  Reaches(w, q, r, s) \/ (s = v /\ Reaches(w, q, r, w))
<1>1. PICK d : Tells(v, q, d) /\ Tells(d, r, s)
  BY DEF Reaches
<1>2. CASE Tells(w, q, d)
  BY <1>1, <1>2 DEF Reaches
<1>3. CASE d = v /\ Tells(w, q, w)
  <2>1. Tells(w, r, s) \/ (s = d /\ Tells(w, r, w))
    BY <1>1, TellsAnyone
  <2> QED BY <1>3, <2>1 DEF Reaches
<1> QED BY <1>1, <1>2, <1>3, TellsAnyone

LEMMA ReachesMore ==
  ASSUME NEW q, NEW r, Queue(r), NEW v, NEW s, Reaches(v, q, r, s), NEW m
  PROVE  Reaches(v, q, Append(r, m), Hear(s, m))
BY TellsMore DEF Reaches

LEMMA ReachesRest ==
  ASSUME NEW q, NEW r, Queue(q), q # <<>>, NEW v, NEW s, Reaches(v, q, r, s)
  PROVE  Reaches(Hear(v, Head(q)), Tail(q), r, s)
BY TellsRest DEF Reaches

LEMMA ReachesMoved ==
  ASSUME NEW r, NEW v, NEW s, Reaches(v, <<>>, r, s)
  PROVE  Reaches(v, r, <<>>, s)
BY TellsNothing DEF Reaches

\* Who knows v and reads q and then r knows s, or a thread is about to queue it.
Leads(v, q, r, calls, s) ==
  \E d : Reaches(v, q, r, d) /\ ((\E t \in Setters : calls[t] # None) \/ d = s)

LEMMA LeadsMore ==
  ASSUME NEW v, NEW q, NEW r, Queue(r), NEW calls, NEW s, Leads(v, q, r, calls, s),
         NEW m, m.kind # "state"
  PROVE  Leads(v, q, Append(r, m), calls, s)
<1>1. PICK d : Reaches(v, q, r, d) /\ ((\E t \in Setters : calls[t] # None) \/ d = s)
  BY DEF Leads
<1>2. Reaches(v, q, Append(r, m), Hear(d, m)) /\ Hear(d, m) = d
  BY <1>1, ReachesMore DEF Hear
<1> QED BY <1>1, <1>2 DEF Leads

LEMMA LeadsSaid ==
  ASSUME NEW v, NEW q, NEW r, Queue(r), NEW old, NEW calls, NEW s, NEW e, Leads(v, q, r, old, e),
         NEW m, m.kind = "state", m.state = s
  PROVE  Leads(v, q, Append(r, m), calls, s)
<1>1. PICK d : Reaches(v, q, r, d)
  BY DEF Leads
<1>2. Reaches(v, q, Append(r, m), Hear(d, m)) /\ Hear(d, m) = s
  BY <1>1, ReachesMore DEF Hear
<1> QED BY <1>2 DEF Leads

LEMMA LeadsAnyone ==
  ASSUME NEW v, NEW q, NEW r, NEW old, NEW e, Leads(v, q, r, old, e),
         NEW calls, \E t \in Setters : calls[t] # None, NEW w, NEW s
  PROVE  Leads(w, q, r, calls, s)
<1>1. PICK d : Reaches(v, q, r, d)
  BY DEF Leads
<1>2. Reaches(w, q, r, d) \/ Reaches(w, q, r, w)
  BY <1>1, ReachesAnyone
<1> QED BY <1>2 DEF Leads

LEMMA LeadsRest ==
  ASSUME NEW v, NEW q, Queue(q), q # <<>>, NEW r, NEW calls, NEW s, Leads(v, q, r, calls, s)
  PROVE  Leads(Hear(v, Head(q)), Tail(q), r, calls, s)
BY ReachesRest DEF Leads

\* ... and who knows s already may miss the first message.
LEMMA LeadsLate ==
  ASSUME NEW q, Queue(q), q # <<>>, NEW r, NEW calls, NEW s, Leads(s, q, r, calls, s)
  PROVE  Leads(s, Tail(q), r, calls, s)
<1>1. Leads(Hear(s, Head(q)), Tail(q), r, calls, s)
  BY LeadsRest
<1>2. PICK d : /\ Reaches(Hear(s, Head(q)), Tail(q), r, d)
               /\ (\E t \in Setters : calls[t] # None) \/ d = s
  BY <1>1 DEF Leads
<1>3. Reaches(s, Tail(q), r, d) \/ Reaches(s, Tail(q), r, s)
  BY <1>2, ReachesAnyone
<1> QED BY <1>2, <1>3 DEF Leads

LEMMA LeadsMoved ==
  ASSUME NEW v, NEW r, NEW calls, NEW s, Leads(v, <<>>, r, calls, s)
  PROVE  Leads(v, r, <<>>, calls, s)
BY ReachesMoved DEF Leads

-----------------------------------------------------------------------------
(* The inductive invariant: Inv in any case, Informed with one setter.      *)

\* What the state says of the parts that the messages pass through.
Shape ==
  /\ clients \subseteq Clients
  /\ conn \in [Clients -> {"new", "open", "frozen", "vanished", "closed"}]
  /\ DOMAIN handler = Clients /\ handler = [c \in Clients |-> handler[c]]
  /\ cast = [t \in Tasks |-> cast[t]]
  /\ setter = [t \in Setters |-> setter[t]]
  /\ inbox = [c \in Clients |-> inbox[c]]
  /\ told = [c \in Clients |-> told[c]]
  /\ state \in AllStates
  /\ \A t \in Tasks : cast[t] = None \/ cast[t] = [message |-> cast[t].message,
                                                  todo |-> cast[t].todo,
                                                  dead |-> cast[t].dead]
  /\ Queue(batch) /\ Queue(events) /\ \A c \in Clients : Queue(inbox[c])

\* Who is served is among the clients, and stays there: only a closed connection
\* is discarded, and none is opened again.
Served ==
  /\ \A c \in Clients : conn[c] = "new" => handler[c] = "off"
  /\ \A c \in clients : conn[c] # "new"
  /\ \A c \in Clients : Open(c) /\ handler[c] \in {"greet", "serve", "force"} => c \in clients
  /\ \A t \in Tasks : cast[t] # None
       => /\ \A c \in cast[t].todo : c \in Clients /\ conn[c] # "new"
          /\ \A c \in cast[t].dead : c \in Clients /\ conn[c] = "closed"
  /\ \A c \in Clients : cast[c] # None => handler[c] = "force" /\ cast[c].message.kind = "frame"
  /\ loop # "events" => batch = <<>>

Inv == Shape /\ Served

\* What c, who knows v, knows once the broadcast k has come to it.
OnItsWay(k, c, v) == IF k # None /\ c \in k.todo THEN Hear(v, k.message) ELSE v

Follows(c) ==
  \E v : /\ Tells(told[c], inbox[c], v)
         /\ Leads(OnItsWay(cast["loop"], c, v), batch, events, setter, state)

\* A page that is served follows the state; so does one that is told the present
\* state now, before or after the broadcast under way.
Informed ==
  /\ \A t \in Setters : setter[t] \notin {None, "set"} => setter[t] = state
  /\ Leads(state, batch, events, setter, state)
  /\ cast["loop"] # None
       => Leads(Hear(state, cast["loop"].message), batch, events, setter, state)
  /\ \A c \in Clients : Open(c) /\ handler[c] \in {"serve", "force"} => Follows(c)
-----------------------------------------------------------------------------
(* The threads.                                                             *)

LEMMA SameKeeps ==
  ASSUME Inv, UNCHANGED <<clients, conn, handler, loop, batch, cast, events, state, setter,
                          inbox, told>>
  PROVE  Inv' /\ (Informed => Informed')
BY DEF Inv, Shape, Served, Informed, Follows, Open

LEMMA SetStateKeeps ==
  ASSUME Inv, NEW t \in Setters, SetState(t)
  PROVE  Inv' /\ (OneSetter /\ Informed => Informed')
<1>1. /\ UNCHANGED <<clients, conn, handler, loop, batch, cast, events, inbox, told>>
      /\ setter' = [setter EXCEPT ![t] = "set"] /\ state' \in States
  BY DEF SetState, serverVars, pageVars
<1>2. setter'[t] = "set" /\ "set" # None
  BY <1>1, StatesAssumption DEF Inv, Shape
<1>3. \E s \in Setters : setter'[s] # None
  BY <1>2
<1>4. Shape'
  BY <1>1 DEF Inv, Shape, AllStates
<1>5. Served'
  BY <1>1 DEF Inv, Served, Open
<1>6. \A v, w, d : Leads(v, batch, events, setter, d) => Leads(w, batch', events', setter', state')
  BY <1>1, <1>3, LeadsAnyone
<1>7. ASSUME OneSetter, Informed
      PROVE  Informed'
  <2>1. \A s \in Setters : setter'[s] = "set"
    BY <1>2, <1>7 DEF OneSetter
  <2>2. Leads(state', batch', events', setter', state')
    BY <1>6, <1>7 DEF Informed
  <2>3. Leads(Hear(state', cast'["loop"].message), batch', events', setter', state')
    BY <1>6, <1>7 DEF Informed
  <2>4. \A c \in Clients : Follows(c) => Follows(c)'
    BY <1>1, <1>6 DEF Follows
  <2> QED BY <1>1, <2>1, <2>2, <2>3, <2>4, <1>7 DEF Informed, Open
<1> QED BY <1>4, <1>5, <1>7 DEF Inv

LEMMA ReadStateKeeps ==
  ASSUME Inv, NEW t \in Setters, ReadState(t)
  PROVE  Inv' /\ (OneSetter /\ Informed => Informed')
<1>1. /\ UNCHANGED <<clients, conn, handler, loop, batch, cast, events, state, inbox, told>>
      /\ setter' = [setter EXCEPT ![t] = state]
  BY DEF ReadState, serverVars, pageVars
<1>2. setter'[t] = state /\ state # None
  BY <1>1, StatesAssumption DEF Inv, Shape, AllStates
<1>3. \E s \in Setters : setter'[s] # None
  BY <1>2
<1>4. Shape'
  BY <1>1 DEF Inv, Shape
<1>5. Served'
  BY <1>1 DEF Inv, Served, Open
<1>6. \A v, w, d : Leads(v, batch, events, setter, d) => Leads(w, batch', events', setter', state')
  BY <1>1, <1>3, LeadsAnyone
<1>7. ASSUME OneSetter, Informed
      PROVE  Informed'
  <2>1. \A s \in Setters : setter'[s] = state'
    BY <1>1, <1>2, <1>7 DEF OneSetter
  <2>2. Leads(state', batch', events', setter', state')
    BY <1>6, <1>7 DEF Informed
  <2>3. Leads(Hear(state', cast'["loop"].message), batch', events', setter', state')
    BY <1>6, <1>7 DEF Informed
  <2>4. \A c \in Clients : Follows(c) => Follows(c)'
    BY <1>1, <1>6 DEF Follows
  <2> QED BY <1>1, <2>1, <2>2, <2>3, <2>4, <1>7 DEF Informed, Open
<1> QED BY <1>4, <1>5, <1>7 DEF Inv

LEMMA QueueStateKeeps ==
  ASSUME Inv, NEW t \in Setters, QueueState(t)
  PROVE  Inv' /\ (OneSetter /\ Informed => Informed')
<1> DEFINE m == StateEvent(setter[t])
<1>1. /\ UNCHANGED <<clients, conn, handler, loop, batch, cast, state, inbox, told>>
      /\ setter' = [setter EXCEPT ![t] = None] /\ events' = Append(events, m)
      /\ setter[t] \in States /\ m.kind = "state" /\ m.state = setter[t]
  BY DEF QueueState, serverVars, pageVars, StateEvent
<1>2. Queue(events) /\ Queue(events')
  BY <1>1, QueueAppend DEF Inv, Shape
<1> HIDE DEF m
<1>3. Shape'
  BY <1>1, <1>2 DEF Inv, Shape
<1>4. Served'
  BY <1>1 DEF Inv, Served, Open
<1>5. ASSUME OneSetter, Informed
      PROVE  Informed'
  <2>1. m.state = state
    BY <1>1, <1>5, StatesAssumption DEF Informed
  <2>2. \A v, d : Leads(v, batch, events, setter, d) => Leads(v, batch', events', setter', state')
    BY <1>1, <1>2, <2>1, LeadsSaid
  <2>3. \A s \in Setters : setter'[s] = None
    BY <1>1, <1>5 DEF OneSetter, Inv, Shape
  <2>4. \A c \in Clients : Follows(c) => Follows(c)'
    BY <1>1, <2>2 DEF Follows
  <2> QED BY <1>1, <1>5, <2>2, <2>3, <2>4 DEF Informed, Open
<1> QED BY <1>3, <1>4, <1>5 DEF Inv
-----------------------------------------------------------------------------
(* The broadcasts.                                                          *)

\* An action that leaves alone what the loop has yet to broadcast, but for a line
\* in the log, leads where it did.
LEMMA StillLeads ==
  ASSUME Inv, UNCHANGED <<batch, setter, state>>,
         events' = events \/ events' = Append(events, LogEvent)
  PROVE  /\ Queue(batch') /\ Queue(events')
         /\ \A v : Leads(v, batch, events, setter, state)
                  => Leads(v, batch', events', setter', state')
<1>1. Queue(events) /\ Queue(batch) /\ LogEvent.kind # "state"
  BY DEF Inv, Shape, LogEvent
<1>2. Queue(events')
  <2>1. CASE events' = events
    BY <1>1, <2>1
  <2>2. CASE events' = Append(events, LogEvent)
    BY <1>1, <2>2, QueueAppend
  <2> QED BY <2>1, <2>2
<1> QED BY <1>1, <1>2, LeadsMore

LEMMA CastUpdated ==
  ASSUME NEW m, NEW a, NEW b, NEW x
  PROVE  /\ [[message |-> m, todo |-> a, dead |-> b] EXCEPT !.todo = x]
             = [message |-> m, todo |-> x, dead |-> b]
         /\ [[message |-> m, todo |-> a, dead |-> b] EXCEPT !.dead = x]
             = [message |-> m, todo |-> a, dead |-> x]
OBVIOUS

\* The end of a step of a broadcast, for the loop and for a handler.
LEMMA GoOnKeeps ==
  ASSUME Inv, NoneIsNoCast, NEW t \in Tasks, NEW c \in Clients, cast[t] # None, c \in cast[t].todo,
         NEW dead, dead \subseteq {d \in Clients : conn[d] = "closed"} \cup cast[t].dead,
         GoOn(t, cast[t].todo \ {c}, dead), UNCHANGED <<conn, loop, batch>>
  PROVE  /\ Served' /\ clients' \subseteq Clients
         /\ handler' = [d \in Clients |-> handler'[d]]
         /\ cast' = [s \in Tasks |-> cast'[s]]
         /\ \A s \in Tasks : cast'[s] = None \/ cast'[s] = [message |-> cast'[s].message,
                                                        todo |-> cast'[s].todo,
                                                        dead |-> cast'[s].dead]
         /\ \A s \in Tasks : s # t => cast'[s] = cast[s]
         /\ cast'[t] # None => /\ cast'[t].message = cast[t].message
                              /\ cast'[t].todo = cast[t].todo \ {c}
         /\ cast'[t] = None => cast[t].todo = {c}
         /\ \A d \in Clients : Open(d) /\ handler'[d] \in {"serve", "force"}
                              => handler[d] \in {"serve", "force"}
<1> DEFINE todo == cast[t].todo \ {c}
<1>1. /\ cast[t] = [message |-> cast[t].message, todo |-> cast[t].todo, dead |-> cast[t].dead]
      /\ cast = [s \in Tasks |-> cast[s]] /\ handler = [d \in Clients |-> handler[d]]
  BY DEF Inv, Shape
<1>2. \A d \in dead : d \in Clients /\ conn[d] = "closed"
  BY DEF Inv, Served
<1>3. t \in Clients => handler[t] = "force" /\ cast[t].message.kind = "frame"
  BY DEF Inv, Served
<1>4. CASE todo = {}
  <2>1. /\ clients' = clients \ dead /\ cast' = [cast EXCEPT ![t] = None]
        /\ handler' = [d \in Clients |-> IF d = t THEN "serve" ELSE handler[d]]
    BY <1>4 DEF GoOn
  <2>2. Served'
    <3>1. cast'[t] = None /\ \A s \in Tasks : s # t => cast'[s] = cast[s]
      BY <1>1, <2>1
    <3>2. \A d \in Clients : /\ d # t => handler'[d] = handler[d]
                            /\ d = t => handler'[d] = "serve" /\ handler[d] = "force"
      BY <1>3, <2>1
    <3>3. ASSUME NEW d \in Clients
          PROVE  /\ conn[d] = "new" => handler'[d] = "off"
                 /\ Open(d) /\ handler'[d] \in {"greet", "serve", "force"} => d \in clients'
                 /\ cast'[d] # None
                      => handler'[d] = "force" /\ cast'[d].message.kind = "frame"
      <4>1. /\ conn[d] = "new" => handler[d] = "off"
            /\ Open(d) /\ handler[d] \in {"greet", "serve", "force"} => d \in clients
            /\ cast[d] # None => handler[d] = "force" /\ cast[d].message.kind = "frame"
            /\ d \in Tasks /\ (Open(d) => d \notin dead)
        BY <1>2 DEF Inv, Served, Tasks, Open
      <4>2. CASE d = t
        BY <2>1, <3>1, <3>2, <4>1, <4>2
      <4>3. CASE d # t
        BY <2>1, <3>1, <3>2, <4>1, <4>3
      <4> QED BY <4>2, <4>3
    <3>6. \A s \in Tasks : cast'[s] # None
            => /\ \A d \in cast'[s].todo : d \in Clients /\ conn[d] # "new"
               /\ \A d \in cast'[s].dead : d \in Clients /\ conn[d] = "closed"
      BY <3>1 DEF Inv, Served
    <3> QED BY <2>1, <3>3, <3>6 DEF Inv, Served, Open
  <2> QED BY <1>1, <1>3, <1>4, <2>1, <2>2 DEF Inv, Shape
<1>5. CASE todo # {}
  <2> DEFINE k == [message |-> cast[t].message, todo |-> todo, dead |-> dead]
  <2>1. /\ UNCHANGED <<clients, handler>>
        /\ cast' = [cast EXCEPT ![t].todo = todo, ![t].dead = dead]
    BY <1>5 DEF GoOn
  <2>2. cast' = [s \in Tasks |-> IF s = t THEN k ELSE cast[s]]
    <3> DEFINE j == [cast EXCEPT ![t].todo = todo]
               i == [message |-> cast[t].message, todo |-> todo, dead |-> cast[t].dead]
    <3>1. [cast[t] EXCEPT !.todo = todo] = i /\ [i EXCEPT !.dead = dead] = k
      <4> DEFINE m == cast[t].message
                 a == cast[t].todo
                 b == cast[t].dead
      <4>1. cast[t] = [message |-> m, todo |-> a, dead |-> b]
        BY <1>1
      <4>2. i = [message |-> m, todo |-> todo, dead |-> b]
        OBVIOUS
      <4>3. k = [message |-> m, todo |-> todo, dead |-> dead]
        OBVIOUS
      <4> HIDE DEF i, k, m, a, b, todo
      <4> QED BY <4>1, <4>2, <4>3, CastUpdated
    <3>2. j = [s \in Tasks |-> IF s = t THEN i ELSE cast[s]]
      <4> HIDE DEF i, todo
      <4> QED BY <1>1, <3>1
    <3>3. cast' = [j EXCEPT ![t].dead = dead]
      BY <2>1
    <3> HIDE DEF i, j, k
    <3> QED BY <3>1, <3>2, <3>3
  <2>3. /\ k.message = cast[t].message /\ k.todo = todo /\ k.dead = dead
        /\ k = [message |-> k.message, todo |-> k.todo, dead |-> k.dead]
    OBVIOUS
  <2> HIDE DEF k
  <2>4. /\ cast'[t] = k /\ \A s \in Tasks : s # t => cast'[s] = cast[s]
        /\ cast' = [s \in Tasks |-> cast'[s]]
    BY <2>2
  <2>5. Served'
    <3>1. \A s \in Tasks : cast'[s] # None
          => /\ \A d \in cast'[s].todo : d \in Clients /\ conn[d] # "new"
             /\ \A d \in cast'[s].dead : d \in Clients /\ conn[d] = "closed"
      BY <1>2, <2>3, <2>4 DEF Inv, Served
    <3>2. \A s \in Clients : cast'[s] # None
                           => handler[s] = "force" /\ cast'[s].message.kind = "frame"
      BY <1>3, <2>3, <2>4 DEF Inv, Served, Tasks
    <3> QED BY <2>1, <3>1, <3>2 DEF Inv, Served, Open
  <2>6. clients' \subseteq Clients /\ handler' = [d \in Clients |-> handler'[d]]
    BY <1>1, <2>1 DEF Inv, Shape
  <2>7. \A s \in Tasks : cast'[s] = None \/ cast'[s] = [message |-> cast'[s].message,
                                                      todo |-> cast'[s].todo,
                                                      dead |-> cast'[s].dead]
    BY <2>3, <2>4 DEF Inv, Shape
  <2>8. cast'[t] = None => cast[t].todo = {c}
    BY <2>4 DEF k, NoneIsNoCast
  <2> QED BY <2>1, <2>3, <2>4, <2>5, <2>6, <2>7, <2>8
<1> QED BY <1>4, <1>5

\* What a step does to the queue of one page.
LEMMA InboxShape ==
  ASSUME Inv, \/ inbox' = inbox
              \/ \E c \in Clients : \E m : inbox' = [inbox EXCEPT ![c] = Append(@, m)]
              \/ \E c \in Clients : inbox[c] # <<>> /\ inbox' = [inbox EXCEPT ![c] = Tail(@)]
              \/ \E c \in Clients : inbox' = [inbox EXCEPT ![c] = <<>>]
  PROVE  inbox' = [c \in Clients |-> inbox'[c]] /\ \A c \in Clients : Queue(inbox'[c])
<1>1. inbox = [c \in Clients |-> inbox[c]] /\ \A c \in Clients : Queue(inbox[c])
  BY DEF Inv, Shape
<1>2. CASE inbox' = inbox
  BY <1>1, <1>2
<1>3. ASSUME NEW c \in Clients, NEW q, Queue(q), inbox' = [inbox EXCEPT ![c] = q]
      PROVE  inbox' = [d \in Clients |-> inbox'[d]] /\ \A d \in Clients : Queue(inbox'[d])
  BY <1>1, <1>3
<1>4. ASSUME NEW c \in Clients, NEW m, inbox' = [inbox EXCEPT ![c] = Append(@, m)]
      PROVE  inbox' = [d \in Clients |-> inbox'[d]] /\ \A d \in Clients : Queue(inbox'[d])
  <2> DEFINE q == Append(inbox[c], m)
  <2>1. Queue(q) /\ inbox' = [inbox EXCEPT ![c] = q]
    BY <1>1, <1>4, QueueAppend
  <2> HIDE DEF q
  <2> QED BY <1>3, <2>1
<1>5. ASSUME NEW c \in Clients, inbox[c] # <<>>, inbox' = [inbox EXCEPT ![c] = Tail(@)]
      PROVE  inbox' = [d \in Clients |-> inbox'[d]] /\ \A d \in Clients : Queue(inbox'[d])
  <2> DEFINE q == Tail(inbox[c])
  <2>1. Queue(q) /\ inbox' = [inbox EXCEPT ![c] = q]
    BY <1>1, <1>5, QueueTail
  <2> HIDE DEF q
  <2> QED BY <1>3, <2>1
<1>6. CASE \E c \in Clients : inbox' = [inbox EXCEPT ![c] = <<>>]
  BY <1>3, <1>6, EmptyQueue
<1> QED BY <1>2, <1>4, <1>5, <1>6

LEMMA SendNextKeeps ==
  ASSUME Inv, NoneIsNoCast, NEW t \in Tasks, NEW c \in Clients, SendNext(t, c)
  PROVE  Inv' /\ (Informed => Informed')
<1> DEFINE m == cast[t].message
           todo == cast[t].todo \ {c}
<1>1. /\ UNCHANGED <<loop, batch, events, state, setter, told, conn>>
      /\ cast[t] # None /\ c \in cast[t].todo
  BY DEF SendNext, stateVars, pageVars
<1>2. PICK dead : /\ dead \subseteq {d \in Clients : conn[d] = "closed"} \cup cast[t].dead
                  /\ GoOn(t, todo, dead)
                  /\ \/ inbox' = [inbox EXCEPT ![c] = Append(@, m)]
                     \/ ~Open(c) /\ inbox' = inbox
  <2>1. CASE Open(c) /\ inbox' = [inbox EXCEPT ![c] = Append(@, m)] /\ GoOn(t, todo, cast[t].dead)
    BY <2>1
  <2>2. CASE ~Open(c) /\ inbox' = inbox /\ GoOn(t, todo, cast[t].dead \cup {c})
    <3>1. conn[c] = "closed"
      BY <1>1, <2>2 DEF Inv, Shape, Served, Open
    <3>2. cast[t].dead \cup {c} \subseteq {d \in Clients : conn[d] = "closed"} \cup cast[t].dead
      BY <3>1
    <3> QED BY <2>2, <3>2
  <2> QED BY <2>1, <2>2 DEF SendNext, Put
<1>3. /\ Served' /\ clients' \subseteq Clients
      /\ handler' = [d \in Clients |-> handler'[d]]
      /\ cast' = [s \in Tasks |-> cast'[s]]
      /\ \A s \in Tasks : cast'[s] = None \/ cast'[s] = [message |-> cast'[s].message,
                                                     todo |-> cast'[s].todo,
                                                     dead |-> cast'[s].dead]
      /\ \A s \in Tasks : s # t => cast'[s] = cast[s]
      /\ cast'[t] # None => cast'[t].message = m /\ cast'[t].todo = todo
      /\ cast'[t] = None => cast[t].todo = {c}
      /\ \A d \in Clients : Open(d) /\ handler'[d] \in {"serve", "force"}
                           => handler[d] \in {"serve", "force"}
  BY <1>1, <1>2, GoOnKeeps
<1>4. inbox' = [d \in Clients |-> inbox'[d]] /\ \A d \in Clients : Queue(inbox'[d])
  BY <1>2, InboxShape
<1>5. Shape'
  BY <1>1, <1>3, <1>4 DEF Inv, Shape
<1>6. ASSUME NEW d \in Clients, Open(d), Follows(d)
      PROVE  Follows(d)'
  <2>1. PICK v : /\ Tells(told[d], inbox[d], v)
                 /\ Leads(OnItsWay(cast["loop"], d, v), batch, events, setter, state)
    BY <1>6 DEF Follows
  <2>2. Queue(inbox[d]) /\ inbox = [e \in Clients |-> inbox[e]]
    BY DEF Inv, Shape
  <2>3. CASE d = c
    <3>1. inbox'[d] = Append(inbox[d], m)
      BY <1>2, <1>6, <2>2, <2>3 DEF Open
    <3>2. Tells(told[d], inbox'[d], Hear(v, m))
      BY <2>1, <2>2, <3>1, TellsMore
    <3>3. CASE t = "loop"
      <4>1. OnItsWay(cast["loop"], d, v) = Hear(v, m)
        BY <1>1, <2>3, <3>3 DEF OnItsWay
      <4>2. OnItsWay(cast'["loop"], d, Hear(v, m)) = Hear(v, m)
        BY <1>3, <2>3, <3>3 DEF OnItsWay
      <4> QED BY <1>1, <2>1, <3>2, <4>1, <4>2 DEF Follows
    <3>4. CASE t # "loop"
      <4>1. Hear(v, m) = v
        BY <1>1, <3>4 DEF Hear, Inv, Served, Tasks
      <4>2. cast'["loop"] = cast["loop"]
        BY <1>3, <3>4 DEF Tasks
      <4> QED BY <1>1, <2>1, <3>2, <4>1, <4>2 DEF Follows
    <3> QED BY <3>3, <3>4
  <2>4. CASE d # c
    <3>1. inbox'[d] = inbox[d]
      BY <1>2, <2>2, <2>4
    <3>2. OnItsWay(cast'["loop"], d, v) = OnItsWay(cast["loop"], d, v)
      <4>1. CASE t = "loop"
        BY <1>1, <1>3, <2>4, <4>1 DEF OnItsWay
      <4>2. CASE t # "loop"
        BY <1>3, <4>2 DEF Tasks
      <4> QED BY <4>1, <4>2
    <3> QED BY <1>1, <2>1, <3>1, <3>2 DEF Follows
  <2> QED BY <2>3, <2>4
<1>7. ASSUME Informed, cast'["loop"] # None
      PROVE  Leads(Hear(state', cast'["loop"].message), batch', events', setter', state')
  <2>1. cast["loop"] # None /\ cast'["loop"].message = cast["loop"].message
    BY <1>1, <1>3, <1>7 DEF Tasks
  <2> QED BY <1>1, <1>7, <2>1 DEF Informed
<1>8. ASSUME Informed PROVE Informed'
  BY <1>1, <1>3, <1>6, <1>7, <1>8 DEF Informed, Open
<1> QED BY <1>3, <1>5, <1>8 DEF Inv
-----------------------------------------------------------------------------
(* _broadcast_loop.                                                         *)

LEMMA CastOf ==
  ASSUME NoneIsNoCast, NEW m
  PROVE  \/ clients = {} /\ Cast(m) = None
         \/ /\ Cast(m) # None /\ Cast(m).message = m
            /\ Cast(m).todo = clients /\ Cast(m).dead = {}
            /\ Cast(m) = [message |-> Cast(m).message, todo |-> Cast(m).todo,
                          dead |-> Cast(m).dead]
BY DEF Cast, NoneIsNoCast

\* The loop begins a broadcast.
LEMMA CastKeeps ==
  ASSUME Inv, NoneIsNoCast, NEW t \in Tasks, NEW m, cast[t] = None,
         cast' = [cast EXCEPT ![t] = Cast(m)]
  PROVE  /\ cast' = [s \in Tasks |-> cast'[s]] /\ cast'[t] = Cast(m)
         /\ \A s \in Tasks : s # t => cast'[s] = cast[s]
         /\ \A s \in Tasks : cast'[s] = None \/ cast'[s] = [message |-> cast'[s].message,
                                                        todo |-> cast'[s].todo,
                                                        dead |-> cast'[s].dead]
         /\ \A s \in Tasks : cast'[s] # None
              => /\ \A c \in cast'[s].todo : c \in Clients /\ conn[c] # "new"
                 /\ \A c \in cast'[s].dead : c \in Clients /\ conn[c] = "closed"
<1>1. /\ cast = [s \in Tasks |-> cast[s]]
      /\ \A c \in clients : c \in Clients /\ conn[c] # "new"
  BY DEF Inv, Shape, Served
<1>2. cast' = [s \in Tasks |-> cast'[s]] /\ cast'[t] = Cast(m)
      /\ \A s \in Tasks : s # t => cast'[s] = cast[s]
  BY <1>1
<1>3. ASSUME NEW s \in Tasks
      PROVE  /\ cast'[s] = None \/ cast'[s] = [message |-> cast'[s].message,
                                               todo |-> cast'[s].todo, dead |-> cast'[s].dead]
             /\ cast'[s] # None
                  => /\ \A c \in cast'[s].todo : c \in Clients /\ conn[c] # "new"
                     /\ \A c \in cast'[s].dead : c \in Clients /\ conn[c] = "closed"
  <2>1. CASE s = t
    BY <1>1, <1>2, <2>1, CastOf
  <2>2. CASE s # t
    BY <1>2, <2>2 DEF Inv, Shape, Served
  <2> QED BY <2>1, <2>2
<1> QED BY <1>2, <1>3

\* What the loop broadcasts next changes nothing for who has it coming: here,
\* because it says nothing of the state.
LEMMA WakeKeeps ==
  ASSUME Inv, NoneIsNoCast, Wake
  PROVE  Inv' /\ (Informed => Informed')
<1>1. /\ UNCHANGED <<clients, handler, conn, inbox, events, state, setter, told, batch>>
      /\ loop = "sleep" /\ batch = <<>> /\ cast["loop"] = None
  BY DEF Wake, LoopFrame, stateVars, pageVars, Inv, Served
<1>2. CASE cast' = cast
  <2>1. Shape' /\ Served'
    BY <1>1, <1>2 DEF Inv, Shape, Served, Open
  <2>2. ASSUME Informed PROVE Informed'
    BY <1>1, <1>2, <2>2 DEF Informed, Open, Follows
  <2> QED BY <2>1, <2>2 DEF Inv
<1>3. CASE cast' = [cast EXCEPT !["loop"] = Cast(Frame(Update))]
  <2> DEFINE m == Frame(Update)
  <2>1. m.kind # "state"
    BY DEF Frame
  <2>2. "loop" \in Tasks /\ cast' = [cast EXCEPT !["loop"] = Cast(m)]
    BY <1>3 DEF Tasks
  <2> HIDE DEF m
  <2>3. /\ cast' = [s \in Tasks |-> cast'[s]] /\ cast'["loop"] = Cast(m)
        /\ \A s \in Tasks : s # "loop" => cast'[s] = cast[s]
        /\ \A s \in Tasks : cast'[s] = None \/ cast'[s] = [message |-> cast'[s].message,
                                                       todo |-> cast'[s].todo,
                                                       dead |-> cast'[s].dead]
        /\ \A s \in Tasks : cast'[s] # None
             => /\ \A c \in cast'[s].todo : c \in Clients /\ conn[c] # "new"
                /\ \A c \in cast'[s].dead : c \in Clients /\ conn[c] = "closed"
    BY <1>1, <2>2, CastKeeps
  <2>4. Shape'
    BY <1>1, <2>3 DEF Inv, Shape
  <2>5. Served'
    BY <1>1, <2>3, ClientsAssumption DEF Inv, Served, Open, Tasks
  <2>6. \A v : Hear(v, Cast(m).message) = v \/ Cast(m) = None
    BY <2>1, CastOf DEF Hear
  <2>7. \A c, v : OnItsWay(cast'["loop"], c, v) = v /\ OnItsWay(cast["loop"], c, v) = v
    BY <1>1, <2>3, <2>6 DEF OnItsWay
  <2>8. \A c \in Clients : Follows(c) => Follows(c)'
    BY <1>1, <2>7 DEF Follows
  <2>9. ASSUME Informed, cast'["loop"] # None
        PROVE  Leads(Hear(state', cast'["loop"].message), batch', events', setter', state')
    BY <1>1, <2>3, <2>6, <2>9 DEF Informed
  <2>10. ASSUME Informed PROVE Informed'
    BY <1>1, <2>8, <2>9, <2>10 DEF Informed, Open
  <2> QED BY <2>4, <2>5, <2>10 DEF Inv
<1> QED BY <1>2, <1>3 DEF Wake

LEMMA DrainKeeps ==
  ASSUME Inv, Drain
  PROVE  Inv' /\ (Informed => Informed')
<1>1. /\ UNCHANGED <<clients, handler, conn, cast, inbox, state, setter, told>>
      /\ cast["loop"] = None /\ batch = <<>> /\ batch' = events /\ events' = <<>>
      /\ loop' = IF events = <<>> THEN "sleep" ELSE "events"
  BY DEF Drain, pageVars, Inv, Served
<1>2. Shape'
  BY <1>1, EmptyQueue DEF Inv, Shape
<1>3. Served'
  BY <1>1 DEF Inv, Served, Open
<1>4. \A v : Leads(v, batch, events, setter, state) => Leads(v, batch', events', setter', state')
  BY <1>1, LeadsMoved
<1>5. \A c \in Clients : Follows(c) => Follows(c)'
  BY <1>1, <1>4 DEF Follows
<1>6. ASSUME Informed PROVE Informed'
  BY <1>1, <1>4, <1>5, <1>6 DEF Informed, Open
<1> QED BY <1>2, <1>3, <1>6 DEF Inv

LEMMA NextEventKeeps ==
  ASSUME Inv, NoneIsNoCast, NextEvent
  PROVE  Inv' /\ (Informed => Informed')
<1>1. /\ UNCHANGED <<clients, handler, conn, inbox, events, state, setter, told>>
      /\ loop = "events" /\ cast["loop"] = None
  BY DEF NextEvent, LoopFrame, stateVars, pageVars
<1>2. CASE batch = <<>> /\ loop' = "sleep" /\ UNCHANGED <<batch, cast>>
  <2>1. Shape' /\ Served'
    BY <1>1, <1>2 DEF Inv, Shape, Served, Open
  <2>2. ASSUME Informed PROVE Informed'
    BY <1>1, <1>2, <2>2 DEF Informed, Open, Follows
  <2> QED BY <2>1, <2>2 DEF Inv
<1>3. CASE /\ batch # <<>> /\ batch' = Tail(batch) /\ UNCHANGED loop
           /\ cast' = [cast EXCEPT !["loop"] = Cast(Head(batch))]
  <2> DEFINE m == Head(batch)
  <2>1. Queue(batch) /\ Queue(batch')
    BY <1>3, QueueTail DEF Inv, Shape
  <2>2. "loop" \in Tasks /\ cast' = [cast EXCEPT !["loop"] = Cast(m)]
    BY <1>3 DEF Tasks
  <2>3. /\ cast' = [s \in Tasks |-> cast'[s]] /\ cast'["loop"] = Cast(m)
        /\ \A s \in Tasks : s # "loop" => cast'[s] = cast[s]
        /\ \A s \in Tasks : cast'[s] = None \/ cast'[s] = [message |-> cast'[s].message,
                                                       todo |-> cast'[s].todo,
                                                       dead |-> cast'[s].dead]
        /\ \A s \in Tasks : cast'[s] # None
             => /\ \A c \in cast'[s].todo : c \in Clients /\ conn[c] # "new"
                /\ \A c \in cast'[s].dead : c \in Clients /\ conn[c] = "closed"
    BY <1>1, <2>2, CastKeeps
  <2>4. Shape'
    BY <1>1, <2>1, <2>3 DEF Inv, Shape
  <2>5. Served'
    BY <1>1, <1>3, <2>3, ClientsAssumption DEF Inv, Served, Open, Tasks
  <2>6. \A v : Leads(v, batch, events, setter, state)
              => Leads(Hear(v, m), batch', events', setter', state')
    BY <1>1, <1>3, <2>1, LeadsRest
  <2>7. ASSUME Informed PROVE Informed'
    <3>1. Leads(state', batch', events', setter', state')
      BY <1>1, <1>3, <2>1, <2>7, LeadsLate DEF Informed
    <3>2. cast'["loop"] # None
            => Leads(Hear(state', cast'["loop"].message), batch', events', setter', state')
      BY <1>1, <2>3, <2>6, <2>7, CastOf DEF Informed
    <3>3. ASSUME NEW c \in Clients, Open(c), handler[c] \in {"serve", "force"}
          PROVE  Follows(c)'
      <4>1. PICK v : Tells(told[c], inbox[c], v) /\ Leads(v, batch, events, setter, state)
        BY <1>1, <2>7, <3>3 DEF Informed, Follows, OnItsWay
      <4>2. c \in clients
        BY <3>3 DEF Inv, Served, Open
      <4>3. OnItsWay(cast'["loop"], c, v) = Hear(v, m)
        BY <2>3, <4>2, CastOf DEF OnItsWay
      <4> QED BY <1>1, <2>6, <4>1, <4>3 DEF Follows
    <3> QED BY <1>1, <1>3, <2>7, <3>1, <3>2, <3>3 DEF Informed, Open
  <2> QED BY <2>4, <2>5, <2>7 DEF Inv
<1> QED BY <1>2, <1>3 DEF NextEvent
-----------------------------------------------------------------------------
(* _ws_handler.                                                             *)

\* An action of the handler of c that tells the page nothing of the state.
LEMMA HandlerKeeps ==
  ASSUME Inv, Informed, NEW c \in Clients, UNCHANGED <<loop, batch, setter, state, told>>,
         cast'["loop"] = cast["loop"],
         events' = events \/ events' = Append(events, LogEvent),
         \/ inbox' = inbox
         \/ \E u : inbox' = [inbox EXCEPT ![c] = Append(@, Frame(u))],
         \A d \in Clients : Open(d)' /\ handler'[d] \in {"serve", "force"}
                           => Open(d) /\ handler[d] \in {"serve", "force"}
  PROVE  Informed'
<1>1. \A v : Leads(v, batch, events, setter, state) => Leads(v, batch', events', setter', state')
  BY StillLeads
<1>2. ASSUME NEW d \in Clients, Follows(d) PROVE Follows(d)'
  <2>1. PICK v : /\ Tells(told[d], inbox[d], v)
                 /\ Leads(OnItsWay(cast["loop"], d, v), batch, events, setter, state)
    BY <1>2 DEF Follows
  <2>2. Queue(inbox[d]) /\ inbox = [e \in Clients |-> inbox[e]]
    BY DEF Inv, Shape
  <2>3. Tells(told[d], inbox'[d], v)
    <3>1. CASE inbox'[d] = inbox[d]
      BY <2>1, <3>1
    <3>2. ASSUME NEW u, inbox'[d] = Append(inbox[d], Frame(u)) PROVE Tells(told[d], inbox'[d], v)
      <4>1. Tells(told[d], inbox'[d], Hear(v, Frame(u)))
        BY <2>1, <2>2, <3>2, TellsMore
      <4> QED BY <4>1 DEF Hear, Frame
    <3> QED BY <2>2, <3>1, <3>2
  <2> QED BY <1>1, <2>1, <2>3 DEF Follows
<1> QED BY <1>1, <1>2 DEF Informed

LEMMA ConnectKeeps ==
  ASSUME Inv, NEW c \in Clients, Connect(c)
  PROVE  Inv' /\ (Informed => Informed')
<1>1. /\ UNCHANGED <<loop, batch, cast, state, setter, told>>
      /\ conn[c] = "new" /\ conn' = [conn EXCEPT ![c] = "open"]
      /\ \/ /\ Add(c) /\ inbox' = inbox
         \/ /\ Put(c, Frame(FullSnapshot)) /\ UNCHANGED <<clients, events>>
            /\ handler' = [handler EXCEPT ![c] = "keyframe"]
  BY DEF Connect, pageVars
<1>2. /\ conn'[c] = "open" /\ \A d \in Clients : d # c => conn'[d] = conn[d]
      /\ conn' \in [Clients -> {"new", "open", "frozen", "vanished", "closed"}]
      /\ handler = [d \in Clients |-> handler[d]] /\ clients \subseteq Clients
  BY <1>1 DEF Inv, Shape
<1>3. /\ handler' = [d \in Clients |-> handler'[d]] /\ handler'[c] \in {"greet", "keyframe"}
      /\ \A d \in Clients : d # c => handler'[d] = handler[d]
      /\ clients' \subseteq Clients /\ clients \subseteq clients' /\ clients' \subseteq clients \cup {c}
      /\ handler'[c] = "greet" => c \in clients'
      /\ events' = events \/ events' = Append(events, LogEvent)
      /\ \/ inbox' = inbox
         \/ \E u : inbox' = [inbox EXCEPT ![c] = Append(@, Frame(u))]
  BY <1>1, <1>2 DEF Add, Put
<1>4. cast[c] = None
  BY <1>1 DEF Inv, Served
<1>5. Queue(events') /\ Queue(batch')
  BY <1>1, <1>3, StillLeads
<1>6. inbox' = [d \in Clients |-> inbox'[d]] /\ \A d \in Clients : Queue(inbox'[d])
  BY <1>3, InboxShape
<1>7. Shape'
  BY <1>1, <1>2, <1>3, <1>5, <1>6 DEF Inv, Shape
<1>8. Served'
  BY <1>1, <1>2, <1>3, <1>4 DEF Inv, Served, Open
<1>9. ASSUME Informed PROVE Informed'
  BY <1>9, <1>1, <1>2, <1>3, HandlerKeeps DEF Open
<1> QED BY <1>7, <1>8, <1>9 DEF Inv

LEMMA KeyframeSentKeeps ==
  ASSUME Inv, NEW c \in Clients, KeyframeSent(c)
  PROVE  Inv' /\ (Informed => Informed')
<1>1. /\ UNCHANGED <<loop, batch, cast, state, setter, told, conn, inbox>>
      /\ handler[c] = "keyframe"
      /\ \/ Add(c)
         \/ ~Open(c) /\ handler' = [handler EXCEPT ![c] = "off"] /\ UNCHANGED <<clients, events>>
  BY DEF KeyframeSent, pageVars
<1>2. /\ handler = [d \in Clients |-> handler[d]] /\ clients \subseteq Clients
      /\ conn[c] # "new" /\ cast[c] = None
  BY <1>1 DEF Inv, Shape, Served
<1>3. /\ handler' = [d \in Clients |-> handler'[d]] /\ handler'[c] \in {"greet", "off"}
      /\ \A d \in Clients : d # c => handler'[d] = handler[d]
      /\ clients' \subseteq clients \cup {c} /\ clients \subseteq clients'
      /\ handler'[c] = "greet" => c \in clients'
      /\ events' = events \/ events' = Append(events, LogEvent)
  BY <1>1, <1>2 DEF Add
<1>4. Queue(events') /\ Queue(batch')
  BY <1>1, <1>3, StillLeads
<1>5. Shape'
  BY <1>1, <1>2, <1>3, <1>4 DEF Inv, Shape
<1>6. Served'
  BY <1>1, <1>2, <1>3 DEF Inv, Served, Open
<1>7. ASSUME Informed PROVE Informed'
  BY <1>7, <1>1, <1>3, HandlerKeeps DEF Open
<1> QED BY <1>5, <1>6, <1>7 DEF Inv

\* The greeting is why a page that comes late follows: it tells the state that
\* is, and what is still to be broadcast leads there too.
LEMMA GreetKeeps ==
  ASSUME Inv, NEW c \in Clients, Greet(c)
  PROVE  Inv' /\ (Informed => Informed')
<1> DEFINE m == StateEvent(state)
<1>1. /\ UNCHANGED <<loop, batch, cast, events, state, setter, told, conn, clients>>
      /\ handler[c] = "greet"
  BY DEF Greet, stateVars, pageVars
<1>2. /\ handler = [d \in Clients |-> handler[d]] /\ inbox = [d \in Clients |-> inbox[d]]
      /\ conn[c] # "new" /\ cast[c] = None /\ \A d \in Clients : Queue(inbox[d])
  BY <1>1 DEF Inv, Shape, Served
<1>3. CASE Open(c) /\ handler' = [handler EXCEPT ![c] = "serve"]
           /\ inbox' = [inbox EXCEPT ![c] = Append(@, m)]
  <2>1. /\ handler' = [d \in Clients |-> handler'[d]] /\ handler'[c] = "serve"
        /\ \A d \in Clients : d # c => handler'[d] = handler[d] /\ inbox'[d] = inbox[d]
        /\ inbox'[c] = Append(inbox[c], m) /\ c \in clients
    BY <1>1, <1>2, <1>3 DEF Inv, Served
  <2>2. inbox' = [d \in Clients |-> inbox'[d]] /\ \A d \in Clients : Queue(inbox'[d])
    BY <1>3, InboxShape
  <2>3. Shape'
    BY <1>1, <2>1, <2>2 DEF Inv, Shape
  <2>4. Served'
    BY <1>1, <1>2, <2>1 DEF Inv, Served, Open
  <2>5. \A d \in Clients : d # c /\ Follows(d) => Follows(d)'
    BY <1>1, <2>1 DEF Follows
  <2>6. ASSUME Informed PROVE Follows(c)'
    <3>1. Tells(told[c], inbox'[c], state)
      <4>1. Queue(inbox[c]) /\ m.kind = "state" /\ m.state = state
        BY <1>2 DEF StateEvent
      <4> HIDE DEF m
      <4> QED BY <2>1, <4>1, TellsNow
    <3>2. Leads(OnItsWay(cast["loop"], c, state), batch, events, setter, state)
      BY <2>6 DEF OnItsWay, Informed
    <3> QED BY <1>1, <3>1, <3>2 DEF Follows
  <2>7. ASSUME Informed PROVE Informed'
    BY <1>1, <2>1, <2>5, <2>6, <2>7 DEF Informed, Open
  <2> QED BY <2>3, <2>4, <2>7 DEF Inv
<1>4. CASE ~Open(c) /\ handler' = [handler EXCEPT ![c] = "off"] /\ inbox' = inbox
  <2>1. /\ handler' = [d \in Clients |-> handler'[d]] /\ handler'[c] = "off"
        /\ \A d \in Clients : d # c => handler'[d] = handler[d]
    BY <1>2, <1>4
  <2>2. Shape'
    BY <1>1, <1>4, <2>1 DEF Inv, Shape
  <2>3. Served'
    BY <1>1, <1>2, <2>1 DEF Inv, Served, Open
  <2>4. ASSUME Informed PROVE Informed'
    BY <2>4, <1>1, <1>4, <2>1, HandlerKeeps DEF Open
  <2> QED BY <2>2, <2>3, <2>4 DEF Inv
<1> QED BY <1>3, <1>4 DEF Greet, Put

LEMMA ForceKeeps ==
  ASSUME Inv, NoneIsNoCast, NEW c \in Clients, ForceFullFrame(c)
  PROVE  Inv' /\ (Informed => Informed')
<1> DEFINE m == Frame(FullSnapshot)
<1>1. /\ UNCHANGED <<clients, loop, batch, events, state, setter, told, conn, inbox>>
      /\ handler[c] = "serve" /\ handler' = [handler EXCEPT ![c] = "force"]
      /\ cast' = [cast EXCEPT ![c] = Cast(m)]
  BY DEF ForceFullFrame, stateVars, pageVars
<1>2. /\ handler = [d \in Clients |-> handler[d]] /\ conn[c] # "new" /\ cast[c] = None
      /\ c \in Tasks /\ c # "loop" /\ "loop" \in Tasks
  BY <1>1, ClientsAssumption DEF Inv, Shape, Served, Tasks
<1>3. m.kind = "frame"
  BY DEF Frame
<1> HIDE DEF m
<1>4. /\ cast' = [s \in Tasks |-> cast'[s]] /\ cast'[c] = Cast(m)
      /\ \A s \in Tasks : s # c => cast'[s] = cast[s]
      /\ \A s \in Tasks : cast'[s] = None \/ cast'[s] = [message |-> cast'[s].message,
                                                     todo |-> cast'[s].todo,
                                                     dead |-> cast'[s].dead]
      /\ \A s \in Tasks : cast'[s] # None
           => /\ \A d \in cast'[s].todo : d \in Clients /\ conn[d] # "new"
              /\ \A d \in cast'[s].dead : d \in Clients /\ conn[d] = "closed"
  BY <1>1, <1>2, CastKeeps
<1>5. /\ handler' = [d \in Clients |-> handler'[d]] /\ handler'[c] = "force"
      /\ \A d \in Clients : d # c => handler'[d] = handler[d]
  BY <1>1, <1>2
<1>6. Shape'
  BY <1>1, <1>4, <1>5 DEF Inv, Shape
<1>7. \A d \in Clients : cast'[d] # None => handler'[d] = "force" /\ cast'[d].message.kind = "frame"
  <2>1. cast'[c] # None => cast'[c].message = m
    BY <1>4, CastOf
  <2> QED BY <1>3, <1>4, <1>5, <2>1 DEF Inv, Served, Tasks
<1>8. Served'
  BY <1>1, <1>2, <1>4, <1>5, <1>7 DEF Inv, Served, Open
<1>9. ASSUME Informed PROVE Informed'
  BY <1>9, <1>1, <1>2, <1>4, <1>5, HandlerKeeps DEF Open
<1> QED BY <1>6, <1>8, <1>9 DEF Inv

LEMMA LeaveKeeps ==
  ASSUME Inv, NEW c \in Clients, Leave(c)
  PROVE  Inv' /\ (Informed => Informed')
<1>1. /\ UNCHANGED <<loop, batch, cast, state, setter, told, conn, inbox>>
      /\ handler[c] = "serve" /\ ~Open(c) /\ handler' = [handler EXCEPT ![c] = "off"]
      /\ clients' = clients \ {c} /\ events' = Append(events, LogEvent)
  BY DEF Leave, pageVars
<1>2. handler = [d \in Clients |-> handler[d]] /\ cast[c] = None
  BY <1>1 DEF Inv, Shape, Served
<1>3. /\ handler' = [d \in Clients |-> handler'[d]] /\ handler'[c] = "off"
      /\ \A d \in Clients : d # c => handler'[d] = handler[d]
  BY <1>1, <1>2
<1>4. Queue(events') /\ Queue(batch')
  BY <1>1, StillLeads
<1>5. Shape'
  BY <1>1, <1>3, <1>4 DEF Inv, Shape
<1>6. Served'
  BY <1>1, <1>2, <1>3 DEF Inv, Served, Open
<1>7. ASSUME Informed PROVE Informed'
  BY <1>7, <1>1, <1>3, HandlerKeeps DEF Open
<1> QED BY <1>5, <1>6, <1>7 DEF Inv
-----------------------------------------------------------------------------
(* The page, and its connection.                                            *)

LEMMA ReceiveKeeps ==
  ASSUME Inv, NEW c \in Clients, Receive(c)
  PROVE  Inv' /\ (Informed => Informed')
<1> DEFINE m == Head(inbox[c])
<1>1. /\ UNCHANGED <<clients, handler, conn, loop, batch, cast, events, state, setter>>
      /\ inbox[c] # <<>> /\ inbox' = [inbox EXCEPT ![c] = Tail(@)]
      /\ told' = [told EXCEPT ![c] = Hear(@, m)]
  BY DEF Receive, ServerFrame, serverVars, stateVars, Hear
<1>2. /\ told = [d \in Clients |-> told[d]] /\ inbox = [d \in Clients |-> inbox[d]]
      /\ \A d \in Clients : Queue(inbox[d])
  BY DEF Inv, Shape
<1>3. inbox' = [d \in Clients |-> inbox'[d]] /\ \A d \in Clients : Queue(inbox'[d])
  BY <1>1, InboxShape
<1>4. /\ told' = [d \in Clients |-> told'[d]] /\ told'[c] = Hear(told[c], m)
      /\ inbox'[c] = Tail(inbox[c])
      /\ \A d \in Clients : d # c => told'[d] = told[d] /\ inbox'[d] = inbox[d]
  BY <1>1, <1>2
<1>5. Shape'
  BY <1>1, <1>3, <1>4 DEF Inv, Shape
<1>6. Served'
  BY <1>1 DEF Inv, Served, Open
<1>7. ASSUME NEW d \in Clients, Follows(d) PROVE Follows(d)'
  <2>1. PICK v : /\ Tells(told[d], inbox[d], v)
                 /\ Leads(OnItsWay(cast["loop"], d, v), batch, events, setter, state)
    BY <1>7 DEF Follows
  <2>2. Tells(told'[d], inbox'[d], v)
    <3>1. CASE d = c
      BY <1>1, <1>2, <1>4, <2>1, <3>1, TellsRest
    <3>2. CASE d # c
      BY <1>4, <2>1, <3>2
    <3> QED BY <3>1, <3>2
  <2> QED BY <1>1, <2>1, <2>2 DEF Follows
<1>8. ASSUME Informed PROVE Informed'
  BY <1>1, <1>7, <1>8 DEF Informed, Open
<1> QED BY <1>5, <1>6, <1>8 DEF Inv

LEMMA ConnectionKeeps ==
  ASSUME Inv, NEW c \in Clients, ConnectionStep(c)
  PROVE  Inv' /\ (Informed => Informed')
<1>1. /\ UNCHANGED <<clients, handler, loop, batch, cast, events, state, setter, told>>
      /\ conn[c] \in {"open", "frozen", "vanished"}
      /\ \/ \E s \in {"open", "frozen", "vanished"} :
              inbox' = inbox /\ conn' = [conn EXCEPT ![c] = s]
         \/ inbox' = [inbox EXCEPT ![c] = <<>>] /\ conn' = [conn EXCEPT ![c] = "closed"]
  BY DEF ConnectionStep, Stall, Thaw, Close, PingTimeout, GiveUp, Closed, ServerFrame, serverVars, stateVars, pageVars
<1>2. /\ conn'[c] \in {"open", "frozen", "vanished", "closed"} /\ \A d \in Clients : d # c => conn'[d] = conn[d]
      /\ conn' \in [Clients -> {"new", "open", "frozen", "vanished", "closed"}]
      /\ \A d \in Clients : d # c => inbox'[d] = inbox[d]
  BY <1>1 DEF Inv, Shape
<1>3. inbox' = [d \in Clients |-> inbox'[d]] /\ \A d \in Clients : Queue(inbox'[d])
  BY <1>1, InboxShape
<1>4. Shape'
  BY <1>1, <1>2, <1>3 DEF Inv, Shape
<1>5. Served'
  <2>1. \A d \in Clients : conn[d] # "new" => conn'[d] # "new"
    BY <1>2
  <2>2. \A d \in Clients : conn[d] = "closed" => conn'[d] = "closed"
    BY <1>1, <1>2
  <2>3. \A d \in Clients : conn'[d] = "new" => handler'[d] = "off"
    BY <1>1, <1>2 DEF Inv, Served
  <2>4. \A d \in clients' : conn'[d] # "new"
    BY <1>1, <2>1 DEF Inv, Served, Shape
  <2>5. \A d \in Clients : Open(d)' => Open(d)
    BY <1>1, <1>2 DEF Open
  <2>6. \A t \in Tasks : cast'[t] # None
        => /\ \A d \in cast'[t].todo : d \in Clients /\ conn'[d] # "new"
           /\ \A d \in cast'[t].dead : d \in Clients /\ conn'[d] = "closed"
    BY <1>1, <2>1, <2>2 DEF Inv, Served
  <2> QED BY <1>1, <2>3, <2>4, <2>5, <2>6 DEF Inv, Served
<1>6. \A d \in Clients : d # c /\ Follows(d) => Follows(d)'
  BY <1>1, <1>2 DEF Follows
<1>7. Open(c)' /\ Follows(c) => Follows(c)'
  BY <1>1, <1>2 DEF Follows, Open
<1>8. ASSUME Informed PROVE Informed'
  <2>1. \A d \in Clients : Open(d)' => Open(d)
    BY <1>1, <1>2 DEF Open
  <2> QED BY <1>1, <1>6, <1>7, <1>8, <2>1 DEF Informed
<1> QED BY <1>4, <1>5, <1>8 DEF Inv
-----------------------------------------------------------------------------
LEMMA InitInforms == ASSUME Init PROVE Inv /\ Informed
<1>1. Shape
  BY EmptyQueue DEF Init, Shape, AllStates
<1>2. Served
  BY ClientsAssumption DEF Init, Served, Open, Tasks
<1>3. Leads(state, batch, events, setter, state)
  <2>1. Tells(state, <<>>, state)
    BY TellsNothing
  <2> QED BY <2>1 DEF Init, Leads, Reaches
<1>4. Informed
  BY <1>3 DEF Init, Informed, Tasks
<1> QED BY <1>1, <1>2, <1>4 DEF Inv

LEMMA StepInforms ==
  ASSUME NoneIsNoCast, Inv, [Next]_vars
  PROVE  Inv' /\ (OneSetter /\ Informed => Informed')
<1>1. CASE UNCHANGED vars
  BY <1>1, SameKeeps DEF vars, serverVars, stateVars, pageVars
<1>2. CASE Paint
  BY <1>2, SameKeeps DEF Paint, serverVars, stateVars, pageVars
<1>3. CASE \E t \in Setters : SetState(t) \/ ReadState(t) \/ QueueState(t)
  BY <1>3, SetStateKeeps, ReadStateKeeps, QueueStateKeeps
<1>4. CASE LoopStep
  BY <1>4, WakeKeeps, DrainKeeps, NextEventKeeps DEF LoopStep
<1>5. CASE \E t \in Tasks : CastStep(t)
  BY <1>5, SendNextKeeps DEF CastStep
<1>6. ASSUME NEW c \in Clients, Connect(c) \/ HandlerStep(c) \/ ForceFullFrame(c)
      PROVE  Inv' /\ (Informed => Informed')
  BY <1>6, ConnectKeeps, KeyframeSentKeeps, GreetKeeps, LeaveKeeps, ForceKeeps DEF HandlerStep
<1>7. ASSUME NEW c \in Clients, Draw(c) \/ Reject(c)
      PROVE  Inv' /\ (Informed => Informed')
  BY <1>7, SameKeeps DEF Draw, Reject, ServerFrame, serverVars, stateVars, pageVars
<1>8. ASSUME NEW c \in Clients, Receive(c) \/ ConnectionStep(c)
      PROVE  Inv' /\ (Informed => Informed')
  BY <1>8, ReceiveKeeps, ConnectionKeeps
<1> QED BY <1>1, <1>2, <1>3, <1>4, <1>5, <1>6, <1>7, <1>8 DEF Next

\* With one thread that sets it, every page that is there once nothing is on its
\* way was told the present state of the console: by the greeting or by a broadcast,
\* however they interleave (webserver.py: _ws_handler, _broadcast_loop).
THEOREM EveryoneKnows ==
  ASSUME OneSetter, NoneIsNoCast
  PROVE  Spec => []KnowsState
<1>1. Init => Inv /\ Informed
  BY InitInforms
<1>2. Inv /\ Informed /\ [Next]_vars => Inv' /\ Informed'
  BY StepInforms
<1>3. Inv /\ Informed => KnowsState
  <2> SUFFICES ASSUME Inv, Informed, Settled, NEW c \in Clients, conn[c] = "open" PROVE told[c] = state
    BY DEF KnowsState
  <2>1. /\ handler[c] = "serve" /\ inbox[c] = <<>> /\ batch = <<>> /\ events = <<>>
        /\ cast["loop"] = None /\ \A t \in Setters : setter[t] = None
    BY DEF Settled, Tasks
  <2>2. PICK v : /\ Tells(told[c], <<>>, v)
                 /\ Leads(v, <<>>, <<>>, setter, state)
    BY <2>1 DEF Informed, Follows, OnItsWay, Open
  <2>3. PICK s, d : Tells(v, <<>>, d) /\ Tells(d, <<>>, s) /\ s = state
    BY <2>1, <2>2 DEF Leads, Reaches
  <2> QED BY <2>2, <2>3, TellsNothing
<1> QED BY <1>1, <1>2, <1>3, PTL DEF Spec
-----------------------------------------------------------------------------
(* The frames of a page, in the order they become visible: what it shows,    *)
(* what it decodes, what is in its inbox, and what is being broadcast to it.  *)

\* Where both have a pixel, x has no later version of it than u.
Older(x, u) == \A p \in DOMAIN x.px \cap DOMAIN u.px : x.px[p] <= u.px[p]

\* The version of a pixel that nothing sent so far is later than; those
\* outside of the image may be anything painted until now.
Latest(im, v, p) == IF im # None /\ p \in DOMAIN im.px THEN im.px[p] ELSE v
Painted(x, im, v) == \A p \in DOMAIN x.px : x.px[p] \in Nat /\ x.px[p] <= Latest(im, v, p)

Shown(cv) == {cv} \ {None}
FramesIn(q) == {i \in DOMAIN q : q[i].kind = "frame"}
Arriving(k, c) ==
  IF k # None /\ c \in k.todo /\ k.message.kind = "frame" THEN {k.message.update} ELSE {}

\* Shown S, decoding d, inbox q, broadcast K: nothing is older than what comes before.
Sorted(S, d, q, K) ==
  /\ \A x \in S : /\ \A i \in DOMAIN d : Older(x, d[i])
                  /\ \A i \in FramesIn(q) : Older(x, q[i].update)
                  /\ \A u \in K : Older(x, u)
  /\ \A i \in DOMAIN d : /\ \A j \in DOMAIN d : i < j => Older(d[i], d[j])
                         /\ \A j \in FramesIn(q) : Older(d[i], q[j].update)
                         /\ \A u \in K : Older(d[i], u)
  /\ \A i \in FramesIn(q) : /\ \A j \in FramesIn(q) : i < j => Older(q[i].update, q[j].update)
                            /\ \A u \in K : Older(q[i].update, u)

AllOf(S, d, q, K) ==
  S \cup K \cup {d[i] : i \in DOMAIN d} \cup {q[i].update : i \in FramesIn(q)}

Line(S, d, q, K, im, v) == Sorted(S, d, q, K) /\ \A x \in AllOf(S, d, q, K) : Painted(x, im, v)

\* The image changes: what was painted before stays so.
LEMMA LineKept ==
  ASSUME NEW S, NEW d, NEW q, NEW K, NEW im, NEW v, NEW im2, NEW v2, Line(S, d, q, K, im, v),
         \A p : /\ Latest(im, v, p) \in Nat /\ Latest(im2, v2, p) \in Nat
                /\ Latest(im, v, p) <= Latest(im2, v2, p)
  PROVE  Line(S, d, q, K, im2, v2)
<1>1. ASSUME NEW x, Painted(x, im, v) PROVE Painted(x, im2, v2)
  BY <1>1 DEF Painted
<1> QED BY <1>1 DEF Line

\* A new frame, of the present image.
LEMMA LineTaken ==
  ASSUME NEW S, NEW d, NEW q, NEW im, NEW v, Line(S, d, q, {}, im, v),
         NEW u, Painted(u, im, v), \A x : Painted(x, im, v) => Older(x, u)
  PROVE  Line(S, d, q, {u}, im, v)
<1>1. \A x \in AllOf(S, d, q, {}) : Older(x, u) /\ Painted(x, im, v)
  BY DEF Line
<1>2. \A x \in AllOf(S, d, q, {u}) : Painted(x, im, v)
  BY <1>1 DEF AllOf
<1>3. /\ \A x \in S : Older(x, u)
      /\ \A i \in DOMAIN d : Older(d[i], u)
      /\ \A i \in FramesIn(q) : Older(q[i].update, u)
  BY <1>1 DEF AllOf
<1> QED BY <1>2, <1>3 DEF Line, Sorted

LEMMA LineLess ==
  ASSUME NEW S, NEW d, NEW q, NEW K, NEW im, NEW v, Line(S, d, q, K, im, v)
  PROVE  Line(S, d, q, {}, im, v) /\ Line(S, d, <<>>, K, im, v)
BY DEF Line, Sorted, AllOf, FramesIn

\* p is q with m behind it, at n.
Longer(p, q, m, n) == p = Append(q, m) /\ n = Len(q) + 1

LEMMA FramesAppend ==
  ASSUME NEW q, Queue(q), NEW m, NEW p, NEW n, Longer(p, q, m, n)
  PROVE  /\ \A i \in FramesIn(q) : i \in FramesIn(p) /\ p[i] = q[i]
         /\ \A i \in FramesIn(p) : \/ i \in FramesIn(q) /\ i \in Nat /\ i < n
                                   \/ i = n /\ m.kind = "frame" /\ p[i] = m
         /\ n \in Nat
<1>1. /\ Len(q) \in Nat /\ n = Len(q) + 1 /\ DOMAIN q = 1..Len(q) /\ DOMAIN p = 1..n
      /\ p[n] = m /\ \A i \in 1..Len(q) : p[i] = q[i]
  BY QueueDomain, QueueAppend DEF Longer
<1> QED BY <1>1 DEF FramesIn

\* A message is put into the inbox: the frame that was on its way, ...
LEMMA LineSent ==
  ASSUME NEW S, NEW d, NEW q, Queue(q), NEW im, NEW v, NEW m, m.kind = "frame",
         Line(S, d, q, {m.update}, im, v)
  PROVE  Line(S, d, Append(q, m), {}, im, v)
<1> DEFINE p == Append(q, m)
           n == Len(q) + 1
<1> HIDE DEF p, n
<1>1. /\ \A i \in FramesIn(q) : i \in FramesIn(p) /\ p[i] = q[i]
      /\ \A i \in FramesIn(p) : \/ i \in FramesIn(q) /\ i \in Nat /\ i < n
                                \/ i = n /\ m.kind = "frame" /\ p[i] = m
      /\ n \in Nat
  <2>1. Longer(p, q, m, n)
    BY DEF Longer, p, n
  <2> QED BY <2>1, FramesAppend
<1>2. Sorted(S, d, p, {})
  <2>1. \A x \in S : \A i \in FramesIn(p) : Older(x, p[i].update)
    BY <1>1 DEF Line, Sorted
  <2>2. \A i \in DOMAIN d : \A j \in FramesIn(p) : Older(d[i], p[j].update)
    BY <1>1 DEF Line, Sorted
  <2>3. ASSUME NEW i \in FramesIn(p), NEW j \in FramesIn(p), i < j
        PROVE  Older(p[i].update, p[j].update)
    <3>1. i \in FramesIn(q)
      BY <1>1, <2>3
    <3>2. CASE j = n /\ p[j] = m
      BY <1>1, <3>1, <3>2 DEF Line, Sorted
    <3>3. CASE j \in FramesIn(q)
      BY <1>1, <2>3, <3>1, <3>3 DEF Line, Sorted
    <3> QED BY <1>1, <3>2, <3>3
  <2> QED BY <2>1, <2>2, <2>3 DEF Line, Sorted
<1>3. \A x \in AllOf(S, d, p, {}) : x \in AllOf(S, d, q, {m.update})
  BY <1>1 DEF AllOf
<1> QED BY <1>2, <1>3 DEF Line, p

\* ... or one that is none.
LEMMA LineBeside ==
  ASSUME NEW S, NEW d, NEW q, Queue(q), NEW K, NEW im, NEW v, NEW m, m.kind # "frame",
         Line(S, d, q, K, im, v)
  PROVE  Line(S, d, Append(q, m), K, im, v)
<1> DEFINE p == Append(q, m)
<1> HIDE DEF p
<1>1. /\ \A i \in FramesIn(q) : i \in FramesIn(p) /\ p[i] = q[i]
      /\ \A i \in FramesIn(p) : i \in FramesIn(q)
  <2>1. Longer(p, q, m, Len(q) + 1)
    BY DEF Longer, p
  <2> QED BY <2>1, FramesAppend
<1>2. Sorted(S, d, p, K)
  BY <1>1 DEF Line, Sorted
<1>3. \A x \in AllOf(S, d, p, K) : x \in AllOf(S, d, q, K)
  BY <1>1 DEF AllOf
<1> QED BY <1>2, <1>3 DEF Line, p

LEMMA FramesTail ==
  ASSUME NEW q, Queue(q), q # <<>>
  PROVE  /\ \A i \in FramesIn(Tail(q)) : /\ i \in Nat /\ i + 1 \in FramesIn(q) /\ 1 < i + 1
                                        /\ Tail(q)[i] = q[i + 1]
         /\ Head(q).kind = "frame" => 1 \in FramesIn(q) /\ q[1] = Head(q)
<1>1. /\ Len(q) \in Nat /\ DOMAIN q = 1..Len(q) /\ Head(q) = q[1] /\ 1 \in DOMAIN q
      /\ DOMAIN Tail(q) = 1..(Len(q) - 1) /\ \A i \in 1..(Len(q) - 1) : Tail(q)[i] = q[i + 1]
  BY QueueDomain, QueueTail
<1> QED BY <1>1 DEF FramesIn

\* A page takes a message out of its inbox.
LEMMA LineReceived ==
  ASSUME NEW S, NEW d, Queue(d), NEW q, Queue(q), q # <<>>, NEW K, NEW im, NEW v,
         Line(S, d, q, K, im, v), NEW e,
         e = IF Head(q).kind = "frame" THEN Append(d, Head(q).update) ELSE d
  PROVE  Line(S, e, Tail(q), K, im, v)
<1> DEFINE p == Tail(q)
           u == Head(q).update
           n == Len(d) + 1
<1>1. /\ \A i \in FramesIn(p) : /\ i \in Nat /\ i + 1 \in FramesIn(q) /\ 1 < i + 1
                                /\ p[i] = q[i + 1]
      /\ Head(q).kind = "frame" => 1 \in FramesIn(q) /\ q[1] = Head(q)
  BY FramesTail
<1>2. /\ \A i \in FramesIn(p) : \A j \in FramesIn(p) : i < j => Older(p[i].update, p[j].update)
      /\ \A i \in FramesIn(p) : \A w \in K : Older(p[i].update, w)
      /\ \A i \in DOMAIN d : \A j \in FramesIn(p) : Older(d[i], p[j].update)
      /\ \A x \in S : \A i \in FramesIn(p) : Older(x, p[i].update)
  <2> HIDE DEF p
  <2>1. ASSUME NEW i \in FramesIn(p), NEW j \in FramesIn(p), i < j
        PROVE  Older(p[i].update, p[j].update)
    <3>1. i + 1 < j + 1
      BY <1>1, <2>1
    <3> QED BY <1>1, <3>1 DEF Line, Sorted
  <2> QED BY <1>1, <2>1 DEF Line, Sorted
<1>3. CASE Head(q).kind # "frame"
  <2> HIDE DEF p
  <2>1. Sorted(S, d, p, K)
    BY <1>2 DEF Line, Sorted
  <2>2. \A x \in AllOf(S, d, p, K) : x \in AllOf(S, d, q, K)
    BY <1>1 DEF AllOf
  <2> QED BY <1>3, <2>1, <2>2 DEF Line, p
<1>4. CASE Head(q).kind = "frame"
  <2>1. /\ Len(d) \in Nat /\ DOMAIN d = 1..Len(d) /\ DOMAIN e = 1..n /\ e[n] = u
        /\ \A i \in DOMAIN d : e[i] = d[i]
    BY <1>4, QueueDomain, QueueAppend
  <2>2. \A i \in DOMAIN e : i \in DOMAIN d \/ (i = n /\ e[i] = u)
    BY <2>1
  <2>3. /\ \A x \in S : Older(x, u)
        /\ \A i \in DOMAIN d : Older(d[i], u)
        /\ \A j \in FramesIn(p) : Older(u, p[j].update)
        /\ \A w \in K : Older(u, w)
    <3> HIDE DEF p
    <3> QED BY <1>1, <1>4 DEF Line, Sorted
  <2> HIDE DEF p, u, n
  <2>4. ASSUME NEW i \in DOMAIN e, NEW j \in DOMAIN e, i < j PROVE Older(e[i], e[j])
    <3>1. i \in DOMAIN d
      BY <2>1, <2>4 DEF n
    <3>2. CASE j \in DOMAIN d
      BY <2>1, <2>4, <3>1, <3>2 DEF Line, Sorted
    <3>3. CASE j = n /\ e[j] = u
      BY <2>1, <2>3, <3>1, <3>3
    <3> QED BY <2>2, <3>2, <3>3
  <2>5. Sorted(S, e, p, K)
    <3>1. \A x \in S : \A i \in DOMAIN e : Older(x, e[i])
      BY <2>1, <2>2, <2>3 DEF Line, Sorted
    <3>2. \A i \in DOMAIN e : \A j \in FramesIn(p) : Older(e[i], p[j].update)
      BY <1>2, <2>1, <2>2, <2>3
    <3>3. \A i \in DOMAIN e : \A w \in K : Older(e[i], w)
      BY <2>1, <2>2, <2>3 DEF Line, Sorted
    <3> QED BY <1>2, <2>4, <3>1, <3>2, <3>3 DEF Line, Sorted
  <2>6. \A x \in AllOf(S, e, p, K) : x \in AllOf(S, d, q, K)
    <3>1. 1 \in FramesIn(q) /\ q[1].update = u
      BY <1>1, <1>4 DEF u
    <3> QED BY <1>1, <2>1, <2>2, <3>1 DEF AllOf
  <2> QED BY <2>5, <2>6 DEF Line, p
<1> QED BY <1>3, <1>4

\* A pixel of what a page shows after drawing is of what it showed or of what it drew.
LEMMA DrawnPixels ==
  ASSUME NEW cv, cv = None \/ cv = [w |-> cv.w, h |-> cv.h, px |-> cv.px], NEW u,
         Drawn(cv, u) # None
  PROVE  /\ Drawn(cv, u) = [w |-> Drawn(cv, u).w, h |-> Drawn(cv, u).h, px |-> Drawn(cv, u).px]
         /\ \A p \in DOMAIN Drawn(cv, u).px :
              \/ p \in DOMAIN u.px /\ Drawn(cv, u).px[p] = u.px[p]
              \/ cv # None /\ p \in DOMAIN cv.px /\ Drawn(cv, u).px[p] = cv.px[p]
<1>1. CASE Drawn(cv, u) = [w |-> u.w, h |-> u.h, px |-> u.px]
  BY <1>1
<1>2. CASE /\ cv # None
           /\ Drawn(cv, u) = [cv EXCEPT !.px = [p \in DOMAIN cv.px |->
                                IF p \in DOMAIN u.px THEN u.px[p] ELSE cv.px[p]]]
  <2> DEFINE w == cv.w
             h == cv.h
             x == cv.px
             y == [p \in DOMAIN cv.px |-> IF p \in DOMAIN u.px THEN u.px[p] ELSE cv.px[p]]
  <2>1. cv = [w |-> w, h |-> h, px |-> x] /\ Drawn(cv, u) = [cv EXCEPT !.px = y]
    BY <1>2
  <2>2. Drawn(cv, u) = [w |-> w, h |-> h, px |-> y]
    <3> HIDE DEF w, h, x, y
    <3> QED BY <2>1
  <2> QED BY <1>2, <2>2
<1> QED BY <1>1, <1>2 DEF Drawn

\* A page draws: what it shows is no older than it was, and no later than what
\* is to come.
LEMMA LineDrawn ==
  ASSUME NEW cv, cv = None \/ cv = [w |-> cv.w, h |-> cv.h, px |-> cv.px],
         NEW d, Queue(d), d # <<>>, NEW q, NEW K, NEW im, NEW v,
         Line(Shown(cv), d, q, K, im, v)
  PROVE  /\ Line(Shown(Drawn(cv, Head(d))), Tail(d), q, K, im, v)
         /\ cv # None /\ Drawn(cv, Head(d)) # None => Older(cv, Drawn(cv, Head(d)))
<1> DEFINE u == Head(d)
           e == Tail(d)
           n == Drawn(cv, u)
<1>1. /\ Len(d) \in Nat /\ DOMAIN d = 1..Len(d) /\ u = d[1] /\ 1 \in DOMAIN d
      /\ DOMAIN e = 1..(Len(d) - 1) /\ \A i \in 1..(Len(d) - 1) : e[i] = d[i + 1]
  BY QueueDomain, QueueTail
<1>2. \A i \in DOMAIN e : /\ i + 1 \in DOMAIN d /\ 1 < i + 1 /\ e[i] = d[i + 1]
                          /\ i \in Nat
  BY <1>1
<1>3. n # None => \A p \in DOMAIN n.px : 
              \/ p \in DOMAIN u.px /\ n.px[p] = u.px[p]
              \/ cv # None /\ p \in DOMAIN cv.px /\ n.px[p] = cv.px[p]
  BY DrawnPixels
<1> HIDE DEF u, e, n
<1>4. Painted(u, im, v) /\ (cv # None => Painted(cv, im, v) /\ Older(cv, u))
  BY <1>1 DEF Line, Sorted, AllOf, Shown
<1>5. ASSUME NEW w, n # None, Older(u, w), cv # None => Older(cv, w) PROVE Older(n, w)
  BY <1>3, <1>5 DEF Older
<1>6. n # None => Painted(n, im, v)
  BY <1>3, <1>4 DEF Painted
<1>7. ASSUME cv # None, n # None PROVE Older(cv, n)
  <2> SUFFICES ASSUME NEW p \in DOMAIN cv.px \cap DOMAIN n.px
               PROVE  cv.px[p] <= n.px[p]
    BY DEF Older
  <2>1. cv.px[p] \in Nat /\ (p \in DOMAIN u.px => cv.px[p] <= u.px[p])
    BY <1>4, <1>7 DEF Painted, Older
  <2> QED BY <1>3, <1>7, <2>1
<1>8. /\ \A i \in DOMAIN e : Older(u, e[i]) /\ (cv # None => Older(cv, e[i]))
      /\ \A i \in FramesIn(q) : Older(u, q[i].update) /\ (cv # None => Older(cv, q[i].update))
      /\ \A w \in K : Older(u, w) /\ (cv # None => Older(cv, w))
  BY <1>1, <1>2 DEF Line, Sorted, Shown
<1>9. Sorted(Shown(n), e, q, K)
  <2>1. ASSUME NEW i \in DOMAIN e, NEW j \in DOMAIN e, i < j PROVE Older(e[i], e[j])
    <3>1. i + 1 < j + 1
      BY <1>2, <2>1
    <3> QED BY <1>2, <3>1 DEF Line, Sorted
  <2>2. \A i \in DOMAIN e : /\ \A j \in FramesIn(q) : Older(e[i], q[j].update)
                            /\ \A w \in K : Older(e[i], w)
    BY <1>2 DEF Line, Sorted
  <2>3. ASSUME NEW x \in Shown(n)
        PROVE  /\ \A i \in DOMAIN e : Older(x, e[i])
               /\ \A i \in FramesIn(q) : Older(x, q[i].update)
               /\ \A w \in K : Older(x, w)
    <3>1. x = n /\ n # None
      BY DEF Shown
    <3> QED BY <1>5, <1>8, <3>1
  <2> QED BY <2>1, <2>2, <2>3 DEF Line, Sorted
<1>10. \A x \in AllOf(Shown(n), e, q, K) : Painted(x, im, v)
  <2>1. \A x \in AllOf(Shown(n), e, q, K) :
          (x = n /\ n # None) \/ x \in AllOf(Shown(cv), d, q, K)
    BY <1>2 DEF AllOf, Shown
  <2> QED BY <1>6, <2>1 DEF Line
<1> QED BY <1>7, <1>9, <1>10 DEF Line, u, e, n

-----------------------------------------------------------------------------
(* The state of the pages is in line, as long as nobody forced a full frame.  *)

InLine(c) ==
  Line(Shown(canvas[c]), decoding[c], inbox[c], Arriving(cast["loop"], c), image, version)

PagesShape ==
  /\ decoding = [c \in Clients |-> decoding[c]]
  /\ canvas = [c \in Clients |-> canvas[c]]
  /\ \A c \in Clients :
       /\ Queue(decoding[c])
       /\ canvas[c] = None \/ canvas[c] = [w |-> canvas[c].w, h |-> canvas[c].h,
                                           px |-> canvas[c].px]

ImageShape ==
  /\ version \in Nat
  /\ image # None => /\ DOMAIN image.px = Pixels(image.w, image.h)
                     /\ \A p \in DOMAIN image.px : image.px[p] \in 0..version

\* Events are no frames.
NoFrames(q) == \A i \in DOMAIN q : q[i].kind # "frame"

InOrder ==
  /\ PagesShape /\ ImageShape
  /\ NoFrames(events) /\ NoFrames(batch)
  /\ forces \in Nat /\ forces <= MaxForces
  /\ forces = MaxForces => \A c \in Clients : cast[c] = None /\ InLine(c)

LEMMA NoFramesAppend ==
  ASSUME NEW q, Queue(q), NoFrames(q), NEW m, m.kind # "frame"
  PROVE  NoFrames(Append(q, m))
<1>1. \A i \in DOMAIN Append(q, m) : i \in DOMAIN q \/ i = Len(q) + 1
  BY QueueDomain, QueueAppend
<1> QED BY <1>1, QueueDomain, QueueAppend DEF NoFrames

LEMMA NoFramesTail ==
  ASSUME NEW q, Queue(q), q # <<>>, NoFrames(q)
  PROVE  NoFrames(Tail(q)) /\ Head(q).kind # "frame"
<1>1. \A i \in DOMAIN Tail(q) : i + 1 \in DOMAIN q
  BY QueueDomain, QueueTail
<1> QED BY <1>1, QueueDomain, QueueTail DEF NoFrames

\* A rectangle of the image is no older than anything painted until now.
LEMMA CropInLine ==
  ASSUME ImageShape, image # None, NEW box
  PROVE  /\ Painted(Crop(box), image, version)
         /\ \A x : Painted(x, image, version) => Older(x, Crop(box))
<1>1. \A p \in DOMAIN Crop(box).px : /\ p \in DOMAIN image.px /\ Crop(box).px[p] = image.px[p]
                                     /\ image.px[p] \in Nat
                                     /\ Latest(image, version, p) = image.px[p]
  BY DEF Crop, ImageShape, Latest
<1>2. Painted(Crop(box), image, version)
  BY <1>1 DEF Painted
<1>3. ASSUME NEW x, Painted(x, image, version) PROVE Older(x, Crop(box))
  BY <1>1, <1>3 DEF Painted, Older
<1> QED BY <1>2, <1>3

\* The broadcast under way is for pages that were there when it began.
LEMMA NotArriving ==
  ASSUME Inv, NEW c \in Clients, conn[c] = "new" PROVE Arriving(cast["loop"], c) = {}
BY DEF Inv, Served, Arriving, Tasks

LEMMA LatestIsNumber ==
  ASSUME ImageShape PROVE \A p : Latest(image, version, p) \in Nat
BY DEF ImageShape, Latest

\* Nothing but the image changes.
LEMMA PaintSorts ==
  ASSUME Inv, InOrder, Paint
  PROVE  InOrder'
<1>1. UNCHANGED <<decoding, canvas, inbox, cast, events, batch, forces>>
  BY DEF Paint, serverVars, stateVars, pageVars
<1>2. CASE UNCHANGED fbVars
  BY <1>1, <1>2 DEF InOrder, PagesShape, ImageShape, InLine, fbVars
<1>3. ASSUME NEW w, NEW h, NEW new,
             version' = version + 1, image' = [w |-> w, h |-> h, px |-> new],
             DOMAIN new = Pixels(w, h),
             \A p \in Pixels(w, h) :
               \/ new[p] = version + 1
               \/ image # None /\ p \in DOMAIN image.px /\ new[p] = image.px[p]
      PROVE  InOrder'
  <2>1. version \in Nat /\ version' \in Nat
    BY <1>3 DEF InOrder, ImageShape
  <2>2. ASSUME image' # None
        PROVE  /\ DOMAIN image'.px = Pixels(image'.w, image'.h)
               /\ \A p \in DOMAIN image'.px : image'.px[p] \in 0..version'
    <3>1. /\ image'.px = new /\ DOMAIN new = Pixels(image'.w, image'.h)
          /\ \A p \in DOMAIN new : new[p] = version + 1 \/ new[p] \in 0..version
      BY <1>3 DEF InOrder, ImageShape
    <3> QED BY <1>3, <2>1, <3>1
  <2>3. ImageShape'
    BY <2>1, <2>2 DEF ImageShape
  <2>4. ASSUME NEW p
        PROVE  /\ Latest(image, version, p) \in Nat /\ Latest(image', version', p) \in Nat
               /\ Latest(image, version, p) <= Latest(image', version', p)
    <3>1. Latest(image, version, p) \in 0..version
      BY <2>1 DEF InOrder, ImageShape, Latest
    <3>2. \/ Latest(image', version', p) = version + 1
          \/ Latest(image', version', p) = Latest(image, version, p)
      <4>1. CASE image' # None /\ p \in DOMAIN image'.px
        <5>1. image'.px = new /\ p \in Pixels(w, h)
          BY <1>3, <4>1
        <5> QED BY <1>3, <4>1, <5>1 DEF Latest
      <4>2. CASE ~(image' # None /\ p \in DOMAIN image'.px)
        BY <1>3, <4>2 DEF Latest
      <4> QED BY <4>1, <4>2
    <3> QED BY <2>1, <3>1, <3>2
  <2>5. \A c \in Clients : InLine(c) => InLine(c)'
    BY <1>1, <2>4, LineKept DEF InLine
  <2> QED BY <1>1, <2>3, <2>5 DEF InOrder, PagesShape
<1>4. ASSUME NEW s \in Sizes, Resize(s[1], s[2]) PROVE InOrder'
  <2> DEFINE w == s[1]
             h == s[2]
             new == [p \in Pixels(w, h) |-> version + 1]
  <2>1. CASE ~UNCHANGED fbVars
    <3>1. version' = version + 1 /\ image' = [w |-> w, h |-> h, px |-> new]
      BY <1>4, <2>1 DEF Resize
    <3>2. DOMAIN new = Pixels(w, h) /\ \A p \in Pixels(w, h) : new[p] = version + 1
      OBVIOUS
    <3> HIDE DEF w, h, new
    <3> QED BY <1>3, <3>1, <3>2
  <2> QED BY <1>2, <2>1
<1>5. ASSUME NEW s \in Corners, PasteBlock(s[1], s[2]) PROVE InOrder'
  <2> DEFINE w == image.w
             h == image.h
             new == [p \in Pixels(w, h) |-> IF Inside(TileBox(s[1], s[2]), p) THEN version + 1
                                                                         ELSE image.px[p]]
  <2>1. CASE ~UNCHANGED fbVars
    <3>1. /\ version' = version + 1 /\ image' = [w |-> w, h |-> h, px |-> new]
          /\ image # None
      BY <1>5, <2>1 DEF PasteBlock
    <3>2. DOMAIN new = Pixels(w, h)
      OBVIOUS
    <3>3. \A p \in Pixels(w, h) : \/ new[p] = version + 1
                                  \/ p \in DOMAIN image.px /\ new[p] = image.px[p]
      BY <3>1 DEF InOrder, ImageShape
    <3> HIDE DEF w, h, new
    <3> QED BY <1>3, <3>1, <3>2, <3>3
  <2> QED BY <1>2, <2>1
<1> QED BY <1>4, <1>5 DEF Paint

\* An action that moves nothing but events that are no frames.
LEMMA EventsSort ==
  ASSUME Inv, InOrder, UNCHANGED <<fbVars, decoding, canvas, inbox, cast, batch, forces>>,
         \/ events' = events
         \/ \E m : m.kind # "frame" /\ events' = Append(events, m)
  PROVE  InOrder'
<1>1. NoFrames(events')
  <2>1. NoFrames(events) /\ Queue(events)
    BY DEF InOrder, Inv, Shape
  <2>2. CASE events' = events
    BY <2>1, <2>2
  <2>3. ASSUME NEW m, m.kind # "frame", events' = Append(events, m) PROVE NoFrames(events')
    BY <2>1, <2>3, NoFramesAppend
  <2> QED BY <2>2, <2>3
<1> QED BY <1>1 DEF InOrder, PagesShape, ImageShape, InLine, NoFrames, fbVars

LEMMA SettersSort ==
  ASSUME Inv, InOrder, NEW t \in Setters, SetState(t) \/ ReadState(t) \/ QueueState(t)
  PROVE  InOrder'
<1>1. UNCHANGED <<fbVars, decoding, canvas, inbox, cast, batch, forces>>
  BY DEF SetState, ReadState, QueueState, serverVars, pageVars
<1>2. \/ events' = events
      \/ \E m : m.kind # "frame" /\ events' = Append(events, m)
  <2>1. StateEvent(setter[t]).kind # "frame"
    BY DEF StateEvent
  <2> QED BY <2>1 DEF SetState, ReadState, QueueState
<1> QED BY <1>1, <1>2, EventsSort

\* _broadcast_loop takes an update, or an event.
LEMMA LoopSorts ==
  ASSUME Inv, InOrder, NoneIsNoCast, LoopStep
  PROVE  InOrder'
<1>1. /\ UNCHANGED <<decoding, canvas, inbox, image, version, forces>>
      /\ cast["loop"] = None
  BY DEF LoopStep, Wake, Drain, NextEvent, LoopFrame, TakeUpdate, pageVars, fbVars
<1>2. \A c : Arriving(cast["loop"], c) = {}
  BY <1>1 DEF Arriving
<1>3. cast = [s \in Tasks |-> cast[s]] /\ "loop" \in Tasks /\ "loop" \notin Clients
      /\ Clients \subseteq Tasks
  BY ClientsAssumption DEF Inv, Shape, Tasks
<1>4. ASSUME NEW c \in Clients, forces = MaxForces, cast'["loop"] = cast["loop"] \/
               \E m : m.kind # "frame" /\ cast'["loop"] = Cast(m)
      PROVE  InLine(c)'
  <2>1. Arriving(cast'["loop"], c) = {}
    BY <1>1, <1>4, CastOf DEF Arriving
  <2> QED BY <1>1, <1>2, <1>4, <2>1 DEF InOrder, InLine
<1>5. CASE Wake
  <2>1. UNCHANGED <<events, batch>>
    BY <1>5 DEF Wake, LoopFrame, stateVars
  <2>2. CASE UNCHANGED cast
    BY <1>1, <1>4, <2>1, <2>2 DEF InOrder, PagesShape, ImageShape, NoFrames
  <2>3. CASE image # None /\ cast' = [cast EXCEPT !["loop"] = Cast(Frame(Update))]
    <3> DEFINE u == Update
    <3>1. Painted(u, image, version) /\ \A x : Painted(x, image, version) => Older(x, u)
      BY <2>3, CropInLine DEF InOrder, Update
    <3>2. Frame(u).update = u
      BY DEF Frame
    <3> HIDE DEF u
    <3>3. cast'["loop"] = Cast(Frame(u)) /\ \A c \in Clients : cast'[c] = cast[c]
      BY <1>3, <2>3 DEF u
    <3>4. ASSUME NEW c \in Clients, forces = MaxForces PROVE InLine(c)'
      <4>1. Line(Shown(canvas[c]), decoding[c], inbox[c], {}, image, version)
        BY <1>2, <3>4 DEF InOrder, InLine
      <4>2. Line(Shown(canvas[c]), decoding[c], inbox[c], {u}, image, version)
        BY <3>1, <4>1, LineTaken
      <4>3. Arriving(cast'["loop"], c) \in {{}, {u}}
        BY <3>2, <3>3, CastOf DEF Arriving
      <4> QED BY <1>1, <4>1, <4>2, <4>3 DEF InLine
    <3> QED BY <1>1, <2>1, <3>3, <3>4 DEF InOrder, PagesShape, ImageShape, NoFrames
  <2> QED BY <1>5, <2>2, <2>3 DEF Wake, HasUpdate
<1>6. CASE Drain
  <2>1. batch' = events /\ events' = <<>> /\ UNCHANGED cast
    BY <1>6 DEF Drain
  <2>2. NoFrames(batch') /\ NoFrames(events')
    BY <2>1 DEF InOrder, NoFrames
  <2> QED BY <1>1, <1>4, <2>1, <2>2 DEF InOrder, PagesShape, ImageShape
<1>7. CASE NextEvent
  <2>1. UNCHANGED events
    BY <1>7 DEF NextEvent, LoopFrame, stateVars
  <2>2. CASE UNCHANGED <<batch, cast>>
    BY <1>1, <1>4, <2>1, <2>2 DEF InOrder, PagesShape, ImageShape, NoFrames
  <2>3. CASE /\ batch # <<>> /\ batch' = Tail(batch)
             /\ cast' = [cast EXCEPT !["loop"] = Cast(Head(batch))]
    <3>1. NoFrames(batch') /\ Head(batch).kind # "frame"
      BY <2>3, NoFramesTail DEF InOrder, Inv, Shape
    <3>2. cast'["loop"] = Cast(Head(batch)) /\ \A c \in Clients : cast'[c] = cast[c]
      BY <1>3, <2>3
    <3>3. forces = MaxForces => \A c \in Clients : InLine(c)'
      BY <1>4, <3>1, <3>2
    <3> QED BY <1>1, <2>1, <3>1, <3>2, <3>3 DEF InOrder, PagesShape, ImageShape, NoFrames
  <2> QED BY <1>7, <2>2, <2>3 DEF NextEvent
<1> QED BY <1>5, <1>6, <1>7 DEF LoopStep

\* _broadcast: the loop's, for without forced frames no handler broadcasts.
LEMMA SendNextSorts ==
  ASSUME Inv, InOrder, NoneIsNoCast, NEW t \in Tasks, NEW c \in Clients, SendNext(t, c)
  PROVE  InOrder'
<1> DEFINE m == cast[t].message
           todo == cast[t].todo \ {c}
<1>1. /\ UNCHANGED <<loop, batch, events, conn, fbVars, decoding, canvas, forces>>
      /\ cast[t] # None /\ c \in cast[t].todo
  BY DEF SendNext, stateVars, pageVars
<1>2. PICK dead : /\ dead \subseteq {d \in Clients : conn[d] = "closed"} \cup cast[t].dead
                  /\ GoOn(t, todo, dead)
                  /\ \/ inbox' = [inbox EXCEPT ![c] = Append(@, m)]
                     \/ inbox' = inbox
  <2>1. CASE Open(c) /\ inbox' = [inbox EXCEPT ![c] = Append(@, m)] /\ GoOn(t, todo, cast[t].dead)
    BY <2>1
  <2>2. CASE ~Open(c) /\ inbox' = inbox /\ GoOn(t, todo, cast[t].dead \cup {c})
    <3>1. conn[c] = "closed"
      BY <1>1, <2>2 DEF Inv, Shape, Served, Open
    <3>2. cast[t].dead \cup {c} \subseteq {d \in Clients : conn[d] = "closed"} \cup cast[t].dead
      BY <3>1
    <3> QED BY <2>2, <3>2
  <2> QED BY <2>1, <2>2 DEF SendNext, Put
<1>3. /\ \A s \in Tasks : s # t => cast'[s] = cast[s]
      /\ cast'[t] # None => cast'[t].message = m /\ cast'[t].todo = todo
  BY <1>1, <1>2, GoOnKeeps
<1>4. ASSUME forces = MaxForces, NEW d \in Clients PROVE cast'[d] = None /\ InLine(d)'
  <2>1. t = "loop" /\ cast[d] = None /\ InLine(d)
    BY <1>1, <1>4 DEF InOrder, Tasks
  <2>2. cast'[d] = None
    BY <1>3, <2>1, ClientsAssumption DEF Tasks
  <2>3. inbox = [e \in Clients |-> inbox[e]] /\ Queue(inbox[d])
    BY DEF Inv, Shape
  <2>4. Line(Shown(canvas[d]), decoding[d], inbox[d], Arriving(cast["loop"], d), image, version)
    BY <2>1 DEF InLine
  <2>5. CASE d = c
    <3>1. Arriving(cast'["loop"], d) = {}
      BY <1>3, <2>1, <2>5 DEF Arriving
    <3>2. Line(Shown(canvas[d]), decoding[d], inbox'[d], {}, image, version)
      <4>1. CASE inbox'[d] = inbox[d]
        BY <2>4, <4>1, LineLess
      <4>2. CASE inbox'[d] = Append(inbox[d], m) /\ m.kind = "frame"
        <5>1. Arriving(cast["loop"], d) = {m.update}
          BY <1>1, <2>1, <2>5, <4>2 DEF Arriving
        <5> QED BY <2>3, <2>4, <4>2, <5>1, LineSent
      <4>3. CASE inbox'[d] = Append(inbox[d], m) /\ m.kind # "frame"
        <5>1. Line(Shown(canvas[d]), decoding[d], inbox[d], {}, image, version)
          BY <2>4, LineLess
        <5> QED BY <2>3, <4>3, <5>1, LineBeside
      <4> QED BY <1>2, <2>3, <2>5, <4>1, <4>2, <4>3
    <3> QED BY <1>1, <2>2, <3>1, <3>2 DEF InLine, fbVars
  <2>6. CASE d # c
    <3>1. inbox'[d] = inbox[d]
      BY <1>2, <2>3, <2>6
    <3>2. Line(Shown(canvas[d]), decoding[d], inbox[d], {}, image, version)
      BY <2>4, LineLess
    <3>3. Arriving(cast'["loop"], d) \in {{}, Arriving(cast["loop"], d)}
      BY <1>1, <1>3, <2>1, <2>6 DEF Arriving
    <3> QED BY <1>1, <2>2, <2>4, <3>1, <3>2, <3>3 DEF InLine, fbVars
  <2> QED BY <2>5, <2>6
<1> QED BY <1>1, <1>4 DEF InOrder, PagesShape, ImageShape, NoFrames, fbVars

\* _ws_handler: the keyframe is of the present image, and goes to a page that no
\* broadcast under way is for.
LEMMA HandlersSort ==
  ASSUME Inv, InOrder, NEW c \in Clients, Connect(c) \/ HandlerStep(c)
  PROVE  InOrder'
<1>1. /\ UNCHANGED <<fbVars, decoding, canvas, cast, batch, forces>>
      /\ events' = events \/ events' = Append(events, LogEvent)
      /\ \/ inbox' = inbox
         \/ inbox' = [inbox EXCEPT ![c] = Append(@, StateEvent(state))]
         \/ /\ conn[c] = "new" /\ image # None
            /\ inbox' = [inbox EXCEPT ![c] = Append(@, Frame(FullSnapshot))]
  BY DEF Connect, HandlerStep, KeyframeSent, Greet, Leave, Add, Put, stateVars, pageVars
<1>2. inbox = [d \in Clients |-> inbox[d]] /\ Queue(inbox[c])
  BY DEF Inv, Shape
<1>3. NoFrames(events')
  <2>1. LogEvent.kind # "frame" /\ NoFrames(events) /\ Queue(events)
    BY DEF LogEvent, InOrder, Inv, Shape
  <2>2. CASE events' = events
    BY <2>1, <2>2
  <2>3. CASE events' = Append(events, LogEvent)
    BY <2>1, <2>3, NoFramesAppend
  <2> QED BY <1>1, <2>2, <2>3
<1>4. \A d \in Clients : inbox'[d] = inbox[d] /\ InLine(d) => InLine(d)'
  BY <1>1 DEF InLine, fbVars
<1>5. \A d \in Clients : d # c => inbox'[d] = inbox[d]
  BY <1>1, <1>2
<1>6. ASSUME InLine(c) PROVE InLine(c)'
  <2> DEFINE K == Arriving(cast["loop"], c)
  <2>1. Line(Shown(canvas[c]), decoding[c], inbox[c], K, image, version)
    BY <1>6 DEF InLine
  <2>2. CASE inbox' = inbox
    BY <1>4, <1>6, <2>2
  <2>3. CASE inbox'[c] = Append(inbox[c], StateEvent(state))
    <3> DEFINE m == StateEvent(state)
    <3>1. m.kind # "frame"
      BY DEF StateEvent
    <3> HIDE DEF m, K
    <3>2. Line(Shown(canvas[c]), decoding[c], Append(inbox[c], m), K, image, version)
      BY <1>2, <2>1, <3>1, LineBeside
    <3> QED BY <1>1, <2>3, <3>2 DEF InLine, fbVars, m, K
  <2>4. CASE /\ conn[c] = "new" /\ image # None
             /\ inbox'[c] = Append(inbox[c], Frame(FullSnapshot))
    <3> DEFINE u == FullSnapshot
               m == Frame(u)
    <3>1. K = {}
      BY <2>4, NotArriving
    <3>2. Painted(u, image, version) /\ \A x : Painted(x, image, version) => Older(x, u)
      BY <2>4, CropInLine DEF InOrder, FullSnapshot
    <3>3. m.kind = "frame" /\ m.update = u
      BY DEF Frame
    <3> HIDE DEF m, K, u
    <3>4. Line(Shown(canvas[c]), decoding[c], inbox[c], {m.update}, image, version)
      BY <2>1, <3>1, <3>2, <3>3, LineTaken
    <3>5. Line(Shown(canvas[c]), decoding[c], Append(inbox[c], m), {}, image, version)
      BY <1>2, <3>3, <3>4, LineSent
    <3> QED BY <1>1, <2>4, <3>1, <3>5 DEF InLine, fbVars, m, K, u
  <2> QED BY <1>1, <1>2, <2>2, <2>3, <2>4
<1>7. forces = MaxForces => \A d \in Clients : cast[d] = None /\ InLine(d)'
  BY <1>4, <1>5, <1>6 DEF InOrder
<1> QED BY <1>1, <1>3, <1>7 DEF InOrder, PagesShape, ImageShape, NoFrames, fbVars

\* A forced frame ends the claim.
LEMMA ForceSorts ==
  ASSUME Inv, InOrder, NEW c \in Clients, ForceFullFrame(c)
  PROVE  InOrder'
<1>1. /\ UNCHANGED <<fbVars, decoding, canvas, events, batch>>
      /\ forces > 0 /\ forces' = forces - 1
  BY DEF ForceFullFrame, stateVars, pageVars
<1>2. forces' \in Nat /\ forces' <= MaxForces /\ forces' # MaxForces
  BY <1>1, BoundsAssumption DEF InOrder
<1> QED BY <1>1, <1>2 DEF InOrder, PagesShape, ImageShape, NoFrames, fbVars

LEMMA ReceiveSorts ==
  ASSUME Inv, InOrder, NEW c \in Clients, Receive(c)
  PROVE  InOrder'
<1> DEFINE m == Head(inbox[c])
           e == IF m.kind = "frame" THEN Append(decoding[c], m.update) ELSE decoding[c]
<1>1. /\ UNCHANGED <<fbVars, canvas, cast, events, batch, forces>>
      /\ inbox[c] # <<>> /\ inbox' = [inbox EXCEPT ![c] = Tail(@)]
      /\ decoding' = [decoding EXCEPT ![c] = e]
  BY DEF Receive, ServerFrame, serverVars, stateVars
<1>2. /\ inbox = [d \in Clients |-> inbox[d]] /\ Queue(inbox[c])
      /\ decoding = [d \in Clients |-> decoding[d]] /\ Queue(decoding[c])
  BY DEF InOrder, PagesShape, Inv, Shape
<1>3. Queue(e)
  BY <1>2, QueueAppend
<1>4. /\ inbox'[c] = Tail(inbox[c]) /\ decoding'[c] = e
      /\ \A d \in Clients : d # c => inbox'[d] = inbox[d] /\ decoding'[d] = decoding[d]
  BY <1>1, <1>2
<1>5. ASSUME InLine(c) PROVE InLine(c)'
  <2> DEFINE K == Arriving(cast["loop"], c)
  <2>1. Line(Shown(canvas[c]), decoding[c], inbox[c], K, image, version)
    BY <1>5 DEF InLine
  <2>2. e = IF Head(inbox[c]).kind = "frame" THEN Append(decoding[c], Head(inbox[c]).update)
                                             ELSE decoding[c]
    OBVIOUS
  <2> HIDE DEF e, K
  <2>3. Line(Shown(canvas[c]), e, Tail(inbox[c]), K, image, version)
    BY <1>1, <1>2, <2>1, <2>2, LineReceived
  <2> QED BY <1>1, <1>4, <2>3 DEF InLine, fbVars, K
<1> HIDE DEF e
<1>6. \A d \in Clients : d # c /\ InLine(d) => InLine(d)'
  BY <1>1, <1>4 DEF InLine, fbVars
<1>7. PagesShape'
  BY <1>1, <1>2, <1>3, <1>4 DEF InOrder, PagesShape
<1> QED BY <1>1, <1>5, <1>6, <1>7 DEF InOrder, ImageShape, NoFrames, fbVars

LEMMA DrawSorts ==
  ASSUME Inv, InOrder, NEW c \in Clients, Draw(c)
  PROVE  InOrder'
<1> DEFINE n == Drawn(canvas[c], Head(decoding[c]))
<1>1. /\ UNCHANGED <<fbVars, inbox, cast, events, batch, forces>>
      /\ decoding[c] # <<>> /\ decoding' = [decoding EXCEPT ![c] = Tail(@)]
      /\ canvas' = [canvas EXCEPT ![c] = n]
  BY DEF Draw, Draws, ServerFrame, serverVars, stateVars
<1>2. /\ canvas = [d \in Clients |-> canvas[d]]
      /\ canvas[c] = None \/ canvas[c] = [w |-> canvas[c].w, h |-> canvas[c].h,
                                          px |-> canvas[c].px]
      /\ decoding = [d \in Clients |-> decoding[d]] /\ Queue(decoding[c])
  BY DEF InOrder, PagesShape
<1>3. n = None \/ n = [w |-> n.w, h |-> n.h, px |-> n.px]
  BY <1>2, DrawnPixels
<1>4. ASSUME InLine(c)
      PROVE  Line(Shown(n), Tail(decoding[c]), inbox[c], Arriving(cast["loop"], c), image, version)
  BY <1>1, <1>2, <1>4, LineDrawn DEF InLine
<1>5. Queue(Tail(decoding[c]))
  BY <1>1, <1>2, QueueTail
<1> HIDE DEF n
<1>6. /\ canvas'[c] = n /\ decoding'[c] = Tail(decoding[c])
      /\ \A d \in Clients : d # c => canvas'[d] = canvas[d] /\ decoding'[d] = decoding[d]
  BY <1>1, <1>2
<1>7. InLine(c) => InLine(c)'
  BY <1>1, <1>4, <1>6 DEF InLine, fbVars
<1>8. \A d \in Clients : d # c /\ InLine(d) => InLine(d)'
  BY <1>1, <1>6 DEF InLine, fbVars
<1>9. PagesShape'
  BY <1>1, <1>2, <1>3, <1>5, <1>6 DEF InOrder, PagesShape
<1> QED BY <1>1, <1>7, <1>8, <1>9 DEF InOrder, ImageShape, NoFrames, fbVars

LEMMA RejectSorts ==
  ASSUME Inv, InOrder, NEW c \in Clients, Reject(c)
  PROVE  InOrder'
<1>1. UNCHANGED <<fbVars, decoding, canvas, cast, events, batch, forces, inbox>>
  BY DEF Reject, ServerFrame, serverVars, stateVars
<1> QED BY <1>1, EventsSort

LEMMA ConnectionSorts ==
  ASSUME Inv, InOrder, NEW c \in Clients, ConnectionStep(c)
  PROVE  InOrder'
<1>1. /\ UNCHANGED <<fbVars, decoding, canvas, cast, events, batch, forces>>
      /\ inbox' = inbox \/ inbox' = [inbox EXCEPT ![c] = <<>>]
  BY DEF ConnectionStep, Stall, Thaw, Close, PingTimeout, GiveUp, Closed, ServerFrame, serverVars, stateVars, pageVars
<1>2. \A d \in Clients : inbox'[d] = inbox[d] \/ inbox'[d] = <<>>
  BY <1>1 DEF Inv, Shape
<1>3. ASSUME NEW d \in Clients, InLine(d) PROVE InLine(d)'
  <2>1. Line(Shown(canvas[d]), decoding[d], inbox'[d], Arriving(cast["loop"], d), image, version)
    BY <1>2, <1>3, LineLess DEF InLine
  <2> QED BY <1>1, <2>1 DEF InLine, fbVars
<1> QED BY <1>1, <1>3 DEF InOrder, PagesShape, ImageShape, NoFrames, fbVars
-----------------------------------------------------------------------------
LEMMA InitSorts == ASSUME Init PROVE InOrder
<1>1. PagesShape /\ ImageShape /\ NoFrames(events) /\ NoFrames(batch)
  BY EmptyQueue DEF Init, FrameInit, PagesShape, ImageShape, NoFrames
<1>2. \A c \in Clients : cast[c] = None /\ InLine(c)
  BY DEF Init, Tasks, InLine, Line, Sorted, AllOf, Shown, FramesIn, Arriving
<1> QED BY <1>1, <1>2, BoundsAssumption DEF InOrder, Init

LEMMA StepSorts ==
  ASSUME NoneIsNoCast, Inv, InOrder, [Next]_vars
  PROVE  InOrder'
<1>1. CASE UNCHANGED vars
  BY <1>1, EventsSort DEF vars, serverVars, stateVars, pageVars
<1>2. CASE \E t \in Setters : SetState(t) \/ ReadState(t) \/ QueueState(t)
  BY <1>2, SettersSort
<1>3. CASE \E t \in Tasks : CastStep(t)
  BY <1>3, SendNextSorts DEF CastStep
<1>4. ASSUME NEW c \in Clients,
             \/ Connect(c) \/ HandlerStep(c) \/ ForceFullFrame(c)
             \/ Receive(c) \/ Draw(c) \/ Reject(c) \/ ConnectionStep(c)
      PROVE  InOrder'
  BY <1>4, HandlersSort, ForceSorts, ReceiveSorts, DrawSorts, RejectSorts, ConnectionSorts
<1> QED BY <1>1, <1>2, <1>3, <1>4, PaintSorts, LoopSorts DEF Next

\* While nobody forces a full frame, whatever a page draws is no older, pixel by
\* pixel, than what it shows: however keyframe, partial updates and changes of the
\* video mode interleave with it and with other pages (framebuffer.py: take_update;
\* webserver.py: _ws_handler, _broadcast; index.html: the frameQueue).
THEOREM NeverOlder ==
  ASSUME NoneIsNoCast
  PROVE  Spec => NeverBackwards
<1>1. Init => Inv /\ InOrder
  BY InitInforms, InitSorts
<1>2. Inv /\ InOrder /\ [Next]_vars => Inv' /\ InOrder'
  BY StepInforms, StepSorts
<1>3. Inv /\ InOrder /\ [Next]_vars =>
        [\A c \in Clients :
           (forces = MaxForces /\ canvas[c] # None /\ canvas'[c] # None
              /\ DOMAIN canvas[c].px = DOMAIN canvas'[c].px)
           => \A p \in DOMAIN canvas[c].px : canvas[c].px[p] <= canvas'[c].px[p]]_vars
  <2> SUFFICES ASSUME InOrder, Next, NEW c \in Clients, forces = MaxForces,
                      canvas[c] # None, canvas'[c] # None,
                      DOMAIN canvas[c].px = DOMAIN canvas'[c].px,
                      NEW p \in DOMAIN canvas[c].px
               PROVE  canvas[c].px[p] <= canvas'[c].px[p]
    OBVIOUS
  <2>1. InLine(c)
    BY DEF InOrder
  <2>2. CASE Draw(c)
    <3>1. /\ decoding[c] # <<>> /\ Queue(decoding[c])
          /\ canvas[c] = [w |-> canvas[c].w, h |-> canvas[c].h, px |-> canvas[c].px]
          /\ canvas'[c] = Drawn(canvas[c], Head(decoding[c]))
      BY <2>2 DEF Draw, Draws, InOrder, PagesShape
    <3>2. Older(canvas[c], canvas'[c])
      BY <2>1, <3>1, LineDrawn DEF InLine
    <3> QED BY <3>2 DEF Older
  <2>3. CASE canvas'[c] = canvas[c]
    <3>1. Painted(canvas[c], image, version)
      BY <2>1 DEF InLine, Line, AllOf, Shown
    <3> QED BY <2>3, <3>1 DEF Painted
  <2>4. Draw(c) \/ canvas'[c] = canvas[c]
    <3>1. CASE \E d \in Clients : Draw(d)
      BY <3>1 DEF Draw, InOrder, PagesShape
    <3>2. CASE ~\E d \in Clients : Draw(d)
      BY <3>2 DEF Next, Paint, SetState, ReadState, QueueState, LoopStep, Wake, Drain, NextEvent,
                  LoopFrame, CastStep, SendNext, Connect, HandlerStep, KeyframeSent, Greet, Leave,
                  ForceFullFrame, Receive, Reject, ConnectionStep, Stall, Thaw, Close,
                  PingTimeout, GiveUp, Closed, pageVars
    <3> QED BY <3>1, <3>2
  <2> QED BY <2>2, <2>3, <2>4
<1> QED BY <1>1, <1>2, <1>3, PTL DEF Spec, NeverBackwards
=============================================================================
