------------------------- MODULE WebPicturesProofs -------------------------
(***************************************************************************)
(* The third promise to the browsers: once nothing is on its way, a page     *)
(* shows exactly what the decoder painted.  It is kept by behaviours in     *)
(* which no part of the image that begins at (0, 0) is sent on its own: a   *)
(* page takes such a part for the whole of a new video mode (index.html:     *)
(* drawFrame), which is what the run `topleft` shows.                        *)
(*                                                                         *)
(* The argument follows the picture a page comes to show when it has drawn   *)
(* all that is on its way to it.  That picture needs no recursion: it is the  *)
(* end of a row of pictures, each drawn upon the one before.                 *)
(***************************************************************************)
EXTENDS WebClientsProofs

NoneIsNoRecord ==
  /\ NoneIsNoCast
  /\ \A w, h, px : None # [w |-> w, h |-> h, px |-> px]
  /\ \A x0, y0, x1, y1 : None # [x0 |-> x0, y0 |-> y0, x1 |-> x1, y1 |-> y1]

\* Video modes and tiles are given in pixels.
InPixels == Sizes \cup Corners \subseteq Nat \X Nat

AtOrigin(u) == u.x = 0 /\ u.y = 0

\* The loop takes an update that begins at (0, 0) and is not the whole image.
Trims ==
  Wake /\ clients # {} /\ HasUpdate /\ AtOrigin(Update) /\ Update # FullSnapshot
-----------------------------------------------------------------------------
(* Pictures, and what drawing makes of them.                                *)

Picture(v) ==
  /\ v = [w |-> v.w, h |-> v.h, px |-> v.px]
  /\ v.px = [p \in Pixels(v.w, v.h) |-> v.px[p]]

Cut(u) == AtOrigin(u) => u.px = [p \in Pixels(u.w, u.h) |-> u.px[p]]

LEMMA DrawnWhole ==
  ASSUME NEW cv, cv = None \/ Picture(cv), NEW u, AtOrigin(u), Cut(u)
  PROVE  Drawn(cv, u) = [w |-> u.w, h |-> u.h, px |-> u.px]
<1>1. CASE cv = None \/ cv.w # u.w \/ cv.h # u.h
  BY <1>1 DEF Drawn, AtOrigin
<1>2. CASE cv # None /\ cv.w = u.w /\ cv.h = u.h
  <2> DEFINE n == [p \in DOMAIN cv.px |-> IF p \in DOMAIN u.px THEN u.px[p] ELSE cv.px[p]]
             w == u.w
             h == u.h
             x == cv.px
  <2>1. u.px = [p \in Pixels(w, h) |-> u.px[p]] /\ DOMAIN cv.px = Pixels(w, h)
    BY <1>2 DEF Cut, Picture
  <2>2. n = u.px
    BY <2>1
  <2>3. cv = [w |-> w, h |-> h, px |-> x] /\ Drawn(cv, u) = [cv EXCEPT !.px = n]
    BY <1>2 DEF Drawn, Picture
  <2> HIDE DEF n, w, h, x
  <2>4. Drawn(cv, u) = [w |-> w, h |-> h, px |-> n]
    BY <2>3
  <2> QED BY <2>2, <2>4 DEF w, h
<1> QED BY <1>1, <1>2

LEMMA DrawnPart ==
  ASSUME NEW cv, Picture(cv), cv # None, NEW u, ~AtOrigin(u)
  PROVE  Drawn(cv, u) = [w |-> cv.w, h |-> cv.h, px |-> [p \in Pixels(cv.w, cv.h) |->
                           IF p \in DOMAIN u.px THEN u.px[p] ELSE cv.px[p]]]
<1> DEFINE n == [p \in DOMAIN cv.px |-> IF p \in DOMAIN u.px THEN u.px[p] ELSE cv.px[p]]
           w == cv.w
           h == cv.h
           x == cv.px
<1>1. cv = [w |-> w, h |-> h, px |-> x] /\ Drawn(cv, u) = [cv EXCEPT !.px = n]
  BY DEF Drawn, AtOrigin, Picture
<1>2. DOMAIN x = Pixels(w, h)
  BY DEF Picture
<1>3. n = [p \in Pixels(w, h) |-> IF p \in DOMAIN u.px THEN u.px[p] ELSE cv.px[p]]
  BY <1>2
<1> HIDE DEF n, w, h, x
<1>4. Drawn(cv, u) = [w |-> w, h |-> h, px |-> n]
  BY <1>1
<1> QED BY <1>3, <1>4 DEF w, h

LEMMA DrawnPicture ==
  ASSUME NEW cv, cv = None \/ Picture(cv), NEW u, Cut(u)
  PROVE  Drawn(cv, u) = None \/ Picture(Drawn(cv, u))
<1> DEFINE n == Drawn(cv, u)
<1>1. CASE AtOrigin(u)
  <2> DEFINE w == u.w
             h == u.h
             x == u.px
  <2>1. n = [w |-> w, h |-> h, px |-> x] /\ x = [p \in Pixels(w, h) |-> x[p]]
    BY <1>1, DrawnWhole DEF Cut
  <2> HIDE DEF n, w, h, x
  <2>2. n.w = w /\ n.h = h /\ n.px = x
    BY <2>1
  <2>3. Picture(n)
    BY <2>1, <2>2 DEF Picture
  <2> QED BY <2>3 DEF n
<1>2. CASE ~AtOrigin(u) /\ cv # None
  <2> DEFINE w == cv.w
             h == cv.h
             x == [p \in Pixels(w, h) |-> IF p \in DOMAIN u.px THEN u.px[p] ELSE cv.px[p]]
  <2>1. n = [w |-> w, h |-> h, px |-> x] /\ x = [p \in Pixels(w, h) |-> x[p]]
    BY <1>2, DrawnPart
  <2> HIDE DEF n, w, h, x
  <2>2. n.w = w /\ n.h = h /\ n.px = x
    BY <2>1
  <2>3. Picture(n)
    BY <2>1, <2>2 DEF Picture
  <2> QED BY <2>3 DEF n
<1>3. CASE ~AtOrigin(u) /\ cv = None
  BY <1>3 DEF Drawn, AtOrigin
<1> QED BY <1>1, <1>2, <1>3
-----------------------------------------------------------------------------
(* The picture at the end of what is on its way.                            *)

Taken(cv, m) == IF m.kind = "frame" THEN Drawn(cv, m.update) ELSE cv

\* h leads from the canvas cv over the frames d and the messages q to v.
Row(h, cv, d, q, v) ==
  /\ h[0] = cv
  /\ \A i \in 1..Len(d) : h[i] = Drawn(h[i - 1], d[i])
  /\ \A j \in 1..Len(q) : h[Len(d) + j] = Taken(h[Len(d) + j - 1], q[j])
  /\ h[Len(d) + Len(q)] = v
Yields(cv, d, q, v) == \E h : Row(h, cv, d, q, v)

LEMMA YieldsNothing ==
  ASSUME NEW cv
  PROVE  Yields(cv, <<>>, <<>>, cv) /\ \A v : Yields(cv, <<>>, <<>>, v) => v = cv
<1>1. Row([i \in {0} |-> cv], cv, <<>>, <<>>, cv)
  BY EmptyQueue DEF Row
<1>2. \A v : Yields(cv, <<>>, <<>>, v) => v = cv
  BY EmptyQueue DEF Yields, Row
<1> QED BY <1>1, <1>2 DEF Yields

LEMMA YieldsSent ==
  ASSUME NEW cv, NEW d, Queue(d), NEW q, Queue(q), NEW v, Yields(cv, d, q, v), NEW m
  PROVE  Yields(cv, d, Append(q, m), Taken(v, m))
<1> DEFINE a == Len(d)
           b == Len(q)
           p == Append(q, m)
<1>1. PICK h : Row(h, cv, d, q, v)
  BY DEF Yields
<1>2. a \in Nat /\ b \in Nat /\ Len(p) = b + 1 /\ p[b + 1] = m /\ \A i \in 1..b : p[i] = q[i]
  BY QueueDomain, QueueAppend
<1> HIDE DEF p
<1> DEFINE g == [i \in 0..(a + b + 1) |-> IF i = a + b + 1 THEN Taken(v, m) ELSE h[i]]
<1>3. g[0] = cv /\ g[a + b + 1] = Taken(v, m) /\ g[a + b] = v
  BY <1>1, <1>2 DEF Row
<1>4. ASSUME NEW i \in 1..a PROVE g[i] = Drawn(g[i - 1], d[i])
  BY <1>1, <1>2 DEF Row
<1>5. ASSUME NEW j \in 1..(b + 1) PROVE g[a + j] = Taken(g[a + j - 1], p[j])
  <2>1. CASE j = b + 1
    <3>1. a + j = a + b + 1 /\ a + j - 1 = a + b
      BY <1>2, <2>1
    <3> HIDE DEF g
    <3> QED BY <1>2, <1>3, <2>1, <3>1
  <2>2. CASE j \in 1..b
    <3>1. h[a + j] = Taken(h[a + j - 1], q[j]) /\ p[j] = q[j]
      BY <1>1, <1>2, <2>2 DEF Row
    <3>2. g[a + j] = h[a + j] /\ g[a + j - 1] = h[a + j - 1]
      BY <1>2, <2>2
    <3> QED BY <3>1, <3>2
  <2> QED BY <1>2, <2>1, <2>2
<1>6. a + Len(p) = a + b + 1
  BY <1>2
<1> HIDE DEF g
<1>7. Row(g, cv, d, p, Taken(v, m))
  BY <1>2, <1>3, <1>4, <1>5, <1>6 DEF Row
<1> QED BY <1>7 DEF Yields, p

LEMMA YieldsDrawn ==
  ASSUME NEW cv, NEW d, Queue(d), d # <<>>, NEW q, Queue(q), NEW v, Yields(cv, d, q, v)
  PROVE  Yields(Drawn(cv, Head(d)), Tail(d), q, v)
<1> DEFINE a == Len(d)
           b == Len(q)
           e == Tail(d)
<1>1. PICK h : Row(h, cv, d, q, v)
  BY DEF Yields
<1>2. /\ a \in Nat /\ a # 0 /\ b \in Nat /\ Len(e) = a - 1 /\ Head(d) = d[1]
      /\ \A i \in 1..(a - 1) : e[i] = d[i + 1]
  BY QueueDomain, QueueTail
<1> HIDE DEF e
<1> DEFINE g == [i \in 0..(a + b - 1) |-> h[i + 1]]
<1>3. g[0] = Drawn(cv, Head(d)) /\ g[a - 1 + b] = v
  <2>1. h[1] = Drawn(h[1 - 1], d[1]) /\ h[0] = cv /\ h[a + b] = v
    BY <1>1, <1>2 DEF Row
  <2>2. g[0] = h[1] /\ g[a - 1 + b] = h[a + b]
    BY <1>2
  <2> QED BY <1>2, <2>1, <2>2
<1>4. ASSUME NEW i \in 1..(a - 1) PROVE g[i] = Drawn(g[i - 1], e[i])
  <2>1. h[i + 1] = Drawn(h[i + 1 - 1], d[i + 1])
    BY <1>1, <1>2 DEF Row
  <2>2. g[i] = h[i + 1] /\ g[i - 1] = h[i + 1 - 1] /\ e[i] = d[i + 1]
    BY <1>2
  <2> QED BY <2>1, <2>2
<1>5. ASSUME NEW j \in 1..b PROVE g[a - 1 + j] = Taken(g[a - 1 + j - 1], q[j])
  <2>1. h[a + j] = Taken(h[a + j - 1], q[j])
    BY <1>1, <1>2 DEF Row
  <2>2. g[a - 1 + j] = h[a + j] /\ g[a - 1 + j - 1] = h[a + j - 1]
    BY <1>2
  <2> QED BY <2>1, <2>2
<1> HIDE DEF g
<1>6. Row(g, Drawn(cv, Head(d)), e, q, v)
  BY <1>2, <1>3, <1>4, <1>5 DEF Row
<1> QED BY <1>6 DEF Yields, e

LEMMA YieldsReceived ==
  ASSUME NEW cv, NEW d, Queue(d), NEW q, Queue(q), q # <<>>, NEW v, Yields(cv, d, q, v),
         NEW e, e = IF Head(q).kind = "frame" THEN Append(d, Head(q).update) ELSE d
  PROVE  Yields(cv, e, Tail(q), v)
<1> DEFINE a == Len(d)
           b == Len(q)
           p == Tail(q)
           m == q[1]
<1>1. PICK h : Row(h, cv, d, q, v)
  BY DEF Yields
<1>2. /\ a \in Nat /\ b \in Nat /\ b # 0 /\ Len(p) = b - 1 /\ Head(q) = m
      /\ \A j \in 1..(b - 1) : p[j] = q[j + 1]
  BY QueueDomain, QueueTail
<1>3. /\ h[0] = cv /\ h[a + b] = v
      /\ \A i \in 1..a : h[i] = Drawn(h[i - 1], d[i])
      /\ h[a + 1] = Taken(h[a], m)
  <2>1. h[a + 1] = Taken(h[a + 1 - 1], q[1]) /\ a + 1 - 1 = a
    BY <1>1, <1>2 DEF Row
  <2> QED BY <1>1, <2>1 DEF Row
<1>4. ASSUME NEW j \in 1..(b - 1) PROVE h[a + 1 + j] = Taken(h[a + 1 + j - 1], p[j])
  <2>1. h[a + (j + 1)] = Taken(h[a + (j + 1) - 1], q[j + 1])
    BY <1>1, <1>2 DEF Row
  <2>2. a + 1 + j = a + (j + 1) /\ a + 1 + j - 1 = a + (j + 1) - 1 /\ p[j] = q[j + 1]
    BY <1>2
  <2> QED BY <2>1, <2>2
<1>5. CASE m.kind = "frame"
  <2>1. /\ e = Append(d, m.update) /\ Len(e) = a + 1 /\ e[a + 1] = m.update
        /\ \A i \in 1..a : e[i] = d[i]
    BY <1>2, <1>5, QueueAppend
  <2>2. ASSUME NEW i \in 1..(a + 1) PROVE h[i] = Drawn(h[i - 1], e[i])
    <3>1. CASE i = a + 1
      <4>1. i - 1 = a
        BY <1>2, <3>1
      <4> QED BY <1>3, <1>5, <2>1, <3>1, <4>1 DEF Taken
    <3>2. CASE i \in 1..a
      BY <1>3, <2>1, <3>2
    <3> QED BY <1>2, <3>1, <3>2
  <2>3. Len(e) + Len(p) = a + b
    BY <1>2, <2>1
  <2> HIDE DEF p, m
  <2>4. Row(h, cv, e, p, v)
    BY <1>2, <1>3, <1>4, <2>1, <2>2, <2>3 DEF Row
  <2> QED BY <2>4 DEF Yields, p
<1>6. CASE m.kind # "frame"
  <2> DEFINE g == [i \in 0..(a + b - 1) |-> IF i <= a THEN h[i] ELSE h[i + 1]]
  <2>1. e = d /\ h[a + 1] = h[a]
    BY <1>2, <1>3, <1>6 DEF Taken
  <2>2. g[0] = cv
    BY <1>2, <1>3
  <2>3. g[a + (b - 1)] = v
    <3>1. CASE b = 1
      BY <1>2, <1>3, <2>1, <3>1
    <3>2. CASE b > 1
      <4>1. a + (b - 1) \in 0..(a + b - 1) /\ ~(a + (b - 1) <= a) /\ a + (b - 1) + 1 = a + b
        BY <1>2, <3>2
      <4> QED BY <1>3, <4>1
    <3> QED BY <1>2, <3>1, <3>2
  <2>4. ASSUME NEW i \in 1..a PROVE g[i] = Drawn(g[i - 1], d[i])
    <3>1. g[i] = h[i] /\ g[i - 1] = h[i - 1]
      BY <1>2
    <3> QED BY <1>3, <3>1
  <2>5. ASSUME NEW j \in 1..(b - 1) PROVE g[a + j] = Taken(g[a + j - 1], p[j])
    <3>1. g[a + j] = h[a + 1 + j]
      <4>1. a + j \in 0..(a + b - 1) /\ ~(a + j <= a) /\ a + j + 1 = a + 1 + j
        BY <1>2
      <4> QED BY <4>1
    <3>2. g[a + j - 1] = h[a + 1 + j - 1]
      <4>1. CASE j = 1
        <5>1. a + j - 1 = a /\ a + 1 + j - 1 = a + 1 /\ a \in 0..(a + b - 1) /\ a <= a
          BY <1>2, <4>1
        <5> QED BY <2>1, <5>1
      <4>2. CASE j > 1
        <5>1. a + j - 1 \in 0..(a + b - 1) /\ ~(a + j - 1 <= a) /\ a + j - 1 + 1 = a + 1 + j - 1
          BY <1>2, <4>2
        <5> QED BY <5>1
      <4> QED BY <1>2, <4>1, <4>2
    <3> QED BY <1>4, <3>1, <3>2
  <2> HIDE DEF g, p, m
  <2>6. Row(g, cv, d, p, v)
    BY <1>2, <2>2, <2>3, <2>4, <2>5 DEF Row
  <2> QED BY <2>1, <2>6 DEF Yields, p
<1> QED BY <1>5, <1>6
-----------------------------------------------------------------------------
(* What that picture has to do with the image: `late` says that an update   *)
(* overtook a full frame, `full` and `box` are what the consumer is told.   *)

OutOf(box, p) == box = None \/ ~Inside(box, p)

\* An update agrees with the image, as far as the box is not dirty again.
Fresh(u, im, box) ==
  /\ AtOrigin(u) => u.w = im.w /\ u.h = im.h
  /\ \A p \in DOMAIN u.px :
       p \in Pixels(im.w, im.h) /\ (OutOf(box, p) => u.px[p] = im.px[p])

Sized(v, im) == v # None /\ v.w = im.w /\ v.h = im.h

\* With the updates P on their way as well, v becomes the image outside of the box.
Complete(v, P, im, box) ==
  /\ Sized(v, im) \/ \E u \in P : AtOrigin(u)
  /\ \A p \in Pixels(im.w, im.h) : OutOf(box, p) =>
       \/ \E u \in P : p \in DOMAIN u.px
       \/ Sized(v, im) /\ v.px[p] = im.px[p]

Known(late, im, full) == ~late /\ im # None /\ ~full

View(cv, d, q, P, late, im, full, box) ==
  \E v : /\ Yields(cv, d, q, v)
         /\ v = None \/ Picture(v)
         /\ Known(late, im, full) => Complete(v, P, im, box)

\* One of the updates P is drawn; Q are left, among them all others.
LEMMA CompleteSent ==
  ASSUME NoneIsNoRecord, NEW v, v = None \/ Picture(v), NEW P, NEW im, NEW box, Complete(v, P, im, box),
         NEW u \in P, NEW Q, Q \subseteq P, P \ {u} \subseteq Q,
         \A x \in P : Fresh(x, im, box) /\ Cut(x)
  PROVE  Complete(Drawn(v, u), Q, im, box)
<1> DEFINE n == Drawn(v, u)
<1>1. CASE AtOrigin(u)
  <2>1. n = [w |-> u.w, h |-> u.h, px |-> u.px] /\ u.px = [p \in Pixels(u.w, u.h) |-> u.px[p]]
    BY <1>1, DrawnWhole DEF Cut
  <2>2. n # None /\ n.w = u.w /\ n.h = u.h /\ n.px = u.px
    BY <2>1 DEF NoneIsNoRecord
  <2>3. u.w = im.w /\ u.h = im.h /\ DOMAIN u.px = Pixels(im.w, im.h)
    BY <1>1, <2>1 DEF Fresh
  <2>4. Sized(n, im)
    BY <2>2, <2>3 DEF Sized
  <2>5. \A p \in Pixels(im.w, im.h) : OutOf(box, p) => n.px[p] = im.px[p]
    BY <2>2, <2>3 DEF Fresh
  <2> QED BY <2>4, <2>5 DEF Complete
<1>2. CASE ~AtOrigin(u) /\ Sized(v, im)
  <2> DEFINE x == [p \in Pixels(v.w, v.h) |-> IF p \in DOMAIN u.px THEN u.px[p] ELSE v.px[p]]
  <2>1. n = [w |-> v.w, h |-> v.h, px |-> x]
    BY <1>2, DrawnPart DEF Sized
  <2>2. \A p \in Pixels(im.w, im.h) : x[p] = IF p \in DOMAIN u.px THEN u.px[p] ELSE v.px[p]
    BY <1>2 DEF Sized
  <2> HIDE DEF n, x
  <2>3. n # None /\ n.w = im.w /\ n.h = im.h /\ n.px = x
    BY <1>2, <2>1 DEF NoneIsNoRecord, Sized
  <2>4. Sized(n, im)
    BY <2>3 DEF Sized
  <2>5. ASSUME NEW p \in Pixels(im.w, im.h), OutOf(box, p)
        PROVE  (\E y \in Q : p \in DOMAIN y.px) \/ n.px[p] = im.px[p]
    <3>1. CASE p \in DOMAIN u.px
      BY <2>2, <2>3, <2>5, <3>1 DEF Fresh
    <3>2. CASE p \notin DOMAIN u.px
      BY <2>2, <2>3, <2>5, <3>2 DEF Complete
    <3> QED BY <3>1, <3>2
  <2> QED BY <2>4, <2>5 DEF Complete, n
<1>3. CASE ~AtOrigin(u) /\ ~Sized(v, im)
  <2>1. PICK y \in P : AtOrigin(y)
    BY <1>3 DEF Complete
  <2>2. y \in Q
    BY <1>3, <2>1
  <2>3. DOMAIN y.px = Pixels(im.w, im.h)
    <3>1. y.px = [p \in Pixels(y.w, y.h) |-> y.px[p]]
      BY <2>1 DEF Cut
    <3> QED BY <2>1, <3>1 DEF Fresh
  <2> QED BY <2>1, <2>2, <2>3 DEF Complete
<1> QED BY <1>1, <1>2, <1>3

LEMMA ViewSent ==
  ASSUME NoneIsNoRecord, NEW cv, NEW d, Queue(d), NEW q, Queue(q), NEW P, NEW late, NEW im, NEW full,
         NEW box, View(cv, d, q, P, late, im, full, box),
         NEW m, m.kind = "frame", m.update \in P, \A x \in P : Cut(x),
         Known(late, im, full) => \A x \in P : Fresh(x, im, box),
         NEW Q, Q \subseteq P, P \ {m.update} \subseteq Q
  PROVE  View(cv, d, Append(q, m), Q, late, im, full, box)
<1> DEFINE u == m.update
<1>1. PICK v : /\ Yields(cv, d, q, v)
               /\ v = None \/ Picture(v)
               /\ Known(late, im, full) => Complete(v, P, im, box)
  BY DEF View
<1>2. Yields(cv, d, Append(q, m), Taken(v, m)) /\ Taken(v, m) = Drawn(v, u)
  BY <1>1, YieldsSent DEF Taken
<1>3. Drawn(v, u) = None \/ Picture(Drawn(v, u))
  BY <1>1, DrawnPicture
<1>4. Known(late, im, full) => Complete(Drawn(v, u), Q, im, box)
  BY <1>1, CompleteSent
<1> QED BY <1>2, <1>3, <1>4 DEF View

\* A message that is no frame.
LEMMA ViewBeside ==
  ASSUME NEW cv, NEW d, Queue(d), NEW q, Queue(q), NEW P, NEW late, NEW im, NEW full,
         NEW box, View(cv, d, q, P, late, im, full, box), NEW m, m.kind # "frame"
  PROVE  View(cv, d, Append(q, m), P, late, im, full, box)
<1>1. PICK v : /\ Yields(cv, d, q, v)
               /\ v = None \/ Picture(v)
               /\ Known(late, im, full) => Complete(v, P, im, box)
  BY DEF View
<1>2. Yields(cv, d, Append(q, m), v)
  <2>1. Yields(cv, d, Append(q, m), Taken(v, m)) /\ Taken(v, m) = v
    BY <1>1, YieldsSent DEF Taken
  <2> QED BY <2>1
<1> QED BY <1>1, <1>2 DEF View

\* The page draws, or receives: what it comes to show is the same.
LEMMA ViewDrawn ==
  ASSUME NEW cv, NEW d, Queue(d), d # <<>>, NEW q, Queue(q), NEW P, NEW late, NEW im, NEW full,
         NEW box, View(cv, d, q, P, late, im, full, box)
  PROVE  View(Drawn(cv, Head(d)), Tail(d), q, P, late, im, full, box)
BY YieldsDrawn DEF View

LEMMA ViewReceived ==
  ASSUME NEW cv, NEW d, Queue(d), NEW q, Queue(q), q # <<>>, NEW P, NEW late, NEW im, NEW full,
         NEW box, View(cv, d, q, P, late, im, full, box),
         NEW e, e = IF Head(q).kind = "frame" THEN Append(d, Head(q).update) ELSE d
  PROVE  View(cv, e, Tail(q), P, late, im, full, box)
BY YieldsReceived DEF View

\* The image is painted within what becomes dirty.
Paints(im, box, jm, cox) ==
  /\ jm.w = im.w /\ jm.h = im.h
  /\ \A p \in Pixels(im.w, im.h) : OutOf(cox, p) => OutOf(box, p) /\ jm.px[p] = im.px[p]

LEMMA FreshPainted ==
  ASSUME NEW u, NEW im, NEW box, Fresh(u, im, box), NEW jm, NEW cox, Paints(im, box, jm, cox)
  PROVE  Fresh(u, jm, cox)
BY DEF Fresh, Paints

LEMMA ViewPainted ==
  ASSUME NEW cv, NEW d, NEW q, NEW P, NEW late, NEW im, NEW full, NEW box,
         View(cv, d, q, P, late, im, full, box), NEW jm, NEW cox, im # None, Paints(im, box, jm, cox)
  PROVE  View(cv, d, q, P, late, jm, full, cox)
<1>1. PICK v : /\ Yields(cv, d, q, v)
               /\ v = None \/ Picture(v)
               /\ Known(late, im, full) => Complete(v, P, im, box)
  BY DEF View
<1>2. ASSUME Known(late, jm, full) PROVE Complete(v, P, jm, cox)
  <2>1. Complete(v, P, im, box)
    BY <1>1, <1>2 DEF Known
  <2> QED BY <2>1 DEF Complete, Paints, Sized
<1> QED BY <1>1, <1>2 DEF View

\* Nothing is asked of a page that is late, or before an update is taken.
LEMMA ViewUnknown ==
  ASSUME NEW cv, NEW d, NEW q, NEW P, NEW late, NEW im, NEW full, NEW box,
         View(cv, d, q, P, late, im, full, box),
         NEW Q, NEW soon, NEW jm, NEW more, NEW cox, ~Known(soon, jm, more)
  PROVE  View(cv, d, q, Q, soon, jm, more, cox)
BY DEF View

\* The whole image is on its way.
LEMMA ViewWhole ==
  ASSUME NEW cv, NEW d, NEW q, NEW P, NEW late, NEW im, NEW full, NEW box,
         View(cv, d, q, P, late, im, full, box),
         NEW Q, NEW soon, NEW more, NEW cox,
         NEW u \in Q, AtOrigin(u), DOMAIN u.px = Pixels(im.w, im.h)
  PROVE  View(cv, d, q, Q, soon, im, more, cox)
<1>1. PICK v : /\ Yields(cv, d, q, v)
               /\ v = None \/ Picture(v)
  BY DEF View
<1>2. Complete(v, Q, im, cox)
  BY DEF Complete
<1> QED BY <1>1, <1>2 DEF View

\* The dirty box is on its way; nothing is dirty any more.
LEMMA ViewBox ==
  ASSUME NEW cv, NEW d, NEW q, NEW late, NEW im, NEW box,
         View(cv, d, q, {}, late, im, FALSE, box),
         NEW soon, late => soon, NEW u,
         \A p \in Pixels(im.w, im.h) : ~OutOf(box, p) => p \in DOMAIN u.px
  PROVE  View(cv, d, q, {u}, soon, im, FALSE, None)
<1>1. PICK v : /\ Yields(cv, d, q, v)
               /\ v = None \/ Picture(v)
               /\ Known(late, im, FALSE) => Complete(v, {}, im, box)
  BY DEF View
<1>2. ASSUME Known(soon, im, FALSE) PROVE Complete(v, {u}, im, None)
  <2>1. Complete(v, {}, im, box)
    BY <1>1, <1>2 DEF Known
  <2> QED BY <2>1 DEF Complete
<1> QED BY <1>1, <1>2 DEF View
-----------------------------------------------------------------------------
(* The inductive invariant, beside Inv and InOrder.                         *)

\* The updates that broadcasts under way have for c.
Coming(K, c) == UNION {Arriving(K[t], c) : t \in Tasks}

PictureTypes ==
  /\ image # None => Picture(image) /\ image.w \in Nat /\ image.h \in Nat
  /\ dirty # None => dirty \in Boxes
  /\ needsFull \in BOOLEAN
  /\ behind = [c \in Clients |-> behind[c]]

Attended ==
  /\ \A c \in Clients : Open(c) => handler[c] \in {"keyframe", "greet", "serve", "force"}
  /\ \A c \in Clients : conn[c] = "new"
       => canvas[c] = None /\ decoding[c] = <<>> /\ inbox[c] = <<>>

\* What the loop broadcasts agrees with the image; so does a forced frame, for the
\* pages that no update has overtaken.
Carried ==
  \A t \in Tasks, c \in Clients : \A u \in Arriving(cast[t], c) :
    /\ Cut(u)
    /\ Known(behind[c] /\ t # "loop", image, needsFull) => Fresh(u, image, dirty)

Sees(c) ==
  View(canvas[c], decoding[c], inbox[c], Coming(cast, c), behind[c], image, needsFull, dirty)

Pictured ==
  /\ PictureTypes /\ Attended /\ Carried
  /\ \A c \in Clients : Open(c) => Sees(c)

LEMMA SameComing ==
  ASSUME NEW K, NEW L, NEW c, \A t \in Tasks : Arriving(K[t], c) = Arriving(L[t], c)
  PROVE  Coming(K, c) = Coming(L, c)
BY DEF Coming

\* A step that no picture takes part in.
LEMMA SamePictures ==
  ASSUME Pictured, UNCHANGED <<fbVars, behind, cast, conn, handler, decoding, canvas, inbox>>
  PROVE  Pictured'
BY DEF Pictured, PictureTypes, Attended, Carried, Sees, fbVars, Open

\* A rectangle of the image, and the whole of it.
LEMMA Cropped ==
  ASSUME PictureTypes, image # None, NEW box
  PROVE  /\ DOMAIN Crop(box).px = {q \in Pixels(image.w, image.h) : Inside(box, q)}
         /\ \A p \in DOMAIN Crop(box).px : Crop(box).px[p] = image.px[p]
BY DEF Crop

LEMMA WholeCropped ==
  ASSUME PictureTypes, image # None
  PROVE  LET u == FullSnapshot
         IN  /\ AtOrigin(u) /\ Cut(u) /\ u.w = image.w /\ u.h = image.h
             /\ DOMAIN u.px = Pixels(image.w, image.h)
             /\ \A box : Fresh(u, image, box)
<1> DEFINE u == FullSnapshot
           w == image.w
           h == image.h
<1>1. w \in Nat /\ h \in Nat
  BY DEF PictureTypes
<1>2. \A q \in Pixels(w, h) : Inside(Whole, q)
  BY <1>1 DEF Pixels, Inside, Whole
<1>3. u.x = 0 /\ u.y = 0 /\ u.w = w /\ u.h = h
  <2>1. w - 0 = w /\ h - 0 = h
    BY <1>1
  <2> QED BY <2>1 DEF FullSnapshot, Crop, Whole
<1>4. u.px = [p \in {q \in Pixels(w, h) : Inside(Whole, q)} |-> image.px[p]]
  BY DEF FullSnapshot, Crop
<1>5. {q \in Pixels(w, h) : Inside(Whole, q)} = Pixels(w, h)
  BY <1>2
<1>6. u.px = [p \in Pixels(w, h) |-> image.px[p]]
  BY <1>4, <1>5
<1> HIDE DEF u
<1>7. DOMAIN u.px = Pixels(w, h) /\ \A p \in Pixels(w, h) : u.px[p] = image.px[p]
  BY <1>6
<1>8. Cut(u)
  BY <1>3, <1>6, <1>7 DEF Cut
<1>9. \A box : Fresh(u, image, box)
  BY <1>3, <1>7 DEF Fresh
<1> QED BY <1>3, <1>7, <1>8, <1>9 DEF u, AtOrigin
-----------------------------------------------------------------------------
(* Painting.                                                                *)

LEMMA BoxGrows ==
  ASSUME dirty = None \/ dirty \in Boxes, NEW box \in Boxes, Grown(box) # None
  PROVE  /\ Grown(box) \in Boxes
         /\ \A a, b \in Nat : OutOf(Grown(box), <<a, b>>)
                             => OutOf(dirty, <<a, b>>) /\ ~Inside(box, <<a, b>>)
<1>1. CASE dirty = None
  BY <1>1 DEF Grown, OutOf
<1>2. CASE dirty # None
  <2> DEFINE g == [x0 |-> Lesser(dirty.x0, box.x0), y0 |-> Lesser(dirty.y0, box.y0),
                   x1 |-> Greater(dirty.x1, box.x1), y1 |-> Greater(dirty.y1, box.y1)]
  <2>1. Grown(box) = g
    BY <1>2 DEF Grown
  <2>2. /\ dirty.x0 \in Nat /\ dirty.y0 \in Nat /\ dirty.x1 \in Nat /\ dirty.y1 \in Nat
        /\ box.x0 \in Nat /\ box.y0 \in Nat /\ box.x1 \in Nat /\ box.y1 \in Nat
    BY <1>2 DEF Boxes
  <2>3. /\ g.x0 \in Nat /\ g.x0 <= dirty.x0 /\ g.x0 <= box.x0
        /\ g.y0 \in Nat /\ g.y0 <= dirty.y0 /\ g.y0 <= box.y0
        /\ g.x1 \in Nat /\ dirty.x1 <= g.x1 /\ box.x1 <= g.x1
        /\ g.y1 \in Nat /\ dirty.y1 <= g.y1 /\ box.y1 <= g.y1
    BY <2>2 DEF Lesser, Greater
  <2>4. g \in Boxes
    BY <2>3 DEF Boxes
  <2> HIDE DEF g
  <2>5. ASSUME NEW a \in Nat, NEW b \in Nat, ~Inside(g, <<a, b>>)
        PROVE  ~Inside(dirty, <<a, b>>) /\ ~Inside(box, <<a, b>>)
    BY <2>2, <2>3, <2>5 DEF Inside
  <2> QED BY <2>1, <2>4, <2>5 DEF OutOf
<1> QED BY <1>1, <1>2

LEMMA PaintPictures ==
  ASSUME NoneIsNoRecord, InPixels, Inv, Pictured, Paint
  PROVE  Pictured'
<1>1. UNCHANGED <<behind, cast, conn, handler, decoding, canvas, inbox>>
  BY DEF Paint, serverVars, pageVars
<1>2. CASE UNCHANGED fbVars
  BY <1>1, <1>2, SamePictures
<1>3. ASSUME NEW s \in Sizes, Resize(s[1], s[2]), ~UNCHANGED fbVars PROVE Pictured'
  <2> DEFINE w == s[1]
             h == s[2]
             x == [p \in Pixels(w, h) |-> version + 1]
  <2>1. /\ image' = [w |-> w, h |-> h, px |-> x]
        /\ dirty' = None /\ needsFull' = TRUE
    BY <1>3 DEF Resize
  <2>2. w \in Nat /\ h \in Nat
    BY DEF InPixels
  <2>3. x = [p \in Pixels(w, h) |-> x[p]]
    OBVIOUS
  <2> HIDE DEF x, w, h
  <2>4. image'.w = w /\ image'.h = h /\ image'.px = x
    BY <2>1
  <2>5. Picture(image') /\ image'.w \in Nat /\ image'.h \in Nat
    BY <2>1, <2>2, <2>3, <2>4 DEF Picture
  <2>6. \A late : ~Known(late, image', needsFull')
    BY <2>1 DEF Known
  <2>7. \A c \in Clients : Sees(c) => Sees(c)'
    BY <1>1, <2>6, ViewUnknown DEF Sees
  <2> QED BY <1>1, <2>1, <2>5, <2>6, <2>7 DEF Pictured, PictureTypes, Attended, Carried, Open
<1>4. ASSUME NEW s \in Corners, PasteBlock(s[1], s[2]), ~UNCHANGED fbVars PROVE Pictured'
  <2> DEFINE w == image.w
             h == image.h
             box == TileBox(s[1], s[2])
             x == [p \in Pixels(w, h) |-> IF Inside(box, p) THEN version + 1 ELSE image.px[p]]
  <2>1. /\ image' = [w |-> w, h |-> h, px |-> x]
        /\ dirty' = Grown(box) /\ needsFull' = needsFull /\ image # None
    BY <1>4 DEF PasteBlock, fbVars
  <2>2. w \in Nat /\ h \in Nat /\ s[1] \in Nat /\ s[2] \in Nat
    BY <2>1 DEF InPixels, Pictured, PictureTypes
  <2>3. box \in Boxes
    BY <2>2, TileAssumption DEF TileBox, Boxes, Lesser
  <2>4. x = [p \in Pixels(w, h) |-> x[p]]
    OBVIOUS
  <2>5. \A p \in Pixels(w, h) : ~Inside(box, p) => x[p] = image.px[p]
    OBVIOUS
  <2> HIDE DEF x, w, h, box
  <2>6. image'.w = w /\ image'.h = h /\ image'.px = x
    BY <2>1
  <2>7. Picture(image') /\ image'.w \in Nat /\ image'.h \in Nat
    BY <2>1, <2>2, <2>4, <2>6 DEF Picture
  <2>8. Grown(box) # None
    BY <2>3 DEF NoneIsNoRecord, Grown, Boxes
  <2>9. /\ dirty' \in Boxes
        /\ \A a, b \in Nat : OutOf(dirty', <<a, b>>)
                            => OutOf(dirty, <<a, b>>) /\ ~Inside(box, <<a, b>>)
    BY <2>1, <2>3, <2>8, BoxGrows DEF Pictured, PictureTypes
  <2>10. ASSUME NEW p \in Pixels(w, h), OutOf(dirty', p)
         PROVE  OutOf(dirty, p) /\ image'.px[p] = image.px[p]
    <3>1. p = <<p[1], p[2]>> /\ p[1] \in Nat /\ p[2] \in Nat
      BY <2>2 DEF Pixels
    <3>2. OutOf(dirty, p) /\ ~Inside(box, p)
      BY <2>9, <2>10, <3>1
    <3> QED BY <2>5, <2>6, <3>2
  <2>11. Paints(image, dirty, image', dirty')
    BY <2>6, <2>10 DEF Paints, w, h
  <2>12. \A late : Known(late, image', needsFull') => Known(late, image, needsFull)
    BY <2>1 DEF Known
  <2>13. Carried'
    <3>1. \A u : Fresh(u, image, dirty) => Fresh(u, image', dirty')
      BY <2>11, FreshPainted
    <3> QED BY <1>1, <2>12, <3>1 DEF Pictured, Carried
  <2>14. \A c \in Clients : Sees(c) => Sees(c)'
    BY <1>1, <2>1, <2>11, ViewPainted DEF Sees
  <2> QED BY <1>1, <2>1, <2>7, <2>9, <2>13, <2>14 DEF Pictured, PictureTypes, Attended, Open
<1> QED BY <1>2, <1>3, <1>4 DEF Paint
-----------------------------------------------------------------------------
(* _broadcast_loop.                                                         *)

LEMMA WakePictures ==
  ASSUME NoneIsNoRecord, Inv, Pictured, Wake, ~Trims
  PROVE  Pictured'
<1>1. UNCHANGED <<clients, handler, conn, inbox, decoding, canvas>> /\ cast["loop"] = None
  BY DEF Wake, LoopFrame, pageVars
<1>2. CASE UNCHANGED <<fbVars, cast, behind>>
  BY <1>1, <1>2, SamePictures
<1>3. CASE clients # {} /\ HasUpdate
  <2> DEFINE u == Update
  <2>1. /\ cast' = [cast EXCEPT !["loop"] = Cast(Frame(u))]
        /\ image' = image /\ needsFull' = FALSE /\ dirty' = None /\ image # None
        /\ behind' = [c \in Clients |-> \/ Awaited(c)
                                        \/ behind[c] /\ ~(needsFull /\ c \in clients)]
    BY <1>3 DEF Wake, TakeUpdate, NoteBehind, HasUpdate
  <2>2. AtOrigin(u) => u = FullSnapshot
    BY <1>3 DEF Trims
  <2>3. Cut(u) /\ Fresh(u, image, None)
    <3>1. CASE AtOrigin(u)
      BY <2>1, <2>2, <3>1, WholeCropped DEF Pictured
    <3>2. CASE ~AtOrigin(u)
      <4> DEFINE box == IF needsFull THEN Whole ELSE dirty
      <4>1. /\ DOMAIN u.px = {q \in Pixels(image.w, image.h) : Inside(box, q)}
            /\ \A p \in DOMAIN u.px : u.px[p] = image.px[p]
        BY <2>1, Cropped DEF Pictured, Update
      <4> HIDE DEF u, box
      <4> QED BY <3>2, <4>1 DEF Cut, Fresh
    <3> QED BY <3>1, <3>2
  <2>4. /\ cast = [t \in Tasks |-> cast[t]] /\ "loop" \in Tasks /\ Clients \subseteq Tasks
        /\ "loop" \notin Clients /\ Tasks = Clients \cup {"loop"}
    BY ClientsAssumption DEF Inv, Shape, Tasks
  <2>5. /\ \A c : Arriving(cast'["loop"], c) = IF c \in clients THEN {u} ELSE {}
        /\ \A d \in Clients : cast'[d] = cast[d]
    <3>1. Frame(u).kind = "frame" /\ Frame(u).update = u
      BY DEF Frame
    <3>2. cast'["loop"] = Cast(Frame(u)) /\ \A d \in Clients : cast'[d] = cast[d]
      BY <2>1, <2>4
    <3> HIDE DEF u
    <3> QED BY <1>3, <3>1, <3>2, CastOf DEF Arriving, NoneIsNoRecord
  <2> HIDE DEF u
  <2>6. ASSUME NEW c \in Clients, ~behind'[c]
        PROVE  /\ handler[c] # "keyframe" /\ (behind[c] => needsFull)
               /\ \A d \in Clients : Arriving(cast[d], c) = {}
    <3>1. ~Awaited(c) /\ (behind[c] => needsFull)
      BY <2>1, <2>6
    <3> QED BY <3>1 DEF Awaited, Arriving
  <2>7. Carried'
    <3>1. ASSUME NEW c \in Clients, NEW x \in Arriving(cast'["loop"], c)
          PROVE  Cut(x) /\ Fresh(x, image', dirty')
      <4>1. x = u
        BY <2>5
      <4> QED BY <2>1, <2>3, <4>1
    <3>2. ASSUME NEW d \in Clients, NEW c \in Clients, NEW x \in Arriving(cast'[d], c)
          PROVE  Cut(x) /\ behind'[c]
      <4>1. x \in Arriving(cast[d], c) /\ Arriving(cast[d], c) # {}
        BY <2>5
      <4> QED BY <2>4, <2>6, <4>1 DEF Pictured, Carried
    <3> QED BY <2>4, <3>1, <3>2 DEF Carried, Known
  <2>8. ASSUME NEW c \in Clients, Open(c) PROVE Sees(c)'
    <3>1. Sees(c)
      BY <2>8 DEF Pictured
    <3>2. CASE behind'[c]
      <4>1. ~Known(behind'[c], image', needsFull')
        BY <3>2 DEF Known
      <4> QED BY <1>1, <3>1, <4>1, ViewUnknown DEF Sees
    <3>3. CASE ~behind'[c]
      <4>1. c \in clients
        BY <2>6, <2>8, <3>3 DEF Pictured, Attended, Inv, Served, Open
      <4>2. Coming(cast', c) = {u}
        BY <2>4, <2>5, <2>6, <3>3, <4>1 DEF Coming
      <4>3. CASE needsFull
        <5>1. u = FullSnapshot
          BY <4>3 DEF u, Update, FullSnapshot
        <5>2. AtOrigin(u) /\ DOMAIN u.px = Pixels(image.w, image.h)
          BY <2>1, <5>1, WholeCropped DEF Pictured
        <5> QED BY <1>1, <2>1, <3>1, <4>2, <5>2, ViewWhole DEF Sees
      <4>4. CASE ~needsFull
        <5>1. needsFull = FALSE /\ (behind[c] => behind'[c])
          BY <2>6, <3>3, <4>4 DEF Pictured, PictureTypes
        <5>2. Coming(cast, c) = {}
          <6>1. Arriving(cast["loop"], c) = {}
            BY <1>1 DEF Arriving
          <6> QED BY <2>4, <2>6, <3>3, <6>1 DEF Coming
        <5>3. View(canvas[c], decoding[c], inbox[c], {}, behind[c], image, FALSE, dirty)
          BY <3>1, <5>1, <5>2 DEF Sees
        <5>4. \A p \in Pixels(image.w, image.h) : ~OutOf(dirty, p) => p \in DOMAIN u.px
          BY <2>1, <5>1, Cropped DEF Pictured, OutOf, u, Update
        <5>5. View(canvas[c], decoding[c], inbox[c], {u}, behind'[c], image, FALSE, None)
          BY <5>1, <5>3, <5>4, ViewBox
        <5> QED BY <1>1, <2>1, <4>2, <5>5 DEF Sees
      <4> QED BY <4>3, <4>4
    <3> QED BY <3>2, <3>3
  <2>9. PictureTypes' /\ Attended'
    <3>1. behind' = [c \in Clients |-> behind'[c]]
      BY <2>1
    <3> QED BY <1>1, <2>1, <3>1 DEF Pictured, PictureTypes, Attended, Open
  <2> QED BY <1>1, <2>7, <2>8, <2>9 DEF Pictured, Open
<1> QED BY <1>2, <1>3 DEF Wake

\* An event is no frame.
LEMMA EventPictures ==
  ASSUME NoneIsNoRecord, Inv, InOrder, Pictured, Drain \/ NextEvent
  PROVE  Pictured'
<1>1. UNCHANGED <<fbVars, behind, conn, handler, decoding, canvas, inbox>>
  BY DEF Drain, NextEvent, LoopFrame, pageVars
<1>2. CASE UNCHANGED cast
  BY <1>1, <1>2, SamePictures
<1>3. CASE /\ cast["loop"] = None /\ batch # <<>>
           /\ cast' = [cast EXCEPT !["loop"] = Cast(Head(batch))]
  <2>1. Head(batch).kind # "frame"
    BY <1>3, NoFramesTail DEF InOrder, Inv, Shape
  <2>2. /\ cast' ["loop"] = Cast(Head(batch)) /\ \A d \in Clients : cast'[d] = cast[d]
        /\ Tasks = Clients \cup {"loop"}
    BY <1>3, ClientsAssumption DEF Inv, Shape, Tasks
  <2>3. \A c : Arriving(cast'["loop"], c) = {} /\ Arriving(cast["loop"], c) = {}
    BY <1>3, <2>1, <2>2, CastOf DEF Arriving, NoneIsNoRecord
  <2>4. \A t \in Tasks, c \in Clients : Arriving(cast'[t], c) = Arriving(cast[t], c)
    BY <2>2, <2>3
  <2>5. \A c \in Clients : Coming(cast', c) = Coming(cast, c)
    BY <2>4, SameComing
  <2>6. Carried'
    BY <1>1, <2>4 DEF Pictured, Carried, fbVars
  <2> QED BY <1>1, <2>5, <2>6 DEF Pictured, PictureTypes, Attended, Sees, fbVars, Open
<1> QED BY <1>2, <1>3 DEF Drain, NextEvent

\* _broadcast, one client: the update that was on its way is in its inbox.
LEMMA SendNextPictures ==
  ASSUME NoneIsNoRecord, Inv, InOrder, Pictured, NEW t \in Tasks, NEW c \in Clients, SendNext(t, c)
  PROVE  Pictured'
<1> DEFINE m == cast[t].message
           todo == cast[t].todo \ {c}
<1>1. /\ UNCHANGED <<loop, batch, conn, fbVars, behind, decoding, canvas>>
      /\ cast[t] # None /\ c \in cast[t].todo
  BY DEF SendNext, pageVars
<1>2. PICK dead : /\ dead \subseteq {d \in Clients : conn[d] = "closed"} \cup cast[t].dead
                  /\ GoOn(t, todo, dead)
                  /\ \/ inbox' = [inbox EXCEPT ![c] = Append(@, m)]
                     \/ ~Open(c) /\ inbox' = inbox
  <2>1. CASE Open(c) /\ inbox' = [inbox EXCEPT ![c] = Append(@, m)] /\ GoOn(t, todo, cast[t].dead)
    BY <2>1
  <2>2. CASE ~Open(c) /\ inbox' = inbox /\ GoOn(t, todo, cast[t].dead \cup {c})
    <3>1. conn[c] = "closed"
      BY <1>1, <2>2 DEF Inv, Shape, Served, Open
    <3>2. cast[t].dead \cup {c} \subseteq {d \in Clients : conn[d] = "closed"} \cup cast[t].dead
      BY <3>1
    <3> QED BY <2>2, <3>2
  <2> QED BY <2>1, <2>2 DEF SendNext, Put
<1>3. /\ \A s \in Tasks : s # t => cast'[s] = cast[s]
      /\ cast'[t] # None => cast'[t].message = m /\ cast'[t].todo = todo
      /\ cast'[t] = None => cast[t].todo = {c}
  BY <1>1, <1>2, GoOnKeeps DEF NoneIsNoRecord
<1>4. /\ \A d \in Clients : handler'[d] = handler[d] \/ handler'[d] = "serve"
      /\ \A d \in Clients : conn[d] # "new" \/ d # c
  <2>1. \A d \in Clients : handler'[d] = handler[d] \/ handler'[d] = "serve"
    <3>1. CASE handler' = handler
      BY <3>1
    <3>2. CASE handler' = [d \in Clients |-> IF d = t THEN "serve" ELSE handler[d]]
      BY <3>2
    <3> QED BY <1>2, <3>1, <3>2 DEF GoOn
  <2> QED BY <1>1, <2>1 DEF Inv, Served
<1>5. /\ inbox = [d \in Clients |-> inbox[d]] /\ Queue(inbox[c])
      /\ Queue(decoding[c])
  BY DEF Inv, Shape, InOrder, PagesShape
<1>6. /\ \A s \in Tasks, d \in Clients : s # t \/ d # c => Arriving(cast'[s], d) = Arriving(cast[s], d)
      /\ Arriving(cast'[t], c) = {}
      /\ Arriving(cast[t], c) = IF m.kind = "frame" THEN {m.update} ELSE {}
  BY <1>1, <1>3 DEF Arriving
<1>7. \A s \in Tasks, d \in Clients : Arriving(cast'[s], d) \subseteq Arriving(cast[s], d)
  BY <1>6
<1>8. Carried'
  BY <1>1, <1>7 DEF Pictured, Carried, fbVars
<1>9. PictureTypes' /\ Attended'
  BY <1>1, <1>2, <1>4, <1>5 DEF Pictured, PictureTypes, Attended, fbVars, Open
<1>10. ASSUME NEW d \in Clients, d # c, Sees(d) PROVE Sees(d)'
  <2>1. inbox'[d] = inbox[d]
    BY <1>2, <1>5, <1>10
  <2>2. Coming(cast', d) = Coming(cast, d)
    BY <1>6, <1>10, SameComing
  <2> QED BY <1>1, <1>10, <2>1, <2>2 DEF Sees, fbVars
<1>11. ASSUME Open(c) PROVE Sees(c)'
  <2> DEFINE P == Coming(cast, c)
             Q == Coming(cast', c)
  <2>1. inbox'[c] = Append(inbox[c], m)
    BY <1>2, <1>5, <1>11 DEF Open
  <2>2. View(canvas[c], decoding[c], inbox[c], P, behind[c], image, needsFull, dirty)
    BY <1>11 DEF Pictured, Sees
  <2>3. CASE m.kind # "frame"
    <3>1. Q = P
      <4>1. \A s \in Tasks : Arriving(cast'[s], c) = Arriving(cast[s], c)
        BY <1>6, <2>3
      <4> QED BY <4>1, SameComing
    <3> HIDE DEF P, Q, m
    <3>2. View(canvas[c], decoding[c], Append(inbox[c], m), P, behind[c], image, needsFull, dirty)
      BY <1>5, <2>2, <2>3, ViewBeside
    <3> QED BY <1>1, <2>1, <3>1, <3>2 DEF Sees, fbVars, Q, P
  <2>4. CASE m.kind = "frame"
    <3>1. m.update \in P /\ Q \subseteq P /\ P \ {m.update} \subseteq Q
      <4>1. m.update \in P
        BY <1>6, <2>4 DEF Coming
      <4>2. Q \subseteq P
        BY <1>7 DEF Coming
      <4>3. ASSUME NEW x \in P, x # m.update PROVE x \in Q
        <5>1. PICK s \in Tasks : x \in Arriving(cast[s], c)
          BY DEF Coming
        <5>2. s # t
          BY <1>6, <2>4, <4>3, <5>1
        <5> QED BY <1>6, <5>1, <5>2 DEF Coming
      <4> QED BY <4>1, <4>2, <4>3
    <3>2. ASSUME NEW x \in P
          PROVE  Cut(x) /\ (Known(behind[c], image, needsFull) => Fresh(x, image, dirty))
      <4>1. PICK s \in Tasks : x \in Arriving(cast[s], c)
        BY DEF Coming
      <4> QED BY <4>1 DEF Pictured, Carried, Known
    <3> HIDE DEF P, Q, m
    <3>3. View(canvas[c], decoding[c], Append(inbox[c], m), Q, behind[c], image, needsFull, dirty)
      BY <1>5, <2>2, <2>4, <3>1, <3>2, ViewSent
    <3> QED BY <1>1, <2>1, <3>3 DEF Sees, fbVars, Q
  <2> QED BY <2>3, <2>4
<1> QED BY <1>1, <1>8, <1>9, <1>10, <1>11 DEF Pictured, Open
-----------------------------------------------------------------------------
(* _ws_handler.                                                             *)

\* Only pages with a connection are broadcast to.
LEMMA NothingComing ==
  ASSUME Inv, NEW c \in Clients, conn[c] = "new" PROVE Coming(cast, c) = {}
BY DEF Inv, Served, Arriving, Coming

\* A page begins with the keyframe.
LEMMA KeyframeView ==
  ASSUME NoneIsNoRecord, PictureTypes, image # None, NEW P, NEW late
  PROVE  View(None, <<>>, Append(<<>>, Frame(FullSnapshot)), P, late, image, needsFull, dirty)
<1> DEFINE u == FullSnapshot
           m == Frame(u)
           S == {u}
<1>1. View(None, <<>>, <<>>, S, late, image, needsFull, dirty)
  <2>1. View(None, <<>>, <<>>, {}, TRUE, image, needsFull, dirty)
    BY YieldsNothing DEF View, Known
  <2>2. u \in S /\ AtOrigin(u) /\ DOMAIN u.px = Pixels(image.w, image.h)
    BY WholeCropped
  <2> HIDE DEF u, S
  <2> QED BY <2>1, <2>2, ViewWhole
<1>2. /\ m.kind = "frame" /\ m.update = u /\ m.update \in S
      /\ \A x \in S : Cut(x) /\ Fresh(x, image, dirty)
  BY WholeCropped DEF Frame
<1>3. {} \subseteq S /\ S \ {m.update} \subseteq {}
  BY <1>2
<1>4. Queue(<<>>)
  BY EmptyQueue
<1> HIDE DEF u, m, S
<1>5. View(None, <<>>, Append(<<>>, m), {}, late, image, needsFull, dirty)
  BY <1>1, <1>2, <1>3, <1>4, ViewSent
<1>6. PICK v : /\ Yields(None, <<>>, Append(<<>>, m), v)
               /\ v = None \/ Picture(v)
               /\ Known(late, image, needsFull) => Complete(v, {}, image, dirty)
  BY <1>5 DEF View
<1>7. Known(late, image, needsFull) => Complete(v, P, image, dirty)
  BY <1>6 DEF Complete
<1> QED BY <1>6, <1>7 DEF View, m, u

LEMMA HandlerPictures ==
  ASSUME NoneIsNoRecord, Inv, InOrder, Pictured, NEW c \in Clients, Connect(c) \/ HandlerStep(c)
  PROVE  Pictured'
<1>1. UNCHANGED <<fbVars, behind, cast, decoding, canvas>>
  BY DEF Connect, HandlerStep, KeyframeSent, Greet, Leave, pageVars
<1>2. /\ inbox = [d \in Clients |-> inbox[d]] /\ Queue(inbox[c])
      /\ handler = [d \in Clients |-> handler[d]]
      /\ conn = [d \in Clients |-> conn[d]]
      /\ Queue(decoding[c])
  BY DEF Inv, Shape, InOrder, PagesShape
<1>3. CASE Connect(c)
  <2>1. /\ conn[c] = "new" /\ conn' = [conn EXCEPT ![c] = "open"]
        /\ \/ image = None /\ inbox' = inbox /\ handler' = [handler EXCEPT ![c] = "greet"]
           \/ /\ image # None /\ handler' = [handler EXCEPT ![c] = "keyframe"]
              /\ inbox' = [inbox EXCEPT ![c] = Append(@, Frame(FullSnapshot))]
    BY <1>3 DEF Connect, Add, Put
  <2>2. canvas[c] = None /\ decoding[c] = <<>> /\ inbox[c] = <<>>
    BY <2>1 DEF Pictured, Attended
  <2>3. /\ \A d \in Clients : d # c => inbox'[d] = inbox[d] /\ conn'[d] = conn[d] /\ handler'[d] = handler[d]
        /\ conn'[c] = "open" /\ handler'[c] \in {"greet", "keyframe"}
    BY <1>2, <2>1
  <2>4. Sees(c)'
    <3>1. CASE image = None /\ inbox' = inbox
      <4>1. View(None, <<>>, <<>>, {}, TRUE, image, needsFull, dirty)
        BY YieldsNothing DEF View, Known
      <4>2. ~Known(behind[c], image, needsFull)
        BY <3>1 DEF Known
      <4>3. View(None, <<>>, <<>>, Coming(cast, c), behind[c], image, needsFull, dirty)
        BY <4>1, <4>2, ViewUnknown
      <4> QED BY <1>1, <2>2, <3>1, <4>3 DEF Sees, fbVars
    <3>2. CASE image # None /\ inbox' = [inbox EXCEPT ![c] = Append(@, Frame(FullSnapshot))]
      <4>1. inbox'[c] = Append(<<>>, Frame(FullSnapshot))
        BY <1>2, <2>2, <3>2
      <4>2. View(None, <<>>, Append(<<>>, Frame(FullSnapshot)), Coming(cast, c), behind[c], image,
                 needsFull, dirty)
        BY <3>2, KeyframeView DEF Pictured
      <4> QED BY <1>1, <2>2, <4>1, <4>2 DEF Sees, fbVars
    <3> QED BY <2>1, <3>1, <3>2
  <2>5. \A d \in Clients : d # c /\ Sees(d) => Sees(d)'
    BY <1>1, <2>3 DEF Sees, fbVars
  <2>6. Attended'
    BY <1>1, <2>3 DEF Pictured, Attended, Open
  <2> QED BY <1>1, <2>3, <2>4, <2>5, <2>6 DEF Pictured, PictureTypes, Carried, fbVars, Open
<1>4. CASE HandlerStep(c)
  <2>1. /\ conn' = conn /\ handler[c] # "off"
        /\ \/ inbox' = inbox
           \/ inbox' = [inbox EXCEPT ![c] = Append(@, StateEvent(state))]
        /\ \E s \in {"greet", "serve", "off"} :
             handler' = [handler EXCEPT ![c] = s] /\ (Open(c) => s # "off")
    BY <1>4 DEF HandlerStep, KeyframeSent, Greet, Leave, Add, Put, Open
  <2>2. /\ \A d \in Clients : d # c => inbox'[d] = inbox[d] /\ handler'[d] = handler[d]
        /\ Open(c) => handler'[c] \in {"greet", "serve"}
        /\ conn[c] # "new"
    BY <1>2, <2>1 DEF Inv, Served
  <2>3. ASSUME Sees(c) PROVE Sees(c)'
    <3>1. View(canvas[c], decoding[c], inbox[c], Coming(cast, c), behind[c], image, needsFull, dirty)
      BY <2>3 DEF Sees
    <3>2. CASE inbox' = inbox
      BY <1>1, <3>1, <3>2 DEF Sees, fbVars
    <3>3. CASE inbox' = [inbox EXCEPT ![c] = Append(@, StateEvent(state))]
      <4> DEFINE m == StateEvent(state)
      <4>1. m.kind # "frame" /\ inbox'[c] = Append(inbox[c], m)
        BY <1>2, <3>3 DEF StateEvent
      <4> HIDE DEF m
      <4>2. View(canvas[c], decoding[c], Append(inbox[c], m), Coming(cast, c), behind[c], image,
                 needsFull, dirty)
        BY <1>2, <3>1, <4>1, ViewBeside
      <4> QED BY <1>1, <4>1, <4>2 DEF Sees, fbVars
    <3> QED BY <2>1, <3>2, <3>3
  <2>4. \A d \in Clients : d # c /\ Sees(d) => Sees(d)'
    BY <1>1, <2>2 DEF Sees, fbVars
  <2>5. Attended'
    BY <1>1, <2>1, <2>2 DEF Pictured, Attended, Open
  <2> QED BY <1>1, <2>1, <2>3, <2>4, <2>5 DEF Pictured, PictureTypes, Carried, fbVars, Open
<1> QED BY <1>3, <1>4

\* A forced frame is of the present image, and repairs who was overtaken before.
LEMMA ForcePictures ==
  ASSUME NoneIsNoRecord, Inv, Pictured, NEW c \in Clients, ForceFullFrame(c)
  PROVE  Pictured'
<1> DEFINE u == FullSnapshot
<1>1. /\ UNCHANGED <<fbVars, clients, conn, inbox, decoding, canvas>>
      /\ handler[c] = "serve" /\ conn[c] = "open" /\ image # None
      /\ cast' = [cast EXCEPT ![c] = Cast(Frame(u))]
      /\ handler' = [handler EXCEPT ![c] = "force"]
      /\ behind' = [d \in Clients |-> IF d \in clients THEN Awaited(d) ELSE behind[d]]
  BY DEF ForceFullFrame, pageVars
<1>2. /\ AtOrigin(u) /\ Cut(u) /\ DOMAIN u.px = Pixels(image.w, image.h)
      /\ Fresh(u, image, dirty)
  BY <1>1, WholeCropped DEF Pictured
<1>3. /\ cast = [t \in Tasks |-> cast[t]] /\ c \in Tasks /\ Tasks = Clients \cup {"loop"}
      /\ handler = [d \in Clients |-> handler[d]] /\ c # "loop" /\ cast[c] = None
  BY <1>1, ClientsAssumption DEF Inv, Shape, Served, Tasks
<1>4. /\ \A d : Arriving(cast'[c], d) = IF d \in clients THEN {u} ELSE {}
      /\ \A d : Arriving(cast[c], d) = {}
      /\ \A t \in Tasks : t # c => cast'[t] = cast[t]
  <2>1. Frame(u).kind = "frame" /\ Frame(u).update = u
    BY DEF Frame
  <2>2. cast'[c] = Cast(Frame(u)) /\ \A t \in Tasks : t # c => cast'[t] = cast[t]
    BY <1>1, <1>3
  <2> HIDE DEF u
  <2> QED BY <1>3, <2>1, <2>2, CastOf DEF Arriving, NoneIsNoRecord
<1> HIDE DEF u
<1>5. ASSUME NEW d \in Clients, d \in clients, ~behind'[d]
      PROVE  \A t \in Clients : Arriving(cast[t], d) = {}
  BY <1>1, <1>5 DEF Awaited, Arriving
<1>6. Carried'
  <2>1. ASSUME NEW d \in Clients, NEW x \in Arriving(cast'[c], d)
        PROVE  Cut(x) /\ Fresh(x, image, dirty)
    <3>1. x = u
      BY <1>4
    <3> QED BY <1>2, <3>1
  <2>2. ASSUME NEW t \in Tasks, t # c, NEW d \in Clients, NEW x \in Arriving(cast'[t], d)
        PROVE  Cut(x) /\ (Known(behind'[d] /\ t # "loop", image, needsFull) => Fresh(x, image, dirty))
    <3>1. x \in Arriving(cast[t], d)
      BY <1>4, <2>2
    <3>2. CASE t = "loop" \/ d \notin clients
      BY <1>1, <3>1, <3>2 DEF Pictured, Carried, Known
    <3>3. CASE t \in Clients /\ d \in clients
      <4>1. behind'[d]
        BY <1>5, <3>1, <3>3
      <4>2. t # "loop"
        BY <3>3, ClientsAssumption
      <4> QED BY <3>1, <4>1, <4>2 DEF Pictured, Carried, Known
    <3> QED BY <1>3, <3>2, <3>3
  <2> QED BY <1>1, <2>1, <2>2 DEF Carried, fbVars
<1>7. ASSUME NEW d \in Clients, Open(d) PROVE Sees(d)'
  <2>1. Sees(d)
    BY <1>7 DEF Pictured
  <2>2. CASE d \in clients
    <3>1. u \in Coming(cast', d)
      BY <1>3, <1>4, <2>2 DEF Coming
    <3> QED BY <1>1, <1>2, <2>1, <3>1, ViewWhole DEF Sees, fbVars
  <2>3. CASE d \notin clients
    <3>1. Coming(cast', d) = Coming(cast, d)
      <4>1. \A t \in Tasks : Arriving(cast'[t], d) = Arriving(cast[t], d)
        BY <1>4, <2>3
      <4> QED BY <4>1, SameComing
    <3>2. behind'[d] = behind[d]
      BY <1>1, <2>3
    <3> QED BY <1>1, <2>1, <3>1, <3>2 DEF Sees, fbVars
  <2> QED BY <2>2, <2>3
<1>8. PictureTypes' /\ Attended'
  <2>1. behind' = [d \in Clients |-> behind'[d]]
    BY <1>1
  <2>2. \A d \in Clients : handler'[d] = handler[d] \/ handler'[d] = "force"
    BY <1>1, <1>3
  <2> QED BY <1>1, <2>1, <2>2 DEF Pictured, PictureTypes, Attended, fbVars, Open
<1> QED BY <1>1, <1>6, <1>7, <1>8 DEF Pictured, Open
-----------------------------------------------------------------------------
(* The page and its connection.                                             *)

LEMMA ReceivePictures ==
  ASSUME NoneIsNoRecord, Inv, InOrder, Pictured, NEW c \in Clients, Receive(c)
  PROVE  Pictured'
<1> DEFINE m == Head(inbox[c])
           e == IF m.kind = "frame" THEN Append(decoding[c], m.update) ELSE decoding[c]
<1>1. /\ UNCHANGED <<fbVars, behind, cast, conn, handler, canvas>>
      /\ conn[c] = "open"
      /\ inbox[c] # <<>> /\ inbox' = [inbox EXCEPT ![c] = Tail(@)]
      /\ decoding' = [decoding EXCEPT ![c] = e]
  BY DEF Receive, ServerFrame, serverVars
<1>2. /\ inbox = [d \in Clients |-> inbox[d]] /\ Queue(inbox[c])
      /\ decoding = [d \in Clients |-> decoding[d]] /\ Queue(decoding[c])
  BY DEF InOrder, PagesShape, Inv, Shape
<1>3. /\ inbox'[c] = Tail(inbox[c]) /\ decoding'[c] = e
      /\ \A d \in Clients : d # c => inbox'[d] = inbox[d] /\ decoding'[d] = decoding[d]
  BY <1>1, <1>2
<1>4. e = IF Head(inbox[c]).kind = "frame" THEN Append(decoding[c], Head(inbox[c]).update)
                                           ELSE decoding[c]
  OBVIOUS
<1> HIDE DEF e, m
<1>5. Sees(c)'
  <2>1. View(canvas[c], decoding[c], inbox[c], Coming(cast, c), behind[c], image, needsFull, dirty)
    BY <1>1 DEF Pictured, Sees, Open
  <2>2. View(canvas[c], e, Tail(inbox[c]), Coming(cast, c), behind[c], image, needsFull, dirty)
    BY <1>1, <1>2, <1>4, <2>1, ViewReceived
  <2> QED BY <1>1, <1>3, <2>2 DEF Sees, fbVars
<1>6. \A d \in Clients : d # c /\ Sees(d) => Sees(d)'
  BY <1>1, <1>3 DEF Sees, fbVars
<1>7. Attended'
  BY <1>1, <1>3 DEF Pictured, Attended, Open
<1> QED BY <1>1, <1>5, <1>6, <1>7 DEF Pictured, PictureTypes, Carried, fbVars, Open

LEMMA DrawPictures ==
  ASSUME NoneIsNoRecord, Inv, InOrder, Pictured, NEW c \in Clients, Draw(c)
  PROVE  Pictured'
<1> DEFINE n == Drawn(canvas[c], Head(decoding[c]))
<1>1. /\ UNCHANGED <<fbVars, behind, cast, conn, handler, inbox>>
      /\ decoding[c] # <<>> /\ decoding' = [decoding EXCEPT ![c] = Tail(@)]
      /\ canvas' = [canvas EXCEPT ![c] = n]
  BY DEF Draw, Draws, ServerFrame, serverVars
<1>2. /\ canvas = [d \in Clients |-> canvas[d]] /\ Queue(inbox[c])
      /\ decoding = [d \in Clients |-> decoding[d]] /\ Queue(decoding[c])
  BY DEF InOrder, PagesShape, Inv, Shape
<1> HIDE DEF n
<1>3. /\ canvas'[c] = n /\ decoding'[c] = Tail(decoding[c])
      /\ \A d \in Clients : d # c => canvas'[d] = canvas[d] /\ decoding'[d] = decoding[d]
  BY <1>1, <1>2
<1>4. ASSUME Sees(c) PROVE Sees(c)'
  <2>1. View(canvas[c], decoding[c], inbox[c], Coming(cast, c), behind[c], image, needsFull, dirty)
    BY <1>4 DEF Sees
  <2>2. View(n, Tail(decoding[c]), inbox[c], Coming(cast, c), behind[c], image, needsFull, dirty)
    BY <1>1, <1>2, <2>1, ViewDrawn DEF n
  <2> QED BY <1>1, <1>3, <2>2 DEF Sees, fbVars
<1>5. \A d \in Clients : d # c /\ Sees(d) => Sees(d)'
  BY <1>1, <1>3 DEF Sees, fbVars
<1>6. Attended'
  <2>1. conn[c] # "new"
    BY <1>1 DEF Pictured, Attended
  <2> QED BY <1>1, <1>3, <2>1 DEF Pictured, Attended, Open
<1> QED BY <1>1, <1>4, <1>5, <1>6 DEF Pictured, PictureTypes, Carried, fbVars, Open

LEMMA RejectPictures ==
  ASSUME Pictured, NEW c \in Clients, Reject(c)
  PROVE  Pictured'
BY SamePictures DEF Reject, ServerFrame, serverVars

LEMMA ConnectionPictures ==
  ASSUME Inv, Pictured, NEW c \in Clients, ConnectionStep(c)
  PROVE  Pictured'
<1>1. /\ UNCHANGED <<fbVars, behind, cast, handler, decoding, canvas>>
      /\ Open(c)
      /\ \/ \E s \in {"open", "frozen", "vanished"} :
              conn' = [conn EXCEPT ![c] = s] /\ inbox' = inbox
         \/ conn' = [conn EXCEPT ![c] = "closed"] /\ inbox' = [inbox EXCEPT ![c] = <<>>]
  BY DEF ConnectionStep, Stall, Thaw, Close, PingTimeout, GiveUp, Closed, Open, ServerFrame, serverVars, pageVars
<1>2. /\ \A d \in Clients : d # c => inbox'[d] = inbox[d] /\ conn'[d] = conn[d]
      /\ conn'[c] # "new"
      /\ Open(c)' => inbox'[c] = inbox[c]
      /\ \A d \in Clients : Open(d)' => Open(d)
  BY <1>1 DEF Inv, Shape, Open
<1>3. \A d \in Clients : Open(d)' /\ Sees(d) => Sees(d)'
  BY <1>1, <1>2 DEF Sees, fbVars, Open
<1>4. Attended'
  BY <1>1, <1>2 DEF Pictured, Attended, Open
<1> QED BY <1>1, <1>2, <1>3, <1>4 DEF Pictured, PictureTypes, Carried, fbVars
-----------------------------------------------------------------------------
LEMMA InitPictures == ASSUME Init PROVE Pictured
<1>1. PictureTypes /\ Attended
  BY DEF Init, FrameInit, PictureTypes, Attended, Open
<1>2. \A t \in Tasks, c \in Clients : Arriving(cast[t], c) = {}
  BY DEF Init, Arriving
<1>3. \A c \in Clients : ~Open(c)
  BY DEF Init, Open
<1> QED BY <1>1, <1>2, <1>3 DEF Pictured, Carried

LEMMA StepPictures ==
  ASSUME NoneIsNoRecord, InPixels, Inv, InOrder, Pictured, [Next]_vars, ~Trims
  PROVE  Pictured'
<1>1. CASE UNCHANGED vars
  BY <1>1, SamePictures DEF vars, serverVars, pageVars
<1>2. CASE \E t \in Setters : SetState(t) \/ ReadState(t) \/ QueueState(t)
  BY <1>2, SamePictures DEF SetState, ReadState, QueueState, serverVars, pageVars
<1>3. CASE LoopStep
  BY <1>3, WakePictures, EventPictures DEF LoopStep
<1>4. CASE \E t \in Tasks : CastStep(t)
  BY <1>4, SendNextPictures DEF CastStep
<1>5. ASSUME NEW c \in Clients,
             \/ Connect(c) \/ HandlerStep(c) \/ ForceFullFrame(c)
             \/ Receive(c) \/ Draw(c) \/ Reject(c) \/ ConnectionStep(c)
      PROVE  Pictured'
  BY <1>5, RejectPictures, HandlerPictures, ForcePictures, ReceivePictures, DrawPictures, ConnectionPictures
<1> QED BY <1>1, <1>2, <1>3, <1>4, <1>5, PaintPictures DEF Next

\* A page that has nothing more to draw shows the image.
LEMMA PicturedMirrors ==
  ASSUME NoneIsNoRecord, Inv, Pictured
  PROVE  MirrorSettled
<1> SUFFICES ASSUME Settled, NEW c \in Clients, conn[c] = "open", ~behind[c], c \notin broken,
                    image # None
             PROVE  canvas[c] = image
  BY DEF MirrorSettled, Mirrors
<1>1. /\ handler[c] = "serve" /\ inbox[c] = <<>> /\ decoding[c] = <<>>
      /\ \A t \in Tasks : cast[t] = None
      /\ clients = {} \/ ~HasUpdate
  BY DEF Settled, Draws
<1>2. ~needsFull /\ dirty = None
  <2>1. c \in clients
    BY <1>1 DEF Inv, Served, Open
  <2> QED BY <1>1, <2>1 DEF HasUpdate
<1>3. Coming(cast, c) = {}
  BY <1>1 DEF Coming, Arriving
<1>4. PICK v : /\ Yields(canvas[c], <<>>, <<>>, v)
               /\ v = None \/ Picture(v)
               /\ Known(behind[c], image, needsFull) => Complete(v, {}, image, None)
  BY <1>1, <1>2, <1>3 DEF Pictured, Sees, View, Open
<1>5. v = canvas[c] /\ Complete(v, {}, image, None)
  BY <1>2, <1>4, YieldsNothing DEF Known
<1>6. /\ v # None /\ v.w = image.w /\ v.h = image.h
      /\ \A p \in Pixels(image.w, image.h) : v.px[p] = image.px[p]
  BY <1>5 DEF Complete, Sized, OutOf
<1>7. /\ Picture(v) /\ Picture(image)
  BY <1>4, <1>6 DEF Pictured, PictureTypes
<1>8. v.px = image.px
  BY <1>6, <1>7 DEF Picture
<1> QED BY <1>5, <1>6, <1>7, <1>8 DEF Picture

\* Once nothing is on its way, an open page shows exactly what the decoder painted,
\* unless an update overtook a full frame it waits for: whatever was sent whole, in
\* part, with delay or on request, to however many pages, as long as no part of the
\* image that begins at (0, 0) was sent on its own (framebuffer.py: take_update,
\* full_snapshot; webserver.py: _broadcast_loop, _ws_handler; index.html: drawFrame).
THEOREM PagesMirror ==
  ASSUME NoneIsNoRecord, InPixels
  PROVE  Spec /\ [][~Trims]_vars => []MirrorSettled
<1>1. Init => Inv /\ InOrder /\ Pictured
  BY InitInforms, InitSorts, InitPictures
<1>2. Inv /\ InOrder /\ Pictured /\ [Next]_vars /\ [~Trims]_vars
        => Inv' /\ InOrder' /\ Pictured'
  <2> SUFFICES ASSUME Inv, InOrder, Pictured, [Next]_vars, [~Trims]_vars
               PROVE  Inv' /\ InOrder' /\ Pictured'
    OBVIOUS
  <2>1. Inv' /\ InOrder'
    BY StepInforms, StepSorts DEF NoneIsNoRecord
  <2>2. CASE ~Trims
    BY <2>1, <2>2, StepPictures
  <2>3. CASE UNCHANGED vars
    BY <2>1, <2>3, SamePictures DEF vars, serverVars, pageVars
  <2> QED BY <2>1, <2>2, <2>3
<1>3. Inv /\ Pictured => MirrorSettled
  BY PicturedMirrors
<1> QED BY <1>1, <1>2, <1>3, PTL DEF Spec
-----------------------------------------------------------------------------
(* Types: what is sent, and the video modes the pages show.                 *)

\* A page takes the size of an update at (0, 0).
Proper(u) == IsUpdate(u) /\ (AtOrigin(u) => <<u.w, u.h>> \in Sizes)
Sound(m) == IsMessage(m) /\ (m.kind = "frame" => Proper(m.update))
AllSound(q) == \A i \in DOMAIN q : Sound(q[i])
AllProper(d) == \A i \in DOMAIN d : Proper(d[i])

LEMMA AllSoundQueue ==
  ASSUME NEW q, Queue(q), AllSound(q)
  PROVE  /\ \A m : Sound(m) => AllSound(Append(q, m))
         /\ q # <<>> => Sound(Head(q)) /\ AllSound(Tail(q))
<1>1. ASSUME NEW m, Sound(m) PROVE AllSound(Append(q, m))
  <2>1. \A i \in DOMAIN Append(q, m) : i \in DOMAIN q \/ i = Len(q) + 1
    BY QueueDomain, QueueAppend
  <2> QED BY <1>1, <2>1, QueueDomain, QueueAppend DEF AllSound
<1>2. ASSUME q # <<>> PROVE Sound(Head(q)) /\ AllSound(Tail(q))
  <2>1. \A i \in DOMAIN Tail(q) : i + 1 \in DOMAIN q
    BY <1>2, QueueDomain, QueueTail
  <2> QED BY <1>2, <2>1, QueueDomain, QueueTail DEF AllSound
<1> QED BY <1>1, <1>2

LEMMA AllProperQueue ==
  ASSUME NEW q, Queue(q), AllProper(q)
  PROVE  /\ \A u : Proper(u) => AllProper(Append(q, u))
         /\ q # <<>> => Proper(Head(q)) /\ AllProper(Tail(q))
<1>1. ASSUME NEW m, Proper(m) PROVE AllProper(Append(q, m))
  <2>1. \A i \in DOMAIN Append(q, m) : i \in DOMAIN q \/ i = Len(q) + 1
    BY QueueDomain, QueueAppend
  <2> QED BY <1>1, <2>1, QueueDomain, QueueAppend DEF AllProper
<1>2. ASSUME q # <<>> PROVE Proper(Head(q)) /\ AllProper(Tail(q))
  <2>1. \A i \in DOMAIN Tail(q) : i + 1 \in DOMAIN q
    BY <1>2, QueueDomain, QueueTail
  <2> QED BY <1>2, <2>1, QueueDomain, QueueTail DEF AllProper
<1> QED BY <1>1, <1>2

\* The dirty box lies within the image, whose size is a video mode.
Bounded ==
  /\ version <= MaxVersion
  /\ image # None => <<image.w, image.h>> \in Sizes
  /\ image # None /\ dirty # None
       => /\ dirty.x0 <= dirty.x1 /\ dirty.x1 <= image.w
          /\ dirty.y0 <= dirty.y1 /\ dirty.y1 <= image.h

ModeOf(cv) == cv = None \/ <<cv.w, cv.h>> \in Sizes

Traffic ==
  /\ \A t \in Tasks : cast[t] # None => Sound(cast[t].message)
  /\ AllSound(events) /\ AllSound(batch)
  /\ \A c \in Clients : /\ AllSound(inbox[c]) /\ Len(inbox[c]) <= BufferSize
                        /\ AllProper(decoding[c]) /\ ModeOf(canvas[c])

\* A thread reads back a state that one has set.
Held ==
  /\ handler \in [Clients -> {"off", "keyframe", "greet", "serve", "force"}]
  /\ loop \in {"sleep", "drain", "events"}
  /\ setter \in [Setters -> States \cup {None, "set"}]
  /\ (\E t \in Setters : setter[t] = "set") => state \in States
  /\ told \in [Clients -> AllStates \cup {None}]
  /\ veiled \in [Clients -> BOOLEAN]
  /\ behind \in [Clients -> BOOLEAN]

Typed == Bounded /\ Traffic /\ Held

LEMMA CropProper ==
  ASSUME NEW box \in Boxes, image # None, ImageShape, PictureTypes, Bounded,
         box.x0 <= box.x1, box.x1 <= image.w, box.y0 <= box.y1, box.y1 <= image.h
  PROVE  IsUpdate(Crop(box))
<1> DEFINE u == Crop(box)
           w == image.w
           h == image.h
<1>1. /\ w \in Nat /\ h \in Nat
      /\ box.x0 \in Nat /\ box.y0 \in Nat /\ box.x1 \in Nat /\ box.y1 \in Nat
  BY DEF PictureTypes, Boxes
<1>2. /\ u.x = box.x0 /\ u.y = box.y0 /\ u.w = box.x1 - box.x0 /\ u.h = box.y1 - box.y0
      /\ DOMAIN u.px = {q \in Pixels(w, h) : Inside(box, q)}
      /\ \A p \in DOMAIN u.px : u.px[p] = image.px[p]
  BY DEF Crop
<1> HIDE DEF u, w, h
<1>3. [x |-> u.x, y |-> u.y, w |-> u.w, h |-> u.h] \in Updates
  <2>1. u.x \in Nat /\ u.y \in Nat /\ u.w \in Nat /\ u.h \in Nat
    BY <1>1, <1>2
  <2> QED BY <2>1 DEF Updates
<1>4. \A p \in DOMAIN u.px : u.px[p] \in Versions
  <2>1. \A p \in Pixels(w, h) : image.px[p] \in 0..version
    BY DEF ImageShape, w, h
  <2>2. 0..version \subseteq Versions
    BY VersionAssumption DEF ImageShape, Bounded, Versions
  <2> QED BY <1>2, <2>1, <2>2
<1>5. DOMAIN u.px = {<<u.x + i, u.y + j>> : i \in 0..(u.w - 1), j \in 0..(u.h - 1)}
  <2>1. ASSUME NEW p \in Pixels(w, h), Inside(box, p)
        PROVE  \E i \in 0..(u.w - 1), j \in 0..(u.h - 1) : p = <<u.x + i, u.y + j>>
    <3>1. p = <<p[1], p[2]>> /\ p[1] \in Nat /\ p[2] \in Nat
      BY <1>1 DEF Pixels
    <3>2. p[1] - u.x \in 0..(u.w - 1) /\ p[2] - u.y \in 0..(u.h - 1)
      BY <1>1, <1>2, <2>1, <3>1 DEF Inside
    <3>3. u.x + (p[1] - u.x) = p[1] /\ u.y + (p[2] - u.y) = p[2]
      BY <1>1, <1>2, <3>1
    <3> QED BY <3>1, <3>2, <3>3
  <2>2. ASSUME NEW i \in 0..(u.w - 1), NEW j \in 0..(u.h - 1)
        PROVE  <<u.x + i, u.y + j>> \in Pixels(w, h) /\ Inside(box, <<u.x + i, u.y + j>>)
    <3>1. /\ u.x + i \in 0..(w - 1) /\ u.y + j \in 0..(h - 1)
          /\ box.x0 <= u.x + i /\ u.x + i < box.x1 /\ box.y0 <= u.y + j /\ u.y + j < box.y1
      BY <1>1, <1>2 DEF w, h
    <3> QED BY <3>1 DEF Pixels, Inside
  <2> QED BY <1>2, <2>1, <2>2
<1> QED BY <1>3, <1>4, <1>5 DEF IsUpdate, u

LEMMA WholeProper ==
  ASSUME image # None, ImageShape, PictureTypes, Bounded
  PROVE  Sound(Frame(FullSnapshot))
<1>1. /\ Whole \in Boxes /\ Whole.x0 <= Whole.x1 /\ Whole.x1 <= image.w
      /\ Whole.y0 <= Whole.y1 /\ Whole.y1 <= image.h
  BY DEF Whole, Boxes, PictureTypes
<1>2. IsUpdate(FullSnapshot)
  BY <1>1, CropProper DEF FullSnapshot
<1>3. <<FullSnapshot.w, FullSnapshot.h>> \in Sizes
  BY WholeCropped DEF Bounded
<1> QED BY <1>2, <1>3 DEF Sound, Proper, IsMessage, Frame
-----------------------------------------------------------------------------
(* No step sends or holds anything else.                                    *)

LEMMA PaintTypes ==
  ASSUME NoneIsNoRecord, InPixels, Inv, InOrder, Pictured, Typed, Paint
  PROVE  Typed'
<1>1. UNCHANGED <<cast, events, batch, inbox, decoding, canvas, handler, loop, setter, state,
                  told, veiled, behind>>
  BY DEF Paint, serverVars, stateVars, pageVars
<1>2. Traffic' /\ Held'
  BY <1>1 DEF Typed, Traffic, Held
<1>3. version < MaxVersion /\ version \in Nat
  BY DEF Paint, InOrder, ImageShape
<1>4. CASE UNCHANGED fbVars
  BY <1>2, <1>4 DEF Typed, Bounded, fbVars
<1>5. ASSUME NEW s \in Sizes, Resize(s[1], s[2]), ~UNCHANGED fbVars PROVE Bounded'
  <2>1. /\ image'.w = s[1] /\ image'.h = s[2] /\ version' = version + 1 /\ dirty' = None
    BY <1>5 DEF Resize
  <2>2. <<s[1], s[2]>> = s
    BY DEF InPixels
  <2>3. version' <= MaxVersion
    BY <1>3, <2>1, VersionAssumption
  <2> QED BY <2>1, <2>2, <2>3 DEF Bounded
<1>6. ASSUME NEW s \in Corners, PasteBlock(s[1], s[2]), ~UNCHANGED fbVars PROVE Bounded'
  <2> DEFINE w == image.w
             h == image.h
             box == TileBox(s[1], s[2])
  <2>1. /\ image # None /\ s[1] < w /\ s[2] < h
        /\ image'.w = w /\ image'.h = h /\ version' = version + 1 /\ dirty' = Grown(box)
        /\ w \in Nat /\ h \in Nat /\ s[1] \in Nat /\ s[2] \in Nat
    <3>1. /\ image # None /\ ~(s[1] >= w) /\ ~(s[2] >= h)
          /\ image'.w = w /\ image'.h = h /\ version' = version + 1 /\ dirty' = Grown(box)
      BY <1>6 DEF PasteBlock
    <3>2. w \in Nat /\ h \in Nat /\ s[1] \in Nat /\ s[2] \in Nat
      BY <3>1 DEF InPixels, Pictured, PictureTypes
    <3> QED BY <3>1, <3>2
  <2>2. /\ box.x0 = s[1] /\ box.y0 = s[2]
        /\ box.x1 \in Nat /\ box.x0 <= box.x1 /\ box.x1 <= w
        /\ box.y1 \in Nat /\ box.y0 <= box.y1 /\ box.y1 <= h
    BY <2>1, TileAssumption DEF TileBox, Lesser
  <2> HIDE DEF box, w, h
  <2>3. /\ Grown(box).x0 <= Grown(box).x1 /\ Grown(box).x1 <= w
        /\ Grown(box).y0 <= Grown(box).y1 /\ Grown(box).y1 <= h
    <3>1. CASE dirty = None
      BY <2>2, <3>1 DEF Grown
    <3>2. CASE dirty # None
      <4>1. /\ dirty.x0 \in Nat /\ dirty.y0 \in Nat /\ dirty.x1 \in Nat /\ dirty.y1 \in Nat
            /\ dirty.x0 <= dirty.x1 /\ dirty.x1 <= w /\ dirty.y0 <= dirty.y1 /\ dirty.y1 <= h
        BY <2>1, <3>2 DEF Pictured, PictureTypes, Boxes, Typed, Bounded, w, h
      <4>2. /\ Grown(box).x0 = Lesser(dirty.x0, box.x0) /\ Grown(box).y0 = Lesser(dirty.y0, box.y0)
            /\ Grown(box).x1 = Greater(dirty.x1, box.x1) /\ Grown(box).y1 = Greater(dirty.y1, box.y1)
        BY <3>2 DEF Grown
      <4> QED BY <2>1, <2>2, <4>1, <4>2 DEF Lesser, Greater
    <3> QED BY <3>1, <3>2
  <2>4. version' <= MaxVersion
    BY <1>3, <2>1, VersionAssumption
  <2>5. <<w, h>> \in Sizes
    BY <2>1 DEF Typed, Bounded, w, h
  <2> QED BY <2>1, <2>3, <2>4, <2>5 DEF Bounded
<1> QED BY <1>2, <1>4, <1>5, <1>6 DEF Paint, Typed

\* A step that leaves the picture, the pages and the broadcasts alone.
LEMMA EventTypes ==
  ASSUME Inv, Typed, UNCHANGED <<image, version, dirty, decoding, canvas, inbox, cast>>,
         AllSound(events'), AllSound(batch'), Held'
  PROVE  Typed'
BY DEF Typed, Bounded, Traffic

LEMMA SetterTypes ==
  ASSUME Inv, Typed, NEW t \in Setters, SetState(t) \/ ReadState(t) \/ QueueState(t)
  PROVE  Typed'
<1>1. UNCHANGED <<fbVars, decoding, canvas, inbox, cast, batch, handler, loop, told, veiled, behind>>
  BY DEF SetState, ReadState, QueueState, serverVars, pageVars
<1>2. /\ setter \in [Setters -> States \cup {None, "set"}]
      /\ (\E s \in Setters : setter[s] = "set") => state \in States
      /\ "set" \notin States /\ None # "set"
  BY StatesAssumption DEF Typed, Held
<1>3. /\ setter' \in [Setters -> States \cup {None, "set"}]
      /\ (\E s \in Setters : setter'[s] = "set") => state' \in States
  <2>1. CASE SetState(t)
    BY <1>2, <2>1 DEF SetState
  <2>2. CASE ReadState(t)
    <3>1. /\ setter[t] = "set" /\ setter' = [setter EXCEPT ![t] = state] /\ state' = state
          /\ state \in States
      BY <1>2, <2>2 DEF ReadState
    <3> QED BY <1>2, <3>1
  <2>3. CASE QueueState(t)
    BY <1>2, <2>3 DEF QueueState
  <2> QED BY <2>1, <2>2, <2>3
<1>4. Held'
  BY <1>1, <1>3 DEF Typed, Held
<1>5. AllSound(events')
  <2>1. AllSound(events) /\ Queue(events)
    BY DEF Typed, Traffic, Inv, Shape
  <2>2. CASE UNCHANGED events
    BY <2>1, <2>2
  <2>3. CASE setter[t] \in States /\ events' = Append(events, StateEvent(setter[t]))
    <3>1. Sound(StateEvent(setter[t]))
      BY <2>3 DEF Sound, IsMessage, StateEvent, AllStates
    <3> QED BY <2>1, <2>3, <3>1, AllSoundQueue
  <2> QED BY <2>2, <2>3 DEF SetState, ReadState, QueueState
<1> QED BY <1>1, <1>4, <1>5, EventTypes DEF fbVars, Typed, Traffic

LEMMA LoopTypes ==
  ASSUME NoneIsNoRecord, Inv, InOrder, Pictured, Typed, LoopStep, ~Trims
  PROVE  Typed'
<1>1. /\ UNCHANGED <<decoding, canvas, inbox, handler, setter, state, told, veiled, image, version>>
      /\ loop' \in {"sleep", "drain", "events"}
  BY DEF LoopStep, Wake, Drain, NextEvent, LoopFrame, TakeUpdate, pageVars, stateVars, fbVars,
         Typed, Held
<1>2. /\ cast = [t \in Tasks |-> cast[t]] /\ Queue(batch) /\ Queue(events)
      /\ AllSound(batch) /\ AllSound(events)
  BY DEF Inv, Shape, Typed, Traffic
<1>3. AllSound(<<>>)
  BY EmptyQueue DEF AllSound
<1>4. ASSUME NEW m, Sound(m), cast' = [cast EXCEPT !["loop"] = Cast(m)]
      PROVE  \A t \in Tasks : cast'[t] # None => Sound(cast'[t].message)
  <2>1. \A t \in Tasks : cast'[t] = cast[t] \/ cast'[t] = Cast(m)
    BY <1>2, <1>4
  <2>2. Cast(m) # None => Cast(m).message = m
    BY CastOf DEF NoneIsNoRecord
  <2> QED BY <1>4, <2>1, <2>2 DEF Typed, Traffic
<1>5. CASE Drain
  <2>1. behind' = behind
    BY <1>5 DEF Drain
  <2>2. Held'
    BY <1>1, <2>1 DEF Typed, Held
  <2> QED BY <1>1, <1>2, <1>3, <1>5, <2>2, EventTypes DEF Drain, fbVars
<1>6. CASE NextEvent
  <2>1. UNCHANGED <<behind, events, fbVars>>
    BY <1>6 DEF NextEvent, LoopFrame, stateVars
  <2>2. Held'
    BY <1>1, <2>1 DEF Typed, Held
  <2>3. CASE UNCHANGED <<batch, cast>>
    BY <1>1, <1>2, <2>1, <2>2, <2>3, EventTypes DEF fbVars
  <2>4. CASE /\ batch # <<>> /\ batch' = Tail(batch)
             /\ cast' = [cast EXCEPT !["loop"] = Cast(Head(batch))]
    <3>1. Sound(Head(batch)) /\ AllSound(batch')
      BY <1>2, <2>4, AllSoundQueue
    <3>2. \A t \in Tasks : cast'[t] # None => Sound(cast'[t].message)
      BY <1>4, <2>4, <3>1
    <3> QED BY <1>1, <2>1, <2>2, <3>1, <3>2 DEF Typed, Bounded, Traffic, fbVars
  <2> QED BY <1>6, <2>3, <2>4 DEF NextEvent
<1>7. CASE Wake
  <2>1. UNCHANGED <<batch, events>>
    BY <1>7 DEF Wake, LoopFrame, stateVars
  <2>2. CASE UNCHANGED <<fbVars, cast, behind>>
    <3>1. Held'
      BY <1>1, <2>2 DEF Typed, Held
    <3> QED BY <1>1, <1>2, <2>1, <2>2, <3>1, EventTypes DEF fbVars
  <2>3. CASE clients # {} /\ HasUpdate
    <3> DEFINE u == Update
    <3>1. /\ cast' = [cast EXCEPT !["loop"] = Cast(Frame(u))]
          /\ dirty' = None /\ image # None
          /\ NoteBehind(needsFull)
      BY <1>7, <2>3 DEF Wake, TakeUpdate, HasUpdate
    <3>2. Sound(Frame(u))
      <4>1. CASE needsFull
        <5>1. u = FullSnapshot
          BY <4>1 DEF Update, FullSnapshot
        <5> QED BY <3>1, <5>1, WholeProper DEF InOrder, Pictured, Typed
      <4>2. CASE ~needsFull
        <5>1. u = Crop(dirty) /\ dirty # None
          BY <2>3, <4>2 DEF Update, HasUpdate
        <5>2. /\ dirty \in Boxes
              /\ dirty.x0 <= dirty.x1 /\ dirty.x1 <= image.w
              /\ dirty.y0 <= dirty.y1 /\ dirty.y1 <= image.h
          BY <3>1, <5>1 DEF Pictured, PictureTypes, Typed, Bounded
        <5>3. IsUpdate(u)
          BY <3>1, <5>1, <5>2, CropProper DEF InOrder, Pictured, Typed
        <5>4. AtOrigin(u) => <<u.w, u.h>> \in Sizes
          <6>1. AtOrigin(u) => u = FullSnapshot
            BY <1>7, <2>3 DEF Trims
          <6> QED BY <3>1, <6>1, WholeCropped DEF Pictured, Typed, Bounded
        <5> HIDE DEF u
        <5> QED BY <5>3, <5>4 DEF Sound, Proper, IsMessage, Frame
      <4> QED BY <4>1, <4>2
    <3> HIDE DEF u
    <3>3. \A t \in Tasks : cast'[t] # None => Sound(cast'[t].message)
      BY <1>4, <3>1, <3>2
    <3>4. behind' \in [Clients -> BOOLEAN]
      BY <3>1, Zenon DEF NoteBehind
    <3>5. Held'
      BY <1>1, <3>4 DEF Typed, Held
    <3>6. Bounded'
      BY <1>1, <3>1 DEF Typed, Bounded
    <3>7. Traffic'
      BY <1>1, <2>1, <3>3 DEF Typed, Traffic
    <3> QED BY <3>5, <3>6, <3>7 DEF Typed
  <2> QED BY <1>7, <2>2, <2>3 DEF Wake
<1> QED BY <1>5, <1>6, <1>7 DEF LoopStep

\* A message put into the buffer of a client that has room.
LEMMA PutTypes ==
  ASSUME Inv, Typed, NEW c \in Clients, ~Full(c), NEW m, Sound(m), Put(c, m)
  PROVE  \A d \in Clients : AllSound(inbox'[d]) /\ Len(inbox'[d]) <= BufferSize
<1>1. /\ inbox = [d \in Clients |-> inbox[d]] /\ Queue(inbox[c])
      /\ \A d \in Clients : AllSound(inbox[d]) /\ Len(inbox[d]) <= BufferSize
  BY DEF Inv, Shape, Typed, Traffic
<1>2. /\ inbox'[c] = Append(inbox[c], m) /\ \A d \in Clients : d # c => inbox'[d] = inbox[d]
  BY <1>1 DEF Put
<1>3. AllSound(inbox'[c])
  BY <1>1, <1>2, AllSoundQueue
<1>4. Len(inbox'[c]) <= BufferSize
  <2>1. /\ Len(inbox[c]) \in Nat /\ ~(Len(inbox[c]) >= BufferSize)
        /\ Len(inbox'[c]) = Len(inbox[c]) + 1
    BY <1>1, <1>2, QueueDomain, QueueAppend DEF Full
  <2> QED BY <2>1, BufferAssumption
<1> QED BY <1>1, <1>2, <1>3, <1>4

LEMMA SendNextTypes ==
  ASSUME NoneIsNoRecord, Inv, Typed, NEW t \in Tasks, NEW c \in Clients, SendNext(t, c)
  PROVE  Typed'
<1> DEFINE m == cast[t].message
           todo == cast[t].todo \ {c}
<1>1. /\ UNCHANGED <<loop, batch, events, fbVars, behind, decoding, canvas, setter, state, told,
                     veiled, conn>>
      /\ cast[t] # None /\ c \in cast[t].todo
  BY DEF SendNext, pageVars, stateVars
<1>2. PICK dead : /\ dead \subseteq {d \in Clients : conn[d] = "closed"} \cup cast[t].dead
                  /\ GoOn(t, todo, dead)
                  /\ (~Full(c) /\ Put(c, m)) \/ inbox' = inbox
  <2>1. CASE ~Full(c) /\ Put(c, m) /\ GoOn(t, todo, cast[t].dead)
    BY <2>1
  <2>2. CASE ~Open(c) /\ inbox' = inbox /\ GoOn(t, todo, cast[t].dead \cup {c})
    <3>1. conn[c] = "closed"
      BY <1>1, <2>2 DEF Inv, Shape, Served, Open
    <3>2. cast[t].dead \cup {c} \subseteq {d \in Clients : conn[d] = "closed"} \cup cast[t].dead
      BY <3>1
    <3> QED BY <2>2, <3>2
  <2> QED BY <2>1, <2>2 DEF SendNext
<1>3. /\ \A s \in Tasks : s # t => cast'[s] = cast[s]
      /\ cast'[t] # None => cast'[t].message = m
      /\ handler' = [d \in Clients |-> handler'[d]]
  BY <1>1, <1>2, GoOnKeeps DEF NoneIsNoRecord
<1>4. handler' \in [Clients -> {"off", "keyframe", "greet", "serve", "force"}]
  <2>1. handler \in [Clients -> {"off", "keyframe", "greet", "serve", "force"}]
    BY DEF Typed, Held
  <2>2. \/ handler' = handler
        \/ handler' = [d \in Clients |-> IF d = t THEN "serve" ELSE handler[d]]
    BY <1>2 DEF GoOn
  <2> QED BY <2>1, <2>2
<1>5. Held'
  BY <1>1, <1>4 DEF Typed, Held
<1>6. Sound(m)
  BY <1>1 DEF Typed, Traffic
<1>7. \A s \in Tasks : cast'[s] # None => Sound(cast'[s].message)
  BY <1>3, <1>6 DEF Typed, Traffic
<1>8. \A d \in Clients : AllSound(inbox'[d]) /\ Len(inbox'[d]) <= BufferSize
  <2>1. CASE inbox' = inbox
    BY <2>1 DEF Typed, Traffic
  <2>2. CASE ~Full(c) /\ Put(c, m)
    BY <1>6, <2>2, PutTypes
  <2> QED BY <1>2, <2>1, <2>2
<1>9. Traffic'
  BY <1>1, <1>7, <1>8 DEF Typed, Traffic
<1> QED BY <1>1, <1>5, <1>9 DEF Typed, Bounded, fbVars

LEMMA HandlerTypes ==
  ASSUME NoneIsNoRecord, Inv, InOrder, Pictured, Typed, NEW c \in Clients,
         Connect(c) \/ HandlerStep(c)
  PROVE  Typed'
<1>1. UNCHANGED <<fbVars, behind, cast, decoding, canvas, loop, batch, setter, state, told, veiled>>
  BY DEF Connect, HandlerStep, KeyframeSent, Greet, Leave, pageVars, stateVars
<1>2. \/ handler' = [handler EXCEPT ![c] = "keyframe"]
      \/ handler' = [handler EXCEPT ![c] = "greet"]
      \/ handler' = [handler EXCEPT ![c] = "serve"]
      \/ handler' = [handler EXCEPT ![c] = "off"]
  BY DEF Connect, HandlerStep, KeyframeSent, Greet, Leave, Add
<1>3. Held'
  BY <1>1, <1>2 DEF Typed, Held
<1>4. AllSound(events')
  <2>1. AllSound(events) /\ Queue(events) /\ Sound(LogEvent)
    BY DEF Typed, Traffic, Inv, Shape, Sound, IsMessage, LogEvent
  <2>2. events' = events \/ events' = Append(events, LogEvent)
    BY DEF Connect, HandlerStep, KeyframeSent, Greet, Leave, Add, stateVars
  <2> QED BY <2>1, <2>2, AllSoundQueue
<1>5. \A d \in Clients : AllSound(inbox'[d]) /\ Len(inbox'[d]) <= BufferSize
  <2>1. CASE inbox' = inbox
    BY <2>1 DEF Typed, Traffic
  <2>2. ASSUME conn[c] = "new", image # None, Put(c, Frame(FullSnapshot))
        PROVE  \A d \in Clients : AllSound(inbox'[d]) /\ Len(inbox'[d]) <= BufferSize
    <3>1. ~Full(c)
      <4>1. inbox[c] = <<>>
        BY <2>2 DEF Pictured, Attended
      <4> QED BY <4>1, EmptyQueue, BufferAssumption DEF Full
    <3>2. Sound(Frame(FullSnapshot))
      BY <2>2, WholeProper DEF InOrder, Pictured, Typed
    <3> QED BY <2>2, <3>1, <3>2, PutTypes
  <2>3. CASE ~Full(c) /\ Put(c, StateEvent(state))
    <3>1. Sound(StateEvent(state))
      BY DEF Inv, Shape, Sound, IsMessage, StateEvent
    <3> QED BY <2>3, <3>1, PutTypes
  <2> QED BY <2>1, <2>2, <2>3 DEF Connect, HandlerStep, KeyframeSent, Greet, Leave
<1>6. Traffic'
  BY <1>1, <1>4, <1>5 DEF Typed, Traffic
<1> QED BY <1>1, <1>3, <1>6 DEF Typed, Bounded, fbVars

LEMMA ForceTypes ==
  ASSUME NoneIsNoRecord, Inv, InOrder, Pictured, Typed, NEW c \in Clients, ForceFullFrame(c)
  PROVE  Typed'
<1> DEFINE m == Frame(FullSnapshot)
<1>1. /\ UNCHANGED <<fbVars, inbox, decoding, canvas, loop, batch, events, setter, state, told,
                     veiled>>
      /\ image # None /\ cast' = [cast EXCEPT ![c] = Cast(m)]
      /\ handler' = [handler EXCEPT ![c] = "force"]
  BY DEF ForceFullFrame, pageVars, stateVars
<1>2. behind' \in [Clients -> BOOLEAN]
  <2>1. /\ behind' = [d \in Clients |-> IF d \in clients THEN Awaited(d) ELSE behind[d]]
        /\ behind \in [Clients -> BOOLEAN]
    BY DEF ForceFullFrame, Typed, Held
  <2> QED BY <2>1, Zenon DEF Awaited
<1>3. Held'
  BY <1>1, <1>2 DEF Typed, Held
<1>4. Sound(m)
  BY <1>1, WholeProper DEF InOrder, Pictured, Typed
<1> HIDE DEF m
<1>5. \A t \in Tasks : cast'[t] # None => Sound(cast'[t].message)
  <2>1. cast = [t \in Tasks |-> cast[t]]
    BY DEF Inv, Shape
  <2>2. \A t \in Tasks : cast'[t] = cast[t] \/ cast'[t] = Cast(m)
    BY <1>1, <2>1
  <2>3. Cast(m) # None => Cast(m).message = m
    BY CastOf DEF NoneIsNoRecord
  <2> QED BY <1>4, <2>2, <2>3 DEF Typed, Traffic
<1>6. Traffic'
  BY <1>1, <1>5 DEF Typed, Traffic
<1> QED BY <1>1, <1>3, <1>6 DEF Typed, Bounded, fbVars

LEMMA ReceiveTypes ==
  ASSUME Inv, InOrder, Typed, NEW c \in Clients, Receive(c)
  PROVE  Typed'
<1> DEFINE m == Head(inbox[c])
<1>1. /\ UNCHANGED <<fbVars, clients, cast, handler, loop, batch, events, setter, state, behind,
                     canvas>>
      /\ inbox[c] # <<>> /\ inbox' = [inbox EXCEPT ![c] = Tail(@)]
      /\ decoding' = [decoding EXCEPT ![c] = IF m.kind = "frame" THEN Append(@, m.update) ELSE @]
      /\ told' = [told EXCEPT ![c] = IF m.kind = "state" THEN m.state ELSE @]
      /\ veiled' = [veiled EXCEPT ![c] = IF m.kind = "state" THEN m.state # "connected" ELSE @]
  BY DEF Receive, ServerFrame, serverVars, stateVars
<1>2. /\ inbox = [d \in Clients |-> inbox[d]] /\ Queue(inbox[c])
      /\ decoding = [d \in Clients |-> decoding[d]] /\ Queue(decoding[c])
      /\ \A d \in Clients : /\ AllSound(inbox[d]) /\ Len(inbox[d]) <= BufferSize
                            /\ AllProper(decoding[d])
  BY DEF InOrder, PagesShape, Inv, Shape, Typed, Traffic
<1>3. Sound(m) /\ AllSound(Tail(inbox[c])) /\ Len(Tail(inbox[c])) <= BufferSize
  <2>1. Sound(m) /\ AllSound(Tail(inbox[c]))
    BY <1>1, <1>2, AllSoundQueue
  <2>2. Len(Tail(inbox[c])) = Len(inbox[c]) - 1 /\ Len(inbox[c]) \in Nat
    BY <1>1, <1>2, QueueTail, QueueDomain
  <2>3. Len(inbox[c]) <= BufferSize
    BY <1>2
  <2> QED BY <2>1, <2>2, <2>3, BufferAssumption
<1> HIDE DEF m
<1>4. /\ m.kind = "frame" => Proper(m.update)
      /\ m.kind = "state" => m.state \in AllStates
  BY <1>3 DEF Sound, IsMessage, LogEvent
<1>5. AllProper(decoding'[c])
  <2>1. CASE m.kind = "frame"
    BY <1>1, <1>2, <1>4, <2>1, AllProperQueue
  <2>2. CASE m.kind # "frame"
    BY <1>1, <1>2, <2>2
  <2> QED BY <2>1, <2>2
<1>6. \A d \in Clients : /\ AllSound(inbox'[d]) /\ Len(inbox'[d]) <= BufferSize
                         /\ AllProper(decoding'[d])
  <2>1. \A d \in Clients : d # c => inbox'[d] = inbox[d] /\ decoding'[d] = decoding[d]
    BY <1>1, <1>2
  <2>2. inbox'[c] = Tail(inbox[c])
    BY <1>1, <1>2
  <2> QED BY <1>2, <1>3, <1>5, <2>1, <2>2
<1>7. told' \in [Clients -> AllStates \cup {None}]
  BY <1>1, <1>4 DEF Typed, Held
<1>8. veiled' \in [Clients -> BOOLEAN]
  <2>1. PICK b : veiled' = [veiled EXCEPT ![c] = b] /\ b \in BOOLEAN
    <3>1. veiled \in [Clients -> BOOLEAN]
      BY DEF Typed, Held
    <3>2. CASE m.kind = "state"
      <4>1. veiled' = [veiled EXCEPT ![c] = m.state # "connected"]
        BY <1>1, <3>2
      <4>2. (m.state # "connected") \in BOOLEAN
        BY Zenon
      <4> QED BY <4>1, <4>2, Zenon
    <3>3. CASE m.kind # "state"
      BY <1>1, <3>1, <3>3, Zenon
    <3> QED BY <3>2, <3>3
  <2> QED BY <2>1, Zenon DEF Typed, Held
<1>9. Held'
  BY <1>1, <1>7, <1>8 DEF Typed, Held
<1>10. Traffic'
  BY <1>1, <1>6 DEF Typed, Traffic
<1> QED BY <1>1, <1>9, <1>10 DEF Typed, Bounded, fbVars

LEMMA DrawTypes ==
  ASSUME Inv, InOrder, Typed, NEW c \in Clients, Draw(c)
  PROVE  Typed'
<1> DEFINE u == Head(decoding[c])
           n == Drawn(canvas[c], u)
<1>1. /\ UNCHANGED <<fbVars, clients, cast, handler, loop, batch, events, setter, state, behind,
                     told, inbox>>
      /\ decoding[c] # <<>> /\ decoding' = [decoding EXCEPT ![c] = Tail(@)]
      /\ canvas' = [canvas EXCEPT ![c] = n]
      /\ veiled' = [veiled EXCEPT ![c] = FALSE]
  BY DEF Draw, Draws, ServerFrame, serverVars, stateVars
<1>2. /\ canvas = [d \in Clients |-> canvas[d]]
      /\ canvas[c] = None \/ canvas[c] = [w |-> canvas[c].w, h |-> canvas[c].h,
                                          px |-> canvas[c].px]
      /\ decoding = [d \in Clients |-> decoding[d]] /\ Queue(decoding[c])
      /\ \A d \in Clients : AllProper(decoding[d]) /\ ModeOf(canvas[d])
  BY DEF InOrder, PagesShape, Inv, Shape, Typed, Traffic
<1>3. Proper(u) /\ AllProper(Tail(decoding[c]))
  BY <1>1, <1>2, AllProperQueue
<1>4. ModeOf(n)
  <2>1. CASE AtOrigin(u) /\ (canvas[c] = None \/ canvas[c].w # u.w \/ canvas[c].h # u.h)
    <3>1. n = [w |-> u.w, h |-> u.h, px |-> u.px] /\ <<u.w, u.h>> \in Sizes
      BY <1>3, <2>1 DEF Drawn, AtOrigin, Proper
    <3> HIDE DEF n, u
    <3> QED BY <3>1 DEF ModeOf
  <2>2. CASE ~(AtOrigin(u) /\ (canvas[c] = None \/ canvas[c].w # u.w \/ canvas[c].h # u.h))
    <3> DEFINE cv == canvas[c]
               x == [p \in DOMAIN cv.px |-> IF p \in DOMAIN u.px THEN u.px[p] ELSE cv.px[p]]
    <3>1. cv = None => n = None
      BY <2>2 DEF Drawn, AtOrigin
    <3>2. cv # None => n = [cv EXCEPT !.px = x]
      BY <2>2 DEF Drawn, AtOrigin
    <3>3. cv # None => cv = [w |-> cv.w, h |-> cv.h, px |-> cv.px]
      BY <1>2
    <3> HIDE DEF n, x, u
    <3>4. cv # None => n.w = cv.w /\ n.h = cv.h
      BY <3>2, <3>3
    <3> QED BY <1>2, <3>1, <3>4 DEF ModeOf
  <2> QED BY <2>1, <2>2
<1> HIDE DEF n, u
<1>5. \A d \in Clients : AllProper(decoding'[d]) /\ ModeOf(canvas'[d])
  <2>1. \A d \in Clients : d # c => canvas'[d] = canvas[d] /\ decoding'[d] = decoding[d]
    BY <1>1, <1>2
  <2>2. canvas'[c] = n /\ decoding'[c] = Tail(decoding[c])
    BY <1>1, <1>2
  <2> QED BY <1>2, <1>3, <1>4, <2>1, <2>2
<1>6. veiled' \in [Clients -> BOOLEAN]
  BY <1>1, Zenon DEF Typed, Held
<1>7. Held'
  BY <1>1, <1>6 DEF Typed, Held
<1>8. Traffic'
  BY <1>1, <1>5 DEF Typed, Traffic
<1> QED BY <1>1, <1>7, <1>8 DEF Typed, Bounded, fbVars

LEMMA RejectTypes ==
  ASSUME Typed, NEW c \in Clients, Reject(c)
  PROVE  Typed'
<1>1. /\ UNCHANGED <<fbVars, cast, handler, loop, batch, events, setter, state, behind, told,
                     veiled, decoding, canvas, inbox>>
  BY DEF Reject, ServerFrame, serverVars, stateVars
<1> QED BY <1>1 DEF Typed, Bounded, Traffic, Held, fbVars

LEMMA ConnectionTypes ==
  ASSUME Inv, Typed, NEW c \in Clients, ConnectionStep(c)
  PROVE  Typed'
<1>1. /\ UNCHANGED <<fbVars, cast, handler, loop, batch, events, setter, state, behind, told,
                     veiled, decoding, canvas>>
      /\ inbox' = inbox \/ inbox' = [inbox EXCEPT ![c] = <<>>]
  BY DEF ConnectionStep, Stall, Thaw, Close, PingTimeout, GiveUp, Closed, Open, ServerFrame, serverVars, stateVars, pageVars
<1>2. AllSound(<<>>) /\ Len(<<>>) <= BufferSize
  BY EmptyQueue, BufferAssumption DEF AllSound
<1>3. \A d \in Clients : AllSound(inbox'[d]) /\ Len(inbox'[d]) <= BufferSize
  <2>1. /\ inbox = [d \in Clients |-> inbox[d]]
        /\ \A d \in Clients : AllSound(inbox[d]) /\ Len(inbox[d]) <= BufferSize
    BY DEF Inv, Shape, Typed, Traffic
  <2>2. \A d \in Clients : inbox'[d] = inbox[d] \/ inbox'[d] = <<>>
    BY <1>1, <2>1
  <2> QED BY <1>2, <2>1, <2>2
<1>4. Held'
  BY <1>1 DEF Typed, Held
<1>5. Traffic'
  BY <1>1, <1>3 DEF Typed, Traffic
<1> QED BY <1>1, <1>4, <1>5 DEF Typed, Bounded, fbVars

LEMMA InitTypes == ASSUME Init PROVE Typed
<1>1. Bounded
  BY VersionAssumption DEF Init, FrameInit, Bounded
<1>2. Traffic
  <2>1. AllSound(<<>>) /\ AllProper(<<>>) /\ Len(<<>>) <= BufferSize
    BY EmptyQueue, BufferAssumption DEF AllSound, AllProper
  <2> QED BY <2>1 DEF Init, Traffic, ModeOf
<1>3. Held
  <2>1. veiled \in [Clients -> BOOLEAN] /\ behind \in [Clients -> BOOLEAN]
    BY Zenon DEF Init
  <2>2. \A t \in Setters : setter[t] # "set"
    BY StatesAssumption DEF Init
  <2> QED BY <2>1, <2>2 DEF Init, Held
<1> QED BY <1>1, <1>2, <1>3 DEF Typed

LEMMA SameTypes == ASSUME Typed, UNCHANGED vars PROVE Typed'
BY DEF Typed, Bounded, Traffic, Held, vars, fbVars, serverVars, stateVars, pageVars

LEMMA StepTypes ==
  ASSUME NoneIsNoRecord, InPixels, Inv, InOrder, Pictured, Typed, [Next]_vars, ~Trims
  PROVE  Typed'
<1>1. CASE UNCHANGED vars
  BY <1>1, SameTypes
<1>2. CASE \E t \in Setters : SetState(t) \/ ReadState(t) \/ QueueState(t)
  BY <1>2, SetterTypes
<1>3. CASE \E t \in Tasks : CastStep(t)
  BY <1>3, SendNextTypes DEF CastStep
<1>4. ASSUME NEW c \in Clients,
             \/ Connect(c) \/ HandlerStep(c) \/ ForceFullFrame(c)
             \/ Receive(c) \/ Draw(c) \/ Reject(c) \/ ConnectionStep(c)
      PROVE  Typed'
  BY <1>4, RejectTypes, HandlerTypes, ForceTypes, ReceiveTypes, DrawTypes, ConnectionTypes
<1> QED BY <1>1, <1>2, <1>3, <1>4, PaintTypes, LoopTypes DEF Next

\* Only pages break.
PagesBreak == broken \subseteq Clients

LEMMA StepBreaks ==
  ASSUME PagesBreak, [Next]_vars PROVE PagesBreak'
<1>1. CASE UNCHANGED vars \/ Paint \/ \E t \in Setters : SetState(t) \/ ReadState(t) \/ QueueState(t)
  BY <1>1 DEF vars, Paint, SetState, ReadState, QueueState, pageVars, PagesBreak
<1>2. CASE LoopStep \/ \E t \in Tasks : CastStep(t)
  BY <1>2 DEF LoopStep, Wake, Drain, NextEvent, LoopFrame, CastStep, SendNext, pageVars,
             PagesBreak
<1>3. ASSUME NEW c \in Clients, Connect(c) \/ HandlerStep(c) \/ ForceFullFrame(c)
      PROVE  broken' = broken
  BY <1>3 DEF Connect, HandlerStep, KeyframeSent, Greet, Leave, ForceFullFrame, pageVars
<1>4. ASSUME NEW c \in Clients, Receive(c) \/ Draw(c) \/ Reject(c)
      PROVE  broken' \subseteq broken \cup {c}
  BY <1>4 DEF Receive, Draw, Reject
<1>5. ASSUME NEW c \in Clients, ConnectionStep(c)
      PROVE  broken' = broken
  BY <1>5 DEF ConnectionStep, Stall, Thaw, Close, PingTimeout, GiveUp, Closed, pageVars
<1> QED BY <1>1, <1>2, <1>3, <1>4, <1>5 DEF Next, PagesBreak

LEMMA TypedClients ==
  ASSUME Inv, InOrder, Typed, PagesBreak PROVE ClientsTypeOK
<1>1. \A t \in Tasks : IsCast(cast[t])
  <2> SUFFICES ASSUME NEW t \in Tasks, cast[t] # None PROVE IsCast(cast[t])
    BY DEF IsCast
  <2>1. IsMessage(cast[t].message)
    BY DEF Typed, Traffic, Sound
  <2>2. cast[t].todo \subseteq Clients /\ cast[t].dead \subseteq Clients
    BY DEF Inv, Served
  <2> QED BY <2>1, <2>2 DEF IsCast
<1>2. /\ \A i \in DOMAIN events : IsMessage(events[i]) /\ events[i].kind # "frame"
      /\ \A i \in DOMAIN batch : IsMessage(batch[i]) /\ batch[i].kind # "frame"
  BY DEF Typed, Traffic, AllSound, Sound, InOrder, NoFrames
<1>3. \A c \in Clients : /\ Len(inbox[c]) <= BufferSize
                         /\ \A i \in DOMAIN inbox[c] : IsMessage(inbox[c][i])
                         /\ \A i \in DOMAIN decoding[c] : IsUpdate(decoding[c][i])
                         /\ canvas[c] = None \/ <<canvas[c].w, canvas[c].h>> \in Sizes
  BY DEF Typed, Traffic, AllSound, Sound, AllProper, Proper, ModeOf
<1>4. /\ clients \subseteq Clients
      /\ conn \in [Clients -> {"new", "open", "frozen", "vanished", "closed"}]
      /\ state \in AllStates
  BY DEF Inv, Shape
<1>5. /\ handler \in [Clients -> {"off", "keyframe", "greet", "serve", "force"}]
      /\ loop \in {"sleep", "drain", "events"}
      /\ setter \in [Setters -> States \cup {None, "set"}]
      /\ told \in [Clients -> AllStates \cup {None}]
      /\ veiled \in [Clients -> BOOLEAN]
      /\ behind \in [Clients -> BOOLEAN]
  BY DEF Typed, Held
<1> QED BY <1>1, <1>2, <1>3, <1>4, <1>5, Zenon DEF ClientsTypeOK, PagesBreak

\* Events, broadcasts, buffers and pages hold what they are meant to, no client has
\* more on its way than its buffers take, and a page shows a picture in one of the
\* video modes, never in the size of a part of one: as long as no part that begins
\* at (0, 0) is sent on its own (webserver.py: WebServer, _broadcast_loop,
\* _ws_handler; framebuffer.py: FrameBuffer; index.html: drawFrame).
THEOREM PagesTyped ==
  ASSUME NoneIsNoRecord, InPixels
  PROVE  Spec /\ [][~Trims]_vars => []ClientsTypeOK
<1>1. Init => Inv /\ InOrder /\ Pictured /\ Typed /\ PagesBreak
  BY InitInforms, InitSorts, InitPictures, InitTypes DEF Init, PagesBreak
<1>2. Inv /\ InOrder /\ Pictured /\ Typed /\ PagesBreak
        /\ [Next]_vars /\ [~Trims]_vars
        => Inv' /\ InOrder' /\ Pictured' /\ Typed' /\ PagesBreak'
  <2> SUFFICES ASSUME Inv, InOrder, Pictured, Typed, PagesBreak,
                      [Next]_vars, [~Trims]_vars
               PROVE  Inv' /\ InOrder' /\ Pictured' /\ Typed' /\ PagesBreak'
    OBVIOUS
  <2>1. Inv' /\ InOrder' /\ PagesBreak'
    BY StepInforms, StepSorts, StepBreaks DEF NoneIsNoRecord
  <2>2. CASE ~Trims
    BY <2>1, <2>2, StepPictures, StepTypes
  <2>3. CASE UNCHANGED vars
    BY <2>1, <2>3, SamePictures, SameTypes DEF vars, serverVars, pageVars, PagesBreak
  <2> QED BY <2>1, <2>2, <2>3
<1>3. Inv /\ InOrder /\ Typed /\ PagesBreak => ClientsTypeOK
  BY TypedClients
<1> QED BY <1>1, <1>2, <1>3, PTL DEF Spec
=============================================================================
