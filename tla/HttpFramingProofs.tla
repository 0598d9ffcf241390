------------------------- MODULE HttpFramingProofs -------------------------
(***************************************************************************)
(* Where the end of a reply is found, and that the body is what was sent:    *)
(* for every well-formed reply, whatever its payload looks like and in       *)
(* whatever pieces it arrives.                                               *)
(*                                                                         *)
(* The loops over chunks and digits are recursive functions.  That they      *)
(* exist, and what they compute, is shown by induction over sets of          *)
(* numbers, from the well-founded order of the naturals.                     *)
(***************************************************************************)
EXTENDS HttpFraming, SequenceTheorems, WellFoundedInduction, TLAPS

-----------------------------------------------------------------------------
(* Induction and recursion.                                                  *)

LEMMA LeastOf ==
  ASSUME NEW A, A \subseteq Nat, A # {} PROVE \E n \in A : \A m \in A : n <= m
<1> DEFINE R == OpToRel(<, Nat)
<1>1. \E n \in A : \A m \in A : ~ (<<m, n>> \in R)
  <2>1. IsWellFoundedOn(R, Nat)
    BY NatLessThanWellFounded
  <2> HIDE DEF R
  <2> QED BY <2>1, WFMin
<1>2. \A n, m \in Nat : <<m, n>> \in R <=> m < n
  BY DEF OpToRel
<1> HIDE DEF R
<1>3. PICK n \in A : \A m \in A : ~ (<<m, n>> \in R)
  BY <1>1
<1>4. ASSUME NEW m \in A PROVE n <= m
  <2>1. n \in Nat /\ m \in Nat
    OBVIOUS
  <2>2. ~(m < n)
    BY <1>2, <1>3, <2>1
  <2> QED BY <2>1, <2>2
<1> QED BY <1>4

LEMMA EveryNumber ==
  ASSUME NEW A, 0 \in A, \A n \in Nat : n \in A => n + 1 \in A
  PROVE  Nat \subseteq A
<1> SUFFICES ASSUME Nat \ A # {} PROVE FALSE
  OBVIOUS
<1>1. PICK n \in Nat \ A : \A m \in Nat \ A : n <= m
  BY LeastOf
<1>2. n - 1 \in Nat /\ n - 1 \in A
  BY <1>1
<1> QED BY <1>1, <1>2

\* The first n steps of a recursion from x by g.
Runs(f, n, x, g) == f[0] = x /\ \A i \in Nat : i < n => f[i + 1] = g[<<i + 1, f[i]>>]

LEMMA RunsLonger ==
  ASSUME NEW S, NEW x \in S, NEW g \in [Nat \X S -> S], NEW n \in Nat,
         NEW f \in [Nat -> S], Runs(f, n, x, g)
  PROVE  \E e \in [Nat -> S] : Runs(e, n + 1, x, g)
<1> DEFINE e == [f EXCEPT ![n + 1] = g[<<n + 1, f[n]>>]]
<1>1. <<n + 1, f[n]>> \in Nat \X S
  OBVIOUS
<1>2. /\ e \in [Nat -> S] /\ e[n + 1] = g[<<n + 1, f[n]>>]
      /\ \A i \in Nat : i # n + 1 => e[i] = f[i]
  BY <1>1
<1> HIDE DEF e
<1>3. e[0] = x
  BY <1>2 DEF Runs
<1>4. ASSUME NEW i \in Nat, i < n + 1 PROVE e[i + 1] = g[<<i + 1, e[i]>>]
  <2>1. e[i] = f[i]
    BY <1>2, <1>4
  <2>2. CASE i = n
    BY <1>2, <2>1, <2>2
  <2>3. CASE i # n
    <3>1. i < n /\ i + 1 # n + 1 /\ i + 1 \in Nat
      BY <1>4, <2>3
    <3>2. e[i + 1] = f[i + 1]
      BY <1>2, <3>1
    <3> QED BY <2>1, <3>1, <3>2 DEF Runs
  <2> QED BY <2>2, <2>3
<1> QED BY <1>2, <1>3, <1>4 DEF Runs

LEMMA RunsAgree ==
  ASSUME NEW S, NEW x \in S, NEW g, NEW n \in Nat, NEW e \in [Nat -> S], NEW f \in [Nat -> S],
         Runs(e, n, x, g), Runs(f, n, x, g)
  PROVE  e[n] = f[n]
<1> DEFINE B == {i \in Nat : i <= n => e[i] = f[i]}
<1>1. 0 \in B
  BY DEF Runs
<1>2. ASSUME NEW i \in Nat, i \in B PROVE i + 1 \in B
  <2> SUFFICES ASSUME i + 1 <= n PROVE e[i + 1] = f[i + 1]
    OBVIOUS
  <2>1. e[i] = f[i] /\ i < n
    BY <1>2
  <2> QED BY <2>1 DEF Runs
<1> HIDE DEF B
<1>3. Nat \subseteq B
  BY <1>1, <1>2, EveryNumber
<1> QED BY <1>3 DEF B

\* A recursion within a set describes a function.
Run(f, S, x, g) ==
  f \in [Nat -> S] /\ f[0] = x /\ \A n \in Nat : f[n + 1] = g[<<n + 1, f[n]>>]

LEMMA RunExists ==
  ASSUME NEW S, NEW x, x \in S, NEW g, g \in [Nat \X S -> S] PROVE \E f : Run(f, S, x, g)
<1> DEFINE A == {n \in Nat : \E f \in [Nat -> S] : Runs(f, n, x, g)}
<1>1. 0 \in A
  <2>1. [n \in Nat |-> x] \in [Nat -> S] /\ Runs([n \in Nat |-> x], 0, x, g)
    BY DEF Runs
  <2> QED BY <2>1
<1>2. ASSUME NEW n \in Nat, n \in A PROVE n + 1 \in A
  <2>1. PICK f \in [Nat -> S] : Runs(f, n, x, g)
    BY <1>2
  <2>2. \E e \in [Nat -> S] : Runs(e, n + 1, x, g)
    BY <2>1, RunsLonger
  <2>3. n + 1 \in Nat
    OBVIOUS
  <2> QED BY <2>2, <2>3
<1> HIDE DEF A
<1>3. Nat \subseteq A
  BY <1>1, <1>2, EveryNumber
<1>4. \A n \in Nat : \E f \in [Nat -> S] : Runs(f, n, x, g)
  BY <1>3 DEF A
<1> DEFINE run == [n \in Nat |-> CHOOSE f \in [Nat -> S] : Runs(f, n, x, g)]
           h == [n \in Nat |-> run[n][n]]
<1>5. \A n \in Nat : run[n] \in [Nat -> S] /\ Runs(run[n], n, x, g)
  BY <1>4
<1> HIDE DEF run
<1>6. h \in [Nat -> S] /\ h[0] = x
  BY <1>5 DEF Runs
<1>7. ASSUME NEW n \in Nat PROVE h[n + 1] = g[<<n + 1, h[n]>>]
  <2> DEFINE e == run[n + 1]
  <2>1. n + 1 \in Nat /\ e \in [Nat -> S] /\ Runs(e, n + 1, x, g)
    BY <1>5
  <2> HIDE DEF e
  <2>2. /\ e[0] = x /\ e[n + 1] = g[<<n + 1, e[n]>>]
        /\ \A i \in Nat : i < n => e[i + 1] = g[<<i + 1, e[i]>>]
    <3>1. n < n + 1 /\ \A i \in Nat : i < n => i < n + 1
      OBVIOUS
    <3> QED BY <2>1, <3>1 DEF Runs
  <2>3. Runs(e, n, x, g)
    BY <2>2 DEF Runs
  <2>4. e[n] = run[n][n]
    BY <1>5, <2>1, <2>3, RunsAgree
  <2> QED BY <2>1, <2>2, <2>4 DEF e
<1> HIDE DEF h
<1> QED BY <1>6, <1>7 DEF Run
-----------------------------------------------------------------------------
(* What the recursive functions of the model are.                            *)

LEMMA Product ==
  ASSUME NEW base \in {10, 16}, NEW m \in Nat, NEW n \in Nat PROVE base * m + n \in Nat
<1>1. CASE base = 10
  BY <1>1
<1>2. CASE base = 16
  BY <1>2
<1> QED BY <1>1, <1>2

\* Reading digits from left to right.
Counts(v, base, d) ==
  /\ v[0] = 0 /\ \A k \in 0..Len(d) : v[k] \in Nat
  /\ \A k \in 1..Len(d) : v[k] = base * v[k - 1] + d[k]

LEMMA ValueCounts ==
  ASSUME NEW base \in {10, 16}, NEW d \in Seq(Nat)
  PROVE  \E v : Counts(v, base, d) /\ Value(base, d) = v[Len(d)]
<1> DEFINE D == 0..Len(d)
           add(k, m) == base * m + d[k]
           step == [p \in Nat \X Nat |-> IF p[1] \in 1..Len(d) THEN add(p[1], p[2]) ELSE 0]
           F(f) == f = [k \in D |-> IF k = 0 THEN 0 ELSE base * f[k - 1] + d[k]]
           v == CHOOSE f : F(f)
<1>1. \A k \in 1..Len(d), m \in Nat : add(k, m) \in Nat
  BY Product
<1>2. \A f : F(f) <=> f = [k \in D |-> IF k = 0 THEN 0 ELSE add(k, f[k - 1])]
  OBVIOUS
<1> HIDE DEF add, F
<1>3. step \in [Nat \X Nat -> Nat]
  BY <1>1
<1>4. \A k \in 1..Len(d), m \in Nat : step[<<k, m>>] = add(k, m)
  OBVIOUS
<1> HIDE DEF step
<1>5. PICK f : Run(f, Nat, 0, step)
  BY <1>3, RunExists
<1>6. f \in [Nat -> Nat] /\ f[0] = 0 /\ \A n \in Nat : f[n + 1] = step[<<n + 1, f[n]>>]
  BY <1>5 DEF Run
<1> DEFINE h == [k \in D |-> f[k]]
<1>7. ASSUME NEW k \in D PROVE h[k] = IF k = 0 THEN 0 ELSE add(k, h[k - 1])
  <2>1. CASE k = 0
    BY <1>6, <2>1
  <2>2. CASE k # 0
    <3>1. k - 1 \in Nat /\ k - 1 \in D /\ (k - 1) + 1 = k /\ k \in 1..Len(d)
      BY <2>2
    <3>2. f[k] = step[<<k, f[k - 1]>>]
      BY <1>6, <3>1
    <3>3. step[<<k, f[k - 1]>>] = add(k, f[k - 1])
      BY <1>4, <1>6, <3>1
    <3> QED BY <2>2, <3>1, <3>2, <3>3
  <2> QED BY <2>1, <2>2
<1>8. F(h)
  BY <1>2, <1>7
<1> HIDE DEF h
<1>9. F(v)
  BY <1>8
<1>10. v = [k \in D |-> IF k = 0 THEN 0 ELSE add(k, v[k - 1])]
  BY <1>2, <1>9
<1> HIDE DEF v
<1> DEFINE A == {k \in Nat : k \in D => v[k] \in Nat}
<1>11. 0 \in A
  BY <1>10
<1>12. ASSUME NEW k \in Nat, k \in A PROVE k + 1 \in A
  <2> SUFFICES ASSUME k + 1 \in D PROVE v[k + 1] \in Nat
    OBVIOUS
  <2>1. k \in D /\ (k + 1) - 1 = k /\ k + 1 # 0 /\ k + 1 \in 1..Len(d)
    <3>1. Len(d) \in Nat
      BY LenProperties
    <3> QED BY <3>1
  <2>2. v[k] \in Nat
    BY <1>12, <2>1
  <2>3. v[k + 1] = add(k + 1, v[k])
    BY <1>10, <2>1
  <2> QED BY <1>1, <2>1, <2>2, <2>3
<1> HIDE DEF A
<1>13. Nat \subseteq A
  BY <1>11, <1>12, EveryNumber
<1>14. \A k \in 0..Len(d) : v[k] \in Nat
  BY <1>13 DEF A
<1>15. ASSUME NEW k \in 1..Len(d) PROVE v[k] = base * v[k - 1] + d[k]
  <2>1. k \in D /\ k # 0
    BY LenProperties
  <2> QED BY <1>10, <2>1 DEF add
<1>16. v[0] = 0
  <2>1. 0 \in D
    BY LenProperties
  <2> QED BY <1>10, <2>1
<1>17. Value(base, d) = v[Len(d)]
  BY DEF Value, v, F
<1>18. Counts(v, base, d)
  BY <1>14, <1>15, <1>16 DEF Counts
<1> QED BY <1>17, <1>18

LEMMA ValueIsNumber ==
  ASSUME NEW base \in {10, 16}, NEW d \in Seq(Nat) PROVE Value(base, d) \in Nat
<1>1. Len(d) \in 0..Len(d)
  BY LenProperties
<1> QED BY <1>1, ValueCounts DEF Counts

\* The same for a loop that does not count its rounds, and of which m are looked at.
Loop(h, S, x, g, m) ==
  h \in [0..m -> S] /\ h = [n \in 0..m |-> IF n = 0 THEN x ELSE g[h[n - 1]]]

LEMMA LoopExists ==
  ASSUME NEW S, NEW x, x \in S, NEW g, g \in [S -> S], NEW m \in Nat
  PROVE  \E h : Loop(h, S, x, g, m)
<1> DEFINE step == [p \in Nat \X S |-> g[p[2]]]
<1>1. step \in [Nat \X S -> S] /\ \A n \in Nat, s \in S : step[<<n, s>>] = g[s]
  OBVIOUS
<1> HIDE DEF step
<1>2. PICK f : Run(f, S, x, step)
  BY <1>1, RunExists
<1>3. f \in [Nat -> S] /\ f[0] = x /\ \A n \in Nat : f[n + 1] = g[f[n]]
  <2>1. f \in [Nat -> S] /\ f[0] = x /\ \A n \in Nat : f[n + 1] = step[<<n + 1, f[n]>>]
    BY <1>2 DEF Run
  <2>2. \A n \in Nat : step[<<n + 1, f[n]>>] = g[f[n]]
    BY <1>1, <2>1
  <2> QED BY <2>1, <2>2
<1> DEFINE h == [n \in 0..m |-> f[n]]
<1>4. h \in [0..m -> S]
  BY <1>3
<1>5. ASSUME NEW n \in 0..m PROVE h[n] = IF n = 0 THEN x ELSE g[h[n - 1]]
  <2>1. CASE n = 0
    BY <1>3, <2>1
  <2>2. CASE n # 0
    <3>1. n - 1 \in Nat /\ n - 1 \in 0..m /\ (n - 1) + 1 = n
      BY <2>2
    <3>2. f[n] = g[f[n - 1]]
      BY <1>3, <3>1
    <3> QED BY <2>2, <3>1, <3>2
  <2> QED BY <2>1, <2>2
<1> HIDE DEF h
<1>6. h = [n \in 0..m |-> IF n = 0 THEN x ELSE g[h[n - 1]]]
  BY <1>4, <1>5
<1> QED BY <1>4, <1>6 DEF Loop

LEMMA FindNext ==
  ASSUME NEW s, NEW x, NEW i \in Nat, Len(s) \in Nat
  PROVE  \/ Find(s, x, i) = 0 /\ \A j \in i..Len(s) : s[j] # x
         \/ /\ Find(s, x, i) \in i..Len(s) /\ s[Find(s, x, i)] = x
            /\ \A j \in i..(Find(s, x, i) - 1) : s[j] # x
<1> DEFINE I == {j \in i..Len(s) : s[j] = x}
<1>1. Find(s, x, i) = IF I # {} THEN Min(I) ELSE 0
  BY DEF Find, SelectInSubSeq
<1>2. CASE I = {}
  BY <1>1, <1>2
<1>3. CASE I # {}
  <2>1. I \subseteq Nat
    OBVIOUS
  <2> HIDE DEF I
  <2>2. \E n \in I : \A m \in I : n <= m
    BY <1>3, <2>1, LeastOf
  <2>3. Min(I) \in I /\ \A m \in I : Min(I) <= m
    BY <2>2 DEF Min
  <2>4. ASSUME NEW j \in i..(Min(I) - 1) PROVE s[j] # x
    <3>1. Min(I) \in i..Len(s)
      BY <2>3 DEF I
    <3>2. j \in i..Len(s) /\ ~(Min(I) <= j)
      BY <3>1
    <3> QED BY <2>3, <3>2 DEF I
  <2> QED BY <1>1, <1>3, <2>3, <2>4 DEF I
<1> QED BY <1>2, <1>3

\* The least is what Find finds.
LEMMA FindIs ==
  ASSUME NEW s, NEW x, NEW i \in Nat, Len(s) \in Nat, NEW e \in i..Len(s), i # 0,
         s[e] = x, \A j \in i..(e - 1) : s[j] # x
  PROVE  Find(s, x, i) = e
<1> DEFINE f == Find(s, x, i)
<1>1. \/ f = 0 /\ \A j \in i..Len(s) : s[j] # x
      \/ f \in i..Len(s) /\ s[f] = x /\ \A j \in i..(f - 1) : s[j] # x
  BY FindNext
<1> HIDE DEF f
<1>2. f \in i..Len(s) /\ s[f] = x /\ \A j \in i..(f - 1) : s[j] # x
  BY <1>1
<1>3. ~(e < f) /\ ~(f < e)
  BY <1>2
<1> QED BY <1>2, <1>3 DEF f
-----------------------------------------------------------------------------
(* The loops over chunks.                                                    *)

LEMMA ChunkIsNumber ==
  ASSUME NEW buf \in Seq(Nat), NEW i \in Nat \ {0}, HasSize(buf, i)
  PROVE  /\ LineEnd(buf, i) \in i..Len(buf) /\ SizeAt(buf, i) \in Nat
         /\ NextChunk(buf, i) \in Nat /\ NextChunk(buf, i) > LineEnd(buf, i)
<1>1. Len(buf) \in Nat
  BY LenProperties
<1>2. LineEnd(buf, i) \in i..Len(buf)
  BY <1>1, FindNext DEF LineEnd, HasSize
<1>3. SizeLine(buf, i) \in Seq(Nat)
  BY <1>1, <1>2, SubSeqProperties DEF SizeLine
<1>4. SizeAt(buf, i) \in Nat
  BY <1>3, ValueIsNumber DEF SizeAt
<1>5. NextChunk(buf, i) \in Nat /\ NextChunk(buf, i) > LineEnd(buf, i)
  BY <1>1, <1>2, <1>4 DEF NextChunk
<1> QED BY <1>2, <1>4, <1>5

LEMMA RoundsAre ==
  ASSUME NEW buf \in Seq(Nat)
  PROVE  Rounds(buf) = [n \in 0..Len(buf) |->
                          IF n = 0 THEN 1 ELSE NextRound(buf, Rounds(buf)[n - 1])]
<1> DEFINE D == 0..Len(buf)
           g == [i \in Nat |-> NextRound(buf, i)]
           F(f) == f = [n \in D |-> IF n = 0 THEN 1 ELSE NextRound(buf, f[n - 1])]
           v == CHOOSE f : F(f)
<1>1. ASSUME NEW i \in Nat PROVE NextRound(buf, i) \in Nat
  <2>1. CASE i # 0 /\ Arrived(buf, i) /\ SizeAt(buf, i) # 0
    <3>1. NextChunk(buf, i) \in Nat
      BY <2>1, ChunkIsNumber DEF Arrived
    <3> QED BY <2>1, <3>1 DEF NextRound
  <2>2. CASE ~(i # 0 /\ Arrived(buf, i) /\ SizeAt(buf, i) # 0)
    BY <2>2 DEF NextRound
  <2> QED BY <2>1, <2>2
<1>2. g \in [Nat -> Nat] /\ \A i \in Nat : g[i] = NextRound(buf, i)
  BY <1>1
<1> HIDE DEF g
<1>3. Len(buf) \in Nat
  BY LenProperties
<1>4. \E h : Loop(h, Nat, 1, g, Len(buf))
  BY <1>2, <1>3, LoopExists
<1> PICK h : h \in [D -> Nat] /\ h = [n \in D |-> IF n = 0 THEN 1 ELSE g[h[n - 1]]]
  BY <1>4 DEF Loop
<1>5. ASSUME NEW n \in D, n # 0 PROVE g[h[n - 1]] = NextRound(buf, h[n - 1])
  <2>1. n - 1 \in D
    BY <1>3, <1>5
  <2> QED BY <1>2, <2>1
<1>6. F(h)
  BY <1>5
<1> HIDE DEF F
<1>7. F(v)
  BY <1>6
<1>8. Rounds(buf) = v
  BY DEF Rounds, v, F
<1> QED BY <1>7, <1>8 DEF F

LEMMA DataAre ==
  ASSUME NEW buf \in Seq(Nat), NEW i \in Nat \ {0}, HasSize(buf, i)
  PROVE  Data(buf, i) \in Seq(Nat)
<1> DEFINE from == LineEnd(buf, i) + 1
           last == LineEnd(buf, i) + SizeAt(buf, i)
           to == IF last < Len(buf) THEN last ELSE Len(buf)
<1>1. Len(buf) \in Nat
  BY LenProperties
<1>2. LineEnd(buf, i) \in i..Len(buf) /\ SizeAt(buf, i) \in Nat
  BY ChunkIsNumber
<1>3. last \in Nat /\ last >= LineEnd(buf, i) /\ from \in 1..(Len(buf) + 1)
  BY <1>1, <1>2
<1>4. to \in (from - 1)..Len(buf)
  BY <1>1, <1>2, <1>3
<1>5. SubSeq(buf, from, to) \in Seq(Nat)
  BY <1>1, <1>3, <1>4, SubSeqProperties
<1> QED BY <1>5 DEF Data

LEMMA DechunkedAre ==
  ASSUME NEW buf \in Seq(Nat)
  PROVE  Dechunked(buf) = [n \in 0..Len(buf) |->
           IF n = 0 THEN [at |-> 1, out |-> <<>>] ELSE PutOut(buf, Dechunked(buf)[n - 1])]
<1> DEFINE D == 0..Len(buf)
           S == [at : Nat \ {0}, out : Seq(Nat)]
           start == [at |-> 1, out |-> <<>>]
           g == [s \in S |-> PutOut(buf, s)]
           F(f) == f = [n \in D |-> IF n = 0 THEN start ELSE PutOut(buf, f[n - 1])]
           v == CHOOSE f : F(f)
<1>1. ASSUME NEW s \in S PROVE PutOut(buf, s) \in S
  <2>1. s.at \in Nat \ {0} /\ s.out \in Seq(Nat)
    OBVIOUS
  <2>2. CASE HasSize(buf, s.at) /\ SizeAt(buf, s.at) # 0
    <3>1. NextChunk(buf, s.at) \in Nat /\ NextChunk(buf, s.at) > LineEnd(buf, s.at)
          /\ LineEnd(buf, s.at) \in s.at..Len(buf)
      BY <2>1, <2>2, ChunkIsNumber
    <3>2. NextChunk(buf, s.at) \in Nat \ {0}
      BY <2>1, <3>1, LenProperties
    <3>3. s.out \o Data(buf, s.at) \in Seq(Nat)
      BY <2>1, <2>2, DataAre, ConcatProperties
    <3> QED BY <2>2, <3>2, <3>3 DEF PutOut
  <2>3. CASE ~(HasSize(buf, s.at) /\ SizeAt(buf, s.at) # 0)
    BY <2>3 DEF PutOut
  <2> QED BY <2>2, <2>3
<1>2. g \in [S -> S] /\ \A s \in S : g[s] = PutOut(buf, s)
  BY <1>1
<1>3. Len(buf) \in Nat
  BY LenProperties
<1>4. start \in S
  OBVIOUS
<1> HIDE DEF g, S, start
<1>5. \E h : Loop(h, S, start, g, Len(buf))
  BY <1>2, <1>3, <1>4, LoopExists
<1> PICK h : h \in [D -> S] /\ h = [n \in D |-> IF n = 0 THEN start ELSE g[h[n - 1]]]
  BY <1>5 DEF Loop
<1>6. ASSUME NEW n \in D, n # 0 PROVE g[h[n - 1]] = PutOut(buf, h[n - 1])
  <2>1. n - 1 \in D
    BY <1>3, <1>6
  <2> QED BY <1>2, <2>1
<1>7. F(h)
  BY <1>6
<1> HIDE DEF F
<1>8. F(v)
  BY <1>7
<1>9. Dechunked(buf) = v
  BY DEF Dechunked, v, F, start
<1> QED BY <1>8, <1>9 DEF F, start
-----------------------------------------------------------------------------
(* A chunked body of which a part has arrived.                               *)

LEMMA PrefixIs ==
  ASSUME NEW s \in Seq(Nat), NEW m \in 0..Len(s)
  PROVE  /\ Prefix(s, m) \in Seq(Nat) /\ Len(Prefix(s, m)) = m
         /\ \A i \in 1..m : Prefix(s, m)[i] = s[i]
<1>1. Len(s) \in Nat
  BY LenProperties
<1>2. \A i \in 1..m : s[i] \in Nat
  BY <1>1, ElementOfSeq
<1> QED BY <1>1, <1>2, SubSeqProperties DEF Prefix

LEMMA FromIs ==
  ASSUME NEW s \in Seq(Nat), NEW m \in 1..(Len(s) + 1)
  PROVE  /\ From(s, m) \in Seq(Nat) /\ Len(From(s, m)) = Len(s) + 1 - m
         /\ \A i \in 1..(Len(s) + 1 - m) : From(s, m)[i] = s[m + i - 1]
<1>1. Len(s) \in Nat
  BY LenProperties
<1>2. \A i \in m..Len(s) : s[i] \in Nat
  BY <1>1, ElementOfSeq
<1> QED BY <1>1, <1>2, SubSeqProperties DEF From

LEMMA SliceOfPrefix ==
  ASSUME NEW s \in Seq(Nat), NEW m \in 0..Len(s), NEW i \in Nat \ {0}, NEW j \in 0..m
  PROVE  SubSeq(Prefix(s, m), i, j) = SubSeq(s, i, j)
<1> DEFINE p == Prefix(s, m)
           n == j - i + 1
<1>1. Len(s) \in Nat
  BY LenProperties
<1>2. p \in Seq(Nat) /\ Len(p) = m /\ \A k \in 1..m : p[k] = s[k]
  BY PrefixIs
<1> HIDE DEF p
<1>3. \A k \in i..j : p[k] \in Nat /\ s[k] \in Nat /\ p[k] = s[k]
  <2> TAKE k \in i..j
  <2>1. k \in 1..m /\ k \in 1..Len(s)
    BY <1>1
  <2> QED BY <1>2, <2>1, ElementOfSeq
<1>4. /\ SubSeq(p, i, j) \in Seq(Nat) /\ Len(SubSeq(p, i, j)) = IF i <= j THEN n ELSE 0
      /\ \A k \in 1..n : SubSeq(p, i, j)[k] = p[i + k - 1]
  BY <1>1, <1>3, SubSeqProperties
<1>5. /\ SubSeq(s, i, j) \in Seq(Nat) /\ Len(SubSeq(s, i, j)) = IF i <= j THEN n ELSE 0
      /\ \A k \in 1..n : SubSeq(s, i, j)[k] = s[i + k - 1]
  BY <1>1, <1>3, SubSeqProperties
<1>6. ASSUME NEW k \in 1..Len(SubSeq(p, i, j)) PROVE SubSeq(p, i, j)[k] = SubSeq(s, i, j)[k]
  <2>1. k \in 1..n /\ i + k - 1 \in i..j
    BY <1>1, <1>4
  <2> QED BY <1>3, <1>4, <1>5, <2>1
<1>7. SubSeq(p, i, j) = SubSeq(s, i, j)
  BY <1>4, <1>5, <1>6, SeqEqual
<1> QED BY <1>7 DEF p

\* Without its last digit a number is a tenth of itself.
LEMMA DigitsTenth ==
  ASSUME NEW d \in Seq(Nat), IsNumber(10, d)
  PROVE  Value(10, Prefix(d, Len(d) - 1)) = Value(10, d) \div 10
<1> DEFINE n == Len(d)
           p == Prefix(d, n - 1)
<1>1. n \in Nat /\ n >= 1 /\ n - 1 \in 0..n /\ DOMAIN d = 1..n
  <2>1. n \in Nat /\ d # <<>> /\ DOMAIN d = 1..n
    BY LenProperties DEF IsNumber
  <2>2. n # 0
    BY <2>1, EmptySeq
  <2> QED BY <2>1, <2>2
<1>2. p \in Seq(Nat) /\ Len(p) = n - 1 /\ \A i \in 1..(n - 1) : p[i] = d[i]
  <2> HIDE DEF n
  <2> QED BY <1>1, PrefixIs DEF n
<1> HIDE DEF p
<1>3. PICK v : Counts(v, 10, d) /\ Value(10, d) = v[n]
  BY ValueCounts
<1>4. PICK w : Counts(w, 10, p) /\ Value(10, p) = w[Len(p)]
  BY <1>2, ValueCounts
<1> DEFINE A == {k \in Nat : k <= n - 1 => w[k] = v[k]}
<1>5. 0 \in A
  BY <1>3, <1>4 DEF Counts
<1>6. ASSUME NEW k \in Nat, k \in A PROVE k + 1 \in A
  <2> SUFFICES ASSUME k + 1 <= n - 1 PROVE w[k + 1] = v[k + 1]
    OBVIOUS
  <2>1. w[k] = v[k] /\ k + 1 \in 1..(n - 1) /\ k + 1 \in 1..n /\ (k + 1) - 1 = k
    BY <1>1, <1>6
  <2>2. w[k + 1] = 10 * w[k] + p[k + 1]
    BY <1>2, <1>4, <2>1 DEF Counts
  <2>3. v[k + 1] = 10 * v[k] + d[k + 1]
    BY <1>3, <2>1 DEF Counts
  <2> QED BY <1>2, <2>1, <2>2, <2>3
<1> HIDE DEF A
<1>7. w[n - 1] = v[n - 1]
  <2>1. \A k \in Nat : k \in A
    BY <1>5, <1>6, EveryNumber
  <2>2. n - 1 \in Nat /\ n - 1 <= n - 1
    BY <1>1
  <2> QED BY <2>1, <2>2 DEF A
<1>8. n \in 1..n /\ n - 1 \in 0..n /\ d[n] \in Nat /\ d[n] < 10
  BY <1>1, ElementOfSeq DEF IsNumber
<1>9. v[n] = 10 * v[n - 1] + d[n] /\ v[n - 1] \in Nat
  BY <1>3, <1>8 DEF Counts
<1> DEFINE a == v[n - 1]
           z == d[n]
<1>10. a \in Nat /\ z \in 0..9 /\ v[n] = 10 * a + z
  <2>1. a \in Nat /\ v[n] = 10 * a + z
    BY <1>9
  <2>2. z \in Nat /\ z < 10
    BY <1>8
  <2> HIDE DEF a, z
  <2> QED BY <2>1, <2>2
<1> HIDE DEF a, z
<1>11. v[n] \div 10 = a
  BY <1>10
<1>12. Value(10, p) = a
  BY <1>2, <1>4, <1>7 DEF a
<1> QED BY <1>3, <1>11, <1>12 DEF p, n

\* A size line is understood once its end has arrived, and not before.
LEMMA SizeSeen ==
  ASSUME NEW body \in Seq(Nat), NEW m \in 0..Len(body), NEW payload,
         NEW c \in [at : Nat, eol : Nat, size : Nat, off : Nat], IsChunk(body, c, payload)
  PROVE  /\ HasSize(Prefix(body, m), c.at) <=> m >= c.eol
         /\ m >= c.eol => /\ LineEnd(Prefix(body, m), c.at) = c.eol
                          /\ SizeAt(Prefix(body, m), c.at) = c.size
                          /\ NextChunk(Prefix(body, m), c.at) = c.eol + c.size + 2
<1> DEFINE b == Prefix(body, m)
           line == SubSeq(body, c.at, c.eol - 1)
<1>1. Len(body) \in Nat
  BY LenProperties
<1>2. b \in Seq(Nat) /\ Len(b) = m /\ \A k \in 1..m : b[k] = body[k]
  BY PrefixIs
<1>3. /\ c.at \in 1..Len(body) /\ c.eol \in 1..Len(body) /\ c.at < c.eol /\ c.size \in Nat
      /\ body[c.eol] = NL /\ \A i \in c.at..(c.eol - 1) : body[i] # NL
      /\ IsNumber(16, line) /\ Value(16, line) = c.size
  BY DEF IsChunk
<1> HIDE DEF b, line
<1>4. /\ c.at \in Nat /\ c.eol \in Nat /\ m \in Nat
       /\ c.at >= 1 /\ c.eol <= Len(body) /\ m <= Len(body)
  BY <1>1, <1>3
<1>5. ASSUME m >= c.eol
      PROVE  /\ LineEnd(b, c.at) = c.eol /\ HasSize(b, c.at) /\ SizeAt(b, c.at) = c.size
             /\ NextChunk(b, c.at) = c.eol + c.size + 2
  <2>1. c.at \in Nat /\ c.at # 0 /\ c.eol \in c.at..Len(b)
    BY <1>2, <1>3, <1>5, <1>4
  <2>2. b[c.eol] = NL /\ \A i \in c.at..(c.eol - 1) : b[i] # NL
    <3>1. c.eol \in 1..m /\ \A i \in c.at..(c.eol - 1) : i \in 1..m
      BY <1>3, <1>5, <1>4
    <3> QED BY <1>2, <1>3, <3>1
  <2>3. LineEnd(b, c.at) = c.eol
    <3>1. Len(b) \in Nat
      BY <1>2, <1>4
    <3> QED BY <2>1, <2>2, <3>1, FindIs DEF LineEnd
  <2>4. SizeLine(b, c.at) = line
    <3>1. c.at \in Nat \ {0} /\ c.eol - 1 \in 0..m
      BY <1>1, <1>3, <1>5
    <3>2. SubSeq(b, c.at, c.eol - 1) = line
      BY <3>1, SliceOfPrefix DEF b, line
    <3> QED BY <2>3, <3>2 DEF SizeLine
  <2>5. HasSize(b, c.at) /\ SizeAt(b, c.at) = c.size
    BY <1>3, <2>1, <2>3, <2>4 DEF HasSize, SizeAt
  <2> QED BY <2>3, <2>5 DEF NextChunk
<1>6. ASSUME ~(m >= c.eol) PROVE ~HasSize(b, c.at)
  <2> SUFFICES ASSUME HasSize(b, c.at) PROVE FALSE
    OBVIOUS
  <2>1. LineEnd(b, c.at) \in c.at..m /\ b[LineEnd(b, c.at)] = NL
    BY <1>2, <1>3, FindNext DEF LineEnd, HasSize
  <2>2. LineEnd(b, c.at) \in 1..m /\ LineEnd(b, c.at) \in c.at..(c.eol - 1)
    <3> DEFINE e == LineEnd(b, c.at)
    <3>1. e \in c.at..m
      BY <2>1
    <3> HIDE DEF e
    <3>2. e \in 1..m /\ e \in c.at..(c.eol - 1)
      BY <1>6, <1>4, <3>1
    <3> QED BY <3>2 DEF e
  <2> QED BY <1>2, <1>3, <2>1, <2>2
<1> QED BY <1>5, <1>6 DEF b

LEMMA ArrivedWhen ==
  ASSUME NEW body \in Seq(Nat), NEW m \in 0..Len(body), NEW payload,
         NEW c \in [at : Nat, eol : Nat, size : Nat, off : Nat], IsChunk(body, c, payload)
  PROVE  Arrived(Prefix(body, m), c.at) <=> m >= c.eol + c.size + 1
<1> DEFINE b == Prefix(body, m)
<1>1. Len(body) \in Nat /\ Len(b) = m
  BY LenProperties, PrefixIs
<1>2. /\ HasSize(b, c.at) <=> m >= c.eol
      /\ m >= c.eol => NextChunk(b, c.at) = c.eol + c.size + 2
  BY SizeSeen
<1>3. c.size \in Nat /\ c.eol \in Nat
  OBVIOUS
<1> HIDE DEF b
<1>4. Arrived(b, c.at) <=> m >= c.eol + c.size + 1
  BY <1>1, <1>2, <1>3 DEF Arrived
<1> QED BY <1>4 DEF b

Chunks == [at : Nat, eol : Nat, size : Nat, off : Nat]

\* The chunks of a body lie within it, and its payload within what they carry.
LEMMA ChunksFit ==
  ASSUME NEW body \in Seq(Nat), NEW chunks \in Seq(Chunks), NEW payload \in Seq(Nat),
         IsChunkedBody(body, chunks, payload)
  PROVE  /\ Len(chunks) \in 1..Len(body)
         /\ \A k \in 1..Len(chunks) :
              /\ chunks[k] \in Chunks /\ IsChunk(body, chunks[k], payload)
              /\ (chunks[k].size = 0) <=> (k = Len(chunks))
              /\ chunks[k].off + chunks[k].size <= Len(payload)
              /\ chunks[k].eol + chunks[k].size + 1 <= Len(body)
<1> DEFINE n == Len(chunks)
<1>1. Len(body) \in Nat /\ n \in Nat \ {0} /\ Len(payload) \in Nat
  <2>1. chunks # <<>>
    BY DEF IsChunkedBody
  <2> QED BY <2>1, LenProperties, EmptySeq
<1>2. \A k \in 1..n : chunks[k] \in Chunks /\ IsChunk(body, chunks[k], payload)
  BY ElementOfSeq DEF IsChunkedBody
<1>3. \A k \in 1..n : /\ chunks[k].at \in 1..Len(body) /\ chunks[k].eol \in Nat
                      /\ chunks[k].size \in Nat /\ chunks[k].off \in Nat
                      /\ chunks[k].at < chunks[k].eol
  BY <1>1, <1>2 DEF IsChunk, Chunks
<1>4. /\ chunks[1].at = 1 /\ chunks[n].size = 0
      /\ \A k \in 1..(n - 1) :
           /\ chunks[k].size > 0
           /\ chunks[k + 1].at = chunks[k].eol + chunks[k].size + 2
           /\ chunks[k + 1].off = chunks[k].off + chunks[k].size
      /\ Len(body) = chunks[n].eol + 1 /\ Len(payload) = chunks[n].off
  BY DEF IsChunkedBody
<1> HIDE DEF n
<1> DEFINE A == {k \in Nat : k < n => chunks[k + 1].at >= k + 1}
<1>6. Nat \subseteq A
  <2>1. 0 \in A
    BY <1>1, <1>4
  <2>2. ASSUME NEW k \in Nat, k \in A PROVE k + 1 \in A
    <3> SUFFICES ASSUME k + 1 < n PROVE chunks[k + 2].at >= k + 2
      OBVIOUS
    <3>1. k + 1 \in 1..(n - 1) /\ k + 1 \in 1..n /\ k + 2 \in 1..n /\ (k + 1) + 1 = k + 2
      BY <1>1
    <3>2. chunks[k + 1].at >= k + 1
      BY <1>1, <2>2
    <3> DEFINE c == chunks[k + 1]
               d == chunks[k + 2]
    <3>3. d.at = c.eol + c.size + 2
      BY <1>4, <3>1
    <3>4. c.at >= k + 1 /\ c.at \in Nat /\ c.eol \in Nat /\ c.size \in Nat /\ c.at < c.eol
      BY <1>3, <3>1, <3>2
    <3> HIDE DEF c, d
    <3>5. d.at >= k + 2
      BY <3>3, <3>4
    <3> QED BY <3>5 DEF d
  <2> HIDE DEF A
  <2> QED BY <2>1, <2>2, EveryNumber
<1>7. n \in 1..Len(body)
  <2>1. n - 1 \in Nat /\ n - 1 < n /\ (n - 1) + 1 = n /\ n \in 1..n
    BY <1>1
  <2>2. chunks[n].at >= n
    BY <1>6, <2>1
  <2> QED BY <1>1, <1>3, <2>1, <2>2
<1> DEFINE B == {k \in Nat : k < n => chunks[n - k].off + chunks[n - k].size <= Len(payload)}
<1>8. Nat \subseteq B
  <2>1. 0 \in B
    BY <1>1, <1>3, <1>4
  <2>2. ASSUME NEW k \in Nat, k \in B PROVE k + 1 \in B
    <3> DEFINE i == n - (k + 1)
    <3> SUFFICES ASSUME k + 1 < n PROVE chunks[i].off + chunks[i].size <= Len(payload)
      OBVIOUS
    <3>1. i \in 1..(n - 1) /\ i \in 1..n /\ i + 1 \in 1..n /\ i + 1 = n - k /\ k < n
      BY <1>1
    <3>2. chunks[i + 1].off + chunks[i + 1].size <= Len(payload)
      BY <2>2, <3>1
    <3> HIDE DEF i
    <3>3. chunks[i + 1].off = chunks[i].off + chunks[i].size
      BY <1>4, <3>1
    <3>4. chunks[i + 1].off \in Nat /\ chunks[i + 1].size \in Nat
      BY <1>3, <3>1
    <3>5. chunks[i + 1].off <= Len(payload)
      BY <1>1, <3>2, <3>4
    <3> QED BY <3>3, <3>5
  <2> HIDE DEF B
  <2> QED BY <2>1, <2>2, EveryNumber
<1>9. ASSUME NEW k \in 1..n
      PROVE  /\ (chunks[k].size = 0) <=> (k = n)
             /\ chunks[k].off + chunks[k].size <= Len(payload)
             /\ chunks[k].eol + chunks[k].size + 1 <= Len(body)
  <2>1. n - k \in Nat /\ n - k < n /\ n - (n - k) = k
    BY <1>1
  <2>2. chunks[k].off + chunks[k].size <= Len(payload)
    BY <1>8, <2>1
  <2>3. CASE k = n
    <3>1. chunks[n].size = 0 /\ Len(body) = chunks[n].eol + 1
      BY <1>4
    <3> QED BY <1>1, <1>3, <2>2, <2>3, <3>1
  <2>4. CASE k # n
    <3>1. k \in 1..(n - 1) /\ k + 1 \in 1..n
      BY <1>1, <2>4
    <3>2. chunks[k].size > 0 /\ chunks[k + 1].at = chunks[k].eol + chunks[k].size + 2
      BY <1>4, <3>1
    <3>3. chunks[k + 1].at \in 1..Len(body) /\ chunks[k].eol \in Nat /\ chunks[k].size \in Nat
      BY <1>3, <3>1
    <3>4. chunks[k].eol + chunks[k].size + 1 <= Len(body)
      <4> DEFINE c == chunks[k]
                 d == chunks[k + 1]
      <4>1. d.at = c.eol + c.size + 2 /\ d.at \in 1..Len(body) /\ c.eol \in Nat /\ c.size \in Nat
        BY <3>2, <3>3
      <4> HIDE DEF c, d
      <4>2. c.eol + c.size + 1 <= Len(body)
        BY <1>1, <4>1
      <4> QED BY <4>2 DEF c
    <3>5. chunks[k].size # 0
      BY <3>2, <3>3
    <3> QED BY <2>2, <2>4, <3>4, <3>5
  <2> QED BY <2>3, <2>4
<1> QED BY <1>2, <1>7, <1>9 DEF n

\* The loop looks at the chunks in their order, for as long as they have arrived.
LEMMA RoundsOfPart ==
  ASSUME NEW body \in Seq(Nat), NEW chunks \in Seq(Chunks), NEW payload \in Seq(Nat),
         IsChunkedBody(body, chunks, payload), NEW m \in 0..Len(body)
  PROVE  \A j \in 0..m : LET i == Rounds(Prefix(body, m))[j] IN
           i = 0 \/ (j + 1 \in 1..Len(chunks) /\ i = chunks[j + 1].at)
<1> DEFINE b == Prefix(body, m)
           n == Len(chunks)
           R == Rounds(b)
           At(j) == R[j] = 0 \/ (j + 1 \in 1..n /\ R[j] = chunks[j + 1].at)
           A == {j \in Nat : j <= m => At(j)}
<1>1. b \in Seq(Nat) /\ Len(b) = m /\ m \in Nat
  BY LenProperties, PrefixIs
<1>2. n \in Nat \ {0}
  BY ChunksFit, LenProperties
<1>3. \A j \in 0..m : R[j] = IF j = 0 THEN 1 ELSE NextRound(b, R[j - 1])
  <2> HIDE DEF b
  <2> QED BY <1>1, RoundsAre
<1>4. chunks[1].at = 1
  BY DEF IsChunkedBody
<1>5. ASSUME NEW k \in 1..n
      PROVE  /\ chunks[k] \in Chunks /\ IsChunk(body, chunks[k], payload)
             /\ (chunks[k].size = 0) <=> (k = n)
  BY ChunksFit
<1>6. \A k \in 1..(n - 1) : chunks[k + 1].at = chunks[k].eol + chunks[k].size + 2
  BY DEF IsChunkedBody
<1>7. ASSUME NEW k \in 1..n, HasSize(b, chunks[k].at)
      PROVE  /\ SizeAt(b, chunks[k].at) = chunks[k].size
             /\ NextChunk(b, chunks[k].at) = chunks[k].eol + chunks[k].size + 2
  <2>1. chunks[k] \in [at : Nat, eol : Nat, size : Nat, off : Nat]
        /\ IsChunk(body, chunks[k], payload)
    BY <1>5 DEF Chunks
  <2> QED BY <1>7, <2>1, SizeSeen
<1> HIDE DEF b, n, R
<1>8. 0 \in A
  BY <1>1, <1>2, <1>3, <1>4
<1>9. ASSUME NEW j \in Nat, j \in A PROVE j + 1 \in A
  <2> SUFFICES ASSUME j + 1 <= m PROVE At(j + 1)
    OBVIOUS
  <2>1. j + 1 \in 0..m /\ j + 1 # 0 /\ (j + 1) - 1 = j /\ j <= m
    BY <1>1
  <2>2. R[j + 1] = NextRound(b, R[j]) /\ At(j)
    BY <1>3, <1>9, <2>1
  <2>3. CASE R[j] # 0 /\ Arrived(b, R[j]) /\ SizeAt(b, R[j]) # 0
    <3>1. j + 1 \in 1..n /\ R[j] = chunks[j + 1].at
      BY <2>2, <2>3
    <3>2. HasSize(b, chunks[j + 1].at) /\ SizeAt(b, chunks[j + 1].at) # 0
      BY <2>3, <3>1 DEF Arrived
    <3>3. j + 1 # n
      BY <1>5, <1>7, <3>1, <3>2
    <3>4. j + 1 \in 1..(n - 1) /\ (j + 1) + 1 \in 1..n
      BY <1>2, <3>1, <3>3
    <3>5. R[j + 1] = chunks[(j + 1) + 1].at
      BY <1>6, <1>7, <2>2, <2>3, <3>1, <3>2, <3>4 DEF NextRound
    <3> QED BY <3>4, <3>5
  <2>4. CASE ~(R[j] # 0 /\ Arrived(b, R[j]) /\ SizeAt(b, R[j]) # 0)
    BY <2>2, <2>4 DEF NextRound
  <2> QED BY <2>3, <2>4
<1> HIDE DEF A
<1>10. Nat \subseteq A
  BY <1>8, <1>9, EveryNumber
<1> QED BY <1>1, <1>10 DEF A, R, n, b

\* A chunked body is complete with its last symbol, and not before.
LEMMA NotCompleteBefore ==
  ASSUME NEW body \in Seq(Nat), NEW chunks \in Seq(Chunks), NEW payload \in Seq(Nat),
         IsChunkedBody(body, chunks, payload), NEW m \in 0..Len(body),
         ChunkedBodyComplete(Prefix(body, m))
  PROVE  m = Len(body)
<1> DEFINE b == Prefix(body, m)
           n == Len(chunks)
<1>1. Len(b) = m
  BY PrefixIs
<1>2. PICK j \in 0..m : LET i == Rounds(b)[j] IN i # 0 /\ Arrived(b, i) /\ SizeAt(b, i) = 0
  BY <1>1 DEF ChunkedBodyComplete
<1> DEFINE c == chunks[j + 1]
<1>3. j + 1 \in 1..n /\ Rounds(b)[j] = c.at
  BY <1>2, RoundsOfPart
<1>4. Arrived(b, c.at) /\ SizeAt(b, c.at) = 0
  BY <1>2, <1>3
<1>5. /\ c \in [at : Nat, eol : Nat, size : Nat, off : Nat] /\ IsChunk(body, c, payload)
      /\ (c.size = 0) <=> (j + 1 = n)
  BY <1>3, ChunksFit DEF Chunks
<1>6. m >= c.eol + c.size + 1
  BY <1>4, <1>5, ArrivedWhen
<1>7. HasSize(b, c.at)
  BY <1>4 DEF Arrived
<1>8. c.size = 0
  <2>1. m >= c.eol
    BY <1>5, <1>7, SizeSeen
  <2> QED BY <1>4, <1>5, <2>1, SizeSeen
<1>9. Len(body) = c.eol + 1
  <2>1. j + 1 = n
    BY <1>5, <1>8
  <2> QED BY <2>1 DEF IsChunkedBody
<1>10. c.eol \in Nat /\ m \in Nat /\ Len(body) \in Nat
  BY <1>5, LenProperties
<1> HIDE DEF c
<1> QED BY <1>6, <1>8, <1>9, <1>10

LEMMA CompleteInTheEnd ==
  ASSUME NEW body \in Seq(Nat), NEW chunks \in Seq(Chunks), NEW payload \in Seq(Nat),
         IsChunkedBody(body, chunks, payload)
  PROVE  ChunkedBodyComplete(body)
<1> DEFINE n == Len(chunks)
           m == Len(body)
           R == Rounds(body)
           A == {j \in Nat : j < n => R[j] = chunks[j + 1].at}
<1>1. m \in Nat /\ n \in 1..m /\ n \in Nat
  BY ChunksFit, LenProperties
<1>2. \A j \in 0..m : R[j] = IF j = 0 THEN 1 ELSE NextRound(body, R[j - 1])
  BY RoundsAre
<1>3. chunks[1].at = 1 /\ chunks[n].size = 0
  BY DEF IsChunkedBody
<1>4. \A k \in 1..(n - 1) : /\ chunks[k].size > 0
                            /\ chunks[k + 1].at = chunks[k].eol + chunks[k].size + 2
  BY DEF IsChunkedBody
<1>5. ASSUME NEW k \in 1..n
      PROVE  /\ chunks[k].at # 0 /\ chunks[k].size \in Nat /\ Arrived(body, chunks[k].at)
             /\ SizeAt(body, chunks[k].at) = chunks[k].size
             /\ NextChunk(body, chunks[k].at) = chunks[k].eol + chunks[k].size + 2
  <2> DEFINE c == chunks[k]
  <2>1. /\ c \in [at : Nat, eol : Nat, size : Nat, off : Nat] /\ IsChunk(body, c, payload)
        /\ c.eol + c.size + 1 <= m
    BY ChunksFit DEF Chunks
  <2>2. c.at # 0 /\ c.eol \in Nat /\ c.size \in Nat
    BY <1>1, <2>1 DEF IsChunk
  <2>3. m >= c.eol + c.size + 1 /\ m >= c.eol
    BY <1>1, <2>1, <2>2
  <2>4. Prefix(body, m) = body /\ m \in 0..Len(body)
    BY <1>1, SubSeqFull DEF Prefix
  <2>5. Arrived(Prefix(body, m), c.at)
    <3> HIDE DEF c, m
    <3> QED BY <2>1, <2>3, <2>4, ArrivedWhen
  <2>6. SizeAt(Prefix(body, m), c.at) = c.size
        /\ NextChunk(Prefix(body, m), c.at) = c.eol + c.size + 2
    <3> HIDE DEF c, m
    <3> QED BY <2>1, <2>3, <2>4, SizeSeen
  <2> QED BY <2>2, <2>4, <2>5, <2>6
<1> HIDE DEF n, m, R
<1>6. 0 \in A
  BY <1>1, <1>2, <1>3
<1>7. ASSUME NEW j \in Nat, j \in A PROVE j + 1 \in A
  <2> SUFFICES ASSUME j + 1 < n PROVE R[j + 1] = chunks[(j + 1) + 1].at
    OBVIOUS
  <2>1. /\ j + 1 \in 0..m /\ j + 1 # 0 /\ (j + 1) - 1 = j /\ j < n
        /\ j + 1 \in 1..(n - 1) /\ j + 1 \in 1..n
    BY <1>1
  <2>2. R[j] = chunks[j + 1].at /\ R[j + 1] = NextRound(body, R[j])
    BY <1>2, <1>7, <2>1
  <2>3. SizeAt(body, chunks[j + 1].at) # 0
    <3> DEFINE c == chunks[j + 1]
    <3>1. c.size > 0 /\ c.size \in Nat /\ SizeAt(body, c.at) = c.size
      BY <1>4, <1>5, <2>1
    <3> HIDE DEF c
    <3>2. SizeAt(body, c.at) # 0
      BY <3>1
    <3> QED BY <3>2 DEF c
  <2> QED BY <1>4, <1>5, <2>1, <2>2, <2>3 DEF NextRound
<1> HIDE DEF A
<1>8. Nat \subseteq A
  BY <1>6, <1>7, EveryNumber
<1>9. n - 1 \in Nat /\ n - 1 < n /\ (n - 1) + 1 = n /\ n \in 1..n /\ n - 1 \in 0..m
  BY <1>1
<1>10. R[n - 1] = chunks[n].at
  BY <1>8, <1>9 DEF A
<1>11. R[n - 1] # 0 /\ Arrived(body, R[n - 1]) /\ SizeAt(body, R[n - 1]) = 0
  BY <1>3, <1>5, <1>9, <1>10
<1> QED BY <1>9, <1>11 DEF ChunkedBodyComplete, R, m

\* What follows the first e symbols.
After(s, e, z) == SubSeq(s, e + 1, e + z)
Shared(s, e, t, o, z) ==
  e + z <= Len(s) /\ o + z <= Len(t) /\ \A j \in 1..z : s[e + j] = t[o + j]

LEMMA SlicesEqual ==
  ASSUME NEW s \in Seq(Nat), NEW t \in Seq(Nat), NEW e \in Nat, NEW o \in Nat, NEW z \in Nat,
         Shared(s, e, t, o, z)
  PROVE  After(s, e, z) = After(t, o, z)
<1> DEFINE d == SubSeq(s, e + 1, e + z)
           p == SubSeq(t, o + 1, o + z)
<1>1. /\ Len(s) \in Nat /\ Len(t) \in Nat
      /\ e + z <= Len(s) /\ o + z <= Len(t) /\ \A j \in 1..z : s[e + j] = t[o + j]
  BY LenProperties DEF Shared
<1>2. /\ \A i \in (e + 1)..(e + z) : i \in 1..Len(s)
      /\ \A i \in (o + 1)..(o + z) : i \in 1..Len(t)
  BY <1>1
<1>3. /\ \A i \in (e + 1)..(e + z) : s[i] \in Nat
      /\ \A i \in (o + 1)..(o + z) : t[i] \in Nat
  BY <1>2, ElementOfSeq
<1>4. /\ e + z - (e + 1) + 1 = z /\ o + z - (o + 1) + 1 = z
      /\ (e + 1 <= e + z) <=> (z # 0)
      /\ (o + 1 <= o + z) <=> (z # 0)
  OBVIOUS
<1>5. /\ d \in Seq(Nat) /\ Len(d) = z /\ p \in Seq(Nat) /\ Len(p) = z
      /\ \A i \in 1..z : d[i] = s[e + 1 + i - 1] /\ p[i] = t[o + 1 + i - 1]
  <2>1. /\ d \in Seq(Nat)
        /\ Len(d) = IF e + 1 <= e + z THEN e + z - (e + 1) + 1 ELSE 0
        /\ \A i \in 1..(e + z - (e + 1) + 1) : d[i] = s[e + 1 + i - 1]
    <3>1. e + 1 \in Int /\ e + z \in Int
      OBVIOUS
    <3> QED BY <1>3, <3>1, SubSeqProperties
  <2>2. /\ p \in Seq(Nat)
        /\ Len(p) = IF o + 1 <= o + z THEN o + z - (o + 1) + 1 ELSE 0
        /\ \A i \in 1..(o + z - (o + 1) + 1) : p[i] = t[o + 1 + i - 1]
    BY <1>3, SubSeqProperties
  <2> HIDE DEF d, p
  <2> QED BY <1>4, <2>1, <2>2
<1> HIDE DEF d, p
<1>6. ASSUME NEW i \in 1..Len(d) PROVE d[i] = p[i]
  <2>1. i \in 1..z /\ e + 1 + i - 1 = e + i /\ o + 1 + i - 1 = o + i
    BY <1>5
  <2> QED BY <1>1, <1>5, <2>1
<1>7. d = p
  BY <1>5, <1>6, SeqEqual
<1> QED BY <1>7 DEF d, p, After

\* The data of a chunk are its part of the payload.
LEMMA DataOfChunk ==
  ASSUME NEW body \in Seq(Nat), NEW payload \in Seq(Nat), NEW c \in Chunks,
         IsChunk(body, c, payload), c.off + c.size <= Len(payload),
         c.eol + c.size + 1 <= Len(body)
  PROVE  Prefix(payload, c.off) \o Data(body, c.at) = Prefix(payload, c.off + c.size)
<1> DEFINE m == Len(body)
           last == c.eol + c.size
           d == SubSeq(body, c.eol + 1, last)
           p == SubSeq(payload, c.off + 1, c.off + c.size)
<1>1. m \in Nat /\ Len(payload) \in Nat
  BY LenProperties
<1>2. /\ c.eol \in Nat /\ c.eol # 0 /\ c.size \in Nat /\ c.off \in Nat
      /\ \A j \in 1..c.size : body[c.eol + j] = payload[c.off + j]
  BY <1>1 DEF IsChunk, Chunks
<1>3. LineEnd(body, c.at) = c.eol /\ SizeAt(body, c.at) = c.size
  <2>1. Prefix(body, m) = body /\ m \in 0..Len(body)
    BY <1>1, SubSeqFull DEF Prefix
  <2>2. c \in [at : Nat, eol : Nat, size : Nat, off : Nat] /\ m >= c.eol
    BY <1>1, <1>2 DEF Chunks
  <2>3. LineEnd(Prefix(body, m), c.at) = c.eol /\ SizeAt(Prefix(body, m), c.at) = c.size
    <3> HIDE DEF m
    <3> QED BY <2>1, <2>2, SizeSeen
  <2> QED BY <2>1, <2>3
<1>4. last \in Nat /\ last < m
  BY <1>1, <1>2
<1>5. Data(body, c.at) = d
  BY <1>3, <1>4 DEF Data
<1>6. d = p
  <2> DEFINE e == c.eol
             o == c.off
             z == c.size
  <2>1. /\ e \in Nat /\ o \in Nat /\ z \in Nat /\ e + z <= Len(body) /\ o + z <= Len(payload)
        /\ \A j \in 1..z : body[e + j] = payload[o + j]
    BY <1>1, <1>2, <1>4
  <2> HIDE DEF e, o, z
  <2>2. Shared(body, e, payload, o, z)
    BY <2>1 DEF Shared
  <2>3. After(body, e, z) = After(payload, o, z)
    BY <2>1, <2>2, SlicesEqual
  <2> QED BY <2>3 DEF e, o, z, After
<1>7. SubSeq(payload, 1, c.off) \o p = SubSeq(payload, 1, c.off + c.size)
  <2>1. /\ 1 \in 1..(Len(payload) + 1) /\ c.off \in 0..Len(payload) /\ 1 - 1 = 0
        /\ c.off + c.size \in c.off..Len(payload)
    BY <1>1, <1>2
  <2> QED BY <2>1, ConcatAdjacentSubSeq
<1> QED BY <1>5, <1>6, <1>7 DEF Prefix

LEMMA DechunkGivesPayload ==
  ASSUME NEW body \in Seq(Nat), NEW chunks \in Seq(Chunks), NEW payload \in Seq(Nat),
         IsChunkedBody(body, chunks, payload)
  PROVE  Dechunk(body) = payload
<1> DEFINE n == Len(chunks)
           m == Len(body)
           D == Dechunked(body)
           at(j) == IF j < n THEN j + 1 ELSE n
           done(k) == [at |-> chunks[k].at, out |-> Prefix(payload, chunks[k].off)]
           A == {j \in Nat : j <= m => D[j] = done(at(j))}
<1>1. m \in Nat /\ n \in 1..m /\ n \in Nat
  BY ChunksFit, LenProperties
<1>2. \A j \in 0..m : D[j] = IF j = 0 THEN [at |-> 1, out |-> <<>>] ELSE PutOut(body, D[j - 1])
  BY DechunkedAre
<1>3. /\ chunks[1].at = 1 /\ chunks[1].off = 0 /\ Len(payload) = chunks[n].off
      /\ \A k \in 1..(n - 1) :
           /\ chunks[k + 1].at = chunks[k].eol + chunks[k].size + 2
           /\ chunks[k + 1].off = chunks[k].off + chunks[k].size
  BY DEF IsChunkedBody
<1>4. ASSUME NEW k \in 1..n
      PROVE  /\ HasSize(body, chunks[k].at) /\ SizeAt(body, chunks[k].at) = chunks[k].size
             /\ NextChunk(body, chunks[k].at) = chunks[k].eol + chunks[k].size + 2
             /\ (chunks[k].size = 0) <=> (k = n)
             /\ Prefix(payload, chunks[k].off) \o Data(body, chunks[k].at)
                  = Prefix(payload, chunks[k].off + chunks[k].size)
  <2> DEFINE c == chunks[k]
  <2>1. /\ c \in Chunks /\ IsChunk(body, c, payload)
        /\ (c.size = 0) <=> (k = n)
        /\ c.off + c.size <= Len(payload) /\ c.eol + c.size + 1 <= m
    BY ChunksFit
  <2> HIDE DEF c, m, n
  <2>2. c \in [at : Nat, eol : Nat, size : Nat, off : Nat] /\ c.eol \in Nat /\ c.size \in Nat
    BY <2>1 DEF Chunks
  <2>3. m >= c.eol
    BY <1>1, <2>1, <2>2
  <2>4. Prefix(body, m) = body /\ m \in 0..Len(body)
    BY <1>1, SubSeqFull DEF Prefix, m
  <2>5. /\ HasSize(Prefix(body, m), c.at) /\ SizeAt(Prefix(body, m), c.at) = c.size
        /\ NextChunk(Prefix(body, m), c.at) = c.eol + c.size + 2
    BY <2>1, <2>2, <2>3, <2>4, SizeSeen
  <2>6. Prefix(payload, c.off) \o Data(body, c.at) = Prefix(payload, c.off + c.size)
    BY <2>1, DataOfChunk DEF m
  <2> QED BY <2>1, <2>4, <2>5, <2>6 DEF c
<1>5. Prefix(payload, 0) = <<>>
  BY SubSeqEmpty DEF Prefix
<1> HIDE DEF n, m, D
<1>6. 0 \in A
  <2>1. at(0) = 1 /\ 0 \in 0..m
    BY <1>1
  <2> QED BY <1>2, <1>3, <1>5, <2>1
<1>7. ASSUME NEW k \in 1..n PROVE PutOut(body, done(k)) = done(at(k))
  <2>1. done(k).at = chunks[k].at /\ done(k).out = Prefix(payload, chunks[k].off)
    OBVIOUS
  <2> HIDE DEF done
  <2>2. CASE k = n
    <3>1. SizeAt(body, done(k).at) = 0
      BY <1>4, <2>1, <2>2
    <3>2. at(k) = k
      BY <1>1, <2>2
    <3> QED BY <3>1, <3>2 DEF PutOut
  <2>3. CASE k # n
    <3>1. k \in 1..(n - 1) /\ at(k) = k + 1
      BY <1>1, <2>3
    <3>2. HasSize(body, done(k).at) /\ SizeAt(body, done(k).at) # 0
      BY <1>4, <2>1, <2>3
    <3>3. PutOut(body, done(k)) = [at |-> NextChunk(body, chunks[k].at),
                                   out |-> Prefix(payload, chunks[k].off) \o Data(body, chunks[k].at)]
      BY <2>1, <3>2 DEF PutOut
    <3> QED BY <1>3, <1>4, <3>1, <3>3 DEF done
  <2> QED BY <2>2, <2>3
<1>8. ASSUME NEW j \in Nat, j \in A PROVE j + 1 \in A
  <2> SUFFICES ASSUME j + 1 <= m PROVE D[j + 1] = done(at(j + 1))
    OBVIOUS
  <2>1. j + 1 \in 0..m /\ j + 1 # 0 /\ (j + 1) - 1 = j /\ j <= m
    BY <1>1
  <2>2. at(j) \in 1..n /\ at(at(j)) = at(j + 1)
    BY <1>1
  <2>3. D[j] = done(at(j)) /\ D[j + 1] = PutOut(body, D[j])
    BY <1>2, <1>8, <2>1
  <2> HIDE DEF done, at
  <2> QED BY <1>7, <2>2, <2>3
<1> HIDE DEF A
<1>9. Nat \subseteq A
  BY <1>6, <1>8, EveryNumber
<1>10. m \in A /\ at(m) = n /\ m <= m
  BY <1>1, <1>9
<1>11. D[m] = done(n)
  BY <1>10 DEF A
<1>12. D[m].out = Prefix(payload, Len(payload))
  BY <1>3, <1>11
<1> QED BY <1>12, SubSeqFull DEF Dechunk, Prefix, D, m
-----------------------------------------------------------------------------
(* The header.                                                               *)

LEMMA HeadFound ==
  ASSUME NEW r, HeaderEnds(r), NEW seen \in 0..Len(r.bytes)
  PROVE  HeadEnd(Prefix(r.bytes, seen)) = IF seen >= r.head + 1 THEN r.head ELSE 0
<1> DEFINE p == Prefix(r.bytes, seen)
           h == r.head
           ends == {i \in 1..(Len(p) - 1) : p[i] = NL /\ p[i + 1] = NL}
<1>1. /\ r.bytes \in Seq(Nat) /\ h \in 2..(Len(r.bytes) - 1)
      /\ r.bytes[h] = NL /\ r.bytes[h + 1] = NL
      /\ \A i \in 1..(h - 1) : r.bytes[i] # NL \/ r.bytes[i + 1] # NL
  BY DEF HeaderEnds
<1>2. Len(r.bytes) \in Nat /\ seen \in Nat /\ h \in Nat
  BY <1>1, LenProperties
<1>3. Len(p) = seen /\ \A i \in 1..seen : p[i] = r.bytes[i]
  BY <1>1, PrefixIs
<1> HIDE DEF p, h
<1>4. \A i \in ends : i \in Nat /\ ~(i < h)
  <2> SUFFICES ASSUME NEW i \in ends, i < h PROVE FALSE
    BY <1>2, <1>3
  <2>1. i \in 1..(h - 1) /\ i \in 1..seen /\ i + 1 \in 1..seen
    BY <1>2, <1>3
  <2> QED BY <1>1, <1>3, <2>1
<1>5. CASE seen >= h + 1
  <2>1. h \in ends
    <3>1. h \in 1..seen /\ h + 1 \in 1..seen /\ h \in 1..(Len(p) - 1)
      BY <1>1, <1>2, <1>3, <1>5
    <3> QED BY <1>1, <1>3, <3>1
  <2> HIDE DEF ends
  <2>2. \A i \in ends : h <= i
    BY <1>2, <1>4
  <2>3. Min(ends) \in ends /\ \A i \in ends : Min(ends) <= i
    BY <2>1, <2>2 DEF Min
  <2>4. Min(ends) = h
    <3>1. Min(ends) \in Nat /\ Min(ends) <= h /\ h <= Min(ends)
      BY <1>4, <2>1, <2>2, <2>3
    <3> QED BY <1>2, <3>1
  <2> QED BY <1>5, <2>1, <2>4 DEF HeadEnd, ends, p, h
<1>6. CASE ~(seen >= h + 1)
  <2>1. ends = {}
    <3> SUFFICES ASSUME NEW i \in ends PROVE FALSE
      OBVIOUS
    <3>1. i < h
      BY <1>2, <1>3, <1>6
    <3> QED BY <1>4, <3>1
  <2> QED BY <1>6, <2>1 DEF HeadEnd, p, h
<1> QED BY <1>5, <1>6

\* With the header, what has arrived is the block and a part of the body.
LEMMA HeaderArrived ==
  ASSUME NEW r, HeaderEnds(r), NEW seen \in 0..Len(r.bytes), seen >= r.head + 1
  PROVE  /\ Body(r) \in Seq(Nat) /\ Len(Body(r)) = Len(r.bytes) - r.head - 1
         /\ Block(r) \in Seq(Nat)
         /\ seen - r.head - 1 \in 0..Len(Body(r))
         /\ HeadEnd(Prefix(r.bytes, seen)) = r.head /\ r.head # 0
         /\ Prefix(Prefix(r.bytes, seen), r.head - 1) = Block(r)
         /\ From(Prefix(r.bytes, seen), r.head + 2) = Prefix(Body(r), seen - r.head - 1)
<1> DEFINE s == r.bytes
           h == r.head
           p == Prefix(s, seen)
           B == From(s, h + 2)
           m == seen - h - 1
<1>1. s \in Seq(Nat) /\ h \in 2..(Len(s) - 1) /\ Len(s) \in Nat /\ seen \in Nat /\ h \in Nat
  BY LenProperties DEF HeaderEnds
<1>2. HeadEnd(p) = h
  BY HeadFound
<1>3. p \in Seq(Nat) /\ Len(p) = seen /\ \A i \in 1..seen : p[i] = s[i]
  BY <1>1, PrefixIs
<1>4. seen >= h + 1 /\ seen <= Len(s)
  OBVIOUS
<1>5. Body(r) = B /\ Block(r) = Prefix(s, h - 1)
  BY DEF Body, Block
<1> HIDE DEF s, h, p
<1>6. h + 2 \in 1..(Len(s) + 1) /\ h + 2 \in 1..(Len(p) + 1)
  BY <1>1, <1>3, <1>4
<1>7. /\ B \in Seq(Nat) /\ Len(B) = Len(s) + 1 - (h + 2)
      /\ \A i \in 1..(Len(s) + 1 - (h + 2)) : B[i] = s[h + 2 + i - 1]
  BY <1>1, <1>6, FromIs
<1>8. /\ From(p, h + 2) \in Seq(Nat) /\ Len(From(p, h + 2)) = Len(p) + 1 - (h + 2)
      /\ \A i \in 1..(Len(p) + 1 - (h + 2)) : From(p, h + 2)[i] = p[h + 2 + i - 1]
  BY <1>3, <1>6, FromIs
<1> HIDE DEF B
<1>9. Len(B) = Len(s) - h - 1 /\ m \in 0..Len(B)
  BY <1>1, <1>4, <1>7
<1>10. Prefix(B, m) \in Seq(Nat) /\ Len(Prefix(B, m)) = m /\ \A i \in 1..m : Prefix(B, m)[i] = B[i]
  <2> HIDE DEF m
  <2> QED BY <1>7, <1>9, PrefixIs
<1>11. Len(From(p, h + 2)) = m
  BY <1>1, <1>3, <1>8
<1>12. ASSUME NEW i \in 1..Len(From(p, h + 2)) PROVE From(p, h + 2)[i] = Prefix(B, m)[i]
  <2>1. /\ i \in 1..m /\ i \in 1..(Len(p) + 1 - (h + 2)) /\ i \in 1..(Len(s) + 1 - (h + 2))
        /\ h + 2 + i - 1 \in 1..seen
    <3>1. i \in Nat /\ i >= 1 /\ i <= seen - h - 1
      BY <1>1, <1>4, <1>11
    <3> QED BY <1>1, <1>3, <1>4, <3>1
  <2> HIDE DEF m
  <2> QED BY <1>3, <1>7, <1>8, <1>10, <2>1
<1>13. From(p, h + 2) = Prefix(B, m)
  <2> HIDE DEF m
  <2> QED BY <1>8, <1>10, <1>11, <1>12, SeqEqual
<1>14. Prefix(p, h - 1) = Prefix(s, h - 1) /\ Prefix(s, h - 1) \in Seq(Nat)
  <2>1. h - 1 \in 0..seen /\ seen \in 0..Len(s) /\ 1 \in Nat \ {0} /\ h - 1 \in 0..Len(s)
    BY <1>1, <1>4
  <2>2. SubSeq(p, 1, h - 1) = SubSeq(s, 1, h - 1)
    BY <1>1, <2>1, SliceOfPrefix DEF p
  <2> QED BY <1>1, <2>1, <2>2, PrefixIs DEF Prefix
<1>15. h # 0
  BY <1>1
<1> QED BY <1>2, <1>5, <1>7, <1>9, <1>13, <1>14, <1>15 DEF p, s, h

\* The digits that are read are those of the length, or all of them but the last.
LEMMA LengthFound ==
  ASSUME NEW r, Block(r) \in Seq(Nat), LengthGiven(r)
  PROVE  /\ Contains(Block(r), CL)
         /\ Find(Block(r), NL, Find(Block(r), CL, 1)) # 0 =>
              /\ IsNumber(10, LengthDigits(Block(r)))
              /\ Value(10, LengthDigits(Block(r))) = Len(Body(r))
         /\ Find(Block(r), NL, Find(Block(r), CL, 1)) = 0 =>
              Value(10, LengthDigits(Block(r))) = Len(Body(r)) \div 10
         /\ Find(Block(r), CL, 1) + 1 # Len(Block(r)) => IsNumber(10, LengthDigits(Block(r)))
<1> DEFINE block == Block(r)
           n == Len(block)
<1>1. n \in Nat /\ DOMAIN block = 1..n /\ block \in Seq(Nat)
  BY LenProperties
<1> HIDE DEF block, n
<1>0. PICK c \in DOMAIN block : \E e \in (c + 1)..(n + 1) :
        /\ block[c] = CL /\ \A i \in 1..(c - 1) : block[i] # CL
        /\ e <= n => block[e] = NL
        /\ \A i \in c..(e - 1) : block[i] # NL
        /\ IsNumber(10, SubSeq(block, c + 1, e - 1))
        /\ Value(10, SubSeq(block, c + 1, e - 1)) = Len(Body(r))
  BY DEF LengthGiven, block, n
<1>2. PICK e \in (c + 1)..(n + 1) :
        /\ block[c] = CL /\ \A i \in 1..(c - 1) : block[i] # CL
        /\ e <= n => block[e] = NL
        /\ \A i \in c..(e - 1) : block[i] # NL
        /\ IsNumber(10, SubSeq(block, c + 1, e - 1))
        /\ Value(10, SubSeq(block, c + 1, e - 1)) = Len(Body(r))
  BY <1>0
<1>3. c \in 1..n /\ c \in Nat /\ c # 0 /\ e \in Nat
  BY <1>0, <1>1, <1>2
<1>4. Find(block, CL, 1) = c
  <2>1. 1 \in Nat /\ 1 # 0 /\ c \in 1..n
    BY <1>3
  <2> QED BY <1>1, <1>2, <2>1, FindIs DEF n
<1>5. CASE e <= n
  <2>1. e \in c..n /\ e # 0
    BY <1>1, <1>2, <1>3, <1>5
  <2>2. Find(block, NL, c) = e
    BY <1>1, <1>2, <1>3, <1>5, <2>1, FindIs DEF n
  <2>3. LengthDigits(block) = SubSeq(block, c + 1, e - 1)
    BY <1>4, <2>1, <2>2 DEF LengthDigits
  <2> QED BY <1>2, <1>3, <1>4, <2>1, <2>2, <2>3 DEF Contains, block
<1>6. CASE e = n + 1
  <2> DEFINE d == SubSeq(block, c + 1, n)
             m == Len(d)
             p == Prefix(d, m - 1)
  <2>1. Find(block, NL, c) = 0
    <3>1. \A i \in c..n : block[i] # NL
      BY <1>1, <1>2, <1>3, <1>6
    <3> QED BY <1>1, <1>3, <3>1, FindNext DEF n
  <2>2. IsNumber(10, d) /\ Value(10, d) = Len(Body(r))
    <3>1. (n + 1) - 1 = n
      BY <1>1
    <3> QED BY <1>2, <1>6, <3>1
  <2>3. /\ d \in Seq(Nat) /\ m = n - c /\ \A i \in 1..m : d[i] = block[c + i]
    <3>1. c + 1 \in 1..(n + 1) /\ d = From(block, c + 1)
      BY <1>1, <1>3 DEF From, n
    <3>2. From(block, c + 1) \in Seq(Nat) /\ Len(From(block, c + 1)) = n + 1 - (c + 1)
          /\ \A i \in 1..(n + 1 - (c + 1)) : From(block, c + 1)[i] = block[c + 1 + i - 1]
      <4>1. c + 1 \in 1..(Len(block) + 1)
        BY <3>1 DEF n
      <4> QED BY <1>1, <4>1, FromIs DEF n
    <3> HIDE DEF d
    <3> HIDE DEF m, p
    <3>3. n + 1 - (c + 1) = n - c /\ \A i \in 1..(n - c) : c + 1 + i - 1 = c + i
      <4>1. n \in Nat /\ c \in Nat
        BY <1>1, <1>3
      <4> QED BY <4>1
    <3> USE DEF m
    <3> QED BY <3>1, <3>2, <3>3
  <2> HIDE DEF d
  <2>4. m \in Nat /\ m >= 1 /\ DOMAIN d = 1..m /\ m - 1 \in 0..m
    <3>1. m \in Nat /\ d # <<>> /\ DOMAIN d = 1..m
      BY <2>2, <2>3, LenProperties DEF IsNumber
    <3>2. m # 0
      BY <2>3, <3>1, EmptySeq
    <3> QED BY <3>1, <3>2
  <2>5. p \in Seq(Nat) /\ Len(p) = m - 1 /\ \A i \in 1..(m - 1) : p[i] = d[i]
    BY <2>3, <2>4, PrefixIs
  <2>6. Value(10, p) = Len(Body(r)) \div 10
    BY <2>2, <2>3, DigitsTenth
  <2> DEFINE q == SubSeq(block, c + 1, n - 1)
  <2>7. q = p
    <3>1. /\ q \in Seq(Nat) /\ Len(q) = IF c + 1 <= n - 1 THEN (n - 1) - (c + 1) + 1 ELSE 0
          /\ \A i \in 1..((n - 1) - (c + 1) + 1) : q[i] = block[c + 1 + i - 1]
      <4>1. \A i \in (c + 1)..(n - 1) : block[i] \in Nat
        <5> TAKE i \in (c + 1)..(n - 1)
        <5>1. i \in 1..Len(block)
          BY <1>1, <1>3 DEF n
        <5> QED BY <1>1, <5>1, ElementOfSeq
      <4>2. c + 1 \in Nat /\ n - 1 \in Int
        BY <1>1, <1>3
      <4> QED BY <4>1, <4>2, SubSeqProperties
    <3> HIDE DEF q, p, m
    <3>0. n \in Nat /\ c \in Nat /\ m = n - c /\ m >= 1
      BY <1>1, <1>3, <2>3, <2>4
    <3>2. Len(q) = m - 1
      <4>1. Len(q) = IF c + 1 <= n - 1 THEN (n - 1) - (c + 1) + 1 ELSE 0
        BY <3>1
      <4> QED BY <3>0, <4>1
    <3>3. ASSUME NEW i \in 1..Len(q) PROVE q[i] = p[i]
      <4>1. /\ i \in 1..(m - 1) /\ i \in 1..m /\ i \in 1..((n - 1) - (c + 1) + 1)
            /\ c + 1 + i - 1 = c + i
        <5>1. i \in 1..(m - 1)
          BY <3>2
        <5> QED BY <3>0, <5>1
      <4> QED BY <2>3, <2>5, <3>1, <4>1
    <3> QED BY <2>5, <3>1, <3>2, <3>3, SeqEqual
  <2>8. LengthDigits(block) = p
    BY <1>4, <2>1, <2>7 DEF LengthDigits, n
  <2>9. m # 1 => IsNumber(10, p)
    <3> SUFFICES ASSUME m # 1 PROVE IsNumber(10, p)
      OBVIOUS
    <3> HIDE DEF p, m
    <3>1. DOMAIN p = 1..(m - 1) /\ m - 1 >= 1
      BY <2>4, <2>5, LenProperties
    <3>2. 1 \in DOMAIN p /\ \A i \in DOMAIN p : i \in DOMAIN d /\ p[i] = d[i]
      BY <2>4, <2>5, <3>1
    <3> QED BY <2>2, <3>2 DEF IsNumber
  <2>10. c + 1 # n => m # 1
    <3> HIDE DEF m
    <3> QED BY <1>1, <1>3, <2>3
  <2> HIDE DEF p, m
  <2> QED BY <1>2, <1>3, <1>4, <2>1, <2>6, <2>8, <2>9, <2>10 DEF Contains, block, n
<1> QED BY <1>1, <1>2, <1>3, <1>5, <1>6
-----------------------------------------------------------------------------
(* A reply is complete with its last symbol, if it says how it is framed,    *)
(* and not before; but for lengths in the last line of a header.             *)

\* What has to be there before a reply passes for complete.
Enough(r) == IF LengthLast(r) THEN r.head + 1 + Len(Body(r)) \div 10 ELSE Len(r.bytes)

LEMMA CompleteIsEnough ==
  ASSUME NEW r, WellFormed(r), NEW seen \in 0..Len(r.bytes),
         ResponseComplete(Prefix(r.bytes, seen))
  PROVE  seen >= Enough(r) /\ seen >= r.head + 1
<1> DEFINE p == Prefix(r.bytes, seen)
           m == seen - r.head - 1
<1>1. HeaderEnds(r)
  BY DEF WellFormed
<1>2. r.head \in Nat /\ Len(r.bytes) \in Nat /\ seen \in Nat
  BY <1>1, LenProperties DEF HeaderEnds
<1>3. seen >= r.head + 1
  <2>1. HeadEnd(p) # 0
    BY DEF ResponseComplete
  <2> QED BY <1>1, <2>1, HeadFound
<1>4. /\ Body(r) \in Seq(Nat) /\ Len(Body(r)) = Len(r.bytes) - r.head - 1
      /\ Block(r) \in Seq(Nat) /\ m \in 0..Len(Body(r))
      /\ HeadEnd(p) = r.head
      /\ Prefix(p, r.head - 1) = Block(r) /\ From(p, r.head + 2) = Prefix(Body(r), m)
  BY <1>1, <1>3, HeaderArrived
<1>5. IF Contains(Block(r), TE)
      THEN ChunkedBodyComplete(Prefix(Body(r), m))
      ELSE Contains(Block(r), CL)
           /\ Len(Prefix(Body(r), m)) >= Value(10, LengthDigits(Block(r)))
  BY <1>4 DEF ResponseComplete
<1>6. Len(Body(r)) \in Nat
  BY <1>4, LenProperties
<1> HIDE DEF m, p
<1>7. CASE Contains(Block(r), TE)
  <2>1. r.chunks \in Seq(Chunks) /\ r.payload \in Seq(Nat)
        /\ IsChunkedBody(Body(r), r.chunks, r.payload)
    BY <1>7 DEF WellFormed, Chunks, Chunked
  <2>2. m = Len(Body(r))
    BY <1>4, <1>5, <1>7, <2>1, NotCompleteBefore
  <2>3. seen = Len(r.bytes)
    BY <1>2, <1>4, <2>2 DEF m
  <2>4. ~LengthLast(r)
    BY <1>7 DEF LengthLast, HasLength, Chunked
  <2> QED BY <1>2, <1>3, <2>3, <2>4 DEF Enough
<1>8. CASE ~Contains(Block(r), TE)
  <2>1. HasLength(r)
    BY <1>5, <1>8 DEF WellFormed, HasLength, Chunked
  <2>2. LengthGiven(r)
    BY <2>1 DEF WellFormed, HasLength
  <2>3. Len(Prefix(Body(r), m)) = m
    BY <1>4, PrefixIs
  <2>4. m >= Value(10, LengthDigits(Block(r)))
    BY <1>5, <1>8, <2>3
  <2>5. CASE LengthLast(r)
    <3>1. Value(10, LengthDigits(Block(r))) = Len(Body(r)) \div 10
      BY <1>4, <2>2, <2>5, LengthFound DEF LengthLast
    <3>2. m >= Len(Body(r)) \div 10
      BY <2>4, <3>1
    <3> DEFINE tenth == Len(Body(r)) \div 10
    <3>3. tenth \in Nat /\ m >= tenth
      BY <1>6, <3>2
    <3> HIDE DEF tenth
    <3>4. seen >= r.head + 1 + tenth
      BY <1>2, <3>3 DEF m
    <3> QED BY <1>3, <2>5, <3>4 DEF Enough, tenth
  <2>6. CASE ~LengthLast(r)
    <3>1. Value(10, LengthDigits(Block(r))) = Len(Body(r))
      BY <1>4, <2>1, <2>2, <2>6, LengthFound DEF LengthLast
    <3>2. m >= Len(Body(r))
      BY <2>4, <3>1
    <3>3. seen >= Len(r.bytes)
      BY <1>2, <1>4, <1>6, <3>2 DEF m
    <3> QED BY <1>3, <2>6, <3>3 DEF Enough
  <2> QED BY <2>5, <2>6
<1> QED BY <1>7, <1>8

LEMMA WholeReply ==
  ASSUME NEW r, WellFormed(r)
  PROVE  /\ Prefix(r.bytes, Len(r.bytes)) = r.bytes
         /\ Body(r) \in Seq(Nat) /\ Block(r) \in Seq(Nat)
         /\ HeadEnd(r.bytes) = r.head /\ r.head # 0
         /\ Prefix(r.bytes, r.head - 1) = Block(r)
         /\ From(r.bytes, r.head + 2) = Body(r)
<1> DEFINE n == Len(r.bytes)
<1>1. HeaderEnds(r)
  BY DEF WellFormed
<1>2. r.bytes \in Seq(Nat) /\ r.head \in Nat /\ n \in Nat /\ n >= r.head + 1 /\ n \in 0..n
  BY <1>1, LenProperties DEF HeaderEnds
<1>3. Prefix(r.bytes, n) = r.bytes
  BY <1>2, SubSeqFull DEF Prefix
<1>4. HeadEnd(Prefix(r.bytes, n)) = r.head /\ r.head # 0
      /\ Body(r) \in Seq(Nat) /\ Block(r) \in Seq(Nat)
  BY <1>1, <1>2, HeaderArrived
<1> QED BY <1>3, <1>4 DEF Block, Body

LEMMA AnnouncedIsComplete ==
  ASSUME NEW r, WellFormed(r), Announced(r) PROVE ResponseComplete(r.bytes)
<1>1. /\ Body(r) \in Seq(Nat) /\ Block(r) \in Seq(Nat)
      /\ HeadEnd(r.bytes) = r.head /\ r.head # 0
      /\ Prefix(r.bytes, r.head - 1) = Block(r) /\ From(r.bytes, r.head + 2) = Body(r)
  BY WholeReply
<1>2. CASE Contains(Block(r), TE)
  <2>1. r.chunks \in Seq(Chunks) /\ r.payload \in Seq(Nat)
        /\ IsChunkedBody(Body(r), r.chunks, r.payload)
    BY <1>2 DEF WellFormed, Chunks, Chunked
  <2>2. ChunkedBodyComplete(Body(r))
    BY <1>1, <2>1, CompleteInTheEnd
  <2> QED BY <1>1, <1>2, <2>2 DEF ResponseComplete
<1>3. CASE HasLength(r) /\ ~LengthMissed(r)
  <2>1. LengthGiven(r) /\ ~Contains(Block(r), TE) /\ Len(Body(r)) \in Nat
    BY <1>1, <1>3, LenProperties DEF WellFormed, HasLength, Chunked
  <2>2. Contains(Block(r), CL)
    BY <1>3 DEF HasLength
  <2>3. IsNumber(10, LengthDigits(Block(r)))
    BY <1>1, <1>3, <2>1, LengthFound DEF LengthMissed, LengthLast
  <2>4. Len(Body(r)) >= Value(10, LengthDigits(Block(r)))
    <3>1. \/ Value(10, LengthDigits(Block(r))) = Len(Body(r))
          \/ Value(10, LengthDigits(Block(r))) = Len(Body(r)) \div 10
      BY <1>1, <2>1, LengthFound
    <3> QED BY <2>1, <3>1
  <2> QED BY <1>1, <2>1, <2>2, <2>3, <2>4 DEF ResponseComplete
<1> QED BY <1>2, <1>3 DEF Announced

\* The body of a whole reply is its payload.
LEMMA BodyOfReply ==
  ASSUME NEW r, WellFormed(r) PROVE BodyOf(r.bytes) = r.payload
<1>1. /\ Body(r) \in Seq(Nat) /\ HeadEnd(r.bytes) = r.head
      /\ Prefix(r.bytes, r.head - 1) = Block(r) /\ From(r.bytes, r.head + 2) = Body(r)
  BY WholeReply
<1>2. CASE Chunked(r)
  <2>1. r.chunks \in Seq(Chunks) /\ r.payload \in Seq(Nat)
        /\ IsChunkedBody(Body(r), r.chunks, r.payload)
    BY <1>2 DEF WellFormed, Chunks
  <2>2. Dechunk(Body(r)) = r.payload
    BY <1>1, <2>1, DechunkGivesPayload
  <2> QED BY <1>1, <1>2, <2>2 DEF BodyOf, Chunked
<1>3. CASE ~Chunked(r)
  <2>1. Body(r) = r.payload
    BY <1>3 DEF WellFormed
  <2> QED BY <1>1, <1>3, <2>1 DEF BodyOf, Chunked
<1> QED BY <1>2, <1>3

\* The body of a part that has no chunks is the beginning of the payload.
LEMMA BodyOfPart ==
  ASSUME NEW r, WellFormed(r), ~Chunked(r), NEW seen \in 0..Len(r.bytes),
         seen >= r.head + 1
  PROVE  LET body == BodyOf(Prefix(r.bytes, seen)) IN body = Prefix(r.payload, Len(body))
<1> DEFINE p == Prefix(r.bytes, seen)
           m == seen - r.head - 1
<1>1. HeaderEnds(r) /\ r.payload = Body(r)
  BY DEF WellFormed
<1>2. /\ Body(r) \in Seq(Nat) /\ m \in 0..Len(Body(r))
      /\ HeadEnd(p) = r.head
      /\ Prefix(p, r.head - 1) = Block(r) /\ From(p, r.head + 2) = Prefix(Body(r), m)
  BY <1>1, HeaderArrived
<1> HIDE DEF m, p
<1>3. BodyOf(p) = Prefix(Body(r), m)
  BY <1>2 DEF BodyOf, Chunked
<1>4. Len(Prefix(Body(r), m)) = m
  BY <1>2, PrefixIs
<1> QED BY <1>1, <1>3, <1>4 DEF p
-----------------------------------------------------------------------------
(* Reading ends when the reply is complete, when the connection fails, or    *)
(* when it has been silent for too long.                                     *)

\* Why reading has ended, or that it has not.
Ended ==
  /\ outcome = "complete" => caller = "http" /\ ResponseComplete(Prefix(reply.bytes, got))
  /\ outcome \in {"closed", "timeout", "quiet"} => lost \/ got = Len(reply.bytes)
  /\ outcome = "reading" /\ caller = "http" /\ got > 0 =>
       ~ResponseComplete(Prefix(reply.bytes, got))

\* The clocks of a call that has not ended have not run out.
InTime ==
  outcome = "reading" =>
    silent < Timeout /\ elapsed < Timeout /\ (caller = "ribcl" => silent <= elapsed)

Reading == FramingTypeOK /\ Ended /\ InTime

LEMMA RepliesAreLong ==
  ASSUME NEW r \in Replies PROVE WellFormed(r) /\ Len(r.bytes) \in Nat \ {0}
<1>1. WellFormed(r)
  BY RepliesAssumption
<1>2. r.bytes \in Seq(Nat) /\ r.head \in 2..(Len(r.bytes) - 1)
  BY <1>1 DEF WellFormed, HeaderEnds
<1>3. Len(r.bytes) \in Nat
  BY <1>2, LenProperties
<1> QED BY <1>1, <1>2, <1>3

LEMMA ReadingBegins == Init => Reading
<1> SUFFICES ASSUME Init PROVE Reading
  OBVIOUS
<1>1. reply \in Replies /\ got = 0 /\ silent = 0 /\ elapsed = 0 /\ outcome = "reading"
      /\ lost = FALSE
  BY DEF Init
<1>2. got \in 0..Len(reply.bytes) /\ silent \in 0..Timeout /\ elapsed \in 0..Timeout
      /\ ~(got > 0)
  BY <1>1, RepliesAreLong, TimesAssumption
<1>3. FramingTypeOK
  BY <1>1, <1>2 DEF Init, FramingTypeOK
<1>4. Ended
  BY <1>1, <1>2 DEF Ended
<1>5. InTime
  BY <1>1, TimesAssumption DEF InTime
<1> QED BY <1>3, <1>4, <1>5 DEF Reading

LEMMA ReadingGoesOn == Reading /\ [Next]_vars => Reading'
<1> SUFFICES ASSUME Reading, [Next]_vars PROVE Reading'
  OBVIOUS
<1>1. /\ caller \in {"http", "ribcl"} /\ reply \in Replies /\ got \in 0..Len(reply.bytes)
      /\ silent \in 0..Timeout /\ elapsed \in 0..Timeout /\ lost \in BOOLEAN
  BY DEF Reading, FramingTypeOK
<1>2. Len(reply.bytes) \in Nat /\ Quiet \in Nat \ {0} /\ Timeout \in Nat \ {0}
  BY <1>1, RepliesAreLong, TimesAssumption
<1>3. got < Len(reply.bytes) \/ got = Len(reply.bytes)
  BY <1>1, <1>2
<1>4. CASE Arrive
  <2>1. FramingTypeOK'
    BY <1>1, <1>2, <1>4 DEF Arrive, FramingTypeOK
  <2>2. Ended'
    BY <1>4 DEF Arrive, Ended
  <2>3. InTime'
    BY <1>1, <1>2, <1>4 DEF Arrive, Reading, InTime
  <2> QED BY <2>1, <2>2, <2>3 DEF Reading
<1>5. CASE Closed
  <2>1. FramingTypeOK'
    BY <1>1, <1>5 DEF Closed, FramingTypeOK
  <2>2. lost' \/ got = Len(reply.bytes)
    <3>1. lost' = (got < Len(reply.bytes))
      BY <1>5 DEF Closed
    <3> QED BY <1>3, <3>1, Zenon
  <2> QED BY <1>5, <2>1, <2>2 DEF Reading, Ended, InTime, Closed
<1>6. CASE Passes
  <2>1. /\ outcome = "reading" /\ UNCHANGED <<caller, reply, got>> /\ silent' = silent + 1
        /\ silent < Timeout /\ elapsed < Timeout /\ (caller = "ribcl" => silent <= elapsed)
    BY <1>6 DEF Passes, Reading, InTime
  <2>2. CASE RequestWaits
    <3>1. /\ caller = "http" /\ elapsed' = elapsed
          /\ outcome' = IF silent' = Timeout THEN "timeout" ELSE "reading"
      BY <2>2 DEF RequestWaits
    <3>2. silent' \in 0..Timeout /\ (outcome' = "reading" => silent' < Timeout)
      BY <1>1, <1>2, <2>1, <3>1
    <3>3. FramingTypeOK'
      BY <1>1, <1>6, <2>1, <3>1, <3>2 DEF Passes, FramingTypeOK, KeptBack
    <3>4. InTime'
      BY <2>1, <3>1, <3>2 DEF InTime
    <3>5. outcome' # "reading" => lost' \/ got = Len(reply.bytes)
      <4>1. outcome' # "reading" => silent' >= Timeout
        BY <1>2, <3>1
      <4> QED BY <1>3, <1>6, <3>1, <4>1, Zenon DEF Passes, KeptBack
    <3>6. outcome' \in {"timeout", "reading"}
      BY <3>1
    <3>7. Ended'
      BY <2>1, <3>5, <3>6 DEF Reading, Ended
    <3> QED BY <3>3, <3>4, <3>7 DEF Reading
  <2>3. CASE RibclWaits
    <3>1. /\ caller = "ribcl" /\ elapsed' = elapsed + 1
          /\ outcome' = IF got > 0 /\ silent' = Quiet THEN "quiet"
                        ELSE IF elapsed' = Timeout THEN "timeout" ELSE "reading"
      BY <2>3 DEF RibclWaits
    <3>2. /\ silent' \in 0..Timeout /\ elapsed' \in 0..Timeout /\ silent' <= elapsed'
          /\ outcome' = "reading" => silent' < Timeout /\ elapsed' < Timeout
      BY <1>1, <1>2, <2>1, <3>1
    <3>3. FramingTypeOK'
      BY <1>1, <1>6, <2>1, <3>1, <3>2 DEF Passes, FramingTypeOK, KeptBack
    <3>4. InTime'
      BY <2>1, <3>1, <3>2 DEF InTime
    <3>5. outcome' # "reading" => lost' \/ got = Len(reply.bytes)
      <4>1. outcome' # "reading" => elapsed' >= Timeout \/ (got > 0 /\ silent' >= Quiet)
        BY <1>2, <3>1
      <4> QED BY <1>3, <1>6, <3>1, <4>1, Zenon DEF Passes, KeptBack
    <3>6. outcome' \in {"timeout", "quiet", "reading"} /\ caller' # "http"
      BY <2>1, <3>1
    <3>7. Ended'
      BY <2>1, <3>5, <3>6 DEF Reading, Ended
    <3> QED BY <3>3, <3>4, <3>7 DEF Reading
  <2> QED BY <1>6, <2>2, <2>3 DEF Passes
<1>7. CASE UNCHANGED vars
  BY <1>7 DEF Reading, FramingTypeOK, Ended, InTime, vars
<1> QED BY <1>4, <1>5, <1>6, <1>7 DEF Next

LEMMA ReadingAlways == Spec => []Reading
<1> QED BY ReadingBegins, ReadingGoesOn, PTL DEF Spec

\* Of a reply that was not kept back there is enough in the end.
LEMMA EnoughInTheEnd ==
  ASSUME Reading, outcome # "reading", ~lost
  PROVE  /\ WellFormed(reply) /\ got \in 0..Len(reply.bytes)
         /\ got >= Enough(reply) /\ got >= reply.head + 1
<1>1. /\ reply \in Replies /\ got \in 0..Len(reply.bytes)
      /\ outcome \in {"complete", "closed", "timeout", "quiet"}
  BY DEF Reading, FramingTypeOK
<1>2. WellFormed(reply) /\ Len(reply.bytes) \in Nat
  BY <1>1, RepliesAreLong
<1>3. CASE outcome = "complete"
  BY <1>1, <1>2, <1>3, CompleteIsEnough DEF Reading, Ended
<1>4. CASE outcome # "complete"
  <2>1. got = Len(reply.bytes)
    BY <1>1, <1>4 DEF Reading, Ended
  <2>2. HeaderEnds(reply) /\ reply.head \in Nat /\ got >= reply.head + 1
    BY <1>2, <2>1 DEF WellFormed, HeaderEnds
  <2>3. Len(Body(reply)) = Len(reply.bytes) - reply.head - 1 /\ Len(Body(reply)) \in Nat
    BY <1>1, <2>2, HeaderArrived, LenProperties
  <2> DEFINE n == Len(Body(reply))
  <2>4. n \div 10 <= n /\ n \div 10 \in Nat /\ got = reply.head + 1 + n
    BY <1>2, <2>1, <2>2, <2>3
  <2>5. got >= reply.head + 1 + (n \div 10)
    BY <2>2, <2>3, <2>4
  <2> QED BY <1>1, <1>2, <2>1, <2>2, <2>5 DEF Enough
<1> QED BY <1>3, <1>4

\* No call waits longer than its time-out, and what is read of a reply is at most the
\* reply (raw_request(), ribcl_raw(): the loops around recv()).
THEOREM FramingTypeCorrect == Spec => []FramingTypeOK
<1>1. Reading => FramingTypeOK
  BY DEF Reading
<1> QED BY <1>1, ReadingAlways, PTL

\* The guess of where a reply ends never cuts it, whatever is in it: no part of a
\* well-formed reply but the whole of it passes for complete.  The one exception is a
\* length in the last line of the header, of which _response_complete() leaves
\* out the last digit; then a tenth of the body is enough.
THEOREM NeverCut == Spec => []EndsWhole
<1>1. Reading => EndsWhole
  BY EnoughInTheEnd DEF EndsWhole, Enough
<1> QED BY <1>1, ReadingAlways, PTL

\* request() does not wait for more once a reply has arrived that says how it is framed,
\* in any line of its header and whatever its body: _response_complete() is true of
\* the whole of it.  It does not see two announcements: chunks in another spelling,
\* and a length of one digit in the last line.
THEOREM NeverIdle == Spec => []NoIdling
<1>1. Reading => NoIdling
  <2> SUFFICES ASSUME Reading, caller = "http", Announced(reply), got = Len(reply.bytes)
               PROVE  outcome # "reading"
    BY DEF NoIdling
  <2>1. reply \in Replies
    BY DEF Reading, FramingTypeOK
  <2>2. WellFormed(reply) /\ got > 0
    BY <2>1, RepliesAreLong
  <2>3. ResponseComplete(reply.bytes) /\ Prefix(reply.bytes, got) = reply.bytes
    BY <2>2, AnnouncedIsComplete, WholeReply
  <2> QED BY <2>2, <2>3 DEF Reading, Ended
<1> QED BY <1>1, ReadingAlways, PTL

\* request() returns the body that was sent, though the payload may contain anything,
\* line ends and chunk sizes too: _dechunk() puts out the data of the chunks and
\* nothing else.  It returns a beginning of it if the length is in the last line.
THEOREM BodyArrives == Spec => []BodyIsPayload
<1>1. Reading => BodyIsPayload
  <2> SUFFICES ASSUME Reading, outcome # "reading", caller = "http", ~lost
               PROVE  LET body == BodyOf(Prefix(reply.bytes, got))
                      IN  body = IF LengthLast(reply) THEN Prefix(reply.payload, Len(body))
                                                      ELSE reply.payload
    BY DEF BodyIsPayload
  <2>1. WellFormed(reply) /\ got \in 0..Len(reply.bytes)
        /\ got >= Enough(reply) /\ got >= reply.head + 1
    BY EnoughInTheEnd
  <2>2. CASE LengthLast(reply)
    BY <2>1, <2>2, BodyOfPart DEF LengthLast, HasLength
  <2>3. CASE ~LengthLast(reply)
    <3>1. Len(reply.bytes) \in Nat /\ got >= Len(reply.bytes)
      BY <2>1, <2>3, LenProperties DEF Enough, WellFormed, HeaderEnds
    <3>2. got = Len(reply.bytes)
      BY <2>1, <3>1
    <3> QED BY <2>1, <2>3, <3>2, WholeReply, BodyOfReply
  <2> QED BY <2>2, <2>3
<1> QED BY <1>1, ReadingAlways, PTL
=============================================================================
