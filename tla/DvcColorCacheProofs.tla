------------------------- MODULE DvcColorCacheProofs ------------------------
(***************************************************************************)
(* The ranks of the colour cache stay a permutation, what the block used    *)
(* first, and every cached colour can be named, for every set of colours    *)
(* and every size up to the 17 slots of the code.  The lemmas are about the *)
(* ranks u and marks b of a set S of n colours; the theorems apply them to  *)
(* the operators of DvcColorCache, and to the list RecentColors promises.   *)
(***************************************************************************)
EXTENDS MCDvcColorCache, FiniteSetTheorems, SequenceTheorems, TLAPS

\* u numbers S from 0 to n - 1.
Numbers(u, S, n) ==
  /\ u \in [S -> Nat]
  /\ \A c \in S : u[c] < n
  /\ \A i \in 0..(n - 1) : \E c \in S : u[c] = i
  /\ \A c, d \in S : u[c] = u[d] => c = d

\* What b marks is numbered before what it does not mark.
MarkedFirst(u, b, S) == \A c, d \in S : b[c] = 1 /\ b[d] = 0 => u[c] < u[d]

\* The ranks of `live` once c, whose rank was r, is the latest.
Moved(u, live, c, r) ==
  [d \in live |-> IF d = c THEN 0 ELSE IF u[d] < r THEN u[d] + 1 ELSE u[d]]

Mark(b, live, c) == [d \in live |-> IF d = c THEN 1 ELSE b[d]]

\* Moving a colour to the front keeps the numbering and the order of the marks.
LEMMA MovedToFront ==
  ASSUME NEW S, NEW n \in Nat, NEW u, NEW b, NEW c \in S,
         Numbers(u, S, n), b \in [S -> {0, 1}], MarkedFirst(u, b, S)
  PROVE  /\ Numbers(Moved(u, S, c, u[c]), S, n)
         /\ MarkedFirst(Moved(u, S, c, u[c]), Mark(b, S, c), S)
<1> DEFINE v == Moved(u, S, c, u[c])
<1>1. \A d \in S : u[d] \in Nat /\ u[d] < n
  BY DEF Numbers
<1>2. \A d \in S : v[d] = IF d = c THEN 0 ELSE IF u[d] < u[c] THEN u[d] + 1 ELSE u[d]
  BY DEF Moved
<1>3. \A d \in S : d # c => u[d] # u[c]
  BY DEF Numbers
<1>4. v \in [S -> Nat] /\ \A d \in S : v[d] < n
  <2>1. \A d \in S : v[d] \in Nat /\ v[d] < n
    BY <1>1, <1>2, <1>3
  <2>2. v = [d \in S |-> v[d]]
    BY DEF Moved
  <2> QED BY <2>1, <2>2
<1>5. \A d, e \in S : v[d] = v[e] => d = e
  <2>1. \A d, e \in S : u[d] = u[e] => d = e
    BY DEF Numbers
  <2> QED BY <2>1, <1>1, <1>2, <1>3
<1>6. \A i \in 0..(n - 1) : \E d \in S : v[d] = i
  <2>1. \A i \in 0..(n - 1) : \E d \in S : u[d] = i
    BY DEF Numbers
  <2> TAKE i \in 0..(n - 1)
  <2>2. CASE i = 0
    BY <2>2, <1>2
  <2>3. CASE i > 0 /\ i <= u[c]
    <3>1. PICK d \in S : u[d] = i - 1
      BY <2>1, <2>3
    <3>2. d # c /\ u[d] < u[c]
      BY <3>1, <2>3, <1>1
    <3> QED BY <3>1, <3>2, <1>2
  <2>4. CASE i > u[c]
    <3>1. PICK d \in S : u[d] = i
      BY <2>1
    <3>2. d # c /\ ~(u[d] < u[c])
      BY <3>1, <2>4, <1>1
    <3> QED BY <3>1, <3>2, <1>2
  <2> QED BY <2>2, <2>3, <2>4, <1>1
<1>7. MarkedFirst(v, Mark(b, S, c), S)
  <2>1. \A d \in S : Mark(b, S, c)[d] = IF d = c THEN 1 ELSE b[d]
    BY DEF Mark
  <2>2. \A d, e \in S : b[d] = 1 /\ b[e] = 0 => u[d] < u[e]
    BY DEF MarkedFirst
  <2>3. SUFFICES ASSUME NEW d \in S, NEW e \in S,
                        Mark(b, S, c)[d] = 1, Mark(b, S, c)[e] = 0
                 PROVE  v[d] < v[e]
    BY DEF MarkedFirst
  <2>4. e # c /\ b[e] = 0 /\ u[e] # u[c]
    BY <2>1, <2>3, <1>3
  <2>5. CASE d = c
    BY <2>4, <2>5, <1>1, <1>2
  <2>6. CASE d # c
    <3>1. u[d] < u[e]
      BY <2>1, <2>2, <2>3, <2>4, <2>6
    <3> QED BY <3>1, <2>4, <2>6, <1>1, <1>2
  <2> QED BY <2>5, <2>6
<1> QED BY <1>4, <1>5, <1>6, <1>7 DEF Numbers

\* A new colour at the end of the numbering, moved to the front.
LEMMA AppendedAtEnd ==
  ASSUME NEW S, NEW n \in Nat, NEW u, NEW b, NEW c, c \notin S,
         Numbers(u, S, n), b \in [S -> {0, 1}], MarkedFirst(u, b, S)
  PROVE  /\ Numbers(Moved(u, S \cup {c}, c, n), S \cup {c}, n + 1)
         /\ MarkedFirst(Moved(u, S \cup {c}, c, n), Mark(b, S \cup {c}, c), S \cup {c})
<1> DEFINE T == S \cup {c}
           v == Moved(u, T, c, n)
<1>1. \A d \in S : u[d] \in Nat /\ u[d] < n /\ d # c
  BY DEF Numbers
<1>2. v[c] = 0 /\ \A d \in S : v[d] = u[d] + 1
  <2>1. \A d \in T : v[d] = IF d = c THEN 0 ELSE IF u[d] < n THEN u[d] + 1 ELSE u[d]
    BY DEF Moved
  <2> QED BY <2>1, <1>1
<1>3. v \in [T -> Nat] /\ \A d \in T : v[d] < n + 1
  <2>1. \A d \in T : v[d] \in Nat /\ v[d] < n + 1
    BY <1>1, <1>2
  <2>2. v = [d \in T |-> v[d]]
    BY DEF Moved
  <2> QED BY <2>1, <2>2
<1>4. \A d, e \in T : v[d] = v[e] => d = e
  <2>1. \A d, e \in S : u[d] = u[e] => d = e
    BY DEF Numbers
  <2> QED BY <2>1, <1>1, <1>2
<1>5. \A i \in 0..n : \E d \in T : v[d] = i
  <2>1. \A i \in 0..(n - 1) : \E d \in S : u[d] = i
    BY DEF Numbers
  <2> TAKE i \in 0..n
  <2>2. CASE i = 0
    BY <2>2, <1>2
  <2>3. CASE i > 0
    <3>1. PICK d \in S : u[d] = i - 1
      BY <2>1, <2>3
    <3> QED BY <3>1, <2>3, <1>2
  <2> QED BY <2>2, <2>3
<1>6. MarkedFirst(v, Mark(b, T, c), T)
  <2>1. \A d \in T : Mark(b, T, c)[d] = IF d = c THEN 1 ELSE b[d]
    BY DEF Mark
  <2>2. \A d, e \in S : b[d] = 1 /\ b[e] = 0 => u[d] < u[e]
    BY DEF MarkedFirst
  <2>3. SUFFICES ASSUME NEW d \in T, NEW e \in T,
                        Mark(b, T, c)[d] = 1, Mark(b, T, c)[e] = 0
                 PROVE  v[d] < v[e]
    BY DEF MarkedFirst
  <2>4. e # c /\ e \in S /\ b[e] = 0
    BY <2>1, <2>3
  <2>5. CASE d = c
    <3>1. v[d] = 0 /\ v[e] = u[e] + 1 /\ u[e] \in Nat
      BY <2>4, <2>5, <1>1, <1>2
    <3> HIDE DEF v
    <3> QED BY <3>1
  <2>6. CASE d # c
    <3>1. d \in S /\ u[d] < u[e]
      BY <2>1, <2>2, <2>3, <2>4, <2>6
    <3>2. v[d] = u[d] + 1 /\ v[e] = u[e] + 1 /\ u[d] \in Nat /\ u[e] \in Nat
      BY <3>1, <2>4, <1>1, <1>2
    <3> HIDE DEF v
    <3> QED BY <3>1, <3>2
  <2> QED BY <2>5, <2>6
<1>7. n = (n + 1) - 1
  OBVIOUS
<1> QED BY <1>3, <1>4, <1>5, <1>6, <1>7 DEF Numbers

\* A new colour in the place of the one numbered last.
LEMMA ReplacedLast ==
  ASSUME NEW S, NEW n \in Nat, NEW u, NEW b, NEW c, c \notin S,
         NEW old \in S, u[old] = n - 1,
         Numbers(u, S, n), b \in [S -> {0, 1}], MarkedFirst(u, b, S)
  PROVE  LET T == (S \ {old}) \cup {c}
         IN  /\ Numbers(Moved(u, T, c, u[old]), T, n)
             /\ MarkedFirst(Moved(u, T, c, u[old]), Mark(b, T, c), T)
<1> DEFINE T == (S \ {old}) \cup {c}
           v == Moved(u, T, c, u[old])
<1>1. \A d \in S : u[d] \in Nat /\ u[d] < n /\ d # c
  BY DEF Numbers
<1>2. \A d \in S : d # old => u[d] < n - 1
  <2>1. \A d \in S : d # old => u[d] # u[old]
    BY DEF Numbers
  <2> QED BY <2>1, <1>1
<1>3. v[c] = 0 /\ \A d \in S \ {old} : v[d] = u[d] + 1
  <2>1. \A d \in T : v[d] = IF d = c THEN 0 ELSE IF u[d] < u[old] THEN u[d] + 1 ELSE u[d]
    BY DEF Moved
  <2> QED BY <2>1, <1>1, <1>2
<1>4. v \in [T -> Nat] /\ \A d \in T : v[d] < n
  <2>1. \A d \in T : v[d] \in Nat /\ v[d] < n
    BY <1>1, <1>2, <1>3
  <2>2. v = [d \in T |-> v[d]]
    BY DEF Moved
  <2> QED BY <2>1, <2>2
<1>5. \A d, e \in T : v[d] = v[e] => d = e
  <2>1. \A d, e \in S : u[d] = u[e] => d = e
    BY DEF Numbers
  <2> QED BY <2>1, <1>1, <1>3
<1>6. \A i \in 0..(n - 1) : \E d \in T : v[d] = i
  <2>1. \A i \in 0..(n - 1) : \E d \in S : u[d] = i
    BY DEF Numbers
  <2> TAKE i \in 0..(n - 1)
  <2>2. CASE i = 0
    BY <2>2, <1>3
  <2>3. CASE i > 0
    <3>1. PICK d \in S : u[d] = i - 1
      BY <2>1, <2>3
    <3>2. d \in T /\ v[d] = u[d] + 1
      <4>1. d # old
        BY <3>1
      <4> QED BY <4>1, <1>3
    <3>3. v[d] = i
      BY <3>1, <3>2
    <3> HIDE DEF v, T
    <3> QED BY <3>2, <3>3
  <2>4. i = 0 \/ i > 0
    OBVIOUS
  <2> QED BY <2>2, <2>3, <2>4, Zenon
<1>7. MarkedFirst(v, Mark(b, T, c), T)
  <2>1. \A d \in T : Mark(b, T, c)[d] = IF d = c THEN 1 ELSE b[d]
    BY DEF Mark
  <2>2. \A d, e \in S : b[d] = 1 /\ b[e] = 0 => u[d] < u[e]
    BY DEF MarkedFirst
  <2>3. SUFFICES ASSUME NEW d \in T, NEW e \in T,
                        Mark(b, T, c)[d] = 1, Mark(b, T, c)[e] = 0
                 PROVE  v[d] < v[e]
    BY DEF MarkedFirst
  <2>4. e # c /\ e \in S \ {old} /\ b[e] = 0
    BY <2>1, <2>3
  <2>5. v[e] = u[e] + 1 /\ u[e] \in Nat
    BY <2>4, <1>1, <1>3
  <2>6. CASE d = c
    <3>1. v[d] = 0
      BY <2>6, <1>3
    <3> HIDE DEF v
    <3> QED BY <3>1, <2>5
  <2>7. CASE d # c
    <3>1. d \in S \ {old} /\ u[d] < u[e]
      BY <2>1, <2>2, <2>3, <2>4, <2>7
    <3>2. v[d] = u[d] + 1 /\ u[d] \in Nat
      BY <3>1, <1>1, <1>3
    <3> HIDE DEF v
    <3> QED BY <3>1, <3>2, <2>5
  <2> QED BY <2>6, <2>7
<1> QED BY <1>4, <1>5, <1>6, <1>7 DEF Numbers

\* The marked colours, being numbered first, are numbered without a gap, and
\* there are as many of them as numbers.
LEMMA KeptMarked ==
  ASSUME NEW S, NEW n \in Nat, NEW u, NEW b,
         Numbers(u, S, n), b \in [S -> {0, 1}], MarkedFirst(u, b, S),
         NEW M, M = {c \in S : b[c] = 1}
  PROVE  /\ Cardinality(M) \in 0..n
         /\ Numbers([c \in M |-> u[c]], M, Cardinality(M))
<1> DEFINE f == [c \in M |-> u[c]]
           N == {u[c] : c \in M}
           m == Cardinality(M)
<1>1. \A c \in M : u[c] \in Nat /\ u[c] < n /\ f[c] = u[c]
  BY DEF Numbers
<1>2. \A c, d \in M : u[c] = u[d] => c = d
  BY DEF Numbers
<1>3. IsFiniteSet(0..(n - 1)) /\ Cardinality(0..(n - 1)) = n
  BY FS_Interval
<1>4. N \subseteq 0..(n - 1)
  BY <1>1
<1>5. IsFiniteSet(N) /\ Cardinality(N) <= n /\ Cardinality(N) \in Nat
  BY <1>3, <1>4, FS_Subset, FS_CardinalityType
<1>6. f \in Injection(M, N)
  BY <1>1, <1>2 DEF Injection, IsInjective
<1>7. f \in Surjection(M, N)
  BY <1>1 DEF Surjection
<1>8. IsFiniteSet(M) /\ m = Cardinality(N)
  <2>1. IsFiniteSet(M) /\ (m = Cardinality(N) <=> f \in Surjection(M, N))
    BY <1>5, <1>6, FS_Injection
  <2> QED BY <2>1, <1>7
<1>9. \A x \in N : 0..x \subseteq N
  <2> SUFFICES ASSUME NEW x \in N, NEW y \in 0..x PROVE y \in N
    OBVIOUS
  <2>1. PICK c \in M : u[c] = x
    OBVIOUS
  <2>2. PICK d \in S : u[d] = y
    <3>1. y \in 0..(n - 1)
      BY <2>1, <1>1
    <3> QED BY <3>1 DEF Numbers
  <2>3. b[d] = 1
    <3>1. ASSUME b[d] = 0 PROVE FALSE
      <4>1. u[c] < u[d]
        BY <3>1 DEF MarkedFirst
      <4> QED BY <4>1, <2>1, <2>2, <1>1
    <3> QED BY <3>1
  <2> QED BY <2>2, <2>3
<1>10. \A x \in N : x < m
  <2> TAKE x \in N
  <2>1. x \in Nat
    BY <1>1
  <2>2. Cardinality(0..x) = x + 1
    BY <2>1, FS_Interval
  <2>3. Cardinality(0..x) <= Cardinality(N)
    BY <1>5, <1>9, FS_Subset
  <2> QED BY <2>1, <2>2, <2>3, <1>5, <1>8
<1>11. N = 0..(m - 1)
  <2>0. m \in Nat /\ N \subseteq Nat
    BY <1>1, <1>5, <1>8
  <2>1. IsFiniteSet(0..(m - 1)) /\ Cardinality(0..(m - 1)) = m
    <3> HIDE DEF m
    <3> QED BY <2>0, FS_Interval
  <2>2. N \subseteq 0..(m - 1)
    <3> HIDE DEF m, N
    <3> QED BY <2>0, <1>10
  <2> QED BY <2>1, <2>2, <1>8, FS_Subset
<1>12. f \in [M -> Nat]
  BY <1>1
<1>13. \A i \in 0..(m - 1) : \E c \in M : f[c] = i
  BY <1>1, <1>11
<1> QED
  <2>1. Numbers(f, M, m)
    BY <1>1, <1>2, <1>10, <1>12, <1>13 DEF Numbers
  <2>2. m \in 0..n
    BY <1>5, <1>8
  <2> QED BY <2>1, <2>2
-----------------------------------------------------------------------------
\* The inductive invariant: what CacheTypeOK and Ranks say of a cache, and that
\* the pixel code and the shared table are those of its size.
Sound(k) ==
  /\ Cached(k) \subseteq Colors
  /\ k.block \in [Cached(k) -> {0, 1}]
  /\ Numbers(k.usage, Cached(k), k.active)
  /\ MarkedFirst(k.usage, k.block, Cached(k))
  /\ k.active \in 0..Slots
  /\ k.pixcode \in Pixcodes
  /\ k.fan \in Pixcodes \cup {"PIXCODE"}
  /\ k.active > 0 => k.pixcode = PixcodeFor(k.active) /\ k.fan = k.pixcode

LEMMA PixcodeType ==
  ASSUME NEW n \in Nat PROVE PixcodeFor(n) \in Pixcodes
BY DEF PixcodeFor, Pixcodes, Widths

LEMMA RerankedMoves ==
  ASSUME NEW k, NEW live, NEW c, NEW r
  PROVE  Reranked(k, live, c, r) = Moved(k.usage, live, c, r)
BY DEF Reranked, Moved

\* A hit keeps the cache sound.
LEMMA FoundSound ==
  ASSUME NEW k, Sound(k), NEW c \in Cached(k)
  PROVE  Sound(Found(k, c))
<1> DEFINE j == Found(k, c)
           S == Cached(k)
<1>1. /\ j.usage = Moved(k.usage, S, c, k.usage[c])
      /\ j.block = Mark(k.block, S, c)
      /\ j.active = k.active /\ j.pixcode = k.pixcode /\ j.fan = k.fan
  BY RerankedMoves DEF Found, Mark
<1>2. Cached(j) = S
  BY <1>1 DEF Cached, Moved
<1>3. k.active \in Nat
  BY SlotsAssumption DEF Sound
<1>4. Numbers(j.usage, S, j.active) /\ MarkedFirst(j.usage, j.block, S)
  <2> HIDE DEF j, S
  <2>1. Numbers(k.usage, S, k.active) /\ MarkedFirst(k.usage, k.block, S)
    BY DEF Sound, S
  <2>2. k.block \in [S -> {0, 1}] /\ c \in S
    BY DEF Sound, S
  <2> QED BY <2>1, <2>2, <1>1, <1>3, MovedToFront
<1>5. j.block \in [S -> {0, 1}]
  <2>1. \A d \in S : k.block[d] \in {0, 1}
    BY DEF Sound
  <2> QED BY <2>1, <1>1 DEF Mark
<1> HIDE DEF j, S
<1>6. S \subseteq Colors
  BY DEF Sound, S
<1> QED
  <2>1. Sound(j)
    BY <1>1, <1>2, <1>4, <1>5, <1>6 DEF Sound
  <2> QED BY <2>1 DEF j

\* A miss keeps the cache sound, whether there is a free slot or not.
LEMMA InsertedSound ==
  ASSUME NEW k, Sound(k), NEW c \in Colors \ Cached(k), NEW j \in Inserted(k, c)
  PROVE  Sound(j)
<1> DEFINE S == Cached(k)
<1>1. k.active \in Nat /\ k.active <= Slots /\ Slots \in Nat
  BY SlotsAssumption DEF Sound
<1>2. /\ Numbers(k.usage, S, k.active) /\ MarkedFirst(k.usage, k.block, S)
      /\ k.block \in [S -> {0, 1}] /\ S \subseteq Colors /\ c \in Colors /\ c \notin S
  BY DEF Sound
<1>3. \A d \in S : k.block[d] \in {0, 1}
  BY <1>2
<1>4. CASE k.active < Slots
  <2> DEFINE T == S \cup {c}
  <2>1. j = Appended(k, c)
    BY <1>4 DEF Inserted
  <2>2. /\ j.usage = Moved(k.usage, T, c, k.active)
        /\ j.block = Mark(k.block, T, c)
        /\ j.active = k.active + 1
        /\ j.pixcode = PixcodeFor(k.active + 1) /\ j.fan = PixcodeFor(k.active + 1)
    BY <2>1, RerankedMoves DEF Appended, Marked, Mark
  <2>3. Cached(j) = T
    BY <2>2 DEF Cached, Moved
  <2>4. j.block \in [T -> {0, 1}]
    BY <2>2, <1>3 DEF Mark
  <2>5. T \subseteq Colors
    BY <1>2
  <2> HIDE DEF S
  <2>6. Numbers(j.usage, T, j.active) /\ MarkedFirst(j.usage, j.block, T)
    BY <2>2, <1>1, <1>2, AppendedAtEnd
  <2>7. j.pixcode \in Pixcodes /\ j.active \in 0..Slots
    BY <2>2, <1>1, <1>4, PixcodeType
  <2> HIDE DEF T
  <2> QED BY <2>2, <2>3, <2>4, <2>5, <2>6, <2>7 DEF Sound
<1>5. CASE ~(k.active < Slots)
  <2>1. PICK old \in Ranked(k, k.active - 1) : j = Replaced(k, c, old)
    BY <1>5 DEF Inserted
  <2> DEFINE T == (S \ {old}) \cup {c}
  <2>2. old \in S /\ k.usage[old] = k.active - 1
    BY DEF Ranked
  <2>3. /\ j.usage = Moved(k.usage, T, c, k.usage[old])
        /\ j.block = Mark(k.block, T, c)
        /\ j.active = k.active /\ j.pixcode = k.pixcode /\ j.fan = k.fan
    BY <2>1, RerankedMoves DEF Replaced, Marked, Mark
  <2>4. Cached(j) = T
    BY <2>3 DEF Cached, Moved
  <2>5. j.block \in [T -> {0, 1}]
    BY <2>3, <1>3 DEF Mark
  <2>6. T \subseteq Colors
    BY <1>2
  <2> HIDE DEF S
  <2>7. Numbers(j.usage, T, j.active) /\ MarkedFirst(j.usage, j.block, T)
    BY <2>2, <2>3, <1>1, <1>2, ReplacedLast
  <2> HIDE DEF T
  <2> QED BY <2>3, <2>4, <2>5, <2>6, <2>7 DEF Sound
<1> QED BY <1>4, <1>5

\* So does a prune.
LEMMA PrunedSound ==
  ASSUME NEW k, Sound(k)
  PROVE  Sound(Pruned(k))
<1> DEFINE S == Cached(k)
           M == {c \in S : k.block[c] = 1}
           m == Cardinality(M)
           j == Pruned(k)
<1>1. InBlock(k) = M
  BY DEF InBlock
<1>2. k.active \in Nat /\ k.active <= Slots /\ Slots \in Nat
  BY SlotsAssumption DEF Sound
<1>3. /\ j.usage = [c \in M |-> k.usage[c]]
      /\ j.block = [c \in M |-> 0]
      /\ j.active = m /\ j.pixcode = PixcodeFor(m) /\ j.fan = PixcodeFor(m)
  BY <1>1 DEF Pruned
<1>4. Cached(j) = M
  BY <1>3 DEF Cached
<1>5. m \in 0..k.active /\ Numbers([c \in M |-> k.usage[c]], M, m)
  <2>1. /\ Numbers(k.usage, S, k.active) /\ MarkedFirst(k.usage, k.block, S)
        /\ k.block \in [S -> {0, 1}]
    BY DEF Sound
  <2> HIDE DEF S
  <2>2. M = {c \in S : k.block[c] = 1}
    OBVIOUS
  <2> HIDE DEF M
  <2> QED BY <2>1, <2>2, <1>2, KeptMarked
<1>6. M \subseteq Colors
  BY DEF Sound
<1>7. j.block \in [M -> {0, 1}] /\ MarkedFirst(j.usage, j.block, M)
  BY <1>3 DEF MarkedFirst
<1> HIDE DEF j, M, m
<1>8. j.pixcode \in Pixcodes /\ j.active \in 0..Slots
  BY <1>2, <1>3, <1>5, PixcodeType
<1>9. Sound(j)
  BY <1>3, <1>4, <1>5, <1>6, <1>7, <1>8 DEF Sound
<1> QED BY <1>9 DEF j

\* An empty cache is sound, whatever the pixel code and the shared table hold.
LEMMA EmptySound ==
  ASSUME NEW k, Cached(k) = {}, k.usage = [c \in {} |-> 0], k.block = [c \in {} |-> 0],
         k.active = 0, k.pixcode \in Pixcodes, k.fan \in Pixcodes \cup {"PIXCODE"}
  PROVE  Sound(k)
<1>1. Numbers(k.usage, Cached(k), k.active)
  BY DEF Numbers
<1>2. k.block \in [Cached(k) -> {0, 1}] /\ MarkedFirst(k.usage, k.block, Cached(k))
  BY DEF MarkedFirst
<1>3. k.active \in 0..Slots
  BY SlotsAssumption
<1> QED BY <1>1, <1>2, <1>3 DEF Sound

LEMMA InitSound ==
  ASSUME CacheInit PROVE Sound(cache)
<1>1. PICK fan \in Pixcodes \cup {"PIXCODE"} : cache = NewCache(fan)
  BY DEF CacheInit
<1>2. /\ cache.usage = [c \in {} |-> 0] /\ cache.block = [c \in {} |-> 0]
      /\ cache.active = 0 /\ cache.pixcode = "LATCHED" /\ cache.fan = fan
  BY <1>1 DEF NewCache
<1>3. Cached(cache) = {}
  BY <1>2 DEF Cached
<1> QED BY <1>2, <1>3, EmptySound DEF Pixcodes

\* The inductive invariant holds at all times.
LEMMA AlwaysSound == CacheSpec => []Sound(cache)
<1>1. CacheInit => Sound(cache)
  BY InitSound
<1>2. Sound(cache) /\ [CacheNext]_cache => Sound(cache)'
  <2> SUFFICES ASSUME Sound(cache), [CacheNext]_cache PROVE Sound(cache')
    OBVIOUS
  <2>1. \A k : Sound(k) /\ Pixel(k) => Sound(cache')
    BY PrunedSound DEF Pixel
  <2>2. CASE UseCached
    BY <2>1, <2>2, FoundSound DEF UseCached
  <2>3. CASE UseNew
    BY <2>1, <2>3, InsertedSound DEF UseNew
  <2>4. CASE Clear
    <3> DEFINE j == Cleared(cache)
    <3>1. /\ j.usage = [c \in {} |-> 0] /\ j.block = [c \in {} |-> 0]
          /\ j.active = 0 /\ j.pixcode = cache.pixcode /\ j.fan = cache.fan
      BY DEF Cleared
    <3>2. Cached(j) = {}
      BY <3>1 DEF Cached
    <3>3. cache.pixcode \in Pixcodes /\ cache.fan \in Pixcodes \cup {"PIXCODE"}
      BY DEF Sound
    <3>4. cache' = j
      BY <2>4 DEF Clear
    <3> HIDE DEF j
    <3>5. Sound(j)
      BY <3>1, <3>2, <3>3, EmptySound
    <3> QED BY <3>4, <3>5
  <2>5. CASE cache' = cache
    BY <2>5
  <2> QED BY <2>2, <2>3, <2>4, <2>5 DEF CacheNext
<1> QED BY <1>1, <1>2, PTL DEF CacheSpec

LEMMA SoundTypes ==
  ASSUME Sound(cache) PROVE CacheTypeOK
<1>1. DOMAIN cache.block = Cached(cache)
  BY DEF Sound
<1>2. \A c \in Cached(cache) : cache.usage[c] \in Nat /\ cache.block[c] \in {0, 1}
  BY DEF Sound, Numbers
<1> QED BY <1>1, <1>2 DEF Sound, CacheTypeOK

\* The cache keeps its types: dvc_cc_active never leaves 0..17, and the pixel
\* code is one of the states that cache_lru and cache_prune choose from.
THEOREM CacheTypeCorrect == CacheSpec => []CacheTypeOK
<1>1. Sound(cache) => CacheTypeOK
  BY SoundTypes
<1> QED BY <1>1, AlwaysSound, PTL

\* dvc_cc_usage stays a permutation of 0..active-1 through cache_lru, cache_find
\* and cache_prune, with the colours of the current block first.
THEOREM RanksArePermutation == CacheSpec => []Ranks
<1>1. Sound(cache) => Ranks
  BY DEF Sound, Numbers, MarkedFirst, Ranks
<1> QED BY <1>1, AlwaysSound, PTL

\* Every cached colour can be named by a code of the state that reads it, for
\* every size up to the 17 slots: none is lost to a code that is too narrow.
THEOREM EveryColorHasACode == CacheSpec => []Addressable
<1>1. Sound(cache) => Addressable
  <2> SUFFICES ASSUME Sound(cache), NEW c \in Cached(cache)
               PROVE  \E state \in {"PIXLRU1", cache.fan} :
                        /\ state \in {"PIXLRU1", cache.pixcode}
                        /\ \E code \in CodesOf(state) : cache.usage[c] = RankOf(cache, state, code)
    BY DEF Addressable
  <2> DEFINE n == cache.active
             r == cache.usage[c]
  <2>1. r \in Nat /\ r < n /\ n \in 1..17
    BY SlotsAssumption DEF Sound, Numbers
  <2>2. cache.pixcode = PixcodeFor(n) /\ cache.fan = PixcodeFor(n)
    BY <2>1 DEF Sound
  <2>3. CASE n = 1
    <3>1. \A d \in Cached(cache) : d = c
      BY <2>1, <2>3 DEF Sound, Numbers
    <3>2. (CHOOSE d \in Cached(cache) : TRUE) = c
      BY <3>1
    <3>3. RankOf(cache, "PIXLRU1", 0) = r
      BY <3>2, <2>3 DEF RankOf
    <3>4. 0 \in CodesOf("PIXLRU1")
      BY DEF CodesOf
    <3> QED BY <3>3, <3>4
  <2>4. CASE n # 1 /\ r = 1
    <3>1. RankOf(cache, "PIXLRU1", 0) = 1
      BY <2>4 DEF RankOf
    <3>2. 0 \in CodesOf("PIXLRU1")
      BY DEF CodesOf
    <3> QED BY <3>1, <3>2, <2>4
  <2>5. CASE n # 1 /\ r # 1
    <3> DEFINE code == IF r = 0 THEN 0 ELSE r - 1
    <3>1. code \in CodesOf(PixcodeFor(n))
      <4>1. CASE n = 2
        BY <4>1, <2>1, <2>5 DEF PixcodeFor, CodesOf
      <4>2. CASE n = 3
        BY <4>2, <2>1, <2>5 DEF PixcodeFor, CodesOf
      <4>3. CASE n \in 4..5
        BY <4>3, <2>1, <2>5 DEF PixcodeFor, CodesOf
      <4>4. CASE n \in 6..9
        BY <4>4, <2>1, <2>5 DEF PixcodeFor, CodesOf
      <4>5. CASE n \in 10..17
        BY <4>5, <2>1, <2>5 DEF PixcodeFor, CodesOf
      <4> QED BY <2>1, <2>5, <4>1, <4>2, <4>3, <4>4, <4>5
    <3>2. RankOf(cache, PixcodeFor(n), code) = r
      <4>1. PixcodeFor(n) # "PIXLRU1"
        BY <2>1 DEF PixcodeFor
      <4>2. CASE n = 2
        BY <4>2, <2>1, <2>5 DEF PixcodeFor, RankOf
      <4>3. CASE n # 2
        <5>1. PixcodeFor(n) # "PIXLRU0"
          BY <4>3, <2>1, <2>5 DEF PixcodeFor
        <5> QED BY <5>1, <4>1, <2>1, <2>5 DEF RankOf
      <4> QED BY <4>2, <4>3
    <3> QED BY <3>1, <3>2, <2>2
  <2> QED BY <2>3, <2>4, <2>5
<1> QED BY <1>1, AlwaysSound, PTL
-----------------------------------------------------------------------------
(* The refinement.  The list of an abstract cache is stated of any cache k,  *)
(* so that what a pixel makes of it can be said of each operator.           *)

Listed(k) == [i \in 1..k.active |-> CHOOSE c \in Cached(k) : k.usage[c] = i - 1]
Touched(k) == Cardinality(InBlock(k))
Without(s, i) == SubSeq(s, 1, i - 1) \o SubSeq(s, i + 1, Len(s))

LEMMA Pushed ==
  ASSUME NEW X, NEW s \in Seq(X), NEW c \in X
  PROVE  /\ <<c>> \o s \in Seq(X) /\ Len(<<c>> \o s) = Len(s) + 1
         /\ (<<c>> \o s)[1] = c
         /\ \A i \in 1..Len(s) : (<<c>> \o s)[i + 1] = s[i]
<1>1. <<c>> \in Seq(X) /\ Len(<<c>>) = 1 /\ <<c>>[1] = c
  OBVIOUS
<1> DEFINE q == <<c>>
<1> HIDE DEF q
<1>2. q \in Seq(X) /\ Len(q) = 1 /\ q[1] = c
  BY <1>1 DEF q
<1>3. /\ q \o s \in Seq(X) /\ Len(q \o s) = Len(q) + Len(s)
      /\ \A i \in 1..(Len(q) + Len(s)) :
           (q \o s)[i] = IF i <= Len(q) THEN q[i] ELSE s[i - Len(q)]
  BY <1>2, ConcatProperties
<1>4. Len(s) \in Nat
  BY LenProperties
<1>5. (q \o s)[1] = c /\ \A i \in 1..Len(s) : (q \o s)[i + 1] = s[i]
  BY <1>2, <1>3, <1>4
<1> QED BY <1>3, <1>4, <1>5 DEF q

LEMMA Cut ==
  ASSUME NEW X, NEW s \in Seq(X), NEW n \in 0..Len(s)
  PROVE  /\ SubSeq(s, 1, n) \in Seq(X) /\ Len(SubSeq(s, 1, n)) = n
         /\ \A i \in 1..n : SubSeq(s, 1, n)[i] = s[i]
OBVIOUS

LEMMA Removed ==
  ASSUME NEW X, NEW s \in Seq(X), NEW i \in 1..Len(s)
  PROVE  /\ Without(s, i) \in Seq(X) /\ Len(Without(s, i)) = Len(s) - 1
         /\ \A j \in 1..(i - 1) : Without(s, i)[j] = s[j]
         /\ \A j \in i..(Len(s) - 1) : Without(s, i)[j] = s[j + 1]
<1> DEFINE a == SubSeq(s, 1, i - 1)
           b == SubSeq(s, i + 1, Len(s))
<1>1. Len(s) \in Nat /\ i \in Nat /\ 1 <= i /\ i <= Len(s)
  BY LenProperties
<1>2. a \in Seq(X) /\ Len(a) = i - 1 /\ \A j \in 1..(i - 1) : a[j] = s[j]
  BY <1>1
<1>3. b \in Seq(X) /\ Len(b) = Len(s) - i /\ \A j \in 1..(Len(s) - i) : b[j] = s[i + j]
  BY <1>1
<1> HIDE DEF a, b
<1>4. /\ a \o b \in Seq(X) /\ Len(a \o b) = Len(a) + Len(b)
      /\ \A j \in 1..(Len(a) + Len(b)) :
           (a \o b)[j] = IF j <= Len(a) THEN a[j] ELSE b[j - Len(a)]
  BY <1>2, <1>3, ConcatProperties
<1>5. Len(a) + Len(b) = Len(s) - 1
  BY <1>1, <1>2, <1>3
<1>6. \A j \in 1..(i - 1) : (a \o b)[j] = s[j]
  BY <1>1, <1>2, <1>4, <1>5
<1>7. \A j \in i..(Len(s) - 1) : (a \o b)[j] = s[j + 1]
  <2> SUFFICES ASSUME NEW j \in i..(Len(s) - 1) PROVE (a \o b)[j] = s[j + 1]
    OBVIOUS
  <2>1. j \in 1..(Len(a) + Len(b)) /\ ~(j <= Len(a)) /\ j - Len(a) = j - (i - 1)
    BY <1>1, <1>2, <1>5
  <2>2. j - (i - 1) \in 1..(Len(s) - i) /\ i + (j - (i - 1)) = j + 1
    BY <1>1
  <2> QED BY <2>1, <2>2, <1>3, <1>4
<1>8. Without(s, i) = a \o b
  BY DEF Without, a, b
<1> QED BY <1>4, <1>5, <1>6, <1>7, <1>8

\* Each cached colour is at its rank.
LEMMA ListedAt ==
  ASSUME NEW k, Sound(k)
  PROVE  /\ Listed(k) \in Seq(Colors) /\ Len(Listed(k)) = k.active /\ k.active \in Nat
         /\ \A c \in Cached(k) : /\ k.usage[c] \in 0..(k.active - 1)
                                 /\ k.usage[c] + 1 \in 1..k.active
                                 /\ Listed(k)[k.usage[c] + 1] = c
         /\ \A i \in 1..k.active : Listed(k)[i] \in Cached(k) /\ k.usage[Listed(k)[i]] = i - 1
<1>1. k.active \in Nat /\ Cached(k) \subseteq Colors
  BY SlotsAssumption DEF Sound
<1>2. Numbers(k.usage, Cached(k), k.active)
  BY DEF Sound
<1>3. \A i \in 1..k.active : Listed(k)[i] \in Cached(k) /\ k.usage[Listed(k)[i]] = i - 1
  <2> SUFFICES ASSUME NEW i \in 1..k.active
               PROVE  Listed(k)[i] \in Cached(k) /\ k.usage[Listed(k)[i]] = i - 1
    OBVIOUS
  <2>1. Listed(k)[i] = CHOOSE c \in Cached(k) : k.usage[c] = i - 1
    BY DEF Listed
  <2>2. i - 1 \in 0..(k.active - 1)
    BY <1>1
  <2>3. \E c \in Cached(k) : k.usage[c] = i - 1
    BY <1>2, <2>2 DEF Numbers
  <2> QED BY <2>1, <2>3
<1>4. \A c \in Cached(k) : k.usage[c] \in 0..(k.active - 1) /\ k.usage[c] + 1 \in 1..k.active
  BY <1>1, <1>2 DEF Numbers
<1>5. \A c \in Cached(k) : Listed(k)[k.usage[c] + 1] = c
  <2> SUFFICES ASSUME NEW c \in Cached(k) PROVE Listed(k)[k.usage[c] + 1] = c
    OBVIOUS
  <2> DEFINE d == Listed(k)[k.usage[c] + 1]
  <2>1. d \in Cached(k) /\ k.usage[d] = (k.usage[c] + 1) - 1
    BY <1>3, <1>4
  <2>2. k.usage[d] = k.usage[c]
    BY <1>4, <2>1
  <2> QED BY <1>2, <2>1, <2>2 DEF Numbers
<1>6. Listed(k) \in Seq(Colors) /\ Len(Listed(k)) = k.active
  <2>1. Listed(k) = [i \in 1..k.active |-> Listed(k)[i]]
    BY DEF Listed
  <2>2. \A i \in 1..k.active : Listed(k)[i] \in Colors
    BY <1>1, <1>3
  <2>3. Listed(k) \in [1..k.active -> Colors]
    BY <2>1, <2>2
  <2> HIDE DEF Listed
  <2> QED BY <1>1, <2>3, LenProperties
<1> QED BY <1>1, <1>3, <1>4, <1>5, <1>6

\* The list is the only one that has each cached colour at its rank.
LEMMA ListedIs ==
  ASSUME NEW k, Sound(k), NEW s \in Seq(Colors), Len(s) = k.active,
         \A c \in Cached(k) : s[k.usage[c] + 1] = c
  PROVE  Listed(k) = s
<1>1. \A i \in 1..k.active : s[i] = Listed(k)[i]
  <2> SUFFICES ASSUME NEW i \in 1..k.active PROVE s[i] = Listed(k)[i]
    OBVIOUS
  <2>1. Listed(k)[i] \in Cached(k) /\ k.usage[Listed(k)[i]] = i - 1 /\ k.active \in Nat
    BY ListedAt
  <2>2. (i - 1) + 1 = i
    BY <2>1
  <2> QED BY <2>1, <2>2
<1>2. Listed(k) \in Seq(Colors) /\ Len(Listed(k)) = Len(s)
  BY ListedAt
<1> QED BY <1>1, <1>2, SeqEqual

\* A hit moves the colour to the front of the list.
LEMMA FoundListed ==
  ASSUME NEW k, Sound(k), NEW c \in Cached(k)
  PROVE  Listed(Found(k, c)) = <<c>> \o Without(Listed(k), k.usage[c] + 1)
<1> DEFINE i == k.usage[c] + 1
           s == Listed(k)
           q == Without(s, i)
           p == <<c>> \o q
           j == Found(k, c)
<1>1. /\ s \in Seq(Colors) /\ Len(s) = k.active /\ k.active \in Nat /\ i \in 1..k.active
      /\ \A d \in Cached(k) : k.usage[d] \in 0..(k.active - 1) /\ s[k.usage[d] + 1] = d
      /\ c \in Colors
  BY ListedAt DEF Sound
<1>2. /\ q \in Seq(Colors) /\ Len(q) = k.active - 1
      /\ \A n \in 1..(i - 1) : q[n] = s[n]
      /\ \A n \in i..(k.active - 1) : q[n] = s[n + 1]
  <2>1. s \in Seq(Colors) /\ i \in 1..Len(s)
    BY <1>1
  <2> HIDE DEF i, s
  <2>2. /\ q \in Seq(Colors) /\ Len(q) = Len(s) - 1
        /\ \A n \in 1..(i - 1) : q[n] = s[n]
        /\ \A n \in i..(Len(s) - 1) : q[n] = s[n + 1]
    BY <2>1, Removed
  <2> QED BY <1>1, <2>2
<1>3. /\ j.usage = [d \in Cached(k) |-> IF d = c THEN 0
                                         ELSE IF k.usage[d] < k.usage[c] THEN k.usage[d] + 1
                                                                         ELSE k.usage[d]]
      /\ j.active = k.active
  BY DEF Found, Reranked
<1>4. Sound(j) /\ Cached(j) = Cached(k)
  BY <1>3, FoundSound DEF Cached
<1>5. /\ p \in Seq(Colors) /\ Len(p) = k.active /\ p[1] = c
      /\ \A n \in 1..(k.active - 1) : p[n + 1] = q[n]
  <2> HIDE DEF q
  <2>1. Len(q) + 1 = k.active
    BY <1>1, <1>2
  <2> QED BY <1>1, <1>2, <2>1, Pushed
<1> HIDE DEF j, p, q, s
<1>6. \A d \in Cached(k) : d # c => k.usage[d] # k.usage[c]
  BY DEF Sound, Numbers
<1>7. \A d \in Cached(k) : p[j.usage[d] + 1] = d
  <2> SUFFICES ASSUME NEW d \in Cached(k) PROVE p[j.usage[d] + 1] = d
    OBVIOUS
  <2> DEFINE u == k.usage[d]
  <2>1. u \in 0..(k.active - 1) /\ k.usage[c] \in 0..(k.active - 1) /\ s[u + 1] = d
    BY <1>1
  <2>2. CASE d = c
    BY <2>2, <1>3, <1>5
  <2>3. CASE d # c /\ u < k.usage[c]
    <3>1. j.usage[d] = u + 1
      BY <2>3, <1>3
    <3>2. u + 1 \in 1..(i - 1) /\ u + 1 \in 1..(k.active - 1)
      BY <2>1, <2>3, <1>1
    <3> QED BY <3>1, <3>2, <2>1, <1>2, <1>5
  <2>4. CASE d # c /\ ~(u < k.usage[c])
    <3>1. j.usage[d] = u
      BY <2>4, <1>3
    <3>2. u # k.usage[c]
      BY <2>4, <1>6
    <3>3. u \in i..(k.active - 1) /\ u \in 1..(k.active - 1)
      BY <2>1, <2>4, <3>2
    <3> QED BY <3>1, <3>3, <2>1, <1>2, <1>5
  <2> QED BY <2>2, <2>3, <2>4
<1>8. Listed(j) = p
  BY <1>3, <1>4, <1>5, <1>7, ListedIs
<1> QED BY <1>8 DEF j, p, q, s

\* A colour that takes a free slot is put in front.
LEMMA AppendedListed ==
  ASSUME NEW k, Sound(k), NEW c \in Colors \ Cached(k), k.active < Slots
  PROVE  Listed(Appended(k, c)) = <<c>> \o Listed(k)
<1> DEFINE s == Listed(k)
           p == <<c>> \o s
           j == Appended(k, c)
<1>1. /\ s \in Seq(Colors) /\ Len(s) = k.active /\ k.active \in Nat
      /\ \A d \in Cached(k) : k.usage[d] \in 0..(k.active - 1) /\ s[k.usage[d] + 1] = d
  BY ListedAt
<1>2. /\ j.usage = [d \in Cached(k) \cup {c} |->
                       IF d = c THEN 0 ELSE IF k.usage[d] < k.active THEN k.usage[d] + 1
                                                                     ELSE k.usage[d]]
      /\ j.active = k.active + 1
  BY DEF Appended, Reranked
<1>3. j \in Inserted(k, c)
  BY DEF Inserted
<1>4. Sound(j) /\ Cached(j) = Cached(k) \cup {c}
  BY <1>2, <1>3, InsertedSound DEF Cached
<1>5. /\ p \in Seq(Colors) /\ Len(p) = k.active + 1 /\ p[1] = c
      /\ \A n \in 1..k.active : p[n + 1] = s[n]
  <2> HIDE DEF s
  <2> QED BY <1>1, Pushed
<1> HIDE DEF j, p, s
<1>6. \A d \in Cached(j) : p[j.usage[d] + 1] = d
  <2> SUFFICES ASSUME NEW d \in Cached(j) PROVE p[j.usage[d] + 1] = d
    OBVIOUS
  <2>1. CASE d = c
    BY <2>1, <1>2, <1>4, <1>5
  <2>2. CASE d # c
    <3>1. d \in Cached(k)
      BY <2>2, <1>4
    <3>2. k.usage[d] \in 0..(k.active - 1) /\ s[k.usage[d] + 1] = d
      BY <3>1, <1>1
    <3>3. j.usage[d] = k.usage[d] + 1 /\ k.usage[d] + 1 \in 1..k.active
      BY <2>2, <3>1, <3>2, <1>1, <1>2
    <3> QED BY <3>2, <3>3, <1>5
  <2> QED BY <2>1, <2>2
<1>7. Listed(j) = p
  <2>1. Sound(j) /\ p \in Seq(Colors) /\ Len(p) = j.active
    BY <1>2, <1>4, <1>5
  <2> QED BY <2>1, <1>6, ListedIs
<1> QED BY <1>7 DEF j, p, s

\* In a full cache the last of the list makes room.
LEMMA ReplacedListed ==
  ASSUME NEW k, Sound(k), NEW c \in Colors \ Cached(k), ~(k.active < Slots),
         NEW old \in Ranked(k, k.active - 1)
  PROVE  Listed(Replaced(k, c, old)) = SubSeq(<<c>> \o Listed(k), 1, k.active)
<1> DEFINE s == Listed(k)
           q == <<c>> \o s
           p == SubSeq(q, 1, k.active)
           j == Replaced(k, c, old)
<1>1. /\ s \in Seq(Colors) /\ Len(s) = k.active /\ k.active \in Nat
      /\ \A d \in Cached(k) : k.usage[d] \in 0..(k.active - 1) /\ s[k.usage[d] + 1] = d
  BY ListedAt
<1>2. /\ j.usage = [d \in (Cached(k) \ {old}) \cup {c} |->
                       IF d = c THEN 0 ELSE IF k.usage[d] < k.usage[old] THEN k.usage[d] + 1
                                                                         ELSE k.usage[d]]
      /\ j.active = k.active
  BY DEF Replaced, Reranked
<1>3. j \in Inserted(k, c) /\ old \in Cached(k) /\ k.usage[old] = k.active - 1
  BY DEF Inserted, Ranked
<1>4. Sound(j) /\ Cached(j) = (Cached(k) \ {old}) \cup {c}
  BY <1>2, <1>3, InsertedSound DEF Cached
<1>5. /\ q \in Seq(Colors) /\ Len(q) = k.active + 1 /\ q[1] = c
      /\ \A n \in 1..k.active : q[n + 1] = s[n]
  <2> HIDE DEF s
  <2> QED BY <1>1, Pushed
<1> HIDE DEF j, q, s
<1>6. p \in Seq(Colors) /\ Len(p) = k.active /\ \A n \in 1..k.active : p[n] = q[n]
  <2>1. k.active \in 0..Len(q)
    BY <1>1, <1>5
  <2> QED BY <2>1, <1>5, Cut
<1>7. \A d \in Cached(k) : d # old => k.usage[d] # k.usage[old]
  BY <1>3 DEF Sound, Numbers
<1> HIDE DEF p
<1>8. \A d \in Cached(j) : p[j.usage[d] + 1] = d
  <2> SUFFICES ASSUME NEW d \in Cached(j) PROVE p[j.usage[d] + 1] = d
    OBVIOUS
  <2>0. k.active >= 1
    BY <1>1, <1>3
  <2>1. CASE d = c
    <3>1. j.usage[d] = 0 /\ 1 \in 1..k.active
      BY <2>0, <2>1, <1>1, <1>2, <1>4
    <3> QED BY <2>1, <3>1, <1>5, <1>6
  <2>2. CASE d # c
    <3>1. d \in Cached(k) /\ d # old
      BY <2>2, <1>4
    <3>2. k.usage[d] \in 0..(k.active - 1) /\ s[k.usage[d] + 1] = d
      BY <3>1, <1>1
    <3>3. k.usage[d] < k.usage[old]
      BY <1>1, <1>3, <1>7, <3>1, <3>2
    <3>4. j.usage[d] = k.usage[d] + 1
      BY <2>2, <3>1, <3>3, <1>2
    <3>5. k.usage[d] + 1 \in 1..k.active /\ (k.usage[d] + 1) + 1 \in 1..k.active
      BY <1>1, <1>3, <3>2, <3>3
    <3> QED BY <3>2, <3>4, <3>5, <1>5, <1>6
  <2> QED BY <2>1, <2>2
<1>9. Listed(j) = p
  BY <1>2, <1>4, <1>6, <1>8, ListedIs
<1> QED BY <1>9 DEF j, p, q, s

\* What fits is not cut.
LEMMA PushedWhole ==
  ASSUME NEW X, NEW s \in Seq(X), NEW c \in X
  PROVE  SubSeq(<<c>> \o s, 1, Len(s) + 1) = <<c>> \o s
<1> DEFINE q == <<c>> \o s
<1>1. q \in Seq(X) /\ Len(q) = Len(s) + 1 /\ Len(s) \in Nat
  BY Pushed, LenProperties
<1> HIDE DEF q
<1>2. Len(q) \in 0..Len(q)
  BY <1>1
<1>3. /\ SubSeq(q, 1, Len(q)) \in Seq(X) /\ Len(SubSeq(q, 1, Len(q))) = Len(q)
      /\ \A i \in 1..Len(q) : SubSeq(q, 1, Len(q))[i] = q[i]
  BY <1>1, <1>2, Cut
<1>4. SubSeq(q, 1, Len(q)) = q
  BY <1>1, <1>3, SeqEqual
<1> QED BY <1>1, <1>4 DEF q

\* As many are numbered as there are numbers.
LEMMA CountedByRank ==
  ASSUME NEW S, NEW n \in Nat, NEW u, Numbers(u, S, n)
  PROVE  IsFiniteSet(S) /\ Cardinality(S) = n
<1>1. IsFiniteSet(0..(n - 1)) /\ Cardinality(0..(n - 1)) = n
  BY FS_Interval
<1> DEFINE N == 0..(n - 1)
           f == [c \in S |-> u[c]]
<1>2. f \in Injection(S, N)
  BY DEF Numbers, Injection, IsInjective
<1>3. f \in Surjection(S, N)
  BY DEF Numbers, Surjection
<1> HIDE DEF N, f
<1>4. IsFiniteSet(N)
  BY <1>1 DEF N
<1>5. IsFiniteSet(S) /\ (Cardinality(S) = Cardinality(N) <=> f \in Surjection(S, N))
  BY <1>2, <1>4, FS_Injection
<1> QED BY <1>1, <1>3, <1>5 DEF N

\* The colours of the block are the first of the list.
LEMMA TouchedFirst ==
  ASSUME NEW k, Sound(k)
  PROVE  /\ Touched(k) \in 0..k.active
         /\ Numbers([c \in InBlock(k) |-> k.usage[c]], InBlock(k), Touched(k))
         /\ IsFiniteSet(InBlock(k)) /\ InBlock(k) \subseteq Cached(k)
         /\ \A c \in Cached(k) : c \in InBlock(k) <=> k.usage[c] < Touched(k)
<1> DEFINE S == Cached(k)
           M == InBlock(k)
           m == Touched(k)
           f == [c \in M |-> k.usage[c]]
<1>1. /\ Numbers(k.usage, S, k.active) /\ MarkedFirst(k.usage, k.block, S)
      /\ k.block \in [S -> {0, 1}] /\ k.active \in Nat
  BY SlotsAssumption DEF Sound
<1>2. M = {c \in S : k.block[c] = 1} /\ m = Cardinality(M)
  BY DEF InBlock, Touched
<1>3. m \in 0..k.active /\ Numbers(f, M, m)
  <2> HIDE DEF S, M, m
  <2> QED BY <1>1, <1>2, KeptMarked
<1>4. IsFiniteSet(S) /\ Cardinality(S) = k.active
  <2> HIDE DEF S
  <2> QED BY <1>1, CountedByRank
<1>5. M \subseteq S /\ IsFiniteSet(M)
  BY <1>2, <1>4, FS_Subset
<1>6. ASSUME NEW c \in S PROVE c \in M <=> k.usage[c] < m
  <2>1. CASE c \in M
    <3>1. f[c] = k.usage[c] /\ f[c] < m
      BY <2>1, <1>3 DEF Numbers
    <3> QED BY <2>1, <3>1
  <2>2. CASE c \notin M
    <3> SUFFICES ASSUME k.usage[c] < m PROVE FALSE
      BY <2>2
    <3>1. k.usage[c] \in 0..(m - 1)
      BY <1>1, <1>3 DEF Numbers
    <3>2. PICK d \in M : f[d] = k.usage[c]
      BY <3>1, <1>3 DEF Numbers
    <3>3. k.usage[d] = k.usage[c] /\ d \in S
      BY <3>2, <1>5
    <3> QED BY <3>2, <3>3, <2>2, <1>1 DEF Numbers
  <2> QED BY <2>1, <2>2
<1> QED BY <1>3, <1>5, <1>6

\* What a pixel does to the mark: a colour that was behind it is now before it.
LEMMA FoundTouched ==
  ASSUME NEW k, Sound(k), NEW c \in Cached(k)
  PROVE  Touched(Found(k, c)) = IF k.usage[c] + 1 > Touched(k) THEN Touched(k) + 1
                                                              ELSE Touched(k)
<1> DEFINE M == InBlock(k)
<1>1. InBlock(Found(k, c)) = M \cup {c}
  BY DEF InBlock, Found, Reranked, Cached
<1>2. /\ Touched(k) \in Nat /\ IsFiniteSet(M) /\ Touched(k) = Cardinality(M)
      /\ k.usage[c] \in Nat /\ (c \in M <=> k.usage[c] < Touched(k))
  BY TouchedFirst, SlotsAssumption DEF Touched, Sound, Numbers
<1>3. Touched(Found(k, c)) = Cardinality(M \cup {c})
  BY <1>1 DEF Touched
<1> HIDE DEF M
<1>4. CASE c \in M
  <2>1. M \cup {c} = M /\ ~(k.usage[c] + 1 > Touched(k))
    BY <1>2, <1>4
  <2> QED BY <2>1, <1>2, <1>3
<1>5. CASE c \notin M
  <2>1. Cardinality(M \cup {c}) = Cardinality(M) + 1
    BY <1>2, <1>5, FS_AddElement
  <2>2. k.usage[c] + 1 > Touched(k)
    BY <1>2, <1>5
  <2> QED BY <2>1, <2>2, <1>2, <1>3
<1> QED BY <1>4, <1>5

LEMMA AppendedTouched ==
  ASSUME NEW k, Sound(k), NEW c \in Colors \ Cached(k)
  PROVE  Touched(Appended(k, c)) = Touched(k) + 1
<1> DEFINE M == InBlock(k)
<1>1. InBlock(Appended(k, c)) = M \cup {c}
  BY DEF InBlock, Appended, Reranked, Marked, Cached
<1>2. IsFiniteSet(M) /\ Touched(k) = Cardinality(M) /\ c \notin M
  BY TouchedFirst DEF Touched, InBlock
<1>3. Touched(Appended(k, c)) = Cardinality(M \cup {c})
  BY <1>1 DEF Touched
<1> HIDE DEF M
<1> QED BY <1>2, <1>3, FS_AddElement

\* If the one that makes room was of the block, all were.
LEMMA ReplacedTouched ==
  ASSUME NEW k, Sound(k), NEW c \in Colors \ Cached(k), ~(k.active < Slots),
         NEW old \in Ranked(k, k.active - 1)
  PROVE  /\ Touched(Replaced(k, c, old)) = IF Touched(k) = Slots THEN Slots ELSE Touched(k) + 1
         /\ k.active = Slots
<1> DEFINE M == InBlock(k)
           N == M \ {old}
<1>1. InBlock(Replaced(k, c, old)) = N \cup {c}
  BY DEF InBlock, Replaced, Reranked, Marked, Cached
<1>2. k.active = Slots /\ Slots \in Nat
  BY SlotsAssumption DEF Sound
<1>3. old \in Cached(k) /\ k.usage[old] = Slots - 1
  BY <1>2 DEF Ranked
<1>4. /\ IsFiniteSet(M) /\ Touched(k) = Cardinality(M) /\ c \notin M
      /\ Touched(k) \in 0..Slots /\ (old \in M <=> Slots - 1 < Touched(k))
  BY <1>2, <1>3, TouchedFirst DEF Touched, InBlock
<1>5. Touched(Replaced(k, c, old)) = Cardinality(N \cup {c})
  BY <1>1 DEF Touched
<1> HIDE DEF M
<1>6. CASE old \in M
  <2>1. Cardinality(N) = Cardinality(M) - 1 /\ IsFiniteSet(N) /\ c \notin N
    BY <1>4, <1>6, FS_RemoveElement
  <2>2. Cardinality(N \cup {c}) = Cardinality(N) + 1
    <3> HIDE DEF N
    <3> QED BY <2>1, FS_AddElement
  <2>3. Touched(Replaced(k, c, old)) = Touched(k) /\ Touched(k) = Slots
    <3> DEFINE a == Touched(k)
               b == Touched(Replaced(k, c, old))
    <3>1. b = (a - 1) + 1 /\ a \in 0..Slots /\ Slots - 1 < a
      BY <1>4, <1>5, <1>6, <2>1, <2>2
    <3> HIDE DEF a, b
    <3>2. b = a /\ a = Slots
      BY <3>1, <1>2
    <3> QED BY <3>2 DEF a, b
  <2> QED BY <1>2, <2>3
<1>7. CASE old \notin M
  <2>1. N = M
    BY <1>7
  <2>2. Cardinality(M \cup {c}) = Cardinality(M) + 1
    BY <1>4, FS_AddElement
  <2>3. Touched(Replaced(k, c, old)) = Touched(k) + 1
    BY <1>4, <1>5, <2>1, <2>2
  <2>4. Touched(k) # Slots
    BY <1>2, <1>4, <1>7
  <2> QED BY <1>2, <2>3, <2>4
<1> QED BY <1>2, <1>6, <1>7

\* A prune cuts the list at the mark, and moves the mark to the front.
LEMMA PrunedListed ==
  ASSUME NEW k, Sound(k)
  PROVE  /\ Listed(Pruned(k)) = SubSeq(Listed(k), 1, Touched(k))
         /\ Touched(Pruned(k)) = 0
<1> DEFINE s == Listed(k)
           m == Touched(k)
           p == SubSeq(s, 1, m)
           j == Pruned(k)
<1>1. /\ s \in Seq(Colors) /\ Len(s) = k.active /\ k.active \in Nat
      /\ \A d \in Cached(k) : k.usage[d] \in 0..(k.active - 1) /\ s[k.usage[d] + 1] = d
  BY ListedAt
<1>2. /\ m \in 0..k.active /\ InBlock(k) \subseteq Cached(k)
      /\ \A d \in Cached(k) : d \in InBlock(k) <=> k.usage[d] < m
  BY TouchedFirst
<1>3. /\ j.usage = [d \in InBlock(k) |-> k.usage[d]] /\ j.active = m
      /\ j.block = [d \in InBlock(k) |-> 0]
  BY DEF Pruned, Touched
<1>4. Sound(j) /\ Cached(j) = InBlock(k)
  BY <1>3, PrunedSound DEF Cached
<1> HIDE DEF j, m, s
<1>5. p \in Seq(Colors) /\ Len(p) = m /\ \A i \in 1..m : p[i] = s[i]
  <2>1. m \in 0..Len(s)
    BY <1>1, <1>2
  <2> QED BY <2>1, <1>1, Cut
<1> HIDE DEF p
<1>6. \A d \in Cached(j) : p[j.usage[d] + 1] = d
  <2> SUFFICES ASSUME NEW d \in Cached(j) PROVE p[j.usage[d] + 1] = d
    OBVIOUS
  <2>1. d \in Cached(k) /\ j.usage[d] = k.usage[d] /\ k.usage[d] < m
    BY <1>2, <1>3, <1>4
  <2>2. k.usage[d] \in 0..(k.active - 1) /\ s[k.usage[d] + 1] = d
    BY <2>1, <1>1
  <2>3. k.usage[d] + 1 \in 1..m
    BY <2>1, <2>2, <1>1, <1>2
  <2> QED BY <2>1, <2>2, <2>3, <1>5
<1>7. Listed(j) = p
  <2>1. Len(p) = j.active
    BY <1>3, <1>5
  <2> QED BY <1>4, <1>5, <1>6, <2>1, ListedIs
<1>8. InBlock(j) = {}
  BY <1>3, <1>4 DEF InBlock
<1>9. Touched(j) = 0
  BY <1>8, FS_EmptySet DEF Touched
<1> QED BY <1>7, <1>9 DEF j, p, s, m

\* An empty cache is the empty list.
LEMMA EmptyListed ==
  ASSUME NEW k, k.active = 0, k.usage = [c \in {} |-> 0]
  PROVE  Listed(k) = <<>> /\ Touched(k) = 0
<1>1. InBlock(k) = {}
  BY DEF InBlock, Cached
<1>2. Touched(k) = 0
  BY <1>1, FS_EmptySet DEF Touched
<1>3. Listed(k) = <<>>
  BY DEF Listed
<1> QED BY <1>2, <1>3

\* A pixel after which the cache would be k is a pixel of the abstract cache.
LEMMA PixelIsAfter ==
  ASSUME NEW k, Sound(k), Pixel(k), NEW list, list = Listed(k), NEW t, t = Touched(k)
  PROVE  Promise!After(list, t)
<1>1. ByRank' = Listed(cache') /\ Cardinality(InBlock(cache))' = Touched(cache')
  BY DEF ByRank, Listed, Touched
<1>2. CASE cache' = k
  <2>1. ByRank' = list /\ Cardinality(InBlock(cache))' = t
    BY <1>1, <1>2
  <2> QED BY <2>1 DEF Promise!After
<1>3. CASE cache' = Pruned(k)
  <2>1. ByRank' = SubSeq(list, 1, t) /\ Cardinality(InBlock(cache))' = 0
    BY <1>1, <1>3, PrunedListed
  <2> QED BY <2>1 DEF Promise!After
<1> QED BY <1>2, <1>3 DEF Pixel

LEMMA HitIsAgain ==
  ASSUME Sound(cache), UseCached PROVE Promise!Again
<1>1. PICK c \in Cached(cache) : Pixel(Found(cache, c))
  BY DEF UseCached
<1> DEFINE i == cache.usage[c] + 1
           s == ByRank
           t == Cardinality(InBlock(cache))
<1>2. s = Listed(cache) /\ t = Touched(cache)
  BY DEF ByRank, Listed, Touched
<1>3. s[i] = c /\ i \in DOMAIN s
  BY <1>2, ListedAt
<1>4. Listed(Found(cache, c)) = <<s[i]>> \o Promise!RemoveAt(s, i)
  BY <1>2, <1>3, FoundListed DEF Without, Promise!RemoveAt
<1>5. Touched(Found(cache, c)) = IF i > t THEN t + 1 ELSE t
  BY <1>2, FoundTouched
<1>6. Promise!After(<<s[i]>> \o Promise!RemoveAt(s, i), IF i > t THEN t + 1 ELSE t)
  BY <1>1, <1>4, <1>5, FoundSound, PixelIsAfter
<1> QED BY <1>3, <1>6 DEF Promise!Again

LEMMA MissIsNew ==
  ASSUME Sound(cache), UseNew PROVE Promise!New
<1>0. PICK c \in Colors \ Cached(cache) : \E k \in Inserted(cache, c) : Pixel(k)
  BY DEF UseNew
<1>1. PICK k \in Inserted(cache, c) : Pixel(k)
  BY <1>0
<1> DEFINE s == ByRank
           t == Cardinality(InBlock(cache))
           list == SubSeq(<<c>> \o s, 1, Promise!Lower(Slots, Len(s) + 1))
           u == Promise!Lower(Slots, t + 1)
<1>2. s = Listed(cache) /\ t = Touched(cache)
  BY DEF ByRank, Listed, Touched
<1>3. /\ s \in Seq(Colors) /\ Len(s) = cache.active /\ cache.active \in Nat
      /\ \A i \in 1..cache.active : s[i] \in Cached(cache)
      /\ t \in 0..cache.active /\ Slots \in Nat /\ cache.active <= Slots
  <2> HIDE DEF s, t
  <2>1. /\ s \in Seq(Colors) /\ Len(s) = cache.active /\ cache.active \in Nat
        /\ \A i \in 1..cache.active : s[i] \in Cached(cache)
    BY <1>2, ListedAt
  <2>2. t \in 0..cache.active
    BY <1>2, TouchedFirst
  <2>3. Slots \in Nat /\ cache.active <= Slots
    BY <2>1, SlotsAssumption DEF Sound
  <2> QED BY <2>1, <2>2, <2>3
<1>4. c \notin Promise!Range(s)
  BY <1>3 DEF Promise!Range
<1>5. list = Listed(k) /\ u = Touched(k)
  <2>1. CASE cache.active < Slots
    <3>1. k = Appended(cache, c)
      BY <1>1, <2>1 DEF Inserted
    <3>2. Promise!Lower(Slots, Len(s) + 1) = Len(s) + 1 /\ u = t + 1
      BY <1>3, <2>1 DEF Promise!Lower
    <3>3. SubSeq(<<c>> \o s, 1, Len(s) + 1) = <<c>> \o s
      BY <1>3, <1>1, PushedWhole
    <3>4. Listed(k) = <<c>> \o s /\ Touched(k) = t + 1
      BY <1>2, <2>1, <3>1, AppendedListed, AppendedTouched
    <3> QED BY <3>2, <3>3, <3>4
  <2>2. CASE ~(cache.active < Slots)
    <3>1. PICK old \in Ranked(cache, cache.active - 1) : k = Replaced(cache, c, old)
      BY <1>1, <2>2 DEF Inserted
    <3>2. Promise!Lower(Slots, Len(s) + 1) = cache.active /\ cache.active = Slots
          /\ u = IF t = Slots THEN Slots ELSE t + 1
      BY <1>3, <2>2 DEF Promise!Lower
    <3>3. Listed(k) = SubSeq(<<c>> \o s, 1, cache.active)
      BY <1>2, <2>2, <3>1, ReplacedListed
    <3>4. Touched(k) = IF t = Slots THEN Slots ELSE t + 1
      BY <1>2, <2>2, <3>1, ReplacedTouched
    <3> QED BY <3>2, <3>3, <3>4
  <2> QED BY <2>1, <2>2
<1>6. Promise!After(list, u)
  <2>1. Sound(k)
    BY <1>1, InsertedSound
  <2> HIDE DEF list, u
  <2> QED BY <1>1, <1>5, <2>1, PixelIsAfter
<1> QED BY <1>1, <1>4, <1>6 DEF Promise!New

LEMMA ClearIsForget ==
  ASSUME Clear PROVE Promise!Forget
<1> DEFINE k == Cleared(cache)
<1>1. k.active = 0 /\ k.usage = [c \in {} |-> 0]
  BY DEF Cleared
<1>2. cache' = k
  BY DEF Clear
<1> HIDE DEF k
<1>3. ByRank' = Listed(cache') /\ Cardinality(InBlock(cache))' = Touched(cache')
  BY DEF ByRank, Listed, Touched
<1>4. ByRank' = <<>> /\ Cardinality(InBlock(cache))' = 0
  BY <1>1, <1>2, <1>3, EmptyListed
<1> QED BY <1>4 DEF Promise!Forget

\* The ranks of the code are a bounded most-recently-used list: a hit moves a colour
\* to the front, a new one pushes out the oldest, the end of a block forgets exactly
\* what it did not use (cache_lru, cache_find, cache_prune, cache_reset).
THEOREM RanksAreRecency == CacheSpec => IsRecentColors
<1>1. CacheInit => Promise!Init
  <2> SUFFICES ASSUME CacheInit PROVE Promise!Init
    OBVIOUS
  <2>1. PICK fan \in Pixcodes \cup {"PIXCODE"} : cache = NewCache(fan)
    BY DEF CacheInit
  <2>2. cache.active = 0 /\ cache.usage = [c \in {} |-> 0]
    BY <2>1 DEF NewCache
  <2>3. ByRank = Listed(cache) /\ Cardinality(InBlock(cache)) = Touched(cache)
    BY DEF ByRank, Listed, Touched
  <2>4. ByRank = <<>> /\ Cardinality(InBlock(cache)) = 0
    BY <2>2, <2>3, EmptyListed
  <2> QED BY <2>4 DEF Promise!Init
<1>2. Sound(cache) /\ [CacheNext]_cache
      => [Promise!Again \/ Promise!New \/ Promise!Forget]_<<ByRank, Cardinality(InBlock(cache))>>
  <2> SUFFICES ASSUME Sound(cache), [CacheNext]_cache
               PROVE  \/ Promise!Again \/ Promise!New \/ Promise!Forget
                      \/ UNCHANGED <<ByRank, Cardinality(InBlock(cache))>>
    OBVIOUS
  <2>1. CASE cache' = cache
    BY <2>1 DEF ByRank, InBlock, Cached
  <2> QED BY <2>1, HitIsAgain, MissIsNew, ClearIsForget DEF CacheNext
<1> QED BY <1>1, <1>2, AlwaysSound, PTL DEF CacheSpec, IsRecentColors, Promise!Spec
=============================================================================
