------------------------- MODULE BatchPipelineProofs -------------------------
(***************************************************************************)
(* Proofs about BatchPipeline.  BatchAgrees is inductive; what it needs    *)
(* are facts about the recursion over sequences in FlattenSeq, proved by   *)
(* a least counterexample, about round-robin parts and contiguous chunks,  *)
(* and a count of the rows that a backend's mistake can hide.              *)
(***************************************************************************)
EXTENDS BatchPipeline, TLAPS, FiniteSetTheorems, SequenceTheorems, WellFoundedInduction

(***************************************************************************)
(* Numbers                                                                 *)
(***************************************************************************)

(* A set of naturals that is not empty has a least element.                *)
LEMMA LeastExists ==
    ASSUME NEW S \in SUBSET Nat, S # {}
    PROVE  \E v \in S : \A w \in S : v <= w
<1>1. PICK v \in S : \A w \in S : ~ (<<w, v>> \in OpToRel(<, Nat))
  BY WFMin, NatLessThanWellFounded, Zenon
<1>2. \A w \in S : w \in Nat /\ v \in Nat
  OBVIOUS
<1>3. \A w \in S : ~ (w < v)
  BY <1>1, <1>2, Zenon DEF OpToRel
<1>4. QED
  BY <1>2, <1>3

(* What holds of 1, and of n + 1 when it holds of n, holds up to N.        *)
LEMMA Climb ==
    ASSUME NEW N \in Nat, NEW G, 1 \in G, \A n \in 1 .. N - 1 : n \in G => n + 1 \in G
    PROVE  \A n \in 1 .. N : n \in G
<1> DEFINE Bad == {n \in 1 .. N : n \notin G}
<1>1. SUFFICES ASSUME Bad # {} PROVE FALSE
  BY Zenon
<1>2. Bad \in SUBSET Nat
  OBVIOUS
<1>3. PICK v \in Bad : \A w \in Bad : v <= w
  BY <1>1, <1>2, LeastExists
<1>4. v \in 1 .. N /\ v \notin G /\ v # 1
  BY <1>3
<1>5. v - 1 \in 1 .. N - 1 /\ v - 1 \in 1 .. N
  BY <1>4
<1>6. v - 1 \in G
  <2>1. ~ (v <= v - 1)
    BY <1>4
  <2>2. v - 1 \notin Bad
    BY <1>3, <2>1, Zenon
  <2>3. QED
    BY <1>5, <2>2
<1>7. (v - 1) + 1 \in G /\ (v - 1) + 1 = v
  BY <1>4, <1>5, <1>6
<1>8. QED
  BY <1>4, <1>7

(* A bounded set of integers that is not empty has a greatest element, and *)
(* Max is that element.                                                    *)
LEMMA MaxIs ==
    ASSUME NEW S \in SUBSET Nat, NEW b \in Nat, S # {}, \A v \in S : v <= b
    PROVE  Max(S) \in S /\ \A v \in S : v <= Max(S)
<1> DEFINE T == {b - v : v \in S}
<1>1. T \in SUBSET Nat /\ T # {}
  <2>1. \A v \in S : b - v \in Nat
    OBVIOUS
  <2>2. QED
    BY <2>1
<1>2. PICK d \in T : \A e \in T : d <= e
  BY <1>1, LeastExists
<1>3. PICK m \in S : d = b - m
  OBVIOUS
<1>4. \A v \in S : m >= v
  <2> TAKE v \in S
  <2>1. b - v \in T
    OBVIOUS
  <2>2. b - m <= b - v
    BY <1>2, <1>3, <2>1
  <2>3. m \in Nat /\ v \in Nat
    OBVIOUS
  <2>4. QED
    BY <2>2, <2>3
<1>5. \E x \in S : \A y \in S : x >= y
  BY <1>4, Zenon
<1>6. Max(S) \in S /\ \A y \in S : Max(S) >= y
  BY <1>5, Zenon DEF Max
<1>7. \A y \in S : y \in Nat /\ Max(S) \in Nat
  BY <1>6
<1>8. QED
  BY <1>6, <1>7

LEMMA Quotient ==
    ASSUME NEW a \in Int, NEW c \in Nat \ {0}, NEW q \in Int, NEW r \in 0 .. c - 1, a = q * c + r
    PROVE  a \div c = q /\ a % c = r
  OBVIOUS

(* What a quotient and a remainder are.                                    *)
LEMMA Division ==
    ASSUME NEW a \in Nat, NEW c \in Nat \ {0}
    PROVE  /\ a \div c \in Nat
           /\ a % c \in 0 .. c - 1
           /\ a = (a \div c) * c + (a % c)
<1>1. a \div c \in Int /\ a % c \in 0 .. c - 1 /\ a = (a \div c) * c + (a % c)
  BY SMT
<1>2. a \div c >= 0
  <2>1. SUFFICES ASSUME a \div c <= -1 PROVE FALSE
    BY <1>1
  <2>2. (a \div c) * c <= (-1) * c
    BY <1>1, <2>1
  <2>3. QED
    BY <1>1, <2>2
<1>3. QED
  BY <1>1, <1>2

LEMMA Monotone ==
    ASSUME NEW a \in Int, NEW b \in Int, NEW c \in Nat, a <= b
    PROVE  a * c <= b * c
  OBVIOUS

(* The parts of a number in one base are its own.                          *)
LEMMA OneDivision ==
    ASSUME NEW c \in Nat \ {0}, NEW q \in Int, NEW u \in Int, NEW r \in 1 .. c, NEW s \in 1 .. c,
           q * c + r = u * c + s
    PROVE  q = u /\ r = s
<1>1. r - 1 \in 0 .. c - 1 /\ s - 1 \in 0 .. c - 1 /\ q * c \in Int /\ u * c \in Int
  OBVIOUS
<1>2. q * c + (r - 1) = u * c + (s - 1)
  BY <1>1
<1>3. PICK a \in Int : a = q * c + (r - 1) /\ a = u * c + (s - 1)
  BY <1>1, <1>2
<1>4. a \div c = q /\ a % c = r - 1
  BY <1>1, <1>3, Quotient
<1>6. a \div c = u /\ a % c = s - 1
  BY <1>1, <1>3, Quotient
<1>5. QED
  BY <1>4, <1>6

(* The ceiling of a division.                                              *)
LEMMA Ceiling ==
    ASSUME NEW a \in Nat \ {0}, NEW b \in Nat \ {0}
    PROVE  /\ CeilDiv(a, b) \in Nat \ {0}
           /\ a <= CeilDiv(a, b) * b
           /\ (CeilDiv(a, b) - 1) * b < a
<1>1. PICK n \in Nat : n = a + b - 1 /\ n >= b
  OBVIOUS
<1>2. PICK q \in Nat : q = n \div b
  BY Division
<1>3. PICK r \in 0 .. b - 1 : n = q * b + r
  BY <1>2, Division
<1>4. q * b \in Int /\ (q - 1) * b = q * b - b
  OBVIOUS
<1>5. q # 0
  <2>1. SUFFICES ASSUME q = 0 PROVE FALSE
    OBVIOUS
  <2>2. n = r
    BY <1>3, <2>1
  <2>3. QED
    BY <1>1, <2>2
<1>6. CeilDiv(a, b) = q
  BY <1>1, <1>2 DEF CeilDiv
<1>7. QED
  BY <1>1, <1>3, <1>4, <1>5, <1>6

(***************************************************************************)
(* FlattenSeq                                                              *)
(***************************************************************************)

\* s lays out the elements of R[1] .. R[n], each at one position: position x
\* holds element pl[x] of R[th[x]].
Laid(R, n, s, th, pl) ==
    /\ \A x \in 1 .. Len(s) :
         th[x] \in 1 .. n /\ pl[x] \in 1 .. Len(R[th[x]]) /\ s[x] = R[th[x]][pl[x]]
    /\ \A x, y \in 1 .. Len(s) : th[x] = th[y] /\ pl[x] = pl[y] => x = y
    /\ \A t \in 1 .. n : \A j \in 1 .. Len(R[t]) :
         \E x \in 1 .. Len(s) : th[x] = t /\ pl[x] = j

(* One more sequence is appended.                                          *)
LEMMA LaidNext ==
    ASSUME NEW X, NEW R \in Seq(Seq(X)), NEW n \in Nat, n + 1 \in 1 .. Len(R),
           NEW s \in Seq(X), NEW th, NEW pl, Laid(R, n, s, th, pl)
    PROVE  \E th2, pl2 : Laid(R, n + 1, s \o R[n + 1], th2, pl2)
<1> DEFINE r == R[n + 1]
           u == s \o r
           th2 == [x \in 1 .. Len(u) |-> IF x <= Len(s) THEN th[x] ELSE n + 1]
           pl2 == [x \in 1 .. Len(u) |-> IF x <= Len(s) THEN pl[x] ELSE x - Len(s)]
<1>1. r \in Seq(X)
  BY ElementOfSeq
<1>2. Len(s) \in Nat /\ Len(r) \in Nat /\ Len(u) = Len(s) + Len(r) /\ u \in Seq(X)
  BY <1>1, LenProperties, ConcatProperties
<1>3. \A x \in 1 .. Len(u) : u[x] = IF x <= Len(s) THEN s[x] ELSE r[x - Len(s)]
  BY <1>1, <1>2, ConcatProperties
<1>4. \A x \in 1 .. Len(u) :
        /\ x <= Len(s) => x \in 1 .. Len(s) /\ th2[x] = th[x] /\ pl2[x] = pl[x] /\ u[x] = s[x]
        /\ ~ (x <= Len(s)) => /\ x - Len(s) \in 1 .. Len(r) /\ th2[x] = n + 1
                              /\ pl2[x] = x - Len(s) /\ u[x] = r[x - Len(s)]
  BY <1>2, <1>3
<1>5. \A x \in 1 .. Len(s) : x \in 1 .. Len(u) /\ x <= Len(s)
  BY <1>2
<1> HIDE DEF th2, pl2, u
<1>6. \A x \in 1 .. Len(u) :
        th2[x] \in 1 .. n + 1 /\ pl2[x] \in 1 .. Len(R[th2[x]]) /\ u[x] = R[th2[x]][pl2[x]]
  <2> TAKE x \in 1 .. Len(u)
  <2>1. CASE x <= Len(s)
    <3>1. th[x] \in 1 .. n /\ pl[x] \in 1 .. Len(R[th[x]]) /\ s[x] = R[th[x]][pl[x]]
      BY <1>4, <2>1 DEF Laid
    <3>2. th[x] \in 1 .. n + 1
      BY <3>1
    <3>3. QED
      BY <1>4, <2>1, <3>1, <3>2
  <2>2. CASE ~ (x <= Len(s))
    BY <1>4, <2>2
  <2>3. QED
    BY <2>1, <2>2
<1>7. \A x, y \in 1 .. Len(u) : th2[x] = th2[y] /\ pl2[x] = pl2[y] => x = y
  <2> SUFFICES ASSUME NEW x \in 1 .. Len(u), NEW y \in 1 .. Len(u), th2[x] = th2[y], pl2[x] = pl2[y]
               PROVE  x = y
    OBVIOUS
  <2>1. \A z \in 1 .. Len(s) : th[z] \in 1 .. n /\ th[z] # n + 1
    BY DEF Laid
  <2>2. CASE x <= Len(s) /\ y <= Len(s)
    BY <1>4, <2>2 DEF Laid
  <2>3. CASE ~ (x <= Len(s)) /\ ~ (y <= Len(s))
    <3>1. pl2[x] = x - Len(s) /\ pl2[y] = y - Len(s)
      BY <1>4, <2>3
    <3>2. x - Len(s) = y - Len(s)
      BY <3>1
    <3>3. QED
      BY <1>2, <3>2
  <2>4. CASE x <= Len(s) /\ ~ (y <= Len(s))
    BY <1>4, <2>1, <2>4
  <2>5. CASE ~ (x <= Len(s)) /\ y <= Len(s)
    BY <1>4, <2>1, <2>5
  <2>6. QED
    BY <2>2, <2>3, <2>4, <2>5
<1>8. \A t \in 1 .. n + 1 : \A j \in 1 .. Len(R[t]) : \E x \in 1 .. Len(u) : th2[x] = t /\ pl2[x] = j
  <2> TAKE t \in 1 .. n + 1
  <2> TAKE j \in 1 .. Len(R[t])
  <2>1. CASE t = n + 1
    <3>1. j \in 1 .. Len(r)
      BY <2>1
    <3>2. j + Len(s) \in 1 .. Len(u) /\ ~ (j + Len(s) <= Len(s)) /\ (j + Len(s)) - Len(s) = j
      BY <1>2, <3>1
    <3>3. QED
      BY <1>4, <2>1, <3>2
  <2>2. CASE t # n + 1
    <3>1. t \in 1 .. n
      BY <2>2
    <3>2. PICK x \in 1 .. Len(s) : th[x] = t /\ pl[x] = j
      BY <3>1 DEF Laid
    <3>3. QED
      BY <1>4, <1>5, <3>2
  <2>3. QED
    BY <2>1, <2>2
<1>9. Laid(R, n + 1, u, th2, pl2)
  BY <1>6, <1>7, <1>8 DEF Laid
<1>10. QED
  BY <1>9 DEF u

\* The function the LET of FlattenSeq declares.
Flattens(f, R, n) == f = [i \in 1 .. n |-> IF i = 1 THEN R[i] ELSE f[i - 1] \o R[i]]

LEMMA FlattensExists ==
    ASSUME NEW R, NEW N \in Nat, N >= 1
    PROVE  \E f : Flattens(f, R, N)
<1> DEFINE G == {n \in 1 .. N : \E f : Flattens(f, R, n)}
<1>1. 1 \in G
  <2>1. [i \in 1 .. 1 |-> R[1]] = [i \in 1 .. 1 |-> IF i = 1 THEN R[i] ELSE [j \in 1 .. 1 |-> R[1]][i - 1] \o R[i]]
    OBVIOUS
  <2>2. Flattens([i \in 1 .. 1 |-> R[1]], R, 1)
    BY <2>1 DEF Flattens
  <2>3. QED
    BY <2>2
<1>2. ASSUME NEW n \in 1 .. N - 1, n \in G
      PROVE  n + 1 \in G
  <2>1. PICK f : Flattens(f, R, n)
    BY <1>2
  <2> DEFINE h == [i \in 1 .. n + 1 |-> IF i <= n THEN f[i] ELSE f[n] \o R[n + 1]]
  <2>2. \A i \in 1 .. n : f[i] = IF i = 1 THEN R[i] ELSE f[i - 1] \o R[i]
    BY <2>1 DEF Flattens
  <2>3. \A i \in 1 .. n + 1 : h[i] = IF i = 1 THEN R[i] ELSE h[i - 1] \o R[i]
    <3> TAKE i \in 1 .. n + 1
    <3>1. CASE i = n + 1
      <4>1. i # 1 /\ ~ (i <= n) /\ i - 1 = n /\ n \in 1 .. n + 1 /\ n <= n
        BY <3>1
      <4>2. h[i] = f[n] \o R[n + 1] /\ h[n] = f[n]
        BY <4>1
      <4>3. QED
        BY <3>1, <4>1, <4>2
    <3>2. CASE i # n + 1
      <4>1. i \in 1 .. n /\ i <= n
        BY <3>2
      <4>2. h[i] = f[i]
        BY <4>1
      <4>3. CASE i = 1
        BY <2>2, <4>1, <4>2, <4>3
      <4>4. CASE i # 1
        <5>1. i - 1 \in 1 .. n + 1 /\ i - 1 <= n
          BY <4>1, <4>4
        <5>2. h[i - 1] = f[i - 1]
          BY <5>1
        <5>3. QED
          BY <2>2, <4>1, <4>2, <4>4, <5>2
      <4>5. QED
        BY <4>3, <4>4
    <3>3. QED
      BY <3>1, <3>2
  <2>4. h = [i \in 1 .. n + 1 |-> h[i]]
    OBVIOUS
  <2> HIDE DEF h
  <2>5. h = [i \in 1 .. n + 1 |-> IF i = 1 THEN R[i] ELSE h[i - 1] \o R[i]]
    BY <2>3, <2>4
  <2>6. Flattens(h, R, n + 1)
    BY <2>5 DEF Flattens
  <2>7. n + 1 \in 1 .. N
    OBVIOUS
  <2>8. QED
    BY <2>6, <2>7
<1> HIDE DEF G
<1>3. \A n \in 1 .. N : n \in G
  BY <1>1, <1>2, Climb
<1>4. N \in G
  BY <1>3
<1>5. QED
  BY <1>4 DEF G

(* What FlattenSeq returns: every element of every sequence, once each.    *)
LEMMA FlattenIs ==
    ASSUME NEW X, NEW R \in Seq(Seq(X))
    PROVE  /\ FlattenSeq(R) \in Seq(X)
           /\ \E th, pl : Laid(R, Len(R), FlattenSeq(R), th, pl)
<1> DEFINE N == Len(R)
<1>1. N \in Nat /\ \A t \in 1 .. N : R[t] \in Seq(X)
  BY LenProperties, ElementOfSeq
<1>2. CASE N = 0
  <2>1. R = << >> /\ FlattenSeq(R) = << >>
    BY <1>2, EmptySeq DEF FlattenSeq
  <2>2. Laid(R, 0, << >>, << >>, << >>)
    BY EmptySeq DEF Laid
  <2>3. << >> \in Seq(X)
    BY EmptySeq
  <2>4. QED
    BY <1>2, <2>1, <2>2, <2>3
<1>3. CASE N # 0
  <2>1. N >= 1
    BY <1>1, <1>3
  <2>2. PICK f : f = CHOOSE g : Flattens(g, R, N)
    OBVIOUS
  <2>3. Flattens(f, R, N)
    BY <1>1, <2>1, <2>2, FlattensExists
  <2>4. FlattenSeq(R) = f[N]
    BY <1>3, <2>2 DEF FlattenSeq, Flattens
  <2>5. \A i \in 1 .. N : f[i] = IF i = 1 THEN R[i] ELSE f[i - 1] \o R[i]
    BY <2>3 DEF Flattens
  <2> DEFINE G == {n \in 1 .. N : f[n] \in Seq(X) /\ \E th, pl : Laid(R, n, f[n], th, pl)}
  <2>6. 1 \in G
    <3>1. 1 \in 1 .. N /\ f[1] = R[1] /\ R[1] \in Seq(X)
      BY <1>1, <2>1, <2>5
    <3>2. Len(R[1]) \in Nat
      BY <3>1, LenProperties
    <3>3. Laid(R, 1, R[1], [x \in 1 .. Len(R[1]) |-> 1], [x \in 1 .. Len(R[1]) |-> x])
      BY <3>2 DEF Laid
    <3>4. QED
      BY <3>1, <3>3
  <2>7. ASSUME NEW n \in 1 .. N - 1, n \in G
        PROVE  n + 1 \in G
    <3>1. n + 1 \in 1 .. N /\ n + 1 # 1 /\ (n + 1) - 1 = n /\ n \in Nat
      BY <1>1
    <3>2. f[n + 1] = f[n] \o R[n + 1] /\ R[n + 1] \in Seq(X)
      BY <1>1, <2>5, <3>1
    <3>3. f[n] \in Seq(X) /\ \E th, pl : Laid(R, n, f[n], th, pl)
      BY <2>7
    <3>4. f[n + 1] \in Seq(X)
      BY <3>2, <3>3, ConcatProperties
    <3>5. PICK th, pl : Laid(R, n, f[n], th, pl)
      BY <3>3
    <3>6. \E th2, pl2 : Laid(R, n + 1, f[n] \o R[n + 1], th2, pl2)
      BY <3>1, <3>3, <3>5, LaidNext
    <3>7. QED
      BY <3>1, <3>2, <3>4, <3>6
  <2> HIDE DEF G
  <2>8. \A n \in 1 .. N : n \in G
    BY <1>1, <2>6, <2>7, Climb
  <2>9. N \in G
    BY <1>1, <2>1, <2>8
  <2>10. QED
    BY <2>4, <2>9 DEF G
<1>4. QED
  BY <1>2, <1>3

(***************************************************************************)
(* Requests, parts and samples                                             *)
(***************************************************************************)

LEMMA Bounds ==
    /\ PromptsPerIteration \in Nat \ {0} /\ SamplesPerPrompt \in Nat \ {0}
    /\ RolloutWorkers \in Nat \ {0} /\ RewardWorkers \in Nat \ {0} /\ MaxAttempts \in Nat \ {0}
    /\ MaxBatches \in Nat /\ MaxFaults \in Nat /\ MaxWrongChunks \in Nat
    /\ MaxBatches * PromptsPerIteration \in Nat
    /\ Foreign \in Int /\ Foreign \notin PromptIds /\ Foreign \notin Nat
<1>1. MaxBatches * PromptsPerIteration \in Nat
  BY BatchAssumption
<1>2. QED
  BY <1>1, BatchAssumption DEF Foreign, PromptIds

(* What a sequence without its i-th element is.                            *)
LEMMA RemoveIs ==
    ASSUME NEW X, NEW s \in Seq(X), NEW i \in 1 .. Len(s)
    PROVE  /\ RemoveAt(s, i) \in Seq(X)
           /\ Len(RemoveAt(s, i)) = Len(s) - 1
           /\ \A j \in 1 .. Len(s) - 1 : RemoveAt(s, i)[j] = IF j < i THEN s[j] ELSE s[j + 1]
<1>1. Len(s) \in Nat /\ \A j \in 1 .. Len(s) : s[j] \in X
  BY LenProperties, ElementOfSeq
<1> DEFINE a == SubSeq(s, 1, i - 1)
           b == SubSeq(s, i + 1, Len(s))
<1>2. a \in Seq(X) /\ Len(a) = i - 1 /\ \A j \in 1 .. i - 1 : a[j] = s[j]
  <2>1. i - 1 \in Int /\ 1 \in Int /\ \A j \in 1 .. i - 1 : s[j] \in X
    BY <1>1
  <2>2. /\ a \in Seq(X) /\ Len(a) = IF 1 <= i - 1 THEN i - 1 - 1 + 1 ELSE 0
        /\ \A j \in 1 .. i - 1 - 1 + 1 : a[j] = s[1 + j - 1]
    BY <2>1, SubSeqProperties
  <2>3. QED
    BY <1>1, <2>2
<1>3. b \in Seq(X) /\ Len(b) = Len(s) - i /\ \A j \in 1 .. Len(s) - i : b[j] = s[i + j]
  <2>1. i + 1 \in Int /\ Len(s) \in Int /\ \A j \in i + 1 .. Len(s) : s[j] \in X
    BY <1>1
  <2>2. /\ b \in Seq(X) /\ Len(b) = IF i + 1 <= Len(s) THEN Len(s) - (i + 1) + 1 ELSE 0
        /\ \A j \in 1 .. Len(s) - (i + 1) + 1 : b[j] = s[(i + 1) + j - 1]
    BY <2>1, SubSeqProperties
  <2>3. QED
    BY <1>1, <2>2
<1> HIDE DEF a, b
<1>4. /\ a \o b \in Seq(X) /\ Len(a \o b) = Len(a) + Len(b)
      /\ \A j \in 1 .. Len(a) + Len(b) : (a \o b)[j] = IF j <= Len(a) THEN a[j] ELSE b[j - Len(a)]
  BY <1>2, <1>3, ConcatProperties
<1>5. Len(a \o b) = Len(s) - 1
  BY <1>1, <1>2, <1>3, <1>4
<1>6. \A j \in 1 .. Len(s) - 1 : (a \o b)[j] = IF j < i THEN s[j] ELSE s[j + 1]
  <2> TAKE j \in 1 .. Len(s) - 1
  <2>1. (a \o b)[j] = IF j <= i - 1 THEN a[j] ELSE b[j - (i - 1)]
    BY <1>1, <1>2, <1>3, <1>4
  <2>2. CASE j < i
    BY <1>1, <1>2, <2>1, <2>2
  <2>3. CASE ~ (j < i)
    <3>1. ~ (j <= i - 1) /\ j - (i - 1) \in 1 .. Len(s) - i /\ i + (j - (i - 1)) = j + 1
      BY <1>1, <2>3
    <3>2. b[j - (i - 1)] = s[j + 1]
      BY <1>3, <3>1
    <3>3. QED
      BY <2>1, <2>3, <3>1, <3>2
  <2>4. QED
    BY <2>2, <2>3
<1>7. RemoveAt(s, i) = a \o b
  BY DEF RemoveAt, a, b
<1>8. QED
  BY <1>4, <1>5, <1>6, <1>7

\* The prompts of this iteration are the ones that were drawn last.
Asked ==
    /\ drawn \in PromptsPerIteration .. MaxBatches * PromptsPerIteration
    /\ requests = [i \in 1 .. PromptsPerIteration |-> drawn - PromptsPerIteration + i - 1]

(* Every request names a prompt of its own.                                *)
LEMMA RequestsAre ==
    ASSUME Asked
    PROVE  /\ requests \in Seq(PromptIds) /\ Len(requests) = PromptsPerIteration
           /\ DOMAIN requests = 1 .. PromptsPerIteration
           /\ \A i \in 1 .. PromptsPerIteration : requests[i] \in PromptIds /\ requests[i] \in Nat
           /\ \A i, j \in 1 .. PromptsPerIteration : requests[i] = requests[j] => i = j
           /\ 0 \in PromptIds
<1> DEFINE P == PromptsPerIteration
           M == MaxBatches * PromptsPerIteration
<1>1. P \in Nat \ {0} /\ M \in Nat /\ drawn \in P .. M /\ PromptIds = 0 .. M - 1
  BY Bounds DEF Asked, PromptIds
<1>2. requests = [i \in 1 .. P |-> drawn - P + i - 1]
  BY DEF Asked
<1> HIDE DEF P, M
<1>3. \A i \in 1 .. P : requests[i] = drawn - P + i - 1 /\ requests[i] \in PromptIds /\ requests[i] \in Nat
  BY <1>1, <1>2
<1>4. requests \in [1 .. P -> PromptIds] /\ DOMAIN requests = 1 .. P
  BY <1>2, <1>3
<1>5. requests \in Seq(PromptIds) /\ Len(requests) = P
  BY <1>1, <1>4, SeqDef, LenProperties
<1>6. \A i, j \in 1 .. P : requests[i] = requests[j] => i = j
  BY <1>1, <1>3
<1>7. 0 \in PromptIds
  BY <1>1
<1>8. QED
  BY <1>3, <1>4, <1>5, <1>6, <1>7 DEF P

(* The j-th prompt of a part is a request, and a part is not empty.        *)
LEMMA PartIs ==
    ASSUME Asked, NEW p \in 1 .. PartCount
    PROVE  /\ Part(p) \in Seq(PromptIds) /\ Len(Part(p)) \in Nat \ {0}
           /\ p \in 1 .. RolloutWorkers /\ p \in 1 .. PromptsPerIteration
           /\ Len(Part(p)) = (PromptsPerIteration - p) \div RolloutWorkers + 1
           /\ \A j \in 1 .. Len(Part(p)) :
                /\ (j - 1) * RolloutWorkers + p \in 1 .. PromptsPerIteration
                /\ Part(p)[j] = requests[(j - 1) * RolloutWorkers + p]
<1> DEFINE P == PromptsPerIteration
           W == RolloutWorkers
<1>1. P \in Nat \ {0} /\ W \in Nat \ {0} /\ Len(requests) = P
  BY Bounds, RequestsAre
<1>2. p \in 1 .. W /\ p \in 1 .. P
  BY <1>1 DEF PartCount
<1>3. PICK n \in Nat : n = P - p
  BY <1>1, <1>2
<1>4. PICK q \in Nat : q = n \div W
  BY <1>1, Division
<1>5. PICK r \in 0 .. W - 1 : n = q * W + r
  BY <1>1, <1>4, Division
<1>6. Part(p) = [j \in 1 .. q + 1 |-> requests[(j - 1) * W + p]]
  BY <1>1, <1>3, <1>4 DEF Part
<1>7. \A j \in 1 .. q + 1 : (j - 1) * W + p \in 1 .. P
  <2> TAKE j \in 1 .. q + 1
  <2>1. (j - 1) * W <= q * W /\ 0 * W <= (j - 1) * W
    BY <1>1, <1>4, Monotone
  <2>2. PICK m \in Int : m = (j - 1) * W
    BY <1>1
  <2>3. PICK o \in Int : o = q * W
    BY <1>1
  <2>4. 0 <= m /\ m <= o
    BY <1>1, <2>1, <2>2, <2>3
  <2>5. o <= P - p
    BY <1>1, <1>2, <1>3, <1>5, <2>3
  <2>6. QED
    BY <1>1, <1>2, <2>2, <2>4, <2>5
<1>8. \A j \in 1 .. q + 1 : requests[(j - 1) * W + p] \in PromptIds
  BY <1>7, RequestsAre
<1> HIDE DEF P, W
<1>9. Part(p) \in [1 .. q + 1 -> PromptIds]
  BY <1>6, <1>8
<1>10. Part(p) \in Seq(PromptIds) /\ Len(Part(p)) = q + 1
  BY <1>9, SeqDef, LenProperties
<1>11. Len(Part(p)) = (P - p) \div W + 1 /\ Len(Part(p)) \in Nat \ {0}
  BY <1>3, <1>4, <1>10
<1>12. \A j \in 1 .. Len(Part(p)) : (j - 1) * W + p \in 1 .. P /\ Part(p)[j] = requests[(j - 1) * W + p]
  BY <1>6, <1>7, <1>10
<1>13. QED
  BY <1>2, <1>10, <1>11, <1>12 DEF P, W

(* Every request is in a part.                                             *)
LEMMA PartsCover ==
    ASSUME Asked, NEW i \in 1 .. PromptsPerIteration
    PROVE  \E p \in 1 .. PartCount : \E j \in 1 .. Len(Part(p)) : Part(p)[j] = requests[i]
<1> DEFINE P == PromptsPerIteration
           W == RolloutWorkers
<1>1. P \in Nat \ {0} /\ W \in Nat \ {0} /\ Len(requests) = P
  BY Bounds, RequestsAre
<1>2. PICK q \in Nat, r \in 0 .. W - 1 : i - 1 = q * W + r
  <2>1. i - 1 \in Nat
    BY <1>1
  <2>2. QED
    BY <1>1, <2>1, Division
<1>3. PICK m \in Nat : m = q * W
  BY <1>1
<1>4. r + 1 \in 1 .. PartCount /\ i = m + (r + 1)
  BY <1>1, <1>2, <1>3 DEF PartCount
<1>5. PICK p : p = r + 1
  OBVIOUS
<1>6. p \in 1 .. PartCount /\ p \in 1 .. W /\ p \in 1 .. P /\ i = m + p
  BY <1>1, <1>2, <1>4, <1>5 DEF PartCount
<1>7. q + 1 <= (P - p) \div W + 1
  <2>1. PICK n \in Nat : n = P - p
    BY <1>1, <1>6
  <2>2. PICK d \in Nat : d = n \div W
    BY <1>1, Division
  <2>3. PICK e \in 0 .. W - 1 : n = d * W + e
    BY <1>1, <2>2, Division
  <2>4. m <= n
    BY <1>1, <1>6, <2>1
  <2>5. SUFFICES ASSUME d + 1 <= q PROVE FALSE
    BY <2>1, <2>2
  <2>6. (d + 1) * W <= q * W
    BY <1>1, <2>5, Monotone
  <2>7. (d + 1) * W = d * W + W /\ d * W \in Int
    BY <1>1
  <2>8. QED
    BY <1>1, <1>3, <2>3, <2>4, <2>6, <2>7
<1>8. q + 1 \in 1 .. Len(Part(p)) /\ (q + 1) - 1 = q
  BY <1>6, <1>7, PartIs
<1>9. Part(p)[q + 1] = requests[((q + 1) - 1) * W + p]
  BY <1>6, <1>8, PartIs
<1>10. ((q + 1) - 1) * W + p = i
  BY <1>3, <1>6, <1>8
<1>11. QED
  BY <1>6, <1>8, <1>9, <1>10

(* No request is in two parts, or twice in one.                            *)
LEMMA PartsAreDisjoint ==
    ASSUME Asked, NEW p \in 1 .. PartCount, NEW q \in 1 .. PartCount,
           NEW j \in 1 .. Len(Part(p)), NEW k \in 1 .. Len(Part(q)), Part(p)[j] = Part(q)[k]
    PROVE  p = q /\ j = k
<1> DEFINE W == RolloutWorkers
<1>1. W \in Nat \ {0} /\ p \in 1 .. W /\ q \in 1 .. W
  BY Bounds, PartIs
<1>2. /\ (j - 1) * W + p \in 1 .. PromptsPerIteration /\ Part(p)[j] = requests[(j - 1) * W + p]
      /\ (k - 1) * W + q \in 1 .. PromptsPerIteration /\ Part(q)[k] = requests[(k - 1) * W + q]
  BY PartIs
<1>3. (j - 1) * W + p = (k - 1) * W + q
  BY <1>2, RequestsAre
<1>4. j \in Int /\ k \in Int /\ j - 1 \in Int /\ k - 1 \in Int
  BY PartIs
<1>5. j - 1 = k - 1 /\ p = q
  BY <1>1, <1>3, <1>4, OneDivision
<1>6. QED
  BY <1>4, <1>5

\* A sample is a pair.
LEMMA SampleIs ==
    /\ \A s \in Sample : /\ s[1] \in PromptIds \cup {Foreign} /\ s[2] \in 1 .. SamplesPerPrompt
                         /\ s = <<s[1], s[2]>>
    /\ \A r \in PromptIds \cup {Foreign}, k \in 1 .. SamplesPerPrompt :
         <<r, k>> \in Sample /\ <<r, k>>[1] = r /\ <<r, k>>[2] = k
  BY DEF Sample

(* The samples of a part: the k-th of the j-th prompt has a place, and     *)
(* every place is that of one.                                             *)
LEMMA SamplesAre ==
    ASSUME NEW part \in Seq(PromptIds)
    PROVE  /\ Samples(part) \in Seq(Sample)
           /\ \A x \in 1 .. Len(Samples(part)) :
                \E j \in 1 .. Len(part), k \in 1 .. SamplesPerPrompt :
                   x = (j - 1) * SamplesPerPrompt + k /\ Samples(part)[x] = <<part[j], k>>
           /\ \A j \in 1 .. Len(part), k \in 1 .. SamplesPerPrompt :
                \E x \in 1 .. Len(Samples(part)) : Samples(part)[x] = <<part[j], k>>
<1> DEFINE S == SamplesPerPrompt
           N == Len(part)
           L == N * S
<1>1. S \in Nat \ {0} /\ N \in Nat /\ \A j \in 1 .. N : part[j] \in PromptIds
  BY Bounds, LenProperties, ElementOfSeq
<1>2. PICK l \in Nat : l = L
  BY <1>1
<1>3. Samples(part) = [x \in 1 .. l |-> <<part[(x - 1) \div S + 1], ((x - 1) % S) + 1>>]
  BY <1>2 DEF Samples
<1>4. \A x \in 1 .. l : \E j \in 1 .. N, k \in 1 .. S :
        x = (j - 1) * S + k /\ (x - 1) \div S + 1 = j /\ ((x - 1) % S) + 1 = k
  <2> TAKE x \in 1 .. l
  <2>1. PICK a \in Nat : a = x - 1
    BY <1>2
  <2>2. PICK q \in Nat, r \in 0 .. S - 1 : q = a \div S /\ r = a % S /\ a = q * S + r
    BY <1>1, <2>1, Division
  <2>3. q + 1 <= N
    <3>1. SUFFICES ASSUME N <= q PROVE FALSE
      BY <1>1
    <3>2. N * S <= q * S
      BY <1>1, <3>1, Monotone
    <3>3. PICK m \in Int : m = q * S
      BY <1>1
    <3>4. QED
      BY <1>1, <1>2, <2>1, <2>2, <3>2, <3>3
  <2>4. q + 1 \in 1 .. N /\ r + 1 \in 1 .. S /\ (q + 1) - 1 = q
    BY <1>1, <2>3
  <2>5. x = ((q + 1) - 1) * S + (r + 1)
    <3>1. PICK m \in Int : m = q * S
      BY <1>1
    <3>2. x = m + (r + 1)
      BY <1>1, <1>2, <2>1, <2>2, <3>1
    <3>3. QED
      BY <2>4, <3>1, <3>2
  <2>6. QED
    BY <2>1, <2>2, <2>4, <2>5
<1>5. \A j \in 1 .. N, k \in 1 .. S : \E x \in 1 .. l : (x - 1) \div S + 1 = j /\ ((x - 1) % S) + 1 = k
  <2> TAKE j \in 1 .. N, k \in 1 .. S
  <2>1. PICK m \in Int : m = (j - 1) * S
    BY <1>1
  <2>2. 0 * S <= (j - 1) * S /\ j * S <= N * S
    BY <1>1, Monotone
  <2>3. j * S = m + S /\ 0 <= m /\ m + S <= l
    <3>1. j * S = (j - 1) * S + S
      BY <1>1
    <3>2. 0 * S = 0
      BY <1>1
    <3>3. QED
      BY <1>2, <2>1, <2>2, <3>1, <3>2
  <2>4. PICK x \in 1 .. l : x = m + k
    BY <1>1, <1>2, <2>3
  <2>5. PICK a \in Int : a = x - 1
    BY <2>4
  <2>6. a = (j - 1) * S + (k - 1) /\ k - 1 \in 0 .. S - 1 /\ j - 1 \in Int
    BY <1>1, <2>1, <2>4, <2>5
  <2>7. a \div S = j - 1 /\ a % S = k - 1
    BY <1>1, <2>6, Quotient
  <2>8. QED
    BY <1>1, <2>5, <2>7
<1>6. \A x \in 1 .. l : Samples(part)[x] \in Sample
  <2> TAKE x \in 1 .. l
  <2>1. PICK j \in 1 .. N, k \in 1 .. S : (x - 1) \div S + 1 = j /\ ((x - 1) % S) + 1 = k
    BY <1>4
  <2>2. Samples(part)[x] = <<part[j], k>>
    BY <1>3, <2>1
  <2>3. QED
    BY <1>1, <2>2, SampleIs
<1>7. Samples(part) \in [1 .. l -> Sample]
  BY <1>3, <1>6
<1>8. Samples(part) \in Seq(Sample) /\ Len(Samples(part)) = l
  BY <1>7, SeqDef, LenProperties
<1>9. \A x \in 1 .. l : \E j \in 1 .. N, k \in 1 .. S : x = (j - 1) * S + k /\ Samples(part)[x] = <<part[j], k>>
  <2> TAKE x \in 1 .. l
  <2>1. PICK j \in 1 .. N, k \in 1 .. S :
          x = (j - 1) * S + k /\ (x - 1) \div S + 1 = j /\ ((x - 1) % S) + 1 = k
    BY <1>4
  <2>2. Samples(part)[x] = <<part[j], k>>
    BY <1>3, <2>1
  <2>3. QED
    BY <2>1, <2>2
<1>10. \A j \in 1 .. N, k \in 1 .. S : \E x \in 1 .. l : Samples(part)[x] = <<part[j], k>>
  <2> TAKE j \in 1 .. N, k \in 1 .. S
  <2>1. PICK x \in 1 .. l : (x - 1) \div S + 1 = j /\ ((x - 1) % S) + 1 = k
    BY <1>5
  <2>2. QED
    BY <1>3, <2>1
<1>11. QED
  BY <1>8, <1>9, <1>10

\* What the thread of part p is asked for.
Base(p) == Samples(Part(p))

(* The threads are asked for every sample of every prompt, for none twice, *)
(* and no two for samples of the same prompt.                              *)
LEMMA BaseIs ==
    ASSUME Asked
    PROVE  /\ \A p \in 1 .. PartCount :
                /\ Base(p) \in Seq(Sample)
                /\ \A x \in 1 .. Len(Base(p)) :
                     \E i \in 1 .. PromptsPerIteration : Base(p)[x][1] = requests[i]
                /\ \A x, y \in 1 .. Len(Base(p)) : Base(p)[x] = Base(p)[y] => x = y
           /\ \A p, q \in 1 .. PartCount : \A x \in 1 .. Len(Base(p)), y \in 1 .. Len(Base(q)) :
                Base(p)[x][1] = Base(q)[y][1] => p = q
           /\ \A i \in 1 .. PromptsPerIteration, k \in 1 .. SamplesPerPrompt :
                \E p \in 1 .. PartCount : \E x \in 1 .. Len(Base(p)) : Base(p)[x] = <<requests[i], k>>
<1> USE DEF Base
<1>1. \A p \in 1 .. PartCount :
        /\ Base(p) \in Seq(Sample)
        /\ \A x \in 1 .. Len(Base(p)) :
             \E j \in 1 .. Len(Part(p)), k \in 1 .. SamplesPerPrompt :
                x = (j - 1) * SamplesPerPrompt + k /\ Base(p)[x] = <<Part(p)[j], k>>
        /\ \A j \in 1 .. Len(Part(p)), k \in 1 .. SamplesPerPrompt :
             \E x \in 1 .. Len(Base(p)) : Base(p)[x] = <<Part(p)[j], k>>
  BY PartIs, SamplesAre
<1> HIDE DEF Base
<1>2. ASSUME NEW p \in 1 .. PartCount, NEW x \in 1 .. Len(Base(p))
      PROVE  \E i \in 1 .. PromptsPerIteration : Base(p)[x][1] = requests[i]
  <2>1. PICK j \in 1 .. Len(Part(p)), k \in 1 .. SamplesPerPrompt : Base(p)[x] = <<Part(p)[j], k>>
    BY <1>1
  <2>2. Base(p)[x][1] = Part(p)[j]
    BY <2>1
  <2>3. PICK i \in 1 .. PromptsPerIteration : Part(p)[j] = requests[i]
    BY PartIs
  <2>4. QED
    BY <2>2, <2>3
<1>3. ASSUME NEW p \in 1 .. PartCount, NEW x \in 1 .. Len(Base(p)), NEW y \in 1 .. Len(Base(p)),
             Base(p)[x] = Base(p)[y]
      PROVE  x = y
  <2>1. PICK j \in 1 .. Len(Part(p)), k \in 1 .. SamplesPerPrompt :
          x = (j - 1) * SamplesPerPrompt + k /\ Base(p)[x] = <<Part(p)[j], k>>
    BY <1>1
  <2>2. PICK i \in 1 .. Len(Part(p)), l \in 1 .. SamplesPerPrompt :
          y = (i - 1) * SamplesPerPrompt + l /\ Base(p)[y] = <<Part(p)[i], l>>
    BY <1>1
  <2>3. Part(p)[j] = Part(p)[i] /\ k = l
    BY <1>3, <2>1, <2>2
  <2>4. j = i
    BY <2>3, PartsAreDisjoint
  <2>5. QED
    BY <2>1, <2>2, <2>3, <2>4
<1>4. ASSUME NEW p \in 1 .. PartCount, NEW q \in 1 .. PartCount,
             NEW x \in 1 .. Len(Base(p)), NEW y \in 1 .. Len(Base(q)), Base(p)[x][1] = Base(q)[y][1]
      PROVE  p = q
  <2>1. PICK j \in 1 .. Len(Part(p)), k \in 1 .. SamplesPerPrompt : Base(p)[x] = <<Part(p)[j], k>>
    BY <1>1
  <2>2. PICK i \in 1 .. Len(Part(q)), l \in 1 .. SamplesPerPrompt : Base(q)[y] = <<Part(q)[i], l>>
    BY <1>1
  <2>3. Part(p)[j] = Part(q)[i]
    BY <1>4, <2>1, <2>2
  <2>4. QED
    BY <2>3, PartsAreDisjoint
<1>5. ASSUME NEW i \in 1 .. PromptsPerIteration, NEW k \in 1 .. SamplesPerPrompt
      PROVE  \E p \in 1 .. PartCount : \E x \in 1 .. Len(Base(p)) : Base(p)[x] = <<requests[i], k>>
  <2>1. PICK p \in 1 .. PartCount : \E j \in 1 .. Len(Part(p)) : Part(p)[j] = requests[i]
    BY PartsCover
  <2>4. PICK j \in 1 .. Len(Part(p)) : Part(p)[j] = requests[i]
    BY <2>1
  <2>2. PICK x \in 1 .. Len(Base(p)) : Base(p)[x] = <<Part(p)[j], k>>
    BY <1>1
  <2>3. QED
    BY <2>4, <2>2
<1>6. \A p \in 1 .. PartCount : Base(p) \in Seq(Sample)
  BY <1>1
<1>7. QED
  BY <1>2, <1>3, <1>4, <1>5, <1>6

(***************************************************************************)
(* What a backend's mistake can hide                                       *)
(***************************************************************************)

\* Nothing is lost and nothing is of another part.
Whole(out, B) ==
    /\ \A x \in 1 .. Len(B) : \E y \in 1 .. Len(out) : out[y] = B[x]
    /\ \A y \in 1 .. Len(out) : \E x \in 1 .. Len(B) : out[y] = B[x]

Fabricates(out) == \E y \in 1 .. Len(out) : out[y][1] = Foreign

\* The sample at x is lost, and what there is beside the rest names prompt v.
Loses(out, B, x, v) ==
    /\ x \in 1 .. Len(B) /\ v \in {Foreign, 0} /\ B[x][1] # v
    /\ \A y \in 1 .. Len(B) : y # x => \E z \in 1 .. Len(out) : out[z] = B[y]
    /\ \A z \in 1 .. Len(out) : out[z][1] # v => \E y \in 1 .. Len(B) : y # x /\ out[z] = B[y]
    /\ \A y, z \in 1 .. Len(out) : out[y][1] # v /\ out[y] = out[z] => y = z

LEMMA MistakenIs ==
    ASSUME NEW B, NEW out \in Mistaken(B)
    PROVE  \E x \in DOMAIN B :
             \/ out = RemoveAt(B, x)
             \/ out = Append(B, B[x])
             \/ out = [B EXCEPT ![x] = <<Foreign, B[x][2]>>]
             \/ out = [B EXCEPT ![x] = <<0, B[x][2]>>]
  BY Zenon DEF Mistaken

(* One sample was removed.                                                 *)
LEMMA RemovedLoses ==
    ASSUME NEW B \in Seq(Sample), NEW x \in 1 .. Len(B),
           \A y \in 1 .. Len(B) : B[y][1] \in PromptIds,
           \A y, z \in 1 .. Len(B) : B[y] = B[z] => y = z
    PROVE  Loses(RemoveAt(B, x), B, x, Foreign)
<1> DEFINE out == RemoveAt(B, x)
           N == Len(B)
<1>1. N \in Nat /\ Len(out) = N - 1 /\ \A j \in 1 .. N - 1 : out[j] = IF j < x THEN B[j] ELSE B[j + 1]
  BY LenProperties, RemoveIs
<1> HIDE DEF out
<1>2. \A j \in 1 .. N - 1 : \/ j < x /\ out[j] = B[j]
                            \/ j >= x /\ out[j] = B[j + 1] /\ j + 1 \in 1 .. N
  BY <1>1
<1>3. \A y \in 1 .. N : y # x => \E z \in 1 .. N - 1 : out[z] = B[y]
  <2> SUFFICES ASSUME NEW y \in 1 .. N, y # x PROVE \E z \in 1 .. N - 1 : out[z] = B[y]
    OBVIOUS
  <2>1. CASE y < x
    <3>1. y \in 1 .. N - 1
      BY <1>1, <2>1
    <3>2. QED
      BY <1>1, <2>1, <3>1
  <2>2. CASE y > x
    <3>1. y - 1 \in 1 .. N - 1 /\ ~ (y - 1 < x) /\ (y - 1) + 1 = y
      BY <1>1, <2>2
    <3>2. QED
      BY <1>1, <3>1
  <2>3. QED
    BY <2>1, <2>2
<1>4. \A z \in 1 .. N - 1 : \E y \in 1 .. N : y # x /\ out[z] = B[y]
  <2> TAKE z \in 1 .. N - 1
  <2>1. CASE z < x
    BY <1>1, <2>1
  <2>2. CASE z >= x
    <3>1. z + 1 \in 1 .. N /\ z + 1 # x
      BY <1>1, <2>2
    <3>2. QED
      BY <1>2, <2>2, <3>1
  <2>3. QED
    BY <2>1, <2>2
<1>5. \A y, z \in 1 .. N - 1 : out[y] = out[z] => y = z
  <2> SUFFICES ASSUME NEW y \in 1 .. N - 1, NEW z \in 1 .. N - 1, out[y] = out[z] PROVE y = z
    OBVIOUS
  <2>1. y \in 1 .. N /\ z \in 1 .. N /\ y + 1 \in 1 .. N /\ z + 1 \in 1 .. N
    BY <1>1
  <2>2. CASE y < x /\ z < x
    BY <1>1, <2>1, <2>2
  <2>3. CASE y >= x /\ z >= x
    <3>1. y + 1 = z + 1
      BY <1>2, <2>1, <2>3
    <3>2. QED
      BY <3>1
  <2>4. CASE y < x /\ z >= x
    <3>1. y = z + 1
      BY <1>2, <2>1, <2>4
    <3>2. QED
      BY <2>4, <3>1
  <2>5. CASE y >= x /\ z < x
    <3>1. y + 1 = z
      BY <1>2, <2>1, <2>5
    <3>2. QED
      BY <2>5, <3>1
  <2>6. QED
    BY <2>2, <2>3, <2>4, <2>5
<1>6. B[x][1] # Foreign /\ Foreign \in {Foreign, 0}
  BY Bounds
<1>7. Loses(out, B, x, Foreign)
  BY <1>1, <1>3, <1>4, <1>5, <1>6 DEF Loses
<1>8. QED
  BY <1>7 DEF out

(* One sample was renamed after the first prompt ever drawn.               *)
LEMMA RenamedLoses ==
    ASSUME NEW B \in Seq(Sample), NEW x \in 1 .. Len(B), NEW k,
           \A y, z \in 1 .. Len(B) : B[y] = B[z] => y = z, B[x][1] # 0
    PROVE  Loses([B EXCEPT ![x] = <<0, k>>], B, x, 0)
<1> DEFINE out == [B EXCEPT ![x] = <<0, k>>]
<1>1. Len(B) \in Nat /\ DOMAIN B = 1 .. Len(B) /\ DOMAIN out = DOMAIN B
  BY LenProperties
<1>2. Len(out) = Len(B)
  BY <1>1
<1>3. out[x] = <<0, k>> /\ <<0, k>>[1] = 0
  BY <1>1
<1>4. \A y \in 1 .. Len(B) : y # x => out[y] = B[y]
  BY <1>1
<1> HIDE DEF out
<1>5. Loses(out, B, x, 0)
  BY <1>2, <1>3, <1>4 DEF Loses
<1>6. QED
  BY <1>5 DEF out

(* What a thread that is done returned.                                    *)
LEMMA OutcomeIs ==
    ASSUME NEW B \in Seq(Sample), 0 \in PromptIds,
           \A y \in 1 .. Len(B) : B[y][1] \in PromptIds,
           \A y, z \in 1 .. Len(B) : B[y] = B[z] => y = z,
           NEW out \in {B} \cup Mistaken(B)
    PROVE  /\ out \in Seq(Sample)
           /\ Whole(out, B) \/ Fabricates(out) \/ \E x, v : Loses(out, B, x, v)
<1>1. Len(B) \in Nat /\ DOMAIN B = 1 .. Len(B) /\ \A y \in 1 .. Len(B) : B[y] \in Sample
  BY LenProperties, ElementOfSeq
<1>2. CASE out = B
  BY <1>2 DEF Whole
<1>3. CASE out # B
  <2>1. PICK x \in 1 .. Len(B) :
          \/ out = RemoveAt(B, x)
          \/ out = Append(B, B[x])
          \/ out = [B EXCEPT ![x] = <<Foreign, B[x][2]>>]
          \/ out = [B EXCEPT ![x] = <<0, B[x][2]>>]
    BY <1>1, <1>3, MistakenIs
  <2>2. CASE out = RemoveAt(B, x)
    <3>1. Loses(out, B, x, Foreign)
      BY <2>2, RemovedLoses
    <3>2. out \in Seq(Sample)
      BY <2>2, RemoveIs
    <3>3. QED
      BY <3>1, <3>2
  <2>3. CASE out = Append(B, B[x])
    <3>1. /\ out \in Seq(Sample) /\ Len(out) = Len(B) + 1
          /\ \A i \in 1 .. Len(B) : out[i] = B[i]
          /\ out[Len(B) + 1] = B[x]
      <4>1. B[x] \in Sample
        BY <1>1
      <4>2. /\ Append(B, B[x]) \in Seq(Sample) /\ Len(Append(B, B[x])) = Len(B) + 1
            /\ \A i \in 1 .. Len(B) : Append(B, B[x])[i] = B[i]
            /\ Append(B, B[x])[Len(B) + 1] = B[x]
        BY <4>1, AppendProperties
      <4>3. QED
        BY <2>3, <4>2, Zenon
    <3>2. \A i \in 1 .. Len(B) : i \in 1 .. Len(out)
      BY <1>1, <3>1
    <3>3. \A y \in 1 .. Len(out) : \E z \in 1 .. Len(B) : out[y] = B[z]
      <4> TAKE y \in 1 .. Len(out)
      <4>1. y \in 1 .. Len(B) \/ y = Len(B) + 1
        BY <1>1, <3>1
      <4>2. QED
        BY <3>1, <4>1
    <3>4. Whole(out, B)
      BY <3>1, <3>2, <3>3 DEF Whole
    <3>5. QED
      BY <3>1, <3>4
  <2>4. CASE out = [B EXCEPT ![x] = <<Foreign, B[x][2]>>]
    <3>1. <<Foreign, B[x][2]>> \in Sample
      BY <1>1, SampleIs
    <3>2. out \in Seq(Sample) /\ Len(out) = Len(B) /\ out[x] = <<Foreign, B[x][2]>>
      BY <2>4, <3>1, ExceptSeq
    <3>3. x \in 1 .. Len(out) /\ out[x][1] = Foreign
      BY <3>2
    <3>4. QED
      BY <3>2, <3>3 DEF Fabricates
  <2>5. CASE out = [B EXCEPT ![x] = <<0, B[x][2]>>]
    <3>1. <<0, B[x][2]>> \in Sample
      BY <1>1, SampleIs
    <3>2. out \in Seq(Sample) /\ Len(out) = Len(B) /\ out[x] = <<0, B[x][2]>>
      BY <2>5, <3>1, ExceptSeq
    <3>3. CASE B[x][1] = 0
      <4>1. out = B
        <5>1. out[x] = B[x]
          BY <1>1, <3>2, <3>3, SampleIs
        <5>2. \A y \in 1 .. Len(B) : out[y] = B[y]
          BY <2>5, <5>1, <3>1, ExceptSeq
        <5>3. QED
          BY <3>2, <5>2, SeqEqual
      <4>2. QED
        BY <1>3, <4>1
    <3>4. CASE B[x][1] # 0
      <4>1. Loses(out, B, x, 0)
        BY <2>5, <3>4, RenamedLoses
      <4>2. QED
        BY <3>2, <4>1
    <3>5. QED
      BY <3>3, <3>4
  <2>6. QED
    BY <2>1, <2>2, <2>3, <2>4, <2>5
<1>4. QED
  BY <1>2, <1>3

\* What Missing asks of one prompt.
Few(s, r) == Cardinality({y \in DOMAIN s : s[y][1] = r}) < SamplesPerPrompt

\* No sample twice; and prompt r in what thread p returned only.
Distinct(B) == \A y, z \in 1 .. Len(B) : B[y] = B[z] => y = z
OnlyFrom(R, p, r) == \A t \in 1 .. Len(R) : \A y \in 1 .. Len(R[t]) : R[t][y][1] = r => t = p

(* A prompt whose only thread lost one of its samples has too few.         *)
LEMMA Short ==
    ASSUME NEW R \in Seq(Seq(Sample)), NEW s \in Seq(Sample), NEW th, NEW pl, Laid(R, Len(R), s, th, pl),
           NEW p \in 1 .. Len(R), NEW B \in Seq(Sample), NEW x, NEW v, Loses(R[p], B, x, v),
           Distinct(B), NEW r \in PromptIds, r = B[x][1], OnlyFrom(R, p, r)
    PROVE  Few(s, r)
<1> DEFINE rows == {y \in DOMAIN s : s[y][1] = r}
           k == B[x][2]
           rest == 1 .. SamplesPerPrompt \ {k}
           f == [y \in rows |-> s[y][2]]
<1>1. /\ DOMAIN s = 1 .. Len(s) /\ \A y \in 1 .. Len(s) : s[y] \in Sample
      /\ x \in 1 .. Len(B) /\ \A y \in 1 .. Len(B) : B[y] \in Sample
      /\ r # v
  BY LenProperties, ElementOfSeq DEF Loses
<1>2. k \in 1 .. SamplesPerPrompt /\ B[x] = <<r, k>>
  BY <1>1, SampleIs
<1>3. \A y \in rows : /\ y \in 1 .. Len(s) /\ s[y] = <<r, s[y][2]>> /\ s[y][2] \in 1 .. SamplesPerPrompt
                      /\ th[y] = p /\ pl[y] \in 1 .. Len(R[p]) /\ s[y] = R[p][pl[y]]
  <2> TAKE y \in rows
  <2>1. y \in 1 .. Len(s) /\ s[y][1] = r
    BY <1>1
  <2>2. th[y] \in 1 .. Len(R) /\ pl[y] \in 1 .. Len(R[th[y]]) /\ s[y] = R[th[y]][pl[y]]
    BY <2>1 DEF Laid
  <2>3. th[y] = p
    BY <2>1, <2>2 DEF OnlyFrom
  <2>4. s[y] = <<r, s[y][2]>> /\ s[y][2] \in 1 .. SamplesPerPrompt
    BY <1>1, <2>1, SampleIs
  <2>5. QED
    BY <2>1, <2>2, <2>3, <2>4
<1>4. \A y \in rows : s[y][2] \in rest
  <2> TAKE y \in rows
  <2>1. R[p][pl[y]][1] # v
    BY <1>1, <1>3
  <2>2. PICK z \in 1 .. Len(B) : z # x /\ R[p][pl[y]] = B[z]
    BY <1>3, <2>1 DEF Loses
  <2>3. s[y] # B[x]
    BY <1>1, <1>3, <2>2 DEF Distinct
  <2>4. QED
    BY <1>2, <1>3, <2>3
<1>5. \A y, z \in rows : s[y][2] = s[z][2] => y = z
  <2> SUFFICES ASSUME NEW y \in rows, NEW z \in rows, s[y][2] = s[z][2] PROVE y = z
    OBVIOUS
  <2>4. s[y] = s[z] /\ s[y][1] = r
    <3>1. s[y] = <<r, s[y][2]>> /\ s[z] = <<r, s[z][2]>>
      BY <1>3, Zenon
    <3>2. s[y] = <<r, s[z][2]>>
      BY <3>1, Zenon
    <3>3. s[y][1] = r
      OBVIOUS
    <3>4. QED
      BY <3>1, <3>2, <3>3, Zenon
  <2>1. R[p][pl[y]] = R[p][pl[z]] /\ R[p][pl[y]][1] # v
    BY <1>1, <1>3, <2>4
  <2>2. pl[y] = pl[z]
    BY <1>3, <2>1 DEF Loses
  <2>3. \A a, b \in 1 .. Len(s) : th[a] = th[b] /\ pl[a] = pl[b] => a = b
    BY DEF Laid
  <2>6. y \in 1 .. Len(s) /\ z \in 1 .. Len(s) /\ th[y] = p /\ th[z] = p
    BY <1>3, Zenon
  <2>5. QED
    BY <2>2, <2>3, <2>6, Zenon
<1>6. f \in Injection(rows, rest)
  BY <1>4, <1>5 DEF Injection, IsInjective
<1>7. SamplesPerPrompt \in Nat \ {0}
  BY Bounds
<1>8. IsFiniteSet(1 .. SamplesPerPrompt) /\ Cardinality(1 .. SamplesPerPrompt) = SamplesPerPrompt
  <2>1. 1 \in Int /\ SamplesPerPrompt \in Int /\ ~ (1 > SamplesPerPrompt) /\ SamplesPerPrompt - 1 + 1 = SamplesPerPrompt
    BY <1>7
  <2>2. /\ IsFiniteSet(1 .. SamplesPerPrompt)
        /\ Cardinality(1 .. SamplesPerPrompt)
             = IF 1 > SamplesPerPrompt THEN 0 ELSE SamplesPerPrompt - 1 + 1
    BY <2>1, FS_Interval
  <2>3. QED
    BY <2>1, <2>2
<1> HIDE DEF rows, rest, f
<1>9. IsFiniteSet(rest) /\ Cardinality(rest) = SamplesPerPrompt - 1
  <2>1. \A T, e : IsFiniteSet(T) /\ e \in T => IsFiniteSet(T \ {e}) /\ Cardinality(T \ {e}) = Cardinality(T) - 1
    BY FS_RemoveElement
  <2>2. QED
    BY <1>2, <1>8, <2>1, Zenon DEF rest
<1>10. Cardinality(rows) <= Cardinality(rest) /\ IsFiniteSet(rows)
  BY <1>6, <1>9, FS_Injection
<1>11. Cardinality(rows) \in Nat
  BY <1>10, FS_CardinalityType
<1>12. Cardinality(rows) < SamplesPerPrompt
  BY <1>7, <1>9, <1>10, <1>11
<1>13. QED
  BY <1>12 DEF rows, Few

\* The threads returned R; s has every sample that was asked for.
Returned(R) ==
    /\ Len(R) = PartCount /\ R \in Seq(Seq(Sample))
    /\ \A p \in 1 .. Len(R) : R[p] \in {Base(p)} \cup Mistaken(Base(p))
HasAll(s) ==
    \A i \in 1 .. PromptsPerIteration, k \in 1 .. SamplesPerPrompt :
       \E x \in 1 .. Len(s) : s[x] = <<requests[i], k>>

(* If something is lost or made up, one of the two checks sees it.         *)
LEMMA ChecksSee ==
    ASSUME Asked, NEW R, Returned(R), NEW s, s = FlattenSeq(R), ~ Unexpected(s), ~ Missing(s)
    PROVE  HasAll(s)
<1> SUFFICES \A i \in 1 .. PromptsPerIteration, k \in 1 .. SamplesPerPrompt :
               \E x \in 1 .. Len(s) : s[x] = <<requests[i], k>>
  BY DEF HasAll
<1> DEFINE N == Len(R)
<1>0. /\ Len(R) = PartCount /\ R \in Seq(Seq(Sample))
      /\ \A p \in 1 .. Len(R) : R[p] \in {Base(p)} \cup Mistaken(Base(p))
  BY DEF Returned
<1>1. s \in Seq(Sample) /\ DOMAIN s = 1 .. Len(s)
  BY <1>0, FlattenIs, LenProperties
<1>2. PICK th, pl : Laid(R, N, s, th, pl)
  BY <1>0, FlattenIs
<1>3. \A t \in 1 .. N : \A y \in 1 .. Len(R[t]) : \E x \in 1 .. Len(s) : s[x] = R[t][y]
  <2> TAKE t \in 1 .. N
  <2> TAKE y \in 1 .. Len(R[t])
  <2>1. PICK x \in 1 .. Len(s) : th[x] = t /\ pl[x] = y
    BY <1>2 DEF Laid
  <2>2. s[x] = R[th[x]][pl[x]]
    BY <1>2 DEF Laid
  <2>3. QED
    BY <2>1, <2>2
<1>4. /\ DOMAIN requests = 1 .. PromptsPerIteration /\ 0 \in PromptIds
      /\ \A i \in 1 .. PromptsPerIteration : requests[i] \in PromptIds /\ requests[i] # Foreign
  BY RequestsAre, Bounds
<1>5. \A i \in 1 .. PromptsPerIteration : ~ Few(s, requests[i])
  BY <1>4, Zenon DEF Missing, Few
<1>6. \A p \in 1 .. N : ~ Fabricates(R[p])
  <2> SUFFICES ASSUME NEW p \in 1 .. N, Fabricates(R[p]) PROVE FALSE
    OBVIOUS
  <2>1. PICK y \in 1 .. Len(R[p]) : R[p][y][1] = Foreign
    BY DEF Fabricates
  <2>2. PICK x \in 1 .. Len(s) : s[x] = R[p][y]
    BY <1>3
  <2>3. \E i \in DOMAIN requests : requests[i] = s[x][1]
    BY <1>1 DEF Unexpected
  <2>4. QED
    BY <1>4, <2>1, <2>2, <2>3
\* The parts, with what is known of them.
<1>7. \A p \in 1 .. N :
        /\ Base(p) \in Seq(Sample)
        /\ \A x \in 1 .. Len(Base(p)) : \E i \in 1 .. PromptsPerIteration : Base(p)[x][1] = requests[i]
        /\ \A x, y \in 1 .. Len(Base(p)) : Base(p)[x] = Base(p)[y] => x = y
  BY <1>0, BaseIs
<1>8. \A p, q \in 1 .. N : \A x \in 1 .. Len(Base(p)), y \in 1 .. Len(Base(q)) :
        Base(p)[x][1] = Base(q)[y][1] => p = q
  BY <1>0, BaseIs
<1>9. \A p \in 1 .. N : Whole(R[p], Base(p)) \/ \E x, v : Loses(R[p], Base(p), x, v)
  <2> TAKE p \in 1 .. N
  <2>1. \A y \in 1 .. Len(Base(p)) : Base(p)[y][1] \in PromptIds
    BY <1>4, <1>7
  <2>2. Whole(R[p], Base(p)) \/ Fabricates(R[p]) \/ \E x, v : Loses(R[p], Base(p), x, v)
    BY <1>0, <1>4, <1>7, <2>1, OutcomeIs
  <2>3. QED
    BY <1>6, <2>2
\* Only the thread of a prompt returns samples of it, unless it is prompt 0.
<1>10. ASSUME NEW p \in 1 .. N, NEW x \in 1 .. Len(Base(p)),
              NEW t \in 1 .. N, NEW y \in 1 .. Len(R[t]), R[t][y][1] = Base(p)[x][1],
              t # p
       PROVE  Base(p)[x][1] = 0 /\ \E z : Loses(R[t], Base(t), z, 0)
  <2>1. ~ \E z \in 1 .. Len(Base(t)) : R[t][y] = Base(t)[z]
    BY <1>8, <1>10
  <2>2. PICK z, v : Loses(R[t], Base(t), z, v)
    BY <1>9, <2>1 DEF Whole
  <2>3. R[t][y][1] = v
    BY <2>1, <2>2 DEF Loses
  <2>4. v \in {Foreign, 0}
    BY <2>2 DEF Loses
  <2>5. v # Foreign
    BY <1>6, <2>3 DEF Fabricates
  <2>6. v = 0
    BY <2>4, <2>5
  <2>7. QED
    BY <1>10, <2>2, <2>3, <2>6
\* A thread that lost a sample of a prompt only it returns is seen.
<1>11. ASSUME NEW p \in 1 .. N, NEW x, NEW v, Loses(R[p], Base(p), x, v),
              \A t \in 1 .. N : \A y \in 1 .. Len(R[t]) : R[t][y][1] = Base(p)[x][1] => t = p
       PROVE  FALSE
  <2>1. x \in 1 .. Len(Base(p))
    BY <1>11 DEF Loses
  <2>2. PICK i \in 1 .. PromptsPerIteration : Base(p)[x][1] = requests[i]
    BY <1>7, <2>1
  <2>3. requests[i] \in PromptIds
    BY <1>4
  <2>4. Base(p) \in Seq(Sample) /\ \A y, z \in 1 .. Len(Base(p)) : Base(p)[y] = Base(p)[z] => y = z
    BY <1>7
  <2>5. PICK r \in PromptIds : r = requests[i] /\ r = Base(p)[x][1]
    BY <2>2, <2>3
  <2>6. OnlyFrom(R, p, r)
    BY <1>11, <2>5 DEF OnlyFrom
  <2>7. Loses(R[p], Base(p), x, v) /\ Laid(R, Len(R), s, th, pl) /\ p \in 1 .. Len(R)
    BY <1>2, <1>11
  <2>8. Few(s, r)
    <3>1. Base(p) \in Seq(Sample) /\ Distinct(Base(p))
      BY <2>4 DEF Distinct
    <3>2. QED
      BY <1>0, <1>1, <2>5, <2>6, <2>7, <3>1, Short
  <2>9. QED
    BY <1>5, <2>5, <2>8
<1>12. ASSUME NEW p \in 1 .. N, NEW x, NEW v, Loses(R[p], Base(p), x, v)
       PROVE  FALSE
  <2>1. x \in 1 .. Len(Base(p))
    BY <1>12 DEF Loses
  <2>2. CASE \A t \in 1 .. N : \A y \in 1 .. Len(R[t]) : R[t][y][1] = Base(p)[x][1] => t = p
    BY <1>11, <1>12, <2>2
  <2>3. CASE ~ \A t \in 1 .. N : \A y \in 1 .. Len(R[t]) : R[t][y][1] = Base(p)[x][1] => t = p
    <3>1. PICK t \in 1 .. N : \E y \in 1 .. Len(R[t]) : R[t][y][1] = Base(p)[x][1] /\ t # p
      BY <2>3
    <3>2. PICK z : Loses(R[t], Base(t), z, 0)
      BY <1>10, <2>1, <3>1
    <3>3. z \in 1 .. Len(Base(t)) /\ Base(t)[z][1] # 0
      BY <3>2 DEF Loses
    <3>4. \A u \in 1 .. N : \A y \in 1 .. Len(R[u]) : R[u][y][1] = Base(t)[z][1] => u = t
      BY <1>10, <3>3
    <3>5. QED
      BY <1>11, <3>2, <3>4
  <2>4. QED
    BY <2>2, <2>3
<1>13. TAKE i \in 1 .. PromptsPerIteration, k \in 1 .. SamplesPerPrompt
<1>14. PICK p \in 1 .. N : \E x \in 1 .. Len(Base(p)) : Base(p)[x] = <<requests[i], k>>
  BY <1>0, BaseIs
<1>15. Whole(R[p], Base(p))
  BY <1>9, <1>12
<1>16. PICK y \in 1 .. Len(R[p]) : R[p][y] = <<requests[i], k>>
  BY <1>14, <1>15 DEF Whole
<1>17. QED
  BY <1>3, <1>16

(***************************************************************************)
(* Chunks and rewards                                                      *)
(***************************************************************************)

(* The chunks are contiguous, none is empty, the first begins at the start *)
(* of the batch and the last ends at its end; there are no more of them    *)
(* than workers.                                                           *)
LEMMA ChunksAre ==
    ASSUME trajectories \in Seq(Sample), Chunked
    PROVE  /\ ChunkCount \in 1 .. RewardWorkers
           /\ \A c \in 1 .. ChunkCount :
                /\ StartOf(c) \in Nat
                /\ Chunk(c) \in Seq(Sample) /\ Len(Chunk(c)) \in Nat \ {0}
                /\ \A j \in 1 .. Len(Chunk(c)) :
                     StartOf(c) + j \in 1 .. Count /\ Chunk(c)[j] = trajectories[StartOf(c) + j]
                /\ c = ChunkCount => StartOf(c) + Len(Chunk(c)) = Count
                /\ c # ChunkCount => StartOf(c) + Len(Chunk(c)) = StartOf(c + 1)
           /\ \A c, d \in 1 .. ChunkCount : c < d => StartOf(c) + Len(Chunk(c)) <= StartOf(d)
<1>1. /\ Count \in Nat /\ Count > 1 /\ RewardWorkers \in Nat \ {0}
      /\ \A x \in 1 .. Count : trajectories[x] \in Sample
  BY LenProperties, ElementOfSeq, Bounds DEF Chunked, Count
<1>2. PICK N \in Nat \ {0} : N = Count
  BY <1>1
<1>3. PICK z \in Nat \ {0} : z = ChunkSize /\ N <= z * RewardWorkers
  BY <1>1, <1>2, Ceiling DEF ChunkSize
<1>4. PICK n \in Nat \ {0} : n = ChunkCount /\ N <= n * z /\ (n - 1) * z < N
  BY <1>2, <1>3, Ceiling DEF ChunkCount
<1>5. PICK e \in Int : e = (n - 1) * z
  BY <1>3, <1>4
<1>6. n * z = e + z /\ e < N /\ N <= e + z
  <2>1. n * z = (n - 1) * z + z
    BY <1>3, <1>4
  <2>2. QED
    BY <1>4, <1>5, <2>1
<1>7. n <= RewardWorkers
  <2>1. SUFFICES ASSUME RewardWorkers <= n - 1 PROVE FALSE
    BY <1>1, <1>4
  <2>2. RewardWorkers * z <= (n - 1) * z
    BY <1>1, <1>3, <1>4, <2>1, Monotone
  <2>3. RewardWorkers * z = z * RewardWorkers /\ z * RewardWorkers \in Int
    BY <1>1, <1>3
  <2>4. QED
    BY <1>2, <1>3, <1>5, <1>6, <2>2, <2>3
<1>8. \A c : StartOf(c) = (c - 1) * z
  BY <1>3 DEF StartOf
\* One chunk.
<1>9. \A c \in 1 .. n : StartOf(c) \in Nat /\ StartOf(c) < N /\ (c # n => StartOf(c) + z = StartOf(c + 1) /\ StartOf(c) + z < N)
  <2> TAKE c \in 1 .. n
  <2>1. PICK m \in Int : m = (c - 1) * z
    BY <1>3
  <2>2. 0 * z <= (c - 1) * z /\ (c - 1) * z <= (n - 1) * z
    BY <1>3, <1>4, Monotone
  <2>3. 0 <= m /\ m <= e
    BY <1>3, <1>5, <2>1, <2>2
  <2>4. StartOf(c) = m
    BY <1>8, <2>1
  <2>5. CASE c = n
    BY <1>2, <1>6, <2>3, <2>4, <2>5
  <2>6. CASE c # n
    <3>1. c <= n - 1
      BY <1>4, <2>6
    <3>2. c * z <= (n - 1) * z
      BY <1>3, <1>4, <3>1, Monotone
    <3>3. c * z = m + z /\ (c + 1) - 1 = c
      BY <1>3, <2>1
    <3>4. m + z <= e
      BY <1>5, <3>2, <3>3
    <3>5. StartOf(c + 1) = m + z
      BY <1>8, <3>3
    <3>6. QED
      BY <1>2, <1>6, <2>3, <2>4, <3>4, <3>5
  <2>7. QED
    BY <2>5, <2>6
<1>10. ASSUME NEW c \in 1 .. n
       PROVE  /\ Chunk(c) \in Seq(Sample) /\ Len(Chunk(c)) \in Nat \ {0}
              /\ \A j \in 1 .. Len(Chunk(c)) :
                   StartOf(c) + j \in 1 .. Count /\ Chunk(c)[j] = trajectories[StartOf(c) + j]
              /\ c = n => StartOf(c) + Len(Chunk(c)) = N
              /\ c # n => Len(Chunk(c)) = z
  <2>1. PICK m \in Nat : m = StartOf(c) /\ m < N /\ (c # n => m + z < N)
    BY <1>9
  <2>2. PICK l \in Nat \ {0} : l = IF c = n THEN N - m ELSE z
    BY <1>2, <1>3, <2>1
  <2>3. m + l <= N
    BY <1>2, <1>3, <2>1, <2>2
  <2>4. Chunk(c) = SubSeq(trajectories, m + 1, m + l)
    <3>1. Chunk(c) = SubSeq(trajectories, m + 1, IF c = n THEN N ELSE m + z)
      BY <1>2, <1>3, <1>4, <2>1 DEF Chunk
    <3>2. (IF c = n THEN N ELSE m + z) = m + l
      BY <1>2, <2>1, <2>2
    <3>3. QED
      BY <3>1, <3>2
  <2>5. m + 1 \in Int /\ m + l \in Int /\ \A i \in m + 1 .. m + l : trajectories[i] \in Sample
    BY <1>1, <1>2, <2>1, <2>2, <2>3
  <2>6. /\ Chunk(c) \in Seq(Sample)
        /\ Len(Chunk(c)) = IF m + 1 <= m + l THEN m + l - (m + 1) + 1 ELSE 0
        /\ \A i \in 1 .. m + l - (m + 1) + 1 : Chunk(c)[i] = trajectories[m + 1 + i - 1]
    BY <2>4, <2>5, SubSeqProperties
  <2>7. Len(Chunk(c)) = l
    BY <2>2, <2>6
  <2>8. \A j \in 1 .. l : m + j \in 1 .. N /\ Chunk(c)[j] = trajectories[m + j]
    <3> TAKE j \in 1 .. l
    <3>1. j \in 1 .. m + l - (m + 1) + 1 /\ m + 1 + j - 1 = m + j /\ m + j \in 1 .. N
      BY <1>2, <2>1, <2>2, <2>3
    <3>2. QED
      BY <2>6, <3>1
  <2>9. QED
    BY <1>2, <2>1, <2>2, <2>6, <2>7, <2>8
<1>11. \A c, d \in 1 .. n : c < d => StartOf(c) + Len(Chunk(c)) <= StartOf(d)
  <2> SUFFICES ASSUME NEW c \in 1 .. n, NEW d \in 1 .. n, c < d
               PROVE  StartOf(c) + Len(Chunk(c)) <= StartOf(d)
    OBVIOUS
  <2>1. c # n /\ c <= d - 1
    BY <1>4
  <2>2. c * z <= (d - 1) * z
    BY <1>3, <2>1, Monotone
  <2>3. c * z = (c - 1) * z + z
    BY <1>3
  <2>4. StartOf(c) + z <= StartOf(d)
    BY <1>8, <2>2, <2>3
  <2>5. QED
    BY <1>10, <2>1, <2>4
<1>12. n \in 1 .. RewardWorkers
  BY <1>1, <1>4, <1>7
<1>13. QED
  BY <1>2, <1>4, <1>9, <1>10, <1>11, <1>12

\* What batch_score() may return for a chunk.
Scored(c) == {Chunk(c), Append(Chunk(c), <<Foreign, 1>>)} \cup {RemoveAt(Chunk(c), x) : x \in DOMAIN Chunk(c)}

(* A chunk of any batch, and what comes back for it.                       *)
LEMMA ScoredIs ==
    ASSUME trajectories \in Seq(Sample), NEW c \in 1 .. ChunkCount, NEW out \in Scored(c)
    PROVE  /\ ChunkCount \in 1 .. RewardWorkers
           /\ Chunk(c) \in Seq(Sample) /\ Len(Chunk(c)) \in Nat
           /\ out \in Seq(Sample)
           /\ \/ out = Chunk(c)
              \/ Len(out) = Len(Chunk(c)) - 1
              \/ Len(out) = Len(Chunk(c)) + 1 /\ \A j \in 1 .. Len(Chunk(c)) : out[j] = Chunk(c)[j]
<1>1. ChunkCount \in 1 .. RewardWorkers /\ Chunk(c) \in Seq(Sample)
  <2>1. CASE Chunked
    BY <2>1, ChunksAre
  <2>2. CASE ~ Chunked
    BY <2>2, Bounds DEF ChunkCount, Chunk
  <2>3. QED
    BY <2>1, <2>2
<1>2. PICK C : C = Chunk(c)
  OBVIOUS
<1>3. C \in Seq(Sample) /\ Len(C) \in Nat /\ DOMAIN C = 1 .. Len(C)
  BY <1>1, <1>2, LenProperties
<1>4. PICK e : e = <<Foreign, 1>> /\ e \in Sample
  <2>1. 1 \in 1 .. SamplesPerPrompt
    BY Bounds
  <2>2. QED
    BY <2>1, SampleIs
<1>5. out = C \/ out = Append(C, e) \/ \E x \in 1 .. Len(C) : out = RemoveAt(C, x)
  BY <1>2, <1>3, <1>4 DEF Scored
<1>6. CASE out = C
  BY <1>1, <1>2, <1>3, <1>6
<1>7. CASE out = Append(C, e)
  <2>1. /\ Append(C, e) \in Seq(Sample) /\ Len(Append(C, e)) = Len(C) + 1
        /\ \A i \in 1 .. Len(C) : Append(C, e)[i] = C[i]
    BY <1>3, <1>4, AppendProperties
  <2>2. QED
    BY <1>1, <1>2, <1>3, <1>7, <2>1
<1>8. CASE \E x \in 1 .. Len(C) : out = RemoveAt(C, x)
  <2>1. PICK x \in 1 .. Len(C) : out = RemoveAt(C, x)
    BY <1>8
  <2>2. RemoveAt(C, x) \in Seq(Sample) /\ Len(RemoveAt(C, x)) = Len(C) - 1
    BY <1>3, RemoveIs
  <2>3. QED
    BY <1>1, <1>2, <1>3, <2>1, <2>2
<1>9. QED
  BY <1>5, <1>6, <1>7, <1>8

\* Every thread of the scoring pool is done.
AllDone ==
    /\ trajectories \in Seq(Sample)
    /\ DOMAIN threads = 1 .. ChunkCount
    /\ \A c \in 1 .. ChunkCount : threads[c].out \in Scored(c)

(* A list of rewards that has the length of the batch: each place has the  *)
(* score of the last chunk that reaches it, or none.                       *)
LEMMA RewardsAre ==
    ASSUME AllDone, Chunked, Len(Rewards) = Count
    PROVE  /\ DOMAIN Rewards = 1 .. Count
           /\ \A x \in 1 .. Count :
                \/ Rewards[x] = Unscored /\ \A c \in 1 .. ChunkCount : x \notin Filled(c)
                \/ \E m \in 1 .. ChunkCount :
                     /\ x \in Filled(m) /\ \A c \in 1 .. ChunkCount : x \in Filled(c) => c <= m
                     /\ Rewards[x] = threads[m].out[x - StartOf(m)]
<1> DEFINE D == 1 .. ChunkCount
           ends == {StartOf(c) + Len(threads[c].out) : c \in D}
           top == Max({Count} \cup ends)
           fills(x) == {c \in D : x \in Filled(c)}
<1>1. trajectories \in Seq(Sample) /\ DOMAIN threads = D /\ \A c \in D : threads[c].out \in Scored(c)
  BY DEF AllDone
<1>2. /\ Count \in Nat /\ ChunkCount \in Nat \ {0}
      /\ \A c \in D : StartOf(c) \in Nat /\ Len(Chunk(c)) \in Nat /\ StartOf(c) + Len(Chunk(c)) <= Count
  <2>1. ChunkCount \in 1 .. RewardWorkers
    BY <1>1, ChunksAre
  <2>2. Count \in Nat /\ ChunkCount \in Nat \ {0}
    BY <1>1, <2>1, Bounds, LenProperties DEF Count
  <2>3. ASSUME NEW c \in D
        PROVE  StartOf(c) \in Nat /\ Len(Chunk(c)) \in Nat /\ StartOf(c) + Len(Chunk(c)) <= Count
    <3>1. /\ StartOf(c) \in Nat /\ Len(Chunk(c)) \in Nat \ {0}
          /\ \A j \in 1 .. Len(Chunk(c)) : StartOf(c) + j \in 1 .. Count
      BY <1>1, ChunksAre
    <3>2. StartOf(c) + Len(Chunk(c)) \in 1 .. Count
      BY <3>1
    <3>3. QED
      BY <2>2, <3>1, <3>2
  <2>4. QED
    BY <2>2, <2>3
<1>3. \A c \in D : Len(threads[c].out) \in Nat /\ Len(threads[c].out) <= Len(Chunk(c)) + 1
  <2> TAKE c \in D
  <2>1. /\ threads[c].out \in Seq(Sample) /\ Len(Chunk(c)) \in Nat
        /\ \/ threads[c].out = Chunk(c)
           \/ Len(threads[c].out) = Len(Chunk(c)) - 1
           \/ Len(threads[c].out) = Len(Chunk(c)) + 1
    BY <1>1, ScoredIs
  <2>2. Len(threads[c].out) \in Nat
    BY <2>1, LenProperties
  <2>3. QED
    BY <2>1, <2>2
<1>4. \A c \in D : StartOf(c) + Len(threads[c].out) \in Nat /\ StartOf(c) + Len(threads[c].out) <= Count + 1
  <2> TAKE c \in D
  <2>1. PICK a \in Nat, b \in Nat, l \in Nat : a = StartOf(c) /\ b = Len(Chunk(c)) /\ l = Len(threads[c].out)
    BY <1>2, <1>3
  <2>2. a + b <= Count /\ l <= b + 1
    BY <1>2, <1>3, <2>1
  <2>3. a + l \in Nat /\ a + l <= Count + 1
    BY <1>2, <2>2
  <2>4. QED
    BY <2>1, <2>3
<1>5. top \in Nat
  <2>1. ends \in SUBSET Nat /\ \A v \in ends : v <= Count + 1
    BY <1>4
  <2> HIDE DEF ends
  <2>2. /\ {Count} \cup ends \in SUBSET Nat /\ {Count} \cup ends # {} /\ Count + 1 \in Nat
        /\ \A v \in {Count} \cup ends : v <= Count + 1
    BY <1>2, <2>1
  <2>3. top \in {Count} \cup ends
    BY <2>2, MaxIs
  <2>4. QED
    BY <2>2, <2>3
<1>6. Rewards = [x \in 1 .. top |-> IF fills(x) = {} THEN Unscored
                                    ELSE threads[Max(fills(x))].out[x - StartOf(Max(fills(x)))]]
  BY <1>1 DEF Rewards
<1> HIDE DEF top, ends, fills
<1>7. top = Count /\ DOMAIN Rewards = 1 .. Count
  <2>1. Len(Rewards) = top /\ DOMAIN Rewards = 1 .. top
    BY <1>5, <1>6
  <2>2. QED
    BY <2>1
<1>8. ASSUME NEW x \in 1 .. Count
      PROVE  \/ Rewards[x] = Unscored /\ \A c \in D : x \notin Filled(c)
             \/ \E m \in D : /\ x \in Filled(m) /\ \A c \in D : x \in Filled(c) => c <= m
                             /\ Rewards[x] = threads[m].out[x - StartOf(m)]
  <2>1. Rewards[x] = IF fills(x) = {} THEN Unscored
                     ELSE threads[Max(fills(x))].out[x - StartOf(Max(fills(x)))]
    BY <1>6, <1>7
  <2>2. CASE fills(x) = {}
    <3>1. \A c \in D : x \notin Filled(c)
      BY <2>2 DEF fills
    <3>2. QED
      BY <2>1, <2>2, <3>1
  <2>3. CASE fills(x) # {}
    <3>1. fills(x) \in SUBSET Nat /\ fills(x) \in SUBSET D /\ \A c \in fills(x) : c <= ChunkCount
      BY <1>2 DEF fills
    <3>2. Max(fills(x)) \in fills(x) /\ \A c \in fills(x) : c <= Max(fills(x))
      BY <1>2, <2>3, <3>1, MaxIs
    <3>3. PICK m : m = Max(fills(x))
      OBVIOUS
    <3>4. m \in D /\ x \in Filled(m)
      BY <3>2, <3>3 DEF fills
    <3>5. \A c \in D : x \in Filled(c) => c <= m
      BY <3>2, <3>3 DEF fills
    <3>6. Rewards[x] = threads[m].out[x - StartOf(m)]
      BY <2>1, <2>3, <3>3
    <3>7. QED
      BY <3>4, <3>5, <3>6
  <2>4. QED
    BY <2>2, <2>3
<1>9. QED
  BY <1>7, <1>8

(* A list of rewards that passes the check of its length and the check     *)
(* that every reward is set is a list of scores.                           *)
LEMMA RewardsAreScores ==
    ASSUME AllDone, Len(Rewards) = Count, AllScored(Rewards)
    PROVE  \A x \in 1 .. Count : x \in DOMAIN Rewards /\ Rewards[x] \in Sample
<1>1. trajectories \in Seq(Sample) /\ \A c \in 1 .. ChunkCount : threads[c].out \in Seq(Sample)
  BY ScoredIs DEF AllDone
<1>2. CASE Chunked
  <2> TAKE x \in 1 .. Count
  <2>1. DOMAIN Rewards = 1 .. Count /\ Rewards[x] # Unscored
    BY <1>2, RewardsAre DEF AllScored
  <2>2. PICK m \in 1 .. ChunkCount : x \in Filled(m) /\ Rewards[x] = threads[m].out[x - StartOf(m)]
    BY <1>2, <2>1, RewardsAre
  <2>3. StartOf(m) \in Nat /\ Len(threads[m].out) \in Nat
    BY <1>1, <1>2, ChunksAre, LenProperties
  <2>4. x - StartOf(m) \in 1 .. Len(threads[m].out)
    BY <2>2, <2>3 DEF Filled
  <2>5. QED
    BY <1>1, <2>1, <2>2, <2>4, ElementOfSeq
<1>3. CASE ~ Chunked
  <2>1. 1 \in 1 .. ChunkCount /\ Rewards = threads[1].out
    BY <1>3 DEF ChunkCount, Rewards
  <2>2. Rewards \in Seq(Sample)
    BY <1>1, <2>1
  <2>3. QED
    BY <2>2, LenProperties, ElementOfSeq
<1>4. QED
  BY <1>2, <1>3

(* If at most one chunk got a wrong number of scores, a list of rewards    *)
(* that passes both checks has the reward of every trajectory at its own   *)
(* place.                                                                  *)
LEMMA OwnRewards ==
    ASSUME AllDone, Len(Rewards) = Count, AllScored(Rewards),
           \A c, d \in 1 .. ChunkCount :
              threads[c].out # Chunk(c) /\ threads[d].out # Chunk(d) => c = d
    PROVE  \A x \in 1 .. Count : Rewards[x] = trajectories[x]
<1>1. trajectories \in Seq(Sample) /\ \A c \in 1 .. ChunkCount : threads[c].out \in Scored(c)
  BY DEF AllDone
<1>2. CASE ~ Chunked
  <2>1. 1 \in 1 .. ChunkCount /\ Rewards = threads[1].out /\ Chunk(1) = trajectories
    BY <1>2 DEF ChunkCount, Rewards, Chunk
  <2>2. Len(Chunk(1)) = Count /\ Count \in Nat
    BY <1>1, <2>1, LenProperties DEF Count
  <2>3. threads[1].out = Chunk(1)
    <3>1. \/ threads[1].out = Chunk(1)
          \/ Len(threads[1].out) = Len(Chunk(1)) - 1
          \/ Len(threads[1].out) = Len(Chunk(1)) + 1
      BY <1>1, <2>1, ScoredIs
    <3>2. QED
      BY <2>1, <2>2, <3>1
  <2>4. QED
    BY <2>1, <2>3
<1>3. CASE Chunked
  <2> DEFINE D == 1 .. ChunkCount
  <2>1. /\ ChunkCount \in Nat /\ Count \in Nat
        /\ \A c \in D :
             /\ StartOf(c) \in Nat
             /\ Chunk(c) \in Seq(Sample) /\ Len(Chunk(c)) \in Nat \ {0}
             /\ \A j \in 1 .. Len(Chunk(c)) :
                  StartOf(c) + j \in 1 .. Count /\ Chunk(c)[j] = trajectories[StartOf(c) + j]
             /\ c = ChunkCount => StartOf(c) + Len(Chunk(c)) = Count
             /\ c # ChunkCount => StartOf(c) + Len(Chunk(c)) = StartOf(c + 1)
    BY <1>1, <1>3, ChunksAre, LenProperties, Bounds DEF Count
  <2>2. \A c, d \in D : c < d => StartOf(c) + Len(Chunk(c)) <= StartOf(d)
    BY <1>1, <1>3, ChunksAre
  <2>3. \A c \in D : /\ Len(threads[c].out) \in Nat
                     /\ \/ threads[c].out = Chunk(c)
                        \/ Len(threads[c].out) = Len(Chunk(c)) - 1
                        \/ /\ Len(threads[c].out) = Len(Chunk(c)) + 1
                           /\ \A j \in 1 .. Len(Chunk(c)) : threads[c].out[j] = Chunk(c)[j]
    <3> TAKE c \in D
    <3>1. threads[c].out \in Seq(Sample)
      BY <1>1, ScoredIs
    <3>2. QED
      BY <1>1, <3>1, ScoredIs, LenProperties
  <2>4. \A x \in 1 .. Count : Rewards[x] # Unscored
    BY <1>3, RewardsAre DEF AllScored
  <2>5. TAKE x \in 1 .. Count
  <2>6. PICK m \in D : /\ x \in Filled(m) /\ \A c \in D : x \in Filled(c) => c <= m
                       /\ Rewards[x] = threads[m].out[x - StartOf(m)]
    BY <1>3, <2>4, RewardsAre
  <2>7. x - StartOf(m) \in 1 .. Len(threads[m].out) /\ StartOf(m) + (x - StartOf(m)) = x
    BY <2>1, <2>3, <2>6 DEF Filled
  \* The score of a place of the chunk is the place's own.
  <2>8. CASE threads[m].out = Chunk(m)
    BY <2>1, <2>6, <2>7, <2>8
  <2>9. CASE Len(threads[m].out) = Len(Chunk(m)) - 1
    \* The last place of the chunk has no score.
    <3>1. PICK z \in 1 .. Count : z = StartOf(m) + Len(Chunk(m))
      <4>1. Len(Chunk(m)) \in 1 .. Len(Chunk(m))
        BY <2>1
      <4>2. StartOf(m) + Len(Chunk(m)) \in 1 .. Count
        BY <2>1, <4>1
      <4>3. QED
        BY <4>2
    <3>2. PICK c \in D : z \in Filled(c)
      BY <1>3, <2>4, RewardsAre
    <3>3. StartOf(c) + 1 <= z /\ z <= StartOf(c) + Len(threads[c].out)
      BY <2>1, <2>3, <3>2 DEF Filled
    <3>4. c # m
      BY <2>1, <2>3, <2>9, <3>1, <3>3
    <3>5. threads[m].out # Chunk(m)
      BY <2>1, <2>9
    <3>6. threads[c].out = Chunk(c)
      BY <3>4, <3>5
    <3>7. CASE c < m
      <4>1. StartOf(c) + Len(Chunk(c)) <= StartOf(m)
        BY <2>2, <3>7
      <4>2. QED
        BY <2>1, <3>1, <3>3, <3>6, <4>1
    <3>8. CASE m < c
      <4>1. StartOf(m) + Len(Chunk(m)) <= StartOf(c)
        BY <2>2, <3>8
      <4>2. QED
        BY <2>1, <3>1, <3>3, <4>1
    <3>9. QED
      BY <2>1, <3>4, <3>7, <3>8
  <2>10. CASE Len(threads[m].out) = Len(Chunk(m)) + 1 /\ \A j \in 1 .. Len(Chunk(m)) : threads[m].out[j] = Chunk(m)[j]
    <3>1. CASE x - StartOf(m) \in 1 .. Len(Chunk(m))
      BY <2>1, <2>6, <2>7, <2>10, <3>1
    \* The score too many is overwritten by the next chunk, or makes the list longer.
    <3>2. CASE x - StartOf(m) \notin 1 .. Len(Chunk(m))
      <4>1. x = StartOf(m) + Len(Chunk(m)) + 1
        <5>1. PICK a \in Nat, b \in Nat : a = StartOf(m) /\ b = Len(Chunk(m))
          BY <2>1
        <5>2. x - a \in 1 .. b + 1 /\ x - a \notin 1 .. b /\ x \in Int /\ a + (x - a) = x
          BY <2>1, <2>7, <2>10, <3>2, <5>1
        <5>3. x = a + b + 1
          BY <5>2
        <5>4. QED
          BY <5>1, <5>3
      <4>2. m # ChunkCount
        BY <2>1, <4>1
      <4>3. m + 1 \in D /\ StartOf(m + 1) = StartOf(m) + Len(Chunk(m))
        BY <2>1, <4>2
      <4>4. threads[m].out # Chunk(m) /\ m + 1 # m
        BY <2>1, <2>10
      <4>5. threads[m + 1].out = Chunk(m + 1)
        BY <4>3, <4>4
      <4>6. Len(threads[m + 1].out) >= 1 /\ Len(threads[m + 1].out) \in Nat
        BY <2>1, <4>3, <4>5
      <4>7. x \in Filled(m + 1)
        <5>1. StartOf(m + 1) \in Nat /\ x = StartOf(m + 1) + 1
          BY <2>1, <4>1, <4>3
        <5>2. x \in StartOf(m + 1) + 1 .. StartOf(m + 1) + Len(threads[m + 1].out)
          BY <4>6, <5>1
        <5>3. QED
          BY <5>2 DEF Filled
      <4>8. m + 1 <= m
        BY <2>6, <4>3, <4>7
      <4>9. QED
        BY <2>1, <4>8
    <3>3. QED
      BY <3>1, <3>2
  <2>11. QED
    BY <2>3, <2>8, <2>9, <2>10
<1>4. QED
  BY <1>2, <1>3

(***************************************************************************)
(* The invariant                                                           *)
(***************************************************************************)

IInv == BatchAgrees /\ SamplesComplete

Threads == [st: {"running", "done", "failed"}, out: Seq(Sample \cup {Unscored})]

LEMMA AskedIs ==
    ASSUME TypeOK, PromptsAreNew, pc # "idle"
    PROVE  Asked
  BY Bounds DEF TypeOK, PromptsAreNew, Asked

(* What the pool is while it is waited for.                                *)
LEMMA PoolIs ==
    ASSUME BatchAgrees
    PROVE  /\ threads \in Seq(Threads) /\ Len(threads) \in Nat /\ DOMAIN threads = 1 .. Len(threads)
           /\ \A t \in DOMAIN threads : threads[t] \in Threads
           /\ pc = "joining" => Len(threads) = PartCount
           /\ pc = "scoring" => Len(threads) = ChunkCount
<1>1. threads \in Seq(Threads)
  BY DEF BatchAgrees, TypeOK, Threads
<1>2. QED
  BY <1>1, LenProperties, ElementOfSeq DEF BatchAgrees, JoiningFits, ScoringFits

LEMMA InitHolds == Init => IInv
<1> SUFFICES ASSUME Init PROVE IInv
  OBVIOUS
<1> USE DEF Init
<1>1. \A X : << >> \in Seq(X) /\ Len(<< >>) = 0 /\ DOMAIN << >> = {}
  OBVIOUS
<1>2. TypeOK
  BY <1>1, Bounds DEF TypeOK
<1>3. BatchAgrees
  BY <1>1, <1>2 DEF BatchAgrees, PromptsAreNew, OnlyDoneShow, JoiningFits, ScoringFits, Accepted
<1>4. QED
  BY <1>3 DEF IInv, SamplesComplete

(* What depends on the variables a thread leaves alone.                    *)
LEMMA SameBatch ==
    ASSUME UNCHANGED <<requests, trajectories>>
    PROVE  /\ PartCount' = PartCount /\ ChunkCount' = ChunkCount
           /\ \A p : Samples(Part(p))' = Samples(Part(p))
           /\ \A c : Chunk(c)' = Chunk(c)
           /\ \A i : Rows(i)' = Rows(i)
           /\ \A ts : Unexpected(ts)' = Unexpected(ts)
           /\ \A ts : Missing(ts)' = Missing(ts)
           /\ Unexpected(trajectories)' = Unexpected(trajectories)
           /\ Missing(trajectories)' = Missing(trajectories)
<1>1. requests' = requests /\ trajectories' = trajectories
  OBVIOUS
<1>2. PartCount' = PartCount /\ \A p : Samples(Part(p))' = Samples(Part(p))
  BY <1>1 DEF PartCount, Part, Samples
<1>3. ChunkCount' = ChunkCount /\ \A c : Chunk(c)' = Chunk(c)
  BY <1>1 DEF ChunkCount, ChunkSize, Chunked, Count, Chunk, StartOf
<1>4. \A i : Rows(i)' = Rows(i)
  BY <1>1 DEF Rows
<1>5. \A ts : Unexpected(ts)' = Unexpected(ts) /\ Missing(ts)' = Missing(ts)
  BY <1>1 DEF Unexpected, Missing
<1>6. Unexpected(trajectories)' = Unexpected(trajectories) /\ Missing(trajectories)' = Missing(trajectories)
  BY <1>1 DEF Unexpected, Missing
<1>7. QED
  BY <1>2, <1>3, <1>4, <1>5, <1>6

(* A thread ends: it returned what its part or its chunk allows, or        *)
(* nothing.                                                                *)
LEMMA EndKeeps ==
    ASSUME IInv, NEW t \in DOMAIN threads, NEW st \in {"done", "failed"}, NEW out \in Seq(Sample),
           Ends(t, st, out), faults' \in 0 .. MaxFaults, pc \in {"joining", "scoring"},
           st = "failed" => out = << >>,
           pc = "joining" /\ st = "done" => out \in {Base(t)} \cup Mistaken(Base(t)),
           pc = "scoring" /\ st = "done" => out \in Scored(t),
           pc = "scoring" => Cardinality(WrongChunks') <= MaxWrongChunks
    PROVE  IInv'
<1> DEFINE new == [st |-> st, out |-> out]
<1>1. /\ UNCHANGED <<pc, drawn, requests, attempt, trajectories, groups>>
      /\ threads' = [threads EXCEPT ![t] = new]
  BY DEF Ends
<1>2. /\ threads \in Seq(Threads) /\ DOMAIN threads = 1 .. Len(threads)
      /\ Len(threads) \in Nat /\ BatchAgrees /\ TypeOK
  BY PoolIs DEF IInv, BatchAgrees
<1>3. new \in Threads
  <2>1. out \in Seq(Sample \cup {Unscored})
    BY SeqMonotonic
  <2>2. QED
    BY <2>1 DEF Threads
<1>4. /\ threads' \in Seq(Threads) /\ Len(threads') = Len(threads) /\ DOMAIN threads' = DOMAIN threads
      /\ \A u \in DOMAIN threads : threads'[u] = IF u = t THEN new ELSE threads[u]
  <2>1. t \in 1 .. Len(threads)
    BY <1>2
  <2>2. [threads EXCEPT ![t] = new] \in Seq(Threads) /\ Len([threads EXCEPT ![t] = new]) = Len(threads)
    BY <1>2, <1>3, <2>1, ExceptSeq
  <2>3. QED
    BY <1>1, <2>2
<1>5. /\ PartCount' = PartCount /\ ChunkCount' = ChunkCount
      /\ \A p : Samples(Part(p))' = Samples(Part(p))
      /\ \A c : Chunk(c)' = Chunk(c)
      /\ \A i : Rows(i)' = Rows(i)
      /\ Unexpected(trajectories)' = Unexpected(trajectories)
      /\ Missing(trajectories)' = Missing(trajectories)
  BY <1>1, SameBatch
<1>6. TypeOK'
  BY <1>1, <1>2, <1>4, <1>5 DEF TypeOK, Threads, PromptIds
<1>7. PromptsAreNew' /\ (pc' \notin {"joining", "scoring"} => threads' = << >>)
      /\ (pc' \in {"idle", "dispatch", "joining"} => trajectories' = << >>)
  BY <1>1, <1>2 DEF BatchAgrees, PromptsAreNew
<1>8. OnlyDoneShow'
  BY <1>2, <1>4 DEF OnlyDoneShow, BatchAgrees
<1>9. JoiningFits'
  <2> SUFFICES ASSUME pc = "joining"
               PROVE  /\ Len(threads') = PartCount'
                      /\ \A p \in DOMAIN threads' : threads'[p].st = "done" =>
                           threads'[p].out \in {Samples(Part(p))'} \cup Mistaken(Samples(Part(p)))'
    BY <1>1 DEF JoiningFits
  <2>1. Len(threads) = PartCount /\ \A p \in DOMAIN threads : threads[p].st = "done" =>
             threads[p].out \in {Samples(Part(p))} \cup Mistaken(Samples(Part(p)))
    BY <1>2 DEF BatchAgrees, JoiningFits
  <2>2. \A p : Mistaken(Samples(Part(p)))' = Mistaken(Samples(Part(p)))
    BY <1>5 DEF Mistaken
  <2>3. \A p \in DOMAIN threads : threads'[p].st = "done" =>
             threads'[p].out \in {Samples(Part(p))} \cup Mistaken(Samples(Part(p)))
    BY <1>4, <2>1 DEF Base
  <2>4. QED
    BY <1>4, <1>5, <2>1, <2>2, <2>3
<1>10. ScoringFits'
  <2> SUFFICES ASSUME pc = "scoring"
               PROVE  /\ Len(threads') = ChunkCount'
                      /\ \A c \in DOMAIN threads' : threads'[c].st = "done" => threads'[c].out \in Scored(c)'
                      /\ Cardinality(WrongChunks') <= MaxWrongChunks
    BY <1>1 DEF ScoringFits, Scored
  <2>1. Len(threads) = ChunkCount /\ \A c \in DOMAIN threads : threads[c].st = "done" => threads[c].out \in Scored(c)
    BY <1>2 DEF BatchAgrees, ScoringFits, Scored
  <2>2. \A c : Scored(c)' = Scored(c)
    BY <1>5 DEF Scored
  <2>3. \A c \in DOMAIN threads : threads'[c].st = "done" => threads'[c].out \in Scored(c)
    BY <1>4, <2>1
  <2>4. QED
    BY <1>4, <1>5, <2>1, <2>2, <2>3
<1>11. Accepted'
  BY <1>1, <1>2, <1>5 DEF Accepted, BatchAgrees
<1>12. SamplesComplete'
  BY <1>1 DEF IInv, SamplesComplete
<1>13. QED
  BY <1>6, <1>7, <1>8, <1>9, <1>10, <1>11, <1>12 DEF IInv, BatchAgrees

(* What a thread of the joining pool returns is typed.                     *)
LEMMA GenerateKeeps ==
    ASSUME IInv, NEW p \in DOMAIN threads, GenerateReturns(p) \/ GenerateRaises(p)
    PROVE  IInv'
<1>1. BatchAgrees /\ TypeOK /\ PromptsAreNew /\ pc = "joining" /\ faults \in 0 .. MaxFaults
  BY DEF IInv, BatchAgrees, TypeOK, GenerateReturns, GenerateRaises
<1>2. Asked /\ p \in 1 .. PartCount
  BY <1>1, AskedIs, PoolIs
<1>3. Base(p) \in Seq(Sample) /\ \A out \in Mistaken(Base(p)) : out \in Seq(Sample)
  <2>1. /\ Base(p) \in Seq(Sample)
        /\ \A x \in 1 .. Len(Base(p)) : \E i \in 1 .. PromptsPerIteration : Base(p)[x][1] = requests[i]
        /\ \A x, y \in 1 .. Len(Base(p)) : Base(p)[x] = Base(p)[y] => x = y
    BY <1>2, BaseIs
  <2>2. 0 \in PromptIds /\ \A x \in 1 .. Len(Base(p)) : Base(p)[x][1] \in PromptIds
    BY <1>2, <2>1, RequestsAre
  <2>3. \A out \in {Base(p)} \cup Mistaken(Base(p)) : out \in Seq(Sample)
    BY <2>1, <2>2, OutcomeIs
  <2>4. QED
    BY <2>1, <2>3
<1>4. faults' \in 0 .. MaxFaults
  BY <1>1, Bounds DEF GenerateReturns, GenerateRaises, Misbehave
<1>5. CASE Ends(p, "done", Samples(Part(p)))
  BY <1>1, <1>3, <1>4, <1>5, EndKeeps DEF Base
<1>6. CASE \E out \in Mistaken(Samples(Part(p))) : Ends(p, "done", out)
  <2>1. PICK out \in Mistaken(Base(p)) : Ends(p, "done", out)
    BY <1>6 DEF Base
  <2>2. QED
    BY <1>1, <1>3, <1>4, <2>1, EndKeeps
<1>7. CASE Ends(p, "failed", << >>)
  <2>1. << >> \in Seq(Sample)
    OBVIOUS
  <2>2. QED
    BY <1>1, <1>4, <1>7, <2>1, EndKeeps
<1>8. QED
  BY <1>5, <1>6, <1>7 DEF GenerateReturns, GenerateRaises

(* The chunks with a wrong number of scores are among the threads.         *)
LEMMA WrongChunksAre ==
    ASSUME BatchAgrees
    PROVE  /\ IsFiniteSet(WrongChunks) /\ Cardinality(WrongChunks) \in Nat
           /\ WrongChunks \in SUBSET DOMAIN threads
<1>1. DOMAIN threads = 1 .. Len(threads) /\ Len(threads) \in Int
  BY PoolIs
<1>2. IsFiniteSet(DOMAIN threads)
  BY <1>1, FS_Interval
<1>3. WrongChunks \in SUBSET DOMAIN threads
  BY DEF WrongChunks
<1>4. IsFiniteSet(WrongChunks)
  BY <1>2, <1>3, FS_Subset
<1>5. QED
  BY <1>3, <1>4, FS_CardinalityType

LEMMA ScoreKeeps ==
    ASSUME IInv, NEW c \in DOMAIN threads, ScoreReturns(c) \/ ScoreRaises(c)
    PROVE  IInv'
<1>1. BatchAgrees /\ TypeOK /\ pc = "scoring" /\ faults \in 0 .. MaxFaults /\ trajectories \in Seq(Sample)
  BY DEF IInv, BatchAgrees, TypeOK, ScoreReturns, ScoreRaises
<1>2. c \in 1 .. ChunkCount /\ Cardinality(WrongChunks) <= MaxWrongChunks
  BY <1>1, PoolIs DEF BatchAgrees, ScoringFits
<1>3. faults' \in 0 .. MaxFaults
  BY <1>1, Bounds DEF ScoreReturns, ScoreRaises, Misbehave
<1>4. PICK st, out :
        /\ st \in {"done", "failed"} /\ Ends(c, st, out)
        /\ \/ st = "done" /\ out = Chunk(c)
           \/ st = "done" /\ out \in Scored(c) /\ Cardinality(WrongChunks) < MaxWrongChunks
           \/ st = "failed" /\ out = << >>
  BY DEF ScoreReturns, ScoreRaises, Scored
<1>5. Chunk(c) \in Scored(c) /\ << >> \in Seq(Sample)
  BY DEF Scored
<1>6. out \in Seq(Sample) /\ (st = "done" => out \in Scored(c))
  BY <1>1, <1>2, <1>4, <1>5, ScoredIs
<1>7. Cardinality(WrongChunks') <= MaxWrongChunks
  <2>1. /\ UNCHANGED <<requests, trajectories>> /\ threads[c].st = "running"
        /\ threads' = [threads EXCEPT ![c] = [st |-> st, out |-> out]]
    BY <1>4 DEF Ends
  <2>2. \A d : Chunk(d)' = Chunk(d)
    BY <2>1, SameBatch
  <2>3. /\ DOMAIN threads' = DOMAIN threads
        /\ \A d \in DOMAIN threads : d # c => threads'[d] = threads[d]
        /\ threads'[c].st = st /\ threads'[c].out = out
    BY <2>1
  <2>4. WrongChunks' = {d \in DOMAIN threads : threads'[d].st = "done" /\ threads'[d].out # Chunk(d)}
    BY <2>2, <2>3 DEF WrongChunks
  <2>5. \A d \in WrongChunks' : d \in WrongChunks \/ (d = c /\ st = "done" /\ out # Chunk(c))
    <3> TAKE d \in WrongChunks'
    <3>1. d \in DOMAIN threads /\ threads'[d].st = "done" /\ threads'[d].out # Chunk(d)
      BY <2>4
    <3>2. CASE d = c
      BY <2>3, <3>1, <3>2
    <3>3. CASE d # c
      BY <2>3, <3>1, <3>3 DEF WrongChunks
    <3>4. QED
      BY <3>2, <3>3
  <2>6. IsFiniteSet(WrongChunks) /\ Cardinality(WrongChunks) \in Nat
    BY <1>1, WrongChunksAre
  <2>7. CASE st = "done" /\ out # Chunk(c)
    <3>1. Cardinality(WrongChunks) < MaxWrongChunks
      BY <1>4, <2>7
    <3>2. IsFiniteSet(WrongChunks \cup {c}) /\ Cardinality(WrongChunks \cup {c}) <= Cardinality(WrongChunks) + 1
      <4>1. /\ IsFiniteSet(WrongChunks \cup {c})
            /\ \/ Cardinality(WrongChunks \cup {c}) = Cardinality(WrongChunks)
               \/ Cardinality(WrongChunks \cup {c}) = Cardinality(WrongChunks) + 1
        BY <2>6, FS_AddElement, Zenon
      <4>2. QED
        BY <2>6, <4>1
    <3>3. WrongChunks' \in SUBSET (WrongChunks \cup {c})
      BY <2>5
    <3>4. IsFiniteSet(WrongChunks') /\ Cardinality(WrongChunks') <= Cardinality(WrongChunks \cup {c})
      BY <3>2, <3>3, FS_Subset
    <3>5. Cardinality(WrongChunks') \in Nat /\ Cardinality(WrongChunks \cup {c}) \in Nat
      BY <3>2, <3>4, FS_CardinalityType
    <3>6. QED
      BY <2>6, <3>1, <3>2, <3>4, <3>5, Bounds
  <2>8. CASE ~ (st = "done" /\ out # Chunk(c))
    <3>1. WrongChunks' \in SUBSET WrongChunks
      BY <2>5, <2>8
    <3>2. IsFiniteSet(WrongChunks') /\ Cardinality(WrongChunks') <= Cardinality(WrongChunks)
      BY <2>6, <3>1, FS_Subset
    <3>3. Cardinality(WrongChunks') \in Nat
      BY <3>2, FS_CardinalityType
    <3>4. QED
      BY <1>2, <2>6, <3>2, <3>3, Bounds
  <2>9. QED
    BY <2>7, <2>8
<1>8. pc \in {"joining", "scoring"} /\ pc # "joining" /\ (st = "failed" => out = << >>)
  BY <1>1, <1>4
<1>9. QED
  BY <1>3, <1>4, <1>6, <1>7, <1>8, EndKeeps

(* The prompts of the next batch.                                          *)
LEMMA DrawKeeps ==
    ASSUME IInv, DrawPrompts
    PROVE  IInv'
<1> DEFINE P == PromptsPerIteration
           M == MaxBatches * PromptsPerIteration
<1>1. /\ P \in Nat \ {0} /\ M \in Nat /\ drawn \in 0 .. M /\ drawn + P <= M
      /\ drawn' = drawn + P /\ requests' = [i \in 1 .. P |-> drawn + i - 1]
      /\ pc' = "dispatch" /\ pc \in {"idle", "handed", "raised"}
      /\ attempt' = 1 /\ trajectories' = << >> /\ groups' = << >>
      /\ UNCHANGED <<threads, faults>>
  BY Bounds DEF DrawPrompts, IInv, BatchAgrees, TypeOK
<1>2. threads = << >> /\ TypeOK /\ BatchAgrees
  BY <1>1 DEF IInv, BatchAgrees
<1>3. drawn' \in P .. M
  BY <1>1
<1>4. requests' = [i \in 1 .. P |-> drawn' - P + i - 1]
  <2>1. \A i \in 1 .. P : drawn + i - 1 = drawn' - P + i - 1
    BY <1>1
  <2>2. QED
    BY <1>1, <2>1
<1>5. PromptsAreNew' /\ Asked'
  BY <1>1, <1>3, <1>4 DEF PromptsAreNew, Asked
<1>6. requests' \in Seq(PromptIds)
  <2>1. \A i \in 1 .. P : drawn + i - 1 \in PromptIds
    BY <1>1 DEF PromptIds
  <2>2. requests' \in [1 .. P -> PromptIds]
    BY <1>1, <2>1
  <2>3. QED
    BY <1>1, <2>2, SeqDef
<1>7. TypeOK'
  <2>1. << >> \in Seq(Sample) /\ MaxAttempts \in Nat \ {0} /\ Len(<< >>) = 0
    BY Bounds
  <2>2. threads' = << >> /\ Len(threads') <= RewardWorkers /\ threads' \in Seq(Threads) /\ pc' # "joining"
    BY <1>1, <1>2, <2>1, Bounds
  <2>3. faults' \in 0 .. MaxFaults
    BY <1>1, <1>2 DEF TypeOK
  <2>4. QED
    BY <1>1, <1>3, <1>6, <2>1, <2>2, <2>3 DEF TypeOK, Threads, PromptIds
<1>8. OnlyDoneShow' /\ JoiningFits' /\ ScoringFits' /\ Accepted' /\ SamplesComplete'
  BY <1>1, <1>2 DEF OnlyDoneShow, JoiningFits, ScoringFits, Accepted, SamplesComplete
<1>9. QED
  BY <1>1, <1>2, <1>5, <1>7, <1>8 DEF IInv, BatchAgrees

LEMMA DispatchKeeps ==
    ASSUME IInv, Dispatch
    PROVE  IInv'
<1>1. /\ BatchAgrees /\ TypeOK /\ PromptsAreNew /\ pc = "dispatch" /\ pc' = "joining" /\ threads' = Pool(PartCount)
      /\ UNCHANGED <<drawn, requests, attempt, trajectories, groups, faults>>
  BY DEF Dispatch, IInv, BatchAgrees
<1>2. Asked /\ PartCount' = PartCount
  BY <1>1, AskedIs, SameBatch
<1>3. PartCount \in Nat /\ PartCount <= RolloutWorkers
  BY <1>2, RequestsAre, Bounds DEF PartCount
<1>4. Running \in Threads /\ Running.st = "running" /\ Running.out = << >>
  BY DEF Running, Threads
<1>5. /\ threads' \in Seq(Threads) /\ Len(threads') = PartCount
      /\ \A t \in DOMAIN threads' : threads'[t] = Running
  <2>1. threads' = [t \in 1 .. PartCount |-> Running] /\ threads' \in [1 .. PartCount -> Threads]
    BY <1>1, <1>4 DEF Pool
  <2>2. QED
    BY <1>3, <2>1, SeqDef, LenProperties
<1>6. TypeOK'
  BY <1>1, <1>3, <1>5 DEF TypeOK, Threads, PromptIds
<1>7. OnlyDoneShow' /\ JoiningFits' /\ ScoringFits'
  BY <1>1, <1>2, <1>4, <1>5 DEF OnlyDoneShow, JoiningFits, ScoringFits
<1>8. Accepted' /\ SamplesComplete' /\ PromptsAreNew'
  BY <1>1 DEF Accepted, SamplesComplete, PromptsAreNew
<1>9. trajectories' = << >>
  BY <1>1 DEF BatchAgrees
<1>10. QED
  BY <1>1, <1>6, <1>7, <1>8, <1>9 DEF IInv, BatchAgrees

(* The threads have returned: what passes the two checks is complete, and  *)
(* what does not leaves nothing for the next attempt to mix with.          *)
LEMMA JoinedKeeps ==
    ASSUME IInv, Joined
    PROVE  IInv'
<1> DEFINE ts == FlattenSeq(Results)
<1>1. /\ BatchAgrees /\ TypeOK /\ PromptsAreNew /\ pc = "joining" /\ AllEnded /\ threads' = << >>
      /\ UNCHANGED <<drawn, requests, groups, faults>> /\ trajectories = << >>
  BY DEF Joined, IInv, BatchAgrees
<1>2. /\ Asked /\ threads \in Seq(Threads) /\ DOMAIN threads = 1 .. PartCount /\ PartCount \in Nat
      /\ \A t \in 1 .. PartCount : threads[t] \in Threads
  BY <1>1, AskedIs, PoolIs
<1>3. << >> \in Seq(Threads) /\ Len(<< >>) = 0 /\ DOMAIN << >> = {} /\ << >> \in Seq(Sample)
  OBVIOUS
<1>4. CASE pc' # "score"
  <2>1. /\ pc' \in {"dispatch", "raised"} /\ attempt' \in 1 .. MaxAttempts /\ UNCHANGED trajectories
    BY <1>1, <1>4, Bounds DEF Joined, RetryOrRaise, TypeOK
  <2>2. TypeOK'
    BY <1>1, <1>3, <2>1, Bounds DEF TypeOK, Threads, PromptIds
  <2>3. /\ OnlyDoneShow' /\ JoiningFits' /\ ScoringFits' /\ Accepted' /\ SamplesComplete' /\ PromptsAreNew'
    BY <1>1, <1>3, <2>1 DEF OnlyDoneShow, JoiningFits, ScoringFits, Accepted, SamplesComplete, PromptsAreNew
  <2>4. QED
    BY <1>1, <2>1, <2>2, <2>3 DEF IInv, BatchAgrees
<1>5. CASE pc' = "score"
  <2>1. /\ ~ OneFailed /\ ~ Unexpected(ts) /\ ~ Missing(ts) /\ trajectories' = ts /\ UNCHANGED attempt
    BY <1>5 DEF Joined, RetryOrRaise
  <2>2. PICK R : R = Results
    OBVIOUS
  <2>3. /\ DOMAIN R = 1 .. PartCount
        /\ \A t \in 1 .. PartCount : threads[t].st = "done" /\ R[t] = threads[t].out
    BY <1>1, <1>2, <2>1, <2>2 DEF Results, AllEnded, OneFailed, Threads
  <2>4. \A t \in 1 .. PartCount : R[t] \in {Base(t)} \cup Mistaken(Base(t))
    BY <1>1, <1>2, <2>3 DEF BatchAgrees, JoiningFits, Base
  <2>5. \A t \in 1 .. PartCount : R[t] \in Seq(Sample)
    <3> TAKE t \in 1 .. PartCount
    <3>1. /\ Base(t) \in Seq(Sample)
          /\ \A x \in 1 .. Len(Base(t)) : \E i \in 1 .. PromptsPerIteration : Base(t)[x][1] = requests[i]
          /\ \A x, y \in 1 .. Len(Base(t)) : Base(t)[x] = Base(t)[y] => x = y
      BY <1>2, BaseIs
    <3>2. 0 \in PromptIds /\ \A x \in 1 .. Len(Base(t)) : Base(t)[x][1] \in PromptIds
      BY <1>2, <3>1, RequestsAre
    <3>3. QED
      BY <2>4, <3>1, <3>2, OutcomeIs
  <2>6. R \in Seq(Seq(Sample)) /\ Len(R) = PartCount
    <3>1. R = [t \in 1 .. PartCount |-> R[t]]
      BY <2>2, <2>3 DEF Results
    <3>2. R \in [1 .. PartCount -> Seq(Sample)]
      BY <2>5, <3>1
    <3>3. QED
      BY <1>2, <3>2, SeqDef, LenProperties
  <2>7. PICK s : s = ts
    OBVIOUS
  <2>8. s \in Seq(Sample) /\ s = FlattenSeq(R) /\ ~ Unexpected(s) /\ ~ Missing(s) /\ trajectories' = s
    BY <2>1, <2>2, <2>6, <2>7, FlattenIs
  <2> HIDE DEF ts
  <2>9. \A i \in 1 .. PromptsPerIteration, k \in 1 .. SamplesPerPrompt : \E x \in 1 .. Len(s) : s[x] = <<requests[i], k>>
    <3>1. \A t \in 1 .. Len(R) : R[t] \in {Base(t)} \cup Mistaken(Base(t))
      BY <2>4, <2>6
    <3>2. Returned(R)
      BY <2>6, <3>1 DEF Returned
    <3>3. HasAll(s)
      BY <1>2, <2>8, <3>2, ChecksSee
    <3>4. QED
      BY <3>3 DEF HasAll
  <2>10. TypeOK'
    BY <1>1, <1>3, <1>5, <2>1, <2>8, Bounds DEF TypeOK, Threads, PromptIds, Sample
  <2>11. OnlyDoneShow' /\ JoiningFits' /\ ScoringFits' /\ PromptsAreNew'
    BY <1>1, <1>3, <1>5 DEF OnlyDoneShow, JoiningFits, ScoringFits, PromptsAreNew
  <2>12. Accepted'
    BY <1>1, <2>8 DEF Accepted, Unexpected, Missing
  <2>13. SamplesComplete'
    <3>1. DOMAIN s = 1 .. Len(s) /\ DOMAIN requests = 1 .. PromptsPerIteration
      BY <1>2, <2>8, LenProperties, RequestsAre
    <3>2. ASSUME NEW e \in {requests[i] : i \in DOMAIN requests} \X (1 .. SamplesPerPrompt)
          PROVE  e \in ToSet(s)
      <4>1. PICK i \in 1 .. PromptsPerIteration, k \in 1 .. SamplesPerPrompt : e = <<requests[i], k>>
        BY <3>1
      <4>2. PICK x \in 1 .. Len(s) : s[x] = e
        BY <2>9, <4>1
      <4>3. QED
        BY <3>1, <4>2 DEF ToSet
    <3>3. \A x \in DOMAIN s : s[x][1] \in ToSet(requests)
      BY <2>8 DEF Unexpected, ToSet
    <3>4. /\ {requests[i] : i \in DOMAIN requests} \X (1 .. SamplesPerPrompt) \subseteq ToSet(s)
          /\ \A x \in DOMAIN s : s[x][1] \in ToSet(requests)
      BY <3>2, <3>3
    <3>5. trajectories' = s /\ requests' = requests
      BY <1>1, <2>8
    <3>6. QED
      BY <3>4, <3>5 DEF SamplesComplete
  <2>14. QED
    BY <1>1, <1>5, <2>10, <2>11, <2>12, <2>13 DEF IInv, BatchAgrees
<1>6. QED
  BY <1>4, <1>5

LEMMA StartScoringKeeps ==
    ASSUME IInv, StartScoring
    PROVE  IInv'
<1>1. /\ BatchAgrees /\ TypeOK /\ PromptsAreNew /\ pc = "score" /\ pc' = "scoring" /\ threads' = Pool(ChunkCount)
      /\ UNCHANGED <<drawn, requests, attempt, trajectories, groups, faults>> /\ trajectories \in Seq(Sample)
  BY DEF StartScoring, IInv, BatchAgrees, TypeOK
<1>2. /\ ChunkCount' = ChunkCount /\ \A c : Chunk(c)' = Chunk(c)
      /\ Unexpected(trajectories)' = Unexpected(trajectories) /\ Missing(trajectories)' = Missing(trajectories)
  BY <1>1, SameBatch
<1>3. ChunkCount \in Nat /\ ChunkCount <= RewardWorkers
  <2>1. CASE Chunked
    BY <1>1, <2>1, ChunksAre, Bounds
  <2>2. CASE ~ Chunked
    BY <2>2, Bounds DEF ChunkCount
  <2>3. QED
    BY <2>1, <2>2
<1>4. Running \in Threads /\ Running.st = "running" /\ Running.out = << >>
  BY DEF Running, Threads
<1>5. /\ threads' \in Seq(Threads) /\ Len(threads') = ChunkCount
      /\ \A t \in DOMAIN threads' : threads'[t] = Running
  <2>1. threads' = [t \in 1 .. ChunkCount |-> Running] /\ threads' \in [1 .. ChunkCount -> Threads]
    BY <1>1, <1>4 DEF Pool
  <2>2. QED
    BY <1>3, <2>1, SeqDef, LenProperties
<1>6. TypeOK'
  BY <1>1, <1>3, <1>5 DEF TypeOK, Threads, PromptIds
<1>7. WrongChunks' = {}
  BY <1>4, <1>5 DEF WrongChunks
<1>8. OnlyDoneShow' /\ JoiningFits' /\ ScoringFits'
  BY <1>1, <1>2, <1>4, <1>5, <1>7, FS_EmptySet, Bounds DEF OnlyDoneShow, JoiningFits, ScoringFits
<1>9. Accepted' /\ SamplesComplete' /\ PromptsAreNew'
  BY <1>1, <1>2 DEF IInv, BatchAgrees, Accepted, SamplesComplete, PromptsAreNew
<1>10. QED
  BY <1>1, <1>6, <1>8, <1>9 DEF IInv, BatchAgrees

(* When every thread of the scoring pool has ended and none failed.        *)
LEMMA PoolDone ==
    ASSUME IInv, pc = "scoring", AllEnded, ~ OneFailed
    PROVE  AllDone /\ \A c \in 1 .. ChunkCount : threads[c].out # Chunk(c) => c \in WrongChunks
<1>1. /\ BatchAgrees /\ DOMAIN threads = 1 .. ChunkCount /\ \A t \in DOMAIN threads : threads[t] \in Threads
      /\ trajectories \in Seq(Sample)
  BY PoolIs DEF IInv, BatchAgrees, TypeOK
<1>2. \A c \in DOMAIN threads : threads[c].st = "done"
  BY <1>1 DEF AllEnded, OneFailed, Threads
<1>3. \A c \in DOMAIN threads : threads[c].out \in Scored(c)
  BY <1>1, <1>2 DEF BatchAgrees, ScoringFits, Scored
<1>4. \A c \in DOMAIN threads : threads[c].out # Chunk(c) => c \in WrongChunks
  BY <1>2 DEF WrongChunks
<1>5. QED
  BY <1>1, <1>3, <1>4 DEF AllDone

\* The rows of a group.
LEMMA GroupedIs ==
    /\ DOMAIN Grouped(Rewards) = DOMAIN requests
    /\ \A i \in DOMAIN requests :
         /\ DOMAIN Grouped(Rewards)[i] = Rows(i)
         /\ Grouped(Rewards)[i] = [x \in Rows(i) |-> <<trajectories[x], Rewards[x]>>]
  BY DEF Grouped

LEMMA HandOverKeeps ==
    ASSUME IInv, HandOver
    PROVE  IInv'
<1>1. /\ BatchAgrees /\ TypeOK /\ PromptsAreNew /\ pc = "scoring" /\ AllEnded /\ threads' = << >>
      /\ pc' \in {"handed", "raised"} /\ groups = << >> /\ trajectories \in Seq(Sample)
      /\ UNCHANGED <<drawn, requests, attempt, trajectories, faults>>
  BY DEF HandOver, IInv, BatchAgrees, TypeOK
<1>2. /\ \A i : Rows(i)' = Rows(i)
      /\ Unexpected(trajectories)' = Unexpected(trajectories) /\ Missing(trajectories)' = Missing(trajectories)
  BY <1>1, SameBatch
<1>3. << >> \in Seq(Threads) /\ Len(<< >>) = 0 /\ DOMAIN << >> = {}
  OBVIOUS
<1>4. pc' # "handed" => groups' = << >>
  BY <1>1 DEF HandOver
<1>5. ASSUME pc' = "handed"
      PROVE  /\ DOMAIN groups' = DOMAIN requests
             /\ \A i \in DOMAIN groups' : groups'[i] \in [Rows(i) -> Sample \X Sample]
  <2>1. ~ OneFailed /\ Len(Rewards) = Count /\ AllScored(Rewards) /\ groups' = Grouped(Rewards)
    BY <1>5 DEF HandOver
  <2>2. AllDone
    BY <1>1, <2>1, PoolDone
  <2>3. \A x \in 1 .. Count : Rewards[x] \in Sample
    BY <2>1, <2>2, RewardsAreScores
  <2>4. \A i : \A x \in Rows(i) : x \in 1 .. Count /\ trajectories[x] \in Sample
    BY <1>1, LenProperties, ElementOfSeq DEF Rows, Count
  <2>5. \A i \in DOMAIN requests : groups'[i] = [x \in Rows(i) |-> <<trajectories[x], Rewards[x]>>]
    BY <2>1, GroupedIs
  <2>6. DOMAIN groups' = DOMAIN requests
    BY <2>1, GroupedIs
  <2>7. \A i : \A x \in Rows(i) : <<trajectories[x], Rewards[x]>> \in Sample \X Sample
    BY <2>3, <2>4
  <2>8. QED
    BY <2>5, <2>6, <2>7
<1>6. TypeOK'
  <2>1. Len(threads') <= RewardWorkers /\ threads' \in Seq(Threads) /\ pc' # "joining"
    BY <1>1, <1>3, Bounds
  <2>2. pc' = "handed" => /\ DOMAIN groups' = DOMAIN requests'
                          /\ \A i \in DOMAIN groups' : groups'[i] \in [Rows(i)' -> Sample \X Sample]
    BY <1>1, <1>2, <1>5
  <2>3. QED
    BY <1>1, <1>4, <2>1, <2>2 DEF TypeOK, Threads, PromptIds, Sample
<1>7. OnlyDoneShow' /\ JoiningFits' /\ ScoringFits' /\ PromptsAreNew'
  BY <1>1, <1>3 DEF OnlyDoneShow, JoiningFits, ScoringFits, PromptsAreNew
<1>8. Accepted' /\ SamplesComplete'
  BY <1>1, <1>2 DEF IInv, BatchAgrees, Accepted, SamplesComplete
<1>9. QED
  BY <1>1, <1>6, <1>7, <1>8 DEF IInv, BatchAgrees

LEMMA StutterKeeps ==
    ASSUME IInv, UNCHANGED vars
    PROVE  IInv'
<1>1. UNCHANGED <<requests, trajectories>> /\ UNCHANGED <<pc, drawn, attempt, threads, groups, faults>>
  BY DEF vars
<1>2. /\ PartCount' = PartCount /\ ChunkCount' = ChunkCount
      /\ \A p : Samples(Part(p))' = Samples(Part(p))
      /\ \A c : Chunk(c)' = Chunk(c)
      /\ \A i : Rows(i)' = Rows(i)
      /\ Unexpected(trajectories)' = Unexpected(trajectories)
      /\ Missing(trajectories)' = Missing(trajectories)
  BY <1>1, SameBatch
<1>3. TypeOK'
  BY <1>1, <1>2 DEF IInv, BatchAgrees, TypeOK, PromptIds, Sample
<1>4. \A p : Mistaken(Samples(Part(p)))' = Mistaken(Samples(Part(p)))
  BY <1>2 DEF Mistaken
<1>5. JoiningFits'
  BY <1>1, <1>2, <1>4 DEF IInv, BatchAgrees, JoiningFits
<1>6. WrongChunks' = WrongChunks
  BY <1>1, <1>2 DEF WrongChunks
<1>7. ScoringFits'
  BY <1>1, <1>2, <1>6 DEF IInv, BatchAgrees, ScoringFits
<1>8. OnlyDoneShow' /\ PromptsAreNew' /\ Accepted' /\ SamplesComplete'
  BY <1>1, <1>2 DEF IInv, BatchAgrees, OnlyDoneShow, PromptsAreNew, Accepted, SamplesComplete
<1>9. QED
  BY <1>1, <1>3, <1>5, <1>7, <1>8 DEF IInv, BatchAgrees

LEMMA NextKeeps ==
    ASSUME IInv, [Next]_vars
    PROVE  IInv'
<1>1. CASE DrawPrompts
  BY <1>1, DrawKeeps
<1>2. CASE CallerStep
  BY <1>2, DispatchKeeps, JoinedKeeps, StartScoringKeeps, HandOverKeeps DEF CallerStep
<1>3. ASSUME NEW t \in 1 .. RolloutWorkers + RewardWorkers, ThreadStep(t)
      PROVE  IInv'
  BY <1>3, GenerateKeeps, ScoreKeeps DEF ThreadStep
<1>4. CASE Finished \/ UNCHANGED vars
  BY <1>4, StutterKeeps DEF Finished
<1>5. QED
  BY <1>1, <1>2, <1>3, <1>4 DEF Next

LEMMA Invariant == Spec => []IInv
<1>1. Init => IInv
  BY InitHolds
<1>2. IInv /\ [Next]_vars => IInv'
  BY NextKeeps
<1>3. QED
  BY <1>1, <1>2, PTL DEF Spec

(* The variables of the pipeline keep their types, whatever the backends   *)
(* return; in particular no pool ever has more threads than workers        *)
(* (rollout_worker.py:45-53, reward_worker.py:43-53).                      *)
THEOREM TypesCorrect == Spec => []TypeOK
<1>1. IInv => TypeOK
  BY DEF IInv, BatchAgrees
<1>2. QED
  BY <1>1, Invariant, PTL

(* At every moment the batch, the pool and the place of the controller     *)
(* agree: a pool has one thread for each part or chunk of the batch of     *)
(* this iteration and of this attempt (rollout_worker.py:45-53,            *)
(* reward_worker.py:40-53, retry.py:29-39).                                *)
THEOREM BatchCorrect == Spec => []BatchAgrees
<1>1. IInv => BatchAgrees
  BY DEF IInv
<1>2. QED
  BY <1>1, Invariant, PTL

(* A batch that is accepted has every sample of every prompt that was      *)
(* asked for and none of another prompt, although the checks only look for *)
(* foreign prompts and count, and each thread may make one mistake         *)
(* (rollout_worker.py:57-67).                                              *)
THEOREM SamplesCorrect == Spec => []SamplesComplete
<1>1. IInv => SamplesComplete
  BY DEF IInv
<1>2. QED
  BY <1>1, Invariant, PTL

(* No two chunks of a batch get a wrong number of scores.                  *)
LEMMA OneWrong ==
    ASSUME BatchAgrees, pc = "scoring", MaxWrongChunks <= 1, NEW c \in WrongChunks, NEW d \in WrongChunks
    PROVE  c = d
<1>1. IsFiniteSet(WrongChunks) /\ Cardinality(WrongChunks) \in Nat /\ Cardinality(WrongChunks) <= 1
  BY WrongChunksAre, Bounds DEF BatchAgrees, ScoringFits
<1>2. SUFFICES ASSUME c # d PROVE FALSE
  OBVIOUS
<1>3. IsFiniteSet({c}) /\ Cardinality({c}) = 1
  BY FS_Singleton
<1>4. IsFiniteSet({c} \cup {d}) /\ Cardinality({c} \cup {d}) = 2
  <2>1. d \notin {c}
    BY <1>2
  <2>2. IsFiniteSet({c} \cup {d}) /\ Cardinality({c} \cup {d}) = Cardinality({c}) + 1
    BY <1>3, <2>1, FS_AddElement, Zenon
  <2>3. QED
    BY <1>3, <2>2
<1>5. {c} \cup {d} \in SUBSET WrongChunks
  OBVIOUS
<1>6. Cardinality({c} \cup {d}) <= Cardinality(WrongChunks)
  BY <1>1, <1>5, FS_Subset
<1>7. QED
  BY <1>1, <1>4, <1>6

(* The groups train() forms: each row has its trajectory's reward.         *)
LEMMA HandOverOwn ==
    ASSUME IInv, HandOver, MaxWrongChunks <= 1
    PROVE  RewardsAreOwn'
<1> SUFFICES ASSUME pc' = "handed" PROVE RewardsAreOwn'
  BY DEF RewardsAreOwn
<1>1. /\ BatchAgrees /\ TypeOK /\ PromptsAreNew /\ pc = "scoring" /\ AllEnded /\ ~ OneFailed
      /\ Len(Rewards) = Count /\ AllScored(Rewards) /\ groups' = Grouped(Rewards)
      /\ UNCHANGED <<drawn, requests, attempt, trajectories, faults>> /\ trajectories \in Seq(Sample)
  BY DEF HandOver, IInv, BatchAgrees, TypeOK
<1>2. AllDone /\ \A c, d \in 1 .. ChunkCount : threads[c].out # Chunk(c) /\ threads[d].out # Chunk(d) => c = d
  BY <1>1, PoolDone, OneWrong
<1>3. \A x \in 1 .. Count : Rewards[x] = trajectories[x]
  BY <1>1, <1>2, OwnRewards
<1>4. DOMAIN trajectories = 1 .. Count /\ DOMAIN trajectories = 1 .. Len(trajectories)
  BY <1>1, LenProperties DEF Count
<1>5. ASSUME NEW i \in DOMAIN requests
      PROVE  /\ Cardinality(DOMAIN groups'[i]) >= SamplesPerPrompt
             /\ \A x \in DOMAIN groups'[i] :
                  groups'[i][x][2] = groups'[i][x][1] /\ groups'[i][x][1][1] = requests[i]
  <2>1. DOMAIN groups'[i] = Rows(i) /\ groups'[i] = [x \in Rows(i) |-> <<trajectories[x], Rewards[x]>>]
    BY <1>1, GroupedIs
  <2>2. \A x \in Rows(i) : groups'[i][x][2] = groups'[i][x][1] /\ groups'[i][x][1][1] = requests[i]
    <3> TAKE x \in Rows(i)
    <3>1. x \in 1 .. Count /\ trajectories[x][1] = requests[i]
      BY <1>4 DEF Rows
    <3>2. groups'[i][x] = <<trajectories[x], Rewards[x]>> /\ Rewards[x] = trajectories[x]
      BY <1>3, <2>1, <3>1
    <3>3. QED
      BY <3>1, <3>2
  <2>3. ~ (Cardinality(Rows(i)) < SamplesPerPrompt)
    BY <1>1, Zenon DEF BatchAgrees, Accepted, Missing, Rows
  <2>4. Rows(i) \in SUBSET (1 .. Len(trajectories)) /\ Len(trajectories) \in Nat
    BY <1>1, <1>4, LenProperties DEF Rows
  <2>5. IsFiniteSet(Rows(i)) /\ Cardinality(Rows(i)) \in Nat
    <3>1. IsFiniteSet(1 .. Len(trajectories))
      BY <2>4, FS_Interval
    <3>2. IsFiniteSet(Rows(i))
      BY <2>4, <3>1, FS_Subset
    <3>3. QED
      BY <3>2, FS_CardinalityType
  <2>6. Cardinality(Rows(i)) >= SamplesPerPrompt
    BY <2>3, <2>5, Bounds
  <2>7. QED
    BY <2>1, <2>2, <2>6
<1>6. requests' = requests
  BY <1>1
<1>7. QED
  BY <1>5, <1>6 DEF RewardsAreOwn

(* Every row a group is trained on carries the reward of its own response, *)
(* whatever order the chunks were scored in, as long as no more than one   *)
(* chunk of a batch gets a wrong number of scores: one that is short       *)
(* leaves a reward unset, one that is long is overwritten by the chunk     *)
(* after it or makes the list too long (reward_worker.py:40-59,            *)
(* quic_train.py:279-281).                                                 *)
THEOREM RewardsCorrect ==
    ASSUME MaxWrongChunks <= 1
    PROVE  Spec => []RewardsAreOwn
<1>1. Init => RewardsAreOwn
  BY DEF Init, RewardsAreOwn
<1>2. IInv /\ RewardsAreOwn /\ [Next]_vars => RewardsAreOwn'
  <2> SUFFICES ASSUME IInv, RewardsAreOwn, [Next]_vars, pc' = "handed"
               PROVE  RewardsAreOwn'
    BY DEF RewardsAreOwn
  <2>1. CASE HandOver
    BY <2>1, HandOverOwn
  <2>2. CASE UNCHANGED <<pc, groups, requests>>
    BY <2>2 DEF RewardsAreOwn
  <2>3. CASE DrawPrompts \/ Dispatch \/ StartScoring
    BY <2>3 DEF DrawPrompts, Dispatch, StartScoring
  <2>4. CASE Joined
    BY <2>4 DEF Joined, RetryOrRaise
  <2>5. ASSUME NEW t \in 1 .. RolloutWorkers + RewardWorkers, ThreadStep(t)
        PROVE  UNCHANGED <<pc, groups, requests>>
    BY <2>5 DEF ThreadStep, GenerateReturns, GenerateRaises, ScoreReturns, ScoreRaises, Ends
  <2>6. CASE Finished \/ UNCHANGED vars
    BY <2>2, <2>6 DEF Finished, vars
  <2>7. QED
    BY <2>1, <2>2, <2>3, <2>4, <2>5, <2>6 DEF Next, CallerStep
<1>3. QED
  BY <1>1, <1>2, Invariant, PTL DEF Spec

=============================================================================
