---------------------- MODULE EmbeddingBatches_proofs ----------------------
(***************************************************************************)
(* Proofs of the theorems about DocumentChunks and EmbeddingBatches: what  *)
(* the chunkers make of any document, and where its vectors go.            *)
(***************************************************************************)
EXTENDS EmbeddingBatches, SequenceTheorems, FiniteSetTheorems, TLAPS

-----------------------------------------------------------------------------
(* Numbers.  What recursive functions compute is shown by induction over a *)
(* set of numbers, which the well-foundedness of < justifies.              *)

\* A set of naturals has a least member.
LEMMA LeastNatural ==
    ASSUME NEW S \in SUBSET Nat, S # {}
    PROVE  \E m \in S : \A n \in S : m <= n
<1> DEFINE R == OpToRel(<, Nat)
<1>1. IsWellFoundedOn(R, Nat)
  BY NatLessThanWellFounded
<1>2. \A x, y \in Nat : x < y => <<x, y>> \in R
  BY DEF OpToRel
<1> HIDE DEF R
<1>3. PICK m \in S : \A n \in S : ~ (<<n, m>> \in R)
  BY <1>1, WFMin
<1>4. \A n \in S : ~ (n < m)
  BY <1>2, <1>3
<1> QED
  BY <1>4

\* Induction from a up to n.
LEMMA Induction ==
    ASSUME NEW a \in Int, NEW n \in Int, NEW S,
           a \in S, \A m \in a .. n - 1 : m \in S => m + 1 \in S
    PROVE  \A m \in a .. n : m \in S
<1> DEFINE T == {k \in Nat : a + k \in a .. n /\ a + k \notin S}
<1> SUFFICES ASSUME T # {} PROVE FALSE
  <2>1. ASSUME NEW m \in a .. n, m \notin S
        PROVE  m - a \in T
    <3>1. m - a \in Nat /\ a + (m - a) = m
      OBVIOUS
    <3> QED
      BY <2>1, <3>1
  <2> QED
    BY <2>1
<1>1. PICK k \in T : \A l \in T : k <= l
  BY LeastNatural
<1>2. k \in Nat /\ a + k \in a .. n /\ a + k \notin S
  OBVIOUS
<1>3. k # 0 /\ k - 1 \in Nat /\ a + (k - 1) \in a .. n - 1 /\ (a + (k - 1)) + 1 = a + k
  BY <1>2
<1>4. k - 1 \in T
  BY <1>2, <1>3
<1> HIDE DEF T
<1> QED
  BY <1>1, <1>2, <1>3, <1>4

\* The largest of a bounded set of numbers.
LEMMA MaxOf ==
    ASSUME NEW a \in Int, NEW b \in Int, NEW S \in SUBSET (a .. b), S # {}
    PROVE  Max(S) \in S /\ \A x \in S : x <= Max(S)
<1> DEFINE T == {n \in Nat : b - n \in S}
<1>1. \A x \in S : b - x \in T /\ b - (b - x) = x
  OBVIOUS
<1>2. PICK m \in T : \A n \in T : m <= n
  BY <1>1, LeastNatural
<1>3. ASSUME NEW x \in S
      PROVE  b - m >= x
  <2>1. x \in a .. b /\ m \in Nat
    BY <1>2
  <2>2. b - x \in T
    BY <1>1
  <2> HIDE DEF T
  <2>3. m <= b - x
    BY <1>2, <2>2
  <2> QED
    BY <2>1, <2>3
<1> QED
  BY <1>2, <1>3 DEF Max

\* The smaller of two numbers.
LEMMA MinOfTwo ==
    ASSUME NEW a \in Int, NEW b \in Int
    PROVE  Min({a, b}) = IF a <= b THEN a ELSE b
BY DEF Min

\* A function of the numbers from 1 to n is a sequence.
LEMMA SeqOfFunction ==
    ASSUME NEW T, NEW n \in Nat, NEW f \in [1 .. n -> T]
    PROVE  f \in Seq(T) /\ Len(f) = n
<1>1. f \in Seq(T) /\ DOMAIN f = 1 .. n
  BY SeqDef
<1>2. Len(f) \in Nat /\ DOMAIN f = 1 .. Len(f)
  BY <1>1, LenProperties
<1> QED
  BY <1>1, <1>2

-----------------------------------------------------------------------------
(* Recursive functions. *)

\* Some function puts the sequences of a chain together, from every member of it to E.
HasChain(T, D, E, part, next) ==
    \E f \in [D -> Seq(T)] :
        f = [x \in D |-> IF x \in E THEN <<>> ELSE part[x] \o f[next[x]]]

\* There is one if the chain comes to an end.
LEMMA ChainFunction ==
    ASSUME NEW T, NEW D, NEW E, NEW N \in Nat,
           NEW rank \in [D -> 0 .. N], NEW part \in [D -> Seq(T)], NEW next \in [D -> D],
           \A x \in D \ E : rank[next[x]] < rank[x]
    PROVE  HasChain(T, D, E, part, next)
<1> DEFINE Below(n) == {x \in D : rank[x] < n}
           Right(f, n) == \A x \in Below(n) :
                            f[x] = IF x \in E THEN <<>> ELSE part[x] \o f[next[x]]
           P(n) == \E f \in [Below(n) -> Seq(T)] : Right(f, n)
<1>1. P(0)
  <2>1. Below(0) = {}
    OBVIOUS
  <2>2. [x \in {} |-> <<>>] \in [Below(0) -> Seq(T)]
    BY <2>1
  <2> QED
    BY <2>1, <2>2
<1>2. ASSUME NEW n \in 0 .. N, P(n)
      PROVE  P(n + 1)
  <2>1. PICK f \in [Below(n) -> Seq(T)] : Right(f, n)
    BY <1>2
  <2> DEFINE h == [x \in Below(n + 1) |->
                     IF x \in E THEN <<>> ELSE part[x] \o f[next[x]]]
  <2>2. \A x \in Below(n + 1) \ E : next[x] \in Below(n)
    OBVIOUS
  <2>3. \A x \in Below(n + 1) : h[x] \in Seq(T)
    <3>1. ASSUME NEW x \in Below(n + 1) \ E
          PROVE  part[x] \o f[next[x]] \in Seq(T)
      BY <2>2, ConcatProperties
    <3> QED
      BY <3>1, EmptySeq
  <2>4. h \in [Below(n + 1) -> Seq(T)]
    BY <2>3
  <2>5. \A x \in Below(n) : x \in Below(n + 1) /\ h[x] = f[x]
    BY <2>1
  <2>6. Right(h, n + 1)
    BY <2>2, <2>5
  <2> HIDE DEF h, Right
  <2> QED
    BY <2>4, <2>6
<1>3. P(N + 1)
  <2> HIDE DEF P
  <2> DEFINE M == N + 1
             S == {n \in 0 .. M : P(n)}
  <2>1. 0 \in Int /\ M \in Int /\ M \in 0 .. M
    OBVIOUS
  <2>2. 0 \in S /\ \A n \in 0 .. M - 1 : n \in S => n + 1 \in S
    BY <1>1, <1>2
  <2> HIDE DEF S, M
  <2>3. \A n \in 0 .. M : n \in S
    BY <2>1, <2>2, Induction, Zenon
  <2> QED
    BY <2>1, <2>3 DEF S, M
<1>4. Below(N + 1) = D
  OBVIOUS
<1>5. PICK f \in [D -> Seq(T)] : Right(f, N + 1)
  BY <1>3, <1>4
<1> QED
  BY <1>4, <1>5 DEF HasChain

\* FlattenSeq satisfies its equation.
LEMMA FlattenEquation ==
    ASSUME NEW T, NEW s \in Seq(Seq(T)), s # <<>>
    PROVE  \E f \in [1 .. Len(s) -> Seq(T)] :
             /\ f[1] = s[1]
             /\ \A i \in 2 .. Len(s) : f[i] = f[i - 1] \o s[i]
             /\ FlattenSeq(s) = f[Len(s)]
<1> DEFINE n == Len(s)
<1>1. n \in Nat \ {0} /\ \A i \in 1 .. n : s[i] \in Seq(T)
  BY EmptySeq, ElementOfSeq
<1> DEFINE Equation(f) == f = [i \in 1 .. n |-> IF i = 1 THEN s[i] ELSE f[i - 1] \o s[i]]
           F == CHOOSE f : Equation(f)
<1>2. FlattenSeq(s) = F[n]
  BY <1>1 DEF FlattenSeq
<1> HIDE DEF n
<1>3. \E g : Equation(g)
  <2> DEFINE Right(f, m) == \A i \in 1 .. m : f[i] = IF i = 1 THEN s[i] ELSE f[i - 1] \o s[i]
             P(m) == \E f : f = [i \in 1 .. m |-> f[i]] /\ Right(f, m)
  <2>1. P(1)
    <3> DEFINE g == [i \in 1 .. 1 |-> s[1]]
    <3>1. g = [i \in 1 .. 1 |-> g[i]] /\ \A i \in 1 .. 1 : i = 1 /\ g[i] = s[i]
      OBVIOUS
    <3> HIDE DEF g
    <3> QED
      BY <3>1
  <2>2. ASSUME NEW m \in 1 .. n - 1, P(m)
        PROVE  P(m + 1)
    <3>1. PICK f : f = [i \in 1 .. m |-> f[i]] /\ Right(f, m)
      BY <2>2
    <3> DEFINE h == [i \in 1 .. m + 1 |-> IF i = m + 1 THEN f[m] \o s[m + 1] ELSE f[i]]
    <3>2. m \in 1 .. m /\ m \in Nat \ {0}
      OBVIOUS
    <3>3. ASSUME NEW i \in 1 .. m + 1
          PROVE  h[i] = IF i = 1 THEN s[i] ELSE h[i - 1] \o s[i]
      <4>1. CASE i = m + 1
        <5>1. /\ m + 1 \in 1 .. m + 1 /\ m \in 1 .. m + 1
              /\ m + 1 # 1 /\ m # m + 1 /\ (m + 1) - 1 = m
          BY <3>2
        <5>2. h[m + 1] = f[m] \o s[m + 1] /\ h[m] = f[m]
          BY <5>1
        <5> QED
          BY <4>1, <5>1, <5>2
      <4>2. CASE i # m + 1
        <5>1. i \in 1 .. m /\ h[i] = f[i] /\ (i # 1 => h[i - 1] = f[i - 1])
          BY <4>2
        <5> QED
          BY <3>1, <5>1
      <4> QED
        BY <4>1, <4>2
    <3>4. h = [i \in 1 .. m + 1 |-> h[i]]
      OBVIOUS
    <3> HIDE DEF h
    <3> QED
      BY <3>3, <3>4
  <2>3. P(n)
    <3> HIDE DEF P
    <3> DEFINE S == {m \in 1 .. n : P(m)}
    <3>1. 1 \in S /\ \A m \in 1 .. n - 1 : m \in S => m + 1 \in S
      BY <1>1, <2>1, <2>2
    <3> HIDE DEF S
    <3>2. 1 \in Int /\ n \in Int /\ n \in 1 .. n
      BY <1>1
    <3>3. \A m \in 1 .. n : m \in S
      BY <3>1, <3>2, Induction, Zenon
    <3> QED
      BY <3>2, <3>3 DEF S
  <2>4. PICK g : g = [i \in 1 .. n |-> g[i]] /\ Right(g, n)
    BY <2>3
  <2>5. Equation(g)
    BY <2>4
  <2> QED
    BY <2>5
<1>4. Equation(F)
  <2> HIDE DEF Equation
  <2> QED
    BY <1>3
<1> HIDE DEF F
<1>5. \A i \in 1 .. n : F[i] = IF i = 1 THEN s[i] ELSE F[i - 1] \o s[i]
  BY <1>4
<1>6. \A m \in 1 .. n : F[m] \in Seq(T)
  <2> DEFINE S == {m \in 1 .. n : F[m] \in Seq(T)}
  <2>1. 1 \in S
    BY <1>1, <1>5
  <2>2. ASSUME NEW m \in 1 .. n - 1, m \in S
        PROVE  m + 1 \in S
    <3>1. F[m] \in Seq(T) /\ s[m + 1] \in Seq(T) /\ m + 1 \in 1 .. n
      BY <1>1, <2>2
    <3>2. F[m + 1] = F[m] \o s[m + 1]
      <4>1. m + 1 # 1 /\ (m + 1) - 1 = m
        OBVIOUS
      <4> QED
        BY <1>5, <3>1, <4>1
    <3> QED
      BY <3>1, <3>2, ConcatProperties
  <2> HIDE DEF S
  <2>3. 1 \in Int /\ n \in Int
    BY <1>1
  <2>4. \A m \in 1 .. n : m \in S
    BY <2>1, <2>2, <2>3, Induction, Zenon
  <2> QED
    BY <2>4 DEF S
<1>7. F \in [1 .. n -> Seq(T)]
  <2>1. F = [i \in 1 .. n |-> F[i]]
    BY <1>4
  <2> QED
    BY <1>6, <2>1
<1>8. F[1] = s[1] /\ \A i \in 2 .. n : F[i] = F[i - 1] \o s[i]
  <2>1. 1 \in 1 .. n /\ \A i \in 2 .. n : i \in 1 .. n /\ i # 1
    BY <1>1
  <2> QED
    BY <1>5, <2>1
<1> QED
  BY <1>2, <1>7, <1>8 DEF n

\* F is made of the first n sequences in s: its element p is element o[p] of sequence b[p].
MadeOf(F, s, n, b, o) ==
    /\ b \in [DOMAIN F -> 1 .. n]
    /\ \A p \in DOMAIN F : o[p] \in DOMAIN s[b[p]] /\ F[p] = s[b[p]][o[p]]
    /\ \A p, q \in DOMAIN F : p < q => b[p] < b[q] \/ (b[p] = b[q] /\ o[p] < o[q])
    /\ \A i \in 1 .. n : \A k \in DOMAIN s[i] : \E p \in DOMAIN F : b[p] = i /\ o[p] = k

\* What a sequence added at the end does to it.
LEMMA MadeOfMore ==
    ASSUME NEW T, NEW s, NEW n \in Nat, NEW F \in Seq(T), NEW b, NEW o,
           MadeOf(F, s, n, b, o), s[n + 1] \in Seq(T)
    PROVE  \E b1, o1 : MadeOf(F \o s[n + 1], s, n + 1, b1, o1)
<1> DEFINE m == Len(F)
           l == Len(s[n + 1])
           G == F \o s[n + 1]
<1>1. /\ m \in Nat /\ DOMAIN F = 1 .. m
      /\ l \in Nat /\ DOMAIN s[n + 1] = 1 .. l
  BY LenProperties
<1>2. DOMAIN G = 1 .. m + l
  BY ConcatProperties, LenProperties
<1>3. \A p \in 1 .. m + l : G[p] = IF p <= m THEN F[p] ELSE s[n + 1][p - m]
  BY ConcatProperties
<1> DEFINE b1 == [p \in 1 .. m + l |-> IF p <= m THEN b[p] ELSE n + 1]
           o1 == [p \in 1 .. m + l |-> IF p <= m THEN o[p] ELSE p - m]
<1> HIDE DEF m, l, G
<1>4. ASSUME NEW p \in 1 .. m + l
      PROVE  \/ p \in 1 .. m /\ b1[p] = b[p] /\ o1[p] = o[p] /\ G[p] = F[p] /\ b[p] \in 1 .. n
             \/ /\ p \notin 1 .. m /\ p - m \in 1 .. l
                /\ b1[p] = n + 1 /\ o1[p] = p - m /\ G[p] = s[n + 1][p - m]
  <2>1. CASE p <= m
    <3>1. p \in 1 .. m
      BY <1>1, <2>1
    <3> QED
      BY <1>1, <1>3, <2>1, <3>1 DEF MadeOf
  <2>2. CASE ~ (p <= m)
    <3>1. p - m \in 1 .. l /\ p \notin 1 .. m
      BY <1>1, <2>2
    <3> QED
      BY <1>3, <2>2, <3>1
  <2> QED
    BY <2>1, <2>2
<1>5. b1 = [p \in 1 .. m + l |-> b1[p]]
  OBVIOUS
<1> HIDE DEF b1, o1
<1>6. b1 \in [DOMAIN G -> 1 .. n + 1]
  <2>1. \A p \in 1 .. m + l : b1[p] \in 1 .. n + 1
    BY <1>4
  <2> QED
    BY <1>2, <1>5, <2>1
<1>7. ASSUME NEW p \in DOMAIN G
      PROVE  o1[p] \in DOMAIN s[b1[p]] /\ G[p] = s[b1[p]][o1[p]]
  <2>1. p \in 1 .. m + l
    BY <1>2
  <2>2. CASE p \in 1 .. m
    <3>1. b1[p] = b[p] /\ o1[p] = o[p] /\ G[p] = F[p]
      BY <1>4, <2>1, <2>2
    <3> QED
      BY <1>1, <2>2, <3>1 DEF MadeOf
  <2>3. CASE p \notin 1 .. m
    <3>1. p - m \in 1 .. l /\ b1[p] = n + 1 /\ o1[p] = p - m /\ G[p] = s[n + 1][p - m]
      BY <1>4, <2>1, <2>3
    <3> QED
      BY <1>1, <3>1
  <2> QED
    BY <2>2, <2>3
<1>8. ASSUME NEW p \in DOMAIN G, NEW q \in DOMAIN G, p < q
      PROVE  b1[p] < b1[q] \/ (b1[p] = b1[q] /\ o1[p] < o1[q])
  <2>1. p \in 1 .. m + l /\ q \in 1 .. m + l
    BY <1>2
  <2>2. CASE q \in 1 .. m
    <3>1. p \in 1 .. m
      BY <1>1, <1>8, <2>1, <2>2
    <3>2. b1[p] = b[p] /\ o1[p] = o[p] /\ b1[q] = b[q] /\ o1[q] = o[q]
      BY <1>4, <2>1, <2>2, <3>1
    <3>3. b[p] < b[q] \/ (b[p] = b[q] /\ o[p] < o[q])
      BY <1>1, <1>8, <2>2, <3>1 DEF MadeOf
    <3> QED
      BY <3>2, <3>3
  <2>3. CASE q \notin 1 .. m
    <3>1. b1[q] = n + 1 /\ o1[q] = q - m
      BY <1>4, <2>1, <2>3
    <3>2. CASE p \in 1 .. m
      <4>1. b1[p] \in 1 .. n
        BY <1>4, <2>1, <3>2
      <4> QED
        BY <3>1, <4>1
    <3>3. CASE p \notin 1 .. m
      <4>1. b1[p] = n + 1 /\ o1[p] = p - m
        BY <1>4, <2>1, <3>3
      <4> QED
        BY <1>1, <1>8, <2>1, <3>1, <4>1
    <3> QED
      BY <3>2, <3>3
  <2> QED
    BY <2>2, <2>3
<1>9. ASSUME NEW j \in 1 .. n + 1, NEW k \in DOMAIN s[j]
      PROVE  \E p \in DOMAIN G : b1[p] = j /\ o1[p] = k
  <2>1. CASE j = n + 1
    <3>1. k \in 1 .. l /\ m + k \in 1 .. m + l /\ m + k \notin 1 .. m /\ (m + k) - m = k
      BY <1>1, <2>1
    <3>2. b1[m + k] = j /\ o1[m + k] = k
      BY <1>4, <2>1, <3>1
    <3> QED
      BY <1>2, <3>1, <3>2
  <2>2. CASE j # n + 1
    <3>1. j \in 1 .. n
      BY <2>2
    <3>2. PICK p \in DOMAIN F : b[p] = j /\ o[p] = k
      BY <3>1 DEF MadeOf
    <3>3. p \in 1 .. m /\ p \in 1 .. m + l
      BY <1>1, <3>2
    <3>4. b1[p] = j /\ o1[p] = k
      BY <1>4, <3>2, <3>3
    <3> QED
      BY <1>2, <3>3, <3>4
  <2> QED
    BY <2>1, <2>2
<1>10. MadeOf(G, s, n + 1, b1, o1)
  BY <1>6, <1>7, <1>8, <1>9 DEF MadeOf
<1> QED
  BY <1>10 DEF G

\* Every element of FlattenSeq(s) has a place in s, in the order of the places, and
\* every place is taken.
LEMMA FlattenPlaces ==
    ASSUME NEW T, NEW s \in Seq(Seq(T))
    PROVE  /\ FlattenSeq(s) \in Seq(T)
           /\ \E b, o : MadeOf(FlattenSeq(s), s, Len(s), b, o)
<1>1. CASE s = <<>>
  <2>1. FlattenSeq(s) = <<>> /\ Len(s) = 0 /\ DOMAIN FlattenSeq(s) = {}
    BY <1>1, EmptySeq DEF FlattenSeq
  <2> DEFINE b == [p \in {} |-> 0]
  <2>2. MadeOf(FlattenSeq(s), s, Len(s), b, b)
    BY <2>1 DEF MadeOf
  <2> HIDE DEF b
  <2> QED
    BY <2>1, <2>2, EmptySeq
<1>2. CASE s # <<>>
  <2>1. PICK f \in [1 .. Len(s) -> Seq(T)] :
               /\ f[1] = s[1]
               /\ \A i \in 2 .. Len(s) : f[i] = f[i - 1] \o s[i]
               /\ FlattenSeq(s) = f[Len(s)]
    BY <1>2, FlattenEquation
  <2> DEFINE n == Len(s)
             S == {i \in 1 .. n : \E b, o : MadeOf(f[i], s, i, b, o)}
  <2>2. n \in Nat \ {0} /\ \A i \in 1 .. n : s[i] \in Seq(T) /\ f[i] \in Seq(T)
    BY <1>2, EmptySeq, ElementOfSeq
  <2>3. 1 \in S
    <3> DEFINE l == Len(s[1])
               b == [p \in 1 .. l |-> 1]
               o == [p \in 1 .. l |-> p]
    <3>1. DOMAIN s[1] = 1 .. l /\ l \in Nat /\ f[1] = s[1]
      BY <2>1, <2>2, LenProperties
    <3> HIDE DEF l
    <3>2. b \in [1 .. l -> 1 .. 1] /\ \A p \in 1 .. l : b[p] = 1 /\ o[p] = p
      OBVIOUS
    <3> HIDE DEF b, o
    <3>3. \A i \in 1 .. 1 : i = 1
      OBVIOUS
    <3>4. MadeOf(f[1], s, 1, b, o)
      BY <3>1, <3>2, <3>3 DEF MadeOf
    <3> QED
      BY <2>2, <3>4
  <2>4. ASSUME NEW i \in 1 .. n - 1, i \in S
        PROVE  i + 1 \in S
    <3>1. i \in 1 .. n /\ i + 1 \in 1 .. n /\ i + 1 \in 2 .. n /\ (i + 1) - 1 = i /\ i \in Nat
      BY <2>2
    <3>2. PICK b, o : MadeOf(f[i], s, i, b, o)
      BY <2>4
    <3>3. f[i + 1] = f[i] \o s[i + 1]
      BY <2>1, <3>1
    <3>4. f[i] \in Seq(T) /\ s[i + 1] \in Seq(T)
      BY <2>2, <3>1
    <3>5. \E b1, o1 : MadeOf(f[i + 1], s, i + 1, b1, o1)
      BY <3>1, <3>2, <3>3, <3>4, MadeOfMore
    <3> QED
      BY <3>1, <3>5
  <2>5. 1 \in Int /\ n \in Int
    BY <2>2
  <2> HIDE DEF S, n
  <2>6. \A i \in 1 .. n : i \in S
    BY <2>3, <2>4, <2>5, Induction, Zenon
  <2>7. n \in S
    BY <2>2, <2>6
  <2> QED
    BY <2>1, <2>2, <2>7 DEF S, n
<1> QED
  BY <1>1, <1>2

\* The pairs of elements of the sequence x, in their order, are in the relation R.
Sorted(x, R) == \A p, q \in DOMAIN x : p < q => <<x[p], x[q]>> \in R

\* FlattenSeq keeps the elements, and the order that is in the parts and between them.
LEMMA FlattenSorted ==
    ASSUME NEW T, NEW s \in Seq(Seq(T))
    PROVE  /\ FlattenSeq(s) \in Seq(T)
           /\ ToSet(FlattenSeq(s)) = UNION {ToSet(s[i]) : i \in DOMAIN s}
           /\ \A R :
                /\ \A i \in DOMAIN s : Sorted(s[i], R)
                /\ \A i, j \in DOMAIN s : i < j =>
                     \A x \in ToSet(s[i]), y \in ToSet(s[j]) : <<x, y>> \in R
                => Sorted(FlattenSeq(s), R)
<1> DEFINE F == FlattenSeq(s)
           n == Len(s)
<1>1. F \in Seq(T) /\ n \in Nat /\ DOMAIN s = 1 .. n
  BY FlattenPlaces, LenProperties
<1>2. PICK b, o : MadeOf(F, s, n, b, o)
  BY FlattenPlaces
<1> HIDE DEF F, n
<1>3. \A p \in DOMAIN F : /\ b[p] \in DOMAIN s /\ o[p] \in DOMAIN s[b[p]] /\ F[p] = s[b[p]][o[p]]
                          /\ F[p] \in ToSet(s[b[p]])
  BY <1>1, <1>2 DEF MadeOf, ToSet
<1>4. ToSet(F) = UNION {ToSet(s[i]) : i \in DOMAIN s}
  <2>1. ASSUME NEW p \in DOMAIN F
        PROVE  F[p] \in UNION {ToSet(s[i]) : i \in DOMAIN s}
    BY <1>3
  <2>2. ASSUME NEW i \in DOMAIN s, NEW k \in DOMAIN s[i]
        PROVE  \E p \in DOMAIN F : F[p] = s[i][k]
    <3>1. PICK p \in DOMAIN F : b[p] = i /\ o[p] = k
      BY <1>1, <1>2 DEF MadeOf
    <3> QED
      BY <1>3, <3>1
  <2> QED
    BY <2>1, <2>2 DEF ToSet
<1>5. ASSUME NEW R,
             \A i \in DOMAIN s : Sorted(s[i], R),
             \A i, j \in DOMAIN s : i < j =>
                \A x \in ToSet(s[i]), y \in ToSet(s[j]) : <<x, y>> \in R
      PROVE  Sorted(F, R)
  <2>1. SUFFICES ASSUME NEW p \in DOMAIN F, NEW q \in DOMAIN F, p < q
                 PROVE  <<F[p], F[q]>> \in R
    BY DEF Sorted
  <2>2. b[p] < b[q] \/ (b[p] = b[q] /\ o[p] < o[q])
    BY <1>2, <2>1 DEF MadeOf
  <2>3. CASE b[p] < b[q]
    BY <1>3, <1>5, <2>3
  <2>4. CASE b[p] = b[q] /\ o[p] < o[q]
    BY <1>3, <1>5, <2>4 DEF Sorted
  <2> QED
    BY <2>2, <2>3, <2>4
<1> QED
  BY <1>1, <1>4, <1>5 DEF F

\* Induction from b down to a, from all that is above.
LEMMA DownInduction ==
    ASSUME NEW a \in Int, NEW b \in Int, NEW S,
           \A m \in a .. b : (\A k \in m + 1 .. b : k \in S) => m \in S
    PROVE  \A m \in a .. b : m \in S
<1> DEFINE T == {k \in Nat : b - k \in a .. b /\ b - k \notin S}
<1> SUFFICES ASSUME T # {} PROVE FALSE
  <2>1. ASSUME NEW m \in a .. b, m \notin S
        PROVE  b - m \in T
    <3>1. b - m \in Nat /\ b - (b - m) = m
      OBVIOUS
    <3> QED
      BY <2>1, <3>1
  <2> QED
    BY <2>1
<1>1. PICK k \in T : \A l \in T : k <= l
  BY LeastNatural
<1>2. k \in Nat /\ b - k \in a .. b /\ b - k \notin S
  OBVIOUS
<1>3. ASSUME NEW j \in (b - k) + 1 .. b
      PROVE  j \in S
  <2>1. b - j \in Nat /\ b - j < k /\ b - (b - j) = j /\ j \in a .. b
    BY <1>2
  <2>2. b - j \notin T
    <3> HIDE DEF T
    <3> QED
      BY <1>1, <1>2, <2>1
  <2> QED
    BY <2>1, <2>2
<1> HIDE DEF T
<1> QED
  BY <1>2, <1>3

-----------------------------------------------------------------------------
(* The numbers of blocks. *)

\* A sequence of numbers that get larger.
Ascending(x) == \A p, q \in DOMAIN x : p < q => x[p] < x[q]

\* InTheirOrder has the members of S, each once, the smaller first.
LEMMA InTheirOrderSorts ==
    ASSUME NEW n \in Nat, NEW S \in SUBSET (1 .. n)
    PROVE  /\ InTheirOrder(S, n) \in Seq(1 .. n)
           /\ ToSet(InTheirOrder(S, n)) = S
           /\ Ascending(InTheirOrder(S, n))
<1> DEFINE s == [i \in 1 .. n |-> IF i \in S THEN <<i>> ELSE <<>>]
           F == FlattenSeq(s)
           R == {xy \in Int \X Int : xy[1] < xy[2]}
<1>1. ASSUME NEW i \in 1 .. n
      PROVE  /\ s[i] \in Seq(1 .. n) /\ \A p \in DOMAIN s[i] : p = 1
             /\ ToSet(s[i]) = IF i \in S THEN {i} ELSE {}
  <2>1. CASE i \in S
    <3>1. s[i] = <<i>> /\ DOMAIN <<i>> = {1} /\ <<i>>[1] = i /\ <<i>> \in Seq(1 .. n)
      BY <2>1
    <3>2. ToSet(<<i>>) = {i}
      BY <3>1 DEF ToSet
    <3> QED
      BY <2>1, <3>1, <3>2
  <2>2. CASE i \notin S
    <3>1. s[i] = <<>> /\ DOMAIN s[i] = {}
      BY <2>2
    <3> QED
      BY <2>2, <3>1 DEF ToSet
  <2> QED
    BY <2>1, <2>2
<1>2. s \in Seq(Seq(1 .. n)) /\ DOMAIN s = 1 .. n
  <2>1. s = [i \in 1 .. n |-> s[i]]
    OBVIOUS
  <2> HIDE DEF s
  <2>2. s \in [1 .. n -> Seq(1 .. n)]
    BY <1>1, <2>1
  <2> QED
    BY <2>2, SeqDef
<1>3. InTheirOrder(S, n) = F
  BY DEF InTheirOrder
<1> HIDE DEF s
<1>4. /\ F \in Seq(1 .. n)
      /\ ToSet(F) = UNION {ToSet(s[i]) : i \in DOMAIN s}
      /\ (/\ \A i \in DOMAIN s : Sorted(s[i], R)
          /\ \A i, j \in DOMAIN s : i < j =>
                 \A x \in ToSet(s[i]), y \in ToSet(s[j]) : <<x, y>> \in R)
         => Sorted(F, R)
  BY <1>2, FlattenSorted
<1>5. ToSet(F) = S
  <2>1. \A i \in 1 .. n : ToSet(s[i]) = IF i \in S THEN {i} ELSE {}
    BY <1>1
  <2>2. UNION {ToSet(s[i]) : i \in 1 .. n} = S
    BY <2>1
  <2> QED
    BY <1>2, <1>4, <2>2
<1>6. \A i \in DOMAIN s : Sorted(s[i], R)
  BY <1>1, <1>2 DEF Sorted
<1>7. \A i, j \in DOMAIN s : i < j => \A x \in ToSet(s[i]), y \in ToSet(s[j]) : <<x, y>> \in R
  <2>1. ASSUME NEW i \in DOMAIN s
        PROVE  i \in Int /\ \A x \in ToSet(s[i]) : x = i
    <3>1. i \in 1 .. n /\ (ToSet(s[i]) = {i} \/ ToSet(s[i]) = {})
      BY <1>1, <1>2
    <3> QED
      BY <3>1
  <2>2. \A x, y \in Int : x < y => <<x, y>> \in R
    OBVIOUS
  <2> HIDE DEF R
  <2> QED
    BY <2>1, <2>2
<1>8. Sorted(F, R)
  BY <1>4, <1>6, <1>7
<1>9. Ascending(F)
  BY <1>8 DEF Sorted, Ascending
<1> QED
  BY <1>3, <1>4, <1>5, <1>9

\* Numbers that ascend and are all the numbers from 1 to n are those numbers in their order.
LEMMA AscendingCounts ==
    ASSUME NEW n \in Nat, NEW x \in Seq(1 .. n), Ascending(x), ToSet(x) = 1 .. n
    PROVE  x = [k \in 1 .. n |-> k]
<1> DEFINE L == Len(x)
<1>1. L \in Nat /\ DOMAIN x = 1 .. L /\ x = [k \in 1 .. L |-> x[k]]
      /\ \A k \in 1 .. L : x[k] \in 1 .. n
  BY LenProperties, ElementOfSeq, SeqDef
<1> HIDE DEF L
<1>2. \A k \in 1 .. n : k \in 1 .. L /\ x[k] = k
  <2> DEFINE S == {k \in 0 .. n : \A j \in 1 .. k : j \in 1 .. L /\ x[j] = j}
  <2>1. 0 \in S
    OBVIOUS
  <2>2. ASSUME NEW m \in 0 .. n - 1, m \in S
        PROVE  m + 1 \in S
    <3> HIDE DEF S
    <3>0. m \in Nat /\ m + 1 \in 1 .. n /\ \A j \in 1 .. m : j \in 1 .. L /\ x[j] = j
      BY <2>2 DEF S
    <3>1. PICK p \in 1 .. L : x[p] = m + 1
      <4>1. m + 1 \in ToSet(x)
        BY <3>0
      <4> QED
        BY <1>1, <4>1 DEF ToSet
    <3>2. ~ (p <= m)
      <4>1. SUFFICES ASSUME p <= m PROVE FALSE
        OBVIOUS
      <4>2. p \in 1 .. m
        BY <1>1, <3>0, <4>1
      <4>3. x[p] = p
        BY <3>0, <4>2
      <4> QED
        BY <3>0, <3>1, <4>2, <4>3
    <3>3. m + 1 \in 1 .. L /\ m + 1 <= p
      BY <1>1, <3>0, <3>2
    <3>4. x[m + 1] = m + 1
      <4>1. x[m + 1] <= m + 1
        <5>1. CASE m + 1 = p
          BY <1>1, <3>0, <3>1, <5>1
        <5>2. CASE m + 1 # p
          <6>1. m + 1 < p
            BY <1>1, <3>0, <3>3, <5>2
          <6>2. x[m + 1] < x[p]
            BY <1>1, <3>3, <6>1 DEF Ascending
          <6> QED
            BY <1>1, <3>0, <3>1, <3>3, <6>2
        <5> QED
          BY <5>1, <5>2
      <4>2. ASSUME x[m + 1] <= m PROVE FALSE
        <5>1. x[m + 1] \in 1 .. m
          BY <1>1, <3>0, <3>3, <4>2
        <5>2. x[x[m + 1]] = x[m + 1] /\ x[m + 1] \in 1 .. L
          BY <3>0, <5>1
        <5>3. x[m + 1] < m + 1
          BY <3>0, <5>1
        <5>4. x[x[m + 1]] < x[m + 1]
          BY <1>1, <3>3, <5>2, <5>3 DEF Ascending
        <5> QED
          BY <5>1, <5>2, <5>4
      <4> QED
        BY <1>1, <3>3, <4>1, <4>2
    <3>5. \A j \in 1 .. m + 1 : j \in 1 .. m \/ j = m + 1
      OBVIOUS
    <3> QED
      BY <3>0, <3>3, <3>4, <3>5 DEF S
  <2> HIDE DEF S
  <2>3. 0 \in Int /\ n \in Int /\ n \in 0 .. n
    OBVIOUS
  <2>4. \A m \in 0 .. n : m \in S
    BY <2>1, <2>2, <2>3, Induction, Zenon
  <2> QED
    BY <2>3, <2>4 DEF S
<1>3. L = n
  <2>1. n <= L
    <3>1. n # 0 => n \in 1 .. n
      OBVIOUS
    <3>2. n # 0 => n \in 1 .. L
      BY <1>2, <3>1
    <3> QED
      BY <1>1, <3>2
  <2>2. ASSUME n < L PROVE FALSE
    <3>1. n + 1 \in 1 .. L /\ x[n + 1] \in 1 .. n
      BY <1>1, <2>2
    <3>2. x[x[n + 1]] = x[n + 1] /\ x[n + 1] \in 1 .. L /\ x[n + 1] < n + 1
      BY <1>2, <3>1
    <3> QED
      BY <1>1, <3>1, <3>2 DEF Ascending
  <2> QED
    BY <1>1, <2>1, <2>2
<1> QED
  BY <1>1, <1>2, <1>3

-----------------------------------------------------------------------------
(* The planner of batches. *)

\* A batch of chunks up to N that begins with n has that one and ends with one of them, and
\* keeps to the limits, except that it has one chunk at least.
LEMMA LastOfBatchType ==
    ASSUME NEW drafts, NEW size \in Nat \ {0}, NEW tokens,
           NEW N \in Nat, Len(drafts) = N, NEW n \in 1 .. N
    PROVE  LET m == LastOfBatch(drafts, size, tokens, n)
           IN  /\ m \in n .. N /\ m - n + 1 <= size
               /\ m = n \/ TokenCount(drafts, n, m) <= tokens
<1> DEFINE u == Min({n + size - 1, N})
           S == {m \in n .. u : m = n \/ TokenCount(drafts, n, m) <= tokens}
<1>1. u \in n .. N /\ u <= n + size - 1
  <2>1. n + size - 1 \in Int /\ n <= n + size - 1
    OBVIOUS
  <2>2. u = IF n + size - 1 <= N THEN n + size - 1 ELSE N
    BY <2>1, MinOfTwo
  <2> QED
    BY <2>1, <2>2
<1> HIDE DEF u
<1>2. S \in SUBSET (n .. u) /\ n \in S
  BY <1>1
<1>3. LastOfBatch(drafts, size, tokens, n) = Max(S)
  BY DEF LastOfBatch, u
<1> HIDE DEF S
<1>4. n \in Int /\ u \in Int
  BY <1>1
<1>5. Max(S) \in S
  BY <1>2, <1>4, MaxOf
<1>6. Max(S) \in n .. u /\ (Max(S) = n \/ TokenCount(drafts, n, Max(S)) <= tokens)
  BY <1>5 DEF S
<1>7. Max(S) \in n .. N /\ Max(S) - n + 1 <= size
  BY <1>1, <1>6
<1> QED
  BY <1>3, <1>6, <1>7

\* w is a plan of the chunks from n to N: it has each of them once and keeps their order, and
\* its batches are all in Good.
IsPlan(w, n, N, Good) ==
    /\ w \in Seq(Seq(1 .. N))
    /\ \A i \in DOMAIN w : Ascending(w[i])
    /\ \A i, j \in DOMAIN w : i < j => \A x \in ToSet(w[i]), y \in ToSet(w[j]) : x < y
    /\ UNION {ToSet(w[i]) : i \in DOMAIN w} = n .. N
    /\ \A i \in DOMAIN w : w[i] \in Good

\* A batch put before a plan.
LEMMA PlanMore ==
    ASSUME NEW N \in Nat, NEW n \in 1 .. N, NEW m \in n .. N, NEW w, NEW Good,
           IsPlan(w, m + 1, N, Good), [k \in 1 .. m - n + 1 |-> n + k - 1] \in Good
    PROVE  IsPlan(<<[k \in 1 .. m - n + 1 |-> n + k - 1]>> \o w, n, N, Good)
<1> DEFINE c == [k \in 1 .. m - n + 1 |-> n + k - 1]
           v == <<c>> \o w
           L == Len(w)
<1>1. c \in Seq(1 .. N)
  <2>1. m - n + 1 \in Nat /\ \A k \in 1 .. m - n + 1 : n + k - 1 \in 1 .. N
    OBVIOUS
  <2>2. c \in [1 .. m - n + 1 -> 1 .. N]
    BY <2>1
  <2> QED
    BY <2>1, <2>2, SeqDef
<1>2. Ascending(c)
  BY DEF Ascending
<1>3. ToSet(c) = n .. m
  <2>1. \A x \in n .. m : x - n + 1 \in 1 .. m - n + 1 /\ n + (x - n + 1) - 1 = x
    OBVIOUS
  <2>2. \A x \in n .. m : x - n + 1 \in DOMAIN c /\ c[x - n + 1] = x
    BY <2>1
  <2>3. \A k \in DOMAIN c : c[k] \in n .. m
    OBVIOUS
  <2> HIDE DEF c
  <2> QED
    BY <2>2, <2>3 DEF ToSet
<1> HIDE DEF c
<1>4. w \in Seq(Seq(1 .. N)) /\ <<c>> \in Seq(Seq(1 .. N)) /\ L \in Nat /\ DOMAIN w = 1 .. L
  BY <1>1, LenProperties DEF IsPlan
<1>5. /\ v \in Seq(Seq(1 .. N)) /\ DOMAIN v = 1 .. L + 1
      /\ \A i \in 1 .. L + 1 : v[i] = IF i <= 1 THEN c ELSE w[i - 1]
  <2>1. Len(<<c>>) = 1 /\ <<c>>[1] = c
    OBVIOUS
  <2>2. v \in Seq(Seq(1 .. N)) /\ Len(v) = 1 + L
    BY <1>4, <2>1, ConcatProperties
  <2>3. \A i \in 1 .. 1 + L : v[i] = IF i <= 1 THEN <<c>>[i] ELSE w[i - 1]
    BY <1>4, <2>1, ConcatProperties
  <2>4. \A i \in 1 .. 1 + L : i <= 1 => i = 1
    BY <1>4
  <2> HIDE DEF v, L
  <2>5. 1 + L = L + 1
    BY <1>4
  <2>6. DOMAIN v = 1 .. 1 + L
    BY <2>2, LenProperties
  <2>7. ASSUME NEW i \in 1 .. 1 + L
        PROVE  v[i] = IF i <= 1 THEN c ELSE w[i - 1]
    <3>1. CASE i <= 1
      BY <2>1, <2>3, <2>4, <3>1
    <3>2. CASE ~ (i <= 1)
      BY <2>3, <3>2
    <3> QED
      BY <3>1, <3>2
  <2> QED
    BY <2>2, <2>5, <2>6, <2>7
<1> HIDE DEF v, L
<1>6. /\ 1 \in DOMAIN v /\ v[1] = c
      /\ \A j \in DOMAIN w : j + 1 \in DOMAIN v /\ v[j + 1] = w[j]
      /\ \A i \in DOMAIN v : i # 1 => i - 1 \in DOMAIN w /\ v[i] = w[i - 1]
  <2>1. 1 \in DOMAIN v /\ v[1] = c
    BY <1>4, <1>5
  <2>2. ASSUME NEW j \in DOMAIN w PROVE j + 1 \in DOMAIN v /\ v[j + 1] = w[j]
    <3>1. j + 1 \in 1 .. L + 1 /\ ~ (j + 1 <= 1) /\ (j + 1) - 1 = j
      BY <1>4
    <3> QED
      BY <1>5, <3>1
  <2>3. ASSUME NEW i \in DOMAIN v, i # 1 PROVE i - 1 \in DOMAIN w /\ v[i] = w[i - 1]
    <3>1. i \in 1 .. L + 1 /\ ~ (i <= 1) /\ i - 1 \in 1 .. L
      <4>1. i \in 1 .. L + 1
        BY <1>5
      <4> QED
        BY <1>4, <2>3, <4>1
    <3> QED
      BY <1>4, <1>5, <3>1
  <2> QED
    BY <2>1, <2>2, <2>3
<1>7. ASSUME NEW i \in DOMAIN v PROVE Ascending(v[i])
  BY <1>2, <1>6 DEF IsPlan
<1>8. \A j \in DOMAIN w : \A y \in ToSet(w[j]) : y \in m + 1 .. N
  BY DEF IsPlan
<1>9. ASSUME NEW i \in DOMAIN v, NEW j \in DOMAIN v, i < j,
             NEW x \in ToSet(v[i]), NEW y \in ToSet(v[j])
      PROVE  x < y
  <2>1. j # 1 /\ j - 1 \in DOMAIN w /\ v[j] = w[j - 1]
    BY <1>5, <1>6, <1>9
  <2>2. CASE i = 1
    <3>1. x \in n .. m /\ y \in m + 1 .. N
      BY <1>3, <1>6, <1>8, <1>9, <2>1, <2>2
    <3> QED
      BY <3>1
  <2>3. CASE i # 1
    <3>1. i - 1 \in DOMAIN w /\ v[i] = w[i - 1] /\ i - 1 < j - 1
      BY <1>5, <1>6, <1>9, <2>3
    <3> QED
      BY <1>9, <2>1, <3>1 DEF IsPlan
  <2> QED
    BY <2>2, <2>3
<1>10. UNION {ToSet(v[i]) : i \in DOMAIN v} = n .. N
  <2>1. n .. N = (n .. m) \cup (m + 1 .. N)
    OBVIOUS
  <2>2. UNION {ToSet(v[i]) : i \in DOMAIN v}
            = ToSet(c) \cup UNION {ToSet(w[i]) : i \in DOMAIN w}
    <3>1. ASSUME NEW i \in DOMAIN v
          PROVE  ToSet(v[i]) \subseteq ToSet(c) \cup UNION {ToSet(w[j]) : j \in DOMAIN w}
      <4>1. CASE i = 1
        BY <1>6, <4>1
      <4>2. CASE i # 1
        BY <1>6, <4>2
      <4> QED
        BY <4>1, <4>2
    <3>2. ToSet(c) \subseteq UNION {ToSet(v[i]) : i \in DOMAIN v}
      BY <1>6
    <3>3. ASSUME NEW j \in DOMAIN w
          PROVE  ToSet(w[j]) \subseteq UNION {ToSet(v[i]) : i \in DOMAIN v}
      BY <1>6
    <3> QED
      BY <3>1, <3>2, <3>3
  <2> QED
    BY <1>3, <2>1, <2>2 DEF IsPlan
<1>11. ASSUME NEW i \in DOMAIN v PROVE v[i] \in Good
  <2>1. c \in Good
    BY DEF c
  <2> QED
    BY <1>6, <2>1 DEF IsPlan
<1> QED
  BY <1>5, <1>7, <1>9, <1>10, <1>11 DEF IsPlan, v, c

\* The batches of the chunks up to N that plan_batches may make: of size chunks at most, and of
\* more tokens than the limit only if that is one chunk.
WithinLimits(drafts, size, tokens, N) ==
    {b \in Seq(1 .. N) :
        /\ Len(b) \in 1 .. size
        /\ Len(b) = 1 \/ TokenCount(drafts, b[1], b[Len(b)]) <= tokens}

\* plan_batches: the batches, one after the other, have every chunk once, in the chunks' order,
\* and keep to the limits.
THEOREM PlanInOrder ==
    ASSUME NEW drafts, NEW size \in Nat \ {0}, NEW tokens, NEW N \in Nat, Len(drafts) = N
    PROVE  /\ PlanBatches(drafts, size, tokens) \in Seq(Seq(1 .. N))
           /\ FlattenSeq(PlanBatches(drafts, size, tokens)) = [k \in 1 .. N |-> k]
           /\ \A b \in ToSet(PlanBatches(drafts, size, tokens)) :
                b \in WithinLimits(drafts, size, tokens, N)
<1> DEFINE D == 1 .. N + 1
           Good == WithinLimits(drafts, size, tokens, N)
           last(n) == LastOfBatch(drafts, size, tokens, n)
           batch(n) == [k \in 1 .. last(n) - n + 1 |-> n + k - 1]
           Equation(f) == f = [n \in D |-> IF n > N THEN <<>> ELSE <<batch(n)>> \o f[last(n) + 1]]
           F == CHOOSE f : Equation(f)
<1>1. PlanBatches(drafts, size, tokens) = F[1]
  BY DEF PlanBatches
<1>2. \A n \in 1 .. N : /\ last(n) \in n .. N /\ last(n) - n + 1 <= size
                        /\ last(n) = n \/ TokenCount(drafts, n, last(n)) <= tokens
  BY LastOfBatchType
<1> HIDE DEF last, Good
<1>3. \A n \in 1 .. N : batch(n) \in Seq(Nat) /\ batch(n) \in Good
  <2>1. ASSUME NEW n \in 1 .. N
        PROVE  batch(n) \in Seq(Nat) /\ batch(n) \in Good
    <3> DEFINE l == last(n) - n + 1
               b == batch(n)
    <3>1. /\ l \in Nat /\ l \in 1 .. size /\ n + l - 1 = last(n)
          /\ \A k \in 1 .. l : n + k - 1 \in Nat /\ n + k - 1 \in 1 .. N
      <4> DEFINE m == last(n)
      <4>1. m \in n .. N /\ m - n + 1 <= size /\ l = m - n + 1
        BY <1>2
      <4> HIDE DEF l, m
      <4>2. l \in 1 .. size /\ l \in Nat /\ n + l - 1 = m
        BY <4>1
      <4>3. \A k \in 1 .. l : n + k - 1 \in 1 .. N
        BY <4>1
      <4> QED
        BY <4>2, <4>3 DEF m
    <3>2. b = [k \in 1 .. l |-> n + k - 1]
      OBVIOUS
    <3> HIDE DEF l, b
    <3>3. b \in [1 .. l -> Nat] /\ b \in [1 .. l -> 1 .. N]
      BY <3>1, <3>2
    <3>4. b \in Seq(Nat) /\ b \in Seq(1 .. N)
      BY <3>1, <3>3, SeqOfFunction
    <3>5. Len(b) = l
      BY <3>1, <3>3, <3>4, LenProperties
    <3>6. b[1] = n /\ b[Len(b)] = last(n)
      BY <3>1, <3>2, <3>5
    <3>7. l = 1 \/ TokenCount(drafts, n, last(n)) <= tokens
      BY <1>2 DEF l
    <3>8. b \in Good
      BY <3>1, <3>4, <3>5, <3>6, <3>7 DEF Good, WithinLimits
    <3> QED
      BY <3>4, <3>8 DEF b
  <2> QED
    BY <2>1
<1> HIDE DEF batch
<1>4. \E f : Equation(f)
  <2> DEFINE E == {N + 1}
             rank == [n \in D |-> N + 1 - n]
             part == [n \in D |-> IF n > N THEN <<>> ELSE <<batch(n)>>]
             next == [n \in D |-> IF n > N THEN N + 1 ELSE last(n) + 1]
  <2>1. /\ N + 1 \in Nat /\ rank \in [D -> 0 .. N + 1]
        /\ \A n \in D : n \in E <=> n > N
    OBVIOUS
  <2>2. ASSUME NEW n \in D
        PROVE  part[n] \in Seq(Seq(Nat)) /\ next[n] \in D
    <3>1. CASE n > N
      BY <3>1
    <3>2. CASE ~ (n > N)
      <4>1. n \in 1 .. N /\ part[n] = <<batch(n)>> /\ next[n] = last(n) + 1
        BY <3>2
      <4>2. part[n] \in Seq(Seq(Nat))
        BY <1>3, <4>1
      <4>3. last(n) \in n .. N
        BY <1>2, <4>1
      <4>4. next[n] \in D
        BY <4>1, <4>3
      <4> QED
        BY <4>2, <4>4
    <3> QED
      BY <3>1, <3>2
  <2>3. part \in [D -> Seq(Seq(Nat))] /\ next \in [D -> D]
    BY <2>2
  <2>4. \A n \in D \ E : /\ next[n] = last(n) + 1 /\ part[n] = <<batch(n)>>
                         /\ next[n] \in D /\ rank[next[n]] < rank[n]
    BY <1>2, <2>1, <2>3, SMTT(30)
  <2> DEFINE T == Seq(Nat)
             M == N + 1
  <2> HIDE DEF D, E, rank, part, next, T, M
  <2>5. M \in Nat /\ rank \in [D -> 0 .. M] /\ part \in [D -> Seq(T)] /\ next \in [D -> D]
    BY <2>1, <2>3 DEF T, M
  <2>6. \A x \in D \ E : rank[next[x]] < rank[x]
    BY <2>4
  <2>7. PICK f \in [D -> Seq(T)] :
            f = [x \in D |-> IF x \in E THEN <<>> ELSE part[x] \o f[next[x]]]
    <3>1. HasChain(T, D, E, part, next)
      BY <2>5, <2>6, ChainFunction
    <3> QED
      BY <3>1 DEF HasChain
  <2>8. \A n \in D : (IF n \in E THEN <<>> ELSE part[n] \o f[next[n]])
                       = IF n > N THEN <<>> ELSE <<batch(n)>> \o f[last(n) + 1]
    BY <2>1, <2>4
  <2>9. Equation(f)
    BY <2>7, <2>8
  <2> QED
    BY <2>9
<1>5. Equation(F)
  <2> HIDE DEF Equation
  <2> QED
    BY <1>4
<1> HIDE DEF F
<1>6. \A n \in D : F[n] = IF n > N THEN <<>> ELSE <<batch(n)>> \o F[last(n) + 1]
  BY <1>5
<1>7. \A n \in D : IsPlan(F[n], n, N, Good)
  <2> DEFINE S == {n \in D : IsPlan(F[n], n, N, Good)}
             M == N + 1
  <2>1. ASSUME NEW n \in 1 .. M, \A k \in n + 1 .. M : k \in S
        PROVE  n \in S
    <3>1. CASE n > N
      <4>1. n \in D /\ n .. N = {}
        BY <3>1
      <4>2. F[n] = <<>>
        BY <1>6, <3>1, <4>1
      <4>3. IsPlan(<<>>, n, N, Good)
        BY <4>1 DEF IsPlan
      <4> QED
        BY <4>1, <4>2, <4>3
    <3>2. CASE ~ (n > N)
      <4>1. n \in 1 .. N /\ last(n) \in n .. N /\ last(n) + 1 \in n + 1 .. M
        <5>1. n \in 1 .. N
          BY <3>2
        <5>2. last(n) \in n .. N
          BY <1>2, <5>1
        <5> QED
          BY <5>1, <5>2
      <4>2. IsPlan(F[last(n) + 1], last(n) + 1, N, Good)
        BY <2>1, <4>1
      <4>3. F[n] = <<batch(n)>> \o F[last(n) + 1]
        BY <1>6, <3>2
      <4>4. [k \in 1 .. last(n) - n + 1 |-> n + k - 1] \in Good
        BY <1>3, <4>1 DEF batch
      <4>5. IsPlan(F[n], n, N, Good)
        BY <4>1, <4>2, <4>3, <4>4, PlanMore DEF batch
      <4> QED
        BY <4>5
    <3> QED
      BY <3>1, <3>2
  <2>2. 1 \in Int /\ M \in Int /\ D = 1 .. M
    OBVIOUS
  <2> HIDE DEF S, M, D
  <2>3. \A n \in 1 .. M : n \in S
    BY <2>1, <2>2, DownInduction, Zenon
  <2> QED
    BY <2>2, <2>3 DEF S
<1> DEFINE w == F[1]
           R == {xy \in Int \X Int : xy[1] < xy[2]}
<1>8. IsPlan(w, 1, N, Good)
  BY <1>7
<1> HIDE DEF w, F
<1>9. w \in Seq(Seq(1 .. N)) /\ DOMAIN w = 1 .. Len(w) /\ Len(w) \in Nat
  BY <1>8, LenProperties DEF IsPlan
<1>10. \A i \in DOMAIN w : Sorted(w[i], R)
  <2>1. ASSUME NEW i \in DOMAIN w
        PROVE  Sorted(w[i], R)
    <3>1. w[i] \in Seq(1 .. N) /\ Ascending(w[i])
      BY <1>8, <1>9, ElementOfSeq DEF IsPlan
    <3>2. \A p \in DOMAIN w[i] : w[i][p] \in Int
      BY <3>1
    <3> QED
      BY <3>1, <3>2 DEF Ascending, Sorted
  <2> QED
    BY <2>1
<1>11. \A i, j \in DOMAIN w : i < j => \A x \in ToSet(w[i]), y \in ToSet(w[j]) : <<x, y>> \in R
  <2>1. \A i \in DOMAIN w : \A x \in ToSet(w[i]) : x \in Int
    BY <1>8 DEF IsPlan
  <2> QED
    BY <1>8, <2>1 DEF IsPlan
<1>12. /\ FlattenSeq(w) \in Seq(1 .. N) /\ ToSet(FlattenSeq(w)) = 1 .. N
       /\ Sorted(FlattenSeq(w), R)
  <2> HIDE DEF R
  <2> QED
    BY <1>8, <1>9, <1>10, <1>11, FlattenSorted DEF IsPlan
<1>13. Ascending(FlattenSeq(w))
  BY <1>12 DEF Sorted, Ascending
<1>14. \A b \in ToSet(w) : b \in WithinLimits(drafts, size, tokens, N)
  BY <1>8 DEF IsPlan, Good, ToSet
<1> QED
  BY <1>1, <1>9, <1>12, <1>13, <1>14, AscendingCounts DEF w

\* Each element twice.
Twice(x) == [p \in DOMAIN x |-> <<x[p], x[p]>>]

\* What is done to each element can be done before or after FlattenSeq.
LEMMA FlattenTwice ==
    ASSUME NEW T, NEW s \in Seq(Seq(T))
    PROVE  FlattenSeq([i \in DOMAIN s |-> Twice(s[i])]) = Twice(FlattenSeq(s))
<1> DEFINE n == Len(s)
           t == [i \in DOMAIN s |-> Twice(s[i])]
<1>1. ASSUME NEW x \in Seq(T)
      PROVE  Twice(x) \in Seq(T \X T) /\ Len(Twice(x)) = Len(x)
  <2>1. Len(x) \in Nat /\ DOMAIN x = 1 .. Len(x) /\ \A p \in 1 .. Len(x) : x[p] \in T
    BY LenProperties, ElementOfSeq
  <2>2. Twice(x) \in [1 .. Len(x) -> T \X T]
    BY <2>1 DEF Twice
  <2> QED
    BY <2>1, <2>2, SeqOfFunction
<1>2. ASSUME NEW x \in Seq(T), NEW y \in Seq(T)
      PROVE  Twice(x \o y) = Twice(x) \o Twice(y)
  <2>1. /\ x \o y \in Seq(T) /\ Len(x) \in Nat /\ Len(y) \in Nat
        /\ Len(x \o y) = Len(x) + Len(y)
        /\ DOMAIN x = 1 .. Len(x) /\ DOMAIN y = 1 .. Len(y)
        /\ DOMAIN (x \o y) = 1 .. Len(x) + Len(y)
        /\ \A p \in 1 .. Len(x) + Len(y) :
             (x \o y)[p] = IF p <= Len(x) THEN x[p] ELSE y[p - Len(x)]
    BY ConcatProperties, LenProperties
  <2>2. Twice(x) \in Seq(T \X T) /\ Twice(y) \in Seq(T \X T) /\ Twice(x \o y) \in Seq(T \X T)
        /\ Len(Twice(x)) = Len(x) /\ Len(Twice(y)) = Len(y)
        /\ Len(Twice(x \o y)) = Len(x) + Len(y)
    BY <1>1, <2>1
  <2>3. /\ Twice(x) \o Twice(y) \in Seq(T \X T)
        /\ Len(Twice(x) \o Twice(y)) = Len(x) + Len(y)
        /\ \A p \in 1 .. Len(x) + Len(y) : (Twice(x) \o Twice(y))[p]
             = IF p <= Len(x) THEN Twice(x)[p] ELSE Twice(y)[p - Len(x)]
    <3> DEFINE u == Twice(x)
               v == Twice(y)
    <3>1. u \in Seq(T \X T) /\ v \in Seq(T \X T) /\ Len(u) = Len(x) /\ Len(v) = Len(y)
      BY <2>2
    <3> HIDE DEF u, v
    <3>2. /\ u \o v \in Seq(T \X T) /\ Len(u \o v) = Len(u) + Len(v)
          /\ \A p \in 1 .. Len(u) + Len(v) :
               (u \o v)[p] = IF p <= Len(u) THEN u[p] ELSE v[p - Len(u)]
      BY <3>1, ConcatProperties
    <3> QED
      BY <3>1, <3>2 DEF u, v
  <2>4. ASSUME NEW p \in 1 .. Len(x) + Len(y)
        PROVE  Twice(x \o y)[p] = (Twice(x) \o Twice(y))[p]
    <3>1. Twice(x \o y)[p] = <<(x \o y)[p], (x \o y)[p]>>
      BY <2>1 DEF Twice
    <3>2. CASE p <= Len(x)
      <4>1. p \in DOMAIN x
        BY <2>1, <3>2
      <4>2. Twice(x)[p] = <<x[p], x[p]>>
        BY <4>1 DEF Twice
      <4> QED
        BY <2>1, <2>3, <3>1, <3>2, <4>2
    <3>3. CASE ~ (p <= Len(x))
      <4>1. p - Len(x) \in DOMAIN y
        BY <2>1, <3>3
      <4>2. Twice(y)[p - Len(x)] = <<y[p - Len(x)], y[p - Len(x)]>>
        BY <4>1 DEF Twice
      <4> QED
        BY <2>1, <2>3, <3>1, <3>3, <4>2
    <3> QED
      BY <3>2, <3>3
  <2> QED
    BY <2>1, <2>2, <2>3, <2>4, SeqEqual
<1>3. n \in Nat /\ DOMAIN s = 1 .. n /\ \A i \in 1 .. n : s[i] \in Seq(T)
  BY LenProperties, ElementOfSeq
<1>4. t \in Seq(Seq(T \X T)) /\ Len(t) = n /\ \A i \in 1 .. n : t[i] = Twice(s[i])
  <2>1. t \in [1 .. n -> Seq(T \X T)]
    BY <1>1, <1>3
  <2>2. t \in Seq(Seq(T \X T)) /\ DOMAIN t = 1 .. n
    BY <1>3, <2>1, SeqDef
  <2> QED
    BY <1>3, <2>2, LenProperties
<1> HIDE DEF t, n
<1>5. CASE n = 0
  <2>1. s = <<>> /\ t = <<>>
    BY <1>3, <1>4, <1>5, EmptySeq DEF n
  <2>2. FlattenSeq(s) = <<>> /\ FlattenSeq(t) = <<>> /\ Twice(<<>>) = <<>>
    BY <2>1 DEF FlattenSeq, Twice
  <2> QED
    BY <2>1, <2>2 DEF t
<1>6. CASE n # 0
  <2>1. s # <<>> /\ t # <<>>
    BY <1>3, <1>4, <1>6, EmptySeq DEF n
  <2>2. PICK f \in [1 .. n -> Seq(T)] :
             /\ f[1] = s[1]
             /\ \A i \in 2 .. n : f[i] = f[i - 1] \o s[i]
             /\ FlattenSeq(s) = f[n]
    BY <2>1, FlattenEquation DEF n
  <2>3. PICK g \in [1 .. n -> Seq(T \X T)] :
             /\ g[1] = t[1]
             /\ \A i \in 2 .. n : g[i] = g[i - 1] \o t[i]
             /\ FlattenSeq(t) = g[n]
    BY <1>4, <2>1, FlattenEquation
  <2> DEFINE S == {i \in 1 .. n : g[i] = Twice(f[i])}
  <2>4. 1 \in S
    BY <1>3, <1>4, <1>6, <2>2, <2>3
  <2>5. ASSUME NEW i \in 1 .. n - 1, i \in S
        PROVE  i + 1 \in S
    <3>1. i \in 1 .. n /\ i + 1 \in 1 .. n /\ i + 1 \in 2 .. n /\ (i + 1) - 1 = i
      BY <1>3
    <3>2. f[i + 1] = f[i] \o s[i + 1] /\ g[i + 1] = g[i] \o t[i + 1]
      BY <2>2, <2>3, <3>1
    <3>3. f[i] \in Seq(T) /\ s[i + 1] \in Seq(T)
      BY <1>3, <2>2, <3>1
    <3> QED
      BY <1>2, <1>4, <2>5, <3>1, <3>2, <3>3
  <2>6. 1 \in Int /\ n \in Int /\ n \in 1 .. n
    BY <1>3, <1>6
  <2> HIDE DEF S
  <2>7. \A i \in 1 .. n : i \in S
    BY <2>4, <2>5, <2>6, Induction, Zenon
  <2> QED
    BY <2>2, <2>3, <2>6, <2>7 DEF S, t
<1> QED
  BY <1>3, <1>5, <1>6

\* ordered_vectors: an answer that is not refused gives the vector of every input, in their
\* order, because indexes that are different and not too large are all the indexes there are.
THEOREM OrderedVectorsInOrder ==
    ASSUME NEW n \in Nat, NEW answer \in Seq(Int), OrderedVectors(answer, n) # <<>>
    PROVE  OrderedVectors(answer, n) = [k \in 1 .. n |-> k - 1]
<1> DEFINE A == 1 .. n
           B == 0 .. n - 1
<1>1. Len(answer) = n /\ IsInjective(answer) /\ ToSet(answer) \subseteq B
  BY DEF OrderedVectors
<1>2. DOMAIN answer = A /\ answer = [i \in A |-> answer[i]] /\ \A i \in A : answer[i] \in B
  BY <1>1, LenProperties, SeqDef DEF ToSet
<1>3. answer \in Injection(A, B)
  BY <1>1, <1>2 DEF Injection
<1>4. IsFiniteSet(A) /\ IsFiniteSet(B) /\ Cardinality(A) = Cardinality(B)
  <2>1. 1 \in Int /\ n \in Int /\ 0 \in Int /\ n - 1 \in Int
    OBVIOUS
  <2>2. IsFiniteSet(A) /\ Cardinality(A) = IF 1 > n THEN 0 ELSE n - 1 + 1
    BY <2>1, FS_Interval
  <2>3. IsFiniteSet(B) /\ Cardinality(B) = IF 0 > n - 1 THEN 0 ELSE n - 1 - 0 + 1
    BY <2>1, FS_Interval
  <2> HIDE DEF A, B
  <2> QED
    BY <2>2, <2>3
<1>5. answer \in Surjection(A, B)
  <2> HIDE DEF A, B
  <2> QED
    BY <1>3, <1>4, FS_Injection
<1>6. ASSUME NEW k \in A
      PROVE  answer[CHOOSE j \in A : answer[j] = k - 1] = k - 1
  <2>1. k - 1 \in B
    OBVIOUS
  <2>2. \E j \in A : answer[j] = k - 1
    BY <1>5, <2>1 DEF Surjection
  <2> HIDE DEF A
  <2> QED
    BY <2>2
<1>7. OrderedVectors(answer, n) = [k \in 1 .. n |-> answer[CHOOSE j \in 1 .. n : answer[j] = k - 1]]
  BY <1>1 DEF OrderedVectors
<1> QED
  BY <1>6, <1>7

-----------------------------------------------------------------------------
(* Texts: sequences of tokens in the order of the document. *)

Token == Nat \X Nat \X Nat
Order == {st \in Token \X Token : Before(st[1], st[2])}

IsText(x) == x \in Seq(Token) /\ Sorted(x, Order)

LineSet(doc, i, l) == {<<i, l, k>> : k \in 1 .. doc[i].lines[l]}
BlockSet(doc, i) == UNION {LineSet(doc, i, l) : l \in DOMAIN doc[i].lines}

\* Lines and blocks.
LEMMA BlockType ==
    ASSUME NEW doc \in Seq(ExtractedBlock), NEW i \in DOMAIN doc
    PROVE  /\ i \in Nat
           /\ doc[i].type \in BlockTypes /\ doc[i].markdown \in BOOLEAN
           /\ doc[i].lines \in Seq(Nat \ {0})
           /\ Len(doc[i].lines) \in Nat /\ DOMAIN doc[i].lines = 1 .. Len(doc[i].lines)
           /\ \A l \in DOMAIN doc[i].lines : l \in Nat /\ doc[i].lines[l] \in Nat \ {0}
<1>1. DOMAIN doc = 1 .. Len(doc) /\ Len(doc) \in Nat /\ doc[i] \in ExtractedBlock
  BY LenProperties, ElementOfSeq
<1>2. /\ doc[i].type \in BlockTypes /\ doc[i].markdown \in BOOLEAN
      /\ doc[i].lines \in Seq(Nat \ {0})
  BY <1>1 DEF ExtractedBlock
<1>3. Len(doc[i].lines) \in Nat /\ DOMAIN doc[i].lines = 1 .. Len(doc[i].lines)
  BY <1>2, LenProperties
<1>4. \A l \in 1 .. Len(doc[i].lines) : doc[i].lines[l] \in Nat \ {0}
  BY <1>2, ElementOfSeq
<1> QED
  BY <1>1, <1>2, <1>3, <1>4

\* The tokens of a line.
LEMMA LineIsText ==
    ASSUME NEW doc \in Seq(ExtractedBlock), NEW i \in DOMAIN doc, NEW l \in DOMAIN doc[i].lines
    PROVE  /\ IsText(LineTokens(doc, i, l))
           /\ ToSet(LineTokens(doc, i, l)) = LineSet(doc, i, l)
           /\ LineSet(doc, i, l) # {}
<1> DEFINE n == doc[i].lines[l]
           x == [k \in 1 .. n |-> <<i, l, k>>]
<1>1. i \in Nat /\ l \in Nat /\ n \in Nat \ {0}
  BY BlockType
<1>2. LineTokens(doc, i, l) = x /\ LineSet(doc, i, l) = {<<i, l, k>> : k \in 1 .. n}
  BY DEF LineTokens, LineSet
<1> HIDE DEF n
<1>3. x \in [1 .. n -> Token]
  BY <1>1 DEF Token
<1>4. x \in Seq(Token) /\ DOMAIN x = 1 .. n
  BY <1>1, <1>3, SeqOfFunction
<1>5. Sorted(x, Order)
  <2>1. SUFFICES ASSUME NEW p \in 1 .. n, NEW q \in 1 .. n, p < q
                 PROVE  <<x[p], x[q]>> \in Order
    BY <1>4 DEF Sorted
  <2>2. x[p] \in Token /\ x[q] \in Token
    BY <1>3
  <2>3. x[p] = <<i, l, p>> /\ x[q] = <<i, l, q>>
    OBVIOUS
  <2>4. Before(x[p], x[q])
    BY <2>1, <2>3 DEF Before
  <2> QED
    BY <2>2, <2>4 DEF Order
<1>6. ToSet(x) = {<<i, l, k>> : k \in 1 .. n}
  BY DEF ToSet
<1>7. 1 \in 1 .. n
  BY <1>1
<1> QED
  BY <1>2, <1>4, <1>5, <1>6, <1>7 DEF IsText

\* Texts one after the other are a text.
LEMMA FlattenText ==
    ASSUME NEW n \in Nat, NEW s, s = [i \in 1 .. n |-> s[i]],
           \A i \in 1 .. n : IsText(s[i]),
           \A i, j \in 1 .. n : i < j => \A x \in ToSet(s[i]), y \in ToSet(s[j]) : Before(x, y)
    PROVE  /\ IsText(FlattenSeq(s))
           /\ ToSet(FlattenSeq(s)) = UNION {ToSet(s[i]) : i \in 1 .. n}
<1>1. s \in [1 .. n -> Seq(Token)]
  BY DEF IsText
<1>2. s \in Seq(Seq(Token)) /\ DOMAIN s = 1 .. n
  BY <1>1, SeqOfFunction
<1>3. \A i \in 1 .. n : \A x \in ToSet(s[i]) : x \in Token
  BY DEF IsText, ToSet
<1>4. \A i, j \in 1 .. n : i < j => \A x \in ToSet(s[i]), y \in ToSet(s[j]) : <<x, y>> \in Order
  BY <1>3 DEF Order
<1>5. \A i \in 1 .. n : Sorted(s[i], Order)
  BY DEF IsText
<1>6. FlattenSeq(s) \in Seq(Token) /\ Sorted(FlattenSeq(s), Order)
      /\ ToSet(FlattenSeq(s)) = UNION {ToSet(s[i]) : i \in DOMAIN s}
  BY <1>2, <1>4, <1>5, FlattenSorted
<1> QED
  BY <1>2, <1>6 DEF IsText

\* The text of some lines of a block.
LEMMA LinesAreText ==
    ASSUME NEW doc \in Seq(ExtractedBlock), NEW i \in DOMAIN doc,
           NEW ls \in Seq(DOMAIN doc[i].lines), Ascending(ls)
    PROVE  /\ IsText(LinesText(doc, i, ls))
           /\ ToSet(LinesText(doc, i, ls)) = UNION {LineSet(doc, i, l) : l \in ToSet(ls)}
<1> DEFINE n == Len(ls)
           s == [p \in DOMAIN ls |-> LineTokens(doc, i, ls[p])]
<1>1. n \in Nat /\ DOMAIN ls = 1 .. n /\ \A p \in 1 .. n : ls[p] \in DOMAIN doc[i].lines
  BY LenProperties, ElementOfSeq
<1> HIDE DEF n
<1>2. \A p \in 1 .. n : IsText(s[p]) /\ ToSet(s[p]) = LineSet(doc, i, ls[p])
  BY <1>1, LineIsText
<1>3. s = [p \in 1 .. n |-> s[p]]
  BY <1>1
<1>4. LinesText(doc, i, ls) = FlattenSeq(s)
  BY DEF LinesText
<1> HIDE DEF s
<1>5. ASSUME NEW p \in 1 .. n, NEW q \in 1 .. n, p < q,
             NEW x \in ToSet(s[p]), NEW y \in ToSet(s[q])
      PROVE  Before(x, y)
  <2>1. ls[p] < ls[q]
    BY <1>1, <1>5 DEF Ascending
  <2>2. x \in LineSet(doc, i, ls[p]) /\ y \in LineSet(doc, i, ls[q])
    BY <1>2, <1>5
  <2>3. x[1] = i /\ x[2] = ls[p] /\ y[1] = i /\ y[2] = ls[q]
    BY <2>2 DEF LineSet
  <2> QED
    BY <2>1, <2>3 DEF Before
<1>6. /\ IsText(FlattenSeq(s))
      /\ ToSet(FlattenSeq(s)) = UNION {ToSet(s[p]) : p \in 1 .. n}
  BY <1>1, <1>2, <1>3, <1>5, FlattenText
<1>7. UNION {ToSet(s[p]) : p \in 1 .. n} = UNION {LineSet(doc, i, l) : l \in ToSet(ls)}
  <2>1. ToSet(ls) = {ls[p] : p \in 1 .. n}
    BY <1>1 DEF ToSet
  <2> QED
    BY <1>2, <2>1
<1> QED
  BY <1>4, <1>6, <1>7

\* The text of a block.
LEMMA BlockIsText ==
    ASSUME NEW doc \in Seq(ExtractedBlock), NEW i \in DOMAIN doc
    PROVE  /\ IsText(BlockText(doc, i))
           /\ ToSet(BlockText(doc, i)) = BlockSet(doc, i)
           /\ BlockSet(doc, i) = {} <=> Blank(doc[i])
<1> DEFINE n == Len(doc[i].lines)
           D == DOMAIN doc[i].lines
           ls == [l \in D |-> l]
<1>1. n \in Nat /\ D = 1 .. n
  BY BlockType
<1> HIDE DEF D, n
<1>2. ls \in [1 .. n -> D] /\ \A p \in 1 .. n : ls[p] = p
  BY <1>1
<1>3. ls \in Seq(D) /\ DOMAIN ls = 1 .. n /\ Ascending(ls)
  <2>1. ls \in Seq(D) /\ DOMAIN ls = 1 .. n
    BY <1>1, <1>2, SeqOfFunction
  <2> QED
    BY <1>2, <2>1 DEF Ascending
<1>4. ToSet(ls) = D
  BY <1>1 DEF ToSet
<1>5. BlockText(doc, i) = LinesText(doc, i, ls)
  BY DEF BlockText, D
<1> HIDE DEF ls
<1>6. IsText(LinesText(doc, i, ls))
      /\ ToSet(LinesText(doc, i, ls)) = UNION {LineSet(doc, i, l) : l \in D}
  BY <1>3, <1>4, LinesAreText DEF D
<1>7. BlockSet(doc, i) = {} <=> D = {}
  BY LineIsText DEF BlockSet, D
<1>8. D = {} <=> Blank(doc[i])
  <2>1. D = {} <=> n = 0
    BY <1>1
  <2>2. n = 0 <=> doc[i].lines = <<>>
    BY BlockType, EmptySeq DEF n
  <2> QED
    BY <2>1, <2>2 DEF Blank
<1> QED
  BY <1>5, <1>6, <1>7, <1>8 DEF BlockSet, D

\* The text of some blocks.
LEMMA BlocksAreText ==
    ASSUME NEW doc \in Seq(ExtractedBlock), NEW s \in Seq(DOMAIN doc), Ascending(s)
    PROVE  /\ IsText(JoinedText(doc, s))
           /\ ToSet(JoinedText(doc, s)) = UNION {BlockSet(doc, i) : i \in ToSet(s)}
<1> DEFINE n == Len(s)
           t == [p \in DOMAIN s |-> BlockText(doc, s[p])]
<1>1. n \in Nat /\ DOMAIN s = 1 .. n /\ \A p \in 1 .. n : s[p] \in DOMAIN doc
  BY LenProperties, ElementOfSeq
<1> HIDE DEF n
<1>2. \A p \in 1 .. n : IsText(t[p]) /\ ToSet(t[p]) = BlockSet(doc, s[p])
  BY <1>1, BlockIsText
<1>3. t = [p \in 1 .. n |-> t[p]]
  BY <1>1
<1>4. JoinedText(doc, s) = FlattenSeq(t)
  BY DEF JoinedText
<1> HIDE DEF t
<1>5. ASSUME NEW p \in 1 .. n, NEW q \in 1 .. n, p < q,
             NEW x \in ToSet(t[p]), NEW y \in ToSet(t[q])
      PROVE  Before(x, y)
  <2>1. s[p] < s[q]
    BY <1>1, <1>5 DEF Ascending
  <2>2. x \in BlockSet(doc, s[p]) /\ y \in BlockSet(doc, s[q])
    BY <1>2, <1>5
  <2>3. x[1] = s[p] /\ y[1] = s[q]
    BY <2>2 DEF BlockSet, LineSet
  <2> QED
    BY <2>1, <2>3 DEF Before
<1>6. /\ IsText(FlattenSeq(t))
      /\ ToSet(FlattenSeq(t)) = UNION {ToSet(t[p]) : p \in 1 .. n}
  BY <1>1, <1>2, <1>3, <1>5, FlattenText
<1>7. UNION {ToSet(t[p]) : p \in 1 .. n} = UNION {BlockSet(doc, i) : i \in ToSet(s)}
  <2>1. ToSet(s) = {s[p] : p \in 1 .. n}
    BY <1>1 DEF ToSet
  <2> QED
    BY <1>2, <2>1
<1> QED
  BY <1>4, <1>6, <1>7

-----------------------------------------------------------------------------
(* WhitespaceReferenceTokenizer.split *)

\* Multiples of a number.
LEMMA Multiples ==
    ASSUME NEW s \in Nat \ {0}
    PROVE  /\ \A j \in Nat : j * s \in Nat /\ (j + 1) * s = j * s + s /\ j <= j * s
           /\ \A j, k \in Nat : j < k => j * s + s <= k * s
           /\ \A j \in Nat : (j * s) % s = 0
           /\ \A i \in Nat : \E j \in Nat : j * s <= i /\ i < j * s + s
           /\ \A i \in Nat : i % s = 0 => \E j \in Nat : i = j * s
<1>1. ASSUME NEW j \in Nat
      PROVE  j * s \in Nat /\ (j + 1) * s = j * s + s /\ j <= j * s
  OBVIOUS
<1>2. ASSUME NEW j \in Nat, NEW k \in Nat, j < k
      PROVE  j * s + s <= k * s
  <2>1. k - j - 1 \in Nat /\ k = (j + 1) + (k - j - 1)
    BY <1>2
  <2>2. k * s = (j + 1) * s + (k - j - 1) * s
    BY <2>1
  <2>3. (k - j - 1) * s \in Nat
    BY <2>1, <1>1
  <2> QED
    BY <1>1, <2>2, <2>3
<1>3. ASSUME NEW i \in Nat
      PROVE  \E j \in Nat : j * s <= i /\ i < j * s + s /\ (i % s = 0 => i = j * s)
  <2> DEFINE d == i \div s
             r == i % s
  <2>1. d \in Nat /\ r \in 0 .. s - 1 /\ i = s * d + r
    OBVIOUS
  <2> HIDE DEF d
  <2>2. s * d = d * s /\ d * s \in Nat
    BY <1>1, <2>1
  <2>3. d * s <= i /\ i < d * s + s /\ (r = 0 => i = d * s)
    <3> HIDE DEF r
    <3> QED
      BY <2>1, <2>2
  <2> QED
    BY <2>1, <2>3
<1>4. ASSUME NEW j \in Nat
      PROVE  (j * s) % s = 0
  OBVIOUS
<1> QED
  BY <1>1, <1>2, <1>3, <1>4

\* The places, from 0, at which the pieces of L tokens start.
Starts(L, step, overlap) ==
    {i \in 0 .. L - 1 : i % step = 0 /\ (i = 0 \/ i + overlap < L)}

\* They are the first multiples of the step.
LEMMA StartsAreMultiples ==
    ASSUME NEW L \in Nat, NEW step \in Nat \ {0}, NEW overlap \in Nat
    PROVE  /\ Cardinality(Starts(L, step, overlap)) \in Nat
           /\ \A j \in Nat : j < Cardinality(Starts(L, step, overlap))
                                <=> j * step \in Starts(L, step, overlap)
<1> DEFINE S == Starts(L, step, overlap)
           J == {j \in Nat : j * step \in S}
<1>1. ASSUME NEW j \in J
      PROVE  j \in 0 .. L - 1
  BY Multiples DEF Starts
<1>2. ASSUME NEW j \in J, NEW k \in Nat, k < j
      PROVE  k \in J
  <2>1. j * step \in Nat /\ k * step \in Nat /\ k * step < j * step /\ (k * step) % step = 0
    BY <1>2, Multiples
  <2>2. j * step \in 0 .. L - 1 /\ (j * step = 0 \/ j * step + overlap < L)
    BY DEF Starts
  <2>3. k * step \in 0 .. L - 1 /\ k * step + overlap < L
    BY <2>1, <2>2
  <2> QED
    BY <2>1, <2>3 DEF Starts
<1>3. \A i \in S : \E j \in J : i = j * step
  BY Multiples DEF Starts
<1>4. CASE J = {}
  <2>1. S = {}
    BY <1>3, <1>4
  <2>2. Cardinality(S) = 0
    BY <2>1, FS_EmptySet
  <2>3. \A j \in Nat : j * step \notin S /\ ~ (j < 0)
    BY <2>1
  <2> HIDE DEF S, J
  <2>4. \A j \in Nat : j < Cardinality(S) <=> j * step \in S
    BY <2>2, <2>3
  <2> QED
    BY <2>2, <2>4 DEF S
<1>5. CASE J # {}
  <2> DEFINE M == Max(J)
             f == [j \in 0 .. M |-> j * step]
  <2>1. M \in J /\ \A j \in J : j <= M
    <3> HIDE DEF J
    <3>1. J \in SUBSET (0 .. L - 1) /\ 0 \in Int /\ L - 1 \in Int
      BY <1>1
    <3> QED
      BY <1>5, <3>1, MaxOf
  <2> HIDE DEF M
  <2>2. J = 0 .. M
    <3>1. \A j \in J : j \in 0 .. M
      BY <1>1, <2>1
    <3>2. ASSUME NEW j \in 0 .. M
          PROVE  j \in J
      <4>1. j \in Nat /\ (j = M \/ j < M)
        BY <2>1
      <4> QED
        BY <1>2, <2>1, <4>1
    <3> QED
      BY <3>1, <3>2
  <2>3. M \in Nat /\ \A j \in 0 .. M : j * step \in S
    BY <2>1, <2>2
  <2>4. f \in Bijection(0 .. M, S)
    <3>1. f \in [0 .. M -> S]
      BY <2>3
    <3>2. \A i \in S : \E j \in 0 .. M : f[j] = i
      BY <1>3, <2>2
    <3>3. ASSUME NEW j \in 0 .. M, NEW k \in 0 .. M, f[j] = f[k]
          PROVE  j = k
      <4>1. j * step = k * step /\ j \in Nat /\ k \in Nat
        BY <2>3, <3>3
      <4>2. (j < k => j * step + step <= k * step) /\ (k < j => k * step + step <= j * step)
            /\ j * step \in Nat
        BY <4>1, Multiples
      <4>3. ~ (j < k) /\ ~ (k < j)
        BY <4>1, <4>2
      <4> QED
        BY <4>1, <4>3
    <3> HIDE DEF f, S
    <3> QED
      BY <3>1, <3>2, <3>3 DEF Bijection, Injection, Surjection, IsInjective
  <2>5. IsFiniteSet(0 .. M) /\ Cardinality(0 .. M) = M + 1
    BY <2>3, FS_Interval
  <2>6. Cardinality(S) = M + 1
    <3>1. ExistsBijection(0 .. M, S)
      BY <2>4 DEF ExistsBijection
    <3> HIDE DEF S, J, f
    <3> QED
      BY <2>5, <3>1, FS_Bijection
  <2>7. \A j \in Nat : j < M + 1 <=> j \in 0 .. M
    BY <2>3
  <2>8. \A j \in Nat : j \in 0 .. M <=> j * step \in S
    BY <2>2
  <2> HIDE DEF S, J
  <2>9. M + 1 \in Nat
    BY <2>3
  <2>10. \A j \in Nat : j < M + 1 <=> j * step \in S
    BY <2>7, <2>8, Zenon
  <2> QED
    BY <2>6, <2>9, <2>10, Zenon DEF S
<1> QED
  BY <1>4, <1>5

\* In a text the places are in the order of the tokens.
LEMMA TextOrdered ==
    ASSUME NEW x, IsText(x), NEW p \in DOMAIN x, NEW q \in DOMAIN x, Before(x[p], x[q])
    PROVE  p < q
<1>1. x \in Seq(Token) /\ DOMAIN x = 1 .. Len(x) /\ Len(x) \in Nat
  BY LenProperties DEF IsText
<1>2. p \in Nat /\ q \in Nat /\ x[p] \in Token /\ x[q] \in Token
  BY <1>1, ElementOfSeq
<1>3. \A s, t \in Token : Before(s, t) => ~ Before(t, s) /\ s # t
  BY DEF Token, Before
<1>4. \A s, t : <<s, t>> \in Order => Before(s, t)
  BY DEF Order
<1>5. q < p => Before(x[q], x[p])
  BY <1>4 DEF IsText, Sorted
<1> QED
  BY <1>2, <1>3, <1>5

\* No token is in a text twice.
LEMMA TextInjective ==
    ASSUME NEW x, IsText(x), NEW p \in DOMAIN x, NEW q \in DOMAIN x, x[p] = x[q]
    PROVE  p = q
<1>1. x \in Seq(Token) /\ DOMAIN x = 1 .. Len(x) /\ Len(x) \in Nat
  BY LenProperties DEF IsText
<1>2. /\ p \in Nat /\ q \in Nat
      /\ \A u, v \in DOMAIN x : u < v => Before(x[u], x[v]) /\ x[u] \in Token
  <2>1. \A u, v \in DOMAIN x : u < v => <<x[u], x[v]>> \in Order
    BY DEF IsText, Sorted
  <2>2. \A s, t : <<s, t>> \in Order => s \in Token /\ Before(s, t)
    BY DEF Order
  <2>3. p \in Nat /\ q \in Nat
    BY <1>1
  <2> QED
    BY <2>1, <2>2, <2>3
<1>3. \A t \in Token : ~ Before(t, t)
  BY DEF Token, Before
<1> QED
  BY <1>2, <1>3

\* Part of a text.
LEMMA SubText ==
    ASSUME NEW x, IsText(x), NEW a \in 1 .. Len(x), NEW b \in a .. Len(x)
    PROVE  /\ IsText(SubSeq(x, a, b))
           /\ Len(SubSeq(x, a, b)) = b - a + 1
           /\ ToSet(SubSeq(x, a, b)) = {x[p] : p \in a .. b}
<1> DEFINE y == SubSeq(x, a, b)
           l == b - a + 1
<1>1. x \in Seq(Token) /\ Len(x) \in Nat /\ DOMAIN x = 1 .. Len(x)
  BY LenProperties DEF IsText
<1>2. l \in Nat /\ \A i \in 1 .. l : a + i - 1 \in a .. b /\ a + i - 1 \in DOMAIN x
  BY <1>1
<1>3. /\ y \in Seq(Token) /\ Len(y) = l /\ DOMAIN y = 1 .. l
      /\ \A i \in 1 .. l : y[i] = x[a + i - 1]
  <2>1. \A i \in a .. b : x[i] \in Token
    BY <1>1, ElementOfSeq
  <2>2. a \in Int /\ b \in Int /\ a <= b
    BY <1>1
  <2>3. y \in Seq(Token) /\ Len(y) = l /\ \A i \in 1 .. l : y[i] = x[a + i - 1]
    BY <2>1, <2>2, SubSeqProperties
  <2> HIDE DEF y
  <2> QED
    BY <2>3, LenProperties
<1> HIDE DEF y, l
<1>4. Sorted(y, Order)
  <2>1. SUFFICES ASSUME NEW p \in 1 .. l, NEW q \in 1 .. l, p < q
                 PROVE  <<y[p], y[q]>> \in Order
    BY <1>3 DEF Sorted
  <2>2. a + p - 1 < a + q - 1
    BY <1>2, <2>1
  <2> QED
    BY <1>2, <1>3, <2>2 DEF IsText, Sorted
<1>5. ToSet(y) = {x[p] : p \in a .. b}
  <2>1. \A p \in a .. b : p - a + 1 \in 1 .. l /\ a + (p - a + 1) - 1 = p
    BY DEF l
  <2>2. \A p \in a .. b : p - a + 1 \in 1 .. l /\ y[p - a + 1] = x[p]
    BY <1>3, <2>1
  <2>3. \A i \in 1 .. l : y[i] \in {x[p] : p \in a .. b}
    BY <1>2, <1>3
  <2>4. \A p \in a .. b : x[p] \in {y[i] : i \in 1 .. l}
    BY <2>2
  <2>5. {y[i] : i \in 1 .. l} = {x[p] : p \in a .. b}
    BY <2>3, <2>4
  <2> QED
    BY <1>3, <2>5 DEF ToSet
<1> QED
  BY <1>3, <1>4, <1>5 DEF IsText, y, l

\* split: the pieces say what the text says, in its order, and twice only with an overlap,
\* which is the end of the one piece and the start of the other.
THEOREM SplitCovers ==
    ASSUME NEW x, IsText(x), NEW max \in Nat \ {0}, NEW overlap \in 0 .. max - 1,
           NEW P, P = Split(x, max, overlap)
    PROVE  /\ P \in Seq(Seq(Token))
           /\ \A n \in DOMAIN P : IsText(P[n]) /\ P[n] # <<>> /\ Len(P[n]) <= max
           /\ UNION {ToSet(P[n]) : n \in DOMAIN P} = ToSet(x)
           /\ \A m, n \in DOMAIN P : m < n =>
                \A t \in ToSet(P[m]), s \in ToSet(P[n]) :
                   Before(s, t) => {s, t} \subseteq ToSet(P[m]) \cap ToSet(P[n])
           /\ overlap = 0 =>
                \A m, n \in DOMAIN P : m # n => ToSet(P[m]) \cap ToSet(P[n]) = {}
<1> DEFINE L == Len(x)
           step == max - overlap
           S == Starts(L, step, overlap)
           K == Cardinality(S)
           lo(n) == (n - 1) * step
           hi(n) == Min({lo(n) + max, L})
<1>1. P = [n \in 1 .. K |-> SubSeq(x, lo(n) + 1, hi(n))]
  BY DEF Split, Starts
<1>2. L \in Nat /\ DOMAIN x = 1 .. L
  BY LenProperties DEF IsText
<1>3. step \in Nat \ {0} /\ overlap \in Nat /\ max = step + overlap /\ step <= max
  OBVIOUS
<1> HIDE DEF L, step, S
<1>4. K \in Nat /\ \A j \in Nat : j < K <=> j * step \in S
  BY <1>2, <1>3, StartsAreMultiples DEF S
<1> HIDE DEF K
<1>5. ASSUME NEW n \in 1 .. K
      PROVE  lo(n) \in 0 .. L - 1
  <2>1. n - 1 \in Nat /\ n - 1 < K
    BY <1>4
  <2>2. lo(n) \in S
    BY <1>4, <2>1
  <2> QED
    BY <2>2 DEF S, Starts
<1>6. ASSUME NEW n \in 1 .. K
      PROVE  /\ hi(n) = IF lo(n) + max <= L THEN lo(n) + max ELSE L
             /\ lo(n) + 1 \in 1 .. L /\ hi(n) \in lo(n) + 1 .. L /\ hi(n) <= lo(n) + max
  <2> HIDE DEF lo
  <2>1. lo(n) \in Int /\ lo(n) + max \in Int /\ L \in Int
    BY <1>2, <1>5
  <2>2. hi(n) = IF lo(n) + max <= L THEN lo(n) + max ELSE L
    BY <2>1, MinOfTwo
  <2> QED
    BY <1>2, <1>5, <2>2
<1>7. ASSUME NEW n \in 1 .. K
      PROVE  /\ IsText(P[n]) /\ P[n] # <<>> /\ Len(P[n]) <= max
             /\ ToSet(P[n]) = {x[p] : p \in lo(n) + 1 .. hi(n)}
  <2> DEFINE a == lo(n) + 1
             b == hi(n)
  <2>1. a \in 1 .. L /\ b \in a .. L /\ b <= (a - 1) + max /\ P[n] = SubSeq(x, a, b)
    <3>1. lo(n) \in Int
      BY <1>5
    <3> HIDE DEF lo, hi
    <3> QED
      BY <1>1, <1>6, <3>1
  <2> HIDE DEF a, b
  <2>2. /\ IsText(P[n]) /\ Len(P[n]) = b - a + 1
        /\ ToSet(P[n]) = {x[p] : p \in a .. b}
    BY <2>1, SubText DEF L
  <2>3. Len(P[n]) # 0 /\ Len(P[n]) <= max
    BY <1>2, <2>1, <2>2
  <2>4. P[n] # <<>>
    BY <2>3, EmptySeq
  <2> QED
    BY <2>2, <2>3, <2>4 DEF a, b
<1>8. DOMAIN P = 1 .. K
  BY <1>1
<1>9. P \in Seq(Seq(Token))
  <2>1. P = [n \in 1 .. K |-> P[n]]
    BY <1>1
  <2>2. P \in [1 .. K -> Seq(Token)]
    BY <1>7, <2>1 DEF IsText
  <2> QED
    BY <1>4, <2>2, SeqOfFunction
<1>10. ASSUME NEW p \in 1 .. L
       PROVE  \E n \in 1 .. K : p \in lo(n) + 1 .. hi(n)
  <2>1. 0 < K
    <3>1. 0 * step = 0 /\ 0 % step = 0
      BY <1>3, Multiples
    <3>2. 0 \in S
      BY <1>2, <3>1 DEF S, Starts
    <3> QED
      BY <1>4, <3>1, <3>2
  <2>2. (K - 1) * step \in Nat /\ L <= (K - 1) * step + max
    <3>1. K - 1 \in Nat /\ (K - 1) + 1 = K
      BY <1>4, <2>1
    <3>2. (K - 1) * step \in Nat /\ K * step = (K - 1) * step + step /\ K * step \in Nat
          /\ (K * step) % step = 0
      BY <1>3, <1>4, <3>1, Multiples
    <3>3. K * step \notin S
      BY <1>4
    <3>4. ~ (K * step + overlap < L)
      <4> DEFINE k == K * step
      <4> HIDE DEF k
      <4>1. k \in Nat /\ k % step = 0 /\ k \notin S
        BY <3>2, <3>3 DEF k
      <4>2. ~ (k + overlap < L)
        BY <1>2, <1>3, <4>1 DEF S, Starts
      <4> QED
        BY <4>2 DEF k
    <3> DEFINE k == K * step
               h == (K - 1) * step
    <3>5. h \in Nat /\ k = h + step /\ ~ (k + overlap < L)
      BY <3>2, <3>4
    <3> HIDE DEF k, h
    <3>6. L <= h + max
      BY <1>2, <1>3, <3>5
    <3> QED
      BY <3>5, <3>6 DEF h
  <2>3. PICK j \in Nat : j * step <= p - 1 /\ p - 1 < j * step + step
    <3>1. p - 1 \in Nat
      OBVIOUS
    <3> QED
      BY <1>3, <3>1, Multiples
  <2>4. j * step \in Nat
    BY <1>3, Multiples
  <2>5. CASE j < K
    <3>1. j + 1 \in 1 .. K /\ (j + 1) - 1 = j
      BY <1>4, <2>5
    <3>2. lo(j + 1) = j * step
      BY <3>1
    <3> HIDE DEF lo, hi
    <3>3. hi(j + 1) = IF lo(j + 1) + max <= L THEN lo(j + 1) + max ELSE L
      BY <1>6, <3>1
    <3> DEFINE h == j * step
    <3>4. h \in Nat /\ h <= p - 1 /\ p - 1 < h + step /\ lo(j + 1) = h
      BY <2>3, <2>4, <3>2
    <3> HIDE DEF h
    <3>5. p \in lo(j + 1) + 1 .. hi(j + 1)
      BY <1>2, <1>3, <3>3, <3>4
    <3> QED
      BY <3>1, <3>5
  <2>6. CASE ~ (j < K)
    <3>1. K \in 1 .. K /\ K - 1 \in Nat /\ K - 1 < j
      BY <1>4, <2>1, <2>6
    <3>2. lo(K) = (K - 1) * step
      OBVIOUS
    <3>3. (K - 1) * step + step <= j * step
      BY <1>3, <3>1, Multiples
    <3> HIDE DEF lo, hi
    <3>4. hi(K) = IF lo(K) + max <= L THEN lo(K) + max ELSE L
      BY <1>6, <3>1
    <3> DEFINE h == (K - 1) * step
               g == j * step
    <3>5. /\ h \in Nat /\ g \in Nat /\ h + step <= g /\ g <= p - 1
          /\ lo(K) = h /\ L <= h + max
      BY <2>2, <2>3, <2>4, <3>2, <3>3
    <3> HIDE DEF h, g
    <3>6. p \in lo(K) + 1 .. hi(K)
      BY <1>2, <1>3, <3>4, <3>5
    <3> QED
      BY <3>1, <3>6
  <2> QED
    BY <2>5, <2>6
<1>11. UNION {ToSet(P[n]) : n \in DOMAIN P} = ToSet(x)
  <2>1. ToSet(x) = {x[p] : p \in 1 .. L}
    BY <1>2 DEF ToSet
  <2> HIDE DEF lo, hi
  <2>2. \A n \in 1 .. K : lo(n) + 1 .. hi(n) \subseteq 1 .. L
    BY <1>2, <1>6
  <2>3. \A n \in 1 .. K : ToSet(P[n]) \subseteq ToSet(x)
    BY <1>7, <2>1, <2>2
  <2>4. ASSUME NEW p \in 1 .. L
        PROVE  x[p] \in UNION {ToSet(P[n]) : n \in 1 .. K}
    <3>1. PICK n \in 1 .. K : p \in lo(n) + 1 .. hi(n)
      BY <1>10
    <3>2. x[p] \in ToSet(P[n])
      BY <1>7, <3>1
    <3> QED
      BY <3>2
  <2> QED
    BY <1>8, <2>1, <2>3, <2>4
<1>12. ASSUME overlap = 0, NEW m \in 1 .. K, NEW n \in 1 .. K, m < n,
              NEW t \in ToSet(P[m]) \cap ToSet(P[n])
       PROVE  FALSE
  <2>1. lo(m) + max <= lo(n) /\ lo(m) \in Nat /\ lo(n) \in Nat
    <3>1. max = step /\ m - 1 \in Nat /\ n - 1 \in Nat /\ m - 1 < n - 1
      BY <1>3, <1>4, <1>12
    <3> QED
      BY <1>3, <3>1, Multiples
  <2> HIDE DEF lo, hi
  <2>2. t \in {x[p] : p \in lo(m) + 1 .. hi(m)} /\ t \in {x[q] : q \in lo(n) + 1 .. hi(n)}
    BY <1>7, <1>12
  <2>3. PICK p \in lo(m) + 1 .. hi(m), q \in lo(n) + 1 .. hi(n) : x[p] = t /\ x[q] = t
    BY <2>2
  <2>4. /\ hi(m) \in lo(m) + 1 .. L /\ hi(m) <= lo(m) + max /\ hi(n) \in lo(n) + 1 .. L
    BY <1>6
  <2>5. p \in 1 .. L /\ q \in 1 .. L /\ p < q
    BY <1>2, <2>1, <2>3, <2>4
  <2>6. p = q
    BY <1>2, <2>3, <2>5, TextInjective
  <2> QED
    BY <1>2, <2>5, <2>6
<1>13. ASSUME overlap = 0, NEW m \in DOMAIN P, NEW n \in DOMAIN P, m # n
       PROVE  ToSet(P[m]) \cap ToSet(P[n]) = {}
  <2>1. m \in 1 .. K /\ n \in 1 .. K /\ (m < n \/ n < m)
    BY <1>4, <1>8, <1>13
  <2> QED
    BY <1>12, <1>13, <2>1
<1>14. ASSUME NEW m \in 1 .. K, NEW n \in 1 .. K, m < n,
              NEW t \in ToSet(P[m]), NEW s \in ToSet(P[n]), Before(s, t)
       PROVE  {s, t} \subseteq ToSet(P[m]) \cap ToSet(P[n])
  <2>1. lo(m) + step <= lo(n) /\ lo(m) \in Nat /\ lo(n) \in Nat
    <3>1. m - 1 \in Nat /\ n - 1 \in Nat /\ m - 1 < n - 1
      BY <1>4, <1>14
    <3> QED
      BY <1>3, <3>1, Multiples
  <2> HIDE DEF lo, hi
  <2>2. /\ ToSet(P[m]) = {x[p] : p \in lo(m) + 1 .. hi(m)}
        /\ ToSet(P[n]) = {x[q] : q \in lo(n) + 1 .. hi(n)}
    BY <1>7
  <2>3. PICK p \in lo(m) + 1 .. hi(m) : x[p] = t
    BY <1>14, <2>2
  <2>4. PICK q \in lo(n) + 1 .. hi(n) : x[q] = s
    BY <1>14, <2>2
  <2>5. /\ hi(m) = IF lo(m) + max <= L THEN lo(m) + max ELSE L
        /\ hi(n) = IF lo(n) + max <= L THEN lo(n) + max ELSE L
        /\ hi(m) \in lo(m) + 1 .. L /\ hi(n) \in lo(n) + 1 .. L
    BY <1>6
  <2>6. hi(m) <= hi(n) /\ hi(m) \in Int /\ hi(n) \in Int
    BY <1>2, <1>3, <2>1, <2>5
  <2>7. p \in 1 .. L /\ q \in 1 .. L
    BY <1>2, <2>1, <2>3, <2>4, <2>5
  <2>8. q < p
    BY <1>2, <1>14, <2>3, <2>4, <2>7, TextOrdered
  <2>9. p \in lo(n) + 1 .. hi(n) /\ q \in lo(m) + 1 .. hi(m)
    BY <1>3, <2>1, <2>3, <2>4, <2>6, <2>7, <2>8
  <2> QED
    BY <2>2, <2>3, <2>4, <2>9
<1>15. \A m, n \in DOMAIN P : m < n =>
         \A t \in ToSet(P[m]), s \in ToSet(P[n]) :
            Before(s, t) => {s, t} \subseteq ToSet(P[m]) \cap ToSet(P[n])
  BY <1>8, <1>14
<1> QED
  BY <1>7, <1>8, <1>9, <1>11, <1>13, <1>15

-----------------------------------------------------------------------------
(* What drafts say. *)

ChunkTypes == {"table", "code", "mixed", "text"}
DraftRecords == [content : Seq(Token), title : Nat, type : ChunkTypes]

\* A row of a table under the two lines of its header.
IsOneRow(chunk) == chunk.type = "table" /\ Cardinality({t[2] : t \in ToSet(chunk.content)}) = 3

Headers(doc) == {t \in Token : /\ doc[t[1]].type = "table" /\ doc[t[1]].markdown
                               /\ t[2] <= 2}

\* What Y says comes after what X says, but for the header of the same table.
Apart(doc, X, Y) ==
    \A t \in X, s \in Y : Before(s, t) => s[1] = t[1] /\ s \in Headers(doc)

\* The same of chunks that may overlap.
Follows(doc, X, Y) ==
    \A t \in X, s \in Y :
        Before(s, t) => \/ {s, t} \subseteq X \cap Y
                        \/ s[1] = t[1] /\ s \in Headers(doc)

\* Parts of the one follow parts of the other.
LEMMA PartsFollow ==
    ASSUME NEW doc, NEW X, NEW Y, Apart(doc, X, Y), NEW V, NEW W, V \subseteq X, W \subseteq Y
    PROVE  Follows(doc, V, W)
BY DEF Apart, Follows

\* The drafts ds, with the title, say X: in the order of the document, inside a draft and
\* from draft to draft, within the limit, and without overlap nothing twice but the header
\* of a table.
Says(doc, c, title, ds, X) ==
    /\ ds \in Seq(DraftRecords)
    /\ \A n \in DOMAIN ds :
         /\ IsText(ds[n].content) /\ ds[n].content # <<>> /\ ds[n].title = title
         /\ Len(ds[n].content) > c.max_tokens => IsOneRow(ds[n])
    /\ UNION {ToSet(ds[n].content) : n \in DOMAIN ds} = X
    /\ \A m, n \in DOMAIN ds :
         m < n => Follows(doc, ToSet(ds[m].content), ToSet(ds[n].content))
    /\ c.overlap_tokens = 0 =>
         \A m, n \in DOMAIN ds :
            m # n => ToSet(ds[m].content) \cap ToSet(ds[n].content) \subseteq Headers(doc)

\* No drafts say nothing.
LEMMA SaysNothing ==
    ASSUME NEW doc, NEW c, NEW title
    PROVE  Says(doc, c, title, <<>>, {})
BY DEF Says

\* One draft.
LEMMA SaysOne ==
    ASSUME NEW doc, NEW c, NEW d \in DraftRecords,
           IsText(d.content), d.content # <<>>, Len(d.content) > c.max_tokens => IsOneRow(d)
    PROVE  Says(doc, c, d.title, <<d>>, ToSet(d.content))
<1>1. <<d>> \in Seq(DraftRecords) /\ DOMAIN <<d>> = {1} /\ <<d>>[1] = d
  OBVIOUS
<1>2. UNION {ToSet(<<d>>[n].content) : n \in {1}} = ToSet(d.content)
  BY <1>1
<1>3. \A m, n \in {1} : ~ (m < n)
  OBVIOUS
<1> QED
  BY <1>1, <1>2, <1>3 DEF Says

\* Drafts after drafts.
LEMMA SaysMore ==
    ASSUME NEW doc, NEW c, NEW title, NEW d, NEW e, NEW X, NEW Y,
           Says(doc, c, title, d, X), Says(doc, c, title, e, Y), X \cap Y \subseteq Headers(doc),
           Apart(doc, X, Y)
    PROVE  Says(doc, c, title, d \o e, X \cup Y)
<1> DEFINE f == d \o e
           L == Len(d)
           M == Len(e)
           Of(ds, n) == ToSet(ds[n].content)
<1>1. /\ d \in Seq(DraftRecords) /\ e \in Seq(DraftRecords) /\ L \in Nat /\ M \in Nat
      /\ DOMAIN d = 1 .. L /\ DOMAIN e = 1 .. M
  BY LenProperties DEF Says
<1>2. /\ f \in Seq(DraftRecords) /\ DOMAIN f = 1 .. L + M
      /\ \A n \in 1 .. L + M : f[n] = IF n <= L THEN d[n] ELSE e[n - L]
  <2>1. f \in Seq(DraftRecords) /\ Len(f) = L + M
        /\ \A n \in 1 .. L + M : f[n] = IF n <= L THEN d[n] ELSE e[n - L]
    BY <1>1, ConcatProperties
  <2> HIDE DEF f
  <2> QED
    BY <2>1, LenProperties
<1> HIDE DEF f, L, M
<1>3. \A n \in DOMAIN f : \/ n \in DOMAIN d /\ f[n] = d[n]
                          \/ n \notin DOMAIN d /\ n - L \in DOMAIN e /\ f[n] = e[n - L]
  BY <1>1, <1>2
<1>4. /\ \A n \in DOMAIN d : n \in DOMAIN f /\ f[n] = d[n]
      /\ \A n \in DOMAIN e : n + L \in DOMAIN f /\ f[n + L] = e[n]
  BY <1>1, <1>2
<1>5. /\ \A n \in DOMAIN d : Of(d, n) \subseteq X
      /\ \A n \in DOMAIN e : Of(e, n) \subseteq Y
      /\ UNION {Of(d, n) : n \in DOMAIN d} = X
      /\ UNION {Of(e, n) : n \in DOMAIN e} = Y
  BY DEF Says
<1>6. ASSUME NEW n \in DOMAIN f
      PROVE  /\ IsText(f[n].content) /\ f[n].content # <<>> /\ f[n].title = title
             /\ Len(f[n].content) > c.max_tokens => IsOneRow(f[n])
  BY <1>3 DEF Says
<1>7. UNION {Of(f, n) : n \in DOMAIN f} = X \cup Y
  <2>1. ASSUME NEW n \in DOMAIN f
        PROVE  Of(f, n) \subseteq X \cup Y
    <3>1. CASE n \in DOMAIN d
      <4>1. Of(f, n) = Of(d, n)
        BY <1>3, <3>1
      <4> HIDE DEF Of
      <4> QED
        BY <1>5, <3>1, <4>1
    <3>2. CASE n \notin DOMAIN d
      <4>1. n - L \in DOMAIN e /\ Of(f, n) = Of(e, n - L)
        BY <1>3, <3>2
      <4> HIDE DEF Of
      <4> QED
        BY <1>5, <3>2, <4>1
    <3> QED
      BY <3>1, <3>2
  <2>2. \A n \in DOMAIN d : n \in DOMAIN f /\ Of(f, n) = Of(d, n)
    BY <1>4
  <2>3. \A n \in DOMAIN e : n + L \in DOMAIN f /\ Of(f, n + L) = Of(e, n)
    BY <1>4
  <2> HIDE DEF Of
  <2>4. \A t \in X : \E n \in DOMAIN f : t \in Of(f, n)
    BY <1>5, <2>2
  <2>5. \A t \in Y : \E n \in DOMAIN f : t \in Of(f, n)
    BY <1>5, <2>3
  <2> QED
    BY <2>1, <2>4, <2>5
<1>8. ASSUME c.overlap_tokens = 0, NEW m \in DOMAIN f, NEW n \in DOMAIN f, m # n
      PROVE  Of(f, m) \cap Of(f, n) \subseteq Headers(doc)
  <2>1. /\ \A i, j \in DOMAIN d : i # j => Of(d, i) \cap Of(d, j) \subseteq Headers(doc)
        /\ \A i, j \in DOMAIN e : i # j => Of(e, i) \cap Of(e, j) \subseteq Headers(doc)
    BY <1>8 DEF Says
  <2>2. /\ m \in DOMAIN d => Of(f, m) = Of(d, m)
        /\ n \in DOMAIN d => Of(f, n) = Of(d, n)
        /\ m \notin DOMAIN d => m - L \in DOMAIN e /\ Of(f, m) = Of(e, m - L)
        /\ n \notin DOMAIN d => n - L \in DOMAIN e /\ Of(f, n) = Of(e, n - L)
    BY <1>3
  <2>3. m - L # n - L
    BY <1>1, <1>2, <1>8
  <2> HIDE DEF Of
  <2>4. CASE m \in DOMAIN d /\ n \in DOMAIN d
    BY <1>8, <2>1, <2>2, <2>4
  <2>5. CASE m \notin DOMAIN d /\ n \notin DOMAIN d
    BY <2>1, <2>2, <2>3, <2>5
  <2>6. CASE m \in DOMAIN d /\ n \notin DOMAIN d
    <3>1. Of(f, m) \subseteq X /\ Of(f, n) \subseteq Y
      BY <1>5, <2>2, <2>6
    <3> QED
      BY <3>1
  <2>7. CASE m \notin DOMAIN d /\ n \in DOMAIN d
    <3>1. Of(f, m) \subseteq Y /\ Of(f, n) \subseteq X
      BY <1>5, <2>2, <2>7
    <3> QED
      BY <3>1
  <2> QED
    BY <2>4, <2>5, <2>6, <2>7
<1>9. ASSUME NEW m \in DOMAIN f, NEW n \in DOMAIN f, m < n
      PROVE  Follows(doc, Of(f, m), Of(f, n))
  <2>1. /\ \A i, j \in DOMAIN d : i < j => Follows(doc, Of(d, i), Of(d, j))
        /\ \A i, j \in DOMAIN e : i < j => Follows(doc, Of(e, i), Of(e, j))
    BY DEF Says
  <2>2. /\ m \in DOMAIN d => Of(f, m) = Of(d, m)
        /\ n \in DOMAIN d => Of(f, n) = Of(d, n)
        /\ m \notin DOMAIN d => m - L \in DOMAIN e /\ Of(f, m) = Of(e, m - L)
        /\ n \notin DOMAIN d => n - L \in DOMAIN e /\ Of(f, n) = Of(e, n - L)
    BY <1>3
  <2>3. m - L < n - L /\ (n \in DOMAIN d => m \in DOMAIN d)
    BY <1>1, <1>2, <1>9
  <2> HIDE DEF Of
  <2>4. CASE n \in DOMAIN d
    BY <1>9, <2>1, <2>2, <2>3, <2>4
  <2>5. CASE m \notin DOMAIN d /\ n \notin DOMAIN d
    BY <2>1, <2>2, <2>3, <2>5
  <2>6. CASE m \in DOMAIN d /\ n \notin DOMAIN d
    <3>1. Of(f, m) \subseteq X /\ Of(f, n) \subseteq Y
      BY <1>5, <2>2, <2>6
    <3> QED
      BY <3>1, PartsFollow
  <2> QED
    BY <2>4, <2>5, <2>6
<1> QED
  BY <1>2, <1>6, <1>7, <1>8, <1>9 DEF Says, f

\* The type of a chunk.
LEMMA ContentTypeType ==
    ASSUME NEW doc, NEW s
    PROVE  ContentType(doc, s) \in ChunkTypes
BY DEF ContentType, ChunkTypes

\* The drafts of the pieces of a text.
LEMMA SaysPieces ==
    ASSUME NEW doc, NEW c, ValidConfig(c), NEW x, IsText(x), NEW s, NEW title \in Nat,
           NEW overlap \in {0, c.overlap_tokens}
    PROVE  Says(doc, c, title, Drafts(doc, Split(x, c.max_tokens, overlap), s, title), ToSet(x))
<1> DEFINE P == Split(x, c.max_tokens, overlap)
           ds == Drafts(doc, P, s, title)
<1>1. c.max_tokens \in Nat \ {0} /\ overlap \in 0 .. c.max_tokens - 1
      /\ (c.overlap_tokens = 0 => overlap = 0)
  BY DEF ValidConfig
<1>2. P = Split(x, c.max_tokens, overlap)
  OBVIOUS
<1>3. /\ P \in Seq(Seq(Token))
      /\ \A n \in DOMAIN P : IsText(P[n]) /\ P[n] # <<>> /\ Len(P[n]) <= c.max_tokens
      /\ UNION {ToSet(P[n]) : n \in DOMAIN P} = ToSet(x)
      /\ \A m, n \in DOMAIN P : m < n =>
           \A t \in ToSet(P[m]), u \in ToSet(P[n]) :
              Before(u, t) => {u, t} \subseteq ToSet(P[m]) \cap ToSet(P[n])
      /\ overlap = 0 =>
           \A m, n \in DOMAIN P : m # n => ToSet(P[m]) \cap ToSet(P[n]) = {}
  <2> HIDE DEF P
  <2> QED
    BY <1>1, <1>2, SplitCovers, SMTT(30)
<1> HIDE DEF P
<1>4. DOMAIN P = 1 .. Len(P) /\ Len(P) \in Nat
  BY <1>3, LenProperties
<1>5. /\ DOMAIN ds = DOMAIN P /\ ds = [n \in DOMAIN P |-> ds[n]]
      /\ \A n \in DOMAIN P : /\ ds[n].content = P[n] /\ ds[n].title = title
                             /\ ds[n] \in DraftRecords
  <2>1. \A n \in DOMAIN P : P[n] \in Seq(Token)
    BY <1>3 DEF IsText
  <2> QED
    BY <2>1, ContentTypeType DEF Drafts, Draft, DraftRecords
<1> HIDE DEF ds
<1>6. ds \in Seq(DraftRecords)
  <2>1. ds \in [1 .. Len(P) -> DraftRecords]
    BY <1>4, <1>5
  <2> QED
    BY <1>4, <2>1, SeqOfFunction
<1>7. \A n \in DOMAIN ds : ~ (Len(ds[n].content) > c.max_tokens)
  <2>1. \A n \in DOMAIN ds : P[n] \in Seq(Token) /\ ds[n].content = P[n]
    BY <1>3, <1>5 DEF IsText
  <2>2. \A n \in DOMAIN ds : Len(P[n]) \in Nat
    BY <2>1, LenProperties
  <2> QED
    BY <1>1, <1>3, <1>5, <2>2
<1>8. UNION {ToSet(ds[n].content) : n \in DOMAIN ds} = ToSet(x)
  <2>1. {ToSet(ds[n].content) : n \in DOMAIN ds} = {ToSet(P[n]) : n \in DOMAIN P}
    BY <1>5
  <2> QED
    BY <1>3, <2>1
<1>9. c.overlap_tokens = 0 =>
        \A m, n \in DOMAIN ds :
          m # n => ToSet(ds[m].content) \cap ToSet(ds[n].content) \subseteq Headers(doc)
  BY <1>1, <1>3, <1>5
<1>10. \A m, n \in DOMAIN ds :
        m < n => Follows(doc, ToSet(ds[m].content), ToSet(ds[n].content))
  <2>1. ASSUME NEW m \in DOMAIN P, NEW n \in DOMAIN P, m < n
        PROVE  Follows(doc, ToSet(P[m]), ToSet(P[n]))
    BY <1>3, <2>1 DEF Follows
  <2> QED
    BY <1>5, <2>1
<1> QED
  BY <1>3, <1>5, <1>6, <1>7, <1>8, <1>9, <1>10 DEF Says, ds, P

-----------------------------------------------------------------------------
(* Tables. *)

\* emit_text_blocks
LEMMA SaysTextBlocks ==
    ASSUME NEW doc \in Seq(ExtractedBlock), NEW c, ValidConfig(c), NEW title \in Nat,
           NEW s \in Seq(DOMAIN doc), Ascending(s)
    PROVE  Says(doc, c, title, EmitTextBlocks(doc, c, s, title),
                UNION {BlockSet(doc, i) : i \in ToSet(s)})
<1>1. IsText(JoinedText(doc, s))
      /\ ToSet(JoinedText(doc, s)) = UNION {BlockSet(doc, i) : i \in ToSet(s)}
  BY BlocksAreText
<1>2. Says(doc, c, title,
           Drafts(doc, Split(JoinedText(doc, s), c.max_tokens, c.overlap_tokens), s, title),
           ToSet(JoinedText(doc, s)))
  BY <1>1, SaysPieces
<1> QED
  BY <1>1, <1>2 DEF EmitTextBlocks

\* The rows from l to m of the table i under its header.
RowsText(doc, i, l, m) == LinesText(doc, i, <<1, 2>> \o [k \in 1 .. m - l + 1 |-> l + k - 1])
RowsSet(doc, i, l, m) == UNION {LineSet(doc, i, k) : k \in {1, 2} \cup (l .. m)}

\* They are a text.
LEMMA RowsAreText ==
    ASSUME NEW doc \in Seq(ExtractedBlock), NEW i \in DOMAIN doc,
           NEW l \in 3 .. Len(doc[i].lines), NEW m \in l .. Len(doc[i].lines)
    PROVE  /\ IsText(RowsText(doc, i, l, m))
           /\ ToSet(RowsText(doc, i, l, m)) = RowsSet(doc, i, l, m)
           /\ RowsText(doc, i, l, m) # <<>>
<1> DEFINE L == Len(doc[i].lines)
           D == DOMAIN doc[i].lines
           r == [k \in 1 .. m - l + 1 |-> l + k - 1]
           ls == <<1, 2>> \o r
           n == m - l + 1
<1>1. L \in Nat /\ D = 1 .. L
  BY BlockType
<1> HIDE DEF D, L
<1>2. l \in 3 .. L /\ m \in l .. L
  BY DEF L
<1>3. /\ <<1, 2>> \in Seq(D) /\ Len(<<1, 2>>) = 2 /\ <<1, 2>>[1] = 1 /\ <<1, 2>>[2] = 2
  <2>1. 1 \in D /\ 2 \in D
    BY <1>1, <1>2
  <2> QED
    BY <2>1
<1>4. n \in Nat /\ r \in Seq(D) /\ Len(r) = n /\ \A k \in 1 .. n : r[k] = l + k - 1
  <2>1. n \in Nat /\ \A k \in 1 .. n : l + k - 1 \in D
    BY <1>1, <1>2
  <2>2. r \in [1 .. n -> D]
    BY <2>1
  <2> QED
    BY <2>1, <2>2, SeqOfFunction
<1>5. /\ ls \in Seq(D) /\ DOMAIN ls = 1 .. 2 + n
      /\ ls[1] = 1 /\ ls[2] = 2 /\ \A p \in 3 .. 2 + n : ls[p] = l + p - 3
  <2> DEFINE h == <<1, 2>>
  <2>1. h \in Seq(D) /\ Len(h) = 2 /\ h[1] = 1 /\ h[2] = 2
    BY <1>3
  <2> HIDE DEF h, r, n
  <2>2. /\ h \o r \in Seq(D) /\ Len(h \o r) = Len(h) + Len(r)
        /\ \A p \in 1 .. Len(h) + Len(r) :
             (h \o r)[p] = IF p <= Len(h) THEN h[p] ELSE r[p - Len(h)]
    BY <1>4, <2>1, ConcatProperties
  <2>3. DOMAIN (h \o r) = 1 .. 2 + n
    BY <1>4, <2>1, <2>2, LenProperties
  <2>4. (h \o r)[1] = 1 /\ (h \o r)[2] = 2
    BY <1>4, <2>1, <2>2
  <2>5. ASSUME NEW p \in 3 .. 2 + n
        PROVE  (h \o r)[p] = l + p - 3
    <3>1. p \in 1 .. 2 + n /\ ~ (p <= 2) /\ p - 2 \in 1 .. n /\ l + (p - 2) - 1 = l + p - 3
      BY <1>2, <1>4
    <3>2. (h \o r)[p] = r[p - 2]
      BY <1>4, <2>1, <2>2, <3>1
    <3> QED
      BY <1>4, <3>1, <3>2
  <2> QED
    BY <2>2, <2>3, <2>4, <2>5 DEF h
<1> HIDE DEF ls
<1>6. Ascending(ls)
  <2>1. \A p \in 1 .. 2 + n : p = 1 \/ p = 2 \/ p \in 3 .. 2 + n
    BY <1>4
  <2>2. \A p \in 3 .. 2 + n : ls[p] > 2 /\ ls[p] = l + p - 3
    BY <1>2, <1>5
  <2> QED
    BY <1>2, <1>5, <2>1, <2>2 DEF Ascending
<1>7. ToSet(ls) = {1, 2} \cup (l .. m)
  <2>1. \A p \in 1 .. 2 + n : ls[p] \in {1, 2} \cup (l .. m)
    <3>1. \A p \in 1 .. 2 + n : p = 1 \/ p = 2 \/ p \in 3 .. 2 + n
      BY <1>4
    <3>2. \A p \in 3 .. 2 + n : l + p - 3 \in l .. m
      BY <1>2
    <3> QED
      BY <1>5, <3>1, <3>2
  <2>2. \A k \in l .. m : k - l + 3 \in 3 .. 2 + n /\ l + (k - l + 3) - 3 = k
    BY <1>2
  <2>3. \A k \in l .. m : k - l + 3 \in 1 .. 2 + n /\ ls[k - l + 3] = k
    BY <1>2, <1>4, <1>5, <2>2
  <2>4. 1 \in 1 .. 2 + n /\ 2 \in 1 .. 2 + n
    BY <1>4
  <2>5. {1, 2} \cup (l .. m) \subseteq {ls[p] : p \in 1 .. 2 + n}
    BY <1>5, <2>3, <2>4
  <2> QED
    BY <1>5, <2>1, <2>5 DEF ToSet
<1>8. /\ IsText(LinesText(doc, i, ls))
      /\ ToSet(LinesText(doc, i, ls)) = UNION {LineSet(doc, i, k) : k \in {1, 2} \cup (l .. m)}
  <2>1. /\ IsText(LinesText(doc, i, ls))
        /\ ToSet(LinesText(doc, i, ls)) = UNION {LineSet(doc, i, k) : k \in ToSet(ls)}
    BY <1>5, <1>6, LinesAreText DEF D
  <2> QED
    BY <1>7, <2>1
<1>9. RowsText(doc, i, l, m) = LinesText(doc, i, ls)
  BY DEF RowsText, ls
<1>10. LineSet(doc, i, 1) # {}
  <2>1. 1 \in D
    BY <1>1, <1>2
  <2> QED
    BY <2>1, LineIsText DEF D
<1>11. RowsText(doc, i, l, m) # <<>>
  <2>1. ToSet(RowsText(doc, i, l, m)) # {}
    BY <1>8, <1>9, <1>10
  <2>2. ToSet(<<>>) = {}
    BY DEF ToSet
  <2> QED
    BY <2>1, <2>2
<1> QED
  BY <1>8, <1>9, <1>11 DEF RowsSet

\* One row under the header has the tokens of three lines.
LEMMA OneRowSet ==
    ASSUME NEW doc \in Seq(ExtractedBlock), NEW i \in DOMAIN doc,
           NEW l \in 3 .. Len(doc[i].lines)
    PROVE  Cardinality({t[2] : t \in RowsSet(doc, i, l, l)}) = 3
<1>1. l \in Int /\ l # 1 /\ l # 2 /\ {1, 2} \cup (l .. l) = {1, 2, l}
  OBVIOUS
<1>2. \A k \in {1, 2, l} : k \in DOMAIN doc[i].lines
  BY BlockType
<1>3. ASSUME NEW k \in {1, 2, l}
      PROVE  \E t \in LineSet(doc, i, k) : t[2] = k
  <2>1. LineSet(doc, i, k) # {}
    BY <1>2, LineIsText
  <2>2. PICK j \in 1 .. doc[i].lines[k] : <<i, k, j>> \in LineSet(doc, i, k)
    BY <2>1 DEF LineSet
  <2>3. <<i, k, j>>[2] = k
    OBVIOUS
  <2> QED
    BY <2>2, <2>3
<1>4. \A k : \A t \in LineSet(doc, i, k) : t[2] = k
  BY SMTT(30) DEF LineSet
<1>5. RowsSet(doc, i, l, l) = UNION {LineSet(doc, i, k) : k \in {1, 2, l}}
  BY <1>1 DEF RowsSet
<1>6. {t[2] : t \in RowsSet(doc, i, l, l)} = {1, 2, l}
  <2>1. \A t \in RowsSet(doc, i, l, l) : t[2] \in {1, 2, l}
    BY <1>4, <1>5
  <2>2. \A k \in {1, 2, l} : \E t \in RowsSet(doc, i, l, l) : t[2] = k
    BY <1>3, <1>5
  <2> QED
    BY <2>1, <2>2
<1>7. Cardinality({1, 2, l}) = 3
  <2>1. IsFiniteSet({1}) /\ Cardinality({1}) = 1
    BY FS_Singleton
  <2> DEFINE A == {1}
             B == {1, 2}
  <2>2. 2 \notin A /\ A \cup {2} = B /\ l \notin B /\ B \cup {l} = {1, 2, l}
    BY <1>1
  <2> HIDE DEF A, B
  <2>3. IsFiniteSet(A) /\ Cardinality(A) = 1
    BY <2>1 DEF A
  <2>4. IsFiniteSet(B) /\ Cardinality(B) = 1 + 1
    BY <2>2, <2>3, FS_AddElement
  <2>5. Cardinality(B \cup {l}) = (1 + 1) + 1
    BY <2>2, <2>4, FS_AddElement
  <2>6. Cardinality(B \cup {l}) = 3
    BY <2>5
  <2> QED
    BY <2>2, <2>6, Zenon
<1> QED
  BY <1>6, <1>7

\* The last row of a group.
LEMMA LastRowType ==
    ASSUME NEW doc \in Seq(ExtractedBlock), NEW i \in DOMAIN doc, NEW c,
           NEW l \in 3 .. Len(doc[i].lines), NEW m, m = LastRow(doc, c, i, l)
    PROVE  /\ m \in l .. Len(doc[i].lines)
           /\ m = l \/ Len(RowsText(doc, i, l, m)) <= c.max_tokens
<1> DEFINE L == Len(doc[i].lines)
           S == {k \in l .. L : k = l \/ Len(RowsText(doc, i, l, k)) <= c.max_tokens}
<1>1. L \in Nat
  BY BlockType
<1>2. m = Max(S)
  BY DEF LastRow, RowsText
<1> HIDE DEF L
<1>3. S \in SUBSET (l .. L) /\ l \in S /\ l \in Int /\ L \in Int
  BY <1>1 DEF L
<1>4. m \in S
  <2> HIDE DEF S
  <2> QED
    BY <1>2, <1>3, MaxOf
<1> QED
  BY <1>4 DEF L

\* What two groups of a table share is its header, and the rest is in order.
LEMMA RowsApart ==
    ASSUME NEW doc \in Seq(ExtractedBlock), NEW i \in DOMAIN doc,
           doc[i].type = "table", doc[i].markdown,
           NEW L, L = Len(doc[i].lines), NEW l \in 3 .. L, NEW m \in l .. L
    PROVE  /\ RowsSet(doc, i, l, m) \cup RowsSet(doc, i, m + 1, L) = RowsSet(doc, i, l, L)
           /\ RowsSet(doc, i, l, m) \cap RowsSet(doc, i, m + 1, L) \subseteq Headers(doc)
           /\ Apart(doc, RowsSet(doc, i, l, m), RowsSet(doc, i, m + 1, L))
<1>1. L \in Nat /\ DOMAIN doc[i].lines = 1 .. L /\ i \in Nat
  BY BlockType
<1>2. l .. L = (l .. m) \cup (m + 1 .. L)
  BY <1>1
<1>3. ASSUME NEW k \in DOMAIN doc[i].lines, NEW t \in LineSet(doc, i, k)
      PROVE  t \in Token /\ t[1] = i /\ t[2] = k
  <2>1. k \in Nat /\ doc[i].lines[k] \in Nat
    BY BlockType
  <2>2. PICK p \in 1 .. doc[i].lines[k] : t = <<i, k, p>>
    BY DEF LineSet
  <2> QED
    BY <1>1, <2>1, <2>2 DEF Token
<1>4. RowsSet(doc, i, l, m) \cup RowsSet(doc, i, m + 1, L) = RowsSet(doc, i, l, L)
  BY <1>2 DEF RowsSet
<1>5. ASSUME NEW t \in RowsSet(doc, i, l, m), t \in RowsSet(doc, i, m + 1, L)
      PROVE  t \in Headers(doc)
  <2>1. \A k \in {1, 2} \cup (l .. m) \cup (m + 1 .. L) : k \in DOMAIN doc[i].lines
    BY <1>1
  <2>2. PICK k \in {1, 2} \cup (l .. m) : t \in LineSet(doc, i, k)
    BY DEF RowsSet
  <2>3. PICK j \in {1, 2} \cup (m + 1 .. L) : t \in LineSet(doc, i, j)
    BY <1>5 DEF RowsSet
  <2>4. t \in Token /\ t[1] = i /\ t[2] = k /\ t[2] = j
    BY <1>3, <2>1, <2>2, <2>3
  <2>5. k = j => k \in {1, 2}
    BY <1>1, <2>2, <2>3
  <2> QED
    BY <2>4, <2>5 DEF Headers
<1>6. ASSUME NEW t \in RowsSet(doc, i, l, m), NEW s \in RowsSet(doc, i, m + 1, L), Before(s, t)
      PROVE  s[1] = t[1] /\ s \in Headers(doc)
  <2>1. \A k \in {1, 2} \cup (l .. m) \cup (m + 1 .. L) : k \in DOMAIN doc[i].lines
    BY <1>1
  <2>2. PICK k \in {1, 2} \cup (l .. m) : t \in LineSet(doc, i, k)
    BY DEF RowsSet
  <2>3. PICK j \in {1, 2} \cup (m + 1 .. L) : s \in LineSet(doc, i, j)
    BY DEF RowsSet
  <2>4. t[1] = i /\ t[2] = k /\ s \in Token /\ s[1] = i /\ s[2] = j
    BY <1>3, <2>1, <2>2, <2>3
  <2>5. j <= k
    BY <1>1, <1>6, <2>2, <2>3, <2>4 DEF Before
  <2>6. j \in {1, 2}
    BY <1>1, <2>2, <2>3, <2>5
  <2> QED
    BY <2>4, <2>6 DEF Headers
<1> QED
  BY <1>4, <1>5, <1>6 DEF Apart

\* emit_table: every row is said, under the header.
LEMMA SaysTable ==
    ASSUME NEW doc \in Seq(ExtractedBlock), NEW c, ValidConfig(c), NEW title \in Nat,
           NEW i \in DOMAIN doc, doc[i].type = "table"
    PROVE  Says(doc, c, title, EmitTable(doc, c, i, title), BlockSet(doc, i))
<1> DEFINE L == Len(doc[i].lines)
           G(l, m) == RowsText(doc, i, l, m)
           last(l) == LastRow(doc, c, i, l)
           long(at) == at[2] /\ Len(G(at[1], at[1])) > c.max_tokens
           pieces(l) == Drafts(doc, Split(G(l, l), c.max_tokens, 0), <<i>>, title)
           group(l) == <<Draft(G(l, last(l)), title, "table")>>
           D == (3 .. L + 1) \X BOOLEAN
           Equation(f) ==
             f = [at \in D |-> IF at[1] > L THEN <<>>
                               ELSE IF long(at) THEN pieces(at[1]) \o f[<<at[1] + 1, TRUE>>]
                               ELSE group(at[1]) \o f[<<last(at[1]) + 1, FALSE>>]]
           F == CHOOSE f : Equation(f)
<1>1. /\ L \in Nat /\ DOMAIN doc[i].lines = 1 .. L
      /\ BlockSet(doc, i) = UNION {LineSet(doc, i, l) : l \in 1 .. L}
  BY BlockType DEF BlockSet
<1>2. CASE L < 3 \/ ~ doc[i].markdown
  <2>1. EmitTable(doc, c, i, title) = EmitTextBlocks(doc, c, <<i>>, title)
    BY <1>2 DEF EmitTable
  <2>2. <<i>> \in Seq(DOMAIN doc) /\ Ascending(<<i>>) /\ ToSet(<<i>>) = {i}
    <3>1. <<i>> \in Seq(DOMAIN doc) /\ DOMAIN <<i>> = {1} /\ <<i>>[1] = i
      OBVIOUS
    <3> QED
      BY <3>1 DEF Ascending, ToSet
  <2>3. UNION {BlockSet(doc, j) : j \in {i}} = BlockSet(doc, i)
    OBVIOUS
  <2>4. Says(doc, c, title, EmitTextBlocks(doc, c, <<i>>, title),
             UNION {BlockSet(doc, j) : j \in ToSet(<<i>>)})
    BY <2>2, SaysTextBlocks
  <2> QED
    BY <2>1, <2>2, <2>3, <2>4
<1>3. CASE ~ (L < 3) /\ doc[i].markdown
  <2>1. EmitTable(doc, c, i, title) = F[<<3, TRUE>>]
    BY <1>3 DEF EmitTable, RowsText
  <2>2. ASSUME NEW l \in 3 .. L
        PROVE  /\ last(l) \in l .. L
               /\ Says(doc, c, title, group(l), RowsSet(doc, i, l, last(l)))
               /\ Says(doc, c, title, pieces(l), RowsSet(doc, i, l, l))
    <3>1. last(l) \in l .. L /\ (last(l) = l \/ Len(G(l, last(l))) <= c.max_tokens)
      BY LastRowType
    <3>2. l \in l .. L
      BY <1>1
    <3>3. /\ IsText(G(l, last(l))) /\ G(l, last(l)) # <<>>
          /\ ToSet(G(l, last(l))) = RowsSet(doc, i, l, last(l))
      BY <3>1, RowsAreText
    <3>4. IsText(G(l, l)) /\ ToSet(G(l, l)) = RowsSet(doc, i, l, l)
      BY <3>2, RowsAreText
    <3>5. Says(doc, c, title, pieces(l), RowsSet(doc, i, l, l))
      BY <3>4, SaysPieces
    <3> DEFINE d == Draft(G(l, last(l)), title, "table")
    <3>6. /\ d \in DraftRecords /\ d.content = G(l, last(l)) /\ d.title = title
          /\ d.type = "table"
      BY <3>3 DEF Draft, DraftRecords, ChunkTypes, IsText
    <3> HIDE DEF d
    <3>7. Len(d.content) > c.max_tokens => IsOneRow(d)
      <4>1. SUFFICES ASSUME Len(d.content) > c.max_tokens
                     PROVE  IsOneRow(d)
        OBVIOUS
      <4>2. Len(d.content) \in Nat /\ c.max_tokens \in Nat
        BY <3>6, LenProperties DEF DraftRecords, ValidConfig
      <4>3. last(l) = l
        <5> HIDE DEF last
        <5> QED
          BY <3>1, <3>6, <4>1, <4>2
      <4>4. ToSet(d.content) = RowsSet(doc, i, l, l)
        BY <3>3, <3>6, <4>3
      <4> QED
        BY <3>6, <4>4, OneRowSet DEF IsOneRow
    <3>8. Says(doc, c, title, <<d>>, ToSet(d.content))
      BY <3>3, <3>6, <3>7, SaysOne
    <3> QED
      BY <3>1, <3>3, <3>5, <3>6, <3>8 DEF d
  <2> HIDE DEF last, pieces, group, long
  <2>3. \E f : Equation(f)
    <3> DEFINE E == {at \in D : at[1] > L}
               rank == [at \in D |-> L + 1 - at[1]]
               part == [at \in D |-> IF at[1] > L THEN <<>>
                                     ELSE IF long(at) THEN pieces(at[1]) ELSE group(at[1])]
               next == [at \in D |-> IF at[1] > L THEN at
                                     ELSE IF long(at) THEN <<at[1] + 1, TRUE>>
                                     ELSE <<last(at[1]) + 1, FALSE>>]
               M == L + 1
    <3>1. \A at \in D : at[1] \in 3 .. L + 1 /\ (~ (at[1] > L) => at[1] \in 3 .. L)
      BY <1>1
    <3>2. M \in Nat /\ rank \in [D -> 0 .. M]
      <4>1. \A at \in D : L + 1 - at[1] \in 0 .. L + 1
        BY <1>1, <3>1
      <4> QED
        BY <1>1, <4>1
    <3>3. ASSUME NEW at \in D
          PROVE  part[at] \in Seq(DraftRecords) /\ next[at] \in D
      <4>1. CASE at[1] > L
        BY <4>1
      <4>2. CASE ~ (at[1] > L)
        <5>1. at[1] \in 3 .. L /\ last(at[1]) \in at[1] .. L
          BY <2>2, <3>1, <4>2
        <5>2. pieces(at[1]) \in Seq(DraftRecords) /\ group(at[1]) \in Seq(DraftRecords)
          BY <2>2, <5>1 DEF Says
        <5>3. at[1] + 1 \in 3 .. L + 1 /\ last(at[1]) + 1 \in 3 .. L + 1
          BY <1>1, <5>1
        <5>4. <<at[1] + 1, TRUE>> \in D /\ <<last(at[1]) + 1, FALSE>> \in D
          BY <5>3
        <5> QED
          BY <4>2, <5>2, <5>4
      <4> QED
        BY <4>1, <4>2
    <3>4. part \in [D -> Seq(DraftRecords)] /\ next \in [D -> D]
      BY <3>3
    <3>5. ASSUME NEW at \in D \ E
          PROVE  rank[next[at]] < rank[at]
      <4>1. at \in D /\ ~ (at[1] > L) /\ at[1] \in 3 .. L
        BY <3>1
      <4>2. last(at[1]) \in at[1] .. L
        BY <2>2, <4>1
      <4>3. \/ next[at] = <<at[1] + 1, TRUE>> \/ next[at] = <<last(at[1]) + 1, FALSE>>
        BY <4>1
      <4>4. next[at] \in D /\ at[1] + 1 <= next[at][1]
        <5> DEFINE a == at[1]
                   u == <<a + 1, TRUE>>
                   v == <<last(a) + 1, FALSE>>
        <5>1. u[1] = a + 1 /\ v[1] = last(a) + 1
          OBVIOUS
        <5>2. a \in Int /\ last(a) \in Int /\ a <= last(a)
          BY <1>1, <4>1, <4>2
        <5>3. next[at] = u \/ next[at] = v
          BY <4>3
        <5> HIDE DEF u, v, a, next, last
        <5>4. a + 1 <= next[at][1]
          BY <5>1, <5>2, <5>3
        <5> QED
          BY <3>3, <5>4 DEF a
      <4>5. rank[next[at]] = L + 1 - next[at][1] /\ rank[at] = L + 1 - at[1]
        BY <4>1, <4>4
      <4>6. next[at][1] \in Int
        BY <3>1, <4>4
      <4> HIDE DEF next, rank
      <4> QED
        BY <1>1, <4>1, <4>4, <4>5, <4>6
    <3>6. \A at \in D : at \in E <=> at[1] > L
      OBVIOUS
    <3>7. \A at \in D : ~ (at[1] > L) =>
            /\ part[at] = IF long(at) THEN pieces(at[1]) ELSE group(at[1])
            /\ next[at] = IF long(at) THEN <<at[1] + 1, TRUE>> ELSE <<last(at[1]) + 1, FALSE>>
      OBVIOUS
    <3> HIDE DEF E, rank, part, next, M, D
    <3>8. HasChain(DraftRecords, D, E, part, next)
      BY <3>2, <3>4, <3>5, ChainFunction
    <3>9. PICK f : f = [at \in D |-> IF at \in E THEN <<>> ELSE part[at] \o f[next[at]]]
      BY <3>8 DEF HasChain
    <3>10. \A at \in D :
             (IF at \in E THEN <<>> ELSE part[at] \o f[next[at]])
               = IF at[1] > L THEN <<>>
                 ELSE IF long(at) THEN pieces(at[1]) \o f[<<at[1] + 1, TRUE>>]
                 ELSE group(at[1]) \o f[<<last(at[1]) + 1, FALSE>>]
      BY <3>6, <3>7
    <3>11. Equation(f)
      BY <3>9, <3>10
    <3> QED
      BY <3>11
  <2>4. Equation(F)
    <3> HIDE DEF Equation
    <3> QED
      BY <2>3
  <2> HIDE DEF F
  <2>5. \A at \in D : F[at] = IF at[1] > L THEN <<>>
                               ELSE IF long(at) THEN pieces(at[1]) \o F[<<at[1] + 1, TRUE>>]
                               ELSE group(at[1]) \o F[<<last(at[1]) + 1, FALSE>>]
    BY <2>4
  <2> DEFINE X(l) == IF l > L THEN {} ELSE RowsSet(doc, i, l, L)
             M == L + 1
             S == {l \in 3 .. M : \A b \in BOOLEAN : Says(doc, c, title, F[<<l, b>>], X(l))}
  <2>6. ASSUME NEW l \in 3 .. L, NEW m \in l .. L, NEW d,
               Says(doc, c, title, d, RowsSet(doc, i, l, m)),
               NEW e, Says(doc, c, title, e, X(m + 1))
        PROVE  Says(doc, c, title, d \o e, X(l))
    <3> DEFINE Y == RowsSet(doc, i, l, m)
    <3>1. /\ Y \cup X(m + 1) = X(l) /\ Y \cap X(m + 1) \subseteq Headers(doc)
          /\ Apart(doc, Y, X(m + 1))
      <4>1. CASE m = L
        BY <1>1, <4>1 DEF Apart
      <4>2. CASE m # L
        <5>1. ~ (m + 1 > L) /\ ~ (l > L)
          BY <1>1, <4>2
        <5> QED
          BY <1>3, <5>1, RowsApart
      <4> QED
        BY <4>1, <4>2
    <3> HIDE DEF X, Y
    <3>2. Says(doc, c, title, d \o e, Y \cup X(m + 1))
      BY <2>6, <3>1, SaysMore DEF Y
    <3> QED
      BY <3>1, <3>2
  <2>7. ASSUME NEW l \in 3 .. M, \A k \in l + 1 .. M : k \in S
        PROVE  l \in S
    <3>1. SUFFICES ASSUME NEW b \in BOOLEAN
                   PROVE  Says(doc, c, title, F[<<l, b>>], X(l))
      OBVIOUS
    <3>2. <<l, b>> \in D /\ <<l, b>>[1] = l
      OBVIOUS
    <3>3. CASE l > L
      <4>1. F[<<l, b>>] = <<>> /\ X(l) = {}
        BY <2>5, <3>2, <3>3
      <4> QED
        BY <4>1, SaysNothing
    <3>4. CASE ~ (l > L)
      <4>1. l \in 3 .. L /\ l + 1 \in l + 1 .. M /\ l \in l .. L
        BY <1>1, <3>4
      <4>2. last(l) \in l .. L /\ last(l) + 1 \in l + 1 .. M
        BY <1>1, <2>2, <4>1
      <4>3. \A k \in l + 1 .. M : \A v \in BOOLEAN : Says(doc, c, title, F[<<k, v>>], X(k))
        BY <2>7
      <4>4. CASE long(<<l, b>>)
        <5>1. F[<<l, b>>] = pieces(l) \o F[<<l + 1, TRUE>>]
          BY <2>5, <3>2, <3>4, <4>4
        <5>2. Says(doc, c, title, F[<<l + 1, TRUE>>], X(l + 1))
          BY <4>1, <4>3
        <5> HIDE DEF X
        <5> QED
          BY <2>2, <2>6, <4>1, <5>1, <5>2
      <4>5. CASE ~ long(<<l, b>>)
        <5>1. F[<<l, b>>] = group(l) \o F[<<last(l) + 1, FALSE>>]
          BY <2>5, <3>2, <3>4, <4>5
        <5>2. Says(doc, c, title, F[<<last(l) + 1, FALSE>>], X(last(l) + 1))
          BY <4>2, <4>3
        <5> HIDE DEF X
        <5> QED
          BY <2>2, <2>6, <4>1, <4>2, <5>1, <5>2
      <4> QED
        BY <4>4, <4>5
    <3> QED
      BY <3>3, <3>4
  <2>8. 3 \in Int /\ M \in Int /\ 3 \in 3 .. M
    BY <1>1, <1>3
  <2> HIDE DEF S, M
  <2>9. \A l \in 3 .. M : l \in S
    BY <2>7, <2>8, DownInduction, Zenon
  <2>10. Says(doc, c, title, F[<<3, TRUE>>], X(3))
    BY <2>8, <2>9 DEF S
  <2>11. X(3) = BlockSet(doc, i)
    <3>1. ~ (3 > L) /\ 1 .. L = {1, 2} \cup (3 .. L)
      BY <1>1, <1>3
    <3> QED
      BY <1>1, <3>1 DEF RowsSet
  <2> QED
    BY <2>1, <2>10, <2>11
<1> QED
  BY <1>2, <1>3

-----------------------------------------------------------------------------
(* Sections. *)

\* A block has its number.
LEMMA BlockSetNumber ==
    ASSUME NEW doc, NEW i, NEW t \in BlockSet(doc, i)
    PROVE  t[1] = i
BY DEF BlockSet, LineSet

\* A part of a sequence of numbers.
LEMMA SubAscending ==
    ASSUME NEW T \in SUBSET Int, NEW s \in Seq(T), Ascending(s),
           NEW a \in 1 .. Len(s), NEW b \in a .. Len(s)
    PROVE  /\ SubSeq(s, a, b) \in Seq(T)
           /\ Ascending(SubSeq(s, a, b))
           /\ ToSet(SubSeq(s, a, b)) = {s[p] : p \in a .. b}
<1> DEFINE y == SubSeq(s, a, b)
           l == b - a + 1
<1>1. Len(s) \in Nat /\ DOMAIN s = 1 .. Len(s)
  BY LenProperties
<1>2. l \in Nat /\ \A i \in 1 .. l : a + i - 1 \in a .. b /\ a + i - 1 \in DOMAIN s
  BY <1>1
<1>3. /\ y \in Seq(T) /\ DOMAIN y = 1 .. l /\ \A i \in 1 .. l : y[i] = s[a + i - 1]
  <2>1. \A i \in a .. b : s[i] \in T
    BY <1>1, ElementOfSeq
  <2>2. a \in Int /\ b \in Int /\ a <= b
    BY <1>1
  <2>3. y \in Seq(T) /\ Len(y) = l /\ \A i \in 1 .. l : y[i] = s[a + i - 1]
    BY <2>1, <2>2, SubSeqProperties
  <2> HIDE DEF y
  <2> QED
    BY <2>3, LenProperties
<1> HIDE DEF y, l
<1>4. Ascending(y)
  <2>1. SUFFICES ASSUME NEW p \in 1 .. l, NEW q \in 1 .. l, p < q
                 PROVE  y[p] < y[q]
    BY <1>3 DEF Ascending
  <2>2. a + p - 1 < a + q - 1
    BY <1>2, <2>1
  <2> QED
    BY <1>2, <1>3, <2>2 DEF Ascending
<1>5. ToSet(y) = {s[p] : p \in a .. b}
  <2>1. \A p \in a .. b : p - a + 1 \in 1 .. l /\ a + (p - a + 1) - 1 = p
    BY DEF l
  <2>2. \A p \in a .. b : p - a + 1 \in 1 .. l /\ y[p - a + 1] = s[p]
    BY <1>3, <2>1
  <2>3. \A i \in 1 .. l : y[i] \in {s[p] : p \in a .. b}
    BY <1>2, <1>3
  <2>4. \A p \in a .. b : s[p] \in {y[i] : i \in 1 .. l}
    BY <2>2
  <2>5. {y[i] : i \in 1 .. l} = {s[p] : p \in a .. b}
    BY <2>3, <2>4
  <2> QED
    BY <1>3, <2>5 DEF ToSet
<1> QED
  BY <1>3, <1>4, <1>5 DEF y

\* emit_section: every block is said.
LEMMA SaysSection ==
    ASSUME NEW doc \in Seq(ExtractedBlock), NEW c, ValidConfig(c), NEW title \in Nat,
           NEW s \in Seq(DOMAIN doc), Ascending(s), \A n \in DOMAIN s : ~ Blank(doc[s[n]])
    PROVE  Says(doc, c, title, EmitSection(doc, c, s, title),
                UNION {BlockSet(doc, i) : i \in ToSet(s)})
<1> DEFINE N == Len(s)
           All == UNION {BlockSet(doc, i) : i \in ToSet(s)}
<1>1. /\ N \in Nat /\ DOMAIN s = 1 .. N
      /\ \A n \in 1 .. N : s[n] \in DOMAIN doc /\ s[n] \in Nat
  <2>1. \A i \in DOMAIN doc : i \in Nat
    BY BlockType
  <2> QED
    BY <2>1, LenProperties, ElementOfSeq
<1>2. CASE s = <<>>
  <2>1. ToSet(s) = {} /\ EmitSection(doc, c, s, title) = <<>>
    BY <1>2 DEF ToSet, EmitSection
  <2>2. All = {}
    BY <2>1
  <2> QED
    BY <2>1, <2>2, SaysNothing, ZenonT(30)
<1>3. CASE s # <<>> /\ Len(JoinedText(doc, s)) <= c.max_tokens
  <2> DEFINE d == Draft(JoinedText(doc, s), title, ContentType(doc, s))
  <2>1. EmitSection(doc, c, s, title) = <<d>>
    BY <1>3 DEF EmitSection
  <2>2. IsText(JoinedText(doc, s)) /\ ToSet(JoinedText(doc, s)) = All
    BY BlocksAreText
  <2>3. d \in DraftRecords /\ d.content = JoinedText(doc, s) /\ d.title = title
    BY <2>2, ContentTypeType DEF Draft, DraftRecords, IsText
  <2> HIDE DEF d
  <2>4. All # {}
    <3>1. 1 \in DOMAIN s
      BY <1>1, <1>3, EmptySeq
    <3>2. s[1] \in ToSet(s) /\ BlockSet(doc, s[1]) # {}
      BY <1>1, <3>1, BlockIsText DEF ToSet
    <3> QED
      BY <3>2
  <2>5. d.content # <<>>
    <3>1. ToSet(<<>>) = {}
      BY DEF ToSet
    <3> HIDE DEF All
    <3> QED
      BY <2>2, <2>3, <2>4, <3>1
  <2>6. ~ (Len(d.content) > c.max_tokens)
    <3>1. Len(d.content) \in Nat /\ c.max_tokens \in Nat
      BY <2>3, LenProperties DEF DraftRecords, ValidConfig
    <3> QED
      BY <1>3, <2>3, <3>1
  <2>7. Says(doc, c, d.title, <<d>>, ToSet(d.content))
    BY <2>2, <2>3, <2>5, <2>6, SaysOne
  <2> QED
    BY <2>1, <2>2, <2>3, <2>7
<1>4. CASE s # <<>> /\ ~ (Len(JoinedText(doc, s)) <= c.max_tokens)
  <2> DEFINE D == 1 .. N + 1
             alone(n) == c.preserve_tables /\ doc[s[n]].type = "table"
             end(n) == Max({m \in n .. N : \A k \in n .. m : ~ alone(k)})
             table(n) == EmitTable(doc, c, s[n], title)
             text(n) == EmitTextBlocks(doc, c, SubSeq(s, n, end(n)), title)
             Equation(f) == f = [n \in D |-> IF n > N THEN <<>>
                                             ELSE IF alone(n) THEN table(n) \o f[n + 1]
                                             ELSE text(n) \o f[end(n) + 1]]
             F == CHOOSE f : Equation(f)
             From(n, m) == UNION {BlockSet(doc, s[k]) : k \in n .. m}
  <2>1. EmitSection(doc, c, s, title) = F[1]
    BY <1>4 DEF EmitSection
  <2>2. ASSUME NEW n \in 1 .. N, alone(n)
        PROVE  Says(doc, c, title, table(n), From(n, n))
    <3>1. Says(doc, c, title, table(n), BlockSet(doc, s[n]))
      BY <1>1, <2>2, SaysTable
    <3>2. From(n, n) = BlockSet(doc, s[n])
      <4>1. n .. n = {n}
        OBVIOUS
      <4> QED
        BY <4>1
    <3> QED
      BY <3>1, <3>2
  <2>3. ASSUME NEW n \in 1 .. N, ~ alone(n)
        PROVE  end(n) \in n .. N /\ Says(doc, c, title, text(n), From(n, end(n)))
    <3> DEFINE S == {m \in n .. N : \A k \in n .. m : ~ alone(k)}
    <3>1. S \in SUBSET (n .. N) /\ n \in S /\ n \in Int /\ N \in Int
      <4>1. \A k \in n .. n : k = n
        OBVIOUS
      <4> HIDE DEF alone
      <4> QED
        BY <1>1, <2>3, <4>1
    <3>2. end(n) \in n .. N
      <4> HIDE DEF S
      <4>1. Max(S) \in S
        BY <3>1, MaxOf
      <4>2. Max(S) \in n .. N
        BY <3>1, <4>1
      <4> QED
        BY <4>2 DEF S
    <3> DEFINE e == end(n)
    <3>3. e \in n .. N
      BY <3>2
    <3> HIDE DEF S, e
    <3> DEFINE y == SubSeq(s, n, e)
    <3>4. y \in Seq(DOMAIN doc) /\ Ascending(y) /\ ToSet(y) = {s[k] : k \in n .. e}
      <4>1. DOMAIN doc \in SUBSET Int
        BY BlockType
      <4> QED
        BY <3>3, <4>1, SubAscending
    <3> HIDE DEF y
    <3>5. Says(doc, c, title, EmitTextBlocks(doc, c, y, title),
               UNION {BlockSet(doc, i) : i \in ToSet(y)})
      BY <3>4, SaysTextBlocks
    <3>6. UNION {BlockSet(doc, i) : i \in ToSet(y)} = From(n, e)
      BY <3>4
    <3> QED
      BY <3>2, <3>5, <3>6 DEF e, y
  <2> HIDE DEF alone, end, table, text
  <2>4. \E f : Equation(f)
    <3> DEFINE E == {N + 1}
               rank == [n \in D |-> N + 1 - n]
               part == [n \in D |-> IF n > N THEN <<>>
                                    ELSE IF alone(n) THEN table(n) ELSE text(n)]
               next == [n \in D |-> IF n > N THEN N + 1
                                    ELSE IF alone(n) THEN n + 1 ELSE end(n) + 1]
               M == N + 1
    <3>1. M \in Nat /\ rank \in [D -> 0 .. M] /\ \A n \in D : n \in E <=> n > N
      BY <1>1
    <3>2. ASSUME NEW n \in D
          PROVE  part[n] \in Seq(DraftRecords) /\ next[n] \in D
                 /\ (n \in 1 .. N => n < next[n])
      <4>1. CASE n > N
        BY <1>1, <4>1
      <4>2. CASE ~ (n > N) /\ alone(n)
        <5>1. n \in 1 .. N /\ part[n] = table(n) /\ next[n] = n + 1
          BY <1>1, <4>2
        <5>2. table(n) \in Seq(DraftRecords)
          BY <2>2, <4>2, <5>1 DEF Says
        <5> QED
          BY <1>1, <5>1, <5>2
      <4>3. CASE ~ (n > N) /\ ~ alone(n)
        <5>1. n \in 1 .. N /\ part[n] = text(n) /\ next[n] = end(n) + 1
          BY <1>1, <4>3
        <5>2. text(n) \in Seq(DraftRecords) /\ end(n) \in n .. N
          BY <2>3, <4>3, <5>1 DEF Says
        <5> QED
          BY <1>1, <5>1, <5>2
      <4> QED
        BY <4>1, <4>2, <4>3
    <3>3. part \in [D -> Seq(DraftRecords)] /\ next \in [D -> D]
      BY <3>2
    <3>4. ASSUME NEW n \in D \ E
          PROVE  rank[next[n]] < rank[n]
      <4>1. n \in 1 .. N /\ n \in D
        BY <1>1
      <4>2. next[n] \in D /\ n < next[n]
        BY <3>2, <4>1
      <4> HIDE DEF next
      <4> QED
        BY <1>1, <4>1, <4>2
    <3>5. \A n \in D : ~ (n > N) =>
            /\ part[n] = IF alone(n) THEN table(n) ELSE text(n)
            /\ next[n] = IF alone(n) THEN n + 1 ELSE end(n) + 1
      OBVIOUS
    <3> HIDE DEF E, rank, part, next, M, D
    <3>6. HasChain(DraftRecords, D, E, part, next)
      BY <3>1, <3>3, <3>4, ChainFunction
    <3>7. PICK f : f = [n \in D |-> IF n \in E THEN <<>> ELSE part[n] \o f[next[n]]]
      BY <3>6 DEF HasChain
    <3>8. \A n \in D : (IF n \in E THEN <<>> ELSE part[n] \o f[next[n]])
                         = IF n > N THEN <<>>
                           ELSE IF alone(n) THEN table(n) \o f[n + 1]
                           ELSE text(n) \o f[end(n) + 1]
      BY <3>1, <3>5
    <3>9. Equation(f)
      BY <3>7, <3>8
    <3> QED
      BY <3>9
  <2>5. Equation(F)
    <3> HIDE DEF Equation
    <3> QED
      BY <2>4
  <2> HIDE DEF F
  <2>6. \A n \in D : F[n] = IF n > N THEN <<>>
                            ELSE IF alone(n) THEN table(n) \o F[n + 1]
                            ELSE text(n) \o F[end(n) + 1]
    BY <2>5
  <2>7. ASSUME NEW n \in 1 .. N, NEW m \in n .. N, NEW d, NEW e,
               Says(doc, c, title, d, From(n, m)), Says(doc, c, title, e, From(m + 1, N))
        PROVE  Says(doc, c, title, d \o e, From(n, N))
    <3>1. From(n, m) \cup From(m + 1, N) = From(n, N)
      <4>1. n .. N = (n .. m) \cup (m + 1 .. N)
        BY <1>1
      <4> QED
        BY <4>1
    <3>2. From(n, m) \cap From(m + 1, N) = {}
      <4>1. SUFFICES ASSUME NEW t \in From(n, m), t \in From(m + 1, N)
                     PROVE  FALSE
        <5> HIDE DEF From
        <5> QED
          OBVIOUS
      <4>2. PICK j \in n .. m : t \in BlockSet(doc, s[j])
        OBVIOUS
      <4>3. PICK k \in m + 1 .. N : t \in BlockSet(doc, s[k])
        BY <4>1
      <4>4. s[j] = s[k]
        BY <4>2, <4>3, BlockSetNumber
      <4>5. j \in DOMAIN s /\ k \in DOMAIN s /\ j < k
        <5> HIDE DEF From, D, Equation, All
        <5> QED
          BY <1>1
      <4>6. s[j] < s[k] /\ s[j] \in Nat
        BY <1>1, <4>5 DEF Ascending
      <4> QED
        BY <4>4, <4>6
    <3>3. Apart(doc, From(n, m), From(m + 1, N))
      <4>1. SUFFICES ASSUME NEW t \in From(n, m), NEW u \in From(m + 1, N), Before(u, t)
                     PROVE  FALSE
        <5> HIDE DEF From
        <5> QED
          BY ZenonT(30) DEF Apart
      <4>2. PICK j \in n .. m : t \in BlockSet(doc, s[j])
        OBVIOUS
      <4>3. PICK k \in m + 1 .. N : u \in BlockSet(doc, s[k])
        BY <4>1
      <4>4. t[1] = s[j] /\ u[1] = s[k]
        BY <4>2, <4>3, BlockSetNumber
      <4>5. j \in DOMAIN s /\ k \in DOMAIN s /\ j < k
        <5> HIDE DEF From, D, Equation, All
        <5> QED
          BY <1>1
      <4>6. s[j] < s[k] /\ s[j] \in Nat /\ s[k] \in Nat
        BY <1>1, <4>5 DEF Ascending
      <4> DEFINE x == s[j]
                 y == s[k]
      <4>7. x < y /\ x \in Nat /\ y \in Nat /\ t[1] = x /\ u[1] = y
        BY <4>4, <4>6
      <4> HIDE DEF From, x, y
      <4>8. Before(u, t) => y < x \/ y = x
        BY <4>7 DEF Before
      <4> QED
        BY <4>1, <4>7, <4>8
    <3> HIDE DEF From
    <3> QED
      BY <2>7, <3>1, <3>2, <3>3, SaysMore
  <2> DEFINE M == N + 1
             S == {n \in 1 .. M : Says(doc, c, title, F[n], From(n, N))}
  <2>8. ASSUME NEW n \in 1 .. M, \A k \in n + 1 .. M : k \in S
        PROVE  n \in S
    <3>1. \A k \in n + 1 .. M : Says(doc, c, title, F[k], From(k, N))
      BY <2>8
    <3>2. CASE n > N
      <4>1. n \in D /\ n .. N = {}
        BY <1>1, <3>2
      <4>2. F[n] = <<>> /\ From(n, N) = {}
        BY <2>6, <3>2, <4>1
      <4>3. Says(doc, c, title, F[n], From(n, N))
        <5> HIDE DEF From
        <5> QED
          BY <4>2, SaysNothing
      <4> QED
        BY <4>3
    <3>3. CASE ~ (n > N) /\ alone(n)
      <4>1. n \in 1 .. N /\ n \in D /\ n \in n .. N /\ n + 1 \in n + 1 .. M
        BY <1>1, <3>3
      <4>2. F[n] = table(n) \o F[n + 1]
        BY <2>6, <3>3, <4>1
      <4>3. Says(doc, c, title, F[n + 1], From(n + 1, N))
        BY <3>1, <4>1
      <4>4. Says(doc, c, title, table(n), From(n, n))
        BY <2>2, <3>3, <4>1
      <4>5. Says(doc, c, title, F[n], From(n, N))
        <5> HIDE DEF From
        <5> QED
          BY <2>7, <4>1, <4>2, <4>3, <4>4
      <4> QED
        BY <4>5
    <3>4. CASE ~ (n > N) /\ ~ alone(n)
      <4>1. n \in 1 .. N /\ n \in D
        BY <1>1, <3>4
      <4>2. end(n) \in n .. N /\ Says(doc, c, title, text(n), From(n, end(n)))
        BY <2>3, <3>4, <4>1
      <4>3. end(n) + 1 \in n + 1 .. M
        BY <1>1, <4>1, <4>2
      <4>4. F[n] = text(n) \o F[end(n) + 1]
        BY <2>6, <3>4, <4>1
      <4>5. Says(doc, c, title, F[end(n) + 1], From(end(n) + 1, N))
        BY <3>1, <4>3
      <4>6. Says(doc, c, title, F[n], From(n, N))
        <5> HIDE DEF From
        <5> QED
          BY <2>7, <4>1, <4>2, <4>4, <4>5
      <4> QED
        BY <4>6
    <3> QED
      BY <3>2, <3>3, <3>4
  <2>9. 1 \in Int /\ M \in Int /\ 1 \in 1 .. M
    BY <1>1
  <2> HIDE DEF S, M
  <2>10. \A n \in 1 .. M : n \in S
    BY <2>8, <2>9, DownInduction, Zenon
  <2>11. Says(doc, c, title, F[1], From(1, N))
    BY <2>9, <2>10 DEF S
  <2>12. From(1, N) = All
    <3>1. ToSet(s) = {s[k] : k \in 1 .. N}
      BY <1>1 DEF ToSet
    <3> QED
      BY <3>1
  <2> QED
    BY <2>1, <2>11, <2>12
<1> QED
  BY <1>2, <1>3, <1>4

-----------------------------------------------------------------------------
(* Documents. *)

Headings(doc) == {i \in DOMAIN doc : doc[i].type = "heading"}
SectionBlocks(doc, h) ==
    {i \in DOMAIN doc : i > h /\ ~ Blank(doc[i]) /\ (h + 1 .. i) \cap Headings(doc) = {}}
SectionSet(doc, h) == UNION {BlockSet(doc, i) : i \in SectionBlocks(doc, h)}
SectionTitle(doc, h) == IF h = 0 \/ Blank(doc[h]) THEN 0 ELSE h
Heads(doc) == <<0>> \o InTheirOrder(Headings(doc), Len(doc))
Section(doc, c, h) ==
    EmitSection(doc, c, InTheirOrder(SectionBlocks(doc, h), Len(doc)), SectionTitle(doc, h))

\* Each heading has a section, and so has the start of the document, in their order.
LEMMA HeadsEach ==
    ASSUME NEW doc \in Seq(ExtractedBlock)
    PROVE  /\ Heads(doc) \in Seq({0} \cup Headings(doc))
           /\ ToSet(Heads(doc)) = {0} \cup Headings(doc)
           /\ Ascending(Heads(doc))
<1> DEFINE L == Len(doc)
           H == Headings(doc)
           q == InTheirOrder(H, L)
           N == Len(q)
           h == <<0>>
           r == h \o q
           T == {0} \cup H
<1>1. L \in Nat /\ DOMAIN doc = 1 .. L /\ H \in SUBSET (1 .. L)
  BY LenProperties DEF Headings
<1> HIDE DEF H, L
<1>2. q \in Seq(1 .. L) /\ ToSet(q) = H /\ Ascending(q)
  BY <1>1, InTheirOrderSorts
<1> HIDE DEF q
<1>3. N \in Nat /\ DOMAIN q = 1 .. N /\ \A n \in 1 .. N : q[n] \in H
  BY <1>2, LenProperties DEF ToSet
<1> HIDE DEF N
<1>4. q \in Seq(T) /\ Len(q) = N
  <2>1. q = [n \in 1 .. N |-> q[n]]
    BY <1>2, <1>3, SeqDef
  <2>2. q \in [1 .. N -> T]
    BY <1>3, <2>1
  <2> QED
    BY <1>3, <2>2, SeqOfFunction
<1>5. h \in Seq(T) /\ Len(h) = 1 /\ h[1] = 0
  OBVIOUS
<1> HIDE DEF h, T
<1>6. /\ r \in Seq(T) /\ DOMAIN r = 1 .. 1 + N
      /\ r[1] = 0 /\ \A n \in 2 .. 1 + N : n - 1 \in 1 .. N /\ r[n] = q[n - 1]
  <2>1. /\ r \in Seq(T) /\ Len(r) = 1 + N
        /\ \A n \in 1 .. 1 + N : r[n] = IF n <= 1 THEN h[n] ELSE q[n - 1]
    BY <1>4, <1>5, ConcatProperties
  <2> HIDE DEF r
  <2>2. DOMAIN r = 1 .. 1 + N
    BY <2>1, LenProperties
  <2>3. 1 \in 1 .. 1 + N
    BY <1>3
  <2>4. \A n \in 2 .. 1 + N : n \in 1 .. 1 + N /\ ~ (n <= 1) /\ n - 1 \in 1 .. N
    BY <1>3
  <2> QED
    BY <1>5, <2>1, <2>2, <2>3, <2>4
<1> HIDE DEF r
<1>7. \A n \in 1 .. 1 + N : n = 1 \/ n \in 2 .. 1 + N
  BY <1>3
<1>8. ToSet(r) = T
  <2>1. \A n \in 1 .. 1 + N : r[n] \in T
    BY <1>3, <1>6, <1>7 DEF T
  <2>2. ASSUME NEW i \in H
        PROVE  \E n \in 1 .. 1 + N : r[n] = i
    <3>1. PICK k \in 1 .. N : q[k] = i
      BY <1>2, <1>3 DEF ToSet
    <3>2. k + 1 \in 2 .. 1 + N /\ k + 1 \in 1 .. 1 + N /\ (k + 1) - 1 = k
      BY <1>3
    <3> QED
      BY <1>6, <3>1, <3>2
  <2>3. 1 \in 1 .. 1 + N
    BY <1>3
  <2> QED
    BY <1>6, <2>1, <2>2, <2>3 DEF ToSet, T
<1>9. ASSUME NEW m \in 1 .. 1 + N, NEW n \in 1 .. 1 + N, m < n
      PROVE  r[m] < r[n]
  <2>1. \A i \in H : 0 < i /\ i \in Int
    BY <1>1
  <2>2. n \in 2 .. 1 + N /\ n - 1 \in 1 .. N /\ r[n] = q[n - 1]
    BY <1>3, <1>6, <1>9
  <2>3. CASE m = 1
    BY <1>3, <1>6, <2>1, <2>2, <2>3
  <2>4. CASE m # 1
    <3>1. m - 1 \in 1 .. N /\ r[m] = q[m - 1] /\ m - 1 < n - 1
      BY <1>6, <1>7, <1>9, <2>4
    <3> QED
      BY <1>2, <1>3, <2>2, <3>1 DEF Ascending
  <2> QED
    BY <2>3, <2>4
<1>10. Heads(doc) = r
  BY DEF Heads, r, h, q, H, L
<1> QED
  BY <1>6, <1>8, <1>9, <1>10 DEF T, H, Ascending

\* The sections have every block that is no heading, each in one of them and in their
\* order, and the headings before their blocks are the same.
LEMMA SectionsApart ==
    ASSUME NEW doc \in Seq(ExtractedBlock), NEW H, H = Headings(doc)
    PROVE  /\ UNION {SectionSet(doc, h) : h \in {0} \cup H}
                = UNION {BlockSet(doc, i) : i \in DOMAIN doc \ H}
           /\ \A h, g \in {0} \cup H : h < g =>
                \A t \in SectionSet(doc, h), s \in SectionSet(doc, g) : t[1] \in Nat /\ t[1] < s[1]
           /\ \A h \in {0} \cup H : \A t \in SectionSet(doc, h) :
                {i \in H : i < t[1]} = {i \in H : i <= h}
<1>1. DOMAIN doc = 1 .. Len(doc) /\ Len(doc) \in Nat /\ H \in SUBSET (1 .. Len(doc))
  BY LenProperties DEF Headings
<1>2. \A i \in DOMAIN doc : i \in Nat
  BY <1>1
<1>3. \A h : \A i \in SectionBlocks(doc, h) :
         i \in DOMAIN doc /\ i > h /\ ~ Blank(doc[i]) /\ (h + 1 .. i) \cap H = {}
  BY DEF SectionBlocks
<1>4. ASSUME NEW h \in {0} \cup H, NEW i \in SectionBlocks(doc, h)
      PROVE  i \in DOMAIN doc \ H
  <2>1. i \in h + 1 .. i
    BY <1>1, <1>2, <1>3
  <2> QED
    BY <1>3, <2>1
<1>5. ASSUME NEW i \in DOMAIN doc \ H, ~ Blank(doc[i])
      PROVE  \E h \in {0} \cup H : i \in SectionBlocks(doc, h)
  <2> DEFINE B == {j \in {0} \cup H : j < i}
             h == Max(B)
  <2>1. B \in SUBSET (0 .. i) /\ 0 \in B /\ 0 \in Int /\ i \in Int
    BY <1>1, <1>2
  <2>2. h \in B /\ \A j \in B : j <= h
    <3> HIDE DEF B
    <3> QED
      BY <2>1, MaxOf
  <2> HIDE DEF h
  <2>3. h \in {0} \cup H /\ h < i /\ h \in Nat
    BY <2>1, <2>2
  <2>4. ASSUME NEW j \in H, j \in h + 1 .. i
        PROVE  FALSE
    <3>1. j \in Nat /\ j # i /\ j <= i /\ h < j
      BY <1>1, <2>3, <2>4
    <3>2. j \in B
      BY <1>2, <3>1
    <3> QED
      BY <2>2, <2>3, <3>1, <3>2
  <2>5. (h + 1 .. i) \cap H = {}
    BY <2>4
  <2>6. i \in SectionBlocks(doc, h)
    BY <1>2, <1>5, <2>3, <2>5 DEF SectionBlocks
  <2> QED
    BY <2>3, <2>6
<1>6. \A i \in DOMAIN doc : Blank(doc[i]) => BlockSet(doc, i) = {}
  BY BlockIsText
<1>7. UNION {SectionSet(doc, h) : h \in {0} \cup H}
                = UNION {BlockSet(doc, i) : i \in DOMAIN doc \ H}
  <2>1. ASSUME NEW h \in {0} \cup H, NEW t \in SectionSet(doc, h)
        PROVE  t \in UNION {BlockSet(doc, i) : i \in DOMAIN doc \ H}
    <3>1. PICK i \in SectionBlocks(doc, h) : t \in BlockSet(doc, i)
      BY DEF SectionSet
    <3> QED
      BY <1>4, <3>1
  <2>2. ASSUME NEW i \in DOMAIN doc \ H, NEW t \in BlockSet(doc, i)
        PROVE  \E h \in {0} \cup H : t \in SectionSet(doc, h)
    <3>1. ~ Blank(doc[i])
      BY <1>6
    <3>2. PICK h \in {0} \cup H : i \in SectionBlocks(doc, h)
      BY <1>5, <3>1
    <3> QED
      BY <3>2 DEF SectionSet
  <2> QED
    BY <2>1, <2>2
<1>8. ASSUME NEW h \in {0} \cup H, NEW g \in {0} \cup H, h < g,
             NEW t \in SectionSet(doc, h), NEW s \in SectionSet(doc, g)
      PROVE  t[1] \in Nat /\ t[1] < s[1]
  <2>1. PICK i \in SectionBlocks(doc, h) : t \in BlockSet(doc, i)
    BY DEF SectionSet
  <2>2. PICK j \in SectionBlocks(doc, g) : s \in BlockSet(doc, j)
    BY DEF SectionSet
  <2>3. t[1] = i /\ s[1] = j
    BY <2>1, <2>2, BlockSetNumber
  <2>4. i \in Nat /\ j \in Nat /\ h \in Nat /\ g \in Nat /\ j > g /\ g \in H
    BY <1>1, <1>2, <1>3, <1>8, <2>1, <2>2
  <2>5. g \notin h + 1 .. i
    BY <1>3, <2>1, <2>4
  <2> QED
    BY <1>8, <2>3, <2>4, <2>5
<1>10. ASSUME NEW h \in {0} \cup H, NEW t \in SectionSet(doc, h)
       PROVE  {i \in H : i < t[1]} = {i \in H : i <= h}
  <2>1. PICK j \in SectionBlocks(doc, h) : t \in BlockSet(doc, j)
    BY DEF SectionSet
  <2>2. t[1] = j /\ j \in Nat /\ h \in Nat /\ j > h /\ (h + 1 .. j) \cap H = {}
    BY <1>1, <1>2, <1>3, <2>1, BlockSetNumber
  <2>3. ASSUME NEW i \in H
        PROVE  i < j <=> i <= h
    <3>1. i \in Nat /\ i \notin h + 1 .. j
      BY <1>1, <2>2
    <3> QED
      BY <2>2, <3>1
  <2> QED
    BY <2>2, <2>3
<1> QED
  BY <1>7, <1>8, <1>10

\* What the chunkers make of a section.
LEMMA SaysSectionOf ==
    ASSUME NEW doc \in Seq(ExtractedBlock), NEW c, ValidConfig(c),
           NEW h \in {0} \cup Headings(doc)
    PROVE  Says(doc, c, SectionTitle(doc, h), Section(doc, c, h), SectionSet(doc, h))
<1> DEFINE L == Len(doc)
           B == SectionBlocks(doc, h)
           s == InTheirOrder(B, L)
           title == SectionTitle(doc, h)
<1>1. L \in Nat /\ DOMAIN doc = 1 .. L /\ B \in SUBSET (1 .. L)
  BY LenProperties DEF SectionBlocks
<1>2. title \in Nat
  BY BlockType DEF SectionTitle, Headings
<1> HIDE DEF L
<1>3. s \in Seq(DOMAIN doc) /\ ToSet(s) = B /\ Ascending(s)
  BY <1>1, InTheirOrderSorts
<1>4. \A n \in DOMAIN s : ~ Blank(doc[s[n]])
  BY <1>3 DEF ToSet, SectionBlocks
<1> HIDE DEF s, B, title
<1>5. Says(doc, c, title, EmitSection(doc, c, s, title), UNION {BlockSet(doc, i) : i \in ToSet(s)})
  BY <1>2, <1>3, <1>4, SaysSection
<1> QED
  BY <1>3, <1>5 DEF Section, SectionSet, s, B, title, L

\* A chunk does not cross a heading, and has the title of the last heading before it.
HeadingsOf(doc, token) == {i \in DOMAIN doc : doc[i].type = "heading" /\ i < token[1]}
IsInSection(doc, chunk) ==
    LET heads == HeadingsOf(doc, chunk.content[1])
    IN  /\ \A t \in ToSet(chunk.content) : HeadingsOf(doc, t) = heads
        /\ chunk.title = IF heads = {} \/ Blank(doc[Max(heads)]) THEN 0 ELSE Max(heads)

\* The chunks ds of a document, whose text is X.
Tells(doc, c, ds, X) ==
    /\ ds \in Seq(DraftRecords)
    /\ UNION {ToSet(ds[n].content) : n \in DOMAIN ds} = X
    /\ \A n \in DOMAIN ds :
         /\ IsText(ds[n].content) /\ ds[n].content # <<>>
         /\ Len(ds[n].content) > c.max_tokens => IsOneRow(ds[n])
         /\ c.strategy = "heading_aware_v1" => IsInSection(doc, ds[n])
    /\ \A m, n \in DOMAIN ds :
         m < n => Follows(doc, ToSet(ds[m].content), ToSet(ds[n].content))
    /\ c.overlap_tokens = 0 =>
         \A m, n \in DOMAIN ds :
            m # n => ToSet(ds[m].content) \cap ToSet(ds[n].content) \subseteq Headers(doc)

\* FixedTokenChunker tells every block.
LEMMA FixedTokenTells ==
    ASSUME NEW doc \in Seq(ExtractedBlock), NEW c, ValidConfig(c), c.strategy = "fixed_token_v1"
    PROVE  Tells(doc, c, FixedTokenChunks(doc, c), UNION {BlockSet(doc, i) : i \in DOMAIN doc})
<1> DEFINE B == {i \in DOMAIN doc : ~ Blank(doc[i])}
           s == InTheirOrder(B, Len(doc))
           x == JoinedText(doc, s)
           ds == Drafts(doc, Split(x, c.max_tokens, c.overlap_tokens), s, 0)
<1>1. Len(doc) \in Nat /\ DOMAIN doc = 1 .. Len(doc) /\ B \in SUBSET (1 .. Len(doc))
  BY LenProperties
<1>2. s \in Seq(DOMAIN doc) /\ ToSet(s) = B /\ Ascending(s)
  BY <1>1, InTheirOrderSorts
<1>3. FixedTokenChunks(doc, c) = ds
  BY DEF FixedTokenChunks
<1> HIDE DEF s
<1>4. IsText(x) /\ ToSet(x) = UNION {BlockSet(doc, i) : i \in ToSet(s)}
  BY <1>2, BlocksAreText
<1> HIDE DEF x
<1>5. Says(doc, c, 0, ds, ToSet(x))
  BY <1>4, SaysPieces
<1> HIDE DEF ds
<1>6. \A i \in DOMAIN doc : i \notin B => BlockSet(doc, i) = {}
  BY BlockIsText
<1>7. ToSet(x) = UNION {BlockSet(doc, i) : i \in DOMAIN doc}
  <2>1. \A i \in B : i \in DOMAIN doc
    OBVIOUS
  <2> HIDE DEF B
  <2> QED
    BY <1>2, <1>4, <1>6, <2>1
<1> QED
  BY <1>3, <1>5, <1>7 DEF Says, Tells

\* HeadingAwareChunker tells every block that is no heading.
LEMMA HeadingAwareTells ==
    ASSUME NEW doc \in Seq(ExtractedBlock), NEW c, ValidConfig(c)
    PROVE  Tells(doc, c, HeadingAwareChunks(doc, c),
                 UNION {BlockSet(doc, i) : i \in DOMAIN doc \ Headings(doc)})
<1> DEFINE H == Headings(doc)
           h == Heads(doc)
           N == Len(h)
           s == [n \in DOMAIN h |-> Section(doc, c, h[n])]
           F == FlattenSeq(s)
           X == UNION {BlockSet(doc, i) : i \in DOMAIN doc \ H}
           Of(p) == ToSet(F[p].content)
<1>1. HeadingAwareChunks(doc, c) = F
  BY DEF HeadingAwareChunks, Heads, Section, SectionBlocks, SectionTitle, Headings
<1>2. h \in Seq({0} \cup H) /\ ToSet(h) = {0} \cup H /\ Ascending(h)
  BY HeadsEach
<1> HIDE DEF h
<1>3. N \in Nat /\ DOMAIN h = 1 .. N /\ \A n \in 1 .. N : h[n] \in {0} \cup H
  BY <1>2, LenProperties DEF ToSet
<1> HIDE DEF N
<1>4. \A n \in 1 .. N : Says(doc, c, SectionTitle(doc, h[n]), s[n], SectionSet(doc, h[n]))
  <2>1. ASSUME NEW n \in 1 .. N
        PROVE  Says(doc, c, SectionTitle(doc, h[n]), s[n], SectionSet(doc, h[n]))
    <3>1. h[n] \in {0} \cup Headings(doc) /\ s[n] = Section(doc, c, h[n])
      BY <1>3
    <3> QED
      BY <3>1, SaysSectionOf
  <2> QED
    BY <2>1
<1>5. s \in Seq(Seq(DraftRecords)) /\ Len(s) = N /\ DOMAIN s = 1 .. N
  <2>1. DOMAIN s = 1 .. N /\ s = [n \in 1 .. N |-> s[n]]
    BY <1>3
  <2> HIDE DEF s
  <2>2. s \in [1 .. N -> Seq(DraftRecords)]
    BY <1>4, <2>1 DEF Says
  <2> QED
    BY <1>3, <2>1, <2>2, SeqOfFunction
<1> HIDE DEF s, H
<1>6. F \in Seq(DraftRecords) /\ \E b, o : MadeOf(F, s, N, b, o)
  BY <1>5, FlattenPlaces
<1> HIDE DEF F
<1>7. PICK b, o : MadeOf(F, s, N, b, o)
  BY <1>6
<1>8. ASSUME NEW p \in DOMAIN F
      PROVE  /\ b[p] \in 1 .. N /\ o[p] \in DOMAIN s[b[p]] /\ F[p] = s[b[p]][o[p]]
             /\ h[b[p]] \in {0} \cup H
             /\ IsText(F[p].content) /\ F[p].content # <<>>
             /\ F[p].title = SectionTitle(doc, h[b[p]])
             /\ Len(F[p].content) > c.max_tokens => IsOneRow(F[p])
             /\ Of(p) \subseteq SectionSet(doc, h[b[p]])
  <2>1. b[p] \in 1 .. N /\ o[p] \in DOMAIN s[b[p]] /\ F[p] = s[b[p]][o[p]]
    BY <1>7 DEF MadeOf
  <2>2. Says(doc, c, SectionTitle(doc, h[b[p]]), s[b[p]], SectionSet(doc, h[b[p]]))
    BY <1>4, <2>1
  <2>3. /\ IsText(F[p].content) /\ F[p].content # <<>>
        /\ F[p].title = SectionTitle(doc, h[b[p]])
        /\ Len(F[p].content) > c.max_tokens => IsOneRow(F[p])
    BY <2>1, <2>2 DEF Says
  <2>4. Of(p) \subseteq SectionSet(doc, h[b[p]])
    BY <2>1, <2>2 DEF Says
  <2> QED
    BY <1>3, <2>1, <2>3, <2>4
<1>9. /\ UNION {SectionSet(doc, g) : g \in {0} \cup H} = X
      /\ \A g, k \in {0} \cup H : g < k =>
           \A t \in SectionSet(doc, g), u \in SectionSet(doc, k) : t[1] \in Nat /\ t[1] < u[1]
      /\ \A g \in {0} \cup H : \A t \in SectionSet(doc, g) :
           {i \in H : i < t[1]} = {i \in H : i <= g}
  BY SectionsApart DEF H
<1>10. UNION {Of(p) : p \in DOMAIN F} = X
  <2>1. ASSUME NEW p \in DOMAIN F
        PROVE  Of(p) \subseteq X
    <3> HIDE DEF Of, X
    <3> QED
      BY <1>8, <1>9
  <2>2. ASSUME NEW g \in {0} \cup H, NEW t \in SectionSet(doc, g)
        PROVE  \E p \in DOMAIN F : t \in Of(p)
    <3>1. PICK n \in 1 .. N : h[n] = g
      BY <1>2, <1>3 DEF ToSet
    <3>2. UNION {ToSet(s[n][k].content) : k \in DOMAIN s[n]} = SectionSet(doc, g)
      BY <1>4, <3>1 DEF Says
    <3>3. PICK k \in DOMAIN s[n] : t \in ToSet(s[n][k].content)
      BY <3>2
    <3>4. PICK p \in DOMAIN F : b[p] = n /\ o[p] = k
      BY <1>7, <3>3 DEF MadeOf
    <3>5. t \in Of(p)
      BY <1>8, <3>3, <3>4
    <3> QED
      BY <3>5
  <2> HIDE DEF Of, X
  <2>3. \A t \in X : \E p \in DOMAIN F : t \in Of(p)
    BY <1>9, <2>2
  <2> QED
    BY <2>1, <2>3
<1>11. ASSUME NEW p \in DOMAIN F, NEW q \in DOMAIN F, p < q
       PROVE  /\ Follows(doc, Of(p), Of(q))
              /\ c.overlap_tokens = 0 => Of(p) \cap Of(q) \subseteq Headers(doc)
  <2>1. b[p] < b[q] \/ (b[p] = b[q] /\ o[p] < o[q])
    BY <1>7, <1>11 DEF MadeOf
  <2>2. CASE b[p] < b[q]
    <3>1. b[p] \in DOMAIN h /\ b[q] \in DOMAIN h
      BY <1>3, <1>8
    <3>2. h[b[p]] < h[b[q]]
      BY <1>2, <2>2, <3>1 DEF Ascending
    <3> DEFINE X1 == SectionSet(doc, h[b[p]])
               X2 == SectionSet(doc, h[b[q]])
    <3>3. \A t \in X1, u \in X2 : t[1] \in Nat /\ t[1] < u[1]
      BY <1>8, <1>9, <3>2
    <3>4. Of(p) \subseteq X1 /\ Of(q) \subseteq X2
      BY <1>8
    <3> HIDE DEF X1, X2, Of
    <3>5. \A t \in Of(p), u \in Of(q) : t[1] \in Nat /\ t[1] < u[1] /\ u \in Token
      <4>1. IsText(F[q].content)
        BY <1>8
      <4>2. Of(q) \subseteq Token
        BY <4>1, LenProperties, ElementOfSeq DEF Of, IsText, ToSet
      <4> QED
        BY <3>3, <3>4, <4>2
    <3>6. \A t \in Of(p), u \in Of(q) : ~ Before(u, t) /\ t # u
      <4>1. ASSUME NEW t \in Of(p), NEW u \in Of(q)
            PROVE  ~ Before(u, t) /\ t # u
        <5>1. t[1] \in Nat /\ u[1] \in Nat /\ t[1] < u[1]
          BY <3>5 DEF Token
        <5> QED
          BY <5>1 DEF Before
      <4> QED
        BY <4>1
    <3>7. Of(p) \cap Of(q) = {}
      BY <3>6
    <3> QED
      BY <3>6, <3>7 DEF Follows
  <2>3. CASE b[p] = b[q] /\ o[p] < o[q]
    <3>1. Says(doc, c, SectionTitle(doc, h[b[p]]), s[b[p]], SectionSet(doc, h[b[p]]))
      BY <1>4, <1>8
    <3>2. /\ o[p] \in DOMAIN s[b[p]] /\ o[q] \in DOMAIN s[b[p]]
          /\ F[p] = s[b[p]][o[p]] /\ F[q] = s[b[p]][o[q]]
      BY <1>8, <2>3
    <3>3. o[p] # o[q]
      <4>1. s[b[p]] \in Seq(DraftRecords)
        BY <3>1 DEF Says
      <4>2. o[p] \in Nat /\ o[q] \in Nat
        BY <3>2, <4>1, LenProperties
      <4> QED
        BY <2>3, <4>2
    <3>4. Follows(doc, Of(p), Of(q))
      BY <2>3, <3>1, <3>2 DEF Says
    <3>5. c.overlap_tokens = 0 => Of(p) \cap Of(q) \subseteq Headers(doc)
      BY <3>1, <3>2, <3>3 DEF Says
    <3> QED
      BY <3>4, <3>5
  <2> QED
    BY <2>1, <2>2, <2>3
<1>12. ASSUME c.overlap_tokens = 0, NEW p \in DOMAIN F, NEW q \in DOMAIN F, p # q
       PROVE  Of(p) \cap Of(q) \subseteq Headers(doc)
  <2>1. DOMAIN F = 1 .. Len(F) /\ Len(F) \in Nat
    BY <1>6, LenProperties
  <2>2. p < q \/ q < p
    BY <1>12, <2>1
  <2>3. CASE p < q
    BY <1>11, <1>12, <2>3
  <2>4. CASE q < p
    <3>1. Of(q) \cap Of(p) \subseteq Headers(doc)
      BY <1>11, <1>12, <2>4
    <3> QED
      BY <3>1
  <2> QED
    BY <2>2, <2>3, <2>4
<1>13. ASSUME NEW p \in DOMAIN F
       PROVE  IsInSection(doc, F[p])
  <2> DEFINE g == h[b[p]]
             x == F[p].content
             U == {i \in H : i <= g}
  <2>1. /\ g \in {0} \cup H /\ x \in Seq(Token) /\ x # <<>>
        /\ ToSet(x) \subseteq SectionSet(doc, g) /\ F[p].title = SectionTitle(doc, g)
    BY <1>8 DEF IsText
  <2>2. x[1] \in ToSet(x)
    BY <2>1, EmptySeq, LenProperties DEF ToSet
  <2> HIDE DEF g, x
  <2>3. \A t \in ToSet(x) : {i \in H : i < t[1]} = U
    BY <1>9, <2>1
  <2>4. \A t : HeadingsOf(doc, t) = {i \in H : i < t[1]}
    BY DEF HeadingsOf, H, Headings
  <2>5. \A t \in ToSet(x) : HeadingsOf(doc, t) = U
    BY <2>3, <2>4
  <2>6. DOMAIN doc \subseteq Nat \ {0} /\ H \subseteq DOMAIN doc
    <3>1. DOMAIN doc = 1 .. Len(doc) /\ Len(doc) \in Nat
      BY LenProperties
    <3> QED
      BY <3>1 DEF H, Headings
  <2>7. SectionTitle(doc, g) = IF U = {} \/ Blank(doc[Max(U)]) THEN 0 ELSE Max(U)
    <3>1. CASE g = 0
      <4>1. U = {}
        BY <2>6, <3>1
      <4> QED
        BY <3>1, <4>1 DEF SectionTitle
    <3>2. CASE g # 0
      <4>1. g \in H /\ g \in Int /\ g \in U /\ U \in SUBSET (0 .. g) /\ 0 \in Int /\ U # {}
        BY <2>1, <2>6, <3>2
      <4> HIDE DEF U
      <4>2. Max(U) \in U /\ g <= Max(U)
        <5>1. Max(U) \in U /\ \A u \in U : u <= Max(U)
          BY <4>1, MaxOf
        <5> QED
          BY <4>1, <5>1
      <4>3. Max(U) \in 0 .. g
        BY <4>1, <4>2
      <4>4. Max(U) = g /\ U # {}
        BY <4>1, <4>2, <4>3
      <4> QED
        BY <3>2, <4>4 DEF SectionTitle
    <3> QED
      BY <3>1, <3>2
  <2> HIDE DEF U
  <2> QED
    BY <2>1, <2>2, <2>5, <2>7 DEF IsInSection, x
<1> QED
  BY <1>1, <1>6, <1>8, <1>10, <1>11, <1>12, <1>13, SMTT(30) DEF Tells, H

-----------------------------------------------------------------------------
(* The worker. *)

\* The chunks of every document of a worker.
THEOREM ChunkTells ==
    ASSUME NEW d \in Documents, NEW c \in Configs, NEW B,
           B = {i \in DOMAIN d : c.strategy = "heading_aware_v1" => d[i].type # "heading"}
    PROVE  Tells(d, c, Chunk(d, c), UNION {BlockSet(d, i) : i \in B})
<1>1. d \in Seq(ExtractedBlock) /\ ValidConfig(c)
  BY DocumentsAssumption, ConfigsAssumption
<1>2. c.strategy = "fixed_token_v1" \/ c.strategy = "heading_aware_v1"
  BY <1>1 DEF ValidConfig, Strategies
<1>3. CASE c.strategy = "fixed_token_v1"
  <2>1. B = DOMAIN d
    BY <1>3
  <2>2. Tells(d, c, FixedTokenChunks(d, c), UNION {BlockSet(d, i) : i \in DOMAIN d})
    BY <1>1, <1>3, FixedTokenTells
  <2> QED
    BY <1>3, <2>1, <2>2 DEF Chunk
<1>4. CASE c.strategy = "heading_aware_v1"
  <2>1. B = DOMAIN d \ Headings(d)
    BY <1>4 DEF Headings
  <2>2. Tells(d, c, HeadingAwareChunks(d, c), UNION {BlockSet(d, i) : i \in DOMAIN d \ Headings(d)})
    BY <1>1, HeadingAwareTells
  <2> QED
    BY <1>4, <2>1, <2>2 DEF Chunk
<1> QED
  BY <1>2, <1>3, <1>4

Plan == PlanBatches(chunks, BatchSize, MaxBatchTokens)

TaskStates == {"waiting", "calling", "sleeping", "done", "failed"}
Task == [chunks : Seq(Nat), state : TaskStates, attempts : Nat, vectors : Seq(Nat)]

\* A task of the batch b of the plan; when it is done it has the vectors of its chunks.
TaskOf(b) == {t \in Task : t.chunks = Plan[b] /\ (t.state = "done" => t.vectors = Plan[b])}

\* The chunks are those of the document from the moment they are stored, and the tasks of
\* every attempt are those of the plan.
BatchesInv ==
    /\ document \in Documents /\ config \in Configs /\ stage \in Stages
    /\ \/ chunks = <<>> /\ batches = <<>> /\ stage \in {"extract", "fall back", "chunk", "ended"}
       \/ /\ chunks = Chunk(document, config)
          /\ stage \notin {"extract", "fall back", "chunk"}
    /\ stage \in Running => batches # <<>>
    /\ batches \in Seq([DOMAIN Plan -> Task])
    /\ \A a \in DOMAIN batches : \A b \in DOMAIN Plan : batches[a][b] \in TaskOf(b)
    /\ VectorsOfTheirChunks

\* The plan of the chunks there are.
LEMMA PlanType ==
    ASSUME BatchesInv
    PROVE  /\ Len(chunks) \in Nat /\ DOMAIN chunks = 1 .. Len(chunks)
           /\ Plan \in Seq(Seq(Nat))
           /\ FlattenSeq(Plan) = [k \in 1 .. Len(chunks) |-> k]
<1>1. chunks = <<>> \/ chunks \in Seq(DraftRecords)
  BY ChunkTells DEF BatchesInv, Tells
<1>2. Len(chunks) \in Nat /\ DOMAIN chunks = 1 .. Len(chunks)
  BY <1>1, LenProperties, EmptySeq
<1> DEFINE N == Len(chunks)
<1>3. N \in Nat /\ Len(chunks) = N /\ BatchSize \in Nat \ {0}
  BY <1>2, RunConfigAssumption DEF ValidRunConfig
<1> HIDE DEF N
<1>4. Plan \in Seq(Seq(1 .. N)) /\ FlattenSeq(Plan) = [k \in 1 .. N |-> k]
  BY <1>3, PlanInOrder DEF Plan
<1>5. Plan \in Seq(Seq(Nat))
  <2>1. DOMAIN Plan = 1 .. Len(Plan) /\ Len(Plan) \in Nat
    BY <1>4, LenProperties
  <2>2. ASSUME NEW i \in 1 .. Len(Plan)
        PROVE  Plan[i] \in Seq(Nat)
    <3>1. Plan[i] \in Seq(1 .. N)
      BY <1>4, <2>1, ElementOfSeq
    <3>2. Len(Plan[i]) \in Nat /\ Plan[i] \in [1 .. Len(Plan[i]) -> 1 .. N]
      BY <3>1, LenProperties
    <3>3. Plan[i] \in [1 .. Len(Plan[i]) -> Nat]
      BY <3>2
    <3> QED
      BY <3>2, <3>3, SeqOfFunction
  <2>3. Plan = [i \in 1 .. Len(Plan) |-> Plan[i]]
    BY <1>4, <2>1, SeqDef
  <2>4. Plan \in [1 .. Len(Plan) -> Seq(Nat)]
    BY <2>2, <2>3
  <2> QED
    BY <2>1, <2>4, SeqOfFunction
<1> QED
  BY <1>2, <1>3, <1>4, <1>5

\* It holds at the start.
LEMMA BatchesInit == Init => BatchesInv
<1> SUFFICES ASSUME Init PROVE BatchesInv
  OBVIOUS
<1>1. DOMAIN batches = {} /\ batches \in Seq([DOMAIN Plan -> Task])
  BY EmptySeq DEF Init
<1> QED
  BY <1>1 DEF Init, BatchesInv, Stages, Running, VectorsOfTheirChunks

\* A task of an attempt becomes another task of its batch.
LEMMA TaskStep ==
    ASSUME BatchesInv, stage \in Running, stage' \in Running,
           UNCHANGED <<document, config, chunks, vectors>>,
           NEW a \in DOMAIN batches, NEW b \in DOMAIN batches[a],
           NEW t \in TaskOf(b), batches' = [batches EXCEPT ![a][b] = t]
    PROVE  BatchesInv'
<1> DEFINE D == DOMAIN Plan
           T == [D -> Task]
<1>1. batches \in Seq(T) /\ a \in 1 .. Len(batches) /\ Len(batches) \in Nat
      /\ DOMAIN batches = 1 .. Len(batches)
  BY LenProperties DEF BatchesInv
<1>2. batches[a] \in T /\ b \in D /\ DOMAIN batches[a] = D
  BY <1>1, ElementOfSeq
<1>3. t \in Task
  BY DEF TaskOf
<1> DEFINE u == [batches[a] EXCEPT ![b] = t]
<1>4. u \in T /\ u[b] = t /\ \A d \in D : d # b => u[d] = batches[a][d]
  BY <1>2, <1>3
<1>5. batches' = [batches EXCEPT ![a] = u]
  OBVIOUS
<1> HIDE DEF u
<1>6. batches' \in Seq(T) /\ DOMAIN batches' = DOMAIN batches /\ batches' # <<>>
  <2>1. batches' \in Seq(T) /\ Len(batches') = Len(batches)
    BY <1>1, <1>4, <1>5, ExceptSeq
  <2> QED
    BY <1>1, <2>1, EmptySeq, LenProperties
<1>7. batches'[a] = u /\ \A e \in DOMAIN batches : e # a => batches'[e] = batches[e]
  BY <1>1, <1>5
<1>8. Plan' = Plan /\ \A d : TaskOf(d)' = TaskOf(d)
  BY DEF Plan, TaskOf, Task, TaskStates
<1>9. ASSUME NEW e \in DOMAIN batches, NEW d \in D
      PROVE  batches'[e][d] \in TaskOf(d)
  BY <1>4, <1>7, <1>9 DEF BatchesInv
<1>10. VectorsOfTheirChunks'
  BY DEF VectorsOfTheirChunks, Running
<1> QED
  BY <1>6, <1>8, <1>9, <1>10, ZenonT(30) DEF BatchesInv, Stages, Running

\* The steps of the tasks.
LEMMA StepKeeps ==
    ASSUME BatchesInv, NEW a \in DOMAIN batches, NEW b \in DOMAIN batches[a], Step(a, b)
    PROVE  BatchesInv'
<1> DEFINE t == batches[a][b]
<1>1. t \in TaskOf(b) /\ t \in Task /\ b \in DOMAIN Plan
  <2>1. batches[a] \in [DOMAIN Plan -> Task]
    BY ElementOfSeq, LenProperties DEF BatchesInv
  <2>2. b \in DOMAIN Plan
    BY <2>1
  <2>3. t \in TaskOf(b)
    BY <2>2 DEF BatchesInv
  <2> QED
    BY <2>2, <2>3 DEF TaskOf
<1>2. stage \in Running /\ UNCHANGED <<document, config, chunks, vectors>>
  BY DEF Step, Acquire, Answer, TransientError, Wake
<1>3. ASSUME NEW kind, FailTask(a, b, kind)
      PROVE  BatchesInv'
  <2> DEFINE u == [t EXCEPT !.state = "failed"]
  <2>1. u \in TaskOf(b)
    BY <1>1 DEF TaskOf, Task, TaskStates
  <2>2. batches' = [batches EXCEPT ![a][b] = u] /\ stage' \in Running
    BY <1>2, <1>3 DEF FailTask, Running
  <2> HIDE DEF u
  <2> QED
    BY <1>2, <2>1, <2>2, TaskStep
<1>4. ASSUME Acquire(a, b), ~ \E kind : FailTask(a, b, kind)
      PROVE  BatchesInv'
  <2> DEFINE u == [t EXCEPT !.state = "calling", !.attempts = 1]
  <2>1. u \in TaskOf(b)
    BY <1>1 DEF TaskOf, Task, TaskStates
  <2>2. batches' = [batches EXCEPT ![a][b] = u] /\ stage' \in Running
    BY <1>2, <1>4 DEF Acquire
  <2> HIDE DEF u
  <2> QED
    BY <1>2, <2>1, <2>2, TaskStep
<1>5. ASSUME TransientError(a, b), ~ \E kind : FailTask(a, b, kind)
      PROVE  BatchesInv'
  <2> DEFINE u == [t EXCEPT !.state = "sleeping"]
  <2>1. u \in TaskOf(b)
    BY <1>1 DEF TaskOf, Task, TaskStates
  <2>2. batches' = [batches EXCEPT ![a][b] = u] /\ stage' \in Running
    BY <1>2, <1>5 DEF TransientError
  <2> HIDE DEF u
  <2> QED
    BY <1>2, <2>1, <2>2, TaskStep
<1>6. ASSUME Wake(a, b)
      PROVE  BatchesInv'
  <2> DEFINE u == [t EXCEPT !.state = "calling", !.attempts = t.attempts + 1]
  <2>1. u \in TaskOf(b)
    <3>1. t.chunks = Plan[b]
      BY <1>1 DEF TaskOf
    <3> DEFINE m == t.attempts + 1
    <3>2. m \in Nat
      BY <1>1 DEF Task
    <3>3. u = [t EXCEPT !.state = "calling", !.attempts = m]
      OBVIOUS
    <3> HIDE DEF u, t, m
    <3>4. u \in Task /\ u.chunks = t.chunks /\ u.state = "calling"
      BY <1>1, <3>2, <3>3 DEF Task, TaskStates
    <3> QED
      BY <3>1, <3>4 DEF TaskOf
  <2>2. batches' = [batches EXCEPT ![a][b] = u] /\ stage' \in Running
    BY <1>2, <1>6 DEF Wake
  <2> HIDE DEF u
  <2> QED
    BY <1>2, <2>1, <2>2, TaskStep
<1>7. ASSUME Answer(a, b), ~ \E kind : FailTask(a, b, kind)
      PROVE  BatchesInv'
  <2> DEFINE n == Len(t.chunks)
  <2>1. t.chunks \in Seq(Nat) /\ n \in Nat /\ DOMAIN t.chunks = 1 .. n
        /\ t.chunks = [k \in 1 .. n |-> t.chunks[k]]
    BY <1>1, LenProperties, SeqDef DEF Task
  <2>2. PICK answer \in Answers(n) :
            /\ OrderedVectors(answer, n) # <<>>
            /\ batches' = [batches EXCEPT ![a][b].state = "done",
                  ![a][b].vectors = [k \in DOMAIN OrderedVectors(answer, n) |->
                                        t.chunks[OrderedVectors(answer, n)[k] + 1]]]
            /\ UNCHANGED stage
    BY <1>7 DEF Answer
  <2> HIDE DEF n
  <2>3. answer \in Seq(Int)
    <3>1. PICK k \in {n - 1, n} : answer \in [1 .. k -> 0 .. n]
      BY <2>2 DEF Answers
    <3>2. answer \in [1 .. k -> Int]
      BY <2>1, <3>1
    <3>3. CASE k \in Nat
      BY <3>2, <3>3, SeqOfFunction
    <3>4. CASE k \notin Nat
      <4>1. 1 .. k = 1 .. 0
        BY <2>1, <3>1, <3>4
      <4>2. answer \in [1 .. 0 -> Int] /\ 0 \in Nat
        BY <3>2, <4>1
      <4> QED
        BY <4>2, SeqOfFunction
    <3> QED
      BY <3>3, <3>4
  <2> DEFINE got == OrderedVectors(answer, n)
             v == [k \in DOMAIN got |-> t.chunks[got[k] + 1]]
  <2>4. got = [k \in 1 .. n |-> k - 1]
    BY <2>1, <2>2, <2>3, OrderedVectorsInOrder
  <2> HIDE DEF got
  <2>5. v = t.chunks
    <3>1. DOMAIN got = 1 .. n /\ \A k \in 1 .. n : got[k] + 1 = k
      BY <2>1, <2>4
    <3>2. v = [k \in 1 .. n |-> t.chunks[k]]
      BY <3>1
    <3> QED
      BY <2>1, <3>2
  <2> DEFINE u == [t EXCEPT !.state = "done", !.vectors = v]
  <2>6. u \in TaskOf(b)
    <3>1. v \in Seq(Nat) /\ v = t.chunks
      BY <2>1, <2>5
    <3> HIDE DEF v
    <3>2. u \in Task /\ u.chunks = t.chunks /\ u.vectors = v
      <4> HIDE DEF t
      <4> QED
        BY <1>1, <3>1 DEF Task, TaskStates
    <3>3. t.chunks = Plan[b]
      BY <1>1 DEF TaskOf
    <3> HIDE DEF u, t
    <3> QED
      BY <3>1, <3>2, <3>3 DEF TaskOf
  <2>7. batches' = [batches EXCEPT ![a][b] = u] /\ stage' \in Running
    BY <1>2, <2>2 DEF got
  <2> HIDE DEF u
  <2> QED
    BY <1>2, <2>6, <2>7, TaskStep
<1> QED
  BY <1>3, <1>4, <1>5, <1>6, <1>7 DEF Step

\* Outside of the steps of the tasks only the stage and the outcome change.
LEMMA EndsWithin ==
    ASSUME BatchesInv, UNCHANGED <<document, config, chunks, batches>>,
           Plan' = Plan, \A b : TaskOf(b)' = TaskOf(b),
           stage \notin {"extract", "fall back", "chunk", "ended"},
           stage' \in {"ended", "embedded"}, VectorsOfTheirChunks'
    PROVE  BatchesInv'
<1>1. chunks = Chunk(document, config) /\ stage \in Stages
  BY DEF BatchesInv
<1>2. /\ document' \in Documents /\ config' \in Configs /\ stage' \in Stages
      /\ chunks' = Chunk(document', config')
      /\ stage' \notin {"extract", "fall back", "chunk"} /\ stage' \notin Running
  BY <1>1 DEF BatchesInv, Stages, Running
<1>3. Task' = Task
  BY DEF Task, TaskStates
<1>4. batches' \in Seq([DOMAIN Plan' -> Task'])
      /\ \A a \in DOMAIN batches' : \A b \in DOMAIN Plan' : batches'[a][b] \in TaskOf(b)'
  BY <1>3 DEF BatchesInv
<1> QED
  BY <1>2, <1>4 DEF BatchesInv

\* Every step keeps it.
LEMMA BatchesNext == BatchesInv /\ [Next]_vars => BatchesInv'
<1> SUFFICES ASSUME BatchesInv, [Next]_vars PROVE BatchesInv'
  OBVIOUS
<1> USE DEF Stages, Running, VectorsOfTheirChunks
<1>0. ASSUME UNCHANGED <<chunks, batches>>
      PROVE  Plan' = Plan /\ \A b : TaskOf(b)' = TaskOf(b)
  BY <1>0 DEF Plan, TaskOf, Task, TaskStates
<1>1. CASE ExtractPrimary
  BY <1>0, <1>1, ZenonT(30) DEF ExtractPrimary, End, BatchesInv
<1>2. CASE ExtractFallback
  BY <1>0, <1>2, ZenonT(30) DEF ExtractFallback, End, BatchesInv
<1>3. CASE ChunkDocument
  <2>1. CASE UNCHANGED chunks /\ stage' = "ended"
    <3>1. stage = "chunk" /\ UNCHANGED <<document, config, chunks, batches, vectors>>
      BY <1>3, <2>1 DEF ChunkDocument
    <3>2. Plan' = Plan /\ \A b : TaskOf(b)' = TaskOf(b)
      BY <1>0, <3>1
    <3>3. Task' = Task
      BY DEF Task, TaskStates
    <3>4. chunks = <<>> /\ batches = <<>>
      BY <3>1 DEF BatchesInv
    <3> QED
      BY <2>1, <3>1, <3>2, <3>3, <3>4 DEF BatchesInv
  <2>2. CASE /\ \E v \in ChunkValues :
                  v.of = document /\ v.with = config /\ chunks' = v.chunks
             /\ stage' = "load chunks"
    <3>1. chunks' = Chunk(document, config)
      <4>1. PICK v \in ChunkValues : v.of = document /\ v.with = config /\ chunks' = v.chunks
        BY <1>3, <2>2 DEF ChunkDocument
      <4>2. PICK d \in Documents, c \in Configs : v = [of |-> d, with |-> c, chunks |-> Chunk(d, c)]
        BY DEF ChunkValues
      <4>3. v.of = d /\ v.with = c /\ v.chunks = Chunk(d, c)
        BY <4>2
      <4> QED
        BY <4>1, <4>3
    <3>2. /\ stage = "chunk" /\ stage' = "load chunks"
          /\ UNCHANGED <<document, config, batches, vectors>>
      BY <1>3, <2>2 DEF ChunkDocument
    <3>3. batches = <<>>
      BY <3>2 DEF BatchesInv
    <3>4. DOMAIN batches' = {} /\ batches' \in Seq([DOMAIN Plan' -> Task'])
      <4>1. batches' = <<>>
        BY <3>2, <3>3, Zenon
      <4>2. \A T : <<>> \in Seq(T)
        BY EmptySeq
      <4>3. DOMAIN <<>> = {}
        OBVIOUS
      <4> QED
        BY <4>1, <4>2, <4>3, Zenon
    <3>5. document' \in Documents /\ config' \in Configs
      BY <3>2 DEF BatchesInv
    <3>6. chunks' = Chunk(document', config')
      BY <3>1, <3>2
    <3> QED
      BY <3>2, <3>4, <3>5, <3>6 DEF BatchesInv
  <2> QED
    BY <1>3, <2>1, <2>2 DEF ChunkDocument, End
<1>4. CASE StartEmbedding
  <2>1. CASE chunks = <<>>
    <3>1. /\ stage = "load chunks" /\ stage' = "ended"
          /\ UNCHANGED <<document, config, chunks, batches, vectors>>
      BY <1>4, <2>1 DEF StartEmbedding, End
    <3>2. Plan' = Plan /\ \A b : TaskOf(b)' = TaskOf(b)
      BY <1>0, <3>1
    <3> QED
      BY <3>1, <3>2, EndsWithin
  <2>2. CASE chunks # <<>>
    <3> DEFINE new == [b \in DOMAIN Plan |-> NewTask(Plan[b])]
               T == [DOMAIN Plan -> Task]
    <3>1. batches' = Append(batches, new)
      <4>1. PICK v \in PlanValues :
              /\ v.of = chunks
              /\ batches' = Append(batches, [b \in DOMAIN v.plan |-> NewTask(v.plan[b])])
        BY <1>4, <2>2 DEF StartEmbedding
      <4>2. PICK w \in ChunkValues :
              v = [of |-> w.chunks, plan |-> PlanBatches(w.chunks, BatchSize, MaxBatchTokens)]
        BY DEF PlanValues
      <4>3. v.of = w.chunks /\ v.plan = PlanBatches(w.chunks, BatchSize, MaxBatchTokens)
        BY <4>2
      <4>4. v.plan = Plan
        BY <4>1, <4>3 DEF Plan
      <4> QED
        BY <4>1, <4>4
    <3>2. \A b \in DOMAIN Plan : new[b] \in TaskOf(b)
      <4>1. ASSUME NEW b \in DOMAIN Plan
            PROVE  new[b] \in TaskOf(b)
        <5>1. Plan[b] \in Seq(Nat)
          BY PlanType, ElementOfSeq, LenProperties
        <5>2. new[b] = NewTask(Plan[b])
          OBVIOUS
        <5> HIDE DEF new
        <5> QED
          BY <5>1, <5>2 DEF NewTask, TaskOf, Task, TaskStates
      <4> QED
        BY <4>1
    <3>3. new \in T
      <4>1. \A b \in DOMAIN Plan : NewTask(Plan[b]) \in Task
        BY <3>2 DEF TaskOf
      <4> QED
        BY <4>1
    <3>4. /\ Plan' = Plan /\ \A b : TaskOf(b)' = TaskOf(b)
          /\ UNCHANGED <<document, config, chunks, vectors>> /\ stage' = "embedding"
      BY <1>4, <2>2 DEF StartEmbedding, Plan, TaskOf, Task, TaskStates
    <3> HIDE DEF new
    <3>5. batches \in Seq(T) /\ Len(batches) \in Nat /\ DOMAIN batches = 1 .. Len(batches)
      BY LenProperties DEF BatchesInv
    <3>6. /\ batches' \in Seq(T) /\ DOMAIN batches' = 1 .. Len(batches) + 1 /\ batches' # <<>>
          /\ \A a \in 1 .. Len(batches) + 1 :
               batches'[a] = IF a = Len(batches) + 1 THEN new ELSE batches[a]
      <4> HIDE DEF T
      <4>1. /\ batches' \in Seq(T) /\ Len(batches') = Len(batches) + 1
            /\ \A a \in 1 .. Len(batches) : batches'[a] = batches[a]
            /\ batches'[Len(batches) + 1] = new
        BY <3>1, <3>3, <3>5, AppendProperties
      <4> QED
        BY <3>5, <4>1, LenProperties, EmptySeq
    <3>7. \A a \in DOMAIN batches' : \A b \in DOMAIN Plan : batches'[a][b] \in TaskOf(b)
      <4>1. ASSUME NEW a \in 1 .. Len(batches) + 1, NEW b \in DOMAIN Plan
            PROVE  batches'[a][b] \in TaskOf(b)
        <5>1. CASE a = Len(batches) + 1
          BY <3>2, <3>6, <5>1
        <5>2. CASE a # Len(batches) + 1
          <6>1. a \in DOMAIN batches /\ batches'[a] = batches[a]
            BY <3>5, <3>6, <5>2
          <6> QED
            BY <6>1 DEF BatchesInv
        <5> QED
          BY <5>1, <5>2
      <4> QED
        BY <3>6, <4>1
    <3> QED
      BY <1>4, <2>2, <3>4, <3>6, <3>7 DEF BatchesInv, StartEmbedding
  <2> QED
    BY <2>1, <2>2
<1>5. CASE \E t \in Tasks : Step(t[1], t[2])
  <2>1. PICK t \in Tasks : Step(t[1], t[2])
    BY <1>5
  <2>2. t[1] \in DOMAIN batches /\ t[2] \in DOMAIN batches[t[1]]
    BY DEF Tasks
  <2> QED
    BY <2>1, <2>2, StepKeeps
<1>6. CASE Gather
  <2> DEFINE tasks == batches[Current]
             pairs == [b \in DOMAIN tasks |->
                         [k \in DOMAIN tasks[b].chunks |->
                            <<tasks[b].chunks[k], tasks[b].vectors[k]>>]]
             N == Len(chunks)
  <2>1. stage = "embedding" /\ vectors' = FlattenSeq(pairs)
        /\ \A b \in DOMAIN tasks : tasks[b].state = "done"
    BY <1>6 DEF Gather
  <2>2. Current \in DOMAIN batches
    BY <2>1, EmptySeq, LenProperties DEF BatchesInv, Current
  <2>3. DOMAIN tasks = DOMAIN Plan
    <3>1. batches \in Seq([DOMAIN Plan -> Task])
      BY DEF BatchesInv
    <3>2. Current \in 1 .. Len(batches)
      BY <2>2, <3>1, LenProperties
    <3> DEFINE T == [DOMAIN Plan -> Task]
    <3>3. tasks \in T
      <4> HIDE DEF T
      <4>1. batches \in Seq(T)
        BY <3>1 DEF T
      <4> QED
        BY <3>2, <4>1, ElementOfSeq
    <3> QED
      BY <3>3
  <2>4. \A b \in DOMAIN Plan : tasks[b].chunks = Plan[b] /\ tasks[b].vectors = Plan[b]
    BY <2>1, <2>2, <2>3 DEF BatchesInv, TaskOf
  <2>5. pairs = [b \in DOMAIN Plan |-> Twice(Plan[b])]
    <3>1. \A b \in DOMAIN Plan :
            [k \in DOMAIN tasks[b].chunks |-> <<tasks[b].chunks[k], tasks[b].vectors[k]>>]
              = Twice(Plan[b])
      BY <2>4 DEF Twice
    <3> HIDE DEF tasks
    <3> QED
      BY <2>3, <3>1
  <2> HIDE DEF pairs, N
  <2>6. /\ Plan \in Seq(Seq(Nat)) /\ FlattenSeq(Plan) = [k \in 1 .. N |-> k]
        /\ DOMAIN chunks = 1 .. N
    BY PlanType DEF N
  <2>7. FlattenSeq([b \in DOMAIN Plan |-> Twice(Plan[b])]) = Twice(FlattenSeq(Plan))
    BY <2>6, FlattenTwice
  <2>8. vectors' = Twice([k \in 1 .. N |-> k])
    BY <2>1, <2>5, <2>6, <2>7
  <2>9. Twice([k \in 1 .. N |-> k]) = [k \in DOMAIN chunks |-> <<k, k>>]
    BY <2>6 DEF Twice
  <2>10. VectorsOfTheirChunks'
    BY <1>6, <2>8, <2>9 DEF Gather
  <2> QED
    <3>1. stage' = "embedded" /\ UNCHANGED <<document, config, chunks, batches>>
      BY <1>6 DEF Gather
    <3>2. Plan' = Plan /\ \A b : TaskOf(b)' = TaskOf(b)
      BY <1>0, <3>1
    <3> HIDE DEF tasks, VectorsOfTheirChunks
    <3> QED
      BY <2>1, <2>10, <3>1, <3>2, EndsWithin
<1>7. CASE EndJob
  BY <1>0, <1>7 DEF EndJob, End, BatchesInv
<1>8. CASE UNCHANGED vars
  BY <1>0, <1>8 DEF vars, BatchesInv
<1> QED
  BY <1>1, <1>2, <1>3, <1>4, <1>5, <1>6, <1>7, <1>8 DEF Next

\* What the chunkers make of the document is what the property says of it.
LEMMA TellsTheDocument ==
    ASSUME BatchesInv
    PROVE  ChunksCoverDocument
<1> DEFINE body == {i \in DOMAIN document :
                      config.strategy = "heading_aware_v1" => document[i].type # "heading"}
           X == UNION {BlockSet(document, i) : i \in body}
<1> SUFFICES ASSUME Chunked PROVE ChunksCoverDocument
  BY DEF ChunksCoverDocument
<1>1. document \in Documents /\ config \in Configs /\ document \in Seq(ExtractedBlock)
      /\ chunks = Chunk(document, config)
  BY DocumentsAssumption DEF BatchesInv, Chunked
<1>2. Tells(document, config, chunks, X)
  BY <1>1, ChunkTells
<1>3. UNION {ToSet(BlockText(document, i)) : i \in body} = X
  BY <1>1, BlockIsText
<1> HIDE DEF X
<1>4. \A n \in DOMAIN chunks :
        \A k \in 1 .. Len(chunks[n].content) - 1 :
           Before(chunks[n].content[k], chunks[n].content[k + 1])
  <2>1. ASSUME NEW n \in DOMAIN chunks, NEW k \in 1 .. Len(chunks[n].content) - 1
        PROVE  Before(chunks[n].content[k], chunks[n].content[k + 1])
    <3> DEFINE x == chunks[n].content
    <3>1. IsText(x)
      BY <1>2 DEF Tells
    <3> HIDE DEF x
    <3>2. Len(x) \in Nat /\ DOMAIN x = 1 .. Len(x)
      BY <3>1, LenProperties DEF IsText
    <3>3. k \in DOMAIN x /\ k + 1 \in DOMAIN x /\ k < k + 1
      BY <3>2 DEF x
    <3>4. <<x[k], x[k + 1]>> \in Order
      BY <3>1, <3>3 DEF IsText, Sorted
    <3>5. \A s, t : <<s, t>> \in Order => Before(s, t)
      BY DEF Order
    <3> QED
      BY <3>4, <3>5 DEF x
  <2> QED
    BY <2>1
<1>5. \A t : HeadingsBefore(t) = HeadingsOf(document, t)
  BY DEF HeadingsBefore, HeadingsOf
<1>6. \A t \in Headers(document) :
         document[t[1]].type = "table" /\ document[t[1]].markdown /\ t[2] <= 2
  BY DEF Headers
<1>7. \A m, n \in DOMAIN chunks : m < n =>
        \A t \in ToSet(chunks[m].content), s \in ToSet(chunks[n].content) :
           Before(s, t) =>
              \/ {s, t} \subseteq ToSet(chunks[m].content) \cap ToSet(chunks[n].content)
              \/ s[1] = t[1] /\ s \in Headers(document)
  BY <1>2 DEF Tells, Follows
<1> HIDE DEF body
<1>8. \A m, n \in DOMAIN chunks : m < n =>
        \A t \in ToSet(chunks[m].content), s \in ToSet(chunks[n].content) :
           Before(s, t) =>
              \/ {s, t} \subseteq ToSet(chunks[m].content) \cap ToSet(chunks[n].content)
              \/ /\ s[1] = t[1]
                 /\ document[s[1]].type = "table" /\ document[s[1]].markdown /\ s[2] <= 2
  BY <1>6, <1>7
<1>9. config.overlap_tokens = 0 =>
        \A m, n \in DOMAIN chunks : m # n =>
           \A t \in ToSet(chunks[m].content) \cap ToSet(chunks[n].content) :
              document[t[1]].type = "table" /\ document[t[1]].markdown /\ t[2] <= 2
  BY <1>2, <1>6 DEF Tells
<1>10. \A n \in DOMAIN chunks :
        /\ Len(chunks[n].content) > config.max_tokens => IsOneRow(chunks[n])
        /\ config.strategy = "heading_aware_v1" => IsInSection(document, chunks[n])
  BY <1>2 DEF Tells
<1>11. UNION {ToSet(chunks[n].content) : n \in DOMAIN chunks} = X
  BY <1>2 DEF Tells
<1> QED
  BY <1>3, <1>4, <1>5, <1>8, <1>9, <1>10, <1>11
  DEF ChunksCoverDocument, IsOneRow, IsInSection, body

\* The invariant of the worker.
THEOREM BatchesInvariant == Spec => []BatchesInv
BY BatchesInit, BatchesNext, PTL DEF Spec

\* Every chunk gets the vector that was made of it, in the order of the chunks.
THEOREM VectorsCorrect == Spec => []VectorsOfTheirChunks
<1>1. BatchesInv => VectorsOfTheirChunks
  BY DEF BatchesInv
<1> QED
  BY <1>1, BatchesInvariant, PTL

\* The chunks say what the document says, within the limits and in its order, inside a
\* chunk and from chunk to chunk.
THEOREM ChunksCorrect == Spec => []ChunksCoverDocument
BY TellsTheDocument, BatchesInvariant, PTL

=============================================================================
