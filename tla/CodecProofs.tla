----------------------------- MODULE CodecProofs ----------------------------
(***************************************************************************)
(* Proofs about Codec: the formats of the library read back what was       *)
(* written and nothing else, for every width of bytes and words, every     *)
(* size of keys and every byte string.                                     *)
(***************************************************************************)
EXTENDS Codec, WellFoundedInduction, SequenceTheorems, TLAPS

-----------------------------------------------------------------------------
(* Induction and recursion over numbers.  What a step of an induction would *)
(* show is shown of the least number it fails for.                          *)

LEMMA LeastNumber ==
    ASSUME NEW S \in SUBSET Nat, S # {}
    PROVE  \E i \in S : \A j \in S : i <= j
<1> DEFINE R == {ss \in Nat \X Nat : ss[1] < ss[2]}
<1>1. IsWellFoundedOn(R, Nat)
  BY NatLessThanWellFounded DEF OpToRel
<1>2. PICK i \in S : \A j \in S : ~ (<<j, i>> \in R)
  <2> HIDE DEF R
  <2> QED
    BY <1>1, WFMin
<1>3. ASSUME NEW j \in S
      PROVE  i <= j
  <2>1. i \in Nat /\ j \in Nat /\ <<j, i>> \notin R
    BY <1>2
  <2>2. j < i => <<j, i>> \in R
    BY <2>1, Zenon
  <2> QED
    BY <2>1, <2>2
<1> QED
  BY <1>3

\* A set that holds a number whenever it holds all smaller ones holds them all.
LEMMA Induction ==
    ASSUME NEW D \in SUBSET Nat, NEW S,
           \A n \in D : (\A m \in D : m < n => m \in S) => n \in S
    PROVE  D \subseteq S
<1> DEFINE bad == D \ S
<1>1. ASSUME bad # {}
      PROVE  FALSE
  <2>1. bad \in SUBSET Nat
    OBVIOUS
  <2>2. PICK n \in bad : \A m \in bad : n <= m
    <3> HIDE DEF bad
    <3> QED
      BY <1>1, <2>1, LeastNumber
  <2>3. ASSUME NEW m \in D, m < n
        PROVE  m \in S
    <3>1. m \in Nat /\ n \in Nat /\ ~(n <= m)
      BY <2>3
    <3> QED
      BY <2>2, <2>3, <3>1
  <2> QED
    BY <2>2, <2>3
<1> QED
  BY <1>1

LEMMA Counting ==
    ASSUME NEW lo \in Nat, NEW hi \in Nat, NEW S,
           lo \in S, \A n \in lo .. hi - 1 : n \in S => n + 1 \in S
    PROVE  \A n \in lo .. hi : n \in S
<1> DEFINE D == lo .. hi
<1>1. D \in SUBSET Nat
  OBVIOUS
<1>2. ASSUME NEW n \in D, \A m \in D : m < n => m \in S
      PROVE  n \in S
  <2>1. CASE n = lo
    BY <2>1
  <2>2. CASE n # lo
    <3> DEFINE m == n - 1
    <3>1. m \in D /\ m < n /\ m \in lo .. hi - 1 /\ m + 1 = n
      BY <2>2
    <3> HIDE DEF m
    <3> QED
      BY <1>2, <3>1
  <2> QED
    BY <2>1, <2>2
<1> HIDE DEF D
<1>3. D \subseteq S
  BY <1>1, <1>2, Induction
<1> QED
  BY <1>3 DEF D

\* A definition by recursion over smaller arguments: B are those it does not recur
\* for, p says where it recurs to, F what it makes of the result.
Recurs(X, D, B, p, init, F) ==
    /\ D \in SUBSET Nat /\ B \in SUBSET D
    /\ p \in [D \ B -> D] /\ \A d \in D \ B : p[d] < d
    /\ init \in [B -> X] /\ F \in [(D \ B) \X X -> X]

Solves(g, X, D, B, p, init, F) ==
    /\ g \in [D -> X]
    /\ \A d \in B : g[d] = init[d]
    /\ \A d \in D \ B : g[d] = F[<<d, g[p[d]]>>]

\* There is such a function.
LEMMA Recursion ==
    ASSUME NEW X, NEW D, NEW B, NEW p, NEW init, NEW F, Recurs(X, D, B, p, init, F)
    PROVE  \E g : Solves(g, X, D, B, p, init, F)
<1>0. /\ D \in SUBSET Nat /\ B \in SUBSET D
      /\ p \in [D \ B -> D] /\ \A d \in D \ B : p[d] < d
      /\ init \in [B -> X] /\ F \in [(D \ B) \X X -> X]
  BY DEF Recurs
<1> DEFINE Up(n)     == {d \in D : d <= n}
           Sol(g, n) == /\ g \in [Up(n) -> X]
                        /\ \A d \in Up(n) : g[d] = IF d \in B THEN init[d] ELSE F[<<d, g[p[d]]>>]
           H(n)      == CHOOSE g : Sol(g, n)
<1> USE <1>0
<1>1. \A d \in D \ B : p[d] \in D /\ p[d] \in Nat /\ d \in Nat /\ p[d] < d
  BY <1>0
<1> HIDE DEF Sol, H
<1>2. \A n \in D : (\E g : Sol(g, n)) => Sol(H(n), n)
  BY DEF H
<1>3. ASSUME NEW m \in D, NEW n \in D, NEW g, NEW h, Sol(g, m), Sol(h, n),
             NEW e \in D, e <= m, e <= n
      PROVE  g[e] = h[e]
  <2> DEFINE S == {d \in D : d <= m /\ d <= n => g[d] = h[d]}
  <2>1. ASSUME NEW d \in D, \A c \in D : c < d => c \in S
        PROVE  d \in S
    <3>1. SUFFICES ASSUME d <= m, d <= n
                   PROVE  g[d] = h[d]
      OBVIOUS
    <3>2. /\ g[d] = IF d \in B THEN init[d] ELSE F[<<d, g[p[d]]>>]
          /\ h[d] = IF d \in B THEN init[d] ELSE F[<<d, h[p[d]]>>]
      BY <1>3, <3>1 DEF Sol
    <3>3. CASE d \in B
      BY <3>2, <3>3
    <3>4. CASE d \notin B
      <4>1. p[d] \in D /\ p[d] < d /\ p[d] <= m /\ p[d] <= n
        BY <1>1, <3>1, <3>4
      <4>2. g[p[d]] = h[p[d]]
        BY <2>1, <4>1
      <4> QED
        BY <3>2, <3>4, <4>2
    <3> QED
      BY <3>3, <3>4
  <2> HIDE DEF S
  <2>2. D \subseteq S
    BY <2>1, Induction
  <2> QED
    BY <1>3, <2>2 DEF S
<1>4. ASSUME NEW n \in D, Sol(H(n), n)
      PROVE  /\ H(n)[n] \in X
             /\ n \in B => H(n)[n] = init[n]
             /\ n \notin B => H(n)[n] = F[<<n, H(n)[p[n]]>>]
  <2>1. n \in Up(n)
    OBVIOUS
  <2> QED
    BY <1>4, <2>1 DEF Sol
\* The solutions for all numbers agree, so together they solve the equation.
<1>5. ASSUME NEW n \in D, n \notin B, Sol(H(n), n), Sol(H(p[n]), p[n])
      PROVE  H(n)[n] = F[<<n, H(p[n])[p[n]]>>]
  <2> DEFINE q == p[n]
  <2>1. q \in D /\ q <= n /\ q <= q
    BY <1>1, <1>5
  <2>2. H(n)[n] = F[<<n, H(n)[q]>>]
    BY <1>4, <1>5
  <2>3. Sol(H(n), n) /\ Sol(H(q), q)
    BY <1>5
  <2> HIDE DEF q
  <2>4. H(n)[q] = H(q)[q]
    BY <1>3, <2>1, <2>3
  <2> QED
    BY <2>2, <2>4 DEF q
<1>6. D \subseteq {n \in D : \E g : Sol(g, n)}
  <2> DEFINE S == {n \in D : \E g : Sol(g, n)}
  <2>1. ASSUME NEW n \in D, \A m \in D : m < n => m \in S
        PROVE  n \in S
    <3> DEFINE Value(d) == IF d \in B THEN init[d] ELSE F[<<d, H(p[d])[p[d]]>>]
               g        == [d \in Up(n) |-> Value(d)]
    <3>1. \A m \in D : m < n => Sol(H(m), m)
      BY <1>2, <2>1
    <3>2. \A d \in Up(n) : d \notin B => p[d] \in Up(n) /\ Sol(H(p[d]), p[d])
      BY <1>1, <3>1
    <3>3. ASSUME NEW d \in Up(n)
          PROVE  Value(d) \in X
      <4>1. CASE d \in B
        BY <4>1
      <4>2. CASE d \notin B
        <5>1. H(p[d])[p[d]] \in X
          BY <1>1, <1>4, <3>2, <4>2
        <5> QED
          BY <4>2, <5>1
      <4> QED
        BY <4>1, <4>2
    <3>4. ASSUME NEW d \in Up(n), d \notin B
          PROVE  Value(p[d]) = H(p[d])[p[d]]
      <4>1. p[d] \in D /\ p[d] \in Up(n) /\ Sol(H(p[d]), p[d])
        BY <1>1, <3>2, <3>4
      <4>2. CASE p[d] \in B
        BY <1>4, <4>1, <4>2
      <4>3. CASE p[d] \notin B
        BY <1>5, <3>2, <4>1, <4>3
      <4> QED
        BY <4>2, <4>3
    <3>5. \A d \in Up(n) : g[d] = Value(d)
      OBVIOUS
    <3>6. g \in [Up(n) -> X]
      <4> HIDE DEF Value
      <4> QED
        BY <3>3
    <3>7. ASSUME NEW d \in Up(n)
          PROVE  g[d] = IF d \in B THEN init[d] ELSE F[<<d, g[p[d]]>>]
      <4>1. CASE d \in B
        BY <4>1
      <4>2. CASE d \notin B
        <5>1. p[d] \in Up(n)
          BY <3>2, <4>2
        <5>2. Value(p[d]) = H(p[d])[p[d]]
          BY <3>4, <4>2
        <5>3. g[p[d]] = Value(p[d])
          BY <5>1
        <5> HIDE DEF g
        <5> QED
          BY <3>5, <4>2, <5>2, <5>3
      <4> QED
        BY <4>1, <4>2
    <3> HIDE DEF g
    <3>8. Sol(g, n)
      BY <3>6, <3>7 DEF Sol
    <3> QED
      BY <3>8
  <2> HIDE DEF S
  <2>2. D \subseteq S
    BY <2>1, Induction
  <2> QED
    BY <2>2 DEF S
<1>7. \A n \in D : Sol(H(n), n)
  BY <1>2, <1>6
<1> DEFINE g == [d \in D |-> H(d)[d]]
<1>8. g \in [D -> X]
  BY <1>4, <1>7
<1>9. ASSUME NEW d \in D
      PROVE  g[d] = IF d \in B THEN init[d] ELSE F[<<d, g[p[d]]>>]
  <2>1. CASE d \in B
    BY <1>4, <1>7, <2>1
  <2>2. CASE d \notin B
    BY <1>1, <1>5, <1>7, <2>2
  <2> QED
    BY <2>1, <2>2
<1> HIDE DEF g
<1>10. Solves(g, X, D, B, p, init, F)
  BY <1>0, <1>8, <1>9 DEF Solves
<1> QED
  BY <1>10

\* The same for a function that counts up from lo.
Counts(X, lo, hi, a, F) ==
    /\ lo \in Nat /\ hi \in Nat /\ lo <= hi
    /\ a \in X /\ F \in [(lo + 1 .. hi) \X X -> X]

CountsTo(g, X, lo, hi, a, F) ==
    /\ g \in [lo .. hi -> X]
    /\ g[lo] = a
    /\ \A n \in lo + 1 .. hi : g[n] = F[<<n, g[n - 1]>>]

LEMMA Iteration ==
    ASSUME NEW X, NEW lo, NEW hi, NEW a, NEW F, Counts(X, lo, hi, a, F)
    PROVE  \E g : CountsTo(g, X, lo, hi, a, F)
<1>0. /\ lo \in Nat /\ hi \in Nat /\ lo <= hi
      /\ a \in X /\ F \in [(lo + 1 .. hi) \X X -> X]
  BY DEF Counts
<1> USE <1>0
<1> DEFINE D    == lo .. hi
           B    == {lo}
           p    == [d \in D \ B |-> d - 1]
           init == [d \in B |-> a]
<1>1. D \in SUBSET Nat /\ B \in SUBSET D /\ D \ B = lo + 1 .. hi
  OBVIOUS
<1>2. p \in [D \ B -> D] /\ init \in [B -> X] /\ \A d \in D \ B : p[d] < d
  OBVIOUS
<1>3. F \in [(D \ B) \X X -> X]
  BY <1>1
<1>4. PICK g : Solves(g, X, D, B, p, init, F)
  <2> HIDE DEF D, B, p, init
  <2>1. Recurs(X, D, B, p, init, F)
    BY <1>1, <1>2, <1>3 DEF Recurs
  <2> QED
    BY <2>1, Recursion
<1>5. g \in [lo .. hi -> X]
  BY <1>4 DEF Solves
<1>6. g[lo] = a
  BY <1>4 DEF Solves
<1>7. ASSUME NEW n \in lo + 1 .. hi
      PROVE  g[n] = F[<<n, g[n - 1]>>]
  <2>1. n \in D \ B /\ p[n] = n - 1
    OBVIOUS
  <2> HIDE DEF p, init
  <2> QED
    BY <1>4, <2>1 DEF Solves
<1> QED
  BY <1>5, <1>6, <1>7 DEF CountsTo

-----------------------------------------------------------------------------
(* Numbers.                                                                 *)

LEMMA Division ==
    ASSUME NEW a \in Nat, NEW r \in Nat \ {0}
    PROVE  /\ a = (a \div r) * r + (a % r)
           /\ a \div r \in Nat /\ a % r \in 0 .. r - 1
<1>1. r \in Nat /\ r > 0
  OBVIOUS
<1>2. a = (a \div r) * r + (a % r)
  BY <1>1
<1>3. a \div r \in Nat
  BY <1>1
<1>4. a % r \in 0 .. r - 1
  BY <1>1
<1> QED
  BY <1>2, <1>3, <1>4

\* A quotient is smaller.
LEMMA Smaller ==
    ASSUME NEW a \in Nat, NEW r \in Nat, r >= 2, a >= r
    PROVE  a \div r < a /\ a \div r >= 1
<1> DEFINE q == a \div r
           m == a % r
<1>1. a = q * r + m /\ q \in Nat /\ m \in 0 .. r - 1
  <2>1. r \in Nat \ {0}
    OBVIOUS
  <2> QED
    BY <2>1, Division
<1> HIDE DEF q, m
<1>2. q # 0
  BY <1>1
<1>3. q * r >= q * 2
  BY <1>1
<1> QED
  BY <1>1, <1>2, <1>3 DEF q, m

\* The quotient and the remainder are the only such numbers.
LEMMA DivisionIs ==
    ASSUME NEW q \in Nat, NEW r \in Nat \ {0}, NEW m \in 0 .. r - 1
    PROVE  (q * r + m) \div r = q /\ (q * r + m) % r = m
  OBVIOUS

LEMMA Product ==
    ASSUME NEW a \in Nat, NEW b \in Nat, NEW c \in Nat
    PROVE  /\ a * b \in Nat
           /\ a <= b => a * c <= b * c
           /\ a < b => a * c + c <= b * c
           /\ a * (b * c) = (a * b) * c
  OBVIOUS

LEMMA PowerStep ==
    /\ Power[0] = 1
    /\ \A n \in Nat : Power[n] \in Nat \ {0}
    /\ \A n \in Nat : Power[n + 1] = 2 * Power[n]
<1> DEFINE Eq(g) == g = [n \in Nat |-> IF n = 0 THEN 1 ELSE 2 * g[n - 1]]
           X     == Nat \ {0}
           B     == {0}
           p     == [d \in Nat \ B |-> d - 1]
           init  == [d \in B |-> 1]
           F     == [x \in (Nat \ B) \X X |-> 2 * x[2]]
<1>1. PICK g : Solves(g, X, Nat, B, p, init, F)
  <2>1. Recurs(X, Nat, B, p, init, F)
    BY DEF Recurs
  <2> HIDE DEF X, B, p, init, F
  <2> QED
    BY <2>1, Recursion
<1>2. \A n \in Nat : g[n] = IF n = 0 THEN 1 ELSE 2 * g[n - 1]
  <2> TAKE n \in Nat
  <2>1. CASE n = 0
    BY <1>1, <2>1 DEF Solves
  <2>2. CASE n # 0
    <3>1. n \in Nat \ B /\ p[n] = n - 1 /\ n - 1 \in Nat
      BY <2>2
    <3>2. g[n] = F[<<n, g[n - 1]>>] /\ g[n - 1] \in X
      BY <1>1, <3>1 DEF Solves
    <3>3. \A x \in X : F[<<n, x>>] = 2 * x
      BY <3>1
    <3> HIDE DEF F, X
    <3> QED
      BY <2>2, <3>2, <3>3
  <2> QED
    BY <2>1, <2>2
<1>3. Eq(g)
  <2>1. g \in [Nat -> X]
    BY <1>1 DEF Solves
  <2> QED
    BY <1>2, <2>1
<1>4. Power = CHOOSE f : Eq(f)
  BY DEF Power
<1>5. Eq(Power)
  <2> HIDE DEF Eq
  <2> QED
    BY <1>3, <1>4
<1>6. \A n \in Nat : Power[n] = IF n = 0 THEN 1 ELSE 2 * Power[n - 1]
  BY <1>5
<1>7. Nat \subseteq {n \in Nat : Power[n] \in Nat \ {0}}
  <2> DEFINE S == {n \in Nat : Power[n] \in Nat \ {0}}
  <2>1. ASSUME NEW n \in Nat, \A m \in Nat : m < n => m \in S
        PROVE  n \in S
    <3>1. CASE n = 0
      BY <1>6, <3>1
    <3>2. CASE n # 0
      <4>1. n - 1 \in Nat /\ n - 1 < n
        BY <3>2
      <4>2. Power[n - 1] \in Nat \ {0}
        BY <2>1, <4>1
      <4> QED
        BY <1>6, <3>2, <4>2
    <3> QED
      BY <3>1, <3>2
  <2> HIDE DEF S
  <2>2. Nat \subseteq S
    BY <2>1, Induction
  <2> QED
    BY <2>2 DEF S
<1>8. ASSUME NEW n \in Nat
      PROVE  Power[n + 1] = 2 * Power[n]
  <2>1. n + 1 \in Nat /\ n + 1 # 0 /\ (n + 1) - 1 = n
    OBVIOUS
  <2> QED
    BY <1>6, <2>1
<1> QED
  BY <1>6, <1>7, <1>8

LEMMA PowerPlus ==
    ASSUME NEW a \in Nat
    PROVE  \A b \in Nat : Power[a + b] = Power[a] * Power[b]
<1> DEFINE S == {b \in Nat : Power[a + b] = Power[a] * Power[b]}
<1>1. ASSUME NEW b \in Nat, \A m \in Nat : m < b => m \in S
      PROVE  b \in S
  <2>1. CASE b = 0
    BY <2>1, PowerStep
  <2>2. CASE b # 0
    <3> DEFINE c == b - 1
    <3>1. c \in Nat /\ c < b /\ b = c + 1 /\ a + b = (a + c) + 1 /\ a + c \in Nat
      BY <2>2
    <3>2. Power[a + c] = Power[a] * Power[c]
      BY <1>1, <3>1
    <3>3. Power[b] = 2 * Power[c] /\ Power[a + b] = 2 * Power[a + c]
      <4> HIDE DEF c
      <4> QED
        BY <3>1, PowerStep
    <3>4. Power[a] \in Nat /\ Power[c] \in Nat
      BY <3>1, PowerStep
    <3>5. \A x, y \in Nat : 2 * (x * y) = x * (2 * y)
      OBVIOUS
    <3> QED
      BY <3>2, <3>3, <3>4, <3>5
  <2> QED
    BY <2>1, <2>2
<1> HIDE DEF S
<1>2. Nat \subseteq S
  BY <1>1, Induction
<1> QED
  BY <1>2 DEF S

LEMMA PowerGrows ==
    ASSUME NEW a \in Nat, NEW b \in Nat, a <= b
    PROVE  Power[a] <= Power[b]
<1>1. b - a \in Nat /\ b = a + (b - a)
  OBVIOUS
<1>2. Power[b] = Power[a] * Power[b - a]
  BY <1>1, PowerPlus
<1>3. Power[a] \in Nat /\ Power[b - a] \in Nat \ {0}
  BY <1>1, PowerStep
<1>4. \A x \in Nat : \A y \in Nat \ {0} : x <= x * y
  OBVIOUS
<1> QED
  BY <1>2, <1>3, <1>4

-----------------------------------------------------------------------------
(* Bytes and words.                                                         *)

LEMMA RadixIs == Radix \in Nat /\ Radix \in Nat \ {0} /\ Radix >= 2
<1>1. GroupBits \in Nat /\ 1 <= GroupBits
  BY WidthAssumption
<1>2. Power[1] = 2
  BY PowerStep
<1>3. Power[GroupBits] \in Nat /\ Power[1] <= Power[GroupBits]
  BY <1>1, PowerStep, PowerGrows
<1> QED
  BY <1>2, <1>3 DEF Radix

LEMMA WordIs == Power[WordBits] \in Nat \ {0} /\ Word \subseteq Nat
<1>1. WordBits \in Nat
  BY WidthAssumption
<1> QED
  BY <1>1, PowerStep DEF Word

LEMMA OctetIs == Octet \subseteq Nat /\ \A x \in 0 .. Radix - 1 : x \in Octet /\ x + Radix \in Octet
  BY RadixIs DEF Octet

LEMMA ByteIs ==
    ASSUME NEW data \in Seq(Octet), NEW n \in 1 .. Len(data)
    PROVE  data[n] \in Octet /\ data[n] \in Nat /\ data[n] % Radix \in 0 .. Radix - 1
<1>1. data[n] \in Octet
  OBVIOUS
<1>2. data[n] \in Nat /\ Radix \in Nat \ {0}
  BY <1>1, OctetIs, RadixIs
<1> QED
  BY <1>1, <1>2, Division

\* The groups of n bytes.
LEMMA Weight ==
    ASSUME NEW n \in Nat
    PROVE  /\ Power[GroupBits * n] \in Nat \ {0}
           /\ Power[GroupBits * 0] = 1
           /\ Power[GroupBits * (n + 1)] = Power[GroupBits * n] * Radix
           /\ n # 0 => Power[GroupBits * n] = Power[GroupBits * (n - 1)] * Radix
<1>1. GroupBits \in Nat /\ GroupBits * n \in Nat /\ GroupBits * 0 = 0
  BY WidthAssumption, Product
<1>2. ASSUME NEW m \in Nat
      PROVE  Power[GroupBits * (m + 1)] = Power[GroupBits * m] * Radix
  <2>1. GroupBits * m \in Nat /\ GroupBits * (m + 1) = GroupBits * m + GroupBits
    BY <1>1
  <2> QED
    BY <1>1, <2>1, PowerPlus DEF Radix
<1>3. ASSUME n # 0
      PROVE  Power[GroupBits * n] = Power[GroupBits * (n - 1)] * Radix
  <2>1. n - 1 \in Nat /\ (n - 1) + 1 = n
    BY <1>3
  <2> QED
    BY <1>2, <2>1
<1> QED
  BY <1>1, <1>2, <1>3, PowerStep

\* The last byte of the longest word, and what it may hold.
LEMMA LastGroupIs ==
    /\ LastGroup \in Nat /\ LastMax \in Nat /\ LastMax < Radix
    /\ Power[WordBits] = Power[GroupBits * LastGroup] * (LastMax + 1)
    /\ Power[WordBits] <= Power[GroupBits * (LastGroup + 1)]
<1> DEFINE used == GroupBits * LastGroup
<1>1. GroupBits \in Nat \ {0} /\ WordBits \in Nat /\ WordBits - 1 \in Nat
  BY WidthAssumption
<1>2. /\ LastGroup \in Nat
      /\ WordBits - 1 = LastGroup * GroupBits + ((WordBits - 1) % GroupBits)
      /\ (WordBits - 1) % GroupBits \in 0 .. GroupBits - 1
  BY <1>1, Division DEF LastGroup
<1>3. used = LastGroup * GroupBits
  BY <1>1, <1>2
<1>4. used \in Nat /\ used <= WordBits - 1 /\ WordBits <= used + GroupBits
  <2> HIDE DEF used
  <2> QED
    BY <1>1, <1>2, <1>3
<1>5. GroupBits * (LastGroup + 1) = used + GroupBits
  BY <1>1, <1>2
<1> HIDE DEF used
<1>6. WordBits - used \in Nat /\ used + (WordBits - used) = WordBits /\ WordBits - used <= GroupBits
  BY <1>1, <1>4
<1>7. Power[WordBits] = Power[used] * Power[WordBits - used]
  BY <1>4, <1>6, PowerPlus
<1>8. LastMax + 1 = Power[WordBits - used] /\ LastMax \in Nat
  BY <1>6, PowerStep DEF LastMax, used
<1>9. Power[WordBits - used] <= Radix
  BY <1>1, <1>6, PowerGrows DEF Radix
<1>10. Power[WordBits] <= Power[GroupBits * (LastGroup + 1)]
  BY <1>1, <1>4, <1>5, PowerGrows
<1>11. LastMax < Radix
  BY <1>8, <1>9, RadixIs
<1> QED
  BY <1>2, <1>7, <1>8, <1>10, <1>11 DEF used

-----------------------------------------------------------------------------
(* Varints as they are written.                                             *)

LEMMA AppendUvarintStep ==
    ASSUME NEW v \in Word
    PROVE  /\ AppendUvarint[v] \in Seq(Octet)
           /\ v < Radix => AppendUvarint[v] = <<v>>
           /\ v >= Radix =>
                /\ v \div Radix \in Word /\ v \div Radix < v /\ v \div Radix # 0
                /\ AppendUvarint[v] = <<(v % Radix) + Radix>> \o AppendUvarint[v \div Radix]
<1> DEFINE B    == {w \in Word : w < Radix}
           X    == Seq(Octet)
           p    == [w \in Word \ B |-> w \div Radix]
           init == [w \in B |-> <<w>>]
           F    == [x \in (Word \ B) \X X |-> <<(x[1] % Radix) + Radix>> \o x[2]]
           Eq(g) == g = [w \in Word |->
                           IF w < Radix THEN <<w>>
                           ELSE <<(w % Radix) + Radix>> \o g[w \div Radix]]
<1>1. \A w \in Word : w \in Nat /\ (w >= Radix => w \div Radix \in Word /\ w \div Radix < w
                                                  /\ w \div Radix # 0)
  <2> TAKE w \in Word
  <2>1. w \in Nat /\ w < Power[WordBits] /\ Power[WordBits] \in Nat
    BY WordIs DEF Word
  <2>2. ASSUME w >= Radix
        PROVE  w \div Radix < w /\ w \div Radix >= 1 /\ w \div Radix \in Nat
    <3>1. Radix \in Nat /\ Radix >= 2 /\ Radix \in Nat \ {0}
      BY RadixIs
    <3> QED
      BY <2>1, <2>2, <3>1, Smaller, Division
  <2>3. ASSUME w >= Radix
        PROVE  w \div Radix \in Word
    <3> DEFINE q == w \div Radix
    <3>1. q < w /\ q \in Nat
      BY <2>2, <2>3
    <3> HIDE DEF q
    <3>2. q \in Word
      BY <2>1, <3>1 DEF Word
    <3> QED
      BY <3>2 DEF q
  <2> QED
    BY <2>1, <2>2, <2>3
<1>2. \A w \in Word : (w % Radix) + Radix \in Octet /\ (w < Radix => w \in Octet)
  <2> TAKE w \in Word
  <2>1. w \in Nat /\ Radix \in Nat \ {0}
    BY <1>1, RadixIs
  <2>2. w % Radix \in 0 .. Radix - 1
    BY <2>1, Division
  <2>3. w < Radix => w \in 0 .. Radix - 1
    BY <2>1
  <2> QED
    BY <2>2, <2>3, OctetIs
<1>3. PICK g : Solves(g, X, Word, B, p, init, F)
  <2>1. B \in SUBSET Word /\ Word \in SUBSET Nat
    BY WordIs
  <2>2. \A w \in Word \ B : w >= Radix
    BY <1>1, RadixIs
  <2>3. p \in [Word \ B -> Word] /\ \A w \in Word \ B : p[w] < w
    BY <1>1, <2>2
  <2>4. init \in [B -> X]
    BY <1>2
  <2>5. F \in [(Word \ B) \X X -> X]
    <3>1. \A x \in (Word \ B) \X X : <<(x[1] % Radix) + Radix>> \o x[2] \in X
      <4> TAKE x \in (Word \ B) \X X
      <4>1. x[1] \in Word /\ x[2] \in Seq(Octet)
        OBVIOUS
      <4>2. (x[1] % Radix) + Radix \in Octet
        BY <1>2, <4>1
      <4> QED
        BY <4>1, <4>2
    <3> QED
      BY <3>1
  <2>6. Recurs(X, Word, B, p, init, F)
    <3> HIDE DEF X, B, p, init, F
    <3> QED
      BY <2>1, <2>3, <2>4, <2>5 DEF Recurs
  <2> HIDE DEF X, B, p, init, F
  <2> QED
    BY <2>6, Recursion
<1>4. g \in [Word -> X]
  BY <1>3 DEF Solves
<1>5. \A w \in Word : g[w] = IF w < Radix THEN <<w>>
                              ELSE <<(w % Radix) + Radix>> \o g[w \div Radix]
  <2> TAKE w \in Word
  <2>1. CASE w < Radix
    BY <1>3, <2>1 DEF Solves
  <2>2. CASE ~(w < Radix)
    <3>1. w \in Word \ B /\ p[w] = w \div Radix /\ w >= Radix
      BY <1>1, <2>2, RadixIs
    <3>2. g[w] = F[<<w, g[p[w]]>>]
      <4> HIDE DEF X, B, p, init, F
      <4> QED
        BY <1>3, <3>1 DEF Solves
    <3>3. g[w \div Radix] \in X
      BY <1>1, <1>4, <3>1
    <3>4. \A x \in X : F[<<w, x>>] = <<(w % Radix) + Radix>> \o x
      BY <3>1
    <3> HIDE DEF X, B, p, init, F
    <3> QED
      BY <2>2, <3>1, <3>2, <3>3, <3>4
  <2> QED
    BY <2>1, <2>2
<1>6. Eq(g)
  BY <1>4, <1>5
<1>7. AppendUvarint = CHOOSE f : Eq(f)
  BY DEF AppendUvarint
<1>8. Eq(AppendUvarint)
  <2> HIDE DEF Eq
  <2> QED
    BY <1>6, <1>7
<1>9. \A w \in Word : AppendUvarint[w] = IF w < Radix THEN <<w>>
                                          ELSE <<(w % Radix) + Radix>> \o AppendUvarint[w \div Radix]
  BY <1>8
<1>10. Word \subseteq {w \in Word : AppendUvarint[w] \in Seq(Octet)}
  <2> DEFINE S == {w \in Word : AppendUvarint[w] \in Seq(Octet)}
  <2>1. ASSUME NEW w \in Word, \A m \in Word : m < w => m \in S
        PROVE  w \in S
    <3>1. CASE w < Radix
      <4>1. AppendUvarint[w] = <<w>>
        BY <1>9, <3>1
      <4>2. <<w>> \in Seq(Octet)
        BY <1>2, <3>1
      <4> QED
        BY <4>1, <4>2
    <3>2. CASE ~(w < Radix)
      <4>1. w >= Radix
        BY <1>1, <3>2, RadixIs
      <4>2. w \div Radix \in S
        BY <1>1, <2>1, <4>1
      <4>3. (w % Radix) + Radix \in Octet /\ AppendUvarint[w \div Radix] \in Seq(Octet)
        BY <1>2, <4>2
      <4>4. AppendUvarint[w] = <<(w % Radix) + Radix>> \o AppendUvarint[w \div Radix]
        BY <1>9, <3>2
      <4> DEFINE t == AppendUvarint[w \div Radix]
                 x == (w % Radix) + Radix
      <4>5. <<x>> \o t \in Seq(Octet)
        <5> HIDE DEF t, x
        <5>1. x \in Octet /\ t \in Seq(Octet)
          BY <4>3 DEF t, x
        <5> QED
          BY <5>1
      <4> QED
        BY <4>4, <4>5
    <3> QED
      BY <3>1, <3>2
  <2> HIDE DEF S
  <2>2. Word \subseteq S
    BY <2>1, Induction, WordIs
  <2> QED
    BY <2>2 DEF S
<1>11. v >= Radix => ~(v < Radix)
  BY <1>1, RadixIs
<1> QED
  BY <1>1, <1>9, <1>10, <1>11

-----------------------------------------------------------------------------
(* What bytes denote.                                                       *)

LEMMA DenotedStep ==
    ASSUME NEW data \in Seq(Octet)
    PROVE  /\ Denoted(data)[0] = 0
           /\ \A n \in 0 .. Len(data) : Denoted(data)[n] \in Nat
           /\ \A n \in 1 .. Len(data) :
                 Denoted(data)[n] = Denoted(data)[n - 1]
                                       + (data[n] % Radix) * Power[GroupBits * (n - 1)]
<1> DEFINE N        == Len(data)
           Group(n) == (data[n] % Radix) * Power[GroupBits * (n - 1)]
           F        == [x \in (0 + 1 .. N) \X Nat |-> x[2] + Group(x[1])]
           Eq(g)    == g = [n \in 0 .. N |-> IF n = 0 THEN 0
                              ELSE g[n - 1] + (data[n] % Radix) * Power[GroupBits * (n - 1)]]
<1>1. N \in Nat
  OBVIOUS
<1>2. \A n \in 1 .. N : Group(n) \in Nat
  <2> TAKE n \in 1 .. N
  <2>1. data[n] % Radix \in Nat /\ n - 1 \in Nat
    BY ByteIs, RadixIs
  <2>2. Power[GroupBits * (n - 1)] \in Nat
    BY <2>1, Weight
  <2> QED
    BY <2>1, <2>2, Product
<1>3. F \in [(0 + 1 .. N) \X Nat -> Nat]
  <2> HIDE DEF Group
  <2> QED
    BY <1>2
<1>4. PICK g : CountsTo(g, Nat, 0, N, 0, F)
  <2>1. Counts(Nat, 0, N, 0, F)
    <3> HIDE DEF F, N
    <3> QED
      BY <1>1, <1>3 DEF Counts
  <2> HIDE DEF F, N
  <2> QED
    BY <2>1, Iteration
<1>5. \A n \in 1 .. N : g[n] = g[n - 1] + Group(n)
  <2> TAKE n \in 1 .. N
  <2>1. n - 1 \in 0 .. N /\ n \in 0 + 1 .. N
    OBVIOUS
  <2>2. g[n - 1] \in Nat /\ g[n] = F[<<n, g[n - 1]>>]
    <3> HIDE DEF F, N
    <3> QED
      BY <1>4, <2>1 DEF CountsTo
  <2> HIDE DEF Group
  <2> QED
    BY <2>2
<1>6. Eq(g)
  <2>1. g \in [0 .. N -> Nat] /\ g[0] = 0
    <3> HIDE DEF F, N
    <3> QED
      BY <1>4 DEF CountsTo
  <2>2. \A n \in 0 .. N : g[n] = IF n = 0 THEN 0 ELSE g[n - 1] + Group(n)
    <3> HIDE DEF F, N, Group
    <3> QED
      BY <1>1, <1>5, <2>1
  <2>3. g = [n \in 0 .. N |-> g[n]]
    BY <2>1
  <2> QED
    BY <2>2, <2>3
<1>7. Denoted(data) = CHOOSE f : Eq(f)
  BY DEF Denoted
<1>8. Eq(Denoted(data))
  <2> HIDE DEF Eq
  <2> QED
    BY <1>6, <1>7
<1>9. \A n \in 0 .. N : Denoted(data)[n] = IF n = 0 THEN 0 ELSE Denoted(data)[n - 1] + Group(n)
  BY <1>8
<1>10. \A n \in 1 .. N : Denoted(data)[n] = Denoted(data)[n - 1] + Group(n)
  <2> HIDE DEF Group
  <2> QED
    BY <1>9
<1>11. \A n \in 0 .. N : Denoted(data)[n] \in Nat
  <2> DEFINE S == {n \in 0 .. N : Denoted(data)[n] \in Nat}
  <2>1. 0 \in S
    BY <1>9
  <2>2. ASSUME NEW n \in 0 .. N - 1, n \in S
        PROVE  n + 1 \in S
    <3>1. n + 1 \in 1 .. N /\ (n + 1) - 1 = n /\ n + 1 \in 0 .. N
      OBVIOUS
    <3>2. Denoted(data)[n + 1] = Denoted(data)[n] + Group(n + 1) /\ Group(n + 1) \in Nat
      <4> HIDE DEF Group
      <4> QED
        BY <1>2, <1>10, <3>1
    <3> HIDE DEF Group
    <3> QED
      BY <2>2, <3>1, <3>2
  <2> HIDE DEF S
  <2>3. \A n \in 0 .. N : n \in S
    BY <1>1, <2>1, <2>2, Counting
  <2> QED
    BY <2>3 DEF S
<1>12. Denoted(data)[0] = 0
  BY <1>1, <1>9
<1> HIDE DEF N
<1> QED
  BY <1>10, <1>11, <1>12 DEF N

\* n bytes denote less than n groups hold.
LEMMA DenotedBound ==
    ASSUME NEW data \in Seq(Octet)
    PROVE  \A n \in 0 .. Len(data) : Denoted(data)[n] < Power[GroupBits * n]
<1> DEFINE N == Len(data)
           S == {n \in 0 .. N : Denoted(data)[n] < Power[GroupBits * n]}
<1>1. 0 \in S
  BY DenotedStep, Weight
<1>2. ASSUME NEW n \in 0 .. N - 1, n \in S
      PROVE  n + 1 \in S
  <2> DEFINE w == Power[GroupBits * n]
             g == data[n + 1] % Radix
             d == Denoted(data)[n]
  <2>1. n + 1 \in 1 .. N /\ n \in 0 .. N /\ n \in Nat /\ (n + 1) - 1 = n
    OBVIOUS
  <2>2. d < w
    BY <1>2
  <2>3. g \in 0 .. Radix - 1 /\ Radix \in Nat
    BY <2>1, ByteIs, RadixIs
  <2>4. w \in Nat \ {0} /\ Power[GroupBits * (n + 1)] = w * Radix
    BY <2>1, Weight
  <2>5. d \in Nat /\ Denoted(data)[n + 1] = d + g * w
    BY <2>1, DenotedStep
  <2> HIDE DEF w, g, d
  <2>6. g * w + w <= Radix * w /\ Radix * w = w * Radix /\ g * w \in Nat /\ w * Radix \in Nat
    BY <2>3, <2>4, Product
  <2>7. Denoted(data)[n + 1] < Power[GroupBits * (n + 1)]
    BY <2>2, <2>3, <2>4, <2>5, <2>6
  <2> QED
    BY <2>7
<1> HIDE DEF S
<1>3. Len(data) \in Nat
  OBVIOUS
<1>4. \A n \in 0 .. N : n \in S
  BY <1>1, <1>2, <1>3, Counting
<1> QED
  BY <1>4 DEF S

\* When the byte that ends a number is the n-th, the number fits a word exactly
\* if the code accepts its place and its value.
LEMMA FitsWord ==
    ASSUME NEW data \in Seq(Octet), NEW n \in 1 .. Len(data), data[n] < Radix
    PROVE  /\ n <= LastGroup => Denoted(data)[n] \in Word
           /\ n = LastGroup + 1 => (Denoted(data)[n] \in Word <=> data[n] <= LastMax)
           /\ n > LastGroup + 1 /\ data[n] # 0 => Denoted(data)[n] \notin Word
<1> DEFINE d == Denoted(data)[n - 1]
           w == Power[GroupBits * (n - 1)]
           D == Denoted(data)[n]
           last == Power[GroupBits * LastGroup]
           top == Power[WordBits]
<1>1. n \in Nat /\ n - 1 \in Nat /\ n - 1 \in 0 .. Len(data) /\ n \in 0 .. Len(data)
  OBVIOUS
<1>2. data[n] \in Nat /\ data[n] % Radix = data[n] /\ Radix \in Nat \ {0}
  <2>1. data[n] \in Nat /\ Radix \in Nat /\ Radix > 0
    BY ByteIs, RadixIs
  <2> QED
    BY <2>1
<1>3. d \in Nat /\ D \in Nat /\ d < w /\ w \in Nat \ {0} /\ D = d + data[n] * w
  BY <1>1, <1>2, DenotedStep, DenotedBound, Weight
<1>4. /\ LastGroup \in Nat /\ LastMax \in Nat
      /\ last \in Nat \ {0} /\ top \in Nat
      /\ top = last * (LastMax + 1)
      /\ top <= Power[GroupBits * (LastGroup + 1)]
  BY LastGroupIs, Weight, WordIs
<1>5. D \in Word <=> D < top
  BY <1>3, <1>4 DEF Word
<1>6. \A a, b \in Nat : a <= b => Power[GroupBits * a] <= Power[GroupBits * b]
  <2> TAKE a, b \in Nat
  <2>1. GroupBits \in Nat
    BY WidthAssumption
  <2>2. a <= b => GroupBits * a \in Nat /\ GroupBits * b \in Nat /\ GroupBits * a <= GroupBits * b
    BY <2>1
  <2> QED
    BY <2>2, PowerGrows
<1>7. ASSUME n <= LastGroup
      PROVE  D < top
  <2>1. D < Power[GroupBits * n]
    BY <1>1, DenotedBound
  <2>2. Power[GroupBits * n] <= last /\ Power[GroupBits * n] \in Nat
    BY <1>1, <1>4, <1>6, <1>7, Weight
  <2>3. last <= last * (LastMax + 1)
    BY <1>4
  <2> HIDE DEF D, last, top
  <2> QED
    BY <1>3, <1>4, <2>1, <2>2, <2>3 DEF D
<1>8. ASSUME n = LastGroup + 1
      PROVE  D < top <=> data[n] <= LastMax
  <2>1. w = last
    BY <1>4, <1>8
  <2> DEFINE x == data[n]
  <2>2. D = d + x * w /\ top = w * (LastMax + 1) /\ x \in Nat
    BY <1>2, <1>3, <1>4, <2>1
  <2> HIDE DEF D, d, w, x, top, last
  <2>3. x <= LastMax => x * w + w <= (LastMax + 1) * w
    BY <1>3, <1>4, <2>2, Product
  <2>4. x > LastMax => (LastMax + 1) * w <= x * w
    BY <1>3, <1>4, <2>2, Product
  <2>5. (LastMax + 1) * w = w * (LastMax + 1) /\ x * w \in Nat /\ w * (LastMax + 1) \in Nat
    BY <1>3, <1>4, <2>2
  <2>6. D < top <=> x <= LastMax
    BY <1>3, <1>4, <2>2, <2>3, <2>4, <2>5
  <2> QED
    BY <2>6 DEF x
<1>9. ASSUME n > LastGroup + 1, data[n] # 0
      PROVE  ~(D < top)
  <2>1. LastGroup + 1 \in Nat /\ LastGroup + 1 <= n - 1
    BY <1>1, <1>4, <1>9
  <2>2. top <= w
    <3>1. Power[GroupBits * (LastGroup + 1)] \in Nat
      BY <2>1, Weight
    <3> HIDE DEF top, w
    <3>2. Power[GroupBits * (LastGroup + 1)] <= w
      BY <1>1, <1>6, <2>1 DEF w
    <3> QED
      BY <1>3, <1>4, <3>1, <3>2
  <2> DEFINE x == data[n]
  <2>3. D = d + x * w /\ x \in Nat \ {0}
    BY <1>2, <1>3, <1>9
  <2> HIDE DEF D, d, w, x, top, last
  <2>4. w <= x * w /\ x * w \in Nat
    BY <1>3, <2>3
  <2> QED
    BY <1>3, <1>4, <2>2, <2>3, <2>4
<1> QED
  BY <1>5, <1>7, <1>8, <1>9

\* A group in front moves the others up.
LEMMA DenotedShift ==
    ASSUME NEW data \in Seq(Octet), NEW b \in Octet
    PROVE  \A n \in 0 .. Len(data) :
              Denoted(<<b>> \o data)[n + 1] = (b % Radix) + Denoted(data)[n] * Radix
<1> DEFINE N == Len(data)
           s == <<b>> \o data
           S == {n \in 0 .. N : Denoted(s)[n + 1] = (b % Radix) + Denoted(data)[n] * Radix}
<1>1. s \in Seq(Octet) /\ Len(s) = N + 1 /\ s[1] = b /\ \A n \in 1 .. N : s[n + 1] = data[n]
  OBVIOUS
<1>2. Radix \in Nat \ {0} /\ b \in Nat /\ b % Radix \in Nat
  BY RadixIs, OctetIs, Division
<1> HIDE DEF s
<1>3. 0 \in S
  <2>1. 1 \in 1 .. Len(s) /\ 1 - 1 = 0 /\ 0 \in 0 .. N
    BY <1>1
  <2>2. Denoted(s)[1] = 0 + (b % Radix) * Power[GroupBits * 0]
    BY <1>1, <2>1, DenotedStep
  <2>3. Power[GroupBits * 0] = 1 /\ Denoted(data)[0] = 0
    BY Weight, DenotedStep
  <2>4. Denoted(s)[0 + 1] = (b % Radix) + Denoted(data)[0] * Radix
    BY <1>2, <2>2, <2>3
  <2> QED
    BY <2>1, <2>4
<1>4. ASSUME NEW n \in 0 .. N - 1, n \in S
      PROVE  n + 1 \in S
  <2> DEFINE x == data[n + 1] % Radix
             w == Power[GroupBits * n]
             y == b % Radix
             e == Denoted(data)[n]
  <2>1. n + 1 \in 1 .. N /\ n \in 0 .. N /\ n \in Nat /\ n + 1 \in Nat
        /\ (n + 1) + 1 \in 1 .. Len(s) /\ ((n + 1) + 1) - 1 = n + 1 /\ (n + 1) - 1 = n
    BY <1>1
  <2>2. Denoted(s)[n + 1] = y + e * Radix
    BY <1>4
  <2>3. s[(n + 1) + 1] = data[n + 1] /\ x \in Nat
    BY <1>1, <1>2, <2>1, ByteIs
  <2>4. Denoted(s)[(n + 1) + 1] = Denoted(s)[n + 1] + x * Power[GroupBits * (n + 1)]
    BY <1>1, <2>1, <2>3, DenotedStep
  <2>5. Denoted(data)[n + 1] = e + x * w /\ e \in Nat
    BY <2>1, DenotedStep
  <2>6. w \in Nat /\ Power[GroupBits * (n + 1)] = w * Radix
    BY <2>1, Weight
  <2> HIDE DEF x, w, e
  <2>7. (y + e * Radix) + x * (w * Radix) = y + (e + x * w) * Radix
    BY <1>2, <2>3, <2>5, <2>6
  <2>8. Denoted(s)[(n + 1) + 1] = y + Denoted(data)[n + 1] * Radix
    BY <2>2, <2>4, <2>5, <2>6, <2>7
  <2> QED
    BY <2>1, <2>8
<1> HIDE DEF S
<1>5. \A n \in 0 .. N : n \in S
  <2>1. Len(data) \in Nat
    OBVIOUS
  <2> QED
    BY <1>3, <1>4, <2>1, Counting
<1> QED
  BY <1>5 DEF S, s

-----------------------------------------------------------------------------
(* read_uvarint.                                                            *)

EndsAt(data, n) ==
    /\ n \in 1 .. Len(data)
    /\ data[n] < Radix
    /\ \A i \in 1 .. n - 1 : data[i] >= Radix

\* The number at the front of data is the one that the first byte below the radix
\* ends, if there is one.
LEMMA FirstEnd ==
    ASSUME NEW data \in Seq(Octet), NEW n, EndsAt(data, n)
    PROVE  /\ (CHOOSE i \in {k \in DOMAIN data : data[k] < Radix} :
                  \A j \in {k \in DOMAIN data : data[k] < Radix} : i <= j) = n
           /\ {i \in DOMAIN data : data[i] < Radix} # {}
<1> DEFINE ends == {i \in DOMAIN data : data[i] < Radix}
           m    == CHOOSE i \in ends : \A j \in ends : i <= j
<1>1. n \in 1 .. Len(data) /\ data[n] < Radix /\ \A i \in 1 .. n - 1 : data[i] >= Radix
  BY DEF EndsAt
<1>2. n \in ends /\ n \in Nat
  BY <1>1
<1>3. ASSUME NEW j \in ends
      PROVE  n <= j /\ j \in Nat
  <2>1. j \in 1 .. Len(data) /\ data[j] < Radix /\ data[j] \in Nat
    BY ByteIs
  <2>2. j \notin 1 .. n - 1
    BY <1>1, <2>1, RadixIs
  <2> QED
    BY <1>1, <2>1, <2>2
<1>4. m \in ends /\ \A j \in ends : m <= j
  <2> HIDE DEF ends
  <2> QED
    BY <1>2, <1>3
<1>5. m <= n /\ n <= m /\ m \in Nat
  BY <1>2, <1>3, <1>4
<1>6. m = n
  <2> HIDE DEF m
  <2> QED
    BY <1>2, <1>5
<1> QED
  BY <1>2, <1>6

LEMMA ContinuedIs ==
    ASSUME NEW data \in Seq(Octet)
    PROVE  /\ \A n : EndsAt(data, n) => Continued(data) = n - 1
           /\ (\A i \in 1 .. Len(data) : data[i] >= Radix) => Continued(data) = Len(data)
<1> DEFINE ends == {i \in DOMAIN data : data[i] < Radix}
<1>1. ASSUME \A i \in 1 .. Len(data) : data[i] >= Radix
      PROVE  Continued(data) = Len(data)
  <2>1. ends = {}
    <3>1. \A i \in DOMAIN data : data[i] \in Nat /\ data[i] >= Radix
      BY <1>1, ByteIs
    <3> QED
      BY <3>1, RadixIs
  <2> QED
    BY <2>1 DEF Continued
<1>2. ASSUME NEW n, EndsAt(data, n)
      PROVE  Continued(data) = n - 1
  BY <1>2, FirstEnd DEF Continued
<1> QED
  BY <1>1, <1>2

LEMMA SomeEnd ==
    ASSUME NEW data \in Seq(Octet)
    PROVE  (\A i \in 1 .. Len(data) : data[i] >= Radix) \/ \E n : EndsAt(data, n)
<1> DEFINE ends == {i \in 1 .. Len(data) : data[i] < Radix}
<1>1. CASE ends = {}
  <2>1. \A i \in 1 .. Len(data) : data[i] \in Nat /\ ~(data[i] < Radix)
    BY <1>1, ByteIs
  <2> QED
    BY <2>1, RadixIs
<1>2. CASE ends # {}
  <2>1. ends \in SUBSET Nat
    OBVIOUS
  <2>2. PICK n \in ends : \A j \in ends : n <= j
    <3> HIDE DEF ends
    <3> QED
      BY <1>2, <2>1, LeastNumber
  <2>3. ASSUME NEW i \in 1 .. n - 1
        PROVE  data[i] >= Radix
    <3>1. i \in 1 .. Len(data) /\ ~(n <= i)
      OBVIOUS
    <3>2. ~(data[i] < Radix) /\ data[i] \in Nat
      BY <2>2, <3>1, ByteIs
    <3> QED
      BY <3>2, RadixIs
  <2>4. n \in 1 .. Len(data) /\ data[n] < Radix
    OBVIOUS
  <2>5. EndsAt(data, n)
    BY <2>3, <2>4 DEF EndsAt
  <2> QED
    BY <2>5
<1> QED
  BY <1>1, <1>2

\* Whatever the bytes: a number is returned exactly if it ends within the bytes
\* of a word and fits a word.
LEMMA ReadUvarintEnds ==
    ASSUME NEW t \in Target, NEW data \in Seq(Octet), NEW n, EndsAt(data, n)
    PROVE  /\ n <= LastGroup + 1 /\ Denoted(data)[n] \in Word =>
                 ReadUvarint(t, data)
                    = [error |-> "none", used |-> n, value |-> Denoted(data)[n]]
           /\ ~(n <= LastGroup + 1 /\ Denoted(data)[n] \in Word) =>
                 \/ ReadUvarint(t, data) = Fail("Malformed")
                 \/ t.checked /\ ReadUvarint(t, data) = Fail("panic")
<1> DEFINE i == n - 1
<1>1. n \in 1 .. Len(data) /\ data[n] < Radix /\ n \in Nat /\ data[n] \in Nat
  <2>1. n \in 1 .. Len(data) /\ data[n] < Radix
    BY DEF EndsAt
  <2> QED
    BY <2>1, ByteIs
<1>2. i \in Nat /\ i # Len(data) /\ i + 1 = n
  BY <1>1
<1>3. ReadUvarint(t, data) = Ended(t, data, i)
  BY ContinuedIs DEF ReadUvarint
<1>4. LastGroup \in Nat /\ LastMax \in Nat
  BY LastGroupIs
<1> HIDE DEF i
<1>5. ASSUME n <= LastGroup + 1, Denoted(data)[n] \in Word
      PROVE  Ended(t, data, i)
                = [error |-> "none", used |-> n, value |-> Denoted(data)[n]]
  <2>1. ~(i > LastGroup + 1) /\ ~(i > LastGroup)
    BY <1>2, <1>4, <1>5
  <2>2. ~(i = LastGroup /\ data[i + 1] > LastMax)
    BY <1>1, <1>2, <1>4, <1>5, FitsWord
  <2>3. Ended(t, data, i) = Taken(data, n)
    BY <1>2, <2>1, <2>2 DEF Ended
  <2>4. Denoted(data)[n] % Power[WordBits] = Denoted(data)[n]
    <3> DEFINE d == Denoted(data)[n]
               p == Power[WordBits]
    <3>1. d \in Nat /\ p \in Nat /\ p > 0 /\ d < p
      BY <1>5, WordIs DEF Word
    <3> HIDE DEF d, p
    <3>2. d % p = d
      BY <3>1
    <3> QED
      BY <3>2 DEF d, p
  <2> QED
    BY <2>3, <2>4 DEF Taken
<1>6. ASSUME ~(n <= LastGroup + 1 /\ Denoted(data)[n] \in Word)
      PROVE  \/ Ended(t, data, i) = Fail("Malformed")
             \/ t.checked /\ Ended(t, data, i) = Fail("panic")
  <2>1. i > LastGroup \/ (i = LastGroup /\ data[i + 1] > LastMax)
    BY <1>1, <1>2, <1>4, <1>6, FitsWord
  <2> QED
    BY <1>2, <2>1 DEF Ended
<1> QED
  BY <1>3, <1>5, <1>6

LEMMA ReadUvarintEndless ==
    ASSUME NEW t \in Target, NEW data \in Seq(Octet),
           \A i \in 1 .. Len(data) : data[i] >= Radix
    PROVE  /\ \/ ReadUvarint(t, data) = Fail("Malformed")
              \/ t.checked /\ ReadUvarint(t, data) = Fail("panic")
           /\ Len(data) <= LastGroup + 1 => ReadUvarint(t, data) = Fail("Malformed")
<1>1. ReadUvarint(t, data) = Ended(t, data, Len(data))
  BY ContinuedIs DEF ReadUvarint
<1>2. Len(data) \in Nat /\ LastGroup \in Nat
  BY LastGroupIs
<1>3. Len(data) <= LastGroup + 1 => ~(Len(data) > LastGroup + 1)
  BY <1>2
<1> QED
  BY <1>1, <1>3 DEF Ended

\* What read_uvarint returns on any bytes.
LEMMA ReadUvarintReturns ==
    ASSUME NEW t \in Target, NEW data \in Seq(Octet)
    PROVE  \/ ReadUvarint(t, data) = Fail("Malformed")
           \/ t.checked /\ ReadUvarint(t, data) = Fail("panic")
           \/ \E n \in 1 .. Len(data) : \E v \in Word :
                 ReadUvarint(t, data) = [error |-> "none", used |-> n, value |-> v]
<1>1. CASE \E n : EndsAt(data, n)
  <2>1. PICK n : EndsAt(data, n)
    BY <1>1
  <2>2. n \in 1 .. Len(data)
    BY <2>1 DEF EndsAt
  <2> QED
    BY <2>1, <2>2, ReadUvarintEnds
<1>2. CASE \A i \in 1 .. Len(data) : data[i] >= Radix
  BY <1>2, ReadUvarintEndless
<1> QED
  BY <1>1, <1>2, SomeEnd


-----------------------------------------------------------------------------
(* Sequences put together and cut.                                          *)

LEMMA Joined ==
    ASSUME NEW X, NEW a \in Seq(X), NEW b \in Seq(X)
    PROVE  /\ a \o b \in Seq(X) /\ Len(a \o b) = Len(a) + Len(b)
           /\ Len(a) \in Nat /\ Len(b) \in Nat
           /\ \A i \in 1 .. Len(a) : (a \o b)[i] = a[i]
           /\ \A i \in 1 .. Len(b) : (a \o b)[Len(a) + i] = b[i]
  OBVIOUS

LEMMA Slice ==
    ASSUME NEW X, NEW s \in Seq(X), NEW m \in Nat, NEW n \in Nat, n <= Len(s)
    PROVE  /\ SubSeq(s, m + 1, n) \in Seq(X)
           /\ Len(SubSeq(s, m + 1, n)) = IF m <= n THEN n - m ELSE 0
           /\ \A i \in 1 .. n - m : SubSeq(s, m + 1, n)[i] = s[m + i]
  OBVIOUS

LEMMA Start ==
    ASSUME NEW X, NEW s \in Seq(X), NEW n \in Nat, n <= Len(s)
    PROVE  /\ SubSeq(s, 1, n) \in Seq(X)
           /\ Len(SubSeq(s, 1, n)) = n
           /\ \A i \in 1 .. n : SubSeq(s, 1, n)[i] = s[i]
  OBVIOUS

LEMMA SameSequence ==
    ASSUME NEW X, NEW a \in Seq(X), NEW b \in Seq(X), Len(a) = Len(b),
           \A i \in 1 .. Len(a) : a[i] = b[i]
    PROVE  a = b
  OBVIOUS

\* What stands behind and before the joint.
LEMMA JoinedParts ==
    ASSUME NEW X, NEW a \in Seq(X), NEW b \in Seq(X)
    PROVE  /\ SubSeq(a \o b, 1, Len(a)) = a
           /\ SubSeq(a \o b, Len(a) + 1, Len(a \o b)) = b
<1> DEFINE s == a \o b
           l == SubSeq(s, 1, Len(a))
           r == SubSeq(s, Len(a) + 1, Len(s))
<1>1. /\ s \in Seq(X) /\ Len(s) = Len(a) + Len(b) /\ Len(a) \in Nat /\ Len(b) \in Nat
      /\ \A i \in 1 .. Len(a) : s[i] = a[i]
      /\ \A i \in 1 .. Len(b) : s[Len(a) + i] = b[i]
  BY Joined
<1> HIDE DEF s
<1>2. l = a
  <2>1. /\ l \in Seq(X) /\ Len(l) = Len(a)
        /\ \A i \in 1 .. Len(a) : l[i] = s[i]
    BY <1>1, Start
  <2> HIDE DEF l
  <2>2. \A i \in 1 .. Len(l) : l[i] = a[i]
    BY <1>1, <2>1
  <2> QED
    BY <2>1, <2>2, SameSequence
<1>3. r = b
  <2>1. /\ r \in Seq(X) /\ Len(r) = Len(b)
        /\ \A i \in 1 .. Len(b) : r[i] = s[Len(a) + i]
    <3>1. Len(s) \in Nat /\ Len(s) - Len(a) = Len(b) /\ Len(a) <= Len(s)
      BY <1>1
    <3> QED
      BY <1>1, <3>1, Slice
  <2> HIDE DEF r
  <2>2. \A i \in 1 .. Len(r) : r[i] = b[i]
    BY <1>1, <2>1
  <2> QED
    BY <2>1, <2>2, SameSequence
<1> QED
  BY <1>2, <1>3 DEF s

\* What stands between two parts, and behind both.
LEMMA Middle ==
    ASSUME NEW X, NEW a \in Seq(X), NEW c \in Seq(X), NEW r \in Seq(X), NEW w, w = (a \o c) \o r
    PROVE  /\ w \in Seq(X) /\ Len(w) = Len(a) + Len(c) + Len(r)
           /\ SubSeq(w, Len(a) + 1, Len(a) + Len(c)) = c
           /\ SubSeq(w, Len(a) + Len(c) + 1, Len(w)) = r
<1> DEFINE n == Len(a)
           l == Len(c)
           b == a \o c
           q == SubSeq(w, n + 1, n + l)
<1>1. /\ b \in Seq(X) /\ Len(b) = n + l /\ n \in Nat /\ l \in Nat /\ Len(r) \in Nat
      /\ \A i \in 1 .. l : b[n + i] = c[i]
  BY Joined
<1> HIDE DEF b, n, l
<1>2. /\ w \in Seq(X) /\ Len(w) = n + l + Len(r)
      /\ \A i \in 1 .. n + l : w[i] = b[i]
  <2>1. w = b \o r
    BY DEF b
  <2>2. b \o r \in Seq(X) /\ Len(b \o r) = Len(b) + Len(r)
        /\ \A i \in 1 .. Len(b) : (b \o r)[i] = b[i]
    BY <1>1, Joined
  <2> QED
    BY <1>1, <2>1, <2>2
<1>3. SubSeq(w, n + l + 1, Len(w)) = r
  <2>1. w = b \o r
    BY DEF b
  <2>2. SubSeq(b \o r, Len(b) + 1, Len(b \o r)) = r
    BY <1>1, JoinedParts
  <2> QED
    BY <1>1, <2>1, <2>2
<1>4. /\ q \in Seq(X) /\ Len(q) = l
      /\ \A i \in 1 .. l : q[i] = w[n + i]
  <2>1. n + l \in Nat /\ n + l <= Len(w) /\ n <= n + l /\ (n + l) - n = l
    BY <1>1, <1>2
  <2> QED
    BY <1>1, <1>2, <2>1, Slice
<1>5. \A i \in 1 .. l : w[n + i] = c[i]
  <2>1. \A i \in 1 .. l : n + i \in 1 .. n + l
    BY <1>1
  <2> QED
    BY <1>1, <1>2, <2>1
<1> HIDE DEF q
<1>6. \A i \in 1 .. Len(q) : q[i] = c[i]
  BY <1>4, <1>5
<1>7. q = c
  BY <1>4, <1>6, SameSequence DEF l
<1> QED
  BY <1>2, <1>3, <1>7 DEF q, n, l

\* A cut falls within the first part or within the second.
LEMMA CutJoined ==
    ASSUME NEW X, NEW a \in Seq(X), NEW b \in Seq(X), NEW n \in 0 .. Len(a \o b)
    PROVE  /\ n <= Len(a) => SubSeq(a \o b, 1, n) = SubSeq(a, 1, n)
           /\ n >= Len(a) => SubSeq(a \o b, 1, n) = a \o SubSeq(b, 1, n - Len(a))
<1> DEFINE A == Len(a)
           B == Len(b)
           s == a \o b
           p == SubSeq(s, 1, n)
<1>1. /\ s \in Seq(X) /\ Len(s) = A + B /\ A \in Nat /\ B \in Nat
      /\ \A i \in 1 .. A : s[i] = a[i]
      /\ \A i \in 1 .. B : s[A + i] = b[i]
      /\ n \in Nat /\ n <= Len(s)
  BY Joined
<1> HIDE DEF s, A, B
<1>2. p \in Seq(X) /\ Len(p) = n /\ \A i \in 1 .. n : p[i] = s[i]
  BY <1>1, Start
<1> HIDE DEF p
<1>3. ASSUME n <= A
      PROVE  p = SubSeq(a, 1, n)
  <2> DEFINE q == SubSeq(a, 1, n)
  <2>1. q \in Seq(X) /\ Len(q) = n /\ \A i \in 1 .. n : q[i] = a[i]
    BY <1>1, <1>3, Start DEF A
  <2> HIDE DEF q
  <2>2. \A i \in 1 .. n : p[i] = q[i]
    BY <1>1, <1>2, <1>3, <2>1
  <2> QED
    BY <1>2, <2>1, <2>2, SameSequence
<1>4. ASSUME n >= A
      PROVE  p = a \o SubSeq(b, 1, n - A)
  <2> DEFINE m == n - A
             q == SubSeq(b, 1, m)
  <2>1. m \in Nat /\ m <= B /\ A + m = n
    BY <1>1, <1>4
  <2> HIDE DEF m
  <2>2. q \in Seq(X) /\ Len(q) = m /\ \A i \in 1 .. m : q[i] = b[i]
    BY <2>1, Start DEF B
  <2> HIDE DEF q
  <2>3. /\ a \o q \in Seq(X) /\ Len(a \o q) = n
        /\ \A i \in 1 .. A : (a \o q)[i] = a[i]
        /\ \A i \in 1 .. m : (a \o q)[A + i] = q[i]
    <3> DEFINE v == a \o q
    <3>1. q \in Seq(X) /\ A = Len(a)
      BY <2>2 DEF A
    <3>2. /\ v \in Seq(X) /\ Len(v) = A + Len(q)
          /\ \A i \in 1 .. A : v[i] = a[i]
          /\ \A i \in 1 .. Len(q) : v[A + i] = q[i]
      BY <3>1, Joined
    <3> HIDE DEF v
    <3>3. /\ v \in Seq(X) /\ Len(v) = n
          /\ \A i \in 1 .. A : v[i] = a[i]
          /\ \A i \in 1 .. m : v[A + i] = q[i]
      BY <2>1, <2>2, <3>2
    <3> QED
      BY <3>3 DEF v
  <2>4. ASSUME NEW i \in 1 .. n
        PROVE  p[i] = (a \o q)[i]
    <3>1. CASE i <= A
      <4>1. i \in 1 .. A
        BY <1>1, <3>1
      <4>2. p[i] = s[i] /\ s[i] = a[i]
        BY <1>1, <1>2, <4>1
      <4> QED
        BY <2>3, <4>1, <4>2
    <3>2. CASE i > A
      <4> DEFINE j == i - A
      <4>1. j \in 1 .. m /\ i = A + j /\ j \in 1 .. B
        BY <1>1, <2>1, <3>2
      <4> HIDE DEF j
      <4>2. p[i] = s[A + j] /\ s[A + j] = b[j]
        BY <1>1, <1>2, <4>1
      <4>3. q[j] = b[j] /\ (a \o q)[A + j] = q[j]
        BY <2>2, <2>3, <4>1
      <4> QED
        BY <4>1, <4>2, <4>3
    <3>3. i <= A \/ i > A
      BY <1>1
    <3> QED
      BY <3>1, <3>2, <3>3
  <2>5. p = a \o q
    BY <1>2, <2>3, <2>4, SameSequence
  <2> QED
    BY <2>5 DEF q, m
<1> QED
  BY <1>3, <1>4 DEF p, s, A

-----------------------------------------------------------------------------
(* Varints, read back.                                                      *)

LEMMA DenotedPrefix ==
    ASSUME NEW s \in Seq(Octet), NEW rest \in Seq(Octet)
    PROVE  \A n \in 0 .. Len(s) : Denoted(s \o rest)[n] = Denoted(s)[n]
<1> DEFINE data == s \o rest
           S    == {n \in 0 .. Len(s) : Denoted(data)[n] = Denoted(s)[n]}
<1>1. /\ data \in Seq(Octet) /\ Len(data) = Len(s) + Len(rest)
      /\ Len(s) \in Nat /\ Len(rest) \in Nat
      /\ \A n \in 1 .. Len(s) : data[n] = s[n]
  BY Joined
<1> HIDE DEF data
<1>2. 0 \in S
  BY <1>1, DenotedStep
<1>3. ASSUME NEW n \in 0 .. Len(s) - 1, n \in S
      PROVE  n + 1 \in S
  <2>1. n + 1 \in 1 .. Len(s) /\ n + 1 \in 1 .. Len(data) /\ (n + 1) - 1 = n
        /\ n + 1 \in 0 .. Len(s)
    BY <1>1
  <2>2. /\ Denoted(data)[n + 1] = Denoted(data)[n] + (data[n + 1] % Radix) * Power[GroupBits * n]
        /\ Denoted(s)[n + 1] = Denoted(s)[n] + (s[n + 1] % Radix) * Power[GroupBits * n]
    BY <1>1, <2>1, DenotedStep
  <2> QED
    BY <1>1, <1>3, <2>1, <2>2
<1> HIDE DEF S
<1>4. \A n \in 0 .. Len(s) : n \in S
  BY <1>1, <1>2, <1>3, Counting
<1> QED
  BY <1>4 DEF S, data

\* s is a number in its shortest form.
Writes(s, v) ==
    /\ s \in Seq(Octet) /\ Len(s) >= 1
    /\ EndsAt(s, Len(s))
    /\ Len(s) > 1 => s[Len(s)] # 0
    /\ Denoted(s)[Len(s)] = v

LEMMA UvarintWrites ==
    ASSUME NEW v \in Word
    PROVE  Writes(AppendUvarint[v], v)
<1> DEFINE S == {w \in Word : Writes(AppendUvarint[w], w)}
<1>1. ASSUME NEW w \in Word, \A m \in Word : m < w => m \in S
      PROVE  w \in S
  <2>1. w \in Nat /\ Radix \in Nat /\ Radix \in Nat \ {0} /\ Radix >= 2
    BY WordIs, RadixIs
  <2>2. CASE w < Radix
    <3> DEFINE s == <<w>>
    <3>1. s = AppendUvarint[w] /\ s \in Seq(Octet) /\ Len(s) = 1 /\ s[1] = w
      BY <2>2, AppendUvarintStep
    <3>2. w % Radix = w /\ Power[GroupBits * 0] = 1
      <4>1. w % Radix = w
        BY <2>1, <2>2
      <4> QED
        BY <4>1, Weight
    <3> HIDE DEF s
    <3>3. Denoted(s)[1] = Denoted(s)[1 - 1] + (s[1] % Radix) * Power[GroupBits * (1 - 1)]
      BY <3>1, DenotedStep
    <3>4. Denoted(s)[0] = 0 /\ 1 - 1 = 0
      BY <3>1, DenotedStep
    <3>5. Denoted(s)[1] = w
      BY <2>1, <3>1, <3>2, <3>3, <3>4
    <3>6. EndsAt(s, 1)
      BY <2>2, <3>1 DEF EndsAt
    <3>7. Writes(s, w)
      BY <3>1, <3>5, <3>6 DEF Writes
    <3> QED
      BY <3>1, <3>7
  <2>3. CASE ~(w < Radix)
    <3> DEFINE q == w \div Radix
               t == AppendUvarint[q]
               b == (w % Radix) + Radix
               s == <<b>> \o t
    <3>1. w >= Radix
      BY <2>1, <2>3
    <3>2. q \in Word /\ q < w /\ q # 0 /\ AppendUvarint[w] = s
      BY <3>1, AppendUvarintStep
    <3>3. w % Radix \in 0 .. Radix - 1 /\ w = q * Radix + (w % Radix)
      BY <2>1, Division
    <3>4. b \in Octet /\ b >= Radix /\ b % Radix = w % Radix /\ b \in Nat
      <4> DEFINE m == w % Radix
      <4>1. m \in 0 .. Radix - 1
        BY <3>3
      <4> HIDE DEF m
      <4>2. m + Radix \in Octet /\ m + Radix >= Radix /\ m + Radix \in Nat
        BY <2>1, <4>1, OctetIs
      <4>3. 1 * Radix + m = m + Radix /\ (1 * Radix + m) % Radix = m
        <5>1. 1 * Radix + m = m + Radix
          BY <2>1, <4>1
        <5> QED
          BY <2>1, <4>1, <5>1, DivisionIs
      <4> QED
        BY <4>2, <4>3 DEF m
    <3> HIDE DEF b
    <3>5. Writes(t, q)
      BY <1>1, <3>2
    <3> HIDE DEF q, t
    <3>6. /\ t \in Seq(Octet) /\ Len(t) >= 1 /\ Len(t) \in Nat
          /\ t[Len(t)] < Radix /\ \A i \in 1 .. Len(t) - 1 : t[i] >= Radix
          /\ Denoted(t)[Len(t)] = q
          /\ Len(t) > 1 => t[Len(t)] # 0
      BY <3>5 DEF Writes, EndsAt
    <3>7. /\ s \in Seq(Octet) /\ Len(s) = Len(t) + 1 /\ s[1] = b
          /\ \A i \in 1 .. Len(t) : s[i + 1] = t[i]
      BY <3>4, <3>6
    <3>8. Denoted(s)[Len(t) + 1] = w
      <4>1. Denoted(s)[Len(t) + 1] = (b % Radix) + Denoted(t)[Len(t)] * Radix
        BY <3>4, <3>6, DenotedShift
      <4>2. q \in Nat /\ b % Radix \in Nat
        BY <2>1, <3>2, <3>3, <3>4, WordIs
      <4> HIDE DEF s
      <4> QED
        BY <2>1, <3>3, <3>4, <3>6, <4>1, <4>2
    <3> HIDE DEF s
    <3>9. s[Len(s)] = t[Len(t)]
      BY <3>6, <3>7
    <3>10. t[Len(t)] # 0
      <4>1. CASE Len(t) # 1
        <5> DEFINE l == Len(t)
        <5>1. l >= 1 /\ l \in Nat /\ l # 1
          BY <3>6, <4>1
        <5> HIDE DEF l
        <5>2. l > 1
          BY <5>1
        <5> QED
          BY <3>6, <5>2 DEF l
      <4>2. CASE Len(t) = 1
        <5>1. Denoted(t)[1] = Denoted(t)[0] + (t[1] % Radix) * Power[GroupBits * (1 - 1)]
              /\ Denoted(t)[0] = 0
          BY <3>6, <4>2, DenotedStep
        <5>2. t[1] = 0 => t[1] % Radix = 0
          <6>1. 0 % Radix = 0
            BY <2>1
          <6> QED
            BY <6>1
        <5>3. 1 - 1 = 0 /\ Power[GroupBits * 0] = 1
          BY Weight
        <5> QED
          BY <3>2, <3>6, <4>2, <5>1, <5>2, <5>3
      <4> QED
        BY <4>1, <4>2
    <3>11. EndsAt(s, Len(s))
      <4>1. ASSUME NEW i \in 1 .. Len(s) - 1
            PROVE  s[i] >= Radix
        <5>1. CASE i = 1
          BY <3>4, <3>7, <5>1
        <5>2. CASE i # 1
          <6> DEFINE j == i - 1
          <6>1. j \in 1 .. Len(t) - 1 /\ i = j + 1 /\ j \in 1 .. Len(t)
            BY <3>6, <3>7, <5>2
          <6> HIDE DEF j
          <6> QED
            BY <3>6, <3>7, <6>1
        <5> QED
          BY <5>1, <5>2
      <4> QED
        BY <3>6, <3>7, <3>9, <4>1 DEF EndsAt
    <3>12. Writes(s, w)
      BY <3>6, <3>7, <3>8, <3>9, <3>10, <3>11 DEF Writes
    <3> QED
      BY <3>2, <3>12
  <2> QED
    BY <2>2, <2>3
<1> HIDE DEF S
<1>2. Word \subseteq S
  BY <1>1, Induction, WordIs
<1> QED
  BY <1>2 DEF S

\* A number that was written is read from the front of whatever follows it.
LEMMA UvarintReadsBack ==
    ASSUME NEW t \in Target, NEW v \in Word, NEW rest \in Seq(Octet)
    PROVE  ReadUvarint(t, AppendUvarint[v] \o rest)
              = [error |-> "none", used |-> Len(AppendUvarint[v]), value |-> v]
<1> DEFINE s == AppendUvarint[v]
           n == Len(s)
           data == s \o rest
<1>1. Writes(s, v)
  BY UvarintWrites
<1> HIDE DEF s
<1>2. /\ s \in Seq(Octet) /\ n \in 1 .. n /\ n \in Nat
      /\ s[n] < Radix /\ \A i \in 1 .. n - 1 : s[i] >= Radix
      /\ n > 1 => s[n] # 0
      /\ Denoted(s)[n] = v
  BY <1>1 DEF Writes, EndsAt
<1>3. n <= LastGroup + 1
  <2>1. LastGroup \in Nat
    BY LastGroupIs
  <2>2. n > LastGroup + 1 => s[n] # 0
    BY <1>2, <2>1
  <2> HIDE DEF n
  <2> QED
    BY <1>2, <2>1, <2>2, FitsWord DEF n
<1>4. /\ data \in Seq(Octet) /\ n \in 1 .. Len(data)
      /\ \A i \in 1 .. n : data[i] = s[i]
  BY <1>2, Joined
<1>5. Denoted(data)[n] = v
  <2>1. n \in 0 .. Len(s)
    BY <1>2
  <2> QED
    BY <1>2, <2>1, DenotedPrefix
<1> HIDE DEF data
<1>6. EndsAt(data, n)
  <2> HIDE DEF n
  <2> QED
    BY <1>2, <1>4 DEF EndsAt
<1> QED
  BY <1>3, <1>4, <1>5, <1>6, ReadUvarintEnds DEF s, data

\* Of a number cut short no byte ends it.
LEMMA UvarintCut ==
    ASSUME NEW t \in Target, NEW v \in Word, NEW k \in 0 .. Len(AppendUvarint[v]) - 1
    PROVE  /\ SubSeq(AppendUvarint[v], 1, k) \in Seq(Octet)
           /\ ReadUvarint(t, SubSeq(AppendUvarint[v], 1, k)) = Fail("Malformed")
<1> DEFINE s == AppendUvarint[v]
           n == Len(s)
           data == SubSeq(s, 1, k)
<1>1. Writes(s, v)
  BY UvarintWrites
<1> HIDE DEF s
<1>2. /\ s \in Seq(Octet) /\ n \in 1 .. n /\ n \in Nat
      /\ s[n] < Radix /\ \A i \in 1 .. n - 1 : s[i] >= Radix
      /\ n > 1 => s[n] # 0
      /\ Denoted(s)[n] = v
  BY <1>1 DEF Writes, EndsAt
<1>3. n <= LastGroup + 1
  <2>1. LastGroup \in Nat
    BY LastGroupIs
  <2>2. n > LastGroup + 1 => s[n] # 0
    BY <1>2, <2>1
  <2> HIDE DEF n
  <2> QED
    BY <1>2, <2>1, <2>2, FitsWord DEF n
<1>4. k \in Nat /\ k <= n - 1
  BY DEF s
<1>5. data \in Seq(Octet) /\ Len(data) = k /\ \A i \in 1 .. k : data[i] = s[i]
  BY <1>2, <1>4, Start
<1> HIDE DEF data
<1>6. \A i \in 1 .. Len(data) : data[i] >= Radix
  BY <1>2, <1>4, <1>5
<1>7. Len(data) <= LastGroup + 1
  BY <1>2, <1>3, <1>4, <1>5, LastGroupIs
<1> QED
  BY <1>5, <1>6, <1>7, ReadUvarintEndless DEF data, s

-----------------------------------------------------------------------------
(* Bytes that did not arrive as they were written.                          *)

\* d is what is left of s, or has a byte more.
Short(s, d)  == \E k \in 0 .. Len(s) - 1 : d = SubSeq(s, 1, k)
Longer(s, d) == \E x \in Octet : d = Append(s, x)
Broken(s, d) == Short(s, d) \/ Longer(s, d)

Refusals == {Fail("Malformed"), Fail("Pkix"), Fail("Crypto")}

LEMMA Appended ==
    ASSUME NEW X, NEW a \in Seq(X), NEW x \in X
    PROVE  Append(a, x) = a \o <<x>> /\ Append(a, x) \in Seq(X) /\ Len(Append(a, x)) = Len(a) + 1
  OBVIOUS

LEMMA Joins ==
    ASSUME NEW a \in Seq(Octet), NEW b \in Seq(Octet), NEW c \in Seq(Octet)
    PROVE  (a \o b) \o c = a \o (b \o c)
  OBVIOUS

LEMMA ShortIs ==
    ASSUME NEW s \in Seq(Octet), NEW d, Short(s, d)
    PROVE  d \in Seq(Octet) /\ Len(d) < Len(s) /\ d # s
<1>1. PICK k \in 0 .. Len(s) - 1 : d = SubSeq(s, 1, k)
  BY DEF Short
<1>2. k \in Nat /\ k <= Len(s) /\ k < Len(s)
  OBVIOUS
<1>3. d \in Seq(Octet) /\ Len(d) = k
  BY <1>1, <1>2, Start
<1> QED
  BY <1>2, <1>3

LEMMA BrokenIs ==
    ASSUME NEW s \in Seq(Octet), NEW d, Broken(s, d)
    PROVE  d \in Seq(Octet) /\ d # s /\ Len(d) # Len(s)
<1>1. CASE Short(s, d)
  BY <1>1, ShortIs
<1>2. CASE Longer(s, d)
  <2>1. PICK x \in Octet : d = Append(s, x)
    BY <1>2 DEF Longer
  <2>2. d \in Seq(Octet) /\ Len(d) = Len(s) + 1 /\ Len(s) \in Nat
    BY <2>1
  <2> QED
    BY <2>2
<1> QED
  BY <1>1, <1>2 DEF Broken

Joint(s, a, b) == s = a \o b

\* Two parts are broken within the first, or in the second.
LEMMA BrokenJoined ==
    ASSUME NEW a \in Seq(Octet), NEW b \in Seq(Octet), NEW s, Joint(s, a, b),
           NEW d, Broken(s, d)
    PROVE  \/ Short(a, d)
           \/ \E e \in Seq(Octet) : Broken(b, e) /\ Joint(d, a, e)
<1> DEFINE A == Len(a)
           B == Len(b)
<1>1. s \in Seq(Octet) /\ Len(s) = A + B /\ A \in Nat /\ B \in Nat
  BY Joined DEF Joint
<1> HIDE DEF A, B
<1>2. ASSUME NEW k \in 0 .. Len(s) - 1, d = SubSeq(s, 1, k), k < A
      PROVE  Short(a, d)
  <2>1. k \in 0 .. Len(s) /\ k \in 0 .. A - 1 /\ k <= A
    BY <1>1, <1>2
  <2>2. d = SubSeq(a, 1, k)
    BY <1>2, <2>1, CutJoined DEF A, Joint
  <2> QED
    BY <2>1, <2>2 DEF Short, A
<1>3. ASSUME NEW k \in 0 .. Len(s) - 1, d = SubSeq(s, 1, k), k >= A
      PROVE  \E e \in Seq(Octet) : Broken(b, e) /\ Joint(d, a, e)
  <2> DEFINE m == k - A
             e == SubSeq(b, 1, m)
  <2>1. k \in 0 .. Len(s) /\ m \in 0 .. B - 1
    BY <1>1, <1>3
  <2>2. d = a \o e
    BY <1>3, <2>1, CutJoined DEF A, Joint
  <2>3. Short(b, e)
    BY <2>1 DEF Short, B
  <2>4. e \in Seq(Octet)
    BY <2>3, ShortIs
  <2> QED
    BY <2>2, <2>3, <2>4 DEF Broken, Joint
<1>4. CASE Short(s, d)
  <2>1. PICK k \in 0 .. Len(s) - 1 : d = SubSeq(s, 1, k)
    BY <1>4 DEF Short
  <2>2. k < A \/ k >= A
    BY <1>1
  <2> QED
    BY <1>2, <1>3, <2>1, <2>2
<1>5. CASE Longer(s, d)
  <2>1. PICK x \in Octet : d = Append(s, x)
    BY <1>5 DEF Longer
  <2>2. Append(b, x) \in Seq(Octet) /\ d = a \o Append(b, x)
    <3>1. <<x>> \in Seq(Octet) /\ Append(b, x) = b \o <<x>> /\ Append(b, x) \in Seq(Octet)
      BY Appended
    <3>2. d = (a \o b) \o <<x>>
      BY <1>1, <2>1, Appended DEF Joint
    <3> QED
      BY <3>1, <3>2, Joins
  <2>3. Longer(b, Append(b, x))
    BY DEF Longer
  <2> QED
    BY <2>2, <2>3 DEF Broken, Joint
<1> QED
  BY <1>4, <1>5 DEF Broken

LEMMA ShortJoined ==
    ASSUME NEW a \in Seq(Octet), NEW b \in Seq(Octet), NEW s, Joint(s, a, b),
           NEW d, Short(s, d)
    PROVE  \/ Short(a, d)
           \/ \E e \in Seq(Octet) : Short(b, e) /\ Joint(d, a, e)
<1>1. Broken(s, d)
  BY DEF Broken
<1>2. s \in Seq(Octet) /\ Len(s) = Len(a) + Len(b) /\ Len(a) \in Nat /\ Len(b) \in Nat
  BY Joined DEF Joint
<1>3. Len(d) < Len(s)
  BY <1>2, ShortIs
<1>4. ASSUME NEW e \in Seq(Octet), Longer(b, e), Joint(d, a, e)
      PROVE  FALSE
  <2>1. PICK x \in Octet : e = Append(b, x)
    BY <1>4 DEF Longer
  <2>2. Len(e) = Len(b) + 1 /\ Len(d) = Len(a) + Len(e)
    BY <1>4, <2>1, Joined, Appended DEF Joint
  <2> QED
    BY <1>2, <1>3, <2>2
<1>5. Short(a, d) \/ \E e \in Seq(Octet) : Broken(b, e) /\ Joint(d, a, e)
  BY <1>1, BrokenJoined
<1> QED
  BY <1>4, <1>5 DEF Broken

LEMMA Behind ==
    ASSUME NEW x \in Octet, NEW s \in Seq(Octet)
    PROVE  /\ <<x>> \o s \in Seq(Octet) /\ <<x>> \o s # <<>>
           /\ (<<x>> \o s)[1] = x /\ Tail(<<x>> \o s) = s
           /\ Len(<<x>> \o s) = Len(s) + 1
<1>1. /\ <<x>> \o s \in Seq(Octet) /\ <<x>> \o s # <<>> /\ (<<x>> \o s)[1] = x
      /\ Len(<<x>> \o s) = Len(s) + 1
  OBVIOUS
<1>2. Len(Tail(<<x>> \o s)) = Len(s) /\ Tail(<<x>> \o s) \in Seq(Octet)
  BY <1>1
<1>3. \A i \in 1 .. Len(s) : Tail(<<x>> \o s)[i] = s[i]
  BY <1>1
<1>4. Tail(<<x>> \o s) = s
  BY <1>2, <1>3, SameSequence
<1> QED
  BY <1>1, <1>4

\* What breaks something behind one byte.
LEMMA BrokenBehind ==
    ASSUME NEW x \in Octet, NEW s \in Seq(Octet), NEW w, Joint(w, <<x>>, s),
           NEW d, Broken(w, d)
    PROVE  d = <<>> \/ \E e \in Seq(Octet) : Broken(s, e) /\ Joint(d, <<x>>, e)
<1> DEFINE a == <<x>>
<1>1. a \in Seq(Octet) /\ Len(a) = 1
  OBVIOUS
<1> HIDE DEF a
<1>2. Short(a, d) \/ \E e \in Seq(Octet) : Broken(s, e) /\ Joint(d, a, e)
  BY <1>1, BrokenJoined DEF a
<1>3. CASE Short(a, d)
  <2>1. d \in Seq(Octet) /\ Len(d) < 1
    BY <1>1, <1>3, ShortIs
  <2> QED
    BY <2>1
<1> QED
  BY <1>2, <1>3 DEF a

LEMMA Modulus ==
    ASSUME NEW a \in Nat, NEW r \in Nat, a < r
    PROVE  a % r = a
  OBVIOUS

-----------------------------------------------------------------------------
(* Envelopes.                                                               *)

Chunk(c) ==
    /\ c \in Seq(Octet) /\ Len(c) \in Word /\ Len(c) \in Nat
    /\ \A t \in Targets : Len(c) < Power[t.bits]

LEMMA TargetIs ==
    ASSUME NEW t \in Targets
    PROVE  t \in Target /\ t.bits \in Nat /\ t.checked \in BOOLEAN /\ Power[t.bits] \in Nat \ {0}
<1>1. t \in Target
  BY TargetsAssumption
<1>2. t.bits \in Nat /\ t.checked \in BOOLEAN
  BY <1>1 DEF Target
<1> QED
  BY <1>1, <1>2, PowerStep

LEMMA PartsAre ==
    /\ Chunk(EphemeralPkix) /\ Chunk(KemText)
    /\ Nonce \in Seq(Octet) /\ SealedBuffer \in Seq(Octet)
    /\ MaxEcdhPrefix \in Nat /\ MaxKemPrefix \in Nat
    /\ TagSize \in 0 .. Len(SealedBuffer)
<1>1. ASSUME NEW c \in {EphemeralPkix, KemText}
      PROVE  Chunk(c)
  <2>1. c \in Seq(Octet) /\ Len(c) \in Word
    BY PartsAssumption
  <2>2. ASSUME NEW t \in Targets
        PROVE  Len(c) < Power[t.bits]
    <3>1. Len(c) \in 0 .. Power[t.bits] - 1
      BY FitAssumption
    <3>2. Power[t.bits] \in Nat
      BY TargetIs
    <3> QED
      BY <3>1, <3>2
  <2> QED
    BY <2>1, <2>2 DEF Chunk
<1> QED
  BY <1>1, PartsAssumption

LEMMA PrefixedIs ==
    ASSUME NEW c, Chunk(c)
    PROVE  /\ AppendUvarint[Len(c)] \in Seq(Octet)
           /\ Prefixed(c) = AppendUvarint[Len(c)] \o c /\ Prefixed(c) \in Seq(Octet)
<1>1. c \in Seq(Octet) /\ Len(c) \in Word
  BY DEF Chunk
<1>2. AppendUvarint[Len(c)] \in Seq(Octet)
  BY <1>1, AppendUvarintStep
<1> QED
  BY <1>1, <1>2 DEF Prefixed

\* A chunk and what follows it, told apart again.
LEMMA ChunkReadsBack ==
    ASSUME NEW t \in Targets, NEW c, Chunk(c), NEW rest \in Seq(Octet),
           NEW limit \in Nat, Len(c) <= limit, NEW reserve \in Nat
    PROVE  ReadChunk(t, Prefixed(c) \o rest, limit, reserve)
              = IF Len(rest) < reserve THEN Fail("Malformed")
                ELSE [error |-> "none", chunk |-> c, rest |-> rest]
<1> DEFINE s    == AppendUvarint[Len(c)]
           n    == Len(s)
           l    == Len(c)
           u    == [error |-> "none", used |-> n, value |-> l]
           data == Prefixed(c) \o rest
           back == [error |-> "none", chunk |-> c, rest |-> rest]
<1>1. c \in Seq(Octet) /\ l \in Word /\ l \in Nat /\ l < Power[t.bits] /\ s \in Seq(Octet)
      /\ Power[t.bits] \in Nat /\ Power[t.bits] > 0 /\ t \in Target
  BY PrefixedIs, TargetIs DEF Chunk
<1>2. c \o rest \in Seq(Octet) /\ data = s \o (c \o rest) /\ data = (s \o c) \o rest
  <2>1. Prefixed(c) = s \o c
    BY DEF Prefixed
  <2> HIDE DEF s
  <2> QED
    BY <1>1, <2>1, Joins
<1>3. ReadUvarint(t, data) = u
  <2> HIDE DEF data
  <2> QED
    BY <1>1, <1>2, UvarintReadsBack
<1>4. l % Power[t.bits] = l
  BY <1>1, Modulus
<1>5. /\ data \in Seq(Octet) /\ Len(data) = n + l + Len(rest)
      /\ SubSeq(data, n + 1, n + l) = c
      /\ SubSeq(data, n + l + 1, Len(data)) = rest
      /\ n \in Nat /\ Len(rest) \in Nat
  <2>1. Len(s) \in Nat /\ Len(rest) \in Nat
    BY <1>1
  <2> HIDE DEF s, data
  <2> QED
    BY <1>1, <1>2, <2>1, Middle
<1>6. (Len(data) < n + l + reserve) <=> (Len(rest) < reserve)
  <2> DEFINE r == Len(rest)
  <2>1. l \in Nat /\ n \in Nat /\ r \in Nat /\ Len(data) = n + l + r
    BY <1>1, <1>5
  <2> HIDE DEF l, n, r, data
  <2>2. (Len(data) < n + l + reserve) <=> (r < reserve)
    BY <2>1
  <2> QED
    BY <2>2 DEF r
<1>7. ~(l > limit)
  <2> HIDE DEF l
  <2> QED
    BY <1>1 DEF l
<1>8. ReadChunk(t, data, limit, reserve)
          = LET len == u.value % Power[t.bits]
            IN  IF len > limit \/ Len(data) < u.used + len + reserve THEN Fail("Malformed")
                ELSE [error |-> "none",
                      chunk |-> SubSeq(data, u.used + 1, u.used + len),
                      rest  |-> SubSeq(data, u.used + len + 1, Len(data))]
  <2> HIDE DEF data
  <2> QED
    BY <1>3 DEF ReadChunk, Then
<1> HIDE DEF data, n, l, s
<1>9. ReadChunk(t, data, limit, reserve)
          = IF Len(data) < n + l + reserve THEN Fail("Malformed")
            ELSE [error |-> "none", chunk |-> SubSeq(data, n + 1, n + l),
                  rest |-> SubSeq(data, n + l + 1, Len(data))]
  BY <1>4, <1>7, <1>8
<1> QED
  BY <1>5, <1>6, <1>9 DEF data

\* A chunk cut short.
LEMMA ChunkShort ==
    ASSUME NEW t \in Targets, NEW c, Chunk(c), NEW d, Short(Prefixed(c), d),
           NEW limit \in Nat, NEW reserve \in Nat
    PROVE  ReadChunk(t, d, limit, reserve) = Fail("Malformed")
<1> DEFINE s == AppendUvarint[Len(c)]
           n == Len(s)
           l == Len(c)
           u == [error |-> "none", used |-> n, value |-> l]
<1>1. c \in Seq(Octet) /\ l \in Word /\ l \in Nat /\ l < Power[t.bits] /\ s \in Seq(Octet)
      /\ Power[t.bits] \in Nat /\ Power[t.bits] > 0 /\ t \in Target
  BY PrefixedIs, TargetIs DEF Chunk
<1>2. Short(Prefixed(c), d) /\ Joint(Prefixed(c), s, c)
  BY PrefixedIs DEF Joint
<1>3. CASE Short(s, d)
  <2>1. PICK k \in 0 .. Len(s) - 1 : d = SubSeq(s, 1, k)
    BY <1>3 DEF Short
  <2>2. ReadUvarint(t, d) = Fail("Malformed")
    BY <1>1, <2>1, UvarintCut
  <2> QED
    BY <2>2 DEF ReadChunk, Then, Fail
<1>4. ASSUME NEW e \in Seq(Octet), Short(c, e), Joint(d, s, e)
      PROVE  ReadChunk(t, d, limit, reserve) = Fail("Malformed")
  <2>1. ReadUvarint(t, d) = u
    BY <1>1, <1>4, UvarintReadsBack DEF Joint
  <2>2. l % Power[t.bits] = l
    BY <1>1, Modulus
  <2>3. Len(d) < n + l + reserve
    <3> DEFINE m == Len(e)
    <3>1. m < l /\ Len(d) = n + m /\ m \in Nat /\ n \in Nat /\ l \in Nat
      BY <1>1, <1>4, ShortIs, Joined DEF Joint
    <3> HIDE DEF m, n, l
    <3> QED
      BY <3>1
  <2>4. ReadChunk(t, d, limit, reserve)
          = LET len == u.value % Power[t.bits]
            IN  IF len > limit \/ Len(d) < u.used + len + reserve THEN Fail("Malformed")
                ELSE [error |-> "none",
                      chunk |-> SubSeq(d, u.used + 1, u.used + len),
                      rest  |-> SubSeq(d, u.used + len + 1, Len(d))]
    BY <2>1 DEF ReadChunk, Then
  <2> HIDE DEF n, l, s
  <2> QED
    BY <2>2, <2>3, <2>4
<1> QED
  BY <1>1, <1>2, <1>3, <1>4, ShortJoined

Sealed == Nonce \o SealedBuffer

LEMMA OpenTailIs ==
    /\ Sealed \in Seq(Octet) /\ ~(Len(Sealed) < Len(Nonce))
    /\ OpenTail(Sealed) = Fine("buffer")
    /\ \A rest : rest # Sealed => OpenTail(rest) \in Refusals
<1> DEFINE n == Len(Nonce)
           m == Len(SealedBuffer)
<1>1. /\ Sealed \in Seq(Octet) /\ Len(Sealed) = n + m /\ n \in Nat /\ m \in Nat
      /\ TagSize \in Nat /\ TagSize <= m
  <2>1. Nonce \in Seq(Octet) /\ SealedBuffer \in Seq(Octet) /\ TagSize \in 0 .. Len(SealedBuffer)
    BY PartsAre
  <2> QED
    BY <2>1, Joined DEF Sealed
<1>2. ~(Len(Sealed) < n) /\ ~(Len(Sealed) - n < TagSize)
  <2> HIDE DEF n, m
  <2> QED
    BY <1>1
<1>3. OpenTail(Sealed) = Fine("buffer")
  BY <1>2 DEF OpenTail, Sealed
<1>4. ASSUME NEW rest, rest # Sealed
      PROVE  OpenTail(rest) \in Refusals
  BY <1>4 DEF OpenTail, Refusals, Sealed
<1> QED
  BY <1>1, <1>2, <1>3, <1>4

LEMMA LimitIs ==
    /\ Len(EphemeralPkix) <= MaxEcdhPrefix /\ Len(EphemeralPkix) <= MaxKemPrefix
    /\ Len(KemText) <= MaxKemPrefix /\ Len(Nonce) \in Nat
<1>1. Nonce \in Seq(Octet)
  BY PartsAre
<1> QED
  BY <1>1, LimitAssumption

\* d as y behind the byte x.
LEMMA JointIs ==
    ASSUME NEW x \in Octet, NEW y \in Seq(Octet), NEW d, Joint(d, <<x>>, y)
    PROVE  d \in Seq(Octet) /\ d # <<>> /\ d[1] = x /\ Tail(d) = y
  BY Behind DEF Joint

LEMMA VersionsAre == {0, 1, 2} \subseteq Octet
<1>1. Radix \in Nat /\ Radix >= 2
  BY RadixIs
<1> QED
  BY <1>1 DEF Octet

LEMMA OpenEcdhIs ==
    ASSUME NEW t \in Targets, NEW d, NEW y \in Seq(Octet), Joint(d, << 0 >>, y)
    PROVE  /\ \A r \in Seq(Octet) : Joint(y, Prefixed(EphemeralPkix), r) =>
                 OpenEcdh(t, d) = IF Len(r) < Len(Nonce) THEN Fail("Malformed") ELSE OpenTail(r)
           /\ Short(Prefixed(EphemeralPkix), y) => OpenEcdh(t, d) = Fail("Malformed")
<1>1. d # <<>> /\ d[1] = 0 /\ Tail(d) = y
  BY JointIs, VersionsAre
<1>2. OpenEcdh(t, d)
        = Then(ReadChunk(t, y, MaxEcdhPrefix, Len(Nonce)), LAMBDA c :
            IF c.chunk # EphemeralPkix THEN Fail("Pkix") ELSE OpenTail(c.rest))
  BY <1>1 DEF OpenEcdh
<1>3. Chunk(EphemeralPkix) /\ MaxEcdhPrefix \in Nat /\ Len(Nonce) \in Nat
      /\ Len(EphemeralPkix) <= MaxEcdhPrefix
  BY PartsAre, LimitIs
<1>4. ASSUME Short(Prefixed(EphemeralPkix), y)
      PROVE  OpenEcdh(t, d) = Fail("Malformed")
  <2>1. ReadChunk(t, y, MaxEcdhPrefix, Len(Nonce)) = Fail("Malformed")
    BY <1>3, <1>4, ChunkShort
  <2> QED
    BY <1>2, <2>1 DEF Then, Fail
<1>5. ASSUME NEW r \in Seq(Octet), Joint(y, Prefixed(EphemeralPkix), r)
      PROVE  OpenEcdh(t, d) = IF Len(r) < Len(Nonce) THEN Fail("Malformed") ELSE OpenTail(r)
  <2>1. ReadChunk(t, y, MaxEcdhPrefix, Len(Nonce))
          = IF Len(r) < Len(Nonce) THEN Fail("Malformed")
            ELSE [error |-> "none", chunk |-> EphemeralPkix, rest |-> r]
    BY <1>3, <1>5, ChunkReadsBack DEF Joint
  <2>2. CASE Len(r) < Len(Nonce)
    BY <1>2, <2>1, <2>2 DEF Then, Fail
  <2>3. CASE ~(Len(r) < Len(Nonce))
    <3>1. ReadChunk(t, y, MaxEcdhPrefix, Len(Nonce))
             = [error |-> "none", chunk |-> EphemeralPkix, rest |-> r]
      BY <2>1, <2>3
    <3>2. OpenEcdh(t, d) = OpenTail(r)
      BY <1>2, <3>1 DEF Then
    <3> QED
      BY <2>3, <3>2
  <2> QED
    BY <2>2, <2>3
<1> QED
  BY <1>4, <1>5

LEMMA OpenPureIs ==
    ASSUME NEW t \in Targets, NEW y \in Seq(Octet)
    PROVE  /\ \A r \in Seq(Octet) : Joint(y, Prefixed(KemText), r) => OpenPure(t, y) = OpenTail(r)
           /\ Short(Prefixed(KemText), y) => OpenPure(t, y) = Fail("Malformed")
<1>1. Chunk(KemText) /\ MaxKemPrefix \in Nat /\ 0 \in Nat /\ Len(KemText) <= MaxKemPrefix
  BY PartsAre, LimitIs
<1>2. ASSUME Short(Prefixed(KemText), y)
      PROVE  OpenPure(t, y) = Fail("Malformed")
  <2>1. ReadChunk(t, y, MaxKemPrefix, 0) = Fail("Malformed")
    BY <1>1, <1>2, ChunkShort
  <2> QED
    BY <2>1 DEF OpenPure, Then, Fail
<1>3. ASSUME NEW r \in Seq(Octet), Joint(y, Prefixed(KemText), r)
      PROVE  OpenPure(t, y) = OpenTail(r)
  <2>1. ReadChunk(t, y, MaxKemPrefix, 0)
           = IF Len(r) < 0 THEN Fail("Malformed")
             ELSE [error |-> "none", chunk |-> KemText, rest |-> r]
    BY <1>1, <1>3, ChunkReadsBack DEF Joint
  <2>2. ReadChunk(t, y, MaxKemPrefix, 0) = [error |-> "none", chunk |-> KemText, rest |-> r]
    <3>1. ~(Len(r) < 0)
      OBVIOUS
    <3> QED
      BY <2>1, <3>1
  <2> QED
    BY <2>2 DEF OpenPure, Then
<1> QED
  BY <1>2, <1>3

\* Both chunks of a hybrid envelope are read before the first is looked at.
LEMMA OpenHybridIs ==
    ASSUME NEW t \in Targets, NEW y \in Seq(Octet)
    PROVE  /\ \A z, r \in Seq(Octet) :
                 Joint(y, Prefixed(EphemeralPkix), z) /\ Joint(z, Prefixed(KemText), r)
                    => OpenHybrid(t, y) = OpenTail(r)
           /\ \A z \in Seq(Octet) :
                 Joint(y, Prefixed(EphemeralPkix), z) /\ Short(Prefixed(KemText), z)
                    => OpenHybrid(t, y) = Fail("Malformed")
           /\ Short(Prefixed(EphemeralPkix), y) => OpenHybrid(t, y) = Fail("Malformed")
<1>1. /\ Chunk(KemText) /\ MaxKemPrefix \in Nat /\ 0 \in Nat /\ Len(KemText) <= MaxKemPrefix
      /\ Chunk(EphemeralPkix) /\ Len(EphemeralPkix) <= MaxKemPrefix
  BY PartsAre, LimitIs
<1>2. ASSUME Short(Prefixed(EphemeralPkix), y)
      PROVE  OpenHybrid(t, y) = Fail("Malformed")
  <2>1. ReadChunk(t, y, MaxKemPrefix, 0) = Fail("Malformed")
    BY <1>1, <1>2, ChunkShort
  <2> QED
    BY <2>1 DEF OpenHybrid, Then, Fail
<1>3. ASSUME NEW x \in Seq(Octet), NEW r \in Seq(Octet), NEW c, Chunk(c), Joint(x, Prefixed(c), r),
             Len(c) <= MaxKemPrefix
      PROVE  ReadChunk(t, x, MaxKemPrefix, 0) = [error |-> "none", chunk |-> c, rest |-> r]
  <2>1. ReadChunk(t, x, MaxKemPrefix, 0)
           = IF Len(r) < 0 THEN Fail("Malformed")
             ELSE [error |-> "none", chunk |-> c, rest |-> r]
    BY <1>1, <1>3, ChunkReadsBack DEF Joint
  <2>2. ~(Len(r) < 0)
    OBVIOUS
  <2> QED
    BY <2>1, <2>2
<1>4. ASSUME NEW z \in Seq(Octet), Joint(y, Prefixed(EphemeralPkix), z)
      PROVE  OpenHybrid(t, y)
               = Then(ReadChunk(t, z, MaxKemPrefix, 0), LAMBDA m :
                    IF m.chunk # KemText THEN Fail("Malformed") ELSE OpenTail(m.rest))
  <2>1. ReadChunk(t, y, MaxKemPrefix, 0)
           = [error |-> "none", chunk |-> EphemeralPkix, rest |-> z]
    BY <1>1, <1>3, <1>4
  <2> QED
    BY <2>1 DEF OpenHybrid, Then
<1>5. ASSUME NEW z \in Seq(Octet), Joint(y, Prefixed(EphemeralPkix), z), Short(Prefixed(KemText), z)
      PROVE  OpenHybrid(t, y) = Fail("Malformed")
  <2>1. ReadChunk(t, z, MaxKemPrefix, 0) = Fail("Malformed")
    BY <1>1, <1>5, ChunkShort
  <2> QED
    BY <1>4, <1>5, <2>1 DEF Then, Fail
<1>6. ASSUME NEW z \in Seq(Octet), NEW r \in Seq(Octet),
             Joint(y, Prefixed(EphemeralPkix), z), Joint(z, Prefixed(KemText), r)
      PROVE  OpenHybrid(t, y) = OpenTail(r)
  <2>1. ReadChunk(t, z, MaxKemPrefix, 0) = [error |-> "none", chunk |-> KemText, rest |-> r]
    BY <1>1, <1>3, <1>6
  <2> QED
    BY <1>4, <1>6, <2>1 DEF Then
<1> QED
  BY <1>2, <1>5, <1>6

\* How an envelope is put together: its version, then w.
EnvelopeIs(kind, w) ==
    CASE kind = "ecdh"   -> Joint(w, Prefixed(EphemeralPkix), Sealed)
      [] kind = "hybrid" -> \E z \in Seq(Octet) :
                               Joint(w, Prefixed(EphemeralPkix), z) /\ Joint(z, Prefixed(KemText), Sealed)
      [] kind = "pure"   -> Joint(w, Prefixed(KemText), Sealed)

Version(kind) == CASE kind = "ecdh" -> 0 [] kind = "hybrid" -> 1 [] kind = "pure" -> 2

LEMMA EnvelopeParts ==
    ASSUME NEW kind \in EnvelopeKinds
    PROVE  \E w \in Seq(Octet) :
              Joint(EnvelopeBytes(kind), <<Version(kind)>>, w) /\ EnvelopeIs(kind, w)
<1> DEFINE E == Prefixed(EphemeralPkix)
           K == Prefixed(KemText)
           v == <<Version(kind)>>
<1>1. /\ E \in Seq(Octet) /\ K \in Seq(Octet) /\ Nonce \in Seq(Octet)
      /\ SealedBuffer \in Seq(Octet) /\ Sealed \in Seq(Octet)
  BY PartsAre, PrefixedIs, OpenTailIs
<1>2. <<0>> \in Seq(Octet) /\ <<1>> \in Seq(Octet) /\ <<2>> \in Seq(Octet)
  BY VersionsAre
<1>3. ASSUME NEW x \in Seq(Octet), NEW c \in Seq(Octet)
      PROVE  /\ ((x \o c) \o Nonce) \o SealedBuffer = x \o (c \o Sealed)
             /\ c \o Sealed \in Seq(Octet)
  <2>1. x \o c \in Seq(Octet) /\ c \o Sealed \in Seq(Octet)
    BY <1>1, Joined
  <2> DEFINE xc == x \o c
  <2>2. xc \in Seq(Octet)
    BY <2>1
  <2>3. xc \o Sealed = x \o (c \o Sealed)
    BY <1>1, Joins
  <2> HIDE DEF xc
  <2>4. (xc \o Nonce) \o SealedBuffer = xc \o Sealed
    BY <1>1, <2>2, Joins DEF Sealed
  <2> QED
    BY <2>1, <2>3, <2>4 DEF xc
<1> HIDE DEF E, K
<1>4. CASE kind = "ecdh"
  <2> DEFINE w == E \o Sealed
  <2>1. w \in Seq(Octet) /\ EnvelopeBytes(kind) = <<0>> \o w
    <3>1. EnvelopeBytes(kind) = ((<<0>> \o E) \o Nonce) \o SealedBuffer
      BY <1>4 DEF EnvelopeBytes, E
    <3> QED
      BY <1>1, <1>2, <1>3, <3>1
  <2>2. EnvelopeIs(kind, w) /\ Version(kind) = 0
    BY <1>4 DEF EnvelopeIs, Joint, E, Version
  <2> HIDE DEF w
  <2> QED
    BY <2>1, <2>2 DEF Joint
<1>5. CASE kind = "pure"
  <2> DEFINE w == K \o Sealed
  <2>1. w \in Seq(Octet) /\ EnvelopeBytes(kind) = <<2>> \o w
    <3>1. EnvelopeBytes(kind) = ((<<2>> \o K) \o Nonce) \o SealedBuffer
      BY <1>5 DEF EnvelopeBytes, K
    <3> QED
      BY <1>1, <1>2, <1>3, <3>1
  <2>2. EnvelopeIs(kind, w) /\ Version(kind) = 2
    BY <1>5 DEF EnvelopeIs, Joint, K, Version
  <2> HIDE DEF w
  <2> QED
    BY <2>1, <2>2 DEF Joint
<1>6. CASE kind = "hybrid"
  <2> DEFINE z == K \o Sealed
             w == E \o z
             a == <<1>> \o E
  <2>1. EnvelopeBytes(kind) = ((a \o K) \o Nonce) \o SealedBuffer
    BY <1>6 DEF EnvelopeBytes, E, K
  <2>2. a \in Seq(Octet) /\ z \in Seq(Octet) /\ w \in Seq(Octet)
    BY <1>1, <1>2, Joined
  <2>3. a \o z = <<1>> \o w
    <3> HIDE DEF z
    <3> QED
      BY <1>1, <1>2, <2>2, Joins
  <2>4. EnvelopeBytes(kind) = a \o z
    <3> HIDE DEF a
    <3> QED
      BY <1>1, <1>3, <2>1, <2>2
  <2>5. EnvelopeIs(kind, w) /\ Version(kind) = 1
    <3>1. Joint(w, E, z) /\ Joint(z, K, Sealed)
      BY DEF Joint
    <3> HIDE DEF w, z
    <3> QED
      BY <1>6, <2>2, <3>1 DEF EnvelopeIs, E, K, Version
  <2> HIDE DEF w, z, a
  <2> QED
    BY <2>2, <2>3, <2>4, <2>5 DEF Joint
<1> QED
  BY <1>4, <1>5, <1>6 DEF EnvelopeKinds

\* The envelope of each kind is opened by the key it is for, and by that key
\* nothing that is left of it and nothing longer.
LEMMA EnvelopeReadsBack ==
    ASSUME NEW t \in Targets, NEW kind \in EnvelopeKinds
    PROVE  /\ EnvelopeBytes(kind) \in Seq(Octet)
           /\ OpenEnvelope(t, kind, EnvelopeBytes(kind)) = Fine("buffer")
           /\ \A d : Broken(EnvelopeBytes(kind), d) => OpenEnvelope(t, kind, d) \in Refusals
<1> DEFINE s == EnvelopeBytes(kind)
           v == Version(kind)
<1>1. PICK w \in Seq(Octet) : Joint(s, <<v>>, w) /\ EnvelopeIs(kind, w)
  BY EnvelopeParts
<1>2. v \in Octet
  BY VersionsAre DEF Version, EnvelopeKinds
<1>3. /\ Prefixed(EphemeralPkix) \in Seq(Octet) /\ Prefixed(KemText) \in Seq(Octet)
      /\ Sealed \in Seq(Octet)
  BY PartsAre, PrefixedIs, OpenTailIs
<1> HIDE DEF s
<1>4. s \in Seq(Octet)
  BY <1>1, <1>2, JointIs
<1>5. Fail("Malformed") \in Refusals
  BY DEF Refusals
\* With the version in front, the rest decides.
<1>6. ASSUME NEW d, NEW y \in Seq(Octet), Joint(d, <<v>>, y)
      PROVE  OpenEnvelope(t, kind, d)
               = IF kind = "ecdh" THEN OpenEcdh(t, d)
                 ELSE IF kind = "hybrid" THEN OpenHybrid(t, y) ELSE OpenPure(t, y)
  <2>1. d # <<>> /\ d[1] = v /\ Tail(d) = y
    BY <1>2, <1>6, JointIs
  <2>2. CASE kind = "ecdh"
    BY <2>2 DEF OpenEnvelope
  <2>3. CASE kind = "hybrid"
    <3>1. v = 1
      BY <2>3 DEF Version
    <3> QED
      BY <2>1, <2>3, <3>1 DEF OpenEnvelope
  <2>4. CASE kind = "pure"
    <3>1. v = 2
      BY <2>4 DEF Version
    <3> HIDE DEF v
    <3>2. d # <<>> /\ d[1] # 1 /\ d[1] = 2 /\ Tail(d) = y
      BY <2>1, <3>1
    <3>3. kind # "ecdh" /\ kind # "hybrid"
      BY <2>4
    <3> QED
      BY <3>2, <3>3 DEF OpenEnvelope
  <2> QED
    BY <2>2, <2>3, <2>4 DEF EnvelopeKinds
<1>7. ASSUME NEW d, d = <<>>
      PROVE  OpenEnvelope(t, kind, d) \in Refusals
  BY <1>5, <1>7 DEF OpenEnvelope, OpenEcdh
<1>8. CASE kind = "ecdh"
  <2>1. v = 0 /\ Joint(w, Prefixed(EphemeralPkix), Sealed)
    BY <1>1, <1>8 DEF Version, EnvelopeIs
  <2>2. OpenEnvelope(t, kind, s) = Fine("buffer")
    BY <1>1, <1>3, <1>6, <1>8, <2>1, OpenEcdhIs, OpenTailIs
  <2>3. ASSUME NEW d, NEW y \in Seq(Octet), Joint(d, <<v>>, y), Broken(w, y)
        PROVE  OpenEnvelope(t, kind, d) \in Refusals
    <3>1. \/ Short(Prefixed(EphemeralPkix), y)
          \/ \E r \in Seq(Octet) : Broken(Sealed, r) /\ Joint(y, Prefixed(EphemeralPkix), r)
      BY <1>3, <2>1, <2>3, BrokenJoined
    <3>2. OpenEnvelope(t, kind, d) = OpenEcdh(t, d)
      BY <1>6, <1>8, <2>3
    <3>3. CASE Short(Prefixed(EphemeralPkix), y)
      BY <1>5, <2>1, <2>3, <3>2, <3>3, OpenEcdhIs
    <3>4. ASSUME NEW r \in Seq(Octet), Broken(Sealed, r), Joint(y, Prefixed(EphemeralPkix), r)
          PROVE  OpenEcdh(t, d) \in Refusals
      <4>1. r # Sealed
        BY <1>3, <3>4, BrokenIs
      <4> QED
        BY <1>5, <2>1, <2>3, <3>4, <4>1, OpenEcdhIs, OpenTailIs
    <3> QED
      BY <3>1, <3>2, <3>3, <3>4
  <2>4. ASSUME NEW d, Broken(s, d)
        PROVE  OpenEnvelope(t, kind, d) \in Refusals
    <3>1. d = <<>> \/ \E y \in Seq(Octet) : Broken(w, y) /\ Joint(d, <<v>>, y)
      BY <1>1, <1>2, <2>4, BrokenBehind
    <3> QED
      BY <1>7, <2>3, <3>1
  <2> QED
    BY <1>4, <2>2, <2>4 DEF s
<1>9. CASE kind = "pure"
  <2>1. v = 2 /\ Joint(w, Prefixed(KemText), Sealed)
    BY <1>1, <1>9 DEF Version, EnvelopeIs
  <2>2. OpenEnvelope(t, kind, s) = Fine("buffer")
    BY <1>1, <1>3, <1>6, <1>9, <2>1, OpenPureIs, OpenTailIs
  <2>3. ASSUME NEW d, NEW y \in Seq(Octet), Joint(d, <<v>>, y), Broken(w, y)
        PROVE  OpenEnvelope(t, kind, d) \in Refusals
    <3>1. \/ Short(Prefixed(KemText), y)
          \/ \E r \in Seq(Octet) : Broken(Sealed, r) /\ Joint(y, Prefixed(KemText), r)
      BY <1>3, <2>1, <2>3, BrokenJoined
    <3>2. OpenEnvelope(t, kind, d) = OpenPure(t, y)
      BY <1>6, <1>9, <2>3
    <3>3. CASE Short(Prefixed(KemText), y)
      BY <1>5, <3>2, <3>3, OpenPureIs
    <3>4. ASSUME NEW r \in Seq(Octet), Broken(Sealed, r), Joint(y, Prefixed(KemText), r)
          PROVE  OpenPure(t, y) \in Refusals
      <4>1. r # Sealed
        BY <1>3, <3>4, BrokenIs
      <4> QED
        BY <3>4, <4>1, OpenPureIs, OpenTailIs
    <3> QED
      BY <3>1, <3>2, <3>3, <3>4
  <2>4. ASSUME NEW d, Broken(s, d)
        PROVE  OpenEnvelope(t, kind, d) \in Refusals
    <3>1. d = <<>> \/ \E y \in Seq(Octet) : Broken(w, y) /\ Joint(d, <<v>>, y)
      BY <1>1, <1>2, <2>4, BrokenBehind
    <3> QED
      BY <1>7, <2>3, <3>1
  <2> QED
    BY <1>4, <2>2, <2>4 DEF s
<1>10. CASE kind = "hybrid"
  <2>1. PICK z \in Seq(Octet) :
           Joint(w, Prefixed(EphemeralPkix), z) /\ Joint(z, Prefixed(KemText), Sealed)
    BY <1>1, <1>10 DEF EnvelopeIs
  <2>2. OpenEnvelope(t, kind, s) = Fine("buffer")
    BY <1>1, <1>3, <1>6, <1>10, <2>1, OpenHybridIs, OpenTailIs
  <2>3. ASSUME NEW d, NEW y \in Seq(Octet), Joint(d, <<v>>, y), Broken(w, y)
        PROVE  OpenEnvelope(t, kind, d) \in Refusals
    <3>1. \/ Short(Prefixed(EphemeralPkix), y)
          \/ \E x \in Seq(Octet) : Broken(z, x) /\ Joint(y, Prefixed(EphemeralPkix), x)
      BY <1>3, <2>1, <2>3, BrokenJoined
    <3>2. OpenEnvelope(t, kind, d) = OpenHybrid(t, y)
      BY <1>6, <1>10, <2>3
    <3>3. CASE Short(Prefixed(EphemeralPkix), y)
      BY <1>5, <3>2, <3>3, OpenHybridIs
    <3>4. ASSUME NEW x \in Seq(Octet), Broken(z, x), Joint(y, Prefixed(EphemeralPkix), x)
          PROVE  OpenHybrid(t, y) \in Refusals
      <4>1. \/ Short(Prefixed(KemText), x)
            \/ \E r \in Seq(Octet) : Broken(Sealed, r) /\ Joint(x, Prefixed(KemText), r)
        BY <1>3, <2>1, <3>4, BrokenJoined
      <4>2. CASE Short(Prefixed(KemText), x)
        BY <1>5, <3>4, <4>2, OpenHybridIs
      <4>3. ASSUME NEW r \in Seq(Octet), Broken(Sealed, r), Joint(x, Prefixed(KemText), r)
            PROVE  OpenHybrid(t, y) \in Refusals
        <5>1. r # Sealed
          BY <1>3, <4>3, BrokenIs
        <5> QED
          BY <3>4, <4>3, <5>1, OpenHybridIs, OpenTailIs
      <4> QED
        BY <4>1, <4>2, <4>3
    <3> QED
      BY <3>1, <3>2, <3>3, <3>4
  <2>4. ASSUME NEW d, Broken(s, d)
        PROVE  OpenEnvelope(t, kind, d) \in Refusals
    <3>1. d = <<>> \/ \E y \in Seq(Octet) : Broken(w, y) /\ Joint(d, <<v>>, y)
      BY <1>1, <1>2, <2>4, BrokenBehind
    <3> QED
      BY <1>7, <2>3, <3>1
  <2> QED
    BY <1>4, <2>2, <2>4 DEF s
<1> QED
  BY <1>8, <1>9, <1>10 DEF EnvelopeKinds

-----------------------------------------------------------------------------
(* Numbers in digits, as DER has them: lengths in bytes, arcs in groups.    *)

LEMMA DigitsStep ==
    ASSUME NEW r \in Nat, r >= 2, NEW n \in Nat
    PROVE  /\ n < r => Digits(r)[n] = <<n>>
           /\ ~(n < r) =>
                /\ n \div r \in Nat /\ n \div r < n /\ n \div r # 0
                /\ Digits(r)[n] = Append(Digits(r)[n \div r], n % r)
           /\ n % r \in 0 .. r - 1 /\ n = (n \div r) * r + (n % r)
           /\ Digits(r)[n] \in Seq(0 .. r - 1)
<1> DEFINE Digit == 0 .. r - 1
           X     == Seq(Digit)
           B     == {k \in Nat : k < r}
           p     == [k \in Nat \ B |-> k \div r]
           init  == [k \in B |-> <<k>>]
           F     == [x \in (Nat \ B) \X X |-> Append(x[2], x[1] % r)]
           Eq(g) == g = [k \in Nat |-> IF k < r THEN <<k>> ELSE Append(g[k \div r], k % r)]
<1>0. r \in Nat \ {0}
  OBVIOUS
<1>1. \A k \in Nat : k % r \in Digit /\ k = (k \div r) * r + (k % r) /\ k \div r \in Nat
  BY <1>0, Division
<1>2. \A k \in Nat : ~(k < r) => k \div r < k /\ k \div r # 0
  <2> TAKE k \in Nat
  <2>1. ~(k < r) => k >= r
    OBVIOUS
  <2>2. k >= r => k \div r < k /\ k \div r >= 1
    BY Smaller
  <2> QED
    BY <2>1, <2>2, <1>1
<1>3. Recurs(X, Nat, B, p, init, F)
  <2>1. B \in SUBSET Nat
    OBVIOUS
  <2>2. p \in [Nat \ B -> Nat] /\ \A k \in Nat \ B : p[k] < k
    BY <1>1, <1>2
  <2>3. init \in [B -> X]
    <3>1. \A k \in B : k \in Digit
      OBVIOUS
    <3> HIDE DEF B, Digit
    <3> QED
      BY <3>1
  <2>4. F \in [(Nat \ B) \X X -> X]
    <3>1. \A x \in (Nat \ B) \X X : Append(x[2], x[1] % r) \in X
      <4> TAKE x \in (Nat \ B) \X X
      <4>1. x[1] \in Nat /\ x[2] \in Seq(Digit)
        OBVIOUS
      <4>2. x[1] % r \in Digit
        BY <1>1, <4>1
      <4> HIDE DEF Digit
      <4> QED
        BY <4>1, <4>2
    <3> HIDE DEF B, X
    <3> QED
      BY <3>1
  <2> HIDE DEF X, B, p, init, F
  <2> QED
    BY <2>1, <2>2, <2>3, <2>4 DEF Recurs
<1>4. PICK g : Solves(g, X, Nat, B, p, init, F)
  <2> HIDE DEF X, B, p, init, F
  <2> QED
    BY <1>3, Recursion
<1>5. g \in [Nat -> X]
  BY <1>4 DEF Solves
<1>6. \A k \in Nat : g[k] = IF k < r THEN <<k>> ELSE Append(g[k \div r], k % r)
  <2> TAKE k \in Nat
  <2>1. CASE k < r
    BY <1>4, <2>1 DEF Solves
  <2>2. CASE ~(k < r)
    <3>1. k \in Nat \ B /\ p[k] = k \div r
      BY <2>2
    <3>2. g[k] = F[<<k, g[p[k]]>>]
      <4> HIDE DEF X, B, p, init, F
      <4> QED
        BY <1>4, <3>1 DEF Solves
    <3>3. g[k \div r] \in X
      BY <1>1, <1>5
    <3>4. \A x \in X : F[<<k, x>>] = Append(x, k % r)
      BY <3>1
    <3> HIDE DEF X, B, p, init, F
    <3> QED
      BY <2>2, <3>1, <3>2, <3>3, <3>4
  <2> QED
    BY <2>1, <2>2
<1>7. Eq(g)
  BY <1>5, <1>6
<1>8. Digits(r) = CHOOSE f : Eq(f)
  BY DEF Digits
<1>9. Eq(Digits(r))
  <2> HIDE DEF Eq
  <2> QED
    BY <1>7, <1>8
<1>10. \A k \in Nat : Digits(r)[k] = IF k < r THEN <<k>> ELSE Append(Digits(r)[k \div r], k % r)
  BY <1>9
<1>11. Nat \subseteq {k \in Nat : Digits(r)[k] \in X}
  <2> DEFINE S == {k \in Nat : Digits(r)[k] \in X}
  <2>1. ASSUME NEW k \in Nat, \A m \in Nat : m < k => m \in S
        PROVE  k \in S
    <3>1. CASE k < r
      <4>1. Digits(r)[k] = <<k>>
        BY <1>10, <3>1, Zenon
      <4>2. k \in Digit
        BY <3>1
      <4> HIDE DEF Digit
      <4>3. <<k>> \in Seq(Digit)
        BY <4>2
      <4> QED
        BY <4>1, <4>3
    <3>2. CASE ~(k < r)
      <4>1. Digits(r)[k \div r] \in X /\ k % r \in Digit
        BY <1>1, <1>2, <2>1, <3>2
      <4>2. Digits(r)[k] = Append(Digits(r)[k \div r], k % r)
        BY <1>10, <3>2
      <4> DEFINE s == Digits(r)[k \div r]
                 x == k % r
      <4>3. s \in Seq(Digit) /\ x \in Digit
        BY <4>1
      <4> HIDE DEF s, x, Digit
      <4>4. Append(s, x) \in Seq(Digit)
        BY <4>3
      <4> QED
        BY <4>2, <4>4 DEF s, x
    <3> QED
      BY <3>1, <3>2
  <2> HIDE DEF S
  <2>2. Nat \subseteq S
    BY <2>1, Induction
  <2> QED
    BY <2>2 DEF S
<1> HIDE DEF X
<1>12. Digits(r)[n] \in X
  BY <1>11
<1> QED
  BY <1>1, <1>2, <1>10, <1>12 DEF X, Digit

ByteRadix == 2 * Radix

LEMMA ByteRadixIs ==
    /\ ByteRadix \in Nat /\ ByteRadix >= 2 /\ ByteRadix \in Nat \ {0}
    /\ Octet = 0 .. ByteRadix - 1
<1>1. Radix \in Nat /\ Radix >= 2
  BY RadixIs
<1> QED
  BY <1>1 DEF ByteRadix, Octet

\* The numbers that n bytes hold.
Bytes(n) == Power[(GroupBits + 1) * n]

LEMMA BytesHold ==
    ASSUME NEW n \in Nat
    PROVE  /\ Bytes(n) \in Nat \ {0}
           /\ Bytes(0) = 1 /\ Bytes(1) = ByteRadix
           /\ Bytes(n + 1) = Bytes(n) * ByteRadix
<1>1. GroupBits \in Nat
  BY WidthAssumption
<1>2. \A k \in Nat : (GroupBits + 1) * k \in Nat /\ (GroupBits + 1) * (k + 1) = (GroupBits + 1) * k + (GroupBits + 1)
  BY <1>1
<1>3. Power[GroupBits + 1] = ByteRadix
  BY <1>1, PowerStep DEF ByteRadix, Radix
<1>4. Bytes(n + 1) = Bytes(n) * ByteRadix
  <2>1. (GroupBits + 1) * n \in Nat /\ GroupBits + 1 \in Nat
    BY <1>1, <1>2
  <2>2. Power[(GroupBits + 1) * n + (GroupBits + 1)] = Power[(GroupBits + 1) * n] * Power[GroupBits + 1]
    BY <2>1, PowerPlus
  <2> QED
    BY <1>2, <1>3, <2>2 DEF Bytes
<1>5. (GroupBits + 1) * 0 = 0 /\ (GroupBits + 1) * 1 = GroupBits + 1
  BY <1>1
<1> QED
  BY <1>2, <1>3, <1>4, <1>5, PowerStep DEF Bytes

LEMMA BigStep ==
    ASSUME NEW data \in Seq(Octet)
    PROVE  /\ Big(data)[0] = 0
           /\ \A n \in 0 .. Len(data) : Big(data)[n] \in Nat
           /\ \A n \in 1 .. Len(data) : Big(data)[n] = Big(data)[n - 1] * ByteRadix + data[n]
<1> DEFINE N     == Len(data)
           F     == [x \in (0 + 1 .. N) \X Nat |-> x[2] * ByteRadix + data[x[1]]]
           Eq(g) == g = [n \in 0 .. N |-> IF n = 0 THEN 0
                                          ELSE g[n - 1] * (2 * Radix) + data[n]]
<1>1. N \in Nat /\ ByteRadix \in Nat /\ \A n \in 1 .. N : data[n] \in Nat
  BY ByteIs, ByteRadixIs
<1>2. F \in [(0 + 1 .. N) \X Nat -> Nat]
  <2>1. \A x \in (0 + 1 .. N) \X Nat : x[2] * ByteRadix + data[x[1]] \in Nat
    <3> TAKE x \in (0 + 1 .. N) \X Nat
    <3>1. x[2] \in Nat /\ data[x[1]] \in Nat
      BY <1>1
    <3> QED
      BY <1>1, <3>1
  <2> QED
    BY <2>1
<1>3. PICK g : CountsTo(g, Nat, 0, N, 0, F)
  <2>1. Counts(Nat, 0, N, 0, F)
    <3> HIDE DEF F, N
    <3> QED
      BY <1>1, <1>2 DEF Counts
  <2> HIDE DEF F, N
  <2> QED
    BY <2>1, Iteration
<1>4. g \in [0 .. N -> Nat] /\ g[0] = 0
  <2> HIDE DEF F, N
  <2> QED
    BY <1>3 DEF CountsTo
<1>5. \A n \in 1 .. N : g[n] = g[n - 1] * ByteRadix + data[n]
  <2> TAKE n \in 1 .. N
  <2>1. n - 1 \in 0 .. N /\ n \in 0 + 1 .. N
    OBVIOUS
  <2>2. g[n - 1] \in Nat /\ g[n] = F[<<n, g[n - 1]>>]
    <3> HIDE DEF F, N
    <3> QED
      BY <1>3, <1>4, <2>1 DEF CountsTo
  <2> QED
    BY <2>2
<1>6. Eq(g)
  <2>1. \A n \in 0 .. N : g[n] = IF n = 0 THEN 0 ELSE g[n - 1] * (2 * Radix) + data[n]
    <3> HIDE DEF N
    <3> QED
      BY <1>1, <1>4, <1>5 DEF ByteRadix
  <2>2. g = [n \in 0 .. N |-> g[n]]
    BY <1>4
  <2> QED
    BY <2>1, <2>2
<1>7. Big(data) = CHOOSE f : Eq(f)
  BY DEF Big
<1>8. Eq(Big(data))
  <2> HIDE DEF Eq
  <2> QED
    BY <1>6, <1>7
<1>9. \A n \in 0 .. N : Big(data)[n] = IF n = 0 THEN 0
                                       ELSE Big(data)[n - 1] * ByteRadix + data[n]
  BY <1>8 DEF ByteRadix
<1>10. \A n \in 0 .. N : Big(data)[n] \in Nat
  <2> DEFINE S == {n \in 0 .. N : Big(data)[n] \in Nat}
  <2>1. 0 \in S
    BY <1>9
  <2>2. ASSUME NEW n \in 0 .. N - 1, n \in S
        PROVE  n + 1 \in S
    <3>1. n + 1 \in 1 .. N /\ (n + 1) - 1 = n /\ n + 1 \in 0 .. N /\ n + 1 # 0
      OBVIOUS
    <3>2. Big(data)[n + 1] = Big(data)[n] * ByteRadix + data[n + 1]
      BY <1>9, <3>1
    <3>3. Big(data)[n] \in Nat /\ data[n + 1] \in Nat
      BY <1>1, <2>2, <3>1
    <3> QED
      BY <1>1, <3>1, <3>2, <3>3
  <2> HIDE DEF S
  <2>3. \A n \in 0 .. N : n \in S
    BY <1>1, <2>1, <2>2, Counting
  <2> QED
    BY <2>3 DEF S
<1>11. \A n \in 1 .. N : Big(data)[n] = Big(data)[n - 1] * ByteRadix + data[n]
  BY <1>9
<1>12. Big(data)[0] = 0
  BY <1>1, <1>9
<1> HIDE DEF N
<1> QED
  BY <1>10, <1>11, <1>12 DEF N

LEMMA BigBound ==
    ASSUME NEW data \in Seq(Octet)
    PROVE  \A n \in 0 .. Len(data) : Big(data)[n] < Bytes(n)
<1> DEFINE N == Len(data)
           S == {n \in 0 .. N : Big(data)[n] < Bytes(n)}
<1>1. 0 \in S
  <2>1. 0 \in 0 .. N /\ Big(data)[0] = 0 /\ Bytes(0) = 1
    BY BigStep, BytesHold
  <2> QED
    BY <2>1
<1>2. ASSUME NEW n \in 0 .. N - 1, n \in S
      PROVE  n + 1 \in S
  <2> DEFINE w == Bytes(n)
             d == Big(data)[n]
             x == data[n + 1]
  <2>1. n + 1 \in 1 .. N /\ n \in 0 .. N /\ n \in Nat /\ (n + 1) - 1 = n
    OBVIOUS
  <2>2. d < w
    BY <1>2
  <2>3. x \in 0 .. ByteRadix - 1 /\ ByteRadix \in Nat
    BY <2>1, ByteIs, ByteRadixIs
  <2>4. w \in Nat \ {0} /\ Bytes(n + 1) = w * ByteRadix
    BY <2>1, BytesHold
  <2>5. d \in Nat /\ Big(data)[n + 1] = d * ByteRadix + x
    BY <2>1, BigStep
  <2> HIDE DEF w, x, d
  <2>6. d * ByteRadix + ByteRadix <= w * ByteRadix /\ d * ByteRadix \in Nat /\ w * ByteRadix \in Nat
    BY <2>2, <2>3, <2>4, <2>5, Product
  <2>7. Big(data)[n + 1] < Bytes(n + 1)
    BY <2>3, <2>4, <2>5, <2>6
  <2> QED
    BY <2>7
<1> HIDE DEF S
<1>3. Len(data) \in Nat
  OBVIOUS
<1>4. \A n \in 0 .. N : n \in S
  BY <1>1, <1>2, <1>3, Counting
<1> QED
  BY <1>4 DEF S

LEMMA BigPrefix ==
    ASSUME NEW s \in Seq(Octet), NEW x \in Octet
    PROVE  Big(Append(s, x))[Len(s) + 1] = Big(s)[Len(s)] * ByteRadix + x
<1> DEFINE data == Append(s, x)
           S    == {n \in 0 .. Len(s) : Big(data)[n] = Big(s)[n]}
<1>1. /\ data \in Seq(Octet) /\ Len(data) = Len(s) + 1 /\ Len(s) \in Nat
      /\ \A n \in 1 .. Len(s) : data[n] = s[n]
      /\ data[Len(s) + 1] = x
  OBVIOUS
<1> HIDE DEF data
<1>2. 0 \in S
  BY <1>1, BigStep
<1>3. ASSUME NEW n \in 0 .. Len(s) - 1, n \in S
      PROVE  n + 1 \in S
  <2>1. n + 1 \in 1 .. Len(s) /\ n + 1 \in 1 .. Len(data) /\ (n + 1) - 1 = n
        /\ n + 1 \in 0 .. Len(s)
    BY <1>1
  <2>2. /\ Big(data)[n + 1] = Big(data)[n] * ByteRadix + data[n + 1]
        /\ Big(s)[n + 1] = Big(s)[n] * ByteRadix + s[n + 1]
    BY <1>1, <2>1, BigStep
  <2> QED
    BY <1>1, <1>3, <2>1, <2>2
<1> HIDE DEF S
<1>4. \A n \in 0 .. Len(s) : n \in S
  BY <1>1, <1>2, <1>3, Counting
<1>5. Big(data)[Len(s)] = Big(s)[Len(s)]
  BY <1>1, <1>4 DEF S
<1>6. Len(s) + 1 \in 1 .. Len(data) /\ (Len(s) + 1) - 1 = Len(s)
  BY <1>1
<1>7. Big(data)[Len(s) + 1] = Big(data)[Len(s)] * ByteRadix + data[Len(s) + 1]
  BY <1>1, <1>6, BigStep
<1> QED
  BY <1>1, <1>5, <1>7 DEF data

\* A length as it is written.
LEMMA LengthDigits ==
    ASSUME NEW n \in Nat
    PROVE  /\ Digits(ByteRadix)[n] \in Seq(Octet)
           /\ Len(Digits(ByteRadix)[n]) >= 1
           /\ Big(Digits(ByteRadix)[n])[Len(Digits(ByteRadix)[n])] = n
           /\ \A m \in Nat : m >= 1 /\ n < Bytes(m) => Len(Digits(ByteRadix)[n]) <= m
<1> DEFINE d(k) == Digits(ByteRadix)[k]
           Good(k) == /\ d(k) \in Seq(Octet) /\ Len(d(k)) >= 1
                      /\ Big(d(k))[Len(d(k))] = k
                      /\ \A m \in Nat : m >= 1 /\ k < Bytes(m) => Len(d(k)) <= m
           S == {k \in Nat : Good(k)}
<1>0. /\ ByteRadix \in Nat /\ ByteRadix >= 2 /\ ByteRadix > 0
      /\ \A k \in Nat : d(k) \in Seq(Octet)
  <2>1. ByteRadix \in Nat /\ ByteRadix >= 2 /\ ByteRadix > 0 /\ Octet = 0 .. ByteRadix - 1
    BY ByteRadixIs
  <2>2. \A k \in Nat : d(k) \in Seq(0 .. ByteRadix - 1)
    BY <2>1, DigitsStep
  <2> QED
    BY <2>1, <2>2
<1>1. ASSUME NEW k \in Nat, \A m \in Nat : m < k => m \in S
      PROVE  k \in S
  <2>1. CASE k < ByteRadix
    <3> DEFINE s == d(k)
    <3>1. s = <<k>> /\ s \in Seq(Octet)
      BY <1>0, <2>1, DigitsStep
    <3>2. Len(s) = 1 /\ s[1] = k
      BY <3>1
    <3> HIDE DEF s
    <3>3. Big(s)[1] = Big(s)[0] * ByteRadix + s[1] /\ Big(s)[0] = 0
      <4>1. 1 \in 1 .. Len(s) /\ 1 - 1 = 0
        BY <3>2
      <4> QED
        BY <3>1, <4>1, BigStep
    <3>4. Big(s)[1] = k
      BY <1>0, <3>2, <3>3
    <3>5. Good(k)
      BY <3>1, <3>2, <3>4 DEF s
    <3> QED
      BY <3>5
  <2>2. CASE ~(k < ByteRadix)
    <3> DEFINE q == k \div ByteRadix
               x == k % ByteRadix
               s == d(q)
    <3>1. /\ q \in Nat /\ q < k /\ d(k) = Append(s, x) /\ x \in Octet
          /\ k = q * ByteRadix + x
      BY <1>0, <2>2, DigitsStep, ByteRadixIs
    <3>2. Good(q)
      BY <1>1, <3>1
    <3>3. s \in Seq(Octet) /\ Len(s) >= 1 /\ Len(s) \in Nat /\ Big(s)[Len(s)] = q
      BY <3>2
    <3>4. Len(d(k)) = Len(s) + 1 /\ d(k) \in Seq(Octet)
      BY <1>0, <3>1, <3>3, Appended
    <3>5. ASSUME NEW m \in Nat, m >= 1, k < Bytes(m)
          PROVE  Len(d(k)) <= m
      <4> DEFINE c == m - 1
      <4>1. m # 1
        BY <1>0, <2>2, <3>5, BytesHold
      <4>2. c \in Nat /\ c >= 1 /\ m = c + 1
        BY <3>5, <4>1
      <4> HIDE DEF c
      <4>3. Bytes(m) = Bytes(c) * ByteRadix /\ Bytes(c) \in Nat
        BY <4>2, BytesHold
      <4> DEFINE w == Bytes(c)
      <4>4. q < w
        <5>1. w \in Nat /\ x \in Nat /\ k = q * ByteRadix + x /\ k < w * ByteRadix /\ q \in Nat
          BY <3>1, <3>5, <4>3, OctetIs
        <5> HIDE DEF w, q, x
        <5>2. ~(w <= q)
          <6>1. w <= q => w * ByteRadix <= q * ByteRadix
            BY <1>0, <5>1, Product
          <6>2. q * ByteRadix \in Nat /\ w * ByteRadix \in Nat
            BY <1>0, <5>1, Product
          <6> QED
            BY <5>1, <6>1, <6>2
        <5> QED
          BY <5>1, <5>2
      <4>5. Len(s) <= c
        BY <3>2, <4>2, <4>4
      <4> HIDE DEF s
      <4> QED
        BY <3>3, <3>4, <4>2, <4>5
    <3>6. Big(d(k))[Len(d(k))] = k
      <4>1. Big(Append(s, x))[Len(s) + 1] = Big(s)[Len(s)] * ByteRadix + x
        BY <3>1, <3>3, BigPrefix
      <4> QED
        BY <3>1, <3>3, <3>4, <4>1
    <3>7. Len(d(k)) >= 1
      BY <3>3, <3>4
    <3> HIDE DEF d, q, x, s
    <3> QED
      BY <3>4, <3>5, <3>6, <3>7
  <2> QED
    BY <2>1, <2>2
<1> HIDE DEF S
<1>2. Nat \subseteq S
  BY <1>1, Induction
<1> QED
  BY <1>2 DEF S

-----------------------------------------------------------------------------
(* Object identifiers.                                                      *)

ArcState == [arcs : Seq(Nat), value : Nat]

\* What decode_oid does with a byte after the first.
ArcStep(st, b) ==
    LET v == ((st.value * Radix) % Power[WordBits]) + (b % Radix)
    IN  IF b < Radix THEN [arcs |-> Append(st.arcs, v), value |-> 0]
        ELSE [arcs |-> st.arcs, value |-> v]

FirstArcs(b) == [arcs |-> <<b \div FirstRadix, b % FirstRadix>>, value |-> 0]

LEMMA ArcStates ==
    ASSUME NEW b \in Octet
    PROVE  /\ FirstArcs(b) \in ArcState
           /\ \A st \in ArcState : ArcStep(st, b) \in ArcState
<1>1. b \in Nat /\ b % Radix \in Nat
  BY OctetIs, RadixIs, Division
<1>2. FirstArcs(b) \in ArcState
  <2>1. b \div FirstRadix \in Nat /\ b % FirstRadix \in Nat
    <3>1. FirstRadix \in Nat \ {0} /\ FirstRadix \in Nat
      BY OidAssumption
    <3>2. b \in Nat
      BY <1>1
    <3>3. b \div FirstRadix \in Nat /\ b % FirstRadix \in 0 .. FirstRadix - 1
      BY <3>1, <3>2, Division
    <3> QED
      BY <3>1, <3>3
  <2>2. <<b \div FirstRadix, b % FirstRadix>> \in Seq(Nat)
    BY <2>1
  <2> QED
    BY <2>2 DEF FirstArcs, ArcState
<1>3. ASSUME NEW st \in ArcState
      PROVE  ArcStep(st, b) \in ArcState
  <2> DEFINE v == ((st.value * Radix) % Power[WordBits]) + (b % Radix)
  <2>1. st.value \in Nat /\ st.arcs \in Seq(Nat)
    BY DEF ArcState
  <2>2. v \in Nat
    <3>1. st.value * Radix \in Nat
      BY <2>1, RadixIs
    <3>2. (st.value * Radix) % Power[WordBits] \in Nat
      BY <3>1, WordIs, Division
    <3> QED
      BY <1>1, <3>2
  <2>3. ArcStep(st, b) = IF b < Radix THEN [arcs |-> Append(st.arcs, v), value |-> 0]
                         ELSE [arcs |-> st.arcs, value |-> v]
    BY DEF ArcStep
  <2> HIDE DEF v
  <2>4. Append(st.arcs, v) \in Seq(Nat)
    BY <2>1, <2>2
  <2> QED
    BY <2>1, <2>2, <2>3, <2>4 DEF ArcState
<1> QED
  BY <1>2, <1>3

LEMMA ArcsReadStep ==
    ASSUME NEW data \in Seq(Octet), Len(data) >= 1
    PROVE  /\ ArcsRead(data)[1] = FirstArcs(data[1])
           /\ \A n \in 2 .. Len(data) :
                 ArcsRead(data)[n] = ArcStep(ArcsRead(data)[n - 1], data[n])
           /\ \A n \in 1 .. Len(data) : ArcsRead(data)[n] \in ArcState
<1> DEFINE N     == Len(data)
           a     == FirstArcs(data[1])
           F     == [x \in (1 + 1 .. N) \X ArcState |-> ArcStep(x[2], data[x[1]])]
           Eq(g) == g = [n \in 1 .. N |->
                IF n = 1 THEN [arcs |-> <<data[1] \div FirstRadix, data[1] % FirstRadix>>, value |-> 0]
                ELSE LET v == ((g[n - 1].value * Radix) % Power[WordBits]) + (data[n] % Radix)
                     IN  IF data[n] < Radix
                         THEN [arcs |-> Append(g[n - 1].arcs, v), value |-> 0]
                         ELSE [arcs |-> g[n - 1].arcs, value |-> v]]
           Eq2(g) == g = [n \in 1 .. N |-> IF n = 1 THEN a ELSE ArcStep(g[n - 1], data[n])]
<1>1. N \in Nat /\ N >= 1 /\ \A n \in 1 .. N : data[n] \in Octet
  OBVIOUS
<1>2. a \in ArcState
  BY <1>1, ArcStates
<1>3. F \in [(1 + 1 .. N) \X ArcState -> ArcState]
  <2>1. \A x \in (1 + 1 .. N) \X ArcState : ArcStep(x[2], data[x[1]]) \in ArcState
    <3> TAKE x \in (1 + 1 .. N) \X ArcState
    <3>1. x[2] \in ArcState /\ x[1] \in 1 .. N
      BY <1>1
    <3> QED
      BY <1>1, <3>1, ArcStates
  <2> HIDE DEF N
  <2> QED
    BY <2>1
<1>4. PICK g : CountsTo(g, ArcState, 1, N, a, F)
  <2>1. Counts(ArcState, 1, N, a, F)
    <3> HIDE DEF F, N, a
    <3> QED
      BY <1>1, <1>2, <1>3 DEF Counts
  <2> HIDE DEF F, N, a
  <2> QED
    BY <1>1, <2>1, Iteration
<1>5. g \in [1 .. N -> ArcState] /\ g[1] = a
  <2> HIDE DEF F, N, a
  <2> QED
    BY <1>4 DEF CountsTo
<1>6. \A n \in 2 .. N : g[n] = ArcStep(g[n - 1], data[n])
  <2> TAKE n \in 2 .. N
  <2>1. n - 1 \in 1 .. N /\ n \in 1 + 1 .. N
    BY <1>1
  <2>2. g[n - 1] \in ArcState /\ g[n] = F[<<n, g[n - 1]>>]
    <3> HIDE DEF F, N, a
    <3> QED
      BY <1>4, <1>5, <2>1 DEF CountsTo
  <2> HIDE DEF N
  <2> QED
    BY <2>1, <2>2
<1>7. Eq2(g)
  <2>1. \A n \in 1 .. N : g[n] = IF n = 1 THEN a ELSE ArcStep(g[n - 1], data[n])
    <3>1. \A n \in 1 .. N : n = 1 \/ n \in 2 .. N
      BY <1>1
    <3> HIDE DEF N, a
    <3> QED
      BY <1>5, <1>6, <3>1
  <2>2. g = [n \in 1 .. N |-> g[n]]
    BY <1>5
  <2> HIDE DEF N, a
  <2> QED
    BY <2>1, <2>2
<1>8. \A f : Eq(f) <=> Eq2(f)
  BY DEF ArcStep, FirstArcs
<1>9. ArcsRead(data) = CHOOSE f : Eq(f)
  BY DEF ArcsRead
<1>10. Eq(ArcsRead(data))
  <2>1. Eq(g)
    BY <1>7, <1>8
  <2> HIDE DEF Eq
  <2> QED
    BY <1>9, <2>1
<1>11. Eq2(ArcsRead(data))
  <2> HIDE DEF Eq, Eq2
  <2> QED
    BY <1>8, <1>10
<1> HIDE DEF Eq
<1>12. \A n \in 1 .. N : ArcsRead(data)[n] = IF n = 1 THEN a ELSE ArcStep(ArcsRead(data)[n - 1], data[n])
  <2> HIDE DEF a
  <2> QED
    BY <1>11
<1>13. ArcsRead(data)[1] = a
  BY <1>1, <1>12
<1>14. \A n \in 2 .. N : ArcsRead(data)[n] = ArcStep(ArcsRead(data)[n - 1], data[n])
  <2> TAKE n \in 2 .. N
  <2>1. n \in 1 .. N /\ n # 1
    BY <1>1
  <2> HIDE DEF N, a
  <2> QED
    BY <1>12, <2>1
<1>15. \A n \in 1 .. N : ArcsRead(data)[n] \in ArcState
  <2> DEFINE S == {n \in 1 .. N : ArcsRead(data)[n] \in ArcState}
  <2>1. 1 \in S
    BY <1>1, <1>2, <1>13
  <2>2. ASSUME NEW n \in 1 .. N - 1, n \in S
        PROVE  n + 1 \in S
    <3>1. n + 1 \in 2 .. N /\ (n + 1) - 1 = n /\ n + 1 \in 1 .. N
      BY <1>1
    <3>2. ArcsRead(data)[n + 1] = ArcStep(ArcsRead(data)[n], data[n + 1])
      BY <1>14, <3>1
    <3>3. ArcsRead(data)[n] \in ArcState /\ data[n + 1] \in Octet
      BY <1>1, <2>2, <3>1
    <3>4. ArcsRead(data)[n + 1] \in ArcState
      BY <3>2, <3>3, ArcStates
    <3> QED
      BY <3>1, <3>4
  <2> HIDE DEF S
  <2>3. \A n \in 1 .. N : n \in S
    BY <1>1, <2>1, <2>2, Counting
  <2> QED
    BY <2>3 DEF S
<1> QED
  BY <1>13, <1>14, <1>15

\* Where the reading of an OID stands after all of s.
After(s) == ArcsRead(s)[Len(s)]

LEMMA AfterAppend ==
    ASSUME NEW s \in Seq(Octet), Len(s) >= 1, NEW x \in Octet
    PROVE  After(Append(s, x)) = ArcStep(After(s), x) /\ After(s) \in ArcState
<1> DEFINE data == Append(s, x)
           S    == {n \in 1 .. Len(s) : ArcsRead(data)[n] = ArcsRead(s)[n]}
<1>1. /\ data \in Seq(Octet) /\ Len(data) = Len(s) + 1 /\ Len(s) \in Nat
      /\ \A n \in 1 .. Len(s) : data[n] = s[n]
      /\ data[Len(s) + 1] = x
  OBVIOUS
<1> HIDE DEF data
<1>2. Len(data) >= 1
  BY <1>1
<1>3. 1 \in S
  <2>1. ArcsRead(data)[1] = FirstArcs(data[1]) /\ ArcsRead(s)[1] = FirstArcs(s[1])
    BY <1>1, <1>2, ArcsReadStep
  <2>2. 1 \in 1 .. Len(s) /\ data[1] = s[1]
    BY <1>1
  <2> QED
    BY <2>1, <2>2
<1>4. ASSUME NEW n \in 1 .. Len(s) - 1, n \in S
      PROVE  n + 1 \in S
  <2>1. n + 1 \in 2 .. Len(s) /\ n + 1 \in 2 .. Len(data) /\ (n + 1) - 1 = n
        /\ n + 1 \in 1 .. Len(s) /\ data[n + 1] = s[n + 1]
    BY <1>1
  <2>2. /\ ArcsRead(data)[n + 1] = ArcStep(ArcsRead(data)[n], data[n + 1])
        /\ ArcsRead(s)[n + 1] = ArcStep(ArcsRead(s)[n], s[n + 1])
    BY <1>1, <1>2, <2>1, ArcsReadStep
  <2>3. ArcsRead(data)[n] = ArcsRead(s)[n]
    BY <1>4
  <2> QED
    BY <2>1, <2>2, <2>3
<1> HIDE DEF S
<1>5. \A n \in 1 .. Len(s) : n \in S
  <2>1. 1 \in Nat
    OBVIOUS
  <2> QED
    BY <1>1, <1>3, <1>4, <2>1, Counting
<1>6. ArcsRead(data)[Len(s)] = ArcsRead(s)[Len(s)]
  BY <1>1, <1>5 DEF S
<1>7. Len(data) \in 2 .. Len(data) /\ Len(data) - 1 = Len(s)
  BY <1>1
<1>8. ArcsRead(data)[Len(data)] = ArcStep(ArcsRead(data)[Len(s)], data[Len(data)])
  BY <1>1, <1>2, <1>7, ArcsReadStep
<1>9. ArcsRead(s)[Len(s)] \in ArcState
  BY <1>1, ArcsReadStep
<1> QED
  BY <1>1, <1>6, <1>8, <1>9 DEF After, data

\* The bytes of an arc of which more follow.
Running(v) == [i \in DOMAIN Digits(Radix)[v] |-> Digits(Radix)[v][i] + Radix]

LEMMA GroupsIs ==
    ASSUME NEW v \in Nat
    PROVE  /\ Digits(Radix)[v] \in Seq(0 .. Radix - 1) /\ Running(v) \in Seq(Octet)
           /\ Len(Running(v)) = Len(Digits(Radix)[v])
           /\ v < Radix => Running(v) = <<v + Radix>> /\ ArcBytes(v) = <<v>>
           /\ v >= Radix =>
                 /\ v \div Radix \in Nat /\ v \div Radix < v
                 /\ v = (v \div Radix) * Radix + (v % Radix)
                 /\ v % Radix \in 0 .. Radix - 1
                 /\ Running(v) = Append(Running(v \div Radix), (v % Radix) + Radix)
                 /\ ArcBytes(v) = Append(Running(v \div Radix), v % Radix)
<1> DEFINE g == Digits(Radix)[v]
           q == v \div Radix
           x == v % Radix
           h == Digits(Radix)[q]
<1>1. Radix \in Nat /\ Radix >= 2
  BY RadixIs
<1>2. \A k \in Nat : Digits(Radix)[k] \in Seq(0 .. Radix - 1)
  BY <1>1, DigitsStep
<1>3. ASSUME NEW k \in Nat
      PROVE  Running(k) \in Seq(Octet) /\ Len(Running(k)) = Len(Digits(Radix)[k])
  <2> DEFINE e == Digits(Radix)[k]
  <2>1. e \in Seq(0 .. Radix - 1)
    BY <1>2
  <2> HIDE DEF e
  <2>2. \A i \in 1 .. Len(e) : e[i] + Radix \in Octet
    <3> DEFINE G == 0 .. Radix - 1
    <3>1. \A i \in 1 .. Len(e) : e[i] \in G
      <4>1. e \in Seq(G)
        BY <2>1
      <4> HIDE DEF G
      <4> QED
        BY <4>1
    <3> QED
      BY <3>1, OctetIs
  <2>3. DOMAIN e = 1 .. Len(e) /\ Len(e) \in Nat
    BY <2>1
  <2>4. [i \in DOMAIN e |-> e[i] + Radix] \in [1 .. Len(e) -> Octet]
    BY <2>2, <2>3
  <2>5. /\ [i \in DOMAIN e |-> e[i] + Radix] \in Seq(Octet)
        /\ Len([i \in DOMAIN e |-> e[i] + Radix]) = Len(e)
    BY <2>3, <2>4
  <2> QED
    BY <2>5 DEF Running, e
<1>4. ASSUME v < Radix
      PROVE  Running(v) = <<v + Radix>> /\ ArcBytes(v) = <<v>>
  <2>1. g = <<v>>
    BY <1>1, <1>4, DigitsStep
  <2>2. DOMAIN g = {1} /\ g[1] = v /\ Len(g) = 1
    BY <2>1
  <2>3. Running(v) = [i \in DOMAIN g |-> g[i] + Radix]
    BY DEF Running
  <2>4. ArcBytes(v) = [i \in DOMAIN g |-> IF i < Len(g) THEN g[i] + Radix ELSE g[i]]
    BY DEF ArcBytes
  <2> HIDE DEF g
  <2>5. Running(v) = [i \in {1} |-> v + Radix] /\ ArcBytes(v) = [i \in {1} |-> v]
    BY <2>2, <2>3, <2>4
  <2> QED
    BY <2>5
<1>5. ASSUME v >= Radix
      PROVE  /\ q \in Nat /\ q < v
             /\ v = q * Radix + x
             /\ x \in 0 .. Radix - 1
             /\ g = Append(h, x)
  <2>1. ~(v < Radix)
    BY <1>1, <1>5
  <2> QED
    BY <1>1, <2>1, DigitsStep
<1>6. ASSUME v >= Radix
      PROVE  /\ Running(v) = Append(Running(q), x + Radix)
             /\ ArcBytes(v) = Append(Running(q), x)
  <2>1. /\ q \in Nat /\ x \in 0 .. Radix - 1 /\ g = Append(h, x) /\ h \in Seq(0 .. Radix - 1)
        /\ g \in Seq(0 .. Radix - 1)
    BY <1>2, <1>5, <1>6
  <2>2. /\ Len(g) = Len(h) + 1 /\ g[Len(h) + 1] = x /\ Len(h) \in Nat
        /\ \A i \in 1 .. Len(h) : g[i] = h[i]
    BY <2>1
  <2>3. /\ Running(v) = [i \in DOMAIN g |-> g[i] + Radix]
        /\ Running(q) = [i \in DOMAIN h |-> h[i] + Radix]
        /\ ArcBytes(v) = [i \in DOMAIN g |-> IF i < Len(g) THEN g[i] + Radix ELSE g[i]]
    BY DEF Running, ArcBytes
  <2>4. DOMAIN g = 1 .. Len(g) /\ DOMAIN h = 1 .. Len(h)
    BY <2>1
  <2>5. Running(q) \in Seq(Octet) /\ Len(Running(q)) = Len(h) /\ Running(v) \in Seq(Octet)
        /\ Len(Running(v)) = Len(g)
    BY <1>3, <2>1
  <2>6. \A i \in 1 .. Len(h) : Running(q)[i] = h[i] + Radix
    BY <2>3, <2>4
  <2>7. x + Radix \in Octet /\ x \in Octet
    BY <2>1, OctetIs
  <2> HIDE DEF g, h, q, x
  <2>8. Append(Running(q), x + Radix) = Running(v)
    <3> DEFINE a == Append(Running(q), x + Radix)
    <3>1. /\ a \in Seq(Octet) /\ Len(a) = Len(h) + 1 /\ a[Len(h) + 1] = x + Radix
          /\ \A i \in 1 .. Len(h) : a[i] = Running(q)[i]
      BY <2>2, <2>5, <2>7
    <3> HIDE DEF a
    <3>2. ASSUME NEW i \in 1 .. Len(a)
          PROVE  a[i] = Running(v)[i]
      <4>1. i \in DOMAIN g /\ (i \in 1 .. Len(h) \/ i = Len(h) + 1)
        BY <2>2, <2>4, <3>1
      <4>2. Running(v)[i] = g[i] + Radix
        BY <2>3, <4>1
      <4> QED
        BY <2>2, <2>6, <3>1, <4>1, <4>2
    <3> QED
      BY <2>2, <2>5, <3>1, <3>2, SameSequence DEF a
  <2>9. Append(Running(q), x) = ArcBytes(v)
    <3> DEFINE a == Append(Running(q), x)
    <3>1. /\ a \in Seq(Octet) /\ Len(a) = Len(h) + 1 /\ a[Len(h) + 1] = x
          /\ \A i \in 1 .. Len(h) : a[i] = Running(q)[i]
      BY <2>2, <2>5, <2>7
    <3> HIDE DEF a
    <3>2. ASSUME NEW i \in DOMAIN g
          PROVE  a[i] = IF i < Len(g) THEN g[i] + Radix ELSE g[i]
      <4>1. (i \in 1 .. Len(h) /\ i < Len(g)) \/ (i = Len(h) + 1 /\ ~(i < Len(g)))
        BY <2>2, <2>4
      <4> QED
        BY <2>2, <2>6, <3>1, <4>1
    <3>3. a = [i \in 1 .. Len(a) |-> a[i]] /\ 1 .. Len(a) = DOMAIN g
      BY <2>2, <2>4, <3>1
    <3> QED
      BY <2>3, <3>2, <3>3 DEF a
  <2> QED
    BY <2>8, <2>9
<1> QED
  BY <1>2, <1>3, <1>4, <1>5, <1>6

\* Between two arcs.
Rested(st) == st \in ArcState /\ st.value = 0

\* A part of an arc is put together as it was taken apart, and does not wrap.
LEMMA RunningRead ==
    ASSUME NEW s \in Seq(Octet), Len(s) >= 1, Rested(After(s)), NEW v \in Word
    PROVE  /\ s \o Running(v) \in Seq(Octet) /\ Len(s \o Running(v)) >= 1
           /\ After(s \o Running(v)) = [arcs |-> After(s).arcs, value |-> v]
<1> DEFINE s2(k) == s \o Running(k)
           Good(k) == /\ s2(k) \in Seq(Octet) /\ Len(s2(k)) >= 1
                      /\ After(s2(k)) = [arcs |-> After(s).arcs, value |-> k]
           S == {k \in Word : Good(k)}
           top == Power[WordBits]
<1>1. \A k \in Word : k \in Nat /\ k < top
  BY WordIs DEF Word
<1>2. top \in Nat /\ top > 0 /\ Radix \in Nat /\ Radix > 0 /\ Radix >= 2
  BY WordIs, RadixIs
<1>3. \A k \in Word : s2(k) \in Seq(Octet) /\ Len(s2(k)) >= 1
  <2> TAKE k \in Word
  <2>1. Running(k) \in Seq(Octet)
    BY <1>1, GroupsIs
  <2>2. Len(s2(k)) = Len(s) + Len(Running(k)) /\ s2(k) \in Seq(Octet)
        /\ Len(s) \in Nat /\ Len(Running(k)) \in Nat
    BY <2>1, Joined
  <2> QED
    BY <2>2
<1>4. ASSUME NEW k \in Word, \A m \in Word : m < k => m \in S
      PROVE  k \in S
  <2>1. CASE k < Radix
    <3>1. s2(k) = Append(s, k + Radix) /\ k + Radix \in Octet
      <4>1. Running(k) = <<k + Radix>> /\ k \in 0 .. Radix - 1
        <5>1. k \in Nat /\ k \in 0 .. Radix - 1
          BY <1>1, <1>2, <2>1
        <5> QED
          BY <2>1, <5>1, GroupsIs
      <4>2. k + Radix \in Octet
        BY <4>1, OctetIs
      <4> QED
        BY <4>1, <4>2, Appended
    <3>2. After(s2(k)) = ArcStep(After(s), k + Radix)
      BY <3>1, AfterAppend
    <3>3. After(s).value = 0
      BY DEF Rested
    <3>4. (0 * Radix) % top = 0 /\ (k + Radix) % Radix = k /\ ~(k + Radix < Radix)
      <4>1. 0 * Radix = 0 /\ 0 % top = 0
        BY <1>2
      <4>2. 1 * Radix + k = k + Radix /\ k \in 0 .. Radix - 1 /\ Radix \in Nat \ {0}
        BY <1>1, <1>2, <2>1
      <4>3. (1 * Radix + k) % Radix = k
        BY <4>2, DivisionIs
      <4>4. ~(k + Radix < Radix)
        BY <1>1, <1>2
      <4> QED
        BY <4>1, <4>2, <4>3, <4>4
    <3>5. ArcStep(After(s), k + Radix) = [arcs |-> After(s).arcs, value |-> 0 + k]
      <4> HIDE DEF top
      <4> QED
        BY <3>3, <3>4 DEF ArcStep, top
    <3>6. 0 + k = k
      BY <1>1
    <3>7. Good(k)
      BY <1>3, <3>2, <3>5, <3>6
    <3> QED
      BY <3>7
  <2>2. CASE ~(k < Radix)
    <3> DEFINE q == k \div Radix
               x == k % Radix
    <3>1. /\ q \in Nat /\ q < k /\ k = q * Radix + x /\ x \in 0 .. Radix - 1
          /\ Running(k) = Append(Running(q), x + Radix)
      <4>1. k >= Radix /\ k \in Nat
        BY <1>1, <1>2, <2>2
      <4> QED
        BY <4>1, GroupsIs
    <3> HIDE DEF q, x
    <3>2. q \in Word /\ Good(q)
      <4>1. q \in Word
        BY <1>1, <1>2, <3>1 DEF Word
      <4> QED
        BY <1>4, <3>1, <4>1
    <3>3. x + Radix \in Octet
      BY <3>1, OctetIs
    <3>4. s2(k) = Append(s2(q), x + Radix)
      <4>1. Running(q) \in Seq(Octet) /\ <<x + Radix>> \in Seq(Octet)
        BY <3>1, <3>3, GroupsIs
      <4>2. Running(k) = Running(q) \o <<x + Radix>>
        BY <3>1, <3>3, <4>1, Appended
      <4>3. s \o (Running(q) \o <<x + Radix>>) = s2(q) \o <<x + Radix>>
        <5> DEFINE y == <<x + Radix>>
                   z == Running(q)
        <5>1. y \in Seq(Octet) /\ z \in Seq(Octet)
          BY <4>1
        <5> HIDE DEF y, z
        <5>2. s \o (z \o y) = (s \o z) \o y
          BY <5>1, Joins
        <5> QED
          BY <5>2 DEF y, z
      <4>4. s2(q) \o <<x + Radix>> = Append(s2(q), x + Radix)
        BY <3>2, <3>3, Appended
      <4> QED
        BY <4>2, <4>3, <4>4
    <3>5. After(s2(k)) = ArcStep(After(s2(q)), x + Radix)
      <4>1. s2(q) \in Seq(Octet) /\ Len(s2(q)) >= 1
        BY <3>2
      <4> HIDE DEF s2
      <4> QED
        BY <3>3, <3>4, <4>1, AfterAppend
    <3>6. (q * Radix) % top = q * Radix /\ (x + Radix) % Radix = x /\ ~(x + Radix < Radix)
      <4>1. q * Radix \in Nat /\ q * Radix <= k /\ k < top /\ k \in Nat /\ x \in Nat
        <5>1. q * Radix \in Nat
          BY <1>2, <3>1, Product
        <5> QED
          BY <1>1, <1>2, <3>1, <5>1
      <4>2. q * Radix < top
        BY <1>2, <4>1
      <4>3. (q * Radix) % top = q * Radix
        <5> HIDE DEF top
        <5> QED
          BY <1>2, <4>1, <4>2, Modulus
      <4>4. 1 * Radix + x = x + Radix /\ Radix \in Nat \ {0}
        BY <1>2, <4>1
      <4>5. (1 * Radix + x) % Radix = x
        BY <3>1, <4>4, DivisionIs
      <4>6. ~(x + Radix < Radix)
        BY <1>2, <4>1
      <4> QED
        BY <4>3, <4>4, <4>5, <4>6
    <3>7. After(s2(q)).value = q /\ After(s2(q)).arcs = After(s).arcs
      BY <3>2
    <3>8. ArcStep(After(s2(q)), x + Radix) = [arcs |-> After(s).arcs, value |-> q * Radix + x]
      BY <3>6, <3>7 DEF ArcStep, top
    <3>9. Good(k)
      BY <1>3, <3>1, <3>5, <3>8
    <3> QED
      BY <3>9
  <2> QED
    BY <2>1, <2>2
<1> HIDE DEF S
<1>5. Word \subseteq S
  BY <1>4, Induction, WordIs
<1> QED
  BY <1>5 DEF S

\* A whole arc is added to those before it.
LEMMA ArcRead ==
    ASSUME NEW s \in Seq(Octet), Len(s) >= 1, Rested(After(s)), NEW v \in Word
    PROVE  /\ ArcBytes(v) \in Seq(Octet)
           /\ s \o ArcBytes(v) \in Seq(Octet) /\ Len(s \o ArcBytes(v)) >= 1
           /\ Rested(After(s \o ArcBytes(v)))
           /\ After(s \o ArcBytes(v)).arcs = Append(After(s).arcs, v)
<1> DEFINE a   == ArcBytes(v)
           top == Power[WordBits]
           w   == s \o a
           end == [arcs |-> Append(After(s).arcs, v), value |-> 0]
<1>1. v \in Nat /\ v < top /\ top \in Nat /\ top > 0 /\ Radix \in Nat /\ Radix > 0
  BY WordIs, RadixIs DEF Word
<1>2. a \in Seq(Octet) /\ After(w) = end
  <2>1. CASE v < Radix
    <3>1. a = <<v>>
      BY <1>1, <2>1, GroupsIs
    <3>2. v \in Octet
      <4>1. v \in 0 .. Radix - 1
        BY <1>1, <2>1
      <4> QED
        BY <4>1, OctetIs
    <3>3. w = Append(s, v)
      <4>1. s \o <<v>> = Append(s, v)
        BY <3>2, Appended
      <4> QED
        BY <3>1, <4>1
    <3>4. After(Append(s, v)) = ArcStep(After(s), v)
      BY <3>2, AfterAppend
    <3>5. After(s).value = 0
      BY DEF Rested
    <3>6. (0 * Radix) % top = 0 /\ v % Radix = v /\ 0 + v = v
      <4>1. 0 * Radix = 0 /\ 0 % top = 0
        BY <1>1
      <4>2. v % Radix = v
        BY <1>1, <2>1, Modulus
      <4> QED
        BY <1>1, <4>1, <4>2
    <3>7. ArcStep(After(s), v) = end
      <4> HIDE DEF top
      <4> QED
        BY <2>1, <3>5, <3>6 DEF ArcStep, top
    <3>8. <<v>> \in Seq(Octet)
      BY <3>2
    <3> HIDE DEF w, a, end
    <3> QED
      BY <3>1, <3>3, <3>4, <3>7, <3>8
  <2>2. CASE ~(v < Radix)
    <3> DEFINE q == v \div Radix
               x == v % Radix
               u == s \o Running(q)
    <3>1. /\ q \in Nat /\ q < v /\ v = q * Radix + x /\ x \in 0 .. Radix - 1
          /\ a = Append(Running(q), x)
      <4>1. v >= Radix /\ v \in Nat
        BY <1>1, <2>2
      <4> QED
        BY <4>1, GroupsIs
    <3> HIDE DEF q, x
    <3>2. q \in Word
      BY <1>1, <3>1 DEF Word
    <3>3. /\ u \in Seq(Octet) /\ Len(u) >= 1
          /\ After(u) = [arcs |-> After(s).arcs, value |-> q]
      BY <3>2, RunningRead
    <3>4. x \in Octet /\ Running(q) \in Seq(Octet)
      BY <3>1, OctetIs, GroupsIs
    <3>5. a \in Seq(Octet) /\ w = Append(u, x)
      <4> DEFINE y == <<x>>
                 z == Running(q)
      <4>1. y \in Seq(Octet) /\ z \in Seq(Octet)
        BY <3>4
      <4>2. a = z \o y /\ a \in Seq(Octet)
        BY <3>1, <3>4, Appended
      <4>3. u \o y = Append(u, x)
        <5> HIDE DEF u
        <5> QED
          BY <3>3, <3>4, Appended
      <4> HIDE DEF y, z, a
      <4>4. s \o (z \o y) = (s \o z) \o y
        BY <4>1, Joins
      <4> QED
        BY <4>2, <4>3, <4>4 DEF z
    <3> HIDE DEF u
    <3>6. After(Append(u, x)) = ArcStep(After(u), x)
      BY <3>3, <3>4, AfterAppend
    <3>7. (q * Radix) % top = q * Radix /\ x % Radix = x /\ x < Radix
      <4>1. q * Radix \in Nat /\ x \in Nat /\ x < Radix
        BY <1>1, <3>1, Product
      <4>2. q * Radix < top
        BY <1>1, <3>1, <4>1
      <4>3. (q * Radix) % top = q * Radix
        <5> HIDE DEF top
        <5> QED
          BY <1>1, <4>1, <4>2, Modulus
      <4>4. x % Radix = x
        BY <1>1, <4>1, Modulus
      <4> QED
        BY <4>1, <4>3, <4>4
    <3>8. After(u).value = q /\ After(u).arcs = After(s).arcs
      BY <3>3
    <3>9. ArcStep(After(u), x) = [arcs |-> Append(After(s).arcs, q * Radix + x), value |-> 0]
      BY <3>7, <3>8 DEF ArcStep, top
    <3> HIDE DEF w, a
    <3> QED
      BY <3>1, <3>5, <3>6, <3>9
  <2> QED
    BY <2>1, <2>2
<1>3. Len(w) = Len(s) + Len(a) /\ w \in Seq(Octet) /\ Len(s) \in Nat /\ Len(a) \in Nat
  BY <1>2, Joined
<1>4. end \in ArcState
  <2>1. After(s).arcs \in Seq(Nat)
    BY DEF Rested, ArcState
  <2>2. Append(After(s).arcs, v) \in Seq(Nat)
    BY <1>1, <2>1
  <2> QED
    BY <2>2 DEF ArcState
<1>5. Len(w) >= 1
  BY <1>3
<1>6. Rested(After(w)) /\ After(w).arcs = Append(After(s).arcs, v)
  BY <1>2, <1>4 DEF Rested
<1> QED
  BY <1>2, <1>3, <1>5, <1>6

IsOid(oid) ==
    /\ oid \in Seq(Word) /\ Len(oid) >= 2
    /\ oid[2] < FirstRadix
    /\ oid[1] * FirstRadix + oid[2] \in Octet

LEMMA OidBytesStep ==
    ASSUME NEW oid, IsOid(oid)
    PROVE  /\ OidBytes(oid)[2] = <<oid[1] * FirstRadix + oid[2]>>
           /\ \A n \in 3 .. Len(oid) : OidBytes(oid)[n] = OidBytes(oid)[n - 1] \o ArcBytes(oid[n])
<1> DEFINE N     == Len(oid)
           X     == Seq(Octet)
           a     == <<oid[1] * FirstRadix + oid[2]>>
           F     == [x \in (2 + 1 .. N) \X X |-> x[2] \o ArcBytes(oid[x[1]])]
           Eq(g) == g = [n \in 2 .. N |-> IF n = 2 THEN a ELSE g[n - 1] \o ArcBytes(oid[n])]
<1>1. N \in Nat /\ N >= 2 /\ \A n \in 1 .. N : oid[n] \in Word
  BY DEF IsOid
<1>2. a \in X
  BY DEF IsOid
<1>3. \A v \in Word : ArcBytes(v) \in Seq(Octet)
  <2> TAKE v \in Word
  <2>1. v \in Nat /\ Radix \in Nat
    BY WordIs, RadixIs
  <2>2. CASE v < Radix
    <3>1. ArcBytes(v) = <<v>> /\ v \in 0 .. Radix - 1
      <4>1. v \in 0 .. Radix - 1
        BY <2>1, <2>2
      <4> QED
        BY <2>1, <2>2, <4>1, GroupsIs
    <3> QED
      BY <3>1, OctetIs
  <2>3. CASE ~(v < Radix)
    <3> DEFINE q == v \div Radix
               x == v % Radix
    <3>1. q \in Nat /\ x \in 0 .. Radix - 1 /\ ArcBytes(v) = Append(Running(q), x)
      <4>1. v >= Radix
        BY <2>1, <2>3
      <4> QED
        BY <2>1, <4>1, GroupsIs
    <3> HIDE DEF q, x
    <3>2. x \in Octet /\ Running(q) \in Seq(Octet)
      BY <3>1, OctetIs, GroupsIs
    <3> QED
      BY <3>1, <3>2
  <2> QED
    BY <2>2, <2>3
<1>4. F \in [(2 + 1 .. N) \X X -> X]
  <2>1. \A x \in (2 + 1 .. N) \X X : x[2] \o ArcBytes(oid[x[1]]) \in X
    <3> TAKE x \in (2 + 1 .. N) \X X
    <3>1. x[2] \in Seq(Octet) /\ x[1] \in 1 .. N
      BY <1>1
    <3>2. ArcBytes(oid[x[1]]) \in Seq(Octet)
      BY <1>1, <1>3, <3>1
    <3> QED
      BY <3>1, <3>2, Joined
  <2> HIDE DEF N, X
  <2> QED
    BY <2>1
<1>5. PICK g : CountsTo(g, X, 2, N, a, F)
  <2>1. Counts(X, 2, N, a, F)
    <3> HIDE DEF F, N, a, X
    <3> QED
      BY <1>1, <1>2, <1>4 DEF Counts
  <2> HIDE DEF F, N, a, X
  <2> QED
    BY <1>1, <2>1, Iteration
<1>6. g \in [2 .. N -> X] /\ g[2] = a
  <2> HIDE DEF F, N, a, X
  <2> QED
    BY <1>5 DEF CountsTo
<1>7. \A n \in 3 .. N : g[n] = g[n - 1] \o ArcBytes(oid[n])
  <2> TAKE n \in 3 .. N
  <2>1. n - 1 \in 2 .. N /\ n \in 2 + 1 .. N
    BY <1>1
  <2>2. g[n - 1] \in X /\ g[n] = F[<<n, g[n - 1]>>]
    <3> HIDE DEF F, N, a, X
    <3> QED
      BY <1>5, <1>6, <2>1 DEF CountsTo
  <2> HIDE DEF N, X
  <2> QED
    BY <2>1, <2>2
<1>8. Eq(g)
  <2>1. \A n \in 2 .. N : g[n] = IF n = 2 THEN a ELSE g[n - 1] \o ArcBytes(oid[n])
    <3>1. \A n \in 2 .. N : n = 2 \/ n \in 3 .. N
      BY <1>1
    <3> HIDE DEF N, a
    <3> QED
      BY <1>6, <1>7, <3>1
  <2>2. g = [n \in 2 .. N |-> g[n]]
    BY <1>6
  <2> HIDE DEF N, a
  <2> QED
    BY <2>1, <2>2
<1>9. OidBytes(oid) = CHOOSE f : Eq(f)
  BY DEF OidBytes
<1>10. Eq(OidBytes(oid))
  <2> HIDE DEF Eq
  <2> QED
    BY <1>8, <1>9
<1>11. \A n \in 2 .. N : OidBytes(oid)[n] = IF n = 2 THEN a
                                            ELSE OidBytes(oid)[n - 1] \o ArcBytes(oid[n])
  <2> HIDE DEF a
  <2> QED
    BY <1>10
<1>12. OidBytes(oid)[2] = a
  <2>1. 2 \in 2 .. N
    BY <1>1
  <2> HIDE DEF N, a
  <2> QED
    BY <1>11, <2>1
<1>13. \A n \in 3 .. N : OidBytes(oid)[n] = OidBytes(oid)[n - 1] \o ArcBytes(oid[n])
  <2> TAKE n \in 3 .. N
  <2>1. n \in 2 .. N /\ n # 2
    BY <1>1
  <2> HIDE DEF N, a
  <2> QED
    BY <1>11, <2>1
<1> QED
  BY <1>12, <1>13

\* The OID is read back arc by arc.
LEMMA OidReadsBack ==
    ASSUME NEW oid, IsOid(oid)
    PROVE  /\ OidBytes(oid)[Len(oid)] \in Seq(Octet)
           /\ OidBytes(oid)[Len(oid)] # <<>>
           /\ Arcs(OidBytes(oid)[Len(oid)]) = oid
<1> DEFINE N == Len(oid)
           s(n) == OidBytes(oid)[n]
           Good(n) == /\ s(n) \in Seq(Octet) /\ Len(s(n)) >= 1
                      /\ Rested(After(s(n)))
                      /\ After(s(n)).arcs = SubSeq(oid, 1, n)
           S == {n \in 2 .. N : Good(n)}
<1>1. /\ N \in Nat /\ N >= 2 /\ oid \in Seq(Word) /\ \A n \in 1 .. N : oid[n] \in Word
      /\ FirstRadix \in Nat \ {0} /\ FirstRadix \in Nat
  BY OidAssumption DEF IsOid
<1>2. Good(2)
  <2> DEFINE b == oid[1] * FirstRadix + oid[2]
  <2>1. s(2) = <<b>> /\ b \in Octet /\ oid[2] < FirstRadix
    BY OidBytesStep DEF IsOid
  <2>2. oid[1] \in Nat /\ oid[2] \in 0 .. FirstRadix - 1
    <3> DEFINE z == oid[2]
    <3>1. oid[1] \in Word /\ z \in Word
      BY <1>1
    <3>2. z < FirstRadix
      BY <2>1
    <3> HIDE DEF z
    <3>3. z \in 0 .. FirstRadix - 1
      BY <1>1, <3>1, <3>2, WordIs
    <3> QED
      BY <3>1, <3>3, WordIs DEF z
  <2>3. b \div FirstRadix = oid[1] /\ b % FirstRadix = oid[2]
    BY <1>1, <2>2, DivisionIs
  <2> HIDE DEF b
  <2>4. <<b>> \in Seq(Octet) /\ Len(<<b>>) = 1 /\ <<b>>[1] = b
    BY <2>1
  <2>5. ArcsRead(<<b>>)[1] = FirstArcs(b)
    <3> DEFINE d == <<b>>
    <3>1. d \in Seq(Octet) /\ Len(d) >= 1 /\ d[1] = b
      BY <2>4
    <3> HIDE DEF d
    <3>2. ArcsRead(d)[1] = FirstArcs(d[1])
      BY <3>1, ArcsReadStep
    <3> QED
      BY <3>1, <3>2 DEF d
  <2>6. After(<<b>>) = [arcs |-> <<oid[1], oid[2]>>, value |-> 0]
    BY <2>3, <2>4, <2>5 DEF After, FirstArcs
  <2>7. After(<<b>>) \in ArcState
    BY <2>1, <2>4, <2>5, ArcStates DEF After
  <2>8. SubSeq(oid, 1, 2) = <<oid[1], oid[2]>>
    <3> DEFINE p == SubSeq(oid, 1, 2)
               e == <<oid[1], oid[2]>>
    <3>1. p \in Seq(Word) /\ Len(p) = 2 /\ \A i \in 1 .. 2 : p[i] = oid[i]
      BY <1>1, Start
    <3>2. e \in Seq(Word) /\ Len(e) = 2 /\ e[1] = oid[1] /\ e[2] = oid[2]
      BY <1>1
    <3> HIDE DEF p, e
    <3>3. \A i \in 1 .. Len(p) : p[i] = e[i]
      <4>1. \A i \in 1 .. 2 : i = 1 \/ i = 2
        OBVIOUS
      <4> QED
        BY <3>1, <3>2, <4>1
    <3> QED
      BY <3>1, <3>2, <3>3, SameSequence DEF p, e
  <2>9. Rested(After(<<b>>)) /\ After(<<b>>).arcs = SubSeq(oid, 1, 2)
    BY <2>6, <2>7, <2>8 DEF Rested
  <2>10. Len(<<b>>) >= 1
    BY <2>4
  <2> QED
    BY <2>1, <2>4, <2>9, <2>10
<1>3. ASSUME NEW n \in 2 .. N - 1, n \in S
      PROVE  n + 1 \in S
  <2> DEFINE x == s(n)
             v == oid[n + 1]
             y == ArcBytes(v)
  <2>1. n + 1 \in 3 .. N /\ (n + 1) - 1 = n /\ n + 1 \in 2 .. N /\ n + 1 \in 1 .. N /\ n \in Nat
    BY <1>1
  <2>2. Good(n)
    BY <1>3
  <2>3. s(n + 1) = x \o y
    BY <2>1, OidBytesStep
  <2>4. v \in Word
    BY <1>1, <2>1
  <2>5. x \in Seq(Octet) /\ Len(x) >= 1 /\ Rested(After(x)) /\ After(x).arcs = SubSeq(oid, 1, n)
    BY <2>2
  <2>6. /\ x \o y \in Seq(Octet) /\ Len(x \o y) >= 1
        /\ Rested(After(x \o y))
        /\ After(x \o y).arcs = Append(After(x).arcs, v)
    <3> HIDE DEF x, v
    <3> QED
      BY <2>4, <2>5, ArcRead
  <2>7. Append(SubSeq(oid, 1, n), v) = SubSeq(oid, 1, n + 1)
    <3> DEFINE p == SubSeq(oid, 1, n)
               e == SubSeq(oid, 1, n + 1)
               a == Append(p, v)
    <3>0. n <= Len(oid) /\ n + 1 <= Len(oid) /\ n + 1 \in Nat
      BY <1>1, <2>1
    <3>1. p \in Seq(Word) /\ Len(p) = n /\ \A i \in 1 .. n : p[i] = oid[i]
      BY <1>1, <2>1, <3>0, Start
    <3>2. e \in Seq(Word) /\ Len(e) = n + 1 /\ \A i \in 1 .. n + 1 : e[i] = oid[i]
      BY <1>1, <2>1, <3>0, Start
    <3> HIDE DEF p, e
    <3>3. a \in Seq(Word) /\ Len(a) = n + 1 /\ a[n + 1] = v /\ \A i \in 1 .. n : a[i] = p[i]
      <4> HIDE DEF v
      <4> QED
        BY <2>1, <2>4, <3>1
    <3> HIDE DEF a
    <3>4. \A i \in 1 .. Len(a) : a[i] = e[i]
      <4>1. \A i \in 1 .. n + 1 : i \in 1 .. n \/ i = n + 1
        BY <2>1
      <4> QED
        BY <2>1, <3>1, <3>2, <3>3, <4>1
    <3> QED
      BY <3>2, <3>3, <3>4, SameSequence DEF p, e, a
  <2>8. Good(n + 1)
    <3> HIDE DEF x, y, v
    <3> QED
      BY <2>3, <2>5, <2>6, <2>7
  <2> HIDE DEF Good
  <2> QED
    BY <2>1, <2>8
<1>4. 2 \in S
  BY <1>1, <1>2
<1> HIDE DEF S
<1>5. \A n \in 2 .. N : n \in S
  <2>1. 2 \in Nat
    OBVIOUS
  <2> HIDE DEF N
  <2> QED
    BY <1>1, <1>3, <1>4, <2>1, Counting
<1>6. Good(N)
  <2>1. N \in 2 .. N
    BY <1>1
  <2> HIDE DEF N, Good
  <2> QED
    BY <1>5, <2>1 DEF S
<1>7. SubSeq(oid, 1, N) = oid
  BY <1>1
<1>8. Arcs(s(N)) = After(s(N)).arcs
  BY DEF Arcs, After
<1>9. s(N) # <<>>
  BY <1>6
<1> QED
  BY <1>6, <1>7, <1>8, <1>9

-----------------------------------------------------------------------------
(* TLVs.                                                                    *)

\* A length that a DER header and a usize of every target hold.
Fits(n) == n \in Nat /\ n < LongLimit /\ \A t \in Targets : n < Power[t.bits]

LEMMA LimitsAre ==
    /\ MaxLengthBytes \in Nat /\ MaxLengthBytes >= 1 /\ MaxLengthBytes < Radix
    /\ LongLimit = Bytes(MaxLengthBytes) /\ LongLimit \in Nat
    /\ LongLimit + MaxLengthBytes + 2 <= Power[WordBits]
    /\ {SequenceTag, OidTag, BitStringTag, 0} \subseteq Octet
<1>1. MaxLengthBytes \in 1 .. Radix - 1 /\ Radix \in Nat
  BY LengthAssumption, RadixIs
<1>2. MaxLengthBytes \in Nat /\ MaxLengthBytes >= 1 /\ MaxLengthBytes < Radix
  BY <1>1
<1>3. LongLimit = Bytes(MaxLengthBytes)
  BY DEF LongLimit, Bytes
<1>4. LongLimit \in Nat
  BY <1>2, <1>3, BytesHold
<1> QED
  BY <1>2, <1>3, <1>4, LengthAssumption, TagAssumption, VersionsAre

LEMMA FitsLess ==
    ASSUME NEW m \in Nat, NEW n, Fits(n), m <= n
    PROVE  Fits(m)
<1>1. n \in Nat /\ n < LongLimit /\ \A t \in Targets : n < Power[t.bits]
  BY DEF Fits
<1>2. m < LongLimit
  BY <1>1, LimitsAre
<1>3. ASSUME NEW t \in Targets
      PROVE  m < Power[t.bits]
  <2> DEFINE p == Power[t.bits]
  <2>1. p \in Nat /\ n < p
    BY <1>1, TargetIs
  <2> HIDE DEF p
  <2>2. m < p
    BY <1>1, <2>1
  <2> QED
    BY <2>2 DEF p
<1> QED
  BY <1>2, <1>3 DEF Fits

\* The bytes before the body.
LengthBytes(len) ==
    LET digits == Digits(ByteRadix)[len]
    IN  IF len < Radix THEN <<len>> ELSE <<Radix + Len(digits)>> \o digits

Heading(tag, len) == <<tag>> \o LengthBytes(len)

LEMMA TlvIs ==
    ASSUME NEW tag, NEW body
    PROVE  Tlv(tag, body) = Heading(tag, Len(body)) \o body
  BY DEF Tlv, Heading, LengthBytes, ByteRadix

\* A reader finds the header whatever follows it, and misses it when it is cut.
HeadIs(h, tag, len) ==
    /\ h \in Seq(Octet) /\ Len(h) >= 2 /\ h[1] = tag
    /\ \A w, e : e \in Seq(Octet) /\ Joint(w, h, e) =>
          /\ ~LengthRefused(w)
          /\ Length(w) = [len |-> len, hdr |-> Len(h)]
    /\ \A d : Short(h, d) => Len(d) < 2 \/ LengthRefused(d)

LEMMA ShortHead ==
    ASSUME NEW tag \in Octet, NEW len \in Nat, len < Radix
    PROVE  HeadIs(Heading(tag, len), tag, len)
<1> DEFINE h == Heading(tag, len)
<1>1. len \in Octet /\ h = <<tag>> \o <<len>>
  <2>1. len \in 0 .. Radix - 1
    BY RadixIs
  <2> QED
    BY <2>1, OctetIs DEF Heading, LengthBytes
<1>2. h \in Seq(Octet) /\ Len(h) = 2 /\ h[1] = tag /\ h[2] = len
  BY <1>1
<1> HIDE DEF h
<1>3. ASSUME NEW w, NEW e \in Seq(Octet), Joint(w, h, e)
      PROVE  ~LengthRefused(w) /\ Length(w) = [len |-> len, hdr |-> Len(h)]
  <2>1. w[2] = len
    <3>1. 2 \in 1 .. Len(h) /\ w = h \o e
      BY <1>2, <1>3 DEF Joint
    <3>2. \A i \in 1 .. Len(h) : (h \o e)[i] = h[i]
      BY <1>2, Joined
    <3> QED
      BY <1>2, <3>1, <3>2
  <2>2. w[2] < Radix /\ ~(w[2] >= Radix)
    BY <2>1, RadixIs
  <2> QED
    BY <1>2, <2>1, <2>2 DEF LengthRefused, Length
<1>4. ASSUME NEW d, Short(h, d)
      PROVE  Len(d) < 2
  BY <1>2, <1>4, ShortIs
<1>5. Len(h) >= 2
  BY <1>2
<1> QED
  BY <1>2, <1>3, <1>4, <1>5 DEF HeadIs, h

LEMMA LongHead ==
    ASSUME NEW tag \in Octet, NEW len \in Nat, ~(len < Radix), len < LongLimit
    PROVE  HeadIs(Heading(tag, len), tag, len)
<1> DEFINE digits == Digits(ByteRadix)[len]
           k == Len(digits)
           b == Radix + k
           h == Heading(tag, len)
<1>1. /\ digits \in Seq(Octet) /\ k >= 1 /\ k \in Nat /\ k <= MaxLengthBytes
      /\ Big(digits)[k] = len
  <2>1. len < Bytes(MaxLengthBytes) /\ MaxLengthBytes \in Nat /\ MaxLengthBytes >= 1
    BY LimitsAre
  <2>2. digits \in Seq(Octet) /\ k >= 1 /\ k <= MaxLengthBytes /\ Big(digits)[k] = len
    BY <2>1, LengthDigits
  <2>3. k \in Nat
    BY <2>2
  <2> QED
    BY <2>2, <2>3
<1> HIDE DEF digits
<1>2. /\ b \in Octet /\ b \in Nat /\ b >= Radix /\ b - Radix = k
      /\ k # 0 /\ ~(k > MaxLengthBytes)
  <2> HIDE DEF k
  <2>1. Radix \in Nat /\ MaxLengthBytes \in Nat /\ MaxLengthBytes < Radix
    BY LimitsAre, RadixIs
  <2>2. k \in 0 .. Radix - 1
    BY <1>1, <2>1
  <2>3. k + Radix \in Octet /\ b = k + Radix
    BY <2>1, <2>2, OctetIs
  <2> QED
    BY <1>1, <2>1, <2>2, <2>3
<1>3. h = <<tag>> \o (<<b>> \o digits)
  BY DEF Heading, LengthBytes, digits
<1>4. /\ h \in Seq(Octet) /\ Len(h) = 2 + k /\ h[1] = tag /\ h[2] = b
      /\ \A i \in 1 .. k : h[2 + i] = digits[i]
  <2> HIDE DEF b, k
  <2> DEFINE r == <<b>> \o digits
  <2>1. /\ r \in Seq(Octet) /\ Len(r) = 1 + k /\ r[1] = b
        /\ \A i \in 1 .. k : r[1 + i] = digits[i]
    <3>1. <<b>> \in Seq(Octet) /\ Len(<<b>>) = 1 /\ <<b>>[1] = b
      BY <1>2
    <3>2. 1 \in 1 .. 1
      OBVIOUS
    <3> QED
      BY <1>1, <3>1, <3>2, Joined DEF k
  <2> HIDE DEF r
  <2>2. /\ h \in Seq(Octet) /\ Len(h) = 1 + Len(r) /\ h[1] = tag
        /\ \A i \in 1 .. Len(r) : h[1 + i] = r[i]
    <3>1. <<tag>> \in Seq(Octet) /\ Len(<<tag>>) = 1 /\ <<tag>>[1] = tag
      OBVIOUS
    <3>2. 1 \in 1 .. 1 /\ h = <<tag>> \o r
      BY <1>3 DEF r
    <3> HIDE DEF h
    <3> QED
      BY <2>1, <3>1, <3>2, Joined
  <2> HIDE DEF h
  <2>3. Len(h) = 2 + k
    BY <1>1, <2>1, <2>2
  <2>4. h[2] = b
    <3>1. 1 \in 1 .. Len(r) /\ 1 + 1 = 2
      BY <1>1, <2>1
    <3> QED
      BY <2>1, <2>2, <3>1
  <2>5. ASSUME NEW i \in 1 .. k
        PROVE  h[2 + i] = digits[i]
    <3>1. 1 + i \in 1 .. Len(r) /\ 1 + (1 + i) = 2 + i
      BY <1>1, <2>1
    <3> QED
      BY <2>1, <2>2, <3>1
  <2> QED
    BY <2>2, <2>3, <2>4, <2>5
<1> HIDE DEF h, k
<1>5. ASSUME NEW w, NEW e \in Seq(Octet), Joint(w, h, e)
      PROVE  ~LengthRefused(w) /\ Length(w) = [len |-> len, hdr |-> Len(h)]
  <2>1. /\ w \in Seq(Octet) /\ Len(w) = 2 + k + Len(e) /\ Len(e) \in Nat
        /\ \A i \in 1 .. 2 + k : w[i] = h[i]
    <3>1. w = h \o e
      BY <1>5 DEF Joint
    <3>2. /\ h \o e \in Seq(Octet) /\ Len(h \o e) = Len(h) + Len(e)
          /\ \A i \in 1 .. Len(h) : (h \o e)[i] = h[i]
      <4>1. h \in Seq(Octet) /\ e \in Seq(Octet)
        BY <1>4
      <4> QED
        BY <4>1, Joined
    <3> QED
      BY <1>4, <3>1, <3>2
  <2>2. 2 \in 1 .. 2 + k /\ 2 + k \in Nat /\ 2 \in Nat /\ 2 + k <= Len(w) /\ ~(Len(w) < 2 + k)
        /\ 2 <= 2 + k /\ (2 + k) - 2 = k
    BY <1>1, <2>1
  <2>3. w[2] = b
    BY <1>4, <2>1, <2>2
  <2> DEFINE q == SubSeq(w, 2 + 1, 2 + k)
  <2>4. q \in Seq(Octet) /\ Len(q) = k /\ \A i \in 1 .. k : q[i] = w[2 + i]
    BY <2>1, <2>2, Slice
  <2>5. q = digits
    <3> HIDE DEF q
    <3>1. \A i \in 1 .. k : 2 + i \in 1 .. 2 + k
      BY <1>1
    <3>2. \A i \in 1 .. k : q[i] = digits[i]
      BY <1>4, <2>1, <2>4, <3>1
    <3> QED
      BY <1>1, <2>4, <3>2, SameSequence DEF k
  <2> HIDE DEF b
  <2>6. ~LengthRefused(w)
    <3>1. w[2] - Radix = k
      BY <1>2, <2>3
    <3> QED
      BY <1>2, <2>2, <2>3, <3>1 DEF LengthRefused
  <2>7. Length(w) = [len |-> Big(SubSeq(w, 3, 2 + k))[k], hdr |-> 2 + k]
    <3>1. w[2] - Radix = k /\ ~(w[2] < Radix)
      BY <1>2, <2>3, RadixIs
    <3> QED
      BY <3>1 DEF Length
  <2>8. SubSeq(w, 3, 2 + k) = digits
    <3>1. 2 + 1 = 3
      OBVIOUS
    <3> QED
      BY <2>5, <3>1
  <2> QED
    BY <1>1, <1>4, <2>6, <2>7, <2>8
<1>6. ASSUME NEW d, Short(h, d), ~(Len(d) < 2)
      PROVE  LengthRefused(d)
  <2>1. PICK j \in 0 .. Len(h) - 1 : d = SubSeq(h, 1, j)
    BY <1>6 DEF Short
  <2>2. j \in Nat /\ j <= Len(h) /\ j < 2 + k
    BY <1>1, <1>4
  <2>3. Len(d) = j /\ \A i \in 1 .. j : d[i] = h[i]
    BY <1>4, <2>1, <2>2, Start
  <2>4. 2 \in 1 .. j
    BY <1>6, <2>2, <2>3
  <2>5. d[2] = b
    BY <1>4, <2>3, <2>4
  <2> HIDE DEF b
  <2>6. d[2] >= Radix /\ d[2] - Radix = k /\ Len(d) < 2 + k
    BY <1>2, <2>2, <2>3, <2>5
  <2> QED
    BY <2>6 DEF LengthRefused
<1>7. Len(h) >= 2
  BY <1>1, <1>4
<1> QED
  BY <1>4, <1>5, <1>6, <1>7 DEF HeadIs, h

LEMMA OctetsAreNumbers == Seq(Octet) \subseteq Seq(Nat)
<1> SUFFICES ASSUME NEW s \in Seq(Octet)
             PROVE  s \in Seq(Nat)
  OBVIOUS
<1>1. \A i \in 1 .. Len(s) : s[i] \in Nat
  BY ByteIs
<1>2. s \in [1 .. Len(s) -> Nat] /\ Len(s) \in Nat
  BY <1>1
<1> QED
  BY <1>2

LEMMA TlvLength ==
    ASSUME NEW tag \in Octet, NEW body \in Seq(Nat)
    PROVE  Tlv(tag, body) \in Seq(Nat) /\ Len(body) < Len(Tlv(tag, body))
<1> DEFINE len == Len(body)
           digits == Digits(ByteRadix)[len]
           h == Heading(tag, len)
<1>1. len \in Nat
  OBVIOUS
<1> HIDE DEF len
<1>2. digits \in Seq(Nat) /\ Radix + Len(digits) \in Nat
  <2>1. digits \in Seq(Octet)
    BY <1>1, LengthDigits
  <2> HIDE DEF digits
  <2>2. digits \in Seq(Nat) /\ Len(digits) \in Nat /\ Radix \in Nat
    BY <2>1, OctetsAreNumbers, RadixIs
  <2> QED
    BY <2>2
<1> HIDE DEF digits
<1>3. LengthBytes(len) \in Seq(Nat)
  <2>1. <<len>> \in Seq(Nat) /\ <<Radix + Len(digits)>> \o digits \in Seq(Nat)
    <3> DEFINE x == Radix + Len(digits)
    <3>1. x \in Nat
      BY <1>2
    <3> HIDE DEF x
    <3>2. <<x>> \o digits \in Seq(Nat)
      BY <1>2, <3>1
    <3> QED
      BY <1>1, <3>2 DEF x
  <2> QED
    BY <2>1 DEF LengthBytes, digits
<1>4. h \in Seq(Nat) /\ Len(h) >= 1 /\ Len(h) \in Nat
  <2> DEFINE l == LengthBytes(len)
  <2>1. l \in Seq(Nat) /\ tag \in Nat /\ h = <<tag>> \o l
    BY <1>3, OctetIs DEF Heading
  <2> HIDE DEF l, h
  <2> QED
    BY <2>1
<1>5. Tlv(tag, body) = h \o body
  BY TlvIs DEF len
<1> HIDE DEF h
<1>6. h \o body \in Seq(Nat) /\ Len(h \o body) = Len(h) + Len(body)
  BY <1>4, Joined
<1> QED
  BY <1>1, <1>4, <1>5, <1>6 DEF len

\* What read_tlv makes of a TLV.
TlvRead(body, tag, rest) == [error |-> "none", tag |-> tag, body |-> body, rest |-> rest]

LEMMA TlvReadIs ==
    ASSUME NEW body, NEW tag, NEW rest
    PROVE  /\ TlvRead(body, tag, rest).error = "none" /\ TlvRead(body, tag, rest).tag = tag
           /\ TlvRead(body, tag, rest).body = body /\ TlvRead(body, tag, rest).rest = rest
  BY DEF TlvRead

IsTlv(s, tag, body) ==
    s = Tlv(tag, body) /\ tag \in Octet /\ body \in Seq(Octet) /\ Fits(Len(s))

LEMMA TlvReadsBack ==
    ASSUME NEW s, NEW tag, NEW body, IsTlv(s, tag, body)
    PROVE  /\ s \in Seq(Octet)
           /\ \A t \in Targets : \A rest \in Seq(Octet) : \A w :
                 Joint(w, s, rest) => ReadTlv(t, w) = TlvRead(body, tag, rest)
           /\ \A t \in Targets : \A d : Short(s, d) => ReadTlv(t, d) = Fail("Pkix")
<1> DEFINE len == Len(body)
           h   == Heading(tag, len)
           n   == Len(h)
<1>0. s = Tlv(tag, body) /\ tag \in Octet /\ body \in Seq(Octet) /\ Fits(Len(s))
  BY DEF IsTlv
<1>1. len \in Nat /\ Fits(len)
  <2>1. body \in Seq(Nat)
    BY <1>0, OctetsAreNumbers
  <2>2. Len(body) < Len(s) /\ Len(s) \in Nat
    BY <1>0, <2>1, TlvLength
  <2>3. len \in Nat /\ len <= Len(s)
    BY <1>0, <2>2
  <2> QED
    BY <1>0, <2>3, FitsLess
<1>2. HeadIs(h, tag, len)
  <2> HIDE DEF len, h
  <2>1. len < LongLimit
    BY <1>1 DEF Fits
  <2> QED
    BY <1>0, <1>1, <2>1, ShortHead, LongHead DEF h
<1>3. s = h \o body
  BY <1>0, TlvIs
<1> HIDE DEF h
<1>4. /\ h \in Seq(Octet) /\ n >= 2 /\ n \in Nat /\ h[1] = tag
      /\ s \in Seq(Octet) /\ Len(s) = n + len
  <2>1. h \in Seq(Octet) /\ n >= 2 /\ h[1] = tag
    BY <1>2 DEF HeadIs
  <2>2. h \o body \in Seq(Octet) /\ Len(h \o body) = n + len
    BY <1>0, <2>1, Joined
  <2> QED
    BY <1>3, <2>1, <2>2
<1>5. \A t \in Targets : n + len < Power[t.bits]
  BY <1>0, <1>4 DEF Fits
\* Of data that starts with the header only the end is left to compare.
<1>6. ASSUME NEW t \in Targets, NEW w, NEW e \in Seq(Octet), Joint(w, h, e)
      PROVE  /\ w \in Seq(Octet) /\ w[1] = tag /\ Len(w) = n + Len(e)
             /\ ReadTlv(t, w) = IF Len(w) < n + len THEN Fail("Pkix") ELSE Body(w, n, n + len)
  <2>1. w = h \o e
    BY <1>6 DEF Joint
  <2>2. /\ h \o e \in Seq(Octet) /\ Len(h \o e) = n + Len(e) /\ Len(e) \in Nat
        /\ \A i \in 1 .. n : (h \o e)[i] = h[i]
    BY <1>4, Joined
  <2>3. w[1] = tag
    <3>1. 1 \in 1 .. n
      BY <1>4
    <3> QED
      BY <1>4, <2>1, <2>2, <3>1
  <2>4. ~(Len(w) < 2)
    <3> HIDE DEF n
    <3> QED
      BY <1>4, <2>1, <2>2
  <2>5. ~LengthRefused(w) /\ Length(w) = [len |-> len, hdr |-> n]
    BY <1>2, <1>6 DEF HeadIs
  <2>6. ReadTlv(t, w) = Split(t, w, [len |-> len, hdr |-> n])
    BY <2>4, <2>5 DEF ReadTlv
  <2>7. ~(n + len >= Power[t.bits])
    <3> DEFINE p == Power[t.bits]
    <3>1. p \in Nat /\ n + len < p
      BY <1>5, TargetIs
    <3> HIDE DEF p, n, len
    <3>2. ~(n + len >= p)
      BY <1>1, <1>4, <3>1
    <3> QED
      BY <3>2 DEF p
  <2> QED
    BY <2>1, <2>2, <2>3, <2>6, <2>7 DEF Split
<1>7. ASSUME NEW t \in Targets, NEW rest \in Seq(Octet), NEW w, Joint(w, s, rest)
      PROVE  ReadTlv(t, w) = TlvRead(body, tag, rest)
  <2> DEFINE e == body \o rest
  <2>1. w = (h \o body) \o rest
    BY <1>3, <1>7 DEF Joint
  <2>2. e \in Seq(Octet) /\ Joint(w, h, e)
    <3>1. h \in Seq(Octet) /\ body \in Seq(Octet) /\ rest \in Seq(Octet)
      BY <1>0, <1>4, <1>7
    <3> HIDE DEF n, len
    <3>2. (h \o body) \o rest = h \o (body \o rest)
      BY <3>1, Joins
    <3>3. body \o rest \in Seq(Octet)
      BY <3>1, Joined
    <3> QED
      BY <2>1, <3>2, <3>3 DEF Joint
  <2>3. /\ Len(w) = n + len + Len(rest) /\ Len(rest) \in Nat
        /\ SubSeq(w, n + 1, n + len) = body
        /\ SubSeq(w, n + len + 1, Len(w)) = rest
    BY <1>0, <1>4, <2>1, Middle
  <2>4. ~(Len(w) < n + len)
    <3> HIDE DEF n, len
    <3> QED
      BY <1>1, <1>4, <2>3
  <2>5. w[1] = tag
    BY <1>6, <2>2
  <2>6. ReadTlv(t, w) = Body(w, n, n + len)
    <3> HIDE DEF e
    <3> QED
      BY <1>6, <2>2, <2>4
  <2> HIDE DEF n, len
  <2> QED
    BY <2>3, <2>5, <2>6 DEF Body, TlvRead
<1>8. ASSUME NEW t \in Targets, NEW d, Short(s, d)
      PROVE  ReadTlv(t, d) = Fail("Pkix")
  <2>1. Joint(s, h, body)
    BY <1>3 DEF Joint
  <2>2. Short(h, d) \/ \E e \in Seq(Octet) : Short(body, e) /\ Joint(d, h, e)
    BY <1>0, <1>4, <1>8, <2>1, ShortJoined
  <2>3. CASE Short(h, d)
    BY <1>2, <2>3 DEF HeadIs, ReadTlv
  <2>4. ASSUME NEW e \in Seq(Octet), Short(body, e), Joint(d, h, e)
        PROVE  ReadTlv(t, d) = Fail("Pkix")
    <3>1. Len(e) < len /\ Len(d) = n + Len(e)
      BY <1>0, <1>6, <2>4, ShortIs
    <3>2. Len(d) < n + len
      <4> DEFINE m == Len(e)
      <4>1. m \in Nat /\ m < len
        BY <3>1
      <4> HIDE DEF n, len, m
      <4> QED
        BY <1>1, <1>4, <3>1, <4>1 DEF m
    <3> QED
      BY <1>6, <2>4, <3>2
  <2> QED
    BY <2>2, <2>3, <2>4
<1> QED
  BY <1>4, <1>7, <1>8

\* With the tag asked for, and a body where one is needed.
ExpectAny(t, data, tag)  == Expect(t, data, tag, FALSE)
ExpectFull(t, data, tag) == Expect(t, data, tag, TRUE)

LEMMA ExpectReads ==
    ASSUME NEW s, NEW tag, NEW body, IsTlv(s, tag, body), NEW t \in Targets
    PROVE  \A rest \in Seq(Octet) : \A w :
              Joint(w, s, rest) =>
                /\ ExpectAny(t, w, tag) = TlvRead(body, tag, rest)
                /\ body # <<>> => ExpectFull(t, w, tag) = TlvRead(body, tag, rest)
<1> SUFFICES ASSUME NEW rest \in Seq(Octet), NEW w, Joint(w, s, rest)
             PROVE  /\ ExpectAny(t, w, tag) = TlvRead(body, tag, rest)
                    /\ body # <<>> => ExpectFull(t, w, tag) = TlvRead(body, tag, rest)
  OBVIOUS
<1> DEFINE r == TlvRead(body, tag, rest)
<1>1. ReadTlv(t, w) = TlvRead(body, tag, rest)
  <2>1. \A y \in Seq(Octet) : \A d :
           Joint(d, s, y) => ReadTlv(t, d) = TlvRead(body, tag, y)
    BY TlvReadsBack
  <2> QED
    BY <2>1
<1>2. r.error = "none" /\ r.tag = tag /\ r.body = body
  BY TlvReadIs
<1>3. ReadTlv(t, w) = r
  BY <1>1
<1> HIDE DEF r
<1> QED
  BY <1>2, <1>3 DEF ExpectAny, ExpectFull, Expect, Then, r

LEMMA NothingBehind ==
    ASSUME NEW s \in Seq(Octet)
    PROVE  Joint(s, s, <<>>) /\ <<>> \in Seq(Octet)
  BY DEF Joint

-----------------------------------------------------------------------------
(* Public keys.                                                             *)

LEMMA BitStringIs ==
    ASSUME NEW key \in Seq(Octet), Fits(Len(BitString(key)))
    PROVE  /\ IsTlv(BitString(key), BitStringTag, <<0>> \o key)
           /\ <<0>> \o key # <<>> /\ Tail(<<0>> \o key) = key
<1>1. 0 \in Octet /\ BitStringTag \in Octet
  BY LimitsAre
<1>2. <<0>> \o key \in Seq(Octet) /\ <<0>> \o key # <<>> /\ Tail(<<0>> \o key) = key
  BY <1>1, Behind
<1> QED
  BY <1>1, <1>2 DEF BitString, IsTlv

LEMMA BitStringLength ==
    ASSUME NEW key \in Seq(Nat)
    PROVE  BitString(key) \in Seq(Nat) /\ Len(key) < Len(BitString(key))
<1> DEFINE b == <<0>> \o key
<1>1. b \in Seq(Nat) /\ Len(b) = Len(key) + 1 /\ Len(key) \in Nat
  OBVIOUS
<1> HIDE DEF b
<1>2. BitStringTag \in Octet
  BY LimitsAre
<1>3. Tlv(BitStringTag, b) \in Seq(Nat) /\ Len(b) < Len(Tlv(BitStringTag, b))
  BY <1>1, <1>2, TlvLength
<1>4. BitString(key) = Tlv(BitStringTag, b)
  BY DEF BitString, b
<1>5. Len(BitString(key)) \in Nat
  BY <1>3, <1>4
<1> QED
  BY <1>1, <1>3, <1>4, <1>5

SpkiBody(oid, key) == Tlv(SequenceTag, OidTlv(oid)) \o BitString(key)

LEMMA SpkiAreNumbers ==
    ASSUME NEW oid, IsOid(oid), NEW key \in Seq(Nat)
    PROVE  Spki(oid, key) \in Seq(Nat)
<1> DEFINE o == OidBytes(oid)[Len(oid)]
           a == OidTlv(oid)
           g == Tlv(SequenceTag, a)
           b == BitString(key)
           i == g \o b
<1>1. SequenceTag \in Octet /\ OidTag \in Octet
  BY LimitsAre
<1>2. o \in Seq(Nat) /\ a = Tlv(OidTag, o)
  BY OidReadsBack, OctetsAreNumbers DEF OidTlv
<1>3. Spki(oid, key) = Tlv(SequenceTag, i)
  BY DEF Spki
<1> HIDE DEF o, a
<1>4. a \in Seq(Nat)
  BY <1>1, <1>2, TlvLength
<1>5. g \in Seq(Nat) /\ b \in Seq(Nat)
  BY <1>1, <1>4, TlvLength, BitStringLength
<1> HIDE DEF g, b
<1>6. i \in Seq(Nat)
  BY <1>5
<1> HIDE DEF i
<1> QED
  BY <1>1, <1>3, <1>6, TlvLength

\* A key that is written fits where its SubjectPublicKeyInfo does, and so does
\* every part of it.
LEMMA SpkiFits ==
    ASSUME NEW oid, IsOid(oid), NEW key \in Seq(Nat), Fits(Len(Spki(oid, key)))
    PROVE  /\ Fits(Len(key)) /\ Fits(Len(BitString(key))) /\ Fits(Len(OidTlv(oid)))
           /\ Fits(Len(Tlv(SequenceTag, OidTlv(oid)))) /\ Fits(Len(SpkiBody(oid, key)))
<1> DEFINE o == OidBytes(oid)[Len(oid)]
           a == OidTlv(oid)
           g == Tlv(SequenceTag, a)
           b == BitString(key)
           i == SpkiBody(oid, key)
           w == Spki(oid, key)
<1>1. SequenceTag \in Octet /\ OidTag \in Octet
  BY LimitsAre
<1>2. o \in Seq(Nat)
  BY OidReadsBack, OctetsAreNumbers
<1>3. a \in Seq(Nat)
  <2> HIDE DEF o
  <2>1. a = Tlv(OidTag, o)
    BY DEF OidTlv, o
  <2> QED
    BY <1>1, <1>2, <2>1, TlvLength
<1> HIDE DEF a
<1>4. g \in Seq(Nat) /\ Len(a) < Len(g)
  BY <1>1, <1>3, TlvLength
<1>5. b \in Seq(Nat) /\ Len(key) < Len(b)
  BY BitStringLength
<1>6. i = g \o b
  BY DEF SpkiBody, a
<1> HIDE DEF g, b, i
<1>7. i \in Seq(Nat) /\ Len(i) = Len(g) + Len(b)
  BY <1>4, <1>5, <1>6, Joined
<1>8. w \in Seq(Nat) /\ Len(i) < Len(w)
  <2>1. w = Tlv(SequenceTag, i)
    BY DEF Spki, i, SpkiBody
  <2> QED
    BY <1>1, <1>7, <2>1, TlvLength
<1> HIDE DEF w
<1>9. /\ Len(key) \in Nat /\ Len(a) \in Nat /\ Len(g) \in Nat /\ Len(b) \in Nat
      /\ Len(i) \in Nat /\ Len(w) \in Nat
  <2>1. \A s \in Seq(Nat) : Len(s) \in Nat
    OBVIOUS
  <2> QED
    BY <1>3, <1>4, <1>5, <1>7, <1>8, <2>1
<1>10. Fits(Len(w))
  BY DEF w
<1>11. Len(key) <= Len(w) /\ Len(b) <= Len(w) /\ Len(a) <= Len(w) /\ Len(g) <= Len(w)
       /\ Len(i) <= Len(w)
  <2> DEFINE lk == Len(key)
             la == Len(a)
             lg == Len(g)
             lb == Len(b)
             li == Len(i)
             lw == Len(w)
  <2>1. /\ lk \in Nat /\ la \in Nat /\ lg \in Nat /\ lb \in Nat /\ li \in Nat /\ lw \in Nat
        /\ la < lg /\ lk < lb /\ li = lg + lb /\ li < lw
    BY <1>4, <1>5, <1>7, <1>8, <1>9
  <2> HIDE DEF lk, la, lg, lb, li, lw
  <2>2. lk <= lw /\ lb <= lw /\ la <= lw /\ lg <= lw /\ li <= lw
    BY <2>1
  <2> QED
    BY <2>2 DEF lk, la, lg, lb, li, lw
<1> QED
  BY <1>9, <1>10, <1>11, FitsLess DEF a, g, b, i

LEMMA SpkiReadsBack ==
    ASSUME NEW oid, IsOid(oid), NEW key \in Seq(Octet), Fits(Len(Spki(oid, key))),
           NEW t \in Targets
    PROVE  /\ Spki(oid, key) \in Seq(Octet)
           /\ ParseSpki(t, Spki(oid, key)) = [error |-> "none", oid |-> oid, key |-> key]
           /\ \A d : Broken(Spki(oid, key), d) => ParseSpki(t, d) = Fail("Pkix")
<1> DEFINE o == OidBytes(oid)[Len(oid)]
           a == OidTlv(oid)
           g == Tlv(SequenceTag, a)
           z == <<0>> \o key
           b == BitString(key)
           i == SpkiBody(oid, key)
           w == Spki(oid, key)
<1>1. SequenceTag \in Octet /\ OidTag \in Octet /\ BitStringTag \in Octet
  BY LimitsAre
<1>2. Fits(Len(b)) /\ Fits(Len(a)) /\ Fits(Len(g)) /\ Fits(Len(i)) /\ Fits(Len(w))
  BY OctetsAreNumbers, SpkiFits
<1>3. o \in Seq(Octet) /\ o # <<>> /\ Arcs(o) = oid
  BY OidReadsBack
<1>4. z # <<>> /\ Tail(z) = key /\ IsTlv(b, BitStringTag, z)
  BY <1>2, BitStringIs
<1>5. a = Tlv(OidTag, o) /\ i = g \o b /\ w = Tlv(SequenceTag, i)
  BY DEF OidTlv, SpkiBody, Spki
<1> HIDE DEF o, a, z, b, i, w
<1>6. IsTlv(a, OidTag, o) /\ a \in Seq(Octet) /\ b \in Seq(Octet)
  <2>1. IsTlv(a, OidTag, o)
    BY <1>1, <1>2, <1>3, <1>5 DEF IsTlv
  <2> QED
    BY <1>4, <2>1, TlvReadsBack
<1>7. IsTlv(g, SequenceTag, a) /\ g \in Seq(Octet)
  <2>1. IsTlv(g, SequenceTag, a)
    BY <1>1, <1>2, <1>6 DEF IsTlv
  <2> QED
    BY <2>1, TlvReadsBack
<1> HIDE DEF g
<1>8. i \in Seq(Octet) /\ Joint(i, g, b)
  BY <1>5, <1>6, <1>7, Joined DEF Joint
<1>9. /\ w \in Seq(Octet)
      /\ \A rest \in Seq(Octet) : \A d :
            Joint(d, w, rest) => ReadTlv(t, d) = TlvRead(i, SequenceTag, rest)
      /\ \A d : Short(w, d) => ReadTlv(t, d) = Fail("Pkix")
  <2>1. IsTlv(w, SequenceTag, i)
    BY <1>1, <1>2, <1>5, <1>8 DEF IsTlv
  <2> QED
    BY <2>1, TlvReadsBack
<1>10. ParseParts(t, i) = [error |-> "none", oid |-> oid, key |-> key]
  <2> DEFINE r1 == TlvRead(a, SequenceTag, b)
             r2 == TlvRead(o, OidTag, <<>>)
             r3 == TlvRead(z, BitStringTag, <<>>)
             f  == Fine(oid)
  <2>1. Expect(t, i, SequenceTag, FALSE) = r1
    <3>1. \A y \in Seq(Octet) : \A d :
             Joint(d, g, y) => ExpectAny(t, d, SequenceTag) = TlvRead(a, SequenceTag, y)
      BY <1>7, ExpectReads
    <3> QED
      BY <1>6, <1>8, <3>1 DEF ExpectAny
  <2>2. Expect(t, a, OidTag, FALSE) = r2
    <3>1. \A y \in Seq(Octet) : \A d :
             Joint(d, a, y) => ExpectAny(t, d, OidTag) = TlvRead(o, OidTag, y)
      BY <1>6, ExpectReads
    <3> QED
      BY <1>6, NothingBehind, <3>1 DEF ExpectAny
  <2>3. Expect(t, b, BitStringTag, TRUE) = r3
    <3>1. \A y \in Seq(Octet) : \A d :
             Joint(d, b, y) => ExpectFull(t, d, BitStringTag) = TlvRead(z, BitStringTag, y)
      BY <1>4, ExpectReads
    <3> QED
      BY <1>6, NothingBehind, <3>1 DEF ExpectFull
  <2>4. DecodeOid(o) = f
    BY <1>3 DEF DecodeOid
  <2>5. /\ r1.error = "none" /\ r1.body = a /\ r1.rest = b
        /\ r2.error = "none" /\ r2.body = o
        /\ r3.error = "none" /\ r3.body = z
        /\ f.error = "none" /\ f.value = oid
    BY TlvReadIs DEF Fine
  <2> HIDE DEF r1, r2, r3, f
  <2> QED
    BY <1>4, <2>1, <2>2, <2>3, <2>4, <2>5 DEF ParseParts, Then
\* What is behind the SEQUENCE decides.
<1>11. ASSUME NEW d, NEW r \in Seq(Octet), Joint(d, w, r)
       PROVE  ParseSpki(t, d) = IF r # <<>> THEN Fail("Pkix") ELSE ParseParts(t, i)
  <2> DEFINE x == TlvRead(i, SequenceTag, r)
  <2>1. ReadTlv(t, d) = x
    BY <1>9, <1>11
  <2>2. x.error = "none" /\ x.tag = SequenceTag /\ x.body = i /\ x.rest = r
    BY TlvReadIs
  <2> HIDE DEF x
  <2>3. Expect(t, d, SequenceTag, FALSE) = x
    BY <2>1, <2>2 DEF Expect, Then
  <2> QED
    BY <2>2, <2>3 DEF ParseSpki, Then
<1>12. ParseSpki(t, w) = [error |-> "none", oid |-> oid, key |-> key]
  BY <1>9, <1>10, <1>11, NothingBehind
<1>13. ASSUME NEW d, Short(w, d)
       PROVE  ParseSpki(t, d) = Fail("Pkix")
  <2>1. ReadTlv(t, d) = Fail("Pkix")
    BY <1>9, <1>13
  <2> QED
    BY <2>1 DEF ParseSpki, Expect, Then, Fail
<1>14. ASSUME NEW d, Longer(w, d)
       PROVE  ParseSpki(t, d) = Fail("Pkix")
  <2>1. PICK x \in Octet : d = Append(w, x)
    BY <1>14 DEF Longer
  <2> DEFINE r == <<x>>
  <2>2. r \in Seq(Octet) /\ r # <<>>
    OBVIOUS
  <2>3. Joint(d, w, r)
    BY <1>9, <2>1, Appended DEF Joint
  <2> HIDE DEF r
  <2> QED
    BY <1>11, <2>2, <2>3
<1> QED
  BY <1>9, <1>12, <1>13, <1>14 DEF Broken, w

\* The bits of a public key.
KeyBits(k) ==
    IF k.kind \in HybridKinds
    THEN Tlv(SequenceTag, BitString(k.parts[1]) \o BitString(k.parts[2]))
    ELSE k.parts[1]

LEMMA CompositeReadsBack ==
    ASSUME NEW p \in Seq(Octet), NEW q \in Seq(Octet), Len(p) = XSize, NEW t \in Targets,
           Fits(Len(Tlv(SequenceTag, BitString(p) \o BitString(q))))
    PROVE  /\ Tlv(SequenceTag, BitString(p) \o BitString(q)) \in Seq(Octet)
           /\ ParseComposite(t, Tlv(SequenceTag, BitString(p) \o BitString(q))) = Fine(<<p, q>>)
<1> DEFINE a == BitString(p)
           b == BitString(q)
           c == a \o b
           w == Tlv(SequenceTag, c)
           y == <<0>> \o p
           z == <<0>> \o q
<1>1. SequenceTag \in Octet /\ BitStringTag \in Octet
  BY LimitsAre
<1>2. a \in Seq(Nat) /\ b \in Seq(Nat)
  BY OctetsAreNumbers, BitStringLength
<1> HIDE DEF a, b
<1>3. c \in Seq(Nat) /\ Len(c) = Len(a) + Len(b) /\ Len(a) \in Nat /\ Len(b) \in Nat
  BY <1>2, Joined
<1>4. Len(c) < Len(w)
  <2> HIDE DEF c
  <2> QED
    BY <1>1, <1>3, TlvLength
<1>5. Fits(Len(w))
  BY DEF a, b
<1>6. Fits(Len(a)) /\ Fits(Len(b)) /\ Fits(Len(c))
  <2> DEFINE la == Len(a)
             lb == Len(b)
             lc == Len(c)
             lw == Len(w)
  <2>1. la \in Nat /\ lb \in Nat /\ lc \in Nat /\ lw \in Nat /\ lc = la + lb /\ lc < lw /\ Fits(lw)
    <3>1. Len(w) \in Nat
      BY <1>5 DEF Fits
    <3> QED
      BY <1>3, <1>4, <1>5, <3>1
  <2> HIDE DEF la, lb, lc, lw
  <2>2. la <= lw /\ lb <= lw /\ lc <= lw
    BY <2>1
  <2>3. Fits(la) /\ Fits(lb) /\ Fits(lc)
    BY <2>1, <2>2, FitsLess
  <2> QED
    BY <2>3 DEF la, lb, lc
<1>7. /\ y # <<>> /\ Tail(y) = p /\ IsTlv(a, BitStringTag, y)
      /\ z # <<>> /\ Tail(z) = q /\ IsTlv(b, BitStringTag, z)
  BY <1>6, BitStringIs DEF a, b
<1> HIDE DEF y, z
<1>8. a \in Seq(Octet) /\ b \in Seq(Octet)
  BY <1>7, TlvReadsBack
<1>9. c \in Seq(Octet) /\ Joint(c, a, b)
  BY <1>8, Joined DEF Joint
<1> HIDE DEF c
<1>10. IsTlv(w, SequenceTag, c)
  BY <1>1, <1>5, <1>9 DEF IsTlv
<1> HIDE DEF w
<1>11. w \in Seq(Octet)
  BY <1>10, TlvReadsBack
<1> DEFINE r1 == TlvRead(c, SequenceTag, <<>>)
           r2 == TlvRead(y, BitStringTag, b)
           r3 == TlvRead(z, BitStringTag, <<>>)
<1>12. Expect(t, w, SequenceTag, FALSE) = r1
  <2>1. \A e \in Seq(Octet) : \A d :
           Joint(d, w, e) => ExpectAny(t, d, SequenceTag) = TlvRead(c, SequenceTag, e)
    BY <1>10, ExpectReads
  <2> QED
    BY <1>11, NothingBehind, <2>1 DEF ExpectAny
<1>13. Expect(t, c, BitStringTag, TRUE) = r2
  <2>1. \A e \in Seq(Octet) : \A d :
           Joint(d, a, e) => ExpectFull(t, d, BitStringTag) = TlvRead(y, BitStringTag, e)
    BY <1>7, ExpectReads
  <2> QED
    BY <1>8, <1>9, <2>1 DEF ExpectFull
<1>14. Expect(t, b, BitStringTag, TRUE) = r3
  <2>1. \A e \in Seq(Octet) : \A d :
           Joint(d, b, e) => ExpectFull(t, d, BitStringTag) = TlvRead(z, BitStringTag, e)
    BY <1>7, ExpectReads
  <2> QED
    BY <1>8, NothingBehind, <2>1 DEF ExpectFull
<1>15. /\ r1.error = "none" /\ r1.body = c
       /\ r2.error = "none" /\ r2.body = y /\ r2.rest = b
       /\ r3.error = "none" /\ r3.body = z
  BY TlvReadIs
<1> HIDE DEF r1, r2, r3
<1>16. ParseComposite(t, w) = Fine(<<p, q>>)
  BY <1>7, <1>12, <1>13, <1>14, <1>15 DEF ParseComposite, Then
<1> QED
  BY <1>11, <1>16 DEF w, c, a, b

\* What is known of a key that the code holds.
LEMMA KeyIs ==
    ASSUME NEW k, IsPublicKey(k)
    PROVE  /\ k.kind \in KeyKinds /\ IsOid(KeyOid[k.kind])
           /\ k = PublicKey(k.kind, k.parts)
           /\ Len(k.parts[Len(k.parts)]) = KeySize[k.kind]
           /\ k.kind \in HybridKinds =>
                 /\ k.parts[1] \in Seq(Octet) /\ k.parts[2] \in Seq(Octet)
                 /\ Len(k.parts[1]) = XSize /\ k.parts = <<k.parts[1], k.parts[2]>>
           /\ k.kind \notin HybridKinds =>
                 k.parts[1] \in Seq(Octet) /\ k.parts = <<k.parts[1]>>
<1>1. k.kind \in KeyKinds /\ k.parts \in Seq(Seq(Octet)) /\ k = PublicKey(k.kind, k.parts)
      /\ Len(k.parts) = (IF k.kind \in HybridKinds THEN 2 ELSE 1)
      /\ (k.kind \in HybridKinds => Len(k.parts[1]) = XSize)
      /\ Len(k.parts[Len(k.parts)]) = KeySize[k.kind]
  BY DEF IsPublicKey
<1>2. IsOid(KeyOid[k.kind])
  BY <1>1, OidAssumption DEF IsOid
<1> DEFINE p == k.parts
           X == Seq(Octet)
<1> HIDE DEF X
<1>3. p \in Seq(X)
  BY <1>1 DEF X
<1> HIDE DEF p
<1>4. CASE k.kind \in HybridKinds
  <2>1. Len(p) = 2
    BY <1>1, <1>4 DEF p
  <2>2. p[1] \in X /\ p[2] \in X /\ p = <<p[1], p[2]>>
    BY <1>3, <2>1
  <2> QED
    BY <1>1, <1>2, <1>4, <2>2 DEF p, X
<1>5. CASE k.kind \notin HybridKinds
  <2>1. Len(p) = 1
    BY <1>1, <1>5 DEF p
  <2>2. p[1] \in X /\ p = <<p[1]>>
    BY <1>3, <2>1
  <2> QED
    BY <1>1, <1>2, <1>5, <2>2 DEF p, X
<1> QED
  BY <1>4, <1>5

LEMMA KeyBitsReadBack ==
    ASSUME NEW k, IsPublicKey(k), Fits(Len(KeyBits(k))), NEW t \in Targets
    PROVE  /\ KeyBits(k) \in Seq(Octet)
           /\ ParseBits(t, k.kind, KeyBits(k)) = Fine(k.parts)
<1> DEFINE p == k.parts[1]
           q == k.parts[2]
<1>1. CASE k.kind \in HybridKinds
  <2>1. p \in Seq(Octet) /\ q \in Seq(Octet) /\ Len(p) = XSize /\ k.parts = <<p, q>>
    BY <1>1, KeyIs
  <2>2. KeyBits(k) = Tlv(SequenceTag, BitString(p) \o BitString(q))
    BY <1>1 DEF KeyBits
  <2> HIDE DEF p, q
  <2> QED
    BY <1>1, <2>1, <2>2, CompositeReadsBack DEF ParseBits
<1>2. CASE k.kind \notin HybridKinds
  <2>1. p \in Seq(Octet) /\ k.parts = <<p>>
    BY <1>2, KeyIs
  <2>2. KeyBits(k) = p
    BY <1>2 DEF KeyBits
  <2> HIDE DEF p, q
  <2> QED
    BY <1>2, <2>1, <2>2 DEF ParseBits
<1> QED
  BY <1>1, <1>2

\* The bits of a key are written before the bytes are known to be bytes.
LEMMA KeyBitsAreNumbers ==
    ASSUME NEW k, IsPublicKey(k)
    PROVE  KeyBits(k) \in Seq(Nat)
<1> DEFINE p == k.parts[1]
           q == k.parts[2]
<1>1. CASE k.kind \in HybridKinds
  <2>1. p \in Seq(Nat) /\ q \in Seq(Nat)
    BY <1>1, KeyIs, OctetsAreNumbers
  <2>2. KeyBits(k) = Tlv(SequenceTag, BitString(p) \o BitString(q))
    BY <1>1 DEF KeyBits
  <2> HIDE DEF p, q
  <2> DEFINE c == BitString(p) \o BitString(q)
  <2>3. BitString(p) \in Seq(Nat) /\ BitString(q) \in Seq(Nat)
    BY <2>1, BitStringLength
  <2>4. c \in Seq(Nat)
    BY <2>3, Joined
  <2> HIDE DEF c
  <2>5. SequenceTag \in Octet
    BY LimitsAre
  <2>6. Tlv(SequenceTag, c) \in Seq(Nat)
    BY <2>4, <2>5, TlvLength
  <2> QED
    BY <2>2, <2>6 DEF c
<1>2. CASE k.kind \notin HybridKinds
  BY <1>2, KeyIs, OctetsAreNumbers DEF KeyBits
<1> QED
  BY <1>1, <1>2

LEMMA PublicReadsBack ==
    ASSUME NEW k, IsPublicKey(k), Fits(Len(MarshalPublicKey(k))), NEW t \in Targets
    PROVE  /\ MarshalPublicKey(k) \in Seq(Octet)
           /\ ParsePublicKey(t, MarshalPublicKey(k)) = Fine(k)
           /\ \A d : Broken(MarshalPublicKey(k), d) => ParsePublicKey(t, d) = Fail("Pkix")
<1> DEFINE oid == KeyOid[k.kind]
           key == KeyBits(k)
           w   == MarshalPublicKey(k)
           s   == [error |-> "none", oid |-> oid, key |-> key]
           found == {j \in KeyKinds : KeyOid[j] = oid}
<1>1. k.kind \in KeyKinds /\ IsOid(oid) /\ k = PublicKey(k.kind, k.parts)
      /\ Len(k.parts[Len(k.parts)]) = KeySize[k.kind]
  BY KeyIs
<1>2. w = Spki(oid, key)
  BY DEF MarshalPublicKey, KeyBits
<1>3. key \in Seq(Nat)
  BY KeyBitsAreNumbers
<1>4. found = {k.kind}
  BY <1>1, KeyAssumption
<1>5. (CHOOSE j \in found : TRUE) = k.kind /\ found # {}
  BY <1>4
<1> HIDE DEF oid, key, w
<1>6. Fits(Len(Spki(oid, key)))
  BY <1>2 DEF w
<1>7. Fits(Len(key))
  BY <1>1, <1>3, <1>6, SpkiFits
<1>8. key \in Seq(Octet) /\ ParseBits(t, k.kind, key) = Fine(k.parts)
  BY <1>7, KeyBitsReadBack DEF key
<1>9. w \in Seq(Octet) /\ ParseSpki(t, w) = s
      /\ \A d : Broken(w, d) => ParseSpki(t, d) = Fail("Pkix")
  BY <1>1, <1>2, <1>6, <1>8, SpkiReadsBack
<1>10. ParsePublicKey(t, w) = Fine(k)
  <2> DEFINE f == Fine(k.parts)
             g == found
  <2>1. f.error = "none" /\ f.value = k.parts
    BY DEF Fine
  <2>2. s.error = "none" /\ s.oid = oid /\ s.key = key
    OBVIOUS
  <2>3. ParseBits(t, k.kind, key) = f
    BY <1>8
  <2> HIDE DEF f, s
  <2>4. ParsePublicKey(t, w) =
           Then(s, LAMBDA r :
             LET found_ == {j \in KeyKinds : KeyOid[j] = r.oid}
                 kind   == CHOOSE j \in found_ : TRUE
             IN  IF found_ = {} THEN Fail("Pkix")
                 ELSE Then(ParseBits(t, kind, r.key), LAMBDA p :
                         IF Len(p.value[Len(p.value)]) # KeySize[kind] THEN Fail("Pkix")
                         ELSE Fine(PublicKey(kind, p.value))))
    BY <1>9 DEF ParsePublicKey
  <2> DEFINE c == CHOOSE j \in g : TRUE
  <2>5. ParsePublicKey(t, w) =
             IF g = {} THEN Fail("Pkix")
             ELSE Then(ParseBits(t, c, key), LAMBDA p :
                     IF Len(p.value[Len(p.value)]) # KeySize[c]
                     THEN Fail("Pkix") ELSE Fine(PublicKey(c, p.value)))
    BY <2>2, <2>4 DEF Then
  <2>6. c = k.kind /\ g # {}
    BY <1>5
  <2> HIDE DEF g, c
  <2> QED
    BY <1>1, <2>1, <2>3, <2>5, <2>6 DEF Then
<1>11. ASSUME NEW d, Broken(w, d)
       PROVE  ParsePublicKey(t, d) = Fail("Pkix")
  <2>1. ParseSpki(t, d) = Fail("Pkix")
    BY <1>9, <1>11
  <2> QED
    BY <2>1 DEF ParsePublicKey, Then, Fail
<1> QED
  BY <1>9, <1>10, <1>11 DEF w

-----------------------------------------------------------------------------
(* Stored ML-KEM keys and CBOR values.                                      *)

LEMMA ScalarIs ==
    ASSUME NEW k, IsPrivateKey(k)
    PROVE  /\ k = [variant |-> k.variant, dk |-> k.dk, x |-> k.x]
           /\ k.variant \in Variants /\ k.dk \in Seq(Octet) /\ Len(k.dk) = DkSize[k.variant]
           /\ \/ k.x = <<>>
              \/ \E x \in Seq(Octet) : k.x = <<x>> /\ Len(x) = XSize
<1>1. /\ k \in [variant : Variants, dk : Seq(Octet), x : Seq(Seq(Octet))]
      /\ Len(k.dk) = DkSize[k.variant]
      /\ k.x # <<>> => Len(k.x) = 1 /\ Len(k.x[1]) = XSize
  BY DEF IsPrivateKey
<1>2. k = [variant |-> k.variant, dk |-> k.dk, x |-> k.x]
      /\ k.variant \in Variants /\ k.dk \in Seq(Octet) /\ k.x \in Seq(Seq(Octet))
  BY <1>1
<1>3. CASE k.x # <<>>
  <2> DEFINE p == k.x
             X == Seq(Octet)
  <2> HIDE DEF X
  <2>1. p \in Seq(X) /\ Len(p) = 1
    BY <1>1, <1>2, <1>3 DEF X
  <2> HIDE DEF p
  <2>2. p[1] \in X /\ p = <<p[1]>>
    BY <2>1
  <2> QED
    BY <1>1, <1>2, <1>3, <2>2 DEF p, X
<1> QED
  BY <1>1, <1>2, <1>3

\* The four parts a stored key is taken apart into.
IsStored(w, v, f, dk, x) ==
    /\ v \in Variants /\ f \in Octet /\ dk \in Seq(Octet) /\ x \in Seq(Octet)
    /\ Len(dk) = DkSize[v] /\ Len(x) = IF f # 0 THEN XSize ELSE 0
    /\ w = (<<v, f>> \o dk) \o x

LEMMA FromKeyBytesIs ==
    ASSUME NEW w, NEW v, NEW f, NEW dk, NEW x, IsStored(w, v, f, dk, x)
    PROVE  /\ w \in Seq(Octet) /\ Len(w) = 2 + Len(dk) + Len(x) /\ w[1] = v /\ w[2] = f
           /\ FromKeyBytes(w) = Fine([variant |-> v, dk |-> dk,
                                      x |-> IF Len(x) = 0 THEN <<>> ELSE <<x>>])
<1> DEFINE h == <<v, f>>
<1>0. /\ v \in Variants /\ f \in Octet /\ dk \in Seq(Octet) /\ x \in Seq(Octet)
      /\ Len(dk) = DkSize[v] /\ Len(x) = IF f # 0 THEN XSize ELSE 0
  BY DEF IsStored
<1>1. {0, 1} \subseteq Octet
  <2>1. Radix \in Nat /\ Radix >= 2
    BY RadixIs
  <2> QED
    BY <2>1 DEF Octet
<1>2. h \in Seq(Octet) /\ Len(h) = 2 /\ h[1] = v /\ h[2] = f
  <2>1. v \in Octet
    BY <1>0, <1>1 DEF Variants
  <2> QED
    BY <1>0, <2>1
<1>3. w = (h \o dk) \o x
  BY DEF IsStored
<1> HIDE DEF h
<1>4. /\ w \in Seq(Octet) /\ Len(w) = Len(h) + Len(dk) + Len(x)
      /\ SubSeq(w, Len(h) + 1, Len(h) + Len(dk)) = dk
      /\ SubSeq(w, Len(h) + Len(dk) + 1, Len(w)) = x
  <2>1. h \in Seq(Octet) /\ dk \in Seq(Octet) /\ x \in Seq(Octet)
    BY <1>0, <1>2
  <2> QED
    BY <1>3, <2>1, Middle
<1>5. w[1] = v /\ w[2] = f
  <2> DEFINE e == h \o dk
  <2>1. e \in Seq(Octet) /\ Len(e) = Len(h) + Len(dk) /\ Len(dk) \in Nat
        /\ \A i \in 1 .. Len(h) : e[i] = h[i]
    BY <1>0, <1>2, Joined
  <2> HIDE DEF e
  <2>2. \A i \in 1 .. Len(e) : w[i] = e[i]
    BY <1>0, <1>3, <2>1, Joined DEF e
  <2>3. 1 \in 1 .. Len(h) /\ 2 \in 1 .. Len(h) /\ 1 \in 1 .. Len(e) /\ 2 \in 1 .. Len(e)
    BY <1>2, <2>1
  <2> QED
    BY <1>2, <2>1, <2>2, <2>3
<1> DEFINE m == Len(dk)
           n == Len(x)
           N == Len(w)
<1>6. m \in Nat /\ n \in Nat /\ N = 2 + m + n
  <2>1. Len(dk) \in Nat /\ Len(x) \in Nat
    BY <1>0
  <2> QED
    BY <1>2, <1>4, <2>1
<1>7. m = DkSize[v] /\ n = (IF f # 0 THEN XSize ELSE 0)
  BY <1>0
<1>8. SubSeq(w, 3, 2 + m) = dk /\ SubSeq(w, 2 + m + 1, N) = x
  <2>1. Len(h) + 1 = 3
    BY <1>2
  <2> QED
    BY <1>2, <1>4, <2>1
<1> HIDE DEF m, n, N
<1>9. N - n = 2 + m /\ ~(N < 2) /\ N = 2 + n + m
  BY <1>6
<1>10. SubSeq(w, 3, N - n) = dk /\ SubSeq(w, N - n + 1, N) = x
  BY <1>8, <1>9
<1>11. FromKeyBytes(w) =
         IF N < 2 \/ v \notin Variants \/ N # 2 + n + DkSize[v] THEN Fail("Malformed")
         ELSE Fine([variant |-> v, dk |-> SubSeq(w, 3, N - n),
                    x |-> IF n = 0 THEN <<>> ELSE <<SubSeq(w, N - n + 1, N)>>])
  BY <1>5, <1>7 DEF FromKeyBytes, N
<1>12. FromKeyBytes(w) = Fine([variant |-> v, dk |-> dk, x |-> IF n = 0 THEN <<>> ELSE <<x>>])
  BY <1>0, <1>7, <1>9, <1>10, <1>11
<1> QED
  BY <1>4, <1>5, <1>6, <1>2, <1>12 DEF m, n, N

\* What a break leaves is what was written.
LEMMA BrokenStart ==
    ASSUME NEW s \in Seq(Octet), NEW d, Broken(s, d)
    PROVE  \A i \in 1 .. Len(d) : i \in 1 .. Len(s) => d[i] = s[i]
<1>1. CASE Short(s, d)
  <2>1. PICK k \in 0 .. Len(s) - 1 : d = SubSeq(s, 1, k)
    BY <1>1 DEF Short
  <2>2. k \in Nat /\ k <= Len(s)
    OBVIOUS
  <2> QED
    BY <2>1, <2>2, Start
<1>2. CASE Longer(s, d)
  <2>1. PICK x \in Octet : d = Append(s, x)
    BY <1>2 DEF Longer
  <2> QED
    BY <2>1
<1> QED
  BY <1>1, <1>2 DEF Broken

\* Any key of another length is refused, whatever it says of itself.
LEMMA PrivateReadsBack ==
    ASSUME NEW k, IsPrivateKey(k)
    PROVE  /\ ToKeyBytes(k) \in Seq(Octet)
           /\ FromKeyBytes(ToKeyBytes(k)) = Fine(k)
           /\ \A d : Broken(ToKeyBytes(k), d) => FromKeyBytes(d) = Fail("Malformed")
<1> DEFINE w  == ToKeyBytes(k)
           f  == Len(k.x)
           v  == k.variant
           dk == k.dk
           x  == IF k.x = <<>> THEN <<>> ELSE k.x[1]
           h  == <<v, f>>
<1>1. /\ k = [variant |-> v, dk |-> dk, x |-> k.x]
      /\ v \in Variants /\ dk \in Seq(Octet) /\ Len(dk) = DkSize[v]
  BY ScalarIs
<1>2. /\ f \in {0, 1} /\ x \in Seq(Octet)
      /\ f = 0 => k.x = <<>> /\ Len(x) = 0
      /\ f = 1 => k.x = <<x>> /\ Len(x) = XSize
  <2>1. CASE k.x = <<>>
    BY <2>1
  <2>2. ASSUME NEW y \in Seq(Octet), k.x = <<y>>, Len(y) = XSize
        PROVE  f = 1 /\ x = y
    BY <2>2
  <2> QED
    BY <2>1, <2>2, ScalarIs
<1>3. w = (h \o dk) \o x
  BY DEF ToKeyBytes
<1>4. {0, 1} \subseteq Octet
  <2>1. Radix \in Nat /\ Radix >= 2
    BY RadixIs
  <2> QED
    BY <2>1 DEF Octet
<1> HIDE DEF v, dk, x, f
<1>5. f \in Octet /\ Len(x) = (IF f # 0 THEN XSize ELSE 0)
  BY <1>2, <1>4
<1> HIDE DEF w
<1>6. IsStored(w, v, f, dk, x)
  BY <1>1, <1>2, <1>3, <1>5 DEF IsStored
<1>7. /\ w \in Seq(Octet) /\ Len(w) = 2 + Len(dk) + Len(x) /\ w[1] = v /\ w[2] = f
      /\ FromKeyBytes(w) = Fine([variant |-> v, dk |-> dk,
                                 x |-> IF Len(x) = 0 THEN <<>> ELSE <<x>>])
  BY <1>6, FromKeyBytesIs
<1>8. FromKeyBytes(w) = Fine(k)
  <2>1. CASE f = 0
    <3>1. Len(x) = 0 /\ k.x = <<>>
      BY <1>2, <2>1
    <3> QED
      BY <1>1, <1>7, <3>1
  <2>2. CASE f = 1
    <3>1. Len(x) # 0 /\ k.x = <<x>>
      BY <1>2, <2>2, KeyAssumption
    <3> QED
      BY <1>1, <1>7, <3>1
  <2> QED
    BY <1>2, <2>1, <2>2
<1>9. ASSUME NEW d, Broken(w, d)
      PROVE  FromKeyBytes(d) = Fail("Malformed")
  <2> DEFINE n == IF d[2] # 0 THEN XSize ELSE 0
             N == Len(d)
             W == Len(w)
  <2>1. d \in Seq(Octet) /\ N \in Nat /\ W \in Nat /\ N # W
    <3>1. d \in Seq(Octet) /\ N # W
      BY <1>7, <1>9, BrokenIs
    <3> QED
      BY <1>7, <3>1
  <2>2. W = 2 + Len(x) + Len(dk) /\ W >= 2
    <3>1. Len(x) \in Nat /\ Len(dk) \in Nat
      BY <1>1, <1>2
    <3> QED
      BY <1>7, <3>1
  <2>3. \A i \in 1 .. N : i \in 1 .. W => d[i] = w[i]
    BY <1>7, <1>9, BrokenStart
  <2> HIDE DEF N, W
  <2>4. CASE N < 2
    BY <2>4 DEF FromKeyBytes, N
  <2>5. CASE ~(N < 2)
    <3>1. 1 \in 1 .. N /\ 1 \in 1 .. W /\ 2 \in 1 .. N /\ 2 \in 1 .. W
      BY <2>1, <2>2, <2>5
    <3>2. d[1] = v /\ d[2] = f
      BY <1>7, <2>3, <3>1
    <3>3. n = Len(x) /\ DkSize[d[1]] = Len(dk)
      BY <1>1, <1>5, <3>2
    <3>4. N # 2 + n + DkSize[d[1]]
      BY <2>1, <2>2, <3>3
    <3> QED
      BY <3>4 DEF FromKeyBytes, N
  <2> QED
    BY <2>4, <2>5
<1> QED
  BY <1>7, <1>8, <1>9 DEF w

LEMMA ValueReadsBack ==
    ASSUME NEW v \in Seq(Octet), Len(v) \in Octet
    PROVE  /\ ToVec(v) \in Seq(Octet)
           /\ FromSlice(ToVec(v)) = Fine(v)
           /\ \A d : Short(ToVec(v), d) => FromSlice(d) = Fail("Cbor")
<1> DEFINE h == <<Len(v)>>
           w == ToVec(v)
           n == Len(v)
<1>1. /\ w = h \o v /\ h \in Seq(Octet) /\ Len(h) = 1 /\ h[1] = n /\ n \in Nat
  BY DEF ToVec
<1> HIDE DEF h, w
<1>2. w \in Seq(Octet) /\ Len(w) = 1 + n /\ w[1] = n
  <2>1. /\ w \in Seq(Octet) /\ Len(w) = Len(h) + Len(v)
        /\ \A i \in 1 .. Len(h) : w[i] = h[i]
    BY <1>1, Joined
  <2>2. 1 \in 1 .. Len(h)
    BY <1>1
  <2> QED
    BY <1>1, <2>1, <2>2
<1>3. SubSeq(w, 2, 1 + n) = v
  <2>1. SubSeq(w, Len(h) + 1, Len(w)) = v
    BY <1>1, JoinedParts
  <2>2. Len(h) + 1 = 2
    BY <1>1
  <2> QED
    BY <1>2, <2>1, <2>2
<1> HIDE DEF n
<1>4. FromSlice(w) = Fine(v)
  <2>1. w # <<>> /\ ~(Len(w) < 1 + n)
    BY <1>1, <1>2
  <2> QED
    BY <1>2, <1>3, <2>1 DEF FromSlice
<1>5. ASSUME NEW d, Short(w, d)
      PROVE  FromSlice(d) = Fail("Cbor")
  <2> DEFINE N == Len(d)
             W == Len(w)
  <2>1. d \in Seq(Octet) /\ N \in Nat /\ N < W /\ W = 1 + n
    BY <1>2, <1>5, ShortIs
  <2>2. \A i \in 1 .. N : i \in 1 .. W => d[i] = w[i]
    BY <1>2, <1>5, BrokenStart DEF Broken
  <2> HIDE DEF N, W
  <2>3. CASE d = <<>>
    BY <2>3 DEF FromSlice
  <2>4. CASE d # <<>>
    <3>1. N >= 1
      BY <2>1, <2>4 DEF N
    <3>2. 1 \in 1 .. N /\ 1 \in 1 .. W
      BY <1>1, <2>1, <3>1
    <3>3. d[1] = n
      BY <1>2, <2>2, <3>2
    <3>4. N < 1 + n
      BY <2>1
    <3> QED
      BY <3>3, <3>4 DEF FromSlice, N
  <2> QED
    BY <2>3, <2>4
<1> QED
  BY <1>2, <1>4, <1>5 DEF w

-----------------------------------------------------------------------------
(* No bytes make a reader panic on a wide target that does not check.       *)

Wide(t) == t \in Targets /\ ~t.checked /\ t.bits >= WordBits

\* A result that is an error other than a panic.
Refused(r) == r.error \notin {"none", "panic"}

LEMMA FailIs == \A e : Fail(e).error = e
  BY DEF Fail

LEMMA UvarintReturns ==
    ASSUME NEW t, Wide(t), NEW data \in Seq(Octet)
    PROVE  LET r == ReadUvarint(t, data)
           IN  \/ Refused(r)
               \/ r.error = "none" /\ r.used \in Nat /\ r.value \in Nat
<1> DEFINE r == ReadUvarint(t, data)
<1>1. t \in Target /\ ~t.checked
  BY TargetIs DEF Wide
<1>2. \/ r = Fail("Malformed")
      \/ \E n \in 1 .. Len(data) : \E v \in Word : r = [error |-> "none", used |-> n, value |-> v]
  BY <1>1, ReadUvarintReturns
<1> HIDE DEF r
<1>3. CASE r = Fail("Malformed")
  BY <1>3, FailIs DEF Refused, r
<1>4. ASSUME NEW n \in 1 .. Len(data), NEW v \in Word,
             r = [error |-> "none", used |-> n, value |-> v]
      PROVE  r.error = "none" /\ r.used \in Nat /\ r.value \in Nat
  BY <1>4, WordIs
<1> QED
  BY <1>2, <1>3, <1>4 DEF r

LEMMA ChunkReturns ==
    ASSUME NEW t, Wide(t), NEW data \in Seq(Octet), NEW limit, NEW reserve
    PROVE  LET r == ReadChunk(t, data, limit, reserve)
           IN  Refused(r) \/ (r.error = "none" /\ r.rest \in Seq(Octet))
<1> DEFINE u == ReadUvarint(t, data)
           r == ReadChunk(t, data, limit, reserve)
           len == u.value % Power[t.bits]
           c == [error |-> "none",
                 chunk |-> SubSeq(data, u.used + 1, u.used + len),
                 rest  |-> SubSeq(data, u.used + len + 1, Len(data))]
<1>1. Refused(u) \/ (u.error = "none" /\ u.used \in Nat /\ u.value \in Nat)
  BY UvarintReturns
<1>2. r = IF u.error # "none" THEN u
          ELSE IF len > limit \/ Len(data) < u.used + len + reserve THEN Fail("Malformed") ELSE c
  BY DEF ReadChunk, Then
<1> HIDE DEF u
<1>3. CASE Refused(u)
  <2>1. r = u
    BY <1>2, <1>3 DEF Refused
  <2> HIDE DEF r
  <2> QED
    BY <1>3, <2>1 DEF r
<1>4. CASE u.error = "none" /\ u.used \in Nat /\ u.value \in Nat
  <2>1. len \in Nat
    <3> DEFINE v == u.value
               p == Power[t.bits]
    <3>1. v \in Nat /\ p \in Nat \ {0}
      BY <1>4, TargetIs DEF Wide
    <3> HIDE DEF v, p
    <3>2. v % p \in 0 .. p - 1 /\ p \in Nat
      BY <3>1, Division
    <3>3. v % p \in Nat
      BY <3>2
    <3> QED
      BY <3>3 DEF v, p
  <2> HIDE DEF len
  <2>2. u.used + len \in Nat /\ Len(data) \in Nat
    BY <1>4, <2>1
  <2>3. SubSeq(data, u.used + len + 1, Len(data)) \in Seq(Octet)
    <3> DEFINE m == u.used + len
    <3>1. m \in Nat
      BY <2>2
    <3> HIDE DEF m
    <3>2. SubSeq(data, m + 1, Len(data)) \in Seq(Octet)
      BY <2>2, <3>1, Slice
    <3> QED
      BY <3>2 DEF m
  <2>4. c.error = "none" /\ c.rest \in Seq(Octet)
    BY <2>3
  <2> HIDE DEF c
  <2>5. r = Fail("Malformed") \/ r = c
    BY <1>2, <1>4
  <2> HIDE DEF r
  <2> QED
    BY <2>4, <2>5, FailIs DEF Refused, r
<1> QED
  BY <1>1, <1>3, <1>4

LEMMA TailReturns ==
    ASSUME NEW rest
    PROVE  OpenTail(rest).error # "panic"
  BY DEF OpenTail, Fail, Fine

LEMMA AfterFirst ==
    ASSUME NEW s \in Seq(Octet), s # <<>>
    PROVE  Tail(s) \in Seq(Octet)
  OBVIOUS

LEMMA EcdhReturns ==
    ASSUME NEW t, Wide(t), NEW data \in Seq(Octet)
    PROVE  OpenEcdh(t, data).error # "panic"
<1>1. CASE data = <<>> \/ data[1] # 0
  BY <1>1 DEF OpenEcdh, Fail
<1>2. CASE ~(data = <<>> \/ data[1] # 0)
  <2> DEFINE e == Tail(data)
             c == ReadChunk(t, e, MaxEcdhPrefix, Len(Nonce))
  <2>1. e \in Seq(Octet)
    BY <1>2, AfterFirst
  <2> HIDE DEF e
  <2>2. Refused(c) \/ c.error = "none"
    BY <2>1, ChunkReturns
  <2> HIDE DEF c
  <2>3. OpenEcdh(t, data) = Then(c, LAMBDA d :
            IF d.chunk # EphemeralPkix THEN Fail("Pkix") ELSE OpenTail(d.rest))
    BY <1>2 DEF OpenEcdh, c, e
  <2> QED
    BY <2>2, <2>3, FailIs, TailReturns DEF Then, Refused
<1> QED
  BY <1>1, <1>2

LEMMA PureReturns ==
    ASSUME NEW t, Wide(t), NEW data \in Seq(Octet)
    PROVE  OpenPure(t, data).error # "panic"
<1> DEFINE c == ReadChunk(t, data, MaxKemPrefix, 0)
<1>1. Refused(c) \/ c.error = "none"
  BY ChunkReturns
<1> HIDE DEF c
<1>2. OpenPure(t, data) = Then(c, LAMBDA m :
          IF m.chunk # KemText THEN Fail("Malformed") ELSE OpenTail(m.rest))
  BY DEF OpenPure, c
<1> QED
  BY <1>1, <1>2, FailIs, TailReturns DEF Then, Refused

LEMMA HybridReturns ==
    ASSUME NEW t, Wide(t), NEW data \in Seq(Octet)
    PROVE  OpenHybrid(t, data).error # "panic"
<1> DEFINE c == ReadChunk(t, data, MaxKemPrefix, 0)
           d == ReadChunk(t, c.rest, MaxKemPrefix, 0)
           Last(x, m) == IF x.chunk # EphemeralPkix THEN Fail("Pkix")
                         ELSE IF m.chunk # KemText THEN Fail("Malformed")
                         ELSE OpenTail(m.rest)
<1>1. Refused(c) \/ (c.error = "none" /\ c.rest \in Seq(Octet))
  BY ChunkReturns
<1>2. OpenHybrid(t, data) = IF c.error # "none" THEN c
                            ELSE IF d.error # "none" THEN d ELSE Last(c, d)
  BY DEF OpenHybrid, Then
<1> HIDE DEF c
<1>3. CASE Refused(c)
  BY <1>2, <1>3 DEF Refused
<1>4. CASE c.error = "none" /\ c.rest \in Seq(Octet)
  <2> DEFINE e == c.rest
  <2>1. e \in Seq(Octet)
    BY <1>4
  <2> HIDE DEF e
  <2>2. Refused(ReadChunk(t, e, MaxKemPrefix, 0)) \/ ReadChunk(t, e, MaxKemPrefix, 0).error = "none"
    BY <2>1, ChunkReturns
  <2>3. Refused(d) \/ d.error = "none"
    BY <2>2 DEF e
  <2> HIDE DEF d
  <2>4. Last(c, d).error # "panic"
    BY FailIs, TailReturns
  <2> QED
    BY <1>2, <1>4, <2>3, <2>4 DEF Refused
<1> QED
  BY <1>1, <1>3, <1>4

LEMMA EnvelopeReturns ==
    ASSUME NEW t, Wide(t), NEW data \in Seq(Octet), NEW kind
    PROVE  OpenEnvelope(t, kind, data).error # "panic"
<1>1. CASE kind = "ecdh"
  BY <1>1, EcdhReturns DEF OpenEnvelope
<1>2. CASE kind # "ecdh" /\ data = <<>>
  BY <1>2, FailIs DEF OpenEnvelope
<1>3. CASE kind # "ecdh" /\ data # <<>>
  <2> DEFINE e == Tail(data)
  <2>1. e \in Seq(Octet)
    BY <1>3, AfterFirst
  <2>2. OpenEnvelope(t, kind, data) \in {OpenHybrid(t, e), OpenPure(t, e), Fail("Crypto"), Fail("Malformed")}
    BY <1>3 DEF OpenEnvelope
  <2> HIDE DEF e
  <2>3. OpenHybrid(t, e).error # "panic" /\ OpenPure(t, e).error # "panic"
    BY <2>1, HybridReturns, PureReturns
  <2> QED
    BY <2>2, <2>3, FailIs
<1> QED
  BY <1>1, <1>2, <1>3

\* A length of so many bytes and its header fit the word.
LEMMA LimitHolds ==
    ASSUME NEW t, Wide(t), NEW n \in Nat, n <= MaxLengthBytes
    PROVE  /\ Radix + 2 < Power[t.bits]
           /\ Bytes(n) + n + 2 <= Power[t.bits]
<1> DEFINE p == Power[t.bits]
           w == Power[WordBits]
           l == LongLimit
           b == Bytes(n)
           one == Bytes(1)
<1>1. t.bits \in Nat /\ WordBits \in Nat /\ WordBits <= t.bits
  BY TargetIs, WidthAssumption DEF Wide
<1>2. p \in Nat /\ w \in Nat /\ w <= p
  BY <1>1, PowerStep, PowerGrows
<1>3. /\ MaxLengthBytes \in Nat /\ MaxLengthBytes >= 1
      /\ l = Bytes(MaxLengthBytes) /\ l \in Nat /\ l + MaxLengthBytes + 2 <= w
  BY LimitsAre
<1>4. \A m \in Nat : m <= MaxLengthBytes => Bytes(m) <= l /\ Bytes(m) \in Nat
  <2> SUFFICES ASSUME NEW m \in Nat, m <= MaxLengthBytes
               PROVE  Bytes(m) <= l /\ Bytes(m) \in Nat
    OBVIOUS
  <2> DEFINE x == (GroupBits + 1) * m
             y == (GroupBits + 1) * MaxLengthBytes
  <2>1. x \in Nat /\ y \in Nat /\ x <= y
    <3>1. GroupBits \in Nat
      BY WidthAssumption
    <3> QED
      BY <1>3, <3>1
  <2> HIDE DEF x, y
  <2>2. Power[x] <= Power[y] /\ Power[x] \in Nat
    BY <2>1, PowerStep, PowerGrows
  <2> QED
    BY <1>3, <2>2 DEF Bytes, x, y
<1>5. b \in Nat /\ b <= l /\ one <= l /\ one = ByteRadix
  BY <1>3, <1>4, BytesHold
<1>6. Radix \in Nat /\ Radix >= 2 /\ ByteRadix = 2 * Radix
  BY RadixIs DEF ByteRadix
<1> HIDE DEF p, w, l, b, one
<1>7. Radix + 2 < p /\ b + n + 2 <= p
  BY <1>2, <1>3, <1>5, <1>6
<1> QED
  BY <1>7 DEF p, b

LEMMA TlvReturns ==
    ASSUME NEW t, Wide(t), NEW data \in Seq(Octet)
    PROVE  LET r == ReadTlv(t, data)
           IN  \/ Refused(r)
               \/ r.error = "none" /\ r.body \in Seq(Octet) /\ r.rest \in Seq(Octet)
<1> DEFINE r == ReadTlv(t, data)
           N == Len(data)
           x == data[2]
           n == x - Radix
           p == Power[t.bits]
<1>1. CASE N < 2 \/ LengthRefused(data)
  <2>1. r = Fail("Pkix")
    BY <1>1 DEF ReadTlv
  <2> HIDE DEF r
  <2> QED
    BY <2>1, FailIs DEF Refused, r
<1>2. CASE ~(N < 2) /\ ~LengthRefused(data)
  <2>1. N \in Nat /\ N >= 2
    BY <1>2
  <2>2. x \in Nat
    <3> HIDE DEF N
    <3>1. 2 \in 1 .. N
      BY <2>1
    <3> QED
      BY <3>1, ByteIs DEF N
  <2>3. Radix \in Nat /\ MaxLengthBytes \in Nat /\ p \in Nat
    BY RadixIs, LimitsAre, TargetIs DEF Wide
  \* The header and the body end below the word.
  <2>4. \E len \in Nat, hdr \in Nat :
           Length(data) = [len |-> len, hdr |-> hdr] /\ hdr + len < p
    <3>1. CASE x < Radix
      <4>1. Length(data) = [len |-> x, hdr |-> 2]
        BY <3>1 DEF Length
      <4>2. Radix + 2 < p
        BY <2>3, LimitHolds
      <4> HIDE DEF x, p
      <4>3. 2 + x < p
        BY <2>2, <2>3, <3>1, <4>2
      <4> QED
        BY <2>2, <4>1, <4>3
    <3>2. CASE ~(x < Radix)
      <4> DEFINE g == SubSeq(data, 3, 2 + n)
                 len == Big(g)[n]
      <4>1. n # 0 /\ ~(n > MaxLengthBytes) /\ ~(N < 2 + n)
        <5>1. x >= Radix
          <6> HIDE DEF x
          <6> QED
            BY <2>2, <2>3, <3>2
        <5> QED
          BY <1>2, <5>1 DEF LengthRefused
      <4>2. n \in Nat
        <5> HIDE DEF x
        <5> QED
          BY <2>2, <2>3, <3>2
      <4>3. Length(data) = [len |-> len, hdr |-> 2 + n]
        BY <3>2 DEF Length
      <4> HIDE DEF N, n
      <4>4. n <= MaxLengthBytes /\ 2 + n <= N /\ 2 + n \in Nat
        BY <2>1, <2>3, <4>1, <4>2
      <4>5. g \in Seq(Octet) /\ Len(g) = n
        <5> DEFINE e == 2 + n
                   h == SubSeq(data, 2 + 1, e)
        <5>1. e \in Nat /\ e <= Len(data) /\ e - 2 = n /\ 2 <= e
          BY <4>2, <4>4 DEF N
        <5> HIDE DEF e
        <5>2. h \in Seq(Octet) /\ Len(h) = IF 2 <= e THEN e - 2 ELSE 0
          BY <5>1, Slice
        <5>3. g = h
          BY DEF e
        <5> HIDE DEF g, h
        <5> QED
          BY <5>1, <5>2, <5>3
      <4> HIDE DEF g
      <4>6. len \in Nat /\ len < Bytes(n) /\ Bytes(n) \in Nat
        <5>1. n \in 0 .. Len(g)
          BY <4>2, <4>5
        <5> QED
          BY <4>2, <4>5, <5>1, BigStep, BigBound, BytesHold
      <4>7. Bytes(n) + n + 2 <= p
        BY <4>2, <4>4, LimitHolds
      <4> DEFINE b == Bytes(n)
      <4> HIDE DEF len, p, b
      <4>8. (2 + n) + len < p
        BY <2>3, <4>2, <4>6, <4>7 DEF b
      <4> QED
        BY <4>3, <4>4, <4>6, <4>8
    <3> QED
      BY <3>1, <3>2
  <2>5. PICK len \in Nat, hdr \in Nat :
           Length(data) = [len |-> len, hdr |-> hdr] /\ hdr + len < p
    BY <2>4
  <2> DEFINE end == hdr + len
             b == Body(data, hdr, end)
  <2>6. r = Split(t, data, [len |-> len, hdr |-> hdr])
    BY <1>2, <2>5 DEF ReadTlv
  <2>7. r = IF end >= p THEN Fail("panic") ELSE IF N < end THEN Fail("Pkix") ELSE b
    BY <2>6 DEF Split
  <2>8. end \in Nat /\ ~(end >= p)
    <3>1. end \in Nat /\ end < p
      BY <2>5
    <3> HIDE DEF p, end
    <3> QED
      BY <2>3, <3>1
  <2> HIDE DEF end, p
  <2>9. CASE N < end
    <3>1. r = Fail("Pkix")
      BY <2>7, <2>8, <2>9
    <3> HIDE DEF r
    <3> QED
      BY <3>1, FailIs DEF Refused, r
  <2>10. CASE ~(N < end)
    <3>1. r = b
      BY <2>7, <2>8, <2>10
    <3>2. end <= Len(data)
      BY <2>1, <2>8, <2>10
    <3>3. SubSeq(data, hdr + 1, end) \in Seq(Octet)
      BY <2>8, <3>2, Slice
    <3>4. SubSeq(data, end + 1, Len(data)) \in Seq(Octet)
      BY <2>1, <2>8, Slice
    <3>5. b.error = "none" /\ b.body \in Seq(Octet) /\ b.rest \in Seq(Octet)
      BY <3>3, <3>4 DEF Body
    <3> HIDE DEF r, b
    <3> QED
      BY <3>1, <3>5 DEF r
  <2> QED
    BY <2>9, <2>10
<1> QED
  BY <1>1, <1>2

LEMMA ExpectReturns ==
    ASSUME NEW t, Wide(t), NEW data \in Seq(Octet), NEW tag
    PROVE  /\ \/ Refused(ExpectAny(t, data, tag))
              \/ /\ ExpectAny(t, data, tag).error = "none"
                 /\ ExpectAny(t, data, tag).body \in Seq(Octet)
                 /\ ExpectAny(t, data, tag).rest \in Seq(Octet)
           /\ \/ Refused(ExpectFull(t, data, tag))
              \/ /\ ExpectFull(t, data, tag).error = "none"
                 /\ ExpectFull(t, data, tag).body \in Seq(Octet)
                 /\ ExpectFull(t, data, tag).body # <<>>
                 /\ ExpectFull(t, data, tag).rest \in Seq(Octet)
<1> DEFINE r == ReadTlv(t, data)
           e == ExpectAny(t, data, tag)
           f == ExpectFull(t, data, tag)
           q == Fail("Pkix")
<1>1. Refused(r) \/ (r.error = "none" /\ r.body \in Seq(Octet) /\ r.rest \in Seq(Octet))
  BY TlvReturns
<1>2. /\ r.error # "none" => e = r /\ f = r
      /\ r.error = "none" => e \in {q, r}
      /\ r.error = "none" => f = q \/ (f = r /\ r.body # <<>>)
  BY DEF ExpectAny, ExpectFull, Expect, Then
<1>3. Refused(q)
  BY FailIs DEF Refused
<1> HIDE DEF r, e, f, q
<1>4. /\ Refused(e) \/ (e.error = "none" /\ e.body \in Seq(Octet) /\ e.rest \in Seq(Octet))
      /\ Refused(f) \/ (f.error = "none" /\ f.body \in Seq(Octet) /\ f.body # <<>> /\ f.rest \in Seq(Octet))
  <2>1. CASE Refused(r)
    <3>1. e = r /\ f = r
      BY <1>2, <2>1 DEF Refused
    <3> QED
      BY <2>1, <3>1
  <2>2. CASE r.error = "none" /\ r.body \in Seq(Octet) /\ r.rest \in Seq(Octet)
    <3>1. e \in {q, r} /\ (f = q \/ (f = r /\ r.body # <<>>))
      BY <1>2, <2>2
    <3> QED
      BY <1>3, <2>2, <3>1
  <2> QED
    BY <1>1, <2>1, <2>2
<1> QED
  BY <1>4 DEF e, f

LEMMA OidReturns ==
    ASSUME NEW body
    PROVE  Refused(DecodeOid(body)) \/ DecodeOid(body).error = "none"
  BY DEF DecodeOid, Refused, Fail, Fine

LEMMA PartsReturn ==
    ASSUME NEW t, Wide(t), NEW body \in Seq(Octet)
    PROVE  LET r == ParseParts(t, body)
           IN  Refused(r) \/ (r.error = "none" /\ r.key \in Seq(Octet))
<1> DEFINE a == ExpectAny(t, body, SequenceTag)
           b == ExpectAny(t, a.body, OidTag)
           c == DecodeOid(b.body)
           d == ExpectFull(t, a.rest, BitStringTag)
           r == ParseParts(t, body)
           l == [error |-> "none", oid |-> c.value, key |-> Tail(d.body)]
<1>1. r = IF a.error # "none" THEN a ELSE IF b.error # "none" THEN b
          ELSE IF c.error # "none" THEN c ELSE IF d.error # "none" THEN d ELSE l
  BY DEF ParseParts, Then, ExpectAny, ExpectFull
<1>2. Refused(a) \/ (a.error = "none" /\ a.body \in Seq(Octet) /\ a.rest \in Seq(Octet))
  BY ExpectReturns
<1> DEFINE x == a.body
           y == a.rest
<1>3. a.error = "none" => Refused(b) \/ b.error = "none"
  <2> SUFFICES ASSUME a.error = "none"
               PROVE  Refused(b) \/ b.error = "none"
    OBVIOUS
  <2>1. x \in Seq(Octet)
    BY <1>2 DEF Refused
  <2> HIDE DEF x
  <2>2. Refused(ExpectAny(t, x, OidTag)) \/ ExpectAny(t, x, OidTag).error = "none"
    BY <2>1, ExpectReturns
  <2> QED
    BY <2>2 DEF x
<1>4. Refused(c) \/ c.error = "none"
  BY OidReturns
<1>5. a.error = "none" => Refused(d) \/ (d.error = "none" /\ d.body \in Seq(Octet) /\ d.body # <<>>)
  <2> SUFFICES ASSUME a.error = "none"
               PROVE  Refused(d) \/ (d.error = "none" /\ d.body \in Seq(Octet) /\ d.body # <<>>)
    OBVIOUS
  <2>1. y \in Seq(Octet)
    BY <1>2 DEF Refused
  <2> DEFINE g == ExpectFull(t, y, BitStringTag)
  <2> HIDE DEF y
  <2>2. Refused(g) \/ (g.error = "none" /\ g.body \in Seq(Octet) /\ g.body # <<>>)
    BY <2>1, ExpectReturns
  <2> QED
    BY <2>2 DEF y
<1>6. d.body \in Seq(Octet) /\ d.body # <<>> => l.error = "none" /\ l.key \in Seq(Octet)
  <2> DEFINE z == d.body
  <2> HIDE DEF z
  <2>1. z \in Seq(Octet) /\ z # <<>> => Tail(z) \in Seq(Octet)
    BY AfterFirst
  <2> QED
    BY <2>1 DEF z
<1> HIDE DEF a, b, c, d, l, r
<1>7. Refused(r) \/ (r.error = "none" /\ r.key \in Seq(Octet))
  BY <1>1, <1>2, <1>3, <1>4, <1>5, <1>6 DEF Refused
<1> QED
  BY <1>7 DEF r

LEMMA SpkiReturns ==
    ASSUME NEW t, Wide(t), NEW data \in Seq(Octet)
    PROVE  LET r == ParseSpki(t, data)
           IN  Refused(r) \/ (r.error = "none" /\ r.key \in Seq(Octet))
<1> DEFINE a == ExpectAny(t, data, SequenceTag)
           x == a.body
           b == ParseParts(t, x)
           q == Fail("Pkix")
           r == ParseSpki(t, data)
<1>1. r = IF a.error # "none" THEN a ELSE IF a.rest # <<>> THEN q ELSE b
  BY DEF ParseSpki, Then, ExpectAny
<1>2. Refused(a) \/ (a.error = "none" /\ a.body \in Seq(Octet))
  BY ExpectReturns
<1>3. Refused(q)
  BY FailIs DEF Refused
<1>4. a.error = "none" => Refused(b) \/ (b.error = "none" /\ b.key \in Seq(Octet))
  <2> SUFFICES ASSUME a.error = "none"
               PROVE  Refused(b) \/ (b.error = "none" /\ b.key \in Seq(Octet))
    OBVIOUS
  <2>1. x \in Seq(Octet)
    BY <1>2 DEF Refused
  <2> HIDE DEF x
  <2> QED
    BY <2>1, PartsReturn
<1> HIDE DEF a, b, q, r
<1>5. Refused(r) \/ (r.error = "none" /\ r.key \in Seq(Octet))
  BY <1>1, <1>2, <1>3, <1>4 DEF Refused
<1> QED
  BY <1>5 DEF r

LEMMA CompositeReturns ==
    ASSUME NEW t, Wide(t), NEW data \in Seq(Octet)
    PROVE  ParseComposite(t, data).error # "panic"
<1> DEFINE a == ExpectAny(t, data, SequenceTag)
           x == a.body
           b == ExpectFull(t, x, BitStringTag)
           y == b.rest
           c == ExpectFull(t, y, BitStringTag)
           q == Fail("Pkix")
           l == Fine(<<Tail(b.body), Tail(c.body)>>)
           r == ParseComposite(t, data)
<1>1. r = IF a.error # "none" THEN a ELSE IF b.error # "none" THEN b
          ELSE IF Len(Tail(b.body)) # XSize THEN q
          ELSE IF c.error # "none" THEN c ELSE l
  BY DEF ParseComposite, Then, ExpectAny, ExpectFull
<1>2. Refused(a) \/ (a.error = "none" /\ a.body \in Seq(Octet))
  BY ExpectReturns
<1>3. Refused(q) /\ l.error = "none"
  BY FailIs DEF Refused, Fine
<1>4. a.error = "none" => Refused(b) \/ (b.error = "none" /\ b.rest \in Seq(Octet))
  <2> SUFFICES ASSUME a.error = "none"
               PROVE  Refused(b) \/ (b.error = "none" /\ b.rest \in Seq(Octet))
    OBVIOUS
  <2>1. x \in Seq(Octet)
    BY <1>2 DEF Refused
  <2> HIDE DEF x
  <2> QED
    BY <2>1, ExpectReturns
<1> HIDE DEF b
<1>5. b.rest \in Seq(Octet) => Refused(c) \/ c.error = "none"
  <2> SUFFICES ASSUME y \in Seq(Octet)
               PROVE  Refused(c) \/ c.error = "none"
    OBVIOUS
  <2> HIDE DEF y
  <2> QED
    BY ExpectReturns
<1> HIDE DEF a, c, q, l, r
<1>6. r.error # "panic"
  BY <1>1, <1>2, <1>3, <1>4, <1>5 DEF Refused
<1> QED
  BY <1>6 DEF r

LEMMA PublicReturns ==
    ASSUME NEW t, Wide(t), NEW data \in Seq(Octet)
    PROVE  ParsePublicKey(t, data).error # "panic"
<1> DEFINE s == ParseSpki(t, data)
           found == {k \in KeyKinds : KeyOid[k] = s.oid}
           kind  == CHOOSE k \in found : TRUE
           key   == s.key
           b     == ParseBits(t, kind, key)
           q     == Fail("Pkix")
           l     == Fine(PublicKey(kind, b.value))
           r     == ParsePublicKey(t, data)
<1>1. r = IF s.error # "none" THEN s ELSE IF found = {} THEN q
          ELSE IF b.error # "none" THEN b
          ELSE IF Len(b.value[Len(b.value)]) # KeySize[kind] THEN q ELSE l
  BY DEF ParsePublicKey, Then
<1>2. Refused(s) \/ (s.error = "none" /\ s.key \in Seq(Octet))
  BY SpkiReturns
<1>3. Refused(q) /\ l.error = "none"
  BY FailIs DEF Refused, Fine
<1>4. s.error = "none" => b.error # "panic"
  <2> SUFFICES ASSUME s.error = "none"
               PROVE  b.error # "panic"
    OBVIOUS
  <2>1. key \in Seq(Octet)
    BY <1>2 DEF Refused
  <2> HIDE DEF key, kind
  <2>2. b = ParseComposite(t, key) \/ b = Fine(<<key>>)
    BY DEF ParseBits
  <2>3. ParseComposite(t, key).error # "panic"
    BY <2>1, CompositeReturns
  <2> HIDE DEF b
  <2> QED
    BY <2>2, <2>3 DEF Fine
<1> HIDE DEF b, q, l, s, r, found, kind
<1>5. r.error # "panic"
  BY <1>1, <1>2, <1>3, <1>4 DEF Refused
<1> QED
  BY <1>5 DEF r

LEMMA RestReturn ==
    ASSUME NEW data
    PROVE  FromKeyBytes(data).error # "panic" /\ FromSlice(data).error # "panic"
  BY DEF FromKeyBytes, FromSlice, Fail, Fine

-----------------------------------------------------------------------------
(* The order of the entries of a map.                                       *)

LEMMA DifferIs ==
    ASSUME NEW a \in Seq(Octet), NEW b \in Seq(Octet), Len(a) = Len(b)
    PROVE  \/ a = b /\ Differ(a, b) = 0
           \/ /\ a # b /\ Differ(a, b) \in 1 .. Len(a) /\ a[Differ(a, b)] # b[Differ(a, b)]
              /\ \A j \in 1 .. Len(a) : j < Differ(a, b) => a[j] = b[j]
<1> DEFINE at == {i \in DOMAIN a : a[i] # b[i]}
           d  == Differ(a, b)
<1>1. d = IF at = {} THEN 0 ELSE CHOOSE i \in at : \A j \in at : i <= j
  BY DEF Differ
<1>2. at \in SUBSET Nat /\ DOMAIN a = 1 .. Len(a)
  OBVIOUS
<1>3. CASE at = {}
  <2>1. a = b
    BY <1>2, <1>3, SameSequence
  <2> QED
    BY <1>1, <1>3, <2>1
<1>4. CASE at # {}
  <2> DEFINE Least(i) == \A j \in at : i <= j
  <2>1. \E i \in at : Least(i)
    <3> HIDE DEF at
    <3> QED
      BY <1>2, <1>4, LeastNumber
  <2>2. d = CHOOSE i \in at : Least(i)
    BY <1>1, <1>4
  <2> HIDE DEF d, Least
  <2>3. d \in at /\ Least(d)
    BY <2>1, <2>2
  <2>4. d \in 1 .. Len(a) /\ a[d] # b[d]
    BY <1>2, <2>3
  <2>5. ASSUME NEW j \in 1 .. Len(a), j < d
        PROVE  a[j] = b[j]
    <3>1. j \in Nat /\ d \in Nat /\ ~(d <= j)
      BY <2>4, <2>5
    <3> QED
      BY <1>2, <2>3, <3>1 DEF Least
  <2> QED
    BY <2>4, <2>5 DEF d
<1> QED
  BY <1>3, <1>4

\* One string is below another of its length where they first differ.
Below(a, b, i) ==
    i \in 1 .. Len(a) /\ a[i] < b[i] /\ \A j \in 1 .. Len(a) : j < i => a[j] = b[j]

LEMMA PrecedesIs ==
    ASSUME NEW a \in Seq(Octet), NEW b \in Seq(Octet)
    PROVE  Precedes(a, b) <=> \/ Len(a) < Len(b)
                              \/ Len(a) = Len(b) /\ \E i : Below(a, b, i)
<1> DEFINE d == Differ(a, b)
<1>1. CASE Len(a) # Len(b)
  BY <1>1 DEF Precedes
<1>2. CASE Len(a) = Len(b)
  <2>1. ~(Len(a) < Len(b))
    BY <1>2
  <2>2. Precedes(a, b) <=> d # 0 /\ a[d] < b[d]
    BY <1>2, <2>1 DEF Precedes
  <2>3. \A i \in 1 .. Len(a) : a[i] \in Nat /\ b[i] \in Nat
    BY <1>2, ByteIs
  <2>4. \/ a = b /\ d = 0
        \/ /\ a # b /\ d \in 1 .. Len(a) /\ a[d] # b[d]
           /\ \A j \in 1 .. Len(a) : j < d => a[j] = b[j]
    BY <1>2, DifferIs
  <2> HIDE DEF d
  <2>5. ASSUME d # 0, a[d] < b[d]
        PROVE  Below(a, b, d)
    BY <2>4, <2>5 DEF Below
  <2>6. ASSUME NEW i, Below(a, b, i)
        PROVE  d # 0 /\ a[d] < b[d]
    <3>1. i \in 1 .. Len(a) /\ a[i] < b[i] /\ \A j \in 1 .. Len(a) : j < i => a[j] = b[j]
      BY <2>6 DEF Below
    <3>2. a[i] # b[i]
      BY <2>3, <3>1
    <3>3. d \in 1 .. Len(a) /\ a[d] # b[d] /\ \A j \in 1 .. Len(a) : j < d => a[j] = b[j]
      BY <2>4, <3>2
    <3>4. ~(i < d) /\ ~(d < i)
      BY <3>1, <3>2, <3>3
    <3>5. i = d
      BY <3>1, <3>3, <3>4
    <3> QED
      BY <3>1, <3>3, <3>5
  <2> QED
    BY <1>2, <2>1, <2>2, <2>5, <2>6
<1> QED
  BY <1>1, <1>2

LEMMA PrecedesOnce ==
    ASSUME NEW a \in Seq(Octet)
    PROVE  ~Precedes(a, a)
<1>1. ASSUME NEW i, Below(a, a, i)
      PROVE  FALSE
  <2>1. i \in 1 .. Len(a) /\ a[i] < a[i]
    BY <1>1 DEF Below
  <2>2. a[i] \in Nat
    BY <2>1, ByteIs
  <2> QED
    BY <2>1, <2>2
<1>2. ~(Len(a) < Len(a))
  OBVIOUS
<1> QED
  BY <1>1, <1>2, PrecedesIs

LEMMA PrecedesEither ==
    ASSUME NEW a \in Seq(Octet), NEW b \in Seq(Octet), a # b
    PROVE  Precedes(a, b) \/ Precedes(b, a)
<1> DEFINE d == Differ(a, b)
<1>1. Len(a) < Len(b) \/ Len(b) < Len(a) \/ Len(a) = Len(b)
  OBVIOUS
<1>2. CASE Len(a) = Len(b)
  <2>1. d \in 1 .. Len(a) /\ a[d] # b[d] /\ \A j \in 1 .. Len(a) : j < d => a[j] = b[j]
    BY <1>2, DifferIs
  <2>2. a[d] \in Nat /\ b[d] \in Nat
    BY <1>2, <2>1, ByteIs
  <2> HIDE DEF d
  <2>3. a[d] < b[d] \/ b[d] < a[d]
    BY <2>1, <2>2
  <2>4. Below(a, b, d) \/ Below(b, a, d)
    BY <1>2, <2>1, <2>3 DEF Below
  <2> QED
    BY <1>2, <2>4, PrecedesIs
<1> QED
  BY <1>1, <1>2, PrecedesIs

LEMMA PrecedesThrough ==
    ASSUME NEW a \in Seq(Octet), NEW b \in Seq(Octet), NEW c \in Seq(Octet),
           Precedes(a, b), Precedes(b, c)
    PROVE  Precedes(a, c)
<1> DEFINE A == Len(a)
           B == Len(b)
           C == Len(c)
<1>1. A \in Nat /\ B \in Nat /\ C \in Nat
  OBVIOUS
<1>2. /\ A < B \/ (A = B /\ \E i : Below(a, b, i))
      /\ B < C \/ (B = C /\ \E i : Below(b, c, i))
  BY PrecedesIs
<1>3. CASE A < C
  BY <1>3, PrecedesIs
<1>4. CASE ~(A < C)
  <2>1. A = B /\ B = C
    <3> DEFINE p == \E i : Below(a, b, i)
               q == \E i : Below(b, c, i)
    <3> HIDE DEF A, B, C, p, q
    <3>1. (A < B \/ A = B) /\ (B < C \/ B = C)
      BY <1>2 DEF p, q
    <3> QED
      BY <1>1, <1>4, <3>1
  <2>2. (\E i : Below(a, b, i)) /\ (\E i : Below(b, c, i))
    BY <1>2, <2>1
  <2>3. PICK i : Below(a, b, i)
    BY <2>2
  <2>4. PICK k : Below(b, c, k)
    BY <2>2
  <2> DEFINE m == IF i <= k THEN i ELSE k
  <2>5. /\ i \in 1 .. A /\ a[i] < b[i] /\ \A j \in 1 .. A : j < i => a[j] = b[j]
        /\ k \in 1 .. A /\ b[k] < c[k] /\ \A j \in 1 .. A : j < k => b[j] = c[j]
    BY <2>1, <2>3, <2>4 DEF Below
  <2>6. \A j \in 1 .. A : a[j] \in Nat /\ b[j] \in Nat /\ c[j] \in Nat
    BY <2>1, ByteIs
  <2>7. m \in 1 .. A /\ m <= i /\ m <= k /\ (m = i \/ m = k)
    <3> HIDE DEF A
    <3> QED
      BY <1>1, <2>5
  <2> HIDE DEF m
  <2>8. (m = i \/ a[m] = b[m]) /\ (m = k \/ b[m] = c[m])
    <3>1. m < i => a[m] = b[m]
      BY <2>5, <2>7
    <3>2. m < k => b[m] = c[m]
      BY <2>5, <2>7
    <3>3. (m < i \/ m = i) /\ (m < k \/ m = k)
      <4> HIDE DEF A
      <4> QED
        BY <1>1, <2>5, <2>7
    <3> QED
      BY <3>1, <3>2, <3>3
  <2>9. a[m] < c[m]
    <3> DEFINE x == a[m]
               y == b[m]
               z == c[m]
    <3>1. x \in Nat /\ y \in Nat /\ z \in Nat
      BY <2>6, <2>7
    <3>2. (m = i => x < y) /\ (m = k => y < z)
      BY <2>5
    <3>3. (x < y \/ x = y) /\ (y < z \/ y = z) /\ (x < y \/ y < z)
      BY <2>7, <2>8, <3>2
    <3> HIDE DEF x, y, z
    <3>4. x < z
      BY <3>1, <3>3
    <3> QED
      BY <3>4 DEF x, z
  <2>10. \A j \in 1 .. A : j < m => a[j] = c[j]
    <3> TAKE j \in 1 .. A
    <3> HAVE j < m
    <3>1. j < i /\ j < k
      <4> HIDE DEF A
      <4> QED
        BY <1>1, <2>5, <2>7
    <3> QED
      BY <2>5, <3>1
  <2>11. Below(a, c, m)
    BY <2>7, <2>9, <2>10 DEF Below
  <2> QED
    BY <2>1, <2>11, PrecedesIs
<1> QED
  BY <1>3, <1>4

Entry == Seq(Octet) \X FieldValues

Before(x, y) == Precedes(x[1], y[1])

LEMMA BeforeIs ==
    /\ \A x \in Entry : ~Before(x, x)
    /\ \A x, y \in Entry : x[1] # y[1] => Before(x, y) \/ Before(y, x)
    /\ \A x, y, z \in Entry : Before(x, y) /\ Before(y, z) => Before(x, z)
<1>1. \A x \in Entry : x[1] \in Seq(Octet)
  BY DEF Entry
<1>2. \A x \in Entry : ~Before(x, x)
  BY <1>1, PrecedesOnce DEF Before
<1>3. \A x, y \in Entry : x[1] # y[1] => Before(x, y) \/ Before(y, x)
  BY <1>1, PrecedesEither DEF Before
<1>4. \A x, y, z \in Entry : Before(x, y) /\ Before(y, z) => Before(x, z)
  BY <1>1, PrecedesThrough DEF Before
<1> QED
  BY <1>2, <1>3, <1>4

Ordered(s) == \A i, j \in 1 .. Len(s) : i < j => Before(s[i], s[j])

\* What the sequence s holds is what the first n members of m are.
HoldsFirst(s, m, n) ==
    /\ \A i \in 1 .. Len(s) : \E j \in 1 .. n : s[i] = m[j]
    /\ \A j \in 1 .. n : \E i \in 1 .. Len(s) : s[i] = m[j]

\* Two ordered sequences of the same entries are the same.
LEMMA OrderedOnce ==
    ASSUME NEW s \in Seq(Entry), NEW u \in Seq(Entry), Ordered(s), Ordered(u),
           \A i \in 1 .. Len(s) : \E j \in 1 .. Len(u) : s[i] = u[j],
           \A j \in 1 .. Len(u) : \E i \in 1 .. Len(s) : s[i] = u[j]
    PROVE  s = u
<1> DEFINE N == Len(s)
           M == Len(u)
           D == {k \in Nat : k >= 1 /\ k <= N /\ k <= M}
           S == {k \in D : s[k] = u[k]}
<1>1. N \in Nat /\ M \in Nat
  OBVIOUS
<1>s. \A i \in 1 .. N : s[i] \in Entry
  OBVIOUS
<1>u. \A i \in 1 .. M : u[i] \in Entry
  OBVIOUS
<1>2. /\ \A i, j \in 1 .. N : i < j => Before(s[i], s[j])
      /\ \A i, j \in 1 .. M : i < j => Before(u[i], u[j])
  BY DEF Ordered
<1>3. /\ \A i \in 1 .. N : \E j \in 1 .. M : s[i] = u[j]
      /\ \A j \in 1 .. M : \E i \in 1 .. N : s[i] = u[j]
  OBVIOUS
<1> HIDE DEF N, M
\* No entry stands at two places.
<1>4. /\ \A i, j \in 1 .. N : s[i] = s[j] => i = j
      /\ \A i, j \in 1 .. M : u[i] = u[j] => i = j
  <2>1. ASSUME NEW i \in 1 .. N, NEW j \in 1 .. N, s[i] = s[j]
        PROVE  i = j
    <3>1. ~Before(s[i], s[j]) /\ ~Before(s[j], s[i])
      <4>1. s[i] \in Entry
        BY <1>s
      <4>2. ~Before(s[i], s[i])
        BY <4>1, BeforeIs
      <4> QED
        BY <2>1, <4>2
    <3>2. ~(i < j) /\ ~(j < i)
      BY <1>2, <3>1
    <3> QED
      BY <1>1, <3>2
  <2>2. ASSUME NEW i \in 1 .. M, NEW j \in 1 .. M, u[i] = u[j]
        PROVE  i = j
    <3>1. ~Before(u[i], u[j]) /\ ~Before(u[j], u[i])
      <4>1. u[i] \in Entry
        BY <1>u
      <4>2. ~Before(u[i], u[i])
        BY <4>1, BeforeIs
      <4> QED
        BY <2>2, <4>2
    <3>2. ~(i < j) /\ ~(j < i)
      BY <1>2, <3>1
    <3> QED
      BY <1>1, <3>2
  <2> QED
    BY <2>1, <2>2
<1>5. ASSUME NEW k \in D, \A m \in D : m < k => m \in S
      PROVE  k \in S
  <2>1. k \in 1 .. N /\ k \in 1 .. M /\ k \in Nat
    BY <1>1
  <2>2. \A m \in Nat : m >= 1 /\ m < k => m \in 1 .. N /\ m \in 1 .. M /\ s[m] = u[m]
    <3> TAKE m \in Nat
    <3> HAVE m >= 1 /\ m < k
    <3>1. m \in D /\ m \in 1 .. N /\ m \in 1 .. M
      BY <1>1, <2>1
    <3> QED
      BY <1>5, <3>1
  <2>3. PICK j \in 1 .. M : s[k] = u[j]
    BY <1>3, <2>1
  <2>4. PICK i \in 1 .. N : s[i] = u[k]
    BY <1>3, <2>1
  <2>5. ~(j < k)
    <3> SUFFICES ASSUME j < k
                 PROVE  FALSE
      OBVIOUS
    <3>1. j \in Nat /\ j >= 1
      BY <1>1
    <3>2. s[j] = u[j] /\ j \in 1 .. N
      BY <2>2, <3>1
    <3>3. j = k
      BY <1>4, <2>1, <2>3, <3>2
    <3> QED
      BY <2>1, <3>1, <3>3
  <2>6. ~(i < k)
    <3> SUFFICES ASSUME i < k
                 PROVE  FALSE
      OBVIOUS
    <3>1. i \in Nat /\ i >= 1
      BY <1>1
    <3>2. s[i] = u[i] /\ i \in 1 .. M
      BY <2>2, <3>1
    <3>3. i = k
      BY <1>4, <2>1, <2>4, <3>2
    <3> QED
      BY <2>1, <3>1, <3>3
  <2>7. CASE j = k
    BY <2>3, <2>7
  <2>8. CASE i = k
    BY <2>4, <2>8
  <2>9. CASE j # k /\ i # k
    <3>1. k < j /\ k < i
      BY <1>1, <2>1, <2>5, <2>6, <2>9
    <3>2. Before(u[k], u[j]) /\ Before(s[k], s[i])
      BY <1>2, <2>1, <3>1
    <3>3. Before(u[k], s[k]) /\ Before(s[k], u[k])
      BY <2>3, <2>4, <3>2
    <3>4. s[k] \in Entry /\ u[k] \in Entry
      BY <1>s, <1>u, <2>1
    <3> QED
      BY <3>3, <3>4, BeforeIs
  <2> QED
    BY <2>7, <2>8, <2>9
<1>6. \A k \in D : s[k] = u[k]
  <2>1. D \in SUBSET Nat
    OBVIOUS
  <2> HIDE DEF D, S
  <2>2. D \subseteq S
    BY <1>5, <2>1, Induction
  <2> QED
    BY <2>2 DEF S
<1>7. N = M
  <2>1. ~(N < M)
    <3> SUFFICES ASSUME N < M
                 PROVE  FALSE
      OBVIOUS
    <3> DEFINE k == N + 1
    <3>1. k \in 1 .. M /\ \A i \in 1 .. N : i # k /\ i \in D /\ i \in 1 .. M
      BY <1>1
    <3> HIDE DEF k, D
    <3>2. PICK i \in 1 .. N : s[i] = u[k]
      BY <1>3, <3>1
    <3>3. s[i] = u[i]
      BY <1>6, <3>1
    <3> QED
      BY <1>4, <3>1, <3>2, <3>3
  <2>2. ~(M < N)
    <3> SUFFICES ASSUME M < N
                 PROVE  FALSE
      OBVIOUS
    <3> DEFINE k == M + 1
    <3>1. k \in 1 .. N /\ \A i \in 1 .. M : i # k /\ i \in D /\ i \in 1 .. N
      BY <1>1
    <3> HIDE DEF k, D
    <3>2. PICK i \in 1 .. M : s[k] = u[i]
      BY <1>3, <3>1
    <3>3. s[i] = u[i]
      BY <1>6, <3>1
    <3> QED
      BY <1>4, <3>1, <3>2, <3>3
  <2> QED
    BY <1>1, <2>1, <2>2
<1>8. \A i \in 1 .. N : s[i] = u[i]
  <2> TAKE i \in 1 .. N
  <2>1. i \in D
    BY <1>1, <1>7
  <2> QED
    BY <1>6, <2>1
<1> QED
  BY <1>7, <1>8, SameSequence DEF N, M

\* One member more, at the place at.
OpenedAt(w, s, e, at) == w = SubSeq(s, 1, at - 1) \o <<e>> \o SubSeq(s, at, Len(s))

LEMMA Opened ==
    ASSUME NEW X, NEW s \in Seq(X), NEW e \in X, NEW at \in 1 .. Len(s) + 1,
           NEW w, OpenedAt(w, s, e, at)
    PROVE  /\ w \in Seq(X) /\ Len(w) = Len(s) + 1 /\ w[at] = e
           /\ \A i \in 1 .. Len(s) : i < at => w[i] = s[i]
           /\ \A i \in 1 .. Len(s) : at <= i => w[i + 1] = s[i]
<1> DEFINE N == Len(s)
           k == at - 1
           a == SubSeq(s, 1, k)
           b == SubSeq(s, k + 1, N)
           c == a \o <<e>>
<1>1. N \in Nat /\ k \in Nat /\ k <= N /\ k + 1 = at /\ at \in Nat
  OBVIOUS
<1>2. w = c \o b
  BY <1>1 DEF OpenedAt
<1>3. a \in Seq(X) /\ Len(a) = k /\ \A i \in 1 .. k : a[i] = s[i]
  <2> HIDE DEF k, N
  <2> QED
    BY <1>1, Start DEF N
<1>4. b \in Seq(X) /\ Len(b) = N - k /\ \A i \in 1 .. N - k : b[i] = s[k + i]
  <2>1. Len(b) = IF k <= N THEN N - k ELSE 0
    <3> HIDE DEF k
    <3> QED
      BY <1>1, Slice
  <2>2. b \in Seq(X) /\ \A i \in 1 .. N - k : b[i] = s[k + i]
    <3> HIDE DEF k
    <3> QED
      BY <1>1, Slice
  <2> QED
    BY <1>1, <2>1, <2>2
<1> HIDE DEF a, b, k, N
<1>5. c \in Seq(X) /\ Len(c) = k + 1 /\ c[k + 1] = e /\ \A i \in 1 .. k : c[i] = s[i]
  BY <1>1, <1>3
<1> HIDE DEF c
<1>6. /\ w \in Seq(X) /\ Len(w) = Len(c) + Len(b)
      /\ \A i \in 1 .. Len(c) : w[i] = c[i]
      /\ \A i \in 1 .. Len(b) : w[Len(c) + i] = b[i]
  <2>1. b \in Seq(X) /\ c \in Seq(X)
    BY <1>4, <1>5
  <2> QED
    BY <1>2, <2>1, Joined
<1>7. Len(w) = N + 1
  <2>1. Len(w) = (k + 1) + (N - k)
    BY <1>4, <1>5, <1>6
  <2> QED
    BY <1>1, <2>1
<1>8. w[at] = e
  <2>1. k + 1 \in 1 .. Len(c)
    BY <1>1, <1>5
  <2> QED
    BY <1>1, <1>5, <1>6, <2>1
<1>9. ASSUME NEW i \in 1 .. N, i < at
      PROVE  w[i] = s[i]
  <2>1. i \in 1 .. k /\ i \in 1 .. Len(c)
    BY <1>1, <1>5, <1>9
  <2> QED
    BY <1>5, <1>6, <2>1
<1>10. ASSUME NEW i \in 1 .. N, at <= i
       PROVE  w[i + 1] = s[i]
  <2> DEFINE j == i - k
  <2>1. j \in 1 .. N - k /\ k + j = i /\ (k + 1) + j = i + 1
    BY <1>1, <1>10
  <2> HIDE DEF j
  <2>2. w[(k + 1) + j] = b[j] /\ b[j] = s[k + j]
    BY <1>4, <1>5, <1>6, <2>1
  <2> QED
    BY <2>1, <2>2
<1> QED
  BY <1>6, <1>7, <1>8, <1>9, <1>10 DEF N

LEMMA InsertPoint ==
    ASSUME NEW s \in Seq(Entry), NEW e
    PROVE  \E at \in 1 .. Len(s) + 1 :
              /\ OpenedAt(Insert(s, e), s, e, at)
              /\ \A j \in 1 .. Len(s) : j < at => ~Before(e, s[j])
              /\ at <= Len(s) => Before(e, s[at])
<1> DEFINE behind == {i \in DOMAIN s : Precedes(e[1], s[i][1])}
           Least(i) == \A j \in behind : i <= j
           at     == IF behind = {} THEN Len(s) + 1 ELSE CHOOSE i \in behind : Least(i)
<1>1. OpenedAt(Insert(s, e), s, e, at)
  BY DEF Insert, OpenedAt
<1>2. behind \in SUBSET Nat /\ DOMAIN s = 1 .. Len(s) /\ Len(s) \in Nat
  OBVIOUS
<1>3. \A j \in 1 .. Len(s) : j \in behind <=> Before(e, s[j])
  BY <1>2 DEF Before
<1>4. CASE behind = {}
  <2>1. at = Len(s) + 1
    BY <1>4
  <2> HIDE DEF at, behind
  <2>2. at \in 1 .. Len(s) + 1 /\ ~(at <= Len(s))
    BY <1>2, <2>1
  <2>3. \A j \in 1 .. Len(s) : ~Before(e, s[j])
    BY <1>3, <1>4
  <2> QED
    BY <1>1, <2>2, <2>3
<1>5. CASE behind # {}
  <2>1. \E i \in behind : Least(i)
    <3> HIDE DEF behind
    <3> QED
      BY <1>2, <1>5, LeastNumber
  <2>2. at = CHOOSE i \in behind : Least(i)
    BY <1>5
  <2>3. behind \subseteq 1 .. Len(s)
    BY <1>2
  <2> HIDE DEF at, Least, behind
  <2>4. at \in behind /\ Least(at)
    BY <2>1, <2>2
  <2>5. at \in 1 .. Len(s) /\ at \in 1 .. Len(s) + 1 /\ at \in Nat
    BY <1>2, <2>3, <2>4
  <2>6. Before(e, s[at])
    BY <1>3, <2>4, <2>5
  <2>7. ASSUME NEW j \in 1 .. Len(s), j < at
        PROVE  ~Before(e, s[j])
    <3>1. ~(at <= j)
      BY <1>2, <2>5, <2>7
    <3>2. j \notin behind
      BY <2>4, <3>1 DEF Least
    <3> QED
      BY <1>3, <3>2
  <2> QED
    BY <1>1, <2>5, <2>6, <2>7
<1> QED
  BY <1>4, <1>5

LEMMA InsertIs ==
    ASSUME NEW s \in Seq(Entry), NEW e \in Entry
    PROVE  /\ Insert(s, e) \in Seq(Entry)
           /\ \A x : (\E i \in 1 .. Len(Insert(s, e)) : Insert(s, e)[i] = x)
                     <=> (x = e \/ \E i \in 1 .. Len(s) : s[i] = x)
           /\ Ordered(s) /\ (\A i \in 1 .. Len(s) : s[i][1] # e[1]) => Ordered(Insert(s, e))
<1> DEFINE w == Insert(s, e)
           N == Len(s)
<1>1. PICK at \in 1 .. Len(s) + 1 :
              /\ OpenedAt(w, s, e, at)
              /\ \A j \in 1 .. Len(s) : j < at => ~Before(e, s[j])
              /\ at <= Len(s) => Before(e, s[at])
  BY InsertPoint
<1>2. N \in Nat /\ at \in Nat /\ at >= 1 /\ at <= N + 1
  OBVIOUS
<1> HIDE DEF w
<1>3. /\ w \in Seq(Entry) /\ Len(w) = Len(s) + 1 /\ w[at] = e
      /\ \A i \in 1 .. Len(s) : i < at => w[i] = s[i]
      /\ \A i \in 1 .. Len(s) : at <= i => w[i + 1] = s[i]
  BY <1>1, Opened
<1>4. /\ \A i \in 1 .. N : s[i] \in Entry
      /\ \A i \in 1 .. N : i < at => w[i] = s[i]
      /\ \A i \in 1 .. N : at <= i => w[i + 1] = s[i]
      /\ \A j \in 1 .. N : j < at => ~Before(e, s[j])
      /\ at <= N => Before(e, s[at])
      /\ Len(w) = N + 1
  BY <1>1, <1>3
<1> HIDE DEF N
\* Where the members of w come from.
<1>5. ASSUME NEW i \in 1 .. N + 1
      PROVE  \/ i < at /\ i \in 1 .. N /\ w[i] = s[i]
             \/ i = at /\ w[i] = e
             \/ at < i /\ i - 1 \in 1 .. N /\ w[i] = s[i - 1]
  <2>1. i < at \/ i = at \/ at < i
    BY <1>2
  <2>2. CASE i < at
    <3>1. i \in 1 .. N
      BY <1>2, <2>2
    <3> QED
      BY <1>4, <2>2, <3>1
  <2>3. CASE at < i
    <3>1. i - 1 \in 1 .. N /\ at <= i - 1 /\ (i - 1) + 1 = i
      BY <1>2, <2>3
    <3> QED
      BY <1>4, <2>3, <3>1
  <2> QED
    BY <1>3, <2>1, <2>2, <2>3
<1>6. ASSUME NEW x
      PROVE  (\E i \in 1 .. N + 1 : w[i] = x) <=> (x = e \/ \E i \in 1 .. N : s[i] = x)
  <2>1. ASSUME NEW i \in 1 .. N + 1, w[i] = x
        PROVE  x = e \/ \E j \in 1 .. N : s[j] = x
    BY <1>5, <2>1
  <2>2. at \in 1 .. N + 1
    BY <1>2
  <2>3. ASSUME NEW i \in 1 .. N, s[i] = x
        PROVE  \E j \in 1 .. N + 1 : w[j] = x
    <3>1. i < at \/ at <= i
      BY <1>2
    <3>2. i \in 1 .. N + 1 /\ i + 1 \in 1 .. N + 1
      BY <1>2
    <3> QED
      BY <1>4, <2>3, <3>1, <3>2
  <2> QED
    BY <1>3, <2>1, <2>2, <2>3
<1>7. ASSUME Ordered(s), \A i \in 1 .. N : s[i][1] # e[1]
      PROVE  Ordered(w)
  <2>1. \A i, j \in 1 .. N : i < j => Before(s[i], s[j])
    BY <1>7 DEF Ordered, N
  <2>2. ASSUME NEW i \in 1 .. N, i < at
        PROVE  Before(s[i], e)
    <3>1. s[i] \in Entry /\ ~Before(e, s[i]) /\ s[i][1] # e[1]
      BY <1>4, <1>7, <2>2
    <3> QED
      BY <3>1, BeforeIs
  <2>3. ASSUME NEW i \in 1 .. N, at <= i
        PROVE  Before(e, s[i])
    <3>1. at \in 1 .. N /\ at <= N
      BY <1>2, <2>3
    <3>2. Before(e, s[at]) /\ s[at] \in Entry /\ s[i] \in Entry
      BY <1>4, <3>1
    <3>3. i = at \/ at < i
      BY <1>2, <2>3
    <3> QED
      BY <2>1, <3>1, <3>2, <3>3, BeforeIs
  <2>4. ASSUME NEW i \in 1 .. N + 1, NEW j \in 1 .. N + 1, i < j
        PROVE  Before(w[i], w[j])
    <3>1. CASE i < at /\ i \in 1 .. N /\ w[i] = s[i]
      <4>1. CASE j < at /\ j \in 1 .. N /\ w[j] = s[j]
        BY <2>1, <2>4, <3>1, <4>1
      <4>2. CASE j = at /\ w[j] = e
        BY <2>2, <3>1, <4>2
      <4>3. CASE at < j /\ j - 1 \in 1 .. N /\ w[j] = s[j - 1]
        <5>1. i < j - 1
          BY <1>2, <3>1, <4>3
        <5> QED
          BY <2>1, <3>1, <4>3, <5>1
      <4> QED
        BY <1>5, <4>1, <4>2, <4>3
    <3>2. CASE i = at /\ w[i] = e
      <4>1. at < j
        BY <2>4, <3>2
      <4>2. ~(j < at) /\ j # at
        BY <1>2, <4>1
      <4>3. j - 1 \in 1 .. N /\ w[j] = s[j - 1]
        BY <1>5, <4>2
      <4>4. at <= j - 1
        BY <1>2, <4>1
      <4> QED
        BY <2>3, <3>2, <4>3, <4>4
    <3>3. CASE at < i /\ i - 1 \in 1 .. N /\ w[i] = s[i - 1]
      <4>1. ~(j < at) /\ j # at /\ i - 1 < j - 1
        BY <1>2, <2>4, <3>3
      <4>2. j - 1 \in 1 .. N /\ w[j] = s[j - 1]
        BY <1>5, <4>1
      <4> QED
        BY <2>1, <3>3, <4>1, <4>2
    <3> QED
      BY <1>5, <3>1, <3>2, <3>3
  <2> QED
    BY <1>4, <2>4 DEF Ordered
<1> QED
  BY <1>3, <1>4, <1>6, <1>7 DEF w, N

\* canonical_sort of the first entries holds them, in order.
LEMMA SortedStep ==
    ASSUME NEW m \in Seq(Entry)
    PROVE  /\ Sorted(m)[0] = <<>>
           /\ \A n \in 0 .. Len(m) : Sorted(m)[n] \in Seq(Entry)
           /\ \A n \in 1 .. Len(m) : Sorted(m)[n] = Insert(Sorted(m)[n - 1], m[n])
<1> DEFINE N     == Len(m)
           X     == Seq(Entry)
           F     == [x \in (0 + 1 .. N) \X X |-> Insert(x[2], m[x[1]])]
           Eq(g) == g = [n \in 0 .. N |-> IF n = 0 THEN <<>> ELSE Insert(g[n - 1], m[n])]
<1>1. N \in Nat /\ \A n \in 1 .. N : m[n] \in Entry
  OBVIOUS
<1>2. F \in [(0 + 1 .. N) \X X -> X]
  <2>1. \A x \in (0 + 1 .. N) \X X : Insert(x[2], m[x[1]]) \in X
    <3> TAKE x \in (0 + 1 .. N) \X X
    <3> DEFINE s == x[2]
               e == m[x[1]]
    <3>1. s \in Seq(Entry) /\ e \in Entry
      BY <1>1
    <3> HIDE DEF s, e
    <3>2. Insert(s, e) \in Seq(Entry)
      BY <3>1, InsertIs
    <3> QED
      BY <3>2 DEF s, e
  <2> QED
    BY <2>1
<1>3. PICK g : CountsTo(g, X, 0, N, <<>>, F)
  <2>0. <<>> \in X
    OBVIOUS
  <2>1. Counts(X, 0, N, <<>>, F)
    <3> HIDE DEF F, N, X
    <3> QED
      BY <1>1, <1>2, <2>0 DEF Counts
  <2> HIDE DEF F, N, X
  <2> QED
    BY <2>1, Iteration
<1>4. g \in [0 .. N -> X] /\ g[0] = <<>>
  <2> HIDE DEF F, N, X
  <2> QED
    BY <1>3 DEF CountsTo
<1>5. \A n \in 1 .. N : g[n] = Insert(g[n - 1], m[n])
  <2> TAKE n \in 1 .. N
  <2>1. n - 1 \in 0 .. N /\ n \in 0 + 1 .. N
    OBVIOUS
  <2>2. g[n - 1] \in X /\ g[n] = F[<<n, g[n - 1]>>]
    <3> HIDE DEF F, N, X
    <3> QED
      BY <1>3, <1>4, <2>1 DEF CountsTo
  <2> HIDE DEF X
  <2> QED
    BY <2>1, <2>2
<1>6. Eq(g)
  <2>1. \A n \in 0 .. N : g[n] = IF n = 0 THEN <<>> ELSE Insert(g[n - 1], m[n])
    <3> HIDE DEF N, X
    <3> QED
      BY <1>1, <1>4, <1>5
  <2>2. g = [n \in 0 .. N |-> g[n]]
    BY <1>4
  <2> QED
    BY <2>1, <2>2
<1>7. Sorted(m) = CHOOSE f : Eq(f)
  BY DEF Sorted
<1>8. Eq(Sorted(m))
  <2> HIDE DEF Eq
  <2> QED
    BY <1>6, <1>7
<1>9. \A n \in 0 .. N : Sorted(m)[n] = IF n = 0 THEN <<>>
                                       ELSE Insert(Sorted(m)[n - 1], m[n])
  BY <1>8
<1>10. \A n \in 1 .. N : Sorted(m)[n] = Insert(Sorted(m)[n - 1], m[n])
  BY <1>9
<1>11. Sorted(m)[0] = <<>>
  BY <1>1, <1>9
<1>12. \A n \in 0 .. N : Sorted(m)[n] \in X
  <2> DEFINE S == {n \in 0 .. N : Sorted(m)[n] \in X}
  <2>1. 0 \in S
    <3>1. <<>> \in X /\ 0 \in 0 .. N
      BY <1>1
    <3> HIDE DEF X, N
    <3> QED
      BY <1>11, <3>1
  <2>2. ASSUME NEW n \in 0 .. N - 1, n \in S
        PROVE  n + 1 \in S
    <3>1. n + 1 \in 1 .. N /\ (n + 1) - 1 = n /\ n + 1 \in 0 .. N
      OBVIOUS
    <3>2. Sorted(m)[n + 1] = Insert(Sorted(m)[n], m[n + 1])
      BY <1>10, <3>1
    <3> DEFINE s == Sorted(m)[n]
               e == m[n + 1]
    <3>3. s \in Seq(Entry) /\ e \in Entry
      BY <1>1, <2>2, <3>1
    <3> HIDE DEF s, e
    <3>4. Insert(s, e) \in Seq(Entry)
      BY <3>3, InsertIs
    <3> QED
      BY <3>1, <3>2, <3>4 DEF s, e
  <2> HIDE DEF S
  <2>3. \A n \in 0 .. N : n \in S
    BY <1>1, <2>1, <2>2, Counting
  <2> QED
    BY <2>3 DEF S
<1> QED
  BY <1>10, <1>11, <1>12 DEF N, X

LEMMA EntriesAre ==
    ASSUME NEW m, IsEntries(m)
    PROVE  /\ m \in Seq(Entry)
           /\ \A i, j \in 1 .. Len(m) : m[i][1] = m[j][1] => i = j
  BY DEF IsEntries, Entry

LEMMA SortedIs ==
    ASSUME NEW m, IsEntries(m)
    PROVE  /\ CanonicalMap(m) \in Seq(Entry) /\ Ordered(CanonicalMap(m))
           /\ HoldsFirst(CanonicalMap(m), m, Len(m))
<1> DEFINE N == Len(m)
           s(n) == Sorted(m)[n]
           Good(n) == Ordered(s(n)) /\ HoldsFirst(s(n), m, n)
           S == {n \in 0 .. N : Good(n)}
<1>1. /\ m \in Seq(Entry) /\ N \in Nat
      /\ \A i, j \in 1 .. N : m[i][1] = m[j][1] => i = j
      /\ \A n \in 1 .. N : m[n] \in Entry
  BY EntriesAre
<1>2. /\ s(0) = <<>>
      /\ \A n \in 0 .. N : s(n) \in Seq(Entry)
      /\ \A n \in 1 .. N : s(n) = Insert(s(n - 1), m[n])
  BY <1>1, SortedStep
<1> HIDE DEF s, N
<1>3. 0 \in S
  <2>1. Len(s(0)) = 0
    BY <1>2
  <2>2. Ordered(s(0)) /\ HoldsFirst(s(0), m, 0)
    BY <2>1 DEF Ordered, HoldsFirst
  <2> QED
    BY <1>1, <2>2
<1>4. ASSUME NEW n \in 0 .. N - 1, n \in S
      PROVE  n + 1 \in S
  <2> DEFINE t == s(n)
             w == s(n + 1)
             e == m[n + 1]
  <2>1. n \in Nat /\ n + 1 \in 1 .. N /\ (n + 1) - 1 = n /\ n \in 0 .. N /\ n + 1 \in 0 .. N
    BY <1>1
  <2>2. w = Insert(t, e) /\ t \in Seq(Entry) /\ e \in Entry
    BY <1>1, <1>2, <2>1
  <2>3. Ordered(t) /\ HoldsFirst(t, m, n)
    BY <1>4
  <2> HIDE DEF t, w, e
  <2>4. \A i \in 1 .. Len(t) : t[i][1] # e[1]
    <3> SUFFICES ASSUME NEW i \in 1 .. Len(t), t[i][1] = e[1]
                 PROVE  FALSE
      OBVIOUS
    <3>1. PICK j \in 1 .. n : t[i] = m[j]
      BY <2>3 DEF HoldsFirst
    <3>2. j \in 1 .. N /\ j # n + 1
      BY <1>1, <2>1
    <3> QED
      BY <1>1, <2>1, <3>1, <3>2 DEF e
  <2>5. Ordered(w)
    <3>1. Ordered(Insert(t, e))
      <4>1. t \in Seq(Entry) /\ e \in Entry /\ Ordered(t)
        BY <2>2, <2>3
      <4> QED
        BY <2>4, <4>1, InsertIs
    <3>2. w = Insert(t, e)
      BY <2>2
    <3> QED
      BY <3>1, <3>2, Zenon
  <2>6. \A x : (\E i \in 1 .. Len(w) : w[i] = x) <=> (x = e \/ \E i \in 1 .. Len(t) : t[i] = x)
    <3> DEFINE v == Insert(t, e)
    <3>1. \A x : (\E i \in 1 .. Len(v) : v[i] = x) <=> (x = e \/ \E i \in 1 .. Len(t) : t[i] = x)
      BY <2>2, InsertIs
    <3>2. w = v
      BY <2>2
    <3> HIDE DEF v
    <3> QED
      BY <3>1, <3>2
  <2>7. ASSUME NEW i \in 1 .. Len(w)
        PROVE  \E j \in 1 .. n + 1 : w[i] = m[j]
    <3>1. w[i] = e \/ \E k \in 1 .. Len(t) : t[k] = w[i]
      BY <2>6
    <3>2. n + 1 \in 1 .. n + 1 /\ \A j \in 1 .. n : j \in 1 .. n + 1
      BY <2>1
    <3>3. ASSUME NEW k \in 1 .. Len(t), t[k] = w[i]
          PROVE  \E j \in 1 .. n + 1 : w[i] = m[j]
      BY <2>3, <3>2, <3>3 DEF HoldsFirst
    <3> QED
      BY <3>1, <3>2, <3>3 DEF e
  <2>8. ASSUME NEW j \in 1 .. n + 1
        PROVE  \E i \in 1 .. Len(w) : w[i] = m[j]
    <3>1. j = n + 1 \/ j \in 1 .. n
      BY <2>1
    <3>2. CASE j = n + 1
      BY <2>6, <3>2 DEF e
    <3>3. CASE j \in 1 .. n
      <4>1. \E i \in 1 .. Len(t) : t[i] = m[j]
        BY <2>3, <3>3 DEF HoldsFirst
      <4> QED
        BY <2>6, <4>1
    <3> QED
      BY <3>1, <3>2, <3>3
  <2>9. HoldsFirst(w, m, n + 1)
    BY <2>7, <2>8 DEF HoldsFirst
  <2> QED
    BY <2>1, <2>5, <2>9 DEF w
<1>5. \A n \in 0 .. N : n \in S
  <2> HIDE DEF S
  <2> QED
    BY <1>1, <1>3, <1>4, Counting
<1>6. N \in S
  BY <1>1, <1>5
<1> QED
  BY <1>1, <1>2, <1>6 DEF CanonicalMap, s, N

\* The entries in another order are written the same.
LEMMA Reordered ==
    ASSUME NEW m, IsEntries(m), NEW f \in Reorderings(DOMAIN m)
    PROVE  CanonicalMap([i \in DOMAIN m |-> m[f[i]]]) = CanonicalMap(m)
<1> DEFINE N == Len(m)
           g == [i \in 1 .. N |-> m[f[i]]]
           s == CanonicalMap(m)
           u == CanonicalMap(g)
<1>1. /\ m \in Seq(Seq(Octet) \X FieldValues) /\ N \in Nat /\ DOMAIN m = 1 .. N
      /\ \A i \in 1 .. N : m[i] \in Seq(Octet) \X FieldValues
      /\ \A i, j \in 1 .. N : m[i][1] = m[j][1] => i = j
  <2>1. m \in Seq(Seq(Octet) \X FieldValues) /\ DOMAIN m = 1 .. N
        /\ \A i, j \in 1 .. N : m[i][1] = m[j][1] => i = j
    BY DEF IsEntries
  <2> DEFINE X == Seq(Octet) \X FieldValues
  <2> HIDE DEF X
  <2>2. m \in Seq(X)
    BY <2>1 DEF X
  <2>3. N \in Nat /\ \A i \in 1 .. N : m[i] \in X
    BY <2>2
  <2> QED
    BY <2>1, <2>3 DEF X
<1>2. /\ f \in [1 .. N -> 1 .. N]
      /\ \A x, y \in 1 .. N : f[x] = f[y] => x = y
      /\ \A y \in 1 .. N : \E x \in 1 .. N : f[x] = y
  BY <1>1 DEF Reorderings
<1>3. \A i \in 1 .. N : f[i] \in 1 .. N /\ g[i] = m[f[i]]
  BY <1>2
<1>4. IsEntries(g) /\ Len(g) = N
  <2> DEFINE X == Seq(Octet) \X FieldValues
  <2> HIDE DEF X
  <2>1. \A i \in 1 .. N : m[f[i]] \in X
    BY <1>1, <1>3 DEF X
  <2>2. g \in Seq(X) /\ Len(g) = N /\ DOMAIN g = 1 .. N
    <3> HIDE DEF N
    <3> QED
      BY <1>1, <2>1
  <2>3. ASSUME NEW i \in 1 .. N, NEW j \in 1 .. N, g[i][1] = g[j][1]
        PROVE  i = j
    <3>1. f[i] \in 1 .. N /\ f[j] \in 1 .. N /\ m[f[i]][1] = m[f[j]][1]
      BY <1>3, <2>3
    <3>2. f[i] = f[j]
      BY <1>1, <3>1
    <3> QED
      BY <1>2, <3>2
  <2> HIDE DEF g
  <2> QED
    BY <2>2, <2>3 DEF IsEntries, X
<1> HIDE DEF g, s, u, N
<1>5. /\ s \in Seq(Entry) /\ Ordered(s) /\ HoldsFirst(s, m, N)
      /\ u \in Seq(Entry) /\ Ordered(u) /\ HoldsFirst(u, g, N)
  BY <1>4, SortedIs DEF s, u, N
<1>6. ASSUME NEW i \in 1 .. Len(s)
      PROVE  \E j \in 1 .. Len(u) : s[i] = u[j]
  <2>1. PICK k \in 1 .. N : s[i] = m[k]
    BY <1>5 DEF HoldsFirst
  <2>2. PICK x \in 1 .. N : f[x] = k
    BY <1>2
  <2>3. g[x] = s[i]
    BY <1>3, <2>1, <2>2
  <2> QED
    BY <1>5, <2>3 DEF HoldsFirst
<1>7. ASSUME NEW j \in 1 .. Len(u)
      PROVE  \E i \in 1 .. Len(s) : s[i] = u[j]
  <2>1. PICK x \in 1 .. N : u[j] = g[x]
    BY <1>5 DEF HoldsFirst
  <2> DEFINE y == f[x]
  <2>2. u[j] = m[y]
    BY <1>3, <2>1
  <2>3. y \in 1 .. N
    BY <1>3
  <2> HIDE DEF y
  <2> QED
    BY <1>5, <2>2, <2>3 DEF HoldsFirst
<1>8. s = u
  BY <1>5, <1>6, <1>7, OrderedOnce
<1> QED
  BY <1>1, <1>8 DEF s, u, g

-----------------------------------------------------------------------------
(* What is on the way.                                                      *)

LEMMA EncodedAs ==
    ASSUME NEW x
    PROVE  /\ x.what = "uvarint"  => Encoded(x) = AppendUvarint[x.value]
           /\ x.what = "envelope" => Encoded(x) = EnvelopeBytes(x.value)
           /\ x.what = "public"   => Encoded(x) = MarshalPublicKey(x.value)
           /\ x.what = "private"  => Encoded(x) = ToKeyBytes(x.value)
           /\ x.what = "map"      => Encoded(x) = CanonicalMap(x.value)
           /\ x.what = "value"    => Encoded(x) = ToVec(x.value)
<1>1. CASE x.what = "uvarint"
  BY <1>1 DEF Encoded
<1>2. CASE x.what = "envelope"
  BY <1>2 DEF Encoded
<1>3. CASE x.what = "public"
  BY <1>3 DEF Encoded
<1>4. CASE x.what = "private"
  BY <1>4 DEF Encoded
<1>5. CASE x.what = "map"
  BY <1>5 DEF Encoded
<1>6. CASE x.what = "value"
  BY <1>6 DEF Encoded
<1> QED
  BY <1>1, <1>2, <1>3, <1>4, <1>5, <1>6

LEMMA ReadAsIs ==
    ASSUME NEW t, NEW x, NEW d
    PROVE  /\ x.what = "uvarint"  => ReadAs(t, x, d) = ReadUvarint(t, d)
           /\ x.what = "envelope" => ReadAs(t, x, d) = OpenEnvelope(t, x.value, d)
           /\ x.what = "public"   => ReadAs(t, x, d) = ParsePublicKey(t, d)
           /\ x.what = "private"  => ReadAs(t, x, d) = FromKeyBytes(d)
           /\ x.what = "map"      => ReadAs(t, x, d) = Fine(d)
           /\ x.what = "value"    => ReadAs(t, x, d) = FromSlice(d)
<1>1. CASE x.what = "uvarint"
  BY <1>1 DEF ReadAs
<1>2. CASE x.what = "envelope"
  BY <1>2 DEF ReadAs
<1>3. CASE x.what = "public"
  BY <1>3 DEF ReadAs
<1>4. CASE x.what = "private"
  BY <1>4 DEF ReadAs
<1>5. CASE x.what = "map"
  BY <1>5 DEF ReadAs
<1>6. CASE x.what = "value"
  BY <1>6 DEF ReadAs
<1> QED
  BY <1>1, <1>2, <1>3, <1>4, <1>5, <1>6

LEMMA ThingIs ==
    ASSUME NEW x \in Things
    PROVE  /\ IsThing(x)
           /\ x.what \in {"uvarint", "envelope", "public", "private", "map", "value"}
           /\ x.what = "uvarint" => x.value \in Word
           /\ x.what = "envelope" => x.value \in EnvelopeKinds
           /\ x.what = "public" => IsPublicKey(x.value) /\ Fits(Len(MarshalPublicKey(x.value)))
           /\ x.what = "private" => IsPrivateKey(x.value)
           /\ x.what = "map" => IsEntries(x.value)
           /\ x.what = "value" => x.value \in Seq(Octet) /\ Len(x.value) \in Octet
<1>1. IsThing(x)
  BY ThingsAssumption
<1>2. \/ x.what = "uvarint" /\ x.value \in Word
      \/ x.what = "envelope" /\ x.value \in EnvelopeKinds
      \/ x.what = "public" /\ IsPublicKey(x.value)
      \/ x.what = "private" /\ IsPrivateKey(x.value)
      \/ x.what = "map" /\ IsEntries(x.value)
      \/ x.what = "value" /\ x.value \in Seq(Octet) /\ Len(x.value) \in Octet
  BY <1>1 DEF IsThing
<1>3. ASSUME x.what = "public"
      PROVE  Fits(Len(MarshalPublicKey(x.value)))
  <2> DEFINE k == x.value
             w == MarshalPublicKey(k)
  <2>1. Len(w) < LongLimit /\ \A t \in Targets : Len(w) < Power[t.bits]
    BY <1>3, FitAssumption
  <2>2. IsPublicKey(k)
    BY <1>2, <1>3
  <2>3. Len(w) \in Nat
    <3> HIDE DEF k
    <3> DEFINE oid == KeyOid[k.kind]
               key == KeyBits(k)
    <3>1. w = Spki(oid, key)
      BY DEF MarshalPublicKey, KeyBits
    <3>2. IsOid(oid) /\ key \in Seq(Nat)
      BY <2>2, KeyIs, KeyBitsAreNumbers
    <3> HIDE DEF oid, key, w
    <3>3. Spki(oid, key) \in Seq(Nat)
      BY <3>2, SpkiAreNumbers
    <3> QED
      BY <3>1, <3>3
  <2> QED
    BY <2>1, <2>3 DEF Fits
<1> QED
  BY <1>1, <1>2, <1>3

\* The inductive invariant: what can have become of the bytes, and that what was
\* read was read from them.
CodecInv ==
    /\ target \in Targets /\ thing \in Things
    /\ \/ fate = "intact" /\ bytes = Encoded(thing)
       \/ fate = "cut" /\ thing.what # "map" /\ Short(Encoded(thing), bytes)
       \/ fate = "extended" /\ thing.what # "map" /\ Longer(Encoded(thing), bytes)
       \/ fate = "replaced" /\ thing.what # "map" /\ bytes \in Junk
    /\ outcome = Unread \/ outcome = ReadAs(target, thing, bytes)

LEMMA CodecInvHolds == Spec => []CodecInv
<1>1. Init => CodecInv
  BY DEF Init, CodecInv
<1>2. CodecInv /\ [Next]_vars => CodecInv'
  <2> SUFFICES ASSUME CodecInv, [Next]_vars
               PROVE  CodecInv'
    OBVIOUS
  <2>1. target \in Targets /\ thing \in Things
    BY DEF CodecInv
  <2>2. fate = "intact" => bytes = Encoded(thing)
    BY DEF CodecInv
  <2>3. ASSUME NEW n \in 0 .. Len(bytes) - 1, Cut(n)
        PROVE  CodecInv'
    <3>1. Short(Encoded(thing), bytes')
      BY <2>2, <2>3 DEF Cut, OnTheWay, Short
    <3> QED
      BY <2>1, <2>3, <3>1 DEF CodecInv, Cut, OnTheWay
  <2>4. ASSUME NEW b \in ExtraBytes, Extend(b)
        PROVE  CodecInv'
    <3>1. Longer(Encoded(thing), bytes')
      BY <2>2, <2>4, BytesAssumption DEF Extend, OnTheWay, Longer
    <3> QED
      BY <2>1, <2>4, <3>1 DEF CodecInv, Extend, OnTheWay
  <2>5. ASSUME NEW data \in Junk, Replace(data)
        PROVE  CodecInv'
    BY <2>1, <2>5 DEF CodecInv, Replace, OnTheWay
  <2>6. CASE Read
    BY <2>6 DEF CodecInv, Read
  <2>7. CASE UNCHANGED vars
    BY <2>7 DEF CodecInv, vars
  <2> QED
    BY <2>3, <2>4, <2>5, <2>6, <2>7 DEF Next
<1> QED
  BY <1>1, <1>2, PTL DEF Spec

-----------------------------------------------------------------------------
(* The theorems.                                                            *)

LEMMA UvarintBytes ==
    ASSUME NEW v \in Word
    PROVE  AppendUvarint[v] \in Seq(Octet)
  BY UvarintWrites DEF Writes

LEMMA EncodedBytes ==
    ASSUME NEW x \in Things, NEW t \in Targets, x.what # "map"
    PROVE  Encoded(x) \in Seq(Octet)
<1>1. CASE x.what = "uvarint"
  <2>1. x.value \in Word /\ Encoded(x) = AppendUvarint[x.value]
    BY <1>1, ThingIs, EncodedAs
  <2> QED
    BY <2>1, UvarintBytes
<1>2. CASE x.what = "envelope"
  <2>1. x.value \in EnvelopeKinds /\ Encoded(x) = EnvelopeBytes(x.value)
    BY <1>2, ThingIs, EncodedAs
  <2> QED
    BY <2>1, EnvelopeReadsBack
<1>3. CASE x.what = "public"
  <2>1. /\ IsPublicKey(x.value) /\ Fits(Len(MarshalPublicKey(x.value)))
        /\ Encoded(x) = MarshalPublicKey(x.value)
    BY <1>3, ThingIs, EncodedAs
  <2> QED
    BY <2>1, PublicReadsBack
<1>4. CASE x.what = "private"
  <2>1. IsPrivateKey(x.value) /\ Encoded(x) = ToKeyBytes(x.value)
    BY <1>4, ThingIs, EncodedAs
  <2> QED
    BY <2>1, PrivateReadsBack
<1>5. CASE x.what = "value"
  <2>1. x.value \in Seq(Octet) /\ Len(x.value) \in Octet /\ Encoded(x) = ToVec(x.value)
    BY <1>5, ThingIs, EncodedAs
  <2> QED
    BY <2>1, ValueReadsBack
<1> QED
  BY <1>1, <1>2, <1>3, <1>4, <1>5, ThingIs

LEMMA BytesAre ==
    ASSUME CodecInv, thing.what # "map"
    PROVE  bytes \in Seq(Octet)
<1> DEFINE s == Encoded(thing)
<1>1. s \in Seq(Octet)
  BY EncodedBytes DEF CodecInv
<1>2. bytes = s \/ Short(s, bytes) \/ Longer(s, bytes) \/ bytes \in Junk
  BY DEF CodecInv
<1> HIDE DEF s
<1>3. CASE Short(s, bytes) \/ Longer(s, bytes)
  BY <1>1, <1>3, BrokenIs DEF Broken
<1>4. CASE bytes \in Junk
  BY <1>4, BytesAssumption
<1> QED
  BY <1>1, <1>2, <1>3, <1>4

LEMMA OutcomeIs ==
    ASSUME CodecInv, WasRead
    PROVE  /\ target \in Targets /\ target \in Target /\ thing \in Things
           /\ outcome = ReadAs(target, thing, bytes)
  BY TargetIs DEF CodecInv, WasRead

\* UvarintExact: for every width of a group and of a word, on every target and of
\* any bytes read_uvarint takes exactly the numbers that fit a word, although it
\* counts bytes and looks at the last one only (cbor.rs:86-100).
THEOREM UvarintExactHolds == Spec => []UvarintExact
<1>1. CodecInv => UvarintExact
  <2> DEFINE ends == {i \in DOMAIN bytes : bytes[i] < Radix}
             n    == CHOOSE i \in ends : \A j \in ends : i <= j
             r    == ReadUvarint(target, bytes)
  <2> SUFFICES ASSUME CodecInv, WasRead, thing.what = "uvarint", outcome.error # "panic"
               PROVE  IF ends # {} /\ n <= LastGroup + 1 /\ Denoted(bytes)[n] \in Word
                      THEN outcome = [error |-> "none", used |-> n, value |-> Denoted(bytes)[n]]
                      ELSE outcome.error = "Malformed"
    BY DEF UvarintExact
  <2>1. target \in Target /\ bytes \in Seq(Octet) /\ outcome = r
    BY OutcomeIs, BytesAre, ReadAsIs
  <2>2. r # Fail("panic")
    BY <2>1, FailIs
  <2>3. DOMAIN bytes = 1 .. Len(bytes) /\ \A i \in 1 .. Len(bytes) : bytes[i] \in Nat
    BY <2>1, ByteIs
  <2> HIDE DEF r
  <2>4. CASE \A i \in 1 .. Len(bytes) : bytes[i] >= Radix
    <3>1. ends = {}
      BY <2>3, <2>4, RadixIs
    <3>2. r = Fail("Malformed")
      BY <2>1, <2>2, <2>4, ReadUvarintEndless DEF r
    <3> QED
      BY <2>1, <3>1, <3>2, FailIs
  <2>5. ASSUME NEW m, EndsAt(bytes, m)
        PROVE  IF ends # {} /\ n <= LastGroup + 1 /\ Denoted(bytes)[n] \in Word
               THEN outcome = [error |-> "none", used |-> n, value |-> Denoted(bytes)[n]]
               ELSE outcome.error = "Malformed"
    <3>1. n = m /\ ends # {}
      BY <2>1, <2>5, FirstEnd
    <3> DEFINE fits == m <= LastGroup + 1 /\ Denoted(bytes)[m] \in Word
               e == [error |-> "none", used |-> m, value |-> Denoted(bytes)[m]]
    <3>2. (fits => r = e) /\ (~fits => r = Fail("Malformed") \/ r = Fail("panic"))
      BY <2>1, <2>5, ReadUvarintEnds DEF r
    <3> HIDE DEF e, n, ends
    <3>3. IF fits THEN outcome = e ELSE outcome.error = "Malformed"
      BY <2>1, <2>2, <3>2, FailIs
    <3> QED
      BY <3>1, <3>3 DEF e
  <2> QED
    BY <2>1, <2>4, <2>5, SomeEnd
<1> QED
  BY <1>1, CodecInvHolds, PTL

\* WideReleaseReturns: with a word for usize and no overflow checks no reader
\* panics, whatever the bytes: all lengths are compared before they are used
\* (pkix.rs:79 and 88, mlkem.rs:299 and 306, ecdh.rs:73).
THEOREM WideReleaseReturnsHolds == Spec => []WideReleaseReturns
<1>1. CodecInv => WideReleaseReturns
  <2> SUFFICES ASSUME CodecInv, WasRead, ~target.checked, target.bits >= WordBits
               PROVE  outcome.error # "panic"
    BY DEF WideReleaseReturns
  <2>1. target \in Targets /\ thing \in Things /\ outcome = ReadAs(target, thing, bytes)
    BY OutcomeIs
  <2>2. Wide(target)
    BY <2>1 DEF Wide
  <2>3. CASE thing.what = "map"
    <3>1. outcome = Fine(bytes)
      BY <2>1, <2>3, ReadAsIs
    <3> QED
      BY <3>1 DEF Fine
  <2>4. CASE thing.what # "map"
    <3>1. bytes \in Seq(Octet)
      BY <2>4, BytesAre
    <3>2. CASE thing.what = "uvarint"
      <4>1. outcome = ReadUvarint(target, bytes)
        BY <2>1, <3>2, ReadAsIs
      <4>2. LET r == ReadUvarint(target, bytes) IN Refused(r) \/ r.error = "none"
        BY <2>2, <3>1, UvarintReturns
      <4> QED
        BY <4>1, <4>2 DEF Refused
    <3>3. CASE thing.what = "envelope"
      BY <2>1, <2>2, <3>1, <3>3, ReadAsIs, EnvelopeReturns
    <3>4. CASE thing.what = "public"
      BY <2>1, <2>2, <3>1, <3>4, ReadAsIs, PublicReturns
    <3>5. CASE thing.what = "private"
      BY <2>1, <3>5, ReadAsIs, RestReturn
    <3>6. CASE thing.what = "value"
      BY <2>1, <3>6, ReadAsIs, RestReturn
    <3> QED
      BY <2>1, <2>4, <3>2, <3>3, <3>4, <3>5, <3>6, ThingIs
  <2> QED
    BY <2>3, <2>4
<1> QED
  BY <1>1, CodecInvHolds, PTL

LEMMA RefusalsAre == \A r \in Refusals : Refused(r)
  BY FailIs DEF Refusals, Refused

\* PrefixRefused: what is shorter than what was written is refused as an error, by
\* every reader and wherever it was cut (pkix.rs:88, mlkem.rs:147-160 and 299,
\* ecdh.rs:73).
THEOREM PrefixRefusedHolds == Spec => []PrefixRefused
<1>1. CodecInv => PrefixRefused
  <2> SUFFICES ASSUME CodecInv, WasRead, fate = "cut"
               PROVE  Refused(outcome)
    BY DEF PrefixRefused, Refused
  <2>1. /\ target \in Targets /\ target \in Target /\ thing \in Things
        /\ outcome = ReadAs(target, thing, bytes)
    BY OutcomeIs
  <2>2. thing.what # "map" /\ Short(Encoded(thing), bytes)
    BY DEF CodecInv
  <2> DEFINE v == thing.value
  <2>3. CASE thing.what = "uvarint"
    <3>1. v \in Word /\ Short(AppendUvarint[v], bytes) /\ outcome = ReadUvarint(target, bytes)
      BY <2>1, <2>2, <2>3, ThingIs, EncodedAs, ReadAsIs
    <3>2. PICK k \in 0 .. Len(AppendUvarint[v]) - 1 : bytes = SubSeq(AppendUvarint[v], 1, k)
      BY <3>1 DEF Short
    <3>3. outcome = Fail("Malformed")
      BY <2>1, <3>1, <3>2, UvarintCut
    <3> QED
      BY <3>3, FailIs DEF Refused
  <2>4. CASE thing.what = "envelope"
    <3>1. v \in EnvelopeKinds /\ Short(EnvelopeBytes(v), bytes)
          /\ outcome = OpenEnvelope(target, v, bytes)
      BY <2>1, <2>2, <2>4, ThingIs, EncodedAs, ReadAsIs
    <3>2. outcome \in Refusals
      BY <2>1, <3>1, EnvelopeReadsBack DEF Broken
    <3> QED
      BY <3>2, RefusalsAre
  <2>5. CASE thing.what = "public"
    <3>1. /\ IsPublicKey(v) /\ Fits(Len(MarshalPublicKey(v)))
          /\ Short(MarshalPublicKey(v), bytes) /\ outcome = ParsePublicKey(target, bytes)
      BY <2>1, <2>2, <2>5, ThingIs, EncodedAs, ReadAsIs
    <3>2. outcome = Fail("Pkix")
      BY <2>1, <3>1, PublicReadsBack DEF Broken
    <3> QED
      BY <3>2, FailIs DEF Refused
  <2>6. CASE thing.what = "private"
    <3>1. IsPrivateKey(v) /\ Short(ToKeyBytes(v), bytes) /\ outcome = FromKeyBytes(bytes)
      BY <2>1, <2>2, <2>6, ThingIs, EncodedAs, ReadAsIs
    <3>2. outcome = Fail("Malformed")
      BY <3>1, PrivateReadsBack DEF Broken
    <3> QED
      BY <3>2, FailIs DEF Refused
  <2>7. CASE thing.what = "value"
    <3>1. /\ v \in Seq(Octet) /\ Len(v) \in Octet
          /\ Short(ToVec(v), bytes) /\ outcome = FromSlice(bytes)
      BY <2>1, <2>2, <2>7, ThingIs, EncodedAs, ReadAsIs
    <3>2. outcome = Fail("Cbor")
      BY <3>1, ValueReadsBack
    <3> QED
      BY <3>2, FailIs DEF Refused
  <2> QED
    BY <2>1, <2>2, <2>3, <2>4, <2>5, <2>6, <2>7, ThingIs
<1> QED
  BY <1>1, CodecInvHolds, PTL

LEMMA ExpectedIs ==
    ASSUME NEW x
    PROVE  /\ x.what = "uvarint" =>
                 Expected(x) = [error |-> "none", used |-> Len(bytes), value |-> x.value]
           /\ x.what = "envelope" => Expected(x) = Fine("buffer")
           /\ x.what \in {"public", "private", "value"} => Expected(x) = Fine(x.value)
<1>1. CASE x.what = "uvarint"
  BY <1>1 DEF Expected
<1>2. CASE x.what = "envelope"
  BY <1>2 DEF Expected
<1>3. CASE x.what = "public"
  BY <1>3 DEF Expected
<1>4. CASE x.what = "private"
  BY <1>4 DEF Expected
<1>5. CASE x.what = "value"
  BY <1>5 DEF Expected
<1> QED
  BY <1>1, <1>2, <1>3, <1>4, <1>5

\* ReadsBack: what arrives as it was written is read back as what was written, on
\* every target: each writer agrees with its reader on every number, key and value
\* (append_uvarint, marshal_spki, to_key_bytes, the envelopes).
THEOREM ReadsBackHolds == Spec => []ReadsBack
<1>1. CodecInv => ReadsBack
  <2> SUFFICES ASSUME CodecInv, WasRead, fate = "intact", thing.what # "map"
               PROVE  outcome = Expected(thing)
    BY DEF ReadsBack
  <2>1. /\ target \in Targets /\ target \in Target /\ thing \in Things
        /\ outcome = ReadAs(target, thing, bytes)
    BY OutcomeIs
  <2>2. bytes = Encoded(thing)
    BY DEF CodecInv
  <2> DEFINE v == thing.value
  <2>3. CASE thing.what = "uvarint"
    <3> DEFINE s == AppendUvarint[v]
    <3>1. v \in Word /\ bytes = s /\ outcome = ReadUvarint(target, s)
      BY <2>1, <2>2, <2>3, ThingIs, EncodedAs, ReadAsIs
    <3>2. s \in Seq(Octet)
      BY <3>1, UvarintBytes
    <3>3. s \o <<>> = s /\ <<>> \in Seq(Octet)
      BY <3>2
    <3>4. ReadUvarint(target, s \o <<>>) = [error |-> "none", used |-> Len(s), value |-> v]
      BY <2>1, <3>1, <3>3, UvarintReadsBack
    <3>5. outcome = [error |-> "none", used |-> Len(bytes), value |-> v]
      BY <3>1, <3>3, <3>4
    <3> QED
      BY <2>3, <3>5, ExpectedIs
  <2>4. CASE thing.what = "envelope"
    <3>1. v \in EnvelopeKinds /\ outcome = OpenEnvelope(target, v, EnvelopeBytes(v))
      BY <2>1, <2>2, <2>4, ThingIs, EncodedAs, ReadAsIs
    <3>2. outcome = Fine("buffer")
      BY <2>1, <3>1, EnvelopeReadsBack
    <3> QED
      BY <2>4, <3>2, ExpectedIs
  <2>5. CASE thing.what = "public"
    <3>1. /\ IsPublicKey(v) /\ Fits(Len(MarshalPublicKey(v)))
          /\ outcome = ParsePublicKey(target, MarshalPublicKey(v))
      BY <2>1, <2>2, <2>5, ThingIs, EncodedAs, ReadAsIs
    <3>2. outcome = Fine(v)
      BY <2>1, <3>1, PublicReadsBack
    <3> QED
      BY <2>5, <3>2, ExpectedIs
  <2>6. CASE thing.what = "private"
    <3>1. IsPrivateKey(v) /\ outcome = FromKeyBytes(ToKeyBytes(v))
      BY <2>1, <2>2, <2>6, ThingIs, EncodedAs, ReadAsIs
    <3>2. outcome = Fine(v)
      BY <3>1, PrivateReadsBack
    <3> QED
      BY <2>6, <3>2, ExpectedIs
  <2>7. CASE thing.what = "value"
    <3>1. v \in Seq(Octet) /\ Len(v) \in Octet /\ outcome = FromSlice(ToVec(v))
      BY <2>1, <2>2, <2>7, ThingIs, EncodedAs, ReadAsIs
    <3>2. outcome = Fine(v)
      BY <3>1, ValueReadsBack
    <3> QED
      BY <2>7, <3>2, ExpectedIs
  <2> QED
    BY <2>1, <2>3, <2>4, <2>5, <2>6, <2>7, ThingIs
<1> QED
  BY <1>1, CodecInvHolds, PTL

\* ExtensionRefused: a key and an envelope with something behind it is refused, and
\* a varint is read from the front of longer data (pkix.rs:41, mlkem.rs:149).
THEOREM ExtensionRefusedHolds == Spec => []ExtensionRefused
<1>1. CodecInv => ExtensionRefused
  <2> SUFFICES ASSUME CodecInv, WasRead, fate = "extended"
               PROVE  CASE thing.what \in {"public", "private", "envelope"} ->
                             outcome.error \notin {"none", "panic"}
                        [] thing.what = "uvarint" ->
                             outcome = [error |-> "none", used |-> Len(bytes) - 1,
                                        value |-> thing.value]
                        [] OTHER -> TRUE
    BY DEF ExtensionRefused
  <2>1. /\ target \in Targets /\ target \in Target /\ thing \in Things
        /\ outcome = ReadAs(target, thing, bytes)
    BY OutcomeIs
  <2>2. thing.what # "map" /\ Longer(Encoded(thing), bytes)
    BY DEF CodecInv
  <2> DEFINE v == thing.value
  <2>3. CASE thing.what = "uvarint"
    <3> DEFINE s == AppendUvarint[v]
    <3>1. v \in Word /\ Longer(s, bytes) /\ outcome = ReadUvarint(target, bytes)
      BY <2>1, <2>2, <2>3, ThingIs, EncodedAs, ReadAsIs
    <3>2. s \in Seq(Octet)
      BY <3>1, UvarintBytes
    <3>3. PICK x \in Octet : bytes = Append(s, x)
      BY <3>1 DEF Longer
    <3>4. bytes = s \o <<x>> /\ <<x>> \in Seq(Octet) /\ Len(bytes) - 1 = Len(s)
      BY <3>2, <3>3
    <3>5. ReadUvarint(target, s \o <<x>>) = [error |-> "none", used |-> Len(s), value |-> v]
      BY <2>1, <3>1, <3>4, UvarintReadsBack
    <3>6. outcome = [error |-> "none", used |-> Len(bytes) - 1, value |-> v]
      BY <3>1, <3>4, <3>5
    <3> QED
      BY <2>3, <3>6
  <2>4. CASE thing.what = "envelope"
    <3>1. v \in EnvelopeKinds /\ Longer(EnvelopeBytes(v), bytes)
          /\ outcome = OpenEnvelope(target, v, bytes)
      BY <2>1, <2>2, <2>4, ThingIs, EncodedAs, ReadAsIs
    <3>2. outcome \in Refusals
      BY <2>1, <3>1, EnvelopeReadsBack DEF Broken
    <3>3. outcome.error \notin {"none", "panic"}
      BY <3>2, RefusalsAre DEF Refused
    <3> QED
      BY <2>4, <3>3
  <2>5. CASE thing.what = "public"
    <3>1. /\ IsPublicKey(v) /\ Fits(Len(MarshalPublicKey(v)))
          /\ Longer(MarshalPublicKey(v), bytes) /\ outcome = ParsePublicKey(target, bytes)
      BY <2>1, <2>2, <2>5, ThingIs, EncodedAs, ReadAsIs
    <3>2. outcome = Fail("Pkix")
      BY <2>1, <3>1, PublicReadsBack DEF Broken
    <3>3. outcome.error \notin {"none", "panic"}
      BY <3>2, FailIs
    <3> QED
      BY <2>5, <3>3
  <2>6. CASE thing.what = "private"
    <3>1. IsPrivateKey(v) /\ Longer(ToKeyBytes(v), bytes) /\ outcome = FromKeyBytes(bytes)
      BY <2>1, <2>2, <2>6, ThingIs, EncodedAs, ReadAsIs
    <3>2. outcome = Fail("Malformed")
      BY <3>1, PrivateReadsBack DEF Broken
    <3>3. outcome.error \notin {"none", "panic"}
      BY <3>2, FailIs
    <3> QED
      BY <2>6, <3>3
  <2>7. CASE thing.what = "value"
    BY <2>7
  <2> QED
    BY <2>1, <2>2, <2>3, <2>4, <2>5, <2>6, <2>7, ThingIs
<1> QED
  BY <1>1, CodecInvHolds, PTL

\* CanonicalOrder: a map is written the same whatever the order its entries were
\* collected in, for entries of any number (cbor.rs:29-41).
THEOREM CanonicalOrderHolds == Spec => []CanonicalOrder
<1>1. CodecInv => CanonicalOrder
  <2> SUFFICES ASSUME CodecInv, thing.what = "map", NEW f \in Reorderings(DOMAIN thing.value)
               PROVE  CanonicalMap([i \in DOMAIN thing.value |-> thing.value[f[i]]]) = bytes
    BY DEF CanonicalOrder
  <2> DEFINE m == thing.value
  <2>1. thing \in Things /\ bytes = Encoded(thing)
    BY DEF CodecInv
  <2>2. IsEntries(m) /\ bytes = CanonicalMap(m)
    BY <2>1, ThingIs, EncodedAs
  <2> HIDE DEF m
  <2>3. f \in Reorderings(DOMAIN m)
    BY DEF m
  <2>4. CanonicalMap([i \in DOMAIN m |-> m[f[i]]]) = bytes
    BY <2>2, <2>3, Reordered
  <2> QED
    BY <2>4 DEF m
<1> QED
  BY <1>1, CodecInvHolds, PTL
=============================================================================
