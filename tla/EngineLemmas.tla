---------------------------- MODULE EngineLemmas ----------------------------
(***************************************************************************)
(* Facts about the operators of Contract, Engine and Reporting that the        *)
(* proofs about the checker, the gates and the CLI share.                      *)
(***************************************************************************)
EXTENDS Reporting, FiniteSetTheorems, NaturalsInduction, WellFoundedInduction, TLAPS

(***************************************************************************)
(* Induction, over sets of numbers, and recursion, by a step that is a function *)
(***************************************************************************)
LEMMA InductiveSet ==
  ASSUME NEW S \in SUBSET Nat, 0 \in S, \A n \in S : n + 1 \in S
  PROVE  S = Nat
<1> DEFINE less == OpToRel(<, Nat)
           out == Nat \ S
<1>1. IsWellFoundedOn(less, Nat)
  BY NatLessThanWellFounded
<1>2. less = {ss \in Nat \X Nat : ss[1] < ss[2]}
  BY DEF OpToRel
<1> HIDE DEF less
<1>3. SUFFICES ASSUME out # {} PROVE FALSE
  OBVIOUS
<1>4. PICK x \in out : \A y \in out : <<y, x>> \notin less
  BY <1>1, <1>3, WFMin
<1>5. x # 0 /\ x \in Nat
  BY <1>4
<1>6. x - 1 \in Nat /\ x - 1 < x /\ (x - 1) + 1 = x
  BY <1>5
<1>7. x - 1 \notin S
  BY <1>4, <1>6
<1>8. <<x - 1, x>> \in less
  BY <1>2, <1>5, <1>6
<1> QED
  BY <1>4, <1>6, <1>7, <1>8

\* f starts at a and goes on by the steps g.
Recursive(X, a, g, f) ==
  f \in [Nat -> X] /\ f[0] = a /\ \A n \in Nat : f[n + 1] = g[n][f[n]]

Stepping(X, g) == g \in [Nat -> [X -> X]]

LEMMA RecursionDefines ==
  ASSUME NEW X, NEW a \in X, NEW g, Stepping(X, g)
  PROVE  \E f : Recursive(X, a, g, f)
<1> USE DEF Recursive, Stepping
<1> DEFINE Upto(n, f) == /\ f \in [0..n -> X] /\ f[0] = a
                         /\ \A k \in Nat : k < n => f[k + 1] = g[k][f[k]]
           Some(n) == CHOOSE f : Upto(n, f)
           S == {n \in Nat : \E f : Upto(n, f)}
<1>1. S = Nat
  <2>1. 0 \in S
    <3>1. Upto(0, [k \in 0..0 |-> a])
      OBVIOUS
    <3> HIDE DEF Upto
    <3> QED
      BY <3>1
  <2>2. ASSUME NEW n \in S PROVE n + 1 \in S
    <3>1. PICK f : Upto(n, f)
      OBVIOUS
    <3> DEFINE e == [k \in 0..(n + 1) |-> IF k <= n THEN f[k] ELSE g[n][f[n]]]
    <3>2. n \in Nat /\ f[n] \in X /\ f \in [0..n -> X]
      BY <3>1
    <3>3. g[n][f[n]] \in X
      BY <3>2
    <3>4. e \in [0..(n + 1) -> X]
      BY <3>2, <3>3
    <3>5. e[0] = a
      BY <3>1, <3>2
    <3>6. \A k \in Nat : k < n + 1 => e[k + 1] = g[k][e[k]]
      <4>1. ASSUME NEW k \in Nat, k < n + 1 PROVE e[k + 1] = g[k][e[k]]
        <5>1. e[k] = f[k]
          BY <3>2, <4>1
        <5>2. CASE k < n
          <6>1. e[k + 1] = f[k + 1]
            BY <3>2, <5>2
          <6> QED
            BY <3>1, <5>1, <5>2, <6>1
        <5>3. CASE k = n
          <6>1. e[k + 1] = g[n][f[n]]
            BY <3>2, <5>3
          <6> QED
            BY <5>1, <5>3, <6>1
        <5> QED
          BY <3>2, <4>1, <5>2, <5>3
      <4> QED
        BY <4>1
    <3>7. Upto(n + 1, e)
      BY <3>4, <3>5, <3>6
    <3> HIDE DEF Upto
    <3> QED
      BY <3>2, <3>7
  <2>3. S \in SUBSET Nat
    OBVIOUS
  <2> HIDE DEF S
  <2> QED
    BY <2>1, <2>2, <2>3, InductiveSet
<1>2. \A n \in Nat : Upto(n, Some(n))
  <2> HIDE DEF Upto
  <2>1. \A n \in Nat : \E f : Upto(n, f)
    BY <1>1
  <2> QED
    BY <2>1, Zenon
<1> HIDE DEF Some
<1> DEFINE T == {n \in Nat : \A m \in Nat : n <= m => Some(m)[n] = Some(n)[n]}
<1>3. T = Nat
  <2>1. 0 \in T
    BY <1>2
  <2>2. ASSUME NEW n \in T PROVE n + 1 \in T
    <3>1. ASSUME NEW m \in Nat, n + 1 <= m PROVE Some(m)[n + 1] = Some(n + 1)[n + 1]
      <4>1. n < m /\ n < n + 1 /\ n + 1 \in Nat /\ n \in Nat
        BY <3>1
      <4>2. Some(m)[n] = Some(n)[n] /\ Some(n + 1)[n] = Some(n)[n]
        BY <4>1
      <4>3. Some(m)[n + 1] = g[n][Some(m)[n]] /\ Some(n + 1)[n + 1] = g[n][Some(n + 1)[n]]
        BY <1>2, <4>1
      <4> QED
        BY <4>2, <4>3
    <3> QED
      BY <3>1
  <2>3. T \in SUBSET Nat
    OBVIOUS
  <2> HIDE DEF T
  <2> QED
    BY <2>1, <2>2, <2>3, InductiveSet
<1> DEFINE h == [n \in Nat |-> Some(n)[n]]
<1>4. h \in [Nat -> X] /\ h[0] = a
  <2>1. \A n \in Nat : n \in 0..n /\ 0 \in Nat
    OBVIOUS
  <2> QED
    BY <1>2, <2>1
<1>5. ASSUME NEW n \in Nat PROVE h[n + 1] = g[n][h[n]]
  <2>1. n + 1 \in Nat /\ n < n + 1 /\ n <= n + 1
    OBVIOUS
  <2>2. Some(n + 1)[n + 1] = g[n][Some(n + 1)[n]]
    BY <1>2, <2>1
  <2>3. Some(n + 1)[n] = Some(n)[n]
    BY <1>3, <2>1
  <2> QED
    BY <2>1, <2>2, <2>3
<1> HIDE DEF h
<1> QED
  BY <1>4, <1>5

(***************************************************************************)
(* Numbers                                                                 *)
(***************************************************************************)
\* The places of a number among the binades.
LEMMA SpacingIs ==
  ASSUME NEW v \in Int
  PROVE  /\ Spacing(v) \in Spacings
         /\ Spacing(v) # 4096 => Magnitude(v) <= Exact * Spacing(v)
         /\ \A s \in Spacings : s < Spacing(v) => Magnitude(v) > Exact * s
<1> DEFINE wide == {s \in Spacings : Magnitude(v) <= Exact * s} \cup {4096}
           Least(s) == s \in wide /\ \A t \in wide : s <= t
<1>1. Exact \in Nat /\ Magnitude(v) \in Nat
  BY ExactAssumption DEF Magnitude
<1>2. wide \subseteq Spacings /\ 4096 \in wide
  BY DEF Spacings
<1> HIDE DEF wide
<1>3. \E s : Least(s)
  BY <1>2 DEF Spacings
<1>4. Spacing(v) = CHOOSE s : Least(s)
  BY DEF Spacing, wide
<1> DEFINE c == CHOOSE s : Least(s)
<1>5. Least(c)
  <2> HIDE DEF Least
  <2> QED
    BY <1>3, Zenon
<1>6. Least(Spacing(v))
  BY <1>4, <1>5
<1>7. \A s \in Spacings : s \in Int /\ Exact * s \in Int
  BY <1>1 DEF Spacings
<1>8. \A s \in Spacings : s \in wide <=> Magnitude(v) <= Exact * s \/ s = 4096
  BY DEF wide, Spacings
<1> QED
  BY <1>1, <1>2, <1>6, <1>7, <1>8

LEMMA RoundedIs ==
  ASSUME NEW v \in Int
  PROVE  \E s \in Spacings, low \in Int :
           /\ s = Spacing(v) /\ low % s = 0 /\ low <= v /\ v < low + s
           /\ Rounded(v) = IF 2 * (v - low) < s \/ (2 * (v - low) = s /\ (low \div s) % 2 = 0)
                             THEN low ELSE low + s
<1> DEFINE s == Spacing(v)
           low == v - (v % s)
<1>1. s \in Spacings
  BY SpacingIs
<1> HIDE DEF s
<1>2. v % s \in Int /\ 0 <= v % s /\ v % s < s /\ s \in Int
  BY <1>1 DEF Spacings
<1>3. low % s = 0
  BY <1>1 DEF Spacings
<1>4. low \in Int /\ low <= v /\ v < low + s /\ v - low = v % s
  BY <1>2
<1>5. Rounded(v) = IF 2 * (v % s) < s \/ (2 * (v % s) = s /\ (low \div s) % 2 = 0) THEN low ELSE low + s
  BY DEF Rounded, s
<1> QED
  BY <1>1, <1>3, <1>4, <1>5 DEF s

\* A multiple of a spacing is one of every smaller spacing.
LEMMA SpacingsDivide ==
  ASSUME NEW s \in Spacings, NEW t \in Spacings, t <= s, NEW v \in Int, v % s = 0
  PROVE  v % t = 0
BY DEF Spacings

LEMMA SpacedApart ==
  ASSUME NEW s \in Spacings, NEW v \in Int, NEW w \in Int, v % s = 0, w % s = 0, v < w
  PROVE  v + s <= w
BY DEF Spacings

\* Rounding keeps to the side of a multiple of the spacing that the number is on.
LEMMA RoundedSide ==
  ASSUME NEW v \in Int
  PROVE  /\ Rounded(v) \in Int /\ Rounded(v) % Spacing(v) = 0
         /\ \A m \in Int : m % Spacing(v) = 0 =>
              (v <= m => Rounded(v) <= m) /\ (m <= v => m <= Rounded(v))
<1>1. PICK s \in Spacings, low \in Int :
        /\ s = Spacing(v) /\ low % s = 0 /\ low <= v /\ v < low + s
        /\ Rounded(v) = IF 2 * (v - low) < s \/ (2 * (v - low) = s /\ (low \div s) % 2 = 0)
                          THEN low ELSE low + s
  BY RoundedIs
<1>2. s \in Int /\ s > 0 /\ (low + s) % s = 0
  BY <1>1 DEF Spacings
<1>3. Rounded(v) \in {low, low + s} /\ (v = low => Rounded(v) = low)
  BY <1>1, <1>2
<1>4. ASSUME NEW m \in Int, m % s = 0
      PROVE  (m > low => m >= low + s) /\ (m < low + s => m <= low)
  BY <1>1, <1>4 DEF Spacings
<1>5. ASSUME NEW m \in Int, m % s = 0
      PROVE  (v <= m => Rounded(v) <= m) /\ (m <= v => m <= Rounded(v))
  BY <1>1, <1>2, <1>3, <1>4, <1>5
<1>6. Rounded(v) \in Int /\ Rounded(v) % s = 0
  BY <1>1, <1>2, <1>3
<1> QED
  BY <1>1, <1>5, <1>6

LEMMA RoundedMultiple ==
  ASSUME NEW v \in Int, v % Spacing(v) = 0
  PROVE  Rounded(v) = v
BY RoundedSide

\* A float64 is a number that rounding leaves as it is.
LEMMA RoundedTwice ==
  ASSUME NEW v \in Int
  PROVE  Rounded(Rounded(v)) = Rounded(v)
<1> DEFINE s == Spacing(v)
           r == Rounded(v)
           t == Spacing(r)
<1>1. s \in Spacings /\ r \in Int /\ r % s = 0
  BY SpacingIs, RoundedSide
<1>2. t \in Spacings /\ \A n \in Spacings : n < t => Magnitude(r) > Exact * n
  BY <1>1, SpacingIs
<1>3. Exact \in Nat /\ s \in Int /\ s # 4096 => Magnitude(v) <= Exact * s
  BY SpacingIs
<1>4. s # 4096 => Magnitude(r) <= Exact * s
  <2>1. SUFFICES ASSUME s # 4096 PROVE Magnitude(r) <= Exact * s
    OBVIOUS
  <2> DEFINE m == Exact * s
  <2>2. m \in Int /\ m % s = 0 /\ (-m) % s = 0
    BY <1>1, ExactAssumption DEF Spacings
  <2>3. Magnitude(v) <= m
    BY <2>1, SpacingIs
  <2> HIDE DEF m
  <2>4. -m <= v /\ v <= m
    BY <2>2, <2>3 DEF Magnitude
  <2>5. -m <= r /\ r <= m
    BY <2>2, <2>4, RoundedSide
  <2>6. Magnitude(r) <= m
    BY <1>1, <2>2, <2>5 DEF Magnitude
  <2> QED
    BY <2>6 DEF m
<1> HIDE DEF s, t, r
<1>5. t <= s
  <2>1. ASSUME s < t PROVE FALSE
    <3>1. Magnitude(r) > Exact * s /\ s # 4096
      BY <1>1, <1>2, <2>1 DEF Spacings
    <3>2. Magnitude(r) \in Int /\ Exact * s \in Int
      BY <1>1, ExactAssumption DEF Magnitude, Spacings
    <3> QED
      BY <1>4, <3>1, <3>2
  <2> QED
    BY <1>1, <1>2, <2>1 DEF Spacings
<1>6. r % t = 0
  BY <1>1, <1>2, <1>5, SpacingsDivide
<1> QED
  BY <1>1, <1>6, RoundedMultiple DEF r, t

\* Rounding to a float64 makes no whole number a half.
LEMMA RoundedEven ==
  ASSUME NEW v \in Int, v % 2 = 0
  PROVE  Rounded(v) % 2 = 0
<1>1. Spacing(v) \in Spacings /\ Rounded(v) \in Int /\ Rounded(v) % Spacing(v) = 0
  BY SpacingIs, RoundedSide
<1>2. CASE Spacing(v) = 1
  <2>1. v % 1 = 0
    OBVIOUS
  <2>2. Rounded(v) = v
    BY <1>2, <2>1, RoundedMultiple
  <2> QED
    BY <2>2
<1>3. CASE Spacing(v) # 1
  BY <1>1, <1>3 DEF Spacings
<1> QED
  BY <1>2, <1>3

\* An integer up to Exact is a float64.
LEMMA RoundedExact ==
  ASSUME NEW v \in Int, v % 2 = 0, Magnitude(v) <= 2 * Exact
  PROVE  Rounded(v) = v
<1>1. Spacing(v) \in Spacings /\ \A s \in Spacings : s < Spacing(v) => Magnitude(v) > Exact * s
  BY SpacingIs
<1>2. 2 \in Spacings /\ ~(Magnitude(v) > Exact * 2)
  BY ExactAssumption DEF Spacings, Magnitude
<1>3. Spacing(v) \in {1, 2}
  BY <1>1, <1>2 DEF Spacings
<1>4. v % Spacing(v) = 0
  BY <1>3
<1> QED
  BY <1>4, RoundedMultiple

\* A number past the smallest floats is not rounded below the binade it lies in.
LEMMA RoundedPast ==
  ASSUME NEW v \in Int, NEW s \in Spacings, 2 * s <= Spacing(v)
  PROVE  /\ v >= 0 => Rounded(v) >= Exact * s
         /\ v < 0 => Rounded(v) <= -(Exact * s)
<1>1. PICK w \in Spacings, low \in Int :
        /\ w = Spacing(v) /\ low % w = 0 /\ low <= v /\ v < low + w
        /\ Rounded(v) = IF 2 * (v - low) < w \/ (2 * (v - low) = w /\ (low \div w) % 2 = 0)
                          THEN low ELSE low + w
  BY RoundedIs
<1>2. PICK h \in Spacings : w = 2 * h
  BY <1>1 DEF Spacings
<1>3. Magnitude(v) > Exact * h
  <2>1. h < Spacing(v)
    BY <1>1, <1>2 DEF Spacings
  <2> QED
    BY <2>1, SpacingIs
<1>4. Exact * s <= Exact * h /\ Exact * h \in Nat /\ Exact * s \in Nat
  BY <1>1, <1>2, ExactAssumption DEF Spacings
<1> DEFINE m == Exact * h
<1>5. m \in Nat /\ m % h = 0
  BY <1>4, ExactAssumption DEF Spacings
<1> HIDE DEF m
<1>6. ASSUME v >= 0 PROVE Rounded(v) >= m
  <2>1. v > m
    BY <1>3, <1>6 DEF Magnitude, m
  <2>2. low >= m \/ low + h = m
    BY <1>1, <1>2, <1>5, <2>1 DEF Spacings
  <2>3. h \in Nat /\ (low + h = m => 2 * (v - low) > w)
    BY <1>2, <2>1 DEF Spacings
  <2> QED
    BY <1>1, <1>2, <1>5, <2>1, <2>2, <2>3
<1>7. ASSUME v < 0 PROVE Rounded(v) <= -m
  <2>1. v < -m
    BY <1>3, <1>5, <1>7 DEF Magnitude, m
  <2>2. low + w <= -m \/ low + h = -m
    BY <1>1, <1>2, <1>5, <2>1 DEF Spacings
  <2>3. h \in Nat /\ (low + h = -m => 2 * (v - low) < w)
    BY <1>2, <2>1 DEF Spacings
  <2> QED
    BY <1>1, <1>2, <1>5, <2>1, <2>2, <2>3
<1> QED
  BY <1>4, <1>5, <1>6, <1>7, RoundedSide DEF m

\* Rounding keeps the order of numbers.
LEMMA RoundedMonotone ==
  ASSUME NEW v \in Int, NEW w \in Int, v <= w
  PROVE  Rounded(v) <= Rounded(w)
<1>1. Rounded(v) \in Int /\ Rounded(w) \in Int /\ Spacing(v) \in Spacings /\ Spacing(w) \in Spacings
  BY SpacingIs, RoundedSide
<1>2. CASE Spacing(v) = Spacing(w)
  <2>1. PICK s \in Spacings, low \in Int :
          /\ s = Spacing(v) /\ low % s = 0 /\ low <= v /\ v < low + s
          /\ Rounded(v) = IF 2 * (v - low) < s \/ (2 * (v - low) = s /\ (low \div s) % 2 = 0)
                            THEN low ELSE low + s
    BY RoundedIs
  <2>2. PICK t \in Spacings, high \in Int :
          /\ t = Spacing(w) /\ high % t = 0 /\ high <= w /\ w < high + t
          /\ Rounded(w) = IF 2 * (w - high) < t \/ (2 * (w - high) = t /\ (high \div t) % 2 = 0)
                            THEN high ELSE high + t
    BY RoundedIs
  <2>3. s = t /\ s \in Int
    BY <1>2, <2>1, <2>2 DEF Spacings
  <2>4. low = high \/ low + s <= high
    <3>1. high < low => high + s <= low
      BY <2>1, <2>2, <2>3, SpacedApart
    <3>2. low < high => low + s <= high
      BY <2>1, <2>2, <2>3, SpacedApart
    <3> QED
      BY <2>1, <2>2, <2>3, <3>1, <3>2
  <2>5. CASE low = high
    <3>1. ASSUME 2 * (w - low) < s \/ (2 * (w - low) = s /\ (low \div s) % 2 = 0)
          PROVE  2 * (v - low) < s \/ (2 * (v - low) = s /\ (low \div s) % 2 = 0)
      BY <2>1, <2>2, <2>3, <3>1
    <3> QED
      BY <2>1, <2>2, <2>3, <2>5, <3>1
  <2>6. CASE low + s <= high
    BY <2>1, <2>2, <2>3, <2>6
  <2> QED
    BY <2>4, <2>5, <2>6
<1>3. CASE v < 0 /\ w >= 0
  <2>1. \A s \in Spacings : 0 % s = 0
    BY DEF Spacings
  <2>2. Rounded(v) <= 0 /\ 0 <= Rounded(w)
    BY <1>1, <1>3, <2>1, RoundedSide
  <2> QED
    BY <1>1, <2>2
<1>4. CASE v >= 0 /\ Spacing(v) # Spacing(w)
  <2> DEFINE s == Spacing(v)
  <2>1. s < Spacing(w)
    <3>1. ASSUME Spacing(w) < s PROVE FALSE
      <4>1. Magnitude(v) > Exact * Spacing(w) /\ Spacing(w) # 4096
        BY <1>1, <3>1, SpacingIs DEF Spacings
      <4>2. Magnitude(w) <= Exact * Spacing(w) /\ Exact * Spacing(w) \in Int
        BY <1>1, <4>1, SpacingIs, ExactAssumption DEF Spacings
      <4> QED
        BY <1>4, <4>1, <4>2 DEF Magnitude
    <3> QED
      BY <1>1, <1>4, <3>1 DEF Spacings
  <2>2. 2 * s <= Spacing(w) /\ s # 4096
    BY <1>1, <2>1 DEF Spacings
  <2>3. Rounded(w) >= Exact * s
    BY <1>1, <1>4, <2>2, RoundedPast
  <2> DEFINE m == Exact * s
  <2>4. m \in Int /\ m % s = 0
    BY <1>1, ExactAssumption DEF Spacings
  <2>5. v <= m
    BY <1>4, <2>2, SpacingIs DEF Magnitude
  <2>6. Rounded(v) <= m
    BY <2>4, <2>5, RoundedSide
  <2> QED
    BY <1>1, <2>3, <2>4, <2>6
<1>5. CASE w < 0 /\ Spacing(v) # Spacing(w)
  <2> DEFINE s == Spacing(w)
  <2>1. s < Spacing(v)
    <3>1. ASSUME Spacing(v) < s PROVE FALSE
      <4>1. Magnitude(w) > Exact * Spacing(v) /\ Spacing(v) # 4096
        BY <1>1, <3>1, SpacingIs DEF Spacings
      <4>2. Magnitude(v) <= Exact * Spacing(v) /\ Exact * Spacing(v) \in Int
        BY <1>1, <4>1, SpacingIs, ExactAssumption DEF Spacings
      <4> QED
        BY <1>5, <4>1, <4>2 DEF Magnitude
    <3> QED
      BY <1>1, <1>5, <3>1 DEF Spacings
  <2>2. 2 * s <= Spacing(v) /\ s # 4096
    BY <1>1, <2>1 DEF Spacings
  <2>3. Rounded(v) <= -(Exact * s)
    BY <1>1, <1>5, <2>2, RoundedPast
  <2> DEFINE m == Exact * s
  <2>4. m \in Int /\ (-m) \in Int /\ (-m) % s = 0
    BY <1>1, ExactAssumption DEF Spacings
  <2>5. -m <= w
    BY <1>5, <2>2, <2>4, SpacingIs DEF Magnitude
  <2>6. -m <= Rounded(w)
    BY <2>4, <2>5, RoundedSide
  <2> QED
    BY <1>1, <2>3, <2>4, <2>6
<1> QED
  BY <1>2, <1>3, <1>4, <1>5

\* The digits of a float64 read back as it.
LEMMA DigitsRead ==
  ASSUME NEW v \in Int, Rounded(v) = v
  PROVE  /\ Digits(v) \in Int /\ Rounded(Digits(v)) = v
         /\ Digits(v) % 2 = 0 <=> v % 2 = 0
BY SpellingAssumption DEF Digits

LEMMA DigitsExact ==
  ASSUME NEW v \in Int, Magnitude(v) <= 2 * Exact
  PROVE  Digits(v) = v
<1>1. Magnitude(v) \in Int /\ 2 * Exact \in Int
  BY ExactAssumption DEF Magnitude
<1> QED
  BY <1>1, SpellingAssumption DEF Digits

(***************************************************************************)
(* Sorting                                                                 *)
(***************************************************************************)
Precursors(s, key, i) == {j \in DOMAIN s : key[j] < key[i] \/ (key[j] = key[i] /\ j < i)}

\* The order is strict and total, so that the elements before one tell its place.
LEMMA PrecursorsCount ==
  ASSUME NEW S, NEW s \in Seq(S), NEW key \in [DOMAIN s -> Int]
  PROVE  /\ \A i \in DOMAIN s : Cardinality(Precursors(s, key, i)) \in 0..(Len(s) - 1)
         /\ \A i, j \in DOMAIN s : i \in Precursors(s, key, j) =>
              Cardinality(Precursors(s, key, i)) < Cardinality(Precursors(s, key, j))
         /\ \A i, j \in DOMAIN s : i = j \/ i \in Precursors(s, key, j) \/ j \in Precursors(s, key, i)
<1>1. Len(s) \in Nat /\ DOMAIN s = 1..Len(s)
  OBVIOUS
<1>2. IsFiniteSet(DOMAIN s) /\ Cardinality(DOMAIN s) = Len(s)
  <2>1. IsFiniteSet(1..Len(s)) /\ Cardinality(1..Len(s)) = IF 1 > Len(s) THEN 0 ELSE Len(s) - 1 + 1
    BY <1>1, FS_Interval
  <2> QED
    BY <1>1, <2>1
<1>3. ASSUME NEW i \in DOMAIN s
      PROVE  /\ Precursors(s, key, i) \subseteq DOMAIN s /\ i \notin Precursors(s, key, i)
             /\ IsFiniteSet(Precursors(s, key, i))
  <2>1. Precursors(s, key, i) \subseteq DOMAIN s /\ i \notin Precursors(s, key, i)
    BY <1>1 DEF Precursors
  <2> QED
    BY <1>2, <2>1, FS_Subset
<1>4. ASSUME NEW i \in DOMAIN s
      PROVE  Cardinality(Precursors(s, key, i)) \in 0..(Len(s) - 1)
  <2>1. Cardinality(Precursors(s, key, i)) \in Nat
    BY <1>3, FS_CardinalityType
  <2>2. Cardinality(Precursors(s, key, i)) <= Cardinality(DOMAIN s)
    BY <1>2, <1>3, FS_Subset
  <2>3. Cardinality(Precursors(s, key, i)) # Cardinality(DOMAIN s)
    BY <1>2, <1>3, FS_Subset
  <2> QED
    BY <1>1, <1>2, <2>1, <2>2, <2>3
<1>5. ASSUME NEW i \in DOMAIN s, NEW j \in DOMAIN s, i \in Precursors(s, key, j)
      PROVE  Cardinality(Precursors(s, key, i)) < Cardinality(Precursors(s, key, j))
  <2>1. Precursors(s, key, i) \subseteq Precursors(s, key, j)
    BY <1>1, <1>5 DEF Precursors
  <2>2. Precursors(s, key, i) # Precursors(s, key, j)
    BY <1>3, <1>5
  <2>3. /\ Cardinality(Precursors(s, key, i)) <= Cardinality(Precursors(s, key, j))
        /\ Cardinality(Precursors(s, key, i)) # Cardinality(Precursors(s, key, j))
    BY <1>3, <2>1, <2>2, FS_Subset
  <2> QED
    BY <1>1, <1>4, <2>3
<1>6. \A i, j \in DOMAIN s : i = j \/ i \in Precursors(s, key, j) \/ j \in Precursors(s, key, i)
  BY <1>1 DEF Precursors
<1> QED
  BY <1>4, <1>5, <1>6

\* SortedBy rearranges a sequence into the order of the keys.
LEMMA SortedByOrders ==
  ASSUME NEW S, NEW s \in Seq(S), NEW key \in [DOMAIN s -> Int]
  PROVE  \E p \in Bijection(DOMAIN s, DOMAIN s) :
           /\ SortedBy(s, key) = [n \in DOMAIN s |-> s[p[n]]]
           /\ \A m, n \in DOMAIN s : m < n => key[p[m]] <= key[p[n]]
<1> DEFINE D == DOMAIN s
           Place(i) == Cardinality(Precursors(s, key, i)) + 1
           c == [i \in D |-> Place(i)]
           p == [n \in D |-> CHOOSE i \in D : Cardinality(Precursors(s, key, i)) = n - 1]
<1>1. Len(s) \in Nat /\ D = 1..Len(s)
  OBVIOUS
<1>2. IsFiniteSet(D)
  BY <1>1, FS_Interval
<1>3. c \in Injection(D, D)
  <2>1. \A i \in D : Cardinality(Precursors(s, key, i)) \in 0..(Len(s) - 1)
    BY PrecursorsCount
  <2>2. c \in [D -> D]
    BY <1>1, <2>1
  <2>3. ASSUME NEW i \in D, NEW j \in D, c[i] = c[j]
        PROVE  i = j
    <3>1. Cardinality(Precursors(s, key, i)) = Cardinality(Precursors(s, key, j))
      BY <1>1, <2>1, <2>3
    <3>2. i = j \/ i \in Precursors(s, key, j) \/ j \in Precursors(s, key, i)
      BY PrecursorsCount
    <3>3. /\ i \in Precursors(s, key, j) =>
               Cardinality(Precursors(s, key, i)) < Cardinality(Precursors(s, key, j))
          /\ j \in Precursors(s, key, i) =>
               Cardinality(Precursors(s, key, j)) < Cardinality(Precursors(s, key, i))
      BY PrecursorsCount
    <3>4. Cardinality(Precursors(s, key, i)) \in Int /\ Cardinality(Precursors(s, key, j)) \in Int
      BY <1>1, <2>1
    <3> HIDE DEF D
    <3> QED
      BY <3>1, <3>2, <3>3, <3>4
  <2> HIDE DEF c, D
  <2> QED
    BY <2>2, <2>3 DEF Injection, IsInjective
<1>4. c \in Surjection(D, D)
  BY <1>2, <1>3, FS_Injection
<1>5. \A n \in D : \E i \in D : Cardinality(Precursors(s, key, i)) = n - 1
  <2>1. \A n \in D : \E i \in D : c[i] = n
    BY <1>4 DEF Surjection
  <2>2. \A i \in D : Cardinality(Precursors(s, key, i)) \in 0..(Len(s) - 1)
    BY PrecursorsCount
  <2>3. \A i \in D : c[i] = Cardinality(Precursors(s, key, i)) + 1
    OBVIOUS
  <2> HIDE DEF c, D
  <2>4. ASSUME NEW n \in D
        PROVE  \E i \in D : Cardinality(Precursors(s, key, i)) = n - 1
    <3>1. PICK i \in D : c[i] = n
      BY <2>1
    <3>2. Cardinality(Precursors(s, key, i)) \in 0..(Len(s) - 1)
      BY <2>2 DEF D
    <3>3. n = Cardinality(Precursors(s, key, i)) + 1
      BY <2>3, <3>1
    <3>4. Cardinality(Precursors(s, key, i)) = n - 1
      BY <1>1, <3>2, <3>3
    <3> QED
      BY <3>4
  <2> QED
    BY <2>4
<1>6. \A n \in D : p[n] \in D /\ Cardinality(Precursors(s, key, p[n])) = n - 1
  <2> HIDE DEF D
  <2> QED
    BY <1>5
<1>7. p \in Bijection(D, D)
  <2>1. p \in [D -> D]
    BY <1>6
  <2>2. \A m, n \in D : p[m] = p[n] => m = n
    BY <1>1, <1>6
  <2>3. ASSUME NEW i \in D
        PROVE  \E n \in D : p[n] = i
    <3>1. c[i] \in D /\ Cardinality(Precursors(s, key, p[c[i]])) = c[i] - 1
      BY <1>3, <1>6 DEF Injection
    <3>2. Cardinality(Precursors(s, key, i)) \in 0..(Len(s) - 1) /\ c[i] = Cardinality(Precursors(s, key, i)) + 1
      BY PrecursorsCount
    <3>3. c[p[c[i]]] = Cardinality(Precursors(s, key, p[c[i]])) + 1 /\ p[c[i]] \in D
      BY <1>6, <3>1
    <3>4. c[p[c[i]]] = c[i]
      <4> HIDE DEF c, p, D
      <4> QED
        BY <1>1, <3>1, <3>2, <3>3
    <3>5. p[c[i]] = i
      <4> HIDE DEF c, p, D
      <4> QED
        BY <1>3, <3>3, <3>4 DEF Injection, IsInjective
    <3> QED
      BY <3>1, <3>5
  <2> HIDE DEF p, D
  <2> QED
    BY <2>1, <2>2, <2>3 DEF Bijection, Injection, Surjection, IsInjective
<1>8. SortedBy(s, key) = [n \in D |-> s[p[n]]]
  BY DEF SortedBy, Precursors
<1>9. ASSUME NEW m \in D, NEW n \in D, m < n
      PROVE  key[p[m]] <= key[p[n]]
  <2>1. p[m] \in D /\ p[n] \in D
    BY <1>6
  <2>2. Cardinality(Precursors(s, key, p[m])) = m - 1 /\ Cardinality(Precursors(s, key, p[n])) = n - 1
    BY <1>6
  <2>3. p[m] = p[n] \/ p[m] \in Precursors(s, key, p[n]) \/ p[n] \in Precursors(s, key, p[m])
    BY <2>1, PrecursorsCount
  <2>4. p[n] \in Precursors(s, key, p[m]) =>
          Cardinality(Precursors(s, key, p[n])) < Cardinality(Precursors(s, key, p[m]))
    BY <2>1, PrecursorsCount
  <2>5. p[m] \in Precursors(s, key, p[n])
    <3> HIDE DEF p
    <3> QED
      BY <1>1, <1>9, <2>2, <2>3, <2>4
  <2> HIDE DEF p
  <2> QED
    BY <1>1, <2>1, <2>5 DEF Precursors
<1> HIDE DEF p
<1> QED
  BY <1>7, <1>8, <1>9

(***************************************************************************)
(* Normalize                                                               *)
(***************************************************************************)
LEMMA Defaults ==
  ASSUME NEW r \in Rules
  PROVE  /\ WithDefaults(r) \in Rules
         /\ WithDefaults(r).id = r.id /\ WithDefaults(r).kind = r.kind
         /\ WithDefaults(r).path = r.path /\ WithDefaults(r).predicate = r.predicate
         /\ WithDefaults(r).action = r.action
         /\ WithDefaults(r).version = RuleVersion(r) /\ WithDefaults(r).severity = Severity(r)
<1>1. RuleVersion(r) \in STRING /\ Severity(r) \in STRING
  BY DefaultsAssumption DEF Rules, RuleVersion, Severity
<1>2. \A v \in STRING, w \in STRING :
        LET d == [r EXCEPT !.version = v, !.severity = w]
        IN  /\ d \in Rules
            /\ d.id = r.id /\ d.kind = r.kind /\ d.path = r.path
            /\ d.predicate = r.predicate /\ d.action = r.action
            /\ d.version = v /\ d.severity = w
  BY DEF Rules
<1> QED
  BY <1>1, <1>2 DEF WithDefaults

LEMMA DefaultsValid ==
  ASSUME NEW r \in Rules
  PROVE  RuleValid(WithDefaults(r)) <=> RuleValid(r)
<1> DEFINE d == WithDefaults(r)
<1>1. d.id = r.id /\ d.kind = r.kind /\ d.path = r.path /\ d.predicate = r.predicate /\ d.action = r.action
  BY Defaults
<1>2. d.version \in {"", "1"} <=> r.version \in {"", "1"}
  BY Defaults DEF RuleVersion
<1>3. d.severity \in {"", "warning", "error"} <=> r.severity \in {"", "warning", "error"}
  BY Defaults DEF Severity
<1> HIDE DEF d
<1>4. PredicateValid(d) <=> PredicateValid(r)
  BY <1>1 DEF PredicateValid
<1>5. RuleValid(d) <=> RuleValid(r)
  BY <1>1, <1>2, <1>3, <1>4 DEF RuleValid
<1> QED
  BY <1>5 DEF d

\* The rules of the normalized contract are the given ones with their defaults, in an
\* order that does not go down in their ids.
LEMMA NormalizeRearranges ==
  ASSUME NEW c \in Contracts
  PROVE  /\ \E p \in Bijection(DOMAIN c.rules, DOMAIN c.rules) :
              Normalize(c).rules = [n \in DOMAIN c.rules |-> WithDefaults(c.rules[p[n]])]
         /\ \A i, j \in DOMAIN c.rules : i < j => Normalize(c).rules[i].id <= Normalize(c).rules[j].id
         /\ Normalize(c).ir = c.ir /\ Normalize(c).id = c.id /\ Normalize(c).version = c.version
         /\ Normalize(c).input = c.input
         /\ Normalize(c) \in Contracts
<1> DEFINE rs == [i \in DOMAIN c.rules |-> WithDefaults(c.rules[i])]
           key == [i \in DOMAIN rs |-> rs[i].id]
<1>1. c.rules \in Seq(Rules) /\ c.ir \in STRING /\ c.id \in STRING /\ c.version \in STRING /\ c.input \in STRING
  BY DEF Contracts
<1>2. \A i \in DOMAIN c.rules : c.rules[i] \in Rules
  BY <1>1
<1>3. rs \in Seq(Rules) /\ DOMAIN rs = DOMAIN c.rules /\ Len(rs) = Len(c.rules)
  <2>1. \A i \in DOMAIN c.rules : WithDefaults(c.rules[i]) \in Rules
    BY <1>2, Defaults
  <2> QED
    BY <1>1, <2>1
<1>4. key \in [DOMAIN rs -> Int]
  <2>1. \A i \in DOMAIN rs : rs[i] \in Rules
    BY <1>3
  <2>2. \A r \in Rules : r.id \in Int
    BY DEF Rules
  <2>3. \A i \in DOMAIN rs : rs[i].id \in Int
    BY <2>1, <2>2
  <2> HIDE DEF rs
  <2> QED
    BY <2>3
<1>5. Normalize(c) = [c EXCEPT !.rules = SortedBy(rs, key)]
  BY DEF Normalize, SortedById
<1> HIDE DEF rs, key
<1>6. PICK p \in Bijection(DOMAIN rs, DOMAIN rs) :
        /\ SortedBy(rs, key) = [n \in DOMAIN rs |-> rs[p[n]]]
        /\ \A m, n \in DOMAIN rs : m < n => key[p[m]] <= key[p[n]]
  BY <1>3, <1>4, SortedByOrders
<1>7. \A n \in DOMAIN rs : p[n] \in DOMAIN rs
  BY <1>6 DEF Bijection, Injection
<1>8. SortedBy(rs, key) = [n \in DOMAIN c.rules |-> WithDefaults(c.rules[p[n]])]
  <2>1. \A n \in DOMAIN rs : rs[p[n]] = WithDefaults(c.rules[p[n]])
    BY <1>3, <1>7 DEF rs
  <2> QED
    BY <1>3, <1>6, <2>1
<1>9. SortedBy(rs, key) \in Seq(Rules)
  <2>1. \A n \in DOMAIN rs : rs[p[n]] \in Rules
    BY <1>3, <1>7
  <2> QED
    BY <1>3, <1>6, <2>1
<1>10. \A i, j \in DOMAIN rs : i < j => SortedBy(rs, key)[i].id <= SortedBy(rs, key)[j].id
  <2>1. \A i \in DOMAIN rs : SortedBy(rs, key)[i].id = key[p[i]]
    BY <1>6, <1>7 DEF key
  <2> QED
    BY <1>6, <2>1
<1>11. /\ Normalize(c).rules = SortedBy(rs, key)
       /\ Normalize(c).ir = c.ir /\ Normalize(c).id = c.id /\ Normalize(c).version = c.version
       /\ Normalize(c).input = c.input
  BY <1>5 DEF Contracts
<1>12. Normalize(c) \in Contracts
  BY <1>5, <1>9 DEF Contracts
<1> QED
  BY <1>3, <1>6, <1>8, <1>10, <1>11, <1>12

\* Normalize keeps a contract that Validate admits admissible, and sorts its rules
\* strictly: the order of the file is not left to tell.
THEOREM NormalizeKeepsValid ==
  ASSUME NEW c \in Contracts, Validate(c)
  PROVE  /\ Normalize(c) \in Contracts /\ Validate(Normalize(c))
         /\ \A i, j \in DOMAIN Normalize(c).rules :
              i < j => Normalize(c).rules[i].id < Normalize(c).rules[j].id
<1> DEFINE q == Normalize(c).rules
<1>1. PICK p \in Bijection(DOMAIN c.rules, DOMAIN c.rules) :
        q = [n \in DOMAIN c.rules |-> WithDefaults(c.rules[p[n]])]
  BY NormalizeRearranges
<1>2. c.rules \in Seq(Rules)
  BY DEF Contracts
<1> HIDE DEF q
<1>3. DOMAIN q = DOMAIN c.rules /\ \A n \in DOMAIN q : p[n] \in DOMAIN c.rules /\ q[n] = WithDefaults(c.rules[p[n]])
  BY <1>1 DEF Bijection, Injection
<1>4. \A n \in DOMAIN q : RuleValid(q[n]) /\ q[n].id = c.rules[p[n]].id /\ q[n].id \in Nat
  <2>3. \A n \in DOMAIN c.rules : c.rules[n] \in Rules
    BY <1>2
  <2>4. \A n \in DOMAIN c.rules : RuleValid(c.rules[n])
    BY DEF Validate
  <2>1. \A n \in DOMAIN q : c.rules[p[n]] \in Rules /\ RuleValid(c.rules[p[n]])
    BY <1>3, <2>3, <2>4
  <2>2. \A r \in Rules : r.id \in Nat
    BY DEF Rules
  <2> QED
    BY <1>3, <2>1, <2>2, Defaults, DefaultsValid
<1>5. IdsUnique(q)
  <2>1. \A i, j \in DOMAIN q : p[i] = p[j] => i = j
    BY <1>1, <1>3 DEF Bijection, Injection, IsInjective
  <2>2. IdsUnique(c.rules)
    BY DEF Validate
  <2>3. \A i, j \in DOMAIN q : c.rules[p[i]].id = c.rules[p[j]].id => p[i] = p[j]
    BY <1>3, <2>2 DEF IdsUnique
  <2> QED
    BY <1>4, <2>1, <2>3 DEF IdsUnique
<1>6. Len(q) > 0
  <2>0. Len(c.rules) > 0
    BY DEF Validate
  <2>1. Len(c.rules) > 0 /\ Len(c.rules) \in Nat /\ DOMAIN c.rules = 1..Len(c.rules)
    BY <1>2, <2>0
  <2>2. q \in Seq(Rules)
    BY NormalizeRearranges DEF Contracts, q
  <2>3. Len(q) = Len(c.rules)
    BY <1>3, <2>1, <2>2
  <2> QED
    BY <2>1, <2>3
<1>7. \A i, j \in DOMAIN q : i < j => q[i].id < q[j].id
  <2>1. \A i, j \in DOMAIN q : i < j => q[i].id <= q[j].id
    BY <1>3, NormalizeRearranges DEF q
  <2>2. DOMAIN q \subseteq Int
    BY <1>2, <1>3
  <2> QED
    BY <1>4, <1>5, <2>1, <2>2 DEF IdsUnique
<1>8. Validate(Normalize(c))
  BY <1>4, <1>5, <1>6, NormalizeRearranges DEF Validate, q
<1> QED
  BY <1>7, <1>8, NormalizeRearranges DEF q

(***************************************************************************)
(* One normal form                                                         *)
(***************************************************************************)
RulesIn(q) == {q[i] : i \in DOMAIN q}

Ascending(q) == \A i, j \in DOMAIN q : i < j => q[i].id < q[j].id

\* In a sorted sequence the rules with a lower id tell the place of a rule.
LEMMA PlaceOfRule ==
  ASSUME NEW q \in Seq(Rules), Ascending(q), NEW n \in DOMAIN q
  PROVE  Cardinality({r \in RulesIn(q) : r.id < q[n].id}) = n - 1
<1> DEFINE S == {r \in RulesIn(q) : r.id < q[n].id}
           f == [m \in 1..(n - 1) |-> q[m]]
<1>1. Len(q) \in Nat /\ DOMAIN q = 1..Len(q) /\ n \in 1..Len(q)
  OBVIOUS
<1>2. \A m \in DOMAIN q : q[m].id \in Int
  <2>1. \A m \in DOMAIN q : q[m] \in Rules
    OBVIOUS
  <2>2. \A r \in Rules : r.id \in Int
    BY DEF Rules
  <2> QED
    BY <2>1, <2>2
<1>3. \A m \in DOMAIN q : q[m].id < q[n].id <=> m < n
  BY <1>1, <1>2 DEF Ascending
<1>4. f \in Bijection(1..(n - 1), S)
  <2>1. \A m \in 1..(n - 1) : m \in DOMAIN q /\ q[m] \in S
    BY <1>1, <1>3 DEF RulesIn
  <2>2. f \in [1..(n - 1) -> S]
    BY <2>1
  <2>3. \A k, m \in 1..(n - 1) : f[k] = f[m] => k = m
    <3>1. \A k, m \in DOMAIN q : q[k] = q[m] => k = m
      BY <1>1, <1>2 DEF Ascending
    <3> QED
      BY <2>1, <3>1
  <2>4. \A r \in S : \E m \in 1..(n - 1) : f[m] = r
    <3>1. ASSUME NEW r \in S
          PROVE  \E m \in 1..(n - 1) : f[m] = r
      <4>1. PICK m \in DOMAIN q : q[m] = r
        BY <3>1 DEF RulesIn
      <4>2. m \in 1..(n - 1)
        BY <1>1, <1>3, <3>1, <4>1
      <4> QED
        BY <4>1, <4>2
    <3> QED
      BY <3>1
  <2> HIDE DEF f, S
  <2> QED
    BY <2>2, <2>3, <2>4 DEF Bijection, Injection, Surjection, IsInjective
<1>5. ExistsBijection(1..(n - 1), S)
  BY <1>4, Zenon DEF ExistsBijection
<1>6. n - 1 \in Nat
  BY <1>1
<1> HIDE DEF S
<1>7. Cardinality(S) = n - 1
  BY <1>5, <1>6, FS_CountingElements
<1> QED
  BY <1>7 DEF S

LEMMA OneSortedSequence ==
  ASSUME NEW q \in Seq(Rules), NEW r \in Seq(Rules), Ascending(q), Ascending(r),
         RulesIn(q) = RulesIn(r)
  PROVE  q = r
<1>1. /\ \A n \in DOMAIN q : n \in DOMAIN r /\ r[n] = q[n]
      /\ \A n \in DOMAIN r : n \in DOMAIN q
  <2>1. ASSUME NEW n \in DOMAIN q, NEW m \in DOMAIN r, q[n] = r[m]
        PROVE  n = m
    <3>1. Cardinality({x \in RulesIn(q) : x.id < q[n].id}) = n - 1
      BY PlaceOfRule
    <3>2. Cardinality({x \in RulesIn(r) : x.id < r[m].id}) = m - 1
      BY PlaceOfRule
    <3>3. n - 1 = m - 1
      BY <2>1, <3>1, <3>2
    <3> QED
      BY <3>3
  <2>2. \A n \in DOMAIN q : \E m \in DOMAIN r : q[n] = r[m]
    BY DEF RulesIn
  <2>3. \A m \in DOMAIN r : \E n \in DOMAIN q : q[n] = r[m]
    BY DEF RulesIn
  <2> QED
    BY <2>1, <2>2, <2>3
<1>2. DOMAIN q = DOMAIN r
  BY <1>1
<1>3. Len(q) = Len(r)
  BY <1>2
<1> QED
  BY <1>1, <1>3

\* The rules of a normalized contract are the given ones with their defaults.
LEMMA RulesNormalized ==
  ASSUME NEW c \in Contracts
  PROVE  RulesIn(Normalize(c).rules) = {WithDefaults(c.rules[i]) : i \in DOMAIN c.rules}
<1>1. PICK p \in Bijection(DOMAIN c.rules, DOMAIN c.rules) :
        Normalize(c).rules = [n \in DOMAIN c.rules |-> WithDefaults(c.rules[p[n]])]
  BY NormalizeRearranges
<1>2. /\ \A n \in DOMAIN c.rules : p[n] \in DOMAIN c.rules
      /\ \A i \in DOMAIN c.rules : \E n \in DOMAIN c.rules : p[n] = i
  BY DEF Bijection, Injection, Surjection
<1> DEFINE q == Normalize(c).rules
           g(i) == WithDefaults(c.rules[i])
<1>3. DOMAIN q = DOMAIN c.rules /\ \A n \in DOMAIN c.rules : q[n] = g(p[n])
  BY <1>1
<1> HIDE DEF q, g
<1>4. RulesIn(q) = {g(i) : i \in DOMAIN c.rules}
  <2>1. \A n \in DOMAIN q : q[n] \in {g(i) : i \in DOMAIN c.rules}
    BY <1>2, <1>3
  <2>2. \A i \in DOMAIN c.rules : g(i) \in RulesIn(q)
    BY <1>2, <1>3 DEF RulesIn
  <2> QED
    BY <2>1, <2>2 DEF RulesIn
<1> QED
  BY <1>4 DEF q, g

\* docs/contract-ir.md: equivalent contracts have one canonical form. Contracts that
\* differ in the order of their rules and in the defaults they spell out normalize to
\* the same contract (contract.Normalize), so that everything derived from it (the
\* digest, the order of evidence) is the same.
THEOREM NormalizeCanonical ==
  ASSUME NEW c \in Contracts, NEW d \in Contracts, Validate(c), Validate(d),
         c.ir = d.ir, c.id = d.id, c.version = d.version, c.input = d.input,
         {WithDefaults(c.rules[i]) : i \in DOMAIN c.rules}
           = {WithDefaults(d.rules[i]) : i \in DOMAIN d.rules}
  PROVE  Normalize(c) = Normalize(d)
<1> DEFINE C == Normalize(c)
           D == Normalize(d)
<1>1. C \in Contracts /\ D \in Contracts
  BY NormalizeRearranges
<1>2. C.rules \in Seq(Rules) /\ D.rules \in Seq(Rules)
  BY <1>1 DEF Contracts
<1>3. Ascending(C.rules) /\ Ascending(D.rules)
  BY NormalizeKeepsValid DEF Ascending
<1>4. RulesIn(C.rules) = RulesIn(D.rules)
  BY RulesNormalized
<1>5. C.ir = D.ir /\ C.id = D.id /\ C.version = D.version /\ C.input = D.input
  BY NormalizeRearranges
<1> HIDE DEF C, D
<1>6. C.rules = D.rules
  BY <1>2, <1>3, <1>4, OneSortedSequence
<1>7. C = D
  BY <1>1, <1>5, <1>6 DEF Contracts
<1> QED
  BY <1>7 DEF C, D

\* Normalizing twice is normalizing once.
THEOREM NormalizeIdempotent ==
  ASSUME NEW c \in Contracts, Validate(c)
  PROVE  Normalize(Normalize(c)) = Normalize(c)
<1> DEFINE C == Normalize(c)
<1>1. C \in Contracts /\ Validate(C)
  BY NormalizeKeepsValid
<1>2. \A r \in Rules : WithDefaults(WithDefaults(r)) = WithDefaults(r)
  <2>1. ASSUME NEW r \in Rules
        PROVE  WithDefaults(WithDefaults(r)) = WithDefaults(r)
    <3> DEFINE d == WithDefaults(r)
    <3>1. d \in Rules /\ d.version = RuleVersion(r) /\ d.severity = Severity(r)
      BY Defaults
    <3>2. RuleVersion(r) # "" /\ Severity(r) # ""
      BY DEF RuleVersion, Severity
    <3> HIDE DEF d
    <3>3. RuleVersion(d) = d.version /\ Severity(d) = d.severity
      BY <3>1, <3>2 DEF RuleVersion, Severity
    <3>4. [d EXCEPT !.version = d.version, !.severity = d.severity] = d
      BY <3>1 DEF Rules
    <3>5. WithDefaults(d) = d
      BY <3>3, <3>4 DEF WithDefaults
    <3> QED
      BY <3>5 DEF d
  <2> QED
    BY <2>1
<1>3. C.rules \in Seq(Rules) /\ c.rules \in Seq(Rules)
  BY <1>1 DEF Contracts
<1>4. RulesIn(C.rules) = {WithDefaults(c.rules[i]) : i \in DOMAIN c.rules}
  BY RulesNormalized
<1> HIDE DEF C
<1>5. \A i \in DOMAIN C.rules : WithDefaults(C.rules[i]) = C.rules[i]
  <2>1. ASSUME NEW i \in DOMAIN C.rules
        PROVE  WithDefaults(C.rules[i]) = C.rules[i]
    <3>1. PICK j \in DOMAIN c.rules : C.rules[i] = WithDefaults(c.rules[j])
      BY <1>4 DEF RulesIn
    <3>2. c.rules[j] \in Rules
      BY <1>3
    <3> QED
      BY <1>2, <3>1, <3>2
  <2> QED
    BY <2>1
<1>6. {WithDefaults(C.rules[i]) : i \in DOMAIN C.rules} = {WithDefaults(c.rules[i]) : i \in DOMAIN c.rules}
  BY <1>4, <1>5 DEF RulesIn
<1>7. C.ir = c.ir /\ C.id = c.id /\ C.version = c.version /\ C.input = c.input
  BY NormalizeRearranges DEF C
<1>8. Normalize(C) = Normalize(c)
  BY <1>1, <1>6, <1>7, NormalizeCanonical
<1> QED
  BY <1>8 DEF C

(***************************************************************************)
(* Keys                                                                    *)
(***************************************************************************)
\* Two values with one key are both missing or both not.
LEMMA KeyOfMissing ==
  ASSUME NEW x, NEW y, Comparable(x), EqualJSON(x, y)
  PROVE  Comparable(y)
<1>1. x.t \notin {"absent", "nil"} /\ Key(x) = Key(y) /\ Marshals(y)
  BY DEF Comparable, Missing, EqualJSON
<1>2. Key(x).t # "nil"
  BY <1>1 DEF Key, V
<1>3. y.t # "nil"
  BY <1>1, <1>2 DEF Key, V
<1>4. y.t # "absent"
  BY <1>1, <1>2 DEF Key, V
<1> QED
  BY <1>1, <1>3, <1>4 DEF Comparable, Missing

\* What a rule takes from a record has an encoding and is not null.
LEMMA KeysEncoded ==
  ASSUME NEW r, NEW o, NEW key \in KeysOf(r, o)
  PROVE  key.t \notin {"absent", "nil", "nan", "inf"}
<1> DEFINE x == Lookup(o, r.path)
<1>1. Comparable(x) /\ key = Key(x)
  BY DEF KeysOf
<1> HIDE DEF x
<1>2. x.t \notin {"absent", "nil", "nan", "inf"}
  BY <1>1 DEF Comparable, Missing, Marshals
<1> QED
  BY <1>1, <1>2 DEF Key, V

LEMMA KeysFew ==
  ASSUME NEW r, NEW o
  PROVE  IsFiniteSet(KeysOf(r, o)) /\ Cardinality(KeysOf(r, o)) <= 1
<1>1. KeysOf(r, o) = {} \/ KeysOf(r, o) = {Key(Lookup(o, r.path))}
  BY DEF KeysOf
<1>2. \A key : IsFiniteSet({key}) /\ Cardinality({key}) = 1
  BY FS_Singleton
<1>3. IsFiniteSet({}) /\ Cardinality({}) = 0
  BY FS_EmptySet
<1>4. CASE KeysOf(r, o) = {}
  BY <1>3, <1>4
<1>5. CASE KeysOf(r, o) = {Key(Lookup(o, r.path))}
  <2>1. IsFiniteSet(KeysOf(r, o)) /\ Cardinality(KeysOf(r, o)) = 1
    BY <1>2, <1>5, Zenon
  <2> QED
    BY <2>1
<1> QED
  BY <1>1, <1>4, <1>5

(***************************************************************************)
(* Rules of different ids do not see each other's keys                       *)
(***************************************************************************)
LEMMA OwnKeys ==
  ASSUME NEW rs \in Seq(Rules), IdsUnique(rs), NEW s, NEW o, NEW i \in DOMAIN rs
  PROVE  /\ SeenBy(rs, s, i, o) = s[rs[i].id]
         /\ Remember(rs, s, o)[rs[i].id] = s[rs[i].id] \cup KeysOf(rs[i], o)
<1>1. {k \in DOMAIN rs : k < i /\ rs[k].id = rs[i].id} = {}
  <2>1. i \in Nat /\ ~(i < i)
    OBVIOUS
  <2> QED
    BY <2>1 DEF IdsUnique
<1>2. {j \in DOMAIN rs : rs[j].id = rs[i].id} = {i}
  BY DEF IdsUnique
<1>3. SeenBy(rs, s, i, o) = s[rs[i].id]
  BY <1>1 DEF SeenBy
<1>4. rs[i].id \in RuleIds(rs)
  BY DEF RuleIds
<1>5. UNION {KeysOf(rs[j], o) : j \in {k \in DOMAIN rs : rs[k].id = rs[i].id}} = KeysOf(rs[i], o)
  BY <1>2
<1>6. Remember(rs, s, o)[rs[i].id] = s[rs[i].id] \cup KeysOf(rs[i], o)
  BY <1>4, <1>5 DEF Remember
<1> QED
  BY <1>3, <1>6

(***************************************************************************)
(* Events: those of a contract that Validate admits are complete             *)
(***************************************************************************)
LEMMA MakeEventValid ==
  ASSUME NEW c \in Contracts, Validate(c), NEW i \in DOMAIN c.rules, NEW line \in Nat \ {0}
  PROVE  MakeEvent(c, c.rules[i], line) \in Event /\ EventValid(MakeEvent(c, c.rules[i], line))
<1> DEFINE r == c.rules[i]
<1>1. c.id \in STRING /\ c.version \in STRING /\ c.rules \in Seq(Rules)
  BY DEF Contracts
<1>0. r \in Rules
  BY <1>1
<1>2. r.id \in Nat
  BY <1>0 DEF Rules
<1>3. c.id # "" /\ c.version # "" /\ RuleValid(r)
  BY DEF Validate
<1>4. r.id # 0 /\ r.action \in Actions
  BY <1>3 DEF RuleValid
<1>5. RuleVersion(r) = "1"
  BY <1>3 DEF RuleValid, RuleVersion
<1>6. Severity(r) \in {"warning", "error"}
  BY <1>3 DEF RuleValid, Severity
<1> HIDE DEF r
<1>7. MakeEvent(c, r, line) \in Event
  BY <1>1, <1>2, <1>4, <1>5, <1>6 DEF MakeEvent, Event
<1>8. EventValid(MakeEvent(c, r, line))
  <2> DEFINE e == MakeEvent(c, r, line)
  <2>1. e.contract # "" /\ e.version # "" /\ e.rule # 0 /\ e.line >= 1
    <3>1. line >= 1 /\ e.line = line
      BY DEF MakeEvent
    <3>2. e.contract = c.id /\ e.version = c.version /\ e.rule = r.id
      BY DEF MakeEvent
    <3> QED
      BY <1>3, <1>4, <3>1, <3>2
  <2>2. e.status \in {"warning", "breach"}
    BY DEF MakeEvent
  <2>3. e.ruleVersion # "" /\ e.severity # "" /\ e.action # ""
    BY <1>4, <1>5, <1>6 DEF MakeEvent, Actions
  <2> QED
    BY <2>1, <2>2, <2>3 DEF EventValid
<1> QED
  BY <1>7, <1>8 DEF r

LEMMA ParseEventValid ==
  ASSUME NEW c \in Contracts, Validate(c), NEW line \in Nat \ {0}
  PROVE  ParseEvent(c, line) \in Event /\ EventValid(ParseEvent(c, line))
<1>1. c.id \in STRING /\ c.version \in STRING
  BY DEF Contracts
<1>2. c.id # "" /\ c.version # ""
  BY DEF Validate
<1>3. ParseEvent(c, line) \in Event
  BY <1>1 DEF ParseEvent, Event, InputParse, Actions
<1>4. EventValid(ParseEvent(c, line))
  <2> DEFINE e == ParseEvent(c, line)
  <2>1. e.line >= 1 /\ e.contract # "" /\ e.version # ""
    <3>1. line >= 1 /\ e.line = line
      BY DEF ParseEvent
    <3>2. e.contract = c.id /\ e.version = c.version
      BY DEF ParseEvent
    <3> QED
      BY <1>2, <3>1, <3>2
  <2>2. e.rule # 0 /\ e.status \in {"warning", "breach"}
    BY DEF ParseEvent, InputParse
  <2>3. e.ruleVersion # "" /\ e.severity # "" /\ e.action # ""
    BY DEF ParseEvent
  <2> QED
    BY <2>1, <2>2, <2>3 DEF EventValid
<1> QED
  BY <1>3, <1>4

(***************************************************************************)
(* Counters                                                                *)
(***************************************************************************)
Summary == [cleared : Nat, warnings : Nat, quarantined : Nat, breached : Nat, halted : BOOLEAN]

\* What a routed record makes of the summary.
Counting(s, outcome, halted) == [CountRecord(s, outcome) EXCEPT !.halted = halted]

\* It adds one to the counter of its outcome.
LEMMA RecordCounted ==
  ASSUME NEW s \in Summary, NEW outcome \in {"cleared", "quarantined", "breached"},
         NEW halted, NEW t, t = Counting(s, outcome, halted)
  PROVE  /\ t.cleared = IF outcome = "cleared" THEN s.cleared + 1 ELSE s.cleared
         /\ t.quarantined = IF outcome = "quarantined" THEN s.quarantined + 1 ELSE s.quarantined
         /\ t.breached = IF outcome = "breached" THEN s.breached + 1 ELSE s.breached
         /\ t.warnings = s.warnings /\ t.halted = halted
         /\ s.cleared \in Nat /\ s.quarantined \in Nat /\ s.breached \in Nat
<1>1. s.cleared \in Nat /\ s.quarantined \in Nat /\ s.breached \in Nat
  BY DEF Summary
<1> QED
  BY <1>1 DEF Summary, CountRecord, Counting

LEMMA SummaryStays ==
  ASSUME NEW s \in Summary
  PROVE  /\ \A r : CountWarning(s, r) \in Summary /\ CountFinal(s, r) \in Summary
         /\ \A outcome \in {"cleared", "quarantined", "breached"}, halted \in BOOLEAN :
              Counting(s, outcome, halted) \in Summary
<1>1. \A r : CountWarning(s, r) \in Summary /\ CountFinal(s, r) \in Summary
  BY DEF Summary, CountWarning, CountFinal
<1>2. ASSUME NEW outcome \in {"cleared", "quarantined", "breached"}, NEW halted \in BOOLEAN
      PROVE  Counting(s, outcome, halted) \in Summary
  <2>1. CountRecord(s, outcome) \in Summary
    BY DEF Summary, CountRecord
  <2> QED
    BY <2>1 DEF Counting, Summary
<1> QED
  BY <1>1, <1>2

(***************************************************************************)
(* Breaches                                                                *)
(***************************************************************************)
LEMMA NoHitsNoBreach == \A rs : ~HasBreach(rs, {})
BY DEF HasBreach, ActionsOf

LEMMA OneMoreHit ==
  ASSUME NEW rs, NEW hits, NEW i
  PROVE  HasBreach(rs, hits \cup {i}) <=> HasBreach(rs, hits) \/ rs[i].action # "warn"
BY DEF HasBreach, ActionsOf
=============================================================================
