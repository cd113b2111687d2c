---------------------------- MODULE NumbersProofs ----------------------------
(***************************************************************************)
(* What sensorpanel.c reads out of a text, for every text and every number *)
(* of digits, and that what it writes reads back as the same number.       *)
(***************************************************************************)
EXTENDS Numbers, WellFoundedInduction, TLAPS

\* Induction over a set: the library states it over an operator.
LEMMA SetInduction ==
    ASSUME NEW S, 0 \in S, \A n \in Nat : n \in S => n + 1 \in S
    PROVE  Nat \subseteq S
  <1> SUFFICES ASSUME ~(Nat \subseteq S) PROVE FALSE
    OBVIOUS
  <1> DEFINE R == {p \in Nat \X Nat : p[1] < p[2]}
             T == Nat \ S
  <1>1. IsWellFoundedOn(R, Nat)
    <2>1. R = OpToRel(<, Nat)
      BY DEF OpToRel
    <2> QED
      BY <2>1, NatLessThanWellFounded
  <1>2. T # {} /\ T \subseteq Nat
    OBVIOUS
  <1>3. PICK x \in T : \A y \in T : ~(<<y, x>> \in R)
    BY <1>1, <1>2, WFMin
  <1>4. x \in Nat /\ x # 0 /\ x - 1 \in Nat /\ x - 1 < x /\ (x - 1) + 1 = x
    BY <1>3
  <1>5. x - 1 \in T
    BY <1>3, <1>4
  <1>6. <<x - 1, x>> \in R
    BY <1>4
  <1> QED
    BY <1>3, <1>5, <1>6

----------------------------------------------------------------------------
(* Reading digits one by one.                                              *)

Digit(f, i) == IF i <= Len(f) THEN f[i] ELSE 0
Reads(v, w, f, n) == v = [i \in 0..n |-> IF i = 0 THEN w ELSE 10 * v[i - 1] + Digit(f, i)]

LEMMA ReadsOn ==
    ASSUME NEW v, NEW w, NEW f, NEW n \in Nat, Reads(v, w, f, n)
    PROVE  /\ v[0] = w
           /\ \A i \in 1..n : v[i] = 10 * v[i - 1] + Digit(f, i)
  <1>1. v = [i \in 0..n |-> IF i = 0 THEN w ELSE 10 * v[i - 1] + Digit(f, i)]
    BY DEF Reads
  <1>2. \A i \in 0..n : v[i] = IF i = 0 THEN w ELSE 10 * v[i - 1] + Digit(f, i)
    BY <1>1, Zenon
  <1>3. 0 \in 0..n /\ \A i \in 1..n : i \in 0..n /\ i # 0
    OBVIOUS
  <1> QED
    BY <1>2, <1>3, Zenon

\* There is such a function for every number of digits.
LEMMA ReadsExists ==
    ASSUME NEW w, NEW f, NEW n \in Nat
    PROVE  \E v : Reads(v, w, f, n)
  <1> DEFINE S == {m \in Nat : \E v : Reads(v, w, f, m)}
  <1>1. 0 \in S
    <2> DEFINE v == [i \in 0..0 |-> w]
    <2>1. \A i \in 0..0 : i = 0
      OBVIOUS
    <2>2. v = [i \in 0..0 |-> IF i = 0 THEN w ELSE 10 * v[i - 1] + Digit(f, i)]
      BY <2>1, Zenon
    <2>3. Reads(v, w, f, 0)
      BY <2>2, Zenon DEF Reads
    <2> QED
      BY <2>3
  <1>2. ASSUME NEW m \in Nat, m \in S PROVE m + 1 \in S
    <2>1. PICK v : Reads(v, w, f, m)
      BY <1>2
    <2>2. v[0] = w /\ \A i \in 1..m : v[i] = 10 * v[i - 1] + Digit(f, i)
      BY <2>1, ReadsOn
    <2> DEFINE u == [i \in 0..(m + 1) |-> IF i = m + 1 THEN 10 * v[m] + Digit(f, m + 1) ELSE v[i]]
    <2>3. ASSUME NEW i \in 0..(m + 1)
          PROVE  u[i] = IF i = 0 THEN w ELSE 10 * u[i - 1] + Digit(f, i)
      <3>1. CASE i = 0
        <4>1. i # m + 1
          BY <3>1
        <4> QED
          BY <2>2, <3>1, <4>1
      <3>2. CASE i = m + 1
        <4>1. i - 1 = m /\ i # 0 /\ m \in 0..(m + 1) /\ m # m + 1
          BY <3>2
        <4>2. u[m] = v[m]
          BY <4>1
        <4> QED
          BY <3>2, <4>1, <4>2
      <3>3. CASE i # 0 /\ i # m + 1
        <4>1. i \in 1..m /\ i - 1 \in 0..(m + 1) /\ i - 1 # m + 1
          BY <3>3
        <4>2. u[i] = v[i] /\ u[i - 1] = v[i - 1]
          BY <3>3, <4>1
        <4> QED
          BY <2>2, <3>3, <4>1, <4>2
      <3> QED
        BY <3>1, <3>2, <3>3
    <2>4. DOMAIN u = 0..(m + 1) /\ u = [i \in 0..(m + 1) |-> u[i]]
      OBVIOUS
    <2> HIDE DEF u
    <2>5. u = [i \in 0..(m + 1) |-> IF i = 0 THEN w ELSE 10 * u[i - 1] + Digit(f, i)]
      BY <2>3, <2>4, Zenon
    <2>6. Reads(u, w, f, m + 1)
      BY <2>5, Zenon DEF Reads
    <2> QED
      BY <2>6
  <1> HIDE DEF S
  <1>3. n \in S
    BY <1>1, <1>2, SetInduction
  <1> QED
    BY <1>3 DEF S

\* What parse_fixed returns.
LEMMA ParseIs ==
    ASSUME NEW d, NEW n \in Nat
    PROVE  \E v : Reads(v, d.whole, d.frac, n) /\ ParseFixed(d, n) = Signed(d.neg, v[n])
  <1> DEFINE u == CHOOSE v : Reads(v, d.whole, d.frac, n)
  <1>1. Reads(u, d.whole, d.frac, n)
    BY ReadsExists, Zenon
  <1>2. ParseFixed(d, n) = Signed(d.neg, u[n])
    BY Zenon DEF ParseFixed, Reads, Digit
  <1> QED
    BY <1>1, <1>2, Zenon

LEMMA NextNat == ASSUME NEW q \in Nat, NEW a \in 0..9 PROVE 10 * q + a \in Nat
  OBVIOUS

LEMMA ReadsNat ==
    ASSUME NEW v, NEW w \in Nat, NEW f \in Seq(0..9), NEW n \in Nat, Reads(v, w, f, n)
    PROVE  /\ \A i \in 1..n : Digit(f, i) \in 0..9
           /\ \A i \in 0..n : v[i] \in Nat
  <1>1. ASSUME NEW i \in 1..n PROVE Digit(f, i) \in 0..9
    BY DEF Digit
  <1>2. v[0] = w /\ \A i \in 1..n : v[i] = 10 * v[i - 1] + Digit(f, i)
    BY ReadsOn
  <1> DEFINE S == {m \in Nat : m <= n => v[m] \in Nat}
  <1>3. 0 \in S
    BY <1>2
  <1>4. ASSUME NEW m \in Nat, m \in S PROVE m + 1 \in S
    <2> SUFFICES ASSUME m + 1 <= n PROVE v[m + 1] \in Nat
      OBVIOUS
    <2>1. m <= n /\ m + 1 \in 1..n /\ (m + 1) - 1 = m
      OBVIOUS
    <2>2. v[m] \in Nat
      BY <1>4, <2>1
    <2>3. v[m + 1] = 10 * v[m] + Digit(f, m + 1) /\ Digit(f, m + 1) \in 0..9
      BY <1>1, <1>2, <2>1, Zenon
    <2> QED
      BY ONLY <2>2, <2>3, NextNat, Zenon
  <1> HIDE DEF S
  <1>5. Nat \subseteq S
    BY <1>3, <1>4, SetInduction
  <1>6. \A i \in 0..n : v[i] \in Nat
    BY <1>5 DEF S
  <1> QED
    BY <1>1, <1>6

LEMMA ReadsOne ==
    ASSUME NEW v, NEW w \in Nat, NEW f \in Seq(0..9), NEW n \in Nat, Reads(v, w, f, n),
           NEW i \in Nat, NEW j, j = i + 1, j <= n
    PROVE  \E a \in 0..9 : v[j] = 10 * v[i] + a
  <1>1. j \in 1..n /\ j - 1 = i
    OBVIOUS
  <1>2. \A m \in 1..n : v[m] = 10 * v[m - 1] + Digit(f, m)
    BY ReadsOn
  <1>3. v[j] = 10 * v[j - 1] + Digit(f, j)
    BY <1>1, <1>2, Zenon
  <1>4. \A m \in 1..n : Digit(f, m) \in 0..9
    BY ReadsNat
  <1>5. Digit(f, j) \in 0..9
    BY <1>1, <1>4, Zenon
  <1>6. v[j] = 10 * v[i] + Digit(f, j)
    BY <1>1, <1>3, Zenon
  <1> QED
    BY <1>5, <1>6, Zenon

LEMMA ReadsAgree ==
    ASSUME NEW v, NEW u, NEW w, NEW f, NEW n \in Nat, NEW m \in Nat, n <= m,
           Reads(v, w, f, n), Reads(u, w, f, m)
    PROVE  v[n] = u[n]
  <1>1. v[0] = w /\ \A i \in 1..n : v[i] = 10 * v[i - 1] + Digit(f, i)
    BY ReadsOn
  <1>2. u[0] = w /\ \A i \in 1..m : u[i] = 10 * u[i - 1] + Digit(f, i)
    BY ReadsOn
  <1> DEFINE S == {k \in Nat : k <= n => v[k] = u[k]}
  <1>3. 0 \in S
    BY <1>1, <1>2
  <1>4. ASSUME NEW k \in Nat, k \in S PROVE k + 1 \in S
    <2> SUFFICES ASSUME k + 1 <= n PROVE v[k + 1] = u[k + 1]
      OBVIOUS
    <2>1. k <= n /\ k + 1 \in 1..n /\ k + 1 \in 1..m /\ (k + 1) - 1 = k
      OBVIOUS
    <2>2. v[k] = u[k]
      BY <1>4, <2>1
    <2>3. v[k + 1] = 10 * v[k] + Digit(f, k + 1) /\ u[k + 1] = 10 * u[k] + Digit(f, k + 1)
      BY <1>1, <1>2, <2>1, Zenon
    <2> QED
      BY <2>2, <2>3, Zenon
  <1> HIDE DEF S
  <1>5. n \in S
    BY <1>3, <1>4, SetInduction
  <1> QED
    BY <1>5 DEF S

----------------------------------------------------------------------------
(* Cutting towards zero.                                                   *)

\* n is num / den, cut towards zero.
CutOf(num, den, n) ==
    /\ den * Magnitude(n) <= Magnitude(num)
    /\ Magnitude(num) < den * (Magnitude(n) + 1)
    /\ n # 0 => (n < 0 <=> num < 0)

LEMMA SignedIs ==
    ASSUME NEW neg \in BOOLEAN, NEW n \in Nat
    PROVE  /\ Signed(neg, n) \in Int /\ Magnitude(Signed(neg, n)) = n
           /\ n # 0 => (Signed(neg, n) < 0 <=> neg)
           /\ n = 0 => Signed(neg, n) = 0
  <1>1. CASE neg
    BY <1>1 DEF Signed, Magnitude
  <1>2. CASE ~neg
    BY <1>2 DEF Signed, Magnitude
  <1> QED
    BY <1>1, <1>2

\* Two numbers of one sign.
LEMMA SignedCut ==
    ASSUME NEW neg \in BOOLEAN, NEW n \in Nat, NEW num \in Nat, NEW den \in Nat \ {0},
           den * n <= num, num < den * (n + 1)
    PROVE  CutOf(Signed(neg, num), den, Signed(neg, n))
  <1>1. Magnitude(Signed(neg, n)) = n /\ Magnitude(Signed(neg, num)) = num
    BY SignedIs
  <1>2. ASSUME Signed(neg, n) # 0 PROVE Signed(neg, n) < 0 <=> Signed(neg, num) < 0
    <2>1. n # 0
      BY <1>2, SignedIs
    <2>2. num # 0
      <3>1. den * n > 0
        BY <2>1
      <3> QED
        BY <3>1
    <2> QED
      BY <2>1, <2>2, SignedIs
  <1> QED
    BY <1>1, <1>2 DEF CutOf

LEMMA ParseInts ==
    ASSUME NEW d \in TextForm, NEW n \in Nat
    PROVE  ParseFixed(d, n) \in Int /\ ParseInt(d) \in Int
  <1>1. d.neg \in BOOLEAN /\ d.whole \in Nat /\ d.frac \in Seq(0..9)
    BY DEF TextForm
  <1>2. PICK v : Reads(v, d.whole, d.frac, n) /\ ParseFixed(d, n) = Signed(d.neg, v[n])
    BY ParseIs
  <1>3. v[n] \in Nat
    BY <1>1, <1>2, ReadsNat
  <1> QED
    BY <1>1, <1>2, <1>3, SignedIs DEF ParseInt

LEMMA ReadsTwo ==
    ASSUME NEW w \in Nat, NEW f \in Seq(0..9), NEW n \in Nat
    PROVE  \A v : Reads(v, w, f, n + 2) =>
             \E a \in 0..9, b \in 0..9 : v[n + 2] = 10 * (10 * v[n] + a) + b
  <1>1. PICK k : k = n + 2
    OBVIOUS
  <1> SUFFICES ASSUME NEW v, Reads(v, w, f, n + 2)
               PROVE  \E a \in 0..9, b \in 0..9 : v[n + 2] = 10 * (10 * v[n] + a) + b
    OBVIOUS
  <1>2. Reads(v, w, f, k)
    BY <1>1
  <1>3. k \in Nat
    BY <1>1
  <1>4. \A i \in Nat : \A j : j = i + 1 /\ j <= k => \E a \in 0..9 : v[j] = 10 * v[i] + a
    BY ONLY <1>3, <1>2, w \in Nat, f \in Seq(0..9), ReadsOne
  <1>5. PICK j : j = n + 1
    OBVIOUS
  <1>6. j \in Nat /\ k = j + 1 /\ j <= k /\ k <= k
    BY <1>1, <1>5
  <1>7. PICK a \in 0..9 : v[j] = 10 * v[n] + a
    BY ONLY <1>4, <1>5, <1>6, Zenon
  <1>8. PICK b \in 0..9 : v[k] = 10 * v[j] + b
    BY ONLY <1>4, <1>6, Zenon
  <1>9. v[k] = 10 * (10 * v[n] + a) + b
    BY ONLY <1>7, <1>8, Zenon
  <1> QED
    BY ONLY <1>1, <1>9, Zenon

LEMMA ReadsThree ==
    ASSUME NEW w \in Nat, NEW f \in Seq(0..9), NEW n \in Nat
    PROVE  \A v : Reads(v, w, f, n + 3) =>
             \E a \in 0..9, b \in 0..9, c \in 0..9 : v[n + 3] = 10 * (10 * (10 * v[n] + a) + b) + c
  <1>1. PICK k : k = n + 3
    OBVIOUS
  <1> SUFFICES ASSUME NEW v, Reads(v, w, f, n + 3)
               PROVE  \E a \in 0..9, b \in 0..9, c \in 0..9 : v[n + 3] = 10 * (10 * (10 * v[n] + a) + b) + c
    OBVIOUS
  <1>2. Reads(v, w, f, k)
    BY <1>1
  <1>3. k \in Nat
    BY <1>1
  <1>4. \A i \in Nat : \A j : j = i + 1 /\ j <= k => \E a \in 0..9 : v[j] = 10 * v[i] + a
    BY ONLY <1>3, <1>2, w \in Nat, f \in Seq(0..9), ReadsOne
  <1>5. PICK j : j = n + 1
    OBVIOUS
  <1>6. PICK l : l = n + 2
    OBVIOUS
  <1>7. j \in Nat /\ l \in Nat /\ l = j + 1 /\ k = l + 1 /\ j <= k /\ l <= k /\ k <= k
    BY <1>1, <1>5, <1>6
  <1>8. PICK a \in 0..9 : v[j] = 10 * v[n] + a
    BY ONLY <1>4, <1>5, <1>7, Zenon
  <1>9. PICK b \in 0..9 : v[l] = 10 * v[j] + b
    BY ONLY <1>4, <1>7, Zenon
  <1>10. PICK c \in 0..9 : v[k] = 10 * v[l] + c
    BY ONLY <1>4, <1>7, Zenon
  <1>11. v[k] = 10 * (10 * (10 * v[n] + a) + b) + c
    BY ONLY <1>8, <1>9, <1>10, Zenon
  <1> QED
    BY ONLY <1>1, <1>11, Zenon

LEMMA TwoCut ==
    ASSUME NEW neg \in BOOLEAN, NEW w \in Nat, NEW f \in Seq(0..9), NEW n \in Nat,
           NEW u, Reads(u, w, f, n + 2), NEW q \in Nat, q = u[n], NEW den, den = 100
    PROVE  CutOf(Signed(neg, u[n + 2]), den, Signed(neg, q))
  <1>1. \A v : Reads(v, w, f, n + 2) =>
          \E a \in 0..9, b \in 0..9 : v[n + 2] = 10 * (10 * v[n] + a) + b
    BY ONLY w \in Nat, f \in Seq(0..9), n \in Nat, ReadsTwo, Zenon
  <1>2. PICK a \in 0..9, b \in 0..9 : u[n + 2] = 10 * (10 * u[n] + a) + b
    BY ONLY <1>1, Reads(u, w, f, n + 2), Zenon
  <1>3. PICK num : num = u[n + 2]
    OBVIOUS
  <1>4. num = 10 * (10 * q + a) + b
    BY ONLY <1>2, <1>3, q = u[n], Zenon
  <1>5. 100 * q <= num /\ num < 100 * (q + 1) /\ num \in Nat
    BY ONLY <1>4, q \in Nat
  <1>6. den \in Nat \ {0} /\ den * q <= num /\ num < den * (q + 1)
    BY ONLY <1>5, den = 100
  <1>7. CutOf(Signed(neg, num), den, Signed(neg, q))
    BY ONLY <1>5, <1>6, neg \in BOOLEAN, q \in Nat, SignedCut
  <1> QED
    BY ONLY <1>3, <1>7, Zenon

LEMMA ThreeCut ==
    ASSUME NEW neg \in BOOLEAN, NEW w \in Nat, NEW f \in Seq(0..9), NEW n \in Nat,
           NEW u, Reads(u, w, f, n + 3), NEW q \in Nat, q = u[n], NEW den, den = 10 * 100
    PROVE  CutOf(Signed(neg, u[n + 3]), den, Signed(neg, q))
  <1>1. \A v : Reads(v, w, f, n + 3) =>
          \E a \in 0..9, b \in 0..9, c \in 0..9 : v[n + 3] = 10 * (10 * (10 * v[n] + a) + b) + c
    BY ONLY w \in Nat, f \in Seq(0..9), n \in Nat, ReadsThree, Zenon
  <1>2. PICK a \in 0..9, b \in 0..9, c \in 0..9 : u[n + 3] = 10 * (10 * (10 * u[n] + a) + b) + c
    BY ONLY <1>1, Reads(u, w, f, n + 3), Zenon
  <1>3. PICK num : num = u[n + 3]
    OBVIOUS
  <1>4. num = 10 * (10 * (10 * q + a) + b) + c
    BY ONLY <1>2, <1>3, q = u[n], Zenon
  <1>5. 1000 * q <= num /\ num < 1000 * (q + 1) /\ num \in Nat
    BY ONLY <1>4, q \in Nat
  <1>6. den \in Nat \ {0} /\ den * q <= num /\ num < den * (q + 1)
    BY ONLY <1>5, den = 10 * 100
  <1>7. CutOf(Signed(neg, num), den, Signed(neg, q))
    BY ONLY <1>5, <1>6, neg \in BOOLEAN, q \in Nat, SignedCut
  <1> QED
    BY ONLY <1>3, <1>7, Zenon

\* Fewer digits are a cut of more: two fewer, and three.
LEMMA FewerDigits ==
    ASSUME NEW d \in TextForm, NEW n \in Nat
    PROVE  /\ CutOf(ParseFixed(d, n + 2), 100, ParseFixed(d, n))
           /\ CutOf(ParseFixed(d, n + 3), 1000, ParseFixed(d, n))
  <1>1. PICK neg, w, f : neg = d.neg /\ w = d.whole /\ f = d.frac
    OBVIOUS
  <1>2. neg \in BOOLEAN /\ w \in Nat /\ f \in Seq(0..9)
    BY <1>1 DEF TextForm
  <1>3. \A m \in Nat : \E v : Reads(v, w, f, m) /\ ParseFixed(d, m) = Signed(neg, v[m])
    BY <1>1, ParseIs, Zenon
  <1>4. PICK v : Reads(v, w, f, n) /\ ParseFixed(d, n) = Signed(neg, v[n])
    BY <1>3
  <1>5. PICK q : q = v[n]
    OBVIOUS
  <1>6. q \in Nat
    <2>1. n \in 0..n
      OBVIOUS
    <2> QED
      BY <1>2, <1>4, <1>5, <2>1, ReadsNat, Zenon
  <1>7. \A k \in Nat : n <= k => \A u : Reads(u, w, f, k) => u[n] = q
    BY <1>4, <1>5, ReadsAgree
  <1>8. CutOf(ParseFixed(d, n + 2), 100, ParseFixed(d, n))
    <2>1. PICK den : den = 100
      OBVIOUS
    <2>2. n + 2 \in Nat /\ n <= n + 2
      OBVIOUS
    <2>3. PICK u : Reads(u, w, f, n + 2) /\ ParseFixed(d, n + 2) = Signed(neg, u[n + 2])
      BY ONLY <1>3, <2>2, Zenon
    <2>4. q = u[n]
      BY ONLY <1>7, <2>2, <2>3, Zenon
    <2>5. CutOf(Signed(neg, u[n + 2]), den, Signed(neg, q))
      BY <1>2, <1>6, <2>1, <2>3, <2>4, TwoCut, Zenon
    <2>6. CutOf(ParseFixed(d, n + 2), den, ParseFixed(d, n))
      BY ONLY <1>4, <1>5, <2>3, <2>5, Zenon
    <2>7. den = 100
      BY ONLY <2>1
    <2> QED
      BY ONLY <2>6, <2>7
  <1>9. CutOf(ParseFixed(d, n + 3), 1000, ParseFixed(d, n))
    <2>1. PICK den : den = 10 * 100
      OBVIOUS
    <2>2. n + 3 \in Nat /\ n <= n + 3
      OBVIOUS
    <2>3. PICK u : Reads(u, w, f, n + 3) /\ ParseFixed(d, n + 3) = Signed(neg, u[n + 3])
      BY ONLY <1>3, <2>2, Zenon
    <2>4. q = u[n]
      BY ONLY <1>7, <2>2, <2>3, Zenon
    <2>5. CutOf(Signed(neg, u[n + 3]), den, Signed(neg, q))
      BY <1>2, <1>6, <2>1, <2>3, <2>4, ThreeCut, Zenon
    <2>6. CutOf(ParseFixed(d, n + 3), den, ParseFixed(d, n))
      BY ONLY <1>4, <1>5, <2>3, <2>5, Zenon
    <2>7. den = 1000
      BY ONLY <2>1
    <2> QED
      BY ONLY <2>6, <2>7
  <1> QED
    BY <1>8, <1>9

----------------------------------------------------------------------------
(* Division, and what is written.                                          *)

LEMMA DivBounds ==
    ASSUME NEW a \in Nat, NEW b \in Nat, b > 0
    PROVE  /\ a \div b \in Nat
           /\ b * (a \div b) <= a
           /\ a < b * (a \div b) + b
  BY SMT

LEMMA Distributes == ASSUME NEW b \in Nat, NEW q \in Nat PROVE b * (q + 1) = b * q + b
  OBVIOUS

LEMMA CDivCuts ==
    ASSUME NEW a \in Int, NEW b \in Nat \ {0}
    PROVE  CDiv(a, b) \in Int /\ CutOf(a, b, CDiv(a, b))
  <1>1. PICK m : m = Magnitude(a)
    OBVIOUS
  <1>2. m \in Nat /\ a = Signed(a < 0, m) /\ (a < 0) \in BOOLEAN
    BY <1>1 DEF Magnitude, Signed
  <1>3. PICK q : q = m \div b
    OBVIOUS
  <1>4. q \in Nat /\ b * q <= m /\ m < b * (q + 1)
    BY <1>2, <1>3, DivBounds, Distributes
  <1>5. CDiv(a, b) = Signed(a < 0, q)
    BY <1>1, <1>3 DEF CDiv, Magnitude, Signed
  <1>6. CutOf(Signed(a < 0, m), b, Signed(a < 0, q))
    BY <1>2, <1>4, SignedCut
  <1> QED
    BY <1>2, <1>4, <1>5, <1>6, SignedIs

LEMMA Tens == 10^0 = 1 /\ 10^1 = 10 /\ 10^2 = 100 /\ 10^3 = 1000
  OBVIOUS

\* The digits of a number below its whole part.
LEMMA OneDigit ==
    ASSUME NEW m \in Nat
    PROVE  m \div 10 \in Nat /\ m % 10 \in 0..9 /\ 10 * (m \div 10) + (m % 10) = m
  OBVIOUS

LEMMA DivTwice ==
    ASSUME NEW m \in Nat
    PROVE  (m \div 10) \div 10 = m \div 100 /\ (m \div 100) \div 10 = m \div 1000
           /\ m \div 1 = m
  OBVIOUS


\* What is written with up to three decimals, and no sign, reads back.
LEMMA UnsignedReads ==
    ASSUME NEW m \in Nat, NEW k \in 1..3, NEW v,
           Reads(v, m \div 10^k, Fraction(m, k), k)
    PROVE  Len(Fraction(m, k)) = k /\ v[k] = m
  <1>1. v[0] = m \div 10^k /\ \A i \in 1..k : v[i] = 10 * v[i - 1] + Digit(Fraction(m, k), i)
    BY ReadsOn
  <1>2. \A i \in 1..k : Fraction(m, k)[i] = (m \div 10^(k - i)) % 10
    BY DEF Fraction
  <1>3. Len(Fraction(m, k)) = k
    BY DEF Fraction
  <1>4. \A i \in 1..k : i <= k
    OBVIOUS
  <1>5. \A i \in 1..k : v[i] = 10 * v[i - 1] + ((m \div 10^(k - i)) % 10)
    BY <1>1, <1>2, <1>3, <1>4, Zenon DEF Digit
  <1>6. m \div 10 \in Nat /\ m \div 100 \in Nat /\ m \div 1000 \in Nat
    OBVIOUS
  <1>7. /\ 10 * (m \div 10) + (m % 10) = m
        /\ 10 * (m \div 100) + ((m \div 10) % 10) = m \div 10
        /\ 10 * (m \div 1000) + ((m \div 100) % 10) = m \div 100
    BY <1>6, OneDigit, DivTwice
  <1>8. 10^0 = 1
    BY Tens
  <1>9. m \div 1 = m
    BY DivTwice
  <1>10. CASE k = 1
    <2>1. 1 \in 1..k
      BY <1>10
    <2>2. v[0] = m \div 10
      BY ONLY <1>1, <1>10, Tens
    <2>3. v[1] = 10 * v[0] + (m % 10)
      <3>1. v[1] = 10 * v[1 - 1] + ((m \div 10^(k - 1)) % 10)
        BY ONLY <1>5, <2>1, Zenon
      <3>2. 1 - 1 = 0 /\ k - 1 = 0
        BY ONLY <1>10
      <3>3. m \div 10^0 = m
        BY ONLY <1>8, <1>9, Zenon
      <3>4. 10^(k - 1) = 10^0
        BY ONLY <3>2, Zenon
      <3> QED
        BY ONLY <3>1, <3>2, <3>3, <3>4, Zenon
    <2>4. v[1] = m
      BY ONLY <1>7, <2>2, <2>3, Zenon
    <2> QED
      BY <1>3, <1>10, <2>4, Zenon
  <1>11. CASE k = 2
    <2>1. 1 \in 1..k /\ 2 \in 1..k
      BY <1>11
    <2>2. v[0] = m \div 100
      BY ONLY <1>1, <1>11, Tens
    <2>3. v[1] = 10 * v[0] + ((m \div 10) % 10)
      <3>1. v[1] = 10 * v[1 - 1] + ((m \div 10^(k - 1)) % 10)
        BY ONLY <1>5, <2>1, Zenon
      <3>2. 1 - 1 = 0 /\ k - 1 = 1
        BY ONLY <1>11
      <3>3. m \div 10^1 = m \div 10
        BY Tens, DivTwice, Zenon
      <3>4. 10^(k - 1) = 10^1
        BY ONLY <3>2, Zenon
      <3> QED
        BY ONLY <3>1, <3>2, <3>3, <3>4, Zenon
    <2>4. v[2] = 10 * v[1] + (m % 10)
      <3>1. v[2] = 10 * v[2 - 1] + ((m \div 10^(k - 2)) % 10)
        BY ONLY <1>5, <2>1, Zenon
      <3>2. 2 - 1 = 1 /\ k - 2 = 0
        BY ONLY <1>11
      <3>3. m \div 10^0 = m
        BY ONLY <1>8, <1>9, Zenon
      <3>4. 10^(k - 2) = 10^0
        BY ONLY <3>2, Zenon
      <3> QED
        BY ONLY <3>1, <3>2, <3>3, <3>4, Zenon
    <2>5. v[2] = m
      <3>1. v[1] = m \div 10
        BY ONLY <1>7, <2>2, <2>3, Zenon
      <3> QED
        BY ONLY <1>7, <2>4, <3>1, Zenon
    <2> QED
      BY <1>3, <1>11, <2>5, Zenon
  <1>12. CASE k = 3
    <2>0. PICK t : t = m \div 1000
      OBVIOUS
    <2>1. 1 \in 1..k /\ 2 \in 1..k /\ 3 \in 1..k
      BY <1>12
    <2>2. v[0] = t
      BY ONLY <1>1, <1>12, <2>0, Tens
    <2>3. v[1] = 10 * v[0] + ((m \div 100) % 10)
      <3>1. v[1] = 10 * v[1 - 1] + ((m \div 10^(k - 1)) % 10)
        BY ONLY <1>5, <2>1, Zenon
      <3>2. 1 - 1 = 0 /\ k - 1 = 2
        BY ONLY <1>12
      <3>3. m \div 10^2 = m \div 100
        BY Tens, DivTwice, Zenon
      <3>4. 10^(k - 1) = 10^2
        BY ONLY <3>2, Zenon
      <3> QED
        BY ONLY <3>1, <3>2, <3>3, <3>4, Zenon
    <2>4. v[2] = 10 * v[1] + ((m \div 10) % 10)
      <3>1. v[2] = 10 * v[2 - 1] + ((m \div 10^(k - 2)) % 10)
        BY ONLY <1>5, <2>1, Zenon
      <3>2. 2 - 1 = 1 /\ k - 2 = 1
        BY ONLY <1>12
      <3>3. m \div 10^1 = m \div 10
        BY Tens, DivTwice, Zenon
      <3>4. 10^(k - 2) = 10^1
        BY ONLY <3>2, Zenon
      <3> QED
        BY ONLY <3>1, <3>2, <3>3, <3>4, Zenon
    <2>5. v[3] = 10 * v[2] + (m % 10)
      <3>1. v[3] = 10 * v[3 - 1] + ((m \div 10^(k - 3)) % 10)
        BY ONLY <1>5, <2>1, Zenon
      <3>2. 3 - 1 = 2 /\ k - 3 = 0
        BY ONLY <1>12
      <3>3. m \div 10^0 = m
        BY ONLY <1>8, <1>9, Zenon
      <3>4. 10^(k - 3) = 10^0
        BY ONLY <3>2, Zenon
      <3> QED
        BY ONLY <3>1, <3>2, <3>3, <3>4, Zenon
    <2>6. v[3] = m
      <3>1. v[1] = m \div 100
        <4>1. v[1] = 10 * t + ((m \div 100) % 10)
          BY ONLY <2>2, <2>3, Zenon
        <4>2. 10 * t + ((m \div 100) % 10) = m \div 100
          BY ONLY <1>7, <2>0
        <4> QED
          BY ONLY <4>1, <4>2, Zenon
      <3>2. v[2] = m \div 10
        BY ONLY <1>7, <2>4, <3>1, Zenon
      <3> QED
        BY ONLY <1>7, <2>5, <3>2, Zenon
    <2> QED
      BY <1>3, <1>12, <2>6, Zenon
  <1> QED
    BY <1>10, <1>11, <1>12

LEMMA UnsignedText ==
    ASSUME NEW text, NEW w, NEW f, NEW neg, text = [neg |-> neg, whole |-> w, frac |-> f]
    PROVE  /\ [text EXCEPT !.neg = FALSE].whole = w /\ [text EXCEPT !.neg = FALSE].frac = f
           /\ [text EXCEPT !.neg = FALSE].neg = FALSE
  OBVIOUS

\* A number that fmt_fixed writes with one, two or three decimals is the number that
\* its text says, with that many digits and the sign.
THEOREM FormatReads ==
    ASSUME NEW value \in Int, NEW k \in 1..3
    PROVE  LET text == FmtFixed(value, k) IN
           /\ Len(text.frac) = k
           /\ Signed(text.neg, ParseFixed([text EXCEPT !.neg = FALSE], k)) = value
  <1> DEFINE text == FmtFixed(value, k)
             plain == [text EXCEPT !.neg = FALSE]
  <1>1. PICK m : m = Magnitude(value)
    OBVIOUS
  <1>2. m \in Nat /\ Signed(value < 0, m) = value
    BY <1>1 DEF Magnitude, Signed
  <1>3. text = [neg |-> value < 0, whole |-> m \div 10^k, frac |-> Fraction(m, k)]
    BY <1>1 DEF FmtFixed
  <1>4. text.neg = (value < 0) /\ text.frac = Fraction(m, k)
    BY <1>3
  <1> HIDE DEF text
  <1>5. plain.whole = m \div 10^k /\ plain.frac = Fraction(m, k) /\ plain.neg = FALSE
    BY <1>3, UnsignedText
  <1> HIDE DEF plain
  <1>6. k \in Nat
    OBVIOUS
  <1>7. PICK v : Reads(v, m \div 10^k, Fraction(m, k), k) /\ ParseFixed(plain, k) = Signed(FALSE, v[k])
    BY <1>5, <1>6, ParseIs
  <1>8. Len(Fraction(m, k)) = k /\ v[k] = m
    BY <1>2, <1>7, UnsignedReads
  <1>9. ParseFixed(plain, k) = m
    BY <1>7, <1>8 DEF Signed
  <1>10. Len(text.frac) = k /\ Signed(text.neg, ParseFixed(plain, k)) = value
    BY <1>2, <1>4, <1>8, <1>9
  <1> QED
    BY <1>10 DEF text, plain
=============================================================================
