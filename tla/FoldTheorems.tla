------------------------------ MODULE FoldTheorems ------------------------------
(* Facts about numbers, recursive functions and the folds of the community      *)
(* modules that the other proofs use: quotients and remainders are unique, a    *)
(* function that a recursion over numbers or subsets defines exists, and a sum  *)
(* does not depend on the order in which its terms are taken.  What an          *)
(* induction would show is shown of a least number, or a smallest set, for      *)
(* which it fails.                                                              *)
EXTENDS Integers, FiniteSets, FiniteSetTheorems, WellFoundedInduction, TLAPS

\* Numbers have a least one among them.
LEMMA LeastOf ==
  ASSUME NEW S, S \subseteq Nat, S # {}
  PROVE  \E x \in S : \A y \in S : x <= y
<1>1. PICK x \in S : \A y \in S : ~(<<y, x>> \in OpToRel(<, Nat))
  BY WFMin, NatLessThanWellFounded
<1>2. \A y \in S : ~(y < x)
  BY <1>1 DEF OpToRel
<1> QED
  BY <1>2

\* Among finite sets there is one of least size.
LEMMA SmallestOf ==
  ASSUME NEW A, A # {}, \A s \in A : IsFiniteSet(s)
  PROVE  \E s \in A : \A t \in A : Cardinality(s) <= Cardinality(t)
<1> DEFINE sizes == {Cardinality(s) : s \in A}
<1>1. sizes \subseteq Nat /\ sizes # {}
  BY FS_CardinalityType
<1>2. PICK n \in sizes : \A m \in sizes : n <= m
  BY <1>1, LeastOf
<1> QED
  BY <1>2

--------------------------------------------------------------------------------
(* Division and remainders.                                                    *)

\* Quotient and remainder.
LEMMA DivMod ==
  ASSUME NEW a \in Nat, NEW b \in Nat \ {0}
  PROVE  /\ a \div b \in Nat /\ a % b \in 0..(b - 1)
         /\ a = b * (a \div b) + (a % b)
BY SMT

\* Products grow with a factor.
LEMMA TimesMonotone ==
  ASSUME NEW a \in Nat, NEW b \in Nat, NEW c \in Nat, a <= b
  PROVE  a * c <= b * c
BY SMT

\* Quotient and remainder are the only ones.
LEMMA DivUnique ==
  ASSUME NEW a \in Nat, NEW b \in Nat \ {0}, NEW q \in Nat, NEW r \in 0..(b - 1),
         a = q * b + r
  PROVE  a \div b = q /\ a % b = r
<1> DEFINE p == a \div b
           s == a % b
<1>1. p \in Nat /\ s \in 0..(b - 1) /\ a = b * p + s
  BY DivMod
<1> HIDE DEF p, s
<1>2. ASSUME p < q PROVE FALSE
  <2>1. (p + 1) * b <= q * b
    BY <1>1, <1>2, TimesMonotone
  <2>2. (p + 1) * b = b * p + b
    BY <1>1
  <2> QED
    BY <1>1, <2>1, <2>2
<1>3. ASSUME q < p PROVE FALSE
  <2>1. (q + 1) * b <= p * b
    BY <1>1, <1>3, TimesMonotone
  <2>2. (q + 1) * b = q * b + b /\ p * b = b * p
    BY <1>1
  <2> QED
    BY <1>1, <2>1, <2>2
<1>4. p = q
  BY <1>1, <1>2, <1>3
<1>5. b * p = q * b
  BY <1>1, <1>4
<1> QED
  BY <1>1, <1>4, <1>5 DEF p, s

\* The remainder is the only one for negative numbers too.
LEMMA Remainder ==
  ASSUME NEW a \in Int, NEW b \in Nat \ {0}
  PROVE  /\ a % b \in 0..(b - 1)
         /\ \E q \in Int : a = q * b + (a % b)
         /\ \A q \in Int, r \in 0..(b - 1) : a = q * b + r => r = a % b
<1> DEFINE p == a \div b
           s == a % b
<1>1. p \in Int /\ s \in 0..(b - 1) /\ a = b * p + s
  BY SMT
<1> HIDE DEF p, s
<1>2. b * p = p * b
  BY <1>1
<1>3. ASSUME NEW q \in Int, NEW r \in 0..(b - 1), a = q * b + r
      PROVE  r = s
  <2>1. ASSUME NEW m \in Int, NEW n \in Int, m < n PROVE m * b + b <= n * b
    <3> DEFINE d == n - m - 1
    <3>1. d \in Nat /\ n = m + 1 + d
      BY <2>1
    <3> HIDE DEF d
    <3>2. n * b = m * b + b + d * b /\ d * b \in Nat
      BY <3>1
    <3>3. m * b \in Int
      OBVIOUS
    <3> DEFINE x == m * b
               y == d * b
               z == n * b
    <3>4. x \in Int /\ y \in Nat /\ z = x + b + y
      BY <3>2, <3>3
    <3> HIDE DEF x, y, z
    <3>5. x + b <= z
      BY <3>4
    <3> QED
      BY <3>5 DEF x, z
  <2> DEFINE x == p * b
             y == q * b
  <2>2. x \in Int /\ y \in Int /\ a = x + s /\ a = y + r
    BY <1>1, <1>2, <1>3
  <2>3. /\ p < q => x + b <= y
        /\ q < p => y + b <= x
    BY <1>1, <2>1
  <2>4. p = q => x = y
    OBVIOUS
  <2> HIDE DEF x, y
  <2>5. p = q \/ p < q \/ q < p
    BY <1>1
  <2> QED
    BY <1>1, <2>2, <2>3, <2>4, <2>5
<1> QED
  BY <1>1, <1>2, <1>3 DEF s

\* What is a multiple of the modulus apart has one remainder.
LEMMA ModShift ==
  ASSUME NEW p \in Nat \ {0}, NEW x \in Nat, NEW k \in Nat
  PROVE  (x + p * k) % p = x % p
<1> DEFINE q == x \div p
           r == x % p
<1>1. q \in Nat /\ r \in 0..(p - 1) /\ x = p * q + r
  BY DivMod
<1> HIDE DEF q, r
<1>2. p * q = q * p /\ p * k = k * p /\ (q + k) * p = q * p + k * p /\ k * p \in Nat
  BY <1>1
<1> DEFINE y == x + p * k
<1>3. y \in Nat /\ y = (q + k) * p + r /\ q + k \in Nat
  BY <1>1, <1>2
<1> HIDE DEF y
<1>4. y % p = r
  BY ONLY <1>1, <1>3, DivUnique, p \in Nat \ {0}
<1> QED
  BY <1>4 DEF y, r

\* Dividing twice is dividing by the product.
LEMMA DivTwice ==
  ASSUME NEW e \in Nat, NEW a \in Nat \ {0}, NEW b \in Nat \ {0}
  PROVE  (e \div a) \div b = e \div (a * b)
<1> DEFINE q == e \div a
           r == e % a
<1>1. q \in Nat /\ r \in 0..(a - 1) /\ e = a * q + r
  BY DivMod
<1> HIDE DEF q, r
<1> DEFINE d == q \div b
           s == q % b
<1>2. d \in Nat /\ s \in 0..(b - 1) /\ q = b * d + s
  BY <1>1, DivMod
<1> HIDE DEF d, s
<1>3. s \in Nat /\ b - 1 \in Nat /\ r \in Nat /\ s <= b - 1 /\ s * a \in Nat
  BY <1>1, <1>2
<1>4. s * a <= (b - 1) * a
  BY <1>3, TimesMonotone
<1>5. (b - 1) * a = a * b - a /\ a * b \in Nat
  OBVIOUS
<1>6. s * a + r \in 0..(a * b - 1)
  BY <1>1, <1>3, <1>4, <1>5
<1>7. e = d * (a * b) + (s * a + r)
  BY <1>1, <1>2
<1>8. a * b \in Nat \ {0}
  BY <1>3, <1>5, <1>6
<1> DEFINE p == a * b
           t == s * a + r
<1>9. p \in Nat \ {0} /\ t \in 0..(p - 1) /\ e = d * p + t
  BY <1>6, <1>7, <1>8
<1> HIDE DEF p, t
<1>10. e \div p = d
  BY <1>2, <1>9, DivUnique
<1> QED
  BY <1>10 DEF p, d, q

\* An interval divided by n has a number in it if the interval has one of n of its multiples.
LEMMA Overlap ==
  ASSUME NEW low \in Nat, NEW high \in Nat, NEW n \in Nat \ {0}, NEW m \in Nat, low <= high
  PROVE  m >= low \div n /\ m <= high \div n
           <=> \E c \in 0..(n - 1) : low <= m * n + c /\ m * n + c <= high
<1> DEFINE p == low \div n
           r == low % n
           q == high \div n
           s == high % n
<1>1. /\ p \in Nat /\ r \in 0..(n - 1) /\ low = n * p + r
      /\ q \in Nat /\ s \in 0..(n - 1) /\ high = n * q + s
  BY DivMod
<1> HIDE DEF p, r, q, s
<1>2. n * p = p * n /\ n * q = q * n /\ p * n \in Nat /\ q * n \in Nat /\ m * n \in Nat
  BY <1>1
<1>3. ASSUME p <= m, m <= q
      PROVE  \E c \in 0..(n - 1) : low <= m * n + c /\ m * n + c <= high
  <2>1. CASE m = p
    BY <1>1, <1>2, <2>1
  <2>2. CASE m # p
    <3>1. (p + 1) * n <= m * n /\ (p + 1) * n = p * n + n
      BY <1>1, <1>3, <2>2, TimesMonotone
    <3>2. m * n <= q * n
      BY <1>1, <1>3, TimesMonotone
    <3>3. 0 \in 0..(n - 1) /\ low <= m * n + 0 /\ m * n + 0 <= high
      BY <1>1, <1>2, <3>1, <3>2
    <3> QED
      BY <3>3
  <2> QED
    BY <2>1, <2>2
<1>4. ASSUME NEW c \in 0..(n - 1), low <= m * n + c, m * n + c <= high
      PROVE  p <= m /\ m <= q
  <2>1. ASSUME m < p PROVE FALSE
    <3>1. (m + 1) * n <= p * n /\ (m + 1) * n = m * n + n
      BY <1>1, <2>1, TimesMonotone
    <3> QED
      BY <1>1, <1>2, <1>4, <3>1
  <2>2. ASSUME q < m PROVE FALSE
    <3>1. (q + 1) * n <= m * n /\ (q + 1) * n = q * n + n
      BY <1>1, <2>2, TimesMonotone
    <3> QED
      BY <1>1, <1>2, <1>4, <3>1
  <2> QED
    BY <1>1, <2>1, <2>2
<1>5. (m >= p /\ m <= q) <=> \E c \in 0..(n - 1) : low <= m * n + c /\ m * n + c <= high
  BY <1>1, <1>3, <1>4
<1> QED
  BY <1>5 DEF p, q

\* A factor may be reduced before a product is.
LEMMA ModTimes ==
  ASSUME NEW p \in Nat \ {0}, NEW a \in Nat, NEW b \in Nat
  PROVE  ((a % p) * b) % p = (a * b) % p
<1> DEFINE q == a \div p
           r == a % p
<1>0. q \in Nat /\ r \in 0..(p - 1) /\ a = p * q + r
  BY DivMod
<1> HIDE DEF q, r
<1>1. q \in Nat /\ r \in Nat /\ a = p * q + r
  BY <1>0
<1>2. a * b = r * b + p * (q * b) /\ r * b \in Nat /\ q * b \in Nat
  BY <1>1
<1>3. (r * b + p * (q * b)) % p = (r * b) % p
  BY ONLY <1>2, ModShift, p \in Nat \ {0}
<1> QED
  BY <1>2, <1>3 DEF r

--------------------------------------------------------------------------------
(* Recursion over the natural numbers.                                          *)

\* What is so of 0, and of each number after one of which it is so, is so of all up to n.
LEMMA UpTo ==
  ASSUME NEW n \in Nat, NEW P, 0 \in P, \A i \in 1..n : i - 1 \in P => i \in P
  PROVE  \A i \in 0..n : i \in P
<1> DEFINE bad == {i \in 0..n : i \notin P}
<1>1. ASSUME NEW i \in bad, \A k \in bad : i <= k PROVE FALSE
  <2>1. i \in 1..n /\ i - 1 \in 0..n
    OBVIOUS
  <2>2. i - 1 \notin bad
    <3> HIDE DEF bad
    <3> QED
      BY <1>1, <2>1
  <2> QED
    BY <2>1, <2>2
<1>2. bad \subseteq Nat
  OBVIOUS
<1>3. bad = {}
  <2> HIDE DEF bad
  <2> QED
    BY <1>1, <1>2, LeastOf
<1> QED
  BY <1>3

\* f begins with base and takes each value from the one before.
Recursive(f, n, base, step) ==
  f[0] = base /\ \A i \in 1..n : f[i] = step[<<i, f[i - 1]>>]

\* There is such a function.
LEMMA RecursionExists ==
  ASSUME NEW n \in Nat, NEW D, NEW base \in D, NEW step \in [(1..n) \X D -> D]
  PROVE  \E f \in [0..n -> D] : Recursive(f, n, base, step)
<1> DEFINE bad == {m \in 0..n : ~ \E f \in [0..m -> D] : Recursive(f, m, base, step)}
<1>1. ASSUME NEW m \in bad, \A k \in bad : m <= k
      PROVE  FALSE
  <2>0. m \in 0..n
    OBVIOUS
  <2>1. CASE m = 0
    <3> DEFINE f == [i \in 0..0 |-> base]
    <3>1. f \in [0..0 -> D] /\ Recursive(f, 0, base, step)
      BY DEF Recursive
    <3> QED
      BY <2>1, <3>1
  <2>2. CASE m # 0
    <3>1. m - 1 \in 0..n /\ m - 1 \notin bad
      <4> HIDE DEF bad
      <4> QED
        BY <1>1, <2>0, <2>2
    <3>2. PICK f \in [0..(m - 1) -> D] : Recursive(f, m - 1, base, step)
      BY <3>1
    <3> DEFINE h == [i \in 0..m |-> IF i = m THEN step[<<m, f[m - 1]>>] ELSE f[i]]
    <3>3. m \in 1..n /\ f[m - 1] \in D
      BY <2>0, <2>2, <3>2
    <3>4. h \in [0..m -> D]
      BY <2>0, <3>2, <3>3
    <3>5. Recursive(h, m, base, step)
      <4>1. h[0] = base
        BY <2>0, <2>2, <3>2 DEF Recursive
      <4>2. ASSUME NEW i \in 1..m PROVE h[i] = step[<<i, h[i - 1]>>]
        <5>1. h[i - 1] = f[i - 1]
          BY <2>0
        <5>2. CASE i = m
          <6>1. h[m] = step[<<m, f[m - 1]>>]
            BY <2>0
          <6> HIDE DEF h
          <6> QED
            BY <5>1, <5>2, <6>1
        <5>3. CASE i # m
          <6>1. i \in 1..(m - 1) /\ h[i] = f[i]
            BY <2>0, <5>3
          <6>2. f[i] = step[<<i, f[i - 1]>>]
            BY <3>2, <6>1 DEF Recursive
          <6> HIDE DEF h
          <6> QED
            BY <5>1, <6>1, <6>2
        <5> QED
          BY <5>2, <5>3
      <4> QED
        BY <4>1, <4>2 DEF Recursive
    <3> QED
      BY <3>4, <3>5
  <2> QED
    BY <2>1, <2>2
<1>2. bad = {}
  <2>1. bad \subseteq Nat
    OBVIOUS
  <2> HIDE DEF bad
  <2> QED
    BY <1>1, <2>1, LeastOf
<1>3. n \in 0..n
  OBVIOUS
<1> QED
  BY <1>2, <1>3

--------------------------------------------------------------------------------
(* Folds.                                                                       *)

\* A fold over the subsets of S takes out the element that pick names.
Folds(f, S, base, step, pick) ==
  \A s \in SUBSET S :
    f[s] = IF s = {} THEN base ELSE step[<<pick[s], f[s \ {pick[s]}]>>]

\* There is such a function.
LEMMA FoldExists ==
  ASSUME NEW S, IsFiniteSet(S), NEW D, NEW base \in D, NEW step \in [S \X D -> D], NEW pick,
         \A s \in SUBSET S : s # {} => pick[s] \in s
  PROVE  \E f \in [SUBSET S -> D] : Folds(f, S, base, step, pick)
<1> DEFINE Small(n) == {s \in SUBSET S : Cardinality(s) <= n}
           Good(f, n) == \A s \in Small(n) :
                f[s] = IF s = {} THEN base ELSE step[<<pick[s], f[s \ {pick[s]}]>>]
           bad == {n \in Nat : ~ \E f \in [Small(n) -> D] : Good(f, n)}
<1>1. \A s \in SUBSET S : IsFiniteSet(s) /\ Cardinality(s) \in Nat
  BY FS_Subset, FS_CardinalityType
<1>2. \A s \in SUBSET S : s # {} =>
        /\ pick[s] \in S /\ s \ {pick[s]} \in SUBSET S
        /\ Cardinality(s \ {pick[s]}) = Cardinality(s) - 1 /\ Cardinality(s) > 0
  <2> SUFFICES ASSUME NEW s \in SUBSET S, s # {}
               PROVE  /\ pick[s] \in S /\ s \ {pick[s]} \in SUBSET S
                      /\ Cardinality(s \ {pick[s]}) = Cardinality(s) - 1 /\ Cardinality(s) > 0
    OBVIOUS
  <2>1. pick[s] \in s
    OBVIOUS
  <2>2. Cardinality(s \ {pick[s]}) = Cardinality(s) - 1
    BY <1>1, <2>1, FS_RemoveElement
  <2>3. Cardinality(s) # 0
    BY <1>1, FS_EmptySet
  <2> QED
    BY <1>1, <2>1, <2>2, <2>3
<1>3. ASSUME NEW n \in bad, \A m \in bad : n <= m
      PROVE  FALSE
  <2>1. CASE n = 0
    <3> DEFINE f == [s \in Small(0) |-> base]
    <3>1. \A s \in Small(0) : s = {}
      BY <1>1, FS_EmptySet
    <3>2. f \in [Small(0) -> D] /\ Good(f, 0)
      BY <3>1
    <3> QED
      BY <2>1, <3>2
  <2>2. CASE n # 0
    <3>0. n \in Nat
      OBVIOUS
    <3>1. n - 1 \in Nat /\ n - 1 \notin bad
      <4> HIDE DEF bad
      <4> QED
        BY <1>3, <2>2, <3>0
    <3>2. PICK f \in [Small(n - 1) -> D] : Good(f, n - 1)
      <4> HIDE DEF Good, Small
      <4> QED
        BY <3>1
    <3> DEFINE h == [s \in Small(n) |->
                      IF s = {} THEN base ELSE step[<<pick[s], f[s \ {pick[s]}]>>]]
    <3>3. \A s \in Small(n) : s # {} => s \ {pick[s]} \in Small(n - 1) /\ pick[s] \in S
      BY <1>1, <1>2
    <3>4. \A s \in Small(n - 1) : s \in Small(n) /\ f[s] = h[s]
      BY <1>1, <3>1, <3>2
    <3>5. h \in [Small(n) -> D]
      BY <3>2, <3>3
    <3>6. Good(h, n)
      BY <3>3, <3>4
    <3> QED
      <4> HIDE DEF Good, Small, h
      <4> QED
        BY <1>3, <3>5, <3>6
  <2> QED
    BY <2>1, <2>2
<1>4. bad = {}
  BY <1>3, LeastOf
<1>5. Cardinality(S) \in Nat /\ Small(Cardinality(S)) = SUBSET S
  BY <1>1, FS_Subset
<1>6. PICK f \in [Small(Cardinality(S)) -> D] : Good(f, Cardinality(S))
  <2> HIDE DEF Good, Small
  <2> QED
    BY <1>4, <1>5
<1> QED
  BY <1>5, <1>6 DEF Folds

--------------------------------------------------------------------------------
(* Sums.                                                                        *)

\* f is, of every subset of S, the sum of the terms that g gives its elements.
IsSum(f, g, S) ==
  /\ f \in [SUBSET S -> Nat] /\ f[{}] = 0
  /\ \A s \in SUBSET S : \A x \in s : f[s] = f[s \ {x}] + g[x]

\* A fold that adds the terms in some order is their sum.
LEMMA FoldIsSum ==
  ASSUME NEW S, IsFiniteSet(S), NEW g \in [S -> Nat], NEW pick,
         \A s \in SUBSET S : s # {} => pick[s] \in s,
         NEW f \in [SUBSET S -> Nat],
         \A s \in SUBSET S : f[s] = IF s = {} THEN 0 ELSE f[s \ {pick[s]}] + g[pick[s]]
  PROVE  IsSum(f, g, S)
<1> DEFINE bad == {s \in SUBSET S : \E x \in s : f[s] # f[s \ {x}] + g[x]}
<1>1. \A s \in SUBSET S : IsFiniteSet(s)
  BY FS_Subset
<1>2. ASSUME NEW s \in bad, \A t \in bad : Cardinality(s) <= Cardinality(t)
      PROVE  FALSE
  <2>1. PICK x \in s : f[s] # f[s \ {x}] + g[x]
    OBVIOUS
  <2> DEFINE c == pick[s]
  <2>2. c \in s /\ f[s] = f[s \ {c}] + g[c] /\ s \in SUBSET S
    OBVIOUS
  <2> HIDE DEF c
  <2>3. x # c
    BY <2>1, <2>2
  <2>4. \A y \in s : Cardinality(s \ {y}) = Cardinality(s) - 1 /\ Cardinality(s) \in Nat
    BY <1>1, FS_RemoveElement, FS_CardinalityType
  <2>5. \A y \in s : s \ {y} \in SUBSET S /\ s \ {y} \notin bad
    <3> SUFFICES ASSUME NEW y \in s PROVE s \ {y} \in SUBSET S /\ s \ {y} \notin bad
      OBVIOUS
    <3>1. Cardinality(s \ {y}) < Cardinality(s)
      BY <2>4
    <3>2. ASSUME s \ {y} \in bad PROVE FALSE
      <4>1. Cardinality(s) <= Cardinality(s \ {y})
        <5> HIDE DEF bad
        <5> QED
          BY <1>2, <3>2
      <4> QED
        BY <2>4, <3>1, <4>1
    <3> QED
      BY <2>2, <3>2
  <2>6. f[s \ {c}] = f[(s \ {c}) \ {x}] + g[x]
    BY <2>1, <2>2, <2>3, <2>5
  <2>7. f[s \ {x}] = f[(s \ {x}) \ {c}] + g[c]
    BY <2>1, <2>2, <2>3, <2>5
  <2>8. (s \ {c}) \ {x} = (s \ {x}) \ {c} /\ (s \ {x}) \ {c} \in SUBSET S
    OBVIOUS
  <2>9. f[(s \ {x}) \ {c}] \in Nat /\ g[x] \in Nat /\ g[c] \in Nat
    BY <2>2, <2>8
  <2>10. f[s \ {x}] + g[x] = f[s]
    <3>1. f[s \ {x}] \in Nat /\ f[s \ {c}] \in Nat
      OBVIOUS
    <3> DEFINE u == f[(s \ {x}) \ {c}]
               v == f[s \ {x}]
               z == f[s \ {c}]
               t == f[s]
    <3>2. u \in Nat /\ v \in Nat /\ z \in Nat /\ g[x] \in Nat /\ g[c] \in Nat
      BY <2>9, <3>1
    <3>3. t = z + g[c] /\ z = u + g[x] /\ v = u + g[c]
      BY <2>2, <2>6, <2>7, <2>8
    <3>4. v + g[x] = t
      <4> HIDE DEF u, v, z, t
      <4> QED
        BY <3>2, <3>3
    <3> QED
      BY <3>4
  <2> QED
    BY <2>1, <2>10
<1>3. bad = {}
  <2> SUFFICES ASSUME bad # {} PROVE FALSE
    OBVIOUS
  <2>1. \E s \in bad : \A t \in bad : Cardinality(s) <= Cardinality(t)
    BY <1>1, SmallestOf
  <2> QED
    BY <1>2, <2>1
<1> QED
  BY <1>3 DEF IsSum

\* Sums of the same terms are equal.
LEMMA SameSum ==
  ASSUME NEW S, NEW T, NEW f, NEW g, NEW f2, NEW g2, IsSum(f, g, S), IsSum(f2, g2, T),
         NEW U, IsFiniteSet(U), U \subseteq S, U \subseteq T, \A x \in U : g[x] = g2[x]
  PROVE  f[U] = f2[U]
<1> DEFINE bad == {s \in SUBSET U : f[s] # f2[s]}
<1>1. \A s \in SUBSET U : IsFiniteSet(s)
  BY FS_Subset
<1>2. ASSUME NEW s \in bad, \A t \in bad : Cardinality(s) <= Cardinality(t)
      PROVE  FALSE
  <2>1. s # {}
    BY DEF IsSum
  <2>2. PICK x \in s : TRUE
    BY <2>1
  <2>3. Cardinality(s \ {x}) = Cardinality(s) - 1 /\ Cardinality(s) \in Nat
    BY <1>1, <2>2, FS_RemoveElement, FS_CardinalityType
  <2>4. s \ {x} \notin bad
    BY <1>2, <2>3
  <2>5. f[s] = f[s \ {x}] + g[x] /\ f2[s] = f2[s \ {x}] + g2[x] /\ g[x] = g2[x]
    BY <2>2 DEF IsSum
  <2> QED
    BY <2>4, <2>5
<1>3. bad = {}
  <2> SUFFICES ASSUME bad # {} PROVE FALSE
    OBVIOUS
  <2>1. \E s \in bad : \A t \in bad : Cardinality(s) <= Cardinality(t)
    BY <1>1, SmallestOf
  <2> QED
    BY <1>2, <2>1
<1> QED
  BY <1>3

\* The equation of the sum that the community modules compute.
AddingUp(f, g, S) ==
  f = [s \in SUBSET S |->
        IF s = {} THEN 0 ELSE LET x == CHOOSE x \in s : TRUE IN g[x] + f[s \ {x}]]

\* It has a solution.
LEMMA AddingUpExists ==
  ASSUME NEW S, IsFiniteSet(S), NEW g \in [S -> Nat]
  PROVE  \E f \in [SUBSET S -> Nat] : AddingUp(f, g, S)
<1> DEFINE pick == [s \in SUBSET S |-> CHOOSE x \in s : TRUE]
           step == [e \in S \X Nat |-> g[e[1]] + e[2]]
<1>1. \A s \in SUBSET S : s # {} => pick[s] \in s
  OBVIOUS
<1>2. step \in [S \X Nat -> Nat]
  OBVIOUS
<1>3. PICK h \in [SUBSET S -> Nat] : Folds(h, S, 0, step, pick)
  <2> HIDE DEF step, pick
  <2> QED
    BY <1>1, <1>2, FoldExists
<1>4. AddingUp(h, g, S)
  <2> SUFFICES ASSUME NEW s \in SUBSET S, s # {}
               PROVE  h[s] = g[CHOOSE x \in s : TRUE] + h[s \ {CHOOSE x \in s : TRUE}]
    BY <1>3 DEF Folds, AddingUp
  <2>1. pick[s] = CHOOSE x \in s : TRUE
    OBVIOUS
  <2>2. h[s] = step[<<pick[s], h[s \ {pick[s]}]>>]
    BY <1>3 DEF Folds
  <2>3. <<pick[s], h[s \ {pick[s]}]>> \in S \X Nat
    <3>1. pick[s] \in S /\ s \ {pick[s]} \in SUBSET S
      BY <1>1
    <3> HIDE DEF pick
    <3> QED
      BY <3>1
  <2> QED
    BY <2>1, <2>2, <2>3
<1> QED
  BY <1>4

\* Two folds start alike, and from the same remainder go on alike.
Alike(f, h, S, pick) ==
  /\ f[{}] = h[{}]
  /\ \A s \in SUBSET S : s # {} =>
       pick[s] \in s /\ (f[s \ {pick[s]}] = h[s \ {pick[s]}] => f[s] = h[s])

\* They are the same.
LEMMA SameFold ==
  ASSUME NEW S, IsFiniteSet(S), NEW pick, NEW f, NEW h, Alike(f, h, S, pick)
  PROVE  \A s \in SUBSET S : f[s] = h[s]
<1> DEFINE bad == {s \in SUBSET S : f[s] # h[s]}
<1>1. \A s \in SUBSET S : IsFiniteSet(s)
  BY FS_Subset
<1>2. ASSUME NEW s \in bad, \A t \in bad : Cardinality(s) <= Cardinality(t)
      PROVE  FALSE
  <2>1. s \in SUBSET S /\ f[s] # h[s]
    OBVIOUS
  <2>2. pick[s] \in s /\ f[s \ {pick[s]}] # h[s \ {pick[s]}]
    <3> HIDE DEF bad
    <3> QED
      BY <2>1 DEF Alike
  <2>3. s \ {pick[s]} \in bad
    BY <2>2
  <2>4. Cardinality(s \ {pick[s]}) = Cardinality(s) - 1 /\ Cardinality(s) \in Nat
    BY <1>1, <2>2, FS_RemoveElement, FS_CardinalityType
  <2>5. Cardinality(s) <= Cardinality(s \ {pick[s]})
    <3> HIDE DEF bad
    <3> QED
      BY <1>2, <2>3
  <2> HIDE DEF bad
  <2> QED
    BY <2>4, <2>5
<1>3. bad = {}
  <2> SUFFICES ASSUME bad # {} PROVE FALSE
    OBVIOUS
  <2>1. \E s \in bad : \A t \in bad : Cardinality(s) <= Cardinality(t)
    BY <1>1, SmallestOf
  <2> QED
    BY <1>2, <2>1
<1> QED
  BY <1>3

\* Its solution is the sum.
LEMMA AddingUpIsSum ==
  ASSUME NEW S, IsFiniteSet(S), NEW g \in [S -> Nat], NEW f \in [SUBSET S -> Nat],
         AddingUp(f, g, S)
  PROVE  IsSum(f, g, S)
<1> DEFINE pick == [s \in SUBSET S |-> CHOOSE x \in s : TRUE]
<1>1. \A s \in SUBSET S : s # {} => pick[s] \in s
  OBVIOUS
<1>2. \A s \in SUBSET S : f[s] = IF s = {} THEN 0 ELSE g[pick[s]] + f[s \ {pick[s]}]
  BY DEF AddingUp
<1>3. \A s \in SUBSET S : f[s] = IF s = {} THEN 0 ELSE f[s \ {pick[s]}] + g[pick[s]]
  <2> SUFFICES ASSUME NEW s \in SUBSET S, s # {} PROVE f[s] = f[s \ {pick[s]}] + g[pick[s]]
    BY <1>2
  <2>1. pick[s] \in S /\ s \ {pick[s]} \in SUBSET S
    BY <1>1
  <2>2. g[pick[s]] \in Nat /\ f[s \ {pick[s]}] \in Nat
    <3> HIDE DEF pick
    <3> QED
      BY <2>1
  <2>3. f[s] = g[pick[s]] + f[s \ {pick[s]}]
    BY <1>2
  <2> HIDE DEF pick
  <2> QED
    BY <2>2, <2>3
<1> HIDE DEF pick
<1> QED
  BY <1>1, <1>3, FoldIsSum

\* The sum of fewer terms is no larger.
LEMMA SumGrows ==
  ASSUME NEW S, IsFiniteSet(S), NEW f, NEW g \in [S -> Nat], IsSum(f, g, S),
         NEW U \in SUBSET S, NEW T \in SUBSET U
  PROVE  f[T] <= f[U]
<1> DEFINE bad == {s \in SUBSET S : T \subseteq s /\ ~(f[T] <= f[s])}
<1>1. \A s \in SUBSET S : IsFiniteSet(s)
  BY FS_Subset
<1>2. ASSUME NEW s \in bad, \A t \in bad : Cardinality(s) <= Cardinality(t)
      PROVE  FALSE
  <2>1. s \in SUBSET S /\ T \subseteq s /\ ~(f[T] <= f[s]) /\ T \in SUBSET S
    OBVIOUS
  <2>2. f[T] \in Nat /\ f[s] \in Nat
    BY <2>1 DEF IsSum
  <2>3. PICK x \in s : x \notin T
    BY <2>1, <2>2
  <2>4. f[s] = f[s \ {x}] + g[x] /\ f[s \ {x}] \in Nat /\ g[x] \in Nat
    BY <2>1 DEF IsSum
  <2>5. s \ {x} \in bad
    <3>1. ~(f[T] <= f[s \ {x}])
      <4> HIDE DEF bad
      <4> QED
        BY <2>1, <2>2, <2>4
    <3> QED
      BY <2>1, <2>3, <3>1
  <2>6. Cardinality(s \ {x}) = Cardinality(s) - 1 /\ Cardinality(s) \in Nat
    BY <1>1, <2>3, FS_RemoveElement, FS_CardinalityType
  <2>7. Cardinality(s) <= Cardinality(s \ {x})
    <3> HIDE DEF bad
    <3> QED
      BY <1>2, <2>5
  <2> HIDE DEF bad
  <2> QED
    BY <2>6, <2>7
<1>3. bad = {}
  <2> SUFFICES ASSUME bad # {} PROVE FALSE
    OBVIOUS
  <2>1. \E s \in bad : \A t \in bad : Cardinality(s) <= Cardinality(t)
    BY <1>1, SmallestOf
  <2> QED
    BY <1>2, <2>1
<1> QED
  BY <1>3

\* The sets of a family do not meet.
Apart(A, S) == \A d, e \in S : d # e => A[d] \cap A[e] = {}

\* They are finite, and g is their sizes.
SizedBy(g, A, S) == \A d \in S : IsFiniteSet(A[d]) /\ g[d] = Cardinality(A[d])

\* The sizes of sets that are pairwise disjoint sum up to that of their union.
LEMMA DisjointSizes ==
  ASSUME NEW S, IsFiniteSet(S), NEW A, NEW f, NEW g, Apart(A, S), SizedBy(g, A, S), IsSum(f, g, S)
  PROVE  IsFiniteSet(UNION {A[d] : d \in S}) /\ Cardinality(UNION {A[d] : d \in S}) = f[S]
<1> DEFINE Joined(s) == UNION {A[d] : d \in s}
           bad == {s \in SUBSET S : ~(IsFiniteSet(Joined(s)) /\ Cardinality(Joined(s)) = f[s])}
<1>1. \A s \in SUBSET S : IsFiniteSet(s)
  BY FS_Subset
<1>2. ASSUME NEW s \in bad, \A t \in bad : Cardinality(s) <= Cardinality(t)
      PROVE  FALSE
  <2>1. s # {}
    <3> SUFFICES ASSUME s = {} PROVE FALSE
      OBVIOUS
    <3>1. Joined(s) = {}
      OBVIOUS
    <3>2. f[s] = 0
      BY DEF IsSum
    <3> QED
      BY <3>1, <3>2, FS_EmptySet
  <2>2. PICK x \in s : TRUE
    BY <2>1
  <2> DEFINE rest == s \ {x}
  <2>3. Cardinality(rest) = Cardinality(s) - 1 /\ Cardinality(s) \in Nat
    BY <1>1, <2>2, FS_RemoveElement, FS_CardinalityType
  <2>4. rest \notin bad /\ rest \in SUBSET S
    BY <1>2, <2>3
  <2>5. IsFiniteSet(Joined(rest)) /\ Cardinality(Joined(rest)) = f[rest]
    BY <2>4
  <2>6. IsFiniteSet(A[x]) /\ Cardinality(A[x]) = g[x]
    BY <2>2 DEF SizedBy
  <2>7. Joined(s) = Joined(rest) \cup A[x] /\ Joined(rest) \cap A[x] = {}
    BY <2>2 DEF Apart
  <2>8. /\ IsFiniteSet(Joined(rest) \cup A[x])
        /\ Cardinality(Joined(rest) \cup A[x])
             = Cardinality(Joined(rest)) + Cardinality(A[x]) - Cardinality(Joined(rest) \cap A[x])
    <3> HIDE DEF Joined
    <3> QED
      BY <2>5, <2>6, FS_Union
  <2>9. f[s] = f[rest] + g[x] /\ f[rest] \in Nat
    BY <2>2, <2>4 DEF IsSum
  <2>10. Cardinality(A[x]) \in Nat /\ Cardinality(Joined(rest) \cap A[x]) = 0
    BY <2>6, <2>7, FS_EmptySet, FS_CardinalityType
  <2>11. IsFiniteSet(Joined(s)) /\ Cardinality(Joined(s)) = f[s]
    <3> HIDE DEF Joined, rest, bad
    <3> QED
      BY <2>5, <2>6, <2>7, <2>8, <2>9, <2>10
  <2> QED
    <3> HIDE DEF Joined, rest
    <3> QED
      BY <2>11
<1>3. bad = {}
  <2> SUFFICES ASSUME bad # {} PROVE FALSE
    OBVIOUS
  <2>1. \E s \in bad : \A t \in bad : Cardinality(s) <= Cardinality(t)
    BY <1>1, SmallestOf
  <2> QED
    BY <1>2, <2>1
<1> QED
  BY <1>3
================================================================================
