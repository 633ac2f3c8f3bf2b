---------------------------- MODULE FieldLimbProofs ----------------------------
(* Theorems about the two representations of a field element, for any widths    *)
(* that FieldLimbs assumes: whatever carries, borrows and folds two elements    *)
(* cause, each operation leaves the limbs of the result modulo the prime.  The  *)
(* argument is about digits in any base first: what carries, products, shifts   *)
(* and comparisons of digits do to the numbers the digits stand for.            *)
EXTENDS FieldLimbs, FoldTheorems, SequenceTheorems

--------------------------------------------------------------------------------
(* Digits and the numbers they stand for, in any base.                          *)

\* Powers, each from the one before.
LEMMA PowersRun ==
  ASSUME NEW b \in Nat \ {0}, NEW top \in Nat
  PROVE  \E run \in [0..top -> Nat \ {0}] :
           /\ run[0] = 1 /\ \A i \in 0..top : Powers(b, top)[i] = run[i]
           /\ \A i \in 1..top : run[i] = run[i - 1] * b
<1> DEFINE n == top
           D == Nat \ {0}
           base == 1
           Loop(f) == [i \in 0..n |-> IF i = 0 THEN base ELSE f[i - 1] * b]
           step == [e \in (1..n) \X D |-> e[2] * b]
           iter == CHOOSE f : f = Loop(f)
<1>1. n \in Nat
  OBVIOUS
<1>2. base \in D /\ \A i \in 1..n, acc \in D : acc * b \in D
  <2>1. ASSUME NEW m \in Nat \ {0} PROVE m * b \in Nat \ {0}
    <3>1. 1 * b <= m * b
      BY TimesMonotone
    <3>2. m * b \in Nat /\ 1 * b = b
      OBVIOUS
    <3> QED
      BY <3>1, <3>2
  <2> QED
    BY <2>1
<1>3. Powers(b, top) = iter
  BY DEF Powers
<1>4. PICK g \in [0..n -> D] : Recursive(g, n, base, step)
  <2>1. step \in [(1..n) \X D -> D]
    <3> HIDE DEF D, base, n
    <3> QED
      BY <1>2
  <2> HIDE DEF D, base, step, n
  <2> QED
    BY ONLY <1>1, <1>2, <2>1, RecursionExists
<1>5. g[0] = base /\ \A i \in 1..n : i - 1 \in 0..n /\ i # 0 /\ g[i] = g[i - 1] * b
  <2> HIDE DEF D, base, n
  <2>1. ASSUME NEW i \in 1..n PROVE i - 1 \in 0..n /\ i # 0 /\ g[i] = g[i - 1] * b
    <3>1. i - 1 \in 0..n /\ i # 0
      BY <1>1
    <3>2. g[i] = step[<<i, g[i - 1]>>] /\ g[i - 1] \in D
      <4> HIDE DEF step
      <4> QED
        BY <1>4, <3>1 DEF Recursive
    <3> QED
      BY <3>1, <3>2
  <2>2. g[0] = base
    <3> HIDE DEF step
    <3> QED
      BY <1>4 DEF Recursive
  <2> QED
    BY <2>1, <2>2
<1>6. \A i \in 0..n : i # 0 => i \in 1..n
  <2> HIDE DEF n
  <2> QED
    BY <1>1
<1>7. g = Loop(g)
  <2> HIDE DEF D, base, n
  <2>1. \A i \in 0..n : g[i] = Loop(g)[i]
    BY <1>5, <1>6
  <2> QED
    BY <1>4, <2>1
<1>8. iter = Loop(iter)
  <2> HIDE DEF Loop
  <2> QED
    BY <1>7
<1>9. iter[0] = base /\ \A i \in 1..n : iter[i] = iter[i - 1] * b
  <2> HIDE DEF iter, base, n
  <2>1. \A i \in 0..n : iter[i] = Loop(iter)[i]
    BY <1>8
  <2>2. 0 \in 0..n /\ \A i \in 1..n : i \in 0..n /\ i # 0
    BY <1>1
  <2> QED
    BY <2>1, <2>2
<1>10. \A i \in 0..n : iter[i] = g[i]
  <2> DEFINE same == {i \in 0..n : iter[i] = g[i]}
  <2>1. 0 \in same
    <3> HIDE DEF D, iter, base, n
    <3>1. iter[0] = g[0]
      BY ONLY <1>5, <1>9
    <3> QED
      BY <1>1, <3>1
  <2>2. ASSUME NEW i \in 1..n, i - 1 \in same PROVE i \in same
    <3>1. iter[i - 1] = g[i - 1]
      BY <2>2
    <3> HIDE DEF iter, base, n
    <3>2. i \in 0..n
      BY <1>1
    <3> QED
      BY <1>5, <1>9, <3>1, <3>2
  <2> HIDE DEF same, n
  <2>3. \A i \in 0..n : i \in same
    BY <1>1, <2>1, <2>2, UpTo
  <2> QED
    BY <2>3 DEF same
<1> QED
  <2>1. n \in 0..n
    <3> HIDE DEF n
    <3> QED
      BY <1>1
  <2> HIDE DEF iter
  <2> QED
    BY <1>3, <1>4, <1>5, <1>10, <2>1

\* The places of a number's digits, as many as occur.
Weight(b) == Powers(b, 18)

\* The places are powers of the base.
LEMMA Weights ==
  ASSUME NEW b \in Nat \ {0}
  PROVE  /\ Weight(b)[0] = 1 /\ \A i \in 0..18 : Weight(b)[i] \in Nat \ {0}
         /\ \A i \in 1..18 : Weight(b)[i] = Weight(b)[i - 1] * b
<1>1. PICK g \in [0..18 -> Nat \ {0}] :
        /\ g[0] = 1 /\ \A i \in 0..18 : Weight(b)[i] = g[i]
        /\ \A i \in 1..18 : g[i] = g[i - 1] * b
  BY PowersRun, 18 \in Nat DEF Weight
<1>3. \A i \in 1..18 : i \in 0..18 /\ i - 1 \in 0..18
  OBVIOUS
<1> QED
  BY <1>1, <1>3

\* A shorter table of powers is the same as far as it goes.
LEMMA PowersAre ==
  ASSUME NEW b \in Nat \ {0}, NEW top \in 0..18
  PROVE  \A i \in 0..top : Powers(b, top)[i] = Weight(b)[i]
<1>1. top \in Nat
  OBVIOUS
<1>2. PICK f \in [0..top -> Nat \ {0}] :
        /\ f[0] = 1 /\ \A i \in 0..top : Powers(b, top)[i] = f[i]
        /\ \A i \in 1..top : f[i] = f[i - 1] * b
  BY <1>1, PowersRun
<1> DEFINE same == {i \in 0..top : f[i] = Weight(b)[i]}
<1>3. 0 \in same
  <2>1. 0 \in 0..top
    BY ONLY <1>1, SMT
  <2> QED
    BY <1>2, <2>1, Weights
<1>4. ASSUME NEW i \in 1..top, i - 1 \in same PROVE i \in same
  <2>1. i \in 0..top /\ i \in 1..18
    BY ONLY top \in 0..18, i \in 1..top, SMT
  <2> QED
    BY <1>2, <1>4, <2>1, Weights
<1>5. \A i \in 0..top : i \in same
  <2> HIDE DEF same
  <2> QED
    BY <1>1, <1>3, <1>4, UpTo
<1> QED
  BY <1>2, <1>5

\* The number that n digits are, the lowest first.
Value(l, b, n) ==
  LET value[i \in 0..n] == IF i = 0 THEN 0 ELSE value[i - 1] + l[i] * Weight(b)[i - 1]
  IN  value[n]

\* n digits that are numbers.
AreDigits(l, n) == n \in 0..18 /\ \A i \in 1..n : l[i] \in Int

\* run has the values of the first digits of l.
Valued(run, l, b, n) ==
  /\ run \in [0..n -> Int] /\ run[0] = 0 /\ Value(l, b, n) = run[n]
  /\ \A i \in 1..n : run[i] = run[i - 1] + l[i] * Weight(b)[i - 1]

\* One digit more at a time.
LEMMA ValueRuns ==
  ASSUME NEW b \in Nat \ {0}, NEW l, NEW count \in Nat, AreDigits(l, count)
  PROVE  \E run : Valued(run, l, b, count)
<1> DEFINE n == count
           D == Int
           base == 0
           Loop(f) == [i \in 0..n |-> IF i = 0 THEN base ELSE f[i - 1] + l[i] * Weight(b)[i - 1]]
           step == [e \in (1..n) \X D |-> e[2] + l[e[1]] * Weight(b)[e[1] - 1]]
           iter == CHOOSE f : f = Loop(f)
<1>1. n \in Nat
  OBVIOUS
<1>2. base \in D /\ \A i \in 1..n, acc \in D : acc + l[i] * Weight(b)[i - 1] \in D
  <2>1. ASSUME NEW i \in 1..n, NEW acc \in Int PROVE acc + l[i] * Weight(b)[i - 1] \in Int
    <3>1. n \in 0..18 /\ l[i] \in Int
      BY DEF AreDigits
    <3>3. i - 1 \in 0..18
      BY ONLY <3>1, i \in 1..n, SMT
    <3>2. Weight(b)[i - 1] \in Int
      BY <3>3, Weights
    <3> QED
      BY <3>1, <3>2
  <2> QED
    BY <2>1
<1>3. Value(l, b, count) = iter[n]
  BY DEF Value
<1>4. PICK g \in [0..n -> D] : Recursive(g, n, base, step)
  <2>1. step \in [(1..n) \X D -> D]
    <3> HIDE DEF D, base, n
    <3> QED
      BY <1>2
  <2> HIDE DEF D, base, step, n
  <2> QED
    BY ONLY <1>1, <1>2, <2>1, RecursionExists
<1>5. g[0] = base /\ \A i \in 1..n : i - 1 \in 0..n /\ i # 0
      /\ g[i] = g[i - 1] + l[i] * Weight(b)[i - 1]
  <2> HIDE DEF D, base, n
  <2>1. ASSUME NEW i \in 1..n PROVE i - 1 \in 0..n /\ i # 0 /\ g[i] = g[i - 1] + l[i] * Weight(b)[i - 1]
    <3>1. i - 1 \in 0..n /\ i # 0
      BY <1>1
    <3>2. g[i] = step[<<i, g[i - 1]>>] /\ g[i - 1] \in D
      <4> HIDE DEF step
      <4> QED
        BY <1>4, <3>1 DEF Recursive
    <3> QED
      BY <3>1, <3>2
  <2>2. g[0] = base
    <3> HIDE DEF step
    <3> QED
      BY <1>4 DEF Recursive
  <2> QED
    BY <2>1, <2>2
<1>6. \A i \in 0..n : i # 0 => i \in 1..n
  <2> HIDE DEF n
  <2> QED
    BY <1>1
<1>7. g = Loop(g)
  <2> HIDE DEF D, base, n
  <2>1. \A i \in 0..n : g[i] = Loop(g)[i]
    BY <1>5, <1>6
  <2> QED
    BY <1>4, <2>1
<1>8. iter = Loop(iter)
  <2> HIDE DEF Loop
  <2> QED
    BY <1>7
<1>9. iter[0] = base /\ \A i \in 1..n : iter[i] = iter[i - 1] + l[i] * Weight(b)[i - 1]
  <2> HIDE DEF iter, base, n
  <2>1. \A i \in 0..n : iter[i] = Loop(iter)[i]
    BY <1>8
  <2>2. 0 \in 0..n /\ \A i \in 1..n : i \in 0..n /\ i # 0
    BY <1>1
  <2> QED
    BY <2>1, <2>2
<1>10. \A i \in 0..n : iter[i] = g[i]
  <2> DEFINE same == {i \in 0..n : iter[i] = g[i]}
  <2>1. 0 \in same
    <3> HIDE DEF D, iter, base, n
    <3>1. iter[0] = g[0]
      BY ONLY <1>5, <1>9
    <3> QED
      BY <1>1, <3>1
  <2>2. ASSUME NEW i \in 1..n, i - 1 \in same PROVE i \in same
    <3>1. iter[i - 1] = g[i - 1]
      BY <2>2
    <3> HIDE DEF iter, base, n
    <3>2. i \in 0..n
      BY <1>1
    <3> QED
      BY <1>5, <1>9, <3>1, <3>2
  <2> HIDE DEF same, n
  <2>3. \A i \in 0..n : i \in same
    BY <1>1, <2>1, <2>2, UpTo
  <2> QED
    BY <2>3 DEF same
<1> QED
  <2>1. n \in 0..n
    <3> HIDE DEF n
    <3> QED
      BY <1>1
  <2> HIDE DEF iter
  <2> QED
    BY <1>3, <1>4, <1>5, <1>10, <2>1 DEF Valued

\* The value of some digits and one more.
LEMMA ValueIs ==
  ASSUME NEW b \in Nat \ {0}, NEW l, NEW n, AreDigits(l, n)
  PROVE  /\ n \in Nat /\ Value(l, b, 0) = 0 /\ \A i \in 0..n : Value(l, b, i) \in Int
         /\ \A i \in 1..n : Value(l, b, i) = Value(l, b, i - 1) + l[i] * Weight(b)[i - 1]
<1>0. n \in Nat /\ n \in 0..18 /\ \A i \in 0..n : i \in Nat /\ AreDigits(l, i)
  BY DEF AreDigits
<1>1. PICK g : Valued(g, l, b, n)
  BY <1>0, ValueRuns
<1>2. ASSUME NEW m \in 0..n PROVE Value(l, b, m) = g[m]
  <2>1. PICK f : Valued(f, l, b, m)
    <3>1. AreDigits(l, m) /\ m \in Nat
      BY <1>0
    <3> QED
      BY ONLY <3>1, b \in Nat \ {0}, ValueRuns
  <2> DEFINE same == {i \in 0..m : f[i] = g[i]}
  <2>2. 0 \in same
    BY <1>1, <2>1 DEF Valued
  <2>3. ASSUME NEW i \in 1..m, i - 1 \in same PROVE i \in same
    <3>1. i \in 1..n /\ i \in 0..m
      BY <1>0, <1>2
    <3> QED
      BY <1>1, <2>1, <2>3, <3>1 DEF Valued
  <2>4. m \in Nat /\ m \in 0..m
    BY <1>0
  <2>5. \A i \in 0..m : i \in same
    <3> HIDE DEF same
    <3> QED
      BY <2>2, <2>3, <2>4, UpTo
  <2> QED
    BY <2>1, <2>4, <2>5 DEF Valued
<1>3. \A i \in 1..n : i \in 0..n /\ i - 1 \in 0..n
  BY <1>0
<1>4. 0 \in 0..n /\ n \in Nat
  BY <1>0
<1> QED
  BY <1>1, <1>2, <1>3, <1>4 DEF Valued

\* A digit and its place.
LEMMA DigitIs ==
  ASSUME NEW b \in Nat \ {0}, NEW l, NEW n, AreDigits(l, n), NEW i \in 1..n
  PROVE  /\ i \in 0..n /\ i - 1 \in 0..n /\ i \in 1..18 /\ i - 1 \in 0..18
         /\ Weight(b)[i - 1] \in Nat \ {0} /\ Weight(b)[i] = Weight(b)[i - 1] * b
         /\ l[i] \in Int /\ Value(l, b, i - 1) \in Int /\ Value(l, b, i) \in Int
         /\ Value(l, b, i) = Value(l, b, i - 1) + l[i] * Weight(b)[i - 1]
<1>1. n \in 0..18 /\ l[i] \in Int
  BY DEF AreDigits
<1>2. i \in 0..n /\ i - 1 \in 0..n /\ i \in 1..18 /\ i - 1 \in 0..18
  BY <1>1
<1>3. Weight(b)[i - 1] \in Nat \ {0} /\ Weight(b)[i] = Weight(b)[i - 1] * b
  BY <1>2, Weights
<1> QED
  BY <1>1, <1>2, <1>3, ValueIs

\* The value depends on the digits only.
LEMMA SameValue ==
  ASSUME NEW b \in Nat \ {0}, NEW l, NEW m, NEW n, AreDigits(l, n), \A i \in 1..n : m[i] = l[i]
  PROVE  \A i \in 0..n : Value(m, b, i) = Value(l, b, i)
<1>1. AreDigits(m, n)
  BY DEF AreDigits
<1> DEFINE good == {i \in 0..n : Value(m, b, i) = Value(l, b, i)}
<1>2. n \in Nat
  BY ValueIs
<1>3. 0 \in good
  BY <1>1, <1>2, ValueIs
<1>4. ASSUME NEW i \in 1..n, i - 1 \in good PROVE i \in good
  <2>1. i \in 0..n
    BY <1>2
  <2> QED
    BY <1>1, <1>4, <2>1, ValueIs
<1>5. \A i \in 0..n : i \in good
  <2> HIDE DEF good
  <2> QED
    BY <1>2, <1>3, <1>4, UpTo
<1> QED
  BY <1>5

\* Digits and what is carried from each to the next.
LEMMA Carried ==
  ASSUME NEW b \in Nat \ {0}, NEW x, NEW m, NEW c, NEW n, AreDigits(x, n), AreDigits(m, n),
         \A i \in 0..n : c[i] \in Int, \A i \in 1..n : x[i] + c[i - 1] = m[i] + b * c[i]
  PROVE  Value(x, b, n) + c[0] = Value(m, b, n) + Weight(b)[n] * c[n]
<1> DEFINE good == {i \in 0..n : Value(x, b, i) + c[0] = Value(m, b, i) + Weight(b)[i] * c[i]}
<1>1. n \in 0..18 /\ n \in Nat
  BY DEF AreDigits
<1>2. 0 \in good
  BY <1>1, ValueIs, Weights
<1>3. ASSUME NEW i \in 1..n, i - 1 \in good PROVE i \in good
  <2> DEFINE w == Weight(b)[i - 1]
             v == Value(x, b, i - 1)
             u == Value(m, b, i - 1)
             p == c[i - 1]
             q == c[i]
  <2>1. i \in 1..18 /\ i \in 0..n /\ i - 1 \in 0..n /\ i - 1 \in 0..18
    BY <1>1
  <2>2. /\ w \in Int /\ Weight(b)[i] = w * b /\ v \in Int /\ u \in Int /\ p \in Int /\ q \in Int
        /\ x[i] \in Int /\ m[i] \in Int /\ c[0] \in Int
    <3>1. c[0] \in Int /\ p \in Int /\ q \in Int
      BY <1>1, <2>1
    <3>2. w \in Int /\ Weight(b)[i] = w * b /\ v \in Int /\ x[i] \in Int
      BY DigitIs
    <3>3. u \in Int /\ m[i] \in Int
      BY DigitIs
    <3> QED
      BY <3>1, <3>2, <3>3
  <2>3. Value(x, b, i) = v + x[i] * w /\ Value(m, b, i) = u + m[i] * w
    BY <2>1, ValueIs
  <2>4. v + c[0] = u + w * p /\ x[i] + p = m[i] + b * q
    BY <1>3
  <2> HIDE DEF w, v, u, p, q
  <2>5. (v + x[i] * w) + c[0] = (u + m[i] * w) + (w * b) * q
    <3>1. (x[i] + p) * w = (m[i] + b * q) * w
      BY <2>4
    <3>2. (x[i] + p) * w = x[i] * w + w * p /\ (m[i] + b * q) * w = m[i] * w + (w * b) * q
      BY <2>2
    <3> DEFINE e == x[i] * w
               f == w * p
               g == m[i] * w
               h == (w * b) * q
    <3>3. e \in Int /\ f \in Int /\ g \in Int /\ h \in Int /\ e + f = g + h
      BY <2>2, <3>1, <3>2
    <3>4. v + c[0] = u + f
      BY <2>4
    <3> HIDE DEF e, f, g, h
    <3>5. (v + e) + c[0] = (u + g) + h
      BY <2>2, <3>3, <3>4
    <3> QED
      BY <3>5 DEF e, g, h
  <2> QED
    BY <2>1, <2>2, <2>3, <2>5 DEF q
<1>4. \A i \in 0..n : i \in good
  <2> HIDE DEF good
  <2> QED
    BY <1>1, <1>2, <1>3, UpTo
<1> QED
  BY <1>1, <1>4

\* r is x and k times y, digit by digit, and so is its value.
Combines(r, x, y, k, n) ==
  AreDigits(x, n) /\ AreDigits(y, n) /\ \A i \in 1..n : r[i] = x[i] + k * y[i]
Combined(r, x, y, k, b, n) ==
  AreDigits(r, n) /\ Value(r, b, n) = Value(x, b, n) + k * Value(y, b, n)

\* The value of a sum of digits is the sum of the values.
LEMMA Linear ==
  ASSUME NEW b \in Nat \ {0}, NEW x, NEW y, NEW r, NEW k \in Int, NEW n, Combines(r, x, y, k, n)
  PROVE  Combined(r, x, y, k, b, n)
<1>0. AreDigits(x, n) /\ AreDigits(y, n) /\ \A i \in 1..n : r[i] = x[i] + k * y[i]
  BY DEF Combines
<1> DEFINE good == {i \in 0..n : Value(r, b, i) = Value(x, b, i) + k * Value(y, b, i)}
<1>1. n \in 0..18 /\ n \in Nat /\ AreDigits(r, n)
  BY <1>0 DEF AreDigits
<1>2. 0 \in good
  BY <1>0, <1>1, ValueIs
<1>3. ASSUME NEW i \in 1..n, i - 1 \in good PROVE i \in good
  <2> DEFINE w == Weight(b)[i - 1]
             v == Value(x, b, i - 1)
             u == Value(y, b, i - 1)
  <2>1. i \in 1..18 /\ i \in 0..n /\ i - 1 \in 0..n /\ i - 1 \in 0..18
    BY <1>1
  <2>2. w \in Int /\ v \in Int /\ u \in Int /\ x[i] \in Int /\ y[i] \in Int
    <3>1. w \in Int /\ v \in Int /\ x[i] \in Int
      BY <1>0, DigitIs
    <3>2. u \in Int /\ y[i] \in Int
      BY <1>0, DigitIs
    <3> QED
      BY <3>1, <3>2
  <2>3. /\ Value(x, b, i) = v + x[i] * w /\ Value(y, b, i) = u + y[i] * w
        /\ Value(r, b, i) = (v + k * u) + r[i] * w
    BY <1>0, <1>1, <1>3, <2>1, ValueIs
  <2>4. r[i] = x[i] + k * y[i]
    BY <1>0
  <2> HIDE DEF w, v, u
  <2>5. (v + k * u) + (x[i] + k * y[i]) * w = (v + x[i] * w) + k * (u + y[i] * w)
    BY <2>2
  <2> QED
    BY <2>1, <2>3, <2>4, <2>5
<1>4. \A i \in 0..n : i \in good
  <2> HIDE DEF good
  <2> QED
    BY <1>1, <1>2, <1>3, UpTo
<1> QED
  BY <1>1, <1>4 DEF Combined

\* n digits of the base b.
Limbs(l, b, n) == n \in 0..18 /\ \A i \in 1..n : l[i] \in 0..(b - 1)

\* Limbs are digits.
LEMMA LimbsAreDigits ==
  ASSUME NEW b \in Nat \ {0}, NEW l, NEW n, Limbs(l, b, n)
  PROVE  AreDigits(l, n)
BY DEF Limbs, AreDigits

\* Digits within a bound, and the value within it.
LEMMA Bounded ==
  ASSUME NEW b \in Nat \ {0}, NEW l, NEW n, NEW c \in Nat, AreDigits(l, n),
         \A i \in 1..n : 0 <= l[i] /\ l[i] <= (b - 1) * c
  PROVE  \A i \in 0..n : 0 <= Value(l, b, i) /\ Value(l, b, i) <= c * (Weight(b)[i] - 1)
<1> DEFINE good == {i \in 0..n : 0 <= Value(l, b, i) /\ Value(l, b, i) <= c * (Weight(b)[i] - 1)}
<1>1. n \in 0..18 /\ n \in Nat
  BY DEF AreDigits
<1>2. 0 \in good
  BY <1>1, ValueIs, Weights
<1>3. ASSUME NEW i \in 1..n, i - 1 \in good PROVE i \in good
  <2> DEFINE w == Weight(b)[i - 1]
             v == Value(l, b, i - 1)
             x == l[i]
             d == (b - 1) * c
  <2>1. /\ i \in 0..n /\ w \in Nat \ {0} /\ Weight(b)[i] = w * b /\ x \in Int /\ v \in Int
        /\ Value(l, b, i) = v + x * w
    BY DigitIs
  <2>2. 0 <= v /\ v <= c * (w - 1) /\ 0 <= x /\ x <= d
    BY <1>3
  <2>3. d \in Nat
    BY b - 1 \in Nat
  <2>4. c * (w * b - 1) = c * (w - 1) + d * w
    <3> HIDE DEF w
    <3> QED
      BY <2>1
  <2> HIDE DEF w, v, x, d
  <2>5. x * w <= d * w /\ x * w \in Nat /\ d * w \in Nat
    <3>1. x \in Nat
      BY <2>1, <2>2
    <3> QED
      BY <2>1, <2>2, <2>3, <3>1, TimesMonotone
  <2>6. 0 <= v + x * w /\ v + x * w <= c * (w * b - 1)
    <3> DEFINE p == x * w
               q == d * w
               s == c * (w - 1)
    <3>1. p \in Nat /\ q \in Nat /\ s \in Int /\ p <= q /\ v <= s /\ c * (w * b - 1) = s + q
      BY <2>1, <2>2, <2>4, <2>5
    <3> HIDE DEF p, q, s
    <3>2. 0 <= v + p /\ v + p <= s + q
      BY <2>1, <2>2, <3>1
    <3> QED
      BY <3>1, <3>2 DEF p
  <2> QED
    BY <2>1, <2>6
<1>4. \A i \in 0..n : i \in good
  <2> HIDE DEF good
  <2> QED
    BY <1>1, <1>2, <1>3, UpTo
<1> QED
  BY <1>4

\* Limbs stand for a number below the weight above them.
LEMMA LimbsBounded ==
  ASSUME NEW b \in Nat \ {0}, NEW l, NEW n, Limbs(l, b, n)
  PROVE  \A i \in 0..n : Value(l, b, i) \in Nat /\ Value(l, b, i) < Weight(b)[i]
<1>1. AreDigits(l, n) /\ n \in 0..18
  BY LimbsAreDigits DEF Limbs
<1>2. \A i \in 1..n : 0 <= l[i] /\ l[i] <= (b - 1) * 1
  BY DEF Limbs
<1>3. \A i \in 0..n : 0 <= Value(l, b, i) /\ Value(l, b, i) <= 1 * (Weight(b)[i] - 1)
  BY <1>1, <1>2, 1 \in Nat, Bounded
<1>4. ASSUME NEW i \in 0..n PROVE Value(l, b, i) \in Nat /\ Value(l, b, i) < Weight(b)[i]
  <2> DEFINE v == Value(l, b, i)
             w == Weight(b)[i]
  <2>1. v \in Int
    BY <1>1, ValueIs
  <2>2. i \in 0..18
    BY <1>1
  <2>3. w \in Nat
    BY <2>2, Weights
  <2>4. 0 <= v /\ v <= 1 * (w - 1)
    BY <1>3
  <2> HIDE DEF v, w
  <2>5. v \in Nat /\ v < w
    BY <2>1, <2>3, <2>4
  <2> QED
    BY <2>5 DEF v, w
<1> QED
  BY <1>4

\* A remainder and the digit above it.
LEMMA ModSplit ==
  ASSUME NEW v \in Nat, NEW w \in Nat \ {0}, NEW b \in Nat \ {0}
  PROVE  v % (w * b) = (v % w) + ((v \div w) % b) * w
<1> DEFINE q == v \div w
           r == v % w
           p == q \div b
           d == q % b
           c == w * b
<1>1. q \in Nat /\ r \in 0..(w - 1) /\ v = w * q + r
  BY DivMod
<1>2. p \in Nat /\ d \in 0..(b - 1) /\ q = b * p + d
  <2> HIDE DEF q
  <2> QED
    BY <1>1, DivMod
<1>3. c \in Nat \ {0}
  <2>1. 1 * b <= w * b /\ w * b \in Nat /\ 1 * b = b
    BY TimesMonotone
  <2> QED
    BY <2>1
<1> HIDE DEF q, r, p, d
<1> DEFINE s == r + d * w
<1>4. s \in 0..(c - 1)
  <2>1. d \in Nat /\ d + 1 <= b /\ (d + 1) * w <= b * w /\ (d + 1) * w = d * w + w /\ d * w \in Nat
    BY <1>2, TimesMonotone
  <2>2. b * w = c
    OBVIOUS
  <2> DEFINE e == d * w
  <2>3. e \in Nat /\ e + w <= c /\ s = r + e /\ c \in Nat
    BY <1>3, <2>1, <2>2
  <2> HIDE DEF e, c, s
  <2> QED
    BY <1>1, <2>3
<1>5. v = p * c + s
  <2>1. w * (b * p + d) = p * c + d * w
    BY <1>1, <1>2
  <2>2. v = w * (b * p + d) + r
    BY <1>1, <1>2
  <2> DEFINE e == d * w
             f == p * c
             g == w * (b * p + d)
  <2>3. e \in Int /\ f \in Int /\ g = f + e /\ v = g + r /\ s = r + e /\ r \in Int
    BY <1>1, <1>2, <1>3, <2>1, <2>2
  <2> HIDE DEF e, f, g, s
  <2>4. v = f + s
    BY <2>3
  <2> QED
    BY <2>4 DEF f
<1> HIDE DEF s, c
<1>6. v % c = s
  BY <1>2, <1>3, <1>4, <1>5, DivUnique
<1> QED
  BY <1>6 DEF c, s, r, d, q

\* The limbs of a number stand for it, as far as they go.
Counts(l, v, b, n) == Limbs(l, b, n) /\ \A i \in 0..n : Value(l, b, i) = (v % Weight(b)[i])

\* A number's limbs stand for its remainder by the place above them.
LEMMA LimbsOfNumber ==
  ASSUME NEW b \in Nat \ {0}, NEW n \in 0..18, NEW v \in Nat
  PROVE  Counts(LimbsOf(v, b, n), v, b, n)
<1> DEFINE d == LimbsOf(v, b, n)
           good == {i \in 0..n : Value(d, b, i) = v % Weight(b)[i]}
<1>1. \A i \in 1..n : i - 1 \in 0..n /\ i - 1 \in 0..18 /\ i \in 0..18 /\ i \in 0..n /\ i \in 1..18
  OBVIOUS
<1>2. \A i \in 1..n : d[i] = (v \div Weight(b)[i - 1]) % b
  <2>1. \A i \in 1..n : Powers(b, n)[i - 1] = Weight(b)[i - 1]
    BY <1>1, PowersAre
  <2>2. d = [i \in 1..n |-> (v \div Powers(b, n)[i - 1]) % b]
    BY DEF LimbsOf
  <2> HIDE DEF d
  <2> QED
    BY <2>1, <2>2
<1> HIDE DEF d
<1>3. ASSUME NEW i \in 1..n PROVE d[i] \in 0..(b - 1)
  <2> DEFINE w == Weight(b)[i - 1]
             q == v \div w
  <2>1. w \in Nat \ {0}
    BY <1>1, Weights
  <2> HIDE DEF w
  <2>2. q \in Nat
    BY <2>1, DivMod
  <2>3. d[i] = q % b
    BY <1>2 DEF w
  <2> HIDE DEF q
  <2> QED
    BY <2>2, <2>3, DivMod
<1>4. Limbs(d, b, n)
  BY <1>3 DEF Limbs
<1>5. AreDigits(d, n) /\ n \in Nat
  BY <1>4, LimbsAreDigits
<1>6. 0 \in good
  <2>1. v % 1 = 0
    <3>1. v = v * 1 + 0 /\ 0 \in 0..(1 - 1) /\ 1 \in Nat \ {0} /\ 0 \in Nat
      OBVIOUS
    <3> QED
      BY ONLY <3>1, v \in Nat, DivUnique
  <2> QED
    BY <1>5, <2>1, ValueIs, Weights
<1>7. ASSUME NEW i \in 1..n, i - 1 \in good PROVE i \in good
  <2> DEFINE w == Weight(b)[i - 1]
  <2>1. /\ w \in Nat \ {0} /\ Weight(b)[i] = w * b /\ i \in 0..n
        /\ Value(d, b, i) = Value(d, b, i - 1) + d[i] * w
    BY <1>5, DigitIs
  <2>2. Value(d, b, i - 1) = v % w /\ d[i] = (v \div w) % b
    BY <1>2, <1>7
  <2> HIDE DEF w
  <2>3. v % (w * b) = (v % w) + ((v \div w) % b) * w
    BY <2>1, ModSplit
  <2> QED
    BY <2>1, <2>2, <2>3
<1>8. \A i \in 0..n : i \in good
  <2> HIDE DEF good
  <2> QED
    BY <1>5, <1>6, <1>7, UpTo
<1> QED
  BY <1>4, <1>8 DEF d, Counts

\* Of some limbs one is the highest.
LEMMA HighestOf ==
  ASSUME NEW n \in Nat, NEW S \in SUBSET (1..n), S # {}
  PROVE  \E k \in S : \A j \in S : j <= k
<1> DEFINE low == {n - y : y \in S}
<1>1. low \subseteq Nat /\ low # {}
  <2>1. \A y \in 1..n : n - y \in Nat
    OBVIOUS
  <2> QED
    BY <2>1
<1>2. PICK m \in low : \A k \in low : m <= k
  <2> HIDE DEF low
  <2> QED
    BY <1>1, LeastOf
<1>3. PICK x \in S : m = n - x
  BY <1>2
<1>4. ASSUME NEW y \in S PROVE y <= x
  <2>1. n - y \in low /\ x \in Int /\ y \in Int
    OBVIOUS
  <2>2. n - x <= n - y
    <3> HIDE DEF low
    <3> QED
      BY <1>2, <1>3, <2>1
  <2> QED
    BY <2>1, <2>2
<1> QED
  BY <1>4

\* The highest limb that differs decides.
LEMMA HighestDecides ==
  ASSUME NEW b \in Nat \ {0}, NEW l, NEW m, NEW n, Limbs(l, b, n), Limbs(m, b, n),
         NEW k \in 1..n, l[k] < m[k], \A j \in 1..n : k < j => l[j] = m[j]
  PROVE  Value(l, b, n) < Value(m, b, n)
<1>1. AreDigits(l, n) /\ AreDigits(m, n) /\ n \in Nat /\ n \in 0..18
  BY LimbsAreDigits, ValueIs DEF Limbs
<1> DEFINE good == {i \in 0..n : k <= i => Value(l, b, i) < Value(m, b, i)}
<1>2. 0 \in good
  BY <1>1
<1>3. ASSUME NEW i \in 1..n, i - 1 \in good PROVE i \in good
  <2> DEFINE w == Weight(b)[i - 1]
             u == Value(l, b, i - 1)
             v == Value(m, b, i - 1)
             x == l[i]
             y == m[i]
  <2>1. /\ w \in Nat \ {0} /\ u \in Int /\ x \in Int /\ i \in 0..n /\ i - 1 \in 0..n
        /\ Value(l, b, i) = u + x * w
    <3> HIDE DEF good
    <3>1. w \in Nat \ {0} /\ u \in Int /\ x \in Int
      BY <1>1, DigitIs
    <3>2. Value(l, b, i) = u + x * w
      BY <1>1, DigitIs
    <3>3. i \in 0..n /\ i - 1 \in 0..n
      BY <1>1
    <3> QED
      BY <3>1, <3>2, <3>3
  <2>2. v \in Int /\ y \in Int /\ Value(m, b, i) = v + y * w
    BY <1>1, DigitIs
  <2>3. u < w /\ v \in Nat /\ x \in Nat /\ y \in Nat
    <3>1. u < w /\ v \in Nat
      BY <2>1, LimbsBounded
    <3>2. x \in Nat /\ y \in Nat
      BY DEF Limbs
    <3> QED
      BY <3>1, <3>2
  <2>4. CASE k < i
    <3>1. x = y
      BY <2>4
    <3>2. k <= i - 1
      BY <2>4
    <3>3. u < v
      BY <1>3, <3>2
    <3> HIDE DEF w, u, v, x, y
    <3>4. u + x * w < v + y * w
      <4> DEFINE p == x * w
      <4>1. p \in Int /\ p = y * w
        BY <2>1, <3>1
      <4> HIDE DEF p
      <4>2. u + p < v + p
        BY <2>1, <2>2, <3>3, <4>1
      <4> QED
        BY <4>1, <4>2 DEF p
    <3> QED
      BY <2>1, <2>2, <3>4
  <2>5. CASE k = i
    <3>1. x < y
      BY <2>5
    <3> HIDE DEF w, u, v, x, y
    <3>2. (x + 1) * w <= y * w /\ (x + 1) * w = x * w + w
      <4>1. x + 1 <= y /\ x + 1 \in Nat
        BY <2>3, <3>1
      <4> QED
        BY <2>1, <2>3, <4>1, TimesMonotone
    <3>3. u + x * w < v + y * w
      <4> DEFINE p == x * w
                 q == y * w
      <4>1. p \in Int /\ q \in Int /\ p + w <= q
        BY <2>1, <2>3, <3>2
      <4> HIDE DEF p, q
      <4>2. u + p < v + q
        BY <2>1, <2>2, <2>3, <4>1
      <4> QED
        BY <4>2 DEF p, q
    <3> QED
      BY <2>1, <2>2, <3>3
  <2>6. CASE i < k
    BY <2>1, <2>6
  <2> QED
    BY <2>4, <2>5, <2>6
<1>4. \A i \in 0..n : i \in good
  <2> HIDE DEF good
  <2> QED
    BY <1>1, <1>2, <1>3, UpTo
<1>5. n \in 0..n /\ k <= n
  BY <1>1
<1> QED
  BY <1>4, <1>5

\* Limbs are the same or their highest that differs decides between them.
LEMMA Trichotomy ==
  ASSUME NEW b \in Nat \ {0}, NEW l, NEW m, NEW n, Limbs(l, b, n), Limbs(m, b, n)
  PROVE  \/ (\A i \in 1..n : l[i] = m[i]) /\ Value(l, b, n) = Value(m, b, n)
         \/ \E k \in 1..n : /\ l[k] < m[k] /\ \A j \in 1..n : k < j => l[j] = m[j]
                            /\ Value(l, b, n) < Value(m, b, n)
         \/ \E k \in 1..n : /\ m[k] < l[k] /\ \A j \in 1..n : k < j => l[j] = m[j]
                            /\ Value(m, b, n) < Value(l, b, n)
<1> DEFINE S == {i \in 1..n : l[i] # m[i]}
<1>1. AreDigits(l, n) /\ n \in Nat
  BY LimbsAreDigits, ValueIs
<1>2. CASE S = {}
  <2>1. \A i \in 1..n : m[i] = l[i]
    BY <1>2
  <2>2. n \in 0..n
    BY <1>1
  <2> QED
    BY <1>1, <2>1, <2>2, SameValue
<1>3. CASE S # {}
  <2>1. PICK k \in S : \A j \in S : j <= k
    <3>1. S \in SUBSET (1..n)
      OBVIOUS
    <3> HIDE DEF S
    <3> QED
      BY <1>1, <1>3, <3>1, HighestOf
  <2>2. \A j \in 1..n : k < j => l[j] = m[j]
    <3> SUFFICES ASSUME NEW j \in 1..n, k < j, l[j] # m[j] PROVE FALSE
      OBVIOUS
    <3>1. j <= k
      BY <2>1
    <3>2. k \in Int /\ j \in Int
      BY <1>1
    <3> QED
      BY <3>1, <3>2
  <2>3. k \in 1..n /\ l[k] \in Int /\ m[k] \in Int /\ l[k] # m[k]
    BY DEF Limbs
  <2>4. CASE l[k] < m[k]
    BY <2>2, <2>3, <2>4, HighestDecides
  <2>5. CASE m[k] < l[k]
    BY <2>2, <2>3, <2>5, HighestDecides
  <2> QED
    BY <2>3, <2>4, <2>5
<1> QED
  BY <1>2, <1>3

\* greater_than_or_equal_prime and field_compare compare the numbers.
LEMMA Compare ==
  ASSUME NEW b \in Nat \ {0}, NEW l, NEW m, NEW n, Limbs(l, b, n), Limbs(m, b, n),
         DOMAIN l = 1..n
  PROVE  AtLeast(l, m) <=> Value(m, b, n) <= Value(l, b, n)
<1>1. n \in Nat /\ Value(l, b, n) \in Int /\ Value(m, b, n) \in Int
  <2>1. AreDigits(l, n) /\ AreDigits(m, n)
    BY LimbsAreDigits
  <2>2. n \in Nat /\ n \in 0..n
    BY <2>1, ValueIs
  <2> QED
    BY <2>1, <2>2, ValueIs
<1>2. \A i \in 1..n : l[i] \in Int /\ m[i] \in Int
  BY DEF Limbs
<1>3. CASE (\A i \in 1..n : l[i] = m[i]) /\ Value(l, b, n) = Value(m, b, n)
  BY <1>1, <1>2, <1>3 DEF AtLeast
<1>4. CASE \E k \in 1..n : /\ l[k] < m[k] /\ \A j \in 1..n : k < j => l[j] = m[j]
                           /\ Value(l, b, n) < Value(m, b, n)
  <2>1. PICK k \in 1..n : /\ l[k] < m[k] /\ \A j \in 1..n : k < j => l[j] = m[j]
                          /\ Value(l, b, n) < Value(m, b, n)
    BY <1>4
  <2>2. ~AtLeast(l, m)
    <3>1. ASSUME NEW j \in 1..n, j > k, l[j] > m[j] PROVE FALSE
      <4>1. k < j
        BY <1>1, <3>1
      <4>2. l[j] = m[j] /\ l[j] \in Int
        BY <1>2, <2>1, <4>1
      <4> QED
        BY <3>1, <4>2
    <3> QED
      BY <2>1, <3>1 DEF AtLeast
  <2> QED
    BY <1>1, <2>1, <2>2
<1>5. CASE \E k \in 1..n : /\ m[k] < l[k] /\ \A j \in 1..n : k < j => l[j] = m[j]
                           /\ Value(m, b, n) < Value(l, b, n)
  <2>1. PICK k \in 1..n : /\ m[k] < l[k] /\ \A j \in 1..n : k < j => l[j] = m[j]
                          /\ Value(m, b, n) < Value(l, b, n)
    BY <1>5
  <2>2. ASSUME NEW i \in 1..n, l[i] < m[i] PROVE k > i
    <3>1. l[i] \in Int /\ m[i] \in Int /\ i \in Int /\ k \in Int
      BY <1>1, <1>2
    <3>2. l[i] # m[i]
      BY <2>2, <3>1
    <3>3. ~(k < i)
      BY <2>1, <3>2
    <3>4. k # i
      BY <1>2, <2>1, <2>2
    <3> QED
      BY <3>1, <3>3, <3>4
  <2>3. l[k] > m[k]
    BY <1>2, <2>1
  <2>4. AtLeast(l, m)
    BY <2>2, <2>3 DEF AtLeast
  <2> QED
    BY <1>1, <2>1, <2>4
<1> QED
  BY <1>3, <1>4, <1>5, Trichotomy

\* Limbs are those of their value.
LEMMA LimbsOfValue ==
  ASSUME NEW b \in Nat \ {0}, NEW l, NEW n, Limbs(l, b, n), NEW v \in Nat,
         Value(l, b, n) = v
  PROVE  \A i \in 1..n : LimbsOf(v, b, n)[i] = l[i]
<1> DEFINE m == LimbsOf(v, b, n)
<1>1. n \in 0..18 /\ n \in Nat /\ n \in 0..n
  BY DEF Limbs
<1>2. Limbs(m, b, n) /\ Value(m, b, n) = v % Weight(b)[n]
  BY <1>1, LimbsOfNumber DEF Counts
<1>3. v < Weight(b)[n] /\ Weight(b)[n] \in Nat \ {0}
  BY <1>1, LimbsBounded, Weights
<1>4. v % Weight(b)[n] = v
  <2> DEFINE w == Weight(b)[n]
  <2>1. w \in Nat \ {0} /\ v < w
    BY <1>3
  <2> HIDE DEF w
  <2>2. v = 0 * w + v /\ v \in 0..(w - 1) /\ 0 \in Nat
    BY <2>1
  <2>3. v % w = v
    BY ONLY <2>1, <2>2, v \in Nat, DivUnique
  <2> QED
    BY <2>3 DEF w
<1> HIDE DEF m
<1>5. Value(m, b, n) = Value(l, b, n) /\ Value(l, b, n) \in Int
  BY <1>2, <1>4
<1>6. \A i \in 1..n : m[i] = l[i]
  BY <1>2, <1>5, Trichotomy
<1> QED
  BY <1>6 DEF m

--------------------------------------------------------------------------------
(* Loops over limbs.                                                            *)

\* A step from the limbs below: what it appends and what it carries.
LimbStep(step, acc, i) ==
  [limbs |-> Append(acc.limbs, step[i][acc.carry].limb), carry |-> step[i][acc.carry].carry]

\* Each of count steps leaves one of L and carries one of C.
Stepping(step, count, L, C) ==
  /\ count \in Nat /\ 0 \in C
  /\ \A i \in 1..count, c \in C : step[i][c].limb \in L /\ step[i][c].carry \in C

\* The loop, one limb at a time.
LEMMA EachLimbRuns ==
  ASSUME NEW each, NEW count, NEW L, NEW C, Stepping(each, count, L, C)
  PROVE  \E run \in [0..count -> [limbs : Seq(L), carry : C]] :
           /\ run[0] = [limbs |-> <<>>, carry |-> 0] /\ EachLimb(each, count) = run[count]
           /\ \A i \in 1..count : run[i] = LimbStep(each, run[i - 1], i)
<1> DEFINE n == count
           D == [limbs : Seq(L), carry : C]
           base == [limbs |-> <<>>, carry |-> 0]
           Loop(f) == [i \in 0..n |-> IF i = 0 THEN base ELSE LimbStep(each, f[i - 1], i)]
           step == [e \in (1..n) \X D |-> LimbStep(each, e[2], e[1])]
           iter == CHOOSE f : f = Loop(f)
<1>1. n \in Nat
  BY DEF Stepping
<1>2. base \in D /\ \A i \in 1..n, acc \in D : LimbStep(each, acc, i) \in D
  <2>1. base \in D
    BY DEF Stepping
  <2>2. ASSUME NEW i \in 1..n, NEW acc \in D PROVE LimbStep(each, acc, i) \in D
    <3>1. acc.limbs \in Seq(L) /\ acc.carry \in C
      OBVIOUS
    <3>2. each[i][acc.carry].limb \in L /\ each[i][acc.carry].carry \in C
      BY <3>1 DEF Stepping
    <3>3. Append(acc.limbs, each[i][acc.carry].limb) \in Seq(L)
      BY <3>1, <3>2, AppendProperties
    <3> QED
      BY <3>2, <3>3 DEF LimbStep
  <2> HIDE DEF D, base
  <2> QED
    BY <2>1, <2>2
<1>3. EachLimb(each, count) = iter[n]
  BY DEF EachLimb, LimbStep
<1>4. PICK g \in [0..n -> D] : Recursive(g, n, base, step)
  <2>1. step \in [(1..n) \X D -> D]
    <3> HIDE DEF D, base, n
    <3> QED
      BY <1>2
  <2> HIDE DEF D, base, step, n
  <2> QED
    BY ONLY <1>1, <1>2, <2>1, RecursionExists
<1>5. g[0] = base /\ \A i \in 1..n : i - 1 \in 0..n /\ i # 0 /\ g[i] = LimbStep(each, g[i - 1], i)
  <2> HIDE DEF D, base, n
  <2>1. ASSUME NEW i \in 1..n PROVE i - 1 \in 0..n /\ i # 0 /\ g[i] = LimbStep(each, g[i - 1], i)
    <3>1. i - 1 \in 0..n /\ i # 0
      BY <1>1
    <3>2. g[i] = step[<<i, g[i - 1]>>] /\ g[i - 1] \in D
      <4> HIDE DEF step
      <4> QED
        BY <1>4, <3>1 DEF Recursive
    <3> QED
      BY <3>1, <3>2
  <2>2. g[0] = base
    <3> HIDE DEF step
    <3> QED
      BY <1>4 DEF Recursive
  <2> QED
    BY <2>1, <2>2
<1>6. \A i \in 0..n : i # 0 => i \in 1..n
  <2> HIDE DEF n
  <2> QED
    BY <1>1
<1>7. g = Loop(g)
  <2> HIDE DEF D, base, n
  <2>1. \A i \in 0..n : g[i] = Loop(g)[i]
    BY <1>5, <1>6
  <2> QED
    BY <1>4, <2>1
<1>8. iter = Loop(iter)
  <2> HIDE DEF Loop
  <2> QED
    BY <1>7
<1>9. iter[0] = base /\ \A i \in 1..n : iter[i] = LimbStep(each, iter[i - 1], i)
  <2> HIDE DEF iter, base, n
  <2>1. \A i \in 0..n : iter[i] = Loop(iter)[i]
    BY <1>8
  <2>2. 0 \in 0..n /\ \A i \in 1..n : i \in 0..n /\ i # 0
    BY <1>1
  <2> QED
    BY <2>1, <2>2
<1>10. \A i \in 0..n : iter[i] = g[i]
  <2> DEFINE same == {i \in 0..n : iter[i] = g[i]}
  <2>1. 0 \in same
    <3> HIDE DEF D, iter, base, n
    <3>1. iter[0] = g[0]
      BY ONLY <1>5, <1>9
    <3> QED
      BY <1>1, <3>1
  <2>2. ASSUME NEW i \in 1..n, i - 1 \in same PROVE i \in same
    <3>1. iter[i - 1] = g[i - 1]
      BY <2>2
    <3> HIDE DEF iter, base, n
    <3>2. i \in 0..n
      BY <1>1
    <3> QED
      BY <1>5, <1>9, <3>1, <3>2
  <2> HIDE DEF same, n
  <2>3. \A i \in 0..n : i \in same
    BY <1>1, <2>1, <2>2, UpTo
  <2> QED
    BY <2>3 DEF same
<1> QED
  <2>1. n \in 0..n
    <3> HIDE DEF n
    <3> QED
      BY <1>1
  <2> HIDE DEF iter
  <2> QED
    BY <1>3, <1>4, <1>5, <1>10, <2>1

\* The carries c that a loop goes through.
Rippled(c, each, count, L, C) ==
  /\ c[0] = 0 /\ \A i \in 0..count : c[i] \in C
  /\ EachLimb(each, count).limbs \in [1..count -> L] /\ EachLimb(each, count).carry = c[count]
  /\ \A i \in 1..count :
       EachLimb(each, count).limbs[i] = each[i][c[i - 1]].limb /\ c[i] = each[i][c[i - 1]].carry

\* The loop as the limbs it leaves and the carries it goes through.
LEMMA EachLimbIs ==
  ASSUME NEW each, NEW count, NEW L, NEW C, Stepping(each, count, L, C)
  PROVE  \E c : Rippled(c, each, count, L, C)
<1> DEFINE D == [limbs : Seq(L), carry : C]
<1>1. PICK g \in [0..count -> D] :
        /\ g[0] = [limbs |-> <<>>, carry |-> 0] /\ EachLimb(each, count) = g[count]
        /\ \A i \in 1..count : g[i] = LimbStep(each, g[i - 1], i)
  <2> HIDE DEF D
  <2> QED
    BY EachLimbRuns DEF D
<1>2. count \in Nat
  BY DEF Stepping
<1> DEFINE c == [i \in 0..count |-> g[i].carry]
           good == {i \in 0..count :
                      /\ Len(g[i].limbs) = i
                      /\ \A j \in 1..i : g[i].limbs[j] = each[j][c[j - 1]].limb}
<1>3. \A i \in 0..count : g[i].limbs \in Seq(L) /\ g[i].carry \in C /\ c[i] = g[i].carry
  BY <1>1
<1>4. 0 \in good
  <2>1. g[0].limbs = <<>>
    BY <1>1
  <2> QED
    BY <1>2, <2>1
<1>5. ASSUME NEW i \in 1..count
      PROVE  /\ i \in 0..count /\ i - 1 \in 0..count /\ c[i - 1] \in C
             /\ g[i].limbs = Append(g[i - 1].limbs, each[i][c[i - 1]].limb)
             /\ c[i] = each[i][c[i - 1]].carry /\ each[i][c[i - 1]].limb \in L
  <2>1. i \in 0..count /\ i - 1 \in 0..count
    BY <1>2
  <2>2. g[i] = LimbStep(each, g[i - 1], i) /\ c[i - 1] = g[i - 1].carry /\ c[i] = g[i].carry
        /\ c[i - 1] \in C
    BY <1>1, <1>3, <2>1
  <2> HIDE DEF c
  <2>3. g[i].limbs = Append(g[i - 1].limbs, each[i][c[i - 1]].limb)
        /\ g[i].carry = each[i][c[i - 1]].carry
    BY <2>2 DEF LimbStep
  <2> QED
    BY <2>1, <2>2, <2>3 DEF Stepping
<1> HIDE DEF c
<1>6. ASSUME NEW i \in 1..count, i - 1 \in good PROVE i \in good
  <2> DEFINE s == g[i - 1].limbs
             e == each[i][c[i - 1]].limb
  <2>1. s \in Seq(L) /\ Len(s) = i - 1 /\ e \in L /\ g[i].limbs = Append(s, e) /\ i \in 0..count
        /\ \A j \in 1..(i - 1) : s[j] = each[j][c[j - 1]].limb
    BY <1>3, <1>5, <1>6
  <2> HIDE DEF s
  <2>2. Len(Append(s, e)) = i /\ Append(s, e)[i] = e /\ \A j \in 1..(i - 1) : Append(s, e)[j] = s[j]
    <3> HIDE DEF e
    <3>1. Len(Append(s, e)) = Len(s) + 1 /\ Append(s, e)[Len(s) + 1] = e
          /\ \A j \in 1..Len(s) : Append(s, e)[j] = s[j]
      BY <2>1, AppendProperties
    <3>2. i \in Int
      BY <1>2
    <3> QED
      BY <2>1, <3>1, <3>2
  <2>3. ASSUME NEW j \in 1..i PROVE Append(s, e)[j] = each[j][c[j - 1]].limb
    <3>1. CASE j = i
      BY <2>2, <3>1
    <3>2. CASE j # i
      <4>1. j \in 1..(i - 1)
        BY <1>2, <3>2
      <4> QED
        BY <2>1, <2>2, <4>1
    <3> QED
      BY <3>1, <3>2
  <2> QED
    BY <2>1, <2>2, <2>3
<1>7. \A i \in 0..count : i \in good
  <2> HIDE DEF good
  <2> QED
    BY <1>2, <1>4, <1>6, UpTo
<1>8. count \in 0..count
  BY <1>2
<1>9. EachLimb(each, count).limbs = g[count].limbs /\ EachLimb(each, count).carry = c[count]
  BY <1>1, <1>3, <1>8
<1>10. /\ g[count].limbs \in Seq(L) /\ Len(g[count].limbs) = count
       /\ \A j \in 1..count : g[count].limbs[j] = each[j][c[j - 1]].limb
  BY <1>3, <1>7, <1>8
<1>11. g[count].limbs \in [1..count -> L]
  BY <1>10
<1>12. c[0] = 0
  BY <1>1, <1>2, <1>3
<1>13. Rippled(c, each, count, L, C)
  BY <1>3, <1>5, <1>9, <1>10, <1>11, <1>12 DEF Rippled
<1> QED
  BY <1>13

\* The same, with the hypotheses and the conclusion named.
Carries(x, m, c, b, n) ==
  /\ AreDigits(x, n) /\ AreDigits(m, n) /\ \A i \in 0..n : c[i] \in Int
  /\ \A i \in 1..n : x[i] + c[i - 1] = m[i] + b * c[i]
CarriesOut(x, m, c, b, n) == Value(x, b, n) + c[0] = Value(m, b, n) + Weight(b)[n] * c[n]

\* What the carries leave is worth as much.
LEMMA CarriesAre ==
  ASSUME NEW b \in Nat \ {0}, NEW x, NEW m, NEW c, NEW n, Carries(x, m, c, b, n)
  PROVE  CarriesOut(x, m, c, b, n)
BY Carried DEF Carries, CarriesOut

\* Digits that are all zero are worth nothing.
LEMMA NothingIs ==
  ASSUME NEW b \in Nat \ {0}, NEW l, NEW n \in 0..18, \A i \in 1..n : l[i] = 0
  PROVE  AreDigits(l, n) /\ Value(l, b, n) = 0
<1>1. AreDigits(l, n) /\ n \in Nat /\ n \in 0..n
  BY DEF AreDigits
<1>2. \A i \in 1..n : 0 <= l[i] /\ l[i] <= (b - 1) * 0
  OBVIOUS
<1>3. 0 <= Value(l, b, n) /\ Value(l, b, n) <= 0 * (Weight(b)[n] - 1)
  BY <1>1, <1>2, 0 \in Nat, Bounded
<1>4. Weight(b)[n] \in Nat /\ Value(l, b, n) \in Int
  BY <1>1, Weights, ValueIs
<1>5. 0 * (Weight(b)[n] - 1) = 0
  BY <1>4
<1> QED
  BY <1>1, <1>3, <1>4, <1>5

\* The places multiply as powers do.
LEMMA WeightsMultiply ==
  ASSUME NEW b \in Nat \ {0}, NEW k \in 0..18, NEW m \in 0..(18 - k)
  PROVE  Weight(b)[k + m] = Weight(b)[k] * Weight(b)[m]
<1> DEFINE n == 18 - k
           good == {i \in 0..n : Weight(b)[k + i] = Weight(b)[k] * Weight(b)[i]}
<1>1. n \in Nat
  OBVIOUS
<1>2. 0 \in good
  <2>1. Weight(b)[k] \in Nat /\ Weight(b)[0] = 1 /\ k + 0 = k
    BY Weights
  <2> QED
    BY <1>1, <2>1
<1>3. ASSUME NEW i \in 1..n, i - 1 \in good PROVE i \in good
  <2> DEFINE p == Weight(b)[k]
             q == Weight(b)[i - 1]
  <2>1. k + i \in 1..18 /\ (k + i) - 1 = k + (i - 1) /\ i \in 1..18 /\ i - 1 \in 0..18 /\ i \in 0..n
    OBVIOUS
  <2>2. Weight(b)[k + i] = Weight(b)[k + (i - 1)] * b /\ Weight(b)[i] = q * b
    BY <2>1, Weights
  <2>3. p \in Nat /\ q \in Nat
    BY <2>1, Weights
  <2>4. Weight(b)[k + (i - 1)] = p * q
    BY <1>3
  <2> HIDE DEF p, q
  <2>5. (p * q) * b = p * (q * b)
    BY <2>3
  <2> QED
    BY <2>1, <2>2, <2>4, <2>5 DEF p
<1>4. \A i \in 0..n : i \in good
  <2> HIDE DEF good, n
  <2> QED
    BY <1>1, <1>2, <1>3, UpTo
<1> QED
  BY <1>4

\* y has the digits of l above the k-th, and they are worth their own value in the k-th place.
Divides(y, l, k, n, m) ==
  AreDigits(l, n) /\ k \in 0..n /\ m = n - k /\ \A i \in 1..m : y[i] = l[k + i]
Divided(y, l, k, n, m, b) ==
  AreDigits(y, m) /\ Value(l, b, n) = Value(l, b, k) + Weight(b)[k] * Value(y, b, m)

\* The value in two parts.
LEMMA Split ==
  ASSUME NEW b \in Nat \ {0}, NEW l, NEW n, NEW k, NEW y, NEW m, Divides(y, l, k, n, m)
  PROVE  Divided(y, l, k, n, m, b)
<1>0. AreDigits(l, n) /\ k \in 0..n /\ m = n - k /\ \A i \in 1..m : y[i] = l[k + i]
  BY DEF Divides
<1>1. n \in 0..18 /\ m \in Nat /\ m \in 0..18 /\ k \in 0..18
  BY <1>0 DEF AreDigits
<1>2. AreDigits(y, m)
  <2>1. \A i \in 1..m : k + i \in 1..n
    BY <1>0, <1>1
  <2> QED
    BY <1>0, <1>1, <2>1 DEF AreDigits
<1> DEFINE good == {i \in 0..m : Value(l, b, k + i)
                                   = Value(l, b, k) + Weight(b)[k] * Value(y, b, i)}
<1>3. 0 \in good
  <2>1. k + 0 = k /\ Value(l, b, k) \in Int /\ Weight(b)[k] \in Int /\ Value(y, b, 0) = 0
    <3>1. Value(l, b, k) \in Int
      BY <1>0, ValueIs
    <3>2. Weight(b)[k] \in Int
      BY <1>1, Weights
    <3>3. Value(y, b, 0) = 0
      BY <1>2, ValueIs
    <3>4. k + 0 = k
      BY <1>1
    <3> QED
      BY <3>1, <3>2, <3>3, <3>4
  <2> QED
    BY <1>1, <2>1
<1>4. ASSUME NEW i \in 1..m, i - 1 \in good PROVE i \in good
  <2> DEFINE w == Weight(b)[k]
             v == Weight(b)[i - 1]
             u == Value(l, b, k)
             d == Value(y, b, i - 1)
             x == y[i]
  <2>1. k + i \in 1..n /\ (k + i) - 1 = k + (i - 1) /\ i - 1 \in 0..(18 - k) /\ i \in 0..m
    BY <1>0, <1>1
  <2>2. Value(l, b, k + i) = Value(l, b, k + (i - 1)) + x * Weight(b)[k + (i - 1)]
    <3>1. Value(l, b, k + i) = Value(l, b, (k + i) - 1) + l[k + i] * Weight(b)[(k + i) - 1]
      BY <1>0, <2>1, ValueIs
    <3> QED
      BY <1>0, <2>1, <3>1
  <2>3. Weight(b)[k + (i - 1)] = w * v
    BY <1>1, <2>1, WeightsMultiply
  <2>4. Value(y, b, i) = d + x * v /\ d \in Int /\ x \in Int /\ v \in Int
    BY <1>2, DigitIs
  <2>5. Value(l, b, k + (i - 1)) = u + w * d
    BY <1>4
  <2>6. u \in Int /\ w \in Int
    <3>1. Value(l, b, k) \in Int
      BY <1>0, ValueIs
    <3>2. Weight(b)[k] \in Int
      BY <1>1, Weights
    <3> QED
      BY <3>1, <3>2
  <2> HIDE DEF w, v, u, d, x
  <2>7. (u + w * d) + x * (w * v) = u + w * (d + x * v)
    BY <2>4, <2>6
  <2> QED
    BY <2>1, <2>2, <2>3, <2>4, <2>5, <2>7 DEF u, w
<1>5. \A i \in 0..m : i \in good
  <2> HIDE DEF good
  <2> QED
    BY <1>1, <1>3, <1>4, UpTo
<1>6. m \in 0..m /\ k + m = n
  BY <1>0, <1>1
<1> QED
  BY <1>2, <1>5, <1>6 DEF Divided

\* Digits that stand from some place on, with nothing above and below them.
Stands(y, l, k, n, top) ==
  \A i \in 1..top : y[i] = IF i > k /\ i <= k + n THEN l[i - k] ELSE 0

\* What that makes of the value.
Raised(y, l, k, n, b, top) == AreDigits(y, top) /\ Value(y, b, top) = Weight(b)[k] * Value(l, b, n)

\* Digits that are moved up are worth as many times more.
LEMMA Shifted ==
  ASSUME NEW b \in Nat \ {0}, NEW l, NEW n \in 0..18, AreDigits(l, n), NEW k \in Nat, NEW top \in 0..18,
         k + n <= top, NEW y, Stands(y, l, k, n, top)
  PROVE  Raised(y, l, k, n, b, top)
<1>1. n \in Nat /\ n \in 0..18 /\ k \in 0..(k + n) /\ k + n \in 0..top /\ k \in 0..18 /\ k + n \in 0..18
  BY DEF AreDigits
<1>2. ASSUME NEW i \in 1..top PROVE y[i] \in Int
  <2>1. CASE i > k /\ i <= k + n
    <3>1. i - k \in 1..n
      BY <1>1, <2>1
    <3> QED
      BY <2>1, <3>1 DEF AreDigits, Stands
  <2>2. CASE ~(i > k /\ i <= k + n)
    BY <2>2 DEF Stands
  <2> QED
    BY <2>1, <2>2
<1>3. AreDigits(y, top)
  BY <1>2 DEF AreDigits
<1> DEFINE z == [i \in 1..(top - (k + n)) |-> y[(k + n) + i]]
           m == [i \in 1..((k + n) - k) |-> y[k + i]]
<1>4. Value(y, b, top) = Value(y, b, k + n) + Weight(b)[k + n] * Value(z, b, top - (k + n))
  <2>1. \A i \in 1..(top - (k + n)) : z[i] = y[(k + n) + i]
    OBVIOUS
  <2> DEFINE e == k + n
             f == top - e
  <2>2. e \in 0..top /\ f = top - e /\ \A i \in 1..f : z[i] = y[e + i]
    BY <1>1, <2>1
  <2> HIDE DEF z, e, f
  <2>3. Divides(z, y, e, top, f)
    BY <1>3, <2>2 DEF Divides
  <2>4. Divided(z, y, e, top, f, b)
    BY ONLY b \in Nat \ {0}, <2>3, Split
  <2> QED
    BY <2>4 DEF e, f, Divided
<1>5. Value(z, b, top - (k + n)) = 0
  <2>1. ASSUME NEW i \in 1..(top - (k + n)) PROVE z[i] = 0
    <3>1. (k + n) + i \in 1..top /\ ~((k + n) + i <= k + n)
      BY <1>1
    <3> QED
      BY <3>1 DEF Stands
  <2>2. top - (k + n) \in 0..18
    BY <1>1
  <2> HIDE DEF z
  <2> QED
    BY <2>1, <2>2, NothingIs
<1>6. AreDigits(y, k + n)
  BY <1>1, <1>3 DEF AreDigits
<1>7. Value(y, b, k + n) = Value(y, b, k) + Weight(b)[k] * Value(m, b, (k + n) - k)
  <2>1. \A i \in 1..((k + n) - k) : m[i] = y[k + i]
    OBVIOUS
  <2> DEFINE e == k + n
             f == e - k
  <2>2. k \in 0..e /\ \A i \in 1..f : m[i] = y[k + i]
    BY <1>1, <2>1
  <2>3. AreDigits(y, e)
    BY <1>6
  <2> HIDE DEF m, e
  <2>4. Divides(m, y, k, e, f)
    BY <2>2, <2>3 DEF Divides
  <2>5. Divided(m, y, k, e, f, b)
    BY ONLY b \in Nat \ {0}, <2>4, Split
  <2> QED
    BY <2>5 DEF e, f, Divided
<1>8. Value(y, b, k) = 0
  <2>1. \A i \in 1..k : y[i] = 0
    BY <1>1 DEF Stands
  <2> QED
    BY <1>1, <2>1, NothingIs
<1>9. Value(m, b, (k + n) - k) = Value(l, b, n)
  <2>1. (k + n) - k = n
    BY <1>1
  <2>2. ASSUME NEW i \in 1..n PROVE m[i] = l[i]
    <3>1. k + i \in 1..top /\ k + i > k /\ k + i <= k + n /\ (k + i) - k = i /\ i \in 1..((k + n) - k)
      BY <1>1
    <3> QED
      BY <3>1 DEF Stands
  <2>3. n \in 0..n
    BY <1>1
  <2> HIDE DEF m
  <2> QED
    BY <2>1, <2>2, <2>3, SameValue
<1>10. Weight(b)[k + n] \in Int /\ Weight(b)[k] \in Int /\ Value(l, b, n) \in Int
  <2>1. n \in 0..n
    BY <1>1
  <2>2. Value(l, b, n) \in Int
    BY <2>1, ValueIs
  <2>3. Weight(b)[k] \in Int
    BY <1>1, Weights
  <2>4. Weight(b)[k + n] \in Int
    BY <1>1, Weights
  <2> QED
    BY <2>2, <2>3, <2>4
<1> HIDE DEF z, m
<1> QED
  BY <1>3, <1>4, <1>5, <1>7, <1>8, <1>9, <1>10 DEF Raised

--------------------------------------------------------------------------------
(* Long multiplication.                                                         *)

\* row is p with the products of x and the limbs of right added from the place at on.
RowOf(row, p, at, x, right, b, n) ==
  /\ row.carry \in 0..(b - 1) /\ \A j \in 1..n : row.limbs[j] \in 0..(b - 1)
  /\ \E c : /\ c[0] = 0 /\ c[n] = row.carry /\ \A j \in 0..n : c[j] \in Int
            /\ \A j \in 1..n : p[at + j - 1] + x * right[j] + c[j - 1] = row.limbs[j] + b * c[j]

\* A function of n limbs.
LimbMap(p, b, n) == p \in [1..n -> 0..(b - 1)]

\* It has limbs, which are digits.
LEMMA LimbMapIs ==
  ASSUME NEW b \in Nat \ {0}, NEW n \in 0..18, NEW p, LimbMap(p, b, n)
  PROVE  Limbs(p, b, n) /\ AreDigits(p, n) /\ DOMAIN p = 1..n /\ \A i \in 1..n : p[i] \in 0..(b - 1)
<1>1. DOMAIN p = 1..n /\ \A i \in 1..n : p[i] \in 0..(b - 1)
  BY DEF LimbMap
<1>2. Limbs(p, b, n)
  BY <1>1 DEF Limbs
<1> QED
  BY <1>1, <1>2, LimbsAreDigits

\* r is p with x times the limbs of right from the place at on.
Adds(r, p, at, x, right, b, n, top) ==
  /\ LimbMap(r, b, top) /\ \A k \in 1..top : k > at + n => r[k] = p[k]
  /\ p[at + n] = 0 =>
       Value(r, b, top) = Value(p, b, top) + x * (Weight(b)[at - 1] * Value(right, b, n))

\* A row that is placed adds the product of its limb.
LEMMA PlacedIs ==
  ASSUME NEW b \in Nat \ {0}, NEW top \in 0..18, NEW n \in 0..18, NEW at \in 1..top,
         at + n <= top, NEW p, LimbMap(p, b, top), NEW right, Limbs(right, b, n),
         NEW x \in Nat, NEW row, RowOf(row, p, at, x, right, b, n)
  PROVE  Adds(Placed(p, at, row, n), p, at, x, right, b, n, top)
<1>1. top \in Nat /\ n \in Nat /\ at \in Nat /\ at - 1 \in 0..18 /\ at - 1 \in Nat
      /\ (at - 1) + n <= top
  OBVIOUS
<1>2. PICK c : /\ c[0] = 0 /\ c[n] = row.carry /\ \A j \in 0..n : c[j] \in Int
               /\ \A j \in 1..n :
                    p[at + j - 1] + x * right[j] + c[j - 1] = row.limbs[j] + b * c[j]
  BY DEF RowOf
<1>3. row.carry \in 0..(b - 1) /\ \A j \in 1..n : row.limbs[j] \in 0..(b - 1)
  BY DEF RowOf
<1> DEFINE r == Placed(p, at, row, n)
<1>4. r = [k \in 1..top |-> IF k \in at..(at + n - 1) THEN row.limbs[k - at + 1]
                            ELSE IF k = at + n THEN row.carry ELSE p[k]]
  <2>1. DOMAIN p = 1..top
    BY LimbMapIs
  <2> QED
    BY <2>1 DEF Placed
<1> HIDE DEF r
<1>5. ASSUME NEW k \in 1..top PROVE r[k] \in 0..(b - 1)
  <2>1. CASE k \in at..(at + n - 1)
    <3>1. k - at + 1 \in 1..n
      BY <1>1, <2>1
    <3> QED
      BY <1>3, <1>4, <2>1, <3>1
  <2>2. CASE k \notin at..(at + n - 1) /\ k = at + n
    BY <1>3, <1>4, <2>2
  <2>3. CASE k \notin at..(at + n - 1) /\ k # at + n
    BY <1>4, <2>3, LimbMapIs
  <2> QED
    BY <2>1, <2>2, <2>3
<1>6. LimbMap(r, b, top)
  BY <1>4, <1>5 DEF LimbMap
<1>7. ASSUME NEW k \in 1..top, k > at + n PROVE r[k] = p[k]
  <2>1. k \notin at..(at + n - 1) /\ k # at + n
    BY <1>1, <1>7
  <2> QED
    BY <1>4, <2>1
<1>8. ASSUME p[at + n] = 0
      PROVE  Value(r, b, top) = Value(p, b, top) + x * (Weight(b)[at - 1] * Value(right, b, n))
  <2> DEFINE low == at - 1
             y == [k \in 1..top |-> IF k > low /\ k <= low + n THEN right[k - low] ELSE 0]
             s == [k \in 1..top |-> p[k] + x * y[k]]
             cc == [k \in 0..top |-> IF k \in at..(at + n - 1) THEN c[k - at + 1] ELSE 0]
  <2>1. AreDigits(right, n) /\ AreDigits(p, top) /\ AreDigits(r, top)
    <3>1. AreDigits(right, n)
      BY <1>1, LimbsAreDigits
    <3> QED
      BY <1>6, <3>1, LimbMapIs
  <2>2. AreDigits(y, top) /\ Value(y, b, top) = Weight(b)[low] * Value(right, b, n)
    <3>1. Stands(y, right, low, n, top)
      BY DEF Stands
    <3>3. AreDigits(right, n)
      BY <2>1
    <3>2. low \in Nat /\ low + n <= top
      BY <1>1
    <3> HIDE DEF y, low
    <3> QED
      <4>1. PICK k \in Nat : k = low
        BY <3>2
      <4>2. Stands(y, right, k, n, top) /\ k + n <= top
        BY ONLY <3>1, <3>2, <4>1
      <4>3. Raised(y, right, k, n, b, top)
        BY ONLY b \in Nat \ {0}, top \in 0..18, n \in 0..18, <3>3, <4>2, Shifted
      <4> QED
        BY ONLY <4>1, <4>3 DEF Raised
  <2>21. AreDigits(p, top) /\ AreDigits(y, top)
    BY <2>1, <2>2
  <2>3. AreDigits(s, top) /\ Value(s, b, top) = Value(p, b, top) + x * Value(y, b, top)
    <3>1. \A i \in 1..top : s[i] = p[i] + x * y[i]
      OBVIOUS
    <3>2. x \in Int
      OBVIOUS
    <3> HIDE DEF s, y
    <3>3. Combines(s, p, y, x, top)
      BY <2>21, <3>1 DEF Combines
    <3>4. Combined(s, p, y, x, b, top)
      BY ONLY b \in Nat \ {0}, <3>2, <3>3, Linear
    <3> QED
      BY <3>4 DEF Combined
  <2>4. ASSUME NEW k \in 0..top PROVE cc[k] \in Int
    <3>1. CASE k \in at..(at + n - 1)
      <4>1. k - at + 1 \in 0..n
        BY <1>1, <3>1
      <4> QED
        BY <1>2, <3>1, <4>1
    <3>2. CASE k \notin at..(at + n - 1)
      BY <3>2
    <3> QED
      BY <3>1, <3>2
  <2>5. ASSUME NEW k \in 1..top PROVE s[k] + cc[k - 1] = r[k] + b * cc[k]
    <3>0. k - 1 \in 0..top /\ k \in 0..top /\ p[k] \in Int /\ n \in Nat /\ at \in Nat
      <4>1. p[k] \in Int
        BY <2>1 DEF AreDigits
      <4> QED
        BY <1>1, <4>1
    <3>1. CASE k \in at..(at + n - 1)
      <4> DEFINE j == k - at + 1
      <4>1. /\ j \in 1..n /\ j \in 0..n /\ k > low /\ k <= low + n /\ k - low = j
            /\ at + j - 1 = k /\ j - 1 = (k - 1) - at + 1
        BY <1>1, <3>0, <3>1
      <4>2. y[k] = right[j] /\ cc[k] = c[j] /\ r[k] = row.limbs[j]
        BY <1>4, <3>0, <3>1, <4>1
      <4>3. cc[k - 1] = c[j - 1]
        <5>1. CASE k = at
          <6>1. k - 1 \notin at..(at + n - 1) /\ j - 1 = 0
            BY <3>0, <4>1, <5>1
          <6> QED
            BY <1>2, <3>0, <6>1
        <5>2. CASE k # at
          <6>1. k - 1 \in at..(at + n - 1)
            BY <3>0, <3>1, <5>2
          <6> QED
            BY <3>0, <4>1, <6>1
        <5> QED
          BY <5>1, <5>2
      <4>4. s[k] = p[k] + x * y[k]
        OBVIOUS
      <4>5. p[at + j - 1] + x * right[j] + c[j - 1] = row.limbs[j] + b * c[j]
        BY <1>2, <4>1
      <4> HIDE DEF s, y, cc, j
      <4> QED
        BY <4>1, <4>2, <4>3, <4>4, <4>5
    <3>2. CASE k = at + n
      <4>1. y[k] = 0 /\ cc[k] = 0 /\ r[k] = c[n]
        <5>1. ~(k > low /\ k <= low + n) /\ k \notin at..(at + n - 1)
          BY <3>0, <3>2
        <5> QED
          BY <1>2, <1>4, <3>0, <3>2, <5>1
      <4>2. cc[k - 1] = c[n]
        <5>1. CASE n = 0
          <6>1. k - 1 \notin at..(at + n - 1)
            BY <3>0, <3>2, <5>1
          <6> QED
            BY <1>2, <3>0, <5>1, <6>1
        <5>2. CASE n # 0
          <6>1. k - 1 \in at..(at + n - 1) /\ (k - 1) - at + 1 = n
            BY <3>0, <3>2, <5>2
          <6> QED
            BY <3>0, <6>1
        <5> QED
          BY <5>1, <5>2
      <4>3. s[k] = p[k] + x * y[k] /\ p[k] = 0
        BY <1>8, <3>2
      <4>4. c[n] \in Int
        BY <1>1, <1>2
      <4> HIDE DEF s, y, cc
      <4>5. s[k] = 0 /\ b * cc[k] = 0
        BY <1>1, <4>1, <4>3
      <4> QED
        BY <4>1, <4>2, <4>4, <4>5
    <3>3. CASE k \notin at..(at + n - 1) /\ k # at + n
      <4>1. y[k] = 0 /\ cc[k] = 0 /\ r[k] = p[k]
        <5>1. ~(k > low /\ k <= low + n)
          BY <3>0, <3>3
        <5> QED
          BY <1>4, <3>0, <3>3, <5>1
      <4>2. cc[k - 1] = 0
        <5>1. k - 1 \notin at..(at + n - 1)
          BY <3>0, <3>3
        <5> QED
          BY <3>0, <5>1
      <4>3. s[k] = p[k] + x * y[k]
        OBVIOUS
      <4> HIDE DEF s, y, cc
      <4>4. s[k] = p[k] /\ b * cc[k] = 0
        BY <1>1, <3>0, <4>1, <4>3
      <4> QED
        BY <3>0, <4>1, <4>2, <4>4
    <3> QED
      BY <3>1, <3>2, <3>3
  <2>6. cc[0] = 0 /\ cc[top] = 0
    <3>1. 0 \in 0..top /\ top \in 0..top /\ 0 \notin at..(at + n - 1) /\ top \notin at..(at + n - 1)
      BY <1>1
    <3> QED
      BY <3>1
  <2>7. Value(s, b, top) + cc[0] = Value(r, b, top) + Weight(b)[top] * cc[top]
    <3>1. AreDigits(s, top) /\ AreDigits(r, top)
      BY <2>1, <2>3
    <3>2. Carries(s, r, cc, b, top)
      <4> HIDE DEF s, cc
      <4> QED
        BY ONLY <2>4, <2>5, <3>1 DEF Carries
    <3> HIDE DEF s, cc
    <3>3. CarriesOut(s, r, cc, b, top)
      BY ONLY b \in Nat \ {0}, <3>2, CarriesAre
    <3> QED
      BY ONLY <3>3 DEF CarriesOut
  <2>8. Value(s, b, top) \in Int /\ Value(r, b, top) \in Int /\ Weight(b)[top] \in Int
    <3>1. top \in 0..top
      BY <1>1
    <3>2. Value(s, b, top) \in Int
      <4> HIDE DEF s
      <4> QED
        BY ONLY b \in Nat \ {0}, <2>3, <3>1, ValueIs
    <3>3. Value(r, b, top) \in Int
      BY ONLY b \in Nat \ {0}, <2>1, <3>1, ValueIs
    <3>4. Weight(b)[top] \in Int
      BY ONLY b \in Nat \ {0}, top \in 0..18, Weights
    <3> QED
      BY <3>2, <3>3, <3>4
  <2> HIDE DEF s, y, cc
  <2>9. Value(s, b, top) = Value(r, b, top)
    BY <2>6, <2>7, <2>8
  <2> QED
    BY <2>2, <2>3, <2>9 DEF low
<1> QED
  BY <1>6, <1>7, <1>8 DEF r, Adds

\* g adds one row after another.
Product(g, left, right, b, n) ==
  /\ \A k \in 1..(2 * n) : g[0][k] = 0
  /\ \A i \in 0..n : LimbMap(g[i], b, 2 * n)
  /\ \A i \in 1..n : \E row : /\ RowOf(row, g[i - 1], i, left[i], right, b, n)
                              /\ g[i] = Placed(g[i - 1], i, row, n)

\* The last is the product.
LEMMA ProductIs ==
  ASSUME NEW b \in Nat \ {0}, NEW n \in 1..9, NEW left, NEW right, Limbs(left, b, n),
         Limbs(right, b, n), NEW g, Product(g, left, right, b, n)
  PROVE  Value(g[n], b, 2 * n) = Value(left, b, n) * Value(right, b, n)
<1>1. /\ n \in Nat /\ n \in 0..18 /\ 2 * n \in 0..18
      /\ \A i \in 0..n : LimbMap(g[i], b, 2 * n)
  BY DEF Product
<1>2. AreDigits(left, n) /\ AreDigits(right, n)
  BY <1>1, LimbsAreDigits
<1> DEFINE V == Value(right, b, n)
           top == 2 * n
           good == {i \in 0..n : /\ Value(g[i], b, top) = Value(left, b, i) * V
                                 /\ \A k \in 1..top : k > n + i => g[i][k] = 0}
<1>3. V \in Int
  <2>1. n \in 0..n
    BY <1>1
  <2> QED
    BY <1>1, <1>2, <2>1, ValueIs
<1> HIDE DEF V
<1>4. 0 \in good
  <2>1. \A k \in 1..top : g[0][k] = 0
    BY DEF Product
  <2>2. Value(g[0], b, top) = 0
    BY <1>1, <2>1, NothingIs
  <2>3. Value(left, b, 0) = 0
    BY <1>1, <1>2, ValueIs
  <2>4. 0 * V = 0 /\ 0 \in 0..n
    BY <1>1, <1>3
  <2> HIDE DEF top
  <2> QED
    BY <2>1, <2>2, <2>3, <2>4
<1>5. ASSUME NEW i \in 1..n, i - 1 \in good PROVE i \in good
  <2>1. PICK row : /\ RowOf(row, g[i - 1], i, left[i], right, b, n)
                   /\ g[i] = Placed(g[i - 1], i, row, n)
    BY DEF Product
  <2>2. i \in 0..n /\ i - 1 \in 0..n /\ i \in 1..top /\ i + n <= top /\ i + n \in 1..top
        /\ i + n > n + (i - 1)
    BY <1>1
  <2>3. left[i] \in Nat
    BY <1>1 DEF Limbs
  <2>4. LimbMap(g[i - 1], b, top) /\ top \in 0..18
    BY <1>1, <2>2
  <2>5. g[i - 1][i + n] = 0 /\ Value(g[i - 1], b, top) = Value(left, b, i - 1) * V
    BY <1>5, <2>2
  <2> HIDE DEF top
  <2>6. /\ \A k \in 1..top : k > i + n => g[i][k] = g[i - 1][k]
        /\ Value(g[i], b, top)
             = Value(g[i - 1], b, top) + left[i] * (Weight(b)[i - 1] * V)
    <3> DEFINE q == g[i - 1]
               x == left[i]
    <3>1. x \in Nat /\ LimbMap(q, b, top) /\ RowOf(row, q, i, x, right, b, n)
          /\ q[i + n] = 0 /\ g[i] = Placed(q, i, row, n)
      BY <2>1, <2>3, <2>4, <2>5
    <3> HIDE DEF q, x
    <3>2. Adds(Placed(q, i, row, n), q, i, x, right, b, n, top)
      <4>1. i \in 1..top /\ n \in 0..18 /\ top \in 0..18 /\ i + n <= top
        BY <1>1, <2>2, <2>4
      <4> QED
        BY ONLY b \in Nat \ {0}, <3>1, <4>1, Limbs(right, b, n), PlacedIs
    <3> QED
      BY <3>1, <3>2 DEF V, q, x, Adds
  <2>7. ASSUME NEW k \in 1..top, k > n + i PROVE g[i][k] = 0
    <3>1. k > i + n /\ k > n + (i - 1)
      BY <1>1, <2>2, <2>7 DEF top
    <3>2. g[i - 1][k] = 0
      BY <1>5, <3>1
    <3> QED
      BY <2>6, <3>1, <3>2
  <2> DEFINE w == Weight(b)[i - 1]
             u == Value(left, b, i - 1)
             x == left[i]
  <2>8. w \in Int /\ u \in Int /\ x \in Int /\ Value(left, b, i) = u + x * w
    <3>1. w \in Int /\ u \in Int /\ x \in Int /\ Value(left, b, i) = u + x * w
      BY ONLY b \in Nat \ {0}, <1>2, i \in 1..n, DigitIs
    <3> QED
      BY <3>1
  <2>9. Value(g[i], b, top) = u * V + x * (w * V)
    BY <2>5, <2>6
  <2> HIDE DEF w, u, x
  <2>10. u * V + x * (w * V) = (u + x * w) * V
    BY <1>3, <2>8
  <2> QED
    BY <2>2, <2>7, <2>8, <2>9, <2>10
<1>6. \A i \in 0..n : i \in good
  <2> HIDE DEF good
  <2> QED
    BY <1>1, <1>4, <1>5, UpTo
<1>7. n \in 0..n
  BY <1>1
<1> QED
  BY <1>6, <1>7 DEF V

--------------------------------------------------------------------------------
(* The sizes.                                                                   *)

\* What the assumption says of the widths.
LEMMA Sizes ==
  /\ HalfBase \in Nat \ {0} /\ HalfBase >= 2 /\ SmallConstant \in Nat
  /\ Base \in Nat \ {0} /\ Base >= 4 /\ Base = HalfBase * HalfBase
  /\ ReductionConstant \in Nat /\ ReductionConstant >= 2 /\ ReductionConstant < Base
  /\ ReductionConstant = HalfBase + SmallConstant
<1> DEFINE h == HalfBase
<1>1. h \in Nat \ {0, 1} /\ SmallConstant \in Nat /\ ReductionConstant < Base
  BY LimbsFit DEF LimbAssumption
<1>2. Base = h * h /\ ReductionConstant = h + SmallConstant
  BY DEF Base, ReductionConstant
<1> HIDE DEF h
<1>3. 2 * h <= h * h /\ h * h \in Nat
  BY <1>1, TimesMonotone
<1> DEFINE s == h * h
<1>4. s \in Nat /\ s >= 4 /\ Base = s
  BY <1>1, <1>2, <1>3
<1> HIDE DEF s
<1>5. Base \in Nat \ {0} /\ Base >= 4 /\ ReductionConstant \in Nat /\ ReductionConstant >= 2
  BY <1>1, <1>2, <1>4
<1> QED
  BY <1>1, <1>2, <1>5 DEF h

\* 2^256 and the prime, and how little is between them.
Above == Weight(Base)[4]

\* The first places: the base and its square, and the square of that.
LEMMA FirstWeights ==
  ASSUME NEW b \in Nat \ {0}
  PROVE  Weight(b)[1] = b /\ Weight(b)[2] = b * b /\ Weight(b)[4] = (b * b) * (b * b)
<1>1. 2 \in 0..18 /\ 2 \in 0..(18 - 2) /\ 2 + 2 = 4 /\ 0 \in 0..18 /\ 1 \in 0..18
      /\ 1 = 0 + 1 /\ 2 = 1 + 1
  OBVIOUS
<1>2. ASSUME NEW i \in 0..18, NEW j \in 0..18, i = j + 1
      PROVE  Weight(b)[i] = Weight(b)[j] * b
  <2>1. i \in 1..18 /\ i - 1 = j
    BY <1>2
  <2>2. Weight(b)[i] = Weight(b)[i - 1] * b
    BY ONLY b \in Nat \ {0}, <2>1, Weights
  <2> QED
    BY ONLY <2>1, <2>2
<1>3. Weight(b)[1] = Weight(b)[0] * b /\ Weight(b)[2] = Weight(b)[1] * b
  BY ONLY <1>1, <1>2
<1>4. Weight(b)[0] = 1 /\ 1 * b = b
  BY ONLY b \in Nat \ {0}, Weights
<1>5. Weight(b)[1] = b /\ Weight(b)[2] = b * b
  BY ONLY <1>3, <1>4
<1>6. Weight(b)[2 + 2] = Weight(b)[2] * Weight(b)[2]
  BY ONLY b \in Nat \ {0}, <1>1, WeightsMultiply
<1> QED
  BY ONLY <1>1, <1>5, <1>6

\* The prime is a little below 2^256: by less than a square root.
LEMMA PrimeIs ==
  /\ Above \in Nat \ {0} /\ PrimeNumber = Above - ReductionConstant /\ PrimeNumber \in Nat \ {0}
  /\ ReductionConstant * ReductionConstant + ReductionConstant < Above
  /\ 2 * ReductionConstant < Above
<1> DEFINE B == Base
           K == ReductionConstant
           s == B * B
<1>1. B \in Nat \ {0} /\ B >= 4 /\ K \in Nat /\ K >= 2 /\ K < B
  BY Sizes
<1>2. Above = Weight(B)[2] * Weight(B)[2] /\ Weight(B)[2] = s /\ Above \in Nat
  <2>1. Above \in Nat
    <3>1. 4 \in 0..18
      OBVIOUS
    <3> QED
      BY <1>1, <3>1, Weights DEF Above
  <2> QED
    BY <1>1, <2>1, FirstWeights DEF Above
<1>3. PrimeNumber = Above - K
  <2>1. 4 \in 0..18 /\ 4 \in 0..4
    OBVIOUS
  <2>2. Powers(B, 4)[4] = Weight(B)[4]
    BY <1>1, <2>1, PowersAre
  <2> QED
    BY <2>2 DEF PrimeNumber, Above
<1> HIDE DEF B, K
<1>4. s \in Nat /\ 4 * B <= s /\ K * K + K <= s
  <2>1. 4 * B <= B * B /\ (K + 1) * K <= B * K /\ K * B <= B * B /\ B * K = K * B
    BY <1>1, TimesMonotone
  <2>2. (K + 1) * K = K * K + K /\ K * K \in Nat /\ B * B \in Nat /\ K * B \in Nat
    BY <1>1
  <2> DEFINE a == K * K
             c == K * B
             d == (K + 1) * K
  <2>3. d = a + K /\ a \in Nat /\ s \in Nat /\ c \in Nat /\ d <= c /\ c <= s /\ 4 * B <= s
    BY <2>1, <2>2
  <2> HIDE DEF a, c, d, s
  <2>4. a + K <= s /\ s \in Nat /\ 4 * B <= s
    BY <1>1, <2>3
  <2> QED
    BY <2>4 DEF a
<1> HIDE DEF s
<1>5. 2 * s <= s * s
  BY <1>1, <1>4, TimesMonotone
<1> DEFINE a == K * K
<1>6. Above \in Nat /\ 2 * s <= Above /\ a \in Nat /\ a + K <= s
  BY <1>1, <1>2, <1>4, <1>5
<1> HIDE DEF a
<1>7. a + K < Above /\ 2 * K < Above /\ Above - K \in Nat \ {0} /\ Above \in Nat \ {0}
  BY <1>1, <1>4, <1>6
<1> QED
  BY <1>3, <1>7 DEF a, K

--------------------------------------------------------------------------------
(* cuda_chain.cuh: sums.                                                        *)

\* A sum that wraps is below what was added to.
LEMMA WrapIs ==
  ASSUME NEW b \in Nat \ {0}, NEW x \in 0..(b - 1), NEW y \in 0..(b - 1)
  PROVE  /\ (x + y) % b \in 0..(b - 1)
         /\ x + y = ((x + y) % b) + b * (IF (x + y) % b < x THEN 1 ELSE 0)
<1> DEFINE t == x + y
<1>1. CASE t < b
  <2>1. t \in Nat /\ t = 0 * b + t /\ t \in 0..(b - 1)
    BY <1>1
  <2>2. t % b = t
    BY <2>1, DivUnique
  <2> QED
    BY <2>1, <2>2
<1>2. CASE ~(t < b)
  <2>1. t \in Nat /\ t = 1 * b + (t - b) /\ t - b \in 0..(b - 1)
    BY <1>2
  <2>2. t % b = t - b
    BY <2>1, DivUnique
  <2> QED
    BY <2>1, <2>2
<1> QED
  BY <1>1, <1>2

\* What a sum has become of.
Summed(sum, total, most) ==
  /\ sum.limb \in 0..(Base - 1) /\ sum.carry \in 0..most
  /\ total = sum.limb + Base * sum.carry

\* An addition adds and counts its wrap.
LEMMA PlusIs ==
  ASSUME NEW sum, NEW addend \in 0..(Base - 1), NEW total \in Int, NEW most \in Nat,
         Summed(sum, total, most)
  PROVE  Summed(Plus(sum, addend), total + addend, most + 1)
<1> DEFINE b == Base
           x == sum.limb
           c == sum.carry
           w == (x + addend) % b
           u == IF w < x THEN 1 ELSE 0
<1>1. b \in Nat \ {0} /\ x \in 0..(b - 1) /\ addend \in 0..(b - 1) /\ c \in 0..most /\ total = x + b * c
  BY Sizes DEF Summed
<1>2. Plus(sum, addend) = [limb |-> w, carry |-> c + u]
  BY DEF Plus
<1> HIDE DEF b, x, c
<1>3. w \in 0..(b - 1) /\ x + addend = w + b * u
  BY <1>1, WrapIs
<1>4. u \in 0..1
  OBVIOUS
<1> HIDE DEF w, u
<1>5. b * (c + u) = b * c + b * u
  BY <1>1, <1>4
<1> DEFINE p == b * c
           q == b * u
<1>6. p \in Int /\ q \in Int /\ x \in Int /\ w \in Int
  BY <1>1, <1>3, <1>4
<1>7. total = x + p /\ x + addend = w + q /\ b * (c + u) = p + q
  BY <1>1, <1>3, <1>5
<1> HIDE DEF p, q
<1>8. total + addend = w + b * (c + u)
  BY <1>1, <1>6, <1>7
<1>9. c + u \in 0..(most + 1)
  BY <1>1, <1>4
<1> HIDE DEF p
<1>10. Plus(sum, addend).limb = w /\ Plus(sum, addend).carry = c + u
  BY <1>2
<1> QED
  BY <1>3, <1>8, <1>9, <1>10 DEF Summed, b

\* A limb before its additions.
LEMMA StartIs ==
  ASSUME NEW x \in 0..(Base - 1)
  PROVE  Summed([limb |-> x, carry |-> 0], x, 0)
<1>1. Base * 0 = 0 /\ x \in Int
  BY Sizes
<1> QED
  BY <1>1 DEF Summed

\* A limb, its two addends and the carry.
Sum3(x, y, z, carry) == Plus(Plus(Plus([limb |-> x, carry |-> 0], y), z), carry)

\* Three additions.
LEMMA Sum3Is ==
  ASSUME NEW x \in 0..(Base - 1), NEW y \in 0..(Base - 1), NEW z \in 0..(Base - 1),
         NEW carry \in 0..3
  PROVE  Summed(Sum3(x, y, z, carry), ((x + y) + z) + carry, 3)
<1>1. /\ carry \in 0..(Base - 1) /\ x \in Int /\ x + y \in Int /\ (x + y) + z \in Int
      /\ 0 + 1 = 1 /\ 1 + 1 = 2 /\ 2 + 1 = 3 /\ 0 \in Nat /\ 1 \in Nat /\ 2 \in Nat
  BY Sizes
<1> DEFINE s0 == [limb |-> x, carry |-> 0]
           s1 == Plus(s0, y)
           s2 == Plus(s1, z)
<1>2. Summed(s0, x, 0)
  BY StartIs
<1> HIDE DEF s0
<1>3. Summed(s1, x + y, 1)
  BY <1>1, <1>2, PlusIs
<1> HIDE DEF s1
<1>4. Summed(s2, (x + y) + z, 2)
  BY <1>1, <1>3, PlusIs
<1> HIDE DEF s2
<1>5. Summed(Plus(s2, carry), ((x + y) + z) + carry, 3)
  BY <1>1, <1>4, PlusIs
<1> QED
  BY <1>5 DEF Sum3, s2, s1, s0

\* The number of four limbs.
Of4(l) == Value(l, Base, 4)

\* It is below 2^256.
LEMMA Of4Is ==
  ASSUME NEW l, Limbs(l, Base, 4)
  PROVE  Of4(l) \in Nat /\ Of4(l) < Above /\ AreDigits(l, 4)
<1>1. Base \in Nat \ {0}
  BY Sizes
<1>2. 4 \in 0..4
  OBVIOUS
<1> QED
  BY <1>1, <1>2, LimbsBounded, LimbsAreDigits DEF Of4, Above

\* The carries ripple through: the four limbs and the last carry are the sum of the three.
LEMMA RippleIs ==
  ASSUME NEW x, NEW y, NEW z, Limbs(x, Base, 4), Limbs(y, Base, 4), Limbs(z, Base, 4)
  PROVE  /\ LimbMap(Ripple(x, y, z).limbs, Base, 4) /\ Ripple(x, y, z).carry \in 0..3
         /\ (Of4(x) + Of4(y)) + Of4(z)
              = Of4(Ripple(x, y, z).limbs) + Above * Ripple(x, y, z).carry
<1> DEFINE b == Base
           each == [i \in 1..4 |-> [carry \in 0..3 |-> Sum3(x[i], y[i], z[i], carry)]]
           L == 0..(b - 1)
           C == 0..3
           r == Ripple(x, y, z)
           s == [i \in 1..4 |-> x[i] + y[i]]
           t == [i \in 1..4 |-> s[i] + z[i]]
<1>1. b \in Nat \ {0} /\ 1 \in Int /\ 4 \in 0..18 /\ 4 \in Nat /\ 4 \in 0..4
  BY Sizes
<1>2. r = EachLimb(each, 4)
  BY DEF Ripple, Sum3
<1>3. \A i \in 1..4 : x[i] \in 0..(Base - 1) /\ y[i] \in 0..(Base - 1) /\ z[i] \in 0..(Base - 1)
  BY DEF Limbs
<1>4. ASSUME NEW i \in 1..4, NEW carry \in 0..3
      PROVE  Summed(each[i][carry], ((x[i] + y[i]) + z[i]) + carry, 3)
  <2>1. each[i][carry] = Sum3(x[i], y[i], z[i], carry)
    OBVIOUS
  <2> HIDE DEF each
  <2>2. Summed(Sum3(x[i], y[i], z[i], carry), ((x[i] + y[i]) + z[i]) + carry, 3)
    BY <1>3, Sum3Is
  <2> QED
    BY <2>1, <2>2
<1> HIDE DEF each, r
<1>5. Stepping(each, 4, L, C)
  <2>1. ASSUME NEW i \in 1..4, NEW c \in C PROVE each[i][c].limb \in L /\ each[i][c].carry \in C
    <3>1. Summed(each[i][c], ((x[i] + y[i]) + z[i]) + c, 3)
      BY <1>4
    <3> QED
      BY ONLY <3>1 DEF Summed, L, C, b
  <2> QED
    BY <2>1 DEF Stepping
<1>6. PICK c : Rippled(c, each, 4, L, C)
  <2> HIDE DEF L, C
  <2> QED
    BY <1>5, EachLimbIs
<1>7. LimbMap(r.limbs, b, 4) /\ r.carry = c[4] /\ c[0] = 0 /\ \A i \in 0..4 : c[i] \in 0..3
  BY <1>2, <1>6 DEF Rippled, LimbMap
<1>8. AreDigits(x, 4) /\ AreDigits(y, 4) /\ AreDigits(z, 4) /\ AreDigits(r.limbs, 4)
  BY <1>1, <1>7, LimbsAreDigits, LimbMapIs DEF b
<1>9. AreDigits(s, 4) /\ Value(s, b, 4) = Value(x, b, 4) + 1 * Value(y, b, 4)
  <2>1. \A i \in 1..4 : x[i] \in Int /\ y[i] \in Int /\ s[i] = x[i] + 1 * y[i]
    BY <1>3
  <2> HIDE DEF s, b
  <2>2. Combines(s, x, y, 1, 4)
    BY <1>8, <2>1 DEF Combines
  <2>3. Combined(s, x, y, 1, b, 4)
    BY ONLY <1>1, <2>2, Linear
  <2> QED
    BY <2>3 DEF Combined
<1>10. AreDigits(t, 4) /\ Value(t, b, 4) = Value(s, b, 4) + 1 * Value(z, b, 4)
  <2>1. \A i \in 1..4 : s[i] \in Int /\ z[i] \in Int
    BY <1>3
  <2> HIDE DEF s
  <2>2. \A i \in 1..4 : t[i] = s[i] + 1 * z[i]
    BY <2>1
  <2> HIDE DEF t, b
  <2>3. Combines(t, s, z, 1, 4)
    BY <1>8, <1>9, <2>2 DEF Combines
  <2>4. Combined(t, s, z, 1, b, 4)
    BY ONLY <1>1, <2>3, Linear
  <2> QED
    BY <2>4 DEF Combined
<1>11. Value(t, b, 4) + c[0] = Value(r.limbs, b, 4) + Weight(b)[4] * c[4]
  <2>1. ASSUME NEW i \in 1..4 PROVE t[i] + c[i - 1] = r.limbs[i] + b * c[i]
    <3>1. i - 1 \in 0..4 /\ c[i - 1] \in 0..3
      BY <1>7
    <3>2. r.limbs[i] = each[i][c[i - 1]].limb /\ c[i] = each[i][c[i - 1]].carry
      BY <1>2, <1>6 DEF Rippled
    <3>3. ((x[i] + y[i]) + z[i]) + c[i - 1] = r.limbs[i] + b * c[i]
      BY <1>4, <3>1, <3>2 DEF Summed
    <3>4. t[i] = (x[i] + y[i]) + z[i]
      OBVIOUS
    <3> QED
      BY <3>3, <3>4
  <2> DEFINE m == r.limbs
  <2>2. Carries(t, m, c, b, 4)
    <3>1. \A i \in 0..4 : c[i] \in Int
      BY <1>7
    <3> HIDE DEF t, b
    <3> QED
      BY <1>8, <1>10, <2>1, <3>1 DEF Carries
  <2> HIDE DEF t, b, m
  <2>3. CarriesOut(t, m, c, b, 4)
    BY ONLY <1>1, <2>2, CarriesAre
  <2> QED
    BY <2>3 DEF m, CarriesOut
<1>12. /\ Value(t, b, 4) \in Int /\ Value(r.limbs, b, 4) \in Int /\ Value(x, b, 4) \in Int
       /\ Value(y, b, 4) \in Int /\ Value(z, b, 4) \in Int
  <2> HIDE DEF b, t
  <2> QED
    BY <1>1, <1>8, <1>10, ValueIs
<1>13. Value(t, b, 4) = (Value(x, b, 4) + Value(y, b, 4)) + Value(z, b, 4)
  <2> HIDE DEF b, t, s
  <2> QED
    BY <1>9, <1>10, <1>12
<1>14. (Of4(x) + Of4(y)) + Of4(z) = Of4(r.limbs) + Above * r.carry
  <2>1. Of4(x) = Value(x, b, 4) /\ Of4(y) = Value(y, b, 4) /\ Of4(z) = Value(z, b, 4)
        /\ Of4(r.limbs) = Value(r.limbs, b, 4) /\ Above = Weight(b)[4]
    BY DEF Of4, Above
  <2> HIDE DEF b, t
  <2> QED
    BY <1>7, <1>11, <1>12, <1>13, <2>1
<1> QED
  BY <1>7, <1>14 DEF r, b

\* Nothing to add.
LEMMA ZeroesAre ==
  /\ Limbs(Zeroes(4), Base, 4) /\ Of4(Zeroes(4)) = 0
<1>1. \A i \in 1..4 : Zeroes(4)[i] = 0
  BY DEF Zeroes
<1>2. Base \in Nat \ {0} /\ 4 \in 0..18 /\ 0 \in 0..(Base - 1)
  BY Sizes
<1> QED
  BY <1>1, <1>2, NothingIs DEF Limbs, Of4

\* field_add's first half.
LEMMA AddRawIs ==
  ASSUME NEW x, NEW y, Limbs(x, Base, 4), Limbs(y, Base, 4)
  PROVE  /\ LimbMap(AddRaw(x, y).limbs, Base, 4) /\ AddRaw(x, y).carry \in 0..3
         /\ Of4(x) + Of4(y) = Of4(AddRaw(x, y).limbs) + Above * AddRaw(x, y).carry
<1>1. Limbs(Zeroes(4), Base, 4) /\ Of4(Zeroes(4)) = 0 /\ Of4(x) \in Nat /\ Of4(y) \in Nat
  BY ZeroesAre, Of4Is
<1>2. (Of4(x) + Of4(y)) + 0 = Of4(x) + Of4(y)
  BY <1>1
<1> QED
  BY <1>1, <1>2, RippleIs DEF AddRaw

\* A number that is a little below zero wraps once.
LEMMA WrapBelow ==
  ASSUME NEW b \in Nat \ {0}, NEW x \in Int, x + b \in 0..(b - 1)
  PROVE  (x % b) = x + b
<1> DEFINE q == 0 - 1
           r == x + b
<1>1. q \in Int /\ r \in 0..(b - 1) /\ x = q * b + r
  OBVIOUS
<1> HIDE DEF q, r
<1>2. r = (x % b)
  BY <1>1, Remainder
<1> QED
  BY <1>2 DEF r

\* A number below the modulus is its own remainder.
LEMMA WithinIs ==
  ASSUME NEW b \in Nat \ {0}, NEW z \in 0..(b - 1)
  PROVE  (z % b) = z
<1>1. z \in Nat /\ 0 \in Nat /\ z = 0 * b + z
  OBVIOUS
<1> QED
  BY <1>1, DivUnique

\* A difference that wraps is what the borrow says it is short of.
Lent(d, x, y, borrow) ==
  /\ d.limb \in 0..(Base - 1) /\ d.carry \in 0..1 /\ (x - y) - borrow = d.limb - Base * d.carry

\* A limb of a difference and its borrow.
LEMMA LentIs ==
  ASSUME NEW x \in 0..(Base - 1), NEW y \in 0..(Base - 1), NEW borrow \in 0..1
  PROVE  Lent(SubtractWithBorrow(x, y, borrow), x, y, borrow)
<1> DEFINE b == Base
           v == (x - y) % b
           w == (v - borrow) % b
           d == SubtractWithBorrow(x, y, borrow)
<1>1. b \in Nat \ {0} /\ b >= 4 /\ x \in 0..(b - 1) /\ y \in 0..(b - 1)
  BY Sizes
<1>2. d = [limb |-> w, carry |-> (IF x < y THEN 1 ELSE 0) + (IF v < borrow THEN 1 ELSE 0)]
  BY DEF SubtractWithBorrow
<1> HIDE DEF b, d
<1>3. v = (IF x < y THEN x - y + b ELSE x - y)
  <2>1. CASE x < y
    <3> DEFINE z == x - y
    <3>1. z \in Int /\ z + b \in 0..(b - 1)
      BY <1>1, <2>1
    <3> HIDE DEF z
    <3>2. (z % b) = z + b
      BY <1>1, <3>1, WrapBelow
    <3> USE DEF z
    <3> QED
      BY <2>1, <3>2
  <2>2. CASE ~(x < y)
    <3> DEFINE z == x - y
    <3>1. b \in Nat \ {0} /\ z \in Int /\ z \in 0..(b - 1)
      BY <1>1, <2>2
    <3> HIDE DEF z
    <3>2. (z % b) = z
      BY ONLY <3>1, WithinIs
    <3> QED
      BY <2>2, <3>2 DEF z
  <2> QED
    BY <2>1, <2>2
<1>4. v \in 0..(b - 1) /\ (x < y => v >= 1)
  BY <1>1, <1>3
<1> HIDE DEF v
<1>5. w = (IF v < borrow THEN b - 1 ELSE v - borrow)
  <2>1. CASE v < borrow
    <3>1. v = 0 /\ borrow = 1
      BY <1>4, <2>1
    <3> DEFINE z == v - borrow
    <3>2. z \in Int /\ z + b \in 0..(b - 1) /\ z + b = b - 1
      BY <1>1, <3>1
    <3> HIDE DEF z
    <3>3. (z % b) = z + b
      BY <1>1, <3>2, WrapBelow
    <3> QED
      BY <2>1, <3>2, <3>3 DEF z
  <2>2. CASE ~(v < borrow)
    <3> DEFINE z == v - borrow
    <3>1. b \in Nat \ {0} /\ z \in Int /\ z \in 0..(b - 1)
      BY <1>1, <1>4, <2>2
    <3> HIDE DEF z
    <3>2. (z % b) = z
      BY ONLY <3>1, WithinIs
    <3> QED
      BY <2>2, <3>2 DEF z
  <2> QED
    BY <2>1, <2>2
<1> HIDE DEF w
<1>6. d.limb = w /\ d.carry = (IF x < y THEN 1 ELSE 0) + (IF v < borrow THEN 1 ELSE 0)
  BY <1>2
<1>7. w \in 0..(b - 1) /\ b * 0 = 0 /\ b * 1 = b
  BY <1>1, <1>4, <1>5
<1>8. CASE x < y
  <2>1. ~(v < borrow) /\ d.carry = 1
    BY <1>1, <1>4, <1>6, <1>8
  <2> QED
    BY <1>1, <1>3, <1>5, <1>6, <1>7, <1>8, <2>1 DEF Lent, b, d
<1>9. CASE ~(x < y) /\ v < borrow
  <2>1. v = 0 /\ borrow = 1 /\ d.carry = 1 /\ x = y
    BY <1>1, <1>3, <1>4, <1>6, <1>9
  <2> QED
    BY <1>1, <1>5, <1>6, <1>7, <1>9, <2>1 DEF Lent, b, d
<1>10. CASE ~(x < y) /\ ~(v < borrow)
  <2>1. d.carry = 0
    BY <1>6, <1>10
  <2> QED
    BY <1>1, <1>3, <1>5, <1>6, <1>7, <1>10, <2>1 DEF Lent, b, d
<1> QED
  BY <1>8, <1>9, <1>10

\* subtract_raw: the borrow is whether the difference is negative.
LEMMA SubtractRawIs ==
  ASSUME NEW x, NEW y, Limbs(x, Base, 4), Limbs(y, Base, 4)
  PROVE  /\ LimbMap(SubtractRaw(x, y).limbs, Base, 4) /\ SubtractRaw(x, y).carry \in 0..1
         /\ Of4(x) - Of4(y) = Of4(SubtractRaw(x, y).limbs) - Above * SubtractRaw(x, y).carry
<1> DEFINE b == Base
           each == [i \in 1..4 |-> [borrow \in 0..1 |-> SubtractWithBorrow(x[i], y[i], borrow)]]
           L == 0..(b - 1)
           C == 0..1
           r == SubtractRaw(x, y)
           minus == 0 - 1
           s == [i \in 1..4 |-> x[i] + minus * y[i]]
<1>1. b \in Nat \ {0} /\ minus \in Int /\ 4 \in 0..18 /\ 4 \in Nat /\ 4 \in 0..4
  BY Sizes
<1>2. r = EachLimb(each, 4)
  BY DEF SubtractRaw
<1>3. \A i \in 1..4 : x[i] \in 0..(Base - 1) /\ y[i] \in 0..(Base - 1)
  BY DEF Limbs
<1>4. ASSUME NEW i \in 1..4, NEW borrow \in 0..1
      PROVE  Lent(each[i][borrow], x[i], y[i], borrow)
  <2>1. each[i][borrow] = SubtractWithBorrow(x[i], y[i], borrow)
    OBVIOUS
  <2> HIDE DEF each
  <2>2. Lent(SubtractWithBorrow(x[i], y[i], borrow), x[i], y[i], borrow)
    BY <1>3, LentIs
  <2> QED
    BY <2>1, <2>2
<1> HIDE DEF each, r
<1>5. Stepping(each, 4, L, C)
  <2>1. \A i \in 1..4, c \in C : each[i][c].limb \in L /\ each[i][c].carry \in C
    BY <1>4 DEF Lent
  <2> QED
    BY <2>1 DEF Stepping
<1>6. PICK c : Rippled(c, each, 4, L, C)
  <2> HIDE DEF L, C
  <2> QED
    BY <1>5, EachLimbIs
<1> DEFINE e == [i \in 0..4 |-> 0 - c[i]]
<1>7. LimbMap(r.limbs, b, 4) /\ r.carry = c[4] /\ c[0] = 0 /\ \A i \in 0..4 : c[i] \in 0..1
  BY <1>2, <1>6 DEF Rippled, LimbMap
<1>8. AreDigits(x, 4) /\ AreDigits(y, 4) /\ AreDigits(r.limbs, 4)
  BY <1>1, <1>7, LimbsAreDigits, LimbMapIs DEF b
<1>9. AreDigits(s, 4) /\ Value(s, b, 4) = Value(x, b, 4) + minus * Value(y, b, 4)
  <2>1. \A i \in 1..4 : s[i] = x[i] + minus * y[i]
    OBVIOUS
  <2> HIDE DEF s, b, minus
  <2>2. Combines(s, x, y, minus, 4)
    BY <1>8, <2>1 DEF Combines
  <2>3. Combined(s, x, y, minus, b, 4)
    BY ONLY <1>1, <2>2, Linear
  <2> QED
    BY <2>3 DEF Combined
<1>10. CarriesOut(s, r.limbs, e, b, 4)
  <2>1. ASSUME NEW i \in 1..4 PROVE s[i] + e[i - 1] = r.limbs[i] + b * e[i]
    <3>1. i - 1 \in 0..4 /\ i \in 0..4 /\ c[i - 1] \in 0..1 /\ c[i] \in 0..1
      BY <1>7
    <3>2. r.limbs[i] = each[i][c[i - 1]].limb /\ c[i] = each[i][c[i - 1]].carry
      BY <1>2, <1>6 DEF Rippled
    <3>3. (x[i] - y[i]) - c[i - 1] = r.limbs[i] - b * c[i] /\ r.limbs[i] \in Int
      BY <1>4, <3>1, <3>2 DEF Lent
    <3>7. x[i] \in Int /\ y[i] \in Int
      BY <1>1, <1>3
    <3>8. s[i] = x[i] + minus * y[i] /\ e[i - 1] = 0 - c[i - 1] /\ e[i] = 0 - c[i]
      BY <3>1
    <3>4. s[i] = x[i] - y[i] /\ e[i - 1] = 0 - c[i - 1] /\ e[i] = 0 - c[i] /\ x[i] \in Int
          /\ y[i] \in Int
      <4> HIDE DEF s, e
      <4>1. x[i] + minus * y[i] = x[i] - y[i]
        BY ONLY <3>7 DEF minus
      <4> QED
        BY ONLY <3>7, <3>8, <4>1
    <3> HIDE DEF s, e
    <3>5. CASE c[i] = 0
      <4>1. b * c[i] = 0 /\ b * e[i] = 0
        BY <1>1, <3>4, <3>5
      <4> QED
        BY <3>1, <3>3, <3>4, <4>1
    <3>6. CASE c[i] = 1
      <4>1. b * c[i] = b /\ b * e[i] = 0 - b
        BY <1>1, <3>4, <3>6
      <4> QED
        BY <1>1, <3>1, <3>3, <3>4, <4>1
    <3> QED
      BY <3>1, <3>5, <3>6
  <2> DEFINE m == r.limbs
  <2>2. Carries(s, m, e, b, 4)
    <3>1. \A i \in 0..4 : e[i] \in Int
      BY <1>7
    <3> HIDE DEF s, b, e
    <3> QED
      BY <1>8, <1>9, <2>1, <3>1 DEF Carries
  <2> HIDE DEF s, b, m, e
  <2>3. CarriesOut(s, m, e, b, 4)
    BY ONLY <1>1, <2>2, CarriesAre
  <2> QED
    BY <2>3 DEF m
<1>11. /\ Value(r.limbs, b, 4) \in Int /\ Value(x, b, 4) \in Int /\ Value(y, b, 4) \in Int
       /\ Above \in Nat
  <2> HIDE DEF b
  <2> QED
    BY <1>1, <1>8, ValueIs, PrimeIs
<1>12. e[0] = 0 /\ e[4] = 0 - c[4]
  BY <1>7
<1>13. Value(x, b, 4) + minus * Value(y, b, 4) + 0 = Value(r.limbs, b, 4) + Above * (0 - c[4])
  <2> HIDE DEF s, e
  <2> QED
    BY <1>9, <1>10, <1>12 DEF CarriesOut, Above
<1>14. Of4(x) - Of4(y) = Of4(r.limbs) - Above * r.carry
  <2>1. Of4(x) = Value(x, b, 4) /\ Of4(y) = Value(y, b, 4) /\ Of4(r.limbs) = Value(r.limbs, b, 4)
    BY DEF Of4
  <2>2. c[4] \in 0..1
    BY <1>7
  <2>3. Above * (0 - c[4]) = 0 - Above * c[4] /\ Above * c[4] \in Int
    BY <1>11, <2>2
  <2> HIDE DEF b
  <2> QED
    BY <1>7, <1>11, <1>13, <2>1, <2>3
<1> QED
  BY <1>7, <1>14 DEF r, b

--------------------------------------------------------------------------------
(* cuda_chain.cuh: products.                                                    *)

\* One limb of a row: the low half of a product, the limb there and the carry, and the high half.
RowLimb(p, times, carry) ==
  LET sum == Plus(Plus([limb |-> p, carry |-> 0], times % Base), carry)
  IN  [sum EXCEPT !.carry = (times \div Base + sum.carry) % Base]

\* A number whose multiple of b is less than b times b.
LEMMA HighFits ==
  ASSUME NEW b \in Nat \ {0}, NEW low \in Nat, NEW high \in Nat, NEW total \in Nat,
         total = low + b * high, NEW most \in Nat, total < b * most
  PROVE  high < most
<1>1. CASE high >= most
  <2>1. most * b <= high * b
    BY <1>1, TimesMonotone
  <2>2. most * b = b * most /\ high * b = b * high /\ b * most \in Nat /\ b * high \in Nat
    OBVIOUS
  <2> DEFINE p == b * most
             q == b * high
  <2>3. p <= q /\ p \in Nat /\ q \in Nat /\ total = low + q /\ total < p
    BY <2>1, <2>2
  <2> HIDE DEF p, q
  <2> QED
    BY <2>3
<1> QED
  BY <1>1

\* A product of two limbs, a limb and a carry fit two limbs.
LEMMA ProductFits ==
  ASSUME NEW b \in Nat \ {0}, NEW p \in 0..(b - 1), NEW x \in 0..(b - 1), NEW y \in 0..(b - 1),
         NEW c \in 0..(b - 1)
  PROVE  /\ x * y \in Nat /\ (p + x * y) + c \in Nat /\ (p + x * y) + c < b * b
<1>1. x * y <= (b - 1) * y /\ y * (b - 1) <= (b - 1) * (b - 1)
  BY TimesMonotone
<1>2. y * (b - 1) = (b - 1) * y /\ x * y \in Nat /\ (b - 1) * (b - 1) = b * b - 2 * b + 1
      /\ b * b \in Nat
  OBVIOUS
<1> DEFINE t == x * y
           s == b * b
           u == (b - 1) * y
           v == (b - 1) * (b - 1)
<1>3. t \in Nat /\ s \in Nat /\ u \in Int /\ t <= u /\ u <= v /\ v = s - 2 * b + 1
  BY <1>1, <1>2
<1> HIDE DEF t, s, u, v
<1>4. t \in Nat /\ (p + t) + c \in Nat /\ (p + t) + c < s
  BY <1>3
<1> QED
  BY <1>4 DEF t, s

\* A limb of a row and its carry.
LEMMA RowLimbIs ==
  ASSUME NEW p \in 0..(Base - 1), NEW x \in 0..(Base - 1), NEW y \in 0..(Base - 1),
         NEW c \in 0..(Base - 1)
  PROVE  Summed(RowLimb(p, x * y, c), (p + x * y) + c, Base - 1)
<1> DEFINE b == Base
           t == x * y
           low == t % b
           high == t \div b
           s0 == [limb |-> p, carry |-> 0]
           s1 == Plus(s0, low)
           s2 == Plus(s1, c)
           up == high + s2.carry
           total == (p + t) + c
<1>1. b \in Nat \ {0} /\ t \in Nat /\ total \in Nat /\ total < b * b
  BY Sizes, ProductFits
<1> HIDE DEF t, total
<1>2. high \in Nat /\ low \in 0..(b - 1) /\ t = b * high + low
  BY <1>1, DivMod
<1> HIDE DEF low, high
<1>3. Summed(s2, (p + low) + c, 2)
  <2>1. p \in Int /\ p + low \in Int /\ 0 + 1 = 1 /\ 1 + 1 = 2 /\ 0 \in Nat /\ 1 \in Nat
    BY <1>2
  <2>2. Summed(s0, p, 0)
    BY StartIs
  <2> HIDE DEF s0
  <2>3. low \in 0..(Base - 1)
    BY <1>2
  <2>4. Summed(s1, p + low, 1)
    BY <2>1, <2>2, <2>3, PlusIs
  <2> HIDE DEF s1
  <2> QED
    BY <2>1, <2>4, PlusIs
<1>4. s2 = [limb |-> s2.limb, carry |-> s2.carry]
  BY DEF Plus
<1> HIDE DEF s2
<1>5. s2.limb \in 0..(b - 1) /\ s2.carry \in 0..2 /\ (p + low) + c = s2.limb + b * s2.carry
  BY <1>3 DEF Summed
<1> DEFINE l == s2.limb
           k == s2.carry
<1>6. total = l + b * up /\ up \in Nat
  <2>1. b * up = b * high + b * k
    <3>1. b \in Int /\ high \in Int /\ k \in Int
      BY <1>1, <1>2, <1>5
    <3> HIDE DEF b, k
    <3> QED
      BY <3>1 DEF k
  <2> DEFINE f == b * high
             g == b * k
  <2>2. f \in Int /\ g \in Int /\ t = f + low /\ (p + low) + c = l + g /\ b * up = f + g
    BY <1>1, <1>2, <1>5, <2>1
  <2>3. l \in Int /\ low \in Int /\ total = (p + t) + c
    BY <1>1, <1>2, <1>5 DEF total
  <2>4. up \in Nat
    BY <1>2, <1>5
  <2> HIDE DEF f, g, l, up
  <2>5. total = l + (f + g)
    BY <2>2, <2>3
  <2> QED
    BY <2>2, <2>4, <2>5
<1>7. up < b
  <2>1. l \in Nat
    BY <1>5
  <2> HIDE DEF l, up, b
  <2> QED
    BY <1>1, <1>6, <2>1, HighFits
<1>8. up % b = up
  <2>1. up \in 0..(b - 1) /\ up = 0 * b + up
    BY <1>1, <1>6, <1>7
  <2> HIDE DEF up, b
  <2> QED
    BY <1>1, <1>6, <2>1, DivUnique
<1>9. RowLimb(p, x * y, c) = [s2 EXCEPT !.carry = up % b]
  BY DEF RowLimb, s2, low, high, t
<1>10. RowLimb(p, x * y, c).limb = l /\ RowLimb(p, x * y, c).carry = up
  <2> HIDE DEF up
  <2> QED
    BY <1>4, <1>8, <1>9
<1>11. total = (p + x * y) + c
  BY DEF total, t
<1> HIDE DEF l, up
<1>12. l \in 0..(b - 1) /\ up \in 0..(b - 1)
  BY <1>1, <1>5, <1>6, <1>7 DEF l
<1> QED
  BY <1>6, <1>10, <1>11, <1>12 DEF Summed, b

\* A row of the long multiplication.
LEMMA MultiplyLimbIs ==
  ASSUME NEW p, NEW top \in 0..18, LimbMap(p, Base, top), NEW at \in 1..14, at + 4 <= top,
         NEW x \in 0..(Base - 1), NEW right, Limbs(right, Base, 4)
  PROVE  RowOf(MultiplyLimb(p, at, x, right), p, at, x, right, Base, 4)
<1> DEFINE b == Base
           each == [j \in 1..4 |-> [carry \in 0..(Base - 1) |->
                      RowLimb(p[at + j - 1], x * right[j], carry)]]
           L == 0..(b - 1)
           C == 0..(b - 1)
           r == MultiplyLimb(p, at, x, right)
<1>1. b \in Nat \ {0} /\ 4 \in Nat
  BY Sizes
<1>2. r = EachLimb(each, 4)
  BY DEF MultiplyLimb, RowLimb
<1>3. ASSUME NEW j \in 1..4 PROVE p[at + j - 1] \in 0..(Base - 1) /\ right[j] \in 0..(Base - 1)
  <2>1. at + j - 1 \in 1..top
    OBVIOUS
  <2>2. p[at + j - 1] \in 0..(Base - 1)
    BY <1>1, <2>1, LimbMapIs
  <2> QED
    BY <2>2 DEF Limbs
<1>4. ASSUME NEW j \in 1..4, NEW c \in 0..(Base - 1)
      PROVE  Summed(each[j][c], (p[at + j - 1] + x * right[j]) + c, Base - 1)
  <2>1. each[j][c] = RowLimb(p[at + j - 1], x * right[j], c)
    OBVIOUS
  <2> HIDE DEF each
  <2> DEFINE q == p[at + j - 1]
             y == right[j]
  <2>2. q \in 0..(Base - 1) /\ y \in 0..(Base - 1)
    BY <1>3
  <2> HIDE DEF q, y
  <2>3. Summed(RowLimb(q, x * y, c), (q + x * y) + c, Base - 1)
    BY <2>2, RowLimbIs
  <2> QED
    BY <2>1, <2>3 DEF q, y
<1> HIDE DEF each, r
<1>5. Stepping(each, 4, L, C)
  <2>1. \A j \in 1..4, c \in C : each[j][c].limb \in L /\ each[j][c].carry \in C
    BY <1>4 DEF Summed
  <2>2. 0 \in C
    BY <1>1
  <2> QED
    BY <2>1, <2>2 DEF Stepping
<1>6. PICK c : Rippled(c, each, 4, L, C)
  <2> HIDE DEF L, C
  <2> QED
    BY <1>5, EachLimbIs
<1>7. /\ \A j \in 1..4 : r.limbs[j] \in L
      /\ r.carry = c[4] /\ c[0] = 0 /\ \A j \in 0..4 : c[j] \in 0..(b - 1)
  <2>1. r.limbs \in [1..4 -> L]
    BY <1>2, <1>6 DEF Rippled
  <2> QED
    BY <1>2, <1>6, <2>1 DEF Rippled
<1>8. ASSUME NEW j \in 1..4
      PROVE  p[at + j - 1] + x * right[j] + c[j - 1] = r.limbs[j] + b * c[j]
  <2>1. j - 1 \in 0..4 /\ c[j - 1] \in 0..(Base - 1)
    BY <1>7
  <2>2. r.limbs[j] = each[j][c[j - 1]].limb /\ c[j] = each[j][c[j - 1]].carry
    BY <1>2, <1>6 DEF Rippled
  <2> QED
    BY <1>4, <2>1, <2>2 DEF Summed
<1>9. \A j \in 0..4 : c[j] \in Int
  BY <1>7
<1>10. r.carry \in 0..(b - 1)
  BY <1>7
<1> QED
  BY <1>7, <1>8, <1>9, <1>10 DEF RowOf, r, b

\* The rows of the long multiplication.
LEMMA MultiplyFullRuns ==
  ASSUME NEW left, NEW right, Limbs(left, Base, 4), Limbs(right, Base, 4)
  PROVE  \E run \in [0..4 -> [1..8 -> 0..(Base - 1)]] :
           /\ run[0] = Zeroes(8) /\ MultiplyFull(left, right) = run[4]
           /\ \A i \in 1..4 : run[i]
                 = Placed(run[i - 1], i, MultiplyLimb(run[i - 1], i, left[i], right), 4)
<1> DEFINE n == 4
           D == [1..8 -> 0..(Base - 1)]
           base == Zeroes(8)
           Loop(f) == [i \in 0..n |-> IF i = 0 THEN base
                 ELSE Placed(f[i - 1], i, MultiplyLimb(f[i - 1], i, left[i], right), 4)]
           step == [e \in (1..n) \X D |->
                       Placed(e[2], e[1], MultiplyLimb(e[2], e[1], left[e[1]], right), 4)]
           iter == CHOOSE f : f = Loop(f)
<1>1. n \in Nat
  OBVIOUS
<1>2. base \in D
      /\ \A i \in 1..n, acc \in D : Placed(acc, i, MultiplyLimb(acc, i, left[i], right), 4) \in D
  <2>1. Base \in Nat \ {0} /\ 0 \in 0..(Base - 1)
    BY Sizes
  <2>2. base \in D
    BY <2>1 DEF Zeroes
  <2>3. ASSUME NEW i \in 1..n, NEW acc \in D
        PROVE  Placed(acc, i, MultiplyLimb(acc, i, left[i], right), 4) \in D
    <3> DEFINE x == left[i]
               row == MultiplyLimb(acc, i, x, right)
    <3>1. LimbMap(acc, Base, 8) /\ x \in 0..(Base - 1) /\ x \in Nat
      BY <2>1 DEF LimbMap, Limbs
    <3>2. i \in 1..14 /\ i \in 1..8 /\ i + 4 <= 8 /\ 8 \in 0..18 /\ 4 \in 0..18
      OBVIOUS
    <3> HIDE DEF D, x, base
    <3>3. RowOf(row, acc, i, x, right, Base, 4)
      BY <3>1, <3>2, MultiplyLimbIs
    <3> HIDE DEF row
    <3>4. Adds(Placed(acc, i, row, 4), acc, i, x, right, Base, 4, 8)
      BY <2>1, <3>1, <3>2, <3>3, PlacedIs
    <3>5. LimbMap(Placed(acc, i, row, 4), Base, 8)
      BY <3>4 DEF Adds
    <3> QED
      BY <3>5 DEF LimbMap, row, x, D
  <2> QED
    BY <2>2, <2>3
<1>3. MultiplyFull(left, right) = iter[n]
  BY DEF MultiplyFull
<1>4. PICK g \in [0..n -> D] : Recursive(g, n, base, step)
  <2>1. step \in [(1..n) \X D -> D]
    <3> HIDE DEF D, base, n
    <3> QED
      BY <1>2
  <2> HIDE DEF D, base, step, n
  <2> QED
    BY ONLY <1>1, <1>2, <2>1, RecursionExists
<1>5. g[0] = base /\ \A i \in 1..n : i - 1 \in 0..n /\ i # 0
      /\ g[i] = Placed(g[i - 1], i, MultiplyLimb(g[i - 1], i, left[i], right), 4)
  <2> HIDE DEF D, base, n
  <2>1. ASSUME NEW i \in 1..n
        PROVE i - 1 \in 0..n /\ i # 0
              /\ g[i] = Placed(g[i - 1], i, MultiplyLimb(g[i - 1], i, left[i], right), 4)
    <3>1. i - 1 \in 0..n /\ i # 0
      BY <1>1
    <3>2. g[i] = step[<<i, g[i - 1]>>] /\ g[i - 1] \in D
      <4> HIDE DEF step
      <4> QED
        BY <1>4, <3>1 DEF Recursive
    <3> QED
      BY <3>1, <3>2
  <2>2. g[0] = base
    <3> HIDE DEF step
    <3> QED
      BY <1>4 DEF Recursive
  <2> QED
    BY <2>1, <2>2
<1>6. \A i \in 0..n : i # 0 => i \in 1..n
  <2> HIDE DEF n
  <2> QED
    BY <1>1
<1>7. g = Loop(g)
  <2> HIDE DEF D, base, n
  <2>1. \A i \in 0..n : g[i] = Loop(g)[i]
    BY <1>5, <1>6
  <2> QED
    BY <1>4, <2>1
<1>8. iter = Loop(iter)
  <2> HIDE DEF Loop
  <2> QED
    BY <1>7
<1>9. iter[0] = base
      /\ \A i \in 1..n : iter[i]
            = Placed(iter[i - 1], i, MultiplyLimb(iter[i - 1], i, left[i], right), 4)
  <2> HIDE DEF iter, base, n
  <2>1. \A i \in 0..n : iter[i] = Loop(iter)[i]
    BY <1>8
  <2>2. 0 \in 0..n /\ \A i \in 1..n : i \in 0..n /\ i # 0
    BY <1>1
  <2> QED
    BY <2>1, <2>2
<1>10. \A i \in 0..n : iter[i] = g[i]
  <2> DEFINE same == {i \in 0..n : iter[i] = g[i]}
  <2>1. 0 \in same
    <3> HIDE DEF D, iter, base, n
    <3>1. iter[0] = g[0]
      BY ONLY <1>5, <1>9
    <3> QED
      BY <1>1, <3>1
  <2>2. ASSUME NEW i \in 1..n, i - 1 \in same PROVE i \in same
    <3>1. iter[i - 1] = g[i - 1]
      BY <2>2
    <3> HIDE DEF iter, base, n
    <3>2. i \in 0..n
      BY <1>1
    <3> QED
      BY <1>5, <1>9, <3>1, <3>2
  <2> HIDE DEF same, n
  <2>3. \A i \in 0..n : i \in same
    BY <1>1, <2>1, <2>2, UpTo
  <2> QED
    BY <2>3 DEF same
<1> QED
  <2>1. n \in 0..n
    <3> HIDE DEF n
    <3> QED
      BY <1>1
  <2> HIDE DEF iter
  <2> QED
    BY <1>3, <1>4, <1>5, <1>10, <2>1

\* multiply_full multiplies.
LEMMA MultiplyFullIs ==
  ASSUME NEW left, NEW right, Limbs(left, Base, 4), Limbs(right, Base, 4)
  PROVE  /\ LimbMap(MultiplyFull(left, right), Base, 8)
         /\ Value(MultiplyFull(left, right), Base, 8) = Of4(left) * Of4(right)
<1>1. Base \in Nat \ {0} /\ 4 \in 1..9 /\ 8 \in 0..18 /\ 4 \in 0..18
  BY Sizes
<1>2. PICK g \in [0..4 -> [1..8 -> 0..(Base - 1)]] :
        /\ g[0] = Zeroes(8) /\ MultiplyFull(left, right) = g[4]
        /\ \A i \in 1..4 :
             g[i] = Placed(g[i - 1], i, MultiplyLimb(g[i - 1], i, left[i], right), 4)
  BY MultiplyFullRuns
<1>3. ASSUME NEW i \in 0..4 PROVE LimbMap(g[i], Base, 8)
  BY <1>2 DEF LimbMap
<1>4. Product(g, left, right, Base, 4)
  <2>1. \A k \in 1..8 : g[0][k] = 0
    BY <1>2 DEF Zeroes
  <2>2. ASSUME NEW i \in 1..4
        PROVE  \E row : /\ RowOf(row, g[i - 1], i, left[i], right, Base, 4)
                        /\ g[i] = Placed(g[i - 1], i, row, 4)
    <3> DEFINE q == g[i - 1]
               x == left[i]
               row == MultiplyLimb(q, i, x, right)
    <3>1. LimbMap(q, Base, 8) /\ i \in 1..14 /\ i + 4 <= 8
      BY <1>3
    <3>2. x \in 0..(Base - 1)
      BY DEF Limbs
    <3>3. g[i] = Placed(q, i, row, 4)
      BY <1>2
    <3> HIDE DEF q, x
    <3>4. RowOf(row, q, i, x, right, Base, 4)
      BY <1>1, <3>1, <3>2, MultiplyLimbIs
    <3> HIDE DEF row
    <3>5. \E z : RowOf(z, q, i, x, right, Base, 4) /\ g[i] = Placed(q, i, z, 4)
      BY <3>3, <3>4
    <3> QED
      BY <3>5 DEF q, x
  <2>3. 2 * 4 = 8
    OBVIOUS
  <2> QED
    BY <1>3, <2>1, <2>2, <2>3 DEF Product
<1>5. Value(g[4], Base, 2 * 4) = Value(left, Base, 4) * Value(right, Base, 4) /\ 2 * 4 = 8
  BY ONLY <1>1, <1>4, Limbs(left, Base, 4), Limbs(right, Base, 4), ProductIs
<1>6. LimbMap(g[4], Base, 8)
  BY <1>3
<1> QED
  BY ONLY <1>2, <1>5, <1>6 DEF Of4

--------------------------------------------------------------------------------
(* cuda_chain.cuh: the reduction.                                               *)

\* The two limbs of the constant times a limb.
LEMMA TimesConstant ==
  ASSUME NEW h \in 0..(Base - 1)
  PROVE  /\ Low(h) \in 0..(Base - 1) /\ High(h) \in 0..(Base - 1)
         /\ Low(h) + Base * High(h) = ReductionConstant * h
<1> DEFINE b == Base
           k == ReductionConstant
           t == h * k
           l == t % b
           g == t \div b
<1>1. b \in Nat \ {0} /\ k \in 0..(b - 1) /\ h \in 0..(b - 1) /\ 0 \in 0..(b - 1)
  BY Sizes
<1>2. Low(h) = l /\ High(h) = g
  BY DEF Low, High
<1> HIDE DEF b, k
<1>3. t \in Nat /\ (0 + t) + 0 < b * b /\ t = k * h
  BY <1>1, ProductFits
<1> HIDE DEF t
<1>4. l \in 0..(b - 1) /\ g \in Nat /\ t = b * g + l
  BY <1>1, <1>3, DivMod
<1> HIDE DEF l, g
<1>5. l \in Nat /\ t = l + b * g /\ t < b * b /\ b \in Nat
  <2> DEFINE p == b * g
             s == b * b
  <2>1. p \in Int /\ s \in Int /\ t = p + l /\ l \in Int /\ (0 + t) + 0 < s
    BY <1>1, <1>3, <1>4
  <2> HIDE DEF p, s
  <2>2. t = l + p /\ t < s
    BY <1>3, <2>1
  <2> QED
    BY <1>1, <1>4, <2>2 DEF p, s
<1>6. g < b
  BY <1>1, <1>3, <1>4, <1>5, HighFits
<1>7. g \in 0..(b - 1)
  BY <1>1, <1>4, <1>6
<1> QED
  BY <1>2, <1>3, <1>4, <1>5, <1>7 DEF b, k

\* Two limbs and nothing above them.
LEMMA TwoLimbs ==
  ASSUME NEW x \in 0..(Base - 1), NEW y \in 0..(Base - 1)
  PROVE  Limbs(<<x, y, 0, 0>>, Base, 4) /\ Of4(<<x, y, 0, 0>>) = x + Base * y
<1> DEFINE b == Base
           l == <<x, y, 0, 0>>
<1>1. b \in Nat \ {0} /\ 0 \in 0..(b - 1)
  BY Sizes
<1>2. l[1] = x /\ l[2] = y /\ l[3] = 0 /\ l[4] = 0
  OBVIOUS
<1>3. Limbs(l, b, 4)
  <2> HIDE DEF l
  <2>1. \A i \in 1..4 : i = 1 \/ i = 2 \/ i = 3 \/ i = 4
    OBVIOUS
  <2> QED
    BY <1>1, <1>2, <2>1 DEF Limbs
<1> HIDE DEF l, b
<1>4. AreDigits(l, 4)
  BY <1>1, <1>3, LimbsAreDigits
<1>5. Value(l, b, 0) = 0 /\ Weight(b)[0] = 1 /\ Weight(b)[1] = b /\ Weight(b)[2] \in Int
      /\ Weight(b)[3] \in Int
  <2>1. Weight(b)[1] = b
    BY <1>1, FirstWeights
  <2>2. 2 \in 0..18 /\ 3 \in 0..18
    OBVIOUS
  <2> QED
    BY <1>1, <1>4, <2>1, <2>2, ValueIs, Weights
<1>6. /\ Value(l, b, 1) = Value(l, b, 0) + l[1] * Weight(b)[0]
      /\ Value(l, b, 2) = Value(l, b, 1) + l[2] * Weight(b)[1]
      /\ Value(l, b, 3) = Value(l, b, 2) + l[3] * Weight(b)[2]
      /\ Value(l, b, 4) = Value(l, b, 3) + l[4] * Weight(b)[3]
  <2>1. \A i \in 1..4 : Value(l, b, i) = Value(l, b, i - 1) + l[i] * Weight(b)[i - 1]
    BY <1>1, <1>4, ValueIs
  <2>2. 1 - 1 = 0 /\ 2 - 1 = 1 /\ 3 - 1 = 2 /\ 4 - 1 = 3
    OBVIOUS
  <2>3. 1 \in 1..4 /\ 2 \in 1..4 /\ 3 \in 1..4 /\ 4 \in 1..4
    OBVIOUS
  <2> QED
    BY <2>1, <2>2, <2>3
<1>7. Value(l, b, 4) = x + b * y
  <2>1. x * 1 = x /\ y * b = b * y /\ 0 * Weight(b)[2] = 0 /\ 0 * Weight(b)[3] = 0 /\ b * y \in Int
        /\ x \in Int
    BY <1>1, <1>5
  <2> DEFINE p == b * y
  <2>2. Value(l, b, 1) = 0 + x /\ p \in Int /\ Value(l, b, 2) = Value(l, b, 1) + p
        /\ Value(l, b, 3) = Value(l, b, 2) + 0 /\ Value(l, b, 4) = Value(l, b, 3) + 0
    BY <1>2, <1>5, <1>6, <2>1
  <2> HIDE DEF p
  <2>3. Value(l, b, 4) = x + p
    BY <2>1, <2>2
  <2> QED
    BY <2>3 DEF p
<1> QED
  BY <1>3, <1>7 DEF Of4, b, l

\* The digits of l one place up: all but the highest.
Up(l, n) == [i \in 1..n |-> IF i = 1 THEN 0 ELSE l[i - 1]]
Lifted(l, b, n) ==
  AreDigits(Up(l, n), n) /\ b * Value(l, b, n) = Value(Up(l, n), b, n) + Weight(b)[n] * l[n]

\* A place up is the base times as much.
LEMMA UpIs ==
  ASSUME NEW b \in Nat \ {0}, NEW n \in 1..18, NEW l, AreDigits(l, n)
  PROVE  Lifted(l, b, n)
<1> DEFINE c == [i \in 0..n |-> IF i = 0 THEN 0 ELSE l[i]]
           z == [i \in 1..n |-> 0]
           x == [i \in 1..n |-> b * l[i]]
<1>1. n \in Nat /\ n \in 0..18 /\ n \in 0..n /\ n \in 1..n /\ b \in Int /\ \A i \in 1..n : l[i] \in Int
  BY DEF AreDigits
<1>2. AreDigits(Up(l, n), n)
  <2>1. ASSUME NEW i \in 1..n PROVE Up(l, n)[i] \in Int
    <3>1. CASE i = 1
      BY <3>1 DEF Up
    <3>2. CASE i # 1
      <4>1. i - 1 \in 1..n
        BY <3>2
      <4> QED
        BY <1>1, <3>2, <4>1 DEF Up
    <3> QED
      BY <3>1, <3>2
  <2> QED
    BY <1>1, <2>1 DEF AreDigits
<1>3. AreDigits(z, n) /\ Value(z, b, n) = 0
  <2>1. \A i \in 1..n : z[i] = 0
    OBVIOUS
  <2> HIDE DEF z
  <2> QED
    BY <1>1, <2>1, NothingIs
<1>4. AreDigits(x, n) /\ Carries(x, Up(l, n), c, b, n)
  <2>1. ASSUME NEW i \in 1..n PROVE x[i] \in Int /\ x[i] + c[i - 1] = Up(l, n)[i] + b * c[i]
    <3>1. x[i] = b * l[i] /\ x[i] \in Int /\ c[i] = l[i]
      BY <1>1
    <3>2. c[i - 1] = Up(l, n)[i] /\ c[i - 1] \in Int
      <4>1. CASE i = 1
        BY <4>1 DEF Up
      <4>2. CASE i # 1
        <5>1. i - 1 \in 1..n /\ i - 1 \in 0..n /\ i - 1 # 0
          BY <4>2
        <5> QED
          BY <1>1, <4>2, <5>1 DEF Up
      <4> QED
        BY <4>1, <4>2
    <3> HIDE DEF x, c
    <3> QED
      BY <3>1, <3>2
  <2>2. ASSUME NEW i \in 0..n PROVE c[i] \in Int
    <3>1. CASE i = 0
      BY <3>1
    <3>2. CASE i # 0
      <4>1. i \in 1..n
        BY <3>2
      <4> QED
        BY <1>1, <3>2, <4>1
    <3> QED
      BY <3>1, <3>2
  <2> HIDE DEF x, c
  <2>3. AreDigits(x, n)
    BY <1>1, <2>1 DEF AreDigits
  <2> QED
    BY <1>2, <2>1, <2>2, <2>3 DEF Carries
<1>5. CarriesOut(x, Up(l, n), c, b, n)
  <2> HIDE DEF x, c
  <2> QED
    BY ONLY b \in Nat \ {0}, <1>4, CarriesAre
<1>6. c[0] = 0 /\ c[n] = l[n] /\ l[n] \in Int
  <2>1. 0 \in 0..n /\ n # 0
    BY <1>1
  <2> QED
    BY <1>1, <2>1
<1>7. Value(x, b, n) = 0 + b * Value(l, b, n)
  <2>1. \A i \in 1..n : x[i] = z[i] + b * l[i]
    <3>1. \A i \in 1..n : l[i] \in Int /\ z[i] = 0 /\ x[i] = b * l[i]
      BY <1>1
    <3> HIDE DEF x, z
    <3> QED
      BY <3>1
  <2>2. Combines(x, z, l, b, n)
    BY <1>3, <2>1 DEF Combines
  <2> HIDE DEF x, z
  <2>3. Combined(x, z, l, b, b, n)
    BY ONLY b \in Nat \ {0}, <1>1, <2>2, Linear
  <2> QED
    BY <1>3, <2>3 DEF Combined
<1>8. Value(l, b, n) \in Int /\ Value(Up(l, n), b, n) \in Int /\ Value(x, b, n) \in Int
      /\ Weight(b)[n] \in Int
  <2> HIDE DEF x
  <2>1. Value(l, b, n) \in Int
    BY <1>1, ValueIs
  <2>2. Value(Up(l, n), b, n) \in Int
    BY <1>1, <1>2, ValueIs
  <2>3. Value(x, b, n) \in Int
    BY <1>1, <1>4, ValueIs
  <2>4. Weight(b)[n] \in Int
    BY <1>1, Weights
  <2> QED
    BY <2>1, <2>2, <2>3, <2>4
<1>9. Value(x, b, n) + 0 = Value(Up(l, n), b, n) + Weight(b)[n] * l[n]
  <2> HIDE DEF x, c
  <2> QED
    BY <1>5, <1>6 DEF CarriesOut
<1>10. b * Value(l, b, n) = Value(Up(l, n), b, n) + Weight(b)[n] * l[n]
  <2> DEFINE v == b * Value(l, b, n)
             w == Weight(b)[n] * l[n]
             u == Value(Up(l, n), b, n)
             y == Value(x, b, n)
  <2>1. v \in Int /\ y = 0 + v /\ y + 0 = u + w /\ y \in Int
    BY <1>1, <1>7, <1>8, <1>9
  <2> HIDE DEF v, w, u, y
  <2>2. v = u + w
    BY <2>1
  <2> QED
    BY <2>2 DEF v, w, u
<1> QED
  BY <1>2, <1>10 DEF Lifted

\* The low limbs and the constant times the high ones.
LEMMA FirstFoldIs ==
  ASSUME NEW low, NEW high, Limbs(low, Base, 4), Limbs(high, Base, 4)
  PROVE  /\ Limbs(FirstFold(low, high).limbs, Base, 4)
         /\ FirstFold(low, high).top \in 0..ReductionConstant
         /\ Of4(low) + ReductionConstant * Of4(high)
              = Of4(FirstFold(low, high).limbs) + Above * FirstFold(low, high).top
<1> DEFINE b == Base
           k == ReductionConstant
           lows == [i \in 1..4 |-> Low(high[i])]
           highs == [i \in 1..4 |-> High(high[i])]
           up == [i \in 1..4 |-> IF i = 1 THEN 0 ELSE High(high[i - 1])]
           kh == [i \in 1..4 |-> k * high[i]]
           zero == [i \in 1..4 |-> 0]
           folded == Ripple(low, lows, up)
           f == FirstFold(low, high)
           more == High(high[4])
           t == more + folded.carry
<1>1. b \in Nat \ {0} /\ b \in Int /\ k \in Nat /\ k \in Int /\ k < b /\ 4 \in 0..18 /\ 4 \in 0..4
  BY Sizes
<1>2. ASSUME NEW i \in 1..4
      PROVE  /\ lows[i] \in 0..(b - 1) /\ highs[i] \in 0..(b - 1)
             /\ lows[i] + b * highs[i] = k * high[i] /\ high[i] \in 0..(b - 1)
  <2>1. high[i] \in 0..(b - 1)
    BY DEF Limbs
  <2>2. lows[i] = Low(high[i]) /\ highs[i] = High(high[i])
    OBVIOUS
  <2> HIDE DEF lows, highs
  <2> QED
    BY <2>1, <2>2, TimesConstant
<1>3. up = Up(highs, 4)
  <2>1. ASSUME NEW i \in 1..4, i # 1 PROVE i - 1 \in 1..4
    BY <2>1
  <2> QED
    BY <2>1 DEF Up
<1>4. f = [limbs |-> folded.limbs, top |-> t % b] /\ more = highs[4]
  BY DEF FirstFold
<1> HIDE DEF lows, highs, up, f, more, b, k
<1>5. Limbs(lows, b, 4) /\ Limbs(highs, b, 4)
  BY <1>1, <1>2 DEF Limbs
<1>6. Limbs(up, b, 4) /\ more \in 0..(b - 1) /\ b * Of4(highs) = Of4(up) + Above * more
  <2>1. AreDigits(highs, 4) /\ 4 \in 1..18
    BY <1>1, <1>5, LimbsAreDigits
  <2>2. Lifted(highs, b, 4)
    BY <1>1, <2>1, UpIs
  <2>3. Limbs(up, b, 4)
    <3>1. ASSUME NEW i \in 1..4 PROVE up[i] \in 0..(b - 1)
      <4>1. up[i] = IF i = 1 THEN 0 ELSE highs[i - 1]
        BY <1>3 DEF Up
      <4>2. i # 1 => i - 1 \in 1..4
        OBVIOUS
      <4>3. 0 \in 0..(b - 1)
        BY <1>1
      <4> QED
        BY <1>2, <4>1, <4>2, <4>3
    <3> QED
      BY <3>1 DEF Limbs
  <2>4. more \in 0..(b - 1)
    BY <1>2, <1>4
  <2> QED
    BY <1>3, <1>4, <2>2, <2>3, <2>4 DEF Lifted, Of4, Above, b
<1> HIDE DEF folded
<1>7. /\ Limbs(folded.limbs, b, 4) /\ folded.carry \in 0..3
      /\ (Of4(low) + Of4(lows)) + Of4(up) = Of4(folded.limbs) + Above * folded.carry
  <2>1. /\ LimbMap(folded.limbs, b, 4) /\ folded.carry \in 0..3
        /\ (Of4(low) + Of4(lows)) + Of4(up) = Of4(folded.limbs) + Above * folded.carry
    BY <1>5, <1>6, RippleIs DEF folded, b
  <2> QED
    BY <1>1, <2>1, LimbMapIs
<1>8. Of4(lows) + b * Of4(highs) = k * Of4(high)
  <2>1. AreDigits(lows, 4) /\ AreDigits(highs, 4) /\ AreDigits(high, 4) /\ AreDigits(zero, 4)
        /\ Value(zero, b, 4) = 0
    <3>1. AreDigits(lows, 4) /\ AreDigits(highs, 4) /\ AreDigits(high, 4)
      BY <1>1, <1>5, LimbsAreDigits DEF b
    <3>2. \A i \in 1..4 : zero[i] = 0
      OBVIOUS
    <3> HIDE DEF zero
    <3> QED
      BY <1>1, <3>1, <3>2, NothingIs
  <2>2. Combines(kh, lows, highs, b, 4)
    <3>1. \A i \in 1..4 : kh[i] = lows[i] + b * highs[i]
      BY <1>2
    <3> HIDE DEF kh
    <3> QED
      BY <2>1, <3>1 DEF Combines
  <2>3. Combines(kh, zero, high, k, 4)
    <3>1. ASSUME NEW i \in 1..4 PROVE kh[i] = zero[i] + k * high[i]
      <4>1. k * high[i] \in Int
        BY <1>1, <1>2
      <4>2. kh[i] = k * high[i] /\ zero[i] = 0
        OBVIOUS
      <4> HIDE DEF kh, zero
      <4> QED
        BY <4>1, <4>2
    <3> HIDE DEF kh, zero
    <3> QED
      BY <2>1, <3>1 DEF Combines
  <2> HIDE DEF kh, zero
  <2>4. Combined(kh, lows, highs, b, b, 4) /\ Combined(kh, zero, high, k, b, 4)
    BY ONLY <1>1, <2>2, <2>3, Linear
  <2>5. Value(high, b, 4) \in Int
    BY <1>1, <2>1, ValueIs
  <2>6. 0 + k * Value(high, b, 4) = k * Value(high, b, 4)
    BY <1>1, <2>5
  <2> QED
    BY <2>1, <2>4, <2>6 DEF Combined, Of4, b
<1>9. /\ Of4(low) \in Nat /\ Of4(low) < Above /\ Of4(lows) \in Nat /\ Of4(up) \in Nat
      /\ Of4(highs) \in Nat /\ Of4(high) \in Nat /\ Of4(high) < Above
      /\ Of4(folded.limbs) \in Nat /\ Of4(folded.limbs) < Above /\ Above \in Nat \ {0}
  BY <1>5, <1>6, <1>7, Of4Is, PrimeIs DEF b
<1>10. t \in Nat /\ Of4(low) + k * Of4(high) = Of4(folded.limbs) + Above * t
  <2>1. Above * (more + folded.carry) = Above * more + Above * folded.carry /\ t \in Nat
    <3>1. Above \in Int /\ more \in Int /\ folded.carry \in Int
      BY <1>6, <1>7, <1>9
    <3> QED
      BY <1>6, <1>7, <3>1
  <2> DEFINE p == Above * more
             q == Above * folded.carry
             r == b * Of4(highs)
             s == k * Of4(high)
             w == Above * t
             vl == Of4(low)
             vs == Of4(lows)
             vu == Of4(up)
             vf == Of4(folded.limbs)
  <2>2. p \in Int /\ q \in Int /\ r \in Int /\ s \in Int
    <3>1. Above \in Int /\ more \in Int /\ folded.carry \in Int /\ Of4(highs) \in Int
          /\ Of4(high) \in Int
      BY <1>6, <1>7, <1>9
    <3> QED
      BY <1>1, <3>1
  <2>3. vl \in Int /\ vs \in Int /\ vu \in Int /\ vf \in Int
    BY <1>9
  <2>4. w = p + q /\ (vl + vs) + vu = vf + q /\ r = vu + p /\ vs + r = s
    BY <1>6, <1>7, <1>8, <2>1
  <2> HIDE DEF p, q, r, s, w, vl, vs, vu, vf
  <2>5. vl + s = vf + w
    BY <2>2, <2>3, <2>4
  <2> QED
    BY <2>1, <2>5 DEF s, vl, vf, w
<1>11. t <= k
  <2> DEFINE vl == Of4(low)
             vh == Of4(high)
             vf == Of4(folded.limbs)
             n == Above
             total == vl + k * vh
  <2>1. vl \in Nat /\ vl < n /\ vh \in Nat /\ vh < n /\ n \in Nat \ {0} /\ vf \in Nat
    BY <1>9
  <2>2. total = vf + n * t
    BY <1>10
  <2> HIDE DEF vl, vh, vf, n, t
  <2>3. k * vh <= k * (n - 1) /\ k * vh \in Nat
    <3>1. vh * k <= (n - 1) * k
      BY <1>1, <2>1, TimesMonotone
    <3>2. vh * k = k * vh /\ (n - 1) * k = k * (n - 1) /\ k * vh \in Nat
      BY <1>1, <2>1
    <3> QED
      BY <3>1, <3>2
  <2>4. k * (n - 1) = k * n - k /\ k * n \in Nat /\ n * (k + 1) = k * n + n
    BY <1>1, <2>1
  <2>5. total \in Nat /\ total < n * (k + 1) /\ k + 1 \in Nat
    <3> DEFINE x == k * vh
               y == k * n
               z == k * (n - 1)
    <3>1. x <= z /\ x \in Nat /\ y \in Nat /\ z = y - k /\ total = vl + x /\ n * (k + 1) = y + n
      BY <2>3, <2>4
    <3> HIDE DEF x, y, z, total
    <3> QED
      BY <1>1, <2>1, <3>1
  <2> HIDE DEF total
  <2>6. t < k + 1
    <3>1. k + 1 \in Nat
      BY <1>1
    <3>2. t \in Nat
      BY <1>10
    <3> DEFINE m == k + 1
    <3>3. m \in Nat /\ total < n * m
      BY <2>5, <3>1
    <3> HIDE DEF m
    <3>4. t < m
      BY ONLY <2>1, <2>2, <2>5, <3>2, <3>3, HighFits
    <3> QED
      BY <3>4 DEF m
  <2> QED
    BY <1>1, <1>10, <2>6
<1> HIDE DEF t
<1>12. t % b = t
  <2>1. t \in 0..(b - 1) /\ t = 0 * b + t
    BY <1>1, <1>10, <1>11
  <2> QED
    BY <1>1, <1>10, <2>1, DivUnique
<1>13. f.limbs = folded.limbs /\ f.top = t
  BY <1>4, <1>12
<1>14. t \in 0..k
  BY <1>1, <1>10, <1>11
<1> QED
  BY <1>7, <1>10, <1>13, <1>14 DEF f, b, k

\* The fifth limb times the constant; and the carry once more.
LEMMA SecondFoldIs ==
  ASSUME NEW limbs, NEW top \in 0..ReductionConstant, Limbs(limbs, Base, 4)
  PROVE  /\ LimbMap(SecondFold(limbs, top).limbs, Base, 4)
         /\ SecondFold(limbs, top).carry \in 0..3
         /\ Of4(limbs) + ReductionConstant * top
              = Of4(SecondFold(limbs, top).limbs) + Above * SecondFold(limbs, top).carry
<1> DEFINE two == <<Low(top), High(top), 0, 0>>
           s == SecondFold(limbs, top)
<1>1. top \in 0..(Base - 1) /\ Base \in Nat \ {0} /\ 4 \in 0..18
  BY Sizes
<1>2. Limbs(two, Base, 4) /\ Of4(two) = ReductionConstant * top
  <2>1. /\ Low(top) \in 0..(Base - 1) /\ High(top) \in 0..(Base - 1)
        /\ Low(top) + Base * High(top) = ReductionConstant * top
    BY <1>1, TimesConstant
  <2> QED
    BY <2>1, TwoLimbs
<1>3. s = Ripple(limbs, two, Zeroes(4))
  BY DEF SecondFold
<1> HIDE DEF two, s
<1>4. Limbs(Zeroes(4), Base, 4) /\ Of4(Zeroes(4)) = 0 /\ Of4(limbs) \in Nat /\ Of4(two) \in Nat
  BY <1>2, ZeroesAre, Of4Is
<1>5. /\ LimbMap(s.limbs, Base, 4) /\ s.carry \in 0..3
      /\ (Of4(limbs) + Of4(two)) + Of4(Zeroes(4)) = Of4(s.limbs) + Above * s.carry
  BY <1>2, <1>3, <1>4, RippleIs
<1>6. (Of4(limbs) + Of4(two)) + Of4(Zeroes(4)) = Of4(limbs) + Of4(two)
  BY <1>4
<1> QED
  BY <1>2, <1>5, <1>6 DEF s

\* The limbs of a number below 2^256.
LEMMA NumberLimbs ==
  ASSUME NEW a \in Nat, a < Above
  PROVE  Limbs(LimbsOf(a, Base, 4), Base, 4) /\ Of4(LimbsOf(a, Base, 4)) = a
<1>1. Base \in Nat \ {0} /\ 4 \in 0..18 /\ Above \in Nat \ {0}
  BY Sizes, PrimeIs
<1>2. Limbs(LimbsOf(a, Base, 4), Base, 4) /\ Of4(LimbsOf(a, Base, 4)) = a % Above
  <2>1. Counts(LimbsOf(a, Base, 4), a, Base, 4)
    BY <1>1, LimbsOfNumber
  <2>2. 4 \in 0..4
    OBVIOUS
  <2> QED
    BY <2>1, <2>2 DEF Counts, Of4, Above
<1>3. a % Above = a
  <2>1. a \in 0..(Above - 1) /\ a = 0 * Above + a
    BY <1>1
  <2> QED
    BY <1>1, <2>1, DivUnique
<1> QED
  BY <1>2, <1>3

\* The prime's limbs.
LEMMA ChainPrimeIs ==
  /\ Limbs(ChainPrime, Base, 4) /\ Of4(ChainPrime) = PrimeNumber
<1>1. PrimeNumber \in Nat /\ PrimeNumber < Above
  BY Sizes, PrimeIs
<1> QED
  BY <1>1, NumberLimbs DEF ChainPrime

\* The last fold leaves four limbs.
LEMMA LastFoldIs ==
  ASSUME NEW limbs, NEW carry \in 0..1, LimbMap(limbs, Base, 4),
         carry = 1 => Of4(limbs) < ReductionConstant * ReductionConstant
  PROVE  /\ LimbMap(LastFold(limbs, carry), Base, 4)
         /\ Of4(LastFold(limbs, carry)) = Of4(limbs) + ReductionConstant * carry
<1> DEFINE k == ReductionConstant
           out == LastFold(limbs, carry)
           v == Of4(limbs)
<1>1. /\ Base \in Nat \ {0} /\ 4 \in 0..18 /\ k \in Nat /\ Above \in Nat \ {0}
      /\ k * k + k < Above /\ 0 \in 0..(Base - 1) /\ 1 \in 0..(Base - 1)
  BY Sizes, PrimeIs
<1>2. Limbs(limbs, Base, 4) /\ v \in Nat
  BY <1>1, LimbMapIs, Of4Is
<1>3. CASE carry = 0
  <2>1. out = limbs
    BY <1>3 DEF LastFold
  <2>2. v = v + k * carry
    BY <1>1, <1>2, <1>3
  <2> QED
    BY <2>1, <2>2
<1>4. CASE carry = 1
  <2> DEFINE two == <<Low(carry), 0, 0, 0>>
             r == Ripple(limbs, two, Zeroes(4))
  <2>1. Low(carry) = k
    <3>1. Low(1) = (1 * k) % Base /\ 1 * k = k
      BY <1>1 DEF Low
    <3>2. k \in 0..(Base - 1) /\ k = 0 * Base + k
      BY Sizes
    <3>3. k % Base = k
      BY <1>1, <3>2, DivUnique
    <3> QED
      BY <1>4, <3>1, <3>3
  <2>2. Limbs(two, Base, 4) /\ Of4(two) = k
    <3>1. k \in 0..(Base - 1) /\ k + Base * 0 = k
      BY Sizes
    <3> QED
      BY <1>1, <2>1, <3>1, TwoLimbs
  <2>3. out = r.limbs
    BY <1>4 DEF LastFold
  <2> HIDE DEF two, out
  <2>4. Limbs(Zeroes(4), Base, 4) /\ Of4(Zeroes(4)) = 0
    BY ZeroesAre
  <2>5. /\ LimbMap(r.limbs, Base, 4) /\ r.carry \in 0..3
        /\ (v + Of4(two)) + Of4(Zeroes(4)) = Of4(r.limbs) + Above * r.carry
    BY <1>2, <2>2, <2>4, RippleIs
  <2> HIDE DEF r
  <2>6. Of4(r.limbs) \in Nat
    BY <1>1, <2>5, LimbMapIs, Of4Is
  <2>7. v + k < Above
    <3> DEFINE s == k * k
    <3>1. v < s /\ s + k < Above /\ s \in Nat
      BY <1>1, <1>4
    <3> HIDE DEF s
    <3> QED
      BY <1>1, <1>2, <3>1
  <2>8. r.carry = 0
    <3> DEFINE c == r.carry
               w == Of4(r.limbs)
               n == Above
               total == v + k
    <3>1. total \in Nat /\ total = w + n * c /\ total < n * 1 /\ c \in Nat
      BY <1>1, <1>2, <2>2, <2>4, <2>5, <2>7
    <3>2. n \in Nat \ {0} /\ w \in Nat
      BY <1>1, <2>6
    <3> HIDE DEF c, w, n, total
    <3>3. c < 1
      BY <3>1, <3>2, HighFits
    <3> QED
      BY <3>1, <3>3 DEF c
  <2>9. v + k * carry = Of4(r.limbs)
    <3>1. Above * 0 = 0 /\ k * 1 = k
      BY <1>1
    <3> QED
      BY <1>1, <1>2, <1>4, <2>2, <2>4, <2>5, <2>6, <2>8, <3>1
  <2> QED
    BY <2>3, <2>5, <2>9 DEF out
<1> QED
  BY <1>3, <1>4

\* A number that is less than two primes from a multiple of the prime.
Near(v, w, p) == w < 2 * p /\ \E m \in Nat : v = w + p * m

\* At most one subtraction of the prime makes it a remainder.
LEMMA Reduced ==
  ASSUME NEW p \in Nat \ {0}, NEW v \in Nat, NEW w \in Nat, Near(v, w, p)
  PROVE  (v % p) = IF p <= w THEN w - p ELSE w
<1>0. PICK m \in Nat : v = w + p * m
  BY DEF Near
<1>00. w < 2 * p
  BY DEF Near
<1>1. CASE p <= w
  <2> DEFINE q == m + 1
             r == w - p
  <2>1. q \in Nat /\ r \in 0..(p - 1)
    BY <1>00, <1>1
  <2>2. v = q * p + r
    <3>1. q * p = p * m + p /\ p * m \in Nat
      OBVIOUS
    <3> DEFINE x == p * m
               y == q * p
    <3>2. y = x + p /\ x \in Nat /\ v = w + x
      BY <1>0, <3>1
    <3> HIDE DEF x, y, q
    <3>3. v = y + r
      BY <3>2
    <3> QED
      BY <3>3 DEF y
  <2> HIDE DEF q, r
  <2>3. v % p = r
    BY <2>1, <2>2, DivUnique
  <2> QED
    BY <1>1, <2>3 DEF r
<1>2. CASE ~(p <= w)
  <2>1. w \in 0..(p - 1) /\ v = m * p + w
    <3>1. p * m = m * p
      OBVIOUS
    <3> QED
      BY <1>0, <1>2, <3>1
  <2>2. v % p = w
    BY <2>1, DivUnique
  <2> QED
    BY <1>2, <2>2
<1> QED
  BY <1>1, <1>2

\* Limbs of a number are the number's.
LEMMA AreLimbsOf ==
  ASSUME NEW b \in Nat \ {0}, NEW n \in 0..18, NEW l, LimbMap(l, b, n), NEW v \in Nat,
         Value(l, b, n) = v
  PROVE  l = LimbsOf(v, b, n)
<1>1. Limbs(l, b, n) /\ DOMAIN l = 1..n
  BY LimbMapIs
<1>2. \A i \in 1..n : LimbsOf(v, b, n)[i] = l[i]
  <2>1. Limbs(l, b, n) /\ Value(l, b, n) = v
    BY <1>1
  <2> QED
    BY ONLY b \in Nat \ {0}, v \in Nat, <2>1, LimbsOfValue
<1> DEFINE m == LimbsOf(v, b, n)
<1>3. DOMAIN m = 1..n /\ m = [i \in 1..n |-> m[i]]
  BY DEF LimbsOf
<1>4. l = [i \in 1..n |-> l[i]]
  BY DEF LimbMap
<1> HIDE DEF m
<1>5. \A i \in 1..n : m[i] = l[i]
  BY <1>2 DEF m
<1>6. l = m
  BY <1>3, <1>4, <1>5
<1> QED
  BY <1>6 DEF m

\* cuda_chain's reduce leaves the limbs of the remainder by the prime, whatever its folds carry.
THEOREM ReduceIsRemainder ==
  ASSUME NEW low, NEW high, Limbs(low, Base, 4), Limbs(high, Base, 4)
  PROVE  Reduce(low, high) = LimbsOf((Of4(low) + Above * Of4(high)) % PrimeNumber, Base, 4)
<1> DEFINE k == ReductionConstant
           n == Above
           p == PrimeNumber
           first == FirstFold(low, high)
           second == SecondFold(first.limbs, first.top)
           out == LastFold(second.limbs, second.carry)
           v == Of4(low) + n * Of4(high)
           t == first.top
           c == second.carry
           v1 == Of4(first.limbs)
           v2 == Of4(second.limbs)
           v3 == Of4(out)
           vl == Of4(low)
           vh == Of4(high)
<1>1. /\ Base \in Nat \ {0} /\ 4 \in 0..18 /\ k \in Nat /\ n \in Nat \ {0} /\ p \in Nat \ {0}
      /\ p = n - k /\ k * k + k < n /\ 2 * k < n /\ n * 1 = n
  BY Sizes, PrimeIs
<1>2. vl \in Nat /\ vh \in Nat
  BY Of4Is
<1>3. Limbs(first.limbs, Base, 4) /\ t \in 0..k /\ vl + k * vh = v1 + n * t
  BY FirstFoldIs
<1> HIDE DEF first
<1>4. LimbMap(second.limbs, Base, 4) /\ c \in 0..3 /\ v1 + k * t = v2 + n * c
  BY <1>3, SecondFoldIs
<1> HIDE DEF second
<1>5. v1 \in Nat /\ v1 < n /\ v2 \in Nat
  BY <1>1, <1>3, <1>4, LimbMapIs, Of4Is
<1>6. k * t \in Nat /\ k * t <= k * k /\ k * k \in Nat
  <2>1. t * k <= k * k
    BY <1>1, <1>3, TimesMonotone
  <2>2. t * k = k * t /\ k * t \in Nat /\ k * k \in Nat
    BY <1>1, <1>3
  <2> QED
    BY <2>1, <2>2
<1> DEFINE kt == k * t
           kk == k * k
<1>7. c \in 0..1 /\ (c = 1 => v2 < kk)
  <2> DEFINE total == v1 + kt
  <2>1. total \in Nat /\ total < n * 2 /\ total = v2 + n * c /\ total < n + kk
    <3>1. kt \in Nat /\ kk \in Nat /\ kt <= kk /\ kk + k < n /\ n * 2 = n + n /\ total = v2 + n * c
      BY <1>1, <1>4, <1>6
    <3> HIDE DEF kt, kk, v1
    <3> QED
      BY <1>1, <1>5, <3>1
  <2> HIDE DEF total, v1, v2, kt, kk, n, c
  <2>2. c \in Nat /\ 2 \in Nat /\ n \in Nat \ {0} /\ v2 \in Nat
    BY <1>1, <1>4, <1>5
  <2>3. c < 2
    BY <2>1, <2>2, HighFits
  <2>4. ASSUME c = 1 PROVE v2 < kk
    <3>1. n * c = n
      BY <1>1, <2>4
    <3>2. kk \in Nat
      BY <1>6 DEF kk
    <3> QED
      BY <1>1, <1>5, <2>1, <3>1, <3>2
  <2> QED
    BY <2>2, <2>3, <2>4
<1>8. LimbMap(out, Base, 4) /\ v3 = v2 + k * c
  BY <1>4, <1>7, LastFoldIs
<1>9. v3 \in Nat /\ v3 < n /\ Limbs(out, Base, 4) /\ DOMAIN out = 1..4
  BY <1>1, <1>8, LimbMapIs, Of4Is
<1> HIDE DEF out, v1, v2, v3, vl, vh, t, c
<1> DEFINE m == (vh + t) + c
<1>10. m \in Nat /\ v \in Nat /\ v = v3 + p * m
  <2>1. m \in Nat /\ v \in Nat
    <3>1. n * vh \in Nat
      BY <1>1, <1>2
    <3> QED
      BY <1>2, <1>3, <1>7, <3>1 DEF vl, vh
  <2>2. p * m = (n * vh + n * t + n * c) - (k * vh + k * t + k * c)
    <3>1. p * m = (n - k) * m /\ (n - k) * m = n * m - k * m
      BY <1>1, <2>1
    <3>2. n * m = n * vh + n * t + n * c /\ k * m = k * vh + k * t + k * c
      BY <1>1, <1>2, <1>3, <1>7
    <3> QED
      BY <3>1, <3>2
  <2> DEFINE a1 == n * vh
             a2 == n * t
             a3 == n * c
             b1 == k * vh
             b3 == k * c
             pm == p * m
  <2>3. a1 \in Int /\ a2 \in Int /\ a3 \in Int /\ b1 \in Int /\ b3 \in Int /\ kt \in Int
    BY <1>1, <1>2, <1>3, <1>6, <1>7
  <2>4. /\ vl + b1 = v1 + a2 /\ v1 + kt = v2 + a3 /\ v3 = v2 + b3
        /\ pm = (a1 + a2 + a3) - (b1 + kt + b3) /\ v = vl + a1
    BY <1>3, <1>4, <1>8, <2>2 DEF vl, vh
  <2> HIDE DEF a1, a2, a3, b1, b3, kt, pm, v
  <2>5. v = v3 + pm
    BY <1>2, <1>5, <2>3, <2>4
  <2> QED
    BY <2>1, <2>5 DEF pm
<1>11. v3 < 2 * p
  BY <1>1, <1>9
<1>12. v % p = IF p <= v3 THEN v3 - p ELSE v3
  <2> HIDE DEF v, m, p
  <2>1. Near(v, v3, p)
    BY <1>10, <1>11 DEF Near
  <2>2. p \in Nat \ {0} /\ v \in Nat /\ v3 \in Nat
    BY <1>1, <1>9, <1>10
  <2> QED
    BY ONLY <2>1, <2>2, Reduced
<1>13. AtLeast(out, ChainPrime) <=> p <= v3
  <2>1. Limbs(ChainPrime, Base, 4) /\ Value(ChainPrime, Base, 4) = p /\ Value(out, Base, 4) = v3
    BY ChainPrimeIs DEF Of4, v3
  <2> HIDE DEF p
  <2>2. Base \in Nat \ {0} /\ Limbs(out, Base, 4) /\ DOMAIN out = 1..4
    BY <1>1, <1>9
  <2>3. AtLeast(out, ChainPrime) <=> Value(ChainPrime, Base, 4) <= Value(out, Base, 4)
    BY ONLY <2>1, <2>2, Compare
  <2> QED
    BY ONLY <2>1, <2>3
<1>14. Reduce(low, high) = IF p <= v3 THEN SubtractRaw(out, ChainPrime).limbs ELSE out
  BY <1>13 DEF Reduce, out, second, first
<1> DEFINE s == SubtractRaw(out, ChainPrime)
<1>15. ASSUME p <= v3 PROVE LimbMap(s.limbs, Base, 4) /\ Of4(s.limbs) = v3 - p
  <2>1. LimbMap(s.limbs, Base, 4) /\ s.carry \in 0..1 /\ v3 - p = Of4(s.limbs) - n * s.carry
    BY <1>9, ChainPrimeIs, SubtractRawIs DEF v3
  <2> HIDE DEF s
  <2>2. Of4(s.limbs) \in Nat /\ Of4(s.limbs) < n
    BY <1>1, <2>1, LimbMapIs, Of4Is
  <2>3. s.carry # 1
    <3>1. n * 1 = n
      BY <1>1
    <3> QED
      BY <1>1, <1>9, <1>15, <2>1, <2>2, <3>1
  <2>4. s.carry = 0 /\ n * 0 = 0
    BY <1>1, <2>1, <2>3
  <2>5. v3 - p = Of4(s.limbs)
    BY <1>1, <1>9, <2>1, <2>2, <2>4
  <2> QED
    BY <2>1, <2>5
<1> HIDE DEF s, v, p
<1>16. CASE p <= v3
  <2>1. v3 - p \in Nat /\ v % p = v3 - p /\ Value(s.limbs, Base, 4) = v3 - p
    BY <1>1, <1>9, <1>12, <1>15, <1>16 DEF Of4
  <2>2. s.limbs = LimbsOf(v3 - p, Base, 4)
    BY <1>1, <1>15, <1>16, <2>1, AreLimbsOf
  <2> QED
    BY <1>14, <1>16, <2>1, <2>2 DEF v, p, s
<1>17. CASE ~(p <= v3)
  <2>1. v % p = v3 /\ Value(out, Base, 4) = v3
    BY <1>12, <1>17 DEF v3, Of4
  <2>2. out = LimbsOf(v3, Base, 4)
    BY <1>1, <1>8, <1>9, <2>1, AreLimbsOf
  <2> QED
    BY <1>14, <1>17, <2>1, <2>2 DEF v, p
<1> QED
  BY <1>16, <1>17

\* An element of the field as four limbs.
LEMMA OperandIs ==
  ASSUME NEW a \in 0..(PrimeNumber - 1)
  PROVE  Limbs(LimbsOf(a, Base, 4), Base, 4) /\ Of4(LimbsOf(a, Base, 4)) = a /\ a \in Nat
<1>1. a \in Nat /\ a < Above
  BY Sizes, PrimeIs
<1> QED
  BY <1>1, NumberLimbs

\* cuda_chain's field_add: two elements give the four limbs of their sum modulo the prime.
THEOREM ChainAddIsSum ==
  ASSUME NEW a \in 0..(PrimeNumber - 1), NEW b \in 0..(PrimeNumber - 1)
  PROVE  ChainAdd(LimbsOf(a, Base, 4), LimbsOf(b, Base, 4))
           = LimbsOf((a + b) % PrimeNumber, Base, 4)
<1> DEFINE x == LimbsOf(a, Base, 4)
           y == LimbsOf(b, Base, 4)
           s == AddRaw(x, y)
           high == <<s.carry, 0, 0, 0>>
<1>1. Limbs(x, Base, 4) /\ Limbs(y, Base, 4) /\ Of4(x) = a /\ Of4(y) = b /\ a \in Nat /\ b \in Nat
  BY OperandIs
<1> HIDE DEF x, y
<1>2. LimbMap(s.limbs, Base, 4) /\ s.carry \in 0..3 /\ a + b = Of4(s.limbs) + Above * s.carry
  BY <1>1, AddRawIs
<1>3. ChainAdd(x, y) = Reduce(s.limbs, high)
  BY DEF ChainAdd
<1> HIDE DEF s
<1>4. Limbs(s.limbs, Base, 4)
  <2>1. Base \in Nat \ {0} /\ 4 \in 0..18
    BY Sizes
  <2> QED
    BY <1>2, <2>1, LimbMapIs
<1>5. Limbs(high, Base, 4) /\ Of4(high) = s.carry
  <2>1. s.carry \in 0..(Base - 1) /\ 0 \in 0..(Base - 1) /\ s.carry + Base * 0 = s.carry
    BY <1>2, Sizes
  <2> QED
    BY <2>1, TwoLimbs
<1> HIDE DEF high
<1>6. Reduce(s.limbs, high) = LimbsOf((a + b) % PrimeNumber, Base, 4)
  BY <1>2, <1>4, <1>5, ReduceIsRemainder
<1> QED
  BY <1>3, <1>6 DEF x, y

\* cuda_chain's field_multiply: two elements give the four limbs of their product modulo the prime.
THEOREM ChainMultiplyIsProduct ==
  ASSUME NEW a \in 0..(PrimeNumber - 1), NEW b \in 0..(PrimeNumber - 1)
  PROVE  ChainMultiply(LimbsOf(a, Base, 4), LimbsOf(b, Base, 4))
           = LimbsOf((a * b) % PrimeNumber, Base, 4)
<1> DEFINE x == LimbsOf(a, Base, 4)
           y == LimbsOf(b, Base, 4)
           full == MultiplyFull(x, y)
           low == [i \in 1..4 |-> full[i]]
           high == [i \in 1..4 |-> full[i + 4]]
<1>1. Limbs(x, Base, 4) /\ Limbs(y, Base, 4) /\ Of4(x) = a /\ Of4(y) = b /\ a \in Nat /\ b \in Nat
  BY OperandIs
<1>0. Base \in Nat \ {0} /\ 4 \in 0..8 /\ 8 \in 0..18 /\ 8 \in 0..8 /\ 4 \in 0..4
  BY Sizes
<1> HIDE DEF x, y
<1>2. LimbMap(full, Base, 8) /\ Value(full, Base, 8) = a * b
  BY <1>1, MultiplyFullIs
<1>3. ChainMultiply(x, y) = Reduce(low, high)
  BY DEF ChainMultiply
<1> HIDE DEF full
<1>4. AreDigits(full, 8) /\ \A i \in 1..8 : full[i] \in 0..(Base - 1)
  BY <1>0, <1>2, LimbMapIs
<1>5. Limbs(low, Base, 4) /\ Limbs(high, Base, 4)
  <2>1. \A i \in 1..4 : i \in 1..8 /\ i + 4 \in 1..8
    OBVIOUS
  <2> QED
    BY <1>4, <2>1 DEF Limbs
<1>6. Value(low, Base, 4) = Value(full, Base, 4)
  <2>1. AreDigits(full, 4)
    BY <1>4 DEF AreDigits
  <2>2. \A i \in 1..4 : low[i] = full[i]
    OBVIOUS
  <2> HIDE DEF low
  <2>3. \A i \in 0..4 : Value(low, Base, i) = Value(full, Base, i)
    BY <1>0, <2>1, <2>2, SameValue
  <2> QED
    BY <1>0, <2>3
<1>7. Value(full, Base, 8) = Value(full, Base, 4) + Weight(Base)[4] * Value(high, Base, 4)
  <2>1. \A i \in 1..4 : high[i] = full[4 + i]
    <3>1. \A i \in 1..4 : i + 4 = 4 + i
      OBVIOUS
    <3> QED
      BY <3>1
  <2>2. 4 = 8 - 4
    OBVIOUS
  <2> HIDE DEF high
  <2>3. Divides(high, full, 4, 8, 4)
    BY <1>0, <1>4, <2>1, <2>2 DEF Divides
  <2>4. Divided(high, full, 4, 8, 4, Base)
    BY ONLY <1>0, <2>3, Split
  <2> QED
    BY <2>4 DEF Divided
<1> HIDE DEF low, high
<1>8. Reduce(low, high) = LimbsOf((a * b) % PrimeNumber, Base, 4)
  <2>1. a * b = Of4(low) + Above * Of4(high)
    BY <1>2, <1>6, <1>7 DEF Of4, Above
  <2> QED
    BY <1>5, <2>1, ReduceIsRemainder
<1> QED
  BY <1>3, <1>8 DEF x, y

\* A difference of two remainders.
LEMMA DifferenceIs ==
  ASSUME NEW p \in Nat \ {0}, NEW a \in 0..(p - 1), NEW b \in 0..(p - 1)
  PROVE  (a - b) % p = IF b <= a THEN a - b ELSE (a - b) + p
<1> DEFINE z == a - b
<1>1. CASE b <= a
  <2>1. z \in Nat /\ z \in 0..(p - 1) /\ z = 0 * p + z
    BY <1>1
  <2> HIDE DEF z
  <2>2. (z % p) = z
    BY <2>1, DivUnique
  <2> QED
    BY <1>1, <2>2 DEF z
<1>2. CASE ~(b <= a)
  <2>1. z \in Int /\ z + p \in 0..(p - 1)
    BY <1>2
  <2> HIDE DEF z
  <2>2. (z % p) = z + p
    BY <2>1, WrapBelow
  <2> QED
    BY <1>2, <2>2 DEF z
<1> QED
  BY <1>1, <1>2

\* cuda_chain's field_subtract: the four limbs of the difference modulo the prime, borrow or not.
THEOREM ChainSubtractIsDifference ==
  ASSUME NEW a \in 0..(PrimeNumber - 1), NEW b \in 0..(PrimeNumber - 1)
  PROVE  ChainSubtract(LimbsOf(a, Base, 4), LimbsOf(b, Base, 4))
           = LimbsOf((a - b) % PrimeNumber, Base, 4)
<1> DEFINE x == LimbsOf(a, Base, 4)
           y == LimbsOf(b, Base, 4)
           d == SubtractRaw(x, y)
           s == AddRaw(d.limbs, ChainPrime)
           p == PrimeNumber
           n == Above
<1>0. /\ Base \in Nat \ {0} /\ 4 \in 0..18 /\ n \in Nat \ {0} /\ p \in Nat \ {0} /\ p < n
      /\ n * 0 = 0 /\ n * 1 = n /\ 2 * p > n
  BY Sizes, PrimeIs
<1>1. Limbs(x, Base, 4) /\ Limbs(y, Base, 4) /\ Of4(x) = a /\ Of4(y) = b /\ a \in Nat /\ b \in Nat
      /\ a < p /\ b < p
  BY <1>0, OperandIs
<1> HIDE DEF x, y
<1>2. LimbMap(d.limbs, Base, 4) /\ d.carry \in 0..1 /\ a - b = Of4(d.limbs) - n * d.carry
  BY <1>1, SubtractRawIs
<1>3. ChainSubtract(x, y) = IF d.carry # 0 THEN s.limbs ELSE d.limbs
  BY DEF ChainSubtract
<1> HIDE DEF d
<1>4. Limbs(d.limbs, Base, 4) /\ Of4(d.limbs) \in Nat /\ Of4(d.limbs) < n
  BY <1>0, <1>2, LimbMapIs, Of4Is
<1>5. (a - b) % p = IF b <= a THEN a - b ELSE (a - b) + p
  BY <1>0, DifferenceIs
<1>6. CASE d.carry = 0
  <2>1. a - b = Of4(d.limbs) /\ b <= a
    BY <1>0, <1>1, <1>2, <1>4, <1>6
  <2>2. (a - b) % p = Of4(d.limbs)
    BY <1>5, <2>1
  <2>3. d.limbs = LimbsOf(Of4(d.limbs), Base, 4)
    BY <1>0, <1>2, <1>4, AreLimbsOf DEF Of4
  <2> QED
    BY <1>3, <1>6, <2>2, <2>3 DEF x, y
<1>7. CASE d.carry = 1
  <2>1. a - b = Of4(d.limbs) - n /\ ~(b <= a)
    BY <1>0, <1>1, <1>2, <1>4, <1>7
  <2>2. Limbs(ChainPrime, Base, 4) /\ Of4(ChainPrime) = p
    BY ChainPrimeIs
  <2>3. LimbMap(s.limbs, Base, 4) /\ s.carry \in 0..3 /\ Of4(d.limbs) + p = Of4(s.limbs) + n * s.carry
    BY <1>4, <2>2, AddRawIs
  <2> HIDE DEF s
  <2>4. Of4(s.limbs) \in Nat /\ Of4(s.limbs) < n
    BY <1>0, <2>3, LimbMapIs, Of4Is
  <2> DEFINE e == Of4(d.limbs)
             f == Of4(s.limbs)
             c == s.carry
             total == e + p
  <2>5. total \in Nat /\ total < n * 2 /\ total = f + n * c /\ f \in Nat /\ c \in Nat
    <3>1. n * 2 = n + n
      BY <1>0
    <3> QED
      BY <1>0, <1>4, <2>3, <2>4, <3>1
  <2>6. c < 2
    <3>1. 2 \in Nat /\ n \in Nat \ {0}
      BY <1>0
    <3> HIDE DEF total, f, c, n
    <3> QED
      BY <2>5, <3>1, HighFits
  <2>7. total >= n
    BY <1>0, <1>1, <1>4, <2>1
  <2>8. c = 1
    <3>1. CASE c = 0
      BY <1>0, <2>4, <2>5, <2>7, <3>1
    <3> QED
      BY <2>5, <2>6, <3>1
  <2>9. f = (a - b) + p
    BY <1>0, <1>1, <1>4, <2>1, <2>4, <2>5, <2>8
  <2>10. (a - b) % p = f
    BY <1>5, <2>1, <2>9
  <2>11. s.limbs = LimbsOf(f, Base, 4)
    <3>1. f \in Nat /\ Value(s.limbs, Base, 4) = f
      BY <2>4 DEF Of4
    <3> DEFINE l == s.limbs
    <3>2. LimbMap(l, Base, 4) /\ Value(l, Base, 4) = f /\ f \in Nat
      BY <2>3, <3>1
    <3>3. Base \in Nat \ {0} /\ 4 \in 0..18
      BY <1>0, Sizes
    <3> HIDE DEF f, l
    <3>4. l = LimbsOf(f, Base, 4)
      BY ONLY <3>2, <3>3, AreLimbsOf
    <3> QED
      BY <3>4 DEF l
  <2> QED
    BY <1>3, <1>7, <2>10, <2>11 DEF x, y
<1> QED
  BY <1>2, <1>6, <1>7

--------------------------------------------------------------------------------
(* cuda_secp.cuh: the sizes.                                                    *)

\* How many times a limb's largest value an accumulator has room for.
Room == 2 * SmallConstant + 3

\* An accumulator has that much room.
LEMMA LegacySizes ==
  /\ HalfBase \in Nat \ {0} /\ HalfBase >= 2 /\ SmallConstant \in Nat
  /\ Room \in Nat /\ Room >= 3 /\ Room <= 2 * ReductionConstant - 1
  /\ AccumulatorSize \in Nat \ {0} /\ HalfBase * Room <= AccumulatorSize
<1>1. /\ HalfBase \in Nat \ {0} /\ HalfBase >= 2 /\ SmallConstant \in Nat
      /\ ReductionConstant = HalfBase + SmallConstant
  BY Sizes
<1>2. AccumulatorSize \in Nat /\ HalfBase * Room <= AccumulatorSize
  BY LimbsFit DEF LimbAssumption, Room
<1>3. Room \in Nat /\ Room >= 3 /\ Room <= 2 * ReductionConstant - 1
  BY <1>1 DEF Room
<1>4. AccumulatorSize # 0
  <2>1. 2 * Room <= HalfBase * Room
    BY <1>1, <1>3, TimesMonotone
  <2> DEFINE x == HalfBase * Room
  <2>2. x <= AccumulatorSize /\ 2 * Room <= x /\ x \in Nat
    BY <1>1, <1>2, <1>3, <2>1
  <2> HIDE DEF x
  <2> QED
    BY <1>2, <1>3, <2>2
<1> QED
  BY <1>1, <1>2, <1>3, <1>4

\* Two limbs of cuda_secp are one of cuda_chain.
LEMMA WeightsOfPairs ==
  \A j \in 0..4 : 2 * j \in 0..18 /\ Weight(HalfBase)[2 * j] = Weight(Base)[j]
<1> DEFINE h == HalfBase
           b == Base
           good == {j \in 0..4 : Weight(h)[2 * j] = Weight(b)[j]}
<1>1. h \in Nat \ {0} /\ b \in Nat \ {0} /\ b = h * h /\ 4 \in Nat
  BY Sizes
<1> HIDE DEF h, b
<1>2. 0 \in good
  <2>1. 2 * 0 = 0 /\ 0 \in 0..4
    OBVIOUS
  <2> QED
    BY <1>1, <2>1, Weights
<1>3. ASSUME NEW j \in 1..4, j - 1 \in good PROVE j \in good
  <2> DEFINE w == Weight(h)[2 * (j - 1)]
  <2>1. /\ 2 * j \in 1..18 /\ 2 * j - 1 \in 1..18 /\ (2 * j - 1) - 1 = 2 * (j - 1) /\ j \in 1..18
        /\ 2 * (j - 1) \in 0..18 /\ j \in 0..4
    OBVIOUS
  <2>2. Weight(h)[2 * j] = Weight(h)[2 * j - 1] * h
    BY <1>1, <2>1, Weights
  <2>3. Weight(h)[2 * j - 1] = Weight(h)[(2 * j - 1) - 1] * h
    BY <1>1, <2>1, Weights
  <2>4. Weight(b)[j] = Weight(b)[j - 1] * b
    BY <1>1, <2>1, Weights
  <2>5. w \in Nat
    BY <1>1, <2>1, Weights
  <2>6. Weight(h)[2 * j - 1] = w * h /\ Weight(b)[j - 1] = w
    BY <1>3, <2>1, <2>3
  <2> HIDE DEF w
  <2>7. (w * h) * h = w * (h * h)
    BY <1>1, <2>5
  <2> QED
    BY <1>1, <2>1, <2>2, <2>4, <2>6, <2>7
<1>4. \A j \in 0..4 : j \in good
  <2> HIDE DEF good
  <2> QED
    BY <1>1, <1>2, <1>3, UpTo
<1>5. \A j \in 0..4 : 2 * j \in 0..18
  OBVIOUS
<1> QED
  BY <1>4, <1>5 DEF h, b

\* 2^256 and its square among the places of cuda_secp; the square of the constant is small.
LEMMA LegacyAbove ==
  /\ Weight(HalfBase)[8] = Above /\ Weight(HalfBase)[16] = Above * Above
  /\ 2 * (ReductionConstant * ReductionConstant) < Above
<1> DEFINE h == HalfBase
           b == Base
           k == ReductionConstant
<1>1. h \in Nat \ {0} /\ b \in Nat \ {0} /\ b >= 4 /\ k \in Nat /\ k < b /\ k >= 2
  BY Sizes
<1>2. Weight(h)[8] = Above
  <2>1. 4 \in 0..4 /\ 2 * 4 = 8
    OBVIOUS
  <2> QED
    BY <2>1, WeightsOfPairs DEF Above
<1>3. Weight(h)[16] = Above * Above
  <2>1. 8 \in 0..18 /\ 8 \in 0..(18 - 8) /\ 8 + 8 = 16
    OBVIOUS
  <2>2. Weight(h)[8 + 8] = Weight(h)[8] * Weight(h)[8]
    BY <1>1, <2>1, WeightsMultiply
  <2> QED
    BY <1>2, <2>1, <2>2
<1>4. 2 * (k * k) < Above
  <2>1. Weight(b)[1] = b /\ Weight(b)[2] = b * b /\ Above = (b * b) * (b * b)
    BY <1>1, FirstWeights DEF Above
  <2> HIDE DEF b, k
  <2>2. k * k <= b * k /\ k * b <= b * b /\ k * b = b * k /\ 4 * b <= b * b
    BY <1>1, TimesMonotone
  <2> DEFINE s == b * b
             kk == k * k
             kb == b * k
  <2>3. kk <= s /\ kk \in Nat /\ s \in Nat /\ s >= 16
    <3>1. kk \in Nat /\ kb \in Nat /\ s \in Nat /\ kk <= kb /\ kb <= s /\ 4 * b <= s
      BY <1>1, <2>2
    <3> HIDE DEF kk, s, kb
    <3> QED
      BY <1>1, <3>1
  <2> HIDE DEF s, kk
  <2>4. 16 * s <= s * s
    BY <2>3, TimesMonotone
  <2>5. 2 * kk < s * s
    <3> DEFINE t == s * s
    <3>1. t \in Nat /\ 16 * s <= t
      BY <2>3, <2>4
    <3> HIDE DEF t
    <3>2. 2 * kk < t
      BY <2>3, <3>1
    <3> QED
      BY <3>2 DEF t
  <2> QED
    BY <2>1, <2>5 DEF s, kk
<1> QED
  BY <1>2, <1>3, <1>4 DEF h, k

--------------------------------------------------------------------------------
(* cuda_secp.cuh: products.                                                     *)

\* A number cut to a limb, and what that carries.
CutTo(v, b) == [limb |-> v % b, carry |-> v \div b]
Cut(d, v, most, b) ==
  /\ d.limb \in 0..(b - 1) /\ d.carry \in Nat /\ d.carry < most /\ v = d.limb + b * d.carry

\* A number that is small enough is cut to a limb and a small carry.
LEMMA CutIs ==
  ASSUME NEW b \in Nat \ {0}, NEW most \in Nat, NEW v \in Nat, v < b * most
  PROVE  Cut(CutTo(v, b), v, most, b)
<1> DEFINE low == v % b
           high == v \div b
<1>1. low \in 0..(b - 1) /\ high \in Nat /\ v = b * high + low
  BY DivMod
<1>2. CutTo(v, b).limb = low /\ CutTo(v, b).carry = high
  BY DEF CutTo
<1> HIDE DEF low, high
<1>3. v = low + b * high /\ low \in Nat
  <2> DEFINE p == b * high
  <2>1. p \in Nat /\ v = p + low
    BY <1>1
  <2> HIDE DEF p
  <2>2. v = low + p
    BY <1>1, <2>1
  <2> QED
    BY <1>1, <2>2 DEF p
<1>4. high < most
  BY ONLY <1>1, <1>3, b \in Nat \ {0}, most \in Nat, v \in Nat, v < b * most, HighFits
<1> QED
  BY <1>1, <1>2, <1>3, <1>4 DEF Cut

\* A row of the long multiplication.
LEMMA LegacyMultiplyLimbIs ==
  ASSUME NEW p, NEW top \in 0..18, LimbMap(p, HalfBase, top), NEW at \in 1..10, at + 8 <= top,
         NEW x \in 0..(HalfBase - 1), NEW right, Limbs(right, HalfBase, 8)
  PROVE  RowOf(LegacyMultiplyLimb(p, at, x, right), p, at, x, right, HalfBase, 8)
<1> DEFINE b == HalfBase
           each == [j \in 1..8 |-> [carry \in 0..(HalfBase - 1) |->
                      CutTo(p[at + j - 1] + x * right[j] + carry, HalfBase)]]
           L == 0..(b - 1)
           C == 0..(b - 1)
           r == LegacyMultiplyLimb(p, at, x, right)
<1>1. b \in Nat \ {0} /\ 8 \in Nat
  BY Sizes
<1>2. r = EachLimb(each, 8)
  BY DEF LegacyMultiplyLimb, CutTo
<1>3. ASSUME NEW j \in 1..8 PROVE p[at + j - 1] \in 0..(HalfBase - 1) /\ right[j] \in 0..(HalfBase - 1)
  <2>1. at + j - 1 \in 1..top
    OBVIOUS
  <2>2. p[at + j - 1] \in 0..(HalfBase - 1)
    BY <1>1, <2>1, LimbMapIs
  <2> QED
    BY <2>2 DEF Limbs
<1>4. ASSUME NEW j \in 1..8, NEW c \in 0..(HalfBase - 1)
      PROVE  Cut(each[j][c], (p[at + j - 1] + x * right[j]) + c, HalfBase, HalfBase)
  <2>1. each[j][c] = CutTo((p[at + j - 1] + x * right[j]) + c, HalfBase)
    OBVIOUS
  <2> HIDE DEF each
  <2> DEFINE q == p[at + j - 1]
             y == right[j]
  <2>2. q \in 0..(HalfBase - 1) /\ y \in 0..(HalfBase - 1)
    BY <1>3
  <2> HIDE DEF q, y
  <2>3. (q + x * y) + c \in Nat /\ (q + x * y) + c < HalfBase * HalfBase /\ HalfBase \in Nat
    BY <1>1, <2>2, ProductFits
  <2> DEFINE v == (q + x * y) + c
  <2> HIDE DEF v
  <2>4. Cut(CutTo(v, HalfBase), v, HalfBase, HalfBase)
    BY <1>1, <2>3, CutIs DEF v
  <2> QED
    BY <2>1, <2>4 DEF q, y, v
<1> HIDE DEF each, r
<1>5. Stepping(each, 8, L, C)
  <2>1. \A j \in 1..8, c \in C : each[j][c].limb \in L /\ each[j][c].carry \in C
    BY <1>1, <1>4 DEF Cut
  <2>2. 0 \in C
    BY <1>1
  <2> QED
    BY <2>1, <2>2 DEF Stepping
<1>6. PICK c : Rippled(c, each, 8, L, C)
  <2> HIDE DEF L, C
  <2> QED
    BY <1>5, EachLimbIs
<1>7. /\ \A j \in 1..8 : r.limbs[j] \in L
      /\ r.carry = c[8] /\ c[0] = 0 /\ \A j \in 0..8 : c[j] \in 0..(b - 1)
  <2>1. r.limbs \in [1..8 -> L]
    BY <1>2, <1>6 DEF Rippled
  <2> QED
    BY <1>2, <1>6, <2>1 DEF Rippled
<1>8. ASSUME NEW j \in 1..8
      PROVE  p[at + j - 1] + x * right[j] + c[j - 1] = r.limbs[j] + b * c[j]
  <2>1. j - 1 \in 0..8 /\ c[j - 1] \in 0..(HalfBase - 1)
    BY <1>7
  <2>2. r.limbs[j] = each[j][c[j - 1]].limb /\ c[j] = each[j][c[j - 1]].carry
    BY <1>2, <1>6 DEF Rippled
  <2> QED
    BY <1>4, <2>1, <2>2 DEF Cut
<1>9. \A j \in 0..8 : c[j] \in Int
  BY <1>7
<1>10. r.carry \in 0..(b - 1)
  BY <1>7
<1> QED
  BY <1>7, <1>8, <1>9, <1>10 DEF RowOf, r, b

\* The rows of cuda_secp's long multiplication.
LEMMA LegacyProductRuns ==
  ASSUME NEW left, NEW right, Limbs(left, HalfBase, 8), Limbs(right, HalfBase, 8)
  PROVE  \E run \in [0..8 -> [1..16 -> 0..(HalfBase - 1)]] :
           /\ run[0] = Zeroes(16) /\ LegacyProduct(left, right) = run[8]
           /\ \A i \in 1..8 : run[i]
                 = Placed(run[i - 1], i, LegacyMultiplyLimb(run[i - 1], i, left[i], right), 8)
<1> DEFINE n == 8
           D == [1..16 -> 0..(HalfBase - 1)]
           base == Zeroes(16)
           Loop(f) == [i \in 0..n |-> IF i = 0 THEN base
                 ELSE Placed(f[i - 1], i, LegacyMultiplyLimb(f[i - 1], i, left[i], right), 8)]
           step == [e \in (1..n) \X D |->
                       Placed(e[2], e[1], LegacyMultiplyLimb(e[2], e[1], left[e[1]], right), 8)]
           iter == CHOOSE f : f = Loop(f)
<1>1. n \in Nat
  OBVIOUS
<1>2. base \in D
      /\ \A i \in 1..n, acc \in D : Placed(acc, i, LegacyMultiplyLimb(acc, i, left[i], right), 8) \in D
  <2>1. HalfBase \in Nat \ {0} /\ 0 \in 0..(HalfBase - 1)
    BY Sizes
  <2>2. base \in D
    BY <2>1 DEF Zeroes
  <2>3. ASSUME NEW i \in 1..n, NEW acc \in D
        PROVE  Placed(acc, i, LegacyMultiplyLimb(acc, i, left[i], right), 8) \in D
    <3> DEFINE x == left[i]
               row == LegacyMultiplyLimb(acc, i, x, right)
    <3>1. LimbMap(acc, HalfBase, 16) /\ x \in 0..(HalfBase - 1) /\ x \in Nat
      BY <2>1 DEF LimbMap, Limbs
    <3>2. i \in 1..10 /\ i \in 1..16 /\ i + 8 <= 16 /\ 16 \in 0..18 /\ 8 \in 0..18
      OBVIOUS
    <3> HIDE DEF D, x, base
    <3>3. RowOf(row, acc, i, x, right, HalfBase, 8)
      BY <3>1, <3>2, LegacyMultiplyLimbIs
    <3> HIDE DEF row
    <3>4. Adds(Placed(acc, i, row, 8), acc, i, x, right, HalfBase, 8, 16)
      BY <2>1, <3>1, <3>2, <3>3, PlacedIs
    <3>5. LimbMap(Placed(acc, i, row, 8), HalfBase, 16)
      BY <3>4 DEF Adds
    <3> QED
      BY <3>5 DEF LimbMap, row, x, D
  <2> QED
    BY <2>2, <2>3
<1>3. LegacyProduct(left, right) = iter[n]
  BY DEF LegacyProduct
<1>4. PICK g \in [0..n -> D] : Recursive(g, n, base, step)
  <2>1. step \in [(1..n) \X D -> D]
    <3> HIDE DEF D, base, n
    <3> QED
      BY <1>2
  <2> HIDE DEF D, base, step, n
  <2> QED
    BY ONLY <1>1, <1>2, <2>1, RecursionExists
<1>5. g[0] = base /\ \A i \in 1..n : i - 1 \in 0..n /\ i # 0
      /\ g[i] = Placed(g[i - 1], i, LegacyMultiplyLimb(g[i - 1], i, left[i], right), 8)
  <2> HIDE DEF D, base, n
  <2>1. ASSUME NEW i \in 1..n
        PROVE i - 1 \in 0..n /\ i # 0
              /\ g[i] = Placed(g[i - 1], i, LegacyMultiplyLimb(g[i - 1], i, left[i], right), 8)
    <3>1. i - 1 \in 0..n /\ i # 0
      BY <1>1
    <3>2. g[i] = step[<<i, g[i - 1]>>] /\ g[i - 1] \in D
      <4> HIDE DEF step
      <4> QED
        BY <1>4, <3>1 DEF Recursive
    <3> QED
      BY <3>1, <3>2
  <2>2. g[0] = base
    <3> HIDE DEF step
    <3> QED
      BY <1>4 DEF Recursive
  <2> QED
    BY <2>1, <2>2
<1>6. \A i \in 0..n : i # 0 => i \in 1..n
  <2> HIDE DEF n
  <2> QED
    BY <1>1
<1>7. g = Loop(g)
  <2> HIDE DEF D, base, n
  <2>1. \A i \in 0..n : g[i] = Loop(g)[i]
    BY <1>5, <1>6
  <2> QED
    BY <1>4, <2>1
<1>8. iter = Loop(iter)
  <2> HIDE DEF Loop
  <2> QED
    BY <1>7
<1>9. iter[0] = base
      /\ \A i \in 1..n : iter[i]
            = Placed(iter[i - 1], i, LegacyMultiplyLimb(iter[i - 1], i, left[i], right), 8)
  <2> HIDE DEF iter, base, n
  <2>1. \A i \in 0..n : iter[i] = Loop(iter)[i]
    BY <1>8
  <2>2. 0 \in 0..n /\ \A i \in 1..n : i \in 0..n /\ i # 0
    BY <1>1
  <2> QED
    BY <2>1, <2>2
<1>10. \A i \in 0..n : iter[i] = g[i]
  <2> DEFINE same == {i \in 0..n : iter[i] = g[i]}
  <2>1. 0 \in same
    <3> HIDE DEF D, iter, base, n
    <3>1. iter[0] = g[0]
      BY ONLY <1>5, <1>9
    <3> QED
      BY <1>1, <3>1
  <2>2. ASSUME NEW i \in 1..n, i - 1 \in same PROVE i \in same
    <3>1. iter[i - 1] = g[i - 1]
      BY <2>2
    <3> HIDE DEF iter, base, n
    <3>2. i \in 0..n
      BY <1>1
    <3> QED
      BY <1>5, <1>9, <3>1, <3>2
  <2> HIDE DEF same, n
  <2>3. \A i \in 0..n : i \in same
    BY <1>1, <2>1, <2>2, UpTo
  <2> QED
    BY <2>3 DEF same
<1> QED
  <2>1. n \in 0..n
    <3> HIDE DEF n
    <3> QED
      BY <1>1
  <2> HIDE DEF iter
  <2> QED
    BY <1>3, <1>4, <1>5, <1>10, <2>1

\* field_multiply's loops multiply.
LEMMA LegacyProductIs ==
  ASSUME NEW left, NEW right, Limbs(left, HalfBase, 8), Limbs(right, HalfBase, 8)
  PROVE  /\ LimbMap(LegacyProduct(left, right), HalfBase, 16)
         /\ Value(LegacyProduct(left, right), HalfBase, 16)
               = Value(left, HalfBase, 8) * Value(right, HalfBase, 8)
<1>1. HalfBase \in Nat \ {0} /\ 8 \in 1..9 /\ 16 \in 0..18 /\ 8 \in 0..18
  BY Sizes
<1>2. PICK g \in [0..8 -> [1..16 -> 0..(HalfBase - 1)]] :
        /\ g[0] = Zeroes(16) /\ LegacyProduct(left, right) = g[8]
        /\ \A i \in 1..8 :
             g[i] = Placed(g[i - 1], i, LegacyMultiplyLimb(g[i - 1], i, left[i], right), 8)
  BY LegacyProductRuns
<1>3. ASSUME NEW i \in 0..8 PROVE LimbMap(g[i], HalfBase, 16)
  BY <1>2 DEF LimbMap
<1>4. Product(g, left, right, HalfBase, 8)
  <2>1. \A k \in 1..16 : g[0][k] = 0
    BY <1>2 DEF Zeroes
  <2>2. ASSUME NEW i \in 1..8
        PROVE  \E row : /\ RowOf(row, g[i - 1], i, left[i], right, HalfBase, 8)
                        /\ g[i] = Placed(g[i - 1], i, row, 8)
    <3> DEFINE q == g[i - 1]
               x == left[i]
               row == LegacyMultiplyLimb(q, i, x, right)
    <3>1. LimbMap(q, HalfBase, 16) /\ i \in 1..10 /\ i + 8 <= 16
      BY <1>3
    <3>2. x \in 0..(HalfBase - 1)
      BY DEF Limbs
    <3>3. g[i] = Placed(q, i, row, 8)
      BY <1>2
    <3> HIDE DEF q, x
    <3>4. RowOf(row, q, i, x, right, HalfBase, 8)
      BY <1>1, <3>1, <3>2, LegacyMultiplyLimbIs
    <3> HIDE DEF row
    <3>5. \E z : RowOf(z, q, i, x, right, HalfBase, 8) /\ g[i] = Placed(q, i, z, 8)
      BY <3>3, <3>4
    <3> QED
      BY <3>5 DEF q, x
  <2>3. 2 * 8 = 16
    OBVIOUS
  <2> QED
    BY <1>3, <2>1, <2>2, <2>3 DEF Product
<1>5. Value(g[8], HalfBase, 2 * 8) = Value(left, HalfBase, 8) * Value(right, HalfBase, 8) /\ 2 * 8 = 16
  BY ONLY <1>1, <1>4, Limbs(left, HalfBase, 8), Limbs(right, HalfBase, 8), ProductIs
<1>6. LimbMap(g[8], HalfBase, 16)
  BY <1>3
<1> QED
  BY ONLY <1>2, <1>5, <1>6

--------------------------------------------------------------------------------
(* cuda_secp.cuh: a pass of reduce_accumulator.                                 *)

\* The largest limb that a fold leaves.
Most == (HalfBase - 1) * Room

\* A limb that a fold leaves, and a carry, fit an accumulator.
LEMMA MostIs ==
  /\ Most \in Nat /\ HalfBase * Room = Most + Room /\ Most + Room <= AccumulatorSize
  /\ Room <= AccumulatorSize /\ HalfBase - 1 <= Most
<1> DEFINE h == HalfBase
           c == Room
<1>1. h \in Nat \ {0} /\ c \in Nat /\ c >= 3 /\ h * c <= AccumulatorSize /\ AccumulatorSize \in Nat
      /\ h >= 2
  BY LegacySizes
<1> HIDE DEF h, c
<1>2. (h - 1) * c \in Nat /\ h * c = (h - 1) * c + c /\ 1 * (h - 1) <= c * (h - 1) /\ h - 1 \in Nat
  BY <1>1, TimesMonotone
<1>3. c * (h - 1) = (h - 1) * c /\ 1 * (h - 1) = h - 1
  BY <1>1
<1> DEFINE p == h * c
           q == (h - 1) * c
<1>4. q \in Nat /\ p = q + c /\ h - 1 <= q /\ p <= AccumulatorSize
  BY <1>1, <1>2, <1>3
<1> HIDE DEF p, q
<1>5. q + c <= AccumulatorSize /\ c <= AccumulatorSize
  BY <1>1, <1>4
<1> QED
  BY <1>4, <1>5 DEF p, q, h, c, Most

\* An accumulator whose limbs a fold may have left.
Accumulates(a) == a \in [1..18 -> 0..Most]
Sum18(a) == Value(a, HalfBase, 18)

\* It is worth a number.
LEMMA AccumulatesIs ==
  ASSUME NEW a, Accumulates(a)
  PROVE  /\ DOMAIN a = 1..18 /\ \A i \in 1..18 : a[i] \in 0..Most /\ a[i] \in Nat
         /\ AreDigits(a, 18) /\ Sum18(a) \in Nat
<1>1. DOMAIN a = 1..18 /\ \A i \in 1..18 : a[i] \in 0..Most /\ a[i] \in Nat
  BY MostIs DEF Accumulates
<1>2. AreDigits(a, 18)
  BY <1>1 DEF AreDigits
<1>3. \A i \in 1..18 : 0 <= a[i] /\ a[i] <= (HalfBase - 1) * Room
  BY <1>1, MostIs DEF Most
<1>4. 18 \in 0..18 /\ HalfBase \in Nat \ {0} /\ Room \in Nat
  BY LegacySizes
<1>5. 0 <= Value(a, HalfBase, 18)
  BY ONLY <1>2, <1>3, <1>4, Bounded
<1>6. Value(a, HalfBase, 18) \in Int
  BY <1>2, <1>4, ValueIs
<1> QED
  BY <1>1, <1>2, <1>5, <1>6 DEF Sum18

\* A number that an accumulator holds does not wrap.
LEMMA FitsIs ==
  ASSUME NEW v \in Nat, v < AccumulatorSize
  PROVE  Wrapped(v) = v
<1> DEFINE m == AccumulatorSize
<1>1. m \in Nat \ {0} /\ v \in 0..(m - 1) /\ v = 0 * m + v
  BY LegacySizes
<1> HIDE DEF m
<1>2. v % m = v
  BY <1>1, DivUnique
<1> QED
  BY <1>2 DEF Wrapped, m

\* Nothing stands in the places that a number does not reach.
LEMMA HighestZero ==
  ASSUME NEW b \in Nat \ {0}, NEW l, NEW n \in 1..18, AreDigits(l, n), l[n] \in Nat,
         0 <= Value(l, b, n - 1), Value(l, b, n) < Weight(b)[n - 1]
  PROVE  l[n] = 0 /\ Value(l, b, n - 1) = Value(l, b, n)
<1> DEFINE w == Weight(b)[n - 1]
           x == l[n]
           v == Value(l, b, n - 1)
           u == Value(l, b, n)
<1>1. n \in 1..n
  OBVIOUS
<1>2. w \in Nat \ {0} /\ u = v + x * w /\ v \in Int /\ u \in Int
  BY <1>1, DigitIs
<1>3. x \in Nat /\ 0 <= v /\ u < w
  OBVIOUS
<1> HIDE DEF w, x, v, u
<1>4. CASE x >= 1
  <2>1. 1 * w <= x * w /\ 1 * w = w
    BY <1>2, <1>3, <1>4, TimesMonotone
  <2> DEFINE p == x * w
  <2>2. p \in Int /\ w <= p /\ u = v + p
    BY <1>2, <1>3, <2>1
  <2> HIDE DEF p
  <2> QED
    BY <1>2, <1>3, <2>2
<1>5. CASE x = 0
  <2>1. 0 * w = 0
    BY <1>2
  <2> QED
    BY <1>2, <1>5, <2>1 DEF x, v, u
<1> QED
  BY <1>3, <1>4, <1>5

\* The normalized accumulator has limbs of their width, none above the product's, and the value.
LEMMA NormalizeIs ==
  ASSUME NEW a, Accumulates(a), Sum18(a) < Weight(HalfBase)[16]
  PROVE  /\ LimbMap(Normalize(a), HalfBase, 18) /\ Sum18(Normalize(a)) = Sum18(a)
         /\ Normalize(a)[17] = 0 /\ Normalize(a)[18] = 0
<1> DEFINE h == HalfBase
           M == AccumulatorSize
           each == [i \in 1..18 |-> [carry \in 0..(AccumulatorSize - 1) |->
                      LET value == Wrapped(a[i] + carry)
                      IN  [limb |-> IF i = 18 THEN value ELSE value % HalfBase,
                           carry |-> value \div HalfBase]]]
           L == Nat
           C == 0..(Room - 1)
           r == Normalize(a)
<1>1. /\ h \in Nat \ {0} /\ 18 \in Nat /\ Room \in Nat /\ Room >= 3 /\ M \in Nat \ {0}
      /\ h * Room = Most + Room /\ Most + Room <= M /\ Room <= M /\ Most \in Nat
  BY LegacySizes, MostIs
<1>2. r = EachLimb(each, 18).limbs
  BY DEF Normalize
<1>3. \A i \in 1..18 : a[i] \in 0..Most /\ a[i] \in Nat
  BY AccumulatesIs
<1>4. ASSUME NEW i \in 1..18, NEW c \in C
      PROVE  /\ a[i] + c \in Nat
             /\ Cut([limb |-> (a[i] + c) % h, carry |-> (a[i] + c) \div h], a[i] + c, Room, h)
             /\ each[i][c].carry = (a[i] + c) \div h
             /\ each[i][c].limb = IF i = 18 THEN a[i] + c ELSE (a[i] + c) % h
  <2> DEFINE x == a[i]
             v == x + c
  <2>1. c \in 0..(AccumulatorSize - 1) /\ v \in Nat /\ v < h * Room /\ v < AccumulatorSize
    <3>1. x \in 0..Most
      BY <1>3
    <3> DEFINE p == h * Room
    <3>2. p = Most + Room
      BY <1>1
    <3> HIDE DEF p, x, h
    <3> QED
      BY <1>1, <3>1, <3>2
  <2>2. Wrapped(v) = v
    BY <2>1, FitsIs
  <2>3. each[i][c] = LET value == Wrapped(v)
                     IN  [limb |-> IF i = 18 THEN value ELSE value % HalfBase,
                          carry |-> value \div HalfBase]
    BY <2>1
  <2> HIDE DEF each
  <2> HIDE DEF v
  <2>4. each[i][c].carry = v \div h /\ each[i][c].limb = IF i = 18 THEN v ELSE v % h
    BY <2>2, <2>3
  <2> HIDE DEF h
  <2>5. Cut(CutTo(v, h), v, Room, h)
    BY <1>1, <2>1, CutIs
  <2> QED
    BY <2>1, <2>4, <2>5 DEF CutTo, v, h
<1> HIDE DEF each, r
<1>5. ASSUME NEW i \in 1..18, NEW c \in C
      PROVE  /\ each[i][c].limb \in Nat /\ each[i][c].carry \in 0..(Room - 1)
             /\ i # 18 => each[i][c].limb \in 0..(h - 1)
                   /\ a[i] + c = each[i][c].limb + h * each[i][c].carry
             /\ i = 18 => a[i] + c = each[i][c].limb
  <2> DEFINE v == a[i] + c
             d == each[i][c]
             low == v % h
             high == v \div h
  <2>1. v \in Nat /\ d.carry = high /\ d.limb = IF i = 18 THEN v ELSE low
    BY <1>4
  <2>2. low \in 0..(h - 1) /\ high \in Nat /\ high < Room /\ v = low + h * high
    BY <1>4 DEF Cut
  <2>3. low \in Nat
    BY <1>1, <2>2
  <2> HIDE DEF v, d, low, high, h
  <2>4. d.limb \in Nat /\ d.carry \in 0..(Room - 1)
    BY <1>1, <2>1, <2>2, <2>3
  <2>5. i # 18 => d.limb \in 0..(h - 1) /\ v = d.limb + h * d.carry
    BY <2>1, <2>2
  <2>6. i = 18 => v = d.limb
    BY <2>1
  <2> QED
    BY <2>4, <2>5, <2>6 DEF v, d
<1>6. Stepping(each, 18, L, C)
  <2>1. \A i \in 1..18, c \in C : each[i][c].limb \in L /\ each[i][c].carry \in C
    BY <1>5
  <2>2. 0 \in C
    BY <1>1
  <2> QED
    BY <2>1, <2>2 DEF Stepping
<1>7. PICK c : Rippled(c, each, 18, L, C)
  <2> HIDE DEF L, C
  <2> QED
    BY <1>6, EachLimbIs
<1>8. r \in [1..18 -> Nat]
  BY <1>2, <1>7 DEF Rippled
<1>9. c[0] = 0 /\ \A i \in 0..18 : c[i] \in 0..(Room - 1)
  BY <1>7 DEF Rippled
<1>10. ASSUME NEW i \in 1..18
       PROVE  /\ i # 18 => r[i] \in 0..(h - 1) /\ a[i] + c[i - 1] = r[i] + h * c[i]
              /\ i = 18 => a[i] + c[i - 1] = r[i]
  <2>1. i - 1 \in 0..18 /\ c[i - 1] \in C
    BY <1>9
  <2>2. r[i] = each[i][c[i - 1]].limb /\ c[i] = each[i][c[i - 1]].carry
    BY <1>2, <1>7 DEF Rippled
  <2> HIDE DEF C, h
  <2> QED
    BY <1>5, <2>1, <2>2
<1> DEFINE e == [i \in 0..18 |-> IF i = 18 THEN 0 ELSE c[i]]
<1>11. AreDigits(r, 18) /\ AreDigits(a, 18)
  BY <1>8, AccumulatesIs DEF AreDigits
<1>12. Value(r, h, 18) = Value(a, h, 18)
  <2>1. ASSUME NEW i \in 1..18 PROVE a[i] + e[i - 1] = r[i] + h * e[i]
    <3>1. i - 1 \in 0..18 /\ i - 1 # 18 /\ i \in 0..18
      OBVIOUS
    <3>2. e[i - 1] = c[i - 1]
      BY <3>1
    <3>3. CASE i # 18
      <4>1. e[i] = c[i]
        BY <3>1, <3>3
      <4> HIDE DEF e
      <4> QED
        BY <1>10, <3>2, <3>3, <4>1
    <3>4. CASE i = 18
      <4>1. e[i] = 0
        BY <3>1, <3>4
      <4> HIDE DEF e
      <4>2. h * e[i] = 0 /\ r[i] \in Int
        BY <1>1, <1>8, <4>1
      <4>3. a[i] + e[i - 1] = r[i]
        BY <1>10, <3>2, <3>4
      <4> HIDE DEF h
      <4> QED
        BY <4>2, <4>3
    <3> QED
      BY <3>3, <3>4
  <2>2. \A i \in 0..18 : e[i] \in Int
    BY <1>9
  <2>3. e[0] = 0 /\ e[18] = 0
    BY <1>9
  <2> HIDE DEF e, h
  <2>4. Carries(a, r, e, h, 18)
    BY <1>11, <2>1, <2>2 DEF Carries
  <2>5. CarriesOut(a, r, e, h, 18)
    BY ONLY <1>1, <2>4, CarriesAre
  <2> DEFINE v == Value(a, h, 18)
             u == Value(r, h, 18)
             w == Weight(h)[18]
  <2>6. v + 0 = u + w * 0 /\ v \in Int /\ u \in Int /\ w \in Int
    <3>1. 18 \in 0..18
      OBVIOUS
    <3> QED
      BY <1>1, <1>11, <2>3, <2>5, <3>1, ValueIs, Weights DEF CarriesOut
  <2> HIDE DEF v, u, w
  <2>7. u = v
    BY <2>6
  <2> QED
    BY <2>7 DEF u, v
<1>13. AreDigits(r, 17) /\ Limbs(r, h, 17) /\ Limbs(r, h, 16)
  BY <1>10, <1>11 DEF AreDigits, Limbs
<1>14. Value(r, h, 17) \in Nat /\ Value(r, h, 16) \in Nat
  <2>1. 17 \in 0..17 /\ 16 \in 0..16
    OBVIOUS
  <2> HIDE DEF h
  <2> QED
    BY <1>1, <1>13, <2>1, LimbsBounded
<1>15. r[18] = 0 /\ Value(r, h, 17) = Value(r, h, 18)
  <2>1. 18 \in 1..18 /\ 18 - 1 = 17 /\ 17 \in 1..18 /\ 17 - 1 = 16 /\ r[18] \in Nat
    BY <1>8
  <2>2. Value(r, h, 18) < Weight(h)[17]
    <3>1. Weight(h)[17] = Weight(h)[16] * h /\ Weight(h)[16] \in Nat
      BY <1>1, <2>1, Weights
    <3> DEFINE w == Weight(h)[16]
               v == Value(r, h, 18)
    <3>2. v < w /\ v \in Nat
      BY <1>12, AccumulatesIs DEF Sum18
    <3> HIDE DEF v, w, h
    <3>3. 1 * w <= h * w /\ h * w = w * h /\ 1 * w = w /\ w * h \in Nat
      BY <1>1, <3>1, TimesMonotone DEF w
    <3> DEFINE p == w * h
    <3>4. w <= p /\ p \in Nat /\ w \in Nat
      BY <3>1, <3>3 DEF w
    <3> HIDE DEF p
    <3>5. v < p
      BY <3>2, <3>4
    <3> QED
      BY <3>1, <3>5 DEF v, w, p
  <2>3. 0 <= Value(r, h, 17)
    BY <1>14
  <2> HIDE DEF h
  <2> QED
    BY <1>1, <1>11, <2>1, <2>2, <2>3, HighestZero
<1>16. r[17] = 0
  <2>1. 17 \in 1..18 /\ 17 - 1 = 16 /\ r[17] \in Nat
    BY <1>8
  <2>2. Value(r, h, 17) < Weight(h)[16] /\ 0 <= Value(r, h, 16)
    BY <1>12, <1>14, <1>15 DEF Sum18
  <2> HIDE DEF h
  <2> QED
    BY <1>1, <1>13, <2>1, <2>2, HighestZero
<1>17. LimbMap(r, h, 18)
  <2>1. ASSUME NEW i \in 1..18 PROVE r[i] \in 0..(h - 1)
    <3>1. i # 18 => r[i] \in 0..(h - 1)
      BY <1>10
    <3>2. 0 \in 0..(h - 1)
      BY <1>1
    <3> QED
      BY <1>15, <3>1, <3>2
  <2> QED
    BY <1>8, <2>1 DEF LimbMap
<1> QED
  BY <1>12, <1>15, <1>16, <1>17 DEF r, h, Sum18

--------------------------------------------------------------------------------
(* cuda_secp.cuh: folding the high limbs.                                       *)

\* The digits that the constant less 2^256 is.
FoldedDigits(x) ==
  [i \in 1..9 |-> IF i = 1 THEN x * SmallConstant ELSE IF i = 2 THEN x ELSE IF i = 9 THEN 0 - x ELSE 0]

\* They are worth the prime, that many times less.
LEMMA FoldedDigitsAre ==
  ASSUME NEW x \in Nat
  PROVE  AreDigits(FoldedDigits(x), 9) /\ Value(FoldedDigits(x), HalfBase, 9) = 0 - PrimeNumber * x
<1> DEFINE h == HalfBase
           z == FoldedDigits(x)
           s == x * SmallConstant
           m == 0 - x
           val(i) == Value(z, h, i)
           w(i) == Weight(h)[i]
<1>1. h \in Nat \ {0} /\ SmallConstant \in Nat /\ s \in Nat /\ m \in Int
  BY Sizes
<1>2. /\ z[1] = s /\ z[2] = x /\ z[9] = m /\ \A i \in 3..8 : z[i] = 0
      /\ \A i \in 1..9 : i = 1 \/ i = 2 \/ i = 9 \/ i \in 3..8
  BY DEF FoldedDigits
<1> HIDE DEF s, m, z
<1>3. AreDigits(z, 9)
  <2>1. \A i \in 1..9 : z[i] \in Int
    BY <1>1, <1>2
  <2> QED
    BY <2>1 DEF AreDigits
<1>4. val(0) = 0 /\ \A i \in 0..9 : val(i) \in Int
  <2> HIDE DEF h
  <2> QED
    BY <1>1, <1>3, ValueIs
<1>5. \A i \in 1..9 : val(i) = val(i - 1) + z[i] * w(i - 1)
  <2> HIDE DEF h
  <2> QED
    BY <1>1, <1>3, ValueIs
<1>6. w(0) = 1 /\ w(1) = h /\ \A i \in 0..18 : w(i) \in Nat
  <2>1. 1 \in 1..18 /\ 1 - 1 = 0
    OBVIOUS
  <2> HIDE DEF h
  <2>2. Weight(h)[0] = 1 /\ Weight(h)[1] = Weight(h)[0] * h /\ \A i \in 0..18 : Weight(h)[i] \in Nat
    BY <1>1, <2>1, Weights
  <2>3. 1 * h = h
    BY <1>1
  <2> QED
    BY <2>2, <2>3
<1>7. w(8) = Above
  BY LegacyAbove
<1>8. val(1) = s
  <2>1. 1 \in 1..9 /\ 1 - 1 = 0
    OBVIOUS
  <2>2. val(1) = val(1 - 1) + z[1] * w(1 - 1)
    BY <1>5, <2>1
  <2> HIDE DEF val, w
  <2> QED
    BY <1>1, <1>2, <1>4, <1>6, <2>1, <2>2
<1>9. val(2) = s + x * h
  <2>1. 2 \in 1..9 /\ 2 - 1 = 1
    OBVIOUS
  <2>2. val(2) = val(2 - 1) + z[2] * w(2 - 1)
    BY <1>5, <2>1
  <2> HIDE DEF val, w
  <2> QED
    BY <1>2, <1>6, <1>8, <2>1, <2>2
<1>10. \A i \in 3..8 : val(i) = val(i - 1)
  <2>1. ASSUME NEW i \in 3..8 PROVE val(i) = val(i - 1)
    <3>1. i \in 1..9 /\ i - 1 \in 0..9 /\ i - 1 \in 0..18
      OBVIOUS
    <3>2. val(i) = val(i - 1) + z[i] * w(i - 1)
      BY <1>5, <3>1
    <3>3. z[i] = 0 /\ val(i - 1) \in Int /\ w(i - 1) \in Nat
      BY <1>2, <1>4, <1>6, <3>1
    <3> HIDE DEF val, w
    <3>4. 0 * w(i - 1) = 0
      BY <3>3
    <3> QED
      BY <3>2, <3>3, <3>4
  <2> QED
    BY <2>1
<1>11. val(8) = val(2)
  <2>1. val(3) = val(2) /\ val(4) = val(3) /\ val(5) = val(4) /\ val(6) = val(5) /\ val(7) = val(6)
        /\ val(8) = val(7)
    <3>1. 3 \in 3..8 /\ 4 \in 3..8 /\ 5 \in 3..8 /\ 6 \in 3..8 /\ 7 \in 3..8 /\ 8 \in 3..8
          /\ 3 - 1 = 2 /\ 4 - 1 = 3 /\ 5 - 1 = 4 /\ 6 - 1 = 5 /\ 7 - 1 = 6 /\ 8 - 1 = 7
      OBVIOUS
    <3> HIDE DEF val
    <3> QED
      BY <1>10, <3>1
  <2> QED
    BY <2>1
<1>12. val(9) = (s + x * h) + m * Above
  <2>1. 9 \in 1..9 /\ 9 - 1 = 8
    OBVIOUS
  <2>2. val(9) = val(9 - 1) + z[9] * w(9 - 1)
    BY <1>5, <2>1
  <2> HIDE DEF val, w
  <2> QED
    BY <1>2, <1>7, <1>9, <1>11, <2>1, <2>2
<1>13. (s + x * h) + m * Above = 0 - PrimeNumber * x
  <2> DEFINE N == Above
             K == ReductionConstant
             S == SmallConstant
             P == PrimeNumber
  <2>1. N \in Nat /\ K = h + S /\ P = N - K /\ S \in Nat /\ h \in Nat /\ K \in Nat /\ P \in Nat
    BY Sizes, PrimeIs
  <2> HIDE DEF N, K, S, P, h
  <2>2. P * x = (N - K) * x /\ (N - K) * x = N * x - K * x /\ K * x = (h + S) * x
        /\ (h + S) * x = h * x + S * x /\ (0 - x) * N = 0 - N * x /\ x * h = h * x /\ x * S = S * x
    BY <2>1
  <2>3. N * x \in Int /\ K * x \in Int /\ h * x \in Int /\ S * x \in Int /\ P * x \in Int
    BY <2>1
  <2> DEFINE nx == N * x
             kx == K * x
             hx == h * x
             sx == S * x
             px == P * x
  <2>4. px = nx - kx /\ kx = hx + sx /\ m * N = 0 - nx /\ x * h = hx /\ s = sx
    BY <2>2 DEF m, s, S
  <2> HIDE DEF nx, kx, hx, sx
  <2>5. nx \in Int /\ kx \in Int /\ hx \in Int /\ sx \in Int /\ px \in Int
    BY <2>3 DEF nx, kx, hx, sx
  <2> HIDE DEF px
  <2>6. (sx + hx) + (0 - nx) = 0 - px
    BY <2>4, <2>5
  <2> QED
    BY <2>4, <2>6 DEF px, N, P
<1> QED
  BY <1>3, <1>12, <1>13 DEF h, z

\* g is f with the limb k, worth x, folded eight limbs below.
FoldsAt(g, f, k, x) ==
  /\ AreDigits(f, 18) /\ AreDigits(g, 18) /\ k \in 9..18 /\ f[k] = x /\ g[k] = 0
  /\ g[k - 8] = f[k - 8] + x * SmallConstant /\ g[k - 7] = f[k - 7] + x
  /\ \A j \in 1..18 : j # k /\ j # k - 8 /\ j # k - 7 => g[j] = f[j]

\* It is less by a multiple of the prime.
LEMMA FoldsAtIs ==
  ASSUME NEW f, NEW g, NEW k, NEW x \in Nat, FoldsAt(g, f, k, x)
  PROVE  Sum18(g) = Sum18(f) - PrimeNumber * (x * Weight(HalfBase)[k - 9])
<1> DEFINE h == HalfBase
           d == [i \in 1..18 |-> g[i] - f[i]]
           z == FoldedDigits(x)
           p == k - 9
           W == Weight(h)[p]
           P == PrimeNumber
           s == x * SmallConstant
<1>1. h \in Nat \ {0} /\ P \in Nat /\ SmallConstant \in Nat /\ s \in Nat /\ 9 \in 0..18 /\ 18 \in 0..18
  BY Sizes, PrimeIs
<1>2. k \in 9..18 /\ p \in Nat /\ p \in 0..18 /\ p + 9 <= 18 /\ p + 9 = k /\ k - 8 = p + 1
      /\ k - 7 = p + 2
      /\ k \in 1..18 /\ p + 1 \in 1..18 /\ p + 2 \in 1..18
  BY DEF FoldsAt
<1>3. AreDigits(z, 9) /\ Value(z, h, 9) = 0 - P * x
  BY FoldedDigitsAre
<1>4. /\ z[1] = s /\ z[2] = x /\ z[9] = 0 - x
      /\ \A i \in 1..9 : i # 1 /\ i # 2 /\ i # 9 => z[i] = 0
  BY DEF FoldedDigits
<1>5. \A i \in 1..18 : f[i] \in Int /\ g[i] \in Int
  BY DEF FoldsAt, AreDigits
<1>6. /\ f[k] = x /\ g[k] = 0 /\ g[p + 1] = f[p + 1] + s /\ g[p + 2] = f[p + 2] + x
      /\ \A j \in 1..18 : j # k /\ j # p + 1 /\ j # p + 2 => g[j] = f[j]
  BY <1>2 DEF FoldsAt
<1> HIDE DEF s, z, h, p, P
<1>7. Stands(d, z, p, 9, 18)
  <2>1. ASSUME NEW i \in 1..18
        PROVE  d[i] = IF i > p /\ i <= p + 9 THEN z[i - p] ELSE 0
    <3>1. CASE i = p + 1
      <4>1. i - p = 1 /\ i > p /\ i <= p + 9 /\ d[i] = g[i] - f[i]
        BY <1>2, <3>1
      <4>2. d[i] = s
        BY <1>1, <1>5, <1>6, <3>1, <4>1
      <4> QED
        BY <1>4, <4>1, <4>2
    <3>2. CASE i = p + 2
      <4>1. i - p = 2 /\ i > p /\ i <= p + 9 /\ d[i] = g[i] - f[i]
        BY <1>2, <3>2
      <4>2. d[i] = x
        BY <1>5, <1>6, <3>2, <4>1
      <4> QED
        BY <1>4, <4>1, <4>2
    <3>3. CASE i = k
      <4>1. i - p = 9 /\ i > p /\ i <= p + 9 /\ d[i] = g[i] - f[i]
        BY <1>2, <3>3
      <4>2. d[i] = 0 - x
        BY <1>5, <1>6, <3>3, <4>1
      <4> QED
        BY <1>4, <4>1, <4>2
    <3>4. CASE i # p + 1 /\ i # p + 2 /\ i # k
      <4>1. d[i] = 0
        <5>1. g[i] = f[i] /\ f[i] \in Int /\ d[i] = g[i] - f[i]
          BY <1>5, <1>6, <3>4
        <5> QED
          BY <5>1
      <4>2. CASE i > p /\ i <= p + 9
        <5>1. i - p \in 1..9 /\ i - p # 1 /\ i - p # 2 /\ i - p # 9
          BY <1>2, <3>4, <4>2
        <5> QED
          BY <1>4, <4>1, <4>2, <5>1
      <4> QED
        BY <4>1, <4>2
    <3> QED
      BY <3>1, <3>2, <3>3, <3>4
  <2> QED
    BY <2>1 DEF Stands
<1>8. Raised(d, z, p, 9, h, 18)
  <2> HIDE DEF d
  <2> QED
    BY ONLY <1>1, <1>2, <1>3, <1>7, Shifted
<1>9. Combines(g, f, d, 1, 18)
  <2>1. \A i \in 1..18 : g[i] = f[i] + 1 * d[i]
    BY <1>5
  <2>2. AreDigits(d, 18) /\ AreDigits(f, 18)
    BY <1>8 DEF Raised, FoldsAt
  <2> HIDE DEF d
  <2> QED
    BY <2>1, <2>2 DEF Combines
<1> HIDE DEF d
<1>10. Combined(g, f, d, 1, h, 18)
  <2>1. 1 \in Int
    OBVIOUS
  <2> QED
    BY ONLY <1>1, <1>9, <2>1, Linear
<1> DEFINE u == Value(g, h, 18)
           v == Value(f, h, 18)
           y == Value(d, h, 18)
<1>11. u = v + 1 * y /\ y = W * (0 - P * x) /\ W \in Nat /\ u \in Int /\ v \in Int /\ y \in Int
  <2>1. AreDigits(f, 18) /\ AreDigits(g, 18) /\ AreDigits(d, 18)
    BY <1>8 DEF FoldsAt, Raised
  <2>2. u \in Int /\ v \in Int /\ y \in Int
    BY <1>1, <2>1, ValueIs
  <2>3. u = v + 1 * y
    BY <1>10 DEF Combined
  <2>4. y = W * (0 - P * x)
    BY <1>3, <1>8 DEF Raised
  <2>5. W \in Nat
    BY <1>1, <1>2, Weights
  <2> QED
    BY <2>2, <2>3, <2>4, <2>5
<1> HIDE DEF u, v, y, W
<1>12. W * (0 - P * x) = 0 - P * (x * W) /\ P * (x * W) \in Int
  <2> DEFINE q == P * x
  <2>1. P * (x * W) = q * W /\ q \in Int
    BY <1>1, <1>11
  <2> HIDE DEF q
  <2>2. W * (0 - q) = 0 - q * W /\ q * W \in Int
    BY <1>11, <2>1
  <2> QED
    BY <2>1, <2>2 DEF q
<1> DEFINE e == P * (x * W)
<1>13. u = v + 1 * y /\ y = 0 - e /\ e \in Int /\ v \in Int /\ y \in Int
  BY <1>11, <1>12
<1> HIDE DEF e
<1>14. u = v - e
  BY ONLY <1>13
<1> QED
  BY <1>14 DEF u, v, e, W, P, p, h, Sum18

\* Numbers of an accumulator's size.
Sized(a) == a \in [1..18 -> 0..(AccumulatorSize - 1)]

\* One limb folded after another.
LEMMA FoldRuns ==
  ASSUME NEW a, Sized(a)
  PROVE  \E run \in [0..10 -> [1..18 -> 0..(AccumulatorSize - 1)]] :
           /\ run[0] = a /\ FoldHighLimbs(a) = run[10]
           /\ \A i \in 1..10 : run[i] = FoldLimb(run[i - 1], 19 - i)
<1> DEFINE n == 10
           D == [1..18 -> 0..(AccumulatorSize - 1)]
           base == a
           Loop(f) == [i \in 0..n |-> IF i = 0 THEN base ELSE FoldLimb(f[i - 1], 19 - i)]
           step == [e \in (1..n) \X D |-> FoldLimb(e[2], 19 - e[1])]
           iter == CHOOSE f : f = Loop(f)
<1>1. n \in Nat
  OBVIOUS
<1>2. base \in D /\ \A i \in 1..n, acc \in D : FoldLimb(acc, 19 - i) \in D
  <2>1. ASSUME NEW i \in 1..n, NEW acc \in D PROVE FoldLimb(acc, 19 - i) \in D
    <3> DEFINE S == AccumulatorSize
               k == 19 - i
               u == Wrapped(acc[k - 8] + acc[k] * SmallConstant)
               v == Wrapped(acc[k - 7] + acc[k])
    <3>1. S \in Nat \ {0} /\ SmallConstant \in Nat
      BY LegacySizes
    <3>2. k \in 9..18 /\ k \in 1..18 /\ k - 8 \in 1..18 /\ k - 7 \in 1..18
      OBVIOUS
    <3>3. acc[k] \in Nat /\ acc[k - 8] \in Nat /\ acc[k - 7] \in Nat
      BY <3>1, <3>2
    <3>4. u \in 0..(S - 1) /\ v \in 0..(S - 1) /\ 0 \in 0..(S - 1)
      <4> DEFINE x == acc[k - 8] + acc[k] * SmallConstant
                 y == acc[k - 7] + acc[k]
      <4>1. x \in Nat /\ y \in Nat
        BY <3>1, <3>3
      <4> HIDE DEF x, y, S
      <4>2. x % S \in 0..(S - 1) /\ y % S \in 0..(S - 1) /\ 0 \in 0..(S - 1)
        <5>1. 0 \in 0..(S - 1)
          BY ONLY <3>1
        <5>2. x % S \in 0..(S - 1)
          BY ONLY <3>1, <4>1, DivMod
        <5>3. y % S \in 0..(S - 1)
          BY ONLY <3>1, <4>1, DivMod
        <5> QED
          BY <5>1, <5>2, <5>3
      <4> QED
        BY <4>2 DEF x, y, S, Wrapped
    <3>5. FoldLimb(acc, k) = [acc EXCEPT ![k] = 0, ![k - 8] = u, ![k - 7] = v]
      BY DEF FoldLimb
    <3> HIDE DEF u, v, S, k
    <3> QED
      BY <3>2, <3>4, <3>5 DEF S, k
  <2>2. base \in D
    BY DEF Sized
  <2> HIDE DEF D, n, base
  <2> QED
    BY <2>1, <2>2
<1>3. FoldHighLimbs(a) = iter[n]
  BY DEF FoldHighLimbs
<1>4. PICK g \in [0..n -> D] : Recursive(g, n, base, step)
  <2>1. step \in [(1..n) \X D -> D]
    <3> HIDE DEF D, base, n
    <3> QED
      BY <1>2
  <2> HIDE DEF D, base, step, n
  <2> QED
    BY ONLY <1>1, <1>2, <2>1, RecursionExists
<1>5. g[0] = base /\ \A i \in 1..n : i - 1 \in 0..n /\ i # 0 /\ g[i] = FoldLimb(g[i - 1], 19 - i)
  <2> HIDE DEF D, base, n
  <2>1. ASSUME NEW i \in 1..n PROVE i - 1 \in 0..n /\ i # 0 /\ g[i] = FoldLimb(g[i - 1], 19 - i)
    <3>1. i - 1 \in 0..n /\ i # 0
      BY <1>1
    <3>2. g[i] = step[<<i, g[i - 1]>>] /\ g[i - 1] \in D
      <4> HIDE DEF step
      <4> QED
        BY <1>4, <3>1 DEF Recursive
    <3> QED
      BY <3>1, <3>2
  <2>2. g[0] = base
    <3> HIDE DEF step
    <3> QED
      BY <1>4 DEF Recursive
  <2> QED
    BY <2>1, <2>2
<1>6. \A i \in 0..n : i # 0 => i \in 1..n
  <2> HIDE DEF n
  <2> QED
    BY <1>1
<1>7. g = Loop(g)
  <2> HIDE DEF D, base, n
  <2>1. \A i \in 0..n : g[i] = Loop(g)[i]
    BY <1>5, <1>6
  <2> QED
    BY <1>4, <2>1
<1>8. iter = Loop(iter)
  <2> HIDE DEF Loop
  <2> QED
    BY <1>7
<1>9. iter[0] = base /\ \A i \in 1..n : iter[i] = FoldLimb(iter[i - 1], 19 - i)
  <2> HIDE DEF iter, base, n
  <2>1. \A i \in 0..n : iter[i] = Loop(iter)[i]
    BY <1>8
  <2>2. 0 \in 0..n /\ \A i \in 1..n : i \in 0..n /\ i # 0
    BY <1>1
  <2> QED
    BY <2>1, <2>2
<1>10. \A i \in 0..n : iter[i] = g[i]
  <2> DEFINE same == {i \in 0..n : iter[i] = g[i]}
  <2>1. 0 \in same
    <3> HIDE DEF D, iter, base, n
    <3>1. iter[0] = g[0]
      BY ONLY <1>5, <1>9
    <3> QED
      BY <1>1, <3>1
  <2>2. ASSUME NEW i \in 1..n, i - 1 \in same PROVE i \in same
    <3>1. iter[i - 1] = g[i - 1]
      BY <2>2
    <3> HIDE DEF iter, base, n
    <3>2. i \in 0..n
      BY <1>1
    <3> QED
      BY <1>5, <1>9, <3>1, <3>2
  <2> HIDE DEF same, n
  <2>3. \A i \in 0..n : i \in same
    BY <1>1, <2>1, <2>2, UpTo
  <2> QED
    BY <2>3 DEF same
<1> QED
  <2>1. n \in 0..n
    <3> HIDE DEF n
    <3> QED
      BY <1>1
  <2> HIDE DEF iter
  <2> QED
    BY <1>3, <1>4, <1>5, <1>10, <2>1

\* A fold that wraps nothing.
LEMMA FoldLimbIs ==
  ASSUME NEW f \in [1..18 -> Nat], NEW k \in 9..18, NEW x, f[k] = x,
         f[k - 8] + x * SmallConstant < AccumulatorSize, f[k - 7] + x < AccumulatorSize
  PROVE  FoldsAt(FoldLimb(f, k), f, k, x) /\ FoldLimb(f, k) \in [1..18 -> Nat]
<1> DEFINE u == f[k - 8] + x * SmallConstant
           v == f[k - 7] + x
           g == FoldLimb(f, k)
<1>1. /\ k \in 1..18 /\ k - 8 \in 1..18 /\ k - 7 \in 1..18 /\ k # k - 8 /\ k # k - 7 /\ k - 8 # k - 7
      /\ SmallConstant \in Nat
  BY LegacySizes
<1>2. x \in Nat /\ u \in Nat /\ v \in Nat
  BY <1>1
<1>3. Wrapped(u) = u /\ Wrapped(v) = v
  BY <1>2, FitsIs
<1>4. g = [f EXCEPT ![k] = 0, ![k - 8] = u, ![k - 7] = v]
  BY <1>3 DEF FoldLimb
<1> HIDE DEF g
<1>5. g[k] = 0 /\ g[k - 8] = u /\ g[k - 7] = v
      /\ \A j \in 1..18 : j # k /\ j # k - 8 /\ j # k - 7 => g[j] = f[j]
  <2> HIDE DEF u, v
  <2> QED
    BY <1>1, <1>4
<1>6. g \in [1..18 -> Nat]
  <2> HIDE DEF u, v
  <2> QED
    BY <1>1, <1>2, <1>4
<1>7. AreDigits(f, 18) /\ AreDigits(g, 18)
  BY <1>6 DEF AreDigits
<1> QED
  BY <1>5, <1>6, <1>7 DEF FoldsAt, g

\* The most that a low limb is after its first addition, and a high limb that is folded.
Once == (HalfBase - 1) + (2 * (HalfBase - 1)) * SmallConstant
Twice == 2 * (HalfBase - 1)

\* The most that the limbs become.
LEMMA OnceIs ==
  /\ Once \in Nat /\ Twice \in Nat /\ Once = (HalfBase - 1) + Twice * SmallConstant
  /\ Most = Once + Twice /\ Most < AccumulatorSize /\ Twice = 2 * (HalfBase - 1)
<1> DEFINE e == HalfBase - 1
           S == SmallConstant
<1>1. e \in Nat /\ S \in Nat
  BY Sizes
<1>2. Most < AccumulatorSize
  <2>1. Most + Room <= AccumulatorSize /\ Room >= 3 /\ Room \in Nat /\ Most \in Nat
        /\ AccumulatorSize \in Nat
    BY MostIs, LegacySizes
  <2> QED
    BY <2>1
<1>3. Most = e * (2 * S + 3)
  BY DEF Most, Room
<1> HIDE DEF e, S
<1>4. e * (2 * S + 3) = (e + (2 * e) * S) + 2 * e /\ (2 * e) * S \in Nat
  BY <1>1
<1> DEFINE t == (2 * e) * S
<1>5. Once = e + t /\ Twice = 2 * e /\ t \in Nat /\ Most = (e + t) + 2 * e
  BY <1>3, <1>4 DEF Once, Twice, e, S
<1>6. t = Twice * S
  BY <1>5
<1> HIDE DEF t
<1>7. Once \in Nat /\ Twice \in Nat /\ Most = Once + Twice
  BY <1>1, <1>5
<1> QED
  BY <1>2, <1>5, <1>6, <1>7 DEF e, S

\* f is a with the highest s of its sixteen limbs folded.
Folding(s, f, a) ==
  /\ f \in [1..18 -> Nat]
  /\ \A j \in 1..18 : j > 16 - s => f[j] = 0
  /\ \A j \in 10..18 : j <= 16 - s => f[j] = a[j]
  /\ s = 0 => f[9] = a[9]
  /\ s \in 1..7 => f[9] = a[9] + a[16]
  /\ \A j \in 1..8 : /\ s + j < 9 => f[j] = a[j]
                     /\ s + j = 9 => f[j] <= Once
                     /\ f[j] <= Most

\* One limb more is folded, and no sum wraps.
LEMMA FoldingStep ==
  ASSUME NEW a, LimbMap(a, HalfBase, 18), NEW s \in 0..7, NEW f, Folding(s, f, a)
  PROVE  /\ f[16 - s] \in Nat /\ a[16 - s] <= f[16 - s]
         /\ FoldsAt(FoldLimb(f, 16 - s), f, 16 - s, f[16 - s])
         /\ Folding(s + 1, FoldLimb(f, 16 - s), a)
<1> DEFINE k == 16 - s
           e == HalfBase - 1
           S == SmallConstant
           x == f[k]
           t == x * S
           g == FoldLimb(f, k)
<1>1. /\ k \in 9..16 /\ k \in 9..18 /\ k - 8 \in 1..8 /\ k - 7 \in 2..9 /\ k \in 1..18
      /\ k - 8 = 8 - s /\ k - 7 = 9 - s
  OBVIOUS
<1>2. \A j \in 1..18 : a[j] \in Nat /\ a[j] <= e
  <2>1. HalfBase \in Nat \ {0} /\ 18 \in 0..18
    BY Sizes
  <2>2. \A j \in 1..18 : a[j] \in 0..(HalfBase - 1)
    BY ONLY <2>1, LimbMap(a, HalfBase, 18), LimbMapIs
  <2> QED
    BY <2>1, <2>2
<1>3. f \in [1..18 -> Nat]
  BY DEF Folding
<1>4. /\ e \in Nat /\ S \in Nat /\ Twice = 2 * e /\ Once = e + Twice * S /\ Most = Once + Twice
      /\ Most < AccumulatorSize /\ Once \in Nat /\ Twice \in Nat /\ AccumulatorSize \in Nat
  BY OnceIs, Sizes, LegacySizes
<1>5. x \in Nat /\ a[k] <= x /\ x <= Twice
  <2>1. CASE k > 9
    <3>1. k \in 10..18 /\ k <= 16 - s
      BY <1>1, <2>1
    <3>2. x = a[k]
      BY <3>1 DEF Folding
    <3> HIDE DEF x, e
    <3> QED
      BY <1>1, <1>2, <1>4, <3>2
  <2>2. CASE k = 9
    <3>1. s = 7
      BY <2>2
    <3>2. f[9] = a[9] + a[16]
      BY <3>1 DEF Folding
    <3>3. a[9] \in Nat /\ a[16] \in Nat /\ a[9] <= e /\ a[16] <= e /\ x = f[9]
      BY <1>2, <2>2
    <3> HIDE DEF x, e, k
    <3> QED
      BY <1>4, <2>2, <3>2, <3>3
  <2> QED
    BY <1>1, <2>1, <2>2
<1>6. f[k - 8] \in Nat /\ f[k - 8] <= e
  <2>1. s + (k - 8) < 9 /\ k - 8 \in 1..8 /\ k - 8 \in 1..18
    BY <1>1
  <2>2. f[k - 8] = a[k - 8]
    BY <1>1, <2>1 DEF Folding
  <2> QED
    BY <1>2, <2>1, <2>2
<1>7. f[k - 7] \in Nat /\ (s = 0 => f[k - 7] + x <= Twice) /\ (s # 0 => f[k - 7] <= Once)
  <2>1. CASE s = 0
    <3>1. f[9] = a[9] /\ k - 7 = 9 /\ k = 16
      BY <2>1 DEF Folding
    <3>2. f[16] = a[16]
      BY <2>1 DEF Folding
    <3>3. a[9] \in Nat /\ a[16] \in Nat /\ a[9] <= e /\ a[16] <= e
      BY <1>2
    <3>4. x = a[16]
      BY <3>1, <3>2
    <3> HIDE DEF x, e, k
    <3> QED
      BY <1>4, <2>1, <3>1, <3>3, <3>4
  <2>2. CASE s # 0
    <3>1. k - 7 \in 1..8 /\ s + (k - 7) = 9 /\ k - 7 \in 1..18
      BY <1>1, <2>2
    <3> HIDE DEF k, x
    <3> QED
      BY <1>3, <2>2, <3>1 DEF Folding
  <2> QED
    BY <2>1, <2>2
<1> HIDE DEF e, S, x
<1>8. t \in Nat /\ f[k - 8] + t <= Once
  <2>1. x * S <= Twice * S /\ x * S \in Nat /\ Twice * S \in Nat
    BY <1>4, <1>5, TimesMonotone
  <2> DEFINE u == Twice * S
             y == f[k - 8]
  <2>2. t <= u /\ t \in Nat /\ u \in Nat /\ Once = e + u /\ y \in Nat /\ y <= e
    BY <1>4, <1>6, <2>1
  <2> HIDE DEF t, u, y
  <2>3. t \in Nat /\ y + t <= Once
    BY <1>4, <2>2
  <2> QED
    BY <2>3 DEF y
<1>9. f[k - 7] + x <= Most
  BY <1>4, <1>5, <1>7
<1>10. FoldsAt(g, f, k, x) /\ g \in [1..18 -> Nat]
  <2>1. f[k - 8] + x * S < AccumulatorSize
    <3> DEFINE y == f[k - 8]
    <3>1. y + t <= Once /\ y \in Nat /\ t \in Nat
      BY <1>6, <1>8
    <3> HIDE DEF y, t
    <3>2. y + t < AccumulatorSize
      BY <1>4, <3>1
    <3> QED
      BY <3>2 DEF y, t
  <2>2. f[k - 7] + x < AccumulatorSize /\ f[k] = x
    BY <1>4, <1>5, <1>7, <1>9 DEF x
  <2> HIDE DEF k, g
  <2> QED
    BY <1>1, <1>3, <2>1, <2>2, FoldLimbIs DEF S, g
<1>11. /\ g[k] = 0 /\ g[k - 8] = f[k - 8] + t /\ g[k - 7] = f[k - 7] + x
       /\ \A j \in 1..18 : j # k /\ j # k - 8 /\ j # k - 7 => g[j] = f[j]
  BY <1>10 DEF FoldsAt, S
<1> HIDE DEF t, g
<1>12. \A j \in 1..18 : j > 16 - (s + 1) => g[j] = 0
  <2>1. ASSUME NEW j \in 1..18, j > 16 - (s + 1) PROVE g[j] = 0
    <3>1. CASE j = k
      BY <1>11, <3>1
    <3>2. CASE j # k
      <4>1. j > 16 - s /\ j # k - 8 /\ j # k - 7
        BY <2>1, <3>2
      <4>2. f[j] = 0
        BY <4>1 DEF Folding
      <4> QED
        BY <1>11, <3>2, <4>1, <4>2
    <3> QED
      BY <3>1, <3>2
  <2> QED
    BY <2>1
<1>13. \A j \in 10..18 : j <= 16 - (s + 1) => g[j] = a[j]
  <2>1. ASSUME NEW j \in 10..18, j <= 16 - (s + 1) PROVE g[j] = a[j]
    <3>1. j <= 16 - s /\ j # k /\ j # k - 8 /\ j # k - 7 /\ j \in 1..18
      BY <2>1
    <3>2. f[j] = a[j]
      BY <3>1 DEF Folding
    <3> QED
      BY <1>11, <3>1, <3>2
  <2> QED
    BY <2>1
<1>14. s + 1 \in 1..7 => g[9] = a[9] + a[16]
  <2>1. CASE s = 0
    <3>1. f[9] = a[9] /\ f[16] = a[16] /\ k = 16 /\ k - 7 = 9
      BY <2>1 DEF Folding
    <3>2. x = a[16]
      BY <3>1 DEF x
    <3> QED
      BY <1>11, <3>1, <3>2
  <2>2. CASE s \in 1..6
    <3>1. f[9] = a[9] + a[16]
      BY <2>2 DEF Folding
    <3>2. 9 # k /\ 9 # k - 8 /\ 9 # k - 7 /\ 9 \in 1..18
      BY <2>2
    <3> QED
      BY <1>11, <3>1, <3>2
  <2>3. CASE s = 7
    BY <2>3
  <2> QED
    BY <2>1, <2>2, <2>3
<1>15. ASSUME NEW j \in 1..8
       PROVE  /\ (s + 1) + j < 9 => g[j] = a[j]
              /\ (s + 1) + j = 9 => g[j] <= Once
              /\ g[j] <= Most
  <2>1. f[j] <= Most /\ (s + j < 9 => f[j] = a[j]) /\ f[j] \in Nat
    BY <1>3 DEF Folding
  <2>2. CASE j = k - 8
    <3>1. g[j] <= Once /\ ~((s + 1) + j < 9)
      BY <1>8, <1>11, <2>2
    <3>2. Once <= Most /\ Once \in Nat /\ Most \in Nat /\ g[j] \in Nat
      BY <1>4, <1>10
    <3> QED
      BY <3>1, <3>2
  <2>3. CASE j = k - 7
    <3>1. g[j] <= Most /\ ~((s + 1) + j < 9) /\ (s + 1) + j # 9
      BY <1>9, <1>11, <2>3
    <3> QED
      BY <3>1
  <2>4. CASE j # k - 8 /\ j # k - 7
    <3>1. j # k /\ j \in 1..18 /\ (s + 1) + j # 9 /\ ((s + 1) + j < 9 => s + j < 9)
      BY <1>1, <2>4
    <3>2. g[j] = f[j]
      BY <1>11, <2>4, <3>1
    <3> HIDE DEF k
    <3> QED
      BY <2>1, <3>1, <3>2
  <2> QED
    BY <2>2, <2>3, <2>4
<1>16. s + 1 # 0
  OBVIOUS
<1>17. Folding(s + 1, g, a)
  <2> HIDE DEF k
  <2> QED
    BY <1>10, <1>12, <1>13, <1>14, <1>15, <1>16 DEF Folding
<1> QED
  BY <1>5, <1>10, <1>17 DEF g, x

\* The number that the limbs above the field are, as far as its j-th.
Highs(a) == [j \in 1..8 |-> a[8 + j]]
HighValue(a, j) == Value(Highs(a), HalfBase, j)

\* They are limbs, and their number one limb at a time.
LEMMA HighsAre ==
  ASSUME NEW a, LimbMap(a, HalfBase, 18)
  PROVE  /\ Limbs(Highs(a), HalfBase, 8) /\ HighValue(a, 0) = 0
         /\ \A j \in 0..8 : HighValue(a, j) \in Nat
         /\ \A j \in 1..8 : HighValue(a, j) = HighValue(a, j - 1) + a[8 + j] * Weight(HalfBase)[j - 1]
<1> DEFINE h == HalfBase
           y == Highs(a)
<1>1. h \in Nat \ {0} /\ 18 \in 0..18 /\ 8 \in 0..18
  BY Sizes
<1>2. \A j \in 1..18 : a[j] \in 0..(HalfBase - 1)
  BY ONLY <1>1, LimbMap(a, HalfBase, 18), LimbMapIs
<1>3. \A j \in 1..8 : y[j] = a[8 + j] /\ 8 + j \in 1..18
  BY DEF Highs
<1> HIDE DEF y
<1>4. Limbs(y, h, 8) /\ AreDigits(y, 8)
  BY <1>1, <1>2, <1>3, LimbsAreDigits DEF Limbs
<1> HIDE DEF h
<1>5. Value(y, h, 0) = 0
      /\ \A j \in 1..8 : Value(y, h, j) = Value(y, h, j - 1) + y[j] * Weight(h)[j - 1]
  BY <1>1, <1>4, ValueIs
<1>6. \A j \in 0..8 : Value(y, h, j) \in Nat
  BY <1>1, <1>4, LimbsBounded
<1> QED
  BY <1>3, <1>4, <1>5, <1>6 DEF HighValue, y, h

\* What folding s limbs takes off is a multiple of the prime, at least as many as the limbs say.
Shrinks(s, f, a) ==
  \E m \in Nat : /\ Sum18(a) = Sum18(f) + PrimeNumber * m
                 /\ HighValue(a, 8) <= m + HighValue(a, 8 - s)

\* One limb more takes off the primes it is worth.
LEMMA ShrinksStep ==
  ASSUME NEW a, LimbMap(a, HalfBase, 18), NEW s \in 0..7, NEW f, Folding(s, f, a),
         Shrinks(s, f, a)
  PROVE  Shrinks(s + 1, FoldLimb(f, 16 - s), a)
<1> DEFINE k == 16 - s
           j == 8 - s
           x == f[k]
           y == a[k]
           g == FoldLimb(f, k)
           W == Weight(HalfBase)[7 - s]
           P == PrimeNumber
           H1 == HighValue(a, j)
           H0 == HighValue(a, 7 - s)
           H8 == HighValue(a, 8)
<1>1. k \in 9..18 /\ j \in 1..8 /\ j - 1 = 7 - s /\ 8 + j = k /\ k - 9 = 7 - s /\ 7 - s \in 0..8
      /\ 7 - s \in 0..18 /\ j \in 0..8 /\ 8 \in 0..8 /\ 8 - (s + 1) = 7 - s /\ k \in 1..18
  OBVIOUS
<1>2. x \in Nat /\ y <= x /\ FoldsAt(g, f, k, x)
  BY FoldingStep
<1>3. Sum18(g) = Sum18(f) - P * (x * W)
  <2>1. Sum18(g) = Sum18(f) - PrimeNumber * (x * Weight(HalfBase)[k - 9])
    <3> HIDE DEF g, x, k
    <3> QED
      BY <1>2, FoldsAtIs
  <2> QED
    BY <1>1, <2>1
<1>4. H1 = H0 + y * W /\ H0 \in Nat /\ H1 \in Nat /\ H8 \in Nat
  BY <1>1, HighsAre
<1>5. W \in Nat /\ P \in Nat /\ y \in Nat
  <2>1. HalfBase \in Nat \ {0} /\ 18 \in 0..18
    BY Sizes
  <2>2. \A i \in 1..18 : a[i] \in 0..(HalfBase - 1)
    BY ONLY <2>1, LimbMap(a, HalfBase, 18), LimbMapIs
  <2>3. y \in Nat
    BY <1>1, <2>1, <2>2
  <2>4. W \in Nat
    BY <1>1, <2>1, Weights
  <2> QED
    BY <2>3, <2>4, PrimeIs
<1>6. Sum18(f) \in Int /\ Sum18(g) \in Int
  <2>1. AreDigits(f, 18) /\ AreDigits(g, 18)
    BY <1>2 DEF FoldsAt
  <2> HIDE DEF g
  <2>2. 18 \in 0..18 /\ HalfBase \in Nat \ {0}
    BY Sizes
  <2> QED
    BY <2>1, <2>2, ValueIs DEF Sum18
<1>7. PICK m \in Nat : Sum18(a) = Sum18(f) + P * m /\ H8 <= m + H1
  BY DEF Shrinks
<1> DEFINE q == x * W
           r == m + q
<1>8. q \in Nat /\ y * W <= q /\ y * W \in Nat
  BY <1>2, <1>5, TimesMonotone
<1> HIDE DEF W, y, x, k, j, g, H0, H1, H8, P
<1>9. P * (m + q) = P * m + P * q /\ P * m \in Int /\ P * q \in Int
  <2> HIDE DEF q
  <2> QED
    BY <1>5, <1>8
<1>10. Sum18(a) = Sum18(g) + P * r
  <2> DEFINE pm == P * m
             pq == P * q
             pr == P * r
             u == Sum18(f)
             v == Sum18(g)
  <2>1. pr = pm + pq /\ pm \in Int /\ pq \in Int /\ Sum18(a) = u + pm /\ v = u - pq
        /\ u \in Int /\ v \in Int
    BY <1>3, <1>6, <1>7, <1>9
  <2> HIDE DEF pm, pq, pr, u, v
  <2>2. Sum18(a) = v + pr
    BY ONLY <2>1
  <2> QED
    BY <2>2 DEF v, pr
<1>11. r \in Nat /\ H8 <= r + H0
  <2> DEFINE t == y * W
  <2>1. q \in Nat /\ t \in Nat /\ t <= q /\ H1 = H0 + t /\ H0 \in Nat /\ H8 \in Nat /\ H8 <= m + H1
    BY <1>4, <1>7, <1>8
  <2> HIDE DEF t, q
  <2> QED
    BY <2>1
<1> HIDE DEF r
<1>12. 8 - (s + 1) = 7 - s
  BY <1>1
<1> QED
  BY <1>10, <1>11, <1>12 DEF Shrinks, P, H8, H0, g, k

\* A limb that is zero folds into nothing.
LEMMA FoldNothing ==
  ASSUME NEW f \in [1..18 -> Nat], \A i \in 1..18 : f[i] < AccumulatorSize, NEW k \in 9..18, f[k] = 0
  PROVE  FoldLimb(f, k) = f
<1> DEFINE x == f[k]
           g == FoldLimb(f, k)
<1>1. /\ k \in 1..18 /\ k - 8 \in 1..18 /\ k - 7 \in 1..18 /\ SmallConstant \in Nat
      /\ 0 * SmallConstant = 0
  BY LegacySizes
<1>2. f[k - 8] \in Nat /\ f[k - 7] \in Nat /\ f[k - 8] < AccumulatorSize /\ f[k - 7] < AccumulatorSize
  BY <1>1
<1>3. /\ f[k - 8] + x * SmallConstant = f[k - 8] /\ f[k - 7] + x = f[k - 7]
  BY <1>1, <1>2
<1>4. f[k - 8] + x * SmallConstant < AccumulatorSize /\ f[k - 7] + x < AccumulatorSize
  BY <1>2, <1>3
<1>5. FoldsAt(g, f, k, x) /\ g \in [1..18 -> Nat]
  <2> HIDE DEF g
  <2> QED
    BY <1>4, FoldLimbIs DEF g
<1> HIDE DEF g
<1>6. ASSUME NEW j \in 1..18 PROVE g[j] = f[j]
  <2>1. CASE j = k
    BY <1>5, <2>1 DEF FoldsAt
  <2>2. CASE j = k - 8
    BY <1>3, <1>5, <2>2 DEF FoldsAt
  <2>3. CASE j = k - 7
    BY <1>3, <1>5, <2>3 DEF FoldsAt
  <2>4. CASE j # k /\ j # k - 8 /\ j # k - 7
    BY <1>5, <2>4 DEF FoldsAt
  <2> QED
    BY <2>1, <2>2, <2>3, <2>4
<1> QED
  BY <1>5, <1>6 DEF g

\* A fold leaves a smaller number of the same remainder, nothing above the field, and the
\* accumulator as it was when nothing was above it.
FoldLeaves(f, a) ==
  /\ Accumulates(f) /\ \A j \in 9..18 : f[j] = 0
  /\ \E m \in Nat : Sum18(a) = Sum18(f) + PrimeNumber * m /\ HighValue(a, 8) <= m
  /\ (\A j \in 9..18 : a[j] = 0) => \A j \in 1..18 : f[j] = a[j]

\* All of the high limbs are folded.
LEMMA FoldHighLimbsIs ==
  ASSUME NEW a, LimbMap(a, HalfBase, 18), a[17] = 0, a[18] = 0
  PROVE  FoldLeaves(FoldHighLimbs(a), a)
<1> DEFINE f == FoldHighLimbs(a)
           M == AccumulatorSize
<1>1. /\ HalfBase \in Nat \ {0} /\ 18 \in 0..18 /\ M \in Nat \ {0} /\ Most \in Nat /\ Most < M
      /\ HalfBase - 1 <= Most
  BY Sizes, LegacySizes, OnceIs, MostIs
<1>2. DOMAIN a = 1..18 /\ \A j \in 1..18 : a[j] \in 0..(HalfBase - 1)
  BY ONLY <1>1, LimbMap(a, HalfBase, 18), LimbMapIs
<1>3. a \in [1..18 -> Nat] /\ \A j \in 1..18 : a[j] < M /\ a[j] <= Most
  <2>1. \A j \in 1..18 : a[j] \in Nat /\ a[j] < M /\ a[j] <= Most
    BY <1>1, <1>2
  <2>2. a \in [1..18 -> 0..(HalfBase - 1)]
    BY DEF LimbMap
  <2> QED
    BY <2>1, <2>2
<1>4. Sized(a)
  BY <1>1, <1>3 DEF Sized
<1>5. PICK run : /\ run[0] = a /\ f = run[10]
                 /\ \A i \in 1..10 : run[i] = FoldLimb(run[i - 1], 19 - i)
  BY <1>4, FoldRuns
<1> HIDE DEF f, M
<1>6. run[2] = a
  <2>1. run[1] = FoldLimb(run[1 - 1], 19 - 1) /\ run[2] = FoldLimb(run[2 - 1], 19 - 2)
    BY <1>5
  <2>2. 1 - 1 = 0 /\ 19 - 1 = 18 /\ 2 - 1 = 1 /\ 19 - 2 = 17 /\ 18 \in 9..18 /\ 17 \in 9..18
    OBVIOUS
  <2>3. FoldLimb(a, 18) = a /\ FoldLimb(a, 17) = a
    BY <1>3, <2>2, FoldNothing DEF M
  <2> QED
    BY <1>5, <2>1, <2>2, <2>3
<1>7. ASSUME NEW s \in 0..7 PROVE run[(s + 1) + 2] = FoldLimb(run[s + 2], 16 - s)
  <2>1. (s + 1) + 2 \in 1..10 /\ ((s + 1) + 2) - 1 = s + 2 /\ 19 - ((s + 1) + 2) = 16 - s
    OBVIOUS
  <2>2. run[(s + 1) + 2] = FoldLimb(run[((s + 1) + 2) - 1], 19 - ((s + 1) + 2))
    BY <1>5, <2>1
  <2> QED
    BY <2>1, <2>2
<1> DEFINE good == {s \in 0..8 : Folding(s, run[s + 2], a) /\ Shrinks(s, run[s + 2], a)}
<1>8. 0 \in good
  <2>1. Folding(0, a, a)
    <3>1. \A j \in 1..18 : j > 16 - 0 => a[j] = 0
      <4>1. \A j \in 1..18 : j > 16 - 0 => j = 17 \/ j = 18
        OBVIOUS
      <4> QED
        BY <4>1
    <3>2. \A j \in 1..8 : ~(0 + j = 9) /\ a[j] <= Most
      BY <1>3
    <3>3. 0 \notin 1..7
      OBVIOUS
    <3> QED
      BY <1>3, <3>1, <3>2, <3>3 DEF Folding
  <2>2. Shrinks(0, a, a)
    <3>1. Sum18(a) \in Int /\ PrimeNumber \in Nat
      <4>1. Limbs(a, HalfBase, 18) /\ AreDigits(a, 18)
        BY ONLY <1>1, LimbMap(a, HalfBase, 18), LimbMapIs
      <4> QED
        BY <1>1, <4>1, ValueIs, PrimeIs DEF Sum18
    <3>2. Sum18(a) = Sum18(a) + PrimeNumber * 0
      BY <3>1
    <3>3. 8 - 0 = 8 /\ 0 \in Nat /\ HighValue(a, 8) <= 0 + HighValue(a, 8)
      <4>1. HighValue(a, 8) \in Nat
        BY HighsAre
      <4> QED
        BY <4>1
    <3> QED
      BY <3>2, <3>3 DEF Shrinks
  <2>3. 0 \in 0..8 /\ 0 + 2 = 2
    OBVIOUS
  <2> QED
    BY <1>6, <2>1, <2>2, <2>3
<1>9. ASSUME NEW i \in 1..8, i - 1 \in good PROVE i \in good
  <2> DEFINE s == i - 1
  <2>1. s \in 0..7 /\ s + 1 = i /\ Folding(s, run[s + 2], a) /\ Shrinks(s, run[s + 2], a)
    BY <1>9
  <2> HIDE DEF s
  <2>2. run[(s + 1) + 2] = FoldLimb(run[s + 2], 16 - s)
    BY <1>7, <2>1
  <2>3. Folding(s + 1, FoldLimb(run[s + 2], 16 - s), a)
    BY <2>1, FoldingStep
  <2>4. Shrinks(s + 1, FoldLimb(run[s + 2], 16 - s), a)
    BY <2>1, ShrinksStep
  <2> QED
    BY <2>1, <2>2, <2>3, <2>4
<1>10. Folding(8, f, a) /\ Shrinks(8, f, a)
  <2> HIDE DEF good
  <2>1. \A i \in 0..8 : i \in good
    <3>1. 8 \in Nat
      OBVIOUS
    <3> QED
      BY ONLY <1>8, <1>9, <3>1, UpTo
  <2>2. 8 \in good /\ 8 + 2 = 10
    BY <2>1
  <2> QED
    BY <1>5, <2>2 DEF good
<1>11. f \in [1..18 -> Nat] /\ \A j \in 9..18 : f[j] = 0
  <2>1. \A j \in 9..18 : j \in 1..18 /\ j > 16 - 8
    OBVIOUS
  <2> QED
    BY <1>10, <2>1 DEF Folding
<1>12. Accumulates(f)
  <2>1. ASSUME NEW j \in 1..18 PROVE f[j] \in 0..Most
    <3>1. CASE j \in 1..8
      <4>1. f[j] <= Most /\ f[j] \in Nat
        BY <1>10, <3>1 DEF Folding
      <4> QED
        BY <1>1, <4>1
    <3>2. CASE j \notin 1..8
      <4>1. j \in 9..18
        BY <3>2
      <4> QED
        BY <1>1, <1>11, <4>1
    <3> QED
      BY <3>1, <3>2
  <2> QED
    BY <1>11, <2>1 DEF Accumulates
<1>13. \E m \in Nat : Sum18(a) = Sum18(f) + PrimeNumber * m /\ HighValue(a, 8) <= m
  <2>1. PICK m \in Nat : Sum18(a) = Sum18(f) + PrimeNumber * m
                         /\ HighValue(a, 8) <= m + HighValue(a, 8 - 8)
    BY <1>10 DEF Shrinks
  <2>2. 8 - 8 = 0 /\ HighValue(a, 0) = 0 /\ m + 0 = m
    BY HighsAre
  <2> QED
    BY <2>1, <2>2
<1>14. ASSUME \A j \in 9..18 : a[j] = 0 PROVE f = a
  <2> DEFINE same == {i \in 0..10 : run[i] = a}
  <2>1. 0 \in same
    BY <1>5
  <2>2. ASSUME NEW i \in 1..10, i - 1 \in same PROVE i \in same
    <3>1. run[i - 1] = a /\ run[i] = FoldLimb(run[i - 1], 19 - i) /\ 19 - i \in 9..18 /\ i \in 0..10
      BY <1>5, <2>2
    <3>2. FoldLimb(a, 19 - i) = a
      BY <1>3, <1>14, <3>1, FoldNothing DEF M
    <3> QED
      BY <3>1, <3>2
  <2>3. \A i \in 0..10 : i \in same
    <3>1. 10 \in Nat
      OBVIOUS
    <3> HIDE DEF same
    <3> QED
      BY ONLY <2>1, <2>2, <3>1, UpTo
  <2>4. 10 \in same
    BY <2>3
  <2> QED
    BY <1>5, <2>4
<1> QED
  BY <1>11, <1>12, <1>13, <1>14 DEF FoldLeaves, f

--------------------------------------------------------------------------------
(* cuda_secp.cuh: the passes of reduce_accumulator.                             *)

\* Digits that stop below are worth what the digits there are.
LEMMA StopsBelow ==
  ASSUME NEW b \in Nat \ {0}, NEW l, NEW n \in 0..18, AreDigits(l, n), NEW k \in 0..n,
         \A i \in 1..n : i > k => l[i] = 0
  PROVE  Value(l, b, n) = Value(l, b, k)
<1> DEFINE m == n - k
           y == [i \in 1..m |-> l[k + i]]
<1>1. m \in 0..18 /\ m \in Nat
  OBVIOUS
<1>2. \A i \in 1..m : y[i] = l[k + i] /\ k + i \in 1..n /\ k + i > k
  BY <1>1
<1>3. Divides(y, l, k, n, m)
  BY <1>2 DEF Divides
<1>4. \A i \in 1..m : y[i] = 0
  BY <1>2
<1> HIDE DEF y, m
<1>5. Divided(y, l, k, n, m, b)
  BY ONLY <1>3, b \in Nat \ {0}, Split
<1>6. Value(y, b, m) = 0
  BY ONLY <1>1, <1>4, b \in Nat \ {0}, NothingIs
<1>7. Weight(b)[k] \in Nat /\ Value(l, b, k) \in Int
  <2>1. k \in 0..18
    OBVIOUS
  <2> QED
    BY <2>1, Weights, ValueIs
<1> DEFINE w == Weight(b)[k]
<1>8. w * 0 = 0
  BY <1>7
<1> QED
  BY <1>5, <1>6, <1>7, <1>8 DEF Divided

\* Limbs that are worth nothing are zero.
LEMMA WorthNothing ==
  ASSUME NEW b \in Nat \ {0}, NEW l, NEW n \in 0..18, Limbs(l, b, n), Value(l, b, n) = 0
  PROVE  \A i \in 1..n : l[i] = 0
<1> DEFINE z == Zeroes(n)
<1>1. \A i \in 1..n : z[i] = 0
  BY DEF Zeroes
<1> HIDE DEF z
<1>2. Limbs(z, b, n)
  BY <1>1 DEF Limbs
<1>3. Value(z, b, n) = 0
  BY ONLY <1>1, b \in Nat \ {0}, n \in 0..18, NothingIs
<1>4. \/ (\A i \in 1..n : z[i] = l[i]) /\ Value(z, b, n) = Value(l, b, n)
      \/ Value(z, b, n) < Value(l, b, n)
      \/ Value(l, b, n) < Value(z, b, n)
  BY ONLY <1>2, b \in Nat \ {0}, Limbs(l, b, n), Trichotomy
<1>5. \A i \in 1..n : z[i] = l[i]
  BY <1>3, <1>4
<1> QED
  BY <1>1, <1>5

\* An accumulator that is a number of eight limbs.
Settled(f) == LimbMap(f, HalfBase, 18) /\ \A j \in 9..18 : f[j] = 0

\* u is less than v by the primes that the part above the field stands for, at least.
Lowers(u, v) ==
  /\ u < Room * Above /\ u < Above * Above
  /\ \E m \in Nat : v = u + PrimeNumber * m
  /\ \E lo \in Nat, q \in Nat : /\ lo < Above /\ v = lo + Above * q
                                /\ u <= lo + ReductionConstant * q

\* The primes that come off are as many as the part above the field.
LEMMA LowersIs ==
  ASSUME NEW lo \in Nat, NEW q \in Nat, NEW m \in Nat, NEW u \in Nat, NEW v \in Nat,
         v = lo + Above * q, v = u + PrimeNumber * m, q <= m
  PROVE  u <= lo + ReductionConstant * q
<1> DEFINE N == Above
           K == ReductionConstant
           P == PrimeNumber
<1>1. N \in Nat /\ K \in Nat /\ P \in Nat /\ P = N - K
  BY PrimeIs, Sizes
<1> HIDE DEF N, K, P
<1>2. q * P <= m * P /\ q * P = P * q /\ m * P = P * m /\ P * q = (N - K) * q
      /\ (N - K) * q = N * q - K * q
  BY <1>1, TimesMonotone
<1>3. N * q \in Nat /\ K * q \in Nat /\ P * q \in Nat /\ P * m \in Nat
  BY <1>1
<1> DEFINE nq == N * q
           kq == K * q
           pq == P * q
           pm == P * m
<1>4. /\ pq <= pm /\ pq = nq - kq /\ v = lo + nq /\ v = u + pm
      /\ nq \in Nat /\ kq \in Nat /\ pq \in Nat /\ pm \in Nat
  BY <1>2, <1>3 DEF N, P
<1> HIDE DEF nq, kq, pq, pm
<1>5. u <= lo + kq
  BY <1>4
<1> QED
  BY <1>5 DEF kq, K

\* What a pass does.
PassLeaves(f, cut, a) ==
  /\ Accumulates(f) /\ Lowers(Sum18(f), Sum18(a))
  /\ Sum18(a) < Above => ~HasHighLimb(cut)
  /\ ~HasHighLimb(cut) => Settled(f)

\* An accumulator has room for less than the square.
LEMMA RoomIs ==
  /\ Room \in Nat /\ Above \in Nat \ {0} /\ Room * Above <= Above * Above
  /\ Room <= 2 * ReductionConstant - 1
<1>1. /\ Room \in Nat /\ Above \in Nat \ {0} /\ Room <= 2 * ReductionConstant - 1
      /\ ReductionConstant \in Nat /\ 2 * ReductionConstant < Above
  BY LegacySizes, PrimeIs, Sizes
<1>2. Room <= Above
  BY <1>1
<1> QED
  BY <1>1, <1>2, TimesMonotone

\* A pass lowers the number, keeps its remainder, and is the last when the number is small.
LEMMA PassIs ==
  ASSUME NEW a, Accumulates(a), Sum18(a) < Above * Above
  PROVE  PassLeaves(FoldHighLimbs(Normalize(a)), Normalize(a), a)
<1> DEFINE h == HalfBase
           cut == Normalize(a)
           f == FoldHighLimbs(cut)
           v == Sum18(a)
           u == Sum18(f)
           lo == Value(cut, h, 8)
           q == HighValue(cut, 8)
           P == PrimeNumber
<1>1. h \in Nat \ {0} /\ 18 \in 0..18 /\ 16 \in 0..18 /\ 8 \in 0..18 /\ 8 \in 0..8 /\ 8 \in 0..16
      /\ 16 \in 0..16
  BY Sizes
<1>2. LimbMap(cut, h, 18) /\ Sum18(cut) = v /\ cut[17] = 0 /\ cut[18] = 0
  BY LegacyAbove, NormalizeIs
<1> HIDE DEF cut
<1>3. FoldLeaves(f, cut)
  BY <1>2, FoldHighLimbsIs
<1> HIDE DEF f
<1>4. Limbs(cut, h, 18) /\ AreDigits(cut, 18) /\ \A j \in 1..18 : cut[j] \in 0..(HalfBase - 1)
  BY ONLY <1>1, <1>2, LimbMapIs DEF h
<1>5. Limbs(cut, h, 8) /\ AreDigits(cut, 16)
  BY <1>4 DEF Limbs, AreDigits
<1>6. lo \in Nat /\ lo < Above
  <2> HIDE DEF h
  <2>1. Value(cut, h, 8) \in Nat /\ Value(cut, h, 8) < Weight(h)[8]
    BY <1>1, <1>5, LimbsBounded
  <2> QED
    BY <2>1, LegacyAbove DEF h
<1>7. q \in Nat
  BY <1>1, <1>2, HighsAre
<1>8. v = lo + Above * q
  <2>1. Value(cut, h, 18) = Value(cut, h, 16)
    <3>1. \A i \in 1..18 : i > 16 => cut[i] = 0
      <4>1. \A i \in 1..18 : i > 16 => i = 17 \/ i = 18
        OBVIOUS
      <4> QED
        BY <1>2, <4>1
    <3>2. 16 \in 0..18
      OBVIOUS
    <3> HIDE DEF h
    <3> QED
      BY ONLY <1>1, <1>4, <3>1, <3>2, StopsBelow
  <2>2. Divides(Highs(cut), cut, 8, 16, 8)
    BY <1>5 DEF Divides, Highs
  <2> DEFINE y == Highs(cut)
  <2> HIDE DEF y, h
  <2>3. Divided(y, cut, 8, 16, 8, h)
    BY ONLY <1>1, <2>2, Split DEF y
  <2>4. Value(cut, h, 16) = Value(cut, h, 8) + Weight(h)[8] * Value(y, h, 8)
    BY <2>3 DEF Divided
  <2>5. Weight(h)[8] = Above
    BY LegacyAbove DEF h
  <2> QED
    BY <1>2, <2>1, <2>4, <2>5 DEF Sum18, HighValue, y, h
<1>9. PICK m \in Nat : v = u + P * m /\ q <= m
  BY <1>2, <1>3 DEF FoldLeaves
<1>10. v \in Nat /\ u \in Nat /\ Accumulates(f)
  BY <1>3, AccumulatesIs DEF FoldLeaves
<1> HIDE DEF v, u, lo, q
<1>11. u <= lo + ReductionConstant * q
  BY <1>6, <1>7, <1>8, <1>9, <1>10, LowersIs
<1>12. u < Room * Above
  <2>1. Value(f, h, 18) = Value(f, h, 8)
    <3>1. \A i \in 1..18 : i > 8 => f[i] = 0
      <4>1. \A i \in 1..18 : i > 8 => i \in 9..18
        OBVIOUS
      <4> QED
        BY <1>3, <4>1 DEF FoldLeaves
    <3>2. 8 \in 0..18 /\ AreDigits(f, 18)
      BY <1>10, AccumulatesIs
    <3> HIDE DEF h
    <3> QED
      BY ONLY <1>1, <3>1, <3>2, StopsBelow
  <2>2. Value(f, h, 8) <= Room * (Weight(h)[8] - 1)
    <3>1. \A i \in 1..8 : 0 <= f[i] /\ f[i] <= (HalfBase - 1) * Room
      <4>1. \A i \in 1..8 : f[i] \in 0..Most
        BY <1>10, AccumulatesIs
      <4> QED
        BY <4>1, MostIs DEF Most
    <3>2. AreDigits(f, 8)
      <4>1. AreDigits(f, 18)
        BY <1>10, AccumulatesIs
      <4> QED
        BY <4>1 DEF AreDigits
    <3>3. Room \in Nat
      BY LegacySizes
    <3> QED
      BY ONLY <1>1, <3>1, <3>2, <3>3, Bounded DEF h
  <2>3. u <= Room * (Above - 1)
    BY <2>1, <2>2, LegacyAbove DEF u, Sum18
  <2> DEFINE c == Room
             N == Above
  <2>4. c \in Nat /\ c >= 3 /\ N \in Nat \ {0}
    BY LegacySizes, PrimeIs
  <2> HIDE DEF c, N
  <2>5. c * (N - 1) = c * N - c /\ c * N \in Nat
    BY <2>4
  <2> DEFINE p == c * N
             r == c * (N - 1)
  <2>6. u <= r /\ r = p - c /\ p \in Nat
    BY <2>3, <2>5 DEF c, N
  <2> HIDE DEF p, r
  <2>7. u < p
    BY <1>10, <2>4, <2>6
  <2> QED
    BY <2>7 DEF p, c, N
<1>13. u < Above * Above
  <2> DEFINE p == Room * Above
             s == Above * Above
  <2>1. u < p /\ p <= s /\ p \in Nat /\ s \in Nat
    BY <1>12, RoomIs
  <2> HIDE DEF p, s
  <2>2. u < s
    BY <1>10, <2>1
  <2> QED
    BY <2>2 DEF s
<1>14. Lowers(u, v)
  BY <1>6, <1>7, <1>8, <1>9, <1>11, <1>12, <1>13 DEF Lowers, P
<1>15. v < Above => ~HasHighLimb(cut)
  <2>1. ASSUME v < Above PROVE ~HasHighLimb(cut)
    <3>1. q = 0
      <4> DEFINE N == Above
      <4>1. N \in Nat \ {0} /\ v = lo + N * q /\ v < N * 1 /\ 1 \in Nat
        BY <1>8, <2>1, PrimeIs
      <4> HIDE DEF N
      <4>2. q < 1
        BY ONLY <1>6, <1>7, <1>10, <4>1, HighFits
      <4> QED
        BY <1>7, <4>2
    <3>2. Limbs(Highs(cut), HalfBase, 8) /\ Value(Highs(cut), HalfBase, 8) = 0
      BY <1>2, <3>1, HighsAre DEF q, HighValue
    <3>3. \A i \in 1..8 : Highs(cut)[i] = 0
      BY ONLY <1>1, <3>2, WorthNothing DEF h
    <3>4. ASSUME NEW i \in 9..18 PROVE cut[i] = 0
      <4>1. CASE i <= 16
        <5>1. i - 8 \in 1..8 /\ 8 + (i - 8) = i
          BY <4>1
        <5>2. Highs(cut)[i - 8] = cut[8 + (i - 8)]
          BY <5>1 DEF Highs
        <5> QED
          BY <3>3, <5>1, <5>2
      <4>2. CASE i > 16
        <5>1. i = 17 \/ i = 18
          BY <4>2
        <5> QED
          BY <1>2, <5>1
      <4> QED
        BY <4>1, <4>2
    <3> QED
      BY <3>4 DEF HasHighLimb
  <2> QED
    BY <2>1
<1>16. ~HasHighLimb(cut) => Settled(f)
  <2>1. ASSUME ~HasHighLimb(cut) PROVE Settled(f)
    <3>1. \A j \in 9..18 : cut[j] = 0
      BY <2>1 DEF HasHighLimb
    <3>2. \A j \in 1..18 : f[j] = cut[j]
      BY <1>3, <3>1 DEF FoldLeaves
    <3>3. \A j \in 1..18 : f[j] \in 0..(HalfBase - 1)
      BY <1>4, <3>2
    <3>4. DOMAIN f = 1..18 /\ f = [j \in 1..18 |-> f[j]]
      BY <1>10 DEF Accumulates
    <3>5. LimbMap(f, HalfBase, 18)
      BY <3>3, <3>4 DEF LimbMap
    <3> QED
      BY <1>3, <3>5 DEF FoldLeaves, Settled
  <2> QED
    BY <2>1
<1> QED
  BY <1>10, <1>14, <1>15, <1>16 DEF PassLeaves, v, u, f, cut

\* What is left after so many passes: less than the square of 2^256, then less than as many
\* times it as an accumulator has room for, then a little more than it, then less.
Slack == ReductionConstant * (2 * ReductionConstant - 2)
Stage(i, v) ==
  /\ v < Above * Above
  /\ i >= 1 => v < Room * Above
  /\ i >= 2 => v < Above + Slack
  /\ i >= 3 => v < Above

\* The slack is less than the constant below 2^256.
LEMMA SlackIs ==
  /\ Slack \in Nat /\ Slack + ReductionConstant <= Above /\ Slack < Above
  /\ \A q \in Nat : q < Room => ReductionConstant * q <= Slack
<1> DEFINE K == ReductionConstant
           N == Above
<1>1. K \in Nat /\ K >= 2 /\ N \in Nat
  BY Sizes, PrimeIs
<1>2. 2 * (K * K) < N
  BY LegacyAbove
<1>3. Room \in Nat /\ Room <= 2 * K - 1
  BY RoomIs
<1>4. Slack = K * (2 * K - 2)
  BY DEF Slack
<1> HIDE DEF K, N
<1>5. K * (2 * K - 2) = 2 * (K * K) - 2 * K /\ K * K \in Nat
  BY <1>1
<1>6. Slack \in Nat
  BY <1>1, <1>4
<1>7. Slack + K <= N /\ Slack < N
  <2> DEFINE s == K * K
  <2>1. Slack = 2 * s - 2 * K /\ s \in Nat /\ 2 * s < N
    BY <1>2, <1>4, <1>5
  <2> HIDE DEF s
  <2> QED
    BY <1>1, <1>6, <2>1
<1>8. ASSUME NEW q \in Nat, q < Room PROVE K * q <= Slack
  <2>1. q <= 2 * K - 2 /\ 2 * K - 2 \in Nat
    BY <1>1, <1>3, <1>8
  <2> DEFINE r == 2 * K - 2
  <2> HIDE DEF r
  <2>2. q * K <= r * K /\ q * K = K * q /\ r * K = K * r
    BY <1>1, <2>1, TimesMonotone DEF r
  <2> QED
    BY <1>4, <2>2 DEF r
<1> QED
  BY <1>6, <1>7, <1>8 DEF K, N

\* Every pass comes to the next stage.
LEMMA StageStep ==
  ASSUME NEW i \in 0..12, NEW u \in Nat, NEW v \in Nat, Lowers(u, v), Stage(i, v)
  PROVE  Stage(i + 1, u)
<1> DEFINE N == Above
           K == ReductionConstant
<1>1. N \in Nat \ {0} /\ K \in Nat /\ K >= 2
  BY PrimeIs, Sizes
<1>2. /\ Slack \in Nat /\ Slack + K <= N /\ Slack < N
      /\ \A r \in Nat : r < Room => K * r <= Slack
  BY SlackIs
<1>3. u < Room * Above /\ u < Above * Above
  BY DEF Lowers
<1>4. PICK lo \in Nat, q \in Nat : lo < N /\ v = lo + N * q /\ u <= lo + K * q
  BY DEF Lowers
<1>5. ASSUME NEW most \in Nat, v < N * most PROVE q < most
  <2> HIDE DEF N
  <2> QED
    BY ONLY <1>1, <1>4, <1>5, v \in Nat, HighFits
<1>6. ASSUME i >= 1 PROVE u < N + Slack
  <2>1. v < N * Room /\ Room \in Nat
    <3>1. Room * N = N * Room /\ Room \in Nat
      BY <1>1, RoomIs
    <3>2. v < Room * N
      BY <1>6 DEF Stage
    <3> QED
      BY <3>1, <3>2
  <2>2. K * q <= Slack
    BY <1>2, <1>5, <2>1
  <2> DEFINE t == K * q
  <2>3. t <= Slack /\ u <= lo + t /\ lo < N /\ t \in Nat
    BY <1>1, <1>4, <2>2
  <2> HIDE DEF t, N
  <2> QED
    BY <1>1, <1>2, <2>3
<1>7. ASSUME i >= 2 PROVE u < N
  <2>1. v < N + Slack
    BY <1>7 DEF Stage
  <2>2. q < 2
    <3>1. N * 2 = N + N
      BY <1>1
    <3> HIDE DEF N
    <3>2. v < N * 2 /\ 2 \in Nat
      BY <1>1, <1>2, <2>1, <3>1
    <3> QED
      BY <1>5, <3>2
  <2>3. CASE q = 0
    <3>1. K * q = 0
      BY <1>1, <2>3
    <3> HIDE DEF N, K
    <3> QED
      BY <1>1, <1>4, <3>1
  <2>4. CASE q = 1
    <3>1. K * q = K /\ N * q = N
      BY <1>1, <2>4
    <3>2. v = lo + N /\ u <= lo + K
      BY <1>4, <3>1
    <3> HIDE DEF N, K
    <3>3. lo < Slack
      BY <1>1, <1>2, <1>4, <2>1, <3>2
    <3> QED
      BY <1>1, <1>2, <1>4, <3>2, <3>3
  <2> QED
    BY <2>2, <2>3, <2>4
<1>8. (i + 1 >= 2 => i >= 1) /\ (i + 1 >= 3 => i >= 2)
  OBVIOUS
<1> QED
  BY <1>3, <1>6, <1>7, <1>8 DEF Stage

\* What a pass works on.
Passing == {p \in [limbs : [1..18 -> 0..Most], done : BOOLEAN] : Sum18(p.limbs) < Above * Above}

\* It accumulates.
LEMMA PassingIs ==
  ASSUME NEW p, p \in Passing
  PROVE  Accumulates(p.limbs) /\ Sum18(p.limbs) < Above * Above /\ p.done \in BOOLEAN
BY DEF Passing, Accumulates

\* A pass works on what the last one left.
LEMMA PassingStep ==
  ASSUME NEW p, p \in Passing
  PROVE  /\ Pass(p) \in Passing /\ (p.done => Pass(p) = p)
         /\ ~p.done => /\ Lowers(Sum18(Pass(p).limbs), Sum18(p.limbs))
                       /\ Sum18(p.limbs) < Above => Pass(p).done
                       /\ Pass(p).done => Settled(Pass(p).limbs)
<1> DEFINE a == p.limbs
           cut == Normalize(a)
           f == FoldHighLimbs(cut)
           d == HasHighLimb(cut)
<1>1. Accumulates(a) /\ Sum18(a) < Above * Above /\ p.done \in BOOLEAN
  BY PassingIs
<1>2. Pass(p) = IF p.done THEN p ELSE [limbs |-> f, done |-> ~d]
  BY DEF Pass
<1>3. PassLeaves(f, cut, a)
  BY <1>1, PassIs
<1> HIDE DEF f, cut, a
<1>4. Accumulates(f) /\ Sum18(f) < Above * Above
  BY <1>3 DEF PassLeaves, Lowers
<1>5. d \in BOOLEAN
  BY DEF HasHighLimb
<1> HIDE DEF d
<1>6. CASE p.done
  BY <1>2, <1>6
<1>7. CASE ~p.done
  <2>1. Pass(p) = [limbs |-> f, done |-> ~d]
    BY <1>2, <1>7
  <2>2. Pass(p).limbs = f /\ Pass(p).done = ~d
    BY <2>1
  <2>3. Pass(p) \in Passing
    <3>1. f \in [1..18 -> 0..Most]
      BY <1>4 DEF Accumulates
    <3> QED
      BY <1>4, <1>5, <2>1, <3>1 DEF Passing
  <2> QED
    BY <1>3, <1>7, <2>2, <2>3 DEF PassLeaves, a, d
<1> QED
  BY <1>6, <1>7

\* One pass after another.
LEMMA PassesRun ==
  ASSUME NEW a, Accumulates(a), Sum18(a) < Above * Above
  PROVE  \E run \in [0..12 -> Passing] :
           /\ run[0] = [limbs |-> a, done |-> FALSE] /\ Passes(a) = run[12].limbs
           /\ \A i \in 1..12 : run[i] = Pass(run[i - 1])
<1> DEFINE n == 12
           D == Passing
           base == [limbs |-> a, done |-> FALSE]
           Loop(f) == [i \in 0..n |-> IF i = 0 THEN base ELSE Pass(f[i - 1])]
           step == [e \in (1..n) \X D |-> Pass(e[2])]
           iter == CHOOSE f : f = Loop(f)
<1>1. n \in Nat
  OBVIOUS
<1>2. base \in D /\ \A i \in 1..n, acc \in D : Pass(acc) \in D
  <2>1. base \in D
    BY DEF Passing, Accumulates
  <2>2. \A acc \in D : Pass(acc) \in D
    BY PassingStep
  <2> HIDE DEF D, n, base
  <2> QED
    BY <2>1, <2>2
<1>3. Passes(a) = iter[n].limbs
  BY DEF Passes
<1>4. PICK g \in [0..n -> D] : Recursive(g, n, base, step)
  <2>1. step \in [(1..n) \X D -> D]
    <3> HIDE DEF D, base, n
    <3> QED
      BY <1>2
  <2> HIDE DEF D, base, step, n
  <2> QED
    BY ONLY <1>1, <1>2, <2>1, RecursionExists
<1>5. g[0] = base /\ \A i \in 1..n : i - 1 \in 0..n /\ i # 0 /\ g[i] = Pass(g[i - 1])
  <2> HIDE DEF D, base, n
  <2>1. ASSUME NEW i \in 1..n PROVE i - 1 \in 0..n /\ i # 0 /\ g[i] = Pass(g[i - 1])
    <3>1. i - 1 \in 0..n /\ i # 0
      BY <1>1
    <3>2. g[i] = step[<<i, g[i - 1]>>] /\ g[i - 1] \in D
      <4> HIDE DEF step
      <4> QED
        BY <1>4, <3>1 DEF Recursive
    <3> QED
      BY <3>1, <3>2
  <2>2. g[0] = base
    <3> HIDE DEF step
    <3> QED
      BY <1>4 DEF Recursive
  <2> QED
    BY <2>1, <2>2
<1>6. \A i \in 0..n : i # 0 => i \in 1..n
  <2> HIDE DEF n
  <2> QED
    BY <1>1
<1>7. g = Loop(g)
  <2> HIDE DEF D, base, n
  <2>1. \A i \in 0..n : g[i] = Loop(g)[i]
    BY <1>5, <1>6
  <2> QED
    BY <1>4, <2>1
<1>8. iter = Loop(iter)
  <2> HIDE DEF Loop
  <2> QED
    BY <1>7
<1>9. iter[0] = base /\ \A i \in 1..n : iter[i] = Pass(iter[i - 1])
  <2> HIDE DEF iter, base, n
  <2>1. \A i \in 0..n : iter[i] = Loop(iter)[i]
    BY <1>8
  <2>2. 0 \in 0..n /\ \A i \in 1..n : i \in 0..n /\ i # 0
    BY <1>1
  <2> QED
    BY <2>1, <2>2
<1>10. \A i \in 0..n : iter[i] = g[i]
  <2> DEFINE same == {i \in 0..n : iter[i] = g[i]}
  <2>1. 0 \in same
    <3> HIDE DEF D, iter, base, n
    <3>1. iter[0] = g[0]
      BY ONLY <1>5, <1>9
    <3> QED
      BY <1>1, <3>1
  <2>2. ASSUME NEW i \in 1..n, i - 1 \in same PROVE i \in same
    <3>1. iter[i - 1] = g[i - 1]
      BY <2>2
    <3> HIDE DEF iter, base, n
    <3>2. i \in 0..n
      BY <1>1
    <3> QED
      BY <1>5, <1>9, <3>1, <3>2
  <2> HIDE DEF same, n
  <2>3. \A i \in 0..n : i \in same
    BY <1>1, <2>1, <2>2, UpTo
  <2> QED
    BY <2>3 DEF same
<1> QED
  <2>1. n \in 0..n
    <3> HIDE DEF n
    <3> QED
      BY <1>1
  <2> HIDE DEF iter
  <2> QED
    BY <1>3, <1>4, <1>5, <1>10, <2>1

\* After each pass: the same remainder, settled if done, and after four passes done.
Passed(i, p, total) ==
  /\ p \in Passing /\ \E m \in Nat : total = Sum18(p.limbs) + PrimeNumber * m
  /\ p.done => Settled(p.limbs)
  /\ ~p.done => Stage(i, Sum18(p.limbs)) /\ i < 4

\* A pass after another.
LEMMA PassedStep ==
  ASSUME NEW i \in 0..11, NEW p, NEW total, Passed(i, p, total)
  PROVE  Passed(i + 1, Pass(p), total)
<1> DEFINE q == Pass(p)
           u == Sum18(q.limbs)
           v == Sum18(p.limbs)
           P == PrimeNumber
<1>1. p \in Passing
  BY DEF Passed
<1>2. q \in Passing /\ u \in Nat /\ v \in Nat /\ P \in Nat
  BY <1>1, PassingStep, PassingIs, AccumulatesIs, PrimeIs
<1>3. CASE p.done
  <2>1. q = p
    BY <1>1, <1>3, PassingStep
  <2> HIDE DEF q
  <2> QED
    BY <1>3, <2>1 DEF Passed, q
<1>4. CASE ~p.done
  <2>1. /\ Lowers(u, v) /\ (v < Above => q.done) /\ (q.done => Settled(q.limbs))
    BY <1>1, <1>4, PassingStep
  <2>2. Stage(i, v) /\ i < 4
    BY <1>4 DEF Passed
  <2>3. PICK m \in Nat : total = v + P * m
    BY DEF Passed
  <2>4. PICK n \in Nat : v = u + P * n
    BY <2>1 DEF Lowers
  <2> HIDE DEF q, u, v, P
  <2>5. Stage(i + 1, u)
    <3>1. i \in 0..12
      OBVIOUS
    <3> QED
      BY <1>2, <2>1, <2>2, <3>1, StageStep
  <2>6. total = u + P * (n + m) /\ n + m \in Nat
    <3>1. P * (n + m) = P * n + P * m /\ P * n \in Int /\ P * m \in Int
      BY <1>2
    <3> DEFINE x == P * n
               y == P * m
               z == P * (n + m)
    <3>2. z = x + y /\ x \in Int /\ y \in Int /\ v = u + x /\ total = v + y
      BY <2>3, <2>4, <3>1
    <3> HIDE DEF x, y, z
    <3>3. total = u + z
      BY <1>2, <3>2
    <3> QED
      BY <3>3 DEF z
  <2>7. ~q.done => i + 1 < 4
    <3>1. CASE i >= 3
      BY <2>1, <2>2, <3>1 DEF Stage
    <3>2. CASE ~(i >= 3)
      BY <3>2
    <3> QED
      BY <3>1, <3>2
  <2> QED
    BY <1>2, <2>1, <2>5, <2>6, <2>7 DEF Passed, q, u, v, P
<1> QED
  BY <1>3, <1>4

\* The passes end with a number below 2^256 of the same remainder.
LEMMA PassesAre ==
  ASSUME NEW a, Accumulates(a), Sum18(a) < Above * Above
  PROVE  Settled(Passes(a)) /\ \E m \in Nat : Sum18(a) = Sum18(Passes(a)) + PrimeNumber * m
<1> DEFINE total == Sum18(a)
           start == [limbs |-> a, done |-> FALSE]
<1>1. PICK run \in [0..12 -> Passing] :
        /\ run[0] = start /\ Passes(a) = run[12].limbs
        /\ \A i \in 1..12 : run[i] = Pass(run[i - 1])
  BY PassesRun
<1> DEFINE good == {i \in 0..12 : Passed(i, run[i], total)}
<1>2. 0 \in good
  <2>1. run[0] \in Passing /\ start.limbs = a /\ start.done = FALSE
    <3>1. 0 \in 0..12
      OBVIOUS
    <3>2. run[0] \in Passing
      BY ONLY <3>1, run \in [0..12 -> Passing]
    <3> QED
      BY <3>2
  <2>2. total \in Nat /\ PrimeNumber \in Nat
    BY AccumulatesIs, PrimeIs
  <2>3. total = total + PrimeNumber * 0 /\ 0 \in Nat
    BY <2>2
  <2>4. Stage(0, total)
    BY DEF Stage
  <2> HIDE DEF start, total
  <2>5. Passed(0, run[0], total)
    BY <1>1, <2>1, <2>3, <2>4 DEF Passed, total
  <2> QED
    BY <2>5
<1>3. ASSUME NEW i \in 1..12, i - 1 \in good PROVE i \in good
  <2> DEFINE j == i - 1
             p == run[j]
  <2>1. j \in 0..11 /\ j + 1 = i /\ Passed(j, p, total) /\ run[i] = Pass(p) /\ i \in 0..12
    BY <1>1, <1>3
  <2> HIDE DEF j, p, total
  <2>2. Passed(j + 1, Pass(p), total)
    BY <2>1, PassedStep
  <2> QED
    BY <2>1, <2>2
<1>4. 12 \in good
  <2>1. \A i \in 0..12 : i \in good
    <3>1. 12 \in Nat
      OBVIOUS
    <3> HIDE DEF good
    <3> QED
      BY ONLY <1>2, <1>3, <3>1, UpTo
  <2> HIDE DEF good
  <2> QED
    BY <2>1
<1>5. Passed(12, run[12], total)
  BY <1>4
<1>6. run[12].done
  BY <1>5 DEF Passed
<1> QED
  BY <1>1, <1>5, <1>6 DEF Passed

--------------------------------------------------------------------------------
(* cuda_secp.cuh: the four operations.                                          *)

\* The number of eight limbs.
Of8(l) == Value(l, HalfBase, 8)

\* It is below 2^256.
LEMMA Of8Is ==
  ASSUME NEW l, LimbMap(l, HalfBase, 8)
  PROVE  /\ Of8(l) \in Nat /\ Of8(l) < Above /\ AreDigits(l, 8) /\ Limbs(l, HalfBase, 8)
         /\ DOMAIN l = 1..8 /\ \A i \in 1..8 : l[i] \in 0..(HalfBase - 1)
<1>1. HalfBase \in Nat \ {0} /\ 8 \in 0..8 /\ 8 \in 0..18
  BY Sizes
<1>2. Limbs(l, HalfBase, 8) /\ AreDigits(l, 8) /\ DOMAIN l = 1..8
      /\ \A i \in 1..8 : l[i] \in 0..(HalfBase - 1)
  BY ONLY <1>1, LimbMap(l, HalfBase, 8), LimbMapIs
<1>3. Value(l, HalfBase, 8) \in Nat /\ Value(l, HalfBase, 8) < Weight(HalfBase)[8]
  BY <1>1, <1>2, LimbsBounded
<1> QED
  BY <1>2, <1>3, LegacyAbove DEF Of8

\* The limbs of a number below 2^256.
LEMMA LegacyNumber ==
  ASSUME NEW v \in Nat, v < Above
  PROVE  LimbMap(LimbsOf(v, HalfBase, 8), HalfBase, 8) /\ Of8(LimbsOf(v, HalfBase, 8)) = v
<1> DEFINE h == HalfBase
           l == LimbsOf(v, h, 8)
<1>1. h \in Nat \ {0} /\ 8 \in 0..18 /\ 8 \in 0..8
  BY Sizes
<1>2. Counts(l, v, h, 8)
  <2> HIDE DEF h
  <2> QED
    BY <1>1, LimbsOfNumber
<1>3. l = [i \in 1..8 |-> l[i]]
  BY DEF LimbsOf
<1> HIDE DEF l
<1>4. LimbMap(l, h, 8)
  BY <1>2, <1>3 DEF Counts, Limbs, LimbMap
<1>5. Value(l, h, 8) = (v % Above)
  BY <1>1, <1>2, LegacyAbove DEF Counts
<1>6. (v % Above) = v
  <2> DEFINE N == Above
  <2>1. N \in Nat \ {0} /\ v \in 0..(N - 1) /\ v = 0 * N + v
    BY PrimeIs
  <2> HIDE DEF N
  <2>2. (v % N) = v
    BY <2>1, DivUnique
  <2> QED
    BY <2>2 DEF N
<1> QED
  BY <1>4, <1>5, <1>6 DEF Of8, l, h

\* The prime's limbs.
LEMMA LegacyPrimeIs ==
  LimbMap(LegacyPrime, HalfBase, 8) /\ Of8(LegacyPrime) = PrimeNumber
<1>1. PrimeNumber \in Nat /\ PrimeNumber < Above
  BY PrimeIs, Sizes
<1> QED
  BY <1>1, LegacyNumber DEF LegacyPrime

\* Limbs that are worth a number are its limbs.
LEMMA LegacyAreLimbsOf ==
  ASSUME NEW l, LimbMap(l, HalfBase, 8), NEW v \in Nat, Of8(l) = v
  PROVE  l = LimbsOf(v, HalfBase, 8)
<1>1. HalfBase \in Nat \ {0} /\ 8 \in 0..18
  BY Sizes
<1>2. Value(l, HalfBase, 8) = v
  BY DEF Of8
<1> QED
  BY ONLY <1>1, <1>2, LimbMap(l, HalfBase, 8), v \in Nat, AreLimbsOf

\* A limb of a difference: x less y, which holds a borrow.
BorrowFrom(x, y) == [limb |-> (x - y) % HalfBase, carry |-> IF x < y THEN 1 ELSE 0]

\* Its borrow.
LEMMA BorrowFromIs ==
  ASSUME NEW x \in 0..(HalfBase - 1), NEW y \in 0..HalfBase
  PROVE  /\ BorrowFrom(x, y).limb \in 0..(HalfBase - 1) /\ BorrowFrom(x, y).carry \in 0..1
         /\ x - y = BorrowFrom(x, y).limb - HalfBase * BorrowFrom(x, y).carry
<1> DEFINE h == HalfBase
           w == (x - y) % h
<1>1. h \in Nat \ {0} /\ x \in 0..(h - 1) /\ y \in 0..h
  BY Sizes
<1>2. BorrowFrom(x, y) = [limb |-> w, carry |-> IF x < y THEN 1 ELSE 0]
  BY DEF BorrowFrom
<1> HIDE DEF h
<1>3. CASE x < y
  <2> DEFINE z == x - y
  <2>1. z \in Int /\ z + h \in 0..(h - 1)
    BY <1>1, <1>3
  <2> HIDE DEF z
  <2>2. (z % h) = z + h
    BY <1>1, <2>1, WrapBelow
  <2>3. h * 1 = h
    BY <1>1
  <2>4. w = z + h /\ BorrowFrom(x, y).limb = w /\ BorrowFrom(x, y).carry = 1
    BY <1>2, <1>3, <2>2 DEF z
  <2> HIDE DEF w
  <2>5. z = w - h
    BY <1>1, <2>1, <2>4
  <2>6. w \in 0..(h - 1)
    BY <2>1, <2>4
  <2> QED
    BY <2>3, <2>4, <2>5, <2>6 DEF z, h
<1>4. CASE ~(x < y)
  <2> DEFINE z == x - y
  <2>1. z \in 0..(h - 1) /\ z \in Nat /\ z \in Int /\ 0 \in Nat /\ z = 0 * h + z
    BY <1>1, <1>4
  <2> HIDE DEF z
  <2>2. (z % h) = z
    BY ONLY <1>1, <2>1, DivUnique
  <2>3. h * 0 = 0
    BY <1>1
  <2>4. w = z /\ BorrowFrom(x, y).limb = w /\ BorrowFrom(x, y).carry = 0
    BY <1>2, <1>4, <2>2 DEF z
  <2> HIDE DEF w
  <2>5. z = w - 0
    BY <2>1, <2>4
  <2> QED
    BY <2>1, <2>3, <2>4, <2>5 DEF z, h
<1> QED
  BY <1>3, <1>4

\* subtract_raw, of a number that is not below the other.
LEMMA LegacySubtractRawIs ==
  ASSUME NEW x, NEW y, LimbMap(x, HalfBase, 8), LimbMap(y, HalfBase, 8), Of8(y) <= Of8(x)
  PROVE  /\ LimbMap(LegacySubtractRaw(x, y), HalfBase, 8)
         /\ Of8(LegacySubtractRaw(x, y)) = Of8(x) - Of8(y)
<1> DEFINE b == HalfBase
           each == [i \in 1..8 |-> [borrow \in 0..1 |-> BorrowFrom(x[i], y[i] + borrow)]]
           L == 0..(b - 1)
           C == 0..1
           r == LegacySubtractRaw(x, y)
           minus == 0 - 1
           s == [i \in 1..8 |-> x[i] + minus * y[i]]
<1>1. b \in Nat \ {0} /\ minus \in Int /\ 8 \in 0..18 /\ 8 \in Nat /\ 8 \in 0..8
  BY Sizes
<1>2. r = EachLimb(each, 8).limbs
  BY DEF LegacySubtractRaw, BorrowFrom
<1>3. \A i \in 1..8 : x[i] \in 0..(HalfBase - 1) /\ y[i] \in 0..(HalfBase - 1)
  BY Of8Is
<1>4. ASSUME NEW i \in 1..8, NEW borrow \in 0..1
      PROVE  /\ each[i][borrow].limb \in 0..(HalfBase - 1) /\ each[i][borrow].carry \in 0..1
             /\ (x[i] - y[i]) - borrow = each[i][borrow].limb - HalfBase * each[i][borrow].carry
  <2> DEFINE u == x[i]
             v == y[i] + borrow
             d == BorrowFrom(u, v)
  <2>1. each[i][borrow] = d
    OBVIOUS
  <2> HIDE DEF each
  <2>2. u \in 0..(HalfBase - 1) /\ v \in 0..HalfBase /\ (x[i] - y[i]) - borrow = u - v
    BY <1>1, <1>3
  <2> HIDE DEF u, v
  <2>3. d.limb \in 0..(HalfBase - 1) /\ d.carry \in 0..1 /\ u - v = d.limb - HalfBase * d.carry
    BY <2>2, BorrowFromIs
  <2> HIDE DEF d
  <2> QED
    BY <2>1, <2>2, <2>3
<1> HIDE DEF each, r
<1>5. Stepping(each, 8, L, C)
  <2>1. \A i \in 1..8, c \in C : each[i][c].limb \in L /\ each[i][c].carry \in C
    BY <1>4
  <2> QED
    BY <2>1 DEF Stepping
<1>6. PICK c : Rippled(c, each, 8, L, C)
  <2> HIDE DEF L, C
  <2> QED
    BY <1>5, EachLimbIs
<1> DEFINE e == [i \in 0..8 |-> 0 - c[i]]
<1>7. LimbMap(r, b, 8) /\ c[0] = 0 /\ \A i \in 0..8 : c[i] \in 0..1
  BY <1>2, <1>6 DEF Rippled, LimbMap
<1>8. AreDigits(x, 8) /\ AreDigits(y, 8) /\ AreDigits(r, 8)
  BY <1>7, Of8Is
<1>9. AreDigits(s, 8) /\ Value(s, b, 8) = Value(x, b, 8) + minus * Value(y, b, 8)
  <2>1. \A i \in 1..8 : s[i] = x[i] + minus * y[i]
    OBVIOUS
  <2> HIDE DEF s, b, minus
  <2>2. Combines(s, x, y, minus, 8)
    BY <1>8, <2>1 DEF Combines
  <2>3. Combined(s, x, y, minus, b, 8)
    BY ONLY <1>1, <2>2, Linear
  <2> QED
    BY <2>3 DEF Combined
<1>10. CarriesOut(s, r, e, b, 8)
  <2>1. ASSUME NEW i \in 1..8 PROVE s[i] + e[i - 1] = r[i] + b * e[i]
    <3>1. i - 1 \in 0..8 /\ i \in 0..8 /\ c[i - 1] \in 0..1 /\ c[i] \in 0..1
      BY <1>7
    <3>2. r[i] = each[i][c[i - 1]].limb /\ c[i] = each[i][c[i - 1]].carry
      BY <1>2, <1>6 DEF Rippled
    <3>3. (x[i] - y[i]) - c[i - 1] = r[i] - b * c[i] /\ r[i] \in Int
      <4> DEFINE last == c[i - 1]
      <4>1. last \in 0..1
        BY <3>1
      <4> HIDE DEF last
      <4>2. /\ each[i][last].limb \in 0..(b - 1)
            /\ (x[i] - y[i]) - last = each[i][last].limb - b * each[i][last].carry
        BY <1>4, <4>1
      <4>3. each[i][last].limb \in Int
        BY <1>1, <4>2
      <4>4. r[i] = each[i][last].limb /\ c[i] = each[i][last].carry
        BY <3>2 DEF last
      <4> QED
        BY ONLY <4>2, <4>3, <4>4 DEF last
    <3>7. x[i] \in Int /\ y[i] \in Int
      BY <1>1, <1>3
    <3>8. s[i] = x[i] + minus * y[i] /\ e[i - 1] = 0 - c[i - 1] /\ e[i] = 0 - c[i]
      BY <3>1
    <3>4. s[i] = x[i] - y[i] /\ e[i - 1] = 0 - c[i - 1] /\ e[i] = 0 - c[i] /\ x[i] \in Int
          /\ y[i] \in Int
      <4> HIDE DEF s, e
      <4>1. x[i] + minus * y[i] = x[i] - y[i]
        BY ONLY <3>7 DEF minus
      <4> QED
        BY ONLY <3>7, <3>8, <4>1
    <3> HIDE DEF s, e
    <3>5. CASE c[i] = 0
      <4>1. b * c[i] = 0 /\ b * e[i] = 0
        BY <1>1, <3>4, <3>5
      <4> QED
        BY <3>1, <3>3, <3>4, <4>1
    <3>6. CASE c[i] = 1
      <4>1. b * c[i] = b /\ b * e[i] = 0 - b
        BY <1>1, <3>4, <3>6
      <4> QED
        BY <1>1, <3>1, <3>3, <3>4, <4>1
    <3> QED
      BY <3>1, <3>5, <3>6
  <2>2. Carries(s, r, e, b, 8)
    <3>1. \A i \in 0..8 : e[i] \in Int
      BY <1>7
    <3> HIDE DEF s, b, e
    <3> QED
      BY <1>8, <1>9, <2>1, <3>1 DEF Carries
  <2> HIDE DEF s, b, e
  <2> QED
    BY ONLY <1>1, <2>2, CarriesAre
<1> DEFINE u == Of8(x)
           v == Of8(y)
           w == Of8(r)
           N == Above
<1>11. u \in Nat /\ v \in Nat /\ w \in Nat /\ v <= u /\ w < N /\ N \in Nat /\ u < N
  <2> HIDE DEF r
  <2> QED
    BY <1>7, Of8Is, PrimeIs
<1>12. (u + minus * v) + 0 = w + N * (0 - c[8])
  <2>1. e[0] = 0 /\ e[8] = 0 - c[8]
    BY <1>7
  <2> HIDE DEF s, e
  <2> QED
    BY <1>9, <1>10, <2>1, LegacyAbove DEF CarriesOut, Of8, b
<1>13. c[8] \in 0..1
  BY <1>7
<1> HIDE DEF u, v, w, N
<1>14. w = u - v
  <2>1. minus * v = 0 - v
    BY <1>11
  <2>2. CASE c[8] = 0
    <3>1. N * (0 - c[8]) = 0
      BY <1>11, <2>2
    <3> QED
      BY <1>11, <1>12, <2>1, <3>1
  <2>3. CASE c[8] = 1
    <3>1. N * (0 - c[8]) = 0 - N
      BY <1>11, <2>3
    <3> QED
      BY <1>11, <1>12, <2>1, <3>1
  <2> QED
    BY <1>13, <2>2, <2>3
<1> QED
  BY <1>7, <1>14 DEF r, b, u, v, w

\* cuda_secp's reduce_accumulator leaves the limbs of the remainder by the prime: no accumulator
\* wraps, and four of its twelve passes are enough.
THEOREM ReduceAccumulatorIsRemainder ==
  ASSUME NEW a, Accumulates(a), Sum18(a) < Above * Above
  PROVE  ReduceAccumulator(a) = LimbsOf(Sum18(a) % PrimeNumber, HalfBase, 8)
<1> DEFINE h == HalfBase
           f == Passes(a)
           out == [i \in 1..8 |-> f[i] % HalfBase]
           v == Sum18(a)
           w == Of8(out)
           P == PrimeNumber
<1>1. h \in Nat \ {0} /\ 18 \in 0..18 /\ 8 \in 0..18 /\ P \in Nat \ {0} /\ Above < 2 * P
  <2>1. P = Above - ReductionConstant /\ 2 * ReductionConstant < Above /\ P \in Nat \ {0}
        /\ Above \in Nat /\ ReductionConstant \in Nat
    BY PrimeIs, Sizes
  <2> HIDE DEF P
  <2>2. Above < 2 * P
    BY <2>1
  <2> QED
    BY <2>1, <2>2, Sizes
<1>2. Settled(f) /\ \E m \in Nat : v = Sum18(f) + P * m
  BY PassesAre
<1>3. ReduceAccumulator(a)
        = IF AtLeast(out, LegacyPrime) THEN LegacySubtractRaw(out, LegacyPrime) ELSE out
  BY DEF ReduceAccumulator
<1> HIDE DEF f
<1>4. AreDigits(f, 18) /\ \A i \in 1..18 : f[i] \in 0..(HalfBase - 1)
  BY ONLY <1>1, <1>2, LimbMapIs DEF Settled, h
<1>5. \A i \in 1..8 : out[i] = f[i] /\ out[i] \in 0..(HalfBase - 1)
  <2>1. ASSUME NEW i \in 1..8 PROVE out[i] = f[i] /\ out[i] \in 0..(HalfBase - 1)
    <3> DEFINE x == f[i]
    <3>1. x \in 0..(h - 1) /\ x \in Nat /\ 0 \in Nat /\ x = 0 * h + x /\ out[i] = x % h
      BY <1>1, <1>4
    <3> HIDE DEF x, h, out
    <3>2. (x % h) = x
      BY ONLY <1>1, <3>1, DivUnique
    <3> QED
      BY <3>1, <3>2 DEF x, h
  <2> QED
    BY <2>1
<1>6. LimbMap(out, HalfBase, 8)
  BY <1>5 DEF LimbMap
<1> HIDE DEF out
<1>7. w = Sum18(f)
  <2>1. \A i \in 1..18 : i > 8 => f[i] = 0
    <3>1. \A i \in 1..18 : i > 8 => i \in 9..18
      OBVIOUS
    <3> QED
      BY <1>2, <3>1 DEF Settled
  <2>2. Value(f, h, 18) = Value(f, h, 8)
    <3> HIDE DEF h
    <3> QED
      BY ONLY <1>1, <1>4, <2>1, StopsBelow
  <2>3. AreDigits(f, 8)
    BY <1>4 DEF AreDigits
  <2>4. \A i \in 0..8 : Value(out, h, i) = Value(f, h, i)
    <3>1. \A i \in 1..8 : out[i] = f[i]
      BY <1>5
    <3> HIDE DEF h
    <3> QED
      BY <1>1, <2>3, <3>1, SameValue
  <2>5. 8 \in 0..8
    OBVIOUS
  <2> QED
    BY <2>2, <2>4, <2>5 DEF Of8, Sum18, h
<1>8. w \in Nat /\ w < Above /\ Limbs(out, HalfBase, 8) /\ DOMAIN out = 1..8
  BY <1>6, Of8Is
<1>9. v \in Nat
  BY AccumulatesIs
<1>10. Near(v, w, P)
  <2>1. w < 2 * P
    <3> HIDE DEF w, P
    <3>1. Above \in Nat
      BY PrimeIs
    <3> QED
      BY <1>1, <1>8, <3>1
  <2> QED
    BY <1>2, <1>7, <2>1 DEF Near
<1>11. (v % P) = IF P <= w THEN w - P ELSE w
  <2> HIDE DEF v, w, P
  <2> QED
    BY ONLY <1>1, <1>8, <1>9, <1>10, Reduced
<1>12. LimbMap(LegacyPrime, HalfBase, 8) /\ Of8(LegacyPrime) = P /\ Limbs(LegacyPrime, HalfBase, 8)
  BY LegacyPrimeIs, Of8Is
<1>13. AtLeast(out, LegacyPrime) <=> P <= w
  <2>1. AtLeast(out, LegacyPrime) <=> Value(LegacyPrime, HalfBase, 8) <= Value(out, HalfBase, 8)
    BY ONLY <1>1, <1>8, <1>12, Compare DEF h
  <2> QED
    BY <1>12, <2>1 DEF Of8
<1>14. CASE P <= w
  <2> DEFINE r == LegacySubtractRaw(out, LegacyPrime)
  <2>1. LimbMap(r, HalfBase, 8) /\ Of8(r) = w - P
    BY <1>6, <1>12, <1>14, LegacySubtractRawIs
  <2>2. ReduceAccumulator(a) = r
    BY <1>3, <1>13, <1>14
  <2>3. w - P \in Nat
    <3> HIDE DEF w, P
    <3> QED
      BY <1>1, <1>8, <1>14
  <2>4. r = LimbsOf(w - P, HalfBase, 8)
    <3> HIDE DEF r
    <3> QED
      BY <2>1, <2>3, LegacyAreLimbsOf
  <2> QED
    BY <1>11, <1>14, <2>2, <2>4
<1>15. CASE ~(P <= w)
  <2>1. out = LimbsOf(w, HalfBase, 8)
    BY <1>6, <1>8, LegacyAreLimbsOf
  <2>2. ReduceAccumulator(a) = out
    BY <1>3, <1>13, <1>15
  <2> QED
    BY <1>11, <1>15, <2>1, <2>2
<1> QED
  BY <1>14, <1>15

\* An element of the field as eight limbs.
LEMMA LegacyOperandIs ==
  ASSUME NEW a \in 0..(PrimeNumber - 1)
  PROVE  /\ LimbMap(LimbsOf(a, HalfBase, 8), HalfBase, 8) /\ Of8(LimbsOf(a, HalfBase, 8)) = a
         /\ a \in Nat /\ a < Above
<1>1. a \in Nat /\ a < Above
  BY PrimeIs, Sizes
<1> QED
  BY <1>1, LegacyNumber

\* Limbs as large as a sum of two, and nothing above the field.
LEMMA SumHolds ==
  ASSUME NEW x, NEW y, LimbMap(x, HalfBase, 8), LimbMap(y, HalfBase, 8)
  PROVE  LET a == [i \in 1..18 |-> IF i <= 8 THEN x[i] + y[i] ELSE 0]
         IN  Accumulates(a) /\ Sum18(a) = Of8(x) + Of8(y) /\ Sum18(a) < Above * Above
<1> DEFINE h == HalfBase
           a == [i \in 1..18 |-> IF i <= 8 THEN x[i] + y[i] ELSE 0]
<1>1. h \in Nat \ {0} /\ 8 \in 0..18 /\ 18 \in 0..18 /\ 8 \in 0..8
  BY Sizes
<1>2. Twice <= Most /\ Twice = 2 * (h - 1) /\ Most \in Nat /\ Twice \in Nat
  <2>1. Once \in Nat /\ Twice \in Nat /\ Most = Once + Twice /\ Twice = 2 * (h - 1)
    BY OnceIs
  <2> QED
    BY <2>1
<1>3. \A i \in 1..8 : x[i] \in 0..(HalfBase - 1) /\ y[i] \in 0..(HalfBase - 1)
  BY Of8Is
<1>4. \A i \in 1..18 : /\ i <= 8 => a[i] = x[i] + y[i]
                       /\ i > 8 => a[i] = 0
  OBVIOUS
<1>5. Accumulates(a)
  <2>1. ASSUME NEW i \in 1..18 PROVE a[i] \in 0..Most
    <3>1. CASE i <= 8
      <4>1. a[i] = x[i] + y[i] /\ i \in 1..8
        BY <3>1
      <4> HIDE DEF a
      <4> QED
        BY <1>1, <1>2, <1>3, <4>1
    <3>2. CASE i > 8
      BY <1>2, <1>4, <3>2
    <3> QED
      BY <3>1, <3>2
  <2> QED
    BY <2>1 DEF Accumulates
<1> HIDE DEF a
<1>6. Combines(a, x, y, 1, 8)
  <2>1. \A i \in 1..8 : a[i] = x[i] + 1 * y[i]
    <3>1. \A i \in 1..8 : i \in 1..18 /\ i <= 8 /\ 1 * y[i] = y[i]
      BY <1>3
    <3> QED
      BY <1>4, <3>1
  <2> QED
    BY <2>1, Of8Is DEF Combines
<1>7. Combined(a, x, y, 1, h, 8)
  <2>1. 1 \in Int
    OBVIOUS
  <2> HIDE DEF h
  <2> QED
    BY ONLY <1>1, <1>6, <2>1, Linear
<1>8. Value(a, h, 18) = Value(a, h, 8)
  <2>1. AreDigits(a, 18) /\ \A i \in 1..18 : i > 8 => a[i] = 0
    BY <1>4, <1>5, AccumulatesIs
  <2> HIDE DEF h
  <2> QED
    BY ONLY <1>1, <2>1, StopsBelow
<1> DEFINE u == Of8(x)
           v == Of8(y)
<1>9. Sum18(a) = u + 1 * v /\ u \in Nat /\ v \in Nat /\ u < Above /\ v < Above
  BY <1>7, <1>8, Of8Is DEF Sum18, Of8, Combined
<1> HIDE DEF u, v
<1>10. Sum18(a) = u + v
  BY <1>9
<1>11. Sum18(a) < Above * Above
  <2> DEFINE N == Above
             s == N * N
  <2>1. N \in Nat /\ N >= 2
    <3>1. N \in Nat /\ 2 * ReductionConstant < N /\ ReductionConstant \in Nat /\ ReductionConstant >= 2
      BY PrimeIs, Sizes
    <3> QED
      BY <3>1
  <2> HIDE DEF N
  <2>2. 2 * N <= s /\ s \in Nat
    BY <2>1, TimesMonotone
  <2> HIDE DEF s
  <2>3. Sum18(a) < s
    BY <1>9, <1>10, <2>1, <2>2 DEF N
  <2> QED
    BY <2>3 DEF s, N
<1> QED
  BY <1>5, <1>10, <1>11 DEF a, u, v

\* field_add.
LEMMA LegacyAddIs ==
  ASSUME NEW x, NEW y, LimbMap(x, HalfBase, 8), LimbMap(y, HalfBase, 8)
  PROVE  LegacyAdd(x, y) = LimbsOf((Of8(x) + Of8(y)) % PrimeNumber, HalfBase, 8)
<1> DEFINE a == [i \in 1..18 |-> IF i <= 8 THEN x[i] + y[i] ELSE 0]
<1>1. Accumulates(a) /\ Sum18(a) = Of8(x) + Of8(y) /\ Sum18(a) < Above * Above
  BY SumHolds
<1>2. LegacyAdd(x, y) = ReduceAccumulator(a)
  BY DEF LegacyAdd
<1> HIDE DEF a
<1>3. ReduceAccumulator(a) = LimbsOf(Sum18(a) % PrimeNumber, HalfBase, 8)
  BY <1>1, ReduceAccumulatorIsRemainder
<1> QED
  BY <1>1, <1>2, <1>3

\* cuda_secp's field_add: two elements give the eight limbs of their sum modulo the prime.
THEOREM LegacyAddIsSum ==
  ASSUME NEW a \in 0..(PrimeNumber - 1), NEW b \in 0..(PrimeNumber - 1)
  PROVE  LegacyAdd(LimbsOf(a, HalfBase, 8), LimbsOf(b, HalfBase, 8))
           = LimbsOf((a + b) % PrimeNumber, HalfBase, 8)
<1> DEFINE x == LimbsOf(a, HalfBase, 8)
           y == LimbsOf(b, HalfBase, 8)
<1>1. LimbMap(x, HalfBase, 8) /\ LimbMap(y, HalfBase, 8) /\ Of8(x) = a /\ Of8(y) = b
  BY LegacyOperandIs
<1> HIDE DEF x, y
<1>2. LegacyAdd(x, y) = LimbsOf((Of8(x) + Of8(y)) % PrimeNumber, HalfBase, 8)
  BY <1>1, LegacyAddIs
<1> QED
  BY <1>1, <1>2 DEF x, y

\* What is added for a subtraction.
LEMMA LegacyNegateIs ==
  ASSUME NEW b \in 0..(PrimeNumber - 1)
  PROVE  LET n == LegacyNegate(LimbsOf(b, HalfBase, 8))
         IN  LimbMap(n, HalfBase, 8) /\ (Of8(n) = PrimeNumber - b \/ (b = 0 /\ Of8(n) = 0))
<1> DEFINE y == LimbsOf(b, HalfBase, 8)
           n == LegacyNegate(y)
           r == LegacySubtractRaw(LegacyPrime, y)
           P == PrimeNumber
<1>1. LimbMap(y, HalfBase, 8) /\ Of8(y) = b /\ b \in Nat /\ P \in Nat /\ b <= P
  BY LegacyOperandIs, PrimeIs
<1>2. n = IF y = Zeroes(8) THEN y ELSE r
  BY DEF LegacyNegate
<1> HIDE DEF y
<1>3. CASE y = Zeroes(8)
  <2>1. \A i \in 1..8 : y[i] = 0
    BY <1>3 DEF Zeroes
  <2>2. HalfBase \in Nat \ {0} /\ 8 \in 0..18
    BY Sizes
  <2>3. Value(y, HalfBase, 8) = 0
    BY ONLY <2>1, <2>2, NothingIs
  <2>4. b = 0 /\ n = y
    BY <1>1, <1>2, <1>3, <2>3 DEF Of8
  <2> QED
    BY <1>1, <2>4 DEF y
<1>4. CASE y # Zeroes(8)
  <2>1. LimbMap(LegacyPrime, HalfBase, 8) /\ Of8(LegacyPrime) = P
    BY LegacyPrimeIs
  <2>2. LimbMap(r, HalfBase, 8) /\ Of8(r) = P - b
    BY <1>1, <2>1, LegacySubtractRawIs
  <2>3. n = r
    BY <1>2, <1>4
  <2> QED
    BY <2>2, <2>3 DEF y
<1> QED
  BY <1>3, <1>4

\* cuda_secp's field_subtract, which adds the negated element: the difference modulo the prime.
THEOREM LegacySubtractIsDifference ==
  ASSUME NEW a \in 0..(PrimeNumber - 1), NEW b \in 0..(PrimeNumber - 1)
  PROVE  LegacySubtract(LimbsOf(a, HalfBase, 8), LimbsOf(b, HalfBase, 8))
           = LimbsOf((a - b) % PrimeNumber, HalfBase, 8)
<1> DEFINE x == LimbsOf(a, HalfBase, 8)
           y == LimbsOf(b, HalfBase, 8)
           n == LegacyNegate(y)
           v == Of8(n)
           P == PrimeNumber
<1>1. LimbMap(x, HalfBase, 8) /\ Of8(x) = a
  BY LegacyOperandIs
<1>2. LimbMap(n, HalfBase, 8) /\ (v = P - b \/ (b = 0 /\ v = 0))
  BY LegacyNegateIs
<1>3. LegacySubtract(x, y) = LegacyAdd(x, n)
  BY DEF LegacySubtract
<1>4. P \in Nat \ {0} /\ a \in 0..(P - 1) /\ b \in 0..(P - 1)
  BY PrimeIs
<1> HIDE DEF x, y, n
<1>5. LegacyAdd(x, n) = LimbsOf((a + v) % P, HalfBase, 8)
  BY <1>1, <1>2, LegacyAddIs
<1> HIDE DEF v, P
<1>6. (a - b) % P = IF b <= a THEN a - b ELSE (a - b) + P
  BY ONLY <1>4, DifferenceIs
<1> DEFINE t == a + v
<1>7. CASE b <= a
  <2> DEFINE d == a - b
  <2>1. d \in 0..(P - 1) /\ (t = 0 * P + d \/ t = 1 * P + d) /\ t \in Nat /\ 0 \in Nat /\ 1 \in Nat
    BY <1>2, <1>4, <1>7
  <2> HIDE DEF d, t
  <2>2. t % P = d
    <3>1. CASE t = 0 * P + d
      BY ONLY <1>4, <2>1, <3>1, DivUnique
    <3>2. CASE t = 1 * P + d
      BY ONLY <1>4, <2>1, <3>2, DivUnique
    <3> QED
      BY <2>1, <3>1, <3>2
  <2> QED
    BY <1>3, <1>5, <1>6, <1>7, <2>2 DEF t, d, x, y, P
<1>8. CASE ~(b <= a)
  <2> DEFINE d == (a - b) + P
  <2>1. d \in 0..(P - 1) /\ t = 0 * P + d /\ t \in Nat /\ 0 \in Nat
    BY <1>2, <1>4, <1>8
  <2> HIDE DEF d, t
  <2>2. t % P = d
    BY ONLY <1>4, <2>1, DivUnique
  <2> QED
    BY <1>3, <1>5, <1>6, <1>8, <2>2 DEF t, d, x, y, P
<1> QED
  BY <1>7, <1>8

\* cuda_secp's field_multiply: the eight limbs of the product modulo the prime.
THEOREM LegacyMultiplyIsProduct ==
  ASSUME NEW a \in 0..(PrimeNumber - 1), NEW b \in 0..(PrimeNumber - 1)
  PROVE  LegacyMultiply(LimbsOf(a, HalfBase, 8), LimbsOf(b, HalfBase, 8))
           = LimbsOf((a * b) % PrimeNumber, HalfBase, 8)
<1> DEFINE h == HalfBase
           x == LimbsOf(a, HalfBase, 8)
           y == LimbsOf(b, HalfBase, 8)
           p == LegacyProduct(x, y)
           w == [i \in 1..18 |-> IF i <= 16 THEN p[i] ELSE 0]
<1>1. /\ LimbMap(x, HalfBase, 8) /\ Of8(x) = a /\ LimbMap(y, HalfBase, 8) /\ Of8(y) = b
      /\ a \in Nat /\ b \in Nat /\ a < Above /\ b < Above
  BY LegacyOperandIs
<1>2. h \in Nat \ {0} /\ 16 \in 0..18 /\ 18 \in 0..18 /\ 16 \in 0..16 /\ h - 1 <= Most /\ Most \in Nat
  BY Sizes, MostIs
<1> HIDE DEF x, y
<1>3. LimbMap(p, HalfBase, 16) /\ Value(p, HalfBase, 16) = a * b
  <2>1. Limbs(x, HalfBase, 8) /\ Limbs(y, HalfBase, 8)
    BY <1>1, Of8Is
  <2>2. LimbMap(LegacyProduct(x, y), HalfBase, 16)
        /\ Value(LegacyProduct(x, y), HalfBase, 16) = Value(x, HalfBase, 8) * Value(y, HalfBase, 8)
    BY ONLY <2>1, LegacyProductIs
  <2> QED
    BY <1>1, <2>2 DEF Of8
<1>4. LegacyMultiply(x, y) = ReduceAccumulator(w)
  BY DEF LegacyMultiply
<1> HIDE DEF p
<1>5. AreDigits(p, 16) /\ \A i \in 1..16 : p[i] \in 0..(HalfBase - 1)
  BY ONLY <1>2, <1>3, LimbMapIs DEF h
<1>6. \A i \in 1..18 : /\ i <= 16 => w[i] = p[i]
                       /\ i > 16 => w[i] = 0
  OBVIOUS
<1>7. Accumulates(w)
  <2>1. ASSUME NEW i \in 1..18 PROVE w[i] \in 0..Most
    <3>1. CASE i <= 16
      <4>1. w[i] = p[i] /\ i \in 1..16
        BY <3>1
      <4> HIDE DEF w
      <4> QED
        BY <1>2, <1>5, <4>1
    <3>2. CASE i > 16
      BY <1>2, <1>6, <3>2
    <3> QED
      BY <3>1, <3>2
  <2> QED
    BY <2>1 DEF Accumulates
<1> HIDE DEF w
<1>8. Sum18(w) = a * b
  <2>1. AreDigits(w, 18) /\ \A i \in 1..18 : i > 16 => w[i] = 0
    BY <1>6, <1>7, AccumulatesIs
  <2> HIDE DEF h
  <2>2. Value(w, h, 18) = Value(w, h, 16)
    BY ONLY <1>2, <2>1, StopsBelow
  <2>3. \A i \in 1..16 : w[i] = p[i]
    <3>1. \A i \in 1..16 : i \in 1..18 /\ i <= 16
      OBVIOUS
    <3> QED
      BY <1>6, <3>1
  <2>4. \A i \in 0..16 : Value(w, h, i) = Value(p, h, i)
    BY <1>2, <1>5, <2>3, SameValue
  <2> QED
    BY <1>2, <1>3, <2>2, <2>4 DEF Sum18, h
<1>9. a * b < Above * Above
  <2> DEFINE N == Above
  <2>1. N \in Nat \ {0} /\ a \in Nat /\ b \in Nat /\ a < N /\ b < N
    BY <1>1, PrimeIs
  <2> HIDE DEF N
  <2>2. a * b <= N * b /\ b * N <= (N - 1) * N /\ N * b = b * N /\ (N - 1) * N = N * N - N
    BY <2>1, TimesMonotone
  <2> DEFINE ab == a * b
             nb == N * b
             bn == b * N
             nn == N * N
             mm == (N - 1) * N
  <2>3. ab <= nb /\ bn <= mm /\ nb = bn /\ mm = nn - N /\ ab \in Int /\ nb \in Int /\ nn \in Int
    BY <2>1, <2>2
  <2> HIDE DEF ab, nb, bn, nn, mm
  <2>4. ab < nn
    BY <2>1, <2>3
  <2> QED
    BY <2>4 DEF ab, nn, N
<1>10. ReduceAccumulator(w) = LimbsOf(Sum18(w) % PrimeNumber, HalfBase, 8)
  BY <1>7, <1>8, <1>9, ReduceAccumulatorIsRemainder
<1> QED
  BY <1>4, <1>8, <1>10 DEF x, y

--------------------------------------------------------------------------------
(* From one representation to the other.                                        *)

\* from_legacy_field: eight limbs and the four that are made of them are the same number.
THEOREM FromLegacyIsSame ==
  ASSUME NEW v \in Nat, v < Above
  PROVE  FromLegacy(LimbsOf(v, HalfBase, 8)) = LimbsOf(v, Base, 4)
<1> DEFINE h == HalfBase
           b == Base
           l == LimbsOf(v, HalfBase, 8)
           f == FromLegacy(l)
           good == {j \in 0..4 : Value(f, b, j) = Value(l, h, 2 * j)}
<1>1. h \in Nat \ {0} /\ b \in Nat \ {0} /\ b = h * h /\ 4 \in 0..18 /\ 4 \in Nat
  BY Sizes
<1>2. LimbMap(l, HalfBase, 8) /\ Of8(l) = v
  BY LegacyNumber
<1>3. AreDigits(l, 8) /\ \A i \in 1..8 : l[i] \in 0..(HalfBase - 1)
  BY <1>2, Of8Is
<1>4. f = [i \in 1..4 |-> l[2 * i - 1] + HalfBase * l[2 * i]]
  BY DEF FromLegacy
<1> HIDE DEF l, f
<1>5. ASSUME NEW i \in 1..4
      PROVE  /\ 2 * i - 1 \in 1..8 /\ 2 * i \in 1..8
             /\ f[i] = l[2 * i - 1] + h * l[2 * i] /\ f[i] \in 0..(b - 1)
  <2> DEFINE x == l[2 * i - 1]
             y == l[2 * i]
  <2>1. 2 * i - 1 \in 1..8 /\ 2 * i \in 1..8
    OBVIOUS
  <2>2. x \in 0..(h - 1) /\ y \in 0..(h - 1) /\ f[i] = x + h * y
    BY <1>3, <1>4, <2>1
  <2> HIDE DEF x, y, h
  <2>3. y * h <= (h - 1) * h /\ y * h = h * y /\ (h - 1) * h = h * h - h
    BY <1>1, <2>2, TimesMonotone
  <2> DEFINE hy == h * y
             hh == h * h
             yh == y * h
             gh == (h - 1) * h
  <2>4. yh <= gh /\ yh = hy /\ gh = hh - h /\ hy \in Nat /\ hh \in Nat /\ f[i] = x + hy /\ b = hh
    BY <1>1, <2>2, <2>3
  <2> HIDE DEF hy, hh, yh, gh, b
  <2>5. f[i] \in 0..(b - 1)
    BY <1>1, <2>2, <2>4
  <2> QED
    BY <2>1, <2>2, <2>5 DEF x, y, h
<1>6. LimbMap(f, b, 4)
  BY <1>4, <1>5 DEF LimbMap
<1>7. AreDigits(f, 4)
  <2> HIDE DEF b
  <2> QED
    BY ONLY <1>1, <1>6, LimbMapIs
<1> HIDE DEF b, h
<1>8. 0 \in good
  <2>1. 2 * 0 = 0 /\ Value(f, b, 0) = 0 /\ Value(l, h, 0) = 0
    BY <1>1, <1>3, <1>7, ValueIs
  <2> QED
    BY <2>1
<1>9. ASSUME NEW j \in 1..4, j - 1 \in good PROVE j \in good
  <2> DEFINE i == 2 * j
             w == Weight(h)[2 * (j - 1)]
             x == l[2 * j - 1]
             y == l[2 * j]
             u == Value(l, h, 2 * (j - 1))
  <2>1. /\ i \in 1..8 /\ i - 1 \in 1..8 /\ (i - 1) - 1 = 2 * (j - 1) /\ 2 * (j - 1) \in 0..8
        /\ 2 * (j - 1) \in 0..18 /\ i - 1 \in 1..18 /\ j - 1 \in 0..4 /\ j \in 0..4 /\ i - 1 = 2 * j - 1
    OBVIOUS
  <2>2. Value(l, h, i) = Value(l, h, i - 1) + l[i] * Weight(h)[i - 1]
    BY <1>1, <1>3, <2>1, ValueIs
  <2>3. Value(l, h, i - 1) = u + x * w
    <3>1. Value(l, h, i - 1) = Value(l, h, (i - 1) - 1) + l[i - 1] * Weight(h)[(i - 1) - 1]
      BY <1>1, <1>3, <2>1, ValueIs
    <3> QED
      BY <2>1, <3>1
  <2>4. Weight(h)[i - 1] = w * h
    <3>1. Weight(h)[i - 1] = Weight(h)[(i - 1) - 1] * h
      BY <1>1, <2>1, Weights
    <3> QED
      BY <2>1, <3>1
  <2>5. Weight(b)[j - 1] = w
    BY <2>1, WeightsOfPairs DEF b, h
  <2>6. Value(f, b, j) = Value(f, b, j - 1) + f[j] * Weight(b)[j - 1]
    BY <1>1, <1>7, ValueIs
  <2>7. Value(f, b, j - 1) = u
    BY <1>9
  <2>8. f[j] = x + h * y /\ x \in Nat /\ y \in Nat
    BY <1>1, <1>3, <1>5, <2>1 DEF h
  <2>9. w \in Nat /\ u \in Int
    BY <1>1, <1>3, <2>1, Weights, ValueIs
  <2>10. Value(l, h, i) = (u + x * w) + y * (w * h)
    BY <2>2, <2>3, <2>4
  <2>11. Value(f, b, j) = u + (x + h * y) * w
    BY <2>5, <2>6, <2>7, <2>8
  <2> HIDE DEF w, x, y, u
  <2>12. (u + x * w) + y * (w * h) = u + (x + h * y) * w
    <3>1. (x + h * y) * w = x * w + (h * y) * w /\ (h * y) * w = y * (w * h)
      BY <1>1, <2>8, <2>9
    <3> DEFINE xw == x * w
               t == (h * y) * w
               s == (x + h * y) * w
               r == y * (w * h)
    <3>2. s = xw + t /\ t = r /\ xw \in Int /\ t \in Int
      BY <1>1, <2>8, <2>9, <3>1
    <3> HIDE DEF xw, t, s, r
    <3>3. (u + xw) + r = u + s
      BY <2>9, <3>2
    <3> QED
      BY <3>3 DEF xw, r, s
  <2> QED
    BY <2>1, <2>10, <2>11, <2>12
<1>10. Value(f, b, 4) = v
  <2>1. \A j \in 0..4 : j \in good
    <3> HIDE DEF good
    <3> QED
      BY ONLY <1>1, <1>8, <1>9, UpTo
  <2>2. 4 \in good /\ 2 * 4 = 8
    BY <2>1
  <2> QED
    BY <1>2, <2>2 DEF Of8, h
<1>11. f = LimbsOf(v, b, 4)
  BY ONLY <1>1, <1>6, <1>10, v \in Nat, AreLimbsOf
<1> QED
  BY <1>11 DEF f, l, b
================================================================================
