------------------------- MODULE NativeArithmeticProofs -------------------------
(* Theorems about the native search's calculations for any prime, group,        *)
(* alphabet and operands: both representations of a field element calculate     *)
(* modulo the prime; the inversion of a batch inverts each value, so that       *)
(* the shortcuts of the kernels are additions of points and stay in the group   *)
(* of the generator's multiples, as a search session requires; and the          *)
(* prefilter and the three matchers accept the same addresses.                  *)
EXTENDS NativeArithmetic, FieldLimbProofs

--------------------------------------------------------------------------------
(* The field, and the inverses of a batch.                                      *)

Element == 0..(FieldPrime - 1)
Points == [x : Element, y : Element, infinity : BOOLEAN]

\* Multiplication commutes and associates, and has a one.
LEMMA Multiplication ==
  /\ \A a, b \in Element : FieldMultiply(a, b) \in Element /\ FieldMultiply(a, b) = FieldMultiply(b, a)
  /\ \A a, b, c \in Element :
       FieldMultiply(FieldMultiply(a, b), c) = FieldMultiply(a, FieldMultiply(b, c))
  /\ \A a \in Element : FieldMultiply(a, 1) = a /\ FieldMultiply(a, 0) = 0
<1> FieldPrime \in Nat \ {0, 1} /\ Element \subseteq Nat
  BY Field DEF FieldAssumption, Element
<1>1. ASSUME NEW a \in Element, NEW b \in Element
      PROVE  FieldMultiply(a, b) \in Element /\ FieldMultiply(a, b) = FieldMultiply(b, a)
  <2> DEFINE d == a * b
  <2>1. d \in Nat /\ a * b = b * a
    OBVIOUS
  <2>2. d % FieldPrime \in 0..(FieldPrime - 1)
    <3> HIDE DEF d
    <3> QED
      BY <2>1, DivMod
  <2> QED
    BY <2>1, <2>2 DEF FieldMultiply, Element
<1>2. ASSUME NEW a \in Element, NEW b \in Element, NEW c \in Element
      PROVE  FieldMultiply(FieldMultiply(a, b), c) = FieldMultiply(a, FieldMultiply(b, c))
  <2> DEFINE d == a * b
             e == b * c
             f == e % FieldPrime
  <2>1. a \in Nat /\ c \in Nat /\ d \in Nat /\ e \in Nat /\ d * c = e * a
    OBVIOUS
  <2>2. /\ ((d % FieldPrime) * c) % FieldPrime = (d * c) % FieldPrime
        /\ (f * a) % FieldPrime = (e * a) % FieldPrime
        /\ f \in Nat
    <3> HIDE DEF d, e
    <3>1. f \in 0..(FieldPrime - 1)
      BY <2>1, DivMod
    <3>2. FieldPrime \in Nat \ {0}
      OBVIOUS
    <3>3. ((d % FieldPrime) * c) % FieldPrime = (d * c) % FieldPrime
      BY ONLY <2>1, <3>2, ModTimes
    <3>4. ((e % FieldPrime) * a) % FieldPrime = (e * a) % FieldPrime
      BY ONLY <2>1, <3>2, ModTimes
    <3> QED
      BY <3>1, <3>3, <3>4
  <2>3. f * a = a * f
    <3> HIDE DEF f
    <3> QED
      BY <2>1, <2>2
  <2> QED
    BY <2>1, <2>2, <2>3 DEF FieldMultiply
<1>3. ASSUME NEW a \in Element
      PROVE  FieldMultiply(a, 1) = a /\ FieldMultiply(a, 0) = 0
  <2>1. a * 1 = a /\ a * 0 = 0 /\ a \in 0..(FieldPrime - 1) /\ a = 0 * FieldPrime + a
    BY DEF Element
  <2>2. a % FieldPrime = a
    BY <2>1, DivUnique
  <2>3. 0 \in 0..(FieldPrime - 1) /\ 0 = 0 * FieldPrime + 0
    OBVIOUS
  <2>4. 0 % FieldPrime = 0
    BY <2>3, DivUnique
  <2> QED
    BY <2>1, <2>2, <2>4 DEF FieldMultiply
<1> QED
  BY <1>1, <1>2, <1>3

\* What is not zero has one inverse, and a product of two such is not zero.
LEMMA Inversion ==
  /\ 0 \in Element /\ 1 \in Element /\ 0 # 1
  /\ \A a \in Element \ {0} : FieldInverse(a) \in Element \ {0} /\ FieldMultiply(a, FieldInverse(a)) = 1
  /\ \A a \in Element \ {0}, b \in Element : FieldMultiply(a, b) = 1 => b = FieldInverse(a)
  /\ \A a, b \in Element \ {0} : FieldMultiply(a, b) \in Element \ {0}
<1>1. /\ 0 \in Element /\ 1 \in Element
      /\ \A a \in Element \ {0} :
           FieldInverse(a) \in Element \ {0} /\ FieldMultiply(a, FieldInverse(a)) = 1
  BY Field DEF FieldAssumption, Element
<1>2. ASSUME NEW a \in Element \ {0}, NEW b \in Element, FieldMultiply(a, b) = 1
      PROVE  b = FieldInverse(a)
  <2> DEFINE i == FieldInverse(a)
  <2>1. i \in Element /\ FieldMultiply(a, i) = 1 /\ FieldMultiply(i, a) = 1
    BY <1>1, Multiplication
  <2>2. FieldMultiply(FieldMultiply(i, a), b) = FieldMultiply(i, FieldMultiply(a, b))
    BY <2>1, Multiplication
  <2>3. FieldMultiply(1, b) = b /\ FieldMultiply(i, 1) = i
    BY <1>1, <2>1, Multiplication
  <2> QED
    BY <1>2, <2>1, <2>2, <2>3
<1>3. ASSUME NEW a \in Element \ {0}, NEW b \in Element \ {0}, FieldMultiply(a, b) = 0
      PROVE  FALSE
  <2> DEFINE i == FieldInverse(a)
  <2>1. i \in Element /\ FieldMultiply(a, i) = 1 /\ FieldMultiply(i, a) = 1
    BY <1>1, Multiplication
  <2>2. FieldMultiply(FieldMultiply(i, a), b) = FieldMultiply(i, FieldMultiply(a, b))
    BY <2>1, Multiplication
  <2>3. FieldMultiply(1, b) = b /\ FieldMultiply(i, 0) = 0
    BY <1>1, <2>1, Multiplication
  <2> QED
    BY <1>3, <2>1, <2>2, <2>3
<1> QED
  BY <1>1, <1>2, <1>3, Multiplication

\* A factor of the batch is the value unless that is zero, and never zero.
LEMMA Factors ==
  \A v \in Element : Nonzero(v) \in Element \ {0} /\ (v # 0 => Nonzero(v) = v)
BY Inversion DEF Nonzero

\* The products of the first values.
LEMMA PrefixIs ==
  ASSUME NEW values \in Seq(Element)
  PROVE  LET products == PrefixProducts(values)
         IN  /\ products \in [0..Len(values) -> Element]
             /\ products[0] = 1
             /\ \A i \in 1..Len(values) :
                  products[i] = FieldMultiply(products[i - 1], Nonzero(values[i]))
<1> DEFINE n == Len(values)
           Loop(f) == [i \in 0..n |->
                        IF i = 0 THEN 1 ELSE FieldMultiply(f[i - 1], Nonzero(values[i]))]
           step == [e \in (1..n) \X Element |-> FieldMultiply(e[2], Nonzero(values[e[1]]))]
           products == PrefixProducts(values)
<1>1. products = CHOOSE f : f = Loop(f)
  BY DEF PrefixProducts
<1>2. n \in Nat /\ \A i \in 1..n : values[i] \in Element
  OBVIOUS
<1>3. step \in [(1..n) \X Element -> Element]
  <2>1. ASSUME NEW e \in (1..n) \X Element
        PROVE  FieldMultiply(e[2], Nonzero(values[e[1]])) \in Element
    <3>1. e[1] \in 1..n /\ e[2] \in Element
      OBVIOUS
    <3> QED
      BY <1>2, <3>1, Factors, Multiplication
  <2> QED
    BY <2>1
<1>4. PICK g \in [0..n -> Element] : Recursive(g, n, 1, step)
  <2> HIDE DEF step, n
  <2> QED
    BY <1>2, <1>3, Inversion, RecursionExists
<1>5. \A i \in 1..n : i - 1 \in 0..n /\ i \in 0..n /\ i # 0
  BY <1>2
<1>6. \A i \in 1..n : g[i] = FieldMultiply(g[i - 1], Nonzero(values[i]))
  <2> SUFFICES ASSUME NEW i \in 1..n PROVE g[i] = FieldMultiply(g[i - 1], Nonzero(values[i]))
    OBVIOUS
  <2>1. g[i] = step[<<i, g[i - 1]>>] /\ g[i - 1] \in Element
    BY <1>4, <1>5 DEF Recursive
  <2> QED
    BY <2>1
<1>7. g[0] = 1
  BY <1>4 DEF Recursive
<1>8. g = Loop(g)
  <2>1. \A i \in 0..n : i # 0 => i \in 1..n
    BY <1>2
  <2>2. \A i \in 0..n : g[i] = Loop(g)[i]
    BY <1>6, <1>7, <2>1
  <2> QED
    BY <1>4, <2>2
<1>9. products = Loop(products)
  <2> HIDE DEF Loop, products
  <2> QED
    BY <1>1, <1>8
<1> HIDE DEF products, step
<1>10. products[0] = 1 /\ \A i \in 1..n : products[i] = FieldMultiply(products[i - 1], Nonzero(values[i]))
  <2>1. \A i \in 0..n : products[i] = Loop(products)[i]
    BY <1>9
  <2>2. 0 \in 0..n
    BY <1>2
  <2> QED
    BY <1>5, <2>1, <2>2
<1>11. \A i \in 0..n : products[i] = g[i]
  <2> DEFINE same == {i \in 0..n : products[i] = g[i]}
  <2>1. 0 \in same
    BY <1>2, <1>7, <1>10
  <2>2. \A i \in 1..n : i - 1 \in same => i \in same
    BY <1>5, <1>6, <1>10
  <2>3. \A i \in 0..n : i \in same
    <3> HIDE DEF same
    <3> QED
      BY <1>2, <2>1, <2>2, UpTo
  <2> QED
    BY <2>3
<1>12. products \in [0..n -> Element]
  <2>1. products = [i \in 0..n |-> products[i]]
    BY <1>9
  <2> QED
    BY <1>4, <1>11, <2>1
<1> QED
  BY <1>10, <1>12 DEF products

\* The inverses of the products, from the last to the first.
Running(values, f) ==
  LET n == Len(values)
      products == PrefixProducts(values)
  IN  [i \in 1..n |-> IF i = n THEN FieldInverse(products[n])
                      ELSE FieldMultiply(f[i + 1], Nonzero(values[i + 1]))]

LEMMA RunningExists ==
  ASSUME NEW values \in Seq(Element), Len(values) # 0
  PROVE  \E f \in [1..Len(values) -> Element] : f = Running(values, f)
<1> DEFINE n == Len(values)
           products == PrefixProducts(values)
           step == [e \in (1..(n - 1)) \X Element |->
                      FieldMultiply(e[2], Nonzero(values[n - e[1] + 1]))]
<1>1. n \in Nat \ {0} /\ \A i \in 1..n : values[i] \in Element
  OBVIOUS
<1>2. step \in [(1..(n - 1)) \X Element -> Element]
  <2>1. ASSUME NEW e \in (1..(n - 1)) \X Element
        PROVE  FieldMultiply(e[2], Nonzero(values[n - e[1] + 1])) \in Element
    <3> DEFINE j == n - e[1] + 1
    <3>1. j \in 1..n /\ e[2] \in Element
      BY <1>1
    <3>2. values[j] \in Element
      <4> HIDE DEF j, n
      <4> QED
        BY <1>1, <3>1
    <3>3. FieldMultiply(e[2], Nonzero(values[j])) \in Element
      <4> HIDE DEF j
      <4> QED
        BY <3>1, <3>2, Factors, Multiplication
    <3> QED
      BY <3>3
  <2> QED
    BY <2>1
<1>3. products \in [0..n -> Element] /\ products[n] # 0
  <2>1. /\ products \in [0..n -> Element] /\ products[0] = 1
        /\ \A i \in 1..n : products[i] = FieldMultiply(products[i - 1], Nonzero(values[i]))
    BY PrefixIs
  <2> DEFINE good == {i \in 0..n : products[i] # 0}
  <2> HIDE DEF products, n
  <2>2. 0 \in good
    BY <1>1, <2>1
  <2>3. ASSUME NEW i \in 1..n, i - 1 \in good PROVE i \in good
    <3>1. i \in 0..n /\ products[i - 1] \in Element \ {0} /\ Nonzero(values[i]) \in Element \ {0}
      BY <1>1, <2>1, <2>3, Factors
    <3> QED
      BY <2>1, <3>1, Inversion
  <2>4. \A i \in 0..n : i \in good
    <3> HIDE DEF good
    <3> QED
      BY <1>1, <2>2, <2>3, UpTo
  <2> QED
    BY <1>1, <2>1, <2>4
<1>4. FieldInverse(products[n]) \in Element
  <2> HIDE DEF products, n
  <2> QED
    BY <1>1, <1>3, Inversion
<1>5. PICK g \in [0..(n - 1) -> Element] : Recursive(g, n - 1, FieldInverse(products[n]), step)
  <2>1. n - 1 \in Nat
    BY <1>1
  <2> HIDE DEF step, n, products
  <2> QED
    BY <1>2, <1>4, <2>1, RecursionExists
<1> DEFINE f == [i \in 1..n |-> g[n - i]]
<1>6. f \in [1..n -> Element]
  BY <1>1, <1>5
<1>7. ASSUME NEW i \in 1..n
      PROVE  f[i] = IF i = n THEN FieldInverse(products[n])
                    ELSE FieldMultiply(f[i + 1], Nonzero(values[i + 1]))
  <2>1. CASE i = n
    BY <1>1, <1>5, <2>1 DEF Recursive
  <2>2. CASE i # n
    <3> DEFINE k == n - i
    <3>1. k \in 1..(n - 1) /\ n - k + 1 = i + 1 /\ n - (i + 1) = k - 1 /\ i + 1 \in 1..n
          /\ k - 1 \in 0..(n - 1)
      BY <1>1, <2>2
    <3>2. g[k] = step[<<k, g[k - 1]>>] /\ g[k - 1] \in Element
      <4> HIDE DEF k, step
      <4> QED
        BY <1>5, <3>1 DEF Recursive
    <3>3. f[i] = g[k] /\ f[i + 1] = g[k - 1]
      BY <3>1
    <3>4. g[k] = FieldMultiply(g[k - 1], Nonzero(values[i + 1]))
      <4> HIDE DEF k
      <4> QED
        BY <3>1, <3>2
    <3> QED
      BY <2>2, <3>3, <3>4
  <2> QED
    BY <2>1, <2>2
<1>8. f = Running(values, f)
  <2>1. Running(values, f) = [i \in 1..n |-> Running(values, f)[i]]
    BY DEF Running
  <2>2. \A i \in 1..n : f[i] = Running(values, f)[i]
    <3> HIDE DEF f
    <3> QED
      BY <1>7 DEF Running
  <2>3. f = [i \in 1..n |-> f[i]]
    OBVIOUS
  <2> HIDE DEF f
  <2> QED
    BY <2>1, <2>2, <2>3
<1> QED
  BY <1>6, <1>8

\* The batch has the inverse of every value but 0, whatever zeroes are among them.
THEOREM BatchInverts ==
  ASSUME NEW values \in Seq(Element)
  PROVE  FieldInverseBatch(values)
           = [i \in 1..Len(values) |-> IF values[i] = 0 THEN 0 ELSE FieldInverse(values[i])]
<1> DEFINE n == Len(values)
           products == PrefixProducts(values)
           running == CHOOSE f : f = Running(values, f)
<1>1. n \in Nat /\ \A i \in 1..n : values[i] \in Element
  OBVIOUS
<1>2. FieldInverseBatch(values)
        = [i \in 1..n |-> IF values[i] = 0 THEN 0 ELSE FieldMultiply(running[i], products[i - 1])]
  BY DEF FieldInverseBatch, Running
<1>3. ASSUME NEW i \in 1..n, values[i] # 0
      PROVE  FieldMultiply(running[i], products[i - 1]) = FieldInverse(values[i])
  <2>1. running = Running(values, running)
    <3>1. n # 0
      BY <1>1
    <3> QED
      BY <3>1, RunningExists
  <2>2. /\ products \in [0..n -> Element] /\ products[0] = 1
        /\ \A j \in 1..n : products[j] = FieldMultiply(products[j - 1], Nonzero(values[j]))
    BY PrefixIs
  <2> HIDE DEF running
  <2>3. \A j \in 1..n : running[j] = IF j = n THEN FieldInverse(products[n])
                                     ELSE FieldMultiply(running[j + 1], Nonzero(values[j + 1]))
    <3> HIDE DEF products
    <3>1. \A j \in 1..n : running[j] = Running(values, running)[j]
      BY <2>1
    <3> QED
      BY <3>1 DEF Running, products
  <2> HIDE DEF products
  <2>4. \A j \in 0..n : products[j] # 0
    <3> DEFINE good == {j \in 0..n : products[j] # 0}
    <3>1. 0 \in good
      BY <1>1, <2>2, Inversion
    <3>2. ASSUME NEW j \in 1..n, j - 1 \in good PROVE j \in good
      <4>1. j \in 0..n /\ products[j - 1] \in Element \ {0} /\ Nonzero(values[j]) \in Element \ {0}
        BY <1>1, <2>2, <3>2, Factors
      <4> QED
        BY <2>2, <4>1, Inversion
    <3>3. \A j \in 0..n : j \in good
      <4> HIDE DEF good
      <4> QED
        BY <1>1, <3>1, <3>2, UpTo
    <3> QED
      BY <3>3
  <2> HIDE DEF n
  <2>5. \A j \in 1..n : running[j] \in Element /\ FieldMultiply(running[j], products[j]) = 1
    <3> DEFINE good == {k \in 0..(n - 1) : /\ running[n - k] \in Element
                                           /\ FieldMultiply(running[n - k], products[n - k]) = 1}
    <3>1. 0 \in good
      <4>1. n \in 1..n /\ n - 0 = n /\ 0 \in 0..(n - 1) /\ products[n] \in Element \ {0}
        BY <1>1, <2>2, <2>4
      <4>2. running[n] = FieldInverse(products[n])
        BY <2>3, <4>1
      <4>3. running[n] \in Element /\ FieldMultiply(products[n], running[n]) = 1
        BY <4>1, <4>2, Inversion
      <4>4. FieldMultiply(running[n], products[n]) = 1
        BY <4>1, <4>3, Multiplication
      <4> QED
        BY <4>1, <4>3, <4>4
    <3>2. ASSUME NEW k \in 1..(n - 1), k - 1 \in good PROVE k \in good
      <4> DEFINE j == n - k
      <4>1. j \in 1..n /\ j # n /\ j + 1 \in 1..n /\ n - (k - 1) = j + 1 /\ (j + 1) - 1 = j
            /\ j \in 0..n /\ j + 1 \in 0..n /\ k \in 0..(n - 1)
        BY <1>1
      <4>2. running[j + 1] \in Element /\ FieldMultiply(running[j + 1], products[j + 1]) = 1
        BY <3>2, <4>1
      <4>3. k \in good <=> running[j] \in Element /\ FieldMultiply(running[j], products[j]) = 1
        BY <4>1
      <4> HIDE DEF j, good
      <4> DEFINE v == Nonzero(values[j + 1])
                 r == running[j + 1]
                 q == products[j]
      <4>4. v \in Element /\ r \in Element /\ q \in Element
        BY <1>1, <2>2, <4>1, <4>2, Factors
      <4>5. running[j] = FieldMultiply(r, v) /\ products[j + 1] = FieldMultiply(q, v)
        BY <2>2, <2>3, <4>1
      <4> HIDE DEF v, r, q
      <4>6. /\ FieldMultiply(FieldMultiply(r, v), q) = FieldMultiply(r, FieldMultiply(v, q))
            /\ FieldMultiply(v, q) = FieldMultiply(q, v) /\ FieldMultiply(r, v) \in Element
        BY <4>4, Multiplication
      <4>7. FieldMultiply(r, FieldMultiply(q, v)) = 1
        BY <4>2, <4>5 DEF r
      <4> QED
        BY <4>3, <4>5, <4>6, <4>7 DEF q
    <3>3. \A k \in 0..(n - 1) : k \in good
      <4> HIDE DEF good
      <4>1. n - 1 \in Nat
        BY <1>1, <1>3
      <4> QED
        BY <3>1, <3>2, <4>1, UpTo
    <3>4. ASSUME NEW j \in 1..n
          PROVE  running[j] \in Element /\ FieldMultiply(running[j], products[j]) = 1
      <4>1. n - j \in 0..(n - 1) /\ n - (n - j) = j
        BY <1>1
      <4>2. n - j \in good
        <5> HIDE DEF good
        <5> QED
          BY <3>3, <4>1
      <4> QED
        BY <4>1, <4>2
    <3> QED
      BY <3>4
  <2> DEFINE v == values[i]
             r == running[i]
             q == products[i - 1]
  <2>6. v \in Element \ {0} /\ Nonzero(v) = v /\ r \in Element /\ q \in Element
    <3>1. i - 1 \in 0..n
      BY <1>1
    <3> QED
      BY <1>1, <1>3, <2>2, <2>5, <3>1, Factors
  <2>7. FieldMultiply(r, FieldMultiply(q, v)) = 1
    BY <2>2, <2>5, <2>6
  <2> HIDE DEF v, r, q
  <2>8. /\ FieldMultiply(FieldMultiply(r, q), v) = FieldMultiply(r, FieldMultiply(q, v))
        /\ FieldMultiply(r, q) \in Element
        /\ FieldMultiply(FieldMultiply(r, q), v) = FieldMultiply(v, FieldMultiply(r, q))
    BY <2>6, Multiplication
  <2>9. FieldMultiply(r, q) = FieldInverse(v)
    BY <2>6, <2>7, <2>8, Inversion
  <2> QED
    BY <2>9 DEF v, r, q
<1> HIDE DEF running, products
<1> QED
  BY <1>2, <1>3

--------------------------------------------------------------------------------
(* The multiples of the generator.                                              *)

\* at[n] is n times the generator, in a group that its multiples form.
InGroup(at) ==
  /\ at \in [Int -> Points] /\ at[0] = AtInfinity /\ at[1] = Generator
  /\ \A m, n \in Int : PointAdd(at[m], at[n]) = at[m + n]
  /\ \A n \in Int : IF at[n].infinity THEN at[n] = AtInfinity ELSE Negative(at[n]) = at[-n]

\* One round of scalar_multiply_u64, and what it holds after each.
RoundAfter(last) ==
  LET left == last.left \div 2
  IN  IF last.left = 0 THEN last
      ELSE [left |-> left,
            result |-> IF last.left % 2 = 1 THEN PointAdd(last.result, last.addend)
                       ELSE last.result,
            addend |-> IF left # 0 THEN PointDouble(last.addend) ELSE last.addend]
Rounds(scalar, f) ==
  [i \in 0..scalar |->
    IF i = 0 THEN [left |-> scalar, result |-> AtInfinity, addend |-> Generator]
    ELSE RoundAfter(f[i - 1])]

\* What is left to add is the rest of the scalar.
Held(at, scalar) ==
  {r \in [left : Nat, result : Points, addend : Points] :
     \E a, m \in Int : r.result = at[a] /\ r.addend = at[m] /\ a + m * r.left = scalar}

\* A round halves what is left and keeps the multiple that the result will be.
LEMMA RoundHolds ==
  ASSUME NEW at, InGroup(at), NEW scalar \in Nat, NEW last \in Held(at, scalar)
  PROVE  RoundAfter(last) \in Held(at, scalar) /\ RoundAfter(last).left = last.left \div 2
<1>1. PICK a \in Int, m \in Int :
        last.result = at[a] /\ last.addend = at[m] /\ a + m * last.left = scalar
  BY DEF Held
<1>2. last \in [left : Nat, result : Points, addend : Points]
  BY DEF Held
<1> DEFINE l == last.left
           h == l \div 2
           b == l % 2
<1>3. l \in Nat /\ h \in Nat /\ b \in 0..1 /\ l = 2 * h + b
  <2>1. l \in Nat /\ 2 \in Nat \ {0}
    BY <1>2
  <2> HIDE DEF l
  <2> QED
    BY <2>1, DivMod
<1>4. CASE l = 0
  <2>1. h = 0
    BY <1>4
  <2> QED
    BY <1>4, <2>1 DEF RoundAfter
<1>5. CASE l # 0
  <2> DEFINE sum == IF b = 1 THEN a + m ELSE a
             next == IF h # 0 THEN m + m ELSE m
             r == RoundAfter(last)
  <2>1. PointAdd(at[a], at[m]) = at[a + m] /\ at[a] \in Points /\ at[m] \in Points
        /\ at[a + m] \in Points /\ at[m + m] \in Points
    <3>1. a + m \in Int /\ m + m \in Int
      OBVIOUS
    <3>2. \A n \in Int : at[n] \in Points
      BY DEF InGroup
    <3> QED
      BY <3>1, <3>2 DEF InGroup
  <2>2. PointDouble(at[m]) = at[m + m]
    <3>1. PointAdd(at[m], at[m]) = at[m + m] /\ (at[m].infinity => at[m] = AtInfinity)
      BY DEF InGroup
    <3>2. CASE at[m].infinity
      BY <3>1, <3>2 DEF PointAdd, PointDouble
    <3>3. CASE ~at[m].infinity
      BY <3>1, <3>3 DEF PointAdd
    <3> QED
      BY <3>2, <3>3
  <2>3. r = [left |-> h, result |-> at[sum], addend |-> at[next]]
    <3>1. r = [left |-> h,
               result |-> IF b = 1 THEN PointAdd(last.result, last.addend) ELSE last.result,
               addend |-> IF h # 0 THEN PointDouble(last.addend) ELSE last.addend]
      BY <1>5 DEF RoundAfter
    <3>2. (IF b = 1 THEN PointAdd(last.result, last.addend) ELSE last.result) = at[sum]
      BY <1>1, <2>1
    <3>3. (IF h # 0 THEN PointDouble(last.addend) ELSE last.addend) = at[next]
      BY <1>1, <2>2
    <3> HIDE DEF r, h, b, sum, next
    <3> QED
      BY <3>1, <3>2, <3>3
  <2>4. sum \in Int /\ next \in Int /\ at[sum] \in Points /\ at[next] \in Points
    BY <2>1
  <2>5. sum + next * h = scalar
    <3>0. a + m * l = scalar
      BY <1>1
    <3>1. m * l = (m + m) * h + m * b
      <4> HIDE DEF l, h, b
      <4> QED
        BY <1>3
    <3>2. m * b = IF b = 1 THEN m ELSE 0
      <4> HIDE DEF l, h, b
      <4>1. b = 0 \/ b = 1
        BY <1>3
      <4> QED
        BY <4>1
    <3>3. (m + m) * h \in Int /\ (h = 0 => (m + m) * h = 0 /\ m * h = 0)
      <4> HIDE DEF h
      <4> QED
        BY <1>3
    <3> HIDE DEF l, h, b
    <3> QED
      BY <1>3, <3>0, <3>1, <3>2, <3>3
  <2> HIDE DEF sum, next, r, h
  <2>6. r \in [left : Nat, result : Points, addend : Points]
    BY <1>3, <2>3, <2>4
  <2>7. r.left = h /\ r.result = at[sum] /\ r.addend = at[next]
    BY <2>3
  <2>8. r \in Held(at, scalar)
    BY <2>4, <2>5, <2>6, <2>7 DEF Held
  <2> QED
    BY <2>7, <2>8 DEF r, h
<1> QED
  BY <1>4, <1>5

\* scalar_multiply_u64 is the multiple it is for: as many additions of the generator.
THEOREM ScalarIsMultiple ==
  ASSUME NEW at, InGroup(at), NEW scalar \in Nat
  PROVE  ScalarMultiply(scalar) = at[scalar]
<1> DEFINE D == Held(at, scalar)
           base == [left |-> scalar, result |-> AtInfinity, addend |-> Generator]
           step == [e \in (1..scalar) \X D |-> RoundAfter(e[2])]
           round == CHOOSE f : f = Rounds(scalar, f)
<1>1. ScalarMultiply(scalar) = round[scalar].result
  BY DEF ScalarMultiply, Rounds, RoundAfter
<1>2. base \in D
  <2>1. at[0] = AtInfinity /\ at[1] = Generator /\ at[0] \in Points /\ at[1] \in Points
    BY DEF InGroup
  <2>2. base \in [left : Nat, result : Points, addend : Points]
    BY <2>1
  <2>3. base.result = at[0] /\ base.addend = at[1] /\ 0 + 1 * base.left = scalar
    BY <2>1
  <2> HIDE DEF base
  <2> QED
    BY <2>2, <2>3 DEF Held
<1>3. step \in [(1..scalar) \X D -> D]
  <2>1. ASSUME NEW e \in (1..scalar) \X D PROVE RoundAfter(e[2]) \in D
    BY RoundHolds
  <2> QED
    BY <2>1
<1>4. PICK g \in [0..scalar -> D] : Recursive(g, scalar, base, step)
  <2> HIDE DEF step, D, base
  <2> QED
    BY <1>2, <1>3, RecursionExists
<1>5. \A i \in 1..scalar : i - 1 \in 0..scalar /\ i \in 0..scalar /\ i # 0
  OBVIOUS
<1>6. ASSUME NEW i \in 1..scalar PROVE g[i] = RoundAfter(g[i - 1])
  <2>1. g[i] = step[<<i, g[i - 1]>>] /\ g[i - 1] \in D
    BY <1>4, <1>5 DEF Recursive
  <2> HIDE DEF D
  <2> QED
    BY <2>1
<1>7. g[0] = base
  BY <1>4 DEF Recursive
<1>8. g = Rounds(scalar, g)
  <2>1. \A i \in 0..scalar : i # 0 => i \in 1..scalar
    OBVIOUS
  <2>2. \A i \in 0..scalar : g[i] = IF i = 0 THEN base ELSE RoundAfter(g[i - 1])
    BY <1>6, <1>7, <2>1
  <2>3. Rounds(scalar, g) = [i \in 0..scalar |-> IF i = 0 THEN base ELSE RoundAfter(g[i - 1])]
    BY DEF Rounds
  <2> HIDE DEF base, D
  <2> QED
    BY <1>4, <2>2, <2>3
<1>9. round = Rounds(scalar, round)
  BY <1>8
<1> HIDE DEF round, D, base
<1>10. round[0] = base /\ \A i \in 1..scalar : round[i] = RoundAfter(round[i - 1])
  <2>1. \A i \in 0..scalar : Rounds(scalar, round)[i] = IF i = 0 THEN base ELSE RoundAfter(round[i - 1])
    BY DEF Rounds, base
  <2>2. \A i \in 0..scalar : round[i] = IF i = 0 THEN base ELSE RoundAfter(round[i - 1])
    BY <1>9, <2>1
  <2>3. 0 \in 0..scalar
    OBVIOUS
  <2> QED
    BY <1>5, <2>2, <2>3
<1>11. \A i \in 0..scalar : round[i] \in D /\ round[i].left <= scalar - i
  <2> DEFINE good == {i \in 0..scalar : round[i] \in D /\ round[i].left <= scalar - i}
  <2>1. 0 \in good
    <3>1. base.left = scalar
      BY DEF base
    <3> QED
      BY <1>2, <1>10, <3>1
  <2>2. ASSUME NEW i \in 1..scalar, i - 1 \in good PROVE i \in good
    <3>1. round[i - 1] \in D /\ round[i - 1].left <= scalar - (i - 1)
      BY <2>2
    <3>2. round[i] \in D /\ round[i].left = round[i - 1].left \div 2
      BY <1>10, <3>1, RoundHolds DEF D
    <3>3. round[i - 1].left \in Nat
      BY <3>1 DEF D, Held
    <3> DEFINE l == round[i - 1].left
    <3>4. l \div 2 <= scalar - i
      <4> HIDE DEF l
      <4>1. l \in Nat /\ l <= scalar - (i - 1) /\ i \in 1..scalar
        BY <3>1, <3>3 DEF l
      <4> QED
        BY <4>1
    <3> QED
      BY <1>5, <3>2, <3>4
  <2>3. \A i \in 0..scalar : i \in good
    <3> HIDE DEF good
    <3> QED
      BY <2>1, <2>2, UpTo
  <2> QED
    BY <2>3
<1> DEFINE last == round[scalar]
<1>12. last \in D /\ last.left <= 0
  <2>1. scalar \in 0..scalar /\ scalar - scalar = 0
    OBVIOUS
  <2> QED
    BY <1>11, <2>1
<1>13. PICK a \in Int, m \in Int : last.result = at[a] /\ a + m * last.left = scalar
  BY <1>12 DEF D, Held
<1>14. last.left = 0
  <2>1. last.left \in Nat
    BY <1>12 DEF D, Held
  <2> QED
    BY <1>12, <2>1
<1>15. a = scalar
  <2> HIDE DEF last
  <2>1. m * last.left = 0
    BY <1>14
  <2> QED
    BY <1>13, <2>1
<1> QED
  BY <1>1, <1>13, <1>15

--------------------------------------------------------------------------------
(* The shortcuts of the kernels.                                                *)

\* A difference is zero only between equals.
LEMMA Subtraction ==
  \A a, b \in Element : FieldSubtract(a, b) \in Element /\ (FieldSubtract(a, b) = 0 <=> a = b)
<1> FieldPrime \in Nat \ {0}
  BY Field DEF FieldAssumption
<1> SUFFICES ASSUME NEW a \in Element, NEW b \in Element
             PROVE  FieldSubtract(a, b) \in Element /\ (FieldSubtract(a, b) = 0 <=> a = b)
  OBVIOUS
<1> DEFINE c == FieldNegate(b)
<1>1. a \in 0..(FieldPrime - 1) /\ b \in 0..(FieldPrime - 1)
  BY DEF Element
<1>2. c \in Nat /\ c = IF b = 0 THEN 0 ELSE FieldPrime - b
  BY <1>1 DEF FieldNegate
<1>3. FieldSubtract(a, b) = (a + c) % FieldPrime
  BY DEF FieldSubtract, FieldAdd
<1> HIDE DEF c
<1>4. CASE b <= a
  <2>1. CASE b = 0
    <3>1. a + c \in Nat /\ a + c = 0 * FieldPrime + a
      BY <1>1, <1>2, <2>1
    <3>2. (a + c) % FieldPrime = a
      BY <1>1, <3>1, DivUnique
    <3> QED
      BY <1>1, <1>3, <2>1, <3>2 DEF Element
  <2>2. CASE b # 0
    <3>1. a + c \in Nat /\ a + c = 1 * FieldPrime + (a - b) /\ a - b \in 0..(FieldPrime - 1)
      BY <1>1, <1>2, <1>4, <2>2
    <3>2. (a + c) % FieldPrime = a - b
      BY <3>1, DivUnique
    <3> QED
      BY <1>1, <1>3, <3>1, <3>2 DEF Element
  <2> QED
    BY <2>1, <2>2
<1>5. CASE ~(b <= a)
  <2>1. a + c \in Nat /\ a + c = 0 * FieldPrime + (a + c) /\ a + c \in 1..(FieldPrime - 1)
    BY <1>1, <1>2, <1>5
  <2>2. (a + c) % FieldPrime = a + c
    BY <2>1, DivUnique
  <2> QED
    BY <1>1, <1>3, <1>5, <2>1, <2>2 DEF Element
<1> QED
  BY <1>4, <1>5

\* chained_search_kernel's shortcut is the addition of the stride to every point, to those at
\* infinity and those with the stride's x as well.
THEOREM AdvanceIsAddition ==
  ASSUME NEW held \in Seq(Points), NEW stride \in Points, ~stride.infinity
  PROVE  AdvanceChains(held, stride) = [i \in 1..Len(held) |-> PointAdd(held[i], stride)]
<1> DEFINE n == Len(held)
           delta == [i \in 1..n |-> IF held[i].infinity THEN 0 ELSE FieldSubtract(stride.x, held[i].x)]
           inverses == FieldInverseBatch(delta)
<1>1. n \in Nat /\ \A i \in 1..n : held[i] \in Points
  OBVIOUS
<1>2. \A i \in 1..n : held[i].x \in Element /\ stride.x \in Element
  BY <1>1 DEF Points
<1>3. delta \in Seq(Element) /\ Len(delta) = n
  <2>1. \A i \in 1..n : delta[i] \in Element
    BY <1>2, Subtraction, Inversion
  <2>2. delta \in [1..n -> Element]
    BY <2>1
  <2> QED
    BY <1>1, <2>2
<1>4. \A i \in 1..n : inverses[i] = IF delta[i] = 0 THEN 0 ELSE FieldInverse(delta[i])
  <2> HIDE DEF delta
  <2> QED
    BY <1>3, BatchInverts
<1>5. AdvanceChains(held, stride) = [i \in 1..n |->
        IF held[i].infinity THEN stride
        ELSE IF inverses[i] = 0 THEN PointAdd(held[i], stride)
        ELSE PointAddWithInverse(held[i], stride, inverses[i])]
  BY DEF AdvanceChains
<1> HIDE DEF inverses
<1>6. ASSUME NEW i \in 1..n
      PROVE  PointAdd(held[i], stride) =
               IF held[i].infinity THEN stride
               ELSE IF inverses[i] = 0 THEN PointAdd(held[i], stride)
               ELSE PointAddWithInverse(held[i], stride, inverses[i])
  <2>1. CASE held[i].infinity
    BY <2>1 DEF PointAdd
  <2>2. CASE ~held[i].infinity /\ inverses[i] # 0
    <3> DEFINE d == FieldSubtract(stride.x, held[i].x)
    <3>1. d # 0 /\ inverses[i] = FieldInverse(d)
      BY <1>4, <2>2
    <3>2. held[i].x # stride.x
      BY <1>2, <3>1, Subtraction
    <3> QED
      BY <2>2, <3>1, <3>2 DEF PointAdd
  <2> QED
    BY <2>1, <2>2
<1> QED
  BY <1>5, <1>6

\* generate_symmetric_batch adds the table's points and their negatives to the center, which
\* must not be at infinity.
THEOREM NeighboursAreSums ==
  ASSUME NEW center \in Points, ~center.infinity, TableSize \in Nat,
         \A i \in 1..TableSize : Table[i] \in Points /\ ~Table[i].infinity
  PROVE  SymmetricBatch(center) = [d \in (-TableSize)..TableSize |->
           IF d = 0 THEN center
           ELSE IF d > 0 THEN PointAdd(center, Table[d])
           ELSE PointAdd(center, Negative(Table[-d]))]
<1> DEFINE delta == [i \in 1..TableSize |-> FieldSubtract(Table[i].x, center.x)]
           inverses == FieldInverseBatch(delta)
           Toward(point, i) ==
             IF delta[i] = 0 THEN PointAdd(center, point)
             ELSE PointAddWithInverse(center, point, inverses[i])
<1>1. center.x \in Element /\ \A i \in 1..TableSize : Table[i].x \in Element
  BY DEF Points
<1>2. delta \in Seq(Element) /\ Len(delta) = TableSize
  <2>1. \A i \in 1..TableSize : delta[i] \in Element
    BY <1>1, Subtraction
  <2>2. delta \in [1..TableSize -> Element]
    BY <2>1
  <2> QED
    BY <2>2
<1>3. \A i \in 1..TableSize : inverses[i] = IF delta[i] = 0 THEN 0 ELSE FieldInverse(delta[i])
  <2> HIDE DEF delta
  <2> QED
    BY <1>2, BatchInverts
<1>4. SymmetricBatch(center) = [d \in (-TableSize)..TableSize |->
        IF d = 0 THEN center
        ELSE IF d > 0 THEN Toward(Table[d], d)
        ELSE Toward(Negative(Table[-d]), -d)]
  BY DEF SymmetricBatch
<1>5. ASSUME NEW i \in 1..TableSize, NEW point, point.x = Table[i].x, ~point.infinity
      PROVE  Toward(point, i) = PointAdd(center, point)
  <2>1. CASE delta[i] # 0
    <3> DEFINE d == FieldSubtract(point.x, center.x)
    <3>1. d = delta[i] /\ d # 0
      BY <1>5, <2>1
    <3>2. inverses[i] = FieldInverse(d)
      <4> HIDE DEF d, delta, inverses
      <4> QED
        BY <1>3, <3>1
    <3>3. center.x # point.x
      BY <1>1, <1>5, <3>1, Subtraction
    <3> HIDE DEF inverses
    <3> QED
      BY <1>5, <2>1, <3>2, <3>3 DEF PointAdd
  <2> QED
    BY <2>1
<1> HIDE DEF Toward
<1>6. ASSUME NEW d \in (-TableSize)..TableSize
      PROVE  /\ d > 0 => Toward(Table[d], d) = PointAdd(center, Table[d])
             /\ d < 0 => Toward(Negative(Table[-d]), -d) = PointAdd(center, Negative(Table[-d]))
  <2>1. CASE d > 0
    <3>1. d \in 1..TableSize
      BY <2>1
    <3> QED
      BY <1>5, <2>1, <3>1
  <2>2. CASE d < 0
    <3> DEFINE i == -d
    <3>1. i \in 1..TableSize
      BY <2>2
    <3>2. Negative(Table[i]).x = Table[i].x /\ ~Negative(Table[i]).infinity
      BY DEF Negative
    <3>3. Toward(Negative(Table[i]), i) = PointAdd(center, Negative(Table[i]))
      <4> HIDE DEF i
      <4> QED
        BY <1>5, <3>1, <3>2
    <3> QED
      BY <2>2, <3>3
  <2> QED
    BY <2>1, <2>2
<1> QED
  BY <1>4, <1>6

\* In a group, then, the shortcuts reach the points they stand for: the chains those of the
\* next offsets, and the batch those around the center's.
THEOREM ShortcutsStayInGroup ==
  ASSUME NEW at, InGroup(at), TableSize \in Nat, \A i \in 1..TableSize : ~at[i].infinity
  PROVE  /\ \A count \in Nat, start, stride \in Int : ~at[stride].infinity =>
              AdvanceChains([i \in 1..count |-> at[start + i]], at[stride])
                = [i \in 1..count |-> at[start + i + stride]]
         /\ \A start \in Int : ~at[start].infinity =>
              SymmetricBatch(at[start]) = [d \in (-TableSize)..TableSize |-> at[start + d]]
<1>0. /\ at \in [Int -> Points] /\ \A m, n \in Int : PointAdd(at[m], at[n]) = at[m + n]
      /\ \A n \in Int : ~at[n].infinity => Negative(at[n]) = at[-n]
  BY DEF InGroup
<1>3. ASSUME NEW i \in 1..TableSize
      PROVE  Table[i] = at[i] /\ Negative(Table[i]) = at[-i] /\ ~at[i].infinity
  <2>1. i \in Nat /\ i \in Int
    OBVIOUS
  <2>2. Table[i] = ScalarMultiply(i)
    BY DEF Table
  <2>3. ScalarMultiply(i) = at[i]
    BY <2>1, ScalarIsMultiple
  <2> QED
    BY <1>0, <2>1, <2>2, <2>3
<1>1. ASSUME NEW count \in Nat, NEW start \in Int, NEW stride \in Int, ~at[stride].infinity
      PROVE  AdvanceChains([i \in 1..count |-> at[start + i]], at[stride])
               = [i \in 1..count |-> at[start + i + stride]]
  <2> DEFINE held == [i \in 1..count |-> at[start + i]]
  <2>1. held \in Seq(Points) /\ Len(held) = count /\ at[stride] \in Points
    BY <1>0
  <2>2. \A i \in 1..count : PointAdd(held[i], at[stride]) = at[start + i + stride]
    BY <1>0
  <2>3. AdvanceChains(held, at[stride]) = [i \in 1..count |-> PointAdd(held[i], at[stride])]
    <3> HIDE DEF held
    <3> QED
      BY <1>1, <2>1, AdvanceIsAddition
  <2> QED
    BY <2>2, <2>3
<1>2. ASSUME NEW start \in Int, ~at[start].infinity
      PROVE  SymmetricBatch(at[start]) = [d \in (-TableSize)..TableSize |-> at[start + d]]
  <2>1. ASSUME NEW i \in 1..TableSize PROVE Table[i] \in Points /\ ~Table[i].infinity
    <3>1. i \in Int /\ Table[i] = at[i] /\ ~at[i].infinity
      BY <1>3
    <3> QED
      BY <1>0, <3>1
  <2>2. SymmetricBatch(at[start]) = [d \in (-TableSize)..TableSize |->
           IF d = 0 THEN at[start]
           ELSE IF d > 0 THEN PointAdd(at[start], Table[d])
           ELSE PointAdd(at[start], Negative(Table[-d]))]
    BY <1>0, <1>2, <2>1, NeighboursAreSums
  <2>3. ASSUME NEW d \in (-TableSize)..TableSize
        PROVE  at[start + d] = IF d = 0 THEN at[start]
                               ELSE IF d > 0 THEN PointAdd(at[start], Table[d])
                               ELSE PointAdd(at[start], Negative(Table[-d]))
    <3>1. CASE d > 0
      <4>1. Table[d] = at[d]
        BY <1>3, <3>1
      <4> QED
        BY <1>0, <3>1, <4>1
    <3>2. CASE d < 0
      <4>2. Negative(Table[-d]) = at[d]
        <5> DEFINE i == -d
        <5>1. i \in 1..TableSize /\ -i = d
          BY <3>2
        <5>2. Negative(Table[i]) = at[-i]
          BY <1>3, <5>1
        <5> QED
          BY <5>1, <5>2
      <4> QED
        BY <1>0, <3>2, <4>2
    <3>3. CASE d = 0
      <4>1. start + d = start
        BY <3>3
      <4> QED
        BY <3>3, <4>1
    <3> QED
      BY <3>1, <3>2, <3>3
  <2> QED
    BY <2>2, <2>3
<1> QED
  BY <1>1, <1>2

\* The arithmetic a search session rests on (CudaSession's ArithmeticAssumption, of the table's
\* size for a radius, with the kernels' arrays that begin at 0) is that of the group, wherever
\* the multiples are taken and whatever the launch: the stride must not be infinity.
THEOREM SessionArithmetic ==
  ASSUME NEW at, InGroup(at), TableSize \in Nat, \A i \in 1..TableSize : ~at[i].infinity,
         NEW PointsPerThread \in Nat \ {0}, NEW Chains \in Nat, ~at[Chains].infinity
  PROVE  LET Advance(held, by) ==
               LET moved == AdvanceChains([i \in 1..PointsPerThread |-> held[i - 1]], by)
               IN  [i \in 0..(PointsPerThread - 1) |-> moved[i + 1]]
         IN  /\ \A m, n \in Nat : PointAdd(ScalarMultiply(m), ScalarMultiply(n)) = ScalarMultiply(m + n)
             /\ \A n \in Nat :
                  Advance([i \in 0..(PointsPerThread - 1) |-> ScalarMultiply(n + i)],
                          ScalarMultiply(Chains))
                    = [i \in 0..(PointsPerThread - 1) |-> ScalarMultiply(n + i + Chains)]
             /\ \A n \in Nat : \A d \in (-TableSize)..TableSize :
                  n + d \in Nat /\ ~ScalarMultiply(n).infinity =>
                    SymmetricBatch(ScalarMultiply(n))[d] = ScalarMultiply(n + d)
<1> DEFINE P == PointsPerThread
           Advance(held, by) ==
             LET moved == AdvanceChains([i \in 1..P |-> held[i - 1]], by)
             IN  [i \in 0..(P - 1) |-> moved[i + 1]]
<1>1. \A n \in Nat : ScalarMultiply(n) = at[n]
  BY ScalarIsMultiple
<1>2. \A m, n \in Int : PointAdd(at[m], at[n]) = at[m + n]
  BY DEF InGroup
<1>3. /\ \A count \in Nat, start, by \in Int : ~at[by].infinity =>
           AdvanceChains([i \in 1..count |-> at[start + i]], at[by])
             = [i \in 1..count |-> at[start + i + by]]
      /\ \A start \in Int : ~at[start].infinity =>
           SymmetricBatch(at[start]) = [d \in (-TableSize)..TableSize |-> at[start + d]]
  BY ShortcutsStayInGroup
<1>4. ASSUME NEW m \in Nat, NEW n \in Nat
      PROVE  PointAdd(ScalarMultiply(m), ScalarMultiply(n)) = ScalarMultiply(m + n)
  <2>1. m + n \in Nat /\ m \in Int /\ n \in Int
    OBVIOUS
  <2> QED
    BY <1>1, <1>2, <2>1
<1>5. ASSUME NEW n \in Nat
      PROVE  Advance([i \in 0..(P - 1) |-> ScalarMultiply(n + i)], ScalarMultiply(Chains))
               = [i \in 0..(P - 1) |-> ScalarMultiply(n + i + Chains)]
  <2> DEFINE held == [i \in 0..(P - 1) |-> ScalarMultiply(n + i)]
             start == n - 1
  <2>1. start \in Int /\ P \in Nat /\ Chains \in Int /\ ScalarMultiply(Chains) = at[Chains]
    BY <1>1
  <2>2. ASSUME NEW i \in 1..P PROVE held[i - 1] = at[start + i]
    <3>1. i - 1 \in 0..(P - 1) /\ n + (i - 1) \in Nat /\ n + (i - 1) = start + i
      OBVIOUS
    <3> QED
      BY <1>1, <3>1
  <2>3. [i \in 1..P |-> held[i - 1]] = [i \in 1..P |-> at[start + i]]
    <3> HIDE DEF held, start
    <3> QED
      BY <2>2
  <2>4. AdvanceChains([i \in 1..P |-> at[start + i]], at[Chains])
          = [i \in 1..P |-> at[start + i + Chains]]
    <3> HIDE DEF start, P
    <3>1. \A a, c \in Int : ~at[c].infinity =>
            AdvanceChains([i \in 1..P |-> at[a + i]], at[c]) = [i \in 1..P |-> at[a + i + c]]
      BY ONLY <1>3, <2>1, ZenonT(20)
    <3> QED
      BY <2>1, <3>1
  <2>5. Advance(held, ScalarMultiply(Chains))
          = [i \in 0..(P - 1) |-> [j \in 1..P |-> at[start + j + Chains]][i + 1]]
    <3> HIDE DEF held, start, P
    <3> QED
      BY <2>1, <2>3, <2>4
  <2>6. ASSUME NEW i \in 0..(P - 1)
        PROVE  [j \in 1..P |-> at[start + j + Chains]][i + 1] = ScalarMultiply(n + i + Chains)
    <3>1. i + 1 \in 1..P /\ n + i + Chains \in Nat /\ start + (i + 1) + Chains = n + i + Chains
      OBVIOUS
    <3> QED
      BY <1>1, <3>1
  <2> QED
    <3> HIDE DEF held, start, P, Advance
    <3>1. [i \in 0..(P - 1) |-> [j \in 1..P |-> at[start + j + Chains]][i + 1]]
            = [i \in 0..(P - 1) |-> ScalarMultiply(n + i + Chains)]
      BY <2>6
    <3> QED
      BY <2>5, <3>1 DEF held
<1>6. ASSUME NEW n \in Nat, NEW d \in (-TableSize)..TableSize, n + d \in Nat,
             ~ScalarMultiply(n).infinity
      PROVE  SymmetricBatch(ScalarMultiply(n))[d] = ScalarMultiply(n + d)
  <2>1. n \in Int /\ ScalarMultiply(n) = at[n] /\ ScalarMultiply(n + d) = at[n + d]
    BY <1>1, <1>6
  <2>2. SymmetricBatch(at[n]) = [e \in (-TableSize)..TableSize |-> at[n + e]]
    BY <1>3, <1>6, <2>1
  <2> QED
    BY <2>1, <2>2
<1> QED
  BY <1>4, <1>5, <1>6

\* The multiples that NativeArithmetic compares with are such a group.
Multiple == [n \in Int |-> At(n)]

\* Those of the order are infinity, and no others are.
LEMMA MultiplesAre ==
  /\ InGroup(Multiple)
  /\ \A n \in 1..(GroupOrder - 1) : ~Multiple[n].infinity
<1> DEFINE o == GroupOrder
<1>1. /\ o \in Nat \ {0} /\ At(0) = AtInfinity /\ At(1) = Generator
      /\ \A n \in 1..(o - 1) :
           /\ At(n) \in [x : Element, y : Element, infinity : {FALSE}]
           /\ Negative(At(n)) = At(-n)
      /\ \A m, n \in 0..(o - 1) : PointAdd(At(m), At(n)) = At(m + n)
  BY CurveIsGroup DEF CurveAssumption, Element
<1> HIDE DEF o
<1>2. \A n \in Int : n % o \in 0..(o - 1) /\ \E q \in Int : n = q * o + (n % o)
  BY <1>1, Remainder
<1>3. ASSUME NEW m \in Int, NEW n \in Int, NEW q \in Int, m = q * o + n
      PROVE  At(m) = At(n)
  <2>1. PICK p \in Int : n = p * o + (n % o)
    BY <1>2
  <2>2. n % o \in 0..(o - 1)
    BY <1>2
  <2> DEFINE r == n % o
  <2> HIDE DEF r
  <2>3. p + q \in Int /\ m = (p + q) * o + r /\ r \in 0..(o - 1)
    BY <1>1, <1>3, <2>1, <2>2 DEF r
  <2>4. r = m % o
    BY ONLY <1>1, <2>3, Remainder, m \in Int
  <2> QED
    BY <2>4 DEF At, o, r
<1>4. ASSUME NEW n \in Int
      PROVE  /\ At(n) = At(n % o)
             /\ At(-n) = At(-(n % o))
  <2> DEFINE r == n % o
  <2>1. PICK q \in Int : n = q * o + r
    BY <1>2
  <2>2. r \in Int
    BY <1>2
  <2> HIDE DEF r
  <2>3. -q \in Int /\ -n = (-q) * o + (-r) /\ -n \in Int /\ -r \in Int
    BY <1>1, <2>1, <2>2
  <2>4. At(n) = At(r)
    BY ONLY <1>3, <2>1, <2>2, n \in Int
  <2>5. At(-n) = At(-r)
    BY ONLY <1>3, <2>3
  <2> QED
    BY <2>4, <2>5 DEF r
<1>5. ASSUME NEW m \in Int, NEW n \in Int
      PROVE  At((m % o) + (n % o)) = At(m + n)
  <2> DEFINE j == m % o
             k == n % o
  <2>1. PICK p \in Int : m = p * o + j
    BY <1>2
  <2>2. PICK q \in Int : n = q * o + k
    BY <1>2
  <2>3. j \in Int /\ k \in Int
    BY <1>2
  <2> HIDE DEF j, k
  <2>4. p + q \in Int /\ m + n = (p + q) * o + (j + k) /\ m + n \in Int /\ j + k \in Int
    BY <1>1, <2>1, <2>2, <2>3
  <2>5. At(m + n) = At(j + k)
    BY ONLY <1>3, <2>4
  <2> QED
    BY <2>5 DEF j, k
<1>6. AtInfinity \in Points
  BY Inversion DEF AtInfinity, Points, Element
<1>7. ASSUME NEW n \in Int
      PROVE  /\ At(n) \in Points
             /\ IF At(n).infinity THEN At(n) = AtInfinity ELSE Negative(At(n)) = At(-n)
  <2> DEFINE r == n % o
  <2>1. At(n) = At(r) /\ At(-n) = At(-r) /\ r \in 0..(o - 1)
    BY <1>2, <1>4
  <2> HIDE DEF r
  <2>2. CASE r = 0
    <3>1. At(n) = AtInfinity /\ AtInfinity.infinity
      BY <1>1, <2>1, <2>2 DEF AtInfinity
    <3> QED
      BY <1>6, <3>1
  <2>3. CASE r # 0
    <3>1. r \in 1..(o - 1)
      BY <1>1, <2>1, <2>3
    <3>2. At(r) \in [x : Element, y : Element, infinity : {FALSE}] /\ Negative(At(r)) = At(-r)
      BY <1>1, <3>1
    <3>3. At(r) \in Points /\ ~At(r).infinity
      BY <3>2 DEF Points
    <3> QED
      BY <2>1, <3>2, <3>3
  <2> QED
    BY <2>2, <2>3
<1>8. ASSUME NEW m \in Int, NEW n \in Int
      PROVE  PointAdd(At(m), At(n)) = At(m + n)
  <2>1. PointAdd(At(m % o), At(n % o)) = At((m % o) + (n % o))
    BY <1>1, <1>2
  <2> QED
    BY <1>4, <1>5, <2>1
<1>9. \A n \in Int : Multiple[n] = At(n) /\ -n \in Int
  BY DEF Multiple
<1>10. \A m, n \in Int : m + n \in Int
  OBVIOUS
<1>11. InGroup(Multiple)
  <2>1. Multiple \in [Int -> Points]
    BY <1>7 DEF Multiple
  <2>2. Multiple[0] = AtInfinity /\ Multiple[1] = Generator
    BY <1>1, <1>9
  <2>3. \A m, n \in Int : PointAdd(Multiple[m], Multiple[n]) = Multiple[m + n]
    BY <1>8, <1>9, <1>10
  <2>4. \A n \in Int : IF Multiple[n].infinity THEN Multiple[n] = AtInfinity
                       ELSE Negative(Multiple[n]) = Multiple[-n]
    BY <1>7, <1>9
  <2> QED
    BY <2>1, <2>2, <2>3, <2>4 DEF InGroup
<1>12. ASSUME NEW n \in 1..(GroupOrder - 1) PROVE ~Multiple[n].infinity
  <2>1. At(n) \in [x : Element, y : Element, infinity : {FALSE}]
    BY <1>1 DEF o
  <2>2. ~At(n).infinity
    BY <2>1
  <2>3. n \in Int
    OBVIOUS
  <2> QED
    BY <1>9, <2>2, <2>3
<1> QED
  BY <1>11, <1>12

--------------------------------------------------------------------------------
(* Numbers and their digits.                                                    *)

\* Digits and characters are one to one.
LEMMA AlphabetFacts ==
  /\ AddressLength \in Nat \ {0} /\ Checksums \in Nat \ {0} /\ Radix \in Nat \ {0}
  /\ \A d \in 0..(Radix - 1) : Alphabet[d + 1] \in Characters
  /\ \A c \in Characters : DigitOf(c) \in 0..(Radix - 1) /\ Alphabet[DigitOf(c) + 1] = c
  /\ \A d \in 0..(Radix - 1), c \in Characters : Alphabet[d + 1] = c <=> d = DigitOf(c)
<1>1. /\ AddressLength \in Nat \ {0} /\ Checksums \in Nat \ {0} /\ MainnetT \in Characters
      /\ Alphabet \in Seq(Characters)
      /\ \A i, j \in 1..Radix : Alphabet[i] = Alphabet[j] => i = j
  BY AlphabetIsBase58 DEF AlphabetAssumption
<1>2. Radix \in Nat /\ DOMAIN Alphabet = 1..Radix
  BY <1>1 DEF Radix
<1>3. Characters = {Alphabet[i] : i \in 1..Radix}
  BY <1>2 DEF Characters, ToSet
<1>4. Radix # 0
  BY <1>1, <1>2, <1>3
<1>5. ASSUME NEW c \in Characters
      PROVE  DigitOf(c) \in 0..(Radix - 1) /\ Alphabet[DigitOf(c) + 1] = c
  <2>1. PICK i \in 1..Radix : Alphabet[i] = c
    BY <1>3
  <2>2. i - 1 \in 0..(Radix - 1) /\ (i - 1) + 1 = i
    BY <1>2
  <2>3. \E d \in 0..(Radix - 1) : Alphabet[d + 1] = c
    BY <2>1, <2>2
  <2> QED
    BY <2>3 DEF DigitOf
<1>6. ASSUME NEW d \in 0..(Radix - 1) PROVE d + 1 \in 1..Radix
  BY <1>2
<1>7. ASSUME NEW d \in 0..(Radix - 1), NEW c \in Characters
      PROVE  Alphabet[d + 1] = c <=> d = DigitOf(c)
  <2> DEFINE e == DigitOf(c)
  <2>1. e \in 0..(Radix - 1) /\ Alphabet[e + 1] = c
    BY <1>5
  <2> HIDE DEF e
  <2>2. Alphabet[d + 1] = Alphabet[e + 1] => d + 1 = e + 1
    BY <1>1, <1>6, <2>1
  <2> QED
    BY <1>2, <2>1, <2>2 DEF e
<1> QED
  BY <1>1, <1>2, <1>3, <1>4, <1>5, <1>6, <1>7

\* The powers of the radix.
LEMMA Places ==
  /\ \A k \in 0..AddressLength : Place[k] \in Nat \ {0}
  /\ Place[0] = 1
  /\ \A k \in 1..AddressLength : Place[k] = Place[k - 1] * Radix
<1> DEFINE n == AddressLength
           Loop(f) == [i \in 0..n |-> IF i = 0 THEN 1 ELSE f[i - 1] * Radix]
           step == [e \in (1..n) \X (Nat \ {0}) |-> e[2] * Radix]
<1>1. n \in Nat /\ Radix \in Nat \ {0}
  BY AlphabetFacts
<1>2. Place = CHOOSE f : f = Loop(f)
  BY DEF Place
<1>3. step \in [(1..n) \X (Nat \ {0}) -> Nat \ {0}]
  <2>1. ASSUME NEW m \in Nat \ {0} PROVE m * Radix \in Nat \ {0}
    <3>1. 1 * Radix <= m * Radix
      BY <1>1, TimesMonotone
    <3>2. m * Radix \in Nat /\ 1 * Radix = Radix
      BY <1>1
    <3> QED
      BY <1>1, <3>1, <3>2
  <2> QED
    BY <2>1
<1>4. PICK g \in [0..n -> Nat \ {0}] : Recursive(g, n, 1, step)
  <2> HIDE DEF step, n
  <2>1. 1 \in Nat \ {0}
    OBVIOUS
  <2> QED
    BY ONLY <1>1, <1>3, <2>1, RecursionExists
<1>5. g[0] = 1 /\ \A i \in 1..n : i - 1 \in 0..n /\ i # 0 /\ g[i] = g[i - 1] * Radix
  <2>1. ASSUME NEW i \in 1..n PROVE i - 1 \in 0..n /\ i # 0 /\ g[i] = g[i - 1] * Radix
    <3>1. i - 1 \in 0..n /\ i # 0
      BY <1>1
    <3>2. g[i] = step[<<i, g[i - 1]>>] /\ g[i - 1] \in Nat \ {0}
      <4> HIDE DEF step, n
      <4> QED
        BY <1>4, <3>1 DEF Recursive
    <3> QED
      BY <1>1, <3>1, <3>2
  <2> QED
    BY <1>4, <2>1 DEF Recursive
<1>6. g = Loop(g)
  <2>1. \A i \in 0..n : i # 0 => i \in 1..n
    BY <1>1
  <2>2. \A i \in 0..n : g[i] = Loop(g)[i]
    BY <1>5, <2>1
  <2> QED
    BY <1>4, <2>2
<1>7. Place = Loop(Place)
  <2> HIDE DEF Loop
  <2> QED
    BY <1>2, <1>6
<1>8. Place[0] = 1 /\ \A i \in 1..n : Place[i] = Place[i - 1] * Radix
  <2>1. \A i \in 0..n : Place[i] = Loop(Place)[i]
    BY <1>7
  <2>2. 0 \in 0..n /\ \A i \in 1..n : i \in 0..n /\ i # 0
    BY <1>1
  <2> HIDE DEF n
  <2> QED
    BY <2>1, <2>2
<1>9. \A i \in 0..n : Place[i] = g[i]
  <2> DEFINE same == {i \in 0..n : Place[i] = g[i]}
  <2>1. 0 \in same
    BY <1>1, <1>5, <1>8
  <2>2. \A i \in 1..n : i - 1 \in same => i \in same
    BY <1>5, <1>8
  <2>3. \A i \in 0..n : i \in same
    <3> HIDE DEF same, n
    <3> QED
      BY <1>1, <2>1, <2>2, UpTo
  <2> QED
    BY <2>3
<1> QED
  BY <1>4, <1>8, <1>9

\* The number that a sequence of digits is, one digit more at a time.
Number(symbols) == FoldLeft(LAMBDA acc, c : acc * Radix + DigitOf(c), 0, symbols)

LEMMA NumberIs ==
  ASSUME NEW symbols \in Seq(Characters)
  PROVE  \E value \in [0..Len(symbols) -> Nat] :
           /\ value[0] = 0 /\ Number(symbols) = value[Len(symbols)]
           /\ \A i \in 1..Len(symbols) : value[i] = value[i - 1] * Radix + DigitOf(symbols[i])
<1> DEFINE n == Len(symbols)
           S == 1..n
           Loop(f) == [s \in SUBSET S |->
                        IF s = {} THEN 0 ELSE f[s \ {Max(s)}] * Radix + DigitOf(symbols[Max(s)])]
           pick == [s \in SUBSET S |-> Max(s)]
           step == [e \in S \X Nat |-> e[2] * Radix + DigitOf(symbols[e[1]])]
           iter == CHOOSE f : f = Loop(f)
<1>1. n \in Nat /\ IsFiniteSet(S) /\ Radix \in Nat /\ DOMAIN symbols = S
      /\ \A i \in S : symbols[i] \in Characters /\ DigitOf(symbols[i]) \in Nat
  <2>1. n \in Nat /\ DOMAIN symbols = S /\ \A i \in S : symbols[i] \in Characters
    OBVIOUS
  <2>2. IsFiniteSet(S)
    <3>1. 1 \in Int /\ n \in Int
      BY <2>1
    <3> HIDE DEF n
    <3> QED
      BY <3>1, FS_Interval
  <2>3. \A c \in Characters : DigitOf(c) \in Nat
    BY AlphabetFacts
  <2> HIDE DEF n, S
  <2> QED
    BY <2>1, <2>2, <2>3, AlphabetFacts
<1>2. Number(symbols) = iter[S]
  BY <1>1 DEF Number, FoldLeft, MapThenFoldSet
<1>3. ASSUME NEW s \in SUBSET S, s # {}
      PROVE  Max(s) \in s /\ \A y \in s : Max(s) >= y
  <2> DEFINE low == {n - y : y \in s}
  <2>1. low \subseteq Nat /\ low # {}
    <3>1. \A y \in S : n - y \in Nat
      BY <1>1
    <3> HIDE DEF S
    <3> QED
      BY <1>3, <3>1
  <2>2. PICK m \in low : \A k \in low : m <= k
    <3> HIDE DEF low
    <3> QED
      BY <2>1, LeastOf
  <2>3. PICK x \in s : m = n - x
    BY <2>2
  <2>4. \A y \in s : x >= y
    <3> SUFFICES ASSUME NEW y \in s PROVE x >= y
      OBVIOUS
    <3>1. n - y \in low /\ x \in Int /\ y \in Int /\ n \in Int
      BY <1>1
    <3>2. n - x <= n - y
      BY <2>2, <2>3, <3>1
    <3> HIDE DEF low
    <3> QED
      BY <3>1, <3>2
  <2>5. \E z \in s : \A y \in s : z >= y
    BY <2>3, <2>4
  <2> HIDE DEF low
  <2> QED
    BY <2>5 DEF Max
<1>4. step \in [S \X Nat -> Nat]
  BY <1>1
<1>5. PICK g \in [SUBSET S -> Nat] : Folds(g, S, 0, step, pick)
  <2>1. \A s \in SUBSET S : s # {} => pick[s] \in s
    BY <1>3
  <2> HIDE DEF step, pick, S
  <2> QED
    BY <1>1, <1>4, <2>1, FoldExists
<1>6. ASSUME NEW s \in SUBSET S, s # {}
      PROVE  g[s] = g[s \ {Max(s)}] * Radix + DigitOf(symbols[Max(s)])
  <2>1. g[s] = step[<<Max(s), g[s \ {Max(s)}]>>]
    BY <1>5, <1>6 DEF Folds
  <2>2. Max(s) \in S /\ g[s \ {Max(s)}] \in Nat
    BY <1>3, <1>5, <1>6
  <2> QED
    BY <2>1, <2>2
<1>7. g[{}] = 0
  BY <1>5 DEF Folds
<1>8. g = Loop(g)
  <2>1. \A s \in SUBSET S : g[s] = Loop(g)[s]
    BY <1>6, <1>7
  <2> QED
    BY <1>5, <2>1
<1>9. iter = Loop(iter)
  <2> HIDE DEF Loop
  <2> QED
    BY <1>8
<1>10. \A s \in SUBSET S : iter[s] = g[s]
  <2>1. \A s \in SUBSET S : iter[s] = Loop(iter)[s]
    BY <1>9
  <2> HIDE DEF iter
  <2>2. iter[{}] = 0
    BY <2>1
  <2>3. ASSUME NEW s \in SUBSET S, s # {}
        PROVE  /\ pick[s] \in s
               /\ iter[s \ {pick[s]}] = g[s \ {pick[s]}] => iter[s] = g[s]
    <3>1. iter[s] = iter[s \ {Max(s)}] * Radix + DigitOf(symbols[Max(s)])
      BY <2>1, <2>3
    <3> QED
      BY <1>3, <1>6, <2>3, <3>1
  <2>4. Alike(iter, g, S, pick)
    <3> HIDE DEF pick, S
    <3> QED
      BY <1>7, <2>2, <2>3 DEF Alike
  <2> HIDE DEF pick, S
  <2> QED
    BY <1>1, <2>4, SameFold
<1> HIDE DEF iter
<1> DEFINE value == [i \in 0..n |-> g[1..i]]
<1>11. ASSUME NEW i \in 0..n PROVE 1..i \in SUBSET S
  BY <1>1
<1>12. value \in [0..n -> Nat]
  BY <1>5, <1>11
<1>13. value[0] = 0 /\ Number(symbols) = value[n]
  <2>1. 0 \in 0..n /\ n \in 0..n /\ 1..0 = {}
    BY <1>1
  <2> QED
    BY <1>1, <1>2, <1>7, <1>10, <2>1
<1>14. ASSUME NEW i \in 1..n
       PROVE  value[i] = value[i - 1] * Radix + DigitOf(symbols[i])
  <2>1. i \in 0..n /\ i - 1 \in 0..n /\ 1..i \in SUBSET S /\ i \in 1..i
        /\ (1..i) \ {i} = 1..(i - 1) /\ \A y \in 1..i : y <= i
    BY <1>1
  <2>2. Max(1..i) = i
    <3>1. Max(1..i) \in 1..i /\ \A y \in 1..i : Max(1..i) >= y
      BY <1>3, <2>1
    <3> DEFINE x == Max(1..i)
    <3> HIDE DEF x
    <3>2. x \in 1..i /\ x >= i
      BY <2>1, <3>1 DEF x
    <3>3. x = i
      BY <2>1, <3>2
    <3> QED
      BY <3>3 DEF x
  <2>3. g[1..i] = g[(1..i) \ {i}] * Radix + DigitOf(symbols[i])
    <3>1. 1..i # {}
      BY <2>1
    <3> QED
      BY <1>6, <2>1, <2>2, <3>1
  <2> QED
    BY <2>1, <2>3
<1> QED
  BY <1>12, <1>13, <1>14

\* The first digits of an address are those of its encoding.
LEMMA Digits ==
  ASSUME NEW e \in Nat, e < Place[AddressLength],
         NEW symbols \in Seq(Characters), Len(symbols) <= AddressLength
  PROVE  e \div Place[AddressLength - Len(symbols)] = Number(symbols)
           <=> \A i \in 1..Len(symbols) : AddressOf(e)[i] = symbols[i]
<1> DEFINE n == Len(symbols)
           L == AddressLength
           Top(i) == e \div Place[L - i]
<1>1. PICK value \in [0..n -> Nat] :
        /\ value[0] = 0 /\ Number(symbols) = value[n]
        /\ \A i \in 1..n : value[i] = value[i - 1] * Radix + DigitOf(symbols[i])
  BY NumberIs
<1>2. n \in Nat /\ L \in Nat /\ n <= L /\ Radix \in Nat \ {0}
      /\ \A i \in 1..n : symbols[i] \in Characters
  BY AlphabetFacts
<1> HIDE DEF n
<1>3. \A i \in 0..n : L - i \in 0..L /\ Place[L - i] \in Nat \ {0} /\ Top(i) \in Nat
  <2> SUFFICES ASSUME NEW i \in 0..n
               PROVE  L - i \in 0..L /\ Place[L - i] \in Nat \ {0} /\ Top(i) \in Nat
    OBVIOUS
  <2>1. L - i \in 0..L
    BY <1>2
  <2>2. Place[L - i] \in Nat \ {0}
    BY <2>1, Places
  <2> QED
    BY <2>1, <2>2, DivMod
<1>4. Top(0) = 0
  <2> DEFINE p == Place[L]
  <2>0. L - 0 = L /\ 0 \in 0..n
    BY <1>2
  <2>1. p \in Nat \ {0} /\ e < p
    <3>1. Place[L - 0] \in Nat \ {0}
      BY <1>3, <2>0
    <3> QED
      BY <2>0, <3>1
  <2>2. e \in 0..(p - 1) /\ e = 0 * p + e
    <3> HIDE DEF p
    <3> QED
      BY <2>1
  <2>3. e \div p = 0
    <3> HIDE DEF p
    <3> QED
      BY <2>1, <2>2, DivUnique
  <2> QED
    BY <2>0, <2>3
<1>5. ASSUME NEW i \in 1..n
      PROVE  /\ i - 1 \in 0..n /\ i \in 0..n
             /\ Top(i) % Radix \in 0..(Radix - 1)
             /\ Top(i) = Top(i - 1) * Radix + (Top(i) % Radix)
  <2>1. i - 1 \in 0..n /\ i \in 0..n /\ L - i \in 0..L /\ L - (i - 1) \in 1..L
        /\ (L - (i - 1)) - 1 = L - i
    BY <1>2
  <2>2. Place[L - (i - 1)] = Place[L - i] * Radix
    BY <2>1, Places
  <2> DEFINE p == Place[L - i]
             t == Top(i)
  <2>3. p \in Nat \ {0} /\ t \in Nat /\ t = e \div p
    BY <1>3, <2>1
  <2>4. Top(i - 1) = e \div (p * Radix)
    BY <2>2
  <2> HIDE DEF p, t
  <2>5. t \div Radix = Top(i - 1)
    <3>1. (e \div p) \div Radix = e \div (p * Radix)
      BY <1>2, <2>3, DivTwice
    <3> QED
      BY <2>3, <2>4, <3>1
  <2>6. t \div Radix \in Nat /\ t % Radix \in 0..(Radix - 1) /\ t = Radix * (t \div Radix) + (t % Radix)
    BY <1>2, <2>3, DivMod
  <2> DEFINE u == t \div Radix
             d == t % Radix
  <2>7. u \in Nat /\ d \in 0..(Radix - 1) /\ t = Radix * u + d /\ u = Top(i - 1)
    BY <2>5, <2>6
  <2> HIDE DEF u, d, Top
  <2>8. t = u * Radix + d
    BY <1>2, <2>7
  <2> QED
    BY <2>1, <2>7, <2>8 DEF t, d
<1>6. \A i \in 1..n : AddressOf(e)[i] = symbols[i] <=> Top(i) % Radix = DigitOf(symbols[i])
  <2> SUFFICES ASSUME NEW i \in 1..n
               PROVE  AddressOf(e)[i] = symbols[i] <=> Top(i) % Radix = DigitOf(symbols[i])
    OBVIOUS
  <2> DEFINE d == Top(i) % Radix
  <2>1. i \in 1..L
    BY <1>2
  <2>2. AddressOf(e)[i] = Alphabet[d + 1]
    BY <2>1 DEF AddressOf
  <2>3. d \in 0..(Radix - 1) /\ symbols[i] \in Characters
    BY <1>2, <1>5
  <2> HIDE DEF d
  <2>4. Alphabet[d + 1] = symbols[i] <=> d = DigitOf(symbols[i])
    BY <2>3, AlphabetFacts
  <2> QED
    BY <2>2, <2>4 DEF d
<1> HIDE DEF Top
<1> DEFINE good == {i \in 0..n : Top(i) = value[i]
                       <=> \A j \in 1..i : Top(j) % Radix = DigitOf(symbols[j])}
<1>7. 0 \in good
  BY <1>1, <1>2, <1>4
<1>8. ASSUME NEW i \in 1..n, i - 1 \in good PROVE i \in good
  <2> DEFINE d == Top(i) % Radix
             c == DigitOf(symbols[i])
             u == Top(i - 1)
             v == value[i - 1]
  <2>1. d \in 0..(Radix - 1) /\ c \in 0..(Radix - 1) /\ u \in Nat /\ v \in Nat
    BY <1>1, <1>2, <1>3, <1>5, AlphabetFacts
  <2>2. Top(i) = u * Radix + d /\ value[i] = v * Radix + c
    BY <1>1, <1>5
  <2>3. (u = v) <=> \A j \in 1..(i - 1) : Top(j) % Radix = DigitOf(symbols[j])
    BY <1>8
  <2>4. (\A j \in 1..i : Top(j) % Radix = DigitOf(symbols[j]))
          <=> d = c /\ \A j \in 1..(i - 1) : Top(j) % Radix = DigitOf(symbols[j])
    BY <1>2
  <2>5. (Top(i) = value[i]) <=> (u = v /\ d = c)
    <3> HIDE DEF u, v, c, d
    <3>1. ASSUME u * Radix + d = v * Radix + c PROVE u = v /\ d = c
      <4> DEFINE t == u * Radix + d
      <4>1. t \in Nat /\ t = v * Radix + c
        BY <1>2, <2>1, <3>1
      <4>2. t = u * Radix + d
        OBVIOUS
      <4> HIDE DEF t
      <4>3. t \div Radix = u /\ t % Radix = d
        BY <1>2, <2>1, <4>1, <4>2, DivUnique
      <4>4. t \div Radix = v /\ t % Radix = c
        BY <1>2, <2>1, <4>1, DivUnique
      <4> QED
        BY <4>3, <4>4
    <3> QED
      BY <2>2, <3>1
  <2>6. i \in 0..n
    BY <1>5
  <2> HIDE DEF u, v, c, d
  <2> QED
    BY <2>3, <2>4, <2>5, <2>6
<1>9. \A i \in 0..n : i \in good
  <2> HIDE DEF good
  <2> QED
    BY <1>2, <1>7, <1>8, UpTo
<1>10. Top(n) = value[n] <=> \A j \in 1..n : Top(j) % Radix = DigitOf(symbols[j])
  <2>1. n \in 0..n
    BY <1>2
  <2> QED
    BY <1>9, <2>1
<1> QED
  BY <1>1, <1>6, <1>10 DEF Top, n

--------------------------------------------------------------------------------
(* Prefixes and matchers.                                                       *)

\* A character equals another but for its case if it is the other, or the other's swapped.
LEMMA Cases ==
  \A c, d \in Characters :
    /\ LooseEqual(d, c) <=> d = c \/ d = Swapped(c)
    /\ LooseEqual(d, c) <=> d \in CharacterOptions(c, FALSE)
    /\ d = c <=> d \in CharacterOptions(c, TRUE)
<1> SUFFICES ASSUME NEW c \in Characters, NEW d \in Characters
             PROVE  /\ LooseEqual(d, c) <=> d = c \/ d = Swapped(c)
                    /\ LooseEqual(d, c) <=> d \in CharacterOptions(c, FALSE)
                    /\ d = c <=> d \in CharacterOptions(c, TRUE)
  OBVIOUS
<1>1. IF c \in Letters
      THEN d \in Letters /\ Lower(d) = Lower(c) <=> d \in {c, Swapped(c)}
      ELSE Swapped(c) = c
  BY AlphabetIsBase58 DEF AlphabetAssumption
<1> QED
  BY <1>1 DEF LooseEqual, CharacterOptions

\* The bounds of a variant are those of the encodings whose first digits it is.
LEMMA Bounds ==
  ASSUME NEW variant \in Seq(Characters), Len(variant) <= AddressLength
  PROVE  /\ PrefixBound(variant, FALSE) \in Nat /\ PrefixBound(variant, TRUE) \in Nat
         /\ PrefixBound(variant, FALSE) <= PrefixBound(variant, TRUE)
         /\ \A e \in Nat : PrefixBound(variant, FALSE) <= e /\ e <= PrefixBound(variant, TRUE)
                             <=> e \div Place[AddressLength - Len(variant)] = Number(variant)
<1> DEFINE room == Place[AddressLength - Len(variant)]
           value == Number(variant)
<1>1. room \in Nat \ {0}
  <2>1. AddressLength - Len(variant) \in 0..AddressLength
    BY AlphabetFacts
  <2> QED
    BY <2>1, Places
<1>2. value \in Nat
  <2>1. PICK f \in [0..Len(variant) -> Nat] : Number(variant) = f[Len(variant)]
    BY NumberIs
  <2>2. Len(variant) \in 0..Len(variant)
    OBVIOUS
  <2> QED
    BY <2>1, <2>2
<1>3. PrefixBound(variant, FALSE) = value * room /\ PrefixBound(variant, TRUE) = (value + 1) * room - 1
  BY DEF PrefixBound, Number
<1> HIDE DEF room, value
<1>4. value * room \in Nat /\ (value + 1) * room = value * room + room
  BY <1>1, <1>2
<1>5. ASSUME NEW e \in Nat
      PROVE  value * room <= e /\ e <= (value + 1) * room - 1 <=> e \div room = value
  <2> DEFINE q == e \div room
             r == e % room
  <2>1. q \in Nat /\ r \in 0..(room - 1) /\ e = room * q + r
    BY <1>1, DivMod
  <2> HIDE DEF q, r
  <2>2. room * q = q * room
    BY <1>1, <2>1
  <2>3. ASSUME q = value PROVE value * room <= e /\ e <= (value + 1) * room - 1
    BY <1>1, <1>4, <2>1, <2>2, <2>3
  <2>4. ASSUME value * room <= e, e <= (value + 1) * room - 1 PROVE q = value
    <3> DEFINE s == e - value * room
    <3>1. s \in 0..(room - 1) /\ e = value * room + s
      BY <1>1, <1>4, <2>4
    <3> HIDE DEF s
    <3> QED
      BY <1>1, <1>2, <3>1, DivUnique DEF q
  <2> QED
    BY <2>3, <2>4 DEF q
<1>6. /\ PrefixBound(variant, FALSE) \in Nat /\ PrefixBound(variant, TRUE) \in Nat
      /\ PrefixBound(variant, FALSE) <= PrefixBound(variant, TRUE)
  <2> DEFINE k == value * room
             l == (value + 1) * room
  <2>1. k \in Nat /\ l = k + room /\ PrefixBound(variant, FALSE) = k /\ PrefixBound(variant, TRUE) = l - 1
    BY <1>3, <1>4
  <2> HIDE DEF k, l
  <2>2. k \in Nat /\ l - 1 \in Nat /\ k <= l - 1
    BY <1>1, <2>1
  <2> QED
    BY ONLY <2>1, <2>2
<1>7. \A e \in Nat : PrefixBound(variant, FALSE) <= e /\ e <= PrefixBound(variant, TRUE)
                       <=> e \div room = value
  BY <1>3, <1>5
<1>8. \A e \in Nat : PrefixBound(variant, FALSE) <= e /\ e <= PrefixBound(variant, TRUE)
                       <=> e \div Place[AddressLength - Len(variant)] = Number(variant)
  BY ONLY <1>7 DEF room, value
<1> QED
  BY ONLY <1>6, <1>8

\* A variant is the T and the prefix with some of its letters in the other case.
Variant(prefix, swapped) ==
  <<MainnetT>> \o [i \in 1..Len(prefix) |-> IF i \in swapped THEN Swapped(prefix[i]) ELSE prefix[i]]

LEMMA VariantIs ==
  ASSUME NEW prefix \in Seq(Characters), NEW swapped \in SUBSET VariablePositions(prefix)
  PROVE  /\ Variant(prefix, swapped) \in Seq(Characters)
         /\ Len(Variant(prefix, swapped)) = Len(prefix) + 1
         /\ Variant(prefix, swapped)[1] = MainnetT
         /\ \A i \in 1..Len(prefix) : Variant(prefix, swapped)[i + 1]
                                        = IF i \in swapped THEN Swapped(prefix[i]) ELSE prefix[i]
<1> DEFINE n == Len(prefix)
           rest == [i \in 1..n |-> IF i \in swapped THEN Swapped(prefix[i]) ELSE prefix[i]]
<1>1. n \in Nat /\ MainnetT \in Characters /\ \A i \in 1..n : prefix[i] \in Characters
  BY AlphabetIsBase58 DEF AlphabetAssumption
<1>2. \A i \in 1..n : rest[i] \in Characters
  BY <1>1 DEF VariablePositions
<1>3. rest \in Seq(Characters) /\ Len(rest) = n
  BY <1>1, <1>2
<1>4. \A i \in 1..n : rest[i] = IF i \in swapped THEN Swapped(prefix[i]) ELSE prefix[i]
  OBVIOUS
<1>5. Variant(prefix, swapped) = <<MainnetT>> \o rest
  BY DEF Variant
<1> HIDE DEF rest
<1>6. <<MainnetT>> \in Seq(Characters) /\ Len(<<MainnetT>>) = 1
  BY <1>1
<1>7. /\ <<MainnetT>> \o rest \in Seq(Characters) /\ Len(<<MainnetT>> \o rest) = n + 1
      /\ (<<MainnetT>> \o rest)[1] = MainnetT
      /\ \A i \in 1..n : (<<MainnetT>> \o rest)[i + 1] = rest[i]
  BY <1>1, <1>3, <1>6
<1> QED
  BY <1>4, <1>5, <1>7

LEMMA VariantsFit ==
  ASSUME NEW prefix \in Seq(Characters), Len(prefix) < AddressLength, NEW v \in Variants(prefix)
  PROVE  v \in Seq(Characters) /\ Len(v) <= AddressLength
<1>1. PICK swapped \in SUBSET VariablePositions(prefix) :
        v = Variant(prefix, swapped)
  BY DEF Variants, Variant
<1>2. v \in Seq(Characters) /\ Len(v) = Len(prefix) + 1
  BY <1>1, VariantIs
<1>3. AddressLength \in Nat /\ Len(prefix) \in Nat
  BY AlphabetFacts
<1> QED
  BY <1>2, <1>3

\* An address is of the alphabet's characters.
LEMMA Characterwise ==
  ASSUME NEW e \in Nat
  PROVE  \A i \in 1..AddressLength : AddressOf(e)[i] \in Characters
<1> SUFFICES ASSUME NEW i \in 1..AddressLength PROVE AddressOf(e)[i] \in Characters
  OBVIOUS
<1> DEFINE p == Place[AddressLength - i]
           q == e \div p
           d == q % Radix
<1>1. p \in Nat \ {0}
  <2>1. AddressLength - i \in 0..AddressLength
    BY AlphabetFacts
  <2> QED
    BY <2>1, Places
<1>2. q \in Nat
  <2> HIDE DEF p
  <2> QED
    BY <1>1, DivMod
<1>3. d \in 0..(Radix - 1)
  <2> HIDE DEF q
  <2> QED
    BY <1>2, AlphabetFacts, DivMod
<1>4. AddressOf(e)[i] = Alphabet[d + 1]
  BY DEF AddressOf
<1> HIDE DEF d
<1> QED
  BY <1>3, <1>4, AlphabetFacts

\* An address has a prefix if its encoding is between the bounds of a variant.
LEMMA PrefixMatches ==
  ASSUME NEW prefix \in Seq(Characters), Len(prefix) < AddressLength,
         NEW e \in Nat, e < Place[AddressLength], AddressOf(e)[1] = MainnetT
  PROVE  PatternMatches(AddressOf(e), prefix, <<>>)
           <=> \E v \in Variants(prefix) : PrefixBound(v, FALSE) <= e /\ e <= PrefixBound(v, TRUE)
<1> DEFINE n == Len(prefix)
           a == AddressOf(e)
           P == VariablePositions(prefix)
<1>1. n \in Nat /\ n < AddressLength /\ AddressLength \in Nat /\ MainnetT \in Characters
      /\ \A i \in 1..n : prefix[i] \in Characters
  BY AlphabetIsBase58, AlphabetFacts DEF AlphabetAssumption
<1>2. \A i \in 1..AddressLength : a[i] \in Characters
  BY Characterwise
<1>3. Variants(prefix) = {Variant(prefix, swapped) : swapped \in SUBSET P}
  BY DEF Variants, Variant
<1>4. P \subseteq 2..n /\ \A i \in 2..n : i \in P <=> Swapped(prefix[i]) # prefix[i] /\ Swapped(prefix[i]) \in Characters
  BY DEF VariablePositions
<1> HIDE DEF P
<1>5. ASSUME NEW swapped \in SUBSET P
      PROVE  /\ Variant(prefix, swapped) \in Seq(Characters) /\ Len(Variant(prefix, swapped)) = n + 1
             /\ Variant(prefix, swapped)[1] = MainnetT
             /\ \A i \in 1..n : Variant(prefix, swapped)[i + 1]
                                  = IF i \in swapped THEN Swapped(prefix[i]) ELSE prefix[i]
  BY VariantIs DEF P
<1>6. ASSUME NEW swapped \in SUBSET P
      PROVE  PrefixBound(Variant(prefix, swapped), FALSE) <= e /\ e <= PrefixBound(Variant(prefix, swapped), TRUE)
               <=> \A i \in 1..n : a[i + 1] = IF i \in swapped THEN Swapped(prefix[i]) ELSE prefix[i]
  <2> DEFINE v == Variant(prefix, swapped)
  <2>1. v \in Seq(Characters) /\ Len(v) = n + 1 /\ v[1] = MainnetT
        /\ \A i \in 1..n : v[i + 1] = IF i \in swapped THEN Swapped(prefix[i]) ELSE prefix[i]
    BY <1>5
  <2> HIDE DEF v
  <2>2. Len(v) <= AddressLength
    BY <1>1, <2>1
  <2>3. PrefixBound(v, FALSE) <= e /\ e <= PrefixBound(v, TRUE)
          <=> e \div Place[AddressLength - Len(v)] = Number(v)
    BY <2>1, <2>2, Bounds
  <2>4. e \div Place[AddressLength - Len(v)] = Number(v) <=> \A i \in 1..Len(v) : a[i] = v[i]
    BY <2>1, <2>2, Digits
  <2>5. (\A i \in 1..Len(v) : a[i] = v[i]) <=> \A i \in 1..n : a[i + 1] = v[i + 1]
    <3> HIDE DEF a, n
    <3>1. a[1] = v[1]
      BY <2>1 DEF a
    <3>2. ASSUME NEW i \in 1..Len(v), i # 1 PROVE i - 1 \in 1..n /\ (i - 1) + 1 = i
      BY <1>1, <2>1, <3>2
    <3>3. \A i \in 1..n : i + 1 \in 1..Len(v)
      BY <1>1, <2>1
    <3> QED
      BY <3>1, <3>2, <3>3
  <2> QED
    BY <2>1, <2>3, <2>4, <2>5 DEF v
<1> HIDE DEF a, n
<1>7. PatternMatches(a, prefix, <<>>)
        <=> \A i \in 1..n : IF i = 1 THEN a[2] = prefix[1] ELSE LooseEqual(a[i + 1], prefix[i])
  BY DEF PatternMatches, n
<1>8. ASSUME NEW i \in 1..n
      PROVE  a[i + 1] \in Characters /\ prefix[i] \in Characters
  BY <1>1, <1>2
<1>9. ASSUME PatternMatches(a, prefix, <<>>)
      PROVE  \E s \in SUBSET P : \A i \in 1..n :
               a[i + 1] = IF i \in s THEN Swapped(prefix[i]) ELSE prefix[i]
  <2> DEFINE s == {i \in P : a[i + 1] = Swapped(prefix[i])}
  <2>1. ASSUME NEW i \in 1..n
        PROVE  a[i + 1] = IF i \in s THEN Swapped(prefix[i]) ELSE prefix[i]
    <3>1. CASE i = 1
      <4>1. a[1 + 1] = prefix[1] /\ 1 \notin P
        BY <1>1, <1>4, <1>7, <1>9, <3>1
      <4> QED
        BY <3>1, <4>1
    <3>2. CASE i # 1
      <4>1. LooseEqual(a[i + 1], prefix[i])
        BY <1>7, <1>9, <3>2
      <4>2. a[i + 1] = prefix[i] \/ a[i + 1] = Swapped(prefix[i])
        BY <1>8, <4>1, Cases
      <4>3. i \in 2..n
        BY <1>1, <3>2
      <4> QED
        BY <1>4, <1>8, <4>2, <4>3
    <3> QED
      BY <3>1, <3>2
  <2>2. s \in SUBSET P
    OBVIOUS
  <2> HIDE DEF s
  <2> QED
    BY <2>1, <2>2
<1>10. ASSUME NEW s \in SUBSET P,
              \A i \in 1..n : a[i + 1] = IF i \in s THEN Swapped(prefix[i]) ELSE prefix[i]
       PROVE  PatternMatches(a, prefix, <<>>)
  <2>1. ASSUME NEW i \in 1..n
        PROVE  IF i = 1 THEN a[2] = prefix[1] ELSE LooseEqual(a[i + 1], prefix[i])
    <3>1. CASE i = 1
      <4>1. 1 \notin s /\ 1 + 1 = 2
        BY <1>1, <1>4
      <4> QED
        BY <1>10, <3>1, <4>1
    <3>2. CASE i # 1
      <4>1. a[i + 1] = prefix[i] \/ a[i + 1] = Swapped(prefix[i])
        BY <1>10
      <4> QED
        BY <1>8, <3>2, <4>1, Cases
    <3> QED
      BY <3>1, <3>2
  <2> QED
    BY <1>7, <2>1
<1>11. (\E v \in Variants(prefix) : PrefixBound(v, FALSE) <= e /\ e <= PrefixBound(v, TRUE))
         <=> \E s \in SUBSET P : /\ PrefixBound(Variant(prefix, s), FALSE) <= e
                                 /\ e <= PrefixBound(Variant(prefix, s), TRUE)
  BY <1>3
<1>12. (\E v \in Variants(prefix) : PrefixBound(v, FALSE) <= e /\ e <= PrefixBound(v, TRUE))
         <=> \E s \in SUBSET P : \A i \in 1..n :
               a[i + 1] = IF i \in s THEN Swapped(prefix[i]) ELSE prefix[i]
  BY <1>6, <1>11
<1>13. PatternMatches(a, prefix, <<>>)
         <=> \E s \in SUBSET P : \A i \in 1..n :
               a[i + 1] = IF i \in s THEN Swapped(prefix[i]) ELSE prefix[i]
  BY <1>9, <1>10
<1> QED
  BY <1>12, <1>13 DEF a

\* What the search and the server compare.
LEMMA MatchersAgree ==
  ASSUME NEW a, \A i \in 1..AddressLength : a[i] \in Characters, a[1] = MainnetT,
         NEW prefix \in Seq(Characters), Len(prefix) < AddressLength,
         NEW suffix \in Seq(Characters), Len(suffix) <= AddressLength
  PROVE  PatternMatches(a, prefix, suffix) <=> MatchesSpec(a, prefix, suffix)
<1> DEFINE n == Len(prefix)
           m == Len(suffix)
           whole == <<MainnetT>> \o prefix
<1>1. n \in Nat /\ n < AddressLength /\ m \in Nat /\ m <= AddressLength /\ AddressLength \in Nat
      /\ MainnetT \in Characters
      /\ (\A i \in 1..n : prefix[i] \in Characters) /\ \A i \in 1..m : suffix[i] \in Characters
  BY AlphabetIsBase58, AlphabetFacts DEF AlphabetAssumption
<1>2. /\ Len(whole) = n + 1 /\ whole[1] = MainnetT
      /\ \A i \in 1..n : whole[i + 1] = prefix[i]
  BY <1>1
<1> HIDE DEF n, m, whole
<1>3. (\A i \in 1..m : LooseEqual(a[AddressLength - m + i], suffix[i]))
        <=> \A i \in 1..m : a[AddressLength - m + i] \in CharacterOptions(suffix[i], FALSE)
  <2> SUFFICES ASSUME NEW i \in 1..m
               PROVE  LooseEqual(a[AddressLength - m + i], suffix[i])
                        <=> a[AddressLength - m + i] \in CharacterOptions(suffix[i], FALSE)
    OBVIOUS
  <2>1. AddressLength - m + i \in 1..AddressLength
    BY <1>1
  <2>2. a[AddressLength - m + i] \in Characters /\ suffix[i] \in Characters
    BY <1>1, <2>1
  <2> QED
    BY <2>2, Cases
<1>4. (\A i \in 1..n : IF i = 1 THEN a[2] = prefix[1] ELSE LooseEqual(a[i + 1], prefix[i]))
        <=> \A i \in 1..n : a[i + 1] \in CharacterOptions(whole[i + 1], i + 1 <= 2)
  <2> SUFFICES ASSUME NEW i \in 1..n
               PROVE  (IF i = 1 THEN a[2] = prefix[1] ELSE LooseEqual(a[i + 1], prefix[i]))
                        <=> a[i + 1] \in CharacterOptions(whole[i + 1], i + 1 <= 2)
    OBVIOUS
  <2>1. a[i + 1] \in Characters /\ prefix[i] \in Characters /\ whole[i + 1] = prefix[i]
    BY <1>1, <1>2
  <2>2. CASE i = 1
    <3>1. (i + 1 <= 2) = TRUE /\ i + 1 = 2
      BY <2>2
    <3>2. a[2] = prefix[1] <=> a[2] \in CharacterOptions(prefix[1], TRUE)
      BY <2>1, <2>2, <3>1, Cases
    <3> QED
      BY <2>1, <2>2, <3>1, <3>2
  <2>3. CASE i # 1
    <3>1. (i + 1 <= 2) = FALSE
      BY <1>1, <2>3
    <3>2. LooseEqual(a[i + 1], prefix[i]) <=> a[i + 1] \in CharacterOptions(prefix[i], FALSE)
      BY ZenonT(40), <2>1, Cases
    <3> QED
      BY <2>1, <2>3, <3>1, <3>2
  <2> QED
    BY <2>2, <2>3
<1>5. (\A i \in 1..Len(whole) : a[i] \in CharacterOptions(whole[i], i <= 2))
        <=> \A i \in 1..n : a[i + 1] \in CharacterOptions(whole[i + 1], i + 1 <= 2)
  <2>1. a[1] \in CharacterOptions(whole[1], 1 <= 2)
    BY <1>2 DEF CharacterOptions
  <2>2. ASSUME NEW i \in 1..Len(whole), i # 1 PROVE i - 1 \in 1..n /\ (i - 1) + 1 = i
    BY <1>1, <1>2, <2>2
  <2>3. \A i \in 1..n : i + 1 \in 1..Len(whole)
    BY <1>1, <1>2
  <2>4. ASSUME \A i \in 1..n : a[i + 1] \in CharacterOptions(whole[i + 1], i + 1 <= 2),
               NEW i \in 1..Len(whole)
        PROVE  a[i] \in CharacterOptions(whole[i], i <= 2)
    <3>1. CASE i = 1
      BY <2>1, <3>1
    <3>2. CASE i # 1
      <4> DEFINE j == i - 1
      <4>1. j \in 1..n /\ j + 1 = i
        BY <2>2, <3>2
      <4> HIDE DEF j
      <4>2. a[j + 1] \in CharacterOptions(whole[j + 1], j + 1 <= 2)
        BY <2>4, <4>1
      <4> QED
        BY <4>1, <4>2
    <3> QED
      BY <3>1, <3>2
  <2> QED
    BY <2>3, <2>4
<1> QED
  BY <1>3, <1>4, <1>5 DEF PatternMatches, MatchesSpec, n, m, whole

\* One element after another.
LEMMA Second ==
  ASSUME NEW S, NEW o \in Seq(S), NEW x \in S, Len(o) = 1
  PROVE  /\ Append(o, x) \in Seq(S) /\ Len(Append(o, x)) = 2
         /\ Append(o, x)[1] = o[1] /\ Append(o, x)[2] = x
<1>1. Append(o, x) \in Seq(S)
  BY AppendProperties
<1>2. Len(Append(o, x)) = Len(o) + 1
  BY AppendProperties
<1>3. \A i \in 1..Len(o) : Append(o, x)[i] = o[i]
  BY SMTT(20), AppendProperties
<1>4. Append(o, x)[Len(o) + 1] = x
  BY AppendProperties
<1>5. Len(o) + 1 = 2 /\ 1 \in 1..Len(o)
  OBVIOUS
<1> QED
  BY <1>1, <1>2, <1>3, <1>4, <1>5

\* What a behaviour has taken is of its subject.
Taken ==
  /\ subject \in {"field", "group", "pattern"}
  /\ operands \in Seq(FirstOperands[subject] \cup SecondOperands[subject])
  /\ Len(operands) \in {1, 2}
  /\ operands[1] \in FirstOperands[subject]
  /\ Len(operands) = 2 => operands[2] \in SecondOperands[subject]

LEMMA OperandsTaken == Spec => []Taken
<1>1. Init => Taken
  <2> SUFFICES ASSUME Init PROVE Taken
    OBVIOUS
  <2>1. subject \in {"field", "group", "pattern"}
    BY DEF Init, FirstOperands
  <2>2. PICK p \in FirstOperands[subject] : operands = <<p>>
    BY DEF Init
  <2> QED
    BY <2>1, <2>2 DEF Taken
<1>2. Taken /\ [Next]_vars => Taken'
  <2> SUFFICES ASSUME Taken, [Next]_vars PROVE Taken'
    OBVIOUS
  <2>1. CASE Next
    <3>1. PICK s \in SecondOperands[subject] :
            operands' = Append(operands, s) /\ Len(operands) # 2 /\ subject' = subject
      BY <2>1 DEF Next, Both
    <3>2. FirstOperands' = FirstOperands /\ SecondOperands' = SecondOperands
      BY DEF FirstOperands, SecondOperands
    <3> DEFINE D == FirstOperands[subject] \cup SecondOperands[subject]
    <3>3. operands \in Seq(D) /\ s \in D /\ Len(operands) = 1
      BY <3>1 DEF Taken
    <3> HIDE DEF D
    <3>4. /\ Append(operands, s) \in Seq(D) /\ Len(Append(operands, s)) = 2
          /\ Append(operands, s)[1] = operands[1] /\ Append(operands, s)[2] = s
      BY ONLY <3>3, Second
    <3> QED
      BY <3>1, <3>2, <3>4 DEF D, Taken
  <2>2. CASE UNCHANGED vars
    BY <2>2 DEF vars, FirstOperands, SecondOperands, Taken
  <2> QED
    BY <2>1, <2>2
<1> QED
  BY <1>1, <1>2, PTL DEF Spec

\* A product modulo the prime, by the bytes of a factor, is the product modulo the prime.
LEMMA TimesIs ==
  ASSUME NEW a \in Nat, NEW b \in Nat
  PROVE  Times(a, b) = (a * b) % PrimeNumber
<1> DEFINE p == PrimeNumber
           q == b \div 256
           r == b % 256
           high == a * q
           low == a * r
           m == high % p
           k == high \div p
           v == m * 256 + low
           s == v % p
           j == v \div p
<1>1. p \in Nat \ {0}
  BY PrimeIs
<1>2. q \in Nat /\ r \in Nat /\ b = 256 * q + r
  <2>1. 256 \in Nat \ {0}
    OBVIOUS
  <2>2. q \in Nat /\ r \in 0..255 /\ b = 256 * q + r
    BY <2>1, DivMod
  <2> QED
    BY <2>2
<1> HIDE DEF p, q, r
<1>3. high \in Nat /\ low \in Nat
  BY <1>2
<1>4. a * b = 256 * high + low
  <2>1. a * b = a * (256 * q + r)
    BY <1>2
  <2>2. a * (256 * q + r) = 256 * (a * q) + a * r
    BY <1>2
  <2> QED
    BY <2>1, <2>2
<1> HIDE DEF high, low
<1>5. k \in Nat /\ m \in 0..(p - 1) /\ high = p * k + m
  BY <1>1, <1>3, DivMod
<1> HIDE DEF m, k
<1>6. v \in Nat
  BY <1>1, <1>3, <1>5
<1>7. v = 256 * m + low
  BY <1>1, <1>3, <1>5
<1>8. Times(a, b) = s
  BY DEF Times, s, v, m, high, low, q, r, p
<1> HIDE DEF v
<1>9. j \in Nat /\ s \in 0..(p - 1) /\ v = p * j + s
  BY <1>1, <1>6, DivMod
<1> HIDE DEF s, j
<1>10. a * b = (256 * k + j) * p + s
  <2> DEFINE x == p * k
             y == p * j
  <2>1. x \in Nat /\ y \in Nat /\ (256 * k + j) * p = 256 * x + y
    BY <1>1, <1>5, <1>9
  <2>2. high = x + m /\ v = y + s
    BY <1>5, <1>9
  <2> HIDE DEF x, y
  <2> QED
    BY <1>1, <1>3, <1>4, <1>5, <1>7, <1>9, <2>1, <2>2
<1>11. a * b \in Nat /\ 256 * k + j \in Nat
  BY <1>5, <1>9
<1> DEFINE product == a * b
           factor == 256 * k + j
<1>12. product \in Nat /\ factor \in Nat /\ product = factor * p + s
  BY <1>10, <1>11
<1> HIDE DEF product, factor
<1>13. product % p = s
  BY ONLY <1>1, <1>9, <1>12, DivUnique
<1> QED
  BY <1>8, <1>13 DEF product, p

\* Two elements' remainder is below 2^256.
LEMMA RemainderBelow ==
  ASSUME NEW a \in 0..(PrimeNumber - 1), NEW b \in 0..(PrimeNumber - 1)
  PROVE  /\ (a + b) % PrimeNumber \in Nat /\ (a + b) % PrimeNumber < Above
         /\ (a - b) % PrimeNumber \in Nat /\ (a - b) % PrimeNumber < Above
         /\ (a * b) % PrimeNumber \in Nat /\ (a * b) % PrimeNumber < Above
<1> DEFINE p == PrimeNumber
           c == a * b
<1>0. p \in Nat \ {0} /\ p <= Above /\ Above \in Nat /\ a \in 0..(p - 1) /\ b \in 0..(p - 1)
  BY PrimeIs, Sizes
<1> HIDE DEF p
<1>1. a + b \in Nat /\ c \in Nat
  BY <1>0
<1> HIDE DEF c
<1>2. (a + b) % p \in 0..(p - 1) /\ c % p \in 0..(p - 1)
  BY <1>0, <1>1, DivMod
<1>3. (a - b) % p \in 0..(p - 1)
  BY <1>0
<1> QED
  BY <1>0, <1>2, <1>3 DEF p, c

\* Both representations compute the sum, the difference and the product modulo the prime and agree,
\* for any widths of the limbs and the accumulators, constant and elements: what the kernels' carries,
\* borrows, folds and final subtractions leave is the remainder.
THEOREM FieldsAgree == Spec => []FieldAgrees
<1>1. Taken => FieldAgrees
  <2> SUFFICES ASSUME Taken, subject = "field", Both
               PROVE  LET left == LimbsOf(first, Base, 4)
                          right == LimbsOf(second, Base, 4)
                          oldLeft == LimbsOf(first, HalfBase, 8)
                          oldRight == LimbsOf(second, HalfBase, 8)
                          sum == LimbsOf((first + second) % PrimeNumber, Base, 4)
                          difference == LimbsOf((first - second) % PrimeNumber, Base, 4)
                          product == LimbsOf(Times(first, second), Base, 4)
                      IN  /\ ChainAdd(left, right) = sum
                          /\ FromLegacy(LegacyAdd(oldLeft, oldRight)) = sum
                          /\ ChainSubtract(left, right) = difference
                          /\ FromLegacy(LegacySubtract(oldLeft, oldRight)) = difference
                          /\ ChainMultiply(left, right) = product
                          /\ FromLegacy(LegacyMultiply(oldLeft, oldRight)) = product
    BY DEF FieldAgrees
  <2> DEFINE a == first
             b == second
  <2>1. a \in 0..(PrimeNumber - 1) /\ b \in 0..(PrimeNumber - 1)
    <3>1. FirstOperands[subject] = FieldSamples /\ SecondOperands[subject] = FieldSamples
      BY DEF FirstOperands, SecondOperands
    <3> QED
      BY <3>1, SamplesFit DEF Both, first, second, Taken, SamplesAssumption
  <2> HIDE DEF a, b
  <2>2. Times(a, b) = (a * b) % PrimeNumber
    <3>1. a \in Nat /\ b \in Nat
      BY <2>1, OperandIs
    <3> QED
      BY <3>1, TimesIs
  <2>3. /\ ChainAdd(LimbsOf(a, Base, 4), LimbsOf(b, Base, 4))
             = LimbsOf((a + b) % PrimeNumber, Base, 4)
        /\ FromLegacy(LegacyAdd(LimbsOf(a, HalfBase, 8), LimbsOf(b, HalfBase, 8)))
             = LimbsOf((a + b) % PrimeNumber, Base, 4)
    BY <2>1, ChainAddIsSum, LegacyAddIsSum, RemainderBelow, FromLegacyIsSame
  <2>4. /\ ChainSubtract(LimbsOf(a, Base, 4), LimbsOf(b, Base, 4))
             = LimbsOf((a - b) % PrimeNumber, Base, 4)
        /\ FromLegacy(LegacySubtract(LimbsOf(a, HalfBase, 8), LimbsOf(b, HalfBase, 8)))
             = LimbsOf((a - b) % PrimeNumber, Base, 4)
    BY <2>1, ChainSubtractIsDifference, LegacySubtractIsDifference, RemainderBelow, FromLegacyIsSame
  <2>5. /\ ChainMultiply(LimbsOf(a, Base, 4), LimbsOf(b, Base, 4))
             = LimbsOf((a * b) % PrimeNumber, Base, 4)
        /\ FromLegacy(LegacyMultiply(LimbsOf(a, HalfBase, 8), LimbsOf(b, HalfBase, 8)))
             = LimbsOf((a * b) % PrimeNumber, Base, 4)
    BY <2>1, ChainMultiplyIsProduct, LegacyMultiplyIsProduct, RemainderBelow, FromLegacyIsSame
  <2> QED
    BY <2>2, <2>3, <2>4, <2>5 DEF a, b
<1> QED
  BY <1>1, OperandsTaken, PTL

\* The points are the group, and the kernels' shortcuts stay in it, for any prime, generator and
\* order of the group that its multiples are assumed to form.
THEOREM GroupAgrees == Spec => []PointsAgree
<1>1. Taken => PointsAgree
  <2> SUFFICES ASSUME Taken, subject = "group", Both
               PROVE  /\ OnCurve(At(first)) /\ Sums[GroupOrder] = AtInfinity
                      /\ ScalarMultiply(first) = At(first)
                      /\ first # second => At(first) # At(second)
                      /\ PointAdd(At(first), At(second)) = At(first + second)
                      /\ second # 0 =>
                           AdvanceChains([i \in 1..3 |-> At(first + i - 1)], At(second))
                             = [i \in 1..3 |-> At(first + second + i - 1)]
                      /\ first # 0 /\ second = 0 =>
                           SymmetricBatch(At(first))
                             = [d \in (-TableSize)..TableSize |-> At(first + d)]
    BY DEF PointsAgree
  <2>1. first \in 0..(GroupOrder - 1) /\ second \in 0..(GroupOrder - 1)
    <3>1. /\ FirstOperands[subject] = 0..(GroupOrder - 1)
          /\ SecondOperands[subject] = 0..(GroupOrder - 1)
      BY DEF FirstOperands, SecondOperands
    <3> QED
      BY <3>1 DEF Both, first, second, Taken
  <2>2. /\ GroupOrder \in Nat \ {0, 1} /\ TableSize \in 0..(GroupOrder - 1)
        /\ At(0) = AtInfinity /\ Sums[GroupOrder] = AtInfinity
        /\ \A n \in 1..(GroupOrder - 1) : OnCurve(At(n))
        /\ \A m, n \in 0..(GroupOrder - 1) :
             PointAdd(At(m), At(n)) = At(m + n) /\ (m # n => At(m) # At(n))
    BY CurveIsGroup DEF CurveAssumption
  <2> DEFINE f == first
             s == second
  <2>3. /\ f \in Nat /\ f \in Int /\ s \in Int /\ f - 1 \in Int
        /\ TableSize \in Nat /\ 3 \in Nat
        /\ 1..TableSize \subseteq 1..(GroupOrder - 1)
        /\ f # 0 => f \in 1..(GroupOrder - 1)
        /\ s # 0 => s \in 1..(GroupOrder - 1)
    BY <2>1, <2>2
  <2>4. \A n \in Int : Multiple[n] = At(n)
    BY DEF Multiple
  <2>5. OnCurve(At(f))
    <3>1. OnCurve(AtInfinity)
      BY DEF OnCurve, AtInfinity
    <3> QED
      BY <2>2, <2>3, <3>1
  <2>6. ScalarMultiply(f) = At(f)
    BY <2>3, <2>4, MultiplesAre, ScalarIsMultiple
  <2>7. /\ \A count \in Nat, start, stride \in Int : ~Multiple[stride].infinity =>
             AdvanceChains([i \in 1..count |-> Multiple[start + i]], Multiple[stride])
               = [i \in 1..count |-> Multiple[start + i + stride]]
        /\ \A start \in Int : ~Multiple[start].infinity =>
             SymmetricBatch(Multiple[start])
               = [d \in (-TableSize)..TableSize |-> Multiple[start + d]]
    BY <2>3, MultiplesAre, ShortcutsStayInGroup
  <2>8. s # 0 => AdvanceChains([i \in 1..3 |-> At(f + i - 1)], At(s))
                   = [i \in 1..3 |-> At(f + s + i - 1)]
    <3> SUFFICES ASSUME s # 0
                 PROVE  AdvanceChains([i \in 1..3 |-> At(f + i - 1)], At(s))
                          = [i \in 1..3 |-> At(f + s + i - 1)]
      OBVIOUS
    <3> HIDE DEF f, s
    <3>1. ~Multiple[s].infinity
      BY <2>3, MultiplesAre
    <3>2. AdvanceChains([i \in 1..3 |-> Multiple[(f - 1) + i]], Multiple[s])
            = [i \in 1..3 |-> Multiple[(f - 1) + i + s]]
      <4> DEFINE start == f - 1
      <4>1. start \in Int
        BY <2>3
      <4> HIDE DEF start
      <4>2. AdvanceChains([i \in 1..3 |-> Multiple[start + i]], Multiple[s])
              = [i \in 1..3 |-> Multiple[start + i + s]]
        <5>1. \A a, c \in Int : ~Multiple[c].infinity =>
                AdvanceChains([i \in 1..3 |-> Multiple[a + i]], Multiple[c])
                  = [i \in 1..3 |-> Multiple[a + i + c]]
          BY ONLY <2>7, 3 \in Nat, ZenonT(20)
        <5> QED
          BY <2>3, <5>1, <3>1, <4>1
      <4> QED
        BY <4>2 DEF start
    <3>3. ASSUME NEW i \in 1..3
          PROVE  /\ Multiple[(f - 1) + i] = At(f + i - 1)
                 /\ Multiple[(f - 1) + i + s] = At(f + s + i - 1)
      <4>1. /\ (f - 1) + i \in Int /\ (f - 1) + i = f + i - 1
            /\ (f - 1) + i + s \in Int /\ (f - 1) + i + s = f + s + i - 1
        BY <2>3
      <4> QED
        BY <2>4, <4>1
    <3>4. Multiple[s] = At(s)
      BY <2>3, <2>4
    <3>5. [i \in 1..3 |-> Multiple[(f - 1) + i]] = [i \in 1..3 |-> At(f + i - 1)]
      BY <3>3
    <3>6. [i \in 1..3 |-> Multiple[(f - 1) + i + s]] = [i \in 1..3 |-> At(f + s + i - 1)]
      BY <3>3
    <3> QED
      BY <3>2, <3>4, <3>5, <3>6
  <2>9. f # 0 => SymmetricBatch(At(f)) = [d \in (-TableSize)..TableSize |-> At(f + d)]
    <3> SUFFICES ASSUME f # 0
                 PROVE  SymmetricBatch(At(f)) = [d \in (-TableSize)..TableSize |-> At(f + d)]
      OBVIOUS
    <3> HIDE DEF f, s
    <3>1. ~Multiple[f].infinity
      BY <2>3, MultiplesAre
    <3>2. SymmetricBatch(Multiple[f]) = [d \in (-TableSize)..TableSize |-> Multiple[f + d]]
      BY <2>3, <2>7, <3>1
    <3>3. \A d \in (-TableSize)..TableSize : f + d \in Int /\ Multiple[f + d] = At(f + d)
      BY <2>3, <2>4
    <3>4. [d \in (-TableSize)..TableSize |-> Multiple[f + d]]
            = [d \in (-TableSize)..TableSize |-> At(f + d)]
      BY <3>3
    <3> QED
      BY <2>3, <2>4, <3>2, <3>4
  <2> QED
    BY <2>1, <2>2, <2>5, <2>6, <2>8, <2>9
<1> QED
  BY <1>1, OperandsTaken, PTL

\* The prefilter lets a payload pass exactly if an address of it has the prefix, and the search
\* and the server accept the same addresses, for any alphabet, prefixes, suffixes and payloads.
THEOREM MatchingAgrees == Spec => []PatternsAgree
<1>1. Taken => PatternsAgree
  <2> SUFFICES ASSUME Taken, subject = "pattern"
               PROVE  IF ~Both
                      THEN \A payload \in Payloads :
                             PayloadMayMatch(payload, PrefixIntervals(first)) =
                               \E address \in Addresses[payload] : PatternMatches(address, first, <<>>)
                      ELSE \A payload \in Payloads : \A address \in Addresses[payload] :
                             PatternMatches(address, first, second) = MatchesSpec(address, first, second)
    BY DEF PatternsAgree
  <2>1. /\ first \in RequestedPrefixes
        /\ Both => second \in RequestedSuffixes
    <3>1. FirstOperands[subject] = RequestedPrefixes /\ SecondOperands[subject] = RequestedSuffixes
      BY DEF FirstOperands, SecondOperands
    <3> QED
      BY <3>1 DEF Both, first, second, Taken
  <2>2. first \in Seq(Characters) /\ Len(first) < AddressLength
    BY <2>1, PatternsFit DEF PatternAssumption
  <2>3. ASSUME NEW payload \in Payloads
        PROVE  /\ payload \in Nat
               /\ \A c \in 0..(Checksums - 1) :
                    /\ payload * Checksums + c \in Nat
                    /\ payload * Checksums + c < Place[AddressLength]
                    /\ AddressOf(payload * Checksums + c)[1] = MainnetT
               /\ Addresses[payload] = {AddressOf(payload * Checksums + c) : c \in 0..(Checksums - 1)}
    <3>1. /\ payload \in Nat /\ (payload + 1) * Checksums <= Place[AddressLength]
          /\ \A address \in AddressesOf(payload) : address[1] = MainnetT
      BY PatternsFit DEF PatternAssumption
    <3>2. Addresses[payload] = {AddressOf(payload * Checksums + c) : c \in 0..(Checksums - 1)}
      BY DEF Addresses, AddressesOf
    <3>3. Checksums \in Nat \ {0} /\ Place[AddressLength] \in Nat
      <4>1. AddressLength \in 0..AddressLength
        BY AlphabetFacts
      <4> QED
        BY <4>1, AlphabetFacts, Places
    <3>4. payload * Checksums \in Nat /\ (payload + 1) * Checksums = payload * Checksums + Checksums
      BY <3>1, <3>3
    <3>5. ASSUME NEW c \in 0..(Checksums - 1)
          PROVE  payload * Checksums + c \in Nat /\ payload * Checksums + c < Place[AddressLength]
      BY <3>1, <3>3, <3>4
    <3>6. \A c \in 0..(Checksums - 1) : AddressOf(payload * Checksums + c)[1] = MainnetT
      BY <3>1 DEF AddressesOf
    <3> QED
      BY <3>1, <3>2, <3>5, <3>6
  <2>4. ASSUME NEW payload \in Payloads
        PROVE  PayloadMayMatch(payload, PrefixIntervals(first)) =
                 \E address \in Addresses[payload] : PatternMatches(address, first, <<>>)
    <3> DEFINE From(v) == PrefixBound(v, FALSE)
               To(v) == PrefixBound(v, TRUE)
               Code(c) == payload * Checksums + c
    <3>1. PayloadMayMatch(payload, PrefixIntervals(first))
            <=> \E v \in Variants(first) :
                  payload >= From(v) \div Checksums /\ payload <= To(v) \div Checksums
      <4> DEFINE Interval(v) == [min |-> From(v) \div Checksums, max |-> To(v) \div Checksums]
      <4>1. PrefixIntervals(first) = {Interval(v) : v \in Variants(first)}
        BY DEF PrefixIntervals
      <4>2. \A v : Interval(v).min = From(v) \div Checksums /\ Interval(v).max = To(v) \div Checksums
        OBVIOUS
      <4> HIDE DEF Interval, From, To
      <4> QED
        BY <4>1, <4>2 DEF PayloadMayMatch
    <3>2. ASSUME NEW v \in Variants(first)
          PROVE  From(v) \in Nat /\ To(v) \in Nat /\ From(v) <= To(v)
      BY <2>2, VariantsFit, Bounds
    <3> HIDE DEF From, To
    <3>3. ASSUME NEW v \in Variants(first)
          PROVE  payload >= From(v) \div Checksums /\ payload <= To(v) \div Checksums
                   <=> \E c \in 0..(Checksums - 1) : From(v) <= Code(c) /\ Code(c) <= To(v)
      BY <2>3, <3>2, AlphabetFacts, Overlap
    <3>4. ASSUME NEW c \in 0..(Checksums - 1)
          PROVE  PatternMatches(AddressOf(Code(c)), first, <<>>)
                   <=> \E v \in Variants(first) : From(v) <= Code(c) /\ Code(c) <= To(v)
      <4> DEFINE e == Code(c)
      <4>1. e \in Nat /\ e < Place[AddressLength] /\ AddressOf(e)[1] = MainnetT
        BY <2>3
      <4> HIDE DEF e
      <4>2. PatternMatches(AddressOf(e), first, <<>>)
              <=> \E v \in Variants(first) : From(v) <= e /\ e <= To(v)
        BY <2>2, <4>1, PrefixMatches DEF From, To
      <4> QED
        BY <4>2 DEF e
    <3>5. (\E address \in Addresses[payload] : PatternMatches(address, first, <<>>))
            <=> \E c \in 0..(Checksums - 1) : PatternMatches(AddressOf(Code(c)), first, <<>>)
      BY <2>3
    <3> HIDE DEF Code
    <3>6. PayloadMayMatch(payload, PrefixIntervals(first))
            <=> \E address \in Addresses[payload] : PatternMatches(address, first, <<>>)
      BY <3>1, <3>3, <3>4, <3>5
    <3>7. PayloadMayMatch(payload, PrefixIntervals(first)) \in BOOLEAN
      BY DEF PayloadMayMatch
    <3> QED
      BY <3>6, <3>7
  <2>5. ASSUME Both, NEW payload \in Payloads, NEW address \in Addresses[payload]
        PROVE  PatternMatches(address, first, second) = MatchesSpec(address, first, second)
    <3>1. second \in Seq(Characters) /\ Len(second) <= AddressLength
      BY <2>1, <2>5, PatternsFit DEF PatternAssumption
    <3>2. PICK c \in 0..(Checksums - 1) : address = AddressOf(payload * Checksums + c)
      BY <2>3
    <3>3. address[1] = MainnetT /\ \A i \in 1..AddressLength : address[i] \in Characters
      BY <2>3, <3>2, Characterwise
    <3>4. PatternMatches(address, first, second) <=> MatchesSpec(address, first, second)
      BY <2>2, <3>1, <3>3, MatchersAgree
    <3>5. PatternMatches(address, first, second) \in BOOLEAN /\ MatchesSpec(address, first, second) \in BOOLEAN
      BY DEF PatternMatches, MatchesSpec
    <3> QED
      BY <3>4, <3>5
  <2> QED
    BY <2>4, <2>5
<1> QED
  BY <1>1, OperandsTaken, PTL

================================================================================
