---------------------------- MODULE SecpArithmetic ----------------------------
(* The point arithmetic of native/src/cuda_secp.cuh and cuda_chain.cuh, over a  *)
(* curve y^2 = x^3 + 7 with a small prime and a group of prime order, so that   *)
(* every branch (doubling, negatives, infinity, a zero among the values         *)
(* inverted together) is met by some pair of points.  The two headers hold the  *)
(* same formulas over two representations of a field element; elements here are *)
(* numbers below the prime, and FieldLimbs has the representations.             *)
EXTENDS Integers, Sequences

CONSTANTS
  FieldPrime,   \* p
  Generator,    \* generator_point: [x, y, infinity]
  TableSize     \* batch_radius: entries of the table of small multiples

FieldAdd(a, b) == (a + b) % FieldPrime
FieldNegate(a) == IF a = 0 THEN 0 ELSE FieldPrime - a
FieldSubtract(a, b) == FieldAdd(a, FieldNegate(b))
FieldMultiply(a, b) == (a * b) % FieldPrime
FieldSquare(a) == FieldMultiply(a, a)

\* Fermat: value ^ (p - 2), from the highest bit of the exponent down.
Power(value) ==
  LET to[e \in 0..(FieldPrime - 2)] ==
        IF e = 0 THEN 1
        ELSE LET square == FieldSquare(to[e \div 2])
             IN  IF e % 2 = 1 THEN FieldMultiply(square, value) ELSE square
  IN  to[FieldPrime - 2]
Inverses == [value \in 0..(FieldPrime - 1) |-> Power(value)]
FieldInverse(value) == Inverses[value]

\* What Fermat's theorem says of a prime.
FieldAssumption ==
  /\ FieldPrime \in Nat \ {0, 1}
  /\ \A value \in 1..(FieldPrime - 1) :
       /\ FieldInverse(value) \in 1..(FieldPrime - 1)
       /\ FieldMultiply(value, FieldInverse(value)) = 1

ASSUME Field == FieldAssumption

AtInfinity == [x |-> 0, y |-> 0, infinity |-> TRUE]

PointDouble(point) ==
  IF point.infinity \/ point.y = 0 THEN AtInfinity
  ELSE LET slope == FieldMultiply(FieldMultiply(3, FieldSquare(point.x)),
                                  FieldInverse(FieldMultiply(2, point.y)))
           x == FieldSubtract(FieldSquare(slope), FieldMultiply(2, point.x))
       IN  [x |-> x, infinity |-> FALSE,
            y |-> FieldSubtract(FieldMultiply(slope, FieldSubtract(point.x, x)), point.y)]

\* The chord through two points of different x, given 1 / (right.x - left.x).
PointAddWithInverse(left, right, inverse) ==
  LET slope == FieldMultiply(FieldSubtract(right.y, left.y), inverse)
      x == FieldSubtract(FieldSubtract(FieldSquare(slope), left.x), right.x)
  IN  [x |-> x, infinity |-> FALSE,
       y |-> FieldSubtract(FieldMultiply(slope, FieldSubtract(left.x, x)), left.y)]

PointAdd(left, right) ==
  IF left.infinity THEN right
  ELSE IF right.infinity THEN left
  ELSE IF left.x = right.x
    THEN IF left.y = right.y THEN PointDouble(left) ELSE AtInfinity
  ELSE PointAddWithInverse(left, right, FieldInverse(FieldSubtract(right.x, left.x)))

\* scalar_multiply_u64: what it holds after each round, of which the scalar allows for enough.
ScalarMultiply(scalar) ==
  LET round[i \in 0..scalar] ==
        IF i = 0 THEN [left |-> scalar, result |-> AtInfinity, addend |-> Generator]
        ELSE LET last == round[i - 1]
                 left == last.left \div 2
             IN  IF last.left = 0 THEN last
                 ELSE [left |-> left,
                       result |-> IF last.left % 2 = 1 THEN PointAdd(last.result, last.addend)
                                  ELSE last.result,
                       addend |-> IF left # 0 THEN PointDouble(last.addend) ELSE last.addend]
  IN  round[scalar].result

--------------------------------------------------------------------------------
(* Montgomery's trick: the products of the values that are not zero, one        *)
(* inversion, and the inverses from the last value to the first.                *)

\* Mutant: a zero is left among the factors.
Nonzero_Plain(value) == value
Nonzero(value) == IF value = 0 THEN 1 ELSE value

PrefixProducts(values) ==
  LET product[i \in 0..Len(values)] ==
        IF i = 0 THEN 1 ELSE FieldMultiply(product[i - 1], Nonzero(values[i]))
  IN  product

FieldInverseBatch(values) ==
  LET prefixes == PrefixProducts(values)
      count == Len(values)
      \* what `inverse` holds when the loop comes to an index
      running[i \in 1..count] ==
        IF i = count THEN FieldInverse(prefixes[count])
        ELSE FieldMultiply(running[i + 1], Nonzero(values[i + 1]))
  IN  [i \in 1..count |-> IF values[i] = 0 THEN 0
                                          ELSE FieldMultiply(running[i], prefixes[i - 1])]

\* chained_search_kernel: every point of a thread advanced by the stride.  A point
\* at infinity and a point with the stride's x leave a zero among the differences.
AdvanceChains(chainPoints, stride) ==
  LET count == Len(chainPoints)
      delta == [i \in 1..count |-> IF chainPoints[i].infinity THEN 0
                                   ELSE FieldSubtract(stride.x, chainPoints[i].x)]
      inverses == FieldInverseBatch(delta)
  IN  [i \in 1..count |->
        IF chainPoints[i].infinity THEN stride
        ELSE IF inverses[i] = 0 THEN PointAdd(chainPoints[i], stride)
        ELSE PointAddWithInverse(chainPoints[i], stride, inverses[i])]

Table == [i \in 1..TableSize |-> ScalarMultiply(i)]
Negative(point) == [x |-> point.x, y |-> FieldNegate(point.y), infinity |-> FALSE]

\* generate_symmetric_batch and the loop of batched_search_kernel: the candidates at
\* the distances -TableSize..TableSize from a center, with one inversion.  The table's
\* x minus the center's is used whether or not the center is at infinity.
SymmetricBatch(center) ==
  LET delta == [i \in 1..TableSize |-> FieldSubtract(Table[i].x, center.x)]
      inverses == FieldInverseBatch(delta)
      Toward(point, i) ==
        IF delta[i] = 0 THEN PointAdd(center, point)
        ELSE PointAddWithInverse(center, point, inverses[i])
  IN  [d \in (-TableSize)..TableSize |->
        IF d = 0 THEN center
        ELSE IF d > 0 THEN Toward(Table[d], d)
        ELSE Toward(Negative(Table[-d]), -d)]
================================================================================
