------------------------------ MODULE FieldLimbs ------------------------------
(* The two representations of a field element in native/src.  cuda_secp.cuh     *)
(* has eight limbs of 32 bits, accumulators of 64 bits and a reduction that     *)
(* repeats; cuda_chain.cuh has four limbs of 64 bits and a reduction that folds *)
(* the high limbs at most three times.  Carries are found as the kernels find   *)
(* them, from a sum that is below an addend.  An element is a sequence of its   *)
(* limbs, lowest first, narrower here; the prime is 2^256 less a constant of    *)
(* one limb and a little more of cuda_secp, as 2^32 + 977 is.                   *)
EXTENDS Integers, Sequences

CONSTANTS
  Width,            \* bits of a cuda_secp limb: 32; a cuda_chain limb has twice as many
  SmallConstant,    \* 977
  AccumulatorWidth  \* bits of an accumulator of reduce_accumulator: 64

HalfBase == 2 ^ Width
Base == HalfBase * HalfBase
ReductionConstant == HalfBase + SmallConstant     \* 0x1000003d1
AccumulatorSize == 2 ^ AccumulatorWidth

\* The constant fits a cuda_chain limb, and the sums of a fold fit an accumulator.
LimbAssumption ==
  /\ HalfBase \in Nat \ {0, 1} /\ SmallConstant \in Nat /\ ReductionConstant < Base
  /\ AccumulatorSize \in Nat /\ HalfBase * (2 * SmallConstant + 3) <= AccumulatorSize

ASSUME LimbsFit == LimbAssumption

Powers(base, top) ==
  LET power[i \in 0..top] == IF i = 0 THEN 1 ELSE power[i - 1] * base IN power
PrimeNumber == Powers(Base, 4)[4] - ReductionConstant

LimbsOf(number, base, count) ==
  [i \in 1..count |-> (number \div Powers(base, count)[i - 1]) % base]
ChainPrime == LimbsOf(PrimeNumber, Base, 4)
LegacyPrime == LimbsOf(PrimeNumber, HalfBase, 8)

Zeroes(count) == [i \in 1..count |-> 0]

\* greater_than_or_equal_prime and field_compare: the highest limb that differs decides.
AtLeast(left, right) ==
  \A i \in DOMAIN left :
    left[i] < right[i] => \E j \in DOMAIN left : j > i /\ left[j] > right[j]

\* From the lowest limb up: what each step leaves there, and what it carries to the next.
EachLimb(step, count) ==
  LET loop[i \in 0..count] ==
        IF i = 0 THEN [limbs |-> <<>>, carry |-> 0]
        ELSE LET last == loop[i - 1]
                 done == step[i][last.carry]
             IN  [limbs |-> Append(last.limbs, done.limb), carry |-> done.carry]
  IN  loop[count]

--------------------------------------------------------------------------------
(* cuda_chain.cuh.                                                              *)

\* An addition that may wrap, and how many have.
Plus(sum, addend) ==
  LET limb == (sum.limb + addend) % Base
  IN  [limb |-> limb, carry |-> sum.carry + (IF limb < sum.limb THEN 1 ELSE 0)]

\* To each limb its two addends and then the carry of the limb below.
Ripple(limbs, first, second) ==
  EachLimb([i \in 1..4 |-> [carry \in 0..3 |->
              Plus(Plus(Plus([limb |-> limbs[i], carry |-> 0], first[i]), second[i]), carry)]], 4)

AddRaw(left, right) == Ripple(left, right, Zeroes(4))

SubtractWithBorrow(left, right, borrow) ==
  LET limb == (left - right) % Base
  IN  [limb |-> (limb - borrow) % Base,
       carry |-> (IF left < right THEN 1 ELSE 0) + (IF limb < borrow THEN 1 ELSE 0)]

SubtractRaw(left, right) ==
  EachLimb([i \in 1..4 |-> [borrow \in 0..1 |-> SubtractWithBorrow(left[i], right[i], borrow)]], 4)

\* One limb of the left factor times the right one, added to the product from that limb on.
MultiplyLimb(product, at, limb, right) ==
  EachLimb([j \in 1..4 |-> [carry \in 0..(Base - 1) |->
              LET times == limb * right[j]
                  sum == Plus(Plus([limb |-> product[at + j - 1], carry |-> 0], times % Base), carry)
              IN  [sum EXCEPT !.carry = (times \div Base + sum.carry) % Base]]], 4)

\* The product with the row, and its carry above it.
Placed(product, at, row, length) ==
  [k \in DOMAIN product |-> IF k \in at..(at + length - 1) THEN row.limbs[k - at + 1]
                            ELSE IF k = at + length THEN row.carry ELSE product[k]]

MultiplyFull(left, right) ==
  LET product[i \in 0..4] ==
        IF i = 0 THEN Zeroes(8)
        ELSE LET last == product[i - 1]
             IN  Placed(last, i, MultiplyLimb(last, i, left[i], right), 4)
  IN  product[4]

Low(limb) == (limb * ReductionConstant) % Base
High(limb) == (limb * ReductionConstant) \div Base

\* The high limbs times the constant into the low ones, and the fifth limb that leaves.
FirstFold(low, high) ==
  LET folded == Ripple(low, [i \in 1..4 |-> Low(high[i])],
                       [i \in 1..4 |-> IF i = 1 THEN 0 ELSE High(high[i - 1])])
  IN  [limbs |-> folded.limbs, top |-> (High(high[4]) + folded.carry) % Base]

SecondFold(limbs, top) == Ripple(limbs, <<Low(top), High(top), 0, 0>>, Zeroes(4))

\* Mutant: a carry out of the second fold is lost.
LastFold_Never(limbs, carry) == limbs
LastFold(limbs, carry) ==
  IF carry = 0 THEN limbs ELSE Ripple(limbs, <<Low(carry), 0, 0, 0>>, Zeroes(4)).limbs

Reduce(low, high) ==
  LET first == FirstFold(low, high)
      second == SecondFold(first.limbs, first.top)
      output == LastFold(second.limbs, second.carry)
  IN  IF AtLeast(output, ChainPrime) THEN SubtractRaw(output, ChainPrime).limbs ELSE output

ChainAdd(left, right) ==
  LET sum == AddRaw(left, right) IN Reduce(sum.limbs, <<sum.carry, 0, 0, 0>>)

ChainSubtract(left, right) ==
  LET output == SubtractRaw(left, right)
  IN  IF output.carry # 0 THEN AddRaw(output.limbs, ChainPrime).limbs ELSE output.limbs

ChainMultiply(left, right) ==
  LET product == MultiplyFull(left, right)
  IN  Reduce([i \in 1..4 |-> product[i]], [i \in 1..4 |-> product[i + 4]])

--------------------------------------------------------------------------------
(* cuda_secp.cuh.                                                               *)

Wrapped(n) == n % AccumulatorSize

\* Every limb but the last is cut to its width, the rest carried up.
Normalize(accumulator) ==
  EachLimb([i \in 1..18 |-> [carry \in 0..(AccumulatorSize - 1) |->
              LET value == Wrapped(accumulator[i] + carry)
              IN  [limb |-> IF i = 18 THEN value ELSE value % HalfBase,
                   carry |-> value \div HalfBase]]], 18).limbs

\* A limb above the field is the constant times it eight limbs below.
FoldLimb(accumulator, k) ==
  [accumulator EXCEPT
     ![k] = 0,
     ![k - 8] = Wrapped(accumulator[k - 8] + accumulator[k] * SmallConstant),
     ![k - 7] = Wrapped(accumulator[k - 7] + accumulator[k])]

\* From the highest limb down.
FoldHighLimbs(accumulator) ==
  LET folded[i \in 0..10] ==
        IF i = 0 THEN accumulator ELSE FoldLimb(folded[i - 1], 19 - i)
  IN  folded[10]

HasHighLimb(accumulator) == \E i \in 9..18 : accumulator[i] # 0

\* Normalize, and stop when no high limb is left to fold.
Pass(last) ==
  LET cut == Normalize(last.limbs)
  IN  IF last.done THEN last
      ELSE [limbs |-> FoldHighLimbs(cut), done |-> ~HasHighLimb(cut)]

\* At most twelve passes.
Passes(accumulator) ==
  LET passed[i \in 0..12] ==
        IF i = 0 THEN [limbs |-> accumulator, done |-> FALSE] ELSE Pass(passed[i - 1])
  IN  passed[12].limbs

LegacySubtractRaw(left, right) ==
  EachLimb([i \in 1..8 |-> [borrow \in 0..1 |->
              LET subtrahend == right[i] + borrow
              IN  [limb |-> (left[i] - subtrahend) % HalfBase,
                   carry |-> IF left[i] < subtrahend THEN 1 ELSE 0]]], 8).limbs

ReduceAccumulator(accumulator) ==
  LET passed == Passes(accumulator)
      output == [i \in 1..8 |-> passed[i] % HalfBase]
  IN  IF AtLeast(output, LegacyPrime) THEN LegacySubtractRaw(output, LegacyPrime) ELSE output

LegacyAdd(left, right) ==
  ReduceAccumulator([i \in 1..18 |-> IF i <= 8 THEN left[i] + right[i] ELSE 0])

LegacyNegate(value) == IF value = Zeroes(8) THEN value ELSE LegacySubtractRaw(LegacyPrime, value)
LegacySubtract(left, right) == LegacyAdd(left, LegacyNegate(right))

LegacyMultiplyLimb(product, at, limb, right) ==
  EachLimb([j \in 1..8 |-> [carry \in 0..(HalfBase - 1) |->
              LET combined == product[at + j - 1] + limb * right[j] + carry
              IN  [limb |-> combined % HalfBase, carry |-> combined \div HalfBase]]], 8)

LegacyProduct(left, right) ==
  LET product[i \in 0..8] ==
        IF i = 0 THEN Zeroes(16)
        ELSE LET last == product[i - 1]
             IN  Placed(last, i, LegacyMultiplyLimb(last, i, left[i], right), 8)
  IN  product[8]

LegacyMultiply(left, right) ==
  LET product == LegacyProduct(left, right)
  IN  ReduceAccumulator([i \in 1..18 |-> IF i <= 16 THEN product[i] ELSE 0])

\* from_legacy_field: pairs of limbs.
FromLegacy(value) == [i \in 1..4 |-> value[2 * i - 1] + HalfBase * value[2 * i]]
================================================================================
