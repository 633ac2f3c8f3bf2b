--------------------------- MODULE NativeArithmetic ---------------------------
(* The calculations a GPU search rests on, each set against what it is for: the *)
(* two field representations against arithmetic modulo the prime, the batched   *)
(* point formulas against the group, and the prefix intervals and matchers      *)
(* against the addresses themselves.  native/src checks a few fixed vectors of  *)
(* each at start (run_self_tests, cuda_self_test_json).  A behaviour takes one  *)
(* operand and then another.                                                    *)
EXTENDS FieldLimbs, SecpArithmetic, AddressPatterns

CONSTANTS
  FieldSamples,  \* elements of the field, as numbers
  GroupOrder,    \* order of Generator
  RequestedPrefixes,
  RequestedSuffixes,
  Payloads       \* payloads, the network byte included

\* What a kernel calculates with is a constant of the curve or left by a field operation: reduced.
SamplesAssumption == FieldSamples \subseteq 0..(PrimeNumber - 1)

ASSUME SamplesFit == SamplesAssumption

VARIABLES subject, operands
vars == <<subject, operands>>

FirstOperands ==
  [field |-> FieldSamples, group |-> 0..(GroupOrder - 1), pattern |-> RequestedPrefixes]
SecondOperands ==
  [field |-> FieldSamples, group |-> 0..(GroupOrder - 1), pattern |-> RequestedSuffixes]

first == operands[1]
second == operands[2]
Both == Len(operands) = 2

Init ==
  /\ subject \in DOMAIN FirstOperands
  /\ \E operand \in FirstOperands[subject] : operands = <<operand>>
Next ==
  /\ ~Both
  /\ \E operand \in SecondOperands[subject] : operands' = Append(operands, operand)
  /\ UNCHANGED subject
Spec == Init /\ [][Next]_vars

--------------------------------------------------------------------------------
\* A product modulo the prime, one byte at a time: no intermediate exceeds 31 bits.
Times(a, b) ==
  (((a * (b \div 256)) % PrimeNumber) * 256 + a * (b % 256)) % PrimeNumber

\* Whatever carries, borrows and folds two elements cause, both representations compute the
\* sum, the difference and the product modulo the prime, reduced, and agree with each other.
FieldAgrees ==
  subject = "field" /\ Both =>
    LET left == LimbsOf(first, Base, 4)
        right == LimbsOf(second, Base, 4)
        oldLeft == LimbsOf(first, HalfBase, 8)
        oldRight == LimbsOf(second, HalfBase, 8)
        sum == LimbsOf((first + second) % PrimeNumber, Base, 4)
        difference == LimbsOf((first - second) % PrimeNumber, Base, 4)
        product == LimbsOf(Times(first, second), Base, 4)
    IN  /\ ChainAdd(left, right) = sum /\ FromLegacy(LegacyAdd(oldLeft, oldRight)) = sum
        /\ ChainSubtract(left, right) = difference
        /\ FromLegacy(LegacySubtract(oldLeft, oldRight)) = difference
        /\ ChainMultiply(left, right) = product
        /\ FromLegacy(LegacyMultiply(oldLeft, oldRight)) = product

\* n times the generator, by n additions.
Sums ==
  LET sum[n \in 0..GroupOrder] == IF n = 0 THEN AtInfinity ELSE PointAdd(sum[n - 1], Generator)
  IN  sum
At(n) == Sums[n % GroupOrder]
OnCurve(p) == p.infinity \/ FieldSquare(p.y) = FieldAdd(FieldMultiply(p.x, FieldSquare(p.x)), 7)

\* The multiples of the generator are a cyclic group, as those of a point of the curve are.
CurveAssumption ==
  /\ GroupOrder \in Nat \ {0, 1} /\ TableSize \in 0..(GroupOrder - 1)
  /\ At(0) = AtInfinity /\ At(1) = Generator /\ Sums[GroupOrder] = AtInfinity
  /\ \A n \in 1..(GroupOrder - 1) :
       /\ At(n) \in [x : 0..(FieldPrime - 1), y : 0..(FieldPrime - 1), infinity : {FALSE}]
       /\ OnCurve(At(n)) /\ Negative(At(n)) = At(-n)
  /\ \A m, n \in 0..(GroupOrder - 1) :
       PointAdd(At(m), At(n)) = At(m + n) /\ (m # n => At(m) # At(n))

ASSUME CurveIsGroup == CurveAssumption

\* The points form the cyclic group, and the kernels' shortcuts stay in it: scalar
\* multiplication, the advance of the neighbouring points of a thread by any stride (through
\* doublings, cancellations and infinity, which put zeroes into the batch that is inverted), and
\* the neighbours of any center but infinity.
PointsAgree ==
  subject = "group" /\ Both =>
    /\ OnCurve(At(first)) /\ Sums[GroupOrder] = AtInfinity /\ ScalarMultiply(first) = At(first)
    /\ first # second => At(first) # At(second)
    /\ PointAdd(At(first), At(second)) = At(first + second)
    /\ second # 0 =>
         AdvanceChains([i \in 1..3 |-> At(first + i - 1)], At(second))
           = [i \in 1..3 |-> At(first + second + i - 1)]
    /\ first # 0 /\ second = 0 =>
         SymmetricBatch(At(first)) = [d \in (-TableSize)..TableSize |-> At(first + d)]

AddressesOf(payload) == {AddressOf(payload * Checksums + c) : c \in 0..(Checksums - 1)}
Addresses == [payload \in Payloads |-> AddressesOf(payload)]

\* Every address is a T and no more than AddressLength characters, and the patterns fit it.
PatternAssumption ==
  /\ \A prefix \in RequestedPrefixes : prefix \in Seq(Characters) /\ Len(prefix) < AddressLength
  /\ \A suffix \in RequestedSuffixes : suffix \in Seq(Characters) /\ Len(suffix) <= AddressLength
  /\ \A payload \in Payloads :
       /\ payload \in Nat /\ (payload + 1) * Checksums <= Place[AddressLength]
       /\ \A address \in AddressesOf(payload) : address[1] = MainnetT

ASSUME PatternsFit == PatternAssumption

\* The prefilter lets a payload pass exactly if some checksum gives it an address with the
\* prefix, the boundary payloads included, so that no match is discarded; and the search and
\* the server accept the same addresses.
PatternsAgree ==
  subject = "pattern" =>
    IF ~Both
    THEN LET intervals == PrefixIntervals(first)
         IN  \A payload \in Payloads :
               PayloadMayMatch(payload, intervals) =
                 \E address \in Addresses[payload] : PatternMatches(address, first, <<>>)
    ELSE \A payload \in Payloads : \A address \in Addresses[payload] :
           PatternMatches(address, first, second) = MatchesSpec(address, first, second)
================================================================================
