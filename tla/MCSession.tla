------------------------------- MODULE MCSession -------------------------------
(* NativeWorker over the curve y^2 = x^3 + 7 modulo 67, a group of order 79.    *)
EXTENDS NativeWorker, SecpArithmetic

Multiples == [n \in 0..(Order - 1) |-> ScalarMultiply(n)]
MCPointAt(n) == Multiples[n % Order]
MCGenerator == [x |-> 2, y |-> 22, infinity |-> FALSE]
MCInfinite(p) == p.infinity
MCAdd(p, q) == PointAdd(p, q)
MCNeighbour(p, d) == SymmetricBatch(p)[d]

\* The kernel's arrays begin at 0.
MCAdvance(held, by) ==
  LET moved == AdvanceChains([i \in 1..PointsPerThread |-> held[i - 1]], by)
  IN  [i \in 0..(PointsPerThread - 1) |-> moved[i + 1]]

\* An address is a hash of the coordinates.
MCMatches(p, pattern) == (3 * p.x + 5 * p.y) % 11 = pattern

Line(key, pattern, start, count) ==
  [key |-> key, pattern |-> pattern, start |-> start, count |-> count]

\* Two ranges of one key that follow each other, the second one's offsets for another
\* key, a range around the point at infinity of key 60, and the last range of the group.
MCJobs == {Line(5, 7, 1, 24), Line(5, 1, 21, 20), Line(9, 3, 21, 18), Line(60, 6, 18, 5),
           Line(5, 3, 63, 16)}

\* Lines that end within a cycle, that continue, skip or go back, and that are refused.
MCTerminalLines ==
  {Line(5, 7, 1, 16), Line(5, 4, 17, 18), Line(5, 4, 17, 16), Line(5, 3, 1, 18),
   Line(9, 3, 17, 16), Line(60, 0, 18, 3), Line(5, 6, 70, 9), Line(5, 7, 70, 10), Line(5, 7, 0, 4),
   Line(5, 7, 1, 0), Line(5, 7, 1, 50)}
================================================================================
