-------------------------- MODULE NativeSessionProofs --------------------------
(* Theorems about CudaSession, for every group, launch shape and set of lines,  *)
(* and about NativeWorker, which runs it as the scheduler's worker does.  The   *)
(* session's invariant says of each thread which points it holds, of the state  *)
(* kept between launches what it is the state of, and of the winner that no     *)
(* clear match evaluated so far lies below it.  The worker uses the process     *)
(* only as the session's specification lets a client, so what is proved of the  *)
(* session holds in the system; and a worker that waits is owed the answer to   *)
(* the batch it wrote and to no other, from which its progress and its winners  *)
(* are true.                                                                    *)
EXTENDS NativeWorker, FoldTheorems

--------------------------------------------------------------------------------
(* Integer division.                                                            *)

\* A quotient rounded up covers the dividend by less than one divisor.
LEMMA CeilBounds ==
  ASSUME NEW a \in Nat \ {0}, NEW b \in Nat \ {0}
  PROVE  /\ CeilDiv(a, b) \in Nat \ {0} /\ CeilDiv(a, b) <= a
         /\ a <= CeilDiv(a, b) * b /\ CeilDiv(a, b) * b <= a + b - 1
<1> DEFINE n == a + b - 1
           q == n \div b
           s == n % b
<1>1. n \in Nat
  OBVIOUS
<1>2. q \in Nat /\ s \in 0..(b - 1) /\ n = b * q + s
  BY <1>1, DivMod
<1>3. CeilDiv(a, b) = q
  BY DEF CeilDiv
<1>4. n = a + b - 1
  OBVIOUS
<1> HIDE DEF n, q, s
<1>5. b * q = q * b
  BY <1>2
<1>6. a <= q * b /\ q * b <= a + b - 1
  BY <1>2, <1>4, <1>5
<1>7. q # 0
  <2>1. 0 * b = 0
    OBVIOUS
  <2> QED
    BY <1>2, <1>6, <2>1
<1>8. q <= a
  <2>1. ASSUME a < q PROVE FALSE
    <3>1. (a + 1) * b <= q * b
      BY <1>2, <2>1, TimesMonotone
    <3>2. (a + 1) * b = a * b + b /\ a * 1 = a
      OBVIOUS
    <3>3. a <= a * b
      <4>1. 1 * a <= b * a
        BY TimesMonotone
      <4> QED
        BY <4>1
    <3> QED
      BY <1>2, <1>6, <3>1, <3>2, <3>3
  <2> QED
    BY <1>2, <2>1
<1> QED
  BY <1>2, <1>3, <1>6, <1>7, <1>8

\* A quotient of a smaller number is below the quotient rounded up.
LEMMA DivBelowCeil ==
  ASSUME NEW a \in Nat \ {0}, NEW b \in Nat \ {0}, NEW i \in 0..(a - 1)
  PROVE  i \div b \in 0..(CeilDiv(a, b) - 1)
<1> DEFINE q == i \div b
           s == i % b
           c == CeilDiv(a, b)
<1>1. q \in Nat /\ s \in 0..(b - 1) /\ i = b * q + s
  BY DivMod
<1>2. c \in Nat /\ a <= c * b
  BY CeilBounds
<1> HIDE DEF q, s, c
<1>3. ASSUME c <= q PROVE FALSE
  <2>1. c * b <= q * b /\ q * b = b * q
    BY <1>1, <1>2, <1>3, TimesMonotone
  <2> QED
    BY <1>1, <1>2, <2>1
<1> QED
  BY <1>1, <1>2, <1>3 DEF q, c

--------------------------------------------------------------------------------
(* The shape of a launch.                                                       *)

\* The sizes derived from the constants.
LEMMA Sizes ==
  /\ Chains \in Nat \ {0} /\ Span \in Nat \ {0} /\ MaxLanes \in Nat \ {0}
  /\ Radius < Span /\ Span = 2 * Radius + 1 /\ MaxLanes * Span < Order /\ Radius < Order
<1>1. Chains \in Nat \ {0} /\ MaxLanes \in Nat \ {0}
  BY Constants DEF ConstantsAssumption, Chains, MaxLanes
<1>2. Span \in Nat \ {0} /\ Radius < Span /\ Span = 2 * Radius + 1
  BY Constants DEF ConstantsAssumption, Span
<1>3. MaxLanes * Span < Order
  BY Constants DEF ConstantsAssumption, MaxLanes
<1>4. 1 * Span <= MaxLanes * Span
  BY <1>1, <1>2, TimesMonotone
<1> QED
  BY <1>1, <1>2, <1>3, <1>4, Constants DEF ConstantsAssumption

\* A line that is launched lies inside the group, and its steps, batches and lanes cover it.
LEMMA Shape ==
  ASSUME NEW r \in Lines, ~Refused(r)
  PROVE  /\ r.key \in 1..(Order - 1) /\ r.start \in 1..(Order - 1) /\ r.count \in 1..Order
         /\ r.start + r.count <= Order
         /\ Steps(r) \in 1..r.count
         /\ r.count <= Steps(r) * Chains /\ Steps(r) * Chains <= r.count + Chains - 1
         /\ Batches(r) \in 1..r.count
         /\ r.count <= Batches(r) * Span /\ Batches(r) * Span <= r.count + Span - 1
         /\ Lanes(r) \in 1..MaxLanes
         /\ Workers(r) \subseteq AllWorkers
         /\ UsesChains(r) => Chains <= Order
<1>1. /\ r.key \in 1..(Order - 1) /\ r.start \in 1..(Order - 1) /\ r.count \in 1..Order
      /\ r.start + r.count <= Order
  <2>1. r.key \in Keys /\ r.start \in Nat /\ r.count \in Nat
    BY DEF Lines
  <2>2. Order \in Nat /\ r.key \in 1..(Order - 1)
    BY <2>1, Constants DEF ConstantsAssumption
  <2>3. r.count # 0 /\ r.start # 0 /\ ~(r.start + r.count > Order)
    BY DEF Refused
  <2> QED
    BY <2>1, <2>2, <2>3
<1>2. r.count \in Nat \ {0}
  BY <1>1, Constants DEF ConstantsAssumption
<1>3. /\ Steps(r) \in 1..r.count
      /\ r.count <= Steps(r) * Chains /\ Steps(r) * Chains <= r.count + Chains - 1
  <2>1. Steps(r) = CeilDiv(r.count, Chains) /\ Chains \in Nat \ {0}
    BY Sizes DEF Steps
  <2>2. /\ CeilDiv(r.count, Chains) \in Nat \ {0} /\ CeilDiv(r.count, Chains) <= r.count
        /\ r.count <= CeilDiv(r.count, Chains) * Chains
        /\ CeilDiv(r.count, Chains) * Chains <= r.count + Chains - 1
    BY <1>2, <2>1, CeilBounds
  <2> QED
    BY <1>2, <2>1, <2>2
<1>4. /\ Batches(r) \in 1..r.count
      /\ r.count <= Batches(r) * Span /\ Batches(r) * Span <= r.count + Span - 1
  <2>1. Batches(r) = CeilDiv(r.count, Span) /\ Span \in Nat \ {0}
    BY Sizes DEF Batches
  <2>2. /\ CeilDiv(r.count, Span) \in Nat \ {0} /\ CeilDiv(r.count, Span) <= r.count
        /\ r.count <= CeilDiv(r.count, Span) * Span
        /\ CeilDiv(r.count, Span) * Span <= r.count + Span - 1
    BY <1>2, <2>1, CeilBounds
  <2> QED
    BY <1>2, <2>1, <2>2
<1>5. Lanes(r) \in 1..MaxLanes
  <2> DEFINE needed == CeilDiv(Batches(r), Block)
             blocks == IF needed > Resident THEN Resident ELSE needed
  <2>1. Batches(r) \in Nat \ {0} /\ Block \in Nat \ {0} /\ Resident \in Nat \ {0}
    BY <1>4, Constants DEF ConstantsAssumption
  <2>2. needed \in Nat \ {0}
    BY <2>1, CeilBounds
  <2>3. Lanes(r) = blocks * Block /\ MaxLanes = Resident * Block
    BY DEF Lanes, MaxLanes
  <2> HIDE DEF needed
  <2>4. blocks \in 1..Resident
    BY <2>1, <2>2
  <2> HIDE DEF blocks
  <2>5. 1 * Block <= blocks * Block /\ blocks * Block <= Resident * Block
    BY <2>1, <2>4, TimesMonotone
  <2>6. blocks * Block \in Nat
    BY <2>1, <2>4
  <2> QED
    BY <2>1, <2>3, <2>5, <2>6
<1>6. Workers(r) \subseteq AllWorkers
  BY <1>5, Sizes, Constants DEF ConstantsAssumption, Workers, AllWorkers
<1>7. UsesChains(r) => Chains <= Order
  <2>1. UsesChains(r) => r.count >= 4 * Chains
    BY DEF UsesChains
  <2>2. Chains \in Nat /\ r.count \in Nat /\ Order \in Nat /\ r.count <= Order
    BY <1>1, Sizes, Constants DEF ConstantsAssumption
  <2> QED
    BY <2>1, <2>2
<1> QED
  BY <1>1, <1>3, <1>4, <1>5, <1>6, <1>7

\* Every chain is some thread's, and one thread's only.
LEMMA ChainOwner ==
  ASSUME NEW c \in 0..(Chains - 1)
  PROVE  /\ c \div PointsPerThread \in 0..(Threads - 1)
         /\ c \in Own(c \div PointsPerThread)
<1> DEFINE q == c \div PointsPerThread
           s == c % PointsPerThread
<1>1. PointsPerThread \in Nat \ {0} /\ Threads \in Nat \ {0} /\ c \in Nat
      /\ Chains = Threads * PointsPerThread
  BY Sizes, Constants DEF ConstantsAssumption, Chains
<1>2. q \in Nat /\ s \in 0..(PointsPerThread - 1) /\ c = PointsPerThread * q + s
  BY <1>1, DivMod
<1>3. c < Threads * PointsPerThread
  BY <1>1
<1>4. q * PointsPerThread = PointsPerThread * q
  BY <1>1, <1>2
<1> HIDE DEF q, s
<1>5. ASSUME Threads <= q PROVE FALSE
  <2>1. Threads * PointsPerThread <= q * PointsPerThread
    BY <1>1, <1>2, <1>5, TimesMonotone
  <2> QED
    BY <1>1, <1>2, <1>3, <1>4, <2>1
<1>6. c \in Own(q)
  BY <1>1, <1>2, <1>4 DEF Own
<1> QED
  BY <1>1, <1>2, <1>5, <1>6 DEF q

\* A thread's chains are chains, and their owner is found by division.
LEMMA OwnChains ==
  ASSUME NEW w \in 0..(Threads - 1), NEW c \in Own(w)
  PROVE  /\ c \in 0..(Chains - 1) /\ c \div PointsPerThread = w
         /\ c - w * PointsPerThread \in 0..(PointsPerThread - 1)
<1> DEFINE base == w * PointsPerThread
           i == c - base
<1>1. PointsPerThread \in Nat \ {0} /\ Threads \in Nat \ {0} /\ w \in Nat
  BY Constants DEF ConstantsAssumption
<1>2. base \in Nat /\ (w + 1) * PointsPerThread = base + PointsPerThread
  BY <1>1
<1>3. (w + 1) * PointsPerThread <= Threads * PointsPerThread
  BY <1>1, TimesMonotone
<1>4. c \in base..(base + PointsPerThread - 1)
  BY DEF Own
<1>5. Chains = Threads * PointsPerThread
  BY DEF Chains
<1>6. Threads * PointsPerThread \in Nat
  BY <1>1
<1> HIDE DEF base
<1>7. c \in Nat /\ i \in 0..(PointsPerThread - 1) /\ c = base + i
  BY <1>1, <1>2, <1>4
<1> HIDE DEF i
<1>8. c = w * PointsPerThread + i
  BY <1>7 DEF base
<1>9. c \div PointsPerThread = w
  BY <1>1, <1>7, <1>8, DivUnique
<1>10. c \in 0..(Chains - 1)
  BY <1>1, <1>2, <1>3, <1>5, <1>6, <1>7
<1> QED
  BY <1>7, <1>9, <1>10 DEF base, i

--------------------------------------------------------------------------------
(* The inductive invariant.                                                     *)

\* What a client may have outstanding: one line or one response, and no line is launched
\* that is refused.
OneAtATime ==
  /\ proc = "down" => pipe = NoLine
  /\ proc = "searching" => pipe = NoLine /\ reply = NoReply /\ ~Refused(line)
  /\ pipe # NoLine => reply = NoReply

\* A thread of a chained launch stops after the last step, and the winner is an index.
LaunchOK ==
  proc = "searching" =>
    /\ UsesChains(line) => \A w \in Workers(line) : at[w] <= Steps(line)
    /\ winner = NoWinner \/ winner \in 0..(line.count - 1)

\* The stride point is that of the grid it is kept for, which is the launch's.
StrideTrue ==
  /\ stride.grid \in 0..(MaxLanes * Span) /\ stride.point = PointAt(stride.grid)
  /\ proc = "searching" /\ ~UsesChains(line) => stride.grid = Lanes(line) * Span

\* No point state is kept while a chained launch moves the points.
ChainsMoving == proc = "searching" /\ UsesChains(line) => ~chain.valid

\* The thread an index belongs to has evaluated it.
Evaluated(i) ==
  IF UsesChains(line) THEN i \div Chains < at[(i % Chains) \div PointsPerThread]
  ELSE (i \div Span) \div Lanes(line) < at[(i \div Span) % Lanes(line)]

\* No clear match that was evaluated lies below the winner.
Coverage ==
  proc = "searching" =>
    \A i \in 0..(line.count - 1) :
      Evaluated(i) /\ ClearMatch(line, line.start + i) => winner <= i

IInv ==
  /\ TypeOK /\ OneAtATime /\ LaunchOK /\ StrideTrue /\ ChainsMoving
  /\ ChainStateTrue /\ PointsOnTrack /\ Coverage

\* Sums of scalars within reach.
LEMMA AddAt ==
  ASSUME NEW m \in 0..Far, NEW n \in 0..Far
  PROVE  Add(PointAt(m), PointAt(n)) = PointAt(m + n)
BY Arithmetic DEF ArithmeticAssumption

\* A line is not the absence of one.
LEMMA NoLineIsNone ==
  NoLine \notin Lines
BY Constants DEF ConstantsAssumption, Lines, NoLine

\* Between launches only what is kept matters.
LEMMA IdleStep ==
  ASSUME TypeOK', OneAtATime', StrideTrue', ChainStateTrue', proc' # "searching"
  PROVE  IInv'
BY DEF IInv, LaunchOK, ChainsMoving, PointsOnTrack, Coverage

\* The first state.
LEMMA InitHolds ==
  ASSUME Init
  PROVE  IInv
<1>1. Order \in Nat \ {0} /\ MaxFaults \in Nat /\ MaxLanes * Span \in Nat
  BY Sizes, Constants DEF ConstantsAssumption
<1>2. at \in [AllWorkers -> 0..Order]
  BY <1>1 DEF Init
<1>3. reply \in [kind : {"nothing", "none", "found", "error"}, offset : 0..(Order - 1)]
  BY <1>1 DEF Init, NoReply
<1>4. chain \in [valid : BOOLEAN, key : Keys \cup {0}, next : 0..(Order - 1)]
  BY <1>1 DEF Init
<1>5. TypeOK
  BY <1>1, <1>2, <1>3, <1>4 DEF Init, TypeOK, NoWinner
<1>6. OneAtATime
  BY DEF Init, OneAtATime
<1>7. StrideTrue
  BY <1>1 DEF Init, StrideTrue
<1>8. ChainStateTrue
  BY DEF Init, ChainStateTrue
<1> QED
  BY <1>5, <1>6, <1>7, <1>8
     DEF Init, IInv, LaunchOK, ChainsMoving, PointsOnTrack, Coverage

\* The process is gone.
LEMMA GoneStep ==
  ASSUME IInv, Gone, reply' \in {reply, NoReply, Error}, faults' \in 0..MaxFaults
  PROVE  IInv'
<1>1. Order \in Nat \ {0} /\ MaxLanes * Span \in Nat
  BY Sizes, Constants DEF ConstantsAssumption
<1>2. at' \in [AllWorkers -> 0..Order]
  BY <1>1 DEF Gone
<1>3. reply' \in [kind : {"nothing", "none", "found", "error"}, offset : 0..(Order - 1)]
  <2>1. reply \in [kind : {"nothing", "none", "found", "error"}, offset : 0..(Order - 1)]
    BY DEF IInv, TypeOK
  <2> QED
    BY <1>1, <2>1 DEF NoReply, Error
<1>4. chain' \in [valid : BOOLEAN, key : Keys \cup {0}, next : 0..(Order - 1)]
  BY <1>1 DEF Gone
<1>5. TypeOK'
  BY <1>1, <1>2, <1>3, <1>4 DEF Gone, TypeOK, NoWinner
<1>6. OneAtATime'
  BY DEF Gone, OneAtATime
<1>7. StrideTrue'
  BY <1>1 DEF Gone, StrideTrue
<1>8. ChainStateTrue'
  BY DEF Gone, ChainStateTrue
<1>9. proc' # "searching"
  BY DEF Gone
<1> QED
  BY <1>5, <1>6, <1>7, <1>8, <1>9, IdleStep

\* The session is started, or a line written or a response read, with nothing launched.
LEMMA QuietStep ==
  ASSUME IInv, Start \/ StartFails \/ Send \/ Read
  PROVE  IInv'
<1>1. /\ line' = line /\ chain' = chain /\ points' = points /\ stride' = stride
      /\ centers' = centers /\ at' = at /\ winner' = winner
  BY DEF Start, StartFails, Send, Read, device
<1>2. proc # "searching" /\ line = NoLine
  BY DEF IInv, TypeOK, OneAtATime, Start, StartFails, Send, Read
<1>3. /\ proc' \in {"down", "serving"} /\ pipe' \in Lines \cup {NoLine}
      /\ reply' \in {reply, NoReply} /\ faults' \in 0..MaxFaults
  BY <1>2, Constants DEF IInv, TypeOK, Start, StartFails, Send, Read, ConstantsAssumption
<1>4. reply' \in [kind : {"nothing", "none", "found", "error"}, offset : 0..(Order - 1)]
  <2>1. reply \in [kind : {"nothing", "none", "found", "error"}, offset : 0..(Order - 1)]
    BY DEF IInv, TypeOK
  <2>2. 0 \in 0..(Order - 1)
    BY Constants DEF ConstantsAssumption
  <2> QED
    BY <1>3, <2>1, <2>2 DEF NoReply
<1>5. TypeOK'
  BY <1>1, <1>2, <1>3, <1>4 DEF IInv, TypeOK
<1>6. OneAtATime'
  BY <1>1, <1>2, <1>3 DEF IInv, OneAtATime, Start, StartFails, Send, Read
<1>7. StrideTrue' /\ ChainStateTrue'
  BY <1>1, <1>3 DEF IInv, StrideTrue, ChainStateTrue
<1> QED
  BY <1>3, <1>5, <1>6, <1>7, IdleStep

\* A thread of a launch is one of the threads, and its counter a number.
LEMMA WorkerAt ==
  ASSUME TypeOK, NEW r \in Lines, ~Refused(r), NEW w \in Workers(r)
  PROVE  w \in AllWorkers /\ at[w] \in 0..Order /\ at[w] \in Nat /\ w \in Nat
<1>1. w \in AllWorkers
  BY Shape
<1>2. w \in Nat
  BY <1>1 DEF AllWorkers
<1>3. Order \in Nat
  BY Constants DEF ConstantsAssumption
<1> QED
  BY <1>1, <1>2, <1>3 DEF TypeOK

\* The first center of a lane, and the grid a batched launch strides over, are within reach.
LEMMA LaneReach ==
  ASSUME NEW r \in Lines, ~Refused(r), NEW l \in 0..(Lanes(r) - 1)
  PROVE  /\ CenterIndex(l) \in 0..(Order - 1)
         /\ Lanes(r) * Span \in 1..(MaxLanes * Span) /\ MaxLanes * Span < Order
<1>1. Lanes(r) \in 1..MaxLanes
  BY Shape
<1>2. /\ Span \in Nat \ {0} /\ MaxLanes \in Nat \ {0} /\ Radius < Span /\ Radius \in Nat
      /\ MaxLanes * Span < Order
  BY Sizes, Constants DEF ConstantsAssumption
<1>3. Lanes(r) * Span <= MaxLanes * Span /\ 1 * Span <= Lanes(r) * Span
  BY <1>1, <1>2, TimesMonotone
<1>4. (l + 1) * Span <= Lanes(r) * Span /\ (l + 1) * Span = l * Span + Span /\ l * Span \in Nat
  BY <1>1, <1>2, TimesMonotone
<1>5. Lanes(r) * Span \in Nat /\ MaxLanes * Span \in Nat /\ Order \in Nat
  BY <1>1, <1>2, Constants DEF ConstantsAssumption
<1>6. CenterIndex(l) = l * Span + Radius
  BY DEF CenterIndex
<1> HIDE DEF CenterIndex
<1> QED
  BY <1>2, <1>3, <1>4, <1>5, <1>6

\* A line is launched.
LEMMA LaunchStep ==
  ASSUME IInv, Launch
  PROVE  IInv'
<1>1. pipe \in Lines /\ ~Refused(pipe) /\ line' = pipe /\ reply = NoReply /\ proc' = "searching"
  BY DEF IInv, TypeOK, OneAtATime, Launch
<1>2. \A w \in AllWorkers : at'[w] = 0
  BY DEF Launch
<1>3. winner' = NoWinner /\ pipe' = NoLine /\ reply' = reply /\ faults' = faults
  BY DEF Launch
<1>4. Order \in Nat \ {0} /\ MaxLanes * Span \in Nat /\ MaxLanes * Span < Order /\ Far = 4 * Order
  BY Sizes, Constants DEF ConstantsAssumption, Far
<1>5. Workers(pipe) \subseteq AllWorkers
  BY <1>1, Shape
<1>6. Scalar(pipe, 0) \in 0..Far /\ Scalar(pipe, 0) = pipe.key + pipe.start
      /\ pipe.key \in Nat /\ pipe.start \in Nat
  <2>1. /\ pipe.key \in 1..(Order - 1) /\ pipe.start \in 1..(Order - 1)
    BY <1>1, Shape
  <2> QED
    BY <1>4, <2>1 DEF Scalar
<1>7. CASE UsesChains(pipe)
  <2>1. /\ points' = ChainPoints(pipe) /\ chain' = [chain EXCEPT !.valid = FALSE]
        /\ stride' = stride /\ centers' = centers
    BY <1>7 DEF Launch, LaunchChained
  <2>2. \A c \in 0..(Chains - 1) : points'[c] = PointAt(Scalar(pipe, 0) + c)
    <3> SUFFICES ASSUME NEW c \in 0..(Chains - 1)
                 PROVE  points'[c] = PointAt(Scalar(pipe, 0) + c)
      OBVIOUS
    <3>1. CASE Continues(pipe)
      <4>1. points'[c] = points[c]
        BY <2>1, <3>1 DEF ChainPoints
      <4>2. points[c] = PointAt(chain.key + chain.next + c)
        BY <3>1 DEF IInv, ChainStateTrue, Continues
      <4> QED
        BY <1>6, <3>1, <4>1, <4>2 DEF Continues
    <3>2. CASE ~Continues(pipe)
      <4>1. points'[c] = Add(PointAt(Scalar(pipe, 0)), PointAt(c))
        BY <2>1, <3>2 DEF ChainPoints
      <4>2. c \in 0..Far
        <5>1. Chains <= Order /\ Chains \in Nat
          BY <1>1, <1>7, Shape, Sizes
        <5> QED
          BY <1>4, <5>1
      <4> QED
        BY <1>6, <4>1, <4>2, AddAt
    <3> QED
      BY <3>1, <3>2
  <2>3. \A w \in Workers(pipe) : \A c \in Own(w) :
          points'[c] = PointAt(Scalar(pipe, at'[w] * Chains + c))
    <3> SUFFICES ASSUME NEW w \in Workers(pipe), NEW c \in Own(w)
                 PROVE  points'[c] = PointAt(Scalar(pipe, at'[w] * Chains + c))
      OBVIOUS
    <3>1. w \in 0..(Threads - 1)
      BY <1>7 DEF Workers
    <3>2. c \in 0..(Chains - 1) /\ Chains \in Nat
      BY <3>1, OwnChains, Sizes
    <3>3. at'[w] = 0
      BY <1>2, <1>5
    <3>4. at'[w] * Chains + c = c
      BY <3>2, <3>3
    <3>5. Scalar(pipe, c) = Scalar(pipe, 0) + c
      BY <1>6, <3>2 DEF Scalar
    <3> QED
      BY <2>2, <3>2, <3>4, <3>5
  <2>4. DOMAIN points' = 0..(Chains - 1)
    BY <2>1 DEF ChainPoints, IInv, TypeOK
  <2>5. TypeOK'
    <3>1. chain' \in [valid : BOOLEAN, key : Keys \cup {0}, next : 0..(Order - 1)]
      BY <2>1 DEF IInv, TypeOK
    <3>2. at' \in [AllWorkers -> 0..Order]
      BY <1>4 DEF Launch
    <3>3. winner' \in 0..Order
      BY <1>3, <1>4 DEF NoWinner
    <3>4. line' # NoLine
      BY <1>1, NoLineIsNone
    <3> QED
      BY <1>1, <1>3, <2>1, <2>4, <3>1, <3>2, <3>3, <3>4 DEF IInv, TypeOK
  <2>6. OneAtATime'
    BY <1>1, <1>3 DEF OneAtATime
  <2>7. LaunchOK'
    <3>1. \A w \in Workers(pipe) : at'[w] <= Steps(pipe)
      <4>1. Steps(pipe) \in 1..pipe.count /\ pipe.count \in 1..Order
        BY <1>1, Shape
      <4> QED
        BY <1>2, <1>4, <1>5, <4>1
    <3> QED
      BY <1>1, <1>3, <3>1 DEF LaunchOK
  <2>8. StrideTrue' /\ ChainsMoving' /\ ChainStateTrue'
    BY <1>1, <1>7, <2>1 DEF IInv, TypeOK, StrideTrue, ChainsMoving, ChainStateTrue
  <2>9. PointsOnTrack'
    BY <1>1, <1>7, <2>3 DEF PointsOnTrack
  <2>10. Coverage'
    <3> SUFFICES ASSUME NEW i \in 0..(pipe.count - 1), Evaluated(i)' PROVE FALSE
      BY <1>1 DEF Coverage
    <3>1. i \in Nat /\ Chains \in Nat \ {0}
      BY <1>1, Shape, Sizes
    <3>2. i \div Chains \in Nat /\ i % Chains \in 0..(Chains - 1)
      BY <3>1, DivMod
    <3>3. (i % Chains) \div PointsPerThread \in 0..(Threads - 1)
      BY <3>2, ChainOwner
    <3>4. (i % Chains) \div PointsPerThread \in AllWorkers
      BY <1>5, <1>7, <3>3 DEF Workers
    <3>5. at'[(i % Chains) \div PointsPerThread] = 0
      BY <1>2, <3>4
    <3>6. i \div Chains < at'[(i % Chains) \div PointsPerThread]
      BY <1>1, <1>7 DEF Evaluated
    <3> QED
      BY <3>2, <3>5, <3>6
  <2> QED
    BY <2>5, <2>6, <2>7, <2>8, <2>9, <2>10 DEF IInv
<1>8. CASE ~UsesChains(pipe)
  <2> DEFINE grid == Lanes(pipe) * Span
  <2>1. /\ stride' = [grid |-> grid, point |-> StridePoint(grid)]
        /\ centers' = [l \in 0..(MaxLanes - 1) |->
                         IF l < Lanes(pipe)
                           THEN Add(PointAt(Scalar(pipe, 0)), PointAt(CenterIndex(l)))
                           ELSE PointAt(0)]
        /\ chain' = chain /\ points' = points
    BY <1>8 DEF Launch, LaunchBatched
  <2>2. Lanes(pipe) \in 1..MaxLanes /\ MaxLanes \in Nat
    BY <1>1, Shape, Sizes
  <2>3. grid \in 1..(MaxLanes * Span)
    <3>1. 0 \in 0..(Lanes(pipe) - 1)
      BY <2>2
    <3> QED
      BY <1>1, <3>1, LaneReach
  <2> HIDE DEF grid
  <2>4. StridePoint(grid) = PointAt(grid)
    BY DEF StridePoint, IInv, StrideTrue
  <2>5. \A w \in Workers(pipe) :
          centers'[w] = PointAt(Scalar(pipe, CenterIndex(BatchOf(pipe, w, at'[w]))))
    <3> SUFFICES ASSUME NEW w \in Workers(pipe)
                 PROVE  centers'[w] = PointAt(Scalar(pipe, CenterIndex(BatchOf(pipe, w, at'[w]))))
      OBVIOUS
    <3>1. w \in 0..(Lanes(pipe) - 1) /\ w \in 0..(MaxLanes - 1) /\ w < Lanes(pipe) /\ w \in Nat
      BY <1>8, <2>2 DEF Workers
    <3>2. at'[w] = 0
      BY <1>2, <1>5
    <3>3. BatchOf(pipe, w, at'[w]) = w
      BY <2>2, <3>1, <3>2 DEF BatchOf
    <3>4. CenterIndex(w) \in 0..(Order - 1)
      BY <1>1, <3>1, LaneReach
    <3>5. CenterIndex(w) \in 0..Far
      BY <1>4, <3>4
    <3>6. centers'[w] = Add(PointAt(Scalar(pipe, 0)), PointAt(CenterIndex(w)))
      BY <2>1, <3>1
    <3>7. centers'[w] = PointAt(Scalar(pipe, 0) + CenterIndex(w))
      BY <1>6, <3>5, <3>6, AddAt
    <3>8. Scalar(pipe, 0) + CenterIndex(w) = Scalar(pipe, CenterIndex(w))
      BY <1>6, <3>4 DEF Scalar
    <3> QED
      BY <3>3, <3>7, <3>8
  <2>6. DOMAIN centers' = 0..(MaxLanes - 1) /\ DOMAIN stride' = {"grid", "point"}
        /\ stride'.grid = grid /\ stride'.point = PointAt(grid)
    BY <2>1, <2>4
  <2>7. TypeOK'
    BY <1>1, <1>3, <1>4, <2>1, <2>3, <2>6, NoLineIsNone DEF IInv, TypeOK, Launch, NoWinner
  <2>8. OneAtATime'
    BY <1>1, <1>3 DEF OneAtATime
  <2>9. LaunchOK' /\ ChainsMoving'
    BY <1>1, <1>3, <1>8 DEF LaunchOK, ChainsMoving
  <2>10. StrideTrue'
    BY <1>1, <1>4, <2>3, <2>6 DEF StrideTrue, grid
  <2>11. ChainStateTrue'
    BY <2>1 DEF IInv, ChainStateTrue
  <2>12. PointsOnTrack'
    BY <1>1, <1>8, <2>5 DEF PointsOnTrack
  <2>13. Coverage'
    <3> SUFFICES ASSUME NEW i \in 0..(pipe.count - 1), Evaluated(i)' PROVE FALSE
      BY <1>1 DEF Coverage
    <3> DEFINE b == i \div Span
    <3>1. i \in Nat /\ Span \in Nat \ {0} /\ Lanes(pipe) \in Nat \ {0}
      BY <1>1, <2>2, Shape, Sizes
    <3>2. b \in Nat
      BY <3>1, DivMod
    <3>3. (b \div Lanes(pipe)) < at'[b % Lanes(pipe)]
      BY <1>1, <1>8 DEF Evaluated
    <3> HIDE DEF b
    <3>4. b \div Lanes(pipe) \in Nat /\ b % Lanes(pipe) \in 0..(Lanes(pipe) - 1)
      BY <3>1, <3>2, DivMod
    <3>5. b % Lanes(pipe) \in AllWorkers
      BY <1>5, <1>8, <3>4 DEF Workers
    <3>6. at'[b % Lanes(pipe)] = 0
      BY <1>2, <3>5
    <3> QED
      BY <3>3, <3>4, <3>6
  <2> QED
    BY <2>7, <2>8, <2>9, <2>10, <2>11, <2>12, <2>13 DEF IInv
<1> QED
  BY <1>7, <1>8

\* One step of a chained thread: its points advance, and the winner is the least hit so far.
LEMMA ChainedStepKeeps ==
  ASSUME IInv, NEW w \in AllWorkers, ChainedStep(w)
  PROVE  IInv'
<1> DEFINE a == at[w]
           first == a * Chains
           base == w * PointsPerThread
<1>1. /\ proc = "searching" /\ UsesChains(line) /\ w \in Workers(line) /\ ~Finished(line, w)
      /\ at' = [at EXCEPT ![w] = a + 1] /\ proc' = proc /\ pipe' = pipe /\ line' = line
      /\ reply' = reply /\ chain' = chain /\ stride' = stride /\ centers' = centers
      /\ faults' = faults
  BY DEF ChainedStep
<1>2. line \in Lines /\ ~Refused(line)
  BY <1>1 DEF IInv, TypeOK, OneAtATime
<1>3. w \in 0..(Threads - 1) /\ w \in Nat /\ a \in Nat /\ a \in 0..Order
  BY <1>1, <1>2, WorkerAt DEF IInv, Workers
<1>4. /\ line.key \in 1..(Order - 1) /\ line.start \in 1..(Order - 1) /\ line.count \in 1..Order
      /\ line.start + line.count <= Order /\ Steps(line) \in 1..line.count
      /\ Steps(line) * Chains <= line.count + Chains - 1 /\ Chains <= Order
  BY <1>1, <1>2, Shape
<1>5. a < Steps(line)
  BY <1>1, <1>3, <1>4 DEF IInv, LaunchOK, Finished
<1>6. /\ Chains \in Nat \ {0} /\ PointsPerThread \in Nat \ {0} /\ Threads \in Nat \ {0}
      /\ Order \in Nat \ {0} /\ Far = 4 * Order
  BY Sizes, Constants DEF ConstantsAssumption, Far
<1>7. first \in Nat /\ first < line.count /\ (a + 1) * Chains = first + Chains /\ base \in Nat
  <2>1. (a + 1) * Chains <= Steps(line) * Chains
    BY <1>3, <1>4, <1>5, <1>6, TimesMonotone
  <2>2. (a + 1) * Chains = first + Chains /\ first \in Nat /\ base \in Nat
    BY <1>3, <1>6
  <2>3. Steps(line) * Chains \in Nat
    BY <1>4, <1>6
  <2> HIDE DEF first, base
  <2> QED
    BY <1>4, <1>6, <2>1, <2>2, <2>3
<1>8. \A c \in Own(w) :
        /\ c \in 0..(Chains - 1) /\ c \div PointsPerThread = w
        /\ c - base \in 0..(PointsPerThread - 1) /\ points[c] = PointAt(Scalar(line, first + c))
  BY <1>1, <1>3, OwnChains DEF IInv, PointsOnTrack
<1>9. \A c \in Own(w) : points'[c] = PointAt(Scalar(line, first + Chains + c))
  <2> DEFINE n == Scalar(line, first + base)
             held == [i \in 0..(PointsPerThread - 1) |-> points[base + i]]
  <2>1. points' = [c \in 0..(Chains - 1) |->
                    IF c \in Own(w) THEN Advance(held, PointAt(Chains))[c - base] ELSE points[c]]
    BY DEF ChainedStep
  <2>2. base + PointsPerThread <= Chains
    <3>1. (w + 1) * PointsPerThread <= Threads * PointsPerThread
      BY <1>3, <1>6, TimesMonotone
    <3>2. (w + 1) * PointsPerThread = base + PointsPerThread
      BY <1>3, <1>6
    <3> QED
      BY <3>1, <3>2 DEF Chains
  <2>3. n \in 0..Far /\ n = line.key + line.start + first + base
    <3> HIDE DEF first, base
    <3> QED
      BY <1>4, <1>6, <1>7, <2>2 DEF Scalar
  <2>4. \A i \in 0..(PointsPerThread - 1) : points[base + i] = PointAt(n + i)
    <3> SUFFICES ASSUME NEW i \in 0..(PointsPerThread - 1)
                 PROVE  points[base + i] = PointAt(n + i)
      OBVIOUS
    <3>1. base + i \in Own(w)
      BY <1>6, <1>7 DEF Own
    <3>2. points[base + i] = PointAt(Scalar(line, first + (base + i)))
      BY <1>8, <3>1
    <3>3. Scalar(line, first + (base + i)) = n + i
      <4> HIDE DEF first, base, n
      <4> QED
        BY <1>4, <1>6, <1>7, <2>3 DEF Scalar
    <3> QED
      BY <3>2, <3>3
  <2>5. held = [i \in 0..(PointsPerThread - 1) |-> PointAt(n + i)]
    BY <2>4
  <2>6. Advance(held, PointAt(Chains))
          = [i \in 0..(PointsPerThread - 1) |-> PointAt(n + i + Chains)]
    <3> HIDE DEF n, held
    <3> QED
      BY <2>3, <2>5, Arithmetic DEF ArithmeticAssumption
  <2> SUFFICES ASSUME NEW c \in Own(w)
               PROVE  points'[c] = PointAt(Scalar(line, first + Chains + c))
    OBVIOUS
  <2>7. c \in 0..(Chains - 1) /\ c - base \in 0..(PointsPerThread - 1)
    BY <1>8
  <2>8. points'[c] = Advance(held, PointAt(Chains))[c - base]
    BY <2>1, <2>7
  <2>9. points'[c] = PointAt(n + (c - base) + Chains)
    <3> HIDE DEF n, held
    <3> QED
      BY <2>6, <2>7, <2>8
  <2>10. n + (c - base) + Chains = Scalar(line, first + Chains + c)
    <3> HIDE DEF n, first, base
    <3> QED
      BY <1>4, <1>6, <1>7, <2>3, <2>7 DEF Scalar
  <2> QED
    BY <2>9, <2>10
<1>10. \A c \in 0..(Chains - 1) : c \notin Own(w) => points'[c] = points[c]
  BY DEF ChainedStep
<1>11. /\ winner' <= winner
       /\ winner' = winner \/ winner' \in 0..(line.count - 1)
       /\ \A c \in Own(w) : first + c < line.count /\ Hit(points[c]) => winner' <= first + c
  <2> DEFINE Point(i) == points[i - first]
             hits == {i \in {first + c : c \in Own(w)} : i < line.count /\ Hit(Point(i))}
  <2>1. \E low \in hits \cup {winner} :
          (\A i \in hits \cup {winner} : low <= i) /\ winner' = low
    BY DEF ChainedStep, Evaluate
  <2>2. winner' \in hits \cup {winner} /\ \A i \in hits \cup {winner} : winner' <= i
    BY <2>1
  <2>3. \A c \in Own(w) : first + c < line.count /\ Hit(points[c]) => first + c \in hits
    <3> SUFFICES ASSUME NEW c \in Own(w), first + c < line.count, Hit(points[c])
                 PROVE  first + c \in hits
      OBVIOUS
    <3>1. (first + c) - first = c
      <4>1. c \in Nat
        BY <1>6, <1>8
      <4> HIDE DEF first
      <4> QED
        BY <1>7, <4>1
    <3>2. Hit(Point(first + c))
      BY <3>1
    <3> HIDE DEF Point
    <3> QED
      BY <3>2
  <2>4. \A i \in hits : i \in 0..(line.count - 1)
    <3> SUFFICES ASSUME NEW c \in Own(w), first + c < line.count
                 PROVE  first + c \in 0..(line.count - 1)
      OBVIOUS
    <3>1. c \in Nat
      BY <1>6, <1>8
    <3> HIDE DEF first
    <3> QED
      BY <1>4, <1>7, <3>1
  <2> HIDE DEF hits
  <2> QED
    BY <2>2, <2>3, <2>4
<1> HIDE DEF base
<1>12. TypeOK'
  <2>1. at' \in [AllWorkers -> 0..Order]
    <3>1. a + 1 \in 0..Order
      BY <1>3, <1>4, <1>5, <1>6
    <3> QED
      BY <1>1, <3>1 DEF IInv, TypeOK
  <2>2. winner' \in 0..Order
    BY <1>4, <1>6, <1>11 DEF IInv, TypeOK
  <2>3. DOMAIN points' = 0..(Chains - 1)
    BY DEF ChainedStep
  <2> QED
    BY <1>1, <2>1, <2>2, <2>3 DEF IInv, TypeOK
<1>13. OneAtATime'
  BY <1>1 DEF IInv, OneAtATime
<1>14. LaunchOK'
  <2>1. \A v \in Workers(line) : at'[v] <= Steps(line)
    <3> SUFFICES ASSUME NEW v \in Workers(line) PROVE at'[v] <= Steps(line)
      OBVIOUS
    <3>1. at[v] <= Steps(line) /\ v \in AllWorkers
      BY <1>1, <1>2, WorkerAt DEF IInv, LaunchOK
    <3>2. a + 1 <= Steps(line)
      BY <1>3, <1>4, <1>5
    <3> QED
      BY <1>1, <3>1, <3>2 DEF IInv, TypeOK
  <2> QED
    BY <1>1, <1>11, <2>1 DEF IInv, LaunchOK
<1>15. StrideTrue' /\ ChainsMoving'
  BY <1>1 DEF IInv, StrideTrue, ChainsMoving
<1>16. ChainStateTrue'
  BY <1>1 DEF IInv, ChainsMoving, ChainStateTrue
<1>17. PointsOnTrack'
  <2> SUFFICES ASSUME NEW v \in Workers(line), NEW c \in Own(v)
               PROVE  points'[c] = PointAt(Scalar(line, at'[v] * Chains + c))
    BY <1>1 DEF PointsOnTrack
  <2>1. v \in 0..(Threads - 1) /\ v \in AllWorkers
    BY <1>1, <1>2, WorkerAt DEF IInv, Workers
  <2>2. c \in 0..(Chains - 1) /\ c \div PointsPerThread = v
    BY <2>1, OwnChains
  <2>3. CASE v = w
    <3>1. at'[v] = a + 1
      BY <1>1, <2>1, <2>3 DEF IInv, TypeOK
    <3>2. at'[v] * Chains + c = first + Chains + c
      BY <1>7, <3>1
    <3> QED
      BY <1>9, <2>3, <3>2
  <2>4. CASE v # w
    <3>1. at'[v] = at[v]
      BY <1>1, <2>1, <2>4 DEF IInv, TypeOK
    <3>2. c \notin Own(w)
      BY <1>8, <2>2, <2>4
    <3> QED
      BY <1>1, <1>10, <2>2, <3>1, <3>2 DEF IInv, PointsOnTrack
  <2> QED
    BY <2>3, <2>4
<1>18. Coverage'
  <2> SUFFICES ASSUME NEW i \in 0..(line.count - 1), Evaluated(i)',
                      ClearMatch(line, line.start + i)
               PROVE  winner' <= i
    BY <1>1 DEF Coverage, ClearMatch, Match, NearInfinity
  <2> DEFINE c == i % Chains
             v == c \div PointsPerThread
             q == i \div Chains
  <2>1. q \in Nat /\ c \in 0..(Chains - 1) /\ i = Chains * q + c /\ i \in Nat
    <3>1. i \in Nat
      BY <1>4
    <3> QED
      BY <1>6, <3>1, DivMod
  <2>2. v \in 0..(Threads - 1) /\ c \in Own(v) /\ v \in AllWorkers
    <3> HIDE DEF c
    <3>1. v \in 0..(Threads - 1) /\ c \in Own(v)
      BY <2>1, ChainOwner
    <3>2. v \in Workers(line)
      BY <1>1, <3>1 DEF Workers
    <3> QED
      BY <1>2, <3>1, <3>2, Shape
  <2>3. q < at'[v]
    BY <1>1 DEF Evaluated
  <2> HIDE DEF c, v, q
  <2>4. CASE Evaluated(i)
    <3>1. winner <= i
      BY <1>1, <2>4 DEF IInv, Coverage
    <3>2. winner \in Nat /\ winner' \in Nat
      BY <1>6, <1>12 DEF IInv, TypeOK
    <3> QED
      BY <1>11, <2>1, <3>1, <3>2
  <2>5. CASE ~Evaluated(i)
    <3>1. ~(q < at[v])
      BY <1>1, <2>5 DEF Evaluated, c, v, q
    <3>2. v = w
      BY <1>1, <2>2, <2>3, <3>1 DEF IInv, TypeOK
    <3>3. at'[v] = a + 1
      BY <1>1, <2>2, <3>2 DEF IInv, TypeOK
    <3>4. q = a
      BY <1>3, <2>1, <2>3, <3>1, <3>2, <3>3
    <3>5. i = first + c
      <4>1. Chains * q = first
        BY <1>3, <1>6, <3>4
      <4> QED
        BY <2>1, <4>1
    <3>6. c \in Own(w) /\ points[c] = PointAt(Scalar(line, i))
      BY <1>8, <2>2, <3>2, <3>5
    <3>7. Hit(points[c])
      <4>1. Scalar(line, i) = line.key + (line.start + i)
        BY <1>4, <2>1 DEF Scalar
      <4> QED
        BY <3>6, <4>1 DEF ClearMatch, Match, Hit
    <3>8. first + c < line.count
      BY <1>4, <3>5
    <3> QED
      BY <1>11, <3>5, <3>6, <3>7, <3>8
  <2> QED
    BY <2>4, <2>5
<1> QED
  BY <1>12, <1>13, <1>14, <1>15, <1>16, <1>17, <1>18 DEF IInv

\* One step of a batched thread: the center and its neighbours are evaluated, and the center
\* moves to the lane's next batch.
LEMMA BatchedStepKeeps ==
  ASSUME IInv, NEW w \in AllWorkers, BatchedStep(w)
  PROVE  IInv'
<1> DEFINE a == at[w]
           L == Lanes(line)
           b == BatchOf(line, w, a)
           center == CenterIndex(b)
<1>1. /\ proc = "searching" /\ ~UsesChains(line) /\ w \in Workers(line) /\ ~Finished(line, w)
      /\ at' = [at EXCEPT ![w] = a + 1] /\ proc' = proc /\ pipe' = pipe /\ line' = line
      /\ reply' = reply /\ chain' = chain /\ stride' = stride /\ points' = points
      /\ faults' = faults
  BY DEF BatchedStep
<1>2. line \in Lines /\ ~Refused(line)
  BY <1>1 DEF IInv, TypeOK, OneAtATime
<1>3. w \in 0..(L - 1) /\ w \in Nat /\ a \in Nat /\ a \in 0..Order
  BY <1>1, <1>2, WorkerAt DEF IInv, Workers
<1>4. /\ line.key \in 1..(Order - 1) /\ line.start \in 1..(Order - 1) /\ line.count \in 1..Order
      /\ line.start + line.count <= Order /\ Batches(line) \in 1..line.count
      /\ Batches(line) * Span <= line.count + Span - 1 /\ L \in 1..MaxLanes
  BY <1>1, <1>2, Shape
<1>5. /\ Span \in Nat \ {0} /\ MaxLanes \in Nat \ {0} /\ Radius \in Nat \ {0} /\ Radius < Order
      /\ Span = 2 * Radius + 1 /\ Order \in Nat \ {0} /\ Far = 4 * Order
  BY Sizes, Constants DEF ConstantsAssumption, Far
<1>6. b = w + a * L /\ b \in Nat /\ a <= b
  <2>1. b = w + a * L
    BY DEF BatchOf
  <2>2. a * L \in Nat /\ 1 * a <= L * a /\ L * a = a * L
    BY <1>3, <1>4, <1>5, TimesMonotone
  <2> HIDE DEF b
  <2> QED
    BY <1>3, <2>1, <2>2
<1>7. b < Batches(line)
  BY <1>1, <1>4, <1>6 DEF Finished
<1>8. center = b * Span + Radius /\ b * Span \in Nat /\ b * Span + Span <= line.count + Span - 1
  <2>1. center = b * Span + Radius
    BY DEF CenterIndex
  <2>2. (b + 1) * Span <= Batches(line) * Span
    BY <1>4, <1>5, <1>6, <1>7, TimesMonotone
  <2>3. (b + 1) * Span = b * Span + Span /\ b * Span \in Nat
    BY <1>5, <1>6
  <2>4. Batches(line) * Span \in Nat
    BY <1>4, <1>5
  <2> HIDE DEF b, center
  <2> QED
    BY <1>4, <1>5, <2>1, <2>2, <2>3, <2>4
<1> DEFINE n == Scalar(line, center)
<1>9. n = line.key + line.start + center /\ n \in Radius..(3 * Order) /\ center \in Nat
  <2>1. n = line.key + line.start + center
    BY DEF Scalar
  <2> HIDE DEF n, center, b
  <2> QED
    BY <1>4, <1>5, <1>8, <2>1
<1>10. centers[w] = PointAt(n)
  BY <1>1 DEF IInv, PointsOnTrack
<1>11. \A d \in (-Radius)..Radius :
         ~Infinite(PointAt(n)) => Neighbour(centers[w], d) = PointAt(n + d)
  <2>1. n \in Radius..Far
    <3> HIDE DEF n
    <3> QED
      BY <1>5, <1>9
  <2> HIDE DEF n
  <2> QED
    BY <1>10, <2>1, Arithmetic DEF ArithmeticAssumption
<1>12. /\ winner' <= winner
       /\ winner' = winner \/ winner' \in 0..(line.count - 1)
       /\ \A d \in (-Radius)..Radius :
            center + d < line.count /\ Hit(Neighbour(centers[w], d)) => winner' <= center + d
  <2> DEFINE Point(i) == Neighbour(centers[w], i - center)
             hits == {i \in {center + d : d \in (-Radius)..Radius} : i < line.count /\ Hit(Point(i))}
  <2>1. \E low \in hits \cup {winner} :
          (\A i \in hits \cup {winner} : low <= i) /\ winner' = low
    BY DEF BatchedStep, Evaluate
  <2>2. winner' \in hits \cup {winner} /\ \A i \in hits \cup {winner} : winner' <= i
    BY <2>1
  <2>3. \A d \in (-Radius)..Radius :
          center + d < line.count /\ Hit(Neighbour(centers[w], d)) => center + d \in hits
    <3> SUFFICES ASSUME NEW d \in (-Radius)..Radius, center + d < line.count,
                        Hit(Neighbour(centers[w], d))
                 PROVE  center + d \in hits
      OBVIOUS
    <3>1. (center + d) - center = d
      <4> HIDE DEF center
      <4> QED
        BY <1>5, <1>9
    <3>2. Hit(Point(center + d))
      BY <3>1
    <3> HIDE DEF Point
    <3> QED
      BY <3>2
  <2>4. \A i \in hits : i \in 0..(line.count - 1)
    <3> SUFFICES ASSUME NEW d \in (-Radius)..Radius, center + d < line.count
                 PROVE  center + d \in 0..(line.count - 1)
      OBVIOUS
    <3> HIDE DEF center, b
    <3> QED
      BY <1>4, <1>5, <1>8
  <2> HIDE DEF hits
  <2> QED
    BY <2>2, <2>3, <2>4
<1>13. TypeOK'
  <2>1. at' \in [AllWorkers -> 0..Order]
    <3>1. a + 1 \in 0..Order
      BY <1>3, <1>4, <1>5, <1>6, <1>7
    <3> QED
      BY <1>1, <3>1 DEF IInv, TypeOK
  <2>2. winner' \in 0..Order
    <3>1. winner \in 0..Order
      BY DEF IInv, TypeOK
    <3> HIDE DEF a, L, b, center, n
    <3> QED
      BY <1>4, <1>5, <1>12, <3>1
  <2>3. DOMAIN centers' = 0..(MaxLanes - 1)
    BY DEF IInv, TypeOK, BatchedStep
  <2> QED
    BY <1>1, <2>1, <2>2, <2>3 DEF IInv, TypeOK
<1>14. OneAtATime' /\ LaunchOK' /\ ChainsMoving'
  BY <1>1, <1>12 DEF IInv, OneAtATime, LaunchOK, ChainsMoving
<1>15. StrideTrue' /\ ChainStateTrue'
  BY <1>1 DEF IInv, StrideTrue, ChainStateTrue
<1>16. PointsOnTrack'
  <2> SUFFICES ASSUME NEW v \in Workers(line), ~Finished(line, v)'
               PROVE  centers'[v] = PointAt(Scalar(line, CenterIndex(BatchOf(line, v, at'[v]))))
    BY <1>1 DEF PointsOnTrack
  <2>1. v \in AllWorkers /\ v \in 0..(L - 1) /\ v \in 0..(MaxLanes - 1)
    BY <1>1, <1>2, <1>4, <1>5, WorkerAt DEF IInv, Workers
  <2>2. CASE v = w
    <3>1. at'[v] = a + 1
      BY <1>1, <2>1, <2>2 DEF IInv, TypeOK
    <3>2. BatchOf(line, v, at'[v]) = b + L
      <4>1. BatchOf(line, v, at'[v]) = w + (a + 1) * L
        BY <2>2, <3>1 DEF BatchOf
      <4>2. w + (a + 1) * L = (w + a * L) + L
        <5> HIDE DEF a, L
        <5> QED
          BY <1>3, <1>4, <1>5
      <4> QED
        BY <1>6, <4>1, <4>2
    <3>3. b + L < Batches(line)
      <4>1. ~(b + L >= Batches(line))
        BY <1>1, <3>2 DEF Finished
      <4> HIDE DEF b, L
      <4> QED
        BY <1>4, <1>5, <1>6, <4>1
    <3>4. centers'[v] = Add(PointAt(n), stride.point)
      BY <1>10, <2>1, <2>2, <3>3 DEF BatchedStep, IInv, TypeOK
    <3>5. stride.point = PointAt(L * Span)
      BY <1>1 DEF IInv, StrideTrue
    <3>6. L * Span \in 0..Far
      <4>1. 0 \in 0..(L - 1)
        BY <1>4, <1>5
      <4>2. L * Span \in 1..(MaxLanes * Span) /\ MaxLanes * Span < Order
        BY <1>2, <4>1, LaneReach
      <4>3. MaxLanes * Span \in Nat
        BY <1>5
      <4> HIDE DEF L
      <4> QED
        BY <1>5, <4>2, <4>3
    <3>7. centers'[v] = PointAt(n + L * Span)
      <4>1. n \in 0..Far
        <5> HIDE DEF n
        <5> QED
          BY <1>5, <1>9
      <4> HIDE DEF n, L
      <4> QED
        BY <3>4, <3>5, <3>6, <4>1, AddAt
    <3>8. CenterIndex(b + L) = center + L * Span
      <4>1. CenterIndex(b + L) = (b + L) * Span + Radius
        BY DEF CenterIndex
      <4>2. (b + L) * Span = b * Span + L * Span
        <5> HIDE DEF b, L
        <5> QED
          BY <1>4, <1>5, <1>6
      <4>3. L * Span \in Nat
        BY <1>4, <1>5
      <4> HIDE DEF b, L, center
      <4> QED
        BY <1>5, <1>8, <4>1, <4>2, <4>3
    <3>9. Scalar(line, center + L * Span) = n + L * Span
      <4>1. L * Span \in Nat
        BY <1>4, <1>5
      <4> HIDE DEF n, L, center
      <4> QED
        BY <1>4, <1>9, <4>1 DEF Scalar
    <3> QED
      BY <3>2, <3>7, <3>8, <3>9
  <2>3. CASE v # w
    <3>1. at'[v] = at[v] /\ centers'[v] = centers[v]
      BY <1>1, <2>1, <2>3 DEF BatchedStep, IInv, TypeOK
    <3>2. ~Finished(line, v)
      BY <1>1, <3>1 DEF Finished
    <3> QED
      BY <1>1, <3>1, <3>2 DEF IInv, PointsOnTrack
  <2> QED
    BY <2>2, <2>3
<1>17. Coverage'
  <2> SUFFICES ASSUME NEW i \in 0..(line.count - 1), Evaluated(i)',
                      ClearMatch(line, line.start + i)
               PROVE  winner' <= i
    BY <1>1 DEF Coverage, ClearMatch, Match, NearInfinity
  <2> DEFINE m == i \div Span
             s == i % Span
             v == m % L
             q == m \div L
  <2>1. m \in Nat /\ s \in 0..(Span - 1) /\ i = Span * m + s /\ i \in Nat
    <3>1. i \in Nat
      BY <1>4
    <3> QED
      BY <1>5, <3>1, DivMod
  <2>2. q \in Nat /\ v \in 0..(L - 1) /\ m = L * q + v
    <3>1. L \in Nat \ {0}
      BY <1>4, <1>5
    <3> HIDE DEF m, L
    <3> QED
      BY <2>1, <3>1, DivMod
  <2>3. q < at'[v]
    BY <1>1 DEF Evaluated
  <2>4. v \in AllWorkers
    <3>1. v \in Workers(line)
      BY <1>1, <2>2 DEF Workers
    <3> QED
      BY <1>2, <3>1, Shape
  <2> HIDE DEF m, s, v, q
  <2>5. CASE Evaluated(i)
    <3>1. winner <= i
      BY <1>1, <2>5 DEF IInv, Coverage
    <3>2. winner \in Nat /\ winner' \in Nat
      BY <1>5, <1>13 DEF IInv, TypeOK
    <3> QED
      BY <1>12, <2>1, <3>1, <3>2
  <2>6. CASE ~Evaluated(i)
    <3>1. ~(q < at[v])
      BY <1>1, <2>6 DEF Evaluated, m, s, v, q
    <3>2. v = w
      BY <1>1, <2>3, <2>4, <3>1 DEF IInv, TypeOK
    <3>3. at'[v] = a + 1
      BY <1>1, <2>4, <3>2 DEF IInv, TypeOK
    <3>4. q = a
      BY <1>3, <2>2, <2>3, <3>1, <3>2, <3>3
    <3>5. m = b
      <4>1. L * q = a * L
        BY <1>3, <1>4, <1>5, <3>4
      <4>2. a * L \in Nat
        BY <1>3, <1>4, <1>5
      <4> QED
        BY <1>3, <1>6, <2>2, <3>2, <4>1, <4>2
    <3> DEFINE d == s - Radius
    <3>6. d \in (-Radius)..Radius /\ i = center + d
      <4>1. Span * m = b * Span
        <5> HIDE DEF b
        <5> QED
          BY <1>5, <1>6, <3>5
      <4> HIDE DEF b, center
      <4> QED
        BY <1>5, <1>8, <2>1, <4>1
    <3>7. n + d = line.key + (line.start + i) /\ n > 0 /\ n \in Int
          /\ n \in (line.key + (line.start + i) - Radius)..(line.key + (line.start + i) + Radius)
      <4> HIDE DEF n, center, d
      <4> QED
        BY <1>4, <1>5, <1>9, <2>1, <3>6
    <3>8. ~Infinite(PointAt(n))
      <4> HIDE DEF n
      <4> QED
        BY <3>7 DEF ClearMatch, NearInfinity
    <3>9. Neighbour(centers[w], d) = PointAt(line.key + (line.start + i))
      <4> HIDE DEF n, d
      <4> QED
        BY <1>11, <3>6, <3>7, <3>8
    <3>10. Hit(Neighbour(centers[w], d))
      BY <3>9 DEF ClearMatch, Match, Hit
    <3>11. center + d < line.count
      <4> HIDE DEF center, d
      <4> QED
        BY <1>4, <3>6
    <3> HIDE DEF d
    <3> QED
      BY <1>12, <3>6, <3>10, <3>11
  <2> QED
    BY <2>5, <2>6
<1> QED
  BY <1>13, <1>14, <1>15, <1>16, <1>17 DEF IInv

\* A complete cycle ends where its last step ends.
LEMMA CompleteSteps ==
  ASSUME NEW r \in Lines, ~Refused(r), r.count % Chains = 0
  PROVE  Steps(r) * Chains = r.count
<1> DEFINE S == Steps(r)
           C == Chains
           n == r.count
           q == n \div C
           rest == S * C - n
<1>1. C \in Nat \ {0} /\ n \in Nat \ {0} /\ S \in Nat /\ n <= S * C /\ S * C <= n + C - 1
  BY Shape, Sizes, Constants DEF ConstantsAssumption
<1>2. q \in Nat /\ n = C * q + 0
  <2>1. n % C = 0
    OBVIOUS
  <2> HIDE DEF n, C
  <2> QED
    BY <1>1, <2>1, DivMod
<1> HIDE DEF S, C, n, q
<1>3. S * C \in Nat /\ C * q = q * C /\ rest \in 0..(C - 1) /\ S * C = q * C + rest
  <2>1. S * C \in Nat /\ C * q = q * C
    BY <1>1, <1>2
  <2> QED
    BY <1>1, <1>2, <2>1
<1> HIDE DEF rest
<1>4. (S * C) \div C = q
  BY <1>1, <1>2, <1>3, DivUnique
<1>5. (S * C) \div C = S
  <2>1. S * C = S * C + 0 /\ 0 \in 0..(C - 1)
    BY <1>1, <1>3
  <2> QED
    BY <1>1, <1>3, <2>1, DivUnique
<1>6. S * C = C * q
  BY <1>3, <1>4, <1>5
<1> QED
  BY <1>1, <1>2, <1>6 DEF S, C, n

\* The launch has ended and is answered.
LEMMA FinishStep ==
  ASSUME IInv, Finish
  PROVE  IInv'
<1>1. /\ proc = "searching" /\ AllFinished /\ ~NoNextOffset /\ proc' = "serving"
      /\ line' = NoLine /\ pipe' = pipe /\ points' = points /\ stride' = stride
      /\ faults' = faults /\ winner' = NoWinner
  BY DEF Finish
<1>2. line \in Lines /\ ~Refused(line) /\ pipe = NoLine /\ reply = NoReply
  BY <1>1 DEF IInv, TypeOK, OneAtATime
<1>3. /\ line.key \in 1..(Order - 1) /\ line.start \in 1..(Order - 1) /\ line.count \in 1..Order
      /\ line.start + line.count <= Order
  BY <1>2, Shape
<1>4. Order \in Nat \ {0} /\ line.key \in Keys
  BY <1>2, Constants DEF ConstantsAssumption, Lines
<1>5. reply' \in [kind : {"nothing", "none", "found", "error"}, offset : 0..(Order - 1)]
  <2>1. CASE winner = NoWinner
    <3>1. reply' = None
      BY <2>1 DEF Finish
    <3> QED
      BY <1>4, <3>1 DEF None
  <2>2. CASE winner # NoWinner
    <3>1. reply' = Found(line.start + winner)
      BY <2>2 DEF Finish
    <3>2. winner \in 0..(line.count - 1)
      BY <1>1, <2>2 DEF IInv, LaunchOK
    <3>3. line.start + winner \in 0..(Order - 1)
      BY <1>3, <1>4, <3>2
    <3> QED
      BY <3>1, <3>3 DEF Found
  <2> QED
    BY <2>1, <2>2
<1>6. ASSUME CompletesCycle PROVE ChainStateTrue'
  <2>1. chain' = [valid |-> TRUE, key |-> line.key, next |-> line.start + line.count]
    BY <1>6 DEF Finish
  <2>2. ASSUME NEW c \in 0..(Chains - 1)
        PROVE  points[c] = PointAt(line.key + (line.start + line.count) + c)
    <3> DEFINE w == c \div PointsPerThread
    <3>1. UsesChains(line) /\ line.count % Chains = 0
      BY <1>6 DEF CompletesCycle
    <3>2. w \in 0..(Threads - 1) /\ c \in Own(w)
      BY ChainOwner
    <3> HIDE DEF w
    <3>3. w \in Workers(line)
      BY <3>1, <3>2 DEF Workers
    <3>4. at[w] = Steps(line)
      BY <1>1, <3>1, <3>3 DEF AllFinished, Finished
    <3>5. points[c] = PointAt(Scalar(line, at[w] * Chains + c))
      BY <1>1, <3>1, <3>2, <3>3 DEF IInv, PointsOnTrack
    <3>6. at[w] * Chains = line.count
      BY <1>2, <3>1, <3>4, CompleteSteps
    <3>7. Scalar(line, line.count + c) = line.key + (line.start + line.count) + c
      <4>1. c \in Nat
        BY Sizes
      <4> QED
        BY <1>3, <4>1 DEF Scalar
    <3> QED
      BY <3>5, <3>6, <3>7
  <2> QED
    BY <1>1, <2>1, <2>2 DEF ChainStateTrue
<1>7. ASSUME ~CompletesCycle PROVE ChainStateTrue'
  <2>1. chain' = chain
    BY <1>7 DEF Finish
  <2> QED
    BY <1>1, <2>1 DEF IInv, ChainStateTrue
<1>8. chain' \in [valid : BOOLEAN, key : Keys \cup {0}, next : 0..(Order - 1)]
  <2>1. CASE CompletesCycle
    <3>1. chain' = [valid |-> TRUE, key |-> line.key, next |-> line.start + line.count]
      BY <2>1 DEF Finish
    <3>2. line.start + line.count \in 0..(Order - 1)
      BY <1>1, <1>3, <1>4, <2>1 DEF NoNextOffset
    <3> QED
      BY <1>4, <3>1, <3>2
  <2>2. CASE ~CompletesCycle
    BY <2>2 DEF Finish, IInv, TypeOK
  <2> QED
    BY <2>1, <2>2
<1>9. TypeOK'
  <2>1. at' \in [AllWorkers -> 0..Order]
    BY <1>4 DEF Finish
  <2>2. DOMAIN centers' = 0..(MaxLanes - 1)
    BY DEF Finish
  <2> QED
    BY <1>1, <1>2, <1>4, <1>5, <1>8, <2>1, <2>2 DEF IInv, TypeOK, NoWinner
<1>10. OneAtATime' /\ StrideTrue'
  BY <1>1, <1>2 DEF IInv, OneAtATime, StrideTrue
<1>11. ChainStateTrue'
  BY <1>6, <1>7
<1> QED
  BY <1>1, <1>9, <1>10, <1>11, IdleStep

\* Every step keeps the invariant.
LEMMA NextKeeps ==
  ASSUME IInv, [Next]_vars
  PROVE  IInv'
<1>1. CASE Start \/ StartFails \/ Send \/ Read
  BY <1>1, QuietStep
<1>2. CASE Launch
  BY <1>2, LaunchStep
<1>3. CASE Kernel
  BY <1>3, ChainedStepKeeps, BatchedStepKeeps DEF Kernel
<1>4. CASE Finish
  BY <1>4, FinishStep
<1>5. CASE Refuse \/ FinishFails \/ CudaError \/ Die \/ Stop
  <2>1. Gone
    BY <1>5 DEF Refuse, FinishFails, CudaError, Die, Stop
  <2>2. reply' \in {reply, NoReply, Error}
    BY <1>5 DEF Refuse, FinishFails, CudaError, Die, Stop
  <2>3. faults' \in 0..MaxFaults
    BY <1>5, Constants DEF IInv, TypeOK, ConstantsAssumption, Refuse, FinishFails, CudaError, Die, Stop
  <2> QED
    BY <2>1, <2>2, <2>3, GoneStep
<1>6. CASE UNCHANGED vars
  <2>1. /\ proc' = proc /\ pipe' = pipe /\ line' = line /\ reply' = reply /\ chain' = chain
        /\ points' = points /\ stride' = stride /\ centers' = centers /\ at' = at
        /\ winner' = winner /\ faults' = faults
    BY <1>6 DEF vars
  <2>2. TypeOK' /\ OneAtATime' /\ LaunchOK' /\ StrideTrue' /\ ChainsMoving' /\ ChainStateTrue'
    BY <2>1 DEF IInv, TypeOK, OneAtATime, LaunchOK, StrideTrue, ChainsMoving, ChainStateTrue
  <2>3. PointsOnTrack'
    BY <2>1 DEF IInv, PointsOnTrack, Finished
  <2>4. Coverage'
    BY <2>1 DEF IInv, Coverage, Evaluated, ClearMatch, Match, NearInfinity
  <2> QED
    BY <2>2, <2>3, <2>4 DEF IInv
<1> QED
  BY <1>1, <1>2, <1>3, <1>4, <1>5, <1>6 DEF Next, Serve

\* The invariant holds in every reachable state.
THEOREM Inductive == Spec => []IInv
<1>1. Init => IInv
  BY InitHolds
<1>2. IInv /\ [Next]_vars => IInv'
  BY NextKeeps
<1> QED
  BY <1>1, <1>2, PTL DEF Spec

\* The variables of the session have their types.
THEOREM TypeCorrect == Spec => []TypeOK
<1>1. IInv => TypeOK
  BY DEF IInv
<1> QED
  BY <1>1, Inductive, PTL

\* The points kept for a continuation are those of the offsets it begins with.
THEOREM ChainStateIsTrue == Spec => []ChainStateTrue
<1>1. IInv => ChainStateTrue
  BY DEF IInv
<1> QED
  BY <1>1, Inductive, PTL

\* Every thread holds the points of the offsets it is about to report on.
THEOREM PointsAreOnTrack == Spec => []PointsOnTrack
<1>1. IInv => PointsOnTrack
  BY DEF IInv
<1> QED
  BY <1>1, Inductive, PTL

--------------------------------------------------------------------------------
(* What the client is told.                                                     *)

\* When all threads have returned, every index of the range has been evaluated.
LEMMA AllEvaluated ==
  ASSUME IInv, proc = "searching", AllFinished, NEW i \in 0..(line.count - 1)
  PROVE  Evaluated(i)
<1>1. line \in Lines /\ ~Refused(line)
  BY DEF IInv, TypeOK, OneAtATime
<1>2. line.count \in Nat \ {0} /\ i \in Nat /\ Lanes(line) \in Nat \ {0} /\ Batches(line) \in Nat
  BY <1>1, Shape, Sizes, Constants DEF ConstantsAssumption
<1>3. Chains \in Nat \ {0} /\ Span \in Nat \ {0}
  BY Sizes
<1>4. CASE UsesChains(line)
  <2> DEFINE w == (i % Chains) \div PointsPerThread
  <2>1. i \div Chains \in 0..(Steps(line) - 1)
    BY <1>2, <1>3, DivBelowCeil DEF Steps
  <2>2. w \in Workers(line)
    <3>1. i % Chains \in 0..(Chains - 1)
      BY <1>2, <1>3, DivMod
    <3> QED
      BY <1>4, <3>1, ChainOwner DEF Workers
  <2>3. at[w] = Steps(line)
    BY <1>4, <2>2 DEF AllFinished, Finished
  <2>4. Steps(line) \in Nat
    BY <1>1, Shape
  <2>5. i \div Chains < at[w]
    <3> HIDE DEF w
    <3> QED
      BY <2>1, <2>3, <2>4
  <2> QED
    BY <1>4, <2>5 DEF Evaluated
<1>5. CASE ~UsesChains(line)
  <2> DEFINE m == i \div Span
             L == Lanes(line)
             v == m % L
             q == m \div L
  <2>1. m \in 0..(Batches(line) - 1)
    BY <1>2, <1>3, DivBelowCeil DEF Batches
  <2>2. q \in Nat /\ v \in 0..(L - 1) /\ m = L * q + v
    <3>1. m \in Nat /\ L \in Nat \ {0}
      BY <1>2, <2>1
    <3> HIDE DEF m, L
    <3> QED
      BY <3>1, DivMod
  <2>3. v \in Workers(line)
    BY <1>5, <2>2 DEF Workers
  <2>4. v + at[v] * L >= Batches(line)
    BY <1>5, <2>3 DEF AllFinished, Finished, BatchOf
  <2>5. at[v] \in Nat
    BY <1>1, <2>3, WorkerAt DEF IInv
  <2>6. Evaluated(i) <=> q < at[v]
    BY <1>5 DEF Evaluated
  <2>7. L \in Nat \ {0}
    BY <1>2
  <2> HIDE DEF m, L, v, q
  <2>8. ASSUME at[v] <= q PROVE FALSE
    <3>1. at[v] * L <= q * L /\ q * L = L * q
      BY <2>2, <2>5, <2>7, <2>8, TimesMonotone
    <3>2. at[v] * L \in Nat /\ L * q \in Nat
      BY <2>2, <2>5, <2>7
    <3> DEFINE x == at[v] * L
               y == L * q
    <3> HIDE DEF x, y
    <3>3. x \in Nat /\ y \in Nat /\ x <= y /\ m = y + v /\ v + x >= Batches(line)
      BY <2>2, <2>4, <3>1, <3>2 DEF x, y
    <3> QED
      BY <1>2, <2>1, <2>2, <2>7, <3>3
  <2> QED
    BY <2>2, <2>5, <2>6, <2>8
<1> QED
  BY <1>4, <1>5

\* The response to a finished launch is true of its line.
LEMMA FinishTells ==
  ASSUME IInv, Finish
  PROVE  Promise!True(line, reply')
<1>1. proc = "searching" /\ AllFinished /\ ~Rejected
  BY DEF Finish
<1>2. line \in Lines /\ ~Refused(line)
  BY <1>1 DEF IInv, TypeOK, OneAtATime
<1>3. line.start \in 1..(Order - 1) /\ line.count \in 1..Order /\ Order \in Nat
  BY <1>2, Shape, Constants DEF ConstantsAssumption
<1>4. winner \in Nat
  BY <1>3 DEF IInv, TypeOK
<1>5. \A o \in Promise!Range(line) : ClearMatch(line, o) => line.start + winner <= o
  <2> SUFFICES ASSUME NEW o \in line.start..(line.start + line.count - 1), ClearMatch(line, o)
               PROVE  line.start + winner <= o
    BY DEF Promise!Range
  <2>1. o - line.start \in 0..(line.count - 1) /\ line.start + (o - line.start) = o /\ o \in Nat
    BY <1>3
  <2>2. Evaluated(o - line.start)
    BY <1>1, <2>1, AllEvaluated
  <2>3. ClearMatch(line, line.start + (o - line.start))
    BY <2>1
  <2>4. winner <= o - line.start
    BY <1>1, <2>1, <2>2, <2>3 DEF IInv, Coverage
  <2> QED
    BY <1>3, <1>4, <2>1, <2>4
<1>6. CASE winner = NoWinner
  <2>1. reply' = None
    BY <1>6 DEF Finish
  <2>2. \A o \in Promise!Range(line) : ~ClearMatch(line, o)
    BY <1>3, <1>5, <1>6 DEF NoWinner, Promise!Range
  <2> QED
    BY <2>1, <2>2 DEF Promise!True, None
<1>7. CASE winner # NoWinner
  <2>1. reply' = Found(line.start + winner)
    BY <1>7 DEF Finish
  <2>2. winner \in 0..(line.count - 1)
    BY <1>1, <1>7 DEF IInv, LaunchOK
  <2>3. line.start + winner \in Promise!Range(line)
    BY <1>3, <2>2 DEF Promise!Range
  <2>4. Match(line, line.start + winner)
    <3>1. Hit(PointAt(line.key + (line.start + winner)))
      BY <1>1, <1>7 DEF Rejected, Verified
    <3> QED
      BY <3>1 DEF Hit, Match
  <2>5. \A o \in Promise!Range(line) : o < line.start + winner => ~ClearMatch(line, o)
    <3> SUFFICES ASSUME NEW o \in line.start..(line.start + line.count - 1),
                        o < line.start + winner, ClearMatch(line, o)
                 PROVE  FALSE
      BY DEF Promise!Range
    <3>1. line.start + winner <= o
      BY <1>5 DEF Promise!Range
    <3> QED
      BY <1>3, <1>4, <3>1
  <2> QED
    BY <2>1, <2>3, <2>4, <2>5 DEF Promise!True, Found
<1> QED
  BY <1>6, <1>7

Asked == IF pipe # NoLine THEN pipe ELSE line

\* Every step of the session is a step of the promise, or is not seen by the client.
LEMMA PromiseStep ==
  ASSUME IInv, [Next]_vars
  PROVE  [Promise!Next]_<<Asked, reply>>
<1>1. CASE Start \/ StartFails \/ UNCHANGED vars
  <2>1. CASE StartFails \/ UNCHANGED vars
    BY <2>1 DEF StartFails, vars, device, Asked
  <2>2. CASE Start
    <3>1. Asked = NoLine /\ Asked' = NoLine
      BY <2>2 DEF Start, device, Asked, IInv, OneAtATime, TypeOK
    <3>2. reply' = NoReply
      BY <2>2 DEF Start
    <3> QED
      BY <3>1, <3>2 DEF Promise!Next, Promise!Drop, Asked
  <2> QED
    BY <1>1, <2>1, <2>2
<1>2. CASE Send
  <2>1. Asked = NoLine /\ reply = NoReply /\ pipe' \in Lines /\ reply' = reply
    BY <1>2 DEF Send, Asked
  <2>2. Asked' = pipe'
    BY <2>1, NoLineIsNone DEF Asked
  <2> QED
    BY <2>1, <2>2 DEF Promise!Next, Promise!Ask, Asked
<1>3. CASE Read
  <2>1. Asked' = Asked
    BY <1>3 DEF Read, device, Asked
  <2> QED
    BY <1>3, <2>1 DEF Read, Promise!Next, Promise!Hear, Asked
<1>4. CASE Refuse \/ FinishFails \/ CudaError
  <2>1. Asked' = NoLine /\ reply' = Error
    BY <1>4 DEF Refuse, FinishFails, CudaError, Gone, Asked
  <2>2. Asked # NoLine /\ reply = NoReply
    BY <1>4 DEF Refuse, FinishFails, CudaError, Asked, IInv, TypeOK, OneAtATime
  <2> QED
    BY <2>1, <2>2 DEF Promise!Next, Promise!Tell, Asked
<1>5. CASE Launch
  <2>1. pipe' = NoLine /\ line' = pipe /\ pipe # NoLine /\ reply' = reply
    BY <1>5 DEF Launch
  <2> QED
    BY <2>1 DEF Asked
<1>6. CASE Kernel
  <2>1. pipe' = pipe /\ line' = line /\ reply' = reply
    BY <1>6 DEF Kernel, ChainedStep, BatchedStep
  <2> QED
    BY <2>1 DEF Asked
<1>7. CASE Finish
  <2>1. Asked = line /\ line # NoLine /\ reply = NoReply
    BY <1>7 DEF Finish, Asked, IInv, TypeOK, OneAtATime
  <2>2. Asked' = NoLine
    BY <1>7 DEF Finish, Asked, IInv, OneAtATime
  <2>3. Promise!True(line, reply')
    BY <1>7, FinishTells
  <2> QED
    BY <2>1, <2>2, <2>3 DEF Promise!Next, Promise!Tell, Asked
<1>8. CASE Die \/ Stop
  <2>1. Asked' = NoLine /\ reply' \in {reply, NoReply}
    BY <1>8 DEF Die, Stop, Gone, Asked
  <2> QED
    BY <2>1 DEF Promise!Next, Promise!Drop, Asked
<1> QED
  BY <1>1, <1>2, <1>3, <1>4, <1>5, <1>6, <1>7, <1>8 DEF Next, Serve

\* SearchPromise: every line gets one answer, an error or a true one, for every group,
\* launch shape and interleaving of the threads.
THEOREM PromiseKept == Spec => KeepsPromise
<1>1. Init => Promise!Init
  BY DEF Init, Promise!Init
<1>2. IInv /\ [Next]_vars => [Promise!Next]_<<Asked, reply>>
  BY PromiseStep
<1> QED
  BY <1>1, <1>2, Inductive, PTL DEF Spec, KeepsPromise, Promise!Spec, Asked

--------------------------------------------------------------------------------
(* The system is a session.                                                     *)

\* What the clients and the process do are steps of the session.
LEMMA SessionStep ==
  ASSUME [SystemNext]_allVars
  PROVE  [Next]_vars
<1>1. CASE UNCHANGED allVars
  BY <1>1 DEF allVars
<1>2. CASE Server
  BY <1>2 DEF Server, Next
<1>3. CASE TerminalNext
  BY <1>3 DEF TerminalNext, Next
<1>4. CASE WorkerNext
  <2>1. StopSession => [Next]_vars
    BY DEF StopSession, Next
  <2>2. CASE Boot \/ BootFails \/ Take \/ Command \/ Choose \/ Exhaust
    BY <2>2 DEF Boot, BootFails, Take, Command, Choose, Exhaust, Next
  <2>3. CASE Obey \/ Lost \/ Ready \/ Shutdown
    BY <2>1, <2>3 DEF Obey, Lost, Ready, Shutdown
  <2>4. CASE Ensure \/ Write \/ RespawnFails \/ Received \/ Progress \/ Winner
    BY <2>4 DEF Ensure, Write, RespawnFails, Received, Progress, Winner, Next
  <2> QED
    BY <1>4, <2>2, <2>3, <2>4 DEF WorkerNext, WorkerStep
<1> QED
  BY <1>1, <1>2, <1>3, <1>4 DEF SystemNext

\* The system implements the session.
THEOREM SystemIsSession == SystemSpec => Spec
<1>1. WorkerInit => Init
  BY DEF WorkerInit
<1>2. [SystemNext]_allVars => [Next]_vars
  BY SessionStep
<1> QED
  BY <1>1, <1>2, PTL DEF SystemSpec, Spec

\* Reused point state is the truth, whatever the worker and the operator ask, cancel and
\* lose.
THEOREM SystemChainState == SystemSpec => []ChainStateTrue
BY SystemIsSession, ChainStateIsTrue, PTL

\* Every thread of every launch in the system holds the points it is to report on.
THEOREM SystemPoints == SystemSpec => []PointsOnTrack
BY SystemIsSession, PointsAreOnTrack, PTL

\* Every line the system writes gets one answer, an error or a true one.
THEOREM SystemPromise == SystemSpec => KeepsPromise
BY SystemIsSession, PromiseKept, PTL

--------------------------------------------------------------------------------
(* What the worker knows.                                                       *)

\* Nothing was asked and nothing is left to be read.
Quiet == Asked = NoLine /\ reply = NoReply

\* The worker's variables rest while an operator is the client.
OneClient == client = "terminal" => work = "booting" /\ outcome.kind = "nothing"

Assigned == work \in Busy => job \in Jobs /\ outcome.kind = "nothing"

\* While the worker waits the batch it wrote is searched, or its answer is there.
Exchange ==
  client = "worker" =>
    IF work = "waiting"
      THEN /\ Asked # NoLine => Asked = BatchLine
           /\ reply.kind \in {"none", "found"} => Promise!True(BatchLine, reply)
      ELSE Quiet

WInv ==
  WorkerTypeOK /\ OneClient /\ Assigned /\ Exchange /\ ProgressIsTrue /\ WinnerIsOwn

\* Matches are those of a key and a pattern, whatever the range.
LEMMA SameMatches ==
  ASSUME NEW r, NEW s, r.key = s.key, r.pattern = s.pattern, NEW o
  PROVE  /\ Match(r, o) <=> Match(s, o)
         /\ ClearMatch(r, o) <=> ClearMatch(s, o)
BY DEF Match, ClearMatch, NearInfinity

\* A job is a line whose numbers are numbers.
LEMMA JobShape ==
  ASSUME WorkerTypeOK
  PROVE  /\ job.start \in Nat /\ job.count \in Nat /\ processed \in 0..job.count
         /\ batch \in 0..(job.count - processed)
<1>1. CASE job \in Jobs
  BY <1>1, WorkerConstants DEF WorkerAssumption, Lines, WorkerTypeOK
<1>2. CASE job = NoLine
  BY <1>2 DEF WorkerTypeOK, NoLine
<1> QED
  BY <1>1, <1>2 DEF WorkerTypeOK

\* What the worker counted stays counted.
LEMMA SameProgress ==
  ASSUME ProgressIsTrue, WinnerIsOwn, job' = job, processed' = processed,
         outcome' = outcome \/ (outcome.kind # "found" /\ outcome'.kind # "found")
  PROVE  ProgressIsTrue' /\ WinnerIsOwn'
<1>1. CASE outcome' = outcome
  BY <1>1 DEF ProgressIsTrue, WinnerIsOwn, ClearMatch, Match, NearInfinity
<1>2. CASE outcome.kind # "found" /\ outcome'.kind # "found"
  BY <1>2 DEF ProgressIsTrue, WinnerIsOwn, ClearMatch, Match, NearInfinity
<1> QED
  BY <1>1, <1>2

\* Closing the process leaves nothing behind.
LEMMA StopQuiets ==
  ASSUME IInv, StopSession
  PROVE  Quiet'
<1>1. CASE proc # "down"
  BY <1>1 DEF StopSession, Stop, Gone, Quiet, Asked
<1>2. CASE proc = "down"
  <2>1. pipe = NoLine /\ line = NoLine
    BY <1>2 DEF IInv, OneAtATime, TypeOK
  <2> QED
    BY <1>2, <2>1 DEF StopSession, Read, device, vars, Quiet, Asked
<1> QED
  BY <1>1, <1>2

\* The answer to the only line was the only one.
LEMMA ReadQuiets ==
  ASSUME IInv, Read
  PROVE  Quiet'
BY DEF Read, device, Quiet, Asked, IInv, OneAtATime, TypeOK

\* Starting the process, or leaving it alone, asks nothing.
LEMMA StartQuiet ==
  ASSUME Quiet, Start \/ StartFails \/ UNCHANGED vars
  PROVE  Quiet'
BY DEF Start, StartFails, vars, device, Quiet, Asked

\* What the process does is to answer what was asked, to forget it, or neither.
LEMMA ServerShown ==
  ASSUME IInv, Serve \/ CudaError \/ Die
  PROVE  \/ Asked' = Asked /\ reply' = reply
         \/ Asked' = NoLine /\ reply' = reply
         \/ Asked # NoLine /\ Asked' = NoLine /\ (reply' = Error \/ Promise!True(Asked, reply'))
<1>1. CASE Refuse \/ FinishFails \/ CudaError
  <2>1. Asked' = NoLine /\ reply' = Error
    BY <1>1 DEF Refuse, FinishFails, CudaError, Gone, Asked
  <2>2. Asked # NoLine
    BY <1>1 DEF Refuse, FinishFails, CudaError, Asked, IInv, TypeOK, OneAtATime
  <2> QED
    BY <2>1, <2>2
<1>2. CASE Launch
  BY <1>2 DEF Launch, Asked
<1>3. CASE Kernel
  BY <1>3 DEF Kernel, ChainedStep, BatchedStep, Asked
<1>4. CASE Finish
  <2>1. Asked = line /\ line # NoLine /\ Asked' = NoLine
    BY <1>4 DEF Finish, Asked, IInv, TypeOK, OneAtATime
  <2>2. Promise!True(line, reply')
    BY <1>4, FinishTells
  <2> QED
    BY <2>1, <2>2
<1>5. CASE Die
  BY <1>5 DEF Die, Gone, Asked
<1> QED
  BY <1>1, <1>2, <1>3, <1>4, <1>5 DEF Serve

--------------------------------------------------------------------------------
(* The worker's invariant, action by action.                                    *)

\* The first state.
LEMMA WorkerInitHolds ==
  ASSUME WorkerInit, IInv
  PROVE  WInv
<1>1. /\ work = "booting" /\ job = NoLine /\ processed = 0 /\ batch = 0 /\ commands = {}
      /\ outcome = Outcome("nothing") /\ jobs = 0 /\ sent = 0 /\ client \in {"worker", "terminal"}
  BY DEF WorkerInit
<1>2. WorkerTypeOK
  <2>1. outcome \in [kind : {"nothing", "found", "exhausted", "canceled", "failed"},
                     offset : 0..(Order - 1)]
    BY <1>1, Constants DEF ConstantsAssumption, Outcome
  <2>2. processed \in 0..job.count /\ batch \in 0..(job.count - processed)
    BY <1>1 DEF NoLine
  <2>3. jobs \in 0..MaxJobs /\ sent \in 0..MaxCommands
    BY <1>1, WorkerConstants DEF WorkerAssumption
  <2> QED
    BY <1>1, <2>1, <2>2, <2>3 DEF WorkerTypeOK, IInv, Work
<1>3. OneClient /\ Assigned
  BY <1>1 DEF OneClient, Assigned, Busy, Outcome
<1>4. Exchange
  BY <1>1 DEF Exchange, Quiet, Asked, WorkerInit, Init
<1>5. ProgressIsTrue /\ WinnerIsOwn
  BY <1>1 DEF ProgressIsTrue, WinnerIsOwn, Outcome, NoLine
<1> QED
  BY <1>2, <1>3, <1>4, <1>5 DEF WInv

\* The worker's variables are left alone.
LEMMA WorkerRests ==
  ASSUME WInv, IInv', client' = client, work' = work, job' = job, processed' = processed,
         batch' = batch, outcome' = outcome, commands' = commands, jobs' \in 0..MaxJobs,
         sent' = sent, Exchange'
  PROVE  WInv'
<1>1. WorkerTypeOK' /\ OneClient' /\ Assigned'
  BY DEF WInv, WorkerTypeOK, OneClient, Assigned, IInv
<1>2. ProgressIsTrue' /\ WinnerIsOwn'
  BY SameProgress DEF WInv
<1> QED
  BY <1>1, <1>2 DEF WInv

\* The process serves the worker.
LEMMA ServerKeeps ==
  ASSUME IInv, IInv', WInv, Server
  PROVE  WInv'
<1>1. /\ client' = client /\ work' = work /\ job' = job /\ processed' = processed
      /\ batch' = batch /\ outcome' = outcome /\ commands' = commands /\ jobs' = jobs
      /\ sent' = sent
  BY DEF Server, workerVars
<1>2. BatchLine' = BatchLine
  BY <1>1 DEF BatchLine
<1>3. \/ Asked' = Asked /\ reply' = reply
      \/ Asked' = NoLine /\ reply' = reply
      \/ Asked # NoLine /\ Asked' = NoLine /\ (reply' = Error \/ Promise!True(Asked, reply'))
  BY ServerShown DEF Server
<1>4. Exchange'
  <2> SUFFICES ASSUME client = "worker"
               PROVE  Exchange'
    BY <1>1 DEF Exchange
  <2>1. CASE work = "waiting"
    <3>1. Asked # NoLine => Asked = BatchLine
      BY <2>1 DEF WInv, Exchange
    <3>2. reply'.kind \in {"none", "found"} => Promise!True(BatchLine, reply')
      <4>1. CASE reply' = reply
        BY <2>1, <4>1 DEF WInv, Exchange
      <4>2. CASE reply' = Error
        BY <4>2 DEF Error
      <4>3. CASE Asked # NoLine /\ Promise!True(Asked, reply')
        BY <3>1, <4>3
      <4> QED
        BY <1>3, <4>1, <4>2, <4>3
    <3>3. Promise!True(BatchLine, reply') <=> Promise!True(BatchLine, reply)'
      BY <1>2 DEF Promise!True, Promise!Range, Match, ClearMatch, NearInfinity
    <3> QED
      BY <1>1, <1>2, <1>3, <2>1, <3>1, <3>2, <3>3 DEF Exchange
  <2>2. CASE work # "waiting"
    <3>1. Quiet
      BY <2>2 DEF WInv, Exchange
    <3>2. Quiet'
      BY <1>3, <3>1 DEF Quiet
    <3> QED
      BY <1>1, <2>2, <3>2 DEF Exchange
  <2> QED
    BY <2>1, <2>2
<1>5. jobs' \in 0..MaxJobs
  BY <1>1 DEF WInv, WorkerTypeOK
<1> QED
  BY <1>1, <1>4, <1>5, WorkerRests

\* The operator writes, reads, starts and stops.
LEMMA TerminalKeeps ==
  ASSUME IInv, IInv', WInv, client = "terminal", TerminalNext
  PROVE  WInv'
<1>1. /\ client' = client /\ work' = work /\ job' = job /\ processed' = processed
      /\ batch' = batch /\ outcome' = outcome /\ commands' = commands /\ sent' = sent
  BY DEF TerminalNext, workerVars
<1>2. jobs' \in 0..MaxJobs
  <2>1. jobs \in 0..MaxJobs /\ MaxJobs \in Nat
    BY WorkerConstants DEF WorkerAssumption, WInv, WorkerTypeOK
  <2>2. jobs' = jobs \/ (jobs < MaxJobs /\ jobs' = jobs + 1)
    BY DEF TerminalNext
  <2> QED
    BY <2>1, <2>2
<1>3. Exchange'
  BY <1>1 DEF Exchange
<1> QED
  BY <1>1, <1>2, <1>3, WorkerRests

\* The worker moves on without counting anything: it starts, sizes and writes a batch, and
\* ends an assignment that found nothing.
LEMMA UncountedKeeps ==
  ASSUME IInv, IInv', WInv, client = "worker", client' = client, job' = job,
         processed' = processed, jobs' = jobs, sent' \in 0..MaxCommands,
         work' \in Work, work' \in Busy => work \in Busy,
         batch' \in 0..(job.count - processed),
         commands' \subseteq {"cancel", "shutdown"},
         \/ outcome' = outcome
         \/ /\ work \in Busy /\ work' \notin Busy
            /\ outcome' \in {Outcome("canceled"), Outcome("failed"), Outcome("exhausted")},
         Exchange'
  PROVE  WInv'
<1>1. WorkerTypeOK'
  <2>1. outcome' \in [kind : {"nothing", "found", "exhausted", "canceled", "failed"},
                      offset : 0..(Order - 1)]
    <3>1. 0 \in 0..(Order - 1)
      BY Constants DEF ConstantsAssumption
    <3> QED
      BY <3>1 DEF WInv, WorkerTypeOK, Outcome
  <2> QED
    BY <2>1 DEF WInv, WorkerTypeOK, IInv
<1>2. OneClient'
  BY DEF OneClient
<1>3. Assigned'
  BY DEF WInv, Assigned
<1>4. ProgressIsTrue' /\ WinnerIsOwn'
  <2>1. outcome' = outcome \/ (outcome.kind # "found" /\ outcome'.kind # "found")
    BY DEF WInv, Assigned, Outcome
  <2> QED
    BY <2>1, SameProgress DEF WInv
<1> QED
  BY <1>1, <1>2, <1>3, <1>4 DEF WInv

\* Cutting to whole cycles takes something away, or nothing.
LEMMA AlignedShape ==
  ASSUME NEW n \in Nat
  PROVE  Aligned(n) \in 0..n
<1>1. n \div Chains \in Nat /\ n % Chains \in 0..(Chains - 1)
      /\ n = Chains * (n \div Chains) + (n % Chains)
  BY Sizes, DivMod
<1> DEFINE q == n \div Chains
           r == n % Chains
           cycles == Chains * q
<1>2. cycles \in Nat
  BY <1>1, Sizes
<1>3. Aligned(n) = IF n >= Chains THEN n - r ELSE n
  BY DEF Aligned
<1>4. r \in Nat /\ n = cycles + r
  BY <1>1, Sizes
<1> HIDE DEF r, cycles
<1> QED
  BY <1>2, <1>3, <1>4

\* The worker's own steps that count nothing.
LEMMA UncountedSteps ==
  ASSUME IInv, IInv', WInv, client = "worker",
         \/ Boot \/ BootFails \/ Command \/ Obey \/ Choose \/ Ensure \/ RespawnFails \/ Write
         \/ Lost \/ Received \/ Exhaust \/ Ready \/ Shutdown
  PROVE  WInv'
<1>1. /\ client' = client /\ job' = job /\ processed' = processed /\ jobs' = jobs
  BY DEF Boot, BootFails, Command, Obey, Choose, Ensure, RespawnFails, Fails, Write, Lost,
         Received, Exhaust, Ready, Shutdown
<1>2. /\ job.start \in Nat /\ job.count \in Nat /\ processed \in 0..job.count
      /\ batch \in 0..(job.count - processed)
  BY JobShape DEF WInv
<1>3. sent' \in 0..MaxCommands
  <2>1. sent \in 0..MaxCommands /\ MaxCommands \in Nat
    BY WorkerConstants DEF WorkerAssumption, WInv, WorkerTypeOK
  <2>2. sent' = sent \/ (sent < MaxCommands /\ sent' = sent + 1)
    BY DEF Boot, BootFails, Command, Obey, Choose, Ensure, RespawnFails, Fails, Write, Lost,
           Received, Exhaust, Ready, Shutdown
  <2> QED
    BY <2>1, <2>2
<1>4. work' \in Work /\ (work' \in Busy => work \in Busy)
  BY DEF WInv, WorkerTypeOK, Work, Busy, Boot, BootFails, Command, Obey, Choose, Ensure,
         RespawnFails, Fails, Report, Write, Lost, Received, Exhaust, Ready, Shutdown
<1>5. batch' \in 0..(job.count - processed)
  <2>1. CASE Choose
    <3>1. PICK size \in BatchSizes :
            batch' = Aligned(Least(Least(size, CountLimit), job.count - processed))
      BY <2>1 DEF Choose
    <3>2. size \in Nat /\ CountLimit \in Nat
      BY WorkerConstants, Constants DEF WorkerAssumption, ConstantsAssumption
    <3>3. Least(Least(size, CountLimit), job.count - processed) \in 0..(job.count - processed)
      BY <1>2, <3>2 DEF Least
    <3> DEFINE least == Least(Least(size, CountLimit), job.count - processed)
    <3> HIDE DEF least
    <3>4. least \in 0..(job.count - processed) /\ batch' = Aligned(least)
      BY <3>1, <3>3 DEF least
    <3>5. Aligned(least) \in 0..least
      BY <1>2, <3>4, AlignedShape
    <3> QED
      BY <1>2, <3>4, <3>5
  <2>2. CASE ~Choose
    <3>1. batch' = batch \/ batch' = 0
      BY <2>2 DEF Boot, BootFails, Command, Obey, Ensure, RespawnFails, Fails, Report, Write,
                  Lost, Received, Exhaust, Ready, Shutdown
    <3> QED
      BY <1>2, <3>1
  <2> QED
    BY <2>1, <2>2
<1>6. commands' \subseteq {"cancel", "shutdown"}
  <2>1. commands \subseteq {"cancel", "shutdown"}
    BY DEF WInv, WorkerTypeOK
  <2>2. \/ commands' \in {commands, {}}
        \/ \E c \in {"cancel", "shutdown"} : commands' = commands \cup {c}
    BY DEF Boot, BootFails, Command, Obey, Choose, Ensure, RespawnFails, Fails, Write, Lost,
           Received, Exhaust, Ready, Shutdown
  <2> QED
    BY <2>1, <2>2
<1>7. \/ outcome' = outcome
      \/ /\ work \in Busy /\ work' \notin Busy
         /\ outcome' \in {Outcome("canceled"), Outcome("failed"), Outcome("exhausted")}
  BY DEF Boot, BootFails, Command, Obey, Choose, Ensure, RespawnFails, Fails, Report, Write,
         Lost, Received, Exhaust, Ready, Shutdown, Busy
<1>8. Exchange'
  <2>1. CASE Command
    <3>1. /\ Asked' = Asked /\ reply' = reply /\ work' = work /\ BatchLine' = BatchLine
      BY <2>1 DEF Command, vars, Asked, BatchLine
    <3>2. Promise!True(BatchLine, reply) <=> Promise!True(BatchLine, reply)'
      BY <3>1 DEF Promise!True, Promise!Range, Match, ClearMatch, NearInfinity
    <3> QED
      BY <1>1, <3>1, <3>2 DEF WInv, Exchange, Quiet
  <2>2. CASE Write
    <3>1. pipe' = BatchLine /\ pipe' # NoLine /\ reply' = NoReply /\ work' = "waiting"
      BY <2>2, NoLineIsNone DEF Write, Send
    <3>2. BatchLine' = BatchLine
      BY <2>2 DEF Write, BatchLine
    <3> QED
      BY <1>1, <3>1, <3>2 DEF Exchange, Asked, NoReply
  <2>3. CASE Boot \/ BootFails \/ Choose \/ Ensure \/ RespawnFails \/ Exhaust
    <3>1. work # "waiting" /\ work' # "waiting"
      BY <2>3 DEF Boot, BootFails, Choose, Ensure, RespawnFails, Fails, Report, Exhaust
    <3>2. Quiet
      BY <3>1 DEF WInv, Exchange
    <3>3. Start \/ StartFails \/ UNCHANGED vars
      BY <2>3 DEF Boot, BootFails, Choose, Ensure, RespawnFails, Exhaust
    <3>4. Quiet'
      BY <3>2, <3>3, StartQuiet
    <3> QED
      BY <3>1, <3>4 DEF Exchange
  <2>4. CASE Obey \/ Lost \/ Received \/ Ready \/ Shutdown
    <3>1. work' # "waiting"
      BY <2>4 DEF Obey, Lost, Received, Fails, Report, Ready, Shutdown
    <3>2. StopSession \/ Read \/ (work # "waiting" /\ UNCHANGED vars)
      BY <2>4 DEF Obey, Lost, Received, Ready, Shutdown
    <3>3. work # "waiting" => Quiet
      BY DEF WInv, Exchange
    <3>4. Quiet'
      BY <3>2, <3>3, StopQuiets, ReadQuiets, StartQuiet
    <3> QED
      BY <3>1, <3>4 DEF Exchange
  <2> QED
    BY <2>1, <2>2, <2>3, <2>4
<1> HIDE DEF Busy, Work
<1> QED
  BY <1>1, <1>3, <1>4, <1>5, <1>6, <1>7, <1>8, UncountedKeeps

\* An assignment is taken.
LEMMA TakeKeeps ==
  ASSUME IInv, IInv', WInv, client = "worker", Take
  PROVE  WInv'
<1>1. /\ job' \in Jobs /\ jobs < MaxJobs /\ jobs' = jobs + 1 /\ work = "idle" /\ work' = "loop"
      /\ processed' = 0 /\ batch' = 0 /\ outcome' = Outcome("nothing") /\ commands' = {}
      /\ client' = client /\ sent' = sent
  BY DEF Take
<1>2. job'.start \in Nat /\ job'.count \in Nat
  BY <1>1, WorkerConstants DEF WorkerAssumption, Lines
<1>3. WorkerTypeOK'
  <2>1. outcome' \in [kind : {"nothing", "found", "exhausted", "canceled", "failed"},
                      offset : 0..(Order - 1)]
    BY <1>1, Constants DEF ConstantsAssumption, Outcome
  <2>2. jobs' \in 0..MaxJobs
    BY <1>1, WorkerConstants DEF WorkerAssumption, WInv, WorkerTypeOK
  <2> QED
    BY <1>1, <1>2, <2>1, <2>2 DEF WInv, WorkerTypeOK, IInv, Work, Busy
<1>4. OneClient' /\ Assigned'
  BY <1>1 DEF OneClient, Assigned, Outcome
<1>5. Exchange'
  <2>1. Quiet
    BY <1>1 DEF WInv, Exchange
  <2>2. Quiet'
    BY <2>1, StartQuiet DEF Take
  <2> QED
    BY <1>1, <2>2 DEF Exchange
<1>6. ProgressIsTrue' /\ WinnerIsOwn'
  BY <1>1, <1>2 DEF ProgressIsTrue, WinnerIsOwn, Outcome
<1> QED
  BY <1>3, <1>4, <1>5, <1>6 DEF WInv

\* The batch begins where the count of the assignment stands.
LEMMA BatchShape ==
  ASSUME WInv, work \in Busy
  PROVE  /\ BatchLine.key = job.key /\ BatchLine.pattern = job.pattern
         /\ BatchLine.start = job.start + processed /\ BatchLine.count = batch
BY WorkerConstants DEF WorkerAssumption, WInv, Assigned, Lines, BatchLine

\* A batch without a match is counted, or ends the assignment with a winner.
LEMMA CountedSteps ==
  ASSUME IInv, IInv', WInv, client = "worker", Progress \/ Winner
  PROVE  WInv'
<1>1. /\ work = "waiting" /\ work \in Busy /\ processed' = processed + batch /\ batch' = 0
      /\ job' = job /\ client' = client /\ commands' = commands /\ jobs' = jobs /\ sent' = sent
      /\ Read /\ reply.kind \in {"none", "found"} /\ work' \in {"loop", "ended"}
  BY DEF Progress, Winner, Report, Busy
<1>2. /\ job.start \in Nat /\ job.count \in Nat /\ processed \in 0..job.count
      /\ batch \in 0..(job.count - processed)
  BY JobShape DEF WInv
<1>3. /\ BatchLine.key = job.key /\ BatchLine.pattern = job.pattern
      /\ BatchLine.start = job.start + processed /\ BatchLine.count = batch
  BY <1>1, BatchShape
<1>4. Promise!True(BatchLine, reply)
  BY <1>1 DEF WInv, Exchange
<1>5. job \in Jobs /\ outcome.kind = "nothing"
  BY <1>1 DEF WInv, Assigned
<1>6. \A o \in job.start..(job.start + processed - 1) : ~ClearMatch(job, o)
  BY <1>5 DEF WInv, ProgressIsTrue
<1>7. Promise!Range(BatchLine) = (job.start + processed)..(job.start + processed + batch - 1)
  BY <1>3 DEF Promise!Range
<1>8. \A o : /\ Match(BatchLine, o) <=> Match(job, o)
             /\ ClearMatch(BatchLine, o) <=> ClearMatch(job, o)
  BY <1>3, SameMatches
<1>9. Quiet'
  BY <1>1, ReadQuiets
<1>10. OneClient' /\ Exchange'
  BY <1>1, <1>9 DEF OneClient, Exchange
<1>11. processed' \in 0..job'.count /\ batch' \in 0..(job'.count - processed')
  BY <1>1, <1>2
<1>12. CASE Progress
  <2>1. reply.kind = "none" /\ outcome' = outcome /\ work' = "loop"
    BY <1>12 DEF Progress
  <2>2. \A o \in Promise!Range(BatchLine) : ~ClearMatch(BatchLine, o)
    BY <1>4, <2>1 DEF Promise!True
  <2>3. \A o \in job.start..(job.start + (processed + batch) - 1) : ~ClearMatch(job, o)
    <3> SUFFICES ASSUME NEW o \in job.start..(job.start + (processed + batch) - 1)
                 PROVE  ~ClearMatch(job, o)
      OBVIOUS
    <3>1. \/ o \in job.start..(job.start + processed - 1)
          \/ o \in (job.start + processed)..(job.start + processed + batch - 1)
      BY <1>2
    <3> QED
      BY <1>6, <1>7, <1>8, <2>2, <3>1
  <2>4. ProgressIsTrue' /\ WinnerIsOwn'
    BY <1>1, <1>5, <2>1, <2>3 DEF ProgressIsTrue, WinnerIsOwn, ClearMatch, Match, NearInfinity
  <2>5. WorkerTypeOK' /\ Assigned'
    BY <1>1, <1>5, <1>11, <2>1 DEF WInv, WorkerTypeOK, Assigned, IInv, Work, Busy
  <2> QED
    BY <1>10, <2>4, <2>5 DEF WInv
<1>13. CASE Winner
  <2>1. /\ reply.kind = "found" /\ outcome' = [kind |-> "found", offset |-> reply.offset]
        /\ work' = "ended"
    BY <1>13 DEF Winner, Report
  <2>2. /\ reply.offset \in Promise!Range(BatchLine) /\ Match(BatchLine, reply.offset)
        /\ \A o \in Promise!Range(BatchLine) : o < reply.offset => ~ClearMatch(BatchLine, o)
    BY <1>4, <2>1 DEF Promise!True
  <2>3. reply.offset \in job.start..(job.start + job.count - 1) /\ Match(job, reply.offset)
    BY <1>2, <1>7, <1>8, <2>2
  <2>4. \A o \in job.start..(job.start + (reply.offset - job.start) - 1) : ~ClearMatch(job, o)
    <3> SUFFICES ASSUME NEW o \in job.start..(job.start + (reply.offset - job.start) - 1)
                 PROVE  ~ClearMatch(job, o)
      OBVIOUS
    <3>1. o < reply.offset
      BY <1>2, <2>3
    <3>2. \/ o \in job.start..(job.start + processed - 1)
          \/ o \in (job.start + processed)..(job.start + processed + batch - 1)
      BY <1>2, <1>7, <2>2, <3>1
    <3> QED
      BY <1>6, <1>7, <1>8, <2>2, <3>1, <3>2
  <2>5. ProgressIsTrue' /\ WinnerIsOwn'
    BY <1>1, <2>1, <2>3, <2>4 DEF ProgressIsTrue, WinnerIsOwn, ClearMatch, Match, NearInfinity
  <2>6. outcome' \in [kind : {"nothing", "found", "exhausted", "canceled", "failed"},
                      offset : 0..(Order - 1)]
    BY <2>1 DEF IInv, TypeOK
  <2>7. WorkerTypeOK' /\ Assigned'
    BY <1>1, <1>5, <1>11, <2>1, <2>6 DEF WInv, WorkerTypeOK, Assigned, IInv, Work, Busy
  <2> QED
    BY <1>10, <2>5, <2>7 DEF WInv
<1> QED
  BY <1>12, <1>13

\* Every step of the system keeps the worker's invariant.
LEMMA SystemKeeps ==
  ASSUME IInv, IInv', WInv, [SystemNext]_allVars
  PROVE  WInv'
<1>1. CASE Server
  BY <1>1, ServerKeeps
<1>2. CASE client = "terminal" /\ TerminalNext
  BY <1>2, TerminalKeeps
<1>3. CASE client = "worker" /\ WorkerNext
  BY <1>3, UncountedSteps, TakeKeeps, CountedSteps DEF WorkerNext, WorkerStep
<1>4. CASE UNCHANGED allVars
  <2>1. /\ client' = client /\ work' = work /\ job' = job /\ processed' = processed
        /\ batch' = batch /\ outcome' = outcome /\ commands' = commands /\ jobs' = jobs
        /\ sent' = sent /\ Asked' = Asked /\ reply' = reply
    BY <1>4 DEF allVars, workerVars, vars, Asked
  <2>2. BatchLine' = BatchLine
    BY <2>1 DEF BatchLine
  <2>3. Promise!True(BatchLine, reply) <=> Promise!True(BatchLine, reply)'
    BY <2>1, <2>2 DEF Promise!True, Promise!Range, Match, ClearMatch, NearInfinity
  <2>4. Exchange'
    BY <2>1, <2>2, <2>3 DEF WInv, Exchange, Quiet
  <2>5. jobs' \in 0..MaxJobs
    BY <2>1 DEF WInv, WorkerTypeOK
  <2> QED
    BY <2>1, <2>4, <2>5, WorkerRests
<1> QED
  BY <1>1, <1>2, <1>3, <1>4 DEF SystemNext

\* The worker's invariant holds in every reachable state of the system.
THEOREM WorkerInductive == SystemSpec => []WInv
<1>1. WorkerInit /\ IInv => WInv
  BY WorkerInitHolds
<1>2. IInv /\ IInv' /\ WInv /\ [SystemNext]_allVars => WInv'
  BY SystemKeeps
<1>3. SystemSpec => []IInv
  BY SystemIsSession, Inductive, PTL
<1> QED
  BY <1>1, <1>2, <1>3, PTL DEF SystemSpec

\* The variables of the system have their types: no batch exceeds what is left of its
\* assignment.
THEOREM SystemTypes == SystemSpec => []WorkerTypeOK
<1>1. WInv => WorkerTypeOK
  BY DEF WInv
<1> QED
  BY <1>1, WorkerInductive, PTL

\* What a worker counts as processed was searched for its assignment, and held no match.
THEOREM ProgressTrue == SystemSpec => []ProgressIsTrue
<1>1. WInv => ProgressIsTrue
  BY DEF WInv
<1> QED
  BY <1>1, WorkerInductive, PTL

\* A winner a worker reports lies in its assignment and matches.
THEOREM WinnersAreOwn == SystemSpec => []WinnerIsOwn
<1>1. WInv => WinnerIsOwn
  BY DEF WInv
<1> QED
  BY <1>1, WorkerInductive, PTL

\* After an outcome nothing is searched and nothing is left to be read.
THEOREM QuietAfterEnd == SystemSpec => []EndedIsQuiet
<1>1. IInv /\ WInv => EndedIsQuiet
  <2> SUFFICES ASSUME IInv, WInv, client = "worker", work \notin Busy
               PROVE  proc # "searching" /\ pipe = NoLine /\ reply = NoReply
    BY DEF EndedIsQuiet
  <2>1. Quiet
    BY DEF WInv, Exchange, Busy
  <2> QED
    BY <2>1 DEF Quiet, Asked, IInv, TypeOK
<1>2. SystemSpec => []IInv
  BY SystemIsSession, Inductive, PTL
<1> QED
  BY <1>1, <1>2, WorkerInductive, PTL

--------------------------------------------------------------------------------
(* Nothing but a fault, or an offset beside infinity, fails an assignment.  A   *)
(* process answers a batch with an error when it refuses it, when the next      *)
(* offset is the group order, and when the host does not confirm the winner of  *)
(* the device; so the proof says what a winner of the device is, and what the   *)
(* worker knows of its process while nothing went wrong.  First, a winner of    *)
(* the device.                                                                  *)

\* The host confirms the winner of the device, but where a batched center beside it is at
\* infinity (the second comparison of search_cpu over the single winning offset).
WinnerTrue ==
  proc = "searching" /\ winner # NoWinner =>
    /\ winner \in 0..(line.count - 1)
    /\ Verified(line.start + winner) \/ NearInfinity(line, line.start + winner)

\* The winner of a chained thread is confirmed.
LEMMA ChainedWinner ==
  ASSUME IInv, IInv', WinnerTrue, NEW w \in AllWorkers, ChainedStep(w)
  PROVE  WinnerTrue'
<1> DEFINE first == at[w] * Chains
           Point(i) == points[i - first]
<1>1. /\ proc = "searching" /\ UsesChains(line) /\ w \in Workers(line)
      /\ proc' = proc /\ line' = line
  BY DEF ChainedStep
<1>2. line \in Lines /\ ~Refused(line)
  BY <1>1 DEF IInv, TypeOK, OneAtATime
<1>3. w \in 0..(Threads - 1) /\ at[w] \in Nat
  BY <1>1, <1>2, WorkerAt DEF IInv, Workers
<1>4. first \in Nat
  BY <1>3, Sizes
<1>5. line.key \in Nat /\ line.start \in Nat /\ line.count \in Nat
  BY <1>2, Shape, Constants DEF ConstantsAssumption
<1>6. \/ winner' = winner
      \/ /\ winner' \in {first + c : c \in Own(w)} /\ winner' < line.count
         /\ Hit(Point(winner'))
  <2> DEFINE hits == {i \in {first + c : c \in Own(w)} : i < line.count /\ Hit(Point(i))}
  <2>1. \E low \in hits \cup {winner} : winner' = low
    BY DEF ChainedStep, Evaluate
  <2>2. winner' = winner \/ winner' \in hits
    BY <2>1
  <2> QED
    BY <2>2
<1>7. CASE winner' = winner
  BY <1>1, <1>7 DEF WinnerTrue, Verified, Hit, NearInfinity
<1>8. ASSUME NEW c \in Own(w), winner' = first + c, winner' < line.count, Hit(Point(winner'))
      PROVE  WinnerTrue'
  <2>1. c \in Nat
    BY <1>3, OwnChains, Sizes
  <2>2. winner' - first = c
    <3> HIDE DEF first
    <3> QED
      BY <1>4, <1>8, <2>1
  <2>3. Hit(points[c])
    <3> HIDE DEF first
    <3> QED
      BY <1>8, <2>2
  <2>4. points[c] = PointAt(Scalar(line, first + c))
    BY <1>1 DEF IInv, PointsOnTrack
  <2>5. Scalar(line, first + c) = line.key + (line.start + winner')
    <3> HIDE DEF first
    <3> QED
      BY <1>4, <1>5, <1>8, <2>1 DEF Scalar
  <2>6. Hit(PointAt(line.key + (line.start + winner')))
    BY <2>3, <2>4, <2>5
  <2>7. winner' \in 0..(line.count - 1)
    <3> HIDE DEF first
    <3> QED
      BY <1>4, <1>5, <1>8, <2>1
  <2> QED
    BY <1>1, <2>6, <2>7 DEF WinnerTrue, Verified, Hit
<1> QED
  BY <1>6, <1>7, <1>8

\* The winner of a batched thread is confirmed, or its center is at infinity.
LEMMA BatchedWinner ==
  ASSUME IInv, IInv', WinnerTrue, NEW w \in AllWorkers, BatchedStep(w)
  PROVE  WinnerTrue'
<1> DEFINE b == BatchOf(line, w, at[w])
           center == CenterIndex(b)
           n == Scalar(line, center)
           Point(i) == Neighbour(centers[w], i - center)
<1>1. /\ proc = "searching" /\ ~UsesChains(line) /\ w \in Workers(line) /\ ~Finished(line, w)
      /\ proc' = proc /\ line' = line
  BY DEF BatchedStep
<1>2. line \in Lines /\ ~Refused(line)
  BY <1>1 DEF IInv, TypeOK, OneAtATime
<1>3. w \in Nat /\ at[w] \in Nat
  BY <1>1, <1>2, WorkerAt DEF IInv
<1>4. /\ line.key \in 1..(Order - 1) /\ line.start \in 1..(Order - 1) /\ line.count \in 1..Order
      /\ line.start + line.count <= Order /\ Batches(line) \in 1..line.count
      /\ Batches(line) * Span <= line.count + Span - 1 /\ Lanes(line) \in 1..MaxLanes
  BY <1>2, Shape
<1>5. /\ Span \in Nat \ {0} /\ MaxLanes \in Nat \ {0} /\ Radius \in Nat \ {0} /\ Radius < Order
      /\ Span = 2 * Radius + 1 /\ Order \in Nat \ {0} /\ Far = 4 * Order
  BY Sizes, Constants DEF ConstantsAssumption, Far
<1>6. b \in Nat
  <2>1. at[w] * Lanes(line) \in Nat
    BY <1>3, <1>4, <1>5
  <2> QED
    BY <1>3, <2>1 DEF BatchOf
<1>7. b < Batches(line)
  BY <1>1, <1>4, <1>6 DEF Finished
<1>8. center = b * Span + Radius /\ b * Span \in Nat /\ b * Span + Span <= line.count + Span - 1
  <2>1. center = b * Span + Radius
    BY DEF CenterIndex
  <2>2. (b + 1) * Span <= Batches(line) * Span
    BY <1>4, <1>5, <1>6, <1>7, TimesMonotone
  <2>3. (b + 1) * Span = b * Span + Span /\ b * Span \in Nat
    BY <1>5, <1>6
  <2>4. Batches(line) * Span \in Nat
    BY <1>4, <1>5
  <2> HIDE DEF b, center
  <2> QED
    BY <1>4, <1>5, <2>1, <2>2, <2>3, <2>4
<1>9. n = line.key + line.start + center /\ n \in Radius..Far /\ center \in Nat /\ n > 0
  <2>1. n = line.key + line.start + center
    BY DEF Scalar
  <2> HIDE DEF n, center, b
  <2> QED
    BY <1>4, <1>5, <1>8, <2>1
<1>10. centers[w] = PointAt(n)
  BY <1>1 DEF IInv, PointsOnTrack
<1>11. \/ winner' = winner
       \/ /\ winner' \in {center + d : d \in (-Radius)..Radius} /\ winner' < line.count
          /\ Hit(Point(winner'))
  <2> DEFINE hits == {i \in {center + d : d \in (-Radius)..Radius} : i < line.count /\ Hit(Point(i))}
  <2>1. \E low \in hits \cup {winner} : winner' = low
    BY DEF BatchedStep, Evaluate
  <2>2. winner' = winner \/ winner' \in hits
    BY <2>1
  <2> QED
    BY <2>2
<1>12. CASE winner' = winner
  BY <1>1, <1>12 DEF WinnerTrue, Verified, Hit, NearInfinity
<1>13. ASSUME NEW d \in (-Radius)..Radius, winner' = center + d, winner' < line.count,
              Hit(Point(winner'))
       PROVE  WinnerTrue'
  <2>1. winner' - center = d
    <3> HIDE DEF center
    <3> QED
      BY <1>5, <1>9, <1>13
  <2>2. Hit(Neighbour(PointAt(n), d))
    <3> HIDE DEF center, n
    <3> QED
      BY <1>10, <1>13, <2>1
  <2>3. winner' \in 0..(line.count - 1)
    <3> HIDE DEF center, b
    <3> QED
      BY <1>4, <1>5, <1>8, <1>13
  <2>4. /\ n + d = line.key + (line.start + winner')
        /\ n \in (line.key + (line.start + winner') - Radius)
                   ..(line.key + (line.start + winner') + Radius)
    <3> HIDE DEF center, n
    <3> QED
      BY <1>4, <1>5, <1>9, <1>13
  <2>5. CASE Infinite(PointAt(n))
    <3>1. NearInfinity(line, line.start + winner')
      <4> HIDE DEF n
      <4> QED
        BY <1>9, <2>4, <2>5 DEF NearInfinity
    <3> QED
      BY <1>1, <2>3, <3>1 DEF WinnerTrue, NearInfinity
  <2>6. CASE ~Infinite(PointAt(n))
    <3>1. Neighbour(PointAt(n), d) = PointAt(n + d)
      <4> HIDE DEF n
      <4> QED
        BY <1>9, <2>6, Arithmetic DEF ArithmeticAssumption
    <3>2. Hit(PointAt(line.key + (line.start + winner')))
      <4> HIDE DEF n
      <4> QED
        BY <2>2, <2>4, <3>1
    <3> QED
      BY <1>1, <2>3, <3>2 DEF WinnerTrue, Verified, Hit
  <2> QED
    BY <2>5, <2>6
<1> QED
  BY <1>11, <1>12, <1>13

\* Every step of the session keeps it.
LEMMA WinnerKept ==
  ASSUME IInv, IInv', WinnerTrue, [Next]_vars
  PROVE  WinnerTrue'
<1>1. CASE Kernel
  BY <1>1, ChainedWinner, BatchedWinner DEF Kernel
<1>2. CASE Launch
  <2>1. winner' = NoWinner
    BY <1>2 DEF Launch
  <2> QED
    BY <2>1 DEF WinnerTrue, NoWinner
<1>3. CASE Refuse \/ FinishFails \/ CudaError \/ Die \/ Stop \/ Finish \/ Start
  <2>1. proc' # "searching"
    BY <1>3 DEF Refuse, FinishFails, CudaError, Die, Stop, Finish, Start, Gone
  <2> QED
    BY <2>1 DEF WinnerTrue
<1>4. CASE StartFails \/ Send \/ Read \/ UNCHANGED vars
  <2>1. proc' = proc /\ line' = line /\ winner' = winner
    BY <1>4 DEF StartFails, Send, Read, device, vars
  <2> QED
    BY <2>1 DEF WinnerTrue, Verified, Hit, NearInfinity, NoWinner
<1> QED
  BY <1>1, <1>2, <1>3, <1>4 DEF Next, Serve

--------------------------------------------------------------------------------
(* What the worker knows while nothing went wrong.                              *)

\* The batch under way is one the native side takes.
BatchOK ==
  client = "worker" /\ work \in {"starting", "writing", "waiting"} =>
    batch # 0 /\ batch <= CountLimit

\* The process is there when the line is written; it ends only with an error, which only a
\* fragile assignment gets, and only such an assignment has failed.
Faultless ==
  client = "worker" /\ faults = 0 =>
    /\ work = "writing" => proc # "down"
    /\ work = "waiting" => /\ proc = "down" => reply.kind = "error"
                           /\ reply.kind = "error" => Fragile(job)
    /\ outcome.kind = "failed" => Fragile(job)

FInv == WinnerTrue /\ BatchOK /\ Faultless

\* Faults are counted up.
LEMMA FaultsGrow ==
  ASSUME IInv, IInv', [Next]_vars
  PROVE  faults' = 0 => faults = 0
<1>1. faults \in Nat
  BY Constants DEF ConstantsAssumption, IInv, TypeOK
<1>2. faults' = faults \/ faults' = faults + 1
  BY DEF Next, Serve, Kernel, vars, Start, StartFails, Send, Read, Stop, Refuse, Launch,
         ChainedStep, BatchedStep, Finish, FinishFails, CudaError, Die
<1> QED
  BY <1>1, <1>2

\* The numbers of an assignment under way.
LEMMA JobNumbers ==
  ASSUME WInv, work \in Busy
  PROVE  /\ job \in Jobs /\ job.key \in 1..(Order - 1) /\ Order \in Nat
         /\ job.start \in Nat \ {0} /\ job.count \in Nat \ {0}
         /\ job.start + job.count <= Order
         /\ processed \in 0..job.count /\ batch \in 0..(job.count - processed)
<1>1. job \in Jobs
  BY DEF WInv, Assigned
<1>2. job.key \in 1..(Order - 1) /\ job.start \in Nat /\ job.count \in Nat /\ Order \in Nat
  BY <1>1, WorkerConstants, Constants DEF WorkerAssumption, ConstantsAssumption, Lines
<1>3. job.start # 0 /\ job.count # 0 /\ job.start + job.count <= Order
  BY <1>1, JobConstants DEF JobAssumption
<1> QED
  BY <1>1, <1>2, <1>3 DEF WInv, WorkerTypeOK

\* A batch of at least one offset keeps one when it is cut to whole cycles.
LEMMA AlignedPositive ==
  ASSUME NEW n \in Nat \ {0}
  PROVE  Aligned(n) \in 1..n
<1>1. Aligned(n) \in 0..n
  BY AlignedShape
<1>2. Chains \in Nat \ {0} /\ n % Chains \in 0..(Chains - 1)
  BY Sizes, DivMod
<1>3. Aligned(n) = IF n >= Chains THEN n - (n % Chains) ELSE n
  BY DEF Aligned
<1> DEFINE r == n % Chains
<1> HIDE DEF r
<1>4. Aligned(n) = IF n >= Chains THEN n - r ELSE n
  BY <1>3 DEF r
<1>5. r \in 0..(Chains - 1)
  BY <1>2 DEF r
<1> QED
  BY <1>1, <1>2, <1>4, <1>5

\* Where an offset of the batch is beside infinity the assignment is fragile.
LEMMA BatchFragile ==
  ASSUME WInv, work \in Busy, NEW o \in Promise!Range(BatchLine), NearInfinity(BatchLine, o)
  PROVE  Fragile(job)
<1>1. /\ BatchLine.key = job.key /\ BatchLine.start = job.start + processed
      /\ BatchLine.count = batch
  BY BatchShape
<1>2. /\ job.start \in Nat \ {0} /\ job.count \in Nat \ {0}
      /\ processed \in 0..job.count /\ batch \in 0..(job.count - processed)
  BY JobNumbers
<1>3. o \in (job.start + processed)..(job.start + processed + batch - 1)
  BY <1>1 DEF Promise!Range
<1>4. o \in job.start..(job.start + job.count - 1)
  BY <1>2, <1>3
<1>5. NearInfinity(job, o)
  BY <1>1 DEF NearInfinity
<1> QED
  BY <1>4, <1>5 DEF Fragile

\* A refused batch is one of a fragile assignment.
LEMMA RefusedFragile ==
  ASSUME WInv, work = "waiting", client = "worker", BatchOK, Refused(BatchLine)
  PROVE  Fragile(job)
<1>1. work \in Busy
  BY DEF Busy
<1>2. /\ BatchLine.key = job.key /\ BatchLine.start = job.start + processed
      /\ BatchLine.count = batch
  BY <1>1, BatchShape
<1>3. /\ job.start \in Nat \ {0} /\ job.count \in Nat \ {0} /\ job.key \in 1..(Order - 1)
      /\ processed \in 0..job.count /\ batch \in 0..(job.count - processed)
      /\ job.start + job.count <= Order /\ Order \in Nat
  BY <1>1, JobNumbers
<1>4. batch # 0 /\ batch <= CountLimit /\ CountLimit \in Nat
  BY Constants DEF BatchOK, ConstantsAssumption
<1>5. Infinite(PointAt(Scalar(BatchLine, 0)))
  BY <1>2, <1>3, <1>4 DEF Refused
<1> DEFINE o == job.start + processed
<1>6. o \in Promise!Range(BatchLine)
  BY <1>2, <1>3, <1>4 DEF Promise!Range
<1>7. Scalar(BatchLine, 0) = BatchLine.key + o
  BY <1>2, <1>3 DEF Scalar
<1>8. /\ BatchLine.key + o > 0
      /\ BatchLine.key + o \in (BatchLine.key + o - Radius)..(BatchLine.key + o + Radius)
  BY <1>2, <1>3, Constants DEF ConstantsAssumption
<1>9. NearInfinity(BatchLine, o)
  <2> HIDE DEF o
  <2> QED
    BY <1>5, <1>7, <1>8 DEF NearInfinity
<1> QED
  BY <1>1, <1>6, <1>9, BatchFragile

\* A launch of the batch that throws in its end is one of a fragile assignment.
LEMMA FinishFragile ==
  ASSUME WInv, WinnerTrue, work = "waiting", proc = "searching", line = BatchLine,
         NoNextOffset \/ Rejected
  PROVE  Fragile(job)
<1>1. work \in Busy
  BY DEF Busy
<1>2. BatchLine.start = job.start + processed /\ BatchLine.count = batch
  BY <1>1, BatchShape
<1>3. /\ job.start \in Nat \ {0} /\ job.count \in Nat \ {0}
      /\ processed \in 0..job.count /\ batch \in 0..(job.count - processed)
      /\ job.start + job.count <= Order /\ Order \in Nat
  BY <1>1, JobNumbers
<1>4. CASE NoNextOffset
  <2>1. job.start + processed + batch >= Order
    BY <1>2, <1>4 DEF NoNextOffset
  <2> QED
    BY <1>3, <2>1 DEF Fragile
<1>5. CASE Rejected
  <2>1. winner \in 0..(BatchLine.count - 1) /\ NearInfinity(BatchLine, BatchLine.start + winner)
    BY <1>5 DEF Rejected, WinnerTrue
  <2>2. BatchLine.start + winner \in Promise!Range(BatchLine)
    BY <1>2, <1>3, <2>1 DEF Promise!Range
  <2> QED
    BY <1>1, <2>1, <2>2, BatchFragile
<1> QED
  BY <1>4, <1>5

--------------------------------------------------------------------------------
(* The invariant, action by action.                                             *)

\* The process serves the worker.
LEMMA ServerFaultless ==
  ASSUME IInv, IInv', WInv, FInv, Server
  PROVE  BatchOK' /\ Faultless'
<1>1. client' = client /\ work' = work /\ job' = job /\ batch' = batch /\ outcome' = outcome
  BY DEF Server, workerVars
<1>2. BatchOK'
  BY <1>1 DEF FInv, BatchOK
<1>3. Fragile(job)' <=> Fragile(job)
  BY <1>1 DEF Fragile, NearInfinity
<1>4. faults \in Nat
  BY Constants DEF ConstantsAssumption, IInv, TypeOK
<1>5. CASE CudaError \/ Die
  <2>1. faults' = faults + 1
    BY <1>5 DEF CudaError, Die
  <2>2. faults' # 0
    BY <1>4, <2>1
  <2> QED
    BY <1>2, <2>2 DEF Faultless
<1>6. CASE Serve
  <2> SUFFICES ASSUME client = "worker", faults' = 0
               PROVE  Faultless'
    BY <1>1, <1>2 DEF Faultless
  <2>1. faults = 0
    BY FaultsGrow, <1>6 DEF Next
  <2>2. outcome'.kind = "failed" => Fragile(job)'
    BY <1>1, <1>3, <2>1 DEF FInv, Faultless
  <2>3. CASE work \notin {"writing", "waiting"}
    BY <1>1, <2>2, <2>3 DEF Faultless
  <2>4. CASE work = "writing"
    <3>1. pipe = NoLine /\ line = NoLine
      BY <2>4 DEF WInv, Exchange, Quiet, Asked
    <3>2. proc # "searching"
      BY <3>1 DEF IInv, TypeOK
    <3>3. FALSE
      BY <1>6, <3>1, <3>2 DEF Serve, Refuse, Launch, Kernel, ChainedStep, BatchedStep, Finish,
                              FinishFails
    <3> QED
      BY <3>3
  <2>5. CASE work = "waiting"
    <3>1. Asked # NoLine => Asked = BatchLine
      BY <2>5 DEF WInv, Exchange
    <3>2. /\ proc = "down" => reply.kind = "error"
          /\ reply.kind = "error" => Fragile(job)
      BY <2>1, <2>5 DEF FInv, Faultless
    <3>3. CASE Refuse
      <4>1. pipe = BatchLine /\ Refused(pipe)
        BY <3>1, <3>3 DEF Refuse, Asked
      <4>2. Fragile(job)
        BY <2>5, <4>1, RefusedFragile DEF FInv
      <4>3. reply'.kind = "error"
        BY <3>3 DEF Refuse, Error
      <4> QED
        BY <1>1, <1>3, <2>2, <2>5, <4>2, <4>3 DEF Faultless
    <3>4. CASE FinishFails
      <4>1. proc = "searching" /\ (NoNextOffset \/ Rejected)
        BY <3>4 DEF FinishFails
      <4>2. line = BatchLine
        BY <3>1, <4>1 DEF IInv, TypeOK, OneAtATime, Asked
      <4>3. Fragile(job)
        BY <2>5, <4>1, <4>2, FinishFragile DEF FInv
      <4>4. reply'.kind = "error"
        BY <3>4 DEF FinishFails, Error
      <4> QED
        BY <1>1, <1>3, <2>2, <2>5, <4>3, <4>4 DEF Faultless
    <3>5. CASE Launch \/ Kernel
      <4>1. reply' = reply /\ proc' # "down"
        BY <3>5 DEF Launch, Kernel, ChainedStep, BatchedStep
      <4> QED
        BY <1>1, <1>3, <2>2, <2>5, <3>2, <4>1 DEF Faultless
    <3>6. CASE Finish
      <4>1. proc' # "down" /\ reply'.kind # "error"
        BY <3>6 DEF Finish, None, Found
      <4> QED
        BY <1>1, <2>2, <2>5, <4>1 DEF Faultless
    <3> QED
      BY <1>6, <3>3, <3>4, <3>5, <3>6 DEF Serve
  <2> QED
    BY <2>3, <2>4, <2>5
<1> QED
  BY <1>2, <1>5, <1>6 DEF Server

\* The worker chooses, submits and awaits a batch, or gives its assignment up.
LEMMA WorkerFaultless ==
  ASSUME IInv, IInv', WInv, WInv', FInv, client = "worker", WorkerNext
  PROVE  BatchOK' /\ Faultless'
<1>1. faults' = 0 => faults = 0
  <2>1. [Next]_vars
    BY SessionStep DEF SystemNext
  <2> QED
    BY <2>1, FaultsGrow
<1>2. faults \in Nat
  BY Constants DEF ConstantsAssumption, IInv, TypeOK
<1>3. client' = "worker"
  BY DEF WorkerNext, WorkerStep, Boot, BootFails, Take, Command, Obey, Choose, Ensure,
         RespawnFails, Fails, Write, Lost, Received, Progress, Winner, Exhaust, Ready, Shutdown
<1>4. CASE Boot \/ BootFails \/ Take \/ Obey \/ Progress \/ Winner \/ Exhaust \/ Ready \/ Shutdown
  <2>1. work' \notin {"starting", "writing", "waiting"}
    BY <1>4 DEF Boot, BootFails, Take, Obey, Report, Progress, Winner, Exhaust, Ready, Shutdown
  <2>2. \/ outcome' = outcome /\ job' = job
        \/ outcome'.kind # "failed"
    BY <1>4 DEF Boot, BootFails, Take, Obey, Report, Progress, Winner, Exhaust, Ready, Shutdown,
                Outcome
  <2>3. job' = job => (Fragile(job)' <=> Fragile(job))
    BY DEF Fragile, NearInfinity
  <2>4. faults' = 0 /\ outcome'.kind = "failed" => Fragile(job)'
    BY <1>1, <2>2, <2>3 DEF FInv, Faultless
  <2> QED
    BY <2>1, <2>4 DEF BatchOK, Faultless
<1>5. CASE Command
  <2>1. /\ work' = work /\ job' = job /\ batch' = batch /\ outcome' = outcome /\ proc' = proc
        /\ reply' = reply
    BY <1>5 DEF Command, vars
  <2>2. Fragile(job)' <=> Fragile(job)
    BY <2>1 DEF Fragile, NearInfinity
  <2> QED
    BY <1>1, <2>1, <2>2 DEF FInv, BatchOK, Faultless
<1>6. ASSUME job' = job, outcome' = outcome, work' \in {"starting", "writing", "waiting"},
             batch' # 0 /\ batch' <= CountLimit,
             work' = "writing" => proc' # "down",
             work' = "waiting" => proc' # "down" /\ reply'.kind # "error"
      PROVE  BatchOK' /\ Faultless'
  <2>1. Fragile(job)' <=> Fragile(job)
    BY <1>6 DEF Fragile, NearInfinity
  <2> QED
    BY <1>1, <1>6, <2>1 DEF FInv, BatchOK, Faultless
<1>7. CASE Choose
  <2>1. work' = "starting" /\ job' = job /\ outcome' = outcome /\ processed < job.count
    BY <1>7 DEF Choose
  <2>2. PICK size \in BatchSizes :
          batch' = Aligned(Least(Least(size, CountLimit), job.count - processed))
    BY <1>7 DEF Choose
  <2>3. size \in Nat \ {0} /\ CountLimit \in Nat \ {0}
    BY WorkerConstants, Constants, JobConstants
       DEF WorkerAssumption, ConstantsAssumption, JobAssumption
  <2>4. job.count \in Nat /\ processed \in 0..job.count
    BY JobShape DEF WInv
  <2> DEFINE least == Least(Least(size, CountLimit), job.count - processed)
  <2>5. least \in 1..CountLimit
    BY <2>1, <2>3, <2>4 DEF Least
  <2>6. batch' = Aligned(least)
    BY <2>2
  <2> HIDE DEF least
  <2>7. Aligned(least) \in 1..least
    BY <2>3, <2>5, AlignedPositive
  <2>8. batch' # 0 /\ batch' <= CountLimit
    BY <2>3, <2>5, <2>6, <2>7
  <2> QED
    BY <1>6, <2>1, <2>8
<1>8. CASE Ensure
  <2>1. work' = "writing" /\ job' = job /\ outcome' = outcome /\ batch' = batch
    BY <1>8 DEF Ensure
  <2>2. proc' # "down"
    BY <1>8 DEF Ensure, Start, vars
  <2>3. batch # 0 /\ batch <= CountLimit
    BY <1>8 DEF Ensure, FInv, BatchOK
  <2> QED
    BY <1>6, <2>1, <2>2, <2>3
<1>9. CASE Write
  <2>1. /\ work' = "waiting" /\ job' = job /\ outcome' = outcome /\ batch' = batch
        /\ work = "writing"
    BY <1>9 DEF Write
  <2>2. proc' # "down" /\ reply'.kind # "error"
    BY <1>9 DEF Write, Send, NoReply
  <2>3. batch # 0 /\ batch <= CountLimit
    BY <2>1 DEF FInv, BatchOK
  <2> QED
    BY <1>6, <2>1, <2>2, <2>3
<1>10. CASE RespawnFails \/ Lost \/ Received
  <2>1. work' = "ended" /\ job' = job
    BY <1>10 DEF RespawnFails, Lost, Received, Fails, Report
  <2>2. faults' = 0 => Fragile(job)
    <3>1. CASE RespawnFails
      <4>1. faults' = faults + 1
        BY <3>1 DEF RespawnFails, StartFails
      <4> QED
        BY <1>2, <4>1
    <3>2. CASE Lost
      <4>1. /\ proc = "down"
            /\ work = "writing" \/ (work = "waiting" /\ reply.kind # "error")
        BY <3>2 DEF Lost, NoReply
      <4> QED
        BY <1>1, <4>1 DEF FInv, Faultless
    <3>3. CASE Received
      <4>1. work = "waiting" /\ reply.kind = "error"
        BY <3>3 DEF Received
      <4> QED
        BY <1>1, <4>1 DEF FInv, Faultless
    <3> QED
      BY <1>10, <3>1, <3>2, <3>3
  <2>3. Fragile(job)' <=> Fragile(job)
    BY <2>1 DEF Fragile, NearInfinity
  <2> QED
    BY <2>1, <2>2, <2>3 DEF BatchOK, Faultless
<1> QED
  BY <1>4, <1>5, <1>7, <1>8, <1>9, <1>10 DEF WorkerNext, WorkerStep

\* Every step of the system keeps the invariant.
LEMMA FaultlessKept ==
  ASSUME IInv, IInv', WInv, WInv', FInv, [SystemNext]_allVars
  PROVE  FInv'
<1>1. WinnerTrue'
  BY SessionStep, WinnerKept DEF FInv
<1>2. CASE Server
  BY <1>1, <1>2, ServerFaultless DEF FInv
<1>3. CASE client = "worker" /\ WorkerNext
  BY <1>1, <1>3, WorkerFaultless DEF FInv
<1>4. CASE client = "terminal" /\ TerminalNext
  <2>1. client' = "terminal"
    BY <1>4 DEF TerminalNext
  <2> QED
    BY <1>1, <2>1 DEF FInv, BatchOK, Faultless
<1>5. CASE UNCHANGED allVars
  <2>1. /\ client' = client /\ work' = work /\ job' = job /\ batch' = batch
        /\ outcome' = outcome /\ proc' = proc /\ reply' = reply /\ faults' = faults
    BY <1>5 DEF allVars, workerVars, vars
  <2>2. Fragile(job)' <=> Fragile(job)
    BY <2>1 DEF Fragile, NearInfinity
  <2> QED
    BY <1>1, <2>1, <2>2 DEF FInv, BatchOK, Faultless
<1> QED
  BY <1>2, <1>3, <1>4, <1>5 DEF SystemNext

\* An assignment fails by a fault of the device or the process, by an offset at or beside
\* the point at infinity, or by a last offset just below the group order, and by nothing
\* else: a batch is never one the native side refuses, and a process a worker left or
\* interrupted fails no later assignment.
THEOREM FailuresAreFaults == SystemSpec => []FailsOnlyByFault
<1>1. WorkerInit => FInv
  BY DEF WorkerInit, Init, FInv, WinnerTrue, BatchOK, Faultless, Outcome
<1>2. IInv /\ IInv' /\ WInv /\ WInv' /\ FInv /\ [SystemNext]_allVars => FInv'
  BY FaultlessKept
<1>3. IInv /\ WInv /\ FInv => FailsOnlyByFault
  <2> SUFFICES ASSUME IInv, WInv, FInv, outcome.kind = "failed", ~(faults > 0)
               PROVE  Fragile(job)
    BY DEF FailsOnlyByFault
  <2>1. faults = 0
    BY Constants DEF ConstantsAssumption, IInv, TypeOK
  <2>2. client = "worker"
    BY DEF WInv, OneClient, WorkerTypeOK
  <2> QED
    BY <2>1, <2>2 DEF FInv, Faultless
<1>4. SystemSpec => []IInv
  BY SystemIsSession, Inductive, PTL
<1> QED
  BY <1>1, <1>2, <1>3, <1>4, WorkerInductive, PTL DEF SystemSpec
================================================================================
