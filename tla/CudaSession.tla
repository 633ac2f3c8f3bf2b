------------------------------ MODULE CudaSession ------------------------------
(* The persistent native search process: `serve_gpu` of native/src/main.cpp    *)
(* with its two `CudaSearchSession`s of native/src/cuda_runtime.cu.  A client  *)
(* writes one SEARCH line; ranges of at least four chain cycles go to the      *)
(* chained session, which keeps one point per chain between contiguous         *)
(* requests, and shorter ones to the batched session, which evaluates the      *)
(* Radius neighbours on either side of each center with one field inversion.   *)
(* A launch runs as threads that advance independently and share only the      *)
(* winner, which they lower with atomicMin.                                    *)
(*                                                                             *)
(* A public key is named by its discrete logarithm and an offset is a number;  *)
(* points stay points, computed by the constant operators, whose contract with *)
(* the arithmetic is ArithmeticAssumption.                                     *)
EXTENDS Integers

CONSTANTS
  Order,            \* order of the group generated by G
  Keys,             \* discrete logarithms of the clients' public keys
  Patterns,         \* the patterns a line may name
  PointAt(_),       \* n |-> n * G: OpenSSL on the host, scalar_multiply_u64 on the device
  Infinite(_),      \* the infinity flag of a point
  Matches(_, _),    \* the address of this point has this pattern
  Add(_, _),        \* cuda_secp::point_add
  Advance(_, _),    \* the points of one thread, each advanced by the stride
  Neighbour(_, _),  \* the candidate at a distance from a center
  Threads, PointsPerThread,  \* the chained launch: threads in all, chains of each
  Block, Resident,  \* the batched launch: threads per block, most blocks
  Radius,           \* batch_radius
  CountLimit,       \* validation_limit
  MaxFaults         \* bound on CUDA errors and deaths of the process

Chains == Threads * PointsPerThread
Span == 2 * Radius + 1
Far == 4 * Order        \* no scalar the kernels reach is larger

ConstantsAssumption ==
  /\ Order \in Nat \ {0} /\ Threads \in Nat \ {0} /\ PointsPerThread \in Nat \ {0}
  /\ Block \in Nat \ {0} /\ Resident \in Nat \ {0} /\ Radius \in Nat \ {0}
  /\ Keys \subseteq 1..(Order - 1)
  /\ CountLimit \in Nat /\ MaxFaults \in Nat
  /\ Resident * Block * Span < Order

\* What the arithmetic promises: the group law on multiples of G, for the batched
\* neighbours with the exception of a center at infinity.
ArithmeticAssumption ==
  /\ \A m, n \in 0..Far : Add(PointAt(m), PointAt(n)) = PointAt(m + n)
  /\ \A n \in 0..Far :
       Advance([i \in 0..(PointsPerThread - 1) |-> PointAt(n + i)], PointAt(Chains))
         = [i \in 0..(PointsPerThread - 1) |-> PointAt(n + i + Chains)]
  /\ \A n \in Radius..Far : \A d \in (-Radius)..Radius :
       ~Infinite(PointAt(n)) => Neighbour(PointAt(n), d) = PointAt(n + d)

ASSUME Constants == ConstantsAssumption
ASSUME Arithmetic == ArithmeticAssumption

Lines == [key : Keys, pattern : Patterns, start : Nat, count : Nat]
NoLine == [key |-> 0, pattern |-> 0, start |-> 0, count |-> 0]   \* 0 is no key
NoWinner == Order       \* ~0ULL: above every index of a range
NoReply == [kind |-> "nothing", offset |-> 0]
None == [kind |-> "none", offset |-> 0]
Error == [kind |-> "error", offset |-> 0]
Found(o) == [kind |-> "found", offset |-> o]

VARIABLES
  proc,     \* "down", "serving" (in getline) or "searching"
  pipe,     \* the line written to the process and not yet read, or NoLine
  line,     \* the request of the launch under way
  reply,    \* the response line the client has not read, or NoReply
  chain,    \* chain_state_valid, chain_public_key, chain_next_start
  points,   \* device_chain_points
  stride,   \* cached_grid_stride (0 for none) and cached_stride_point
  centers,  \* the center each batched lane holds
  at,       \* iterations each thread of the launch has finished
  winner,   \* device_winner
  faults    \* CUDA errors and deaths so far

device == <<line, points, stride, centers, at, winner>>
vars == <<proc, pipe, line, reply, chain, points, stride, centers, at, winner, faults>>

--------------------------------------------------------------------------------
(* The shape of a launch.                                                       *)

UsesChains(r) == r.count >= 4 * Chains
CeilDiv(a, b) == (a + b - 1) \div b
Steps(r) == CeilDiv(r.count, Chains)
\* Mutant: the last, incomplete batch is forgotten.
Batches_Floor(r) == r.count \div Span
Batches(r) == CeilDiv(r.count, Span)

\* Blocks times threads; the blocks are those the batches need, at most Resident.
Lanes(r) == LET needed == CeilDiv(Batches(r), Block)
            IN  (IF needed > Resident THEN Resident ELSE needed) * Block

MaxLanes == Resident * Block
Workers(r) == IF UsesChains(r) THEN 0..(Threads - 1) ELSE 0..(Lanes(r) - 1)
AllWorkers == 0..((IF Threads > MaxLanes THEN Threads ELSE MaxLanes) - 1)

Own(w) == (w * PointsPerThread)..(w * PointsPerThread + PointsPerThread - 1)
BatchOf(r, w, k) == w + k * Lanes(r)
CenterIndex(b) == b * Span + Radius

\* A thread returns when its next iteration is past the range.
Finished(r, w) == IF UsesChains(r) THEN at[w] = Steps(r)
                                   ELSE BatchOf(r, w, at[w]) >= Batches(r)

\* The scalar of the point at an offset of a key, not reduced.
Scalar(r, index) == r.key + r.start + index

--------------------------------------------------------------------------------
Init ==
  /\ proc = "down" /\ pipe = NoLine /\ line = NoLine /\ reply = NoReply
  /\ chain = [valid |-> FALSE, key |-> 0, next |-> 0]
  /\ points = [c \in 0..(Chains - 1) |-> PointAt(0)]
  /\ stride = [grid |-> 0, point |-> PointAt(0)]
  /\ centers = [l \in 0..(MaxLanes - 1) |-> PointAt(0)]
  /\ at = [w \in AllWorkers |-> 0] /\ winner = NoWinner /\ faults = 0

\* The process is gone, with everything on its device and in its pipes.
Gone ==
  /\ proc' = "down" /\ pipe' = NoLine /\ line' = NoLine
  /\ chain' = [valid |-> FALSE, key |-> 0, next |-> 0]
  /\ points' = [c \in 0..(Chains - 1) |-> PointAt(0)]
  /\ stride' = [grid |-> 0, point |-> PointAt(0)]
  /\ centers' = [l \in 0..(MaxLanes - 1) |-> PointAt(0)]
  /\ at' = [w \in AllWorkers |-> 0] /\ winner' = NoWinner

\* serve_gpu passed its self-test, opened both sessions and printed the handshake.
Start ==
  /\ proc = "down"
  /\ proc' = "serving" /\ reply' = NoReply
  /\ UNCHANGED <<pipe, chain, faults>> /\ UNCHANGED device

\* The started process fails its self-test, its handshake or the time limit for it.
StartFails ==
  /\ proc = "down" /\ faults < MaxFaults
  /\ faults' = faults + 1
  /\ UNCHANGED <<proc, pipe, reply, chain>> /\ UNCHANGED device

\* A client that has read its last response writes a line.
Send ==
  /\ proc # "down" /\ pipe = NoLine /\ line = NoLine /\ reply = NoReply
  /\ pipe' \in Lines
  /\ UNCHANGED <<proc, reply, chain, faults>> /\ UNCHANGED device

\* The client takes the response.
Read ==
  /\ reply # NoReply
  /\ reply' = NoReply
  /\ UNCHANGED <<proc, pipe, chain, faults>> /\ UNCHANGED device

\* What `search` refuses before anything is launched: an empty range or one over the
\* limit, a range that is not inside 1..Order - 1, a first point at infinity.
Refused(r) ==
  \/ r.count = 0 \/ r.count > CountLimit
  \/ r.start = 0 \/ r.start + r.count > Order
  \/ Infinite(PointAt(Scalar(r, 0)))

\* The exception is printed as an error and serve_gpu returns 1.
Refuse ==
  /\ proc = "serving" /\ pipe # NoLine /\ Refused(pipe)
  /\ reply' = Error
  /\ Gone /\ UNCHANGED faults

\* chained_initialize_kernel runs unless the state on the device continues here.
Continues(r) == chain.valid /\ chain.key = r.key /\ chain.next = r.start

ChainPoints(r) ==
  IF Continues(r) THEN points
  ELSE [c \in 0..(Chains - 1) |-> Add(PointAt(Scalar(r, 0)), PointAt(c))]

LaunchChained(r) ==
  /\ points' = ChainPoints(r)
  /\ chain' = [chain EXCEPT !.valid = FALSE]
  /\ UNCHANGED <<stride, centers>>

\* Mutant: whatever stride is cached is used.
StridePoint_Any(grid) == IF stride.grid # 0 THEN stride.point ELSE PointAt(grid)

\* stride_point: the grid stride of the last batched launch is kept.
StridePoint(grid) == IF stride.grid = grid THEN stride.point ELSE PointAt(grid)

LaunchBatched(r) ==
  /\ LET grid == Lanes(r) * Span
     IN  stride' = [grid |-> grid, point |-> StridePoint(grid)]
  /\ centers' = [l \in 0..(MaxLanes - 1) |->
                  IF l < Lanes(r)
                    THEN Add(PointAt(Scalar(r, 0)), PointAt(CenterIndex(l)))
                    ELSE PointAt(0)]
  /\ UNCHANGED <<chain, points>>

\* serve_gpu reads the line, chooses the session, and `search` launches the kernels.
Launch ==
  /\ proc = "serving" /\ pipe # NoLine /\ ~Refused(pipe)
  /\ proc' = "searching" /\ line' = pipe /\ pipe' = NoLine
  /\ at' = [w \in AllWorkers |-> 0] /\ winner' = NoWinner
  /\ IF UsesChains(pipe) THEN LaunchChained(pipe) ELSE LaunchBatched(pipe)
  /\ UNCHANGED <<reply, faults>>

--------------------------------------------------------------------------------
(* The threads of a launch.                                                     *)

Hit(p) == ~Infinite(p) /\ Matches(p, line.pattern)

\* atomicMin of the indices, among those inside the range, whose point matches.
Evaluate(indices, pointOf(_)) ==
  LET hits == {i \in indices : i < line.count /\ Hit(pointOf(i))}
  IN  \E low \in hits \cup {winner} :
        /\ \A i \in hits \cup {winner} : low <= i
        /\ winner' = low

\* chained_search_kernel: one candidate of each chain, then one batched inversion.
ChainedStep(w) ==
  /\ proc = "searching" /\ UsesChains(line) /\ w \in Workers(line)
  /\ ~Finished(line, w)
  /\ LET first == at[w] * Chains
         Point(i) == points[i - first]
         moved == Advance([i \in 0..(PointsPerThread - 1) |-> points[w * PointsPerThread + i]],
                          PointAt(Chains))
     IN  /\ Evaluate({first + c : c \in Own(w)}, Point)
         /\ points' = [c \in 0..(Chains - 1) |->
                        IF c \in Own(w) THEN moved[c - w * PointsPerThread] ELSE points[c]]
  /\ at' = [at EXCEPT ![w] = @ + 1]
  /\ UNCHANGED <<proc, pipe, line, reply, chain, stride, centers, faults>>

\* batched_search_kernel: the center and its neighbours, then the lane's next center.
BatchedStep(w) ==
  /\ proc = "searching" /\ ~UsesChains(line) /\ w \in Workers(line)
  /\ ~Finished(line, w)
  /\ LET batch == BatchOf(line, w, at[w])
         center == CenterIndex(batch)
         Point(i) == Neighbour(centers[w], i - center)
     IN  /\ Evaluate({center + d : d \in (-Radius)..Radius}, Point)
         /\ centers' = IF batch + Lanes(line) < Batches(line)
                         THEN [centers EXCEPT ![w] = Add(@, stride.point)]
                         ELSE centers
  /\ at' = [at EXCEPT ![w] = @ + 1]
  /\ UNCHANGED <<proc, pipe, line, reply, chain, points, stride, faults>>

AllFinished == \A w \in Workers(line) : Finished(line, w)

\* Mutant: any chained launch leaves reusable points.
CompletesCycle_Always == UsesChains(line)

\* A complete cycle leaves the points where the next offset begins; the host computes
\* that offset with add_to_offset, which throws when it is the group order.
CompletesCycle == UsesChains(line) /\ line.count % Chains = 0
NoNextOffset == CompletesCycle /\ line.start + line.count >= Order

\* Mutants: the index is verified in place of the offset; nothing is verified.
Verified_Index(o) == Hit(PointAt(line.key + winner))
Rejected_Never == FALSE

\* search_cpu over the single winning offset.
Verified(o) == Hit(PointAt(line.key + o))
Rejected == winner # NoWinner /\ ~Verified(line.start + winner)

\* The stream is synchronized, the winner copied and verified, the response printed.
Finish ==
  /\ proc = "searching" /\ AllFinished /\ ~NoNextOffset /\ ~Rejected
  /\ reply' = IF winner = NoWinner THEN None ELSE Found(line.start + winner)
  /\ chain' = IF CompletesCycle
                THEN [valid |-> TRUE, key |-> line.key, next |-> line.start + line.count]
                ELSE chain
  /\ proc' = "serving" /\ line' = NoLine
  /\ at' = [w \in AllWorkers |-> 0] /\ winner' = NoWinner
  /\ centers' = [l \in 0..(MaxLanes - 1) |-> PointAt(0)]
  /\ UNCHANGED <<pipe, points, stride, faults>>

\* The launch ended, and what follows it throws.
FinishFails ==
  /\ proc = "searching" /\ AllFinished /\ (NoNextOffset \/ Rejected)
  /\ reply' = Error
  /\ Gone /\ UNCHANGED faults

\* check_cuda throws at some point of the launch.
CudaError ==
  /\ proc = "searching" /\ faults < MaxFaults
  /\ faults' = faults + 1 /\ reply' = Error
  /\ Gone

\* The process dies without a word.
Die ==
  /\ proc # "down" /\ faults < MaxFaults
  /\ faults' = faults + 1
  /\ Gone /\ UNCHANGED reply

\* QUIT, the end of the input, or a signal of the client.
Stop ==
  /\ proc # "down"
  /\ reply' = NoReply
  /\ Gone /\ UNCHANGED faults

Kernel == \E w \in AllWorkers : ChainedStep(w) \/ BatchedStep(w)
Serve == Refuse \/ Launch \/ Kernel \/ Finish \/ FinishFails
Next ==
  \/ Start \/ StartFails \/ Send \/ Read \/ Stop
  \/ Serve \/ CudaError \/ Die

Spec == Init /\ [][Next]_vars

--------------------------------------------------------------------------------
TypeOK ==
  /\ proc \in {"down", "serving", "searching"}
  /\ pipe \in Lines \cup {NoLine} /\ line \in Lines \cup {NoLine}
  /\ reply \in [kind : {"nothing", "none", "found", "error"}, offset : 0..(Order - 1)]
  /\ chain \in [valid : BOOLEAN, key : Keys \cup {0}, next : 0..(Order - 1)]
  /\ DOMAIN points = 0..(Chains - 1) /\ DOMAIN centers = 0..(MaxLanes - 1)
  /\ DOMAIN stride = {"grid", "point"} /\ stride.grid \in 0..(Order - 1)
  /\ at \in [AllWorkers -> 0..Order]
  /\ winner \in 0..Order /\ faults \in 0..MaxFaults
  /\ proc = "searching" <=> line # NoLine

\* Reused point state is the truth: when the next request is taken for a continuation,
\* the chains stand at the offsets it begins with, whatever was searched, refused or
\* interrupted before (chain_state_valid, chain_public_key, chain_next_start).
ChainStateTrue ==
  chain.valid => \A c \in 0..(Chains - 1) : points[c] = PointAt(chain.key + chain.next + c)

\* Every thread of a launch holds, at each iteration, the points of the offsets it is
\* about to report on: chain c at start + at * Chains + c, a lane at its batch's center
\* (the lane's stride is the cached one of an earlier launch when the grids are equal).
PointsOnTrack ==
  proc = "searching" =>
    IF UsesChains(line)
      THEN \A w \in Workers(line) : \A c \in Own(w) :
             points[c] = PointAt(Scalar(line, at[w] * Chains + c))
      ELSE \A w \in Workers(line) :
             ~Finished(line, w) =>
               centers[w] = PointAt(Scalar(line, CenterIndex(BatchOf(line, w, at[w]))))

--------------------------------------------------------------------------------
(* The abstract search a response is about.                                     *)

\* A center beside the offset may be at infinity, and the batched kernel then evaluates
\* the offset at a wrong point.
NearInfinity(r, o) ==
  \E n \in (r.key + o - Radius)..(r.key + o + Radius) : n > 0 /\ Infinite(PointAt(n))
Match(r, o) == ~Infinite(PointAt(r.key + o)) /\ Matches(PointAt(r.key + o), r.pattern)
ClearMatch(r, o) == Match(r, o) /\ ~NearInfinity(r, o)

Promise == INSTANCE SearchPromise
  WITH asked <- IF pipe # NoLine THEN pipe ELSE line, told <- reply,
       NobodyAsked <- NoLine, NothingTold <- NoReply, Failed <- Error

\* The session answers a line with an error, with an offset of the range that matches
\* and below which no offset matches, or with none when no offset of the range does; and
\* it answers the line it was asked, once.  Excepted are the neighbours of infinity.
KeepsPromise == Promise!Spec
================================================================================
