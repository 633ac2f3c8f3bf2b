--------------------------- MODULE NativeFleetProofs ---------------------------
(* Theorems about NativeFleet, for any devices, bands, chunks, ranges and       *)
(* matches: what becomes of the output path and of the threads, and that the    *)
(* reported offset is the first.                                                *)
EXTENDS NativeFleet, FoldTheorems

USE Constants DEF ConstantsAssumption

--------------------------------------------------------------------------------
(* The output path and the threads.                                             *)

\* The path names a file this process has begun only in the phases that write it, and what
\* a later phase relies on is there.
PathInv ==
  /\ file \in Files /\ faults \in Nat
  /\ phase \in {"round", "joining", "recovering", "answered", "aborted"} => file \in {"absent", "foreign"}
  /\ phase = "failed" => file \in {"absent", "foreign"} \/ faults >= 2
  /\ phase = "opened" => file \in {"empty", "partial"}
  /\ phase \in {"written", "synced", "generated"} => file = "whole"

\* Threads run only while the main thread creates and joins them, and none for what it refuses.
ThreadInv ==
  /\ phase \in Phases
  /\ DOMAIN answers = All /\ DOMAIN asked = All
  /\ phase \notin {"round", "joining"} \/ Refused => \A d \in All : answers[d] # Running

LEMMA Kinds ==
  /\ None # Running /\ None # Error /\ Running # Error
  /\ \A o : Found(o) # Running /\ Found(o) # Error /\ Found(o) # None
BY DEF None, Running, Error, Found

LEMMA PathHolds == Spec => []PathInv
<1>1. Init => PathInv
  BY DEF Init, PathInv, Files
<1>2. PathInv /\ [Next]_vars => PathInv'
  <2> SUFFICES ASSUME PathInv, [Next]_vars PROVE PathInv'
    OBVIOUS
  <2> USE DEF PathInv, Files
  <2>1. CASE Thread
    BY <2>1 DEF Thread, Search
  <2>2. CASE \E d \in All : Throw(d)
    BY <2>2 DEF Throw
  <2>3. CASE Refuse \/ (\E d \in All : Fork(d)) \/ Fail \/ Answer
    BY <2>3 DEF Refuse, Fork, Fail, Answer
  <2>4. CASE Advance \/ GiveUp \/ Win \/ Unrecovered
    BY <2>4 DEF Advance, GiveUp, Win, Unrecovered
  <2>5. CASE Open \/ Write \/ Sync \/ Close
    BY <2>5 DEF Open, Creatable, Write, Sync, Close
  <2>6. CASE SpawnFails \/ WriteFails \/ Intrude \/ Kill
    BY <2>6 DEF SpawnFails, WriteFails, Unlinked, Intrude, Kill, Ended
  <2>7. CASE UNCHANGED vars
    BY <2>7 DEF vars
  <2> QED
    BY <2>1, <2>2, <2>3, <2>4, <2>5, <2>6, <2>7 DEF Next, Main
<1> QED
  BY <1>1, <1>2, PTL DEF Spec

\* What a command is asked does not change.
LEMMA CommandStays ==
  ASSUME [Next]_vars
  PROVE  UNCHANGED <<command, range, hits>> /\ Refused' = Refused
<1>1. UNCHANGED <<command, range, hits>>
  <2>1. CASE Thread \/ \E d \in All : Throw(d)
    BY <2>1 DEF Thread, Search, Throw
  <2>2. CASE Refuse \/ (\E d \in All : Fork(d)) \/ Fail \/ Answer \/ Advance \/ GiveUp \/ Win
    BY <2>2 DEF Refuse, Fork, Fail, Answer, Advance, GiveUp, Win
  <2>3. CASE Unrecovered \/ Open \/ Write \/ Sync \/ Close
    BY <2>3 DEF Unrecovered, Open, Write, Sync, Close
  <2>4. CASE SpawnFails \/ WriteFails \/ Intrude \/ Kill \/ UNCHANGED vars
    BY <2>4 DEF SpawnFails, WriteFails, Intrude, Kill, vars
  <2> QED
    BY <2>1, <2>2, <2>3, <2>4 DEF Next, Main
<1> QED
  BY <1>1 DEF Refused, Used

LEMMA ThreadStep ==
  ASSUME ThreadInv, [Next]_vars
  PROVE  ThreadInv'
<1> USE CommandStays DEF ThreadInv, Phases
<1>1. CASE Thread
  BY <1>1, Kinds DEF Thread, Search
<1>2. CASE \E d \in All : Throw(d)
  BY <1>2, Kinds DEF Throw
<1>3. CASE Refuse \/ \E d \in All : Fork(d)
  BY <1>3 DEF Refuse, Fork
<1>4. CASE Fail \/ Answer \/ Advance \/ GiveUp \/ Win
  BY <1>4, Kinds DEF Fail, Answer, Advance, GiveUp, Win, Joined
<1>5. CASE Unrecovered \/ Open \/ Write \/ Sync \/ Close \/ WriteFails \/ Intrude
  BY <1>5 DEF Unrecovered, Open, Write, Sync, Close, WriteFails, Intrude
<1>6. CASE SpawnFails \/ Kill
  BY <1>6, Kinds DEF SpawnFails, Kill
<1>7. CASE UNCHANGED vars
  BY <1>7 DEF vars
<1> QED
  BY <1>1, <1>2, <1>3, <1>4, <1>5, <1>6, <1>7 DEF Next, Main

LEMMA ThreadsHold == Spec => []ThreadInv
<1>1. Init => ThreadInv
  BY Kinds DEF Init, ThreadInv, Phases
<1> QED
  BY <1>1, ThreadStep, PTL DEF Spec

\* A wallet is announced with its whole file, and a command that ends otherwise leaves none of its
\* own unless it was killed, or could neither write nor unlink it.
THEOREM FileComplete == Spec => []FileIsWhole
<1>1. PathInv /\ ThreadInv => FileIsWhole
  BY DEF PathInv, ThreadInv, FileIsWhole, Files, Phases
<1> QED
  BY <1>1, PathHolds, ThreadsHold, PTL

\* A file another process made is neither written to nor removed.
THEOREM ForeignFileSafe == Spec => ForeignFileKept
<1>1. PathInv /\ [Next]_vars => [file = "foreign" => file' = "foreign"]_file
  <2> SUFFICES ASSUME PathInv, [Next]_vars, file = "foreign" PROVE file' = "foreign"
    OBVIOUS
  <2>1. CASE Thread \/ \E d \in All : Throw(d)
    BY <2>1 DEF Thread, Search, Throw
  <2>2. CASE Refuse \/ Fail \/ Answer \/ Advance \/ GiveUp \/ Win \/ Unrecovered
    BY <2>2 DEF Refuse, Fail, Answer, Advance, GiveUp, Win, Unrecovered
  <2>3. CASE Open \/ Write \/ Sync \/ Close
    BY <2>3 DEF PathInv, Open, Creatable, Write, Sync, Close
  <2>4. CASE (\E d \in All : Fork(d)) \/ SpawnFails \/ WriteFails \/ Intrude \/ Kill
    BY <2>4 DEF PathInv, Fork, SpawnFails, WriteFails, Intrude, Kill
  <2>5. CASE UNCHANGED vars
    BY <2>5 DEF vars
  <2> QED
    BY <2>1, <2>2, <2>3, <2>4, <2>5 DEF Next, Main
<1> QED
  BY <1>1, PathHolds, PTL DEF Spec, ForeignFileKept

\* No thread runs when the command reports a result or an error.
THEOREM ThreadsJoined == Spec => []NoThreadOutlives
<1>1. ThreadInv => NoThreadOutlives
  BY DEF ThreadInv, NoThreadOutlives
<1> QED
  BY <1>1, ThreadsHold, PTL

--------------------------------------------------------------------------------
(* The shards of a range.                                                       *)

LEMMA MinOf ==
  ASSUME NEW S, S \subseteq Nat, S # {}
  PROVE  Min(S) \in S /\ \A y \in S : Min(S) <= y
BY LeastOf DEF Min

\* The devices in use are the first ones.
UsedCount == IF range.count < Devices THEN range.count ELSE Devices

LEMMA UsedIs ==
  ASSUME range.count \in Nat \ {0}
  PROVE  /\ Used = 0..(UsedCount - 1) /\ UsedCount \in 1..Devices /\ UsedCount <= range.count
         /\ Cardinality(Used) = UsedCount
<1>1. UsedCount \in 1..Devices /\ UsedCount <= range.count
  BY DEF UsedCount
<1>2. Used = 0..(UsedCount - 1)
  BY DEF Used, UsedCount, All
<1> QED
  BY <1>1, <1>2, FS_Interval

\* Where a shard begins, without the loop.
Quota == range.count \div UsedCount
Rest == range.count % UsedCount
ShardStart(d) == d * Quota + (IF d < Rest THEN d ELSE Rest)

LEMMA QuotaIs ==
  ASSUME range.count \in Nat \ {0}
  PROVE  /\ Quota \in Nat /\ Rest \in 0..(UsedCount - 1)
         /\ range.count = UsedCount * Quota + Rest
         /\ \A d \in All : ShardCount(d) = Quota + (IF d < Rest THEN 1 ELSE 0)
         /\ \A d \in 0..Devices : ShardStart(d) \in Nat
         /\ \A d \in All : ShardStart(d + 1) = ShardStart(d) + ShardCount(d)
         /\ ShardStart(0) = 0 /\ ShardStart(UsedCount) = range.count
<1>1. UsedCount \in Nat \ {0} /\ UsedCount \in 1..Devices
  BY UsedIs
<1>2. /\ Quota \in Nat /\ Rest \in 0..(UsedCount - 1)
      /\ range.count = UsedCount * Quota + Rest
  BY <1>1, DivMod DEF Quota, Rest
<1>3. \A d \in All : ShardCount(d) = Quota + (IF d < Rest THEN 1 ELSE 0)
  BY UsedIs DEF ShardCount, Quota, Rest
<1>4. \A d \in 0..Devices : ShardStart(d) \in Nat
  <2> SUFFICES ASSUME NEW d \in 0..Devices PROVE ShardStart(d) \in Nat
    OBVIOUS
  <2>1. d * Quota \in Nat
    BY <1>2
  <2> QED
    BY <1>2, <2>1 DEF ShardStart
<1>5. \A d \in All : ShardStart(d + 1) = ShardStart(d) + ShardCount(d)
  <2> SUFFICES ASSUME NEW d \in All PROVE ShardStart(d + 1) = ShardStart(d) + ShardCount(d)
    OBVIOUS
  <2>1. d \in Nat /\ (d + 1) * Quota = d * Quota + Quota /\ d * Quota \in Nat
    BY <1>2 DEF All
  <2> QED
    BY <1>2, <1>3, <2>1 DEF ShardStart
<1>6. ShardStart(0) = 0
  BY <1>2 DEF ShardStart
<1>7. ShardStart(UsedCount) = range.count
  BY <1>1, <1>2 DEF ShardStart
<1> QED
  BY <1>2, <1>3, <1>4, <1>5, <1>6, <1>7

\* The loop computes it.
LEMMA RelativeStartIs ==
  ASSUME range.count \in Nat \ {0}, NEW d \in All
  PROVE  RelativeStart[d] = ShardStart(d)
<1> DEFINE Loop(f) == [e \in All |-> IF e = 0 THEN 0 ELSE f[e - 1] + ShardCount(e - 1)]
           closed == [e \in All |-> ShardStart(e)]
<1>1. RelativeStart = CHOOSE f : f = Loop(f)
  BY DEF RelativeStart
<1>2. closed = Loop(closed)
  <2>1. ASSUME NEW e \in All, e # 0 PROVE closed[e] = closed[e - 1] + ShardCount(e - 1)
    <3>1. e - 1 \in All /\ (e - 1) + 1 = e
      BY <2>1 DEF All
    <3> QED
      BY <3>1, QuotaIs
  <2>2. 0 \in All => closed[0] = 0
    BY QuotaIs
  <2>3. \A e \in All : closed[e] = IF e = 0 THEN 0 ELSE closed[e - 1] + ShardCount(e - 1)
    BY <2>1, <2>2
  <2> QED
    BY <2>3
<1>3. RelativeStart = Loop(RelativeStart)
  <2> HIDE DEF closed, Loop
  <2> QED
    BY <1>1, <1>2
<1> DEFINE wrong == {e \in All : RelativeStart[e] # ShardStart(e)}
<1>4. SUFFICES ASSUME wrong # {} PROVE FALSE
  OBVIOUS
<1>5. PICK x \in wrong : \A y \in wrong : x <= y
  <2>1. wrong \subseteq Nat
    BY DEF All
  <2> HIDE DEF wrong
  <2> QED
    BY <1>4, <2>1, LeastOf
<1>6. x \in All /\ RelativeStart[x] # ShardStart(x)
  OBVIOUS
<1>7. RelativeStart[x] = IF x = 0 THEN 0 ELSE RelativeStart[x - 1] + ShardCount(x - 1)
  BY <1>3, <1>6
<1>8. CASE x = 0
  BY <1>6, <1>7, <1>8, QuotaIs
<1>9. CASE x # 0
  <2>1. x - 1 \in All /\ (x - 1) + 1 = x /\ ~(x <= x - 1)
    BY <1>6, <1>9 DEF All
  <2>2. RelativeStart[x - 1] = ShardStart(x - 1)
    BY <1>5, <2>1
  <2> QED
    BY <1>6, <1>7, <1>9, <2>1, <2>2, QuotaIs
<1> QED
  BY <1>8, <1>9

\* Every candidate of the range is in a shard, and every shard in the range.
LEMMA ShardsCover ==
  ASSUME range.count \in Nat \ {0}, NEW i \in 0..(range.count - 1)
  PROVE  \E d \in Used : ShardStart(d) <= i /\ i < ShardStart(d) + ShardCount(d)
<1> DEFINE past == {d \in Used : i < ShardStart(d + 1)}
<1>1. /\ Used = 0..(UsedCount - 1) /\ UsedCount \in 1..Devices
      /\ Used \subseteq All /\ Used \subseteq Nat
  BY UsedIs DEF All
<1>2. UsedCount - 1 \in past
  <2>1. UsedCount - 1 \in Used /\ (UsedCount - 1) + 1 = UsedCount
    BY <1>1
  <2> QED
    BY <2>1, QuotaIs
<1>3. PICK d \in past : \A e \in past : d <= e
  BY <1>1, <1>2, LeastOf
<1>4. i < ShardStart(d) + ShardCount(d)
  BY <1>1, QuotaIs
<1>5. ShardStart(d) <= i
  <2>1. CASE d = 0
    BY <2>1, QuotaIs
  <2>2. CASE d # 0
    <3>1. d - 1 \in Used /\ (d - 1) + 1 = d /\ ~(d <= d - 1) /\ d \in 0..Devices
      BY <1>1, <2>2
    <3>2. ShardStart(d) \in Nat
      BY <3>1, QuotaIs
    <3> QED
      BY <1>3, <3>1, <3>2
  <2> QED
    BY <2>1, <2>2
<1> QED
  BY <1>4, <1>5

LEMMA ShardsWithin ==
  ASSUME range.count \in Nat \ {0}, NEW d \in Used
  PROVE  /\ ShardStart(d) \in Nat /\ ShardCount(d) \in Nat
         /\ ShardStart(d) + ShardCount(d) <= range.count
<1>1. d \in All /\ d \in 0..(UsedCount - 1) /\ UsedCount \in 1..Devices /\ d \in Nat
  <2>1. Used = 0..(UsedCount - 1) /\ UsedCount \in 1..Devices
    BY UsedIs
  <2> QED
    BY <2>1 DEF All
<1>2. /\ Quota \in Nat /\ Rest \in 0..(UsedCount - 1) /\ range.count = UsedCount * Quota + Rest
      /\ ShardStart(d) \in Nat /\ ShardCount(d) = Quota + (IF d < Rest THEN 1 ELSE 0)
      /\ ShardStart(d + 1) = ShardStart(d) + ShardCount(d)
  BY <1>1, QuotaIs DEF All
<1>3. (d + 1) * Quota <= UsedCount * Quota
  BY <1>1, <1>2
<1>4. ShardStart(d + 1) <= range.count
  BY <1>1, <1>2, <1>3 DEF ShardStart
<1> QED
  BY <1>2, <1>4

--------------------------------------------------------------------------------
(* The report.                                                                  *)

TypeInv ==
  /\ command \in {"search-gpu-all", "generate-wallet"}
  /\ range \in [start : Nat, count : Nat] /\ hits \subseteq Nat
  /\ DOMAIN next = All /\ \A d \in All : next[d] \in Nat

\* A thread searches its device's part of the round, and what it has answered is true of it.
Answers == {None} \cup {Found(o) : o \in hits}
RoundInv ==
  phase \in {"round", "joining"} =>
    /\ phase = "joining" => ~Refused
    /\ \A d \in All :
         /\ asked[d] = RequestOf(d) \/ (phase = "round" /\ asked[d] = NoRequest)
         /\ \/ answers[d] \in {Running, Error}
            \/ answers[d] \in Answers /\ Promise!True(asked[d], answers[d])

\* Nothing a device has passed was to be reported.
PassedInv ==
  command = "generate-wallet" /\ phase \in {"round", "joining"} =>
    \A d \in All :
      /\ BandStart(d) <= next[d]
      /\ \A o \in BandStart(d)..(next[d] - 1) : o \notin hits \ Overlooked

FleetInv == TypeInv /\ ThreadInv /\ RoundInv /\ PassedInv /\ ReportIsFirst

\* What a true answer says of the offsets.
LEMMA TrueSays ==
  ASSUME NEW r \in [start : Nat, count : Nat, hits : SUBSET Nat], NEW answer \in Answers
  PROVE  Promise!True(r, answer) <=>
           LET searched == r.start..(r.start + r.count - 1)
           IN  \/ /\ answer.kind = "found" /\ answer.offset \in searched \cap r.hits
                  /\ \A o \in searched : o < answer.offset => o \notin r.hits \ Overlooked
               \/ answer.kind = "none" /\ \A o \in searched : o \notin r.hits \ Overlooked
BY DEF Promise!True, Promise!Range, Match, ClearMatch

LEMMA ChunkIs ==
  ASSUME TypeInv, NEW d \in All
  PROVE  ChunkOf(d) \in Nat /\ BandStart(d) \in Nat
<1>1. ChainsOf[d] \in Nat \ {0} /\ range.count \in Nat
  BY DEF TypeInv, All
<1>2. range.count % ChainsOf[d] \in 0..(ChainsOf[d] - 1)
  BY <1>1, DivMod
<1>3. ChunkOf(d) \in Nat
  BY <1>1, <1>2 DEF ChunkOf
<1>4. d * Band \in Nat
  BY DEF All
<1> QED
  BY <1>3, <1>4 DEF BandStart

\* The requests of a round.
LEMMA RequestIs ==
  ASSUME TypeInv, ~Refused, NEW d \in All
  PROVE  /\ RequestOf(d) \in [start : Nat, count : Nat, hits : SUBSET Nat]
         /\ command = "generate-wallet" =>
              RequestOf(d) = [start |-> next[d], count |-> ChunkOf(d), hits |-> hits]
         /\ command = "search-gpu-all" /\ d \in Used =>
              RequestOf(d) = [start |-> range.start + ShardStart(d), count |-> ShardCount(d), hits |-> hits]
         /\ command = "search-gpu-all" /\ d \notin Used => RequestOf(d) = NoRequest
<1>1. range.count \in Nat \ {0} /\ range.start \in Nat
  BY DEF TypeInv, Refused
<1>2. CASE command = "generate-wallet"
  BY <1>2, ChunkIs DEF TypeInv, RequestOf
<1>3. CASE command = "search-gpu-all" /\ d \in Used
  <2>1. RequestOf(d) = [start |-> range.start + ShardStart(d), count |-> ShardCount(d), hits |-> hits]
    BY <1>1, <1>3, RelativeStartIs DEF RequestOf
  <2>2. ShardStart(d) \in Nat /\ ShardCount(d) \in Nat
    BY <1>1, <1>3, ShardsWithin
  <2> QED
    BY <1>1, <1>3, <2>1, <2>2 DEF TypeInv
<1>4. CASE command = "search-gpu-all" /\ d \notin Used
  BY <1>4 DEF RequestOf, NoRequest
<1> QED
  BY <1>2, <1>3, <1>4 DEF TypeInv

\* When every thread is joined and none threw, the combined result is the first of all the
\* offsets asked for, or there is none.
LEMMA BestIs ==
  ASSUME TypeInv, RoundInv, phase = "joining", Joined, ~Rethrown
  PROVE  /\ \/ Best = None
            \/ \E d \in All : \E p \in hits :
                 /\ Best = Found(p)
                 /\ asked[d].start <= p /\ p < asked[d].start + asked[d].count
         /\ \A d \in All : \A o \in hits \ Overlooked :
              asked[d].start <= o /\ o < asked[d].start + asked[d].count =>
                Best.kind = "found" /\ Best.offset <= o
<1>1. ASSUME NEW d \in All
      PROVE  /\ asked[d] = RequestOf(d)
             /\ asked[d] \in [start : Nat, count : Nat, hits : SUBSET Nat]
             /\ answers[d] \in Answers /\ Promise!True(asked[d], answers[d])
             /\ asked[d].hits = hits \/ asked[d] = NoRequest
  <2>1. asked[d] = RequestOf(d) /\ ~Refused
    BY <1>1 DEF RoundInv
  <2>2. answers[d] \in Answers /\ Promise!True(asked[d], answers[d])
    BY <1>1 DEF RoundInv, Joined, Rethrown
  <2> QED
    BY <1>1, <2>1, <2>2, RequestIs DEF TypeInv
<1>2. FoundOffsets \subseteq hits
  BY <1>1 DEF FoundOffsets, Answers, None, Found
<1>3. ASSUME NEW d \in All, answers[d].kind = "found"
      PROVE  /\ answers[d].offset \in FoundOffsets
             /\ asked[d].start <= answers[d].offset
             /\ answers[d].offset < asked[d].start + asked[d].count
  <2>1. answers[d].offset \in FoundOffsets
    BY <1>3 DEF FoundOffsets
  <2>2. answers[d].offset \in asked[d].start..(asked[d].start + asked[d].count - 1)
    BY <1>1, <1>3, TrueSays
  <2> QED
    BY <1>1, <2>1, <2>2
<1>4. ASSUME FoundOffsets # {}
      PROVE  /\ Best = Found(Min(FoundOffsets)) /\ Min(FoundOffsets) \in FoundOffsets
             /\ \A p \in FoundOffsets : Min(FoundOffsets) <= p
  <2>1. FoundOffsets \subseteq Nat
    BY <1>2 DEF TypeInv
  <2> QED
    BY <1>4, <2>1, MinOf DEF Best, BestOf
<1>5. \/ Best = None
      \/ \E d \in All : \E p \in hits :
           /\ Best = Found(p)
           /\ asked[d].start <= p /\ p < asked[d].start + asked[d].count
  <2>1. CASE FoundOffsets = {}
    BY <2>1 DEF Best
  <2>2. CASE FoundOffsets # {}
    <3>1. PICK d \in All : answers[d].kind = "found" /\ answers[d].offset = Min(FoundOffsets)
      BY <1>4, <2>2 DEF FoundOffsets
    <3> QED
      BY <1>2, <1>3, <1>4, <2>2, <3>1
  <2> QED
    BY <2>1, <2>2
<1>6. ASSUME NEW d \in All, NEW o \in hits \ Overlooked,
             asked[d].start <= o, o < asked[d].start + asked[d].count
      PROVE  Best.kind = "found" /\ Best.offset <= o
  <2>1. o \in asked[d].start..(asked[d].start + asked[d].count - 1) /\ o \in Nat
    <3>1. o \in Nat
      BY DEF TypeInv
    <3>2. asked[d].start \in Nat /\ asked[d].count \in Nat
      BY <1>1, <1>6
    <3> QED
      BY <1>6, <3>1, <3>2
  <2>2. asked[d].hits = hits
    BY <1>1, <2>1 DEF NoRequest
  <2>3. answers[d].kind = "found" /\ ~(o < answers[d].offset) /\ answers[d].offset \in hits
    BY <1>1, <2>1, <2>2, TrueSays
  <2>4. Best = Found(Min(FoundOffsets)) /\ Min(FoundOffsets) <= answers[d].offset
        /\ Min(FoundOffsets) \in Nat
    BY <1>2, <1>3, <1>4, <2>3 DEF TypeInv
  <2> QED
    <3>1. answers[d].offset \in Nat
      BY <2>3 DEF TypeInv
    <3>2. Best.kind = "found" /\ Best.offset = Min(FoundOffsets)
      BY <2>4 DEF Found
    <3> QED
      BY <2>1, <2>3, <2>4, <3>1, <3>2
<1> QED
  BY <1>5, <1>6

\* A device without a thread has found nothing, which is true of no candidate.
LEMMA NothingAsked == Promise!True(NoRequest, None)
BY DEF Promise!True, Promise!Range, NoRequest, None

LEMMA FleetInit == Init => FleetInv
<1> SUFFICES ASSUME Init PROVE FleetInv
  OBVIOUS
<1>1. TypeInv
  <2>1. \A d \in All : BandStart(d) \in Nat
    <3> SUFFICES ASSUME NEW d \in All PROVE BandStart(d) \in Nat
      OBVIOUS
    <3>1. d * Band \in Nat
      BY DEF All
    <3> QED
      BY <3>1 DEF BandStart
  <2> QED
    BY <2>1 DEF Init, TypeInv
<1>2. ThreadInv
  BY Kinds DEF Init, ThreadInv, Phases
<1>3. RoundInv /\ ReportIsFirst
  BY NothingAsked DEF Init, RoundInv, Answers, ReportIsFirst
<1>4. PassedInv
  <2> SUFFICES ASSUME NEW d \in All
               PROVE  BandStart(d) <= next[d] /\ \A o \in BandStart(d)..(next[d] - 1) : FALSE
    BY DEF PassedInv
  <2>1. next[d] = BandStart(d) /\ next[d] \in Nat
    BY <1>1 DEF Init, TypeInv
  <2> QED
    BY <2>1
<1> QED
  BY <1>1, <1>2, <1>3, <1>4 DEF FleetInv

\* A thread of the round is created.
LEMMA ForkKeeps ==
  ASSUME FleetInv, NEW d \in All, Fork(d)
  PROVE  TypeInv' /\ RoundInv' /\ PassedInv' /\ ReportIsFirst'
<1>1. /\ phase = "round" /\ ~Refused /\ phase' \in {"round", "joining"}
      /\ UNCHANGED <<command, range, hits, next, attempts, winner>>
      /\ asked' = [asked EXCEPT ![d] = RequestOf(d)] /\ DOMAIN asked = All
      /\ answers' = [answers EXCEPT ![d] = Running] /\ DOMAIN answers = All
  BY DEF FleetInv, ThreadInv, Fork
<1>2. TypeInv' /\ PassedInv' /\ ReportIsFirst'
  BY <1>1 DEF FleetInv, TypeInv, PassedInv, ReportIsFirst, BandStart
<1>3. \A e \in All : RequestOf(e)' = RequestOf(e)
  BY <1>1 DEF RequestOf, ChunkOf, RelativeStart, ShardCount, Used
<1>4. ~Refused' /\ Answers' = Answers
  BY <1>1 DEF Refused, Used, Answers
<1>5. ASSUME NEW e \in All
      PROVE  asked'[e] = RequestOf(e) \/ (phase' = "round" /\ asked'[e] = NoRequest)
  <2>1. CASE e = d
    BY <1>1, <2>1
  <2>2. CASE e # d
    <3>1. asked'[e] = asked[e] /\ (asked[e] = RequestOf(e) \/ asked[e] = NoRequest)
      BY <1>1, <2>2 DEF FleetInv, RoundInv
    <3>2. phase' = "joining" => e \notin Pending
      BY <1>1, <2>2 DEF Fork
    <3> QED
      BY <1>1, <3>1, <3>2 DEF Pending, Created
  <2> QED
    BY <2>1, <2>2
<1>6. ASSUME NEW e \in All
      PROVE  \/ answers'[e] \in {Running, Error}
             \/ answers'[e] \in Answers' /\ Promise!True(asked[e], answers[e])'
  <2>1. CASE e = d
    BY <1>1, <2>1
  <2>2. CASE e # d
    <3>1. asked'[e] = asked[e] /\ answers'[e] = answers[e]
      BY <1>1, <2>2
    <3>2. \/ answers[e] \in {Running, Error}
          \/ answers[e] \in Answers /\ Promise!True(asked[e], answers[e])
      BY <1>1 DEF FleetInv, RoundInv
    <3> QED
      BY <1>4, <3>1, <3>2 DEF Promise!True, Promise!Range, Match, ClearMatch
  <2> QED
    BY <2>1, <2>2
<1>7. RoundInv'
  BY <1>3, <1>4, <1>5, <1>6 DEF RoundInv
<1> QED
  BY <1>2, <1>7

\* A thread answers or throws while the main thread creates others or joins.
LEMMA SearchKeeps ==
  ASSUME FleetInv, NEW d \in All, Search(d) \/ Throw(d)
  PROVE  TypeInv' /\ RoundInv' /\ PassedInv' /\ ReportIsFirst'
<1>1. /\ phase \in {"round", "joining"}
      /\ UNCHANGED <<command, range, hits, phase, asked, next, attempts, winner>>
  BY DEF FleetInv, ThreadInv, Search, Throw
<1>2. TypeInv' /\ PassedInv' /\ ReportIsFirst'
  BY <1>1 DEF FleetInv, TypeInv, PassedInv, ReportIsFirst, BandStart
<1>3. \A e \in All : RequestOf(e)' = RequestOf(e)
  BY <1>1 DEF RequestOf, ChunkOf, RelativeStart, ShardCount, Used
<1>4. phase' = "joining" => ~Refused'
  BY <1>1 DEF FleetInv, RoundInv, Refused, Used
<1>5. ASSUME NEW e \in All
      PROVE  \/ answers'[e] = answers[e]
             \/ answers'[e] = Error
             \/ answers'[e] \in Answers /\ Promise!True(asked[e], answers'[e])
  BY DEF FleetInv, ThreadInv, Search, Throw, Answers
<1>6. ASSUME NEW e \in All
      PROVE  /\ asked'[e] = RequestOf(e)' \/ (phase' = "round" /\ asked'[e] = NoRequest')
             /\ \/ answers'[e] \in {Running, Error}
                \/ answers'[e] \in Answers' /\ Promise!True(asked[e], answers[e])'
  <2>1. /\ asked[e] = RequestOf(e) \/ (phase = "round" /\ asked[e] = NoRequest)
        /\ asked'[e] = asked[e] /\ Answers' = Answers
    BY <1>1 DEF FleetInv, RoundInv, Answers
  <2>2. \/ answers'[e] \in {Running, Error}
        \/ answers'[e] \in Answers /\ Promise!True(asked[e], answers'[e])
    BY <1>1, <1>5 DEF FleetInv, RoundInv
  <2> QED
    BY <1>1, <1>3, <2>1, <2>2 DEF Promise!True, Promise!Range, Match, ClearMatch, NoRequest
<1>7. RoundInv'
  BY <1>1, <1>4, <1>6 DEF RoundInv
<1> QED
  BY <1>2, <1>7

\* A round without a winner: what every device has searched of its band is passed.
LEMMA AdvanceKeeps ==
  ASSUME FleetInv, Advance
  PROVE  TypeInv' /\ RoundInv' /\ PassedInv' /\ ReportIsFirst'
<1>1. /\ TypeInv /\ RoundInv /\ PassedInv /\ ~Refused /\ phase = "joining" /\ phase' = "round"
      /\ command = "generate-wallet" /\ UNCHANGED <<command, range, hits>>
      /\ Joined /\ ~Rethrown /\ Best = None
  BY DEF FleetInv, RoundInv, Advance
<1>2. ASSUME NEW d \in All
      PROVE  /\ asked[d].start = next[d] /\ asked[d].count \in Nat
             /\ next'[d] = next[d] + asked[d].count
             /\ next[d] \in Nat /\ BandStart(d) \in Nat /\ BandStart(d) <= next[d]
  <2>1. asked[d].start = next[d] /\ asked[d].count \in Nat
    BY <1>1, <1>2, RequestIs, ChunkIs DEF RoundInv
  <2>2. next'[d] = next[d] + asked[d].count
    BY <1>2 DEF Advance, NextOffsets
  <2>3. BandStart(d) \in Nat
    BY <1>1, <1>2, ChunkIs
  <2> QED
    BY <1>1, <1>2, <2>1, <2>2, <2>3 DEF TypeInv, PassedInv
<1>3. TypeInv'
  BY <1>1, <1>2 DEF Advance, NextOffsets, TypeInv
<1>4. RoundInv' /\ ReportIsFirst'
  <2>1. ReportIsFirst'
    BY <1>1 DEF ReportIsFirst
  <2>2. \A d \in All : asked'[d] = NoRequest /\ answers'[d] = None
    BY DEF Advance
  <2>3. Promise!True(NoRequest, None)'
    BY <1>1, NothingAsked DEF Promise!True, Promise!Range, Match, ClearMatch, NoRequest, None
  <2> QED
    BY <1>1, <2>1, <2>2, <2>3 DEF RoundInv, Answers, NoRequest, None
<1>5. ASSUME NEW d \in All
      PROVE  /\ BandStart(d) <= next'[d]
             /\ \A o \in BandStart(d)..(next'[d] - 1) : o \notin hits \ Overlooked
  <2>1. BandStart(d) <= next'[d]
    BY <1>2, <1>5
  <2>2. ASSUME NEW o \in BandStart(d)..(next'[d] - 1), o \in hits \ Overlooked PROVE FALSE
    <3>1. CASE o < next[d]
      <4>1. o \in BandStart(d)..(next[d] - 1)
        BY <1>2, <2>2, <3>1
      <4> QED
        BY <1>1, <2>2, <4>1 DEF PassedInv
    <3>2. CASE ~(o < next[d])
      <4>1. asked[d].start <= o /\ o < asked[d].start + asked[d].count
        BY <1>2, <2>2, <3>2
      <4>2. Best.kind = "found"
        BY <1>1, <2>2, <4>1, BestIs
      <4> QED
        BY <1>1, <4>2 DEF None
    <3> QED
      BY <3>1, <3>2
  <2> QED
    BY <2>1, <2>2
<1>6. PassedInv'
  BY <1>1, <1>5 DEF PassedInv, BandStart
<1> QED
  BY <1>3, <1>4, <1>6

\* A round with a winner: it is the first of every offset tried, in this round or before.
LEMMA WinKeeps ==
  ASSUME FleetInv, Win
  PROVE  TypeInv' /\ RoundInv' /\ PassedInv' /\ ReportIsFirst'
<1>1. /\ TypeInv /\ RoundInv /\ PassedInv /\ ~Refused /\ phase = "joining" /\ phase' = "recovering"
      /\ command = "generate-wallet" /\ UNCHANGED <<command, range, hits, next, asked>>
      /\ Joined /\ ~Rethrown /\ Best # None /\ winner' = Best
  BY DEF FleetInv, RoundInv, Win
<1>2. TypeInv' /\ RoundInv' /\ PassedInv'
  BY <1>1 DEF TypeInv, RoundInv, PassedInv
<1>3. ASSUME NEW d \in All
      PROVE  /\ asked[d].start = next[d] /\ asked[d].count \in Nat
             /\ next[d] \in Nat /\ BandStart(d) \in Nat /\ BandStart(d) <= next[d]
             /\ Tried(d)' = BandStart(d)..(next[d] + asked[d].count - 1)
  <2>1. asked[d].start = next[d] /\ asked[d].count \in Nat
    BY <1>1, <1>3, RequestIs, ChunkIs DEF RoundInv
  <2>2. BandStart(d) \in Nat
    BY <1>1, <1>3, ChunkIs
  <2>3. Tried(d)' = BandStart(d)..(next[d] + asked[d].count - 1)
    BY <1>1 DEF Tried, BandStart
  <2> QED
    BY <1>1, <1>3, <2>1, <2>2, <2>3 DEF TypeInv, PassedInv
<1>4. PICK e \in All, p \in hits :
        Best = Found(p) /\ asked[e].start <= p /\ p < asked[e].start + asked[e].count
  BY <1>1, BestIs
<1>5. winner'.kind = "found" /\ winner'.offset = p
  BY <1>1, <1>4 DEF Found
<1>6. p \in Tried(e)'
  <2>1. p \in Nat
    BY <1>1 DEF TypeInv
  <2>2. p \in BandStart(e)..(next[e] + asked[e].count - 1)
    <3> DEFINE a == asked[e].start
               n == asked[e].count
               b == BandStart(e)
    <3>1. b \in Nat /\ a \in Nat /\ n \in Nat /\ b <= a /\ a <= p /\ p < a + n /\ a = next[e]
      BY <1>3, <1>4
    <3>2. p \in b..(a + n - 1)
      <4> HIDE DEF a, n, b
      <4> QED
        BY <2>1, <3>1
    <3> QED
      BY <3>1, <3>2
  <2> QED
    BY <1>3, <2>2
<1>7. ASSUME NEW d \in All, NEW o \in Tried(d)', o \in hits \ Overlooked
      PROVE  o >= p
  <2>1. o \in BandStart(d)..(next[d] + asked[d].count - 1) /\ p \in Nat
    BY <1>1, <1>3, <1>7 DEF TypeInv
  <2>2. ~(o < next[d])
    <3>1. o < next[d] => o \in BandStart(d)..(next[d] - 1)
      BY <1>3, <2>1
    <3> QED
      BY <1>1, <1>7, <3>1 DEF PassedInv
  <2> DEFINE a == asked[d].start
             n == asked[d].count
             b == BandStart(d)
  <2>3. asked[d].start <= o /\ o < asked[d].start + asked[d].count
    <3>1. a \in Nat /\ n \in Nat /\ b \in Nat /\ a = next[d] /\ o \in b..(a + n - 1) /\ ~(o < a)
      BY <1>3, <2>1, <2>2
    <3>2. a <= o /\ o < a + n
      <4> HIDE DEF a, n, b
      <4> QED
        BY <3>1
    <3> QED
      BY <3>2
  <2>4. Best.offset <= o
    BY <1>1, <1>7, <2>3, BestIs
  <2>5. o \in Int
    BY <1>3, <2>1
  <2> QED
    BY <1>1, <1>5, <2>1, <2>4, <2>5
<1>8. ReportIsFirst'
  <2>1. winner'.offset \in hits \cap UNION {Tried(d)' : d \in All}
    BY <1>5, <1>6
  <2>2. \A o \in (hits \ Overlooked) \cap UNION {Tried(d)' : d \in All} : o >= winner'.offset
    BY <1>5, <1>7
  <2> QED
    BY <1>1, <1>5, <2>1, <2>2 DEF ReportIsFirst
<1> QED
  BY <1>2, <1>8

\* The shards of a range: what is found is in the range, and every offset of it is asked for.
LEMMA AnswerKeeps ==
  ASSUME FleetInv, Answer
  PROVE  TypeInv' /\ RoundInv' /\ PassedInv' /\ ReportIsFirst'
<1>1. /\ TypeInv /\ RoundInv /\ ~Refused /\ phase = "joining" /\ phase' = "answered"
      /\ command = "search-gpu-all" /\ UNCHANGED <<command, range, hits, next, asked>>
      /\ Joined /\ ~Rethrown /\ winner' = Best
  BY DEF FleetInv, RoundInv, Answer
<1>2. TypeInv' /\ RoundInv' /\ PassedInv'
  BY <1>1 DEF TypeInv, RoundInv, PassedInv
<1>3. range.count \in Nat \ {0} /\ range.start \in Nat
  BY <1>1 DEF TypeInv, Refused
<1>4. ASSUME NEW d \in All
      PROVE  /\ d \in Used => /\ asked[d].start = range.start + ShardStart(d)
                             /\ asked[d].count = ShardCount(d)
             /\ d \notin Used => asked[d] = NoRequest
  BY <1>1, <1>4, RequestIs DEF RoundInv
<1>5. Promise!Range(range) = range.start..(range.start + range.count - 1)
  BY DEF Promise!Range
<1>6. ASSUME NEW p \in hits, Best = Found(p)
      PROVE  p \in Promise!Range(range)
  <2>1. PICK d \in All, q \in hits :
          Best = Found(q) /\ asked[d].start <= q /\ q < asked[d].start + asked[d].count
    BY <1>1, <1>6, BestIs, Kinds
  <2>2. q = p /\ p \in Nat
    BY <1>1, <1>6, <2>1 DEF Found, TypeInv
  <2>3. d \in Used
    <3>1. ASSUME d \notin Used PROVE FALSE
      <4>1. asked[d].start = 0 /\ asked[d].count = 0
        BY <1>4, <3>1 DEF NoRequest
      <4> QED
        BY <2>1, <2>2, <4>1
    <3> QED
      BY <3>1
  <2>4. /\ ShardStart(d) \in Nat /\ ShardCount(d) \in Nat
        /\ ShardStart(d) + ShardCount(d) <= range.count
    BY <1>3, <2>3, ShardsWithin
  <2> DEFINE a == ShardStart(d)
             n == ShardCount(d)
  <2>5. a \in Nat /\ n \in Nat /\ a + n <= range.count
        /\ range.start + a <= p /\ p < range.start + a + n
    BY <1>4, <2>1, <2>2, <2>3, <2>4
  <2>6. p \in range.start..(range.start + range.count - 1)
    <3> HIDE DEF a, n
    <3> QED
      BY <1>3, <2>2, <2>5
  <2> QED
    BY <1>5, <2>6
<1>7. ASSUME NEW o \in (hits \ Overlooked) \cap Promise!Range(range)
      PROVE  Best.kind = "found" /\ o >= Best.offset
  <2>1. o - range.start \in 0..(range.count - 1) /\ o \in Nat
    BY <1>3, <1>5, <1>7
  <2>2. PICK d \in Used :
          ShardStart(d) <= o - range.start /\ o - range.start < ShardStart(d) + ShardCount(d)
    BY <1>3, <2>1, ShardsCover
  <2>3. ShardStart(d) \in Nat /\ ShardCount(d) \in Nat /\ d \in All
    BY <1>3, ShardsWithin DEF Used
  <2>4. asked[d].start <= o /\ o < asked[d].start + asked[d].count
    BY <1>3, <1>4, <2>1, <2>2, <2>3
  <2>5. Best.kind = "found" /\ Best.offset <= o
    BY <1>1, <1>7, <2>3, <2>4, BestIs
  <2>6. Best.offset \in Nat
    BY <1>1, <2>5, BestIs DEF TypeInv, None, Found
  <2> QED
    BY <2>1, <2>5, <2>6
<1>8. Best = None \/ \E p \in hits : Best = Found(p)
  BY <1>1, BestIs
<1>9. ReportIsFirst'
  <2>1. CASE Best = None
    <3>1. (hits \ Overlooked) \cap Promise!Range(range) = {}
      BY <1>7, <2>1 DEF None
    <3> QED
      BY <1>1, <2>1, <3>1 DEF ReportIsFirst, None, Promise!Range
  <2>2. CASE \E p \in hits : Best = Found(p)
    <3>1. PICK p \in hits : Best = Found(p)
      BY <2>2
    <3>2. Best.kind = "found" /\ Best.offset = p
      BY <3>1 DEF Found
    <3>3. Best.offset \in hits \cap Promise!Range(range)
      BY <1>6, <3>1, <3>2
    <3> QED
      BY <1>1, <1>7, <3>2, <3>3 DEF ReportIsFirst, Promise!Range
  <2> QED
    BY <1>8, <2>1, <2>2
<1> QED
  BY <1>2, <1>9

\* The other steps leave the search as it is, and none of them reports.
LEMMA OthersKeep ==
  ASSUME FleetInv,
         \/ Refuse \/ Fail \/ GiveUp \/ Unrecovered \/ Open \/ Write \/ Sync \/ Close
         \/ SpawnFails \/ WriteFails \/ Intrude \/ Kill \/ UNCHANGED vars
  PROVE  TypeInv' /\ RoundInv' /\ PassedInv' /\ ReportIsFirst'
<1>1. UNCHANGED <<command, range, hits, next, asked, winner>>
  BY DEF Refuse, Fail, GiveUp, Unrecovered, Open, Write, Sync, Close, SpawnFails, WriteFails,
         Intrude, Kill, vars
<1>2. \/ phase' \in {"failed", "opened", "written", "synced", "generated", "aborted", "killed"}
      \/ UNCHANGED <<phase, answers>>
  BY DEF Refuse, Fail, GiveUp, Unrecovered, Open, Write, Sync, Close, SpawnFails, WriteFails,
         Intrude, Kill, vars
<1>3. CASE phase' \in {"failed", "opened", "written", "synced", "generated", "aborted", "killed"}
  BY <1>1, <1>3 DEF FleetInv, TypeInv, RoundInv, PassedInv, ReportIsFirst
<1>4. CASE UNCHANGED <<phase, answers>>
  <2>1. TypeInv' /\ PassedInv' /\ ReportIsFirst'
    BY <1>1, <1>4 DEF FleetInv, TypeInv, PassedInv, ReportIsFirst, Tried, BandStart, Promise!Range
  <2>2. \A d \in All : RequestOf(d)' = RequestOf(d)
    BY <1>1 DEF RequestOf, ChunkOf, RelativeStart, ShardCount, Used
  <2>3. Refused' = Refused /\ Answers' = Answers
    BY <1>1 DEF Refused, Used, Answers
  <2>4. \A d \in All : Promise!True(asked[d], answers[d])' = Promise!True(asked[d], answers[d])
    BY <1>1, <1>4 DEF Promise!True, Promise!Range, Match, ClearMatch
  <2>5. RoundInv'
    BY <1>1, <1>4, <2>2, <2>3, <2>4 DEF FleetInv, RoundInv
  <2> QED
    BY <2>1, <2>5
<1> QED
  BY <1>2, <1>3, <1>4

\* The invariant of the search holds of every reachable state.
LEMMA FleetHolds == Spec => []FleetInv
<1>1. FleetInv /\ [Next]_vars => FleetInv'
  <2> SUFFICES ASSUME FleetInv, [Next]_vars
               PROVE  TypeInv' /\ RoundInv' /\ PassedInv' /\ ReportIsFirst'
    BY ThreadStep DEF FleetInv
  <2>1. CASE \E d \in All : Fork(d)
    BY <2>1, ForkKeeps
  <2>2. CASE \E d \in All : Search(d) \/ Throw(d)
    BY <2>2, SearchKeeps
  <2>3. CASE Advance
    BY <2>3, AdvanceKeeps
  <2>4. CASE Win
    BY <2>4, WinKeeps
  <2>5. CASE Answer
    BY <2>5, AnswerKeeps
  <2>6. CASE \/ Refuse \/ Fail \/ GiveUp \/ Unrecovered \/ Open \/ Write \/ Sync \/ Close
             \/ SpawnFails \/ WriteFails \/ Intrude \/ Kill \/ UNCHANGED vars
    BY <2>6, OthersKeep
  <2> QED
    BY <2>1, <2>2, <2>3, <2>4, <2>5, <2>6 DEF Next, Main, Thread
<1> QED
  BY <1>1, FleetInit, PTL DEF Spec

\* What a command reports is the first match of everything it has tried.
THEOREM FirstReported == Spec => []ReportIsFirst
<1>1. FleetInv => ReportIsFirst
  BY DEF FleetInv
<1> QED
  BY <1>1, FleetHolds, PTL

--------------------------------------------------------------------------------
(* What is counted.                                                             *)

AllFinite == IsFiniteSet(All)

LEMMA DevicesFinite == AllFinite
BY FS_Interval DEF AllFinite, All

\* The attempts of a round are the sum of its requests' counts.
LEMMA RoundIs ==
  ASSUME \A d \in All : asked[d].count \in Nat
  PROVE  \E f : IsSum(f, [d \in All |-> asked[d].count], All) /\ RoundAttempts = f[All]
<1> DEFINE g == [d \in All |-> asked[d].count]
           Added(f) == [s \in SUBSET All |->
                IF s = {} THEN 0 ELSE LET x == CHOOSE x \in s : TRUE IN f[s \ {x}] + asked[x].count]
           iter == CHOOSE f : f = Added(f)
           pick == [s \in SUBSET All |-> CHOOSE x \in s : TRUE]
<1>1. RoundAttempts = iter[All]
  BY DEF RoundAttempts, FoldSet, MapThenFoldSet
<1>2. g \in [All -> Nat] /\ IsFiniteSet(All)
  BY DevicesFinite DEF AllFinite
<1>3. PICK f \in [SUBSET All -> Nat] : AddingUp(f, g, All)
  <2> HIDE DEF g
  <2> QED
    BY <1>2, AddingUpExists
<1>4. IsSum(f, g, All)
  <2> HIDE DEF g
  <2> QED
    BY <1>2, <1>3, AddingUpIsSum
<1>5. f = Added(f)
  <2>1. ASSUME NEW s \in SUBSET All, s # {}
        PROVE  f[s] = f[s \ {CHOOSE x \in s : TRUE}] + asked[CHOOSE x \in s : TRUE].count
    <3> DEFINE c == CHOOSE x \in s : TRUE
    <3>1. c \in All /\ f[s] = g[c] + f[s \ {c}]
      BY <1>3, <2>1 DEF AddingUp
    <3> HIDE DEF c
    <3>2. g[c] = asked[c].count /\ g[c] \in Nat /\ f[s \ {c}] \in Nat
      BY <3>1
    <3>3. f[s] = f[s \ {c}] + asked[c].count
      <4> HIDE DEF g
      <4> QED
        BY <3>1, <3>2
    <3> QED
      BY <3>3 DEF c
  <2>2. f[{}] = 0 /\ f = [s \in SUBSET All |-> f[s]]
    BY <1>3 DEF AddingUp
  <2>3. \A s \in SUBSET All : f[s] =
          IF s = {} THEN 0 ELSE f[s \ {CHOOSE x \in s : TRUE}] + asked[CHOOSE x \in s : TRUE].count
    BY <2>1, <2>2
  <2>4. [s \in SUBSET All |-> f[s]] = Added(f)
    BY ONLY <2>3
  <2> QED
    BY <2>2, <2>4
<1>6. iter = Added(iter)
  <2> HIDE DEF Added
  <2> QED
    BY <1>5
<1>7. Alike(iter, f, All, pick)
  <2>1. iter[{}] = f[{}]
    BY <1>5, <1>6
  <2>2. \A s \in SUBSET All : s # {} =>
          pick[s] \in s /\ (iter[s \ {pick[s]}] = f[s \ {pick[s]}] => iter[s] = f[s])
    <3> SUFFICES ASSUME NEW s \in SUBSET All, s # {}
                 PROVE  /\ pick[s] \in s
                        /\ iter[s \ {pick[s]}] = f[s \ {pick[s]}] => iter[s] = f[s]
      OBVIOUS
    <3> DEFINE c == CHOOSE x \in s : TRUE
    <3>1. pick[s] = c /\ c \in s
      OBVIOUS
    <3>2. f[s] = f[s \ {c}] + asked[c].count
      BY <1>5
    <3>3. iter[s] = iter[s \ {c}] + asked[c].count
      <4> HIDE DEF iter
      <4> QED
        BY <1>6
    <3> HIDE DEF iter, pick, c
    <3> QED
      BY <3>1, <3>2, <3>3
  <2> HIDE DEF iter, pick
  <2> QED
    BY <2>1, <2>2 DEF Alike
<1>8. iter[All] = f[All]
  <2>1. \A s \in SUBSET All : iter[s] = f[s]
    <3> HIDE DEF iter, pick
    <3> QED
      BY <1>2, <1>7, SameFold
  <2> HIDE DEF iter
  <2> QED
    BY <2>1
<1> QED
  BY <1>1, <1>4, <1>8

LEMMA QuotaBound ==
  ASSUME NEW u \in Nat \ {0}, NEW q \in Nat, NEW r \in Nat, NEW l \in Nat, u * q + r <= l * u
  PROVE  q <= l /\ (r > 0 => q < l)
<1>1. ASSUME q > l PROVE FALSE
  <2>1. u * q >= u * (l + 1)
    BY <1>1
  <2> QED
    BY <2>1
<1>2. ASSUME r > 0, q = l PROVE FALSE
  <2>1. u * q = l * u /\ l * u \in Nat
    BY <1>2
  <2> QED
    BY <1>2, <2>1
<1> QED
  BY <1>1, <1>2

\* No device is asked for more than a launch may be.
LEMMA LaunchLimit ==
  ASSUME TypeInv, ~Refused, NEW d \in All
  PROVE  RequestOf(d).count \in 0..DeviceLimit
<1>1. range.count \in Nat \ {0}
  BY DEF TypeInv, Refused
<1>2. CASE command = "generate-wallet"
  <2>1. range.count <= DeviceLimit
    BY <1>1, <1>2 DEF Refused
  <2>2. ChainsOf[d] \in Nat \ {0}
    BY DEF All
  <2>3. range.count % ChainsOf[d] \in 0..(ChainsOf[d] - 1)
    BY <1>1, <2>2, DivMod
  <2>4. ChunkOf(d) <= range.count /\ ChunkOf(d) \in Nat
    <3>1. ChunkOf(d) = range.count \/ ChunkOf(d) = range.count - (range.count % ChainsOf[d])
      BY DEF ChunkOf
    <3> QED
      BY <1>1, <2>3, <3>1, ChunkIs
  <2> QED
    BY <1>1, <1>2, <2>1, <2>4, RequestIs
<1>3. CASE command = "search-gpu-all" /\ d \in Used
  <2>1. range.count <= DeviceLimit * UsedCount
    BY <1>1, <1>3, UsedIs DEF Refused
  <2>2. /\ UsedCount \in 1..Devices /\ Quota \in Nat /\ Rest \in 0..(UsedCount - 1)
        /\ range.count = UsedCount * Quota + Rest
        /\ ShardCount(d) = Quota + (IF d < Rest THEN 1 ELSE 0)
    BY <1>1, QuotaIs, UsedIs
  <2>3. Quota <= DeviceLimit /\ (Rest > 0 => Quota < DeviceLimit)
    <3>1. UsedCount * Quota + Rest <= DeviceLimit * UsedCount
      BY <2>1, <2>2
    <3>2. UsedCount \in Nat \ {0} /\ Quota \in Nat /\ Rest \in Nat /\ DeviceLimit \in Nat
      BY <2>2
    <3> QED
      BY ONLY <3>1, <3>2, QuotaBound
  <2>4. d \in Nat
    BY DEF All
  <2>5. ShardCount(d) \in 0..DeviceLimit
    BY <2>2, <2>3, <2>4
  <2> QED
    BY <1>3, <2>5, RequestIs
<1>4. CASE command = "search-gpu-all" /\ d \notin Used
  BY <1>4, RequestIs DEF NoRequest
<1> QED
  BY <1>2, <1>3, <1>4 DEF TypeInv

\* The types.
LEMMA TypeStep ==
  ASSUME TypeOK, FleetInv, PathInv, [Next]_vars
  PROVE  /\ faults' \in 0..MaxFaults /\ attempts' \in 0..AttemptLimit
         /\ winner'.kind \in {"none", "found"}
         /\ \A d \in All : /\ asked'[d].count \in 0..DeviceLimit
                           /\ answers'[d].kind \in {"none", "found", "error", "running"}
<1> USE DEF TypeOK
<1>1. attempts + RoundAttempts \in Nat
  <2>1. PICK f : IsSum(f, [d \in All |-> asked[d].count], All) /\ RoundAttempts = f[All]
    BY RoundIs
  <2> QED
    BY <2>1 DEF IsSum
<1>2. Best.kind \in {"none", "found"}
  BY DEF Best, None, Found
<1>3. DOMAIN answers = All /\ DOMAIN asked = All
  BY DEF FleetInv, ThreadInv
<1>4. CASE \E d \in All : Fork(d)
  <2>1. \A d \in All : RequestOf(d).count \in 0..DeviceLimit
    BY <1>4, LaunchLimit DEF Fork, FleetInv
  <2> QED
    BY <1>3, <1>4, <2>1 DEF Fork, Running
<1>5. CASE Thread
  BY <1>3, <1>5 DEF Thread, Search, None, Found
<1>6. CASE \E d \in All : Throw(d)
  BY <1>3, <1>6 DEF Throw, Error
<1>7. CASE Advance \/ Win
  BY <1>1, <1>2, <1>7 DEF Advance, Win, Overflows, NoRequest, None
<1>8. CASE Refuse \/ Fail \/ Answer \/ GiveUp
  BY <1>2, <1>8 DEF Refuse, Fail, Answer, GiveUp
<1>9. CASE Unrecovered \/ Open \/ Write \/ Sync \/ Close
  BY <1>9 DEF Unrecovered, Open, Write, Sync, Close
<1>10. CASE SpawnFails \/ WriteFails \/ Intrude \/ Kill
  BY <1>10 DEF SpawnFails, WriteFails, Intrude, Kill, None
<1>11. CASE UNCHANGED vars
  BY <1>11 DEF vars
<1> QED
  BY <1>4, <1>5, <1>6, <1>7, <1>8, <1>9, <1>10, <1>11 DEF Next, Main

\* No launch is longer than its device allows, and the total of attempts does not overflow.
THEOREM FleetTypes == Spec => []TypeOK
<1>1. Init => TypeOK
  BY DEF Init, TypeOK, Phases, Files, NoRequest, None
<1>2. TypeOK /\ FleetInv /\ PathInv /\ FleetInv' /\ PathInv' /\ [Next]_vars => TypeOK'
  <2> SUFFICES ASSUME TypeOK, FleetInv, PathInv, FleetInv', PathInv', [Next]_vars PROVE TypeOK'
    OBVIOUS
  <2>1. phase' \in Phases /\ file' \in Files
    BY DEF FleetInv, ThreadInv, PathInv
  <2> QED
    BY <2>1, TypeStep DEF TypeOK
<1> QED
  BY <1>1, <1>2, FleetHolds, PathHolds, PTL DEF Spec

--------------------------------------------------------------------------------
(* Every candidate once.                                                        *)

\* The shards of two devices do not meet.
LEMMA ShardsApart ==
  ASSUME range.count \in Nat \ {0}, NEW d \in Used, NEW e \in Used, d < e
  PROVE  ShardStart(d) + ShardCount(d) <= ShardStart(e)
<1>1. /\ d \in All /\ e \in All /\ d \in Nat /\ e \in Nat /\ d + 1 \in 0..Devices
      /\ e \in 0..Devices /\ d + 1 <= e
  BY DEF Used, All
<1>2. ShardStart(d + 1) = ShardStart(d) + ShardCount(d)
  BY <1>1, QuotaIs
<1>3. Quota \in Nat /\ Rest \in Nat
  BY QuotaIs
<1>4. (d + 1) * Quota <= e * Quota
  BY <1>1, <1>3
<1>5. (d + 1) * Quota \in Nat /\ e * Quota \in Nat
  BY <1>1, <1>3
<1>6. ShardStart(d + 1) <= ShardStart(e)
  <2> DEFINE x == (d + 1) * Quota
             y == e * Quota
  <2>1. /\ ShardStart(d + 1) = x + (IF d + 1 < Rest THEN d + 1 ELSE Rest)
        /\ ShardStart(e) = y + (IF e < Rest THEN e ELSE Rest)
    BY DEF ShardStart
  <2>2. x \in Nat /\ y \in Nat /\ x <= y
    BY <1>4, <1>5
  <2> HIDE DEF x, y
  <2> QED
    BY <1>1, <1>3, <2>1, <2>2
<1> QED
  BY <1>2, <1>6

\* The shards divide the range.
LEMMA RangeDivided ==
  ASSUME TypeInv, RoundInv, phase = "joining", command = "search-gpu-all"
  PROVE  /\ UNION {Offsets(d) : d \in All} = Promise!Range(range)
         /\ \A d, e \in All : d # e => Offsets(d) \cap Offsets(e) = {}
<1>1. range.count \in Nat \ {0} /\ range.start \in Nat
  BY DEF TypeInv, RoundInv, Refused
<1>2. ASSUME NEW d \in Used
      PROVE  /\ d \in All /\ ShardStart(d) \in Nat /\ ShardCount(d) \in Nat
             /\ ShardStart(d) + ShardCount(d) <= range.count
             /\ Offsets(d) = (range.start + ShardStart(d))..(range.start + ShardStart(d) + ShardCount(d) - 1)
  <2>1. d \in All
    BY DEF Used
  <2>2. asked[d].start = range.start + ShardStart(d) /\ asked[d].count = ShardCount(d)
    BY <2>1, RequestIs DEF RoundInv
  <2> QED
    BY <1>1, <2>1, <2>2, ShardsWithin DEF Offsets, Promise!Range
<1>3. ASSUME NEW d \in All, d \notin Used PROVE Offsets(d) = {}
  <2>1. asked[d].start = 0 /\ asked[d].count = 0
    BY <1>3, RequestIs DEF RoundInv, NoRequest
  <2> QED
    BY <2>1 DEF Offsets, Promise!Range
<1>4. Promise!Range(range) = range.start..(range.start + range.count - 1)
  BY DEF Promise!Range
<1>5. ASSUME NEW d \in Used, NEW o \in Offsets(d)
      PROVE  o \in Promise!Range(range)
  <2> DEFINE a == ShardStart(d)
             n == ShardCount(d)
  <2>1. a \in Nat /\ n \in Nat /\ a + n <= range.count
        /\ o \in (range.start + a)..(range.start + a + n - 1)
    BY <1>2, <1>5
  <2>2. o \in range.start..(range.start + range.count - 1)
    <3> HIDE DEF a, n
    <3> QED
      BY <1>1, <2>1
  <2> QED
    BY <1>4, <2>2
<1>6. ASSUME NEW o \in Promise!Range(range)
      PROVE  \E d \in Used : o \in Offsets(d)
  <2>1. o - range.start \in 0..(range.count - 1) /\ o \in Nat
    BY <1>1, <1>4, <1>6
  <2>2. PICK d \in Used :
          ShardStart(d) <= o - range.start /\ o - range.start < ShardStart(d) + ShardCount(d)
    BY <1>1, <2>1, ShardsCover
  <2> DEFINE a == ShardStart(d)
             n == ShardCount(d)
  <2>3. a \in Nat /\ n \in Nat /\ a <= o - range.start /\ o - range.start < a + n
    BY <1>2, <2>2
  <2>4. o \in (range.start + a)..(range.start + a + n - 1)
    <3> HIDE DEF a, n
    <3> QED
      BY <1>1, <2>1, <2>3
  <2> QED
    BY <1>2, <2>4
<1>7. UNION {Offsets(d) : d \in All} = Promise!Range(range)
  <2>1. \A o \in UNION {Offsets(d) : d \in All} : o \in Promise!Range(range)
    BY <1>3, <1>5
  <2>2. \A o \in Promise!Range(range) : o \in UNION {Offsets(d) : d \in All}
    BY <1>2, <1>6
  <2> QED
    BY <2>1, <2>2
<1>8. ASSUME NEW d \in Used, NEW e \in Used, d < e PROVE Offsets(d) \cap Offsets(e) = {}
  <2> DEFINE a == ShardStart(d)
             n == ShardCount(d)
             b == ShardStart(e)
             m == ShardCount(e)
  <2>1. a \in Nat /\ n \in Nat /\ b \in Nat /\ m \in Nat /\ a + n <= b
    BY <1>1, <1>2, <1>8, ShardsApart
  <2>2. Offsets(d) = (range.start + a)..(range.start + a + n - 1)
        /\ Offsets(e) = (range.start + b)..(range.start + b + m - 1)
    BY <1>2
  <2> HIDE DEF a, n, b, m
  <2> QED
    BY <1>1, <2>1, <2>2
<1>9. ASSUME NEW d \in All, NEW e \in All, d # e PROVE Offsets(d) \cap Offsets(e) = {}
  <2>1. d < e \/ e < d
    BY <1>9 DEF All
  <2> QED
    BY <1>3, <1>8, <2>1
<1> QED
  BY <1>7, <1>9

\* What device d has tried in the rounds before.
Passed(d) == BandStart(d)..(next[d] - 1)
\* What it tries in this one.
Going(d) == next[d]..(next[d] + asked[d].count - 1)

\* While generate-wallet goes on no device has left its band, and the counter of attempts is
\* the number of the offsets passed.
CountInv ==
  command = "generate-wallet" /\ phase \in {"round", "joining"} =>
    /\ \A d \in All : next[d] <= d * Band + Band
    /\ attempts = Cardinality(UNION {Passed(d) : d \in All})

LEMMA BandOf ==
  ASSUME NEW b \in Nat \ {0}, NEW d \in Nat, NEW o \in Nat
  PROVE  d * b <= o /\ o < d * b + b <=> o \div b = d
<1> DEFINE q == o \div b
           r == o % b
<1>1. q \in Nat /\ r \in 0..(b - 1) /\ o = b * q + r
  BY DivMod
<1> HIDE DEF q, r
<1>2. ASSUME d * b <= o, o < d * b + b PROVE q = d
  <2>1. ASSUME q < d PROVE FALSE
    <3>1. b * q + b <= d * b
      <4>1. b * (q + 1) <= b * d
        BY <1>1, <2>1
      <4> QED
        BY <1>1, <4>1
    <3> QED
      BY <1>1, <1>2, <3>1
  <2>2. ASSUME d < q PROVE FALSE
    <3>1. d * b + b <= b * q
      <4>1. b * (d + 1) <= b * q
        BY <1>1, <2>2
      <4> QED
        BY <1>1, <4>1
    <3> QED
      BY <1>1, <1>2, <3>1
  <2> QED
    BY <1>1, <2>1, <2>2
<1>3. ASSUME q = d PROVE d * b <= o /\ o < d * b + b
  BY <1>1, <1>3
<1> QED
  BY <1>2, <1>3 DEF q

\* An offset within a band belongs to its device.
LEMMA BandHolds ==
  ASSUME NEW d \in All, NEW n \in Nat, n <= d * Band + Band, NEW o \in BandStart(d)..(n - 1)
  PROVE  o \div Band = d
<1>1. d \in Nat /\ d * Band \in Nat
  BY DEF All
<1>2. o \in Nat /\ d * Band <= o /\ o < d * Band + Band
  BY <1>1 DEF BandStart
<1> QED
  BY <1>1, <1>2, BandOf

\* A round adds the offsets it has tried, which are new.
LEMMA AdvanceCounts ==
  ASSUME FleetInv, TypeOK, CountInv, Advance
  PROVE  CountInv'
<1>1. /\ TypeInv /\ RoundInv /\ PassedInv /\ ~Refused /\ phase = "joining" /\ phase' = "round"
      /\ command = "generate-wallet" /\ UNCHANGED command /\ DOMAIN next = All
      /\ attempts' = attempts + RoundAttempts
      /\ \A d \in All : NextOffsets[d] \div Band = d
  BY DEF FleetInv, RoundInv, Advance, TypeInv, InBand
<1>2. ASSUME NEW d \in All
      PROVE  /\ d \in Nat /\ d * Band \in Nat /\ BandStart(d) = d * Band + 1 /\ BandStart(d) \in Nat
             /\ asked[d].count \in Nat /\ next[d] \in Nat /\ BandStart(d) <= next[d]
             /\ next[d] <= d * Band + Band
             /\ next'[d] = next[d] + asked[d].count /\ next'[d] \in Nat
             /\ next'[d] \div Band = d
  <2>1. asked[d].count \in Nat /\ next[d] \in Nat /\ next'[d] = next[d] + asked[d].count
        /\ next'[d] \div Band = d
    BY <1>1 DEF TypeOK, TypeInv, Advance, NextOffsets
  <2>2. d \in Nat /\ d * Band \in Nat
    BY DEF All
  <2>3. BandStart(d) <= next[d] /\ next[d] <= d * Band + Band
    BY <1>1 DEF PassedInv, CountInv
  <2>4. next[d] + asked[d].count \in Nat
    <3> DEFINE a == next[d]
               n == asked[d].count
    <3>1. a \in Nat /\ n \in Nat
      BY <2>1
    <3>2. a + n \in Nat
      <4> HIDE DEF a, n
      <4> QED
        BY <3>1
    <3> QED
      BY <3>2
  <2>5. BandStart(d) = d * Band + 1
    BY DEF BandStart
  <2>6. BandStart(d) \in Nat
    <3> DEFINE c == d * Band
    <3>1. c \in Nat
      BY <2>2
    <3>2. c + 1 \in Nat
      <4> HIDE DEF c
      <4> QED
        BY <3>1
    <3> QED
      BY <2>5, <3>2
  <2>7. next'[d] \in Nat
    BY <2>1, <2>4
  <2> QED
    BY ONLY <2>1, <2>2, <2>3, <2>5, <2>6, <2>7
<1>3. ASSUME NEW d \in All PROVE next'[d] \in Nat /\ next'[d] <= d * Band + Band
  <2>1. next'[d] \in Nat
    BY <1>2
  <2>2. next'[d] < d * Band + Band
    BY <1>2, <2>1, BandOf
  <2> QED
    BY <1>2, <2>1, <2>2
<1>4. ASSUME NEW d \in All
      PROVE  /\ IsFiniteSet(Passed(d)) /\ IsFiniteSet(Going(d))
             /\ Cardinality(Going(d)) = asked[d].count
             /\ Passed(d)' = Passed(d) \cup Going(d) /\ Passed(d) \cap Going(d) = {}
             /\ \A o \in Passed(d) \cup Going(d) : o \div Band = d
  <2> DEFINE a == next[d]
             n == asked[d].count
             b == BandStart(d)
             z == next'[d]
  <2>1. a \in Nat /\ n \in Nat /\ b \in Nat /\ z \in Nat /\ b <= a /\ z = a + n
    BY <1>2
  <2>2. Passed(d) = b..(a - 1) /\ Going(d) = a..(a + n - 1) /\ Passed(d)' = b..(z - 1)
    <3>1. BandStart(d)' = BandStart(d)
      BY DEF BandStart
    <3> QED
      BY <3>1 DEF Passed, Going
  <2>3. \A o \in b..(z - 1) : o \div Band = d
    <3>1. z \in Nat /\ z <= d * Band + Band
      BY <1>3
    <3> HIDE DEF z
    <3> QED
      BY <3>1, BandHolds
  <2> HIDE DEF a, n, b, z
  <2>4. IsFiniteSet(b..(a - 1)) /\ IsFiniteSet(a..(z - 1)) /\ Cardinality(a..(z - 1)) = n
    <3>1. b \in Int /\ a - 1 \in Int /\ a \in Int /\ z - 1 \in Int
      BY <2>1
    <3>2. /\ IsFiniteSet(b..(a - 1)) /\ IsFiniteSet(a..(z - 1))
          /\ Cardinality(a..(z - 1)) = IF a > z - 1 THEN 0 ELSE (z - 1) - a + 1
      BY ONLY <3>1, FS_Interval
    <3> QED
      BY <2>1, <3>2
  <2>5. b..(z - 1) = (b..(a - 1)) \cup (a..(z - 1)) /\ (b..(a - 1)) \cap (a..(z - 1)) = {}
    BY <2>1
  <2>6. a + n - 1 = z - 1
    BY <2>1
  <2> QED
    BY <2>2, <2>3, <2>4, <2>5, <2>6 DEF n
<1> DEFINE before == UNION {Passed(d) : d \in All}
           now == UNION {Going(d) : d \in All}
<1>5. IsFiniteSet(now) /\ Cardinality(now) = RoundAttempts
  <2> DEFINE A == [d \in All |-> Going(d)]
             g == [d \in All |-> asked[d].count]
  <2>1. PICK f : IsSum(f, g, All) /\ RoundAttempts = f[All]
    BY <1>2, RoundIs
  <2>2. SizedBy(g, A, All)
    BY <1>4 DEF SizedBy
  <2>3. Apart(A, All)
    BY <1>4 DEF Apart
  <2>4. IsFiniteSet(All)
    BY DevicesFinite DEF AllFinite
  <2>5. now = UNION {A[d] : d \in All}
    OBVIOUS
  <2> HIDE DEF A, g, now
  <2> QED
    BY <2>1, <2>2, <2>3, <2>4, <2>5, DisjointSizes
<1>6. IsFiniteSet(before)
  <2> DEFINE A == [d \in All |-> Passed(d)]
             g == [d \in All |-> Cardinality(Passed(d))]
  <2>1. IsFiniteSet(All) /\ g \in [All -> Nat]
    BY <1>4, DevicesFinite, FS_CardinalityType DEF AllFinite
  <2>2. PICK f \in [SUBSET All -> Nat] : AddingUp(f, g, All)
    <3> HIDE DEF g
    <3> QED
      BY <2>1, AddingUpExists
  <2>3. IsSum(f, g, All)
    <3> HIDE DEF g
    <3> QED
      BY <2>1, <2>2, AddingUpIsSum
  <2>4. SizedBy(g, A, All)
    BY <1>4 DEF SizedBy
  <2>5. Apart(A, All)
    BY <1>4 DEF Apart
  <2>6. before = UNION {A[d] : d \in All}
    OBVIOUS
  <2> HIDE DEF A, g, before
  <2> QED
    BY <2>1, <2>3, <2>4, <2>5, <2>6, DisjointSizes
<1>7. before \cap now = {}
  <2> SUFFICES ASSUME NEW d \in All, NEW e \in All, NEW o \in Passed(d), o \in Going(e) PROVE FALSE
    OBVIOUS
  <2>1. d = e
    BY <1>4
  <2> QED
    BY <1>4, <2>1
<1>8. UNION {Passed(d)' : d \in All} = before \cup now
  BY <1>4
<1>9. Cardinality(before \cup now) = attempts + RoundAttempts
  <2>1. attempts = Cardinality(before)
    BY <1>1 DEF CountInv
  <2>2. Cardinality(before \cup now) = Cardinality(before) + Cardinality(now) - Cardinality(before \cap now)
    <3> HIDE DEF before, now
    <3> QED
      BY <1>5, <1>6, FS_Union
  <2>3. Cardinality(before \cap now) = 0 /\ Cardinality(before) \in Nat /\ Cardinality(now) \in Nat
    <3> HIDE DEF before, now
    <3> QED
      BY <1>5, <1>6, <1>7, FS_EmptySet, FS_CardinalityType
  <2> HIDE DEF before, now
  <2> QED
    BY <1>5, <2>1, <2>2, <2>3
<1>10. (UNION {Passed(d) : d \in All})' = before \cup now
  BY <1>8
<1>11. \A d \in All : (next[d] <= d * Band + Band)'
  BY <1>3
<1> HIDE DEF before, now
<1> QED
  BY <1>1, <1>9, <1>10, <1>11 DEF CountInv

\* No candidate is tried twice and none is skipped.
THEOREM EachTriedOnce == Spec => []TriedOnce
<1>1. Init => CountInv
  <2> SUFFICES ASSUME Init
               PROVE  /\ \A d \in All : next[d] <= d * Band + Band
                      /\ attempts = Cardinality(UNION {Passed(d) : d \in All})
    BY DEF CountInv
  <2>1. ASSUME NEW d \in All PROVE next[d] <= d * Band + Band /\ Passed(d) = {}
    <3>1. d * Band \in Nat /\ next[d] = d * Band + 1 /\ BandStart(d) = d * Band + 1
      BY DEF Init, BandStart, All
    <3> QED
      BY <3>1 DEF Passed
  <2>2. UNION {Passed(d) : d \in All} = {}
    BY <2>1
  <2> QED
    BY <2>1, <2>2, FS_EmptySet DEF Init
<1>2. FleetInv /\ TypeOK /\ CountInv /\ [Next]_vars => CountInv'
  <2> SUFFICES ASSUME FleetInv, TypeOK, CountInv, [Next]_vars PROVE CountInv'
    OBVIOUS
  <2>1. CASE Advance
    BY <2>1, AdvanceCounts
  <2>2. CASE UNCHANGED <<command, next, attempts>> /\ (phase' \in {"round", "joining"} => phase \in {"round", "joining"})
    <3> SUFFICES ASSUME command = "generate-wallet", phase \in {"round", "joining"} PROVE CountInv'
      BY <2>2 DEF CountInv
    <3>1. \A d \in All : Passed(d)' = Passed(d)
      BY <2>2 DEF Passed, BandStart
    <3>2. (UNION {Passed(d) : d \in All})' = UNION {Passed(d) : d \in All}
      BY <3>1
    <3> QED
      BY <2>2, <3>2 DEF CountInv
  <2>3. CASE phase' \notin {"round", "joining"}
    BY <2>3 DEF CountInv
  <2>4. CASE Thread \/ (\E d \in All : Fork(d)) \/ Intrude \/ UNCHANGED vars \/ \E d \in All : Throw(d)
    BY <2>2, <2>4 DEF Thread, Search, Fork, Intrude, vars, Throw
  <2>5. CASE Refuse \/ Fail \/ Answer \/ GiveUp \/ Win \/ Unrecovered
    BY <2>3, <2>5 DEF Refuse, Fail, Answer, GiveUp, Win, Unrecovered
  <2>6. CASE Open \/ Write \/ Sync \/ Close \/ SpawnFails \/ WriteFails \/ Kill
    BY <2>2, <2>3, <2>6 DEF Open, Write, Sync, Close, SpawnFails, WriteFails, Kill
  <2> QED
    BY <2>1, <2>4, <2>5, <2>6 DEF Next, Main
<1>3. FleetInv /\ CountInv => TriedOnce
  <2> SUFFICES ASSUME FleetInv, CountInv PROVE TriedOnce
    OBVIOUS
  <2>1. ASSUME phase = "round", command = "generate-wallet"
        PROVE  /\ \A d \in All : \A o \in Tried(d) : o \div Band = d
               /\ attempts = Cardinality(UNION {Tried(d) : d \in All})
    <3>1. ASSUME NEW d \in All
          PROVE  Tried(d) = Passed(d) /\ \A o \in Passed(d) : o \div Band = d
      <4>1. next[d] \in Nat /\ next[d] <= d * Band + Band
        BY <2>1 DEF FleetInv, TypeInv, CountInv
      <4>2. next[d] + 0 - 1 = next[d] - 1
        BY <4>1
      <4>3. Tried(d) = Passed(d)
        BY <2>1, <4>2 DEF Tried, Passed
      <4> QED
        BY <4>1, <4>3, BandHolds DEF Passed
    <3>2. {Tried(d) : d \in All} = {Passed(d) : d \in All}
      BY <3>1
    <3> QED
      BY <2>1, <3>1, <3>2 DEF CountInv
  <2>2. phase = "joining" /\ command = "search-gpu-all" =>
          /\ UNION {Offsets(d) : d \in All} = Promise!Range(range)
          /\ \A d, e \in All : d # e => Offsets(d) \cap Offsets(e) = {}
    BY RangeDivided DEF FleetInv
  <2> QED
    BY <2>1, <2>2 DEF TriedOnce
<1> QED
  BY <1>1, <1>2, <1>3, FleetHolds, FleetTypes, PTL DEF Spec
================================================================================
