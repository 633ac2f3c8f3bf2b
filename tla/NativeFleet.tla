------------------------------- MODULE NativeFleet -------------------------------
(* The two commands of native/src/main.cpp that search on every GPU at once.     *)
(* `search-gpu-all` (search_cuda_all of cuda_runtime.cu) divides one range into  *)
(* balanced shards.  `generate-wallet` gives every device a band of offsets of   *)
(* its own, searches a chunk of each band per round until some chunk holds a     *)
(* match, and writes the recovered key to a file that must not exist.  Each      *)
(* device has a host thread; the main thread joins them all.  A device's session *)
(* answers as SearchPromise allows, which is what CudaSession keeps.             *)
EXTENDS Integers, FiniteSets, FiniteSetsExt

CONSTANTS
  Devices,        \* cuda_device_count
  ChainsOf,       \* chain_count of each device's session
  ChunkCounts,    \* values of --chunk-count
  DeviceLimit,    \* the most candidates of a device in one launch
  Band,           \* offsets of a device's band: 2^128
  Ranges,         \* ranges of scalars search-gpu-all may be asked for: [start, count]
  HitSets,        \* sets of offsets that may match, of which one is the truth
  Overlooked,     \* offsets a session may miss: the neighbours of infinity
  AttemptLimit,   \* the largest total of attempts: 2^64 - 1
  MaxFaults       \* bound on failing devices and system calls, and on foreign files

ConstantsAssumption ==
  /\ Devices \in Nat \ {0} /\ DeviceLimit \in Nat \ {0} /\ Band \in Nat \ {0}
  /\ ChainsOf \in [0..(Devices - 1) -> Nat \ {0}]
  /\ Ranges \subseteq [start : Nat, count : Nat] /\ ChunkCounts \subseteq Nat
  /\ HitSets \subseteq SUBSET Nat /\ AttemptLimit \in Nat /\ MaxFaults \in Nat
ASSUME Constants == ConstantsAssumption

All == 0..(Devices - 1)
NoRequest == [start |-> 0, count |-> 0, hits |-> {}]
Running == [kind |-> "running", offset |-> 0]
Error == [kind |-> "error", offset |-> 0]
None == [kind |-> "none", offset |-> 0]
Found(o) == [kind |-> "found", offset |-> o]

VARIABLES
  command,  \* "search-gpu-all" or "generate-wallet"
  range,    \* the range of search-gpu-all; generate-wallet's has the chunk as its count
  hits,     \* the offsets whose address matches
  phase,    \* where the main thread is: see Phases
  asked,    \* the request of each device's thread, NoRequest when it has none
  answers,  \* what each thread has stored: results, errors, or Running
  next,     \* next_offsets
  attempts, \* total_attempts
  winner,   \* the lowest result of the round, or None
  file,     \* the output path: see Files
  faults

vars == <<command, range, hits, phase, asked, answers, next, attempts, winner, file, faults>>

\* "round" is where the threads of a round are created; "opened", "written" and "synced" are the
\* steps of write_private_wallet_file; "generated", "answered" and "failed" are the ends of the
\* process that it reports itself, and "aborted" is std::terminate.
Phases == {"round", "joining", "recovering", "opened", "written", "synced",
           "generated", "answered", "failed", "aborted", "killed"}
Ended == {"generated", "answered", "failed", "aborted", "killed"}

\* "foreign" is a file this process did not create.
Files == {"absent", "foreign", "empty", "partial", "whole"}

\* A thread's request carries the truth it will be judged by.
Match(r, o) == o \in r.hits
ClearMatch(r, o) == o \in r.hits \ Overlooked
Promise == INSTANCE SearchPromise
  WITH Lines <- {}, asked <- NoRequest, told <- None,
       NobodyAsked <- NoRequest, NothingTold <- Running, Failed <- Error

--------------------------------------------------------------------------------
BandStart(d) == d * Band + 1

\* Mutant: rounded up to whole cycles.
ChunkOf_Up(d) ==
  IF range.count < 4 * ChainsOf[d] THEN range.count ELSE range.count + ChainsOf[d] - (range.count % ChainsOf[d])
\* A chunk shorter than four cycles is searched by the batched kernel, a longer one is
\* cut to whole cycles so that the chained points are reused.
ChunkOf(d) ==
  IF range.count < 4 * ChainsOf[d] THEN range.count ELSE range.count - (range.count % ChainsOf[d])

Init ==
  /\ hits \in HitSets /\ file \in {"absent", "foreign"}
  /\ \/ command = "search-gpu-all" /\ range \in Ranges
     \/ command = "generate-wallet" /\ range \in {[start |-> 0, count |-> c] : c \in ChunkCounts}
  /\ phase = "round" /\ attempts = 0 /\ winner = None /\ faults = 0
  /\ asked = [d \in All |-> NoRequest] /\ answers = [d \in All |-> None]
  /\ next = [d \in All |-> BandStart(d)]

\* No more devices than candidates, and the first `remainder` shards one longer.
Used == {d \in All : d < range.count}
ShardCount(d) ==
  range.count \div Cardinality(Used) + (IF d < range.count % Cardinality(Used) THEN 1 ELSE 0)

\* relative_start when the loop comes to a device.
RelativeStart ==
  LET before[d \in All] == IF d = 0 THEN 0 ELSE before[d - 1] + ShardCount(d - 1)
  IN  before

RequestOf(d) ==
  IF command = "generate-wallet" THEN [start |-> next[d], count |-> ChunkOf(d), hits |-> hits]
  ELSE IF d \in Used THEN [start |-> range.start + RelativeStart[d], count |-> ShardCount(d), hits |-> hits]
  ELSE NoRequest

\* An empty range or chunk is refused, and one over the limit of the devices it uses.
Refused ==
  \/ range.count = 0
  \/ command = "search-gpu-all" /\ range.count > DeviceLimit * Cardinality(Used)
  \/ command = "generate-wallet" /\ range.count > DeviceLimit

Refuse ==
  /\ phase = "round" /\ Refused /\ phase' = "failed"
  /\ UNCHANGED <<command, range, hits, asked, answers, next, attempts, winner, file, faults>>

\* The threads of the round that run or have run, and those to be created.
Created == {d \in All : asked[d] # NoRequest}
Pending == {d \in All : RequestOf(d) # NoRequest} \ Created

\* The threads are created one by one, each running from then on, and joined after the last.
Fork(d) ==
  /\ phase = "round" /\ ~Refused
  /\ d \in Pending /\ \A e \in Pending : d <= e
  /\ asked' = [asked EXCEPT ![d] = RequestOf(d)]
  /\ answers' = [answers EXCEPT ![d] = Running]
  /\ phase' = IF Pending = {d} THEN "joining" ELSE "round"
  /\ UNCHANGED <<command, range, hits, next, attempts, winner, file, faults>>

\* The constructor of a std::thread throws.  The exception is the command's error if it was the
\* first of the round; after others it destroys a vector of joinable threads: std::terminate.
SpawnFails ==
  /\ phase = "round" /\ ~Refused /\ Pending # {} /\ faults < MaxFaults
  /\ faults' = faults + 1 /\ answers' = [d \in All |-> None]
  /\ phase' = IF Created = {} THEN "failed" ELSE "aborted"
  /\ UNCHANGED <<command, range, hits, asked, next, attempts, winner, file>>

\* A thread's session answers.
Search(d) ==
  /\ answers[d] = Running
  /\ \E answer \in {None} \cup {Found(o) : o \in hits} :
       /\ Promise!True(asked[d], answer)
       /\ answers' = [answers EXCEPT ![d] = answer]
  /\ UNCHANGED <<command, range, hits, phase, asked, next, attempts, winner, file, faults>>

\* A thread's session throws; the exception is kept for the main thread.
Throw(d) ==
  /\ answers[d] = Running /\ faults < MaxFaults
  /\ faults' = faults + 1 /\ answers' = [answers EXCEPT ![d] = Error]
  /\ UNCHANGED <<command, range, hits, phase, asked, next, attempts, winner, file>>

\* Mutant: a thread that threw is waited for.
Joined_Returned == \A d \in All : answers[d] \notin {Running, Error}
\* Mutant: the first thread to throw is enough.
Joined_First == \A d \in All : answers[d] # Running \/ \E e \in All : answers[e] = Error
\* Every thread is joined before any result or error is looked at.
Joined == \A d \in All : answers[d] # Running
Rethrown == \E d \in All : answers[d] = Error

FoundOffsets == {answers[d].offset : d \in {e \in All : answers[e].kind = "found"}}

\* Mutant: the last device's result replaces an earlier one.
BestOf_Last(offsets) == Max(offsets)
BestOf(offsets) == Min(offsets)
Best == IF FoundOffsets = {} THEN None ELSE Found(BestOf(FoundOffsets))

Fail ==
  /\ phase = "joining" /\ Joined /\ Rethrown /\ phase' = "failed"
  /\ UNCHANGED <<command, range, hits, asked, answers, next, attempts, winner, file, faults>>

\* search-gpu-all prints the combined result.
Answer ==
  /\ phase = "joining" /\ Joined /\ ~Rethrown /\ command = "search-gpu-all"
  /\ winner' = Best /\ phase' = "answered"
  /\ UNCHANGED <<command, range, hits, asked, answers, next, attempts, file, faults>>

--------------------------------------------------------------------------------
(* The rounds of generate-wallet.                                               *)

RoundAttempts == FoldSet(LAMBDA d, sum : sum + asked[d].count, 0, All)
Overflows == attempts + RoundAttempts > AttemptLimit

\* Mutant: the band of an offset is not looked at.
InBand_Always(d, o) == TRUE
InBand(d, o) == o \div Band = d

NextOffsets == [d \in All |-> next[d] + asked[d].count]

\* After a round without a winner; the offsets of a device stay in its band.
Advance ==
  /\ phase = "joining" /\ Joined /\ ~Rethrown /\ command = "generate-wallet"
  /\ ~Overflows /\ Best = None
  /\ \A d \in All : InBand(d, NextOffsets[d])
  /\ attempts' = attempts + RoundAttempts /\ next' = NextOffsets /\ phase' = "round"
  /\ asked' = [d \in All |-> NoRequest] /\ answers' = [d \in All |-> None]
  /\ UNCHANGED <<command, range, hits, winner, file, faults>>

GiveUp ==
  /\ phase = "joining" /\ Joined /\ ~Rethrown /\ command = "generate-wallet"
  /\ Overflows \/ (Best = None /\ \E d \in All : ~InBand(d, NextOffsets[d]))
  /\ phase' = "failed"
  /\ UNCHANGED <<command, range, hits, asked, answers, next, attempts, winner, file, faults>>

Win ==
  /\ phase = "joining" /\ Joined /\ ~Rethrown /\ command = "generate-wallet"
  /\ ~Overflows /\ Best # None
  /\ winner' = Best /\ attempts' = attempts + RoundAttempts /\ phase' = "recovering"
  /\ UNCHANGED <<command, range, hits, asked, answers, next, file, faults>>

--------------------------------------------------------------------------------
(* The key is recovered and its address compared with the winner's, which the   *)
(* session's own verification has made true, and the file is opened with O_EXCL,*)
(* written in parts, synchronized and closed.                                   *)

\* The file exists, or the key or the file cannot be made; nothing is removed.
Unrecovered ==
  /\ phase = "recovering" /\ phase' = "failed"
  /\ \/ file # "absent" /\ UNCHANGED faults
     \/ file = "absent" /\ faults < MaxFaults /\ faults' = faults + 1
  /\ UNCHANGED <<command, range, hits, asked, answers, next, attempts, winner, file>>

\* Mutant: O_TRUNC in place of O_EXCL.
Creatable_Any == TRUE
Creatable == file = "absent"

Open ==
  /\ phase = "recovering" /\ Creatable
  /\ file' = "empty" /\ phase' = "opened"
  /\ UNCHANGED <<command, range, hits, asked, answers, next, attempts, winner, faults>>

\* A write takes a part or the rest; the loop goes on until nothing is left.
Write ==
  /\ phase = "opened"
  /\ \/ file = "empty" /\ file' = "partial" /\ UNCHANGED phase
     \/ file' = "whole" /\ phase' = "written"
  /\ UNCHANGED <<command, range, hits, asked, answers, next, attempts, winner, faults>>

Sync ==
  /\ phase = "written" /\ phase' = "synced"
  /\ UNCHANGED <<command, range, hits, asked, answers, next, attempts, winner, file, faults>>

\* The file is closed and the wallet announced.
Close ==
  /\ phase = "synced" /\ phase' = "generated"
  /\ UNCHANGED <<command, range, hits, asked, answers, next, attempts, winner, file, faults>>

\* Mutant: the file of a failed write stays.
Unlinked_Not == file
Unlinked == "absent"

\* write, fsync or close fails: the path is closed and unlinked.  Whether the unlink succeeded is
\* not looked at: one that fails as well leaves the file as it is.
WriteFails ==
  /\ phase \in {"opened", "written", "synced"} /\ phase' = "failed"
  /\ \/ faults < MaxFaults /\ faults' = faults + 1 /\ file' = Unlinked
     \/ faults + 1 < MaxFaults /\ faults' = faults + 2 /\ UNCHANGED file
  /\ UNCHANGED <<command, range, hits, asked, answers, next, attempts, winner>>

--------------------------------------------------------------------------------
\* Another process, a second generate-wallet for instance, creates the path.
Intrude ==
  /\ phase \notin Ended /\ file = "absent" /\ faults < MaxFaults
  /\ file' = "foreign" /\ faults' = faults + 1
  /\ UNCHANGED <<command, range, hits, phase, asked, answers, next, attempts, winner>>

\* The process is killed, with the file as it is.
Kill ==
  /\ phase \notin Ended /\ faults < MaxFaults
  /\ phase' = "killed" /\ faults' = faults + 1
  /\ answers' = [d \in All |-> None]
  /\ UNCHANGED <<command, range, hits, asked, next, attempts, winner, file>>

Thread == \E d \in All : Search(d)
Main == \/ Refuse \/ (\E d \in All : Fork(d)) \/ Fail \/ Answer \/ Advance \/ GiveUp \/ Win
        \/ Unrecovered \/ Open \/ Write \/ Sync \/ Close
Next == Thread \/ (\E d \in All : Throw(d)) \/ Main \/ SpawnFails \/ WriteFails \/ Intrude \/ Kill

\* Host threads are scheduled and launches end.
Fairness == WF_vars(Thread) /\ WF_vars(Main)
Spec == Init /\ [][Next]_vars /\ Fairness

--------------------------------------------------------------------------------
(* What the two commands are trusted with.                                      *)

\* Types.  A device's chunk and shard are never longer than a launch may be, and the total of
\* attempts never passes its counter.
TypeOK ==
  /\ phase \in Phases /\ file \in Files /\ faults \in 0..MaxFaults
  /\ \A d \in All : asked[d].count \in 0..DeviceLimit /\ answers[d].kind \in {"none", "found", "error", "running"}
  /\ attempts \in 0..AttemptLimit /\ winner.kind \in {"none", "found"}

Offsets(d) == Promise!Range(asked[d])

\* The offsets of device d's band that are searched, those of the round included when its
\* threads are all created.
Tried(d) == BandStart(d)..(next[d] + (IF phase = "round" THEN 0 ELSE asked[d].count) - 1)

\* What a command reports holds of everything it searched, by all the devices and in all the
\* rounds: the offset matches and no lower one that was tried is overlooked.  (search_cuda_all
\* combines the shards, generate-wallet the devices of the last round.)
ReportIsFirst ==
  phase \in {"answered", "recovering"} =>
    LET tried == IF command = "generate-wallet" THEN UNION {Tried(d) : d \in All}
                 ELSE Promise!Range(range)
        clear == (hits \ Overlooked) \cap tried
    IN  \/ winner.kind = "none" /\ clear = {} /\ command = "search-gpu-all"
        \/ /\ winner.kind = "found" /\ winner.offset \in hits \cap tried
           /\ \A o \in clear : o >= winner.offset

\* No candidate is tried twice and none is skipped: the shards of a range divide it, and while
\* generate-wallet goes on each device has tried a prefix of its own band, the counter of
\* attempts being the number of offsets in them.  (It goes on only as long as no chunk has run into
\* the next band, which is looked at after the chunk was searched.)
TriedOnce ==
  /\ phase = "joining" /\ command = "search-gpu-all" =>
       /\ UNION {Offsets(d) : d \in All} = Promise!Range(range)
       /\ \A d, e \in All : d # e => Offsets(d) \cap Offsets(e) = {}
  /\ phase = "round" /\ command = "generate-wallet" =>
       /\ \A d \in All : \A o \in Tried(d) : o \div Band = d
       /\ attempts = Cardinality(UNION {Tried(d) : d \in All})

\* A wallet is announced with the whole file on disk.  A command that answers or aborts leaves no
\* file of its own, and one that fails leaves its file only if two of its calls failed, the unlink
\* after the write; a part of a key is otherwise only left by a process killed while it writes.
FileIsWhole ==
  /\ phase = "generated" => file = "whole"
  /\ phase \in {"answered", "aborted"} => file \in {"absent", "foreign"}
  /\ phase = "failed" => file \in {"absent", "foreign"} \/ faults >= 2
  /\ file \in {"empty", "partial"} => phase \in {"opened", "failed", "killed"}

\* A file that was at the output path before is never written to nor removed.
ForeignFileKept == [][file = "foreign" => file' = "foreign"]_file

\* The command does not report a result or an error while one of its threads still runs and
\* writes into the vectors of the round: a device that throws is waited for like one that answers.
\* (A thread that cannot be created after others run is not reported; it aborts the process.)
NoThreadOutlives ==
  phase \in {"generated", "answered", "failed"} => \A d \in All : answers[d] # Running

\* The command ends: the bands are finite, whatever the devices answer.
CommandEnds == <>(phase \in Ended)
================================================================================
