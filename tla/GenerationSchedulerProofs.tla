---------------------- MODULE GenerationSchedulerProofs ----------------------
(***************************************************************************)
(* Theorems about GenerationScheduler, for any numbers of jobs and GPUs,   *)
(* any group order and any shard lengths.                                  *)
(***************************************************************************)
EXTENDS GenerationScheduler, SequenceTheorems, TLAPS

USE SizeAssumption

-----------------------------------------------------------------------------
(* What the processes remember.                                            *)

\* A new shard leaves every reference to the older ones as it is.
LEMMA Grow ==
  ASSUME NEW m \in Nat, NEW n \in Nat, m <= n
  PROVE  Memory(m) \subseteq Memory(n) /\ WorkerState(m) \subseteq WorkerState(n)
         /\ Seq(EventOf(m)) \subseteq Seq(EventOf(n))
<1>1. 1..m \subseteq 1..n /\ 0..m \subseteq 0..n
  OBVIOUS
<1>2. EventOf(m) \subseteq EventOf(n)
  BY <1>1 DEF EventOf
<1>3. CommandOf(m) \subseteq CommandOf(n)
  BY <1>1 DEF CommandOf
<1>4. Seq(EventOf(m)) \subseteq Seq(EventOf(n))
  BY <1>2, SeqMonotonic
<1>5. Seq(CommandOf(m)) \subseteq Seq(CommandOf(n))
  BY <1>3, SeqMonotonic
<1>6. WorkerState(m) \subseteq WorkerState(n)
  BY <1>1, <1>5 DEF WorkerState
<1>7. Memory(m) \subseteq Memory(n)
  BY <1>4 DEF Memory
<1>8. QED
  BY <1>4, <1>6, <1>7

\* The events a worker may emit.
LEMMA EventTyped ==
  ASSUME NEW n \in Nat
  PROVE  /\ \A type \in {"starting", "ready", "failed", "stopped"} : Event(type, 0) \in EventOf(n)
         /\ \A type \in Completion \cup {"started"}, s \in 1..n : Event(type, s) \in EventOf(n)
BY DEF EventOf

\* A worker's events are queued behind those it emitted before.
LEMMA EmitType ==
  ASSUME NEW n \in Nat, NEW g \in Gpu, NEW evs \in Seq(EventOf(n)),
         events \in [Gpu -> Seq(EventOf(n))], Emit(g, evs)
  PROVE  events' \in [Gpu -> Seq(EventOf(n))]
<1>1. events[g] \o evs \in Seq(EventOf(n))
  BY ConcatProperties
<1>2. QED
  BY <1>1 DEF Emit

\* The sequences of events the processes start from.
LEMMA EventSeqs ==
  ASSUME NEW n \in Nat
  PROVE  /\ <<>> \in Seq(EventOf(n))
         /\ \A e \in EventOf(n) : <<e>> \in Seq(EventOf(n))
         /\ \A e, f \in EventOf(n) : <<e, f>> \in Seq(EventOf(n))
OBVIOUS

\* Every process that starts or is gone remembers no shard.
LEMMA FreshType ==
  ASSUME NEW n \in Nat
  PROVE  Fresh \in WorkerState(n) /\ Gone \in WorkerState(n)
<1>1. <<>> \in Seq(CommandOf(n))
  OBVIOUS
<1>2. QED
  BY <1>1 DEF Fresh, Gone, WorkerState

LEMMA DownType ==
  ASSUME NEW n \in Nat,
         NEW error \in {"none", "duplicate_range", "already_assigned", "not_alive"}
  PROVE  Down(error) \in Memory(n)
<1>1. [g \in Gpu |-> <<>>] \in [Gpu -> Seq(EventOf(n))]
  BY EventSeqs
<1>2. QED
  BY <1>1 DEF Down, Memory

\* The number of shards is a natural number, and shards are numbered from 1.
LEMMA ShardsType ==
  ASSUME TypeOK
  PROVE  /\ Len(shards) \in Nat /\ DOMAIN shards = 1..Len(shards)
         /\ \A i \in DOMAIN shards : shards[i] \in Shard
BY LenProperties, ElementOfSeq DEF TypeOK

\* TypeOK speaks of the memory only in what MemoryOK says already.
LEMMA MemoryTyped ==
  ASSUME MemoryOK
  PROVE  /\ sched.active \in 0..Jobs /\ sched.draining \in 0..Jobs /\ sched.idle \subseteq Gpu
         /\ \A g \in Gpu : worker[g].shard \in 0..Len(shards)
BY DEF MemoryOK, Memory, WorkerState

-----------------------------------------------------------------------------
(* The table.                                                              *)

\* What a write of a job's row keeps: a result, and the place of the next range unless
\* the job is put back to its origin.
Continues(new, old) ==
  /\ new.next \in {old.next, 0}
  /\ old.result => new.result

\* The writes of a job's row that are not allocations.
LEMMA StatusSet ==
  ASSUME NEW r \in JobRow, NEW s \in {"absent"} \cup Accepting \cup Settled
  PROVE  \A new \in {[r EXCEPT !.status = s], [r EXCEPT !.late = TRUE],
                     [r EXCEPT !.status = s, !.result = TRUE],
                     [r EXCEPT !.status = s, !.next = 0, !.late = FALSE]} :
           new \in JobRow /\ Continues(new, r)
<1>1. /\ [r EXCEPT !.status = s] \in JobRow
      /\ [r EXCEPT !.status = s].next = r.next /\ [r EXCEPT !.status = s].result = r.result
  BY DEF JobRow
<1>2. /\ [r EXCEPT !.late = TRUE] \in JobRow
      /\ [r EXCEPT !.late = TRUE].next = r.next /\ [r EXCEPT !.late = TRUE].result = r.result
  BY DEF JobRow
<1>3. [r EXCEPT !.status = s, !.result = TRUE] \in JobRow
      /\ [r EXCEPT !.status = s, !.result = TRUE].next = r.next
      /\ [r EXCEPT !.status = s, !.result = TRUE].result
  BY DEF JobRow
<1>4. /\ [r EXCEPT !.status = s, !.next = 0, !.late = FALSE] \in JobRow
      /\ [r EXCEPT !.status = s, !.next = 0, !.late = FALSE].next = 0
      /\ [r EXCEPT !.status = s, !.next = 0, !.late = FALSE].result = r.result
  <2>1. 0 \in 0..Order
    OBVIOUS
  <2>2. QED
    BY <2>1 DEF JobRow
<1>5. QED
  BY <1>1, <1>2, <1>3, <1>4 DEF Continues

\* A write of one job's row.
LEMMA JobSet ==
  ASSUME NEW f \in [Job -> JobRow], NEW j \in Job, NEW r \in JobRow, Continues(r, f[j])
  PROVE  /\ [f EXCEPT ![j] = r] \in [Job -> JobRow]
         /\ \A i \in Job : Continues([f EXCEPT ![j] = r][i], f[i])
<1>1. \A i \in Job : [f EXCEPT ![j] = r][i] = IF i = j THEN r ELSE f[i]
  OBVIOUS
<1>2. \A i \in Job : Continues(f[i], f[i])
  BY DEF Continues
<1>3. QED
  BY <1>1, <1>2

\* A step that adds no shard, moves no range, sends a job at most back to its origin and
\* finds no shard of a job without a result keeps what is said of the table.
LEMMA TableKept ==
  ASSUME TypeOK, OriginTaken, NextIsFree, ShardsDisjoint, FoundHasResult,
         DOMAIN shards' = DOMAIN shards,
         \A i \in DOMAIN shards :
           /\ shards'[i].job = shards[i].job
           /\ shards'[i].start = shards[i].start /\ shards'[i].count = shards[i].count
           /\ shards'[i].status = "found" =>
                shards[i].status = "found" \/ job'[shards[i].job].result,
         \A j \in Job : Continues(job'[j], job[j])
  PROVE  OriginTaken' /\ NextIsFree' /\ ShardsDisjoint' /\ FoundHasResult'
<1>1. \A i \in DOMAIN shards : shards[i].job \in Job
  BY ShardsType DEF Shard
<1>2. OriginTaken'
  BY DEF OriginTaken, Continues
<1>3. NextIsFree'
  BY <1>1 DEF NextIsFree, Continues
<1>4. ShardsDisjoint'
  BY DEF ShardsDisjoint
<1>5. FoundHasResult'
  BY <1>1 DEF FoundHasResult, Continues
<1>6. QED
  BY <1>2, <1>3, <1>4, <1>5

\* What is left of the workers of killed schedulers searches shards that exist.
LEMMA OrphansKept ==
  ASSUME TypeOK, UNCHANGED orphans, faults'.kills = faults.kills,
         DOMAIN shards \subseteq DOMAIN shards'
  PROVE  orphans' \subseteq DOMAIN shards' /\ (faults'.kills = 0 => orphans' = {})
BY DEF TypeOK

\* A step of the workers, or of the scheduler's memory alone.
LEMMA TableUnchanged ==
  ASSUME IInv, UNCHANGED <<job, shards>>
  PROVE  OriginTaken' /\ NextIsFree' /\ ShardsDisjoint' /\ FoundHasResult'
BY TableKept DEF IInv, Continues

\* A handler or a scheduler transaction that writes the rows of jobs.
LEMMA JobsWritten ==
  ASSUME IInv, UNCHANGED shards,
         \A j \in Job : Continues(job'[j], job[j])
  PROVE  OriginTaken' /\ NextIsFree' /\ ShardsDisjoint' /\ FoundHasResult'
BY TableKept DEF IInv

-----------------------------------------------------------------------------
(* The initial state.                                                      *)

LEMMA InitInv == Init => IInv
<1> SUFFICES ASSUME Init PROVE IInv
  OBVIOUS
<1>1. Len(shards) = 0 /\ DOMAIN shards = {} /\ shards \in Seq(Shard)
  BY DEF Init
<1>2. MemoryOK
  <2>1. sched \in Memory(0)
    BY DownType DEF Init
  <2>2. worker \in [Gpu -> WorkerState(0)]
    BY FreshType DEF Init
  <2>3. events \in [Gpu -> Seq(EventOf(0))]
    BY EventSeqs DEF Init
  <2>4. QED
    BY <1>1, <2>1, <2>2, <2>3 DEF MemoryOK, Coherent, Init, Down, Gone
<1>3. TypeOK
  BY <1>1, <1>2, MemoryTyped DEF TypeOK, JobRow, Init, Job, Accepting
<1>4. OriginTaken /\ NextIsFree /\ ShardsDisjoint /\ FoundHasResult
  BY <1>1 DEF OriginTaken, NextIsFree, ShardsDisjoint, FoundHasResult, Init
<1>5. QED
  BY <1>2, <1>3, <1>4 DEF IInv

-----------------------------------------------------------------------------
(* The API.                                                                *)

LEMMA ApiInv ==
  ASSUME IInv, NEW j \in Job,
         Create(j) \/ CancelRead(j) \/ CancelWrite(j) \/ Submit(j) \/ Deadline(j)
  PROVE  IInv'
<1> USE DEF Create, CancelRead, CancelWrite, Submit, Deadline, Called
<1>1. UNCHANGED <<shards, device, orphans, sched, held, worker, events>>
  BY DEF dbvars
<1>2. MemoryOK'
  BY <1>1 DEF IInv, MemoryOK
<1>3. job' \in [Job -> JobRow] /\ \A i \in Job : Continues(job'[i], job[i])
  <2>1. job \in [Job -> JobRow] /\ job[j] \in JobRow
    BY DEF IInv, TypeOK
  <2>2. CASE Create(j) \/ CancelWrite(j)
    <3>1. PICK s \in {"queued", "canceled"} : job' = [job EXCEPT ![j].status = s]
      BY <2>2
    <3> DEFINE r == [job[j] EXCEPT !.status = s]
    <3>2. r \in JobRow /\ Continues(r, job[j])
      BY <2>1, StatusSet DEF Accepting, Settled
    <3>3. job' = [job EXCEPT ![j] = r]
      BY <3>1
    <3> HIDE DEF r
    <3>4. QED
      BY <2>1, <3>2, <3>3, JobSet
  <2>3. CASE CancelRead(j)
    BY <2>1, <2>3 DEF dbvars, Continues
  <2>4. CASE Submit(j)
    <3>1. job' = [job EXCEPT ![j] = [job[j] EXCEPT !.status = "ready", !.result = TRUE]]
      BY <2>4
    <3> DEFINE r == [job[j] EXCEPT !.status = "ready", !.result = TRUE]
    <3>2. r \in JobRow /\ Continues(r, job[j])
      BY <2>1, StatusSet DEF Settled
    <3>3. job' = [job EXCEPT ![j] = r]
      BY <3>1
    <3> HIDE DEF r
    <3>4. QED
      BY <2>1, <3>2, <3>3, JobSet
  <2>5. CASE Deadline(j)
    <3>1. job' = [job EXCEPT ![j] = [job[j] EXCEPT !.late = TRUE]]
      BY <2>5
    <3> DEFINE r == [job[j] EXCEPT !.late = TRUE]
    <3>2. r \in JobRow /\ Continues(r, job[j])
      BY <2>1, StatusSet
    <3>3. job' = [job EXCEPT ![j] = r]
      BY <3>1
    <3> HIDE DEF r
    <3>4. QED
      BY <2>1, <3>2, <3>3, JobSet
  <2>6. QED
    BY <2>2, <2>3, <2>4, <2>5
<1>4. TypeOK'
  <2>1. cancel' \subseteq Job
    BY DEF IInv, TypeOK
  <2>2. faults' \in [kills : 0..MaxKills, stops : 0..MaxStops,
                 deaths : 0..MaxDeaths, calls : 0..MaxCalls]
    <3>1. \/ faults' = [faults EXCEPT !.calls = faults.calls + 1] /\ faults.calls < MaxCalls
          \/ UNCHANGED faults
      OBVIOUS
    <3>2. faults.calls < MaxCalls => faults.calls + 1 \in 0..MaxCalls
      BY SMTT(20) DEF IInv, TypeOK
    <3>3. QED
      BY <3>1, <3>2 DEF IInv, TypeOK
  <2>3. orphans' \subseteq DOMAIN shards' /\ (faults'.kills = 0 => orphans' = {})
    <3>1. faults'.kills = faults.kills
      BY DEF IInv, TypeOK
    <3>2. QED
      BY <1>1, <3>1, OrphansKept DEF IInv
  <2>4. QED
    BY <1>1, <1>3, <2>1, <2>2, <2>3 DEF IInv, TypeOK
<1>5. OriginTaken' /\ NextIsFree' /\ ShardsDisjoint' /\ FoundHasResult'
  BY <1>1, <1>3, JobsWritten
<1>6. QED
  BY <1>2, <1>4, <1>5 DEF IInv

-----------------------------------------------------------------------------
(* The workers.                                                            *)

\* A step of one worker: it changes state, emits events and may count a death.
LEMMA WorkerStep ==
  ASSUME IInv, NEW g \in Gpu, NEW w \in WorkerState(Len(shards)), w.pc = "busy" => w.shard # 0,
         worker' = [worker EXCEPT ![g] = w],
         events' \in [Gpu -> Seq(EventOf(Len(shards)))],
         \/ UNCHANGED faults
         \/ faults.deaths < MaxDeaths /\ faults' = [faults EXCEPT !.deaths = @ + 1],
         UNCHANGED dbvars, UNCHANGED cancel, UNCHANGED orphans, UNCHANGED sched, UNCHANGED held
  PROVE  IInv'
<1>1. UNCHANGED <<job, shards, device, cancel, orphans, sched, held>>
  BY DEF dbvars
<1>2. MemoryOK'
  BY <1>1 DEF IInv, MemoryOK
<1>3. faults' \in [kills : 0..MaxKills, stops : 0..MaxStops,
                 deaths : 0..MaxDeaths, calls : 0..MaxCalls]
  <2>1. faults.deaths < MaxDeaths => faults.deaths + 1 \in 0..MaxDeaths
    BY SMTT(20) DEF IInv, TypeOK
  <2>2. QED
    BY <2>1 DEF IInv, TypeOK
<1>4. \A h \in Gpu : worker'[h].shard \in 0..Len(shards)
  BY <1>1, <1>2 DEF MemoryOK, WorkerState
<1>5. orphans' \subseteq DOMAIN shards' /\ (faults'.kills = 0 => orphans' = {})
  <2>1. faults'.kills = faults.kills
    BY DEF IInv, TypeOK
  <2>2. QED
    BY <1>1, <2>1, OrphansKept DEF IInv
<1>6. TypeOK'
  BY <1>1, <1>3, <1>4, <1>5 DEF IInv, TypeOK
<1>7. QED
  BY <1>1, <1>2, <1>6, TableUnchanged DEF IInv

LEMMA BootInv ==
  ASSUME IInv, NEW g \in Gpu, Boot(g) \/ Ready(g) \/ SelfTest(g) \/ Die(g)
  PROVE  IInv'
<1> DEFINE n == Len(shards)
<1>1. n \in Nat /\ worker[g] \in WorkerState(n) /\ events \in [Gpu -> Seq(EventOf(n))]
  BY ShardsType DEF IInv, MemoryOK
<1>2. \A evs \in Seq(EventOf(n)) : Emit(g, evs) => events' \in [Gpu -> Seq(EventOf(n))]
  BY <1>1, EmitType
<1>3. ASSUME NEW pc \in {"testing", "idle"}, NEW type \in {"starting", "ready"},
             worker' = [worker EXCEPT ![g].pc = pc], Emit(g, <<Event(type, 0)>>),
             UNCHANGED <<dbvars, cancel, orphans, sched, held, faults>>
      PROVE  IInv'
  <2> DEFINE w == [worker[g] EXCEPT !.pc = pc]
  <2>1. w \in WorkerState(n) /\ w.pc # "busy"
    BY <1>1 DEF WorkerState
  <2>2. worker' = [worker EXCEPT ![g] = w]
    BY <1>3
  <2>3. <<Event(type, 0)>> \in Seq(EventOf(n))
    BY <1>1, EventTyped, EventSeqs
  <2>4. QED
    <3> HIDE DEF w
    <3>1. QED
      BY <1>2, <1>3, <2>1, <2>2, <2>3, WorkerStep
<1>4. ASSUME worker' = [worker EXCEPT ![g] = Gone], faults.deaths < MaxDeaths,
             faults' = [faults EXCEPT !.deaths = @ + 1],
             Emit(g, <<Event("failed", 0), Event("stopped", 0)>>) \/ UNCHANGED events,
             UNCHANGED <<dbvars, cancel, orphans, sched, held>>
      PROVE  IInv'
  <2>1. Gone \in WorkerState(n) /\ Gone.pc # "busy"
    BY <1>1, FreshType DEF Gone
  <2>2. <<Event("failed", 0), Event("stopped", 0)>> \in Seq(EventOf(n))
    BY <1>1, EventTyped, EventSeqs
  <2>3. events' \in [Gpu -> Seq(EventOf(n))]
    BY <1>1, <1>2, <1>4, <2>2
  <2>4. QED
    BY <1>4, <2>1, <2>3, WorkerStep
<1>5. QED
  BY <1>3, <1>4 DEF Boot, Ready, SelfTest, Die

LEMMA ReportInv ==
  ASSUME IInv, NEW g \in Gpu, NEW type \in Completion, NEW rest \in Seq(CommandOf(Len(shards))),
         worker[g].pc = "busy", Report(g, type, rest)
  PROVE  IInv'
<1> DEFINE n == Len(shards)
           w == [pc |-> "reported", shard |-> 0, commands |-> rest]
<1>1. n \in Nat /\ worker[g] \in WorkerState(n) /\ events \in [Gpu -> Seq(EventOf(n))]
      /\ worker[g].shard # 0
  BY ShardsType DEF IInv, MemoryOK
<1>2. w \in WorkerState(n)
  BY <1>1 DEF WorkerState
<1>3. Event(type, worker[g].shard) \in EventOf(n)
  <2>1. worker[g].shard \in 1..n
    BY <1>1 DEF WorkerState
  <2>2. QED
    BY <1>1, <2>1, EventTyped
<1>4. events' \in [Gpu -> Seq(EventOf(n))]
  BY <1>1, <1>3, EventSeqs, EmitType DEF Report
<1>5. QED
  BY <1>2, <1>4, WorkerStep DEF Report

LEMMA CommandInv ==
  ASSUME IInv, NEW g \in Gpu, Take(g) \/ Search(g) \/ DrainCommands(g)
  PROVE  IInv'
<1> DEFINE n == Len(shards)
           cs == worker[g].commands
           rest == Tail(cs)
<1>1. n \in Nat /\ worker[g] \in WorkerState(n) /\ events \in [Gpu -> Seq(EventOf(n))]
  BY ShardsType DEF IInv, MemoryOK
<1>2. cs \in Seq(CommandOf(n)) /\ <<>> \in Seq(CommandOf(n))
  BY <1>1 DEF WorkerState
<1>3. CASE Take(g)
  <2> DEFINE c == Head(cs)
  <2>1. cs # <<>> /\ UNCHANGED <<dbvars, cancel, orphans, sched, held, faults>>
        /\ worker[g].pc = "idle"
    BY <1>3 DEF Take
  <2>2. c \in CommandOf(n) /\ rest \in Seq(CommandOf(n))
    BY <1>2, <2>1, HeadTailProperties
  <2>3. CASE c.kind = "assignment"
    <3> DEFINE w == [pc |-> "busy", shard |-> c.of, commands |-> rest]
    <3>1. c.of \in 1..n
      BY <2>2, <2>3 DEF CommandOf, Assignment, CancelJob
    <3>2. w \in WorkerState(n) /\ w.shard # 0
      BY <2>2, <3>1 DEF WorkerState
    <3>3. Event("started", c.of) \in EventOf(n)
      BY <1>1, <3>1, EventTyped
    <3>4. worker' = [worker EXCEPT ![g] = w] /\ Emit(g, <<Event("started", c.of)>>)
      BY <1>3, <2>3 DEF Take
    <3>5. events' \in [Gpu -> Seq(EventOf(n))]
      BY <1>1, <3>3, <3>4, EventSeqs, EmitType
    <3> HIDE DEF w
    <3>6. QED
      BY <2>1, <3>2, <3>4, <3>5, WorkerStep
  <2>4. CASE c.kind # "assignment"
    <3> DEFINE w == [worker[g] EXCEPT !.commands = rest]
    <3>1. w \in WorkerState(n) /\ w.pc # "busy"
      BY <1>1, <2>1, <2>2 DEF WorkerState
    <3>2. worker' = [worker EXCEPT ![g] = w] /\ UNCHANGED events
      BY <1>3, <2>4 DEF Take
    <3> HIDE DEF w
    <3>3. QED
      BY <1>1, <2>1, <3>1, <3>2, WorkerStep
  <2>5. QED
    BY <2>3, <2>4
<1>4. CASE Search(g)
  BY <1>2, <1>4, ReportInv DEF Search, Completion
<1>5. CASE DrainCommands(g)
  <2>1. worker[g].pc = "busy"
    BY <1>5 DEF DrainCommands
  <2>2. CASE \E type \in {"failed", "canceled"} : Report(g, type, <<>>)
    BY <1>2, <2>1, <2>2, ReportInv DEF Completion
  <2>3. CASE worker' = [worker EXCEPT ![g].commands = <<>>]
             /\ UNCHANGED <<dbvars, cancel, orphans, sched, held, events, faults>>
    <3> DEFINE w == [worker[g] EXCEPT !.commands = <<>>]
    <3>1. w \in WorkerState(n) /\ (w.pc = "busy" => w.shard # 0)
      BY <1>1, <1>2 DEF WorkerState, IInv, MemoryOK
    <3>2. worker' = [worker EXCEPT ![g] = w]
      BY <2>3
    <3> HIDE DEF w
    <3>3. QED
      BY <1>1, <2>3, <3>1, <3>2, WorkerStep
  <2>4. QED
    BY <1>5, <2>2, <2>3 DEF DrainCommands
<1>6. QED
  BY <1>3, <1>4, <1>5

-----------------------------------------------------------------------------
(* The scheduler's memory.                                                 *)

\* A step of the scheduler that leaves the table alone.
LEMMA MemoryStep ==
  ASSUME IInv, UNCHANGED job, UNCHANGED shards, UNCHANGED cancel, MemoryOK',
         held' \in [Gpu -> 0..Len(shards)],
         device' \in [Gpu -> {"offline", "starting", "ready", "searching", "unhealthy"}],
         \/ UNCHANGED <<faults, orphans>>
         \/ /\ faults.stops < MaxStops /\ faults' = [faults EXCEPT !.stops = @ + 1]
            /\ UNCHANGED orphans
         \/ /\ faults.kills < MaxKills /\ faults' = [faults EXCEPT !.kills = @ + 1]
            /\ orphans' \subseteq DOMAIN shards
  PROVE  IInv'
<1>1. faults' \in [kills : 0..MaxKills, stops : 0..MaxStops,
                 deaths : 0..MaxDeaths, calls : 0..MaxCalls]
  <2>1. faults.kills < MaxKills => faults.kills + 1 \in 0..MaxKills
    BY SMTT(20) DEF IInv, TypeOK
  <2>2. faults.stops < MaxStops => faults.stops + 1 \in 0..MaxStops
    BY SMTT(20) DEF IInv, TypeOK
  <2>3. QED
    BY <2>1, <2>2 DEF IInv, TypeOK
<1>2. /\ sched'.active \in 0..Jobs /\ sched'.draining \in 0..Jobs /\ sched'.idle \subseteq Gpu
      /\ \A g \in Gpu : worker'[g].shard \in 0..Len(shards)
  BY DEF MemoryOK, Memory, WorkerState
<1>3. orphans' \subseteq DOMAIN shards' /\ (faults'.kills = 0 => orphans' = {})
  <2>1. CASE UNCHANGED orphans /\ faults'.kills = faults.kills
    BY <2>1, OrphansKept DEF IInv
  <2>2. CASE orphans' \subseteq DOMAIN shards /\ faults'.kills = faults.kills + 1
    BY <2>2 DEF IInv, TypeOK
  <2>3. QED
    BY <2>1, <2>2 DEF IInv, TypeOK
<1>4. TypeOK'
  BY <1>1, <1>2, <1>3 DEF IInv, TypeOK
<1>5. QED
  BY <1>4, TableUnchanged DEF IInv

\* When the process ends nothing is remembered.
LEMMA ForgottenType ==
  ASSUME Len(shards') \in Nat,
         NEW error \in {"none", "duplicate_range", "already_assigned", "not_alive"},
         Forgotten(error)
  PROVE  MemoryOK' /\ held' \in [Gpu -> 0..Len(shards')]
<1>1. sched' \in Memory(Len(shards')) /\ Coherent(sched')
  <2>1. Coherent(Down(error))
    BY DEF Down, Coherent
  <2>2. QED
    BY <2>1, DownType DEF Forgotten
<1>2. worker' \in [Gpu -> WorkerState(Len(shards'))] /\ \A g \in Gpu : worker'[g].pc # "busy"
  BY FreshType DEF Forgotten, Gone
<1>3. events' \in [Gpu -> Seq(EventOf(Len(shards')))]
  BY EventSeqs DEF Forgotten
<1>4. QED
  BY <1>1, <1>2, <1>3 DEF Forgotten, MemoryOK

LEMMA EndsType ==
  ASSUME Len(shards') \in Nat,
         NEW error \in {"none", "duplicate_range", "already_assigned", "not_alive"}, Ends(error)
  PROVE  /\ MemoryOK' /\ held' \in [Gpu -> 0..Len(shards')]
         /\ device' \in [Gpu -> {"offline", "starting", "ready", "searching", "unhealthy"}]
BY ForgottenType DEF Ends

\* What a killed scheduler leaves behind are shards of the table.
LEMMA GivenType ==
  ASSUME IInv, Kill
  PROVE  orphans' \subseteq DOMAIN shards
BY DEF Kill, Given, IInv, TypeOK

LEMMA StartInv ==
  ASSUME IInv, Start \/ Exit \/ Kill
  PROVE  IInv'
<1>1. CASE Start
  <2>1. sched' \in Memory(Len(shards)) /\ Coherent(sched')
    <3>1. {j \in Job : job[j].status = "searching"} \subseteq Nat
      BY DEF Job
    <3>2. QED
      BY <1>1, <3>1 DEF Start, IInv, MemoryOK, Memory, Coherent
  <2>2. MemoryOK'
    BY <1>1, <2>1 DEF Start, IInv, MemoryOK, dbvars
  <2>3. QED
    BY <1>1, <2>2, MemoryStep DEF Start, IInv, TypeOK, dbvars
<1>2. CASE Exit
  <2>1. /\ UNCHANGED <<job, shards, cancel, orphans>> /\ Len(shards') \in Nat
        /\ Forgotten("none")
        /\ device' \in [Gpu -> {"offline", "starting", "ready", "searching", "unhealthy"}]
    BY <1>2, ShardsType DEF Exit, Ends, IInv, TypeOK
  <2>2. QED
    BY <1>2, <2>1, ForgottenType, MemoryStep DEF Exit
<1>3. CASE Kill
  <2>1. UNCHANGED <<job, shards, device, cancel>> /\ Len(shards') \in Nat /\ Forgotten("none")
    BY <1>3, ShardsType DEF Kill, IInv, dbvars
  <2>2. QED
    BY <1>3, <2>1, GivenType, ForgottenType, MemoryStep DEF Kill, IInv, TypeOK
<1>4. QED
  BY <1>1, <1>2, <1>3

\* A worker that a killed scheduler left behind ends.
LEMMA OrphanInv ==
  ASSUME IInv, NEW s \in orphans, OrphanEnds(s)
  PROVE  IInv'
<1>1. UNCHANGED <<job, shards, device, cancel, sched, held, worker, events, faults>>
  BY DEF OrphanEnds, dbvars
<1>2. TypeOK' /\ MemoryOK'
  BY <1>1 DEF OrphanEnds, IInv, TypeOK, MemoryOK
<1>3. QED
  BY <1>1, <1>2, TableUnchanged DEF IInv

LEMMA PollInv ==
  ASSUME IInv, Poll
  PROVE  IInv'
<1>1. sched' \in Memory(Len(shards)) /\ Coherent(sched')
  BY DEF Poll, IInv, MemoryOK, Memory, Coherent
<1>2. events' \in [Gpu -> Seq(EventOf(Len(shards)))]
  BY EventSeqs, ShardsType DEF Poll, IInv
<1>3. MemoryOK'
  BY <1>1, <1>2 DEF Poll, IInv, MemoryOK, dbvars
<1>4. held' \in [Gpu -> 0..Len(shards)]
  BY ShardsType DEF Poll, IInv, TypeOK
<1>5. QED
  BY <1>3, <1>4, MemoryStep DEF Poll, IInv, TypeOK, dbvars

LEMMA RestartDeadInv ==
  ASSUME IInv, RestartDead
  PROVE  IInv'
<1> DEFINE n == Len(shards)
           Failure(g) == IF g \in {h \in Gpu : worker[h].pc = "dead"} /\ held[g] # 0
                           THEN <<Event("failed", held[g])>> ELSE <<>>
<1>1. n \in Nat
  BY ShardsType DEF IInv
<1>2. \A g \in Gpu : Failure(g) \in Seq(EventOf(n))
  <2>1. \A g \in Gpu : held[g] # 0 => held[g] \in 1..n
    BY <1>1 DEF IInv, TypeOK
  <2>2. \A g \in Gpu : held[g] # 0 => Event("failed", held[g]) \in EventOf(n)
    BY <1>1, <2>1, EventTyped DEF Completion
  <2>3. QED
    BY <1>1, <2>2, EventSeqs
<1>3. [g \in Gpu |-> sched.inbox[g] \o Failure(g)] \in [Gpu -> Seq(EventOf(n))]
  <2> HIDE DEF Failure
  <2>1. \A g \in Gpu : sched.inbox[g] \in Seq(EventOf(n))
    BY DEF IInv, MemoryOK, Memory
  <2>2. QED
    BY <1>2, <2>1, ConcatProperties
<1>4. sched' \in Memory(n) /\ Coherent(sched')
  <2>1. sched' = [sched EXCEPT !.pc = "handle",
                               !.inbox = [g \in Gpu |-> sched.inbox[g] \o Failure(g)]]
    BY DEF RestartDead
  <2> HIDE DEF Failure
  <2>2. QED
    BY <1>3, <2>1 DEF IInv, MemoryOK, Memory, Coherent
<1>5. worker' \in [Gpu -> WorkerState(n)]
      /\ \A g \in Gpu : worker'[g].pc = "busy" => worker'[g].shard # 0
  <2>1. Fresh \in WorkerState(n) /\ Fresh.pc # "busy"
    BY <1>1, FreshType DEF Fresh
  <2>2. \A g \in Gpu : worker'[g] \in {Fresh, worker[g]}
    BY DEF RestartDead
  <2>3. worker' = [g \in Gpu |-> worker'[g]]
    BY DEF RestartDead
  <2>4. QED
    BY <2>1, <2>2, <2>3 DEF IInv, MemoryOK
<1>6. MemoryOK'
  BY <1>4, <1>5 DEF RestartDead, IInv, MemoryOK, dbvars
<1>7. held' \in [Gpu -> 0..n]
  BY <1>1 DEF RestartDead, IInv, TypeOK
<1>8. QED
  BY <1>6, <1>7, MemoryStep DEF RestartDead, IInv, TypeOK, dbvars

-----------------------------------------------------------------------------
(* The end of a job, and the claim of the next one.                        *)

\* A step of the scheduler that writes a job's row and no other.
LEMMA JobStep ==
  ASSUME IInv, UNCHANGED shards, UNCHANGED device, UNCHANGED cancel, UNCHANGED orphans, UNCHANGED faults,
         UNCHANGED held, MemoryOK', job' \in [Job -> JobRow],
         \A j \in Job : Continues(job'[j], job[j])
  PROVE  IInv'
<1>1. /\ sched'.active \in 0..Jobs /\ sched'.draining \in 0..Jobs /\ sched'.idle \subseteq Gpu
      /\ \A g \in Gpu : worker'[g].shard \in 0..Len(shards)
  BY DEF MemoryOK, Memory, WorkerState
<1>2. orphans' \subseteq DOMAIN shards' /\ (faults'.kills = 0 => orphans' = {})
  BY OrphansKept DEF IInv
<1>3. TypeOK'
  BY <1>1, <1>2 DEF IInv, TypeOK
<1>4. QED
  BY <1>3, JobsWritten DEF IInv

\* The memory with another active or draining job.
LEMMA ActiveSet ==
  ASSUME NEW n \in Nat, NEW s \in Memory(n), NEW a \in 0..Jobs, NEW d \in 0..Jobs
  PROVE  /\ [s EXCEPT !.active = a] \in Memory(n)
         /\ [s EXCEPT !.draining = d] \in Memory(n)
         /\ [s EXCEPT !.active = a, !.draining = d] \in Memory(n)
BY DEF Memory

LEMMA OnwardType ==
  ASSUME NEW n \in Nat, NEW s \in Memory(n)
  PROVE  Onward(s) \in Memory(n) /\ Coherent(Onward(s))
<1>1. /\ s.idle \subseteq Gpu /\ s.idle \subseteq Nat
  BY DEF Memory, Gpu
<1>2. CASE s.active = 0 /\ s.draining = 0 /\ Drained(s.idle)
  <2>1. Onward(s) = [s EXCEPT !.pc = "claim"]
    BY <1>2 DEF Onward
  <2>2. QED
    BY <2>1 DEF Memory, Coherent
<1>3. CASE ~(s.active = 0 /\ s.draining = 0 /\ Drained(s.idle))
           /\ (s.active = 0 \/ s.draining # 0 \/ s.idle = {})
  <2>1. Onward(s) = [s EXCEPT !.pc = "poll"]
    BY <1>3 DEF Onward
  <2>2. QED
    BY <2>1 DEF Memory, Coherent
<1>4. CASE ~(s.active = 0 \/ s.draining # 0 \/ s.idle = {})
  <2>1. Onward(s) = [s EXCEPT !.pc = "fill", !.pending = s.idle]
    BY <1>4 DEF Onward
  <2>2. QED
    BY <1>1, <1>4, <2>1 DEF Memory, Coherent
<1>5. QED
  BY <1>2, <1>3, <1>4

LEMMA StopActiveType ==
  ASSUME IInv, StopActive, sched.active # 0, UNCHANGED shards, UNCHANGED events
  PROVE  MemoryOK'
<1> DEFINE n == Len(shards)
           after == [sched EXCEPT !.active = 0,
                       !.draining = IF Drained(sched.idle) THEN 0 ELSE sched.active]
<1>1. n \in Nat /\ sched \in Memory(n) /\ sched.active \in Job
  BY ShardsType DEF IInv, MemoryOK, Memory, Job
<1>2. sched' \in Memory(n) /\ Coherent(sched')
  <2>1. after \in Memory(n)
    <3>1. 0 \in 0..Jobs /\ (IF Drained(sched.idle) THEN 0 ELSE sched.active) \in 0..Jobs
      BY <1>1 DEF Job
    <3>2. QED
      BY <1>1, <3>1, ActiveSet
  <2>2. sched' = Onward(after)
    BY DEF StopActive
  <2>3. QED
    <3> HIDE DEF after
    <3>1. QED
      BY <1>1, <2>1, <2>2, OnwardType
<1>3. worker' \in [Gpu -> WorkerState(n)]
      /\ \A g \in Gpu : worker'[g].pc = "busy" => worker'[g].shard # 0
  <2> DEFINE Told(g) == [worker[g] EXCEPT !.commands = Append(@, CancelJob(sched.active))]
  <2>1. \A g \in Gpu : worker[g] \in WorkerState(n)
    BY DEF IInv, MemoryOK
  <2>2. ASSUME NEW g \in Gpu
        PROVE  /\ Told(g) \in WorkerState(n)
               /\ Told(g).pc = worker[g].pc /\ Told(g).shard = worker[g].shard
    <3>1. CancelJob(sched.active) \in CommandOf(n)
      BY <1>1 DEF CommandOf
    <3>2. Append(worker[g].commands, CancelJob(sched.active)) \in Seq(CommandOf(n))
      BY <2>1, <3>1, AppendProperties DEF WorkerState
    <3>3. QED
      BY <2>1, <3>2 DEF WorkerState
  <2> HIDE DEF Told
  <2>3. worker' = [g \in Gpu |-> IF held[g] # 0 /\ shards[held[g]].job = sched.active
                                   THEN Told(g) ELSE worker[g]]
    BY DEF StopActive, Told
  <2>4. QED
    BY <2>1, <2>2, <2>3 DEF IInv, MemoryOK
<1>4. QED
  BY <1>2, <1>3 DEF IInv, MemoryOK

LEMMA CheckInv ==
  ASSUME IInv, Check
  PROVE  IInv'
<1>1. /\ UNCHANGED job /\ UNCHANGED shards /\ UNCHANGED device /\ UNCHANGED cancel /\ UNCHANGED orphans
      /\ UNCHANGED held /\ UNCHANGED events /\ UNCHANGED faults
  BY DEF Check, dbvars
<1>2. Len(shards) \in Nat /\ sched \in Memory(Len(shards))
  BY ShardsType DEF IInv, MemoryOK
<1>3. CASE sched.active # 0 /\ StopActive
  <2>1. MemoryOK'
    BY <1>1, <1>3, StopActiveType
  <2>2. QED
    BY <1>1, <2>1, MemoryStep DEF IInv, TypeOK
<1>4. CASE UNCHANGED worker /\ sched.active # 0 /\ sched' = [sched EXCEPT !.pc = "late"]
  <2>1. sched' \in Memory(Len(shards)) /\ Coherent(sched')
    BY <1>2, <1>4 DEF Memory, Coherent
  <2>2. MemoryOK'
    BY <1>1, <1>4, <2>1 DEF IInv, MemoryOK
  <2>3. QED
    BY <1>1, <2>2, MemoryStep DEF IInv, TypeOK
<1>5. CASE UNCHANGED worker
           /\ sched' = Onward([sched EXCEPT !.draining = IF Drained(sched.idle) THEN 0 ELSE @])
  <2> DEFINE after == [sched EXCEPT !.draining = IF Drained(sched.idle) THEN 0 ELSE @]
  <2>1. after \in Memory(Len(shards))
    <3>1. (IF Drained(sched.idle) THEN 0 ELSE sched.draining) \in 0..Jobs
      BY <1>2 DEF Memory
    <3>2. QED
      BY <1>2, <3>1, ActiveSet
  <2>2. sched' = Onward(after)
    BY <1>5
  <2>3. sched' \in Memory(Len(shards)) /\ Coherent(sched')
    <3> HIDE DEF after
    <3>1. QED
      BY <1>2, <2>1, <2>2, OnwardType
  <2>4. MemoryOK'
    BY <1>1, <1>5, <2>3 DEF IInv, MemoryOK
  <2>5. QED
    BY <1>1, <2>4, MemoryStep DEF IInv, TypeOK
<1>6. QED
  BY <1>3, <1>4, <1>5 DEF Check

LEMMA TimeOutInv ==
  ASSUME IInv, TimeOut
  PROVE  IInv'
<1>1. /\ sched.pc = "late" /\ job' = [job EXCEPT ![sched.active].status = "timed_out"]
      /\ UNCHANGED shards /\ UNCHANGED device /\ UNCHANGED cancel /\ UNCHANGED orphans
      /\ UNCHANGED held /\ UNCHANGED events /\ UNCHANGED faults
  BY DEF TimeOut
<1>2. sched.active \in Job
  BY <1>1 DEF IInv, MemoryOK, Coherent, Memory, Job
<1>3. MemoryOK'
  BY <1>1, <1>2, StopActiveType DEF TimeOut, Job
<1>4. job' \in [Job -> JobRow] /\ \A j \in Job : Continues(job'[j], job[j])
  <2>1. job \in [Job -> JobRow] /\ job[sched.active] \in JobRow
    BY <1>2 DEF IInv, TypeOK
  <2> DEFINE r == [job[sched.active] EXCEPT !.status = "timed_out"]
  <2>2. r \in JobRow /\ Continues(r, job[sched.active])
    BY <1>2, <2>1, StatusSet DEF Settled
  <2>3. job' = [job EXCEPT ![sched.active] = r]
    BY <1>1
  <2> HIDE DEF r
  <2>4. QED
    BY <1>2, <2>1, <2>2, <2>3, JobSet
<1>5. QED
  BY <1>1, <1>3, <1>4, JobStep

LEMMA ClaimInv ==
  ASSUME IInv, Claim
  PROVE  IInv'
<1>1. PICK j \in Claimable :
        /\ sched' = IF j = 0 THEN [sched EXCEPT !.pc = "poll"]
                    ELSE Onward([sched EXCEPT !.active = j])
        /\ job' = IF j # 0 /\ job[j].status = "queued"
                    THEN [job EXCEPT ![j] = [@ EXCEPT !.status = "searching", !.next = 0,
                                                      !.late = FALSE]]
                    ELSE job
  BY DEF Claim
<1>2. /\ UNCHANGED shards /\ UNCHANGED device /\ UNCHANGED cancel /\ UNCHANGED orphans /\ UNCHANGED held
      /\ UNCHANGED worker /\ UNCHANGED events /\ UNCHANGED faults
  BY DEF Claim
<1>3. j \in Job \cup {0}
  BY DEF Claimable
<1>4. sched' \in Memory(Len(shards)) /\ Coherent(sched')
  <2>1. Len(shards) \in Nat /\ sched \in Memory(Len(shards))
    BY ShardsType DEF IInv, MemoryOK
  <2>2. CASE j = 0
    BY <1>1, <2>1, <2>2 DEF Memory, Coherent
  <2>3. CASE j \in Job
    <3> DEFINE after == [sched EXCEPT !.active = j]
    <3>1. after \in Memory(Len(shards))
      <4>1. j \in 0..Jobs /\ 0 \in 0..Jobs
        BY <2>3 DEF Job
      <4>2. QED
        BY <2>1, <4>1, ActiveSet
    <3>2. sched' = Onward(after)
      BY <1>1, <2>3 DEF Job
    <3>3. QED
      <4> HIDE DEF after
      <4>1. QED
        BY <2>1, <3>1, <3>2, OnwardType
  <2>4. QED
    BY <1>3, <2>2, <2>3
<1>5. MemoryOK'
  BY <1>2, <1>4 DEF IInv, MemoryOK
<1>6. job' \in [Job -> JobRow] /\ \A i \in Job : Continues(job'[i], job[i])
  <2>1. CASE UNCHANGED job
    BY <2>1 DEF IInv, TypeOK, Continues
  <2>2. CASE j \in Job /\ job' = [job EXCEPT ![j] = [job[j] EXCEPT !.status = "searching",
                                                          !.next = 0, !.late = FALSE]]
    <3>1. job \in [Job -> JobRow] /\ job[j] \in JobRow
      BY <2>2 DEF IInv, TypeOK
    <3> DEFINE r == [job[j] EXCEPT !.status = "searching", !.next = 0, !.late = FALSE]
    <3>2. r \in JobRow /\ Continues(r, job[j])
      BY <2>2, <3>1, StatusSet DEF Accepting
    <3>3. job' = [job EXCEPT ![j] = r]
      BY <2>2
    <3> HIDE DEF r
    <3>4. QED
      BY <2>2, <3>1, <3>2, <3>3, JobSet
  <2>3. QED
    BY <1>1, <1>3, <2>1, <2>2
<1>7. QED
  BY <1>2, <1>5, <1>6, JobStep

-----------------------------------------------------------------------------
(* Recovery and the recording of events.                                   *)

\* A step of the scheduler that writes the rows of shards, and adds none.
LEMMA ShardStep ==
  ASSUME IInv, UNCHANGED cancel, UNCHANGED orphans, UNCHANGED held, UNCHANGED faults, UNCHANGED events,
         shards' \in Seq(Shard), Len(shards') = Len(shards),
         \A i \in DOMAIN shards :
           /\ shards'[i].job = shards[i].job
           /\ shards'[i].start = shards[i].start /\ shards'[i].count = shards[i].count
           /\ shards'[i].status = "found" =>
                shards[i].status = "found" \/ job'[shards[i].job].result,
         job' \in [Job -> JobRow], \A j \in Job : Continues(job'[j], job[j]),
         device' \in [Gpu -> {"offline", "starting", "ready", "searching", "unhealthy"}],
         sched' \in Memory(Len(shards)), Coherent(sched'),
         worker' \in [Gpu -> WorkerState(Len(shards))],
         \A g \in Gpu : worker'[g].pc = "busy" => worker'[g].shard # 0
  PROVE  IInv'
<1>1. DOMAIN shards' = DOMAIN shards
  BY ShardsType, LenProperties DEF IInv
<1>2. OriginTaken' /\ NextIsFree' /\ ShardsDisjoint' /\ FoundHasResult'
  BY <1>1, TableKept DEF IInv
<1>3. MemoryOK'
  BY DEF IInv, MemoryOK
<1>4. /\ sched'.active \in 0..Jobs /\ sched'.draining \in 0..Jobs /\ sched'.idle \subseteq Gpu
      /\ \A g \in Gpu : worker'[g].shard \in 0..Len(shards')
  BY <1>3 DEF MemoryOK, Memory, WorkerState
<1>5. orphans' \subseteq DOMAIN shards' /\ (faults'.kills = 0 => orphans' = {})
  BY <1>1, OrphansKept DEF IInv
<1>6. TypeOK'
  BY <1>4, <1>5 DEF IInv, TypeOK
<1>7. QED
  BY <1>2, <1>3, <1>6 DEF IInv

\* The status of one shard is written.
LEMMA StatusWritten ==
  ASSUME IInv, NEW s \in 1..Len(shards),
         NEW status \in {"running", "exhausted", "found", "canceled", "failed"},
         shards' = [shards EXCEPT ![s].status = status],
         status = "found" => job'[shards[s].job].result
  PROVE  /\ shards' \in Seq(Shard) /\ Len(shards') = Len(shards)
         /\ \A i \in DOMAIN shards :
              /\ shards'[i].job = shards[i].job
              /\ shards'[i].start = shards[i].start /\ shards'[i].count = shards[i].count
              /\ shards'[i].status = "found" =>
                   shards[i].status = "found" \/ job'[shards[i].job].result
<1> DEFINE r == [shards[s] EXCEPT !.status = status]
<1>1. DOMAIN shards = 1..Len(shards) /\ shards \in Seq(Shard) /\ shards[s] \in Shard
  BY ShardsType DEF IInv, TypeOK
<1>2. r \in Shard /\ r.job = shards[s].job /\ r.start = shards[s].start
      /\ r.count = shards[s].count /\ r.status = status
  BY <1>1 DEF Shard
<1>3. shards' = [shards EXCEPT ![s] = r]
  OBVIOUS
<1> HIDE DEF r
<1>4. shards' \in Seq(Shard) /\ Len(shards') = Len(shards)
      /\ \A i \in 1..Len(shards) : shards'[i] = IF i = s THEN r ELSE shards[i]
  BY SMTT(20), <1>1, <1>2, <1>3, ExceptSeq
<1>5. QED
  BY <1>1, <1>2, <1>4

LEMMA RecoverInv ==
  ASSUME IInv, Recover
  PROVE  IInv'
<1> DEFINE n == Len(shards)
           Ended(i) == IF shards[i].status \in {"assigned", "running"}
                         THEN [shards[i] EXCEPT !.status = "failed"] ELSE shards[i]
           Requeued(j) == [job[j] EXCEPT !.status = "queued", !.next = 0, !.late = FALSE]
<1>1. n \in Nat /\ DOMAIN shards = 1..n /\ \A i \in 1..n : shards[i] \in Shard
  BY ShardsType DEF IInv
<1>2. \A i \in 1..n :
        /\ Ended(i) \in Shard /\ Ended(i).job = shards[i].job
        /\ Ended(i).start = shards[i].start /\ Ended(i).count = shards[i].count
        /\ Ended(i).status = "found" => shards[i].status = "found"
  BY <1>1 DEF Shard
<1>3. shards' = [i \in 1..n |-> Ended(i)]
  BY <1>1 DEF Recover
<1>4. shards' \in Seq(Shard) /\ Len(shards') = n
  <2> HIDE DEF Ended
  <2>1. QED
    BY <1>1, <1>2, <1>3
<1>5. \A i \in DOMAIN shards :
        /\ shards'[i].job = shards[i].job
        /\ shards'[i].start = shards[i].start /\ shards'[i].count = shards[i].count
        /\ shards'[i].status = "found" => shards[i].status = "found"
  <2> HIDE DEF Ended
  <2>1. QED
    BY <1>1, <1>2, <1>3
<1>6. job' \in [Job -> JobRow] /\ \A j \in Job : Continues(job'[j], job[j])
  <2>1. \A j \in Job : job[j] \in JobRow
    BY DEF IInv, TypeOK
  <2>2. \A j \in Job : Requeued(j) \in JobRow /\ Continues(Requeued(j), job[j])
    BY <2>1, StatusSet DEF Accepting
  <2>3. job' = [j \in Job |-> IF j \in sched.pending THEN Requeued(j) ELSE job[j]]
    BY DEF Recover
  <2>4. \A j \in Job : Continues(job[j], job[j])
    BY DEF Continues
  <2> HIDE DEF Requeued
  <2>5. QED
    BY <2>1, <2>2, <2>3, <2>4
<1>7. sched' \in Memory(n) /\ Coherent(sched')
  <2>1. Down("none") \in Memory(n)
    BY <1>1, DownType
  <2>2. sched' = [Down("none") EXCEPT !.pc = "poll"]
    BY DEF Recover
  <2>3. QED
    BY <2>1, <2>2 DEF Memory, Coherent
<1>8. worker' \in [Gpu -> WorkerState(n)] /\ \A g \in Gpu : worker'[g].pc # "busy"
  BY <1>1, FreshType DEF Recover, Fresh
<1>9. device' \in [Gpu -> {"offline", "starting", "ready", "searching", "unhealthy"}]
  BY DEF Recover
<1>10. UNCHANGED cancel /\ UNCHANGED orphans /\ UNCHANGED held /\ UNCHANGED faults /\ UNCHANGED events
  BY DEF Recover
<1>11. QED
  <2> HIDE DEF Ended, Requeued
  <2>1. QED
    BY <1>4, <1>5, <1>6, <1>7, <1>8, <1>9, <1>10, ShardStep

\* The event a worker reported first, and the memory without it.
LEMMA EventTaken ==
  ASSUME IInv, NEW g \in Gpu, sched.inbox[g] # <<>>
  PROVE  /\ Head(sched.inbox[g]) \in EventOf(Len(shards))
         /\ \A idle \in SUBSET Gpu :
              /\ [sched EXCEPT !.pc = "handle", !.inbox[g] = Tail(@), !.idle = idle,
                               !.winner = 0, !.seen = "none"] \in Memory(Len(shards))
              /\ [sched EXCEPT !.inbox[g] = Tail(@), !.idle = idle] \in Memory(Len(shards))
<1> DEFINE n == Len(shards)
           rest == [sched.inbox EXCEPT ![g] = Tail(@)]
<1>1. sched \in Memory(n) /\ sched.inbox \in [Gpu -> Seq(EventOf(n))]
  BY DEF IInv, MemoryOK, Memory
<1>2. Head(sched.inbox[g]) \in EventOf(n) /\ Tail(sched.inbox[g]) \in Seq(EventOf(n))
  BY <1>1, HeadTailProperties
<1>3. rest \in [Gpu -> Seq(EventOf(n))]
  BY <1>1, <1>2
<1>4. ASSUME NEW idle \in SUBSET Gpu
      PROVE  /\ [sched EXCEPT !.pc = "handle", !.inbox = rest, !.idle = idle,
                              !.winner = 0, !.seen = "none"] \in Memory(n)
             /\ [sched EXCEPT !.inbox = rest, !.idle = idle] \in Memory(n)
  <2>1. 0 \in 0..Gpus
    OBVIOUS
  <2> HIDE DEF rest, n
  <2>2. QED
    BY <1>1, <1>3, <2>1 DEF Memory
<1>5. QED
  BY <1>2, <1>4

\* The shard and the type of an event.
LEMMA EventFields ==
  ASSUME NEW n \in Nat, NEW e \in EventOf(n)
  PROVE  /\ e.shard = 0 => e.type \in {"starting", "ready", "failed", "stopped"}
         /\ e.shard # 0 => e.shard \in 1..n /\ e.type \in Completion \cup {"started"}
         /\ e.shard = 0 \/ e.shard \in 1..n
BY DEF EventOf, Event

LEMMA HandleInv ==
  ASSUME IInv, NEW g \in Gpu, Handle(g)
  PROVE  IInv'
<1> DEFINE n == Len(shards)
           e == Head(sched.inbox[g])
<1>1. /\ sched.pc = "handle" /\ sched.inbox[g] # <<>>
      /\ UNCHANGED cancel /\ UNCHANGED orphans /\ UNCHANGED held /\ UNCHANGED worker /\ UNCHANGED events
      /\ UNCHANGED faults
  BY DEF Handle
<1>2. n \in Nat /\ DOMAIN shards = 1..n /\ \A i \in 1..n : shards[i] \in Shard
  BY ShardsType DEF IInv
<1>3. e \in EventOf(n)
  BY <1>1, EventTaken
<1>4. worker' \in [Gpu -> WorkerState(n)]
      /\ \A h \in Gpu : worker'[h].pc = "busy" => worker'[h].shard # 0
  BY <1>1 DEF IInv, MemoryOK
<1>5. CASE e.type = "found"
  <2>1. sched' = [sched EXCEPT !.pc = "found", !.winner = g,
                               !.seen = job[shards[e.shard].job].status]
        /\ UNCHANGED job /\ UNCHANGED shards /\ UNCHANGED device
    BY <1>5 DEF Handle, dbvars
  <2>2. shards[e.shard].job \in Job
    BY <1>2, <1>3, <1>5, EventFields DEF Shard
  <2>3. job[shards[e.shard].job].status \in {"none", "absent"} \cup Accepting \cup Settled
    BY <2>2 DEF IInv, TypeOK, JobRow
  <2>4. sched' \in Memory(n)
    <3>1. g \in 0..Gpus
      BY DEF Gpu
    <3>2. QED
      BY <2>1, <2>3, <3>1 DEF IInv, MemoryOK, Memory
  <2>5. Coherent(sched')
    BY <1>1, <1>5, <2>1 DEF IInv, MemoryOK, Memory, Coherent
  <2>6. MemoryOK'
    BY <1>1, <2>1, <2>4, <2>5 DEF IInv, MemoryOK
  <2>7. QED
    BY <1>1, <2>1, <2>6, MemoryStep DEF IInv, TypeOK
<1>6. CASE e.type # "found"
  <2>1. /\ device' = [device EXCEPT ![g] = Recorded(g, e.type)]
        /\ shards' = IF e.shard = 0 THEN shards
                     ELSE [shards EXCEPT ![e.shard].status = Reported(e.type)]
        /\ sched' = [sched EXCEPT !.inbox[g] = Tail(@), !.idle = IdleAfter(g, e.type)]
        /\ UNCHANGED job
    BY <1>6 DEF Handle
  <2>2. sched' \in Memory(n) /\ Coherent(sched')
    <3>1. sched.idle \in SUBSET Gpu
      BY DEF IInv, MemoryOK, Memory
    <3>2. IdleAfter(g, e.type) \in SUBSET Gpu
      BY <3>1 DEF IdleAfter
    <3>3. sched' \in Memory(n)
      BY <1>1, <2>1, <3>2, EventTaken
    <3>4. sched'.pc = "handle"
      BY <1>1, <2>1 DEF IInv, MemoryOK, Memory
    <3>5. QED
      BY <3>3, <3>4 DEF Coherent
  <2>3. device' \in [Gpu -> {"offline", "starting", "ready", "searching", "unhealthy"}]
    <3>1. device[g] \in {"offline", "starting", "ready", "searching", "unhealthy"}
      BY DEF IInv, TypeOK
    <3>2. Recorded(g, e.type) \in {"offline", "starting", "ready", "searching", "unhealthy"}
      BY <3>1 DEF Recorded
    <3>3. QED
      BY <2>1, <3>2 DEF IInv, TypeOK
  <2>4. job' \in [Job -> JobRow] /\ \A j \in Job : Continues(job'[j], job[j])
    BY <2>1 DEF IInv, TypeOK, Continues
  <2>5. CASE e.shard = 0
    BY <1>1, <1>4, <2>1, <2>2, <2>3, <2>4, <2>5, ShardStep DEF IInv, TypeOK
  <2>6. CASE e.shard # 0
    <3>1. e.shard \in 1..n
          /\ Reported(e.type) \in {"running", "exhausted", "canceled", "failed"}
      BY <1>2, <1>3, <1>6, <2>6, EventFields DEF Reported, Completion
    <3>2. shards' = [shards EXCEPT ![e.shard].status = Reported(e.type)]
      BY <2>1, <2>6
    <3> HIDE DEF e
    <3>3. QED
      BY <1>1, <1>4, <2>2, <2>3, <2>4, <3>1, <3>2, StatusWritten, ShardStep
  <2>7. QED
    BY <2>5, <2>6
<1>7. QED
  BY <1>5, <1>6

\* The winner's shard is found only with a result, which it may be the one to bring.
LEMMA FinalizeInv ==
  ASSUME IInv, Finalize
  PROVE  IInv'
<1> DEFINE n == Len(shards)
           g == sched.winner
           s == Head(sched.inbox[g]).shard
           j == shards[s].job
<1>1. /\ sched.pc = "found"
      /\ sched' = [sched EXCEPT !.pc = "handle", !.inbox[g] = Tail(@), !.winner = 0,
                                !.seen = "none"]
      /\ UNCHANGED cancel /\ UNCHANGED orphans /\ UNCHANGED held /\ UNCHANGED worker /\ UNCHANGED events
      /\ UNCHANGED faults
  BY DEF Finalize
<1>2. n \in Nat /\ DOMAIN shards = 1..n /\ \A i \in 1..n : shards[i] \in Shard
  BY ShardsType DEF IInv
<1>3. g \in Gpu /\ sched.inbox[g] # <<>> /\ Head(sched.inbox[g]).type = "found"
  BY <1>1 DEF IInv, MemoryOK, Coherent
<1>4. s \in 1..n
  <2>1. Head(sched.inbox[g]) \in EventOf(n)
    BY <1>3, EventTaken
  <2>2. QED
    BY <1>2, <1>3, <2>1, EventFields
<1>5. j \in Job
  BY <1>2, <1>4 DEF Shard
<1>6. sched' \in Memory(n) /\ Coherent(sched')
  <2>1. sched.idle \in SUBSET Gpu /\ sched \in Memory(n)
    BY DEF IInv, MemoryOK, Memory
  <2>2. sched' = [sched EXCEPT !.pc = "handle", !.inbox[g] = Tail(@), !.idle = sched.idle,
                               !.winner = 0, !.seen = "none"]
    BY <1>1, <2>1 DEF Memory
  <2>3. sched' \in Memory(n)
    BY <1>3, <2>1, <2>2, EventTaken
  <2>4. sched'.pc = "handle"
    BY <1>1, <2>1 DEF Memory
  <2>5. QED
    BY <2>3, <2>4 DEF Coherent
<1>7. worker' \in [Gpu -> WorkerState(n)]
      /\ \A h \in Gpu : worker'[h].pc = "busy" => worker'[h].shard # 0
  BY <1>1 DEF IInv, MemoryOK
<1>8. job \in [Job -> JobRow] /\ job[j] \in JobRow
  BY <1>5 DEF IInv, TypeOK
<1>9. PICK status \in {"found", "canceled", "failed"} :
        /\ shards' = [shards EXCEPT ![s].status = status]
        /\ \/ /\ status = "found" => job[j].result
              /\ UNCHANGED job
           \/ /\ job' = [job EXCEPT ![j] = [job[j] EXCEPT !.status = "ready", !.result = TRUE]]
           \/ /\ status = "failed"
              /\ job' = [job EXCEPT ![j].status = "failed"]
        /\ device' \in {device, [device EXCEPT ![g] = "unhealthy"]}
  BY DEF Finalize, LateWinner
<1>10. /\ job' \in [Job -> JobRow] /\ \A i \in Job : Continues(job'[i], job[i])
       /\ status = "found" => job'[j].result
  <2>1. CASE UNCHANGED job /\ (status = "found" => job[j].result)
    BY <1>8, <2>1 DEF Continues
  <2>2. CASE job' = [job EXCEPT ![j] = [job[j] EXCEPT !.status = "ready", !.result = TRUE]]
    <3>1. job'[j].result
      BY <1>5, <1>8, <2>2 DEF JobRow
    <3>2. QED
      BY <1>5, <1>8, <2>2, <3>1, StatusSet, JobSet DEF Settled
  <2>3. CASE status = "failed" /\ job' = [job EXCEPT ![j].status = "failed"]
    BY <1>5, <1>8, <2>3, StatusSet, JobSet DEF Settled
  <2>4. QED
    BY <1>9, <2>1, <2>2, <2>3
<1>11. device' \in [Gpu -> {"offline", "starting", "ready", "searching", "unhealthy"}]
  BY <1>3, <1>9 DEF IInv, TypeOK
<1>12. QED
  <2> HIDE DEF s
  <2>1. QED
    BY <1>1, <1>4, <1>6, <1>7, <1>9, <1>10, <1>11, StatusWritten, ShardStep

-----------------------------------------------------------------------------
(* The allocation of a range.                                              *)

\* What fits below a number fits below it and more.
LEMMA SumGrows ==
  ASSUME NEW a \in Nat, NEW b \in Nat, NEW c \in Nat, NEW d \in Nat, a + b <= c
  PROVE  a + b <= c + d
OBVIOUS

\* A range that begins where no shard of its job does, at the job's next offset, is apart
\* from all of them: if the job is at its origin it has no shard yet, as the first one
\* would be there, and otherwise every shard ends before.
LEMMA RangeAdded ==
  ASSUME IInv, NEW new \in Shard,
         shards' = Append(shards, new), new.start = job[new.job].next, new.status = "assigned",
         job' = [job EXCEPT ![new.job].next = new.start + new.count],
         \A i \in DOMAIN shards : ~(shards[i].job = new.job /\ shards[i].start = new.start)
  PROVE  /\ Len(shards') = Len(shards) + 1 /\ shards' \in Seq(Shard)
         /\ OriginTaken' /\ NextIsFree' /\ ShardsDisjoint' /\ FoundHasResult'
<1> DEFINE n == Len(shards)
           j == new.job
<1>1. n \in Nat /\ DOMAIN shards = 1..n /\ \A i \in 1..n : shards[i] \in Shard
  BY ShardsType DEF IInv
<1>2. /\ Len(shards') = n + 1 /\ shards' \in Seq(Shard) /\ DOMAIN shards' = 1..(n + 1)
      /\ \A i \in 1..n : shards'[i] = shards[i]
      /\ shards'[n + 1] = new
  BY AppendProperties, LenProperties DEF IInv, TypeOK
<1>3. /\ j \in Job /\ new.start \in Nat /\ new.count \in Nat /\ new.count # 0
      /\ \A i \in 1..n : shards[i].job \in Job /\ shards[i].start \in Nat /\ shards[i].count \in Nat
  BY <1>1 DEF Shard
<1>4. /\ \A i \in Job \ {j} : job'[i] = job[i]
      /\ job'[j].next = new.start + new.count
      /\ job'[j].result = job[j].result
  BY <1>3 DEF IInv, TypeOK, JobRow
<1>5. \A i \in 1..n : shards[i].job = j => shards[i].start + shards[i].count <= new.start
  <2> SUFFICES ASSUME NEW i \in 1..n, shards[i].job = j
               PROVE  shards[i].start + shards[i].count <= new.start
    OBVIOUS
  <2>1. PICK k \in 1..n : shards[k].job = j /\ shards[k].start = 0
    BY <1>1, <1>3 DEF IInv, OriginTaken
  <2>2. new.start # 0
    BY <1>1, <2>1
  <2>3. QED
    BY <1>1, <2>2 DEF IInv, NextIsFree
<1>6. OriginTaken'
  <2> SUFFICES ASSUME NEW h \in Job,
                      job'[h].next # 0 \/ \E i \in 1..(n + 1) : shards'[i].job = h
               PROVE  \E k \in 1..(n + 1) : shards'[k].job = h /\ shards'[k].start = 0
    BY <1>2 DEF OriginTaken
  <2>1. CASE h = j /\ new.start = 0
    BY <1>1, <1>2, <2>1
  <2>2. CASE h # j \/ new.start # 0
    <3>1. job[h].next # 0 \/ \E i \in 1..n : shards[i].job = h
      BY <1>2, <1>4, <2>2
    <3>2. PICK k \in 1..n : shards[k].job = h /\ shards[k].start = 0
      BY <1>1, <3>1 DEF IInv, OriginTaken
    <3>3. QED
      BY <1>1, <1>2, <3>2
  <2>3. QED
    BY <2>1, <2>2
<1>7. NextIsFree'
  <2> SUFFICES ASSUME NEW i \in 1..(n + 1), job'[shards'[i].job].next # 0
               PROVE  shards'[i].start + shards'[i].count <= job'[shards'[i].job].next
    BY <1>2 DEF NextIsFree
  <2>1. CASE i = n + 1
    BY <1>2, <1>3, <1>4, <2>1
  <2>2. CASE i \in 1..n /\ shards[i].job = j
    <3>1. shards'[i] = shards[i] /\ job'[shards'[i].job].next = new.start + new.count
      BY <1>2, <1>4, <2>2
    <3>2. shards[i].start + shards[i].count <= new.start
      BY <1>5, <2>2
    <3>3. shards[i].start \in Nat /\ shards[i].count \in Nat
      BY <1>3, <2>2
    <3>4. shards[i].start + shards[i].count <= new.start + new.count
      BY <1>3, <3>2, <3>3, SumGrows
    <3>5. QED
      BY <3>1, <3>4
  <2>3. CASE i \in 1..n /\ shards[i].job # j
    <3>1. shards'[i] = shards[i] /\ job'[shards[i].job] = job[shards[i].job]
      BY <1>2, <1>3, <1>4, <2>3
    <3>2. QED
      BY <1>1, <2>3, <3>1 DEF IInv, NextIsFree
  <2>4. QED
    BY <1>1, <2>1, <2>2, <2>3
<1>8. ShardsDisjoint'
  <2> SUFFICES ASSUME NEW i \in 1..(n + 1), NEW k \in 1..(n + 1), i < k,
                      shards'[i].job = shards'[k].job
               PROVE  \/ shards'[i].start + shards'[i].count <= shards'[k].start
                      \/ shards'[k].start + shards'[k].count <= shards'[i].start
    BY SMTT(30), <1>1, <1>2 DEF ShardsDisjoint
  <2>1. CASE k = n + 1
    <3>1. i \in 1..n /\ shards'[i] = shards[i] /\ shards'[k] = new
      BY <1>1, <1>2, <2>1
    <3>2. shards[i].start + shards[i].count <= new.start
      BY <1>5, <3>1
    <3>3. QED
      BY <3>1, <3>2
  <2>2. CASE k \in 1..n
    <3>1. i \in 1..n /\ i # k /\ shards'[i] = shards[i] /\ shards'[k] = shards[k]
      BY <1>1, <1>2, <2>2
    <3>2. QED
      BY <1>1, <2>2, <3>1 DEF IInv, ShardsDisjoint
  <2>3. QED
    BY <1>1, <2>1, <2>2
<1>9. FoundHasResult'
  <2> SUFFICES ASSUME NEW i \in 1..(n + 1), shards'[i].status = "found"
               PROVE  job'[shards'[i].job].result
    BY <1>2 DEF FoundHasResult
  <2>1. i \in 1..n
    BY <1>1, <1>2
  <2>2. job[shards[i].job].result
    BY <1>1, <1>2, <2>1 DEF IInv, FoundHasResult
  <2>3. QED
    BY <1>1, <1>2, <1>3, <1>4, <2>1, <2>2
<1>10. QED
  BY <1>2, <1>6, <1>7, <1>8, <1>9

\* The memory after a GPU was given a range or passed over.
LEMMA FilledType ==
  ASSUME IInv, sched.pc = "fill", NEW g \in Gpu, NEW idle \in SUBSET Gpu, NEW n \in Nat,
         Len(shards) <= n,
         sched' = [sched EXCEPT !.pending = @ \ {g}, !.idle = idle,
                                !.pc = IF sched.pending = {g} THEN "poll" ELSE @]
  PROVE  sched' \in Memory(n) /\ Coherent(sched')
<1>1. Len(shards) \in Nat
  BY ShardsType DEF IInv
<1>2. sched \in Memory(n) /\ Coherent(sched)
  BY <1>1, Grow DEF IInv, MemoryOK
<1>3. sched' \in Memory(n)
  BY <1>2 DEF Memory
<1>4. Coherent(sched')
  BY <1>2 DEF Memory, Coherent
<1>5. QED
  BY <1>3, <1>4

\* No range is given: the job is not searched any more, or the end of the group is reached.
LEMMA SkipInv ==
  ASSUME IInv, sched.pc = "fill", NEW g \in Gpu,
         sched' = [sched EXCEPT !.pending = @ \ {g}, !.idle = sched.idle,
                                !.pc = IF sched.pending = {g} THEN "poll" ELSE @],
         UNCHANGED held, UNCHANGED worker, UNCHANGED events, UNCHANGED device,
         UNCHANGED shards, UNCHANGED cancel, UNCHANGED orphans, UNCHANGED faults,
         \/ UNCHANGED job
         \/ job' = [job EXCEPT ![sched.active].status = "failed"]
  PROVE  IInv'
<1>1. /\ Len(shards) \in Nat /\ Len(shards) <= Len(shards) /\ sched.idle \in SUBSET Gpu
  BY ShardsType DEF IInv, MemoryOK, Memory
<1>2. sched' \in Memory(Len(shards)) /\ Coherent(sched')
  BY <1>1, FilledType
<1>3. MemoryOK'
  BY <1>2 DEF IInv, MemoryOK
<1>4. sched.active \in Job
  BY DEF IInv, MemoryOK, Coherent, Memory, Job
<1>5. job' \in [Job -> JobRow] /\ \A j \in Job : Continues(job'[j], job[j])
  <2>1. job \in [Job -> JobRow] /\ job[sched.active] \in JobRow
    BY <1>4 DEF IInv, TypeOK
  <2>2. CASE UNCHANGED job
    BY <2>1, <2>2 DEF Continues
  <2>3. CASE job' = [job EXCEPT ![sched.active].status = "failed"]
    BY <1>4, <2>1, <2>3, StatusSet, JobSet DEF Settled
  <2>4. QED
    BY <2>2, <2>3
<1>6. QED
  BY <1>3, <1>5, JobStep

\* The new range is sent to a worker that has none.
LEMMA DispatchType ==
  ASSUME IInv, sched.pc = "fill", NEW g \in Gpu, Len(shards') = Len(shards) + 1,
         device' = [device EXCEPT ![g] = "searching"],
         held' = [held EXCEPT ![g] = Len(shards) + 1],
         worker' = [worker EXCEPT ![g].commands = Append(@, Assignment(Len(shards) + 1))],
         sched' = [sched EXCEPT !.pending = @ \ {g}, !.idle = sched.idle \ {g},
                                !.pc = IF sched.pending = {g} THEN "poll" ELSE @],
         UNCHANGED events
  PROVE  /\ MemoryOK' /\ held' \in [Gpu -> 0..Len(shards')]
         /\ device' \in [Gpu -> {"offline", "starting", "ready", "searching", "unhealthy"}]
<1> DEFINE m == Len(shards)
           n == m + 1
           w == [worker[g] EXCEPT !.commands = Append(@, Assignment(n))]
<1>1. m \in Nat /\ n \in Nat /\ m <= n
  BY ShardsType DEF IInv
<1>2. /\ worker \in [Gpu -> WorkerState(n)] /\ events \in [Gpu -> Seq(EventOf(n))]
      /\ \A h \in Gpu : worker[h].pc = "busy" => worker[h].shard # 0
  BY <1>1, Grow DEF IInv, MemoryOK
<1>3. w \in WorkerState(n) /\ w.pc = worker[g].pc /\ w.shard = worker[g].shard
  <2>1. Assignment(n) \in CommandOf(n)
    BY <1>1 DEF CommandOf
  <2>2. Append(worker[g].commands, Assignment(n)) \in Seq(CommandOf(n))
    BY <1>2, <2>1, AppendProperties DEF WorkerState
  <2>3. QED
    BY <1>2, <2>2 DEF WorkerState
<1>4. worker' \in [Gpu -> WorkerState(n)]
      /\ \A h \in Gpu : worker'[h].pc = "busy" => worker'[h].shard # 0
  <2>1. worker' = [worker EXCEPT ![g] = w]
    OBVIOUS
  <2> HIDE DEF w, n
  <2>2. QED
    BY <1>2, <1>3, <2>1
<1>5. sched' \in Memory(n) /\ Coherent(sched')
  <2>1. sched.idle \ {g} \in SUBSET Gpu
    BY DEF IInv, MemoryOK, Memory
  <2>2. QED
    BY <1>1, <2>1, FilledType
<1>6. MemoryOK'
  BY <1>2, <1>4, <1>5 DEF MemoryOK
<1>7. held' \in [Gpu -> 0..n]
  BY <1>1 DEF IInv, TypeOK
<1>8. QED
  BY <1>6, <1>7 DEF IInv, TypeOK

LEMMA AllocateInv ==
  ASSUME IInv, NEW g \in Gpu, AllocateTo(g)
  PROVE  IInv'
<1> DEFINE j == sched.active
           start == job[j].next
           m == Len(shards)
           Filled(idle) == sched' = [sched EXCEPT !.pending = @ \ {g}, !.idle = idle,
                                       !.pc = IF sched.pending = {g} THEN "poll" ELSE @]
           new(n) == [job |-> j, gpu |-> g, start |-> start, count |-> n, status |-> "assigned"]
<1>1. sched.pc = "fill" /\ UNCHANGED cancel /\ UNCHANGED orphans /\ UNCHANGED faults
  BY DEF AllocateTo
<1>2. m \in Nat /\ j \in Job
  BY <1>1, ShardsType DEF IInv, MemoryOK, Coherent, Memory, Job
<1>3. \/ /\ Filled(sched.idle) /\ UNCHANGED <<held, worker, events, device>>
         /\ UNCHANGED shards
         /\ UNCHANGED job \/ job' = [job EXCEPT ![j].status = "failed"]
      \/ Ends("duplicate_range") /\ UNCHANGED <<job, shards>>
      \/ \E n \in Counts :
           /\ ~PastEnd(start, n)
           /\ ~ \E i \in DOMAIN shards : shards[i].job = j /\ shards[i].start = start
           /\ shards' = Append(shards, new(n))
           /\ job' = [job EXCEPT ![j].next = NextOffset(start, n)]
           /\ \/ Ends("already_assigned")
              \/ Ends("not_alive")
              \/ /\ device' = [device EXCEPT ![g] = "searching"]
                 /\ held' = [held EXCEPT ![g] = m + 1]
                 /\ worker' = [worker EXCEPT ![g].commands = Append(@, Assignment(m + 1))]
                 /\ Filled(sched.idle \ {g})
                 /\ UNCHANGED events
  BY DEF AllocateTo
<1>4. CASE /\ Filled(sched.idle) /\ UNCHANGED <<held, worker, events, device>>
           /\ UNCHANGED shards
           /\ UNCHANGED job \/ job' = [job EXCEPT ![j].status = "failed"]
  BY <1>1, <1>4, SkipInv
<1>5. CASE Ends("duplicate_range") /\ UNCHANGED <<job, shards>>
  <2>1. Len(shards') \in Nat
    BY <1>2, <1>5
  <2>2. QED
    BY <1>1, <1>5, <2>1, EndsType, MemoryStep
<1>6. ASSUME NEW n \in Counts, ~PastEnd(start, n),
             ~ \E i \in DOMAIN shards : shards[i].job = j /\ shards[i].start = start,
             shards' = Append(shards, new(n)),
             job' = [job EXCEPT ![j].next = NextOffset(start, n)],
             \/ Ends("already_assigned")
             \/ Ends("not_alive")
             \/ /\ device' = [device EXCEPT ![g] = "searching"]
                /\ held' = [held EXCEPT ![g] = m + 1]
                /\ worker' = [worker EXCEPT ![g].commands = Append(@, Assignment(m + 1))]
                /\ Filled(sched.idle \ {g})
                /\ UNCHANGED events
      PROVE  IInv'
  <2>1. /\ n \in Nat /\ start \in 0..Order /\ job \in [Job -> JobRow] /\ job[j] \in JobRow
    BY <1>2 DEF IInv, TypeOK, JobRow
  <2>2. new(n) \in Shard
    BY <1>2, <2>1 DEF Shard
  <2>3. start + n \in 0..Order
    BY SMTT(20), <1>6, <2>1 DEF PastEnd
  <2>4. job' = [job EXCEPT ![j].next = start + n] /\ job' \in [Job -> JobRow]
    BY <1>6, <2>1, <2>3 DEF NextOffset, JobRow
  <2>5. /\ Len(shards') = m + 1 /\ shards' \in Seq(Shard)
        /\ OriginTaken' /\ NextIsFree' /\ ShardsDisjoint' /\ FoundHasResult'
    <3> DEFINE r == new(n)
    <3>1. /\ r.job = j /\ r.start = start /\ r.count = n /\ r.status = "assigned"
          /\ shards' = Append(shards, r)
      BY <1>6
    <3> HIDE DEF r
    <3>2. QED
      BY <1>6, <2>2, <2>4, <3>1, RangeAdded DEF r
  <2>6. /\ MemoryOK' /\ held' \in [Gpu -> 0..Len(shards')]
        /\ device' \in [Gpu -> {"offline", "starting", "ready", "searching", "unhealthy"}]
    <3>1. CASE Ends("already_assigned") \/ Ends("not_alive")
      BY <1>2, <2>5, <3>1, EndsType
    <3>2. CASE ~(Ends("already_assigned") \/ Ends("not_alive"))
      BY <1>1, <1>6, <2>5, <3>2, DispatchType
    <3>3. QED
      BY <3>1, <3>2
  <2>7. /\ sched'.active \in 0..Jobs /\ sched'.draining \in 0..Jobs /\ sched'.idle \subseteq Gpu
        /\ \A h \in Gpu : worker'[h].shard \in 0..Len(shards')
    BY <2>6 DEF MemoryOK, Memory, WorkerState
  <2>8. orphans' \subseteq DOMAIN shards' /\ (faults'.kills = 0 => orphans' = {})
    <3>1. DOMAIN shards \subseteq DOMAIN shards'
      BY <1>2, <2>5, LenProperties DEF IInv, TypeOK
    <3>2. QED
      BY <1>1, <3>1, OrphansKept DEF IInv
  <2>9. TypeOK'
    BY <1>1, <2>4, <2>5, <2>6, <2>7, <2>8 DEF IInv, TypeOK
  <2>10. QED
    BY <2>5, <2>6, <2>9 DEF IInv
<1>7. QED
  BY <1>3, <1>4, <1>5, <1>6

-----------------------------------------------------------------------------
(* The theorems.                                                           *)

\* Every step, and a step that changes nothing, keeps the invariant.
LEMMA NextInv == IInv /\ [Next]_vars => IInv'
<1> SUFFICES ASSUME IInv, [Next]_vars PROVE IInv'
  OBVIOUS
<1>1. CASE UNCHANGED vars
  BY <1>1 DEF vars, dbvars, IInv, TypeOK, MemoryOK, OriginTaken, NextIsFree, ShardsDisjoint,
             FoundHasResult
<1>2. CASE Round
  BY <1>2, StartInv, RecoverInv, PollInv, RestartDeadInv, FinalizeInv, CheckInv, TimeOutInv,
     ClaimInv, HandleInv, AllocateInv DEF Round
<1>3. CASE Exit \/ Kill \/ \E s \in orphans : OrphanEnds(s)
  BY <1>3, StartInv, OrphanInv
<1>4. ASSUME NEW g \in Gpu, Worker(g) \/ Die(g) PROVE IInv'
  BY <1>4, BootInv, CommandInv DEF Worker
<1>5. ASSUME NEW j \in Job,
             Create(j) \/ CancelRead(j) \/ CancelWrite(j) \/ Submit(j) \/ Deadline(j)
      PROVE  IInv'
  BY <1>5, ApiInv
<1>6. QED
  BY <1>1, <1>2, <1>3, <1>4, <1>5 DEF Next

\* The invariant holds of every reachable state.
THEOREM Invariance == Spec => []IInv
BY InitInv, NextInv, PTL DEF Spec

\* Every variable keeps its type, and what the scheduler, the supervisor and the workers
\* remember of shards refers to rows that exist.
THEOREM TypeCorrect == Spec => [](TypeOK /\ MemoryOK)
<1>1. IInv => TypeOK /\ MemoryOK
  BY DEF IInv
<1>2. QED
  BY <1>1, Invariance, PTL

\* No offset is given to two shards of a job, whatever the shards' lengths, and through any
\* number of kills, worker deaths and restarts that put a job back to its origin.
THEOREM RangesDisjoint == Spec => []ShardsDisjoint
<1>1. IInv => ShardsDisjoint
  BY DEF IInv
<1>2. QED
  BY <1>1, Invariance, PTL

\* A shard is only left as found when its job has a verified result, though a job may be
\* canceled, time out or get another candidate while the winner is on its way.
THEOREM FoundIsVerified == Spec => []FoundHasResult
<1>1. IInv => FoundHasResult
  BY DEF IInv
<1>2. QED
  BY <1>1, Invariance, PTL

--------------------------------------------------------------------------------
(* Who is at work while no worker has died, for any numbers of jobs and GPUs,   *)
(* kills, restarts and calls: workers search for one job at a time, the         *)
(* supervisor knows every one that searches, and no assertion fails.            *)

Assigns(w, i) == w.commands[i].kind = "assignment"
NoAssignment(w) == \A i \in DOMAIN w.commands : ~Assigns(w, i)

\* A worker is engaged from the dispatch of a range to the report of its outcome, and free
\* when it waits for the next.
Engaged(g) == worker[g].pc = "busy" \/ ~NoAssignment(worker[g])
Free(g) == worker[g].pc = "idle" /\ NoAssignment(worker[g])

\* The job whose ranges are searched, also while it drains.
Current == IF sched.active # 0 THEN sched.active ELSE sched.draining

Has(evs, types) == \E i \in DOMAIN evs : evs[i].type \in types
ReadyLast(evs) == \A i \in DOMAIN evs : evs[i].type = "ready" => i = Len(evs)

\* One assignment at a time is queued, for an idle worker, or worked at: that of the handle.
QueueOK(g) ==
  /\ worker[g].pc = "busy" => NoAssignment(worker[g]) /\ worker[g].shard = held[g]
  /\ \A i \in DOMAIN worker[g].commands : Assigns(worker[g], i) =>
       /\ worker[g].pc = "idle" /\ worker[g].commands[i].of = held[g]
       /\ \A k \in DOMAIN worker[g].commands : Assigns(worker[g], k) => k = i

\* A handle names the range of an engaged worker, and is cleared by the event that ends it.
HandleOK(g) ==
  IF Engaged(g) THEN held[g] # 0 /\ ~Has(events[g], Completion)
                ELSE held[g] = 0 \/ Has(events[g], Completion)

OwnJob(g) == Engaged(g) => Current # 0 /\ shards[held[g]].job = Current

\* READY is the last word of a free worker, until it is counted idle and has nothing to say.
ReadyOK(g) ==
  /\ ReadyLast(events[g]) /\ ReadyLast(sched.inbox[g])
  /\ Has(events[g], {"ready"}) => Free(g)
  /\ Has(sched.inbox[g], {"ready"}) => Free(g) /\ held[g] = 0 /\ events[g] = <<>>
  /\ g \in sched.idle => Free(g) /\ held[g] = 0 /\ events[g] = <<>> /\ sched.inbox[g] = <<>>

WorkerOK(g) == QueueOK(g) /\ HandleOK(g) /\ OwnJob(g) /\ ReadyOK(g)

\* Where the loop is and what it has at hand there.
Quiet == \A g \in Gpu : sched.inbox[g] = <<>>
AllGone ==
  /\ sched.active = 0 /\ sched.draining = 0 /\ sched.idle = {}
  /\ \A g \in Gpu : worker[g] = Gone /\ held[g] = 0 /\ events[g] = <<>> /\ sched.inbox[g] = <<>>
LoopOK ==
  /\ sched.active # 0 => sched.draining = 0
  /\ sched.pc \in {"poll", "claim", "fill", "late"} => Quiet
  /\ sched.pc = "fill" => sched.active # 0 /\ sched.pending \subseteq sched.idle
  /\ sched.pc = "late" => sched.active # 0
  /\ sched.pc = "claim" => sched.active = 0 /\ sched.draining = 0 /\ sched.idle = Gpu
  /\ IF sched.pc \in {"down", "recover"} THEN AllGone
     ELSE \A g \in Gpu : worker[g].pc # "dead"

Turns == LoopOK /\ \A g \in Gpu : WorkerOK(g)

--------------------------------------------------------------------------------
(* Sequences of events and commands.                                            *)

LEMMA HasSaid ==
  ASSUME NEW S, NEW evs \in Seq(S), NEW e \in S, NEW types
  PROVE  /\ Has(evs \o <<e>>, types) <=> Has(evs, types) \/ e.type \in types
         /\ ReadyLast(evs) /\ ~Has(evs, {"ready"}) => ReadyLast(evs \o <<e>>)
<1> DEFINE said == evs \o <<e>>
           n == Len(evs)
<1>1. /\ n \in Nat /\ said \in Seq(S) /\ Len(said) = n + 1
      /\ \A i \in 1..n : said[i] = evs[i] /\ said[n + 1] = e
      /\ DOMAIN evs = 1..n /\ DOMAIN said = 1..(n + 1)
  OBVIOUS
<1>2. said[n + 1] = e
  OBVIOUS
<1> HIDE DEF said, n
<1>3. Has(said, types) <=> Has(evs, types) \/ e.type \in types
  <2>1. ASSUME Has(said, types) PROVE Has(evs, types) \/ e.type \in types
    <3>1. PICK i \in 1..(n + 1) : said[i].type \in types
      BY <1>1, <2>1 DEF Has
    <3>2. i = n + 1 \/ i \in 1..n
      BY <1>1
    <3> QED
      BY <1>1, <1>2, <3>1, <3>2 DEF Has
  <2>2. ASSUME Has(evs, types) PROVE Has(said, types)
    <3>1. PICK i \in 1..n : evs[i].type \in types
      BY <1>1, <2>2 DEF Has
    <3>2. i \in 1..(n + 1) /\ said[i] = evs[i]
      BY <1>1
    <3> QED
      BY <1>1, <3>1, <3>2 DEF Has
  <2>3. ASSUME e.type \in types PROVE Has(said, types)
    <3>1. n + 1 \in 1..(n + 1)
      BY <1>1
    <3> QED
      BY <1>1, <1>2, <2>3, <3>1 DEF Has
  <2> QED
    BY <2>1, <2>2, <2>3
<1>4. ASSUME ~Has(evs, {"ready"}) PROVE ReadyLast(said)
  <2> SUFFICES ASSUME NEW i \in 1..(n + 1), said[i].type = "ready" PROVE i = n + 1
    BY <1>1 DEF ReadyLast
  <2>1. i \in 1..n => evs[i].type = "ready"
    BY <1>1
  <2>2. i \in 1..n => Has(evs, {"ready"})
    BY <1>1, <2>1 DEF Has
  <2> QED
    BY <1>1, <1>4, <2>2
<1> QED
  BY <1>3, <1>4 DEF said

LEMMA TailSays ==
  ASSUME NEW S, NEW evs \in Seq(S), evs # <<>>, ReadyLast(evs), NEW rest, rest = Tail(evs)
  PROVE  /\ ReadyLast(rest) /\ (Has(rest, {"ready"}) => Has(evs, {"ready"}))
         /\ Head(evs).type = "ready" => Has(evs, {"ready"}) /\ rest = <<>>
<1> DEFINE n == Len(evs)
<1>1. /\ n \in Nat \ {0} /\ rest \in Seq(S) /\ Len(rest) = n - 1 /\ Head(evs) = evs[1]
      /\ \A i \in 1..(n - 1) : rest[i] = evs[i + 1]
      /\ DOMAIN evs = 1..n /\ DOMAIN rest = 1..(n - 1)
  OBVIOUS
<1>2. rest = <<>> <=> n = 1
  <2>1. rest = <<>> <=> Len(rest) = 0
    BY <1>1, EmptySeq
  <2> QED
    BY <1>1, <2>1
<1> HIDE DEF n
<1>3. \A i \in 1..(n - 1) : i + 1 \in 1..n
  BY <1>1
<1>4. ReadyLast(rest)
  <2> SUFFICES ASSUME NEW i \in 1..(n - 1), rest[i].type = "ready" PROVE i = n - 1
    BY <1>1 DEF ReadyLast
  <2>1. i + 1 = n
    BY <1>1, <1>3 DEF ReadyLast, n
  <2> QED
    BY <1>1, <2>1
<1>5. Has(rest, {"ready"}) => Has(evs, {"ready"})
  BY <1>1, <1>3 DEF Has
<1>6. ASSUME Head(evs).type = "ready" PROVE Has(evs, {"ready"}) /\ n = 1
  <2>1. 1 \in 1..n /\ evs[1].type = "ready"
    BY <1>1, <1>6
  <2> QED
    BY <1>1, <2>1 DEF Has, ReadyLast, n
<1> QED
  BY <1>2, <1>4, <1>5, <1>6

\* A word about the end of a job is not an assignment.
LEMMA CancelSent ==
  ASSUME NEW S, NEW w, NEW v, NEW c, w.commands \in Seq(S), c.kind # "assignment",
         v = [w EXCEPT !.commands = Append(@, c)], DOMAIN w = {"pc", "shard", "commands"}
  PROVE  /\ v.pc = w.pc /\ v.shard = w.shard
         /\ \A i : i \in DOMAIN v.commands /\ Assigns(v, i) =>
              i \in DOMAIN w.commands /\ Assigns(w, i) /\ v.commands[i] = w.commands[i]
         /\ NoAssignment(v) <=> NoAssignment(w)
<1> DEFINE s == w.commands
           t == Append(s, c)
           n == Len(s)
<1>1. /\ n \in Nat /\ DOMAIN s = 1..n /\ DOMAIN t = 1..(n + 1)
      /\ \A i \in 1..n : t[i] = s[i]
      /\ t[n + 1] = c
  OBVIOUS
<1>2. v.pc = w.pc /\ v.shard = w.shard /\ v.commands = t
  OBVIOUS
<1> HIDE DEF s, t, n
<1>3. \A i : i \in DOMAIN t /\ t[i].kind = "assignment" =>
        i \in DOMAIN s /\ s[i].kind = "assignment" /\ t[i] = s[i]
  BY <1>1
<1>4. \A i \in DOMAIN s : i \in DOMAIN t /\ t[i] = s[i]
  BY <1>1
<1> QED
  BY <1>2, <1>3, <1>4 DEF Assigns, NoAssignment, s

--------------------------------------------------------------------------------
(* The workers.                                                                 *)

\* Another worker's step is nothing to a worker.
LEMMA SameWorker ==
  ASSUME NEW h \in Gpu, WorkerOK(h), worker'[h] = worker[h], events'[h] = events[h],
         held'[h] = held[h], sched'.inbox[h] = sched.inbox[h],
         h \in sched'.idle => h \in sched.idle,
         Engaged(h) => Current' = Current /\ shards'[held[h]].job = shards[held[h]].job
  PROVE  WorkerOK(h)'
<1>1. /\ Engaged(h)' <=> Engaged(h)
      /\ Free(h)' <=> Free(h)
  BY DEF Engaged, Free, NoAssignment, Assigns
<1>2. QueueOK(h)'
  BY DEF WorkerOK, QueueOK, NoAssignment, Assigns
<1>3. HandleOK(h)'
  BY <1>1 DEF WorkerOK, HandleOK, Has
<1>4. OwnJob(h)'
  BY <1>1 DEF WorkerOK, OwnJob
<1>5. ReadyOK(h)'
  BY <1>1 DEF WorkerOK, ReadyOK, Has, ReadyLast
<1> QED
  BY <1>2, <1>3, <1>4, <1>5 DEF WorkerOK

LEMMA WorkerTurn ==
  ASSUME IInv, Turns, NEW g \in Gpu, NEW w, worker' = [worker EXCEPT ![g] = w],
         worker[g].pc # "dead", w.pc # "dead",
         \A h \in Gpu : h # g => events'[h] = events[h],
         UNCHANGED <<sched, held, shards>>, WorkerOK(g)'
  PROVE  Turns'
<1>1. worker'[g] = w /\ \A h \in Gpu : h # g => worker'[h] = worker[h]
  BY DEF IInv, MemoryOK
<1>2. sched.pc \notin {"down", "recover"}
  BY DEF Turns, LoopOK, AllGone, Gone
<1>3. LoopOK'
  BY <1>1, <1>2 DEF Turns, LoopOK, Quiet
<1>4. \A h \in Gpu : h # g => WorkerOK(h)'
  BY <1>1, SameWorker DEF Turns, Current
<1> QED
  BY <1>3, <1>4 DEF Turns

\* A worker that is not idle has no assignment in its queue and is not ready.
LEMMA NotIdle ==
  ASSUME NEW g \in Gpu, WorkerOK(g), worker[g].pc # "idle"
  PROVE  /\ NoAssignment(worker[g]) /\ ~Has(events[g], {"ready"})
         /\ ~Has(sched.inbox[g], {"ready"}) /\ g \notin sched.idle
BY DEF WorkerOK, QueueOK, ReadyOK, Free, NoAssignment

\* What a worker says is added to what it said.
LEMMA Said ==
  ASSUME IInv, NEW g \in Gpu, NEW e \in EventOf(Len(shards)), Emit(g, <<e>>), NEW types
  PROVE  /\ events' = [events EXCEPT ![g] = @ \o <<e>>] /\ \A h \in Gpu : h # g => events'[h] = events[h]
         /\ Has(events'[g], types) <=> Has(events[g], types) \/ e.type \in types
         /\ ReadyLast(events[g]) /\ ~Has(events[g], {"ready"}) => ReadyLast(events'[g])
<1>1. events \in [Gpu -> Seq(EventOf(Len(shards)))]
  BY DEF IInv, MemoryOK
<1>2. events'[g] = events[g] \o <<e>>
  BY <1>1 DEF Emit
<1>3. events[g] \in Seq(EventOf(Len(shards)))
  BY <1>1
<1> QED
  BY <1>1, <1>2, <1>3, HasSaid DEF Emit

LEMMA BootTurns ==
  ASSUME IInv, Turns, NEW g \in Gpu, Boot(g)
  PROVE  Turns'
<1> DEFINE w == [worker[g] EXCEPT !.pc = "testing"]
           e == Event("starting", 0)
<1>1. /\ worker' = [worker EXCEPT ![g] = w] /\ worker[g].pc = "booting" /\ Emit(g, <<e>>)
      /\ UNCHANGED <<sched, held, shards>>
  BY DEF Boot, dbvars
<1>2. worker[g] \in WorkerState(Len(shards)) /\ worker'[g] = w
  BY <1>1 DEF IInv, MemoryOK
<1>3. w.pc = "testing" /\ w.commands = worker[g].commands
  BY <1>2 DEF WorkerState
<1>4. e \in EventOf(Len(shards)) /\ e.type = "starting"
  BY DEF EventOf, Event
<1>5. WorkerOK(g)
  BY DEF Turns
<1>6. /\ NoAssignment(worker[g]) /\ ~Has(events[g], {"ready"})
      /\ ~Has(sched.inbox[g], {"ready"}) /\ g \notin sched.idle
  BY <1>1, <1>5, NotIdle
<1> HIDE DEF w, e
<1>7. /\ Has(events'[g], Completion) <=> Has(events[g], Completion)
      /\ ~Has(events'[g], {"ready"}) /\ ReadyLast(events'[g])
      /\ \A h \in Gpu : h # g => events'[h] = events[h]
  BY <1>1, <1>4, <1>5, <1>6, Said DEF WorkerOK, ReadyOK, Completion
<1>8. ~Engaged(g) /\ ~Engaged(g)' /\ NoAssignment(worker[g])'
  BY <1>1, <1>2, <1>3, <1>6 DEF Engaged, NoAssignment, Assigns
<1>9. WorkerOK(g)'
  <2>1. QueueOK(g)'
    BY <1>2, <1>3, <1>8 DEF QueueOK, NoAssignment
  <2>2. HandleOK(g)' /\ OwnJob(g)'
    BY <1>1, <1>5, <1>7, <1>8 DEF WorkerOK, HandleOK, OwnJob
  <2>3. ReadyOK(g)'
    BY <1>1, <1>5, <1>6, <1>7 DEF WorkerOK, ReadyOK
  <2> QED
    BY <2>1, <2>2, <2>3 DEF WorkerOK
<1> QED
  BY <1>1, <1>3, <1>7, <1>9, WorkerTurn

\* A worker that was not ready, and not engaged, is.
LEMMA Readied ==
  ASSUME IInv, Turns, NEW g \in Gpu, worker[g].pc \in {"testing", "reported"},
         worker' = [worker EXCEPT ![g].pc = "idle"], Emit(g, <<Event("ready", 0)>>),
         UNCHANGED <<sched, held, shards>>
  PROVE  Turns'
<1> DEFINE w == [worker[g] EXCEPT !.pc = "idle"]
           e == Event("ready", 0)
<1>1. worker' = [worker EXCEPT ![g] = w] /\ Emit(g, <<e>>)
  OBVIOUS
<1>2. worker[g] \in WorkerState(Len(shards)) /\ worker'[g] = w
  BY <1>1 DEF IInv, MemoryOK
<1>3. w.pc = "idle" /\ w.commands = worker[g].commands
  BY <1>2 DEF WorkerState
<1>4. e \in EventOf(Len(shards)) /\ e.type = "ready"
  BY DEF EventOf, Event
<1>5. WorkerOK(g)
  BY DEF Turns
<1>6. /\ NoAssignment(worker[g]) /\ ~Has(events[g], {"ready"})
      /\ ~Has(sched.inbox[g], {"ready"}) /\ g \notin sched.idle
  BY <1>5, NotIdle
<1> HIDE DEF w, e
<1>7. /\ Has(events'[g], Completion) <=> Has(events[g], Completion)
      /\ ReadyLast(events'[g])
      /\ \A h \in Gpu : h # g => events'[h] = events[h]
  BY <1>1, <1>4, <1>5, <1>6, Said DEF WorkerOK, ReadyOK, Completion
<1>8. ~Engaged(g) /\ ~Engaged(g)' /\ NoAssignment(worker[g])' /\ Free(g)'
  BY <1>2, <1>3, <1>6 DEF Engaged, Free, NoAssignment, Assigns
<1>9. WorkerOK(g)'
  <2>1. QueueOK(g)'
    BY <1>2, <1>3, <1>8 DEF QueueOK, NoAssignment
  <2>2. HandleOK(g)' /\ OwnJob(g)'
    BY <1>5, <1>7, <1>8 DEF WorkerOK, HandleOK, OwnJob
  <2>3. ReadyOK(g)'
    BY <1>5, <1>6, <1>7, <1>8 DEF WorkerOK, ReadyOK
  <2> QED
    BY <2>1, <2>2, <2>3 DEF WorkerOK
<1> QED
  BY <1>1, <1>3, <1>7, <1>9, WorkerTurn

\* An engaged worker reports the end of its range.
LEMMA ReportTurns ==
  ASSUME IInv, Turns, NEW g \in Gpu, worker[g].pc = "busy", NEW type \in Completion,
         NEW rest \in {worker[g].commands, <<>>}, Report(g, type, rest)
  PROVE  Turns'
<1> DEFINE w == [pc |-> "reported", shard |-> 0, commands |-> rest]
           e == Event(type, worker[g].shard)
<1>1. /\ worker' = [worker EXCEPT ![g] = w] /\ Emit(g, <<e>>) /\ UNCHANGED <<sched, held, shards>>
  BY DEF Report, dbvars
<1>2. worker[g] \in WorkerState(Len(shards)) /\ worker'[g] = w
  BY <1>1 DEF IInv, MemoryOK
<1>3. w.pc = "reported" /\ w.commands = rest
  OBVIOUS
<1>4. e \in EventOf(Len(shards)) /\ e.type = type /\ type # "ready"
  <2>1. worker[g].shard \in 0..Len(shards) /\ worker[g].shard # 0
    BY <1>2 DEF IInv, MemoryOK, WorkerState
  <2>2. worker[g].shard \in 1..Len(shards)
    BY <2>1, ShardsType DEF IInv, TypeOK
  <2> QED
    BY <2>2 DEF EventOf, Event, Completion
<1>5. WorkerOK(g)
  BY DEF Turns
<1>6. /\ NoAssignment(worker[g]) /\ ~Has(events[g], {"ready"})
      /\ ~Has(sched.inbox[g], {"ready"}) /\ g \notin sched.idle
  BY <1>5, NotIdle
<1> HIDE DEF w, e
<1>7. /\ Has(events'[g], Completion) /\ ~Has(events'[g], {"ready"})
      /\ ReadyLast(events'[g])
      /\ \A h \in Gpu : h # g => events'[h] = events[h]
  BY <1>1, <1>4, <1>5, <1>6, Said DEF WorkerOK, ReadyOK
<1>8. ~Engaged(g)' /\ NoAssignment(worker[g])'
  BY <1>2, <1>3, <1>6 DEF Engaged, NoAssignment, Assigns
<1>9. WorkerOK(g)'
  <2>1. QueueOK(g)'
    BY <1>2, <1>3, <1>8 DEF QueueOK, NoAssignment
  <2>2. HandleOK(g)' /\ OwnJob(g)'
    BY <1>7, <1>8 DEF HandleOK, OwnJob
  <2>3. ReadyOK(g)'
    BY <1>1, <1>5, <1>6, <1>7 DEF WorkerOK, ReadyOK
  <2> QED
    BY <2>1, <2>2, <2>3 DEF WorkerOK
<1> QED
  BY <1>1, <1>3, <1>7, <1>9, WorkerTurn

LEMMA Readies ==
  ASSUME IInv, Turns, NEW g \in Gpu, Ready(g) \/ SelfTest(g), faults'.deaths = 0
  PROVE  Turns'
<1>1. CASE Ready(g)
  BY <1>1, Readied DEF Ready, dbvars
<1>2. CASE SelfTest(g)
  <2>1. ~(faults' = [faults EXCEPT !.deaths = @ + 1])
    <3>1. faults \in [kills : 0..MaxKills, stops : 0..MaxStops,
                 deaths : 0..MaxDeaths, calls : 0..MaxCalls]
      BY DEF IInv, TypeOK
    <3>2. faults.deaths \in Nat
      BY <3>1, SizeAssumption
    <3> QED
      BY <3>1, <3>2
  <2>2. /\ worker[g].pc = "testing" /\ worker' = [worker EXCEPT ![g].pc = "idle"]
        /\ Emit(g, <<Event("ready", 0)>>) /\ UNCHANGED <<sched, held, shards>>
    BY <1>2, <2>1 DEF SelfTest, dbvars
  <2> QED
    BY <2>2, Readied
<1> QED
  BY <1>1, <1>2

\* The command that a worker takes is the first; the others move up.
LEMMA TailSent ==
  ASSUME NEW S, NEW w, NEW v, w.commands \in Seq(S), w.commands # <<>>,
         v.commands = Tail(w.commands)
  PROVE  /\ 1 \in DOMAIN w.commands /\ Head(w.commands) = w.commands[1]
         /\ \A i \in DOMAIN v.commands :
              i + 1 \in DOMAIN w.commands /\ i + 1 # 1 /\ v.commands[i] = w.commands[i + 1]
         /\ \A i, k \in DOMAIN v.commands : i + 1 = k + 1 => i = k
         /\ ~Assigns(w, 1) => (NoAssignment(v) <=> NoAssignment(w))
<1> DEFINE s == w.commands
           t == Tail(s)
           n == Len(s)
<1>1. /\ n \in Nat \ {0} /\ DOMAIN s = 1..n /\ DOMAIN t = 1..(n - 1) /\ Head(s) = s[1]
      /\ \A i \in 1..(n - 1) : t[i] = s[i + 1]
  OBVIOUS
<1>2. v.commands = t
  OBVIOUS
<1> HIDE DEF t, n
<1>3. \A i \in 1..(n - 1) : i + 1 \in 1..n /\ i + 1 # 1
  BY <1>1
<1>4. \A k \in 1..n : k = 1 \/ (k - 1 \in 1..(n - 1) /\ (k - 1) + 1 = k)
  BY <1>1
<1>5. \A i, k \in 1..(n - 1) : i + 1 = k + 1 => i = k
  BY <1>1
<1>6. 1 \in 1..n
  BY <1>1
<1>7. ASSUME ~Assigns(w, 1), NoAssignment(v) PROVE NoAssignment(w)
  <2> SUFFICES ASSUME NEW k \in 1..n, Assigns(w, k) PROVE FALSE
    BY <1>1 DEF NoAssignment
  <2>1. k - 1 \in 1..(n - 1) /\ t[k - 1] = s[k]
    BY <1>1, <1>4, <1>7
  <2> QED
    BY <1>1, <1>2, <1>7, <2>1 DEF NoAssignment, Assigns
<1>8. ASSUME NoAssignment(w) PROVE NoAssignment(v)
  BY <1>1, <1>2, <1>3, <1>8 DEF NoAssignment, Assigns
<1> QED
  BY <1>1, <1>2, <1>3, <1>5, <1>6, <1>7, <1>8

LEMMA TakeTurns ==
  ASSUME IInv, Turns, NEW g \in Gpu, Take(g)
  PROVE  Turns'
<1> DEFINE n == Len(shards)
           c == Head(worker[g].commands)
           rest == Tail(worker[g].commands)
           w == worker'[g]
<1>1. /\ worker[g] \in WorkerState(n) /\ DOMAIN worker = Gpu /\ n \in Nat
      /\ worker[g].commands \in Seq(CommandOf(n))
  BY ShardsType DEF IInv, MemoryOK, TypeOK, WorkerState
<1>2. /\ worker[g].pc = "idle" /\ worker[g].commands # <<>>
      /\ UNCHANGED <<sched, held, shards>>
  BY DEF Take, dbvars
<1>3. c \in CommandOf(n)
  BY <1>1, <1>2, HeadTailProperties
<1>4. WorkerOK(g)
  BY DEF Turns
<1>5. CASE c.kind = "assignment"
  <2> DEFINE v == [pc |-> "busy", shard |-> c.of, commands |-> rest]
             e == Event("started", c.of)
  <2>1. worker' = [worker EXCEPT ![g] = v] /\ Emit(g, <<e>>) /\ w = v
    BY <1>1, <1>5 DEF Take
  <2>2. v.pc = "busy" /\ v.shard = c.of /\ v.commands = rest
    OBVIOUS
  <2>3. e \in EventOf(n) /\ e.type = "started"
    <3>1. PICK i \in 1..n : c = Assignment(i)
      BY <1>3, <1>5 DEF CommandOf, CancelJob
    <3>2. c.of \in 1..n
      BY <3>1 DEF Assignment
    <3> QED
      BY <1>1, <3>2, EventTyped DEF Event
  <2>4. /\ 1 \in DOMAIN worker[g].commands /\ c = worker[g].commands[1]
        /\ \A i \in DOMAIN v.commands :
             /\ i + 1 \in DOMAIN worker[g].commands /\ i + 1 # 1
             /\ v.commands[i] = worker[g].commands[i + 1]
    BY <1>1, <1>2, <2>2, TailSent
  <2> HIDE DEF v, e, c, rest, n, w
  <2>5. /\ Assigns(worker[g], 1) /\ c.of = held[g] /\ NoAssignment(v)
    BY <1>4, <1>5, <2>4 DEF WorkerOK, QueueOK, Assigns, NoAssignment
  <2>6. Engaged(g) /\ ~Free(g)
    BY <2>4, <2>5 DEF Engaged, Free, NoAssignment
  <2>7. Engaged(g)'
    BY <2>1, <2>2 DEF Engaged, w
  <2>8. /\ ~Has(events[g], {"ready"}) /\ ~Has(sched.inbox[g], {"ready"}) /\ g \notin sched.idle
        /\ ReadyLast(events[g]) /\ held[g] # 0 /\ ~Has(events[g], Completion)
    BY <1>4, <2>6 DEF WorkerOK, ReadyOK, HandleOK
  <2>9. /\ ~Has(events'[g], Completion) /\ ~Has(events'[g], {"ready"}) /\ ReadyLast(events'[g])
        /\ \A h \in Gpu : h # g => events'[h] = events[h]
    BY <2>1, <2>3, <2>8, Said DEF Completion, n
  <2>10. WorkerOK(g)'
    <3>1. QueueOK(g)'
      BY <1>2, <2>1, <2>2, <2>5 DEF QueueOK, NoAssignment, Assigns, w
    <3>2. HandleOK(g)' /\ OwnJob(g)'
      BY <1>2, <1>4, <2>6, <2>7, <2>8, <2>9 DEF WorkerOK, HandleOK, OwnJob, Current
    <3>3. ReadyOK(g)'
      BY <1>2, <1>4, <2>8, <2>9 DEF WorkerOK, ReadyOK
    <3> QED
      BY <3>1, <3>2, <3>3 DEF WorkerOK
  <2>11. worker[g].pc # "dead" /\ v.pc # "dead"
    BY <1>2, <2>2
  <2> QED
    BY <1>2, <2>1, <2>9, <2>10, <2>11, WorkerTurn
<1>6. CASE c.kind # "assignment"
  <2> DEFINE v == [worker[g] EXCEPT !.commands = rest]
  <2>1. worker' = [worker EXCEPT ![g] = v] /\ w = v /\ UNCHANGED events
    BY <1>1, <1>6 DEF Take
  <2>2. v.pc = "idle" /\ v.shard = worker[g].shard /\ v.commands = rest
    BY <1>1, <1>2 DEF WorkerState
  <2> HIDE DEF v
  <2>3. /\ 1 \in DOMAIN worker[g].commands /\ c = worker[g].commands[1]
        /\ \A i \in DOMAIN v.commands :
             /\ i + 1 \in DOMAIN worker[g].commands /\ i + 1 # 1
             /\ v.commands[i] = worker[g].commands[i + 1]
        /\ \A i, k \in DOMAIN v.commands : i + 1 = k + 1 => i = k
        /\ ~Assigns(worker[g], 1) => (NoAssignment(v) <=> NoAssignment(worker[g]))
    BY <1>1, <1>2, <2>2, TailSent
  <2> HIDE DEF c, rest, n, w
  <2>4. NoAssignment(v) <=> NoAssignment(worker[g])
    BY <1>6, <2>3 DEF Assigns
  <2>5. (Engaged(g)' <=> Engaged(g)) /\ (Free(g)' <=> Free(g))
    BY <1>2, <2>1, <2>2, <2>4 DEF Engaged, Free, w
  <2>6. \A i \in DOMAIN v.commands : Assigns(v, i) => Assigns(worker[g], i + 1)
    BY <2>3 DEF Assigns
  <2>7. WorkerOK(g)'
    <3>1. QueueOK(g)'
      <4> SUFFICES ASSUME NEW i \in DOMAIN v.commands, Assigns(v, i)
                   PROVE  /\ v.commands[i].of = held[g]
                          /\ \A k \in DOMAIN v.commands : Assigns(v, k) => k = i
        BY <1>2, <2>1, <2>2 DEF QueueOK, w
      <4> QED
        BY <1>4, <2>3, <2>6 DEF WorkerOK, QueueOK
    <3>2. HandleOK(g)' /\ OwnJob(g)'
      BY <1>2, <1>4, <2>1, <2>5 DEF WorkerOK, HandleOK, OwnJob, Current
    <3>3. ReadyOK(g)'
      BY <1>2, <1>4, <2>1, <2>5 DEF WorkerOK, ReadyOK
    <3> QED
      BY <3>1, <3>2, <3>3 DEF WorkerOK
  <2>8. worker[g].pc # "dead" /\ v.pc # "dead"
    BY <1>2, <2>2
  <2> QED
    BY <1>2, <2>1, <2>7, <2>8, WorkerTurn
<1> QED
  BY <1>5, <1>6

LEMMA SearchTurns ==
  ASSUME IInv, Turns, NEW g \in Gpu, Search(g) \/ DrainCommands(g)
  PROVE  Turns'
<1>1. CASE \E type \in Completion, rest \in {worker[g].commands, <<>>} : Report(g, type, rest)
  <2>1. worker[g].pc = "busy"
    BY DEF Search, DrainCommands
  <2> QED
    BY <1>1, <2>1, ReportTurns
<1>2. CASE ~\E type \in Completion, rest \in {worker[g].commands, <<>>} : Report(g, type, rest)
  <2> DEFINE v == [worker[g] EXCEPT !.commands = <<>>]
  <2>1. /\ worker[g].pc = "busy" /\ worker' = [worker EXCEPT ![g] = v]
        /\ UNCHANGED <<sched, held, shards, events>>
    BY <1>2 DEF Search, DrainCommands, Completion, dbvars
  <2>2. /\ worker[g] \in WorkerState(Len(shards)) /\ worker'[g] = v
    BY <2>1 DEF IInv, MemoryOK
  <2>3. v.pc = "busy" /\ v.shard = worker[g].shard /\ v.commands = <<>> /\ NoAssignment(v)
    BY <2>1, <2>2 DEF WorkerState, NoAssignment
  <2>4. WorkerOK(g)
    BY DEF Turns
  <2> HIDE DEF v
  <2>5. (Engaged(g)' <=> Engaged(g)) /\ (Free(g)' <=> Free(g)) /\ NoAssignment(worker[g])'
    BY <2>1, <2>2, <2>3 DEF Engaged, Free, NoAssignment, Assigns
  <2>6. WorkerOK(g)'
    BY <2>1, <2>2, <2>3, <2>4, <2>5
       DEF WorkerOK, QueueOK, HandleOK, OwnJob, ReadyOK, Current, NoAssignment
  <2> QED
    BY <2>1, <2>3, <2>6, WorkerTurn
<1> QED
  BY <1>1, <1>2

LEMMA WorkerTurns ==
  ASSUME IInv, Turns, NEW g \in Gpu, Worker(g) \/ Die(g), faults'.deaths = 0
  PROVE  Turns'
<1>1. ~Die(g)
  <2>1. faults \in [kills : 0..MaxKills, stops : 0..MaxStops,
                 deaths : 0..MaxDeaths, calls : 0..MaxCalls]
    BY DEF IInv, TypeOK
  <2>2. faults.deaths \in Nat
    BY <2>1, SizeAssumption
  <2> QED
    BY <2>1, <2>2 DEF Die
<1> QED
  BY <1>1, BootTurns, Readies, TakeTurns, SearchTurns DEF Worker

--------------------------------------------------------------------------------
(* The scheduler.                                                               *)

LEMMA NothingTurns ==
  ASSUME Turns, UNCHANGED <<sched, held, shards, worker, events>>
  PROVE  Turns'
<1>1. LoopOK'
  BY DEF Turns, LoopOK, AllGone, Quiet, Gone
<1>2. \A h \in Gpu : WorkerOK(h)'
  BY SameWorker DEF Turns, Current
<1> QED
  BY <1>1, <1>2 DEF Turns

\* A new process, and none, are neither engaged nor ready.
LEMMA Rested ==
  ASSUME NEW g \in Gpu, worker'[g] \in {Fresh, Gone}, held'[g] = 0, events'[g] = <<>>,
         sched'.inbox[g] = <<>>, g \notin sched'.idle
  PROVE  WorkerOK(g)'
<1>1. worker'[g].commands = <<>> /\ worker'[g].pc \in {"booting", "dead"}
  BY DEF Fresh, Gone
<1>2. \A i \in DOMAIN worker'[g].commands : FALSE
  BY <1>1
<1>3. \A i \in DOMAIN events'[g] : FALSE
  OBVIOUS
<1>4. \A i \in DOMAIN sched'.inbox[g] : FALSE
  OBVIOUS
<1>5. NoAssignment(worker[g])' /\ ~Engaged(g)' /\ QueueOK(g)'
  BY <1>1, <1>2 DEF NoAssignment, Engaged, QueueOK
<1>6. HandleOK(g)' /\ OwnJob(g)'
  BY <1>5 DEF HandleOK, OwnJob
<1>7. ReadyOK(g)'
  BY <1>3, <1>4 DEF ReadyOK, ReadyLast, Has
<1> QED
  BY <1>5, <1>6, <1>7 DEF WorkerOK

LEMMA EndsTurns ==
  ASSUME NEW error, Forgotten(error)
  PROVE  Turns'
<1>1. /\ sched'.pc = "down" /\ sched'.active = 0 /\ sched'.draining = 0 /\ sched'.idle = {}
      /\ \A g \in Gpu : /\ sched'.inbox[g] = <<>> /\ held'[g] = 0 /\ worker'[g] = Gone
                        /\ events'[g] = <<>>
  BY DEF Forgotten, Down
<1>2. LoopOK'
  BY <1>1 DEF LoopOK, AllGone, Gone
<1>3. \A g \in Gpu : WorkerOK(g)'
  BY <1>1, Rested
<1> QED
  BY <1>2, <1>3 DEF Turns

LEMMA StartTurns ==
  ASSUME IInv, Turns, Start
  PROVE  Turns'
<1>1. sched \in Memory(Len(shards)) /\ sched.pc = "down"
  BY DEF IInv, MemoryOK, Start
<1>2. /\ sched'.pc = "recover" /\ sched'.active = sched.active
      /\ sched'.draining = sched.draining /\ sched'.idle = sched.idle
      /\ sched'.inbox = sched.inbox
      /\ UNCHANGED <<shards, held, worker, events>>
  BY <1>1 DEF Start, Memory, dbvars
<1>3. AllGone
  BY <1>1 DEF Turns, LoopOK
<1>4. LoopOK'
  BY <1>2, <1>3 DEF LoopOK, AllGone, Gone
<1>5. \A h \in Gpu : WorkerOK(h)'
  BY <1>2, SameWorker DEF Turns, Current
<1> QED
  BY <1>4, <1>5 DEF Turns

LEMMA RecoverTurns ==
  ASSUME IInv, Turns, Recover
  PROVE  Turns'
<1>1. AllGone
  BY DEF Turns, LoopOK, Recover
<1>2. /\ sched'.pc = "poll" /\ sched'.active = 0 /\ sched'.draining = 0 /\ sched'.idle = {}
      /\ \A g \in Gpu : /\ sched'.inbox[g] = <<>> /\ held'[g] = 0 /\ worker'[g] = Fresh
                        /\ events'[g] = <<>>
  BY <1>1 DEF Recover, Down, AllGone
<1>3. LoopOK'
  BY <1>2 DEF LoopOK, Quiet, Fresh
<1>4. \A g \in Gpu : WorkerOK(g)'
  BY <1>2, Rested
<1> QED
  BY <1>3, <1>4 DEF Turns

LEMMA PollTurns ==
  ASSUME IInv, Turns, Poll
  PROVE  Turns'
<1>1. sched \in Memory(Len(shards)) /\ sched.pc = "poll"
  BY DEF IInv, MemoryOK, Poll
<1>2. /\ sched'.pc = "restart" /\ sched'.active = sched.active
      /\ sched'.draining = sched.draining /\ sched'.idle = sched.idle
      /\ sched'.inbox = events /\ UNCHANGED <<shards, worker>>
      /\ \A g \in Gpu : /\ events'[g] = <<>>
                        /\ held'[g] = IF Has(events[g], Completion) THEN 0 ELSE held[g]
  BY <1>1 DEF Poll, Memory, dbvars, Has
<1>3. LoopOK'
  BY <1>1, <1>2 DEF Turns, LoopOK
<1>4. ASSUME NEW g \in Gpu PROVE WorkerOK(g)'
  <2>1. WorkerOK(g)
    BY DEF Turns
  <2>2. (Engaged(g)' <=> Engaged(g)) /\ (Free(g)' <=> Free(g))
    BY <1>2 DEF Engaged, Free, NoAssignment, Assigns
  <2>3. Engaged(g) => held'[g] = held[g]
    BY <1>2, <2>1 DEF WorkerOK, HandleOK
  <2>4. ~Engaged(g) => held'[g] = 0
    BY <1>2, <2>1 DEF WorkerOK, HandleOK
  <2>5. \A i \in DOMAIN events'[g] : FALSE
    BY <1>2
  <2>6. QueueOK(g)'
    BY <1>2, <2>1, <2>3 DEF WorkerOK, QueueOK, Engaged, NoAssignment, Assigns
  <2>7. HandleOK(g)' /\ OwnJob(g)'
    BY <1>2, <2>1, <2>2, <2>3, <2>4, <2>5 DEF WorkerOK, HandleOK, OwnJob, Current, Has
  <2>8. Free(g) => ~Engaged(g)
    BY DEF Free, Engaged
  <2>9. ReadyOK(g)'
    <3>1. ReadyLast(events[g])' /\ ReadyLast(sched.inbox[g])' /\ ~Has(events[g], {"ready"})'
      BY <1>2, <2>1, <2>5 DEF WorkerOK, ReadyOK, ReadyLast, Has
    <3>2. Has(sched.inbox[g], {"ready"})' => Free(g)' /\ held'[g] = 0 /\ events'[g] = <<>>
      BY <1>2, <2>1, <2>2, <2>4, <2>8 DEF WorkerOK, ReadyOK, Has
    <3>3. g \in sched'.idle =>
            Free(g)' /\ held'[g] = 0 /\ events'[g] = <<>> /\ sched'.inbox[g] = <<>>
      BY <1>2, <2>1, <2>2, <2>4, <2>8 DEF WorkerOK, ReadyOK
    <3> QED
      BY <3>1, <3>2, <3>3 DEF ReadyOK
  <2> QED
    BY <2>6, <2>7, <2>9 DEF WorkerOK
<1> QED
  BY <1>3, <1>4 DEF Turns

\* Nobody is dead where the loop looks for dead workers.
LEMMA RestartDeadTurns ==
  ASSUME IInv, Turns, RestartDead
  PROVE  Turns'
<1>1. sched \in Memory(Len(shards)) /\ sched.pc = "restart"
  BY DEF IInv, MemoryOK, RestartDead
<1>2. \A g \in Gpu : worker[g].pc # "dead"
  BY <1>1 DEF Turns, LoopOK
<1>3. /\ sched'.pc = "handle" /\ sched'.active = sched.active
      /\ sched'.draining = sched.draining /\ sched'.idle = sched.idle
      /\ UNCHANGED <<shards, events>>
  BY <1>1 DEF RestartDead, Memory, dbvars
<1>4. ASSUME NEW g \in Gpu
      PROVE  worker'[g] = worker[g] /\ held'[g] = held[g] /\ sched'.inbox[g] = sched.inbox[g]
  <2>1. worker'[g] = worker[g] /\ held'[g] = held[g]
    BY <1>2 DEF RestartDead
  <2>2. sched'.inbox[g] = sched.inbox[g] \o <<>>
    BY <1>1, <1>2 DEF RestartDead, Memory
  <2>3. sched.inbox[g] \in Seq(EventOf(Len(shards)))
    BY <1>1 DEF Memory
  <2> QED
    BY <2>1, <2>2, <2>3, ConcatEmptySeq
<1>5. LoopOK'
  BY <1>1, <1>2, <1>3, <1>4 DEF Turns, LoopOK
<1>6. \A h \in Gpu : WorkerOK(h)'
  BY <1>3, <1>4, SameWorker DEF Turns, Current
<1> QED
  BY <1>5, <1>6 DEF Turns

\* The first event of a worker is recorded.
LEMMA EventTurns ==
  ASSUME IInv, Turns, NEW g \in Gpu, sched.inbox[g] # <<>>, sched.pc \in {"handle", "found"},
         UNCHANGED <<held, worker, events>>,
         sched'.pc = "handle", sched'.active = sched.active, sched'.draining = sched.draining,
         sched'.inbox = [sched.inbox EXCEPT ![g] = Tail(@)],
         \A h \in Gpu : h \in sched'.idle =>
           h \in sched.idle \/ (h = g /\ Head(sched.inbox[g]).type = "ready"),
         \A i \in 1..Len(shards) : shards'[i].job = shards[i].job
  PROVE  Turns'
<1>1. sched.inbox \in [Gpu -> Seq(EventOf(Len(shards)))] /\ sched.inbox[g] \in Seq(EventOf(Len(shards)))
  BY DEF IInv, MemoryOK, Memory
<1>2. /\ sched'.inbox[g] = Tail(sched.inbox[g])
      /\ \A h \in Gpu : h # g => sched'.inbox[h] = sched.inbox[h]
  BY <1>1
<1>3. LoopOK'
  BY DEF Turns, LoopOK
<1>4. ASSUME NEW h \in Gpu, Engaged(h)
      PROVE  Current' = Current /\ shards'[held[h]].job = shards[held[h]].job
  <2>1. held[h] \in 0..Len(shards) /\ held[h] # 0
    BY <1>4 DEF IInv, TypeOK, Turns, WorkerOK, HandleOK
  <2>2. held[h] \in 1..Len(shards)
    BY <2>1, ShardsType DEF IInv
  <2> QED
    BY <2>2 DEF Current
<1>5. \A h \in Gpu : h # g => WorkerOK(h)'
  <2> SUFFICES ASSUME NEW h \in Gpu, h # g PROVE WorkerOK(h)'
    OBVIOUS
  <2>1. WorkerOK(h) /\ sched'.inbox[h] = sched.inbox[h] /\ (h \in sched'.idle => h \in sched.idle)
    BY <1>2 DEF Turns
  <2> QED
    BY <1>4, <2>1, SameWorker
<1>6. WorkerOK(g)'
  <2>1. WorkerOK(g)
    BY DEF Turns
  <2>2. (Engaged(g)' <=> Engaged(g)) /\ (Free(g)' <=> Free(g))
    BY DEF Engaged, Free, NoAssignment, Assigns
  <2>3. QueueOK(g)'
    BY <2>1 DEF WorkerOK, QueueOK, NoAssignment, Assigns
  <2>4. HandleOK(g)'
    BY <2>1, <2>2 DEF WorkerOK, HandleOK, Has
  <2>5. OwnJob(g)'
    BY <1>4, <2>1, <2>2 DEF WorkerOK, OwnJob
  <2>6. ReadyLast(sched.inbox[g])
    BY <2>1 DEF WorkerOK, ReadyOK
  <2>7. /\ ReadyLast(sched'.inbox[g])
        /\ Has(sched'.inbox[g], {"ready"}) => Has(sched.inbox[g], {"ready"})
        /\ Head(sched.inbox[g]).type = "ready" =>
             Has(sched.inbox[g], {"ready"}) /\ sched'.inbox[g] = <<>>
    BY ZenonT(40), <1>1, <1>2, <2>6, TailSays
  <2>8. g \notin sched.idle
    BY <2>1 DEF WorkerOK, ReadyOK
  <2>9. Has(sched.inbox[g], {"ready"}) => Free(g)' /\ held'[g] = 0 /\ events'[g] = <<>>
    BY <2>1, <2>2 DEF WorkerOK, ReadyOK
  <2>10. g \in sched'.idle => Has(sched.inbox[g], {"ready"}) /\ sched'.inbox[g] = <<>>
    BY <1>2, <2>7, <2>8
  <2>11. ReadyLast(events[g])' /\ (Has(events[g], {"ready"})' => Free(g)')
    BY <2>1, <2>2 DEF WorkerOK, ReadyOK, ReadyLast, Has
  <2>12. ReadyLast(sched.inbox[g])'
    BY <1>2, <2>7 DEF ReadyLast
  <2>13. Has(sched.inbox[g], {"ready"})' => Has(sched.inbox[g], {"ready"})
    BY <1>2, <2>7 DEF Has
  <2>14. ReadyOK(g)'
    BY <2>9, <2>10, <2>11, <2>12, <2>13 DEF ReadyOK
  <2> QED
    BY <2>3, <2>4, <2>5, <2>14 DEF WorkerOK
<1> QED
  BY <1>3, <1>5, <1>6 DEF Turns

\* A status that is written leaves every shard to its job.
LEMMA StillItsJob ==
  ASSUME IInv, NEW s \in 1..Len(shards), NEW status, shards' = [shards EXCEPT ![s].status = status]
  PROVE  \A i \in 1..Len(shards) : shards'[i].job = shards[i].job
<1>1. DOMAIN shards = 1..Len(shards) /\ \A i \in DOMAIN shards : shards[i] \in Shard
  BY ShardsType DEF IInv
<1> SUFFICES ASSUME NEW i \in 1..Len(shards) PROVE shards'[i].job = shards[i].job
  OBVIOUS
<1>2. shards[i] \in Shard
  BY <1>1
<1>3. CASE i = s
  <2>1. shards'[i] = [shards[i] EXCEPT !.status = status]
    BY <1>1, <1>3
  <2> QED
    BY <1>2, <2>1 DEF Shard
<1>4. CASE i # s
  BY <1>1, <1>4
<1> QED
  BY <1>3, <1>4

LEMMA HandleTurns ==
  ASSUME IInv, Turns, NEW g \in Gpu, Handle(g)
  PROVE  Turns'
<1> DEFINE e == Head(sched.inbox[g])
<1>1. /\ sched \in Memory(Len(shards)) /\ sched.pc = "handle" /\ sched.inbox[g] # <<>>
      /\ UNCHANGED <<held, worker, events>>
  BY DEF IInv, MemoryOK, Handle
<1>2. e \in EventOf(Len(shards)) /\ Len(shards) \in Nat
  BY <1>1, EventTaken, ShardsType DEF IInv
<1>3. CASE e.type = "found"
  <2>1. /\ sched'.pc = "found" /\ sched'.active = sched.active
        /\ sched'.draining = sched.draining /\ sched'.idle = sched.idle
        /\ sched'.inbox = sched.inbox /\ UNCHANGED shards
    BY <1>1, <1>3 DEF Handle, Memory, dbvars
  <2>2. LoopOK'
    BY <1>1, <2>1 DEF Turns, LoopOK
  <2>3. \A h \in Gpu : WorkerOK(h)'
    BY <1>1, <2>1, SameWorker DEF Turns, Current
  <2> QED
    BY <2>2, <2>3 DEF Turns
<1>4. CASE e.type # "found"
  <2>1. /\ sched' = [sched EXCEPT !.inbox[g] = Tail(@), !.idle = IdleAfter(g, e.type)]
        /\ shards' = IF e.shard = 0 THEN shards
                     ELSE [shards EXCEPT ![e.shard].status = Reported(e.type)]
    BY <1>4 DEF Handle
  <2>2. /\ sched'.pc = "handle" /\ sched'.active = sched.active
        /\ sched'.draining = sched.draining /\ sched'.idle = IdleAfter(g, e.type)
        /\ sched'.inbox = [sched.inbox EXCEPT ![g] = Tail(@)]
    BY <1>1, <2>1 DEF Memory
  <2>3. e.shard = 0 \/ e.shard \in 1..Len(shards)
    BY <1>2, EventFields
  <2> HIDE DEF e
  <2>4. \A i \in 1..Len(shards) : shards'[i].job = shards[i].job
    BY <2>1, <2>3, StillItsJob
  <2>5. \A h \in Gpu : h \in sched'.idle => h \in sched.idle \/ (h = g /\ e.type = "ready")
    BY <2>2 DEF IdleAfter
  <2> QED
    BY <1>1, <2>2, <2>4, <2>5, EventTurns DEF e
<1> QED
  BY <1>3, <1>4

LEMMA FinalizeTurns ==
  ASSUME IInv, Turns, Finalize
  PROVE  Turns'
<1> DEFINE g == sched.winner
           s == Head(sched.inbox[g]).shard
<1>1. /\ sched \in Memory(Len(shards)) /\ sched.pc = "found" /\ UNCHANGED <<held, worker, events>>
      /\ g \in Gpu /\ sched.inbox[g] # <<>> /\ Head(sched.inbox[g]).type = "found"
  BY DEF IInv, MemoryOK, Coherent, Finalize
<1>2. Head(sched.inbox[g]) \in EventOf(Len(shards)) /\ Len(shards) \in Nat
  BY <1>1, EventTaken, ShardsType DEF IInv
<1>3. s \in 1..Len(shards)
  BY <1>1, <1>2, EventFields
<1>4. /\ sched'.pc = "handle" /\ sched'.active = sched.active
      /\ sched'.draining = sched.draining /\ sched'.idle = sched.idle
      /\ sched'.inbox = [sched.inbox EXCEPT ![g] = Tail(@)]
  BY <1>1 DEF Finalize, Memory
<1>5. PICK status \in {"found", LateWinner, "failed"} : shards' = [shards EXCEPT ![s].status = status]
  BY DEF Finalize
<1> HIDE DEF s
<1>6. \A i \in 1..Len(shards) : shards'[i].job = shards[i].job
  BY <1>3, <1>5, StillItsJob
<1> HIDE DEF g
<1> QED
  BY <1>1, <1>4, <1>6, EventTurns

LEMMA OnwardTo ==
  ASSUME NEW n \in Nat, NEW m \in Memory(n), NEW t, t = Onward(m)
  PROVE  /\ t.active = m.active /\ t.draining = m.draining /\ t.idle = m.idle /\ t.inbox = m.inbox
         /\ t.pc \in {"claim", "poll", "fill"}
         /\ t.pc = "claim" => m.active = 0 /\ m.draining = 0 /\ m.idle = Gpu
         /\ t.pc = "fill" => m.active # 0 /\ t.pending = m.idle
<1>1. CASE m.active = 0 /\ m.draining = 0 /\ Drained(m.idle)
  BY <1>1 DEF Onward, Memory, Drained
<1>2. CASE ~(m.active = 0 /\ m.draining = 0 /\ Drained(m.idle))
  <2>1. CASE m.active = 0 \/ m.draining # 0 \/ m.idle = {}
    BY <1>2, <2>1 DEF Onward, Memory
  <2>2. CASE ~(m.active = 0 \/ m.draining # 0 \/ m.idle = {})
    BY <1>2, <2>2 DEF Onward, Memory
  <2> QED
    BY <2>1, <2>2
<1> QED
  BY <1>1, <1>2

\* A GPU that is counted idle has nothing to do.
LEMMA IdleFree ==
  ASSUME Turns, NEW h \in Gpu, h \in sched.idle
  PROVE  Free(h) /\ ~Engaged(h)
BY DEF Turns, WorkerOK, ReadyOK, Free, Engaged

\* Where the loop goes next, with the active or the draining job that it leaves.
LEMMA OnwardTurns ==
  ASSUME IInv, Turns, NEW m \in Memory(Len(shards)), sched' = Onward(m),
         sched.pc \in {"handle", "late", "claim"}, Quiet,
         m.idle = sched.idle, m.inbox = sched.inbox, m.active # 0 => m.draining = 0,
         \A h \in Gpu : worker'[h].pc = worker[h].pc
  PROVE  LoopOK'
<1>1. Len(shards) \in Nat
  BY ShardsType DEF IInv
<1>2. /\ sched'.active = m.active /\ sched'.draining = m.draining
      /\ sched'.idle = m.idle /\ sched'.inbox = m.inbox
      /\ sched'.pc \in {"claim", "poll", "fill"}
      /\ sched'.pc = "claim" => m.active = 0 /\ m.draining = 0 /\ m.idle = Gpu
      /\ sched'.pc = "fill" => m.active # 0 /\ sched'.pending = m.idle
  BY <1>1, OnwardTo
<1>3. \A h \in Gpu : worker'[h].pc # "dead"
  BY DEF Turns, LoopOK
<1> QED
  BY <1>2, <1>3 DEF LoopOK, Quiet

LEMMA StopActiveTurns ==
  ASSUME IInv, Turns, sched.pc \in {"handle", "late"}, Quiet, sched.active # 0, StopActive,
         UNCHANGED <<shards, held, events>>
  PROVE  Turns'
<1> DEFINE m == [sched EXCEPT !.active = 0,
                  !.draining = IF Drained(sched.idle) THEN 0 ELSE sched.active]
           c == CancelJob(sched.active)
<1>1. sched \in Memory(Len(shards)) /\ Len(shards) \in Nat /\ worker \in [Gpu -> WorkerState(Len(shards))]
  BY ShardsType DEF IInv, MemoryOK
<1>2. /\ m \in Memory(Len(shards)) /\ m.active = 0 /\ m.idle = sched.idle /\ m.inbox = sched.inbox
      /\ m.draining = IF Drained(sched.idle) THEN 0 ELSE sched.active
  <2>1. (IF Drained(sched.idle) THEN 0 ELSE sched.active) \in 0..Jobs /\ 0 \in 0..Jobs
    BY <1>1, SizeAssumption DEF Memory
  <2> QED
    BY <1>1, <2>1, ActiveSet DEF Memory
<1>3. sched' = Onward(m)
  BY DEF StopActive
<1> HIDE DEF m
<1>4. /\ sched'.active = 0 /\ sched'.draining = m.draining
      /\ sched'.idle = sched.idle /\ sched'.inbox = sched.inbox
  BY <1>1, <1>2, <1>3, OnwardTo
<1>5. ASSUME NEW h \in Gpu
      PROVE  \/ worker'[h] = worker[h]
             \/ worker'[h] = [worker[h] EXCEPT !.commands = Append(@, c)]
  BY DEF StopActive
<1>6. c.kind # "assignment"
  BY DEF CancelJob
<1> HIDE DEF c
<1>7. ASSUME NEW h \in Gpu
      PROVE  /\ worker'[h].pc = worker[h].pc /\ worker'[h].shard = worker[h].shard
             /\ \A i : i \in DOMAIN worker'[h].commands /\ Assigns(worker'[h], i) =>
                  /\ i \in DOMAIN worker[h].commands /\ Assigns(worker[h], i)
                  /\ worker'[h].commands[i] = worker[h].commands[i]
             /\ NoAssignment(worker'[h]) <=> NoAssignment(worker[h])
  <2>1. CASE worker'[h] = worker[h]
    BY <2>1 DEF NoAssignment, Assigns
  <2>2. CASE worker'[h] = [worker[h] EXCEPT !.commands = Append(@, c)]
    <3>1. /\ worker[h].commands \in Seq(CommandOf(Len(shards)))
          /\ DOMAIN worker[h] = {"pc", "shard", "commands"}
      BY <1>1 DEF WorkerState
    <3>2. worker[h].commands \in Seq(CommandOf(Len(shards)))
      BY <3>1
    <3> QED
      BY ONLY <1>6, <2>2, <3>1, <3>2, CancelSent
  <2> QED
    BY <1>5, <2>1, <2>2
<1>8. LoopOK'
  BY <1>2, <1>3, <1>7, OnwardTurns
<1>9. ASSUME NEW h \in Gpu, Engaged(h) PROVE Current' = Current
  <2>1. sched.idle # Gpu
    BY <1>9, IdleFree
  <2> QED
    BY <1>2, <1>4, <2>1 DEF Current, Drained
<1>10. ASSUME NEW h \in Gpu PROVE WorkerOK(h)'
  <2>1. WorkerOK(h)
    BY DEF Turns
  <2>2. (Engaged(h)' <=> Engaged(h)) /\ (Free(h)' <=> Free(h))
    BY <1>7 DEF Engaged, Free
  <2>3. QueueOK(h)'
    BY <1>7, <2>1 DEF WorkerOK, QueueOK
  <2>4. HandleOK(h)' /\ OwnJob(h)'
    BY <1>9, <2>1, <2>2 DEF WorkerOK, HandleOK, OwnJob
  <2>5. ReadyOK(h)'
    BY <1>4, <2>1, <2>2 DEF WorkerOK, ReadyOK
  <2> QED
    BY <2>3, <2>4, <2>5 DEF WorkerOK
<1> QED
  BY <1>8, <1>10 DEF Turns

LEMMA CheckTurns ==
  ASSUME IInv, Turns, Check
  PROVE  Turns'
<1>1. /\ sched \in Memory(Len(shards)) /\ Len(shards) \in Nat /\ sched.pc = "handle" /\ Quiet
      /\ UNCHANGED <<shards, held, events>>
  BY ShardsType DEF IInv, MemoryOK, Check, Quiet, dbvars
<1>2. CASE sched.active # 0 /\ job[sched.active].status \in Settled
  BY <1>1, <1>2, StopActiveTurns DEF Check
<1>3. CASE ~(sched.active # 0 /\ job[sched.active].status \in Settled)
  <2> DEFINE late == sched.active # 0 /\ job[sched.active].status = "searching"
                       /\ job[sched.active].late
             m == [sched EXCEPT !.draining = IF Drained(sched.idle) THEN 0 ELSE @]
  <2>1. /\ UNCHANGED worker
        /\ sched' = IF late THEN [sched EXCEPT !.pc = "late"] ELSE Onward(m)
    BY <1>3 DEF Check
  <2>2. CASE late
    <3>1. /\ sched'.pc = "late" /\ sched'.active = sched.active /\ sched.active # 0
          /\ sched'.draining = sched.draining /\ sched'.idle = sched.idle
          /\ sched'.inbox = sched.inbox
      BY <1>1, <2>1, <2>2 DEF Memory
    <3>2. LoopOK'
      BY <1>1, <2>1, <3>1 DEF Turns, LoopOK, Quiet
    <3>3. \A h \in Gpu : WorkerOK(h)'
      BY <1>1, <2>1, <3>1, SameWorker DEF Turns, Current
    <3> QED
      BY <3>2, <3>3 DEF Turns
  <2>3. CASE ~late
    <3>1. /\ m \in Memory(Len(shards)) /\ m.active = sched.active
          /\ m.idle = sched.idle /\ m.inbox = sched.inbox
          /\ m.draining = IF Drained(sched.idle) THEN 0 ELSE sched.draining
      <4>1. (IF Drained(sched.idle) THEN 0 ELSE sched.draining) \in 0..Jobs
        BY <1>1, SizeAssumption DEF Memory
      <4> QED
        BY <1>1, <4>1, ActiveSet DEF Memory
    <3>2. sched' = Onward(m)
      BY <2>1, <2>3
    <3> HIDE DEF m
    <3>3. /\ sched'.active = sched.active /\ sched'.draining = m.draining
          /\ sched'.idle = sched.idle /\ sched'.inbox = sched.inbox
      BY <1>1, <3>1, <3>2, OnwardTo
    <3>4. m.active # 0 => m.draining = 0
      BY <3>1 DEF Turns, LoopOK
    <3>5. LoopOK'
      BY <1>1, <2>1, <3>1, <3>2, <3>4, OnwardTurns
    <3>6. ASSUME NEW h \in Gpu, Engaged(h) PROVE Current' = Current
      <4>1. sched.idle # Gpu
        BY <3>6, IdleFree
      <4> QED
        BY <3>1, <3>3, <4>1 DEF Current, Drained
    <3>7. ASSUME NEW h \in Gpu PROVE WorkerOK(h)'
      BY <1>1, <2>1, <3>3, <3>6, SameWorker DEF Turns
    <3> QED
      BY <3>5, <3>7 DEF Turns
  <2> QED
    BY <2>2, <2>3
<1> QED
  BY <1>2, <1>3

LEMMA TimeOutTurns ==
  ASSUME IInv, Turns, TimeOut
  PROVE  Turns'
<1>1. sched.pc = "late" /\ StopActive /\ UNCHANGED <<shards, held, events>>
  BY DEF TimeOut
<1>2. Quiet /\ sched.active # 0
  BY <1>1 DEF Turns, LoopOK
<1> QED
  BY <1>1, <1>2, StopActiveTurns

LEMMA ClaimTurns ==
  ASSUME IInv, Turns, Claim
  PROVE  Turns'
<1>1. /\ sched \in Memory(Len(shards)) /\ Len(shards) \in Nat /\ sched.pc = "claim"
      /\ UNCHANGED <<shards, held, worker, events>>
  BY ShardsType DEF IInv, MemoryOK, Claim
<1>2. Quiet /\ sched.active = 0 /\ sched.draining = 0 /\ sched.idle = Gpu
  BY <1>1 DEF Turns, LoopOK
<1>3. \A h \in Gpu : ~Engaged(h)
  BY <1>2, IdleFree
<1>4. PICK j \in Claimable : sched' = IF j = 0 THEN [sched EXCEPT !.pc = "poll"]
                                      ELSE Onward([sched EXCEPT !.active = j])
  BY DEF Claim
<1>5. j \in 0..Jobs
  BY <1>4, SizeAssumption DEF Claimable, Job
<1>6. LoopOK' /\ sched'.idle = sched.idle /\ sched'.inbox = sched.inbox
  <2>1. CASE j = 0
    <3>1. /\ sched'.pc = "poll" /\ sched'.active = sched.active
          /\ sched'.draining = sched.draining /\ sched'.idle = sched.idle
          /\ sched'.inbox = sched.inbox
      BY <1>1, <1>4, <2>1 DEF Memory
    <3> QED
      BY <1>1, <1>2, <3>1 DEF Turns, LoopOK, Quiet
  <2>2. CASE j # 0
    <3> DEFINE m == [sched EXCEPT !.active = j]
    <3>1. /\ m \in Memory(Len(shards)) /\ m.idle = sched.idle /\ m.inbox = sched.inbox
          /\ m.draining = 0
      BY ZenonT(40), <1>1, <1>2, <1>5, ActiveSet, SizeAssumption DEF Memory
    <3>2. sched' = Onward(m)
      BY <1>4, <2>2
    <3> HIDE DEF m
    <3>3. sched'.idle = sched.idle /\ sched'.inbox = sched.inbox
      BY <1>1, <3>1, <3>2, OnwardTo
    <3>4. LoopOK'
      BY <1>1, <1>2, <3>1, <3>2, OnwardTurns
    <3> QED
      BY <3>3, <3>4
  <2> QED
    BY <2>1, <2>2
<1>7. \A h \in Gpu : WorkerOK(h)'
  BY <1>1, <1>3, <1>6, SameWorker DEF Turns
<1> QED
  BY <1>6, <1>7 DEF Turns

\* The range goes to a GPU that is idle, which is then engaged with it.
LEMMA DispatchTurns ==
  ASSUME IInv, Turns, sched.pc = "fill", NEW g \in Gpu, g \in sched.pending,
         NEW new \in Shard, new.job = sched.active, shards' = Append(shards, new),
         held' = [held EXCEPT ![g] = Len(shards) + 1],
         worker' = [worker EXCEPT ![g].commands = Append(@, Assignment(Len(shards) + 1))],
         sched' = [sched EXCEPT !.pending = @ \ {g}, !.idle = sched.idle \ {g},
                                !.pc = IF sched.pending = {g} THEN "poll" ELSE @],
         UNCHANGED events
  PROVE  Turns'
<1> DEFINE n == Len(shards)
           c == Assignment(n + 1)
           cs == worker[g].commands
           k == Len(cs)
<1>1. /\ sched \in Memory(n) /\ n \in Nat /\ worker \in [Gpu -> WorkerState(n)]
      /\ DOMAIN shards = 1..n /\ shards \in Seq(Shard) /\ held \in [Gpu -> 0..n]
  BY ShardsType DEF IInv, MemoryOK, TypeOK
<1>2. /\ sched.active # 0 /\ sched.pending \subseteq sched.idle /\ Quiet
      /\ \A h \in Gpu : worker[h].pc # "dead"
  BY DEF Turns, LoopOK
<1>3. /\ sched'.pc \in {"poll", "fill"} /\ sched'.active = sched.active
      /\ sched'.draining = sched.draining /\ sched'.idle = sched.idle \ {g}
      /\ sched'.inbox = sched.inbox /\ sched'.pending = sched.pending \ {g}
  BY <1>1 DEF Memory
<1>4. /\ worker[g] \in WorkerState(n) /\ cs \in Seq(CommandOf(n))
      /\ worker'[g] = [worker[g] EXCEPT !.commands = Append(@, c)]
      /\ \A h \in Gpu : h # g => worker'[h] = worker[h] /\ held'[h] = held[h]
      /\ held'[g] = n + 1
  BY <1>1 DEF WorkerState
<1>5. worker'[g].pc = worker[g].pc /\ worker'[g].commands = Append(cs, c)
  BY <1>4 DEF WorkerState
<1>6. shards'[n + 1] = new /\ \A i \in 1..n : shards'[i] = shards[i]
  BY <1>1
<1>7. LoopOK'
  BY SMTT(20), <1>2, <1>3, <1>4, <1>5 DEF Turns, LoopOK, Quiet
<1>8. ASSUME NEW h \in Gpu, h # g PROVE WorkerOK(h)'
  <2>1. WorkerOK(h)
    BY DEF Turns
  <2>2. Engaged(h) => held[h] \in 1..n
    BY <1>1, <2>1 DEF WorkerOK, HandleOK
  <2>3. Engaged(h) => Current' = Current /\ shards'[held[h]].job = shards[held[h]].job
    BY <1>3, <1>6, <2>2 DEF Current
  <2> QED
    BY <1>3, <1>4, <1>8, <2>1, <2>3, SameWorker
<1>9. WorkerOK(g)'
  <2>1. /\ Free(g) /\ events[g] = <<>> /\ sched.inbox[g] = <<>>
    BY <1>2 DEF Turns, WorkerOK, ReadyOK
  <2>2. /\ k \in Nat /\ DOMAIN cs = 1..k /\ DOMAIN Append(cs, c) = 1..(k + 1)
        /\ \A i \in 1..k : Append(cs, c)[i] = cs[i]
        /\ Append(cs, c)[k + 1] = c
    BY SMTT(20), <1>4
  <2>3. c.kind = "assignment" /\ c.of = n + 1
    BY DEF Assignment
  <2> HIDE DEF c, k, cs
  <2>4. \A i \in 1..(k + 1) : i = k + 1 \/ i \in 1..k
    BY <2>2
  <2>5. \A i \in 1..k : cs[i].kind # "assignment"
    BY <2>1, <2>2 DEF Free, NoAssignment, Assigns, cs
  <2>6. \A i \in DOMAIN worker'[g].commands : Assigns(worker'[g], i) =>
          i = k + 1 /\ worker'[g].commands[i] = c
    BY <1>5, <2>2, <2>4, <2>5 DEF Assigns
  <2>7. k + 1 \in DOMAIN worker'[g].commands /\ Assigns(worker'[g], k + 1)
    BY SMTT(20), <1>5, <2>2, <2>3 DEF Assigns
  <2>8. worker'[g].pc = "idle"
    BY <1>5, <2>1 DEF Free
  <2>9. QueueOK(g)'
    BY <1>4, <2>3, <2>6, <2>8 DEF QueueOK
  <2>10. Engaged(g)'
    BY <2>7 DEF Engaged, NoAssignment
  <2>11. \A i \in DOMAIN events'[g] : FALSE
    BY <2>1
  <2>12. HandleOK(g)'
    BY <1>1, <1>4, <2>10, <2>11 DEF HandleOK, Has
  <2>13. OwnJob(g)'
    BY <1>2, <1>3, <1>4, <1>6 DEF OwnJob, Current
  <2>14. \A i \in DOMAIN sched'.inbox[g] : FALSE
    BY <1>3, <2>1
  <2>15. ReadyOK(g)'
    BY <1>3, <2>11, <2>14 DEF ReadyOK, ReadyLast, Has
  <2> QED
    BY <2>9, <2>12, <2>13, <2>15 DEF WorkerOK
<1> QED
  BY <1>7, <1>8, <1>9 DEF Turns

LEMMA AllocateTurns ==
  ASSUME IInv, Turns, NEW g \in Gpu, AllocateTo(g)
  PROVE  Turns'
<1> DEFINE j == sched.active
           start == job[j].next
           new(n) == [job |-> j, gpu |-> g, start |-> start, count |-> n, status |-> "assigned"]
           Filled(idle) == sched' = [sched EXCEPT !.pending = @ \ {g}, !.idle = idle,
                                       !.pc = IF sched.pending = {g} THEN "poll" ELSE @]
<1>1. sched \in Memory(Len(shards)) /\ sched.pc = "fill" /\ g \in sched.pending
  BY DEF IInv, MemoryOK, AllocateTo
<1>2. j # 0 /\ sched.pending \subseteq sched.idle /\ Quiet
  BY <1>1 DEF Turns, LoopOK
<1>3. j \in Job /\ job[j] \in JobRow
  BY SMTT(20), <1>1, <1>2, SizeAssumption DEF Memory, Job, IInv, TypeOK
<1>4. \/ \E error : Ends(error)
      \/ Filled(sched.idle) /\ UNCHANGED <<held, worker, events, shards>>
      \/ \E n \in Counts :
           /\ shards' = Append(shards, new(n))
           /\ held' = [held EXCEPT ![g] = Len(shards) + 1]
           /\ worker' = [worker EXCEPT ![g].commands = Append(@, Assignment(Len(shards) + 1))]
           /\ Filled(sched.idle \ {g}) /\ UNCHANGED events
  BY DEF AllocateTo
<1>5. CASE \E error : Ends(error)
  BY <1>5, EndsTurns DEF Ends
<1>6. CASE Filled(sched.idle) /\ UNCHANGED <<held, worker, events, shards>>
  <2>1. /\ sched'.pc \in {"poll", "fill"} /\ sched'.active = sched.active
        /\ sched'.draining = sched.draining /\ sched'.idle = sched.idle
        /\ sched'.inbox = sched.inbox /\ sched'.pending = sched.pending \ {g}
    BY <1>1, <1>6 DEF Memory
  <2>2. LoopOK'
    BY <1>1, <1>2, <1>6, <2>1 DEF Turns, LoopOK, Quiet
  <2>3. \A h \in Gpu : WorkerOK(h)'
    BY <1>6, <2>1, SameWorker DEF Turns, Current
  <2> QED
    BY <2>2, <2>3 DEF Turns
<1>7. ASSUME NEW n \in Counts,
             /\ shards' = Append(shards, new(n))
             /\ held' = [held EXCEPT ![g] = Len(shards) + 1]
             /\ worker' = [worker EXCEPT ![g].commands = Append(@, Assignment(Len(shards) + 1))]
             /\ Filled(sched.idle \ {g}) /\ UNCHANGED events
      PROVE  Turns'
  <2>1. start \in 0..Order
    BY <1>3 DEF JobRow
  <2>2. new(n) \in Shard /\ new(n).job = sched.active
    BY <1>3, <2>1 DEF Shard
  <2> HIDE DEF new
  <2> QED
    BY <1>1, <1>7, <2>2, DispatchTurns
<1> HIDE DEF Filled, new
<1> QED
  BY <1>4, <1>5, <1>6, <1>7

--------------------------------------------------------------------------------
(* The theorems.                                                                *)

LEMMA ApiTurns ==
  ASSUME Turns, NEW j \in Job,
         Create(j) \/ CancelRead(j) \/ CancelWrite(j) \/ Submit(j) \/ Deadline(j)
  PROVE  Turns'
<1>1. UNCHANGED <<sched, held, shards, worker, events>>
  BY DEF Create, CancelRead, CancelWrite, Submit, Deadline, dbvars
<1> QED
  BY <1>1, NothingTurns

\* Turns holds after every step up to the first death.
LEMMA NextTurns ==
  ASSUME IInv, Turns, [Next]_vars, faults'.deaths = 0
  PROVE  Turns'
<1>1. CASE UNCHANGED vars
  BY <1>1, NothingTurns DEF vars, dbvars
<1>2. CASE Exit \/ Kill
  BY <1>2, EndsTurns DEF Exit, Kill, Ends
<1>3. ASSUME Round PROVE Turns'
  BY <1>3, StartTurns, RecoverTurns, PollTurns, RestartDeadTurns, FinalizeTurns, CheckTurns,
     TimeOutTurns, ClaimTurns, HandleTurns, AllocateTurns DEF Round
<1>4. ASSUME NEW g \in Gpu, Worker(g) \/ Die(g) PROVE Turns'
  BY <1>4, WorkerTurns
<1>5. ASSUME NEW j \in Job,
             Create(j) \/ CancelRead(j) \/ CancelWrite(j) \/ Submit(j) \/ Deadline(j)
      PROVE  Turns'
  BY <1>5, ApiTurns
<1>6. ASSUME NEW s \in orphans, OrphanEnds(s) PROVE Turns'
  BY <1>6, NothingTurns DEF OrphanEnds, dbvars
<1> QED
  BY <1>1, <1>2, <1>3, <1>4, <1>5, <1>6 DEF Next

\* Deaths are only counted up.
LEMMA DeathsStay ==
  ASSUME IInv, [Next]_vars, faults'.deaths = 0
  PROVE  faults.deaths = 0
<1>1. faults \in [kills : 0..MaxKills, stops : 0..MaxStops,
                 deaths : 0..MaxDeaths, calls : 0..MaxCalls]
  BY DEF IInv, TypeOK
<1>2. faults.deaths \in Nat
  BY <1>1, SizeAssumption
<1>3. \/ UNCHANGED faults
      \/ faults' = [faults EXCEPT !.deaths = @ + 1]
      \/ faults' = [faults EXCEPT !.kills = @ + 1]
      \/ faults' = [faults EXCEPT !.stops = @ + 1]
      \/ faults' = [faults EXCEPT !.calls = @ + 1]
  BY DEF Next, Round, Worker, vars, Start, Recover, Poll, RestartDead, Finalize, Check, TimeOut,
     Claim, Handle, AllocateTo, Exit, Kill, OrphanEnds, Boot, SelfTest, Take, Search, DrainCommands, Ready, Report,
     Die, Create, CancelRead, CancelWrite, Submit, Deadline, Called
<1> QED
  BY <1>1, <1>2, <1>3

LEMMA InitTurns == Init => Turns
<1> SUFFICES ASSUME Init PROVE Turns
  OBVIOUS
<1>1. /\ sched.pc = "down" /\ sched.active = 0 /\ sched.draining = 0 /\ sched.idle = {}
      /\ \A g \in Gpu : /\ sched.inbox[g] = <<>> /\ held[g] = 0 /\ worker[g] = Gone
                        /\ events[g] = <<>>
  BY DEF Init, Down
<1>2. LoopOK
  BY <1>1 DEF LoopOK, AllGone, Gone
<1>3. ASSUME NEW g \in Gpu PROVE WorkerOK(g)
  <2>1. worker[g].commands = <<>> /\ worker[g].pc = "dead"
    BY <1>1 DEF Gone
  <2>2. \A i \in DOMAIN worker[g].commands : FALSE
    BY <2>1
  <2>3. \A i \in DOMAIN events[g] : FALSE
    BY <1>1
  <2>4. \A i \in DOMAIN sched.inbox[g] : FALSE
    BY <1>1
  <2>5. NoAssignment(worker[g]) /\ ~Engaged(g) /\ QueueOK(g)
    BY <2>1, <2>2 DEF NoAssignment, Engaged, QueueOK
  <2>6. HandleOK(g) /\ OwnJob(g)
    BY <1>1, <2>5 DEF HandleOK, OwnJob
  <2>7. ReadyOK(g)
    BY <1>1, <2>3, <2>4 DEF ReadyOK, ReadyLast, Has
  <2> QED
    BY <2>5, <2>6, <2>7 DEF WorkerOK
<1> QED
  BY <1>2, <1>3 DEF Turns

\* The invariant that the theorems rest on.
TurnsUntilDeath == faults.deaths = 0 => Turns

\* Until a worker dies, each worker, its handle and what it said agree on whether it is at work.
THEOREM Orderly == Spec => []TurnsUntilDeath
<1>1. Init => TurnsUntilDeath
  BY InitTurns DEF TurnsUntilDeath
<1>2. IInv /\ TurnsUntilDeath /\ [Next]_vars => TurnsUntilDeath'
  BY NextTurns, DeathsStay DEF TurnsUntilDeath
<1> QED
  BY <1>1, <1>2, Invariance, PTL DEF Spec

\* The job of every range that is searched for a scheduler that runs is the current one.
LEMMA OfCurrent ==
  ASSUME Turns, NEW s \in Searching, s \notin orphans
  PROVE  shards[s].job = Current
<1>1. PICK g \in Gpu : worker[g].pc = "busy" /\ worker[g].shard = s
  BY DEF Searching
<1>2. QED
  BY <1>1 DEF Turns, WorkerOK, QueueOK, OwnJob, Engaged

\* Until a worker dies, all ranges searched at one time are of one job, whatever is canceled,
\* times out or is submitted and however often the scheduler is stopped and started again,
\* but for the ranges of workers that outlived a scheduler that was killed.
THEOREM OneJobAtATime == Spec => []OneJobSearched
<1>1. IInv /\ TurnsUntilDeath => OneJobSearched
  <2> SUFFICES ASSUME IInv, Turns, NEW s \in Searching, NEW t \in Searching
               PROVE  SameJob(s, t) \/ (faults.kills > 0 /\ {s, t} \cap orphans # {})
    BY DEF TurnsUntilDeath, OneJobSearched
  <2>1. CASE s \notin orphans /\ t \notin orphans
    BY <2>1, OfCurrent DEF SameJob
  <2>2. CASE s \in orphans \/ t \in orphans
    <3>1. faults.kills \in 0..MaxKills /\ faults.kills # 0
      BY <2>2 DEF IInv, TypeOK
    <3>2. faults.kills > 0
      BY <3>1, SMTT(20)
    <3>3. {s, t} \cap orphans # {}
      BY <2>2
    <3> QED
      BY <3>2, <3>3
  <2> QED
    BY <2>1, <2>2
<1> QED
  BY <1>1, Invariance, Orderly, PTL

\* Until a worker dies, the supervisor knows of every worker of its own that searches, and the
\* range; as long as no scheduler was killed those are all that search.
THEOREM SearchersHeld == Spec => []SearchIsHeld
<1>1. IInv /\ TurnsUntilDeath => SearchIsHeld
  <2> SUFFICES ASSUME IInv, Turns PROVE SearchIsHeld
    BY DEF TurnsUntilDeath, SearchIsHeld
  <2>1. \A g \in Gpu : worker[g].pc = "busy" => held[g] = worker[g].shard
    BY DEF Turns, WorkerOK, QueueOK
  <2>2. faults.kills = 0 => orphans = {}
    BY DEF IInv, TypeOK
  <2> QED
    BY <2>1, <2>2 DEF SearchIsHeld, Searching
<1> QED
  BY <1>1, Invariance, Orderly, PTL

--------------------------------------------------------------------------------
(* The first run of the scheduler, until a worker dies: a job whose next range  *)
(* begins at the origin has had none, and no assertion fails.                   *)

Unsearched(r) == r.next = 0 \/ r.status \in {"absent", "queued"}
NoShard(j) == \A i \in DOMAIN shards : shards[i].job # j

FirstRun ==
  /\ sched.error = "none"
  /\ sched.pc \in {"down", "recover"} =>
       shards = <<>> /\ \A j \in Job : job[j].status # "searching"
  /\ sched.pc = "recover" => sched.pending = {}
  /\ \A j \in Job : Unsearched(job[j]) => NoShard(j)

\* A step of the loop that neither ends it nor adds a range.
LEMMA RunGoesOn ==
  ASSUME FirstRun, sched'.error = "none", sched'.pc \notin {"down", "recover"},
         DOMAIN shards' = DOMAIN shards,
         \A i \in DOMAIN shards : shards'[i].job = shards[i].job,
         \A j \in Job : Unsearched(job'[j]) => Unsearched(job[j])
  PROVE  FirstRun'
BY DEF FirstRun, NoShard, Unsearched

LEMMA ApiFirst ==
  ASSUME IInv, FirstRun, NEW j \in Job,
         Create(j) \/ CancelRead(j) \/ CancelWrite(j) \/ Submit(j) \/ Deadline(j)
  PROVE  FirstRun'
<1>1. job \in [Job -> JobRow] /\ UNCHANGED <<sched, shards>>
  BY DEF IInv, TypeOK, Create, CancelRead, CancelWrite, Submit, Deadline, dbvars
<1>2. ASSUME NEW i \in Job
      PROVE  /\ job'[i].next = job[i].next
             /\ job'[i].status \in {"absent", "queued"} => job[i].status \in {"absent", "queued"}
             /\ job'[i].status = "searching" => job[i].status = "searching"
  <2>1. job[i] \in JobRow /\ DOMAIN job = Job
    BY <1>1
  <2> QED
    BY <2>1 DEF JobRow, Create, CancelRead, CancelWrite, Submit, Deadline, dbvars
<1> QED
  BY <1>1, <1>2 DEF FirstRun, NoShard, Unsearched

LEMMA StartFirst ==
  ASSUME IInv, FirstRun, Start \/ Recover
  PROVE  FirstRun'
<1>1. CASE Start
  <2>1. sched \in Memory(Len(shards)) /\ sched.pc = "down"
    BY <1>1 DEF IInv, MemoryOK, Start
  <2>2. /\ sched'.pc = "recover" /\ sched'.error = sched.error
        /\ sched'.pending = {j \in Job : job[j].status = "searching"}
        /\ UNCHANGED <<job, shards>>
    BY <1>1, <2>1 DEF Start, Memory, dbvars
  <2>3. sched'.pending = {}
    BY <2>1, <2>2 DEF FirstRun
  <2> QED
    BY <2>1, <2>2, <2>3 DEF FirstRun, NoShard, Unsearched
<1>2. CASE Recover
  <2>1. sched'.pc = "poll" /\ sched'.error = "none"
    BY <1>2 DEF Recover, Down
  <2>2. shards = <<>> /\ sched.pending = {}
    BY <1>2 DEF Recover, FirstRun
  <2>3. \A i \in DOMAIN shards : FALSE
    BY <2>2
  <2>4. DOMAIN shards' = DOMAIN shards
    BY <1>2 DEF Recover
  <2>5. \A j \in Job : job'[j] = job[j]
    BY <1>2, <2>2 DEF Recover
  <2> QED
    BY <2>1, <2>3, <2>4, <2>5, RunGoesOn
<1> QED
  BY <1>1, <1>2

LEMMA PollFirst ==
  ASSUME IInv, FirstRun, Poll \/ RestartDead
  PROVE  FirstRun'
<1>1. sched \in Memory(Len(shards)) /\ sched.error = "none"
  BY DEF IInv, MemoryOK, FirstRun
<1>2. /\ sched'.pc \in {"restart", "handle"} /\ sched'.error = sched.error
      /\ UNCHANGED <<job, shards>>
  BY <1>1 DEF Poll, RestartDead, Memory, dbvars
<1> QED
  BY <1>1, <1>2, RunGoesOn

LEMMA HandleFirst ==
  ASSUME IInv, FirstRun, NEW g \in Gpu, Handle(g)
  PROVE  FirstRun'
<1> DEFINE e == Head(sched.inbox[g])
<1>1. /\ sched \in Memory(Len(shards)) /\ sched.pc = "handle" /\ sched.inbox[g] # <<>>
      /\ sched.error = "none" /\ Len(shards) \in Nat /\ DOMAIN shards = 1..Len(shards)
  BY ShardsType DEF IInv, MemoryOK, Handle, FirstRun
<1>2. sched'.pc \in {"found", "handle"} /\ sched'.error = "none" /\ UNCHANGED job
  BY <1>1 DEF Handle, Memory, dbvars
<1>3. e.shard = 0 \/ e.shard \in 1..Len(shards)
  BY <1>1, EventTaken, EventFields DEF IInv
<1>4. UNCHANGED shards \/ shards' = [shards EXCEPT ![e.shard].status = Reported(e.type)]
  BY DEF Handle, dbvars
<1> HIDE DEF e
<1>5. DOMAIN shards' = DOMAIN shards /\ \A i \in DOMAIN shards : shards'[i].job = shards[i].job
  <2>1. CASE UNCHANGED shards
    BY <2>1
  <2>2. CASE e.shard \in 1..Len(shards) /\ shards' = [shards EXCEPT ![e.shard].status = Reported(e.type)]
    <3>1. \A i \in 1..Len(shards) : shards'[i].job = shards[i].job
      BY <2>2, StillItsJob
    <3> QED
      BY <1>1, <2>2, <3>1
  <2>3. CASE e.shard = 0 /\ shards' = [shards EXCEPT ![e.shard].status = Reported(e.type)]
    BY <1>1, <2>3
  <2> QED
    BY <1>3, <1>4, <2>1, <2>2, <2>3
<1> QED
  BY <1>2, <1>5, RunGoesOn

LEMMA FinalizeFirst ==
  ASSUME IInv, FirstRun, Finalize
  PROVE  FirstRun'
<1> DEFINE g == sched.winner
           s == Head(sched.inbox[g]).shard
           j == shards[s].job
<1>1. /\ sched \in Memory(Len(shards)) /\ sched.error = "none"
      /\ g \in Gpu /\ sched.inbox[g] # <<>> /\ Head(sched.inbox[g]).type = "found"
      /\ Len(shards) \in Nat /\ DOMAIN shards = 1..Len(shards) /\ job \in [Job -> JobRow]
  BY ShardsType DEF IInv, MemoryOK, Coherent, Finalize, FirstRun, TypeOK
<1>2. s \in 1..Len(shards)
  BY <1>1, EventTaken, EventFields DEF IInv
<1>3. sched'.pc = "handle" /\ sched'.error = "none"
  BY <1>1 DEF Finalize, Memory
<1>4. PICK status \in {"found", LateWinner, "failed"} : shards' = [shards EXCEPT ![s].status = status]
  BY DEF Finalize
<1>5. \/ UNCHANGED job
      \/ job' = [job EXCEPT ![j].status = "ready", ![j].result = TRUE]
      \/ job' = [job EXCEPT ![j].status = "failed"]
  BY DEF Finalize
<1> HIDE DEF j, s
<1>6. DOMAIN shards' = DOMAIN shards /\ \A i \in DOMAIN shards : shards'[i].job = shards[i].job
  BY <1>1, <1>2, <1>4, StillItsJob
<1>7. \A i \in Job : Unsearched(job'[i]) => Unsearched(job[i])
  BY SMTT(20), <1>1, <1>5 DEF Unsearched, JobRow
<1> QED
  BY <1>3, <1>6, <1>7, RunGoesOn

LEMMA OnwardFirst ==
  ASSUME NEW n \in Nat, NEW m \in Memory(n), NEW t, t = Onward(m)
  PROVE  t.error = m.error /\ t.pc \notin {"down", "recover"}
BY DEF Onward, Memory


LEMMA StopActiveFirst ==
  ASSUME IInv, FirstRun, StopActive
  PROVE  sched'.error = "none" /\ sched'.pc \notin {"down", "recover"}
<1> DEFINE d == IF Drained(sched.idle) THEN 0 ELSE sched.active
           m == [sched EXCEPT !.active = 0, !.draining = d]
<1>1. sched \in Memory(Len(shards)) /\ Len(shards) \in Nat /\ sched.error = "none"
  BY ShardsType DEF IInv, MemoryOK, FirstRun
<1>2. d \in 0..Jobs /\ 0 \in 0..Jobs
  BY <1>1, SizeAssumption DEF Memory
<1>3. sched' = Onward(m)
  BY DEF StopActive
<1> HIDE DEF d
<1>4. m \in Memory(Len(shards)) /\ m.error = "none"
  BY <1>1, <1>2, ActiveSet DEF Memory
<1> HIDE DEF m
<1> QED
  BY <1>1, <1>3, <1>4, OnwardFirst

LEMMA CheckFirst ==
  ASSUME IInv, FirstRun, Check
  PROVE  FirstRun'
<1> DEFINE d == IF Drained(sched.idle) THEN 0 ELSE sched.draining
           m == [sched EXCEPT !.draining = d]
<1>1. sched \in Memory(Len(shards)) /\ Len(shards) \in Nat /\ sched.error = "none"
  BY ShardsType DEF IInv, MemoryOK, FirstRun
<1>2. UNCHANGED <<job, shards>>
  BY DEF Check, dbvars
<1>3. StopActive \/ sched' = [sched EXCEPT !.pc = "late"] \/ sched' = Onward(m)
  BY DEF Check
<1>4. sched'.error = "none" /\ sched'.pc \notin {"down", "recover"}
  <2>1. CASE StopActive
    BY <2>1, StopActiveFirst
  <2>2. CASE sched' = [sched EXCEPT !.pc = "late"]
    BY <1>1, <2>2 DEF Memory
  <2>3. CASE sched' = Onward(m)
    <3>1. d \in 0..Jobs
      BY <1>1, SizeAssumption DEF Memory
    <3> HIDE DEF d
    <3>2. m \in Memory(Len(shards)) /\ m.error = "none"
      BY <1>1, <3>1, ActiveSet DEF Memory
    <3> HIDE DEF m
    <3> QED
      BY <1>1, <2>3, <3>2, OnwardFirst
  <2> QED
    BY <1>3, <2>1, <2>2, <2>3
<1> QED
  BY <1>2, <1>4, RunGoesOn

LEMMA TimeOutFirst ==
  ASSUME IInv, FirstRun, TimeOut
  PROVE  FirstRun'
<1>1. job \in [Job -> JobRow] /\ UNCHANGED shards
      /\ job' = [job EXCEPT ![sched.active].status = "timed_out"]
  BY DEF IInv, TypeOK, TimeOut
<1>2. sched'.error = "none" /\ sched'.pc \notin {"down", "recover"}
  BY StopActiveFirst DEF TimeOut
<1>3. \A i \in Job : Unsearched(job'[i]) => Unsearched(job[i])
  BY <1>1 DEF Unsearched, JobRow
<1> QED
  BY <1>1, <1>2, <1>3, RunGoesOn

LEMMA ClaimFirst ==
  ASSUME IInv, FirstRun, Claim
  PROVE  FirstRun'
<1>1. /\ sched \in Memory(Len(shards)) /\ Len(shards) \in Nat /\ sched.error = "none"
      /\ job \in [Job -> JobRow] /\ UNCHANGED shards
  BY ShardsType DEF IInv, MemoryOK, FirstRun, TypeOK, Claim
<1>2. PICK j \in Claimable :
        /\ sched' = IF j = 0 THEN [sched EXCEPT !.pc = "poll"]
                    ELSE Onward([sched EXCEPT !.active = j])
        /\ job' = IF j # 0 /\ job[j].status = "queued"
                    THEN [job EXCEPT ![j] = [@ EXCEPT !.status = "searching", !.next = 0,
                                                      !.late = FALSE]]
                    ELSE job
  BY DEF Claim
<1>3. j \in 0..Jobs
  BY <1>2, SizeAssumption DEF Claimable, Job
<1>4. sched'.error = "none" /\ sched'.pc \notin {"down", "recover"}
  <2>1. CASE j = 0
    BY <1>1, <1>2, <2>1 DEF Memory
  <2>2. CASE j # 0
    <3> DEFINE m == [sched EXCEPT !.active = j]
    <3>1. m \in Memory(Len(shards)) /\ m.error = "none"
      BY <1>1, <1>3, ActiveSet, SizeAssumption DEF Memory
    <3>2. sched' = Onward(m)
      BY <1>2, <2>2
    <3> HIDE DEF m
    <3> QED
      BY <1>1, <3>1, <3>2, OnwardFirst
  <2> QED
    BY <2>1, <2>2
<1>5. ASSUME NEW i \in Job, Unsearched(job'[i]) PROVE Unsearched(job[i])
  <2>1. CASE i = j /\ job[j].status = "queued"
    BY <2>1 DEF Unsearched
  <2>2. CASE ~(i = j /\ job[j].status = "queued")
    <3>1. job'[i] = job[i]
      BY <1>1, <1>2, <2>2
    <3> QED
      BY <1>5, <3>1
  <2> QED
    BY <2>1, <2>2
<1> QED
  BY <1>1, <1>4, <1>5, RunGoesOn

\* The job's next range begins where none did, and the GPU that is idle has no assignment
\* and is alive, so that neither the table nor dispatch refuses it.
LEMMA AllocateFirst ==
  ASSUME IInv, Turns, FirstRun, NEW g \in Gpu, AllocateTo(g)
  PROVE  FirstRun'
<1> DEFINE j == sched.active
           start == job[j].next
           new(n) == [job |-> j, gpu |-> g, start |-> start, count |-> n, status |-> "assigned"]
           Filled(idle) == sched' = [sched EXCEPT !.pending = @ \ {g}, !.idle = idle,
                                       !.pc = IF sched.pending = {g} THEN "poll" ELSE @]
           Taken == \E i \in DOMAIN shards : shards[i].job = j /\ shards[i].start = start
<1>1. /\ sched \in Memory(Len(shards)) /\ sched.pc = "fill" /\ g \in sched.pending
      /\ sched.error = "none" /\ Len(shards) \in Nat
      /\ DOMAIN shards = 1..Len(shards) /\ shards \in Seq(Shard) /\ job \in [Job -> JobRow]
  BY ShardsType DEF IInv, MemoryOK, AllocateTo, FirstRun, TypeOK
<1>2. j # 0 /\ sched.pending \subseteq sched.idle /\ worker[g].pc # "dead"
  BY <1>1 DEF Turns, LoopOK
<1>3. j \in Job /\ job[j] \in JobRow
  BY <1>1, <1>2, SizeAssumption DEF Memory, Job
<1>4. held[g] = 0
  BY <1>1, <1>2 DEF Turns, WorkerOK, ReadyOK
<1>5. start \in 0..Order /\ start \in Nat
  BY <1>3, SizeAssumption DEF JobRow
<1>6. ~Taken
  <2> SUFFICES ASSUME NEW i \in DOMAIN shards, shards[i].job = j, shards[i].start = start
               PROVE  FALSE
    OBVIOUS
  <2>1. start # 0
    BY <1>3 DEF FirstRun, NoShard, Unsearched
  <2>2. shards[i].start + shards[i].count <= start
    BY <2>1 DEF IInv, NextIsFree
  <2>3. shards[i] \in Shard
    BY <1>1
  <2>4. shards[i].count \in Nat \ {0}
    BY <2>3, SizeAssumption DEF Shard
  <2> QED
    BY <1>5, <2>2, <2>4
<1>7. \/ Filled(sched.idle) /\ UNCHANGED <<job, shards>>
      \/ Filled(sched.idle) /\ UNCHANGED shards /\ job' = [job EXCEPT ![j].status = "failed"]
      \/ \E n \in Counts :
           /\ shards' = Append(shards, new(n))
           /\ job' = [job EXCEPT ![j].next = NextOffset(start, n)]
           /\ Filled(sched.idle \ {g}) /\ job[j].status = "searching"
  BY <1>2, <1>4, <1>6 DEF AllocateTo
<1>8. ASSUME NEW idle, Filled(idle)
      PROVE  sched'.error = "none" /\ sched'.pc \notin {"down", "recover"}
  BY <1>1, <1>8 DEF Memory
<1>9. ASSUME Filled(sched.idle), UNCHANGED shards,
             UNCHANGED job \/ job' = [job EXCEPT ![j].status = "failed"]
      PROVE  FirstRun'
  <2>1. ASSUME NEW i \in Job PROVE Unsearched(job'[i]) => Unsearched(job[i])
    <3>1. CASE UNCHANGED job
      BY ONLY <3>1 DEF Unsearched
    <3>2. CASE job' = [job EXCEPT ![j].status = "failed"]
      <4>1. job'[i].next = job[i].next /\ (job'[i].status = job[i].status \/ job'[i].status = "failed")
        BY <1>1, <3>2 DEF JobRow
      <4> QED
        BY ONLY <4>1 DEF Unsearched
    <3> QED
      BY <1>9, <3>1, <3>2
  <2> HIDE DEF Filled
  <2> QED
    BY <1>8, <1>9, <2>1, RunGoesOn
<1>10. ASSUME NEW n \in Counts,
              /\ shards' = Append(shards, new(n))
              /\ job' = [job EXCEPT ![j].next = NextOffset(start, n)]
              /\ Filled(sched.idle \ {g}) /\ job[j].status = "searching"
       PROVE  FirstRun'
  <2>1. new(n).job = j
    OBVIOUS
  <2> HIDE DEF new
  <2>2. /\ \A i \in 1..Len(shards) : shards'[i] = shards[i]
        /\ shards'[Len(shards) + 1] = new(n) /\ DOMAIN shards' = 1..(Len(shards) + 1)
    BY <1>1, <1>10
  <2>3. n \in Nat \ {0} /\ NextOffset(start, n) # 0
    BY <1>5, SizeAssumption DEF NextOffset
  <2>4. job'[j] = [job[j] EXCEPT !.next = NextOffset(start, n)]
    BY <1>1, <1>3, <1>10
  <2>5. job'[j].next # 0 /\ job'[j].status = "searching"
    BY <1>3, <1>10, <2>3, <2>4 DEF JobRow
  <2>6. ~Unsearched(job'[j])
    BY <2>5 DEF Unsearched
  <2>7. \A i \in Job : i # j => job'[i] = job[i]
    BY <1>1, <1>10
  <2>8. ASSUME NEW i \in Job, Unsearched(job'[i]), NEW k \in DOMAIN shards' PROVE shards'[k].job # i
    <3>1. i # j
      BY <2>6, <2>8
    <3>2. \A l \in 1..Len(shards) : shards[l].job # i
      BY <1>1, <2>7, <2>8, <3>1 DEF FirstRun, NoShard
    <3>3. k = Len(shards) + 1 \/ k \in 1..Len(shards)
      BY <1>1, <2>2
    <3> QED
      BY <2>1, <2>2, <3>1, <3>2, <3>3
  <2>9. sched'.error = "none" /\ sched'.pc \notin {"down", "recover"}
    BY <1>8, <1>10
  <2> QED
    BY <2>8, <2>9 DEF FirstRun, NoShard
<1> HIDE DEF Filled, new
<1> QED
  BY <1>7, <1>9, <1>10

\* Kills and stops are only counted up.
LEMMA EndsStay ==
  ASSUME IInv, [Next]_vars, faults'.kills = 0, faults'.stops = 0
  PROVE  faults.kills = 0 /\ faults.stops = 0 /\ ~Kill /\ ~Exit
<1>1. faults \in [kills : 0..MaxKills, stops : 0..MaxStops,
                 deaths : 0..MaxDeaths, calls : 0..MaxCalls]
  BY DEF IInv, TypeOK
<1>2. faults.kills \in Nat /\ faults.stops \in Nat
  BY <1>1, SizeAssumption
<1>3. \/ UNCHANGED faults
      \/ faults' = [faults EXCEPT !.deaths = @ + 1]
      \/ faults' = [faults EXCEPT !.kills = @ + 1]
      \/ faults' = [faults EXCEPT !.stops = @ + 1]
      \/ faults' = [faults EXCEPT !.calls = @ + 1]
  BY DEF Next, Round, Worker, vars, Start, Recover, Poll, RestartDead, Finalize, Check, TimeOut,
     Claim, Handle, AllocateTo, Exit, Kill, OrphanEnds, Boot, SelfTest, Take, Search, DrainCommands, Ready, Report,
     Die, Create, CancelRead, CancelWrite, Submit, Deadline, Called
<1>4. ~Kill /\ ~Exit
  BY <1>1, <1>2 DEF Kill, Exit
<1> QED
  BY <1>1, <1>2, <1>3, <1>4

LEMMA NextFirst ==
  ASSUME IInv, Turns, FirstRun, [Next]_vars, faults'.kills = 0, faults'.stops = 0
  PROVE  FirstRun'
<1>1. ASSUME UNCHANGED <<job, shards, sched>> PROVE FirstRun'
  BY <1>1 DEF FirstRun, NoShard, Unsearched
<1>2. CASE UNCHANGED vars
  BY <1>1, <1>2 DEF vars, dbvars
<1>3. ASSUME Round PROVE FirstRun'
  BY <1>3, StartFirst, PollFirst, FinalizeFirst, CheckFirst, TimeOutFirst, ClaimFirst,
     HandleFirst, AllocateFirst DEF Round
<1>4. ASSUME NEW g \in Gpu, Worker(g) \/ Die(g) PROVE FirstRun'
  <2>1. UNCHANGED <<job, shards, sched>>
    BY <1>4 DEF Worker, Boot, SelfTest, Take, Search, DrainCommands, Ready, Report, Die, dbvars
  <2> QED
    BY <1>1, <2>1
<1>5. ASSUME NEW j \in Job,
             Create(j) \/ CancelRead(j) \/ CancelWrite(j) \/ Submit(j) \/ Deadline(j)
      PROVE  FirstRun'
  BY <1>5, ApiFirst
<1>6. ~Kill /\ ~Exit
  BY EndsStay
<1>7. ASSUME NEW s \in orphans, OrphanEnds(s) PROVE FirstRun'
  BY <1>1, <1>7 DEF OrphanEnds, dbvars
<1> QED
  BY <1>2, <1>3, <1>4, <1>5, <1>6, <1>7 DEF Next

FirstRunUntilFault ==
  faults.kills = 0 /\ faults.stops = 0 /\ faults.deaths = 0 => FirstRun

\* In its first run no assertion of the scheduler fails and the table refuses no range, as
\* long as no worker dies, for any number of jobs, GPUs and calls.
THEOREM FirstRunGoesOn == Spec => []KeepsRunning
<1>1. Init => FirstRunUntilFault
  <2> SUFFICES ASSUME Init PROVE FirstRun
    BY DEF FirstRunUntilFault
  <2>1. /\ sched.pc = "down" /\ sched.error = "none" /\ shards = <<>>
        /\ \A j \in Job : job[j].status = "absent"
    BY DEF Init, Down
  <2>2. \A i \in DOMAIN shards : FALSE
    BY <2>1
  <2> QED
    BY <2>1, <2>2 DEF FirstRun, NoShard
<1>2. IInv /\ TurnsUntilDeath /\ FirstRunUntilFault /\ [Next]_vars => FirstRunUntilFault'
  BY NextFirst, DeathsStay, EndsStay DEF FirstRunUntilFault, TurnsUntilDeath
<1>3. FirstRunUntilFault => KeepsRunning
  BY DEF FirstRunUntilFault, FirstRun, KeepsRunning
<1> QED
  BY <1>1, <1>2, <1>3, Invariance, Orderly, PTL DEF Spec
================================================================================
