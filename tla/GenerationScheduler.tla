------------------------- MODULE GenerationScheduler -------------------------
(***************************************************************************)
(* The GPU scheduler (app/generator): one process that gives one queued    *)
(* job to all local GPUs, range by range, through worker processes that    *)
(* may die; and the API handlers that write the same job rows, each of     *)
(* which reads a row first and writes it later.                            *)
(*                                                                         *)
(* Jobs are numbered in the order of created_at (priority is never set);   *)
(* the offsets of a job are counted from its search_origin, so that the    *)
(* origin is 0 and Order is what is left of the group.  Progress, rates    *)
(* and heartbeats are abstracted: a shard's length is any of Counts.       *)
(***************************************************************************)
EXTENDS Integers, Sequences

CONSTANTS
  Jobs,      \* how many jobs are created
  Gpus,      \* how many GPUs the machine has
  Order,     \* offsets left after search_origin
  Counts,    \* the lengths a shard may have (benchmark_rate * shard_seconds)
  MaxKills,  \* bound on scheduler kills, for TLC
  MaxStops,  \* bound on its ends by a stop signal or a failing database, for TLC
  MaxDeaths, \* bound on worker deaths and failed self-tests, for TLC
  MaxCalls   \* bound on calls that cancel a job or submit a candidate, for TLC

ASSUME SizeAssumption ==
  /\ Jobs \in Nat /\ Gpus \in Nat /\ Order \in Nat
  /\ Counts \subseteq Nat \ {0} /\ MaxKills \in Nat /\ MaxStops \in Nat
  /\ MaxDeaths \in Nat /\ MaxCalls \in Nat

VARIABLES
  job,      \* the rows of generation_jobs
  shards,   \* the rows of generation_shards, in the order of their creation
  device,   \* the status of each row of gpu_devices
  cancel,   \* the jobs whose cancel handler has read the row and not yet written it
  sched,    \* the scheduler's memory: where its loop is, and what it knows
  held,     \* the supervisor's handles: the shard assigned to each worker, or 0
  worker,   \* the worker processes, each with its queue of commands
  events,   \* the events of each worker in the queue of events
  orphans,  \* the ranges searched by workers that a killed scheduler left behind
  faults    \* how many kills, stops, deaths and calls there were

dbvars == <<job, shards, device>>
vars == <<job, shards, device, cancel, sched, held, worker, events, orphans, faults>>

Job == 1..Jobs
Gpu == 1..Gpus
Settled == {"ready", "failed", "canceled", "timed_out"}
Accepting == {"queued", "searching"}
JobRow == [status : {"absent"} \cup Accepting \cup Settled, next : 0..Order,
           result : BOOLEAN, late : BOOLEAN]
Shard == [job : Job, gpu : Gpu, start : 0..Order, count : Counts,
          status : {"assigned", "running", "exhausted", "found", "canceled", "failed"}]

\* An event carries its shard, or 0; a command is an assignment or the end of a job.
Event(type, s) == [type |-> type, shard |-> s]
Assignment(s) == [kind |-> "assignment", of |-> s]
CancelJob(j) == [kind |-> "cancel", of |-> j]
Fresh == [pc |-> "booting", shard |-> 0, commands |-> <<>>]
Gone == [pc |-> "dead", shard |-> 0, commands |-> <<>>]
Down(error) == [pc |-> "down", active |-> 0, draining |-> 0, idle |-> {},
                inbox |-> [g \in Gpu |-> <<>>], pending |-> {}, winner |-> 0, seen |-> "none", error |-> error]

Init ==
  /\ job = [j \in Job |-> [status |-> "absent", next |-> 0, result |-> FALSE, late |-> FALSE]]
  /\ shards = <<>>
  /\ device = [g \in Gpu |-> "offline"]
  /\ cancel = {}
  /\ sched = Down("none")
  /\ held = [g \in Gpu |-> 0]
  /\ worker = [g \in Gpu |-> Gone]
  /\ events = [g \in Gpu |-> <<>>]
  /\ orphans = {}
  /\ faults = [kills |-> 0, stops |-> 0, deaths |-> 0, calls |-> 0]

-----------------------------------------------------------------------------
(* The API.                                                                *)

Create(j) ==
  /\ job[j].status = "absent" /\ \A i \in 1..(j - 1) : job[i].status # "absent"
  /\ job' = [job EXCEPT ![j].status = "queued"]
  /\ UNCHANGED <<shards, device, cancel, orphans, sched, held, worker, events, faults>>

Called ==
  /\ faults.calls < MaxCalls
  /\ faults' = [faults EXCEPT !.calls = @ + 1]

\* cancel_job reads the row without a lock and decides ...
CancelRead(j) ==
  /\ job[j].status \notin Settled \cup {"absent"} /\ j \notin cancel
  /\ cancel' = cancel \cup {j}
  /\ Called
  /\ UNCHANGED <<dbvars, orphans, sched, held, worker, events>>

\* ... and writes whatever the row says by then.
CancelWrite(j) ==
  /\ j \in cancel
  /\ cancel' = cancel \ {j}
  /\ job' = [job EXCEPT ![j].status = "canceled"]
  /\ UNCHANGED <<shards, device, orphans, sched, held, worker, events, faults>>

\* submit_candidate: a verified candidate of a remote worker, under the row's lock.
Submit(j) ==
  /\ job[j].status \in Accepting /\ ~job[j].result
  /\ job' = [job EXCEPT ![j].status = "ready", ![j].result = TRUE]
  /\ Called
  /\ UNCHANGED <<shards, device, cancel, orphans, sched, held, worker, events>>

\* The clock passes the deadline of a job.
Deadline(j) ==
  /\ job[j].status = "searching" /\ ~job[j].late
  /\ job' = [job EXCEPT ![j].late = TRUE]
  /\ UNCHANGED <<shards, device, cancel, orphans, sched, held, worker, events, faults>>

-----------------------------------------------------------------------------
(* The workers.                                                            *)

Emit(g, evs) == events' = [events EXCEPT ![g] = @ \o evs]

\* A new process reports that it starts and tests itself ...
Boot(g) ==
  /\ worker[g].pc = "booting"
  /\ worker' = [worker EXCEPT ![g].pc = "testing"]
  /\ Emit(g, <<Event("starting", 0)>>)
  /\ UNCHANGED <<dbvars, cancel, orphans, sched, held, faults>>

\* ... and is ready, or ends when the self-test or the native session fails.
SelfTest(g) ==
  /\ worker[g].pc = "testing"
  /\ \/ /\ worker' = [worker EXCEPT ![g].pc = "idle"]
        /\ Emit(g, <<Event("ready", 0)>>)
        /\ UNCHANGED faults
     \/ /\ faults.deaths < MaxDeaths
        /\ faults' = [faults EXCEPT !.deaths = @ + 1]
        /\ worker' = [worker EXCEPT ![g] = Gone]
        /\ Emit(g, <<Event("failed", 0), Event("stopped", 0)>>)
  /\ UNCHANGED <<dbvars, cancel, orphans, sched, held>>

\* An idle worker takes its next command; the end of a job is nothing to it.
Take(g) ==
  /\ worker[g].pc = "idle" /\ worker[g].commands # <<>>
  /\ LET c == Head(worker[g].commands)
         rest == Tail(worker[g].commands) IN
     IF c.kind = "assignment"
       THEN /\ worker' = [worker EXCEPT ![g] = [pc |-> "busy", shard |-> c.of, commands |-> rest]]
            /\ Emit(g, <<Event("started", c.of)>>)
       ELSE worker' = [worker EXCEPT ![g].commands = rest] /\ UNCHANGED events
  /\ UNCHANGED <<dbvars, cancel, orphans, sched, held, faults>>

Report(g, type, rest) ==
  /\ worker' = [worker EXCEPT ![g] = [pc |-> "reported", shard |-> 0, commands |-> rest]]
  /\ Emit(g, <<Event(type, worker[g].shard)>>)
  /\ UNCHANGED <<dbvars, cancel, orphans, sched, held, faults>>

\* The search of the range ends: nothing there, a winner, or an error of the session.
Search(g) ==
  /\ worker[g].pc = "busy"
  /\ \E type \in {"exhausted", "found", "failed"} : Report(g, type, worker[g].commands)

\* The command a busy worker obeys: the end of its own job.
Stopped(g) ==
  \E i \in DOMAIN worker[g].commands :
    worker[g].commands[i] = CancelJob(shards[worker[g].shard].job)

\* Between two batches it drains its commands.  A second assignment is an error.
DrainCommands(g) ==
  LET cs == worker[g].commands IN
  /\ worker[g].pc = "busy" /\ cs # <<>>
  /\ IF \E i \in DOMAIN cs : cs[i].kind = "assignment" THEN Report(g, "failed", <<>>)
     ELSE IF Stopped(g) THEN Report(g, "canceled", <<>>)
     ELSE /\ worker' = [worker EXCEPT ![g].commands = <<>>]
          /\ UNCHANGED <<dbvars, cancel, orphans, sched, held, events, faults>>

Ready(g) ==
  /\ worker[g].pc = "reported"
  /\ worker' = [worker EXCEPT ![g].pc = "idle"]
  /\ Emit(g, <<Event("ready", 0)>>)
  /\ UNCHANGED <<dbvars, cancel, orphans, sched, held, faults>>

Die(g) ==
  /\ worker[g].pc # "dead" /\ faults.deaths < MaxDeaths
  /\ faults' = [faults EXCEPT !.deaths = @ + 1]
  /\ worker' = [worker EXCEPT ![g] = Gone]
  /\ UNCHANGED <<dbvars, cancel, orphans, sched, held, events>>

-----------------------------------------------------------------------------
(* The scheduler starts and stops.                                         *)

\* recover_interrupted_work reads the active shards and jobs ...
Start ==
  /\ sched.pc = "down"
  /\ sched' = [sched EXCEPT !.pc = "recover",
                            !.pending = {j \in Job : job[j].status = "searching"}]
  /\ UNCHANGED <<dbvars, cancel, orphans, held, worker, events, faults>>

\* ... fails the shards and puts the jobs back in the queue, at their origin.  Then
\* initialize enters the devices and start spawns the workers.
Recover ==
  /\ sched.pc = "recover"
  /\ shards' = [i \in DOMAIN shards |->
                  IF shards[i].status \in {"assigned", "running"}
                    THEN [shards[i] EXCEPT !.status = "failed"] ELSE shards[i]]
  /\ job' = [j \in Job |-> IF j \in sched.pending
               THEN [job[j] EXCEPT !.status = "queued", !.next = 0, !.late = FALSE] ELSE job[j]]
  /\ device' = [g \in Gpu |-> "starting"]
  /\ worker' = [g \in Gpu |-> Fresh]
  /\ sched' = [Down("none") EXCEPT !.pc = "poll"]
  /\ UNCHANGED <<cancel, orphans, held, events, faults>>

\* What is in the memory of the process is gone, and its workers are no longer its own.
Forgotten(error) ==
  /\ sched' = Down(error)
  /\ held' = [g \in Gpu |-> 0]
  /\ worker' = [g \in Gpu |-> Gone]
  /\ events' = [g \in Gpu |-> <<>>]

\* run() ends and its finally clause stops the workers and marks their devices.
Ends(error) == Forgotten(error) /\ device' = [g \in Gpu |-> "offline"]

\* A stop signal, or an exception of the database, ends the process.  The devices stay as
\* they are if the database is away, or if the loop had not been reached.
Exit ==
  /\ sched.pc # "down" /\ faults.stops < MaxStops
  /\ faults' = [faults EXCEPT !.stops = @ + 1]
  /\ \/ sched.pc # "recover" /\ Ends("none")
     \/ Forgotten("none") /\ UNCHANGED device
  /\ UNCHANGED <<job, shards, cancel, orphans>>

\* The ranges that a worker searches or has in its queue.
Given ==
  {s \in DOMAIN shards : \E g \in Gpu :
     worker[g].shard = s \/ \E i \in DOMAIN worker[g].commands :
                               worker[g].commands[i] = Assignment(s)}

\* The process is killed: nobody stops its workers, which are processes of their own.  They
\* go on with what they have, unless they die with it (a container that is stopped) or the
\* command never left the queue's feeder.  Nobody reads what they say, and no command
\* reaches them any more.
Kill ==
  /\ sched.pc # "down" /\ faults.kills < MaxKills
  /\ faults' = [faults EXCEPT !.kills = @ + 1]
  /\ Forgotten("none")
  /\ \E left \in SUBSET Given : orphans' = orphans \cup left
  /\ UNCHANGED <<dbvars, cancel>>

\* Such a worker comes to the end of its range, or dies.
OrphanEnds(s) ==
  /\ s \in orphans
  /\ orphans' = orphans \ {s}
  /\ UNCHANGED <<dbvars, cancel, sched, held, worker, events, faults>>

-----------------------------------------------------------------------------
(* One round of the loop.  The queue of events is emptied, dead workers    *)
(* are replaced, and the events are recorded one by one, those of a worker *)
(* in their order.                                                         *)

\* Mutants: a canceled shard does not free its worker; a started one does.
Completion_NotCanceled == {"exhausted", "found", "failed"}
Completion_Started == {"started", "exhausted", "found", "canceled", "failed"}

Completion == {"exhausted", "found", "canceled", "failed"}

Poll ==
  /\ sched.pc = "poll"
  /\ sched' = [sched EXCEPT !.pc = "restart", !.inbox = events]
  /\ held' = [g \in Gpu |->
       IF \E i \in DOMAIN events[g] : events[g][i].type \in Completion THEN 0 ELSE held[g]]
  /\ events' = [g \in Gpu |-> <<>>]
  /\ UNCHANGED <<dbvars, cancel, orphans, worker, faults>>

\* A dead worker that had an assignment gets an event that says so.
RestartDead ==
  LET dead == {g \in Gpu : worker[g].pc = "dead"}
      Failure(g) == IF g \in dead /\ held[g] # 0 THEN <<Event("failed", held[g])>> ELSE <<>> IN
  /\ sched.pc = "restart"
  /\ sched' = [sched EXCEPT !.pc = "handle", !.inbox = [g \in Gpu |-> @[g] \o Failure(g)]]
  /\ held' = [g \in Gpu |-> IF g \in dead THEN 0 ELSE held[g]]
  /\ worker' = [g \in Gpu |-> IF g \in dead THEN Fresh ELSE worker[g]]
  /\ UNCHANGED <<dbvars, cancel, orphans, events, faults>>

\* What record_event makes of the device ...
Recorded(g, type) ==
  CASE type = "starting" -> "starting" [] type = "ready" -> "ready"
    [] type = "stopped" -> "offline" [] type = "failed" -> "unhealthy" [] OTHER -> device[g]

\* ... of the shard the event carries, whatever its status is ...
Reported(type) == IF type = "started" THEN "running" ELSE type

\* Mutant: a worker that becomes ready while a job drains is not counted.
IdleAfter_Draining(g, type) ==
  CASE type = "ready" /\ sched.draining = 0 -> sched.idle \cup {g}
    [] type \in {"started", "failed", "stopped"} -> sched.idle \ {g} [] OTHER -> sched.idle

\* ... and _handle_event of the idle GPUs.
IdleAfter(g, type) ==
  CASE type = "ready" -> sched.idle \cup {g}
    [] type \in {"started", "failed", "stopped"} -> sched.idle \ {g} [] OTHER -> sched.idle

Handle(g) ==
  LET e == Head(sched.inbox[g]) IN
  /\ sched.pc = "handle" /\ sched.inbox[g] # <<>>
  /\ IF e.type = "found"
       THEN \* The transaction has read the job; finalize_candidate comes next.
            /\ sched' = [sched EXCEPT !.pc = "found", !.winner = g,
                                      !.seen = job[shards[e.shard].job].status]
            /\ UNCHANGED dbvars
       ELSE /\ device' = [device EXCEPT ![g] = Recorded(g, e.type)]
            /\ shards' = IF e.shard = 0 THEN shards
                         ELSE [shards EXCEPT ![e.shard].status = Reported(e.type)]
            /\ sched' = [sched EXCEPT !.inbox[g] = Tail(@), !.idle = IdleAfter(g, e.type)]
            /\ UNCHANGED job
  /\ UNCHANGED <<cancel, orphans, held, worker, events, faults>>

\* Mutant: a winner that comes too late stays a found shard.
LateWinner_Found == "found"

LateWinner == "canceled"

\* finalize_candidate of a winner: the row is locked, but its status is the one read
\* before.  An existing result wins; otherwise an accepting job gets this one, unless
\* the verification rejects it.
Finalize ==
  LET g == sched.winner
      s == Head(sched.inbox[g]).shard
      j == shards[s].job
      Outcome(status) == shards' = [shards EXCEPT ![s].status = status] IN
  /\ sched.pc = "found"
  /\ sched' = [sched EXCEPT !.pc = "handle", !.inbox[g] = Tail(@), !.winner = 0,
                            !.seen = "none"]
  /\ IF job[j].result THEN Outcome("found") /\ UNCHANGED <<job, device>>
     ELSE IF sched.seen \notin Accepting THEN Outcome(LateWinner) /\ UNCHANGED <<job, device>>
     ELSE \/ /\ Outcome("found")
             /\ job' = [job EXCEPT ![j].status = "ready", ![j].result = TRUE]
             /\ UNCHANGED device
          \/ /\ Outcome("failed")
             /\ job' = [job EXCEPT ![j].status = "failed"]
             /\ device' = [device EXCEPT ![g] = "unhealthy"]
  /\ UNCHANGED <<cancel, orphans, held, worker, events, faults>>

-----------------------------------------------------------------------------
(* The rest of the round: the active job, draining, the next job.          *)

\* Mutant: the next job does not wait for the workers of the last one.
Drained_Never(idle) == TRUE

\* Every GPU is idle.
Drained(idle) == idle = Gpu

\* Where the loop goes next with the memory s: to claim a job, to give the idle GPUs
\* ranges of the active one, or to sleep.
Onward(s) ==
  IF s.active = 0 /\ s.draining = 0 /\ Drained(s.idle) THEN [s EXCEPT !.pc = "claim"]
  ELSE IF s.active = 0 \/ s.draining # 0 \/ s.idle = {} THEN [s EXCEPT !.pc = "poll"]
  ELSE [s EXCEPT !.pc = "fill", !.pending = s.idle]

\* The active job is settled: its workers are told to stop and it is drained.
StopActive ==
  /\ sched' = Onward([sched EXCEPT !.active = 0,
                        !.draining = IF Drained(sched.idle) THEN 0 ELSE sched.active])
  /\ worker' = [g \in Gpu |->
       IF held[g] # 0 /\ shards[held[g]].job = sched.active
         THEN [worker[g] EXCEPT !.commands = Append(@, CancelJob(sched.active))] ELSE worker[g]]

\* active_job_status reads the job (a late one is written next), then _finish_draining.
Check ==
  LET j == sched.active IN
  /\ sched.pc = "handle" /\ \A g \in Gpu : sched.inbox[g] = <<>>
  /\ IF j # 0 /\ job[j].status \in Settled THEN StopActive
     ELSE /\ sched' = IF j # 0 /\ job[j].status = "searching" /\ job[j].late
                       THEN [sched EXCEPT !.pc = "late"]
                       ELSE Onward([sched EXCEPT !.draining = IF Drained(sched.idle) THEN 0 ELSE @])
          /\ UNCHANGED worker
  /\ UNCHANGED <<dbvars, cancel, orphans, held, events, faults>>

\* The deadline has passed: the job times out, whatever its row says by then.
TimeOut ==
  /\ sched.pc = "late"
  /\ job' = [job EXCEPT ![sched.active].status = "timed_out"]
  /\ StopActive
  /\ UNCHANGED <<shards, device, cancel, orphans, held, events, faults>>

\* The first job that a claim finds: one being searched, or else the oldest queued.
Claimable ==
  LET searching == {j \in Job : job[j].status = "searching"}
      queued == {j \in Job : job[j].status = "queued"} IN
  IF searching # {} THEN searching
  ELSE IF queued # {} THEN {j \in queued : \A i \in queued : j <= i} ELSE {0}

\* With nothing active, nothing draining and every GPU idle, claim the next job.
Claim ==
  /\ sched.pc = "claim"
  /\ \E j \in Claimable :
       /\ sched' = IF j = 0 THEN [sched EXCEPT !.pc = "poll"]
                   ELSE Onward([sched EXCEPT !.active = j])
       /\ job' = IF j # 0 /\ job[j].status = "queued"
                   THEN [job EXCEPT ![j] = [@ EXCEPT !.status = "searching", !.next = 0,
                                                     !.late = FALSE]]
                   ELSE job
  /\ UNCHANGED <<shards, device, cancel, orphans, held, worker, events, faults>>

\* Mutant: the next range begins one after this one began.
NextOffset_ByOne(start, count) == start + 1

NextOffset(start, count) == start + count

\* Mutant: the end of the group is not looked at.
PastEnd_Never(start, count) == FALSE

PastEnd(start, count) == start + count >= Order

\* allocate_shard for g, the first idle GPU left, and dispatch.  The range is past the end
\* of the group, or begins where a shard of the job does (the unique constraint raises),
\* or is entered and sent to the worker; dispatch raises if the supervisor's handle has
\* an assignment or the worker is dead.
AllocateTo(g) ==
  LET j == sched.active
      start == job[j].next
      s == Len(shards) + 1
      Then(idle) == sched' = [sched EXCEPT !.pending = @ \ {g}, !.idle = idle,
                                !.pc = IF sched.pending = {g} THEN "poll" ELSE @]
      Skip == Then(sched.idle) /\ UNCHANGED <<held, worker, events, device>> IN
  /\ sched.pc = "fill" /\ g \in sched.pending /\ \A h \in sched.pending : g <= h
  /\ IF job[j].status # "searching" \/ device[g] # "ready" THEN Skip /\ UNCHANGED <<job, shards>>
     ELSE \E n \in Counts :
       IF PastEnd(start, n)
         THEN Skip /\ job' = [job EXCEPT ![j].status = "failed"] /\ UNCHANGED shards
       ELSE IF \E i \in DOMAIN shards : shards[i].job = j /\ shards[i].start = start
         THEN Ends("duplicate_range") /\ UNCHANGED <<job, shards>>
       ELSE
         /\ shards' = Append(shards, [job |-> j, gpu |-> g, start |-> start, count |-> n,
                                      status |-> "assigned"])
         /\ job' = [job EXCEPT ![j].next = NextOffset(start, n)]
         /\ IF held[g] # 0 THEN Ends("already_assigned")
            ELSE IF worker[g].pc = "dead" THEN Ends("not_alive")
            ELSE /\ device' = [device EXCEPT ![g] = "searching"]
                 /\ held' = [held EXCEPT ![g] = s]
                 /\ worker' = [worker EXCEPT ![g].commands = Append(@, Assignment(s))]
                 /\ Then(sched.idle \ {g})
                 /\ UNCHANGED events
  /\ UNCHANGED <<cancel, orphans, faults>>

-----------------------------------------------------------------------------
Round ==
  \/ Start \/ Recover \/ Poll \/ RestartDead \/ Finalize
  \/ Check \/ TimeOut \/ Claim
  \/ \E g \in Gpu : Handle(g) \/ AllocateTo(g)

Worker(g) == Boot(g) \/ SelfTest(g) \/ Take(g) \/ Search(g) \/ DrainCommands(g) \/ Ready(g)

Next ==
  \/ Round \/ Exit \/ Kill \/ \E s \in orphans : OrphanEnds(s)
  \/ \E g \in Gpu : Worker(g) \/ Die(g)
  \/ \E j \in Job : Create(j) \/ CancelRead(j) \/ CancelWrite(j) \/ Submit(j) \/ Deadline(j)

Spec == Init /\ [][Next]_vars

-----------------------------------------------------------------------------
(* Fairness: the scheduler's loop runs, and is started again when it ended; *)
(* a worker that is up runs; the clock advances; a handler that has read a  *)
(* row writes it.                                                           *)
Fairness ==
  /\ WF_vars(Round)
  /\ \A g \in Gpu : WF_vars(Worker(g))
  /\ \A j \in Job : WF_vars(Deadline(j)) /\ WF_vars(CancelWrite(j))

FairSpec == Spec /\ Fairness

-----------------------------------------------------------------------------
(* Correctness.                                                            *)

\* Every variable has its type.
TypeOK ==
  /\ job \in [Job -> JobRow]
  /\ shards \in Seq(Shard)
  /\ device \in [Gpu -> {"offline", "starting", "ready", "searching", "unhealthy"}]
  /\ cancel \subseteq Job
  /\ sched.active \in 0..Jobs /\ sched.draining \in 0..Jobs
  /\ sched.idle \subseteq Gpu
  /\ held \in [Gpu -> 0..Len(shards)]
  /\ \A g \in Gpu : worker[g].shard \in 0..Len(shards)
  /\ orphans \subseteq DOMAIN shards /\ (faults.kills = 0 => orphans = {})
  /\ faults \in [kills : 0..MaxKills, stops : 0..MaxStops, deaths : 0..MaxDeaths,
                 calls : 0..MaxCalls]

\* backend/README.md:252: every GPU receives a different range of the job, also when
\* the job is searched again after a restart, with other shard lengths.
ShardsDisjoint ==
  \A i, k \in DOMAIN shards :
    i # k /\ shards[i].job = shards[k].job =>
      \/ shards[i].start + shards[i].count <= shards[k].start
      \/ shards[k].start + shards[k].count <= shards[i].start

\* A shard is only left as found when its job has a verified result.
FoundHasResult ==
  \A i \in DOMAIN shards : shards[i].status = "found" => job[shards[i].job].result

\* The ranges that processes of the machine search.
Searching == {worker[g].shard : g \in {h \in Gpu : worker[h].pc = "busy"}} \cup orphans

\* Two of these ranges are of one job.
SameJob(s, t) == shards[s].job = shards[t].job

\* backend/README.md:251: one job at a time; workers that search at the same time search
\* for the same job, so the next one waits until each worker has left the last, also when
\* the scheduler is stopped, or fails, and is started again.  When it was killed only the
\* workers it left behind may search for another job.  (The replacement of a worker that
\* died while it was idle is counted idle twice, and may then keep its range when the next
\* job starts.)
OneJobSearched ==
  faults.deaths = 0 =>
    \A s, t \in Searching : SameJob(s, t) \/ (faults.kills > 0 /\ {s, t} \cap orphans # {})

\* A worker that searches is one the supervisor knows to be assigned that shard, so that
\* the end of a job reaches every worker that still searches for it; only workers that a
\* killed scheduler left behind are out of reach.  (After a death the event of a failed
\* start, read late, can clear the handle of the next worker.)
SearchIsHeld ==
  faults.deaths = 0 =>
    /\ \A g \in Gpu : worker[g].pc = "busy" => held[g] = worker[g].shard
    /\ faults.kills = 0 => Searching \subseteq {held[g] : g \in Gpu}

\* No assertion of dispatch and no constraint of the table ends the scheduler, unless a
\* worker has died or the scheduler was started again.
KeepsRunning ==
  faults.kills = 0 /\ faults.stops = 0 /\ faults.deaths = 0 => sched.error = "none"

\* A queued job is claimed in the end, when no worker fails and the scheduler does not end, so
\* that the queue becomes empty: the job before it meets its deadline, if nothing else settles
\* it, and drains.  (Jobs are created once, and only a restart puts one back.)
QueuedIsClaimed ==
  []<>(faults.kills + faults.stops > 0 \/ \A j \in Job : job[j].status # "queued")

\* models.py:313: the scheduler never allocates a range that begins where another does.
NeverDuplicateRange == sched.error # "duplicate_range"

\* jobs.py:140: "A ready job cannot be canceled."
ReadyNotCanceled ==
  [][\A j \in Job : job[j].status = "ready" => job'[j].status # "canceled"]_job

-----------------------------------------------------------------------------
(* The inductive invariant; its theorem is in GenerationSchedulerProofs.   *)

\* The events and commands that speak of n shards.
EventOf(n) ==
  {Event(type, 0) : type \in {"starting", "ready", "failed", "stopped"}}
    \cup {Event(type, s) : type \in Completion \cup {"started"}, s \in 1..n}
CommandOf(n) == {Assignment(s) : s \in 1..n} \cup {CancelJob(j) : j \in Job}

Memory(n) ==
  [pc : {"down", "recover", "poll", "restart", "handle", "found", "late", "claim", "fill"},
   active : 0..Jobs, draining : 0..Jobs, idle : SUBSET Gpu,
   inbox : [Gpu -> Seq(EventOf(n))], pending : SUBSET Nat, winner : 0..Gpus,
   seen : {"none", "absent"} \cup Accepting \cup Settled,
   error : {"none", "duplicate_range", "already_assigned", "not_alive"}]
WorkerState(n) ==
  [pc : {"dead", "booting", "testing", "idle", "busy", "reported"}, shard : 0..n,
   commands : Seq(CommandOf(n))]

\* What the scheduler has at hand where its loop needs it.
Coherent(s) ==
  /\ s.pc \in {"late", "fill"} => s.active # 0
  /\ s.pc = "fill" => s.pending \subseteq Gpu
  /\ s.pc = "found" =>
       s.winner \in Gpu /\ s.inbox[s.winner] # <<>> /\ Head(s.inbox[s.winner]).type = "found"

\* What the processes remember refers to rows that exist.
MemoryOK ==
  /\ sched \in Memory(Len(shards))
  /\ worker \in [Gpu -> WorkerState(Len(shards))]
  /\ events \in [Gpu -> Seq(EventOf(Len(shards)))]
  /\ \A g \in Gpu : worker[g].pc = "busy" => worker[g].shard # 0
  /\ Coherent(sched)

\* A job that has a shard, or whose next range is not the first, has a shard at its origin.
OriginTaken ==
  \A j \in Job :
    job[j].next # 0 \/ (\E i \in DOMAIN shards : shards[i].job = j) =>
      \E k \in DOMAIN shards : shards[k].job = j /\ shards[k].start = 0

\* Where a job's next range begins no shard has been, unless it was put back to its origin.
NextIsFree ==
  \A i \in DOMAIN shards :
    \/ job[shards[i].job].next = 0
    \/ shards[i].start + shards[i].count <= job[shards[i].job].next

IInv ==
  /\ TypeOK /\ MemoryOK /\ OriginTaken /\ NextIsFree /\ ShardsDisjoint /\ FoundHasResult
=============================================================================
