------------------------------ MODULE NativeWorker ------------------------------
(* The clients of a search process.  The scheduler's worker is                  *)
(* `execute_cuda_assignment` of app/generator/worker.py with its                *)
(* `NativeCudaSession`: it divides an assignment into batches, aligned to the   *)
(* chain count when they reach it, obeys a cancellation or a shutdown between   *)
(* batches and while it waits for one, and kills the process to interrupt it.   *)
(* The other client is an operator at a terminal, whose lines need no alignment *)
(* (`serve-gpu` of native/README.md).                                           *)
EXTENDS CudaSession

CONSTANTS
  Jobs,           \* the assignments the worker may be given, as lines
  BatchSizes,     \* the sizes the observed rate may ask for
  TerminalLines,  \* the lines the operator may write
  MaxJobs,        \* bound on assignments taken and terminal lines written
  MaxCommands     \* bound on cancellations and shutdowns sent

WorkerAssumption ==
  /\ Jobs \subseteq Lines /\ TerminalLines \subseteq Lines
  /\ BatchSizes \subseteq Nat \ {0} /\ MaxJobs \in Nat /\ MaxCommands \in Nat

\* allocate_shard of app/generator/repository.py: a shard has an offset, begins at the
\* job's search origin or where its last shard ended, and ends inside the group.
JobAssumption ==
  /\ \A a \in Jobs : a.count # 0 /\ a.start # 0 /\ a.start + a.count <= Order
  /\ CountLimit # 0

ASSUME WorkerConstants == WorkerAssumption
ASSUME JobConstants == JobAssumption

VARIABLES
  client,     \* "worker" or "terminal"
  work,       \* where the worker is: see Work
  job,        \* its assignment, or NoLine
  processed,  \* offsets searched of it
  batch,      \* the count of the batch being submitted or waited for
  outcome,    \* the last event about the assignment
  commands,   \* cancellations and shutdowns in the command queue
  jobs, sent  \* assignments taken or lines written, and commands sent, so far

workerVars == <<work, job, processed, batch, outcome, commands>>
allVars == <<vars, client, workerVars, jobs, sent>>

\* "loop" is the head of the batch loop, "starting" and "writing" are submit_search,
\* "waiting" polls for the response, "ended" has reported the outcome.
Busy == {"loop", "starting", "writing", "waiting"}
Work == Busy \cup {"booting", "idle", "ended", "stopped"}
Outcome(kind) == [kind |-> kind, offset |-> 0]

WorkerInit ==
  /\ Init
  /\ client \in {"worker", "terminal"}
  /\ work = "booting" /\ job = NoLine /\ processed = 0 /\ batch = 0
  /\ outcome = Outcome("nothing") /\ commands = {} /\ jobs = 0 /\ sent = 0

\* session.start() of cuda_worker_main; a failure reports FAILED and STOPPED.
Boot ==
  /\ work = "booting" /\ Start /\ work' = "idle"
  /\ UNCHANGED <<client, job, processed, batch, outcome, commands, jobs, sent>>

BootFails ==
  /\ work = "booting" /\ StartFails /\ work' = "stopped"
  /\ UNCHANGED <<client, job, processed, batch, outcome, commands, jobs, sent>>

\* The supervisor's assignment; a cancellation read while idle is passed over.
Take ==
  /\ work = "idle" /\ "shutdown" \notin commands /\ jobs < MaxJobs
  /\ job' \in Jobs /\ jobs' = jobs + 1
  /\ work' = "loop" /\ processed' = 0 /\ batch' = 0
  /\ outcome' = Outcome("nothing") /\ commands' = {}
  /\ UNCHANGED vars /\ UNCHANGED <<client, sent>>

Command ==
  /\ work \in Busy \cup {"idle"} /\ sent < MaxCommands
  /\ \E c \in {"cancel", "shutdown"} : commands' = commands \cup {c}
  /\ sent' = sent + 1
  /\ UNCHANGED vars /\ UNCHANGED <<client, work, job, processed, batch, outcome, jobs>>

\* Mutant: the process is left as it is.
StopSession_Leaves == UNCHANGED vars

\* NativeCudaSession.stop: the process ends, and its pipes are closed with what is in them.
StopSession ==
  IF proc # "down" THEN Stop ELSE IF reply # NoReply THEN Read ELSE UNCHANGED vars

Report(event) == outcome' = event /\ work' = "ended" /\ batch' = 0

\* drain_control_commands at the head of the loop and at every poll for the response;
\* a search under way is stopped with its process.
Obey ==
  /\ commands # {}
  /\ \/ work = "loop" /\ processed < job.count /\ UNCHANGED vars
     \/ work = "waiting" /\ StopSession
  /\ Report(Outcome("canceled"))
  /\ UNCHANGED <<client, job, processed, commands, jobs, sent>>

Least(a, b) == IF a < b THEN a ELSE b

\* Mutant: rounded up to whole cycles.
Aligned_Up(n) == IF n >= Chains THEN CeilDiv(n, Chains) * Chains ELSE n

\* A batch of at least one cycle is cut to whole cycles.
Aligned(n) == IF n >= Chains THEN n - (n % Chains) ELSE n

Choose ==
  /\ work = "loop" /\ processed < job.count /\ commands = {}
  /\ \E size \in BatchSizes :
       batch' = Aligned(Least(Least(size, CountLimit), job.count - processed))
  /\ work' = "starting"
  /\ UNCHANGED vars /\ UNCHANGED <<client, job, processed, outcome, commands, jobs, sent>>

\* start() starts the process again when the last one is gone.
Ensure ==
  /\ work = "starting"
  /\ IF proc = "down" THEN Start ELSE UNCHANGED vars
  /\ work' = "writing"
  /\ UNCHANGED <<client, job, processed, batch, outcome, commands, jobs, sent>>

\* An exception: the session is stopped and FAILED reported.
Fails ==
  /\ Report(Outcome("failed"))
  /\ UNCHANGED <<client, job, processed, commands, jobs, sent>>

RespawnFails == work = "starting" /\ StartFails /\ Fails

\* Mutant: every batch begins where the assignment does.
BatchLine_Restart == [job EXCEPT !.count = batch]
BatchLine == [job EXCEPT !.start = @ + processed, !.count = batch]

Write ==
  /\ work = "writing" /\ pipe' = BatchLine /\ Send
  /\ work' = "waiting"
  /\ UNCHANGED <<client, job, processed, batch, outcome, commands, jobs, sent>>

\* Mutant: an exit while the response is awaited goes unnoticed.
Lost_Writing ==
  /\ proc = "down" /\ work = "writing" /\ StopSession /\ Fails

\* The process died before the line was written, or before it answered.
Lost ==
  /\ proc = "down" /\ (work = "writing" \/ (work = "waiting" /\ reply = NoReply))
  /\ StopSession /\ Fails

Received ==
  /\ work = "waiting" /\ reply.kind = "error" /\ Read /\ Fails

Progress ==
  /\ work = "waiting" /\ reply.kind = "none" /\ Read
  /\ processed' = processed + batch /\ batch' = 0 /\ work' = "loop"
  /\ UNCHANGED <<client, job, outcome, commands, jobs, sent>>

Winner ==
  /\ work = "waiting" /\ reply.kind = "found" /\ Read
  /\ processed' = processed + batch
  /\ Report([kind |-> "found", offset |-> reply.offset])
  /\ UNCHANGED <<client, job, commands, jobs, sent>>

Exhaust ==
  /\ work = "loop" /\ processed = job.count
  /\ Report(Outcome("exhausted"))
  /\ UNCHANGED vars /\ UNCHANGED <<client, job, processed, commands, jobs, sent>>

\* READY after an outcome, or the end of the worker after a shutdown.
Ready ==
  /\ work = "ended"
  /\ IF "shutdown" \in commands THEN StopSession /\ work' = "stopped"
                                ELSE UNCHANGED vars /\ work' = "idle"
  /\ commands' = {}
  /\ UNCHANGED <<client, job, processed, batch, outcome, jobs, sent>>

Shutdown ==
  /\ work = "idle" /\ "shutdown" \in commands
  /\ StopSession /\ work' = "stopped" /\ commands' = {}
  /\ UNCHANGED <<client, job, processed, batch, outcome, jobs, sent>>

WorkerStep ==
  \/ Boot \/ Obey \/ Choose \/ Ensure \/ Write \/ Lost \/ Received
  \/ Progress \/ Winner \/ Exhaust \/ Ready \/ Shutdown

WorkerNext == WorkerStep \/ Take \/ Command \/ BootFails \/ RespawnFails

TerminalNext ==
  /\ \/ (Start \/ StartFails) /\ UNCHANGED jobs
     \/ jobs < MaxJobs /\ jobs' = jobs + 1 /\ pipe' \in TerminalLines /\ Send
     \/ Read /\ UNCHANGED jobs
     \/ Stop /\ UNCHANGED jobs
  /\ UNCHANGED <<client, workerVars, sent>>

Server == (Serve \/ CudaError \/ Die) /\ UNCHANGED <<client, workerVars, jobs, sent>>

SystemNext ==
  \/ Server
  \/ client = "worker" /\ WorkerNext
  \/ client = "terminal" /\ TerminalNext

\* The threads of a launch and the host finish, and the worker's process is scheduled.
Fairness ==
  /\ WF_allVars(Serve /\ UNCHANGED <<client, workerVars, jobs, sent>>)
  /\ WF_allVars(client = "worker" /\ WorkerStep)

SystemSpec == WorkerInit /\ [][SystemNext]_allVars /\ Fairness

--------------------------------------------------------------------------------
WorkerTypeOK ==
  /\ TypeOK
  /\ client \in {"worker", "terminal"} /\ work \in Work
  /\ job \in Jobs \cup {NoLine} /\ processed \in 0..job.count /\ batch \in 0..(job.count - processed)
  /\ outcome \in [kind : {"nothing", "found", "exhausted", "canceled", "failed"},
                  offset : 0..(Order - 1)]
  /\ commands \subseteq {"cancel", "shutdown"} /\ jobs \in 0..MaxJobs /\ sent \in 0..MaxCommands

\* Whatever the worker counts as processed was searched for this assignment: no match is
\* in it, up to the last batch of a winner.  An answer to an earlier batch or another
\* assignment, left in a pipe by a cancellation, would break it, and so would a gap
\* between the batches; EXHAUSTED is reported on this count.
ProgressIsTrue ==
  LET searched == IF outcome.kind = "found" THEN outcome.offset - job.start ELSE processed
  IN  \A o \in job.start..(job.start + searched - 1) : ~ClearMatch(job, o)

\* A winner reported to the scheduler is an offset of the assignment and matches.
WinnerIsOwn ==
  outcome.kind = "found" =>
    /\ outcome.offset \in job.start..(job.start + job.count - 1)
    /\ Match(job, outcome.offset)

\* What fails an assignment: a fault of the device or the process, an offset in it at or
\* beside the point at infinity, or a last offset just below the group order.
Fragile(a) ==
  \/ a.start + a.count = Order
  \/ \E o \in a.start..(a.start + a.count - 1) : NearInfinity(a, o)
FailsOnlyByFault == outcome.kind = "failed" => faults > 0 \/ Fragile(job)

\* When the worker has reported an outcome the GPU is not searching for it any more and
\* nothing of the search is left to be read: the scheduler may give the GPU another job.
EndedIsQuiet ==
  client = "worker" /\ work \notin Busy =>
    proc # "searching" /\ pipe = NoLine /\ reply = NoReply

\* Every assignment taken gets an outcome.
AssignmentEnds == work \in Busy ~> work = "ended"
================================================================================
