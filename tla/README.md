# TLA+ models of TronForge

TronForge searches vanity TRON addresses on local GPUs and can send USDT to the
wallets it finds. This directory holds TLA+ models of the parts of it in which
several processes write the same rows, processes die between two steps, messages
are lost or late, and state is kept on a device from one request to the next; the
TLC configurations that check them; and TLAPS proofs of what matters most.
`PROJECT.json` lists the runs, the source lines every definition stands for, the
hazards and the theorems.

    tlc -workers 2 -config MCFundingSafety.cfg MCFunding.tla
    tlapm FundingProcessorProofs.tla

## 1. The system

Paths are relative to `src/`.

| Component | State | Operations | Interacts with |
|---|---|---|---|
| Funding API (`backend/app/api/routes/funding.py`) | rows of `funding_transactions` | `create_funding`, two reads | operator's row lock; funding processor through the table |
| Funding processor (`backend/app/funding`) | the same rows; one detached copy in memory; a lock file | recover, claim, prepare, broadcast, confirm, eight writes | TRON node through the gateway |
| TRON gateway (`funding/gateway.py`) | none (HTTP) | `prepare_transfer`, `broadcast`, `receipt` | full node, solid node |
| Generation scheduler (`backend/app/generator/scheduler.py`, `repository.py`) | `generation_jobs`, `generation_shards`, `gpu_devices`; idle GPUs, active and draining job in memory | recover, claim, allocate, record events, time out | supervisor; job API through the table |
| GPU supervisor and workers (`supervisor.py`, `worker.py`) | a handle with one assignment per GPU; command queues; an event queue | spawn, dispatch, cancel, poll, restart | native process by pipe |
| Job and candidate API (`api/routes/jobs.py`, `results.py`, `services/results.py`) | `generation_jobs`, `generation_results` | create, cancel, submit a candidate | scheduler through the table |
| Native search session (`native/src/main.cpp` `serve_gpu`, `cuda_runtime.cu` `CudaSearchSession`) | one point per chain, the key and offset they stand at, a stride point with the size it was made for, the winner of a launch | read a line, launch, finish, answer; device errors | its Python worker, or a terminal, by pipe |
| Native worker (`backend/app/generator/worker.py`) | the assignment, what is processed of it, the batch under way, queued commands; the native process | cut batches, obey commands, kill and restart the process | supervisor's queues; the session |
| Native fleet commands (`main.cpp` `search-gpu-all`, `generate-wallet`) | a thread, a band and a next offset per device; total attempts; the output file | divide, search in rounds, join, recover, write the file | one session per device |
| Native arithmetic and patterns (`cuda_chain.cuh`, `cuda_secp.cuh`, `cuda_runtime.cu`, `tron.cpp`) | none | field and point operations, batched inversion, prefix intervals, matching | the kernels |
| Browser sessions (`api/routes/auth.py`, `frontend/lib/api.ts`) | refresh token rows; the token and a shared refresh promise in a tab | login, refresh, logout, retried requests | each other, across tabs |
| Telegram bot (`telegram_bot`) | a task per job and per funding; a cached API session | create, cancel, monitor, fund | the HTTP API |
| Patterns, verification (`services/patterns.py`, `server_wallet.py`) | none | compile, match, verify, combine keys | API, scheduler |
| Frontend, scripts, migrations, configuration | - | - | - |

What is hard in it:

* **Funding.** Money moves once whatever happens: the processor may die after signing,
  after sending, or before writing; a node's answer may be lost; a node may have taken a
  transaction it says it refused; a block may vanish before it is solid.
* **Scheduler.** Four kinds of writers share a job row without a common lock; worker
  events arrive after the worker is dead and after its job has ended; a restart begins a
  search again over rows of the first.
* **Native search.** Points stay on the device from one request to the next, and a stride
  is reused: a request may only continue where they really stand, after refusals, errors,
  lines of other keys and counts that are not whole cycles. A search is interrupted by
  killing the process, so that a line or an answer may be left in a pipe. Threads find
  matches in any order, a center may be the point at infinity, a range may end at the order
  of the group. On several devices one may fail while others search; a key file may be
  partly written.
* **Sessions and bot.** Rotated tokens with lost answers, two tabs with one cookie; tasks
  that are replaced while their predecessor is ending.

Each hazard is listed with its line in `PROJECT.json`.

## 2. Modules

| Module | Models | Used by |
|---|---|---|
| `FundingPromise` | what funding promises: opened once, settled once, paid at most once, confirmed only when paid | refined by `FundingProcessor` |
| `FundingProcessor` | the processor, its table, its lock file, the network (external) | `MCFunding`, `FundingProcessorProofs` |
| `FundingProcessorProofs` | theorems | |
| `FundingAdmission` | `create_funding`: concurrent requests against the daily limit | `MCAdmission`, `FundingAdmissionProofs` |
| `FundingAdmissionProofs` | theorems | |
| `GenerationScheduler` | scheduler loop, supervisor, workers, and the API handlers that write job rows | `MCScheduler`, `GenerationSchedulerProofs` |
| `GenerationSchedulerProofs` | theorems about what is stored, and about who is at work | |
| `SearchPromise` | what a search session promises: one answer to a line, and a true one | refined by `CudaSession`, used by `NativeFleet` |
| `CudaSession` | the search process with its chained and batched sessions, thread by thread | `NativeWorker` |
| `NativeWorker` | `CudaSession` composed with the Python worker, or with a terminal | `MCSession`, `NativeSessionProofs` |
| `NativeSessionProofs` | theorems about the session, about the worker with it, and that only a fault fails an assignment | |
| `NativeFleet` | `search-gpu-all` and `generate-wallet` over sessions that keep `SearchPromise` | `MCFleet`, `NativeFleetProofs` |
| `NativeFleetProofs` | theorems | |
| `FieldLimbs` | both limb representations of a field element | `NativeArithmetic`, `FieldLimbProofs` |
| `FieldLimbProofs` | theorems about limbs of any width | `NativeArithmeticProofs` |
| `SecpArithmetic` | point formulas, inversion of a batch, stepping of chains, neighbours of a center | `NativeArithmetic`, `MCSession` |
| `AddressPatterns` | Base58, prefix intervals, the three matchers | `NativeArithmetic` |
| `NativeArithmetic` | each of the three against what it is for | `MCArithmetic`, `NativeArithmeticProofs` |
| `NativeArithmeticProofs` | theorems about the field, points and patterns | |
| `FoldTheorems` | lemmas about quotients, recursive functions, folds and sums | the proofs of admission, session, fleet and arithmetic |

### FundingProcessor

`row[f]` is the database row; `proc[p]` is a process: where it is (`work` after a
claim, `send` inside a second send, `save` before a write), the detached copy of the row
it claimed, and the write it will make. Each gateway call and each repository transaction
is one action, so that a crash can fall between any two. `chain[f][t]` is what the network
did with the transaction that attempt `t` signed; a transaction is named by its attempt
because two preparations never sign the same one. Time is the pair `expired` (the signed
transaction can no longer be included) and `overdue` (the confirmation timeout has
passed). `older` is the order of `updated_at`, which `claim_next` sorts by. An exception of
any kind reaches `run()`, which marks the row unknown: every action that can raise has
that outcome among its choices.

The network is external: a node takes a transaction, refuses it, or its answer is lost
after it did either; a refusal may come from a busy node although another has it, and a node
that took it may name another transaction in its answer, which the gateway raises as a refusal
(`Misnamed`); a pooled
transaction is included, forgotten, or stays; an included one becomes solid as succeeded,
reverted, or succeeded with a Transfer event that does not match.

### FundingAdmission

A request holds the operator's row lock from `Lock` to its answer; `Lookup`, `Count` and
`Insert` are its database steps, with midnight, a failing row or a lost connection
possible between them. Rows only come to be failed: how is `FundingProcessor`'s subject.
SQLite, which the tests use, ignores `FOR UPDATE`; the model is of PostgreSQL.

### GenerationScheduler

One action per database transaction of the scheduler, in the order of the loop: `Poll`,
`RestartDead`, `Handle`/`Finalize` for each event, `Check`/`TimeOut`, `Claim`,
`AllocateTo` for each idle GPU.
Steps of the loop with no await between them are one action (`Onward`). A transaction that
reads a job and writes it later without a lock is two actions (`CancelRead`/`CancelWrite`,
`Check`/`TimeOut`, `Handle`/`Finalize`, `Start`/`Recover`); `finalize_candidate` does lock
the row, but SQLAlchemy keeps the attributes already loaded in the session, so it decides
on the status `record_event` read. Events of one worker keep their order; those of
different workers are handled in any order. Offsets are counted from `search_origin`.
PROGRESS, rates, attempt counts and heartbeats are left out, and so is the status
VERIFYING, which nothing assigns.

The scheduler ends in two ways. A stop (SIGINT or SIGTERM) or an exception leaves through
`supervisor.stop`, which ends every worker (`Exit`, `Ends`). A kill (`Kill`) runs nothing: the
workers are spawned processes, and one that searches, or has a range in its queue, may go on with
it in `orphans` until the range ends (`OrphanEnds`), unknown to the next scheduler, which spawns
others on the same GPUs.

In this module the search of a range is one step (`Search`); `NativeWorker` opens it. The
two agree on their boundary: the scheduler's `found`, `exhausted`, `canceled` and `failed`
are the outcomes of `NativeWorker`, and `EndedIsQuiet` is what allows the scheduler to
give the GPU its next range.

### CudaSession and SearchPromise

A public key is named by its discrete logarithm, so that the candidate at an offset is
`PointAt(key + offset)`; which formulas compute points is left to the constant operators
`Add`, `Advance` and `Neighbour`, and what the session needs of them is
`ArithmeticAssumption`. The state follows the class: `chain` is `chain_state_valid` with
the key and next offset, `points` and `stride` are the buffers on the device, `line` the
request being searched, `winner` the word that threads lower with `atomicMin`, `at[w]` the
step each thread has reached. `pipe` and `reply` hold what is in the two pipes.
`LaunchChained` continues the stored points or computes them anew (`Continues`);
`ChainedStep` and `BatchedStep` are one step of one thread, in any order; `Finish` copies
the winner, marks the chain state (`CompletesCycle`) and verifies the winner on the host;
`Refuse`, `FinishFails`, `CudaError`, `Die` and `Stop` are the other ends of a request,
each leaving what the code leaves.

`SearchPromise` has two variables, the line asked and the answer told. An answer is an
error, an offset of the range that matches with nothing overlooked below it, or none with
nothing overlooked at all. A range that meets infinity is excepted (`NearInfinity`): the
batched kernel computes the neighbours of a center at infinity from its coordinates.

### NativeWorker

`CudaSession` composed with one of two clients. The worker's actions are the awaits of
`execute_cuda_assignment`: `Choose` (the head of the batch loop with its alignment), `Ensure`
(starting the process when there is none), `Write`, `Progress`/`Winner`/`Exhaust` on an
answer, `Obey` for a command, which kills a process in the middle of a search, `Lost` for a
process that is gone, and the boot, the end and the respawn. The rate that sets a batch is
any of `BatchSizes`. The terminal writes any of `TerminalLines`; it needs no alignment.
`Send` has the guard that the last answer has been read; that it never holds the worker back
is proved and not assumed (`Exchange` in `NativeSessionProofs`: outside `waiting` nothing is
asked and nothing left to be read).

### NativeFleet

One action per step of the main thread (`Fork`, `Advance`, `Answer`, `Fail`, `Win`, the
system calls that write the key file) and of each device's thread (`Search`, `Throw`). The
threads of a round are created one by one, and the first may have answered before the last is
there. A thread's answer is anything that `SearchPromise!True` allows of its request. `hits` is
the set of matching offsets, unknown to the program; `Overlooked` those near infinity.

What may fail: a session (`Throw`), the creation of a thread (`SpawnFails`), the recovery of
the key or the creation of its file (`Unrecovered`), a write, fsync or close (`WriteFails`), and
the unlink after one of these, whose result the code does not look at. A file somebody else
makes and a kill may come at any step. A thread that cannot be created is an error of the command
if it is the first of its round; after others run, the exception destroys a vector of joinable
threads, and the process aborts (`std::terminate`). The comparison of addresses in
`recover_private_key` is left out, since a session has verified its winner; so is a file that is
renamed over the path while the program writes its own, which the unlink would then remove.

### FieldLimbs, SecpArithmetic, AddressPatterns

The algorithms as they are written (order of limbs, carries found from sums, the number of
folds of a reduction, Montgomery's batch inversion and what becomes of its zeroes, the
bounds of prefix intervals), over limbs of two and four bits, a curve of order 79 and an
alphabet of seven symbols. `NativeArithmetic` sets each against plain arithmetic, the group,
and the addresses themselves, one pair of operands per behaviour. `ScalarMultiply` is the loop
of `scalar_multiply_u64` round by round, and inverses are computed as powers; what the proofs
take from mathematics is stated as assumptions of the constants, which TLC evaluates.

## 3. Runs

| Run | Bounds | Shows |
|---|---|---|
| `funding_safety` | 2 requests, 2 processes, 3 attempts, 2 crashes | all safety properties, and `KeepsPromise`: the processor implements `FundingPromise` |
| `funding_liveness` | 2 requests, 1 process, 2 attempts, 1 crash | `PaidIsConfirmed` |
| `funding_starvation` (violated) | the same | `RetriedAfterRestart` fails |
| `funding_uncertain` (violated) | 1 request, 1 crash | `UncertainIsReconciled` fails |
| `admission` | 3 requests, 2 wallets, 2 keys, 2 amounts, 2 days | the daily limit and idempotency |
| `scheduler` | 2 jobs of up to 3 ranges, 2 GPUs, a stop or a kill | one job at a time; the supervisor knows who searches; no assertion of dispatch fails; the queue is worked off |
| `scheduler_faults` | 1 job of up to 3 offsets in shards of 1 or 2, a stop, a kill, a death, an API call | ranges, results, types |
| `native_session` | a group of 79, 2 threads of 2 chains, 2 batch threads, radius 1, at most 40 offsets a line, 1 fault, 2 assignments or lines, 1 command | kept state, true answers (`KeepsPromise`), true counts and winners, every assignment ends |
| `native_fleet` | 3 devices of 3, 2 and 1 chains, launches of at most 9, bands of 20, an attempt counter up to 65, 3 faults | first match, each candidate once, file, threads, the command ends |
| `native_arithmetic` | limbs of 2 and 4 bits, modulus 2^16 - 7, all pairs of a group of 79, addresses of 5 characters of 7 | field, points and patterns |
| `scheduler_restart` (violated) | 1 job, 1 kill | `NeverDuplicateRange` fails |
| `scheduler_cancel` (violated) | 1 job, 1 API call | `ReadyNotCanceled` fails |

Why the bounds are enough: the funding processor serializes requests, so a third one only
waits as the second does; two crashes interrupt both a preparation and a send, or one of
them twice; three attempts leave a retry beyond both. `RoomToRetry` stops a retry when the
attempts left are as many as the crashes left, so that the bound on attempts never keeps
`claim_next` from the row it selects. Two processes are needed for the lock only, so
liveness has one. Three requests are the least with two racing and one counted before;
the limit admits either two small amounts or one large one. In the scheduler the second
job is there to be started too early and the second GPU to be still busy: a group of order 4
gives a job three ranges of one offset, so that both GPUs search at once and one of them gets a
following range, while the other may be draining. The faults run has one of each, with room for
a first range, a following one, and the end of the group.

Two `CONSTRAINT`s of `MCScheduler` keep the run with two jobs small. `UntilTaken` follows the
second job until a worker takes its first range, or a second range is entered beside it: such
states are still checked, and what could start beside the first job, be held wrongly or be
entered twice has begun in them; what would follow repeats the search of the first job. Jobs are
created and claimed in their order, so the queue is empty by then, and no behaviour is cut
in which `QueuedIsClaimed` is still open. `OneEnd` follows an end of the scheduler only after a
range was given: before that a restart finds what the first start found. API calls interfere
with one job in `scheduler_faults`; with two, what they can do is left to the theorems, which
except no call.

In `native_session` ranges are short and long enough for both sessions, end inside and at
the end of a cycle, follow, repeat and skip each other, contain the point at infinity (key
60 at offset 19) and end at the order of the group; two lines or assignments are the least
with a second that meets the kept state of the first, and one fault falls into either. The
curve is real, so that the arithmetic the proofs assume is evaluated and not postulated:
TLC checks `ArithmeticAssumption` of this curve before the run. In `native_fleet` the chunk
of nine is whole for one device and cut for another, chunks of five reach the end of a
band, whose last offsets are not a whole chunk, and chunks of nine pass the limit of the
attempt counter first (in the program, 2^64 attempts are passed long before a band of 2^128
offsets ends; both ends are kept, in a small size). In `native_arithmetic` the limbs 0, 8
and 15 are those at whose sums and products a carry is or is not made, in all positions; a
modulus of the same form as the real one makes the third fold of a reduction happen, which
at full width no test meets; the pairs of the small group contain every doubling,
cancellation and infinity.

Deadlock is not checked: with everything settled these processes only poll (and a
scheduler whose bounds are used up may stay down, requests all answered stop, a worker
with no more assignments waits, a command ends).

### What the violated runs say

* **`funding_starvation`.** `claim_next` takes UNKNOWN rows before REQUESTED ones. An
  UNKNOWN row whose transaction has expired without a receipt is checked and left UNKNOWN
  at every poll; `mark_checked` gives up on nothing. From then on no request is prepared,
  although `repository.py:33` says that it will be retried.
* **`funding_uncertain`.** After a crash between the send and `mark_broadcast` the row is
  still SIGNED. The second send is refused (for instance by a busy node), which fails a
  SIGNED row and erases the payload, while the first send is executed. The row is FAILED,
  the wallet is paid, and the amount no longer counts for the daily limit. `FailedIsUnpaid`
  states the extent: only `broadcast_rejected` is affected, and it takes this crash or a node
  that accepts the transaction and names another one (`gateway.py:269`). Both are refusals to
  the processor; the model gives the second a code of its own, `different_txid`, so that the
  property tells it from a node that refuses a first send, after which nothing is paid.
* **`scheduler_restart`.** Recovery sends an interrupted job back to `search_origin`. The
  shard that began there keeps its row, the first allocation violates
  `uq_shard_job_range_start`, and the exception ends the scheduler. The job is queued again
  at the next start and ends it again, until it is canceled through the API.
* **`scheduler_cancel`.** `cancel_job` writes over READY. `TimeOut` and `Finalize` lose
  updates in the same way.

Three more behaviours the model reaches after a worker has died. An idle worker that dies is
replaced while it is still counted idle, so that its replacement is dispatched before its
own READY and then counted idle again: the next dispatch to it raises (`supervisor.py:79`)
and ends the scheduler. If its job ends first, the drain is taken to be over while the
replacement still has a range, and the next job starts beside it, although
`backend/README.md:252` says that it "does not start until every worker has drained"; this
takes two jobs, two GPUs and one death. And the late FAILED of a worker that did not start
clears the assignment of its successor, so that `cancel_job` does not reach it.
`KeepsRunning`, `OneJobSearched` and `SearchIsHeld` state that none of this happens while no
worker has died, and are proved.

And one it reaches after a kill of the scheduler. A job has met its deadline, and the scheduler
is killed while a worker still searches. Nobody ends the worker; the next scheduler finds its own
new workers idle and starts the next job beside it, on a GPU that now serves two processes,
although `backend/README.md:253` lets the next job start only when every worker has drained.
`OneJobSearched` states what remains: workers that no kill has cut off never search for two
jobs at once.

## 4. Fairness

`FundingProcessor!Fairness`: the event loop runs what it has started (WF of `Work`), and a
process that died is started again (WF of `Start`; crashes are bounded, so one run is the
last). A receipt query asked again and again is answered some time, and a database does
not fail every write of one kind (SF of `ReceiptAnswered`, `MarkConfirmed`, `MarkChecked`,
`MarkFailed`): without this an owner could not be told the outcome by any program. The
clock advances (WF of `Expire`, `PassTimeout`). Nothing is assumed of the network.

`GenerationScheduler!Fairness`: the loop and each live worker run, a range ends (it is cut
to some seconds), a handler writes what it has read, and deadlines pass. The run has no
deaths: a GPU that never becomes ready keeps every job queued, by design of the draining; and
`QueuedIsClaimed` speaks of the time before the scheduler ends, because a job that a restart has put
back ends the next run (`scheduler_restart`).

`NativeWorker!Fairness`: launches end and the process answers (WF of `Serve`), and the worker
is scheduled (WF of `WorkerStep`). `read_response` has no timeout over a whole batch, so a
launch that never ends would keep its worker for ever; nothing is assumed of commands, faults
or the terminal. `NativeFleet!Fairness`: threads and the main thread are scheduled, launches
end; no failing call is fair.

## 5. Proofs

`FundingProcessorProofs` proves, for every set of requests and processes and all bounds,
`Spec => []IInv` and from it `TypeOK`, `OneTransfer`, `ConfirmedWasPaid`, `FailedIsUnpaid`,
`NoOrphanPreparation`, `SerialTransfers` and `PayloadKept`. The assumptions are
`BoundsAssumption` and `NobodyAssumption`.

None of the properties is inductive alone. A write is safe because the copy the process
decided on is still the row, and it is still the row because nobody else writes rows under
way. So `IInv` adds:

* `LockHeld`: the process that is up is the one that holds the lock;
* `CopyIsRow`: its copy is the row, and the row is under way;
* `WriteAllowed`: the write it will make is one that the claimed status allows, and what
  the network has done agrees with it (a `confirmed` about to be written is of a
  transaction that has succeeded);
* `FirstSend`: without a crash, the transaction of a signed row has been seen by no node
  but the one whose answer is being written, which took it and has said so, or named another;
* `RowsInv`: what holds of each row at rest.

There is one lemma per action; `SaveType` and its companions are shared by the writes.

`PromiseKept` is the refinement: `IInv` makes every step a step of `FundingPromise` or a
stutter. Only four actions show in the promise: `Create` opens a request, `Solidify` pays
it (its transaction is the only one the network has seen, so nothing was paid before),
`MarkConfirmed` and `MarkFailed` report. Reporting success needs the payment, which
`WriteAllowed` provides. `SettledForGood` follows: no step of the promise leaves an
outcome.

`GenerationSchedulerProofs` proves, for any numbers of jobs and GPUs, any `Order`, `Counts`
and bounds (`SizeAssumption`), `Spec => []IInv` and from it `TypeOK`, `ShardsDisjoint` and
`FoundHasResult`. Here `IInv` adds:

* `MemoryOK`: every event, command, handle and assignment speaks of a shard that exists,
  the job of a `fill` or `late` round is one, and the event that `Finalize` is about to
  record is a FOUND one (`Coherent`);
* `OriginTaken`: a job that has a shard, or whose `next` is not 0, has a shard at 0;
* `NextIsFree`: a job's `next` is 0 or behind every shard of it.

The last two are why a restart is safe for the ranges although it puts `next` back to 0
and shards may then have other lengths: at 0 there is a shard already, so the unique
constraint refuses the first range, and with it every other (which is also what the
violated run `scheduler_restart` is about). Lemmas with a step in their name (`WorkerStep`,
`MemoryStep`, `JobStep`, `ShardStep`, `RangeAdded`) say which part of the state one kind of
action can disturb; each action is brought to one of them.

Its second part proves `OneJobSearched`, `SearchIsHeld` and `KeepsRunning`, under the
same assumption. All three speak of the time before a death, so the invariant is `Turns`
while no death is counted; a stop or a kill between leaves no worker of the scheduler, and what a
killed one leaves is in `orphans`, which the first two properties except by name. It follows an assignment from the handle through the worker's
queue to the event that frees it:

* `QueueOK`: at most one assignment is queued or worked at, the one the handle names;
* `HandleOK`: the handle names a range exactly until the event that ends it has been said,
  and `Poll` clears it with that event;
* `OwnJob`: an engaged worker's range is of the active or draining job (`Current`);
* `ReadyOK`: READY is the last thing a free worker says, so that a worker that is counted
  idle has nothing left to say, no handle, and an empty queue of assignments.

`LoopOK` says what the loop has at hand at each of its places. `Drained` then means that no
worker is engaged, which is why the next claim starts among free workers only. `KeepsRunning`
needs `FirstRun` besides: before the first restart a job whose `next` is 0 has no shard, and
by `NextIsFree` every other one's shards end before it, so that no range is entered twice;
`ReadyOK` shows that dispatch finds a free, live worker.

`FundingAdmissionProofs` proves `TypeOK`, `OneFundingPerJob` and `AcceptedAsAsked`, which
together are inductive: the row that a request finds or inserts is the one of its job, and
rows only come to be failed. `DailyLimitKept` proves `WithinDailyLimit` with `LimitInv` besides:
every handler between `Lock` and its answer is the holder of the lock (`NobodyAssumption`: no
request is the name of an unheld lock), and from `Count` to `Insert` the day's total and the
amount asked for are within the limit together. A row has no day after today, so that a day
which begins in between holds nothing yet. The total is a fold over a set of rows; that adding a
row adds its amount is `FoldTheorems`' part.

`NativeSessionProofs` proves `CudaSession!Spec => []IInv` for any group, keys, launch shapes and limits
under `ConstantsAssumption` and `ArithmeticAssumption`, and from it `ChainStateTrue`,
`PointsOnTrack` and the refinement `KeepsPromise`. `IInv` adds:

* `OneAtATime`: a line, its search and its answer are never two at once, and what is launched
  was not refused;
* `LaunchOK`: threads stop after the last step, and the winner is an index of the range;
* `StrideTrue`: the stride point is that of the size it is kept with;
* `ChainsMoving`: no claim about chain points stands while they move;
* `Coverage`: no clear match that a thread has evaluated lies below the winner.

When all threads have finished they have evaluated the whole range, and with the host's
verification of the winner `Coverage` makes the answer `SearchPromise!True`. The division of
indices among threads is proved by the division lemmas of `FoldTheorems`.

Its second part composes: `SystemIsSession` shows that every step of the system is a step
or a stutter of `CudaSession!Spec`, so that the session's theorems hold of the system; `WInv`
(`OneClient`, `Assigned`, and `Exchange`: the line under way is the next batch of the
assignment, and the answer is to it) gives `ProgressIsTrue`, `WinnerIsOwn` and `EndedIsQuiet`.

Its third part proves `FailsOnlyByFault`, under `JobAssumption` besides: assignments are
not empty and lie inside the group, as `allocate_shard` makes them. A process answers with an
error, or ends by itself, when it refuses a line, when the next offset is the group order, and
when the host does not confirm the winner. `WinnerTrue` says of a winner of the device, at every
step of every thread, that the host will confirm it unless a center beside it is at infinity;
`BatchOK`, that a batch is neither empty nor over the limit, also after it was cut to whole
cycles; `Faultless`, that while nothing went wrong the process is there when a batch is written,
and an error while the worker waits means an assignment that is `Fragile`.

`NativeFleetProofs` proves `ReportIsFirst`, `FileIsWhole`, `ForeignFileKept` and
`NoThreadOutlives` for any devices, bands, chunks and ranges: `PathInv` and `ThreadInv` follow
the file and the threads through the phases, `RoundInv` says that a device has no request or its
request of the round, that it has it when the threads are joined, and that an answer is true of it, and `PassedInv` that nothing behind a device's next offset was to be
reported. The start of a shard, which the code accumulates in a loop, is proved to be its
closed form by taking the first device where they would differ. `EachTriedOnce` proves
`TriedOnce`: the closed form makes the shards adjacent intervals, which divide the range; and
`CountInv` says of `generate-wallet` that no device has passed the end of its band and that the
counter is the cardinality of the offsets passed. A round adds `RoundAttempts`, a sum over the
devices, and the cardinality grows by the same number because bands are disjoint.

`FieldLimbProofs` proves of each field operation of the two representations that the limbs it
leaves are those of the result modulo the prime, and `FieldsAgree` of `NativeArithmeticProofs` draws
`FieldAgrees` from that, for any width of the limbs and the accumulators, any constant and any
elements. `LimbAssumption` is what it takes of the widths: the constant of the reduction fits a
cuda_chain limb, and an accumulator has room for 2 * 977 + 3 times the values of a cuda_secp limb,
as 32, 977 and 64 give. `SamplesAssumption` says that operands are reduced. No small width stands
for the real one here: the theorems are about 2^64 as much as about 2^4. The argument:

* Digits of any base, and any integers as digits: `Value` is the number they stand for. It is linear
  in the digits (`Linear`), moving digits up multiplies it (`Shifted`), and a loop that takes a carry
  along keeps it but for the carry that leaves (`Carried`); of two numbers the highest limb that
  differs decides (`AtLeast`), and a number's limbs are the only ones that stand for it
  (`LimbsOfNumber`, `AreLimbsOf`).
* `PlusIs`: that a sum is below its addend says that it has wrapped, once. So `Ripple` and the rows of
  `MultiplyFull` are loops with carries, and the long multiplication gives the product.
* `ReduceIsRemainder`: each fold of cuda_chain takes off a multiple of the prime. A fifth limb is at
  most the constant and a little, so that after a carry out of the second fold less than the square
  of the constant is left (`LastFoldIs`), and the third fold carries nothing out. What remains is less than two
  primes, and one subtraction is enough (`Reduced`).
* `ReduceAccumulatorIsRemainder`: from cut limbs a pass leaves no more than `Most` in a limb, with
  which every sum of the next pass stays within an accumulator (`FoldingStep`, `MostIs`). A pass keeps
  the remainder and takes off at least as many primes as the part above the field stands for
  (`Lowers`). So the number comes from below the square of 2^256 to a small multiple of 2^256, to a
  little over it, and below it (`Stage`): four of the twelve passes are enough, and the limit of
  twelve is never what ends the loop.

`NativeArithmeticProofs` continues with two parts. The first is about points, for any prime, generator
and table. `BatchInverts`: the inverse kept while a batch is worked off backwards is that of the
product of the factors before, none of which is zero; zeroes are left out and get 0. So
`AdvanceChains` is the addition of the stride to every point (`AdvanceIsAddition`) and
`SymmetricBatch` the addition of the table's points to a center that is not infinity
(`NeighboursAreSums`). `ScalarIsMultiple` follows the rounds of `scalar_multiply_u64`: what is
left of the scalar times the addend, and the result, are together the multiple asked for.
`GroupAgrees` draws `PointsAgree` from them. Two assumptions come from mathematics and are not
proved of a curve: `FieldAssumption`, that the powers computed are inverses modulo the prime
(Fermat), and `CurveAssumption`, that the formulas of `PointDouble` and `PointAdd` make the
multiples of the generator a cyclic group, which is the group law of the curve and of which
`PointsAgree` repeats the addition; TLC evaluates both for the curve of the run.
`SessionArithmetic` states what `CudaSession` assumes (`ArithmeticAssumption`) and derives it from
the group law, so that the theorems about sessions rest on that law and not on the shortcuts.

The second part proves `PatternsAgree` (`MatchingAgrees`) for any alphabet of distinct characters
with its cases, any length, prefixes, suffixes and payloads (`AlphabetAssumption`, and
`PatternAssumption`: patterns are of the alphabet and shorter than an address, and every address
of a payload begins with T, as the network byte makes those of TRON). An address has a prefix
exactly if its number divided by a power of the radix is the number of the prefix (`Digits`),
which is the interval of `PrefixBound` (`Bounds`); a payload, which is the number without its
checksum, overlaps the interval exactly if one of its checksums falls into it (`Overlap`); and the
variants of a prefix are those that differ in the case of a character that has two (`Cases`,
`PrefixMatches`).

`FoldTheorems` has what these proofs share. The library's induction theorems are out of the
provers' reach, so each is an argument about the least number, or the smallest set, for which the
claim would fail; a function that the model defines by recursion, or a fold of the community
modules, is shown to exist before its equations are used.

Only model-checked: liveness (`PaidIsConfirmed`, `QueuedIsClaimed`, `AssignmentEnds`,
`CommandEnds`), which the prover does not reach. Every other property of a passing run is a
theorem. Two things stand between the field's limbs and the points: `SecpArithmetic` calculates with
numbers below a prime, which `FieldsAgree` shows the limbs to be, and that the powers of
`field_inverse` are inverses is `FieldAssumption`.

## 6. Not modelled

* **Generated code.** Of the C, C++ and CUDA lines of the repository more than nine tenths
  (some 73,000) are `native/build-*/CMakeFiles/*/CompilerId*`: compiler probes that CMake wrote
  and that no part of the program runs. The program's own native code is about 3,600 lines,
  of which the parts above model what keeps state or branches on data; the models of the
  backend are of Python.
* **Hashes and OpenSSL.** Keccak-256, SHA-256 and OpenSSL's own arithmetic are straight-line
  or external; an address is any function of the point, as the properties only tell equal
  addresses from different ones.
* **Kernels that `serve-gpu` never starts.** The reference, incremental and 8-point kernels
  serve the one-shot commands and self-tests, which do one sequential calculation on fixed
  vectors.
* **Browser sessions.** Token rotation shares no state with searches or payments, and nothing
  in the repository says what two tabs may expect of each other.
* **Telegram bot.** A client of the API; its monitors repeat in a chat what the API answers.
* **Frontend, scripts, migrations, validation schemas, discovery of GPUs, configuration.** They
  keep no state that another part relies on.

## 7. Plan

1. An abstract specification of the job queue that `GenerationScheduler` refines while no
   worker dies, from `Turns`.
2. The token rotation of `api/routes/auth.py` with lost answers, once it is decided which of two
   clients keeps its session.
