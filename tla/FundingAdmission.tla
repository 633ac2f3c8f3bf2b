-------------------------- MODULE FundingAdmission --------------------------
(***************************************************************************)
(* POST /jobs/{job_id}/funding (api/routes/funding.py): one operator's     *)
(* concurrent requests reserve a day's USDT limit under the operator's row *)
(* lock, while midnight passes, the funding processor fails rows, and a    *)
(* client that lost an answer sends its request again.                     *)
(*                                                                         *)
(* What becomes of a row is FundingProcessor's subject; here a row only    *)
(* comes to be failed, which gives back what it reserved.                  *)
(***************************************************************************)
EXTENDS Naturals, FiniteSetsExt

CONSTANTS
  Request,      \* HTTP requests of one operator
  Job,          \* its jobs whose verified wallet is ready
  Key,          \* the values of the Idempotency-Key header
  Amount,       \* the amounts asked for
  DailyLimit,   \* funding_daily_limit_usdt
  LastDay,      \* bound on the days that pass, for TLC
  Nobody        \* no request holds the operator's row lock

ASSUME AmountAssumption == Amount \subseteq Nat \ {0} /\ DailyLimit \in Nat /\ LastDay \in Nat
ASSUME NobodyAssumption == Nobody \notin Request

VARIABLES
  rows,    \* the operator's rows of funding_transactions
  today,   \* the server's UTC date
  holder,  \* who holds the lock on the operator's row
  req      \* each request: where its handler is, what it asks, what it has read

vars == <<rows, today, holder, req>>

FundingRow == [job : Job, key : Key, amount : Amount, day : 0..LastDay, failed : BOOLEAN]
Step == {"lock", "lookup", "count", "insert", "accepted", "refused"}
Handler == [pc : Step, job : Job, key : Key, amount : Amount]

Init ==
  /\ rows = {}
  /\ today = 0
  /\ holder = Nobody
  /\ req \in [Request -> {h \in Handler : h.pc = "lock"}]

Total(S) == MapThenSumSet(LAMBDA r : r.amount, S)

\* Mutant: a request is known by its key, as in create_job.
RowOf_Key(h) == {r \in rows : r.key = h.key}

\* The rows, at most one, that the job of a request already has.
RowOf(h) == {r \in rows : r.job = h.job}

\* The rows the limit of a day counts.
Reserved(day) == {r \in rows : r.day >= day /\ ~r.failed}

Answer(q, a) ==
  /\ req' = [req EXCEPT ![q].pc = a]
  /\ holder' = Nobody

-----------------------------------------------------------------------------
\* Mutant: the operator's row is read without FOR UPDATE.
Locked_Not(q) == TRUE

Locked(q) == holder = Nobody

\* SELECT ... FOR UPDATE of the operator's row.
Lock(q) ==
  /\ req[q].pc = "lock" /\ Locked(q)
  /\ holder' = q
  /\ req' = [req EXCEPT ![q].pc = "lookup"]
  /\ UNCHANGED <<rows, today>>

\* Mutant: the amount of the row found is not compared.
SameAmount_Any(h) == TRUE

SameAmount(h) == \A r \in RowOf(h) : r.amount = h.amount

\* The job has a row already: it answers for the same amount only.
Lookup(q) ==
  /\ req[q].pc = "lookup"
  /\ IF RowOf(req[q]) = {} THEN req' = [req EXCEPT ![q].pc = "count"] /\ UNCHANGED holder
     ELSE Answer(q, IF SameAmount(req[q]) THEN "accepted" ELSE "refused")
  /\ UNCHANGED <<rows, today>>

\* day_start, then the sum of what is reserved since.
Count(q) ==
  /\ req[q].pc = "count"
  /\ IF Total(Reserved(today)) + req[q].amount > DailyLimit
       THEN Answer(q, "refused")
       ELSE req' = [req EXCEPT ![q].pc = "insert"] /\ UNCHANGED holder
  /\ UNCHANGED <<rows, today>>

\* Mutant: the amount is converted to micro-USDT once more.
NewRow_Converted(h) ==
  [job |-> h.job, key |-> h.key, amount |-> h.amount * 1000000, day |-> today, failed |-> FALSE]

\* The row of a request; created_at is the time of the insert.
NewRow(h) ==
  [job |-> h.job, key |-> h.key, amount |-> h.amount, day |-> today, failed |-> FALSE]

\* INSERT and COMMIT.  A row of the job, or of the
\* key, violates a unique constraint: the job's row then answers, for the same amount.
Insert(q) ==
  LET h == req[q] IN
  /\ h.pc = "insert"
  /\ IF RowOf(h) = {} /\ \A r \in rows : r.key # h.key
       THEN /\ rows' = rows \cup {NewRow(h)}
            /\ Answer(q, "accepted")
       ELSE /\ Answer(q, IF RowOf(h) # {} /\ SameAmount(h) THEN "accepted" ELSE "refused")
            /\ UNCHANGED rows
  /\ UNCHANGED today

\* The API process or the connection goes away: the transaction is rolled back.
Abort(q) ==
  /\ req[q].pc \in {"lookup", "count", "insert"}
  /\ Answer(q, "refused")
  /\ UNCHANGED <<rows, today>>

\* The processor fails a row.
Fail(r) ==
  /\ ~r.failed
  /\ rows' = (rows \ {r}) \cup {[r EXCEPT !.failed = TRUE]}
  /\ UNCHANGED <<today, holder, req>>

Midnight ==
  /\ today < LastDay
  /\ today' = today + 1
  /\ UNCHANGED <<rows, holder, req>>

Next ==
  \/ \E q \in Request : Lock(q) \/ Lookup(q) \/ Count(q) \/ Insert(q) \/ Abort(q)
  \/ \E r \in rows : Fail(r)
  \/ Midnight

Spec == Init /\ [][Next]_vars

-----------------------------------------------------------------------------
(* Correctness.                                                            *)

\* Every variable has its type.
TypeOK ==
  /\ rows \subseteq FundingRow
  /\ today \in 0..LastDay
  /\ holder \in Request \cup {Nobody}
  /\ req \in [Request -> Handler]

\* routes/funding.py:63: concurrent requests cannot race the daily limit.  It holds of
\* each calendar day even when midnight falls between day_start and the insert.
WithinDailyLimit ==
  \A d \in 0..LastDay : Total({r \in rows : r.day = d /\ ~r.failed}) <= DailyLimit

\* A wallet is funded by one row, whatever keys and amounts its requests came with, so
\* that replaying a request whose answer was lost cannot pay it twice.
OneFundingPerJob == \A r, s \in rows : r.job = s.job => r = s

\* A request is told it was accepted only of a row for its own job and amount.
AcceptedAsAsked ==
  \A q \in Request : req[q].pc = "accepted" =>
    \E r \in rows : r.job = req[q].job /\ r.amount = req[q].amount
=============================================================================
