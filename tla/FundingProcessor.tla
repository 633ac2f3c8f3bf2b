-------------------------- MODULE FundingProcessor --------------------------
(***************************************************************************)
(* The funding processor (app/funding): it claims rows of the table        *)
(* funding_transactions one at a time, prepares and signs a TRC-20         *)
(* transfer, sends it to a TRON node and reconciles its receipt, while it  *)
(* may be killed and restarted between any two steps, the node may not     *)
(* answer, and a database write may fail.                                  *)
(*                                                                         *)
(* Time is abstract: `expired' holds the requests whose signed transaction *)
(* is past its expiration, `overdue' those broadcast longer ago than the   *)
(* confirmation timeout.  A transaction is named by the preparation        *)
(* attempt that signed it (0 is no transaction).                           *)
(***************************************************************************)
EXTENDS Naturals, FiniteSets

CONSTANTS
  Funding,      \* the funding requests the API admits
  Processor,    \* operating-system processes that run app.funding
  MaxAttempts,  \* bound on attempt_count, for TLC
  MaxCrashes,   \* bound on the number of crashes, for TLC
  Nobody        \* nobody holds the lock file

ASSUME BoundsAssumption == MaxAttempts \in Nat /\ MaxCrashes \in Nat /\ MaxCrashes < MaxAttempts
ASSUME NobodyAssumption == Nobody \notin Processor

VARIABLES
  row,      \* the database row of each request
  older,    \* <<f, g>>: f's updated_at is before g's
  expired, overdue,
  chain,    \* external: what the TRON network did with each transaction
  lock,     \* who holds the lock file
  proc,     \* each process: where it is, its detached copy of the row, its next write
  crashes

dbvars == <<row, older>>
vars == <<row, older, expired, overdue, chain, lock, proc, crashes>>

Attempt == 1..MaxAttempts
Terminal == {"confirmed", "failed"}
\* Mutant: uncertain rows are left alone.
Processable_Certain == {"requested", "signed", "broadcast"}

Processable == {"requested", "signed", "broadcast", "unknown"}
Status == {"absent", "preparing"} \cup Processable \cup Terminal
\* What mark_failed and the like store; "different_txid" is the code broadcast_rejected with
\* the message of a node that took the transaction and named another one.
FailureCode ==
  {"none", "worker_restarted", "node_unavailable", "broadcast_outcome_unknown",
   "confirmation_delayed", "transfer_rejected", "broadcast_rejected", "different_txid",
   "execution_failed", "transaction_id_missing", "signed_transaction_missing"}
Row == [status : Status, attempts : 0..MaxAttempts, txid : 0..MaxAttempts,
        payload : BOOLEAN, sentAt : BOOLEAN, code : FailureCode]
NoRow == [status |-> "absent", attempts |-> 0, txid |-> 0,
          payload |-> FALSE, sentAt |-> FALSE, code |-> "none"]

\* A transaction the network has accepted is in the pool until a block includes
\* it or every node forgets it; an included one is final once its block is solid.
InFlight == {"pooled", "dropped", "included"}
Executed == {"succeeded", "reverted", "unverified"}
TxState == {"unseen"} \cup InFlight \cup Executed

\* The repository call a process makes next.
Write == {"prepared", "retry", "broadcast", "unknown", "checked", "confirmed"} \cup FailureCode
Process == [pc : {"down", "idle", "work", "send", "save"}, on : Funding \cup {Nobody},
            copy : Row, write : Write]
Idle(pc) == [pc |-> pc, on |-> Nobody, copy |-> NoRow, write |-> "none"]

Init ==
  /\ row = [f \in Funding |-> NoRow]
  /\ older = {}
  /\ expired = {} /\ overdue = {}
  /\ chain = [f \in Funding |-> [t \in Attempt |-> "unseen"]]
  /\ lock = Nobody
  /\ proc = [p \in Processor |-> Idle("down")]
  /\ crashes = 0

-----------------------------------------------------------------------------
(* The table.                                                              *)

Rows == {f \in Funding : row[f].status # "absent"}

\* updated_at of every row of S becomes the newest.
Touch(S) ==
  older' = {w \in older : w[1] \notin S \/ w[2] \in S} \cup ((Rows \ S) \X S)

\* Mutant: new requests before the transfers under way.
Priority_NewFirst(s) == IF s = "requested" THEN 0 ELSE 1

Priority(s) ==
  CASE s = "broadcast" -> 0 [] s = "unknown" -> 1 [] s = "signed" -> 2 [] OTHER -> 3

\* claim_next's ORDER BY: the status first, the time of the last update within one.
ClaimedFirst(f) ==
  /\ row[f].status \in Processable
  /\ \A g \in Funding \ {f} : row[g].status \in Processable =>
       \/ Priority(row[f].status) < Priority(row[g].status)
       \/ Priority(row[f].status) = Priority(row[g].status) /\ <<f, g>> \in older

-----------------------------------------------------------------------------
(* The process: start, claim, gateway call, write.                         *)

\* The API admits a request (FundingAdmission has the conditions).
Create(f) ==
  /\ row[f].status = "absent"
  /\ row' = [row EXCEPT ![f].status = "requested"]
  /\ Touch({f})
  /\ UNCHANGED <<expired, overdue, chain, lock, proc, crashes>>

\* Mutants: recovery leaves preparing rows as they are, or resets signed ones too.
Interrupted_Never(r) == FALSE
Interrupted_Signed(r) == r.status \in {"preparing", "signed"}

\* The rows recover_interrupted_work puts back.
Interrupted(r) == r.status = "preparing"

Recovered(r) ==
  IF Interrupted(r) THEN [r EXCEPT !.status = "requested", !.code = "worker_restarted"] ELSE r

\* Mutant: no lock file.
LockFree_Ignored(p) == TRUE

LockFree(p) == lock = Nobody

\* main: take the lock file, then put interrupted preparations back in the queue.
Start(p) ==
  LET interrupted == {f \in Funding : Interrupted(row[f])} IN
  /\ proc[p].pc = "down"
  /\ LockFree(p)
  /\ lock' = p
  /\ row' = [f \in Funding |-> Recovered(row[f])]
  /\ Touch(interrupted)
  /\ proc' = [proc EXCEPT ![p] = Idle("idle")]
  /\ UNCHANGED <<expired, overdue, chain, crashes>>

\* The process dies, or an exception leaves run(); the kernel drops the lock.
Crash(p) ==
  /\ proc[p].pc # "down"
  /\ crashes < MaxCrashes
  /\ crashes' = crashes + 1
  /\ proc' = [proc EXCEPT ![p] = Idle("down")]
  /\ lock' = IF lock = p THEN Nobody ELSE lock
  /\ UNCHANGED <<row, older, expired, overdue, chain>>

\* Mutant: every claim counts as an attempt.
Claimed_AlwaysCounted(r) ==
  IF r.status = "requested"
    THEN [r EXCEPT !.status = "preparing", !.attempts = @ + 1, !.code = "none"]
    ELSE [r EXCEPT !.attempts = @ + 1]

\* What claim_next makes of the row it selects.
Claimed(r) ==
  IF r.status = "requested"
    THEN [r EXCEPT !.status = "preparing", !.attempts = @ + 1, !.code = "none"]
    ELSE r

Claim(p) ==
  /\ proc[p].pc = "idle"
  /\ \E f \in Funding :
       /\ ClaimedFirst(f)
       /\ row[f].status = "requested" => row[f].attempts < MaxAttempts
       /\ row' = [row EXCEPT ![f] = Claimed(@)]
       /\ IF row[f].status = "requested" THEN Touch({f}) ELSE UNCHANGED older
       /\ proc' = [proc EXCEPT ![p] = [pc |-> "work", on |-> f,
                                       copy |-> Claimed(row[f]), write |-> "none"]]
  /\ UNCHANGED <<expired, overdue, chain, lock, crashes>>

\* The call of p to the gateway or its checks ended: write w next.
Then(p, w) == proc' = [proc EXCEPT ![p].pc = "save", ![p].write = w]

\* A bound: one more retry leaves an attempt for each crash still to come, so that the
\* bound on attempts never keeps claim_next from its row (when MaxAttempts > MaxCrashes).
RoomToRetry(p) == proc[p].copy.attempts + (MaxCrashes - crashes) < MaxAttempts

\* _prepare: the gateway signs a new transaction, fails, or the node is away.  An
\* exception of another kind reaches run(), which marks the row unknown.
Prepare(p) ==
  /\ proc[p].pc = "work"
  /\ proc[p].copy.status = "preparing"
  /\ \E w \in {"prepared", "retry", "transfer_rejected", "unknown"} :
       (w = "retry" => RoomToRetry(p)) /\ Then(p, w)
  /\ UNCHANGED <<row, older, expired, overdue, chain, lock, crashes>>

-----------------------------------------------------------------------------
(* The TRON network (external).                                            *)

\* The node took the transaction, or already had it.
Accepted(f, t) ==
  /\ chain[f][t] \in {"unseen", "dropped"} => f \notin expired
  /\ chain' = [chain EXCEPT ![f][t] = IF @ \in {"unseen", "dropped"} THEN "pooled" ELSE @]

\* A block takes it before it expires; the block becomes solid; the pool forgets it.
Include(f, t) ==
  /\ chain[f][t] = "pooled" /\ f \notin expired
  /\ chain' = [chain EXCEPT ![f][t] = "included"]
  /\ UNCHANGED <<row, older, expired, overdue, lock, proc, crashes>>

Solidify(f, t) ==
  /\ chain[f][t] = "included"
  /\ \E r \in Executed : chain' = [chain EXCEPT ![f][t] = r]
  /\ UNCHANGED <<row, older, expired, overdue, lock, proc, crashes>>

Forget(f, t) ==
  /\ chain[f][t] = "pooled"
  /\ chain' = [chain EXCEPT ![f][t] = "dropped"]
  /\ UNCHANGED <<row, older, expired, overdue, lock, proc, crashes>>

-----------------------------------------------------------------------------
(* Sending and reconciling.                                                *)

\* Mutant: a refused second send fails the row like a first one.
Refused_AlwaysFailed(copy) == "broadcast_rejected"

\* What _broadcast does about a FundingRejected.
Refused(copy) == IF copy.status = "unknown" THEN "unknown" ELSE "broadcast_rejected"

\* It is raised, too, when the node answers result true with the ID of another transaction.
Misnamed(copy) == IF copy.status = "unknown" THEN "unknown" ELSE "different_txid"

\* _broadcast from a claimed row that is signed, or again from _confirm.  A lost
\* answer says nothing: the node may or may not have taken the transaction.  A
\* refusal may come from a busy node that already has it.
Broadcast(p) ==
  LET f == proc[p].on
      c == proc[p].copy IN
  /\ \/ proc[p].pc = "work" /\ c.status = "signed"
     \/ proc[p].pc = "send"
  /\ IF c.txid = 0 \/ ~c.payload
       THEN Then(p, "signed_transaction_missing") /\ UNCHANGED chain
       ELSE \/ Accepted(f, c.txid) /\ \E w \in {"broadcast", Misnamed(c), "unknown"} : Then(p, w)
            \/ \E w \in {Refused(c), Misnamed(c), "unknown"} : Then(p, w) /\ UNCHANGED chain
  /\ UNCHANGED <<row, older, expired, overdue, lock, crashes>>

\* Mutant: a receipt is believed before its block is solid.
Receipt_NotSolid(s) ==
  CASE s \in {"succeeded", "included"} -> "confirmed" [] s = "unverified" -> "unknown"
    [] s = "reverted" -> "execution_failed" [] OTHER -> "checked"

\* What _confirm writes for the answer of the solid node: executed with the expected
\* Transfer event, executed without it, reverted, or not found.
Receipt(s) ==
  CASE s = "succeeded" -> "confirmed" [] s = "unverified" -> "unknown"
    [] s = "reverted" -> "execution_failed" [] OTHER -> "checked"

\* _confirm: ask for the solid receipt.  Without one, an uncertain transaction that
\* can still be sent is sent again, and otherwise the row is only marked checked.
Confirm(p) ==
  LET f == proc[p].on
      c == proc[p].copy
      resend == c.status = "unknown" /\ f \notin expired /\ c.payload IN
  /\ proc[p].pc = "work"
  /\ c.status \in {"broadcast", "unknown"}
  /\ \/ c.txid = 0 /\ Then(p, "transaction_id_missing")
     \/ c.txid # 0 /\ Then(p, "unknown")
     \/ /\ c.txid # 0
        /\ IF Receipt(chain[f][c.txid]) # "checked"
             THEN Then(p, Receipt(chain[f][c.txid]))
             ELSE IF resend THEN proc' = [proc EXCEPT ![p].pc = "send"]
                            ELSE Then(p, "checked")
  /\ UNCHANGED <<row, older, expired, overdue, chain, lock, crashes>>

-----------------------------------------------------------------------------
(* The repository's writes, each one transaction that reads the row again. *)

\* A write of p: if `when' holds of the row it becomes `new'; p returns to its loop.
Save(p, w, when, new) ==
  LET f == proc[p].on IN
  /\ proc[p].pc = "save" /\ proc[p].write = w
  /\ IF when THEN row' = [row EXCEPT ![f] = new] /\ Touch({f}) ELSE UNCHANGED dbvars
  /\ proc' = [proc EXCEPT ![p] = Idle("idle")]
  /\ UNCHANGED <<expired, overdue, chain, lock, crashes>>

\* A new preparation's transaction expires later than any earlier one.
MarkPrepared(p) ==
  LET r == row[proc[p].on] IN
  Save(p, "prepared", r.status = "preparing",
       [r EXCEPT !.status = "signed", !.txid = proc[p].copy.attempts, !.payload = TRUE])

RetryPreparation(p) ==
  LET r == row[proc[p].on] IN
  Save(p, "retry", r.status = "preparing",
       [r EXCEPT !.status = "requested", !.code = "node_unavailable"])

\* Mutant: the payload is erased as soon as the node has taken it.
Sent_Erased(r) ==
  [r EXCEPT !.status = "broadcast", !.sentAt = TRUE, !.code = "none", !.payload = FALSE]

Sent(r) == [r EXCEPT !.status = "broadcast", !.sentAt = TRUE, !.code = "none"]

MarkBroadcast(p) ==
  LET r == row[proc[p].on] IN
  Save(p, "broadcast", r.status \in {"signed", "unknown"}, Sent(r))

MarkUnknown(p) ==
  LET r == row[proc[p].on] IN
  Save(p, "unknown", r.status \notin Terminal,
       [r EXCEPT !.status = "unknown", !.code = "broadcast_outcome_unknown"])

MarkChecked(p) ==
  LET r == row[proc[p].on]
      late == r.status = "broadcast" /\ r.sentAt /\ proc[p].on \in overdue IN
  Save(p, "checked", TRUE,
       [r EXCEPT !.status = IF late THEN "unknown" ELSE @,
                 !.code = IF late THEN "confirmation_delayed" ELSE @])

MarkConfirmed(p) ==
  Save(p, "confirmed", TRUE,
       [row[proc[p].on] EXCEPT !.status = "confirmed", !.code = "none", !.payload = FALSE])

MarkFailed(p) ==
  LET r == row[proc[p].on] IN
  \E code \in FailureCode \ {"none"} :
    Save(p, code, r.status # "confirmed",
         [r EXCEPT !.status = "failed", !.code = code, !.payload = FALSE])

\* A write raises: run() catches it and marks the row unknown instead.
DatabaseError(p) ==
  /\ proc[p].pc = "save" /\ proc[p].write # "unknown"
  /\ Then(p, "unknown")
  /\ UNCHANGED <<row, older, expired, overdue, chain, lock, crashes>>

\* The clock passes a transaction's expiration, or a row's confirmation timeout.
Expire(f) ==
  /\ row[f].txid # 0 /\ f \notin expired
  /\ expired' = expired \cup {f}
  /\ UNCHANGED <<row, older, overdue, chain, lock, proc, crashes>>

PassTimeout(f) ==
  /\ row[f].sentAt /\ f \notin overdue
  /\ overdue' = overdue \cup {f}
  /\ UNCHANGED <<row, older, expired, chain, lock, proc, crashes>>

-----------------------------------------------------------------------------
Work(p) ==
  \/ Claim(p) \/ Prepare(p) \/ Broadcast(p) \/ Confirm(p)
  \/ MarkPrepared(p) \/ RetryPreparation(p) \/ MarkBroadcast(p) \/ MarkUnknown(p)
  \/ MarkChecked(p) \/ MarkConfirmed(p) \/ MarkFailed(p)

Next ==
  \/ \E p \in Processor : Start(p) \/ Crash(p) \/ Work(p) \/ DatabaseError(p)
  \/ \E f \in Funding : Create(f) \/ Expire(f) \/ PassTimeout(f)
  \/ \E f \in Funding, t \in Attempt : Include(f, t) \/ Solidify(f, t) \/ Forget(f, t)

Spec == Init /\ [][Next]_vars

-----------------------------------------------------------------------------
(* Fairness.  The event loop runs every step it has started, and a process *)
(* that died is started again (crashes are bounded, so one run is the      *)
(* last).  A node that answers a receipt query again and again ends by     *)
(* answering one, and a database that fails now and then does not fail     *)
(* every write of one kind; the clock advances.  Nothing is assumed of the *)
(* chain: a transaction may stay in the pool, or be forgotten, for ever.   *)

ReceiptAnswered(p) == Confirm(p) /\ proc'[p].write # "unknown"

Fairness ==
  /\ \A p \in Processor : WF_vars(Start(p)) /\ WF_vars(Work(p))
  /\ \A p \in Processor :
       /\ SF_vars(ReceiptAnswered(p))
       /\ SF_vars(MarkConfirmed(p)) /\ SF_vars(MarkChecked(p)) /\ SF_vars(MarkFailed(p))
  /\ \A f \in Funding : WF_vars(Expire(f)) /\ WF_vars(PassTimeout(f))

FairSpec == Spec /\ Fairness

-----------------------------------------------------------------------------
(* Correctness.                                                            *)

\* Every variable has its type.
TypeOK ==
  /\ row \in [Funding -> Row]
  /\ older \subseteq Funding \X Funding
  /\ expired \subseteq Funding /\ overdue \subseteq Funding
  /\ chain \in [Funding -> [Attempt -> TxState]]
  /\ lock \in Processor \cup {Nobody}
  /\ proc \in [Processor -> Process]
  /\ crashes \in 0..MaxCrashes

\* However often preparation is repeated, a crash loses its result, or a send is
\* retried, only the transaction the row names has ever reached the network: the
\* master wallet cannot pay one request twice.
OneTransfer ==
  \A f \in Funding, t \in Attempt : chain[f][t] # "unseen" => row[f].txid = t

\* "confirmed" is only shown of a transfer that a solid block executed; the answer to
\* a broadcast is not taken for one.
ConfirmedWasPaid ==
  \A f \in Funding : row[f].status = "confirmed" =>
    row[f].txid \in Attempt /\ chain[f][row[f].txid] = "succeeded"

\* What was told of a transaction that the network may know: it took the transaction and
\* named another one, or refused to take it again after a crash lost its first answer.
Doubtful(code) == code = "different_txid" \/ (code = "broadcast_rejected" /\ crashes # 0)

\* A request reported as failed is not paid afterwards, with these two exceptions.
FailedIsUnpaid ==
  \A f \in Funding :
    row[f].status = "failed" /\ ~Doubtful(row[f].code) =>
      \A t \in Attempt : chain[f][t] \in {"unseen", "reverted"}

\* claim_next never selects a preparing row, so such a row is either in the hands of
\* the process that holds the lock or waits for the next start: none is orphaned.
NoOrphanPreparation ==
  \A f \in Funding : row[f].status = "preparing" =>
    \/ lock = Nobody
    \/ proc[lock].on = f /\ proc[lock].pc \in {"work", "save"}

\* The order of claims lets no transfer begin while another is under way, so a balance
\* that _prepare has checked is not spent by a transfer sent earlier and not yet settled.
UnderWay == {f \in Funding : row[f].status \in {"preparing", "signed", "broadcast", "unknown"}}
SerialTransfers == \A f, g \in UnderWay : f = g

\* An uncertain transfer can always be sent again as it was signed: while a row with a
\* transaction is not settled its payload is kept, and the branch of _broadcast for an
\* incomplete signed row is never taken.
PayloadKept ==
  \A f \in Funding :
    /\ row[f].txid # 0 /\ row[f].status \notin Terminal => row[f].payload
    /\ row[f].code # "signed_transaction_missing"

\* What an owner was told at the end is never taken back, by a second process, a late
\* write or a restart.
SettledForGood ==
  [][\A f \in Funding : row[f].status \in Terminal => row'[f].status = row[f].status]_row

\* A paid transfer that is being reconciled is confirmed in the end, whatever the other
\* requests do and however often the node fails to answer.
PaidIsConfirmed ==
  \A f \in Funding :
    (/\ row[f].status \in {"broadcast", "unknown"} /\ row[f].txid \in Attempt
     /\ chain[f][row[f].txid] = "succeeded")
      ~> row[f].status = "confirmed"

\* repository.py:33: "Funding preparation will be retried after worker restart."
RetriedAfterRestart ==
  \A f \in Funding :
    (row[f].status = "requested" /\ row[f].code = "worker_restarted")
      ~> row[f].status # "requested"

\* backend/README.md:126: the processor "reconciles the same transaction ID" of an
\* uncertain broadcast; it does not give up on a transaction the network may execute.
\* (A broadcast that the node answered, with another ID, is not taken for an uncertain one.)
UncertainIsReconciled ==
  \A f \in Funding, t \in Attempt :
    row[f].status = "failed" /\ row[f].code # "different_txid" =>
      chain[f][t] \in {"unseen", "reverted"}

-----------------------------------------------------------------------------
(* The inductive invariant: what ties a process to the table.  Its theorem *)
(* is in FundingProcessorProofs.                                           *)

\* The process that is up is the one that holds the lock.
LockHeld == \A p \in Processor : proc[p].pc # "down" <=> lock = p

\* While a process works on a row nothing else writes it: its copy is never stale.
CopyIsRow ==
  \A p \in Processor : proc[p].pc \in {"work", "send", "save"} =>
    /\ proc[p].on \in UnderWay
    /\ proc[p].copy = row[proc[p].on]

\* The writes that may follow each claimed status, and what the chain then says.
WriteAllowed ==
  \A p \in Processor :
    LET c == proc[p].copy
        w == proc[p].write
        f == proc[p].on IN
    /\ proc[p].pc = "send" => c.status = "unknown" /\ c.txid # 0
    /\ proc[p].pc = "save" =>
         /\ c.status = "preparing" => w \in {"prepared", "retry", "transfer_rejected", "unknown"}
         /\ c.status = "signed" => w \in {"broadcast", "unknown", "broadcast_rejected",
              "different_txid"}
         /\ c.status = "broadcast" => w \in {"checked", "unknown", "confirmed",
              "execution_failed"}
         /\ c.status = "unknown" => w \in {"broadcast", "checked", "unknown", "confirmed",
              "execution_failed", "transaction_id_missing"}
         /\ w = "broadcast" => c.txid # 0
         /\ w = "confirmed" => c.txid # 0 /\ chain[f][c.txid] = "succeeded"
         /\ w = "execution_failed" => c.txid # 0 /\ chain[f][c.txid] = "reverted"
         /\ w = "transaction_id_missing" => c.txid = 0
         /\ w = "broadcast_rejected" /\ crashes = 0 => chain[f][c.txid] = "unseen"

\* A signed row's transaction has been seen only by the send whose answer is not yet
\* written, or by a send that a crash interrupted.
FirstSend ==
  \A f \in Funding : row[f].status = "signed" /\ crashes = 0 =>
    \/ chain[f][row[f].txid] = "unseen"
    \/ \E p \in Processor :
         proc[p].on = f /\ proc[p].pc = "save"
           /\ proc[p].write \in {"broadcast", "different_txid", "unknown"}

\* What holds of one row at rest.
RowInv(f, r) ==
  /\ r.status \in {"absent", "requested", "preparing"} => r.txid = 0
  /\ r.status \in {"signed", "broadcast"} => r.txid # 0
  /\ r.status = "preparing" => r.attempts # 0
  /\ r.txid # 0 /\ r.status \notin Terminal => r.payload
  /\ r.code # "signed_transaction_missing"
  /\ \A t \in Attempt : chain[f][t] # "unseen" => r.txid = t
  /\ r.status = "confirmed" => r.txid # 0 /\ chain[f][r.txid] = "succeeded"
  /\ r.status = "failed" /\ ~Doubtful(r.code) =>
       \A t \in Attempt : chain[f][t] \in {"unseen", "reverted"}

RowsInv == \A f \in Funding : RowInv(f, row[f])

IInv ==
  /\ TypeOK /\ LockHeld /\ CopyIsRow /\ WriteAllowed /\ FirstSend /\ RowsInv
  /\ NoOrphanPreparation /\ SerialTransfers

-----------------------------------------------------------------------------
(* The processor implements the promise.                                   *)

Outcome(r) ==
  CASE r.status = "absent" -> "none" [] r.status \in Terminal -> r.status [] OTHER -> "open"

Promise == INSTANCE FundingPromise WITH
  Payment <- Attempt,
  outcome <- [f \in Funding |-> Outcome(row[f])],
  paid <- [f \in Funding |-> {t \in Attempt : chain[f][t] = "succeeded"}]

\* Every step is a step of FundingPromise or leaves what it speaks of alone.
KeepsPromise == Promise!PromiseSpec
=============================================================================
