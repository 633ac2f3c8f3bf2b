----------------------- MODULE FundingProcessorProofs -----------------------
(***************************************************************************)
(* Theorems about FundingProcessor, for any set of requests and processes  *)
(* and any bounds.  The inductive invariant IInv says what ties the        *)
(* process to the table: the process that is up holds the lock, its copy   *)
(* of the claimed row is still the row, and the write it is about to make  *)
(* is one that the row's status and the chain allow.                       *)
(***************************************************************************)
EXTENDS FundingProcessor, TLAPS

USE BoundsAssumption, NobodyAssumption

-----------------------------------------------------------------------------
(* Types.                                                                  *)

\* updated_at orders requests only.
LEMMA TouchType ==
  ASSUME older \subseteq Funding \X Funding, NEW S \in SUBSET Funding, Touch(S)
  PROVE  older' \subseteq Funding \X Funding
BY DEF Touch, Rows

\* A write of the repository keeps the types, if what it stores is a row.
LEMMA SaveType ==
  ASSUME TypeOK, NEW p \in Processor, NEW w, NEW when, NEW new \in Row,
         proc[p].on \in Funding, Save(p, w, when, new)
  PROVE  TypeOK'
<1>1. row' \in [Funding -> Row]
  BY DEF Save, TypeOK, dbvars
<1>2. older' \subseteq Funding \X Funding
  <2>1. CASE when
    <3>1. Touch({proc[p].on})
      BY <2>1 DEF Save
    <3>2. QED
      BY <3>1, TouchType DEF TypeOK
  <2>2. CASE ~when
    BY <2>2 DEF Save, TypeOK, dbvars
  <2>3. QED
    BY <2>1, <2>2
<1>3. Idle("idle") \in Process
  BY DEF Idle, Process, NoRow, Row, Status, Write, FailureCode, Processable, Terminal
<1>4. proc' \in [Processor -> Process]
  BY <1>3 DEF Save, TypeOK
<1>5. QED
  BY <1>1, <1>2, <1>4 DEF Save, TypeOK, Rows

-----------------------------------------------------------------------------
(* The initial state.                                                      *)

LEMMA InitInv == Init => IInv
<1> SUFFICES ASSUME Init PROVE IInv
  OBVIOUS
<1> USE DEF Init, Idle, NoRow
<1>1. TypeOK
  BY DEF TypeOK, Row, Status, Write, FailureCode, Process, Processable, Terminal, TxState,
         InFlight, Executed, Attempt
<1>2. LockHeld /\ CopyIsRow /\ WriteAllowed /\ FirstSend
  BY DEF LockHeld, CopyIsRow, WriteAllowed, FirstSend
<1>3. RowsInv /\ NoOrphanPreparation /\ SerialTransfers
  BY DEF RowsInv, RowInv, Doubtful, NoOrphanPreparation, SerialTransfers, UnderWay, Terminal,
         Attempt
<1>4. QED
  BY <1>1, <1>2, <1>3 DEF IInv

-----------------------------------------------------------------------------
(* The API, the clock and the network.                                     *)

LEMMA CreateInv ==
  ASSUME IInv, NEW f \in Funding, Create(f)
  PROVE  IInv'
<1> USE DEF IInv, Create
<1>1. TypeOK'
  <2>1. Touch({f})
    OBVIOUS
  <2>2. older' \subseteq Funding \X Funding
    BY <2>1, TouchType DEF TypeOK
  <2>3. row' \in [Funding -> Row]
    BY DEF TypeOK, Row, Status, Processable
  <2>4. QED
    BY <2>2, <2>3 DEF TypeOK
<1>2. LockHeld' /\ FirstSend'
  BY DEF LockHeld, FirstSend, TypeOK
<1>3. CopyIsRow' /\ WriteAllowed'
  BY DEF CopyIsRow, WriteAllowed, UnderWay, TypeOK
<1>4. RowsInv'
  BY DEF RowsInv, RowInv, Doubtful, TypeOK, Row, Terminal
<1>5. NoOrphanPreparation' /\ SerialTransfers'
  BY DEF NoOrphanPreparation, SerialTransfers, UnderWay, TypeOK
<1>6. QED
  BY <1>1, <1>2, <1>3, <1>4, <1>5

LEMMA ExpireInv ==
  ASSUME IInv, NEW f \in Funding, Expire(f)
  PROVE  IInv'
<1> USE DEF IInv, Expire
<1>1. TypeOK'
  BY DEF TypeOK, TxState, InFlight, Executed
<1>2. LockHeld' /\ CopyIsRow' /\ NoOrphanPreparation' /\ SerialTransfers'
  BY DEF LockHeld, CopyIsRow, UnderWay, NoOrphanPreparation, SerialTransfers
<1>3. WriteAllowed'
  BY DEF WriteAllowed, TypeOK
<1>4. FirstSend'
  BY DEF FirstSend, TypeOK
<1>5. RowsInv'
  BY DEF RowsInv, RowInv, Doubtful, TypeOK
<1>6. QED
  BY <1>1, <1>2, <1>3, <1>4, <1>5

LEMMA PassTimeoutInv ==
  ASSUME IInv, NEW f \in Funding, PassTimeout(f)
  PROVE  IInv'
<1> USE DEF IInv, PassTimeout
<1>1. TypeOK'
  BY DEF TypeOK, TxState, InFlight, Executed
<1>2. LockHeld' /\ CopyIsRow' /\ NoOrphanPreparation' /\ SerialTransfers'
  BY DEF LockHeld, CopyIsRow, UnderWay, NoOrphanPreparation, SerialTransfers
<1>3. WriteAllowed'
  BY DEF WriteAllowed, TypeOK
<1>4. FirstSend'
  BY DEF FirstSend, TypeOK
<1>5. RowsInv'
  BY DEF RowsInv, RowInv, Doubtful, TypeOK
<1>6. QED
  BY <1>1, <1>2, <1>3, <1>4, <1>5

LEMMA IncludeInv ==
  ASSUME IInv, NEW f \in Funding, NEW t \in Attempt, Include(f, t)
  PROVE  IInv'
<1> USE DEF IInv, Include
<1>1. TypeOK'
  BY DEF TypeOK, TxState, InFlight, Executed
<1>2. LockHeld' /\ CopyIsRow' /\ NoOrphanPreparation' /\ SerialTransfers'
  BY DEF LockHeld, CopyIsRow, UnderWay, NoOrphanPreparation, SerialTransfers
<1>3. WriteAllowed'
  BY DEF WriteAllowed, TypeOK
<1>4. FirstSend'
  BY DEF FirstSend, TypeOK
<1>5. RowsInv'
  BY DEF RowsInv, RowInv, Doubtful, TypeOK
<1>6. QED
  BY <1>1, <1>2, <1>3, <1>4, <1>5

LEMMA SolidifyInv ==
  ASSUME IInv, NEW f \in Funding, NEW t \in Attempt, Solidify(f, t)
  PROVE  IInv'
<1> USE DEF IInv, Solidify
<1>1. TypeOK'
  BY DEF TypeOK, TxState, InFlight, Executed
<1>2. LockHeld' /\ CopyIsRow' /\ NoOrphanPreparation' /\ SerialTransfers'
  BY DEF LockHeld, CopyIsRow, UnderWay, NoOrphanPreparation, SerialTransfers
<1>3. WriteAllowed'
  BY DEF WriteAllowed, TypeOK
<1>4. FirstSend'
  BY DEF FirstSend, TypeOK
<1>5. RowsInv'
  BY DEF RowsInv, RowInv, Doubtful, TypeOK
<1>6. QED
  BY <1>1, <1>2, <1>3, <1>4, <1>5

LEMMA ForgetInv ==
  ASSUME IInv, NEW f \in Funding, NEW t \in Attempt, Forget(f, t)
  PROVE  IInv'
<1> USE DEF IInv, Forget
<1>1. TypeOK'
  BY DEF TypeOK, TxState, InFlight, Executed
<1>2. LockHeld' /\ CopyIsRow' /\ NoOrphanPreparation' /\ SerialTransfers'
  BY DEF LockHeld, CopyIsRow, UnderWay, NoOrphanPreparation, SerialTransfers
<1>3. WriteAllowed'
  BY DEF WriteAllowed, TypeOK
<1>4. FirstSend'
  BY DEF FirstSend, TypeOK
<1>5. RowsInv'
  BY DEF RowsInv, RowInv, Doubtful, TypeOK
<1>6. QED
  BY <1>1, <1>2, <1>3, <1>4, <1>5

-----------------------------------------------------------------------------
(* Start, crash and claim.                                                 *)

\* What recovery makes of a row.
LEMMA RecoveredRow ==
  ASSUME NEW r \in Row
  PROVE  /\ Recovered(r) \in Row
         /\ Recovered(r).status # "preparing"
         /\ r.status # "preparing" => Recovered(r) = r
         /\ r.status = "preparing" =>
              /\ Recovered(r).status = "requested" /\ Recovered(r).code = "worker_restarted"
              /\ Recovered(r).txid = r.txid
<1>1. CASE r.status = "preparing"
  <2>1. Recovered(r) = [r EXCEPT !.status = "requested", !.code = "worker_restarted"]
    BY <1>1 DEF Recovered, Interrupted
  <2>2. QED
    BY <1>1, <2>1 DEF Row, Status, Processable, FailureCode
<1>2. CASE r.status # "preparing"
  BY <1>2 DEF Recovered, Interrupted
<1>3. QED
  BY <1>1, <1>2

LEMMA StartInv ==
  ASSUME IInv, NEW p \in Processor, Start(p)
  PROVE  IInv'
<1> USE DEF IInv
<1>1. /\ lock = Nobody /\ lock' = p
      /\ row' = [f \in Funding |-> Recovered(row[f])]
      /\ Touch({f \in Funding : Interrupted(row[f])})
      /\ proc' = [proc EXCEPT ![p] = Idle("idle")]
      /\ UNCHANGED <<expired, overdue, chain, crashes>>
  BY DEF Start, LockFree
<1>2. \A q \in Processor : proc[q].pc = "down"
  BY <1>1 DEF LockHeld
<1>3. \A f \in Funding : row[f] \in Row /\ row'[f] = Recovered(row[f])
  BY <1>1 DEF TypeOK
<1>4. TypeOK'
  <2>1. older' \subseteq Funding \X Funding
    BY <1>1, TouchType DEF TypeOK
  <2>2. row' \in [Funding -> Row]
    BY <1>1, <1>3, RecoveredRow
  <2>3. proc' \in [Processor -> Process]
    BY <1>1 DEF TypeOK, Idle, Process, NoRow, Row, Status, Write, FailureCode
  <2>4. QED
    BY <1>1, <2>1, <2>2, <2>3 DEF TypeOK
<1>5. LockHeld' /\ CopyIsRow' /\ WriteAllowed'
  BY <1>1, <1>2 DEF LockHeld, CopyIsRow, WriteAllowed, TypeOK, Idle
<1>6. FirstSend'
  BY <1>1, <1>2, <1>3, RecoveredRow DEF FirstSend, TypeOK
<1>7. RowsInv'
  BY <1>1, <1>3, RecoveredRow DEF RowsInv, RowInv, Doubtful, Terminal
<1>8. NoOrphanPreparation' /\ SerialTransfers'
  BY <1>1, <1>3, RecoveredRow DEF NoOrphanPreparation, SerialTransfers, UnderWay
<1>9. QED
  BY <1>4, <1>5, <1>6, <1>7, <1>8

LEMMA CrashInv ==
  ASSUME IInv, NEW p \in Processor, Crash(p)
  PROVE  IInv'
<1> USE DEF IInv, Crash, Idle
<1>1. TypeOK'
  BY DEF TypeOK, Process, NoRow, Row, Status, Write, FailureCode
<1>2. LockHeld' /\ CopyIsRow' /\ WriteAllowed'
  BY DEF LockHeld, CopyIsRow, WriteAllowed, UnderWay, TypeOK
<1>3. crashes' # 0
  BY DEF TypeOK
<1>4. FirstSend'
  BY <1>3 DEF FirstSend
<1>5. RowsInv'
  BY <1>3 DEF RowsInv, RowInv, Doubtful, TypeOK
<1>6. NoOrphanPreparation' /\ SerialTransfers'
  BY DEF NoOrphanPreparation, SerialTransfers, UnderWay, LockHeld, TypeOK
<1>7. QED
  BY <1>1, <1>2, <1>4, <1>5, <1>6

\* Only a row that outranks every other one is claimed: a new request is claimed only
\* when no other is under way.
LEMMA ClaimIsSerial ==
  ASSUME IInv, NEW p \in Processor, NEW f \in Funding, proc[p].pc = "idle", ClaimedFirst(f),
         row[f].status = "requested", NEW g \in Funding \ {f}
  PROVE  g \notin UnderWay
<1>1. row[g].status # "preparing"
  BY DEF IInv, NoOrphanPreparation, LockHeld, TypeOK
<1>2. ASSUME row[g].status \in {"signed", "broadcast", "unknown"} PROVE FALSE
  <2>1. /\ Priority("requested") = 3
        /\ Priority("signed") = 2 /\ Priority("unknown") = 1 /\ Priority("broadcast") = 0
    BY DEF Priority
  <2>2. \/ Priority(row[f].status) < Priority(row[g].status)
        \/ Priority(row[f].status) = Priority(row[g].status)
    BY <1>2 DEF ClaimedFirst, Processable
  <2>3. QED
    BY <1>2, <2>1, <2>2
<1>3. QED
  BY <1>1, <1>2 DEF UnderWay

LEMMA ClaimInv ==
  ASSUME IInv, NEW p \in Processor, Claim(p)
  PROVE  IInv'
<1> USE DEF IInv
<1>1. PICK f \in Funding :
        /\ ClaimedFirst(f)
        /\ row[f].status = "requested" => row[f].attempts < MaxAttempts
        /\ row' = [row EXCEPT ![f] = Claimed(@)]
        /\ IF row[f].status = "requested" THEN Touch({f}) ELSE UNCHANGED older
        /\ proc' = [proc EXCEPT ![p] = [pc |-> "work", on |-> f,
                                        copy |-> Claimed(row[f]), write |-> "none"]]
  BY DEF Claim
<1>2. /\ proc[p].pc = "idle"
      /\ UNCHANGED <<expired, overdue, chain, lock, crashes>>
  BY DEF Claim
<1>3. row[f].status \in {"requested", "signed", "broadcast", "unknown"}
  BY <1>1 DEF ClaimedFirst, Processable
<1>4. Claimed(row[f]) \in Row
  <2>1. row[f] \in Row
    BY DEF TypeOK
  <2>2. CASE row[f].status = "requested"
    <3>1. row[f].attempts + 1 \in 0..MaxAttempts
      BY <1>1, <2>1, <2>2 DEF Row
    <3>2. Claimed(row[f]) = [row[f] EXCEPT !.status = "preparing",
                                           !.attempts = row[f].attempts + 1, !.code = "none"]
      BY <2>2 DEF Claimed
    <3>3. QED
      BY <2>1, <3>1, <3>2 DEF Row, Status, FailureCode
  <2>3. CASE row[f].status # "requested"
    BY <2>1, <2>3 DEF Claimed
  <2>4. QED
    BY <2>2, <2>3
<1>5. TypeOK'
  <2>1. older' \subseteq Funding \X Funding
    BY <1>1, TouchType DEF TypeOK
  <2>2. proc' \in [Processor -> Process]
    BY <1>1, <1>4 DEF TypeOK, Process, Write, FailureCode
  <2>3. QED
    BY <1>1, <1>2, <1>4, <2>1, <2>2 DEF TypeOK
<1>6. Claimed(row[f]).status \in {"preparing", "signed", "broadcast", "unknown"}
  BY <1>3 DEF Claimed, TypeOK, Row
<1>7. lock = p /\ \A q \in Processor \ {p} : proc[q].pc = "down"
  BY <1>2 DEF LockHeld
<1>8. LockHeld' /\ WriteAllowed'
  BY <1>1, <1>2 DEF LockHeld, WriteAllowed, TypeOK
<1>9. CopyIsRow'
  BY <1>1, <1>2, <1>6, <1>7 DEF CopyIsRow, UnderWay, TypeOK
<1>10. FirstSend'
  BY <1>1, <1>2, <1>7 DEF FirstSend, Claimed, TypeOK, Row
<1>11. RowsInv'
  BY <1>1, <1>2, <1>3 DEF RowsInv, RowInv, Doubtful, Claimed, TypeOK, Row, Terminal
<1>12. NoOrphanPreparation'
  BY <1>1, <1>2, <1>7 DEF NoOrphanPreparation, TypeOK
<1>13. SerialTransfers'
  <2>1. CASE row[f].status = "requested"
    BY <1>1, <1>2, <2>1, ClaimIsSerial DEF UnderWay, SerialTransfers, TypeOK
  <2>2. CASE row[f].status # "requested"
    BY <1>1, <2>2 DEF UnderWay, SerialTransfers, Claimed, TypeOK
  <2>3. QED
    BY <2>1, <2>2
<1>14. QED
  BY <1>5, <1>8, <1>9, <1>10, <1>11, <1>12, <1>13

-----------------------------------------------------------------------------
(* The calls to the gateway.                                               *)

\* The process that works is the only one that is up.
LEMMA OnlyOneUp ==
  ASSUME IInv, NEW p \in Processor, proc[p].pc # "down"
  PROVE  lock = p /\ \A q \in Processor \ {p} : proc[q].pc = "down"
BY DEF IInv, LockHeld

\* A step that only moves p to its next write keeps whatever WriteAllowed does not speak of.
LEMMA ThenInv ==
  ASSUME IInv, NEW p \in Processor, NEW w \in Write, Then(p, w),
         proc[p].pc \in {"work", "send", "save"},
         proc[p].pc = "save" => w = "unknown",
         UNCHANGED <<row, older, expired, overdue, lock, crashes>>
  PROVE  /\ proc' \in [Processor -> Process]
         /\ LockHeld' /\ CopyIsRow' /\ NoOrphanPreparation' /\ SerialTransfers'
<1> USE DEF IInv, Then, TypeOK
<1>1. proc' \in [Processor -> Process]
  BY DEF Process
<1>2. LockHeld' /\ CopyIsRow'
  BY DEF LockHeld, CopyIsRow, UnderWay
<1>3. NoOrphanPreparation' /\ SerialTransfers'
  BY DEF NoOrphanPreparation, SerialTransfers, UnderWay, LockHeld
<1>4. QED
  BY <1>1, <1>2, <1>3

LEMMA PrepareInv ==
  ASSUME IInv, NEW p \in Processor, Prepare(p)
  PROVE  IInv'
<1> USE DEF IInv
<1>1. PICK w \in {"prepared", "retry", "transfer_rejected", "unknown"} : Then(p, w)
  BY DEF Prepare
<1>2. /\ proc[p].pc = "work" /\ proc[p].copy.status = "preparing"
      /\ UNCHANGED <<row, older, expired, overdue, chain, lock, crashes>>
  BY DEF Prepare
<1>3. /\ proc' \in [Processor -> Process]
      /\ LockHeld' /\ CopyIsRow' /\ NoOrphanPreparation' /\ SerialTransfers'
  BY <1>1, <1>2, ThenInv DEF Write, FailureCode
<1>4. WriteAllowed'
  <2>1. \A q \in Processor : q # p => proc'[q] = proc[q] /\ proc[q].pc = "down"
    BY <1>1, <1>2, OnlyOneUp DEF Then, TypeOK
  <2>2. proc'[p].pc = "save" /\ proc'[p].write = w /\ proc'[p].copy = proc[p].copy
    BY <1>1 DEF Then, TypeOK, Process
  <2>3. QED
    BY <1>1, <1>2, <2>1, <2>2 DEF WriteAllowed
<1>5. FirstSend'
  <2>1. \A q \in Processor : proc[q].pc = "save" => proc'[q] = proc[q]
    BY <1>1, <1>2 DEF Then, TypeOK
  <2>2. QED
    BY <1>2, <2>1 DEF FirstSend
<1>6. RowsInv' /\ TypeOK'
  BY <1>2, <1>3 DEF RowsInv, RowInv, Doubtful, TypeOK
<1>7. QED
  BY <1>3, <1>4, <1>5, <1>6

LEMMA DatabaseErrorInv ==
  ASSUME IInv, NEW p \in Processor, DatabaseError(p)
  PROVE  IInv'
<1> USE DEF IInv
<1>1. /\ proc[p].pc = "save" /\ Then(p, "unknown")
      /\ UNCHANGED <<row, older, expired, overdue, chain, lock, crashes>>
  BY DEF DatabaseError
<1>2. /\ proc' \in [Processor -> Process]
      /\ LockHeld' /\ CopyIsRow' /\ NoOrphanPreparation' /\ SerialTransfers'
  BY <1>1, ThenInv DEF Write
<1>3. WriteAllowed'
  <2>1. proc[p].copy.status \in {"preparing", "signed", "broadcast", "unknown"}
    BY <1>1 DEF CopyIsRow, UnderWay
  <2>2. \A q \in Processor : q # p => proc'[q] = proc[q] /\ proc[q].pc = "down"
    BY <1>1, OnlyOneUp DEF Then, TypeOK
  <2>3. proc'[p].pc = "save" /\ proc'[p].write = "unknown" /\ proc'[p].copy = proc[p].copy
    BY <1>1 DEF Then, TypeOK, Process
  <2>4. QED
    BY <1>1, <2>1, <2>2, <2>3 DEF WriteAllowed
<1>4. FirstSend'
  <2> SUFFICES ASSUME NEW f \in Funding, row[f].status = "signed", crashes = 0,
                      chain[f][row[f].txid] # "unseen"
               PROVE  proc'[p].on = f /\ proc'[p].pc = "save" /\ proc'[p].write = "unknown"
    BY <1>1 DEF FirstSend
  <2>1. PICK q \in Processor :
          /\ proc[q].on = f /\ proc[q].pc = "save"
          /\ proc[q].write \in {"broadcast", "different_txid", "unknown"}
    BY DEF FirstSend
  <2>2. q = p
    BY <1>1, <2>1, OnlyOneUp
  <2>3. QED
    BY <1>1, <2>1, <2>2 DEF Then, TypeOK
<1>5. RowsInv' /\ TypeOK'
  BY <1>1, <1>2 DEF RowsInv, RowInv, Doubtful, TypeOK
<1>6. QED
  BY <1>2, <1>3, <1>4, <1>5

-----------------------------------------------------------------------------
(* The writes.                                                             *)

\* A write whose guard holds and that moves the row p works on, which is under way, to a
\* status other than preparing, keeps the invariant if the new row satisfies its part.
LEMMA SaveInv ==
  ASSUME IInv, NEW p \in Processor, NEW w, NEW when, NEW new \in Row,
         Save(p, w, when, new), when,
         RowInv(proc[p].on, new), new.status \notin {"absent", "preparing"},
         new.status = "signed" => chain[proc[p].on][new.txid] = "unseen"
  PROVE  IInv'
<1> DEFINE f == proc[p].on
<1> USE DEF IInv
<1>1. /\ proc[p].pc = "save" /\ row' = [row EXCEPT ![f] = new]
      /\ proc' = [proc EXCEPT ![p] = Idle("idle")]
      /\ UNCHANGED <<expired, overdue, chain, lock, crashes>>
  BY DEF Save
<1>2. f \in UnderWay /\ f \in Funding
  BY <1>1 DEF CopyIsRow, UnderWay
<1>3. lock = p /\ \A q \in Processor \ {p} : proc[q].pc = "down"
  BY <1>1, OnlyOneUp
<1>4. TypeOK'
  BY <1>2, SaveType
<1>5. LockHeld' /\ CopyIsRow' /\ WriteAllowed'
  BY <1>1, <1>3 DEF LockHeld, CopyIsRow, WriteAllowed, Idle, TypeOK
<1>6. FirstSend'
  BY <1>1, <1>2, <1>3 DEF FirstSend, TypeOK
<1>7. RowsInv'
  BY <1>1, <1>2 DEF RowsInv, RowInv, Doubtful, TypeOK
<1>8. NoOrphanPreparation' /\ SerialTransfers'
  BY <1>1, <1>2, <1>3 DEF NoOrphanPreparation, SerialTransfers, UnderWay, TypeOK
<1>9. QED
  BY <1>4, <1>5, <1>6, <1>7, <1>8

\* Every guard of the repository's writes on the row's status holds when its write is
\* reached: one process at a time, with a fresh copy, never needs them.
LEMMA MarkPreparedInv ==
  ASSUME IInv, NEW p \in Processor, MarkPrepared(p)
  PROVE  IInv'
<1> DEFINE r == row[proc[p].on]
           new == [r EXCEPT !.status = "signed", !.txid = proc[p].copy.attempts, !.payload = TRUE]
<1>1. Save(p, "prepared", r.status = "preparing", new)
  BY DEF MarkPrepared
<1>2. proc[p].pc = "save" /\ proc[p].write = "prepared"
  BY <1>1 DEF Save
<1>3. /\ proc[p].on \in Funding /\ r.status = "preparing" /\ proc[p].copy = r /\ r \in Row
      /\ RowInv(proc[p].on, r)
  BY <1>2 DEF IInv, CopyIsRow, WriteAllowed, UnderWay, RowsInv, TypeOK
<1>4. new \in Row
  BY <1>3 DEF Row, Status, Processable
<1>5. new.txid \in Attempt /\ \A t \in Attempt : chain[proc[p].on][t] = "unseen"
  BY <1>3 DEF RowInv, Doubtful, Row, Attempt
<1>6. RowInv(proc[p].on, new)
  BY <1>3, <1>5 DEF RowInv, Doubtful, Row, Attempt
<1>7. QED
  BY <1>1, <1>3, <1>4, <1>5, <1>6, SaveInv DEF Row

LEMMA RetryPreparationInv ==
  ASSUME IInv, NEW p \in Processor, RetryPreparation(p)
  PROVE  IInv'
<1> DEFINE r == row[proc[p].on]
           new == [r EXCEPT !.status = "requested", !.code = "node_unavailable"]
<1>1. Save(p, "retry", r.status = "preparing", new)
  BY DEF RetryPreparation
<1>2. proc[p].pc = "save" /\ proc[p].write = "retry"
  BY <1>1 DEF Save
<1>3. /\ proc[p].on \in Funding /\ proc[p].copy = r /\ r \in Row
      /\ r.status \in {"preparing", "signed", "broadcast", "unknown"}
      /\ RowInv(proc[p].on, r)
  BY <1>2 DEF IInv, CopyIsRow, UnderWay, RowsInv, TypeOK
<1>4. r.status = "preparing"
  BY <1>2, <1>3 DEF IInv, WriteAllowed
<1>5. new \in Row
  BY <1>3 DEF Row, Status, Processable, FailureCode
<1>6. RowInv(proc[p].on, new)
  BY <1>3, <1>4 DEF RowInv, Doubtful, Row, Terminal
<1>7. QED
  BY <1>1, <1>3, <1>4, <1>5, <1>6, SaveInv DEF Row, Terminal

LEMMA MarkBroadcastInv ==
  ASSUME IInv, NEW p \in Processor, MarkBroadcast(p)
  PROVE  IInv'
<1> DEFINE r == row[proc[p].on]
           new == Sent(r)
<1>1. Save(p, "broadcast", r.status \in {"signed", "unknown"}, new)
  BY DEF MarkBroadcast
<1>2. proc[p].pc = "save" /\ proc[p].write = "broadcast"
  BY <1>1 DEF Save
<1>3. /\ proc[p].on \in Funding /\ proc[p].copy = r /\ r \in Row
      /\ r.status \in {"preparing", "signed", "broadcast", "unknown"}
      /\ RowInv(proc[p].on, r)
  BY <1>2 DEF IInv, CopyIsRow, UnderWay, RowsInv, TypeOK
<1>4. r.status \in {"signed", "unknown"} /\ r.txid # 0
  BY <1>2, <1>3 DEF IInv, WriteAllowed
<1>5. new \in Row
  BY <1>3 DEF Sent, Row, Status, Processable, FailureCode
<1>6. RowInv(proc[p].on, new)
  BY <1>3, <1>4 DEF RowInv, Doubtful, Row, Terminal, Sent
<1>7. QED
  BY <1>1, <1>3, <1>4, <1>5, <1>6, SaveInv DEF Sent, Row, Terminal

LEMMA MarkUnknownInv ==
  ASSUME IInv, NEW p \in Processor, MarkUnknown(p)
  PROVE  IInv'
<1> DEFINE r == row[proc[p].on]
           new == [r EXCEPT !.status = "unknown", !.code = "broadcast_outcome_unknown"]
<1>1. Save(p, "unknown", r.status \notin Terminal, new)
  BY DEF MarkUnknown
<1>2. proc[p].pc = "save" /\ proc[p].write = "unknown"
  BY <1>1 DEF Save
<1>3. /\ proc[p].on \in Funding /\ proc[p].copy = r /\ r \in Row
      /\ r.status \in {"preparing", "signed", "broadcast", "unknown"}
      /\ RowInv(proc[p].on, r)
  BY <1>2 DEF IInv, CopyIsRow, UnderWay, RowsInv, TypeOK
<1>4. new \in Row
  BY <1>3 DEF Row, Status, Processable, FailureCode
<1>5. RowInv(proc[p].on, new)
  BY <1>3 DEF RowInv, Doubtful, Row, Terminal
<1>6. QED
  BY <1>1, <1>3, <1>4, <1>5, SaveInv DEF Row, Terminal

LEMMA MarkConfirmedInv ==
  ASSUME IInv, NEW p \in Processor, MarkConfirmed(p)
  PROVE  IInv'
<1> DEFINE r == row[proc[p].on]
           new == [r EXCEPT !.status = "confirmed", !.code = "none", !.payload = FALSE]
<1>1. Save(p, "confirmed", TRUE, new)
  BY DEF MarkConfirmed
<1>2. proc[p].pc = "save" /\ proc[p].write = "confirmed"
  BY <1>1 DEF Save
<1>3. /\ proc[p].on \in Funding /\ proc[p].copy = r /\ r \in Row
      /\ r.status \in {"preparing", "signed", "broadcast", "unknown"}
      /\ RowInv(proc[p].on, r)
  BY <1>2 DEF IInv, CopyIsRow, UnderWay, RowsInv, TypeOK
<1>4. r.txid # 0 /\ chain[proc[p].on][r.txid] = "succeeded"
  BY <1>2, <1>3 DEF IInv, WriteAllowed
<1>5. new \in Row
  BY <1>3 DEF Row, Status, Terminal, FailureCode
<1>6. RowInv(proc[p].on, new)
  BY <1>3, <1>4 DEF RowInv, Doubtful, Row, Terminal
<1>7. QED
  BY <1>1, <1>3, <1>4, <1>5, <1>6, SaveInv DEF Row, Terminal

LEMMA MarkCheckedInv ==
  ASSUME IInv, NEW p \in Processor, MarkChecked(p)
  PROVE  IInv'
<1> DEFINE r == row[proc[p].on]
           late == r.status = "broadcast" /\ r.sentAt /\ proc[p].on \in overdue
           new == [r EXCEPT !.status = IF late THEN "unknown" ELSE @,
                            !.code = IF late THEN "confirmation_delayed" ELSE @]
<1>1. Save(p, "checked", TRUE, new)
  BY DEF MarkChecked
<1>2. proc[p].pc = "save" /\ proc[p].write = "checked"
  BY <1>1 DEF Save
<1>3. /\ proc[p].on \in Funding /\ proc[p].copy = r /\ r \in Row
      /\ r.status \in {"preparing", "signed", "broadcast", "unknown"}
      /\ RowInv(proc[p].on, r)
  BY <1>2 DEF IInv, CopyIsRow, UnderWay, RowsInv, TypeOK
<1>4. r.status \in {"broadcast", "unknown"}
  BY <1>2, <1>3 DEF IInv, WriteAllowed
<1>5. CASE late
  <2>1. new = [r EXCEPT !.status = "unknown", !.code = "confirmation_delayed"]
    BY <1>3, <1>5 DEF Row
  <2>2. new \in Row
    BY <1>3, <2>1 DEF Row, Status, Processable, FailureCode
  <2>3. RowInv(proc[p].on, new)
    BY <1>3, <1>4, <2>1 DEF RowInv, Doubtful, Row, Terminal
  <2>4. new.status = "unknown"
    BY <1>3, <2>1 DEF Row
  <2>5. QED
    BY <1>1, <2>2, <2>3, <2>4, SaveInv
<1>6. CASE ~late
  <2>1. new = r
    BY <1>3, <1>6 DEF Row
  <2>2. QED
    BY <1>1, <1>3, <1>4, <2>1, SaveInv
<1>7. QED
  BY <1>5, <1>6

LEMMA MarkFailedInv ==
  ASSUME IInv, NEW p \in Processor, MarkFailed(p)
  PROVE  IInv'
<1> DEFINE f == proc[p].on
           r == row[f]
           new(code) == [r EXCEPT !.status = "failed", !.code = code, !.payload = FALSE]
<1>1. PICK code \in FailureCode \ {"none"} : Save(p, code, r.status # "confirmed", new(code))
  BY DEF MarkFailed
<1>2. proc[p].pc = "save" /\ proc[p].write = code
  BY <1>1 DEF Save
<1>3. /\ f \in Funding /\ proc[p].copy = r /\ r \in Row /\ RowInv(f, r)
      /\ r.status \in {"preparing", "signed", "broadcast", "unknown"}
  BY <1>2 DEF IInv, CopyIsRow, UnderWay, RowsInv, TypeOK
<1>4. \/ code = "transfer_rejected" /\ r.status = "preparing"
      \/ code = "broadcast_rejected" /\ (crashes = 0 => chain[f][r.txid] = "unseen")
      \/ code = "different_txid"
      \/ code = "execution_failed" /\ chain[f][r.txid] = "reverted"
      \/ code = "transaction_id_missing" /\ r.txid = 0
  BY <1>2, <1>3 DEF IInv, WriteAllowed, FailureCode
<1>5. ~Doubtful(code) => \A t \in Attempt : chain[f][t] \in {"unseen", "reverted"}
  BY <1>3, <1>4 DEF RowInv, Doubtful, Row, Attempt
<1>6. new(code) \in Row
  BY <1>3 DEF Row, Status, Terminal
<1>7. RowInv(f, new(code))
  BY <1>3, <1>4, <1>5 DEF RowInv, Doubtful, Row, Terminal
<1>8. QED
  BY <1>1, <1>3, <1>6, <1>7, SaveInv DEF Row

LEMMA BroadcastInv ==
  ASSUME IInv, NEW p \in Processor, Broadcast(p)
  PROVE  IInv'
<1> DEFINE f == proc[p].on
           c == proc[p].copy
<1> USE DEF IInv
<1>1. /\ \/ proc[p].pc = "work" /\ c.status = "signed"
         \/ proc[p].pc = "send"
      /\ UNCHANGED <<row, older, expired, overdue, lock, crashes>>
  BY DEF Broadcast
<1>2. /\ f \in Funding /\ c = row[f] /\ c \in Row /\ RowInv(f, c)
      /\ c.status \in {"signed", "unknown"} /\ c.txid # 0
  BY <1>1 DEF CopyIsRow, WriteAllowed, UnderWay, RowsInv, RowInv, Doubtful, TypeOK
<1>3. c.txid \in Attempt /\ c.payload
  BY <1>2 DEF RowInv, Doubtful, Row, Attempt, Terminal
<1>4. PICK w \in {"broadcast", "unknown", Refused(c), Misnamed(c)} :
        /\ Then(p, w)
        /\ \/ Accepted(f, c.txid) /\ w \in {"broadcast", Misnamed(c), "unknown"}
           \/ UNCHANGED chain /\ w \in {Refused(c), Misnamed(c), "unknown"}
  BY <1>2, <1>3 DEF Broadcast
<1>5. /\ w \in {"broadcast", "unknown", "broadcast_rejected", "different_txid"}
      /\ w \in {"broadcast_rejected", "different_txid"} => c.status = "signed"
      /\ w = "broadcast_rejected" => UNCHANGED chain
  BY <1>2, <1>4 DEF Refused, Misnamed
<1>6. /\ proc' \in [Processor -> Process]
      /\ LockHeld' /\ CopyIsRow' /\ NoOrphanPreparation' /\ SerialTransfers'
  BY <1>1, <1>4, <1>5, ThenInv DEF Write, FailureCode
<1>7. chain' = [chain EXCEPT ![f][c.txid] = IF @ \in {"unseen", "dropped"} THEN "pooled" ELSE @]
      \/ UNCHANGED chain
  BY <1>4 DEF Accepted
<1>8. TypeOK'
  BY <1>1, <1>2, <1>3, <1>6, <1>7 DEF TypeOK, TxState, InFlight
<1>9. proc' = [proc EXCEPT ![p].pc = "save", ![p].write = w]
  BY <1>4 DEF Then
<1>10. w = "broadcast_rejected" /\ crashes = 0 => chain[f][c.txid] = "unseen"
  BY <1>1, <1>2, <1>5, OnlyOneUp DEF FirstSend, WriteAllowed
<1>11. WriteAllowed'
  <2>1. /\ proc'[p].pc = "save" /\ proc'[p].copy = c /\ proc'[p].write = w /\ proc'[p].on = f
        /\ \A q \in Processor \ {p} : proc'[q].pc = "down"
    BY <1>1, <1>9, OnlyOneUp DEF TypeOK
  <2>2. w = "broadcast_rejected" /\ crashes' = 0 => chain'[f][c.txid] = "unseen"
    BY <1>1, <1>5, <1>10
  <2>3. QED
    BY <1>2, <1>5, <2>1, <2>2 DEF WriteAllowed
<1>12. FirstSend'
  <2> SUFFICES ASSUME NEW g \in Funding, row[g].status = "signed", crashes = 0
               PROVE  \/ chain'[g][row[g].txid] = "unseen"
                      \/ /\ proc'[p].on = g /\ proc'[p].pc = "save"
                         /\ proc'[p].write \in {"broadcast", "different_txid", "unknown"}
    BY <1>1 DEF FirstSend
  <2>1. g = f
    BY <1>2 DEF SerialTransfers, UnderWay
  <2>2. proc'[p].on = f /\ proc'[p].pc = "save" /\ proc'[p].write = w
    BY <1>9 DEF TypeOK
  <2>3. CASE w = "broadcast_rejected"
    BY <1>2, <1>5, <1>10, <2>1, <2>3
  <2>4. CASE w # "broadcast_rejected"
    BY <1>5, <2>1, <2>2, <2>4
  <2>5. QED
    BY <2>3, <2>4
<1>13. RowsInv'
  BY <1>1, <1>2, <1>3, <1>7 DEF RowsInv, RowInv, Doubtful, TypeOK, Terminal
<1>14. QED
  BY <1>6, <1>8, <1>11, <1>12, <1>13

LEMMA ConfirmInv ==
  ASSUME IInv, NEW p \in Processor, Confirm(p)
  PROVE  IInv'
<1> DEFINE f == proc[p].on
           c == proc[p].copy
           Known(w) ==
             /\ w \in {"unknown", "confirmed", "execution_failed", "checked",
                       "transaction_id_missing"}
             /\ w = "transaction_id_missing" <=> c.txid = 0 /\ w # "unknown"
             /\ w = "confirmed" => chain[f][c.txid] = "succeeded"
             /\ w = "execution_failed" => chain[f][c.txid] = "reverted"
<1> USE DEF IInv
<1>1. /\ proc[p].pc = "work" /\ c.status \in {"broadcast", "unknown"}
      /\ UNCHANGED <<row, older, expired, overdue, chain, lock, crashes>>
  BY DEF Confirm
<1>2. f \in Funding /\ c = row[f] /\ c \in Row /\ RowInv(f, c)
  BY <1>1 DEF CopyIsRow, UnderWay, RowsInv, TypeOK
<1>3. \/ \E w : Known(w) /\ Then(p, w)
      \/ c.txid # 0 /\ c.status = "unknown" /\ proc' = [proc EXCEPT ![p].pc = "send"]
  BY DEF Confirm, Receipt
<1>4. \A q \in Processor \ {p} : proc[q].pc = "down"
  BY <1>1, OnlyOneUp
<1>5. RowsInv'
  BY <1>1 DEF RowsInv, RowInv, Doubtful
<1>6. ASSUME NEW w, Known(w), Then(p, w)
      PROVE  IInv'
  <2>1. /\ proc' \in [Processor -> Process]
        /\ LockHeld' /\ CopyIsRow' /\ NoOrphanPreparation' /\ SerialTransfers'
    BY <1>1, <1>6, ThenInv DEF Write, FailureCode
  <2>2. /\ proc'[p].pc = "save" /\ proc'[p].copy = c /\ proc'[p].write = w /\ proc'[p].on = f
        /\ \A q \in Processor \ {p} : proc'[q] = proc[q]
    BY <1>6 DEF Then, TypeOK
  <2>3. WriteAllowed'
    BY <1>1, <1>2, <1>4, <1>6, <2>2 DEF WriteAllowed, RowInv, Doubtful
  <2>4. FirstSend'
    BY <1>1, <1>4, <2>2 DEF FirstSend
  <2>5. TypeOK'
    BY <1>1, <2>1 DEF TypeOK
  <2>6. QED
    BY <1>5, <2>1, <2>3, <2>4, <2>5
<1>7. ASSUME c.txid # 0, c.status = "unknown", proc' = [proc EXCEPT ![p].pc = "send"]
      PROVE  IInv'
  <2>1. /\ proc'[p].pc = "send" /\ proc'[p].copy = c /\ proc'[p].on = f
        /\ \A q \in Processor \ {p} : proc'[q] = proc[q]
    BY <1>7 DEF TypeOK
  <2>2. TypeOK'
    BY <1>1, <1>7 DEF TypeOK, Process
  <2>3. LockHeld' /\ CopyIsRow' /\ WriteAllowed'
    BY <1>1, <1>4, <1>7, <2>1 DEF LockHeld, CopyIsRow, UnderWay, WriteAllowed
  <2>4. FirstSend'
    BY <1>1, <1>4, <2>1 DEF FirstSend
  <2>5. NoOrphanPreparation' /\ SerialTransfers'
    BY <1>1, <1>2, <1>4, <2>1, OnlyOneUp DEF NoOrphanPreparation, SerialTransfers, UnderWay
  <2>6. QED
    BY <1>5, <2>2, <2>3, <2>4, <2>5
<1>8. QED
  BY <1>3, <1>6, <1>7

-----------------------------------------------------------------------------
(* The theorems.                                                           *)

\* Every step, and a step that changes nothing, keeps the invariant.
LEMMA NextInv == IInv /\ [Next]_vars => IInv'
<1> SUFFICES ASSUME IInv, [Next]_vars PROVE IInv'
  OBVIOUS
<1>1. CASE UNCHANGED vars
  BY <1>1 DEF vars, IInv, TypeOK, LockHeld, CopyIsRow, WriteAllowed, FirstSend, RowsInv,
             RowInv, Doubtful, NoOrphanPreparation, SerialTransfers, UnderWay
<1>2. ASSUME NEW p \in Processor, Start(p) \/ Crash(p) \/ DatabaseError(p) PROVE IInv'
  BY <1>2, StartInv, CrashInv, DatabaseErrorInv
<1>3. ASSUME NEW p \in Processor, Work(p) PROVE IInv'
  BY <1>3, ClaimInv, PrepareInv, BroadcastInv, ConfirmInv, MarkPreparedInv, RetryPreparationInv,
     MarkBroadcastInv, MarkUnknownInv, MarkCheckedInv, MarkConfirmedInv, MarkFailedInv DEF Work
<1>4. ASSUME NEW f \in Funding, Create(f) \/ Expire(f) \/ PassTimeout(f) PROVE IInv'
  BY <1>4, CreateInv, ExpireInv, PassTimeoutInv
<1>5. ASSUME NEW f \in Funding, NEW t \in Attempt,
             Include(f, t) \/ Solidify(f, t) \/ Forget(f, t)
      PROVE  IInv'
  BY <1>5, IncludeInv, SolidifyInv, ForgetInv
<1>6. QED
  BY <1>1, <1>2, <1>3, <1>4, <1>5 DEF Next

\* The invariant holds of every reachable state.
THEOREM Invariance == Spec => []IInv
BY InitInv, NextInv, PTL DEF Spec

\* Every variable keeps its type.
THEOREM TypeCorrect == Spec => []TypeOK
<1>1. IInv => TypeOK
  BY DEF IInv
<1>2. QED
  BY <1>1, Invariance, PTL

\* No request is ever represented by two transactions on the network, whatever is retried,
\* crashes or is lost: the master wallet cannot pay it twice.
THEOREM OneTransferHolds == Spec => []OneTransfer
<1>1. IInv => OneTransfer
  BY DEF IInv, RowsInv, RowInv, Doubtful, OneTransfer
<1>2. QED
  BY <1>1, Invariance, PTL

\* A request shown as confirmed was paid.
THEOREM ConfirmedIsPaid == Spec => []ConfirmedWasPaid
<1>1. IInv => ConfirmedWasPaid
  BY DEF IInv, RowsInv, RowInv, Doubtful, ConfirmedWasPaid, TypeOK, Row, Attempt
<1>2. QED
  BY <1>1, Invariance, PTL

\* A request shown as failed is not paid, unless the refusal of a send that a crash had
\* interrupted failed it, or an answer of the node that named another transaction.
THEOREM FailedStaysUnpaid == Spec => []FailedIsUnpaid
<1>1. IInv => FailedIsUnpaid
  BY DEF IInv, RowsInv, RowInv, Doubtful, FailedIsUnpaid
<1>2. QED
  BY <1>1, Invariance, PTL

\* A preparing row is in the hands of the process with the lock, or waits for the next start.
THEOREM PreparationOwned == Spec => []NoOrphanPreparation
<1>1. IInv => NoOrphanPreparation
  BY DEF IInv
<1>2. QED
  BY <1>1, Invariance, PTL

\* No two transfers are under way at a time.
THEOREM SerialProcessing == Spec => []SerialTransfers
<1>1. IInv => SerialTransfers
  BY DEF IInv
<1>2. QED
  BY <1>1, Invariance, PTL

\* What is needed to send a transfer again is kept as long as it may be sent.
THEOREM PayloadHeld == Spec => []PayloadKept
<1>1. IInv => PayloadKept
  BY DEF IInv, RowsInv, RowInv, Doubtful, PayloadKept
<1>2. QED
  BY <1>1, Invariance, PTL

-----------------------------------------------------------------------------
(* The processor implements the promise: of all its steps only the API's   *)
(* Create, a solid block and the two last writes show in FundingPromise.   *)

\* A step that changes neither what owners were told nor what was executed is a stutter.
LEMMA PromiseStutter ==
  ASSUME \A f \in Funding : Outcome(row'[f]) = Outcome(row[f]),
         \A f \in Funding, t \in Attempt :
           chain'[f][t] = "succeeded" <=> chain[f][t] = "succeeded"
  PROVE  UNCHANGED Promise!pvars
BY DEF Promise!pvars

\* Starting recovers rows, and claiming one marks it: neither shows.
LEMMA ClaimHidden ==
  ASSUME IInv, NEW p \in Processor, Start(p) \/ Claim(p)
  PROVE  UNCHANGED Promise!pvars
<1>1. CASE Start(p)
  <2>1. \A f \in Funding : row[f] \in Row /\ row'[f] = Recovered(row[f])
    BY <1>1 DEF Start, IInv, TypeOK
  <2>2. \A f \in Funding : Outcome(row'[f]) = Outcome(row[f])
    BY <2>1, RecoveredRow DEF Outcome, Terminal
  <2>3. QED
    BY <1>1, <2>2, PromiseStutter DEF Start
<1>2. CASE Claim(p)
  <2>1. PICK f \in Funding : ClaimedFirst(f) /\ row' = [row EXCEPT ![f] = Claimed(@)]
    BY <1>2 DEF Claim
  <2>2. row[f].status \in Processable /\ row[f] \in Row
    BY <2>1 DEF ClaimedFirst, IInv, TypeOK
  <2>3. Outcome(Claimed(row[f])) = Outcome(row[f])
    BY <2>2 DEF Claimed, Outcome, Processable, Terminal, Row
  <2>4. \A g \in Funding : row'[g] = IF g = f THEN Claimed(row[f]) ELSE row[g]
    BY <2>1 DEF IInv, TypeOK
  <2>5. QED
    BY <1>2, <2>3, <2>4, PromiseStutter DEF Claim
<1>3. QED
  BY <1>1, <1>2

\* Nothing the gateway is asked for, and no crash, shows by itself.
LEMMA GatewayHidden ==
  ASSUME IInv, NEW p \in Processor,
         Crash(p) \/ Prepare(p) \/ Confirm(p) \/ DatabaseError(p) \/ Broadcast(p)
  PROVE  UNCHANGED Promise!pvars
<1>1. UNCHANGED row
  BY DEF Crash, Prepare, Confirm, DatabaseError, Broadcast
<1>2. CASE Broadcast(p)
  <2>1. \/ UNCHANGED chain
        \/ Accepted(proc[p].on, proc[p].copy.txid)
    BY <1>2 DEF Broadcast
  <2>2. \A f \in Funding, t \in Attempt :
          chain'[f][t] = "succeeded" <=> chain[f][t] = "succeeded"
    BY <2>1 DEF Accepted, IInv, TypeOK
  <2>3. QED
    BY <1>1, <2>2, PromiseStutter
<1>3. CASE Crash(p) \/ Prepare(p) \/ Confirm(p) \/ DatabaseError(p)
  BY <1>1, <1>3, PromiseStutter DEF Crash, Prepare, Confirm, DatabaseError
<1>4. QED
  BY <1>2, <1>3

\* A write of a status in which the request is still open does not show.
LEMMA OpenWrite ==
  ASSUME IInv, NEW p \in Processor, NEW w, NEW when, NEW new, Save(p, w, when, new),
         new.status \in {"signed", "requested", "broadcast", "unknown"}
  PROVE  UNCHANGED Promise!pvars
<1> DEFINE f == proc[p].on
<1>1. f \in Funding /\ Outcome(row[f]) = "open"
  BY DEF Save, IInv, CopyIsRow, UnderWay, TypeOK, Outcome, Terminal
<1>2. Outcome(new) = "open"
  BY DEF Outcome, Terminal
<1>3. /\ UNCHANGED chain
      /\ \A g \in Funding : row'[g] = IF when /\ g = f THEN new ELSE row[g]
  BY <1>1 DEF Save, dbvars, IInv, TypeOK
<1>4. QED
  BY <1>1, <1>2, <1>3, PromiseStutter

\* The writes before the last one do not show.
LEMMA SaveHidden ==
  ASSUME IInv, NEW p \in Processor,
         MarkPrepared(p) \/ RetryPreparation(p) \/ MarkBroadcast(p) \/ MarkUnknown(p)
           \/ MarkChecked(p)
  PROVE  UNCHANGED Promise!pvars
<1> DEFINE r == row[proc[p].on]
<1>1. proc[p].pc = "save"
  BY DEF MarkPrepared, RetryPreparation, MarkBroadcast, MarkUnknown, MarkChecked, Save
<1>2. r \in Row /\ proc[p].copy = r
  BY <1>1 DEF IInv, CopyIsRow, UnderWay, TypeOK
<1>3. CASE MarkPrepared(p)
  <2> DEFINE new == [r EXCEPT !.status = "signed", !.txid = proc[p].copy.attempts,
                              !.payload = TRUE]
  <2>1. new.status = "signed"
    BY <1>2 DEF Row
  <2>2. Save(p, "prepared", r.status = "preparing", new)
    BY <1>3 DEF MarkPrepared
  <2>3. QED
    BY <2>1, <2>2, OpenWrite
<1>4. CASE RetryPreparation(p)
  <2> DEFINE new == [r EXCEPT !.status = "requested", !.code = "node_unavailable"]
  <2>1. new.status = "requested"
    BY <1>2 DEF Row
  <2>2. Save(p, "retry", r.status = "preparing", new)
    BY <1>4 DEF RetryPreparation
  <2>3. QED
    BY <2>1, <2>2, OpenWrite
<1>5. CASE MarkBroadcast(p)
  <2>1. Sent(r).status = "broadcast"
    BY <1>2 DEF Row, Sent
  <2>2. Save(p, "broadcast", r.status \in {"signed", "unknown"}, Sent(r))
    BY <1>5 DEF MarkBroadcast
  <2>3. QED
    BY <2>1, <2>2, OpenWrite
<1>6. CASE MarkUnknown(p)
  <2> DEFINE new == [r EXCEPT !.status = "unknown", !.code = "broadcast_outcome_unknown"]
  <2>1. new.status = "unknown"
    BY <1>2 DEF Row
  <2>2. Save(p, "unknown", r.status \notin Terminal, new)
    BY <1>6 DEF MarkUnknown
  <2>3. QED
    BY <2>1, <2>2, OpenWrite
<1>7. CASE MarkChecked(p)
  <2> DEFINE late == r.status = "broadcast" /\ r.sentAt /\ proc[p].on \in overdue
             new == [r EXCEPT !.status = IF late THEN "unknown" ELSE @,
                              !.code = IF late THEN "confirmation_delayed" ELSE @]
  <2>1. Save(p, "checked", TRUE, new)
    BY <1>7 DEF MarkChecked
  <2>2. r.status \in {"broadcast", "unknown"}
    <3>1. proc[p].write = "checked"
      BY <2>1 DEF Save
    <3>2. r.status \in {"preparing", "signed", "broadcast", "unknown"}
      BY <1>1, <1>2 DEF IInv, CopyIsRow, UnderWay
    <3>3. QED
      BY <1>1, <1>2, <3>1, <3>2 DEF IInv, WriteAllowed
  <2>3. new.status \in {"broadcast", "unknown"}
    BY <1>2, <2>2 DEF Row
  <2>4. QED
    BY <2>1, <2>3, OpenWrite
<1>8. QED
  BY <1>3, <1>4, <1>5, <1>6, <1>7

\* The last write of a transfer reports what the chain did, or a failure.
LEMMA SaveShown ==
  ASSUME IInv, NEW p \in Processor, MarkConfirmed(p) \/ MarkFailed(p)
  PROVE  \E f \in Funding : Promise!Confirm(f) \/ Promise!Refuse(f)
<1> DEFINE f == proc[p].on
           r == row[f]
<1>1. proc[p].pc = "save"
  BY DEF MarkConfirmed, MarkFailed, Save
<1>2. f \in Funding /\ r \in Row /\ proc[p].copy = r /\ Outcome(r) = "open"
      /\ r.status \notin Terminal
  BY <1>1 DEF IInv, CopyIsRow, UnderWay, TypeOK, Outcome, Terminal
<1>3. CASE MarkConfirmed(p)
  <2>1. /\ proc[p].write = "confirmed" /\ UNCHANGED chain
        /\ row' = [row EXCEPT ![f] =
                     [r EXCEPT !.status = "confirmed", !.code = "none", !.payload = FALSE]]
    BY <1>3 DEF MarkConfirmed, Save
  <2>2. \A g \in Funding : Outcome(row'[g]) = IF g = f THEN "confirmed" ELSE Outcome(row[g])
    BY <1>2, <2>1 DEF IInv, TypeOK, Outcome, Terminal, Row
  <2>3. {t \in Attempt : chain[f][t] = "succeeded"} # {}
    BY <1>1, <1>2, <2>1 DEF IInv, WriteAllowed, Row, Attempt
  <2>4. Promise!Confirm(f)
    BY <1>2, <2>1, <2>2, <2>3 DEF Promise!Confirm
  <2>5. QED
    BY <1>2, <2>4
<1>4. CASE MarkFailed(p)
  <2>1. PICK code \in FailureCode \ {"none"} :
          Save(p, code, r.status # "confirmed",
               [r EXCEPT !.status = "failed", !.code = code, !.payload = FALSE])
    BY <1>4 DEF MarkFailed
  <2>2. /\ UNCHANGED chain
        /\ row' = [row EXCEPT ![f] =
                     [r EXCEPT !.status = "failed", !.code = code, !.payload = FALSE]]
    BY <1>2, <2>1 DEF Save, Terminal
  <2>3. \A g \in Funding : Outcome(row'[g]) = IF g = f THEN "failed" ELSE Outcome(row[g])
    BY <1>2, <2>2 DEF IInv, TypeOK, Outcome, Terminal, Row
  <2>4. Promise!Refuse(f)
    BY <1>2, <2>2, <2>3 DEF Promise!Refuse
  <2>5. QED
    BY <1>2, <2>4
<1>5. QED
  BY <1>3, <1>4

\* An admitted request is open; the solid block of its transaction pays it, once.
LEMMA CreateShown ==
  ASSUME IInv, NEW f \in Funding, Create(f)
  PROVE  Promise!Open(f)
<1>1. row[f].status = "absent" /\ row' = [row EXCEPT ![f].status = "requested"]
      /\ UNCHANGED chain
  BY DEF Create
<1>2. \A g \in Funding : Outcome(row'[g]) = IF g = f THEN "open" ELSE Outcome(row[g])
  BY <1>1 DEF IInv, TypeOK, Outcome, Terminal, Row
<1>3. Outcome(row[f]) = "none"
  BY <1>1 DEF Outcome, Terminal
<1>4. QED
  BY <1>1, <1>2, <1>3 DEF Promise!Open

LEMMA SolidifyShown ==
  ASSUME IInv, NEW f \in Funding, NEW t \in Attempt, Solidify(f, t)
  PROVE  Promise!Pay(f) \/ UNCHANGED Promise!pvars
<1>1. PICK r \in Executed : chain' = [chain EXCEPT ![f][t] = r]
  BY DEF Solidify
<1>2. chain[f][t] = "included" /\ UNCHANGED row
  BY DEF Solidify
<1>3. \A g \in Funding, u \in Attempt :
        chain'[g][u] = IF g = f /\ u = t THEN r ELSE chain[g][u]
  BY <1>1 DEF IInv, TypeOK
<1>4. CASE r = "succeeded"
  <2>1. \A u \in Attempt : chain[f][u] = "succeeded" => FALSE
    BY <1>2 DEF IInv, RowsInv, RowInv, Doubtful
  <2>2. row[f].status # "absent"
    BY <1>2 DEF IInv, RowsInv, RowInv, Doubtful, Attempt
  <2>3. Outcome(row[f]) # "none"
    BY <2>2 DEF Outcome, Terminal
  <2>4. \A g \in Funding : {u \in Attempt : chain'[g][u] = "succeeded"} =
                           IF g = f THEN {t} ELSE {u \in Attempt : chain[g][u] = "succeeded"}
    BY <1>3, <1>4, <2>1
  <2>5. Promise!Pay(f)
    BY <1>2, <2>1, <2>3, <2>4 DEF Promise!Pay
  <2>6. QED
    BY <2>5
<1>5. CASE r # "succeeded"
  BY <1>2, <1>3, <1>5, PromiseStutter
<1>6. QED
  BY <1>4, <1>5

\* Every step of the processor is a step of the promise or a stutter.
LEMMA PromiseStep == IInv /\ [Next]_vars => [Promise!PromiseNext]_(Promise!pvars)
<1> SUFFICES ASSUME IInv, [Next]_vars PROVE [Promise!PromiseNext]_(Promise!pvars)
  OBVIOUS
<1>1. CASE UNCHANGED vars
  BY <1>1, PromiseStutter DEF vars
<1>2. ASSUME NEW p \in Processor, Start(p) \/ Crash(p) \/ Work(p) \/ DatabaseError(p)
      PROVE  [Promise!PromiseNext]_(Promise!pvars)
  BY <1>2, ClaimHidden, GatewayHidden, SaveHidden, SaveShown DEF Work, Promise!PromiseNext
<1>3. ASSUME NEW f \in Funding, Create(f) \/ Expire(f) \/ PassTimeout(f)
      PROVE  [Promise!PromiseNext]_(Promise!pvars)
  <2>1. CASE Create(f)
    BY <2>1, CreateShown DEF Promise!PromiseNext
  <2>2. CASE Expire(f) \/ PassTimeout(f)
    BY <2>2, PromiseStutter DEF Expire, PassTimeout
  <2>3. QED
    BY <1>3, <2>1, <2>2
<1>4. ASSUME NEW f \in Funding, NEW t \in Attempt,
             Include(f, t) \/ Solidify(f, t) \/ Forget(f, t)
      PROVE  [Promise!PromiseNext]_(Promise!pvars)
  <2>1. CASE Solidify(f, t)
    BY <2>1, SolidifyShown DEF Promise!PromiseNext
  <2>2. CASE Include(f, t) \/ Forget(f, t)
    <3>1. PICK s \in {"included", "dropped"} :
            /\ chain[f][t] = "pooled"
            /\ chain' = [chain EXCEPT ![f][t] = s]
            /\ UNCHANGED row
      BY <2>2 DEF Include, Forget
    <3>2. \A g \in Funding, u \in Attempt :
            chain'[g][u] = "succeeded" <=> chain[g][u] = "succeeded"
      BY <3>1 DEF IInv, TypeOK
    <3>3. QED
      BY <3>1, <3>2, PromiseStutter
  <2>3. QED
    BY <1>4, <2>1, <2>2
<1>5. QED
  BY <1>1, <1>2, <1>3, <1>4 DEF Next

\* The processor, with its crashes, lost answers and repeated sends, keeps the promise of
\* FundingPromise: one payment at most, and success reported only after it.
THEOREM PromiseKept == Spec => KeepsPromise
<1>1. ASSUME Init PROVE Promise!PromiseInit
  <2>1. \A f \in Funding : Outcome(row[f]) = "none"
    BY <1>1 DEF Init, NoRow, Outcome, Terminal
  <2>2. \A f \in Funding : {t \in Attempt : chain[f][t] = "succeeded"} = {}
    BY <1>1 DEF Init
  <2>3. QED
    BY <2>1, <2>2 DEF Promise!PromiseInit
<1>2. QED
  BY <1>1, Invariance, PromiseStep, PTL DEF Spec, KeepsPromise, Promise!PromiseSpec

\* What an owner was told at the end is never taken back: no step of the promise leaves
\* "confirmed" or "failed".
THEOREM SettledStays == Spec => SettledForGood
<1>1. ASSUME IInv, [Next]_vars, NEW f \in Funding, row[f].status \in Terminal
      PROVE  row'[f].status = row[f].status
  <2>1. Outcome(row[f]) = row[f].status /\ row[f].status \in {"confirmed", "failed"}
    BY <1>1 DEF Outcome, Terminal
  <2>2. Outcome(row'[f]) = Outcome(row[f])
    <3>1. [Promise!PromiseNext]_(Promise!pvars)
      BY <1>1, PromiseStep
    <3>2. QED
      BY <2>1, <3>1 DEF Promise!PromiseNext, Promise!pvars, Promise!Open, Promise!Pay,
                        Promise!Confirm, Promise!Refuse
  <2>3. QED
    BY <2>1, <2>2 DEF Outcome, Terminal
<1>2. IInv /\ [Next]_vars =>
        [\A f \in Funding : row[f].status \in Terminal => row'[f].status = row[f].status]_row
  BY <1>1
<1>3. QED
  BY <1>2, Invariance, PTL DEF Spec, SettledForGood

=============================================================================
