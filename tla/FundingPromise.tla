--------------------------- MODULE FundingPromise ---------------------------
(***************************************************************************)
(* What wallet funding promises, with no processor, database or node in    *)
(* it.  A funding request is opened once, is settled at most once, and     *)
(* whatever crashes, times out or is sent again, at most one transfer is   *)
(* ever executed for it.  "confirmed" is only said of an executed          *)
(* transfer.  A refusal promises nothing about the transfer: see the       *)
(* README for the two ways a refused request can still be paid.            *)
(***************************************************************************)
CONSTANTS
  Funding,   \* funding requests
  Payment    \* the signed transactions a request may come to have

VARIABLES
  outcome,   \* what the request's row tells its owner
  paid       \* the transactions executed on the chain for the request

pvars == <<outcome, paid>>

PromiseInit ==
  /\ outcome = [f \in Funding |-> "none"]
  /\ paid = [f \in Funding |-> {}]

\* A request is admitted.
Open(f) ==
  /\ outcome[f] = "none"
  /\ outcome' = [outcome EXCEPT ![f] = "open"]
  /\ UNCHANGED paid

\* The chain executes the one transfer of an admitted request.
Pay(f) ==
  /\ outcome[f] # "none"
  /\ paid[f] = {}
  /\ \E t \in Payment : paid' = [paid EXCEPT ![f] = {t}]
  /\ UNCHANGED outcome

\* Success is reported, after the transfer.
Confirm(f) ==
  /\ outcome[f] = "open"
  /\ paid[f] # {}
  /\ outcome' = [outcome EXCEPT ![f] = "confirmed"]
  /\ UNCHANGED paid

\* Failure is reported.
Refuse(f) ==
  /\ outcome[f] = "open"
  /\ outcome' = [outcome EXCEPT ![f] = "failed"]
  /\ UNCHANGED paid

PromiseNext ==
  \E f \in Funding : Open(f) \/ Pay(f) \/ Confirm(f) \/ Refuse(f)

PromiseSpec == PromiseInit /\ [][PromiseNext]_pvars
=============================================================================
