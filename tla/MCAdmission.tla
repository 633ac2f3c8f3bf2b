----------------------------- MODULE MCAdmission ----------------------------
(* FundingAdmission for TLC: requests, jobs and keys are interchangeable.  *)
EXTENDS FundingAdmission, TLC

Symmetry == Permutations(Request) \cup Permutations(Job) \cup Permutations(Key)
=============================================================================
