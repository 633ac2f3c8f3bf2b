------------------------------ MODULE MCFunding -----------------------------
(* FundingProcessor for TLC: requests and processes are interchangeable.  *)
EXTENDS FundingProcessor, TLC

Symmetry == Permutations(Funding) \cup Permutations(Processor)
=============================================================================
