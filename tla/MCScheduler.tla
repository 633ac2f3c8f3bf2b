---------------------------- MODULE MCScheduler -----------------------------
(* GenerationScheduler for TLC. *)
EXTENDS GenerationScheduler, FiniteSets

\* The second job is followed until a worker takes its first range, beside a second one.
UntilTaken ==
  /\ Cardinality({i \in DOMAIN shards : shards[i].job = 2}) <= 1
  /\ \A g \in Gpu : worker[g].pc = "busy" => shards[worker[g].shard].job = 1

\* The scheduler ends at most once, and not before a range was given.
OneEnd ==
  /\ faults.kills + faults.stops <= 1
  /\ faults.kills + faults.stops > 0 => shards # <<>>
=============================================================================
