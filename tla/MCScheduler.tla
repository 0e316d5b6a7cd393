---------------------------- MODULE MCScheduler ----------------------------
(* Instances of Scheduler for TLC. *)
EXTENDS Scheduler, TLC

CONSTANT Quick  \* the repository that fires twice as often as the others

Mixed == [r \in Repos |-> IF r = Quick THEN 1 ELSE 2]

\* Tasks, and the repositories that fire alike, can change places.
Alike == Permutations(Tasks) \union Permutations(Repos \ {Quick})
=============================================================================
