---------------------------- MODULE MCRunnerJobs ----------------------------
(* Instances of RunnerJobs for TLC. *)
EXTENDS RunnerJobs, TLC

\* The kinds whose scan is sure to end, and an image scan.
FullScans == [j \in Jobs |->
    CASE j = "j1" -> "auto" [] j = "j2" -> "strict" [] OTHER -> "container"]

\* A full scan that core may take back, a request of the API, and an image scan.
WithTyped == [j \in Jobs |->
    CASE j = "j1" -> "auto" [] j = "j2" -> "typed" [] OTHER -> "container"]

\* Workers can change places.
Hands == Permutations(Workers)
=============================================================================
