--------------------------- MODULE MCIssueFiling ---------------------------
(* Instances of IssueFiling for TLC. *)
EXTENDS IssueFiling

\* Passes w1 and w2 in one process, w3 in another.
SharedProcess == [w \in Workers |-> IF w \in {"w1", "w2"} THEN "p1" ELSE "p2"]

\* One pass per process.
OwnProcess ==
    [w \in Workers |-> CASE w = "w1" -> "p1" [] w = "w2" -> "p2" [] OTHER -> "p3"]
=============================================================================
