------------------------- MODULE MCEvidenceClosure -------------------------
(* Instances of EvidenceClosure for TLC. *)
EXTENDS EvidenceClosure

\* One agent runs scans, the other serves every kind of request.
ScansAndRequests == [a \in Agents |-> IF a = "s1" THEN {"scan"} ELSE AgentKinds \ {"scan"}]
=============================================================================
