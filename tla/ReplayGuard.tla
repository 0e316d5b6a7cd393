---------------------------- MODULE ReplayGuard ----------------------------
(***************************************************************************)
(* What the replay protection of webhook deliveries promises               *)
(* (store/webhook_deliveries.go): among the requests that carry the same   *)
(* delivery, one at most may dispatch an analysis for as long as the       *)
(* delivery is remembered.                                                 *)
(***************************************************************************)
CONSTANTS
    Keys,       \* identified deliveries
    NoKey,      \* the key of a request that has claimed nothing
    Requests    \* requests, each for one delivery

VARIABLES
    remembered, \* deliveries on record
    forgotten,  \* deliveries that were taken off the record (history)
    claimed,    \* the delivery each request has claimed
    stage       \* what became of each claim

vars == <<remembered, forgotten, claimed, stage>>

Init ==
    /\ remembered = {}
    /\ forgotten = {}
    /\ claimed = [r \in Requests |-> NoKey]
    /\ stage = [r \in Requests |-> "none"]

Claim(r, k) ==
    /\ stage[r] = "none" /\ k \notin remembered
    /\ remembered' = remembered \union {k}
    /\ claimed' = [claimed EXCEPT ![r] = k]
    /\ stage' = [stage EXCEPT ![r] = "claimed"]
    /\ UNCHANGED forgotten

Launch(r) ==
    /\ stage[r] = "claimed"
    /\ stage' = [stage EXCEPT ![r] = "launched"]
    /\ UNCHANGED <<remembered, forgotten, claimed>>

\* The process dies with claims that are not launched.
Drop ==
    /\ stage' = [r \in Requests |->
                    IF stage[r] = "claimed" THEN "dropped" ELSE stage[r]]
    /\ UNCHANGED <<remembered, forgotten, claimed>>

Forget(K) ==
    /\ remembered' = remembered \ K
    /\ forgotten' = forgotten \union K
    /\ UNCHANGED <<claimed, stage>>

Next ==
    \/ \E r \in Requests : Launch(r) \/ \E k \in Keys : Claim(r, k)
    \/ Drop
    \/ \E K \in SUBSET remembered : Forget(K)

Spec == Init /\ [][Next]_vars

TypeOK ==
    /\ remembered \subseteq Keys
    /\ forgotten \subseteq Keys
    /\ claimed \in [Requests -> Keys \union {NoKey}]
    /\ stage \in [Requests -> {"none", "claimed", "launched", "dropped"}]

\* A delivery that was never forgotten is claimed by one request at most:
\* whatever replays, concurrent duplicates and restarts there are, its
\* analysis is dispatched once or not at all.
AtMostOnce ==
    \A r, s \in Requests :
        claimed[r] = claimed[s] /\ claimed[r] \notin forgotten \union {NoKey} => r = s
=============================================================================
