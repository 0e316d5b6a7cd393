-------------------------- MODULE WebhookDelivery --------------------------
(***************************************************************************)
(* The handling of a signed push or pull request webhook, from the claim   *)
(* of its delivery to the answer (handlePushEvent, handlePullRequestEvent, *)
(* claimDispatch and completeDispatch, handlers/webhook.go), over the      *)
(* table of store/webhook_deliveries.go.                                   *)
(*                                                                         *)
(* One action per statement.  A claim starts with an update of rows whose  *)
(* status is failed; nothing ever writes that status, so the update is     *)
(* left out, and so is the status.  Rows are kept in the order of their    *)
(* ids, which is the order of first_seen_at; retention counts them off     *)
(* from the oldest.                                                        *)
(***************************************************************************)
EXTENDS Naturals, Sequences

CONSTANTS
    Keys,       \* deliveries with an id: forge, id, repository and event kind
    NoKey,      \* the key of deliveries without an id
    Requests,   \* requests, each handled once
    MaxRows,    \* bound on the table, enforced by pruning
    Conditions  \* what may happen, see ConditionKinds

(* "age"    rows outlive the retention, and the hour between prunings ends *)
(* "error"  a statement fails                                              *)
(* "crash"  the process restarts                                           *)
ConditionKinds == {"age", "error", "crash"}

ASSUME NoKeyAssumption == NoKey \notin Keys
ASSUME MaxRowsAssumption == MaxRows \in Nat \ {0}
ASSUME ConditionsAssumption == Conditions \subseteq ConditionKinds

VARIABLES
    rows,       \* the table: [key, status], by id
    aged,       \* how many of the oldest rows are past the retention
    pruneDue,   \* no pruning within the interval (in memory)
    at,         \* how far each request is
    key,        \* the key of each request
    launched,   \* requests that started the analysis goroutine
    forgotten   \* keys whose row was pruned at some time (history)

vars == <<rows, aged, pruneDue, at, key, launched, forgotten>>

RowsOf(table) == {table[i].key : i \in 1..Len(table)}
Remembered == RowsOf(rows)

\* A request with a claim that is not launched yet.
Pruning == {"prune", "retention", "cap"}
InHand == Pruning \union {"dispatch"}
Answers == {"accepted", "duplicate", "unavailable"}

Init ==
    /\ rows = <<>>
    /\ aged = 0
    /\ pruneDue = TRUE
    /\ at = [r \in Requests |-> "new"]
    /\ key = [r \in Requests |-> NoKey]
    /\ launched = {}
    /\ forgotten = {}

Go(r, stage) == at' = [at EXCEPT ![r] = stage]

\* A delivery without an id is not claimed.
Receive(r) ==
    /\ at[r] = "new"
    /\ \/ \E k \in Keys : key' = [key EXCEPT ![r] = k] /\ Go(r, "claim")
       \/ Go(r, "dispatch") /\ UNCHANGED key
    /\ UNCHANGED <<rows, aged, pruneDue, launched, forgotten>>

\* Mutant: the unique key is the delivery's id alone, and ids meet.
HasRow_AnyTarget(k) == rows # <<>>

\* Mutant: the table has no unique key.
HasRow_Never(k) == FALSE

HasRow(k) == k \in Remembered

\* Mutant: the row says processed before anything is dispatched.
NewRow_Processed(k) == [key |-> k, status |-> "processed"]

NewRow(k) == [key |-> k, status |-> "processing"]

\* Mutant: an error of the store lets the delivery through.
ClaimWebhookDelivery_FailsOpen(r) ==
    /\ at[r] = "claim"
    /\ \/ "error" \in Conditions /\ Go(r, "dispatch") /\ UNCHANGED rows
       \/ HasRow(key[r]) /\ Go(r, "duplicate") /\ UNCHANGED rows
       \/ /\ ~HasRow(key[r])
          /\ rows' = Append(rows, NewRow(key[r]))
          /\ Go(r, "prune")
    /\ UNCHANGED <<aged, pruneDue, key, launched, forgotten>>

\* INSERT ... ON CONFLICT DO NOTHING, and the answers that follow from it.
ClaimWebhookDelivery(r) ==
    /\ at[r] = "claim"
    /\ \/ "error" \in Conditions /\ Go(r, "unavailable") /\ UNCHANGED rows
       \/ HasRow(key[r]) /\ Go(r, "duplicate") /\ UNCHANGED rows
       \/ /\ ~HasRow(key[r])
          /\ rows' = Append(rows, NewRow(key[r]))
          /\ Go(r, "prune")
    /\ UNCHANGED <<aged, pruneDue, key, launched, forgotten>>

\* maybePruneWebhookDeliveries: the first to come takes the turn.
MaybePrune(r) ==
    /\ at[r] = "prune"
    /\ Go(r, IF pruneDue THEN "retention" ELSE "dispatch")
    /\ pruneDue' = FALSE
    /\ UNCHANGED <<rows, aged, key, launched, forgotten>>

\* The n oldest rows are deleted.
Delete(n) ==
    /\ rows' = SubSeq(rows, n + 1, Len(rows))
    /\ aged' = IF n < aged THEN aged - n ELSE 0
    /\ forgotten' = forgotten \union (Remembered \ Remembered')

KeepRows == UNCHANGED <<rows, aged, forgotten>>

\* An error ends the pruning, and is ignored.
DeleteAged(r) ==
    /\ at[r] = "retention"
    /\ \/ Delete(aged) /\ Go(r, "cap")
       \/ "error" \in Conditions /\ KeepRows /\ Go(r, "dispatch")
    /\ UNCHANGED <<pruneDue, key, launched>>

Excess == IF Len(rows) > MaxRows THEN Len(rows) - MaxRows ELSE 0

DeleteExcess(r) ==
    /\ at[r] = "cap"
    /\ \/ Delete(Excess)
       \/ "error" \in Conditions /\ KeepRows
    /\ Go(r, "dispatch")
    /\ UNCHANGED <<pruneDue, key, launched>>

\* go processor.Process...: the analysis is detached from the request.
Dispatch(r) ==
    /\ at[r] = "dispatch"
    /\ launched' = launched \union {r}
    /\ Go(r, IF key[r] = NoKey THEN "accepted" ELSE "complete")
    /\ UNCHANGED <<rows, aged, pruneDue, key, forgotten>>

\* The row of the key, whoever inserted it.
CompleteWebhookDelivery(r) ==
    /\ at[r] = "complete"
    /\ \/ rows' = [i \in 1..Len(rows) |->
                     IF rows[i].key = key[r] THEN [key |-> key[r], status |-> "processed"]
                     ELSE rows[i]]
       \/ "error" \in Conditions /\ UNCHANGED rows
    /\ Go(r, "accepted")
    /\ UNCHANGED <<aged, pruneDue, key, launched, forgotten>>

Age ==
    /\ "age" \in Conditions
    /\ \/ aged < Len(rows) /\ aged' = aged + 1 /\ UNCHANGED pruneDue
       \/ pruneDue' = TRUE /\ UNCHANGED aged
    /\ UNCHANGED <<rows, at, key, launched, forgotten>>

\* Mutant: the claims of the dead process are released.
CrashRows_Released == SelectSeq(rows, LAMBDA row : row.status # "processing")

CrashRows == rows

\* Requests die unanswered, which is as good as an error to one that has not
\* claimed; the time of the last pruning was in memory.
Crash ==
    /\ "crash" \in Conditions
    /\ at' = [r \in Requests |->
                IF at[r] = "claim" THEN "unavailable"
                ELSE IF at[r] \in InHand \union {"complete"} THEN "dead" ELSE at[r]]
    /\ pruneDue' = TRUE
    /\ rows' = CrashRows
    /\ UNCHANGED <<aged, key, launched, forgotten>>

RequestStep(r) ==
    \/ Receive(r) \/ ClaimWebhookDelivery(r) \/ MaybePrune(r) \/ DeleteAged(r)
    \/ DeleteExcess(r) \/ Dispatch(r) \/ CompleteWebhookDelivery(r)

Next == (\E r \in Requests : RequestStep(r)) \/ Age \/ Crash

Spec == Init /\ [][Next]_vars

-----------------------------------------------------------------------------
(***************************************************************************)
(* Properties.                                                             *)
(***************************************************************************)
Row == [key : Keys, status : {"processing", "processed"}]

\* Type invariant; the key of a row is unique.
TypeOK ==
    /\ rows \in Seq(Row)
    /\ \A i, j \in 1..Len(rows) : rows[i].key = rows[j].key => i = j
    /\ aged \in 0..Len(rows)
    /\ pruneDue \in BOOLEAN
    /\ at \in [Requests -> Answers \union InHand \union {"new", "claim", "complete", "dead"}]
    /\ key \in [Requests -> Keys \union {NoKey}]
    /\ launched \in SUBSET Requests
    /\ forgotten \in SUBSET Keys

\* A request is turned away as a duplicate only if another request with its
\* delivery has started the analysis, is about to, or died with the process
\* before it could: prunings, failed statements and second claims of a key
\* never make a duplicate of a delivery that nobody took.
DuplicateWasClaimed ==
    \A r \in Requests :
        at[r] = "duplicate" =>
            \E s \in Requests :
                key[s] = key[r] /\ (s \in launched \/ at[s] \in InHand \union {"dead"})

\* A row says processed only if an analysis of its delivery was started,
\* through prunings, second claims of the same key and crashes.
ProcessedWasLaunched ==
    \A i \in 1..Len(rows) :
        rows[i].status = "processed" =>
            \E r \in launched : key[r] = rows[i].key

\* The refinement mapping: a claim is made by the insert of the row.
Unclaimed(r) ==
    key[r] = NoKey \/ at[r] \in {"new", "claim", "duplicate", "unavailable"}

ClaimOf == [r \in Requests |-> IF Unclaimed(r) THEN NoKey ELSE key[r]]

StageOf == [r \in Requests |->
    IF Unclaimed(r) THEN "none"
    ELSE IF r \in launched THEN "launched"
    ELSE IF at[r] \in InHand THEN "claimed" ELSE "dropped"]

Guard == INSTANCE ReplayGuard
    WITH remembered <- Remembered, claimed <- ClaimOf, stage <- StageOf

\* The table keeps the promise of ReplayGuard: each step claims, launches,
\* drops or forgets, as it allows.
KeepsPromise == Guard!Spec

\* A delivery whose row was never pruned is claimed by one request at most.
AtMostOnce == Guard!AtMostOnce

\* The table tells the truth of its deliveries: one request at most has a
\* delivery, "processed" means that its analysis was started, and "duplicate"
\* that another request has it (ClaimWebhookDelivery and its callers).
ClaimsAreTrue == AtMostOnce /\ ProcessedWasLaunched /\ DuplicateWasClaimed
=============================================================================
