----------------------- MODULE WebhookDeliveryProofs -----------------------
(***************************************************************************)
(* Theorems about WebhookDelivery, for every set of deliveries and of      *)
(* requests, every row cap and every combination of the conditions: its    *)
(* types and the unique key of its table, that it implements ReplayGuard,  *)
(* and so dispatches an analysis at most once for as long as the delivery  *)
(* is on record.                                                           *)
(***************************************************************************)
EXTENDS WebhookDelivery, TLAPS

USE NoKeyAssumption

(***************************************************************************)
(* The table and the types.                                                *)
(***************************************************************************)
Types ==
    /\ rows \in Seq(Row)
    /\ aged \in 0..Len(rows)
    /\ at \in [Requests -> Answers \union InHand \union {"new", "claim", "complete", "dead"}]
    /\ key \in [Requests -> Keys \union {NoKey}]
    /\ launched \in SUBSET Requests
    /\ forgotten \in SUBSET Keys

\* A request is past its launch only if it launched, and has no key before
\* it is received.
Launches ==
    \A r \in Requests :
        /\ at[r] = "new" => key[r] = NoKey
        /\ at[r] \in {"complete", "accepted"} => r \in launched
        /\ at[r] \in {"new", "claim", "duplicate", "unavailable"} \union InHand
              => r \notin launched
        /\ at[r] \in {"claim", "complete"} \union Pruning => key[r] # NoKey

IInv == Types /\ Launches

USE DEF Pruning, InHand, Answers

LEMMA RememberedKeys ==
    ASSUME rows \in Seq(Row)
    PROVE  Remembered \subseteq Keys
<1>1. \A i \in 1..Len(rows) : rows[i] \in Row
  OBVIOUS
<1>2. \A i \in 1..Len(rows) : rows[i].key \in Keys
  BY <1>1 DEF Row
<1>3. QED
  BY <1>2 DEF Remembered, RowsOf

\* A deletion leaves rows that were there, and the rest is forgotten.
LEMMA DeleteFacts ==
    ASSUME Types, NEW n \in 0..Len(rows), Delete(n)
    PROVE  /\ rows' \in Seq(Row)
           /\ aged' \in 0..Len(rows')
           /\ Remembered' \subseteq Remembered
           /\ forgotten' = forgotten \union (Remembered \ Remembered')
<1>1. rows \in Seq(Row) /\ Len(rows) \in Nat /\ aged \in 0..Len(rows)
  BY DEF Types
<1>2. /\ rows' \in Seq(Row)
      /\ Len(rows') = Len(rows) - n
      /\ \A i \in 1..Len(rows') : rows'[i] = rows[n + i]
  BY <1>1 DEF Delete
<1>3. aged' \in 0..Len(rows')
  BY <1>1, <1>2 DEF Delete
<1>4. Remembered' \subseteq Remembered
  BY <1>1, <1>2 DEF Remembered, RowsOf
<1>5. QED
  BY <1>2, <1>3, <1>4 DEF Delete

LEMMA ExcessFacts ==
    ASSUME Types
    PROVE  Excess \in 0..Len(rows)
BY MaxRowsAssumption DEF Types, Excess

\* Completing a row changes its status, not the table's keys.
LEMMA CompleteFacts ==
    ASSUME Types, NEW r \in Requests, CompleteWebhookDelivery(r), key[r] \in Keys
    PROVE  rows' \in Seq(Row) /\ Len(rows') = Len(rows) /\ Remembered' = Remembered
<1>1. CASE UNCHANGED rows
  BY <1>1 DEF Types, Remembered, RowsOf
<1>2. CASE rows' = [i \in 1..Len(rows) |->
                     IF rows[i].key = key[r] THEN [key |-> key[r], status |-> "processed"]
                     ELSE rows[i]]
  <2>1. rows \in Seq(Row) /\ Len(rows) \in Nat
    BY DEF Types
  <2>2. rows' \in Seq(Row) /\ Len(rows') = Len(rows)
    <3>1. \A i \in 1..Len(rows) : rows[i] \in Row
      BY <2>1
    <3>2. [key |-> key[r], status |-> "processed"] \in Row
      BY DEF Row
    <3>3. rows' \in [1..Len(rows) -> Row]
      BY <1>2, <3>1, <3>2
    <3>4. QED
      BY <2>1, <3>3
  <2>3. \A i \in 1..Len(rows) : rows'[i].key = rows[i].key
    BY <1>2, <2>1
  <2>4. QED
    BY <2>1, <2>2, <2>3 DEF Remembered, RowsOf
<1>3. QED
  BY <1>1, <1>2 DEF CompleteWebhookDelivery

LEMMA InitInv == Init => IInv
BY DEF Init, IInv, Types, Launches

LEMMA InvStep == IInv /\ [Next]_vars => IInv'
<1>. SUFFICES ASSUME IInv, [Next]_vars PROVE IInv'
  OBVIOUS
<1>0. Types /\ Launches
  BY DEF IInv
<1>1. ASSUME NEW r \in Requests, Receive(r) PROVE IInv'
  BY <1>0, <1>1 DEF Receive, Go, IInv, Types, Launches
<1>2. ASSUME NEW r \in Requests, ClaimWebhookDelivery(r) PROVE IInv'
  <2>1. key[r] \in Keys /\ NewRow(key[r]) \in Row
    BY <1>0, <1>2 DEF ClaimWebhookDelivery, Types, Launches, NewRow, Row
  <2>2. rows' \in Seq(Row) /\ aged' \in 0..Len(rows')
    BY <1>0, <1>2, <2>1 DEF ClaimWebhookDelivery, Types
  <2>3. QED
    BY <1>0, <1>2, <2>2 DEF ClaimWebhookDelivery, Go, IInv, Types, Launches
<1>3. ASSUME NEW r \in Requests, MaybePrune(r) PROVE IInv'
  BY <1>0, <1>3 DEF MaybePrune, Go, IInv, Types, Launches
<1>4. ASSUME NEW r \in Requests, NEW n \in 0..Len(rows), NEW stage \in {"cap", "dispatch"},
             at[r] \in {"retention", "cap"}, Go(r, stage),
             Delete(n) \/ KeepRows, UNCHANGED <<pruneDue, key, launched>>
      PROVE  IInv'
  <2>1. Delete(n) => /\ rows' \in Seq(Row) /\ aged' \in 0..Len(rows')
                     /\ forgotten' = forgotten \union (Remembered \ Remembered')
    BY <1>0, DeleteFacts
  <2>2. rows' \in Seq(Row) /\ aged' \in 0..Len(rows') /\ forgotten' \subseteq Keys
    BY <1>0, <1>4, <2>1, RememberedKeys DEF KeepRows, Types
  <2>3. QED
    BY <1>0, <1>4, <2>2 DEF Go, IInv, Types, Launches
<1>5. ASSUME NEW r \in Requests, DeleteAged(r) \/ DeleteExcess(r) PROVE IInv'
  <2>1. aged \in 0..Len(rows) /\ Excess \in 0..Len(rows)
    BY <1>0, ExcessFacts DEF Types
  <2>2. QED
    BY <1>4, <1>5, <2>1 DEF DeleteAged, DeleteExcess
<1>6. ASSUME NEW r \in Requests, Dispatch(r) PROVE IInv'
  BY <1>0, <1>6 DEF Dispatch, Go, IInv, Types, Launches
<1>7. ASSUME NEW r \in Requests, CompleteWebhookDelivery(r) PROVE IInv'
  <2>1. key[r] \in Keys
    BY <1>0, <1>7 DEF CompleteWebhookDelivery, Types, Launches
  <2>2. rows' \in Seq(Row) /\ Len(rows') = Len(rows)
    BY <1>0, <1>7, <2>1, CompleteFacts
  <2>3. QED
    BY <1>0, <1>7, <2>2 DEF CompleteWebhookDelivery, Go, IInv, Types, Launches
<1>8. CASE Age
  BY <1>0, <1>8 DEF Age, IInv, Types, Launches
<1>9. CASE Crash
  BY <1>0, <1>9 DEF Crash, CrashRows, IInv, Types, Launches
<1>10. CASE UNCHANGED vars
  BY <1>0, <1>10 DEF vars, IInv, Types, Launches
<1>11. QED
  BY <1>1, <1>2, <1>3, <1>5, <1>6, <1>7, <1>8, <1>9, <1>10 DEF Next, RequestStep

THEOREM Invariance == Spec => []IInv
<1>1. Init => IInv
  BY InitInv
<1>2. IInv /\ [Next]_vars => IInv'
  BY InvStep
<1>3. QED
  BY <1>1, <1>2, PTL DEF Spec

(***************************************************************************)
(* The table has one row for a delivery.                                   *)
(***************************************************************************)
KeysUnique == \A i, j \in 1..Len(rows) : rows[i].key = rows[j].key => i = j

\* Only a claim adds a row, and it meets none of its delivery; a deletion keeps
\* the newest rows, and a completion the keys of all.
LEMMA UniqueStep == IInv /\ KeysUnique /\ [Next]_vars => KeysUnique'
<1>. SUFFICES ASSUME IInv, KeysUnique, [Next]_vars PROVE KeysUnique'
  OBVIOUS
<1>0. Types /\ Launches /\ rows \in Seq(Row) /\ Len(rows) \in Nat
  BY DEF IInv, Types
<1>1. CASE UNCHANGED rows
  BY <1>1 DEF KeysUnique
<1>2. ASSUME NEW r \in Requests, ClaimWebhookDelivery(r), ~UNCHANGED rows
      PROVE  KeysUnique'
  <2>1. rows' = Append(rows, NewRow(key[r])) /\ ~HasRow(key[r]) /\ key[r] \in Keys
    BY <1>0, <1>2 DEF ClaimWebhookDelivery, Types, Launches
  <2>2. \A i \in 1..Len(rows) : rows[i].key # key[r]
    BY <2>1 DEF HasRow, Remembered, RowsOf
  <2>3. NewRow(key[r]) \in Row /\ NewRow(key[r]).key = key[r]
    BY <2>1 DEF NewRow, Row
  <2>4. /\ Len(rows') = Len(rows) + 1
        /\ \A i \in 1..Len(rows) : rows'[i] = rows[i]
        /\ rows'[Len(rows) + 1] = NewRow(key[r])
    BY <1>0, <2>1, <2>3
  <2>5. \A i \in 1..Len(rows') : i \in 1..Len(rows) \/ i = Len(rows) + 1
    BY <1>0, <2>4
  <2>6. QED
    BY <2>2, <2>3, <2>4, <2>5 DEF KeysUnique
<1>3. ASSUME NEW n \in 0..Len(rows), Delete(n) PROVE KeysUnique'
  <2>1. /\ Len(rows') = Len(rows) - n
        /\ \A i \in 1..Len(rows') : rows'[i] = rows[n + i]
    BY <1>0, <1>3 DEF Delete
  <2>2. \A i \in 1..Len(rows') : n + i \in 1..Len(rows)
    BY <1>0, <2>1
  <2>3. QED
    BY <1>0, <2>1, <2>2 DEF KeysUnique
<1>4. ASSUME NEW r \in Requests, DeleteAged(r) \/ DeleteExcess(r) PROVE KeysUnique'
  BY <1>0, <1>1, <1>3, <1>4, ExcessFacts DEF DeleteAged, DeleteExcess, KeepRows, Types
<1>5. ASSUME NEW r \in Requests, CompleteWebhookDelivery(r), ~UNCHANGED rows
      PROVE  KeysUnique'
  <2>1. /\ rows' = [i \in 1..Len(rows) |->
                      IF rows[i].key = key[r] THEN [key |-> key[r], status |-> "processed"]
                      ELSE rows[i]]
        /\ key[r] \in Keys
    BY <1>0, <1>5 DEF CompleteWebhookDelivery, Types, Launches
  <2>2. Len(rows') = Len(rows)
    BY <1>0, <1>5, <2>1, CompleteFacts
  <2>3. \A i \in 1..Len(rows) : rows'[i].key = rows[i].key
    BY <2>1
  <2>4. QED
    BY <2>2, <2>3 DEF KeysUnique
<1>6. CASE \E r \in Requests : Receive(r) \/ MaybePrune(r) \/ Dispatch(r)
  BY <1>1, <1>6 DEF Receive, MaybePrune, Dispatch
<1>7. CASE Age \/ Crash \/ UNCHANGED vars
  BY <1>1, <1>7 DEF Age, Crash, CrashRows, vars
<1>8. QED
  BY <1>1, <1>2, <1>4, <1>5, <1>6, <1>7 DEF Next, RequestStep

\* The remaining flag: whether a pruning is due.
DueIsFlag == pruneDue \in BOOLEAN

LEMMA PruneDueStep == DueIsFlag /\ [Next]_vars => DueIsFlag'
BY DEF DueIsFlag, Next, RequestStep, Receive, ClaimWebhookDelivery, MaybePrune, DeleteAged, DeleteExcess,
   Dispatch, CompleteWebhookDelivery, Age, Crash, vars

\* The table and the requests keep their types, and no delivery has two rows:
\* the unique key of webhook_deliveries, which INSERT ... ON CONFLICT DO NOTHING
\* relies on, through prunings, completions by whoever and restarts.
THEOREM DeliveryTypeCorrect == Spec => []TypeOK
<1>1. Init => KeysUnique /\ DueIsFlag
  BY DEF Init, KeysUnique, DueIsFlag
<1>2. IInv /\ KeysUnique /\ DueIsFlag => TypeOK
  BY DEF IInv, Types, KeysUnique, DueIsFlag, TypeOK
<1>3. QED
  BY <1>1, <1>2, UniqueStep, PruneDueStep, Invariance, PTL DEF Spec

(***************************************************************************)
(* The refinement.                                                         *)
(***************************************************************************)
\* The requests that a step does not concern keep their claims.
Same == Remembered' = Remembered /\ forgotten' = forgotten
        /\ ClaimOf' = ClaimOf /\ StageOf' = StageOf

\* A row that is inserted is the claim of the request's key.
LEMMA InsertFacts ==
    ASSUME Types, NEW k \in Keys, rows' = Append(rows, NewRow(k))
    PROVE  Remembered' = Remembered \union {k}
<1>1. rows \in Seq(Row) /\ Len(rows) \in Nat /\ NewRow(k) \in Row
  BY DEF Types, NewRow, Row
<1>2. /\ Len(rows') = Len(rows) + 1
      /\ \A i \in 1..Len(rows) : rows'[i] = rows[i]
      /\ rows'[Len(rows) + 1] = NewRow(k)
  BY <1>1
<1>3. \A i \in 1..Len(rows') : i \in 1..Len(rows) \/ i = Len(rows) + 1
  BY <1>1, <1>2
<1>4. Len(rows) + 1 \in 1..Len(rows') /\ 1..Len(rows) \subseteq 1..Len(rows')
  BY <1>1, <1>2
<1>5. rows'[Len(rows) + 1].key = k
  BY <1>2 DEF NewRow
<1>6. QED
  BY <1>2, <1>3, <1>4, <1>5 DEF Remembered, RowsOf

LEMMA InitRefines == Init => Guard!Init
BY DEF Init, Guard!Init, Remembered, RowsOf, ClaimOf, StageOf, Unclaimed

LEMMA StepRefines == IInv /\ [Next]_vars => [Guard!Next]_Guard!vars
<1>. SUFFICES ASSUME IInv, [Next]_vars PROVE Guard!Next \/ Same
  BY DEF Guard!vars, Same
<1>0. Types /\ Launches
  BY DEF IInv
<1>. USE DEF ClaimOf, StageOf, Unclaimed
<1>1. ASSUME NEW r \in Requests, Receive(r) PROVE Same
  BY <1>0, <1>1 DEF Receive, Go, Same, Types, Launches, Remembered
<1>2. ASSUME NEW r \in Requests, ClaimWebhookDelivery(r) PROVE Guard!Next \/ Same
  <2>1. key[r] \in Keys
    BY <1>0, <1>2 DEF ClaimWebhookDelivery, Types, Launches
  <2>2. CASE UNCHANGED rows
    BY <1>0, <1>2, <2>2 DEF ClaimWebhookDelivery, Go, Same, Types, Launches, Remembered
  <2>3. CASE ~UNCHANGED rows
    <3>1. /\ key[r] \notin Remembered /\ at[r] = "claim"
          /\ rows' = Append(rows, NewRow(key[r])) /\ Go(r, "prune")
          /\ UNCHANGED <<key, launched, forgotten>>
      BY <1>2, <2>3 DEF ClaimWebhookDelivery, HasRow
    <3>2. Remembered' = Remembered \union {key[r]}
      BY <1>0, <2>1, <3>1, InsertFacts
    <3>3. /\ StageOf[r] = "none"
          /\ ClaimOf' = [ClaimOf EXCEPT ![r] = key[r]]
          /\ StageOf' = [StageOf EXCEPT ![r] = "claimed"]
      BY <1>0, <2>1, <3>1 DEF Go, Types, Launches
    <3>4. PICK k \in Keys : k = key[r]
      BY <2>1
    <3>5. Guard!Claim(r, k)
      BY <3>1, <3>2, <3>3, <3>4 DEF Guard!Claim
    <3>6. QED
      BY <3>5 DEF Guard!Next
  <2>4. QED
    BY <2>2, <2>3
<1>3. ASSUME NEW r \in Requests, MaybePrune(r) PROVE Same
  BY <1>0, <1>3 DEF MaybePrune, Go, Same, Types, Launches, Remembered
<1>4. ASSUME NEW r \in Requests, NEW n \in 0..Len(rows), NEW s \in {"cap", "dispatch"},
             at[r] \in {"retention", "cap"}, Go(r, s),
             Delete(n) \/ KeepRows, UNCHANGED <<pruneDue, key, launched>>
      PROVE  Guard!Next \/ Same
  <2>1. ClaimOf' = ClaimOf /\ StageOf' = StageOf
    BY <1>0, <1>4 DEF Go, Types, Launches
  <2>2. CASE KeepRows
    BY <2>1, <2>2 DEF KeepRows, Same, Remembered
  <2>3. CASE Delete(n)
    <3>1. /\ Remembered' \subseteq Remembered
          /\ forgotten' = forgotten \union (Remembered \ Remembered')
      BY <1>0, <2>3, DeleteFacts
    <3>2. Guard!Forget(Remembered \ Remembered')
      BY <2>1, <3>1 DEF Guard!Forget
    <3>3. Remembered \ Remembered' \in SUBSET Remembered
      OBVIOUS
    <3>4. QED
      BY <3>2, <3>3 DEF Guard!Next
  <2>4. QED
    BY <1>4, <2>2, <2>3
<1>5. ASSUME NEW r \in Requests, DeleteAged(r) \/ DeleteExcess(r) PROVE Guard!Next \/ Same
  <2>1. aged \in 0..Len(rows) /\ Excess \in 0..Len(rows)
    BY <1>0, ExcessFacts DEF Types
  <2>2. QED
    BY <1>4, <1>5, <2>1 DEF DeleteAged, DeleteExcess
<1>6. ASSUME NEW r \in Requests, Dispatch(r) PROVE Guard!Next \/ Same
  <2>1. CASE key[r] = NoKey
    BY <1>0, <1>6, <2>1 DEF Dispatch, Go, Same, Types, Launches, Remembered
  <2>2. CASE key[r] # NoKey
    <3>1. /\ StageOf[r] = "claimed"
          /\ ClaimOf' = ClaimOf
          /\ StageOf' = [StageOf EXCEPT ![r] = "launched"]
      BY <1>0, <1>6, <2>2 DEF Dispatch, Go, Types, Launches
    <3>2. UNCHANGED <<Remembered, forgotten>>
      BY <1>6 DEF Dispatch, Remembered
    <3>3. Guard!Launch(r)
      BY <3>1, <3>2 DEF Guard!Launch
    <3>4. QED
      BY <3>3 DEF Guard!Next
  <2>3. QED
    BY <2>1, <2>2
<1>7. ASSUME NEW r \in Requests, CompleteWebhookDelivery(r) PROVE Same
  <2>1. key[r] \in Keys
    BY <1>0, <1>7 DEF CompleteWebhookDelivery, Types, Launches
  <2>2. Remembered' = Remembered
    BY <1>0, <1>7, <2>1, CompleteFacts
  <2>3. QED
    BY <1>0, <1>7, <2>2 DEF CompleteWebhookDelivery, Go, Same, Types, Launches
<1>8. CASE Age
  BY <1>8 DEF Age, Same, Remembered
<1>9. CASE Crash
  <2>1. Remembered' = Remembered /\ forgotten' = forgotten
    BY <1>9 DEF Crash, CrashRows, Remembered
  <2>2. ClaimOf' = ClaimOf
    BY <1>0, <1>9 DEF Crash, Types, Launches
  <2>3. StageOf' = [r \in Requests |->
                     IF StageOf[r] = "claimed" THEN "dropped" ELSE StageOf[r]]
    BY <1>0, <1>9 DEF Crash, Types, Launches
  <2>4. Guard!Drop
    BY <2>1, <2>2, <2>3 DEF Guard!Drop
  <2>5. QED
    BY <2>4 DEF Guard!Next
<1>10. CASE UNCHANGED vars
  BY <1>10 DEF vars, Same, Remembered
<1>11. QED
  BY <1>1, <1>2, <1>3, <1>5, <1>6, <1>7, <1>8, <1>9, <1>10 DEF Next, RequestStep

\* The table implements ReplayGuard, whatever fails, expires or restarts:
\* store/webhook_deliveries.go:10.
THEOREM Implements == Spec => KeepsPromise
<1>1. Init => Guard!Init
  BY InitRefines
<1>2. IInv /\ [Next]_vars => [Guard!Next]_Guard!vars
  BY StepRefines
<1>3. Spec => []IInv
  BY Invariance
<1>4. QED
  BY <1>1, <1>2, <1>3, PTL DEF Spec, KeepsPromise, Guard!Spec

(***************************************************************************)
(* One claim at most.                                                      *)
(***************************************************************************)
\* A claim is on record until it is forgotten.
OnRecord ==
    \A r \in Requests : ClaimOf[r] # NoKey => ClaimOf[r] \in Remembered \union forgotten

OnceInv == OnRecord /\ AtMostOnce

LEMMA InitOnce == Init => OnceInv
BY DEF Init, OnceInv, OnRecord, AtMostOnce, Guard!AtMostOnce, ClaimOf, Unclaimed

\* The argument is ReplayGuard's: a key is claimed only when it is off the
\* record, so its earlier claims are forgotten.
LEMMA OnceStep == OnceInv /\ [Guard!Next]_Guard!vars => OnceInv'
<1>. SUFFICES ASSUME OnceInv, [Guard!Next]_Guard!vars PROVE OnceInv'
  OBVIOUS
<1>. USE DEF OnceInv, OnRecord, AtMostOnce, Guard!AtMostOnce
<1>0. DOMAIN ClaimOf = Requests
  BY DEF ClaimOf
<1>1. ASSUME NEW r \in Requests, NEW k \in Keys, Guard!Claim(r, k) PROVE OnceInv'
  <2>1. /\ Remembered' = Remembered \union {k} /\ forgotten' = forgotten
        /\ k \notin Remembered
        /\ \A s \in Requests : ClaimOf'[s] = IF s = r THEN k ELSE ClaimOf[s]
    BY <1>0, <1>1 DEF Guard!Claim
  <2>2. QED
    BY <2>1
<1>2. ASSUME NEW K \in SUBSET Remembered, Guard!Forget(K) PROVE OnceInv'
  BY <1>2 DEF Guard!Forget
<1>3. ASSUME UNCHANGED <<Remembered, forgotten, ClaimOf>> PROVE OnceInv'
  BY <1>3
<1>4. QED
  BY <1>1, <1>2, <1>3 DEF Guard!Next, Guard!vars, Guard!Launch, Guard!Drop

\* Through concurrent duplicates, failed statements and restarts, a claim that
\* is on record is the only one.
LEMMA ClaimedOnce == Spec => []AtMostOnce
<1>1. Init => OnceInv
  BY InitOnce
<1>2. IInv /\ [Next]_vars => [Guard!Next]_Guard!vars
  BY StepRefines
<1>3. OnceInv /\ [Guard!Next]_Guard!vars => OnceInv'
  BY OnceStep
<1>4. OnceInv => AtMostOnce
  BY DEF OnceInv
<1>5. Spec => []IInv
  BY Invariance
<1>6. QED
  BY <1>1, <1>2, <1>3, <1>4, <1>5, PTL DEF Spec

(***************************************************************************)
(* Answers and rows: what the table says of a delivery, some request did.  *)
(***************************************************************************)
Takes(r) == r \in launched \/ at[r] \in InHand \union {"dead"}

\* Every row is of a delivery that a request took.
Taken ==
    \A i \in 1..Len(rows) : \E r \in Requests : key[r] = rows[i].key /\ Takes(r)

Truth == Taken /\ ProcessedWasLaunched /\ DuplicateWasClaimed

\* A request that has been received keeps its delivery, one that took it never
\* lets go, and one that is told "duplicate" met a row.
LEMMA RequestsStep ==
    ASSUME IInv, [Next]_vars
    PROVE  /\ launched \subseteq launched'
           /\ \A r \in Requests :
                /\ at[r] # "new" => key'[r] = key[r] /\ at'[r] # "new"
                /\ Takes(r) => at[r] # "new" /\ Takes(r)'
                /\ at'[r] = "duplicate" =>
                      \/ at[r] = "duplicate"
                      \/ at[r] = "claim" /\ key[r] \in Remembered
<1>0. Types /\ Launches
  BY DEF IInv
<1>. USE <1>0 DEF Types, Launches, Takes, Go
<1>1. CASE \E r \in Requests : Receive(r)
  BY <1>1 DEF Receive
<1>2. CASE \E r \in Requests : ClaimWebhookDelivery(r)
  BY <1>2 DEF ClaimWebhookDelivery, HasRow
<1>3. CASE \E r \in Requests : MaybePrune(r)
  BY <1>3 DEF MaybePrune
<1>4. CASE \E r \in Requests : DeleteAged(r)
  BY <1>4 DEF DeleteAged
<1>5. CASE \E r \in Requests : DeleteExcess(r)
  BY <1>5 DEF DeleteExcess
<1>6. CASE \E r \in Requests : Dispatch(r)
  BY <1>6 DEF Dispatch
<1>7. CASE \E r \in Requests : CompleteWebhookDelivery(r)
  BY <1>7 DEF CompleteWebhookDelivery
<1>8. CASE Age
  BY <1>8 DEF Age
<1>9. CASE Crash
  BY <1>9 DEF Crash
<1>10. CASE UNCHANGED vars
  BY <1>10 DEF vars
<1>11. QED
  BY <1>1, <1>2, <1>3, <1>4, <1>5, <1>6, <1>7, <1>8, <1>9, <1>10 DEF Next, RequestStep

\* A row was there before, or is the claim of a request, or was completed by a
\* request of its delivery.
LEMMA TableStep ==
    ASSUME IInv, [Next]_vars
    PROVE  \A i \in 1..Len(rows') :
              \/ \E j \in 1..Len(rows) : rows'[i] = rows[j]
              \/ \E r \in Requests :
                    at'[r] = "prune" /\ key'[r] = rows'[i].key /\ rows'[i].status = "processing"
              \/ \E r \in Requests : r \in launched /\ key[r] = rows'[i].key
<1>0. Types /\ Launches
  BY DEF IInv
<1>1. rows \in Seq(Row) /\ Len(rows) \in Nat
  BY <1>0 DEF Types
<1>2. CASE UNCHANGED rows
  BY <1>2
<1>3. ASSUME NEW r \in Requests, ClaimWebhookDelivery(r), ~UNCHANGED rows
      PROVE  \A i \in 1..Len(rows') :
                \/ \E j \in 1..Len(rows) : rows'[i] = rows[j]
                \/ /\ at'[r] = "prune" /\ key'[r] = rows'[i].key
                   /\ rows'[i].status = "processing"
  <2>1. /\ rows' = Append(rows, NewRow(key[r])) /\ at'[r] = "prune"
        /\ key'[r] = key[r] /\ key[r] \in Keys
    BY <1>0, <1>3 DEF ClaimWebhookDelivery, Go, Types, Launches
  <2>2. NewRow(key[r]) \in Row
    BY <2>1 DEF NewRow, Row
  <2>3. /\ Len(rows') = Len(rows) + 1
        /\ \A i \in 1..Len(rows) : rows'[i] = rows[i]
        /\ rows'[Len(rows) + 1] = NewRow(key[r])
    BY <1>1, <2>1, <2>2
  <2>4. QED
    BY <1>1, <2>1, <2>3 DEF NewRow
<1>4. ASSUME NEW n \in 0..Len(rows), Delete(n)
      PROVE  \A i \in 1..Len(rows') : \E j \in 1..Len(rows) : rows'[i] = rows[j]
  <2>1. /\ Len(rows') = Len(rows) - n
        /\ \A i \in 1..Len(rows') : rows'[i] = rows[n + i]
    BY <1>1, <1>4 DEF Delete
  <2>2. \A i \in 1..Len(rows') : n + i \in 1..Len(rows)
    BY <1>1, <2>1
  <2>3. QED
    BY <2>1, <2>2
<1>5. ASSUME NEW r \in Requests, CompleteWebhookDelivery(r), ~UNCHANGED rows
      PROVE  \A i \in 1..Len(rows') :
                \/ \E j \in 1..Len(rows) : rows'[i] = rows[j]
                \/ r \in launched /\ key[r] = rows'[i].key
  <2>1. /\ r \in launched
        /\ rows' = [i \in 1..Len(rows) |->
                      IF rows[i].key = key[r] THEN [key |-> key[r], status |-> "processed"]
                      ELSE rows[i]]
    BY <1>0, <1>5 DEF CompleteWebhookDelivery, Launches
  <2>2. key[r] \in Keys
    BY <1>0, <1>5 DEF CompleteWebhookDelivery, Types, Launches
  <2>3. Len(rows') = Len(rows)
    BY <1>0, <1>5, <2>2, CompleteFacts
  <2>4. QED
    BY <1>1, <2>1, <2>3
<1>6. ASSUME NEW r \in Requests, DeleteAged(r) \/ DeleteExcess(r), ~UNCHANGED rows
      PROVE  \E n \in 0..Len(rows) : Delete(n)
  BY <1>0, <1>6, ExcessFacts DEF DeleteAged, DeleteExcess, KeepRows, Types
<1>7. CASE \E r \in Requests : Receive(r) \/ MaybePrune(r) \/ Dispatch(r)
  BY <1>2, <1>7 DEF Receive, MaybePrune, Dispatch
<1>8. CASE Age \/ Crash \/ UNCHANGED vars
  BY <1>2, <1>8 DEF Age, Crash, CrashRows, vars
<1>9. QED
  BY <1>2, <1>3, <1>4, <1>5, <1>6, <1>7, <1>8 DEF Next, RequestStep

LEMMA InitTruth == Init => Truth
BY DEF Init, Truth, Taken, ProcessedWasLaunched, DuplicateWasClaimed

LEMMA TruthStep == IInv /\ Truth /\ [Next]_vars => Truth'
<1>. SUFFICES ASSUME IInv, Truth, [Next]_vars PROVE Truth'
  OBVIOUS
<1>0. /\ Types /\ Launches /\ Types'
      /\ \A r \in launched : r \in Requests /\ Takes(r)
  BY InvStep DEF IInv, Types, Takes
<1>1. Taken'
  <2>. SUFFICES ASSUME NEW i \in 1..Len(rows')
                PROVE  \E r \in Requests : key'[r] = rows'[i].key /\ Takes(r)'
    BY DEF Taken
  <2>1. CASE \E j \in 1..Len(rows) : rows'[i] = rows[j]
    BY <2>1, RequestsStep DEF Truth, Taken
  <2>2. CASE \E r \in Requests : at'[r] = "prune" /\ key'[r] = rows'[i].key
    BY <2>2 DEF Takes
  <2>3. CASE \E r \in Requests : r \in launched /\ key[r] = rows'[i].key
    BY <1>0, <2>3, RequestsStep
  <2>4. QED
    BY <2>1, <2>2, <2>3, TableStep
<1>2. ProcessedWasLaunched'
  <2>. SUFFICES ASSUME NEW i \in 1..Len(rows'), rows'[i].status = "processed"
                PROVE  \E r \in launched' : key'[r] = rows'[i].key
    BY DEF ProcessedWasLaunched
  <2>1. \E r \in launched : key[r] = rows'[i].key
    BY TableStep DEF Truth, ProcessedWasLaunched
  <2>2. QED
    BY <1>0, <2>1, RequestsStep
<1>3. DuplicateWasClaimed'
  <2>. SUFFICES ASSUME NEW r \in Requests, at'[r] = "duplicate"
                PROVE  \E s \in Requests : key'[s] = key'[r] /\ Takes(s)'
    BY DEF DuplicateWasClaimed, Takes
  <2>1. at[r] # "new" /\ key'[r] = key[r]
    BY RequestsStep
  <2>2. CASE at[r] = "duplicate"
    BY <2>1, <2>2, RequestsStep DEF Truth, DuplicateWasClaimed, Takes
  <2>3. CASE key[r] \in Remembered
    <3>1. PICK s \in Requests : key[s] = key[r] /\ Takes(s)
      BY <2>3 DEF Remembered, RowsOf, Truth, Taken
    <3>2. QED
      BY <2>1, <3>1, RequestsStep
  <2>4. QED
    BY <2>2, <2>3, RequestsStep
<1>4. QED
  BY <1>1, <1>2, <1>3 DEF Truth

\* A delivery whose row was never pruned is claimed by one request at most, a
\* row says processed only of an analysis that was started, and a duplicate is
\* turned away only where another request took the delivery:
\* ClaimWebhookDelivery and its callers.
THEOREM TableTellsTruth == Spec => []ClaimsAreTrue
<1>1. Truth /\ AtMostOnce => ClaimsAreTrue
  BY DEF Truth, ClaimsAreTrue
<1>2. Spec => []Truth
  BY InitTruth, TruthStep, Invariance, PTL DEF Spec
<1>3. QED
  BY <1>1, <1>2, ClaimedOnce, PTL
=============================================================================
