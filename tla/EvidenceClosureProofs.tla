----------------------- MODULE EvidenceClosureProofs -----------------------
(***************************************************************************)
(* Theorems about EvidenceClosure, for any agents, roles and bounds: the   *)
(* types, and that a finding is resolved on evidence only, provided that   *)
(* scans are of the whole branch, scanners that do not work are missing    *)
(* from the results, and the fingerprints of a scan can be read.           *)
(***************************************************************************)
EXTENDS EvidenceClosure, TLAPS

(***************************************************************************)
(* The types.                                                              *)
(***************************************************************************)
\* A row that is added is the newest, and the rows that were there keep their
\* numbers.
LEMMA AddedRow ==
  ASSUME evidence \in Seq(RowStatuses), AddPendingRow
  PROVE  /\ evidence' \in Seq(RowStatuses) /\ evidence' # <<>>
         /\ newest' \in DOMAIN evidence' /\ newest' # 0 /\ newest' \in 0..Len(evidence')
         /\ DOMAIN evidence \subseteq DOMAIN evidence'
<1>1. "pending_rescan" \in RowStatuses
  BY DEF RowStatuses
<1>2. Len(evidence) \in Nat /\ DOMAIN evidence = 1..Len(evidence)
  OBVIOUS
<1>3. /\ evidence' \in Seq(RowStatuses) /\ Len(evidence') = Len(evidence) + 1
      /\ DOMAIN evidence' = 1..Len(evidence') /\ newest' = Len(evidence) + 1
  BY <1>1 DEF AddPendingRow
<1> QED
  BY <1>2, <1>3

\* A step that leaves the rows alone and moves one agent.
LEMMA MovesKeepTypes ==
  ASSUME ClosureTypeOK, UNCHANGED <<evidence, newest>>, NEW a \in Agents,
         \/ UNCHANGED <<pc, basis, todo>>
         \/ Finish(a)
         \/ AfterMergeCheck(a) /\ UNCHANGED <<basis, todo>>
         \/ (\E s \in Steps : Goto(a, s)) /\ UNCHANGED <<basis, todo>>
  PROVE  /\ evidence' \in Seq(RowStatuses) /\ newest' \in 0..Len(evidence')
         /\ newest' = 0 <=> evidence' = <<>>
         /\ pc' \in [Agents -> Steps]
         /\ basis' \in [Agents -> Scans \union {NoScan}]
         /\ todo' \in [Agents -> SUBSET (DOMAIN evidence')]
  BY DEF ClosureTypeOK, Finish, AfterMergeCheck, Goto, Steps

\* One that adds a row, or none, and moves one agent.
LEMMA GrowthKeepsTypes ==
  ASSUME ClosureTypeOK, AddPendingRow, NEW a \in Agents, NEW s \in Steps,
         Goto(a, s) \/ UNCHANGED pc, UNCHANGED basis,
         UNCHANGED todo \/ todo' = [todo EXCEPT ![a] = {newest'}]
  PROVE  /\ evidence' \in Seq(RowStatuses) /\ newest' \in 0..Len(evidence')
         /\ newest' = 0 <=> evidence' = <<>>
         /\ pc' \in [Agents -> Steps]
         /\ basis' \in [Agents -> Scans \union {NoScan}]
         /\ todo' \in [Agents -> SUBSET (DOMAIN evidence')]
<1>1. /\ evidence' \in Seq(RowStatuses) /\ evidence' # <<>>
      /\ newest' \in DOMAIN evidence' /\ newest' # 0 /\ newest' \in 0..Len(evidence')
      /\ DOMAIN evidence \subseteq DOMAIN evidence'
  BY AddedRow DEF ClosureTypeOK
<1>2. todo' \in [Agents -> SUBSET (DOMAIN evidence')]
  BY <1>1 DEF ClosureTypeOK
<1> QED
  BY <1>1, <1>2 DEF ClosureTypeOK, Goto

LEMMA FaultsCounted ==
  ASSUME faults \in 0..MaxFaults, Succeeds \/ Fails
  PROVE  faults' \in 0..MaxFaults
  BY BoundsAssumption DEF Succeeds, Fails

(* Every step keeps the types.                                             *)
LEMMA StepKeepsTypes == ClosureTypeOK /\ [ClosureNext]_closureVars => ClosureTypeOK'
<1> SUFFICES ASSUME ClosureTypeOK, [ClosureNext]_closureVars PROVE ClosureTypeOK'
  OBVIOUS
<1> USE DEF branchVars, evidenceVars, issueVars, scanVars, localVars
<1>1. ASSUME NEW a \in Agents, Step(a) PROVE ClosureTypeOK'
  <2>1. CASE Analyse(a)
    <3>1. PICK v \in Views : basis' = [basis EXCEPT ![a] = v]
      BY <2>1 DEF Analyse
    <3>2. v \in Scans /\ Running \in SUBSET Agents
      BY DEF Views, Running
    <3> QED
      BY <2>1, <3>1, <3>2 DEF Analyse, Goto, Steps, ClosureTypeOK
  <2>2. CASE RecordScan(a)
    <3>1. finding' \in FindingStatuses
      BY <2>2 DEF RecordScan, UpsertedStatus, ClosureTypeOK, FindingStatuses
    <3>2. /\ last' \in Scans \union {NoScan} /\ outdated' \in SUBSET Agents
          /\ earlier' \in [Agents -> SUBSET Agents]
      BY <2>2 DEF RecordScan, LeaveOrder, ClosureTypeOK
    <3>3. Finish(a) \/ (Goto(a, "list_prs") /\ UNCHANGED <<basis, todo>>)
      BY <2>2 DEF RecordScan
    <3>4. "list_prs" \in Steps /\ faults' \in 0..MaxFaults /\ UNCHANGED <<evidence, newest>>
      BY <2>2, FaultsCounted DEF RecordScan, ClosureTypeOK, Steps
    <3> QED
      BY <2>2, <3>1, <3>2, <3>3, <3>4, MovesKeepTypes DEF RecordScan, ClosureTypeOK
  <2>3. CASE ListOpenAttempts(a)
    <3>1. \/ Finish(a)
          \/ AfterMergeCheck(a) /\ UNCHANGED <<basis, todo>>
          \/ Goto(a, "detect") /\ UNCHANGED <<basis, todo>>
      BY <2>3 DEF ListOpenAttempts
    <3>2. "detect" \in Steps /\ faults' \in 0..MaxFaults
      BY <2>3, FaultsCounted DEF ListOpenAttempts, ClosureTypeOK, Steps
    <3> QED
      BY <2>3, <3>1, <3>2, MovesKeepTypes DEF ListOpenAttempts, ClosureTypeOK
  <2>4. CASE DetectMerge(a)
    <3>1. \/ AfterMergeCheck(a) /\ UNCHANGED <<basis, todo>>
          \/ Goto(a, "mark_merged") /\ UNCHANGED <<basis, todo>>
      BY <2>4 DEF DetectMerge
    <3>2. "mark_merged" \in Steps /\ faults' \in 0..MaxFaults
      BY <2>4, FaultsCounted DEF DetectMerge, ClosureTypeOK, Steps
    <3> QED
      BY <2>4, <3>1, <3>2, MovesKeepTypes DEF DetectMerge, ClosureTypeOK
  <2>5. CASE UpdatePatchAttemptMerged(a)
    <3>1. \/ AfterMergeCheck(a) /\ UNCHANGED <<basis, todo>>
          \/ Goto(a, "save") /\ UNCHANGED <<basis, todo>>
      BY <2>5 DEF UpdatePatchAttemptMerged
    <3>2. "save" \in Steps /\ faults' \in 0..MaxFaults /\ attempt' \in {"pr_opened", "pr_merged"}
      BY <2>5, FaultsCounted DEF UpdatePatchAttemptMerged, ClosureTypeOK, Steps
    <3> QED
      BY <2>5, <3>1, <3>2, MovesKeepTypes DEF UpdatePatchAttemptMerged, ClosureTypeOK
  <2>6. CASE SaveClosureEvidence(a)
    <3>1. "onPRMerged" \in Steps /\ faults' \in 0..MaxFaults
      BY <2>6, FaultsCounted DEF SaveClosureEvidence, ClosureTypeOK, Steps
    <3>2. CASE AddPendingRow /\ Goto(a, "onPRMerged")
      BY <2>6, <3>1, <3>2, GrowthKeepsTypes DEF SaveClosureEvidence, ClosureTypeOK
    <3>3. CASE AfterMergeCheck(a) /\ UNCHANGED <<evidence, newest>>
      BY <2>6, <3>1, <3>3, MovesKeepTypes DEF SaveClosureEvidence, ClosureTypeOK
    <3> QED
      BY <2>6, <3>2, <3>3 DEF SaveClosureEvidence
  <2>7. CASE onPRMerged(a)
    <3>1. finding' \in FindingStatuses /\ faults' \in 0..MaxFaults
      BY <2>7, FaultsCounted DEF onPRMerged, ClosureTypeOK, FindingStatuses
    <3> QED
      BY <2>7, <3>1, MovesKeepTypes DEF onPRMerged, ClosureTypeOK
  <2>8. CASE RecordDirectRemediation(a)
    <3>1. "idle" \in Steps
      BY DEF Steps
    <3> QED
      BY <2>8, <3>1, GrowthKeepsTypes DEF RecordDirectRemediation, ClosureTypeOK
  <2>9. CASE ListPending(a)
    <3>1. faults' \in 0..MaxFaults
      BY <2>9, FaultsCounted DEF ListPending, ClosureTypeOK
    <3>2. CASE Finish(a)
      BY <2>9, <3>1, <3>2, MovesKeepTypes DEF ListPending, ClosureTypeOK
    <3>3. CASE todo' = [todo EXCEPT ![a] = Pending] /\ Goto(a, "verify") /\ UNCHANGED basis
      <4>1. Pending \subseteq DOMAIN evidence /\ "verify" \in Steps
        BY DEF Pending, Steps
      <4> QED
        BY <2>9, <3>1, <3>3, <4>1 DEF ListPending, Goto, ClosureTypeOK
    <3> QED
      BY <2>9, <3>2, <3>3 DEF ListPending
  <2>10. CASE VerifyFindingClosure(a)
    <3>1. PICK v \in {last, [last EXCEPT !.scanner = "missing"], [last EXCEPT !.seen = FALSE]} :
              basis' = [basis EXCEPT ![a] = v]
      BY <2>10 DEF VerifyFindingClosure
    <3>2. v \in Scans /\ "ensure" \in Steps
      BY <2>10 DEF VerifyFindingClosure, ClosureTypeOK, Scans, Steps
    <3>3. faults' \in 0..MaxFaults
      BY <2>10, FaultsCounted DEF VerifyFindingClosure, ClosureTypeOK
    <3> QED
      BY <2>10, <3>1, <3>2, <3>3 DEF VerifyFindingClosure, Goto, ClosureTypeOK
  <2>11. CASE EnsureClosureEvidenceRow(a)
    <3>1. faults' \in 0..MaxFaults /\ "verify" \in Steps
      BY <2>11, FaultsCounted DEF EnsureClosureEvidenceRow, ClosureTypeOK, Steps
    <3>2. CASE Finish(a) /\ UNCHANGED <<evidence, newest>>
      BY <2>11, <3>1, <3>2, MovesKeepTypes DEF EnsureClosureEvidenceRow, ClosureTypeOK
    <3>3. CASE /\ IF evidence = <<>> THEN AddPendingRow ELSE UNCHANGED <<evidence, newest>>
               /\ todo' = [todo EXCEPT ![a] = {newest'}]
               /\ Goto(a, "verify") /\ UNCHANGED basis
      <4>1. CASE AddPendingRow
        BY <2>11, <3>1, <3>3, <4>1, GrowthKeepsTypes DEF EnsureClosureEvidenceRow, ClosureTypeOK
      <4>2. CASE evidence # <<>> /\ UNCHANGED <<evidence, newest>>
        <5>1. newest \in DOMAIN evidence
          BY <4>2 DEF ClosureTypeOK
        <5> QED
          BY <2>11, <3>1, <3>3, <4>2, <5>1 DEF EnsureClosureEvidenceRow, Goto, ClosureTypeOK
      <4> QED
        BY <3>3, <4>1, <4>2
    <3> QED
      BY <2>11, <3>2, <3>3 DEF EnsureClosureEvidenceRow
  <2>12. CASE UpdateClosureEvidence(a)
    <3>1. PICK i \in todo[a] :
            /\ todo' = [todo EXCEPT ![a] = todo[a] \ {i}]
            /\ \/ evidence' = [evidence EXCEPT ![i] = Verify(basis[a])] /\ newest' = i /\ Goto(a, "outcome")
               \/ UNCHANGED <<evidence, newest, pc>>
      BY <2>12 DEF UpdateClosureEvidence
    <3>2. i \in DOMAIN evidence /\ i \in 1..Len(evidence) /\ Len(evidence) \in Nat
      BY <3>1 DEF ClosureTypeOK
    <3>3. Verify(basis[a]) \in RowStatuses
      BY DEF Verify, RowStatuses, Verdicts
    <3>4. /\ evidence' \in Seq(RowStatuses) /\ Len(evidence') = Len(evidence) /\ DOMAIN evidence' = DOMAIN evidence
      BY <3>1, <3>2, <3>3 DEF ClosureTypeOK
    <3>5. newest' \in 0..Len(evidence') /\ (newest' = 0 <=> evidence' = <<>>)
      BY <3>1, <3>2, <3>4 DEF ClosureTypeOK
    <3>6. faults' \in 0..MaxFaults /\ "outcome" \in Steps
      BY <2>12, FaultsCounted DEF UpdateClosureEvidence, ClosureTypeOK, Steps
    <3>7. pc' \in [Agents -> Steps] /\ todo' \in [Agents -> SUBSET (DOMAIN evidence')]
      BY <3>1, <3>4, <3>6 DEF Goto, ClosureTypeOK
    <3> QED
      BY <2>12, <3>4, <3>5, <3>6, <3>7 DEF UpdateClosureEvidence, ClosureTypeOK
  <2>13. CASE AllVerified(a)
    BY <2>13, MovesKeepTypes DEF AllVerified, ClosureTypeOK
  <2>14. CASE applyOutcome(a)
    <3>1. finding' \in FindingStatuses
      BY <2>14 DEF applyOutcome, ClosureTypeOK, storeFindingStatus, Verify, FindingStatuses
    <3>2. faults' \in 0..MaxFaults /\ "close" \in Steps /\ "verify" \in Steps
      BY <2>14, FaultsCounted DEF applyOutcome, ClosureTypeOK, Steps
    <3> QED
      BY <2>14, <3>1, <3>2, MovesKeepTypes DEF applyOutcome, ClosureTypeOK
  <2>15. CASE CloseIssue(a)
    <3>1. faults' \in 0..MaxFaults /\ "verify" \in Steps
      BY <2>15, FaultsCounted DEF CloseIssue, ClosureTypeOK, Steps
    <3> QED
      BY <2>15, <3>1, MovesKeepTypes DEF CloseIssue, ClosureTypeOK
  <2>16. CASE Classify(a)
    <3>1. last \in Scans /\ "reconcile_close" \in Steps
      BY <2>16 DEF Classify, ClosureTypeOK, Steps
    <3> QED
      BY <2>16, <3>1 DEF Classify, Goto, ClosureTypeOK
  <2>17. CASE ReconcileClose(a)
    <3>1. faults' \in 0..MaxFaults /\ "reconcile_map" \in Steps
      BY <2>17, FaultsCounted DEF ReconcileClose, ClosureTypeOK, Steps
    <3> QED
      BY <2>17, <3>1, MovesKeepTypes DEF ReconcileClose, ClosureTypeOK
  <2>18. CASE ReconcileMap(a)
    <3>1. faults' \in 0..MaxFaults /\ "reconcile_status" \in Steps
      BY <2>18, FaultsCounted DEF ReconcileMap, ClosureTypeOK, Steps
    <3> QED
      BY <2>18, <3>1, MovesKeepTypes DEF ReconcileMap, ClosureTypeOK
  <2>19. CASE ReconcileStatus(a)
    <3>1. faults' \in 0..MaxFaults /\ finding' \in FindingStatuses
      BY <2>19, FaultsCounted DEF ReconcileStatus, ClosureTypeOK, FindingStatuses
    <3> QED
      BY <2>19, <3>1, MovesKeepTypes DEF ReconcileStatus, ClosureTypeOK
  <2> QED
    BY <1>1, <2>1, <2>2, <2>3, <2>4, <2>5, <2>6, <2>7, <2>8, <2>9, <2>10, <2>11,
       <2>12, <2>13, <2>14, <2>15, <2>16, <2>17, <2>18, <2>19 DEF Step
<1>2. CASE MergePR
  BY <1>2 DEF MergePR, ClosureTypeOK
<1>3. CASE Push
  BY <1>3 DEF Push, ClosureTypeOK
<1>4. CASE UNCHANGED closureVars
  BY <1>4 DEF closureVars, ClosureTypeOK
<1> QED
  BY <1>1, <1>2, <1>3, <1>4 DEF ClosureNext

(* Rows, agents and scans keep their types: what an agent has to verify are *)
(* rows that exist, and the newest row is one of them, whoever adds rows.   *)
THEOREM EvidenceTypeCorrect == ClosureSpec => []ClosureTypeOK
<1>1. ASSUME ClosureInit PROVE ClosureTypeOK
  <2>1. evidence \in Seq(RowStatuses) /\ newest \in 0..Len(evidence) /\ (newest = 0 <=> evidence = <<>>)
    BY <1>1 DEF ClosureInit
  <2>2. todo \in [Agents -> SUBSET (DOMAIN evidence)] /\ pc \in [Agents -> Steps]
    BY <1>1 DEF ClosureInit, Steps
  <2>3. faults \in 0..MaxFaults /\ finding \in FindingStatuses
    BY <1>1, BoundsAssumption DEF ClosureInit, FindingStatuses
  <2> QED
    BY <1>1, <2>1, <2>2, <2>3 DEF ClosureInit, ClosureTypeOK
<1> QED
  BY <1>1, StepKeepsTypes, PTL DEF ClosureSpec

(***************************************************************************)
(* Resolution on evidence.                                                 *)
(***************************************************************************)
\* The part of TypeOK the argument relies on.
LocalTypes ==
    /\ finding \in FindingStatuses
    /\ last \in Scans \union {NoScan}
    /\ pc \in [Agents -> Steps]
    /\ basis \in [Agents -> Scans \union {NoScan}]

\* The circumstances in which the absence of a fingerprint proves something.
WholeScans ==
    /\ Circumstances \intersect {"partial", "failed", "unread"} = {}
    /\ "require_scanner_success" \in Settings

\* A scan that does not see the finding, although the scanner worked, is right.
Honest(v) == v.scanner # "failed" /\ (~v.seen /\ v.scanner = "ok" => v.gone)

\* Steps that resolve the finding or close its issue.
Closing == {"close", "reconcile_close", "reconcile_map", "reconcile_status"}

\* Whatever an agent works on is honest, and it closes only what is gone.
EvidenceInv ==
    /\ LocalTypes
    /\ Honest(last)
    /\ \A a \in Agents : Honest(basis[a])
    /\ \A a \in Agents : pc[a] \in Closing => basis[a].gone

(* Initially nobody has a scan.                                            *)
LEMMA InitEvidence == ClosureInit => EvidenceInv
  BY DEF ClosureInit, EvidenceInv, LocalTypes, FindingStatuses, NoScan, Steps, Honest, Closing

(* The start of the next turn is harmless.                                 *)
LEMMA FinishKeeps ==
  ASSUME NEW a \in Agents, EvidenceInv, Finish(a)
  PROVE  /\ pc' \in [Agents -> Steps]
         /\ basis' \in [Agents -> Scans \union {NoScan}]
         /\ \A b \in Agents : Honest(basis'[b])
         /\ \A b \in Agents : pc'[b] \in Closing => basis'[b].gone
  BY DEF EvidenceInv, LocalTypes, Finish, Goto, Steps, NoScan, Honest, Closing

(* A step to which no closing follows keeps what the agents know.          *)
LEMMA GotoKeeps ==
  ASSUME NEW a \in Agents, NEW s \in Steps, s \notin Closing, EvidenceInv,
         Goto(a, s), UNCHANGED basis
  PROVE  /\ pc' \in [Agents -> Steps]
         /\ basis' \in [Agents -> Scans \union {NoScan}]
         /\ \A b \in Agents : Honest(basis'[b])
         /\ \A b \in Agents : pc'[b] \in Closing => basis'[b].gone
  BY DEF EvidenceInv, LocalTypes, Goto

(* A scan of the whole branch is honest.                                   *)
LEMMA ViewsAreHonest ==
  ASSUME WholeScans, NEW v \in Views
  PROVE  v \in Scans /\ Honest(v)
<1>1. "failed" \notin Circumstances /\ "partial" \notin Circumstances
  BY DEF WholeScans
<1>2. v \in Scans /\ v.gone = ~present /\ v.scanner \in {"ok", "missing"}
  BY <1>1 DEF Views, ScannerOutcomes
<1>3. present /\ v.scanner = "ok" => v.seen
  BY <1>1 DEF Views
<1> QED
  BY <1>2, <1>3 DEF Honest, Scans

(* The verdict "verified" needs a scan in which the finding is gone.       *)
LEMMA VerifiedIsGone ==
  ASSUME WholeScans, NEW v, Honest(v), Verify(v) = "verified"
  PROVE  v.gone
  BY DEF WholeScans, Honest, Verify

(* And so does the finding's reconciliation.                               *)
LEMMA AlreadyFixedIsGone ==
  ASSUME NEW v \in Scans, Honest(v), AlreadyFixed(v)
  PROVE  v.gone
  BY DEF Honest, AlreadyFixed, Scans

(* Every step keeps the invariant.                                         *)
LEMMA StepKeepsEvidence ==
  ASSUME WholeScans, EvidenceInv, [ClosureNext]_closureVars
  PROVE  EvidenceInv'
<1> USE DEF EvidenceInv
<1>1. ASSUME NEW a \in Agents, Step(a) PROVE EvidenceInv'
  <2>1. CASE Analyse(a)
    <3>1. PICK v \in Views : basis' = [basis EXCEPT ![a] = v]
      BY <2>1 DEF Analyse
    <3>2. v \in Scans /\ Honest(v)
      BY ViewsAreHonest
    <3> QED
      BY <2>1, <3>1, <3>2 DEF Analyse, Goto, LocalTypes, Steps, Closing
  <2>2. CASE RecordScan(a)
    <3>1. finding' \in FindingStatuses
      BY <2>2 DEF RecordScan, UpsertedStatus, LocalTypes, FindingStatuses
    <3>2. last' \in Scans \union {NoScan} /\ Honest(last')
      BY <2>2 DEF RecordScan, LocalTypes
    <3>3. CASE Finish(a)
      BY <3>1, <3>2, <3>3, FinishKeeps DEF LocalTypes
    <3>4. CASE Goto(a, "list_prs") /\ UNCHANGED basis
      BY <3>1, <3>2, <3>4, GotoKeeps DEF LocalTypes, Steps, Closing
    <3> QED
      BY <2>2, <3>3, <3>4 DEF RecordScan
  <2>3. CASE ListOpenAttempts(a)
    <3>1. UNCHANGED <<finding, last>>
      BY <2>3 DEF ListOpenAttempts, scanVars
    <3>2. CASE Finish(a)
      BY <3>1, <3>2, FinishKeeps DEF LocalTypes
    <3>3. CASE Goto(a, "detect") /\ UNCHANGED basis
      BY <3>1, <3>3, GotoKeeps DEF LocalTypes, Steps, Closing
    <3>4. CASE AfterMergeCheck(a) /\ UNCHANGED basis
      BY <3>1, <3>4, GotoKeeps DEF AfterMergeCheck, LocalTypes, Steps, Closing
    <3> QED
      BY <2>3, <3>2, <3>3, <3>4 DEF ListOpenAttempts
  <2>4. CASE DetectMerge(a)
    BY <2>4, GotoKeeps DEF DetectMerge, AfterMergeCheck, LocalTypes, Steps, Closing, scanVars
  <2>5. CASE UpdatePatchAttemptMerged(a)
    BY <2>5, GotoKeeps
    DEF UpdatePatchAttemptMerged, AfterMergeCheck, LocalTypes, Steps, Closing, scanVars
  <2>6. CASE SaveClosureEvidence(a)
    BY <2>6, GotoKeeps
    DEF SaveClosureEvidence, AfterMergeCheck, LocalTypes, Steps, Closing, scanVars
  <2>7. CASE onPRMerged(a)
    BY <2>7, GotoKeeps
    DEF onPRMerged, AfterMergeCheck, LocalTypes, Steps, Closing, scanVars, FindingStatuses
  <2>8. CASE RecordDirectRemediation(a)
    BY <2>8 DEF RecordDirectRemediation, LocalTypes, scanVars, localVars
  <2>9. CASE ListPending(a)
    <3>1. UNCHANGED <<finding, last>>
      BY <2>9 DEF ListPending, scanVars
    <3>2. CASE Finish(a)
      BY <3>1, <3>2, FinishKeeps DEF LocalTypes
    <3>3. CASE Goto(a, "verify") /\ UNCHANGED basis
      BY <3>1, <3>3, GotoKeeps DEF LocalTypes, Steps, Closing
    <3> QED
      BY <2>9, <3>2, <3>3 DEF ListPending
  <2>10. CASE VerifyFindingClosure(a)
    <3>1. PICK v \in {last, [last EXCEPT !.scanner = "missing"]} :
              basis' = [basis EXCEPT ![a] = v]
      BY <2>10 DEF VerifyFindingClosure, WholeScans
    <3>2. v \in Scans /\ Honest(v)
      BY <2>10 DEF VerifyFindingClosure, LocalTypes, Scans, Honest
    <3> QED
      BY <2>10, <3>1, <3>2
      DEF VerifyFindingClosure, Goto, LocalTypes, Steps, Closing, scanVars
  <2>11. CASE EnsureClosureEvidenceRow(a)
    <3>1. UNCHANGED <<finding, last>>
      BY <2>11 DEF EnsureClosureEvidenceRow, scanVars
    <3>2. CASE Finish(a)
      BY <3>1, <3>2, FinishKeeps DEF LocalTypes
    <3>3. CASE Goto(a, "verify") /\ UNCHANGED basis
      BY <3>1, <3>3, GotoKeeps DEF LocalTypes, Steps, Closing
    <3> QED
      BY <2>11, <3>2, <3>3 DEF EnsureClosureEvidenceRow
  <2>12. CASE UpdateClosureEvidence(a)
    <3>1. UNCHANGED <<finding, last, basis>>
      BY <2>12 DEF UpdateClosureEvidence, scanVars
    <3>2. UNCHANGED pc \/ Goto(a, "outcome")
      BY <2>12 DEF UpdateClosureEvidence
    <3> QED
      BY <3>1, <3>2, GotoKeeps DEF LocalTypes, Steps, Closing
  <2>13. CASE AllVerified(a)
    BY <2>13, FinishKeeps DEF AllVerified, LocalTypes, scanVars
  <2>14. CASE applyOutcome(a)
    <3>1. finding' \in FindingStatuses
      BY <2>14 DEF applyOutcome, LocalTypes, storeFindingStatus, Verify, FindingStatuses
    <3>2. UNCHANGED <<last, basis>>
      BY <2>14 DEF applyOutcome, scanVars
    <3>3. CASE Verify(basis[a]) = "verified" /\ "close_issues" \in Settings
      <4>1. basis[a].gone
        BY <3>3, VerifiedIsGone
      <4>2. Goto(a, "close")
        BY <2>14, <3>3 DEF applyOutcome
      <4> QED
        BY <3>1, <3>2, <4>1, <4>2 DEF Goto, LocalTypes, Steps, Closing
    <3>4. CASE ~(Verify(basis[a]) = "verified" /\ "close_issues" \in Settings)
      <4>1. Goto(a, "verify")
        BY <2>14, <3>4 DEF applyOutcome
      <4> QED
        BY <3>1, <3>2, <4>1, GotoKeeps DEF LocalTypes, Steps, Closing
    <3> QED
      BY <3>3, <3>4
  <2>15. CASE CloseIssue(a)
    BY <2>15, GotoKeeps DEF CloseIssue, LocalTypes, Steps, Closing, scanVars
  <2>16. CASE Classify(a)
    <3>1. last \in Scans /\ last.gone
      BY <2>16, AlreadyFixedIsGone DEF Classify, LocalTypes
    <3> QED
      BY <2>16, <3>1 DEF Classify, Goto, LocalTypes, Steps, Closing, scanVars
  <2>17. CASE ReconcileClose(a)
    <3>1. UNCHANGED <<finding, last>>
      BY <2>17 DEF ReconcileClose, scanVars
    <3>2. CASE Finish(a)
      BY <3>1, <3>2, FinishKeeps DEF LocalTypes
    <3>3. CASE Goto(a, "reconcile_map") /\ UNCHANGED basis
      BY <2>17, <3>1, <3>3 DEF ReconcileClose, Goto, LocalTypes, Steps, Closing
    <3> QED
      BY <2>17, <3>2, <3>3 DEF ReconcileClose
  <2>18. CASE ReconcileMap(a)
    <3>1. UNCHANGED <<finding, last>>
      BY <2>18 DEF ReconcileMap, scanVars
    <3>2. CASE Finish(a)
      BY <3>1, <3>2, FinishKeeps DEF LocalTypes
    <3>3. CASE Goto(a, "reconcile_status") /\ UNCHANGED basis
      BY <2>18, <3>1, <3>3 DEF ReconcileMap, Goto, LocalTypes, Steps, Closing
    <3> QED
      BY <2>18, <3>2, <3>3 DEF ReconcileMap
  <2>19. CASE ReconcileStatus(a)
    BY <2>19, FinishKeeps DEF ReconcileStatus, LocalTypes, scanVars, FindingStatuses
  <2> QED
    BY <1>1, <2>1, <2>2, <2>3, <2>4, <2>5, <2>6, <2>7, <2>8, <2>9, <2>10, <2>11,
       <2>12, <2>13, <2>14, <2>15, <2>16, <2>17, <2>18, <2>19 DEF Step
<1>2. CASE MergePR
  BY <1>2 DEF MergePR, LocalTypes, scanVars, localVars
<1>3. CASE Push
  BY <1>3 DEF Push, LocalTypes, scanVars, localVars
<1>4. CASE UNCHANGED closureVars
  BY <1>4 DEF closureVars, LocalTypes, scanVars, localVars
<1> QED
  BY <1>1, <1>2, <1>3, <1>4 DEF ClosureNext

(* Who resolves the finding, or closes the issue, works on a scan at whose *)
(* start the finding was gone.                                             *)
LEMMA StepClosesOnEvidence ==
  ASSUME WholeScans, EvidenceInv, [ClosureNext]_closureVars, NEW a \in Agents,
         pc[a] # pc'[a],
         \/ finding # "resolved_verified" /\ finding' = "resolved_verified"
         \/ issueOpen /\ ~issueOpen'
  PROVE  basis[a].gone
<1>1. PICK b \in Agents : Step(b)
  BY DEF ClosureNext, MergePR, Push, closureVars, localVars
<1>2. pc' = [pc EXCEPT ![b] = pc'[b]]
  BY <1>1 DEF Step, Analyse, RecordScan, ListOpenAttempts, DetectMerge,
     UpdatePatchAttemptMerged, SaveClosureEvidence, onPRMerged, RecordDirectRemediation,
     ListPending, VerifyFindingClosure, EnsureClosureEvidenceRow, UpdateClosureEvidence,
     AllVerified, applyOutcome, CloseIssue, Classify, ReconcileClose, ReconcileMap,
     ReconcileStatus, AfterMergeCheck, Finish, Goto, EvidenceInv, LocalTypes, localVars
<1>3. a = b
  BY <1>2 DEF EvidenceInv, LocalTypes
<1>4. \/ applyOutcome(a) \/ CloseIssue(a) \/ ReconcileClose(a) \/ ReconcileStatus(a)
  BY <1>1, <1>3 DEF Step, Analyse, RecordScan, ListOpenAttempts, DetectMerge,
     UpdatePatchAttemptMerged, SaveClosureEvidence, onPRMerged, RecordDirectRemediation,
     ListPending, VerifyFindingClosure, EnsureClosureEvidenceRow, UpdateClosureEvidence,
     AllVerified, Classify, ReconcileMap, UpsertedStatus, issueVars
<1>5. CASE applyOutcome(a)
  <2>1. UNCHANGED issueOpen
    BY <1>5 DEF applyOutcome, issueVars
  <2>2. storeFindingStatus(Verify(basis[a])) = "resolved_verified"
    BY <1>5, <2>1 DEF applyOutcome
  <2>3. Verify(basis[a]) = "verified"
    BY <2>2 DEF storeFindingStatus, Verify
  <2> QED
    BY <2>3, VerifiedIsGone DEF EvidenceInv
<1> QED
  BY <1>4, <1>5 DEF CloseIssue, ReconcileClose, ReconcileStatus, EvidenceInv, Closing

(* The finding is marked resolved, and its issue closed, only by an agent  *)
(* that works on a scan at whose start the fingerprint was gone: the rule  *)
(* of docs/FINDING_RESOLUTION_SEMANTICS.md, where scans are of the whole   *)
(* branch.                                                                 *)
THEOREM ResolvedOnEvidence ==
  ASSUME WholeScans PROVE ClosureSpec => ClosedOnEvidence
<1>1. ClosureInit => EvidenceInv
  BY InitEvidence
<1>2. EvidenceInv /\ [ClosureNext]_closureVars => EvidenceInv'
  BY StepKeepsEvidence
<1>3. EvidenceInv /\ [ClosureNext]_closureVars =>
        [ \A a \in Agents :
            /\ pc[a] # pc'[a]
            /\ \/ finding # "resolved_verified" /\ finding' = "resolved_verified"
               \/ issueOpen /\ ~issueOpen'
            => basis[a].gone ]_closureVars
  BY StepClosesOnEvidence
<1> QED
  BY <1>1, <1>2, <1>3, PTL DEF ClosureSpec, ClosedOnEvidence
=============================================================================
