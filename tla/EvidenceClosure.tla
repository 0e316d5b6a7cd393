---------------------------- MODULE EvidenceClosure ----------------------------
(***************************************************************************)
(* Resolving ONE finding of a repository: evidence closure after a merged  *)
(* remediation PR (closure/engine.go) and issue reconciliation             *)
(* (reconcile/engine.go), beside the scans that persist the finding        *)
(* (store/recorder.go).                                                    *)
(*                                                                         *)
(* An agent runs scans and serves API requests, one after the other.  All  *)
(* agents run at the same time; every SQL statement and every forge call   *)
(* is a step of its own.  A scan works on what it saw of the default       *)
(* branch when it started; the API requests work on the newest scan that   *)
(* was completed.                                                          *)
(***************************************************************************)
EXTENDS Naturals, Sequences, FiniteSets

CONSTANTS
    Agents,     \* scans and API requests
    Roles,      \* what each agent does, in turn, see Kinds
    Settings,   \* the configuration switches that are on, see Switches
    Circumstances, \* what may happen besides the normal course
    MaxRows,    \* bound: rows an operator's direct remediations may add up to
    MaxFaults   \* bound: statements and forge calls that fail

\* A scan; POST check-merge, verify-closure, closure-evidence, reconcile-issues.
AgentKinds == {"scan", "check", "verify", "record", "reconcile"}

\* "close_issues" stands for the comment and the close switch together.
Switches == {"require_scanner_success", "close_issues", "close_verified"}

(* "push"    developers remove and reintroduce the finding outside the PR      *)
(* "partial" scans may be of changed files only, or of a PR's branch           *)
(* "missing" the finding's scanner may not run in a scan                       *)
(* "failed"  the finding's scanner may run and fail                            *)
(* "unread"  the fingerprints of a completed scan may not be readable          *)
CircumstanceKinds == {"push", "partial", "missing", "failed", "unread"}

ASSUME AgentsAssumption == Roles \in [Agents -> SUBSET AgentKinds]
ASSUME SettingsAssumption == Settings \subseteq Switches
ASSUME CircumstancesAssumption == Circumstances \subseteq CircumstanceKinds
ASSUME BoundsAssumption == MaxRows \in Nat /\ MaxFaults \in Nat

VARIABLES
    present,    \* the fingerprint is on the default branch
    merged,     \* the remediation PR is merged on the forge
    attempt,    \* status of its patch_attempts row
    evidence,   \* statuses of the finding's closure_evidence rows
    newest,     \* the row updated last, 0 for none
    finding,    \* findings.status
    issueOpen,  \* the finding's issue is open on the forge
    mapOpen,    \* its external_issues row is open
    last,       \* the newest completed scan, by start
    earlier,    \* per scan that is not completed: those started before it that
                \* are not either
    outdated,   \* those of which a later scan has been completed already
    pc, basis, todo,    \* per agent: step, the scan it works on, and the
                        \* evidence rows it has to verify
    faults      \* failures so far

branchVars == <<present, merged>>
evidenceVars == <<attempt, evidence, newest>>
issueVars == <<issueOpen, mapOpen>>
scanVars == <<last, earlier, outdated>>
localVars == <<pc, basis, todo>>
closureVars == <<branchVars, evidenceVars, finding, issueVars, scanVars, localVars, faults>>

Steps == {"idle", "analysed", "list_prs", "detect", "mark_merged", "save",
          "onPRMerged", "list_rows", "ensure", "verify", "outcome", "close",
          "reconcile_close", "reconcile_map", "reconcile_status"}

Verdicts == {"verified", "still_present", "blocked"}
RowStatuses == Verdicts \union {"pending_rescan"}
FindingStatuses == {"open", "pending_rescan", "resolved_verified", "still_present",
                    "closure_blocked"}

\* What a scan knows of the finding, and whether it really was gone by then.
Scans == [seen : BOOLEAN, scanner : {"ok", "failed", "missing"}, gone : BOOLEAN]
NoScan == [seen |-> FALSE, scanner |-> "none", gone |-> FALSE]

Pending == {i \in DOMAIN evidence : evidence[i] = "pending_rescan"}

ClosureInit ==
    /\ present = TRUE /\ merged = FALSE
    /\ attempt = "pr_opened"
    /\ evidence = <<>> /\ newest = 0
    /\ finding = "open"
    /\ issueOpen = TRUE /\ mapOpen = TRUE
    /\ last = NoScan /\ earlier = [a \in Agents |-> {}] /\ outdated = {}
    /\ pc = [a \in Agents |-> "idle"]
    /\ basis = [a \in Agents |-> NoScan]
    /\ todo = [a \in Agents |-> {}]
    /\ faults = 0

(***************************************************************************)
(* Control.                                                                *)
(***************************************************************************)
Goto(a, step) == pc' = [pc EXCEPT ![a] = step]

\* A statement or a forge call succeeds, or it fails.
Succeeds == UNCHANGED faults
Fails == faults < MaxFaults /\ faults' = faults + 1

\* The merge check ends: a scan goes on to the evidence rows, a request is over.
AfterMergeCheck(a) == Goto(a, IF basis[a] = NoScan THEN "idle" ELSE "list_rows")

\* The agent starts over, with nothing in hand.
Finish(a) ==
    /\ Goto(a, "idle")
    /\ basis' = [basis EXCEPT ![a] = NoScan]
    /\ todo' = [todo EXCEPT ![a] = {}]

(***************************************************************************)
(* A scan: analysis, persistence, then the post-analysis pass.             *)
(***************************************************************************)
ScannerOutcomes == {"ok"} \union (Circumstances \intersect {"missing", "failed"})

\* A scan sees the fingerprint only if it is there and the scanner worked; a
\* scan of the whole branch whose scanner worked sees it if it is there.
Views ==
    {v \in Scans :
        /\ v.gone = ~present
        /\ v.scanner \in ScannerOutcomes
        /\ v.seen => present /\ v.scanner = "ok"
        /\ present /\ v.scanner = "ok" /\ "partial" \notin Circumstances => v.seen}

Running == {b \in Agents : pc[b] = "analysed"}

Analyse(a) ==
    /\ pc[a] = "idle" /\ "scan" \in Roles[a]
    /\ \E v \in Views : basis' = [basis EXCEPT ![a] = v]
    /\ earlier' = [earlier EXCEPT ![a] = Running]
    /\ Goto(a, "analysed")
    /\ UNCHANGED <<branchVars, evidenceVars, finding, issueVars, last, outdated,
                   todo, faults>>

\* A finding that was resolved, or whose closure was blocked, keeps its status
\* when a scan sees it again.
UpsertedStatus ==
    IF finding \in {"resolved_verified", "closure_blocked"} THEN finding ELSE "open"

\* The scan is no longer running.
LeaveOrder(a) == earlier' = [b \in Agents |-> IF b = a THEN {} ELSE earlier[b] \ {a}]

\* Findings are upserted in one transaction, and the scan is completed; when
\* either fails the scan stays incomplete and the pass returns.
RecordScan(a) ==
    /\ pc[a] = "analysed"
    /\ \/ /\ Succeeds
          /\ finding' = IF basis[a].seen THEN UpsertedStatus ELSE finding
          /\ last' = IF a \in outdated THEN last ELSE basis[a]
          /\ outdated' = (outdated \union earlier[a]) \ {a}
          /\ Goto(a, "list_prs")
          /\ UNCHANGED <<basis, todo>>
       \/ /\ Fails
          /\ finding' \in {finding, IF basis[a].seen THEN UpsertedStatus ELSE finding}
          /\ outdated' = outdated \ {a}
          /\ Finish(a)
          /\ UNCHANGED last
    /\ LeaveOrder(a)
    /\ UNCHANGED <<branchVars, evidenceVars, issueVars>>

(***************************************************************************)
(* Noticing the merge.                                                     *)
(***************************************************************************)

\* Mutant: the attempts are listed by the status they are to get.
ListOpenAttempts_Merged(a) ==
    /\ \/ pc[a] = "list_prs"
       \/ pc[a] = "idle" /\ "check" \in Roles[a]
    /\ IF attempt = "pr_merged" THEN Goto(a, "detect") ELSE AfterMergeCheck(a)
    /\ UNCHANGED <<branchVars, evidenceVars, finding, issueVars, scanVars,
                   basis, todo, faults>>

\* A scan lists the attempts whose PR is open; a request names the attempt.
ListOpenAttempts(a) ==
    /\ \/ pc[a] = "list_prs"
       \/ pc[a] = "idle" /\ "check" \in Roles[a]
    /\ \/ /\ Succeeds
          /\ IF attempt = "pr_opened" THEN Goto(a, "detect") ELSE AfterMergeCheck(a)
          /\ UNCHANGED <<basis, todo>>
       \/ Fails /\ Finish(a)
    /\ UNCHANGED <<branchVars, evidenceVars, finding, issueVars, scanVars>>

DetectMerge(a) ==
    /\ pc[a] = "detect"
    /\ \/ Succeeds /\ merged /\ Goto(a, "mark_merged")
       \/ Succeeds /\ ~merged /\ AfterMergeCheck(a)
       \/ Fails /\ AfterMergeCheck(a)
    /\ UNCHANGED <<branchVars, evidenceVars, finding, issueVars, scanVars, basis, todo>>

UpdatePatchAttemptMerged(a) ==
    /\ pc[a] = "mark_merged"
    /\ \/ Succeeds /\ attempt' = "pr_merged" /\ Goto(a, "save")
       \/ Fails /\ AfterMergeCheck(a) /\ UNCHANGED attempt
    /\ UNCHANGED <<branchVars, evidence, newest, finding, issueVars, scanVars, basis, todo>>

\* Mutant: the row's updated_at is left to the verification.
AddPendingRow_Undated ==
    /\ evidence' = Append(evidence, "pending_rescan")
    /\ UNCHANGED newest

AddPendingRow ==
    /\ evidence' = Append(evidence, "pending_rescan")
    /\ newest' = Len(evidence) + 1

\* If this fails the attempt stays merged and nothing ever adds the row.
SaveClosureEvidence(a) ==
    /\ pc[a] = "save"
    /\ \/ Succeeds /\ AddPendingRow /\ Goto(a, "onPRMerged")
       \/ Fails /\ AfterMergeCheck(a) /\ UNCHANGED <<evidence, newest>>
    /\ UNCHANGED <<branchVars, attempt, finding, issueVars, scanVars, basis, todo>>

\* The error of the update is dropped.
onPRMerged(a) ==
    /\ pc[a] = "onPRMerged"
    /\ \/ Succeeds /\ finding' = "pending_rescan"
       \/ Fails /\ UNCHANGED finding
    /\ AfterMergeCheck(a)
    /\ UNCHANGED <<branchVars, evidenceVars, issueVars, scanVars, basis, todo>>

\* An operator reports a fix pushed to the default branch.
RecordDirectRemediation(a) ==
    /\ pc[a] = "idle" /\ "record" \in Roles[a]
    /\ Len(evidence) < MaxRows
    /\ AddPendingRow
    /\ UNCHANGED <<branchVars, attempt, finding, issueVars, scanVars, localVars, faults>>

(***************************************************************************)
(* Verification.                                                           *)
(***************************************************************************)

\* Mutant: rows are listed by the status that was decided last.
ListPending_Blocked(a) ==
    /\ pc[a] = "list_rows"
    /\ todo' = [todo EXCEPT ![a] = {i \in DOMAIN evidence : evidence[i] = "blocked"}]
    /\ Goto(a, "verify")
    /\ UNCHANGED <<branchVars, evidenceVars, finding, issueVars, scanVars,
                   basis, faults>>

ListPending(a) ==
    /\ pc[a] = "list_rows"
    /\ \/ /\ Succeeds
          /\ todo' = [todo EXCEPT ![a] = Pending]
          /\ Goto(a, "verify")
          /\ UNCHANGED basis
       \/ Fails /\ Finish(a)
    /\ UNCHANGED <<branchVars, evidenceVars, finding, issueVars, scanVars>>

\* POST verify-closure takes the newest completed scan, whatever its scope.  The
\* scan's fingerprints and its scanners' results are two lists; one that cannot
\* be read passes for empty ...
VerifyFindingClosure(a) ==
    /\ pc[a] = "idle" /\ "verify" \in Roles[a]
    /\ last # NoScan
    /\ \/ Succeeds /\ basis' = [basis EXCEPT ![a] = last]
       \/ Fails /\ basis' = [basis EXCEPT ![a] = [last EXCEPT !.scanner = "missing"]]
       \/ /\ "unread" \in Circumstances /\ Fails
          /\ basis' = [basis EXCEPT ![a] = [last EXCEPT !.seen = FALSE]]
    /\ Goto(a, "ensure")
    /\ UNCHANGED <<branchVars, evidenceVars, finding, issueVars, scanVars, todo>>

\* ... and the row updated last, or a new one.
EnsureClosureEvidenceRow(a) ==
    /\ pc[a] = "ensure"
    /\ \/ /\ Succeeds
          /\ IF evidence = <<>> THEN AddPendingRow ELSE UNCHANGED <<evidence, newest>>
          /\ todo' = [todo EXCEPT ![a] = {newest'}]
          /\ Goto(a, "verify")
          /\ UNCHANGED basis
       \/ Fails /\ Finish(a) /\ UNCHANGED <<evidence, newest>>
    /\ UNCHANGED <<branchVars, attempt, finding, issueVars, scanVars>>

\* Mutant: a scanner without a result is no obstacle.
Verify_IgnoresScanner(v) == IF v.seen THEN "still_present" ELSE "verified"

\* Every row has a merge commit or an attempt, and every scan an id, so the
\* early returns of Verify are not reached.
Verify(v) ==
    CASE v.seen -> "still_present"
      [] ~v.seen /\ "require_scanner_success" \in Settings /\ v.scanner # "ok" -> "blocked"
      [] OTHER -> "verified"

\* The rows are decided one by one, as listed: what has become of a row since is
\* not asked.
UpdateClosureEvidence(a) ==
    /\ pc[a] = "verify"
    /\ \E i \in todo[a] :
         /\ todo' = [todo EXCEPT ![a] = todo[a] \ {i}]
         /\ \/ /\ Succeeds
               /\ evidence' = [evidence EXCEPT ![i] = Verify(basis[a])]
               /\ newest' = i
               /\ Goto(a, "outcome")
            \/ Fails /\ UNCHANGED <<evidence, newest, pc>>
    /\ UNCHANGED <<branchVars, attempt, finding, issueVars, scanVars, basis>>

AllVerified(a) ==
    /\ pc[a] = "verify" /\ todo[a] = {}
    /\ Finish(a)
    /\ UNCHANGED <<branchVars, evidenceVars, finding, issueVars, scanVars, faults>>

storeFindingStatus(v) ==
    CASE v = "verified" -> "resolved_verified"
      [] v = "still_present" -> "still_present"
      [] v = "blocked" -> "closure_blocked"

applyOutcome(a) ==
    /\ pc[a] = "outcome"
    /\ \/ Succeeds /\ finding' = storeFindingStatus(Verify(basis[a]))
       \/ Fails /\ UNCHANGED finding
    /\ Goto(a, IF Verify(basis[a]) = "verified" /\ "close_issues" \in Settings
               THEN "close" ELSE "verify")
    /\ UNCHANGED <<branchVars, evidenceVars, issueVars, scanVars, basis, todo>>

\* The mapping is left to the next refresh.
CloseIssue(a) ==
    /\ pc[a] = "close"
    /\ \/ Succeeds /\ issueOpen' = FALSE
       \/ Fails /\ UNCHANGED issueOpen
    /\ Goto(a, "verify")
    /\ UNCHANGED <<branchVars, evidenceVars, finding, mapOpen, scanVars, basis, todo>>

(***************************************************************************)
(* Reconciliation.                                                         *)
(***************************************************************************)

\* Mutant: the scanner's result is not asked for.
AlreadyFixed_NoScanner(v) == ~v.seen

\* Absent from the newest scan, in which the scanner has some result.
AlreadyFixed(v) == ~v.seen /\ v.scanner # "missing"

\* Everything else classify proposes is a comment or a label.
Classify(a) ==
    /\ pc[a] = "idle" /\ "reconcile" \in Roles[a]
    /\ last # NoScan /\ AlreadyFixed(last)
    /\ mapOpen /\ "close_verified" \in Settings
    /\ basis' = [basis EXCEPT ![a] = last]
    /\ Goto(a, "reconcile_close")
    /\ UNCHANGED <<branchVars, evidenceVars, finding, issueVars, scanVars, todo, faults>>

ReconcileClose(a) ==
    /\ pc[a] = "reconcile_close"
    /\ \/ /\ Succeeds
          /\ issueOpen' = FALSE
          /\ Goto(a, "reconcile_map")
          /\ UNCHANGED <<basis, todo>>
       \/ Fails /\ UNCHANGED issueOpen /\ Finish(a)
    /\ UNCHANGED <<branchVars, evidenceVars, finding, mapOpen, scanVars>>

ReconcileMap(a) ==
    /\ pc[a] = "reconcile_map"
    /\ \/ /\ Succeeds
          /\ mapOpen' = FALSE
          /\ Goto(a, "reconcile_status")
          /\ UNCHANGED <<basis, todo>>
       \/ Fails /\ UNCHANGED mapOpen /\ Finish(a)
    /\ UNCHANGED <<branchVars, evidenceVars, finding, issueOpen, scanVars>>

ReconcileStatus(a) ==
    /\ pc[a] = "reconcile_status"
    /\ \/ Succeeds /\ finding' = "resolved_verified"
       \/ Fails /\ UNCHANGED finding
    /\ Finish(a)
    /\ UNCHANGED <<branchVars, evidenceVars, issueVars, scanVars>>

(***************************************************************************)
(* The repository.                                                         *)
(***************************************************************************)

\* The PR need not remove the finding.
MergePR ==
    /\ ~merged /\ merged' = TRUE
    /\ present' \in {present, FALSE}
    /\ UNCHANGED <<evidenceVars, finding, issueVars, scanVars, localVars, faults>>

Push ==
    /\ "push" \in Circumstances
    /\ present' = ~present
    /\ UNCHANGED <<merged, evidenceVars, finding, issueVars, scanVars, localVars, faults>>

Step(a) ==
    \/ Analyse(a)
    \/ RecordScan(a)
    \/ ListOpenAttempts(a)
    \/ DetectMerge(a)
    \/ UpdatePatchAttemptMerged(a)
    \/ SaveClosureEvidence(a)
    \/ onPRMerged(a)
    \/ RecordDirectRemediation(a)
    \/ ListPending(a)
    \/ VerifyFindingClosure(a)
    \/ EnsureClosureEvidenceRow(a)
    \/ UpdateClosureEvidence(a)
    \/ AllVerified(a)
    \/ applyOutcome(a)
    \/ CloseIssue(a)
    \/ Classify(a)
    \/ ReconcileClose(a)
    \/ ReconcileMap(a)
    \/ ReconcileStatus(a)

ClosureNext == (\E a \in Agents : Step(a)) \/ MergePR \/ Push

ClosureSpec == ClosureInit /\ [][ClosureNext]_closureVars

\* Scans are started again and again, and what was started goes on; nobody has
\* to send a request.
Goes(a) == Step(a) /\ ("scan" \in Roles[a] \/ pc[a] # "idle")
ClosureFairSpec == ClosureSpec /\ \A a \in Agents : WF_closureVars(Goes(a))
-----------------------------------------------------------------------------
(***************************************************************************)
(* Properties.                                                             *)
(***************************************************************************)

\* An agent verifies rows that exist and the newest row is one of them.
ClosureTypeOK ==
    /\ present \in BOOLEAN /\ merged \in BOOLEAN
    /\ attempt \in {"pr_opened", "pr_merged"}
    /\ evidence \in Seq(RowStatuses)
    /\ newest \in 0..Len(evidence)
    /\ newest = 0 <=> evidence = <<>>
    /\ finding \in FindingStatuses
    /\ issueOpen \in BOOLEAN /\ mapOpen \in BOOLEAN
    /\ last \in Scans \union {NoScan}
    /\ earlier \in [Agents -> SUBSET Agents] /\ outdated \in SUBSET Agents
    /\ pc \in [Agents -> Steps]
    /\ basis \in [Agents -> Scans \union {NoScan}]
    /\ todo \in [Agents -> SUBSET (DOMAIN evidence)]
    /\ faults \in 0..MaxFaults

(* The rule of docs/FINDING_RESOLUTION_SEMANTICS.md: the finding is marked     *)
(* resolved, and its issue closed, only by an agent that works on a scan at    *)
(* whose start the fingerprint was gone from the default branch -- whichever   *)
(* agents interleave, and however scans, merges and requests are ordered.      *)
(* Holds if scans are of the whole branch, a scanner either works or is        *)
(* missing from the results, and the fingerprints of a scan can be read.       *)
ClosedOnEvidence ==
    [][ \A a \in Agents :
          /\ pc[a] # pc'[a]
          /\ \/ finding # "resolved_verified" /\ finding' = "resolved_verified"
             \/ issueOpen /\ ~issueOpen'
          => basis[a].gone ]_closureVars

(* Every evidence row is decided by some later scan: time and again none is    *)
(* pending, although a scan decides only the rows it listed and its update may *)
(* fail.                                                                       *)
PendingIsDecided == []<>(Pending = {})

(* A merge is noticed, by a scan or a request.                                 *)
MergeIsNoticed == []<>(merged => attempt = "pr_merged")

(* Nothing about a fix is left undecided: the merge is noticed, and every row   *)
(* of evidence for it decided (CheckPatchAttemptMerge, verifyPending).          *)
EvidenceIsSettled == PendingIsDecided /\ MergeIsNoticed
=============================================================================
