--------------------------- MODULE PreinstallAudit ---------------------------
(***************************************************************************)
(* A pre-install audit of a repository that is not connected               *)
(* (preinstall/runner.go, preinstall/risk.go, store/preinstall_sqlite.go): *)
(* from its row in audit_requests to its reports.  All that the audit      *)
(* does, its last writes too, is done under one context with a deadline.   *)
(*                                                                         *)
(* Findings are kinds that the score and the filters tell apart:           *)
(* "skipped" is in a path that the filter drops.                           *)
(***************************************************************************)
EXTENDS Naturals, Sequences, FiniteSets

CONSTANTS
    MaxFindings,    \* MaxFindings
    MaxGathered,    \* bound: findings of a repository
    Scanners        \* bound: scanners that may fail

ASSUME InstallAssumptions ==
    {MaxFindings, MaxGathered, Scanners} \subseteq Nat

VARIABLES
    stop,       \* what may go wrong, and SandboxRetainOnFailure
    place,      \* where the audit is
    clock,      \* its context: live or out
    entry,      \* status and recommendation of its row
    workspace,  \* its directory is there
    gathered,   \* the findings of scanners and checks, in their order
    bad,        \* how many scanners failed, whatever the reason
    cutOff,     \* the deadline came before the end of the scanners
    stored,     \* its findings and reports are stored
    broken      \* history: a call to the store failed, or the process died

installVars == <<stop, place, clock, entry, workspace, gathered, bad, cutOff, stored, broken>>

FindingKinds == {"skipped", "minor", "secret", "grave"}
Row0 == [status |-> "none", recommendation |-> "unknown"]

InstallInit ==
    /\ stop \in [error : BOOLEAN, death : BOOLEAN, retain : BOOLEAN]
    /\ place = "idle" /\ clock = "live" /\ entry = Row0
    /\ workspace = FALSE /\ gathered = <<>> /\ bad = 0 /\ cutOff = FALSE
    /\ stored = {} /\ broken = FALSE

\* StartAudit: without a row there is no audit.
StartAudit ==
    /\ place = "idle" /\ place' = "load"
    /\ entry' = [entry EXCEPT !.status = "queued"]
    /\ UNCHANGED <<stop, clock, workspace, gathered, bad, cutOff, stored, broken>>

Deadline ==
    /\ place \notin {"idle", "over"} /\ clock = "live" /\ clock' = "out"
    /\ UNCHANGED <<stop, place, entry, workspace, gathered, bad, cutOff, stored, broken>>

\* A mutant: the row is written under a context without a deadline.
Store_Detached == TRUE

\* A call to the store goes through.
Store == clock = "live"
StoreFails == clock = "out" \/ stop.error

UpdateAuditRequest(row) ==
    \/ Store /\ entry' = row /\ UNCHANGED broken
    \/ StoreFails /\ broken' = TRUE /\ UNCHANGED entry

\* The deferred cleanup, which a failure may keep away.
Leave(keep) == place' = "over" /\ workspace' = (workspace /\ keep)

\* A mutant: with a status that no reader knows.
Failed_Misspelt == [status |-> "error", recommendation |-> "audit_failed"]

Failed == [status |-> "failed", recommendation |-> "audit_failed"]

\* A mutant: a failure that is no one's scanner is only logged.
FailInstall_Logged == Leave(stop.retain) /\ UNCHANGED <<entry, broken>>

FailInstall == UpdateAuditRequest(Failed) /\ Leave(stop.retain)

\* The row is read and marked as running; if that fails the audit is over.
MarkRunning ==
    /\ place = "load"
    /\ \/ /\ Store /\ place' = "clone" /\ entry' = [entry EXCEPT !.status = "running"]
          /\ UNCHANGED <<workspace, broken>>
       \/ StoreFails /\ Leave(FALSE) /\ broken' = TRUE /\ UNCHANGED entry
    /\ UNCHANGED <<stop, clock, gathered, bad, cutOff, stored>>

\* A clone that fails removes what it has itself.
ShallowClone ==
    /\ place = "clone"
    /\ \/ clock = "live" /\ place' = "list" /\ workspace' = TRUE /\ UNCHANGED <<entry, broken>>
       \/ FailInstall
    /\ UNCHANGED <<stop, clock, gathered, bad, cutOff, stored>>

ListWorkspaceFiles ==
    /\ place = "list"
    /\ \/ place' = "scan" /\ UNCHANGED <<entry, broken, workspace>>
       \/ FailInstall
    /\ UNCHANGED <<stop, clock, gathered, bad, cutOff, stored>>

\* Scanners, their failures and the checks; a graph that is not saved is not
\* missed.
RunScanners ==
    /\ place = "scan" /\ place' = "conclude" /\ cutOff' = (clock = "out")
    /\ \E n \in 0..MaxGathered : gathered' \in [1..n -> FindingKinds]
    /\ bad' \in 0..Scanners
    /\ UNCHANGED <<stop, clock, entry, workspace, stored, broken>>

\* A mutant: one less than MaxFindings is kept.
Considered_OneLess == {i \in DOMAIN gathered : i < MaxFindings /\ gathered[i] # "skipped"}

\* Cut to MaxFindings first, filtered after.
Considered == {i \in DOMAIN gathered : i <= MaxFindings /\ gathered[i] # "skipped"}

Count(kind) == Cardinality({i \in Considered : gathered[i] = kind})

\* ComputeRiskScore, up to its ceiling: a secret has at least the points of a
\* high severity.
Score == 5 * bad + 35 * Count("grave") + 20 * Count("secret") + 3 * Count("minor")

Recommendation ==
    IF Score >= 50 THEN "do_not_install"
    ELSE IF Score >= 20 \/ Count("secret") > 0 THEN "caution" ELSE "safe"

Conclude ==
    /\ place = "conclude"
    /\ \/ /\ Store /\ place' = "findings"
          /\ entry' = [status |-> "completed", recommendation |-> Recommendation]
          /\ UNCHANGED <<workspace, broken>>
       \/ StoreFails /\ Leave(FALSE) /\ broken' = TRUE /\ UNCHANGED entry
    /\ UNCHANGED <<stop, clock, gathered, bad, cutOff, stored>>

\* The operator is told of the row first.  Errors are logged.
AddAuditFindings ==
    /\ place = "findings" /\ place' = "reports"
    /\ \/ Store /\ stored' = stored \cup {"findings"} /\ UNCHANGED broken
       \/ StoreFails /\ broken' = TRUE /\ UNCHANGED stored
    /\ UNCHANGED <<stop, clock, entry, workspace, gathered, bad, cutOff>>

AddDisclosureReports ==
    /\ place = "reports" /\ Leave(FALSE)
    /\ \/ Store /\ stored' = stored \cup {"reports"} /\ UNCHANGED broken
       \/ StoreFails /\ broken' = TRUE /\ UNCHANGED stored
    /\ UNCHANGED <<stop, clock, entry, gathered, bad, cutOff>>

InstallDies ==
    /\ stop.death /\ place \notin {"idle", "over"} /\ place' = "over" /\ broken' = TRUE
    /\ UNCHANGED <<stop, clock, entry, workspace, gathered, bad, cutOff, stored>>

InstallStep ==
    \/ MarkRunning \/ ShallowClone \/ ListWorkspaceFiles \/ RunScanners \/ Conclude
    \/ AddAuditFindings \/ AddDisclosureReports

InstallNext == StartAudit \/ InstallStep \/ Deadline \/ InstallDies

\* Each stage ends: by itself, or with the context.
FairInstall == WF_installVars(InstallStep)

InstallSpec == InstallInit /\ [][InstallNext]_installVars
FairInstallSpec == InstallSpec /\ FairInstall

(***************************************************************************)
(* Properties.                                                             *)
(***************************************************************************)

InstallTypeOK ==
    /\ stop \in [error : BOOLEAN, death : BOOLEAN, retain : BOOLEAN]
    /\ place \in {"idle", "load", "clone", "list", "scan", "conclude", "findings",
                  "reports", "over"}
    /\ clock \in {"live", "out"}
    /\ entry \in [status : {"none", "queued", "running", "completed", "failed"},
                  recommendation : {"unknown", "safe", "caution", "do_not_install",
                                    "audit_failed"}]
    /\ workspace \in BOOLEAN /\ gathered \in Seq(FindingKinds)
    /\ bad \in Nat /\ cutOff \in BOOLEAN
    /\ stored \subseteq {"findings", "reports"} /\ broken \in BOOLEAN

\* An audit whose scanners its deadline cut off never comes to a conclusion:
\* that the last write is under the same deadline is what keeps a score of half
\* the scanners out of the row.
ConcludedInTime == entry.status = "completed" => ~cutOff

\* docs/PREINSTALL_AUDIT.md: a secret is never "safe".  What MaxFindings cuts
\* off is not looked at, even if the filter drops all that is before it.
SecretIsCautioned ==
    entry.recommendation = "safe" /\ Len(gathered) <= MaxFindings
        => \A i \in DOMAIN gathered : gathered[i] # "secret"

(* A recommendation stands for what was scanned: it never comes from an audit   *)
(* that its deadline cut short, and is not "safe" where a secret was seen       *)
(* (Runner.runAudit, ComputeRiskScore).                                         *)
RecommendedOnEvidence == ConcludedInTime /\ SecretIsCautioned

(* Every audit that is started ends completed or failed, unless its deadline    *)
(* comes, a write fails or the process dies: then its row stays running, as     *)
(* nothing else ends it.                                                        *)
AuditConcludes ==
    []<>(\/ place = "idle" \/ clock = "out" \/ broken
         \/ entry.status \in {"completed", "failed"})
==============================================================================
