--------------------------- MODULE ReportingRoutes ---------------------------
(***************************************************************************)
(* Whether a finding becomes an issue: what a scan concludes of it         *)
(* (NormalizeIssues, AdjustConfidence and DecideAction of package profile, *)
(* ApplyKnownSafeRouting of package calibration), the rules that operators *)
(* accepted for the repository (ApplyRepoRoutingForForge), the filter of   *)
(* main.go and the gates of the issue manager.  A result that a runner     *)
(* sends has lost the action on its way.  Confidences are in hundredths;   *)
(* the configuration is the default one but for the mode.  Suppressions    *)
(* are Suppressions, whether the repository files at all is ScanSettings,  *)
(* and what filing does is IssueFiling.                                    *)
(***************************************************************************)
EXTENDS Naturals

CONSTANTS RawFindings,   \* the findings to route, one in a behaviour
          Courses,       \* what they meet: the mode, the profile, what matches, who scans
          Confidences    \* the confidences that scanners give

ReportingModes == {"monitor_only", "high_signal", "standard", "strict", "compliance"}

\* deep: ProfileAllowsBetaNoiseSuppression says no.  match: a known-safe pattern fits,
\* or the one of the demo, or an active rule that was listed.  delegated: a runner scans.
AllCourses == [mode : ReportingModes, deep : BOOLEAN,
               match : {"none", "pattern", "fixture", "rule"}, delegated : BOOLEAN]

Rank == [info |-> 1, low |-> 2, medium |-> 3, high |-> 4, critical |-> 5]

PathPenalty == [source |-> 0, config |-> 0, dependency |-> 0, test |-> 20, docs |-> 25,
                example |-> 25, generated |-> 35, vendor |-> 30]

ASSUME RouteAssumptions ==
    /\ Courses \subseteq AllCourses /\ Confidences \subseteq 1 .. 100
    /\ RawFindings \subseteq [sev : DOMAIN Rank, category : STRING, path : DOMAIN PathPenalty,
                              rule : STRING, located : BOOLEAN, dev : BOOLEAN,
                              conf : Confidences \cup {0}]

VARIABLES
    raw,      \* the finding as its scanner reported it
    course,   \* what it meets
    place,    \* how far it has come
    routed    \* its severity, confidence and action now

routeVars == <<raw, course, place, routed>>

Reported(F, C) ==
    /\ raw \in F /\ course \in C /\ place = "raw"
    /\ routed = [sev |-> raw.sev, conf |-> raw.conf, action |-> ""]

RoutesInit == Reported(RawFindings, Courses)

(***************************************************************************)
(* Confidence.                                                             *)
(***************************************************************************)
DefaultConfidence == [critical |-> 90, high |-> 85, medium |-> 70, low |-> 55, info |-> 60]

\* Mutant: a low confidence passes for an unset one.
BaseConfidence_LowIsUnset(f) == IF f.conf < 50 THEN DefaultConfidence[f.sev] ELSE f.conf

BaseConfidence(f) == IF f.conf = 0 THEN DefaultConfidence[f.sev] ELSE f.conf

Lower(c, delta) == IF c < delta + 5 THEN 5 ELSE c - delta
Raise(c, delta) == IF c + delta > 100 THEN 100 ELSE c + delta

OnlyForDevelopment(f) == f.dev /\ (f.category = "dependency" \/ f.path = "dependency")
\* EnrichIssue: RegressionRisk of low and info findings is low.
Harmless(f) == f.sev \in {"low", "info"} /\ f.path # "source"

GraphRules == {"orphan", "island", "cycle"}
GraphPenalty(f) ==
    (IF f.rule \in GraphRules THEN IF f.path = "test" THEN 32 ELSE 12 ELSE 0)
      + (IF f.rule = "orphan" THEN 8 ELSE 0)

AdjustConfidence(f) ==
    LET doubted == Lower(BaseConfidence(f),
                         PathPenalty[f.path] + (IF OnlyForDevelopment(f) THEN 15 ELSE 0)
                           + (IF Harmless(f) THEN 5 ELSE 0))
        grounded == f.path = "source" /\ f.located /\ f.rule # "none"
    IN  Lower(IF grounded THEN Raise(doubted, 5) ELSE doubted, GraphPenalty(f))

(***************************************************************************)
(* The action.                                                             *)
(***************************************************************************)
MinSeverity(mode) ==
    IF mode = "strict" THEN "medium" ELSE IF mode = "compliance" THEN "low" ELSE "high"

ActionBySeverity(mode) ==
    [s \in DOMAIN Rank |->
        IF s \in {"critical", "high"} \/ (mode = "strict" /\ s = "medium")
             \/ (mode = "compliance" /\ s # "info")
        THEN "auto_issue" ELSE IF s = "medium" THEN "manual_review" ELSE "report_only"]

CategoryOverrides ==
    [secret |-> "auto_issue", dependency |-> "auto_issue", license |-> "manual_review",
     code_quality |-> "report_only", test_gap |-> "report_only"]

\* RuleOverrides, and the noise that all profiles but deep ones keep off the forge.
OffTheForge(rule, deep) ==
    rule = "noise" \/ (~deep /\ rule \in {"orphan", "island"})

PassesSeverityConfidenceGate(f, conf, mode) ==
    Rank[f.sev] >= Rank[MinSeverity(mode)] /\ conf >= 70

Suppressing == {"generated", "vendor"}
Aside == {"test", "docs", "example"}

\* Mutant: secrets in tests and documents are set aside like everything there.
ActionFromSourceType_AllAside(f) ==
    IF f.path \in Suppressing THEN "suppressed_with_reason"
    ELSE IF f.path \in Aside THEN "report_only"
    ELSE IF f.path = "config" THEN "manual_review"
    ELSE "auto_issue"

\* actionFromSourceType; "" where the type of the path decides nothing.
ActionFromSourceType(f) ==
    IF f.path \in Suppressing THEN "suppressed_with_reason"
    ELSE IF f.path \in Aside THEN IF f.category = "secret" THEN "" ELSE "report_only"
    ELSE IF f.path = "config" THEN IF f.category = "secret" THEN "" ELSE "manual_review"
    ELSE "auto_issue"

DecideAction(f, conf, mode, deep) ==
    LET byPath == ActionFromSourceType(f)
        passes == PassesSeverityConfidenceGate(f, conf, mode)
        bySeverity == ActionBySeverity(mode)[f.sev]
    IN  IF mode = "monitor_only" \/ OffTheForge(f.rule, deep) THEN "report_only"
        ELSE IF byPath # "" /\ (byPath # "auto_issue" \/ passes) THEN byPath
        ELSE IF f.category \in DOMAIN CategoryOverrides THEN CategoryOverrides[f.category]
        ELSE IF bySeverity # "auto_issue" \/ passes THEN bySeverity
        ELSE IF conf >= 70 THEN "manual_review" ELSE "report_only"

\* ManualReviewCanCreateIssue is on.
IsForgeAction(action) == action \in {"auto_issue", "manual_review"}

(***************************************************************************)
(* The way of a finding.                                                   *)
(***************************************************************************)
Normalized(f, mode, deep) ==
    LET conf == AdjustConfidence(f)
    IN  [sev |-> f.sev, conf |-> conf, action |-> DecideAction(f, conf, mode, deep)]

NormalizeIssues ==
    /\ place = "raw" /\ place' = "normalized"
    /\ routed' = Normalized(raw, course.mode, course.deep)
    /\ UNCHANGED <<raw, course>>

\* applyKnownSafeOne.
Calmed(r) ==
    [sev |-> IF course.match = "fixture" \/ r.sev \in {"medium", "low"} THEN "info" ELSE r.sev,
     conf |-> IF r.conf > 55 THEN 55 ELSE r.conf,
     action |-> "report_only"]

ApplyKnownSafeRouting ==
    /\ place = "normalized"
    /\ routed' = IF course.match \in {"pattern", "fixture"} THEN Calmed(routed) ELSE routed
    /\ place' = IF course.delegated THEN "away" ELSE "scanned"
    /\ UNCHANGED <<raw, course>>

\* JobResult.ToAnalysisResult: no field of the wire carries the action.
ToAnalysisResult ==
    /\ place = "away" /\ place' = "scanned"
    /\ routed' = [routed EXCEPT !.action = ""]
    /\ UNCHANGED <<raw, course>>

\* Mutant: grave findings keep their action, as ApplyRepoRule lets them.
ApplyRepoRoutingForForge_NotGrave ==
    /\ place = "scanned" /\ place' = "ruled"
    /\ routed' = IF course.match = "rule" /\ routed.sev \notin {"high", "critical"}
                 THEN [routed EXCEPT !.action = "report_only"] ELSE routed
    /\ UNCHANGED <<raw, course>>

\* Also for high and critical findings; the listing that fails is an empty one.
ApplyRepoRoutingForForge ==
    /\ place = "scanned" /\ place' = "ruled"
    /\ routed' = IF course.match = "rule" THEN [routed EXCEPT !.action = "report_only"] ELSE routed
    /\ UNCHANGED <<raw, course>>

\* PassesIssueGates with the gates of the default settings, high and 0.5.
PassesIssueGates(r) == r.conf >= 50 /\ Rank[r.sev] >= Rank["high"]

FilterIssuesForForge ==
    /\ place = "ruled"
    /\ place' = IF IF routed.action # "" THEN IsForgeAction(routed.action)
                   ELSE PassesIssueGates(routed)
                THEN "forge" ELSE "dashboard"
    /\ UNCHANGED <<raw, course, routed>>

\* The gates of CreateIssuesFromAnalysis.
ConfidentEnough(r) == r.conf >= 50

ProcessIssue ==
    /\ place = "forge"
    /\ place' = IF ConfidentEnough(routed) THEN "filed" ELSE "skipped"
    /\ UNCHANGED <<raw, course, routed>>

RoutesNext ==
    \/ NormalizeIssues \/ ApplyKnownSafeRouting \/ ToAnalysisResult
    \/ ApplyRepoRoutingForForge \/ FilterIssuesForForge \/ ProcessIssue

RoutesSpec == RoutesInit /\ [][RoutesNext]_routeVars

(***************************************************************************)
(* Properties.                                                             *)
(***************************************************************************)
RoutesTypeOK ==
    /\ raw.conf \in Confidences \cup {0} /\ course \in Courses
    /\ place \in {"raw", "normalized", "away", "scanned", "ruled", "forge", "dashboard",
                  "filed", "skipped"}
    /\ routed.sev \in DOMAIN Rank /\ routed.conf \in 0 .. 100
    /\ routed.action \in {"", "auto_issue", "manual_review", "report_only",
                          "suppressed_with_reason"}

\* What the core's own scan would file without rules or known-safe patterns.
Files(f, mode, deep) ==
    LET r == Normalized(f, mode, deep) IN IsForgeAction(r.action) /\ ConfidentEnough(r)

\* What is to stay off the forge whoever scans, and when the core scans.
Quieted == course.match = "rule"
QuietedHere(f) ==
    \/ course.mode = "monitor_only" \/ course.match \in {"pattern", "fixture"}
    \/ f.path \in Suppressing \/ OffTheForge(f.rule, course.deep)
    \/ f.path \in Aside /\ f.category # "secret"

(* No layer undoes what an earlier one kept quiet: what the mode, a known-safe   *)
(* pattern, an accepted rule or the place of the file keeps off the forge is    *)
(* not filed (scans of runners heed the rules only).                            *)
QuietIsQuiet == place = "filed" => ~Quieted /\ (course.delegated \/ ~QuietedHere(raw))

(* A secret is kept quiet by nothing else: in a test or a document it reaches   *)
(* the issue manager like everywhere (the comment of DecideAction).             *)
SecretsAreTold ==
    place = "dashboard" /\ raw.category = "secret" /\ ~course.delegated
        => Quieted \/ QuietedHere(raw)

Stricter(mode) ==
    IF mode \in {"high_signal", "standard"} THEN {"high_signal", "standard", "strict", "compliance"}
    ELSE IF mode = "strict" THEN {"compliance"} ELSE {}

(* What a mode files a stricter one files too, from the confidence on that the  *)
(* gates ask for.  (Below it the strict mode keeps to the dashboard what         *)
(* manual review lets high_signal file.)                                        *)
StricterFilesMore ==
    place = "filed" /\ ~course.delegated /\ routed.conf >= 70
        => \A m \in Stricter(course.mode) : Files(raw, m, course.deep)

(* A scanner that is surer of a finding never loses the issue by it, whatever    *)
(* gates and overrides the confidence passes on its way.                        *)
SurerNeverLoses ==
    place = "filed" /\ ~course.delegated /\ raw.conf > 0
        => \A c \in Confidences :
             c > raw.conf => Files([raw EXCEPT !.conf = c], course.mode, course.deep)

(* Findings go where mode, path, category, rules and confidence send them.       *)
FindingsAreRouted == QuietIsQuiet /\ SecretsAreTold /\ StricterFilesMore /\ SurerNeverLoses
=============================================================================
