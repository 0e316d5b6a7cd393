----------------------------- MODULE MCDeferred -----------------------------
(* What is decided later than it was asked: jobs that runners take, evidence    *)
(* that later scans verify, the settings of scans that wait or are away, rules  *)
(* that operators write beside scans, plans that wait for an approval, and the  *)
(* way of a finding from the scanner to the forge.                              *)
(* The parts share no state: a behaviour is one of the part that its first      *)
(* state chooses, and the others stay in an initial state.                      *)
EXTENDS MCRunnerJobs, EvidenceClosure, MCScanSettings, Suppressions, RemediationPlans,
        ReportingRoutes

VARIABLE part

\* Scans of two agents overlap; an operator records direct remediations.
TwoScans == [a \in Agents |-> IF a = "s1" THEN {"scan"} ELSE {"scan", "record"}]

\* A rule of the repository for one finding, and a global one for both.
OneOrBoth == [r \in Rules |-> IF r = "one" THEN {"f"} ELSE {"f", "g"}]

(***************************************************************************)
(* One finding of each kind that the recipes tell apart.                   *)
(***************************************************************************)
Of(source, category, name, sev, file) ==
    [source |-> source, category |-> category, rule |-> name, sev |-> sev, conf |-> 90,
     file |-> file, major |-> FALSE]

AllSubjects ==
    {Of("gitleaks", "secret", "other", "critical", "go"),
     Of("trivy", "secret", "other", "critical", "other"),
     Of("trivy", "misconfiguration", "DS029", "high", "docker"),
     Of("trivy", "misconfiguration", "MIS", "medium", "docker"),
     Of("grype", "dependency", "other", "critical", "other"),
     [Of("govulncheck", "dependency", "other", "medium", "go") EXCEPT !.major = TRUE],
     Of("gosec", "security", "other", "high", "go"),
     Of("staticcheck", "reliability", "SA", "medium", "go"),
     Of("staticcheck", "code_quality", "S1039", "low", "go"),
     [Of("staticcheck", "maintainability", "SA", "low", "go") EXCEPT !.conf = 80],
     Of("hadolint", "container", "DL3015", "medium", "docker"),
     Of("hadolint", "container", "DL3015", "low", "docker"),
     Of("checkov", "container", "other", "high", "docker"),
     Of("checkov", "iac", "other", "medium", "other"),
     Of("semgrep", "security", "other", "medium", "go"),
     Of("llm", "security", "other", "high", "go"),
     Of("test_gap", "test_gap", "other", "medium", "go"),
     Of("graph", "architecture", "other", "medium", "go"),
     Of("golangci-lint", "maintainability", "other", "medium", "go")}

(***************************************************************************)
(* Findings that tell the routes apart.                                    *)
(***************************************************************************)
Lead(sev, category, path, conf) ==
    [sev |-> sev, category |-> category, path |-> path, rule |-> "named", located |-> TRUE,
     dev |-> FALSE, conf |-> conf]

SomeConfidences == {46, 58, 73, 92}

\* A sum that meets a threshold exactly is the business of binary fractions.
OffThresholds(S) == {f \in S : AdjustConfidence(f) \notin {50, 70, 85}}

SomeFindings == OffThresholds(
    {Lead(sev, category, path, conf) :
        sev \in DOMAIN Rank, category \in {"secret", "security"},
        path \in DOMAIN PathPenalty, conf \in SomeConfidences \cup {0}}
    \cup {Lead(sev, category, path, conf) :
        sev \in {"low", "medium", "high"}, category \in {"dependency", "license", "code_quality"},
        path \in {"source", "config", "test", "vendor"}, conf \in SomeConfidences}
    \cup {[Lead(sev, "architecture", path, conf) EXCEPT !.rule = r, !.located = l] :
        sev \in {"medium", "high"}, path \in {"source", "test"}, conf \in SomeConfidences,
        r \in {"none", "noise"} \cup GraphRules, l \in BOOLEAN}
    \cup {[Lead(sev, "dependency", "dependency", conf) EXCEPT !.dev = TRUE] :
        sev \in DOMAIN Rank, conf \in SomeConfidences})

SomeCourses == {c \in AllCourses : c.deep => c.match = "none" /\ ~c.delegated}

AnyFinding == CHOOSE f \in RawFindings : TRUE
AnyCourse == CHOOSE c \in Courses : TRUE

(***************************************************************************)
(* The union.                                                              *)
(***************************************************************************)
DeferredInit ==
    /\ part \in {"runner", "closure", "settings", "suppressions", "plans", "routes"}
    /\ Init /\ ClosureInit /\ SuppressionsInit
    /\ SettingsInit /\ (part # "settings" => platform = CHOOSE p \in Platforms : TRUE)
    /\ PlansInit /\ (part # "plans" => subject = CHOOSE c \in Subjects : TRUE)
    /\ IF part = "routes" THEN RoutesInit ELSE Reported({AnyFinding}, {AnyCourse})

allVars == <<vars, closureVars, settingsVars, suppressionVars, planVars, routeVars>>

DeferredNext ==
    /\ UNCHANGED part
    /\ \/ part = "runner" /\ Next
          /\ UNCHANGED <<closureVars, settingsVars, suppressionVars, planVars, routeVars>>
       \/ part = "closure" /\ ClosureNext
          /\ UNCHANGED <<vars, settingsVars, suppressionVars, planVars, routeVars>>
       \/ part = "settings" /\ SettingsNext
          /\ UNCHANGED <<vars, closureVars, suppressionVars, planVars, routeVars>>
       \/ part = "suppressions" /\ SuppressionsNext
          /\ UNCHANGED <<vars, closureVars, settingsVars, planVars, routeVars>>
       \/ part = "plans" /\ PlansNext
          /\ UNCHANGED <<vars, closureVars, settingsVars, suppressionVars, routeVars>>
       \/ part = "routes" /\ RoutesNext
          /\ UNCHANGED <<vars, closureVars, settingsVars, suppressionVars, planVars>>

\* FairRunners and the fairness of EvidenceClosure, each in its own behaviours.
FairDeferred ==
    /\ \A j \in Jobs : WF_vars(part = "runner" /\ DispatchStep(j))
    /\ WF_vars(part = "runner" /\ Lapse)
    /\ \A w \in Workers :
         /\ WF_vars(part = "runner" /\ HandlerStep(w))
         /\ WF_vars(part = "runner" /\ Claim(w))
         /\ WF_vars(part = "runner" /\ Submit(w))
    /\ \A a \in Agents : WF_closureVars(part = "closure" /\ Goes(a))

DeferredSpec == DeferredInit /\ [][DeferredNext]_<<part, allVars>> /\ FairDeferred

\* The shapes of every part.
DeferredTypeOK ==
    /\ TypeOK /\ ClosureTypeOK
    /\ SettingsTypeOK /\ SuppressionsTypeOK /\ PlansTypeOK /\ RoutesTypeOK

(* What was deferred ends: jobs, the scans they were for, and evidence that a    *)
(* later scan has to decide.                                                    *)
DeferredSettles == WorkEnds /\ EvidenceIsSettled
=============================================================================
