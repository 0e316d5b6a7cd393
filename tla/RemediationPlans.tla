-------------------------- MODULE RemediationPlans --------------------------
(***************************************************************************)
(* The remediation plans of one finding, from the recipe to the request    *)
(* for a pull request (main_remediation.go; package remediation;           *)
(* patcher/eligibility.go; loadPlanAndRepo and attemptRemediationPR,       *)
(* main_remediation_pr.go; store/remediation_sqlite.go).  Scans and        *)
(* operators make plans, an earlier proposal being superseded first; an    *)
(* operator decides; a request is granted by the plan it reads.  What a    *)
(* granted request does is PatchAttempts.  The repository is connected.    *)
(***************************************************************************)
EXTENDS Naturals

CONSTANTS Subjects,    \* the findings to plan for, one in a behaviour
          Planners,    \* the calls that make a plan, and the plans they make
          PullRequests,\* the requests for a pull request
          NoPlan,
          MaxChanges   \* bound on changes of the finding and on failed calls

Severities == {"low", "medium", "high", "critical"}
Grave == {"high", "critical"}
FindingRows == [source : STRING, category : STRING, rule : STRING, sev : Severities,
                conf : Nat, file : STRING, major : BOOLEAN]

\* What trivy finds under a rule of a policy is filed as a misconfiguration
\* (parseTrivyOutput of scanners/trivy.go).
ASSUME PlanAssumptions ==
    /\ NoPlan \notin Planners /\ MaxChanges \in Nat
    /\ Subjects \subseteq FindingRows
    /\ \A c \in Subjects :
         c.source = "trivy" /\ c.rule \in {"MIS", "DS029"} => c.category = "misconfiguration"

VARIABLES
    subject,    \* the finding's row
    hiding,     \* it is suppressed
    planner,    \* where a planner is, and the row it read
    plan,       \* remediation_plans
    request,    \* where a request is, the plan it is for
    changes,
    \* What happened, for the properties:
    rated,      \* the severities the finding has had since a planner read it
    together,   \* the planners that were under way at a time
    unheeded,   \* those whose superseding failed
    approvedFor \* the requests whose plan was approved since they were made

planVars == <<subject, hiding, planner, plan, request, changes,
              rated, together, unheeded, approvedFor>>

(***************************************************************************)
(* The recipe of a finding.                                                *)
(***************************************************************************)
\* isAIAuditor: whoever is not one of these, the code graph too.
FromAI(c) == c.source \notin
    {"static", "trivy", "grype", "gitleaks", "semgrep", "golangci-lint", "ruff",
     "shellcheck", "hadolint", "staticcheck", "checkov", "gosec", "govulncheck"}

Dependencies == {"govulncheck", "grype", "trivy"}
PolicyScanners == {"trivy", "checkov", "hadolint"}

\* isTrivyMisconfiguration.
Misconfigured(c) ==
    \/ c.category \in {"misconfiguration", "container"} /\ c.source \in PolicyScanners
    \/ c.source = "trivy" /\ c.rule \in {"MIS", "DS029"}

Guarded(size, stops) == [size |-> size, human |-> TRUE, safe |-> FALSE, stops |-> stops]
Small(ok) == [size |-> "small", human |-> ~ok, safe |-> ok, stops |-> FALSE]

\* matchRecipe: the first case that fits.
Recipe(c) ==
    IF c.category = "secret" \/ c.source = "gitleaks" THEN Guarded("medium", TRUE)
    ELSE IF Misconfigured(c) THEN Small(TRUE)
    ELSE IF c.category = "dependency" \/ c.source \in Dependencies THEN Small(~c.major)
    ELSE IF c.source = "gosec" THEN Guarded("medium", FALSE)
    ELSE IF c.source \in {"staticcheck", "hadolint"} \/ c.rule \in {"SA", "DL3015"} THEN Small(TRUE)
    ELSE IF c.source = "checkov" \/ c.category \in {"misconfiguration", "test_gap"}
         THEN Guarded("medium", FALSE)
    ELSE IF c.category = "architecture" \/ c.source = "graph" THEN Guarded("large", TRUE)
    ELSE IF c.category \in {"tech_debt", "maintainability", "code_quality"} THEN Small(~FromAI(c))
    ELSE Guarded("medium", FALSE)

Risky == [risk |-> "high", human |-> TRUE, stops |-> TRUE]
Unlike(risk, human) == [risk |-> risk, human |-> human, stops |-> FALSE]

AssessRisk(c, size) ==
    IF c.category \in {"secret", "architecture"} THEN Risky
    ELSE IF c.category = "dependency"
         THEN IF c.major THEN Risky ELSE Unlike("medium", c.sev = "critical")
    ELSE IF c.category = "security"
         THEN IF FromAI(c) \/ c.source = "gosec" THEN Risky ELSE Unlike("medium", TRUE)
    ELSE IF c.category = "test_gap" THEN Unlike("low", TRUE)
    ELSE IF c.category \in {"misconfiguration", "container"}
         THEN IF (size = "small" /\ c.source \in PolicyScanners) \/ c.sev \notin Grave
              THEN Unlike("low", FALSE) ELSE Unlike("medium", TRUE)
    ELSE IF size = "large" THEN Risky
    ELSE IF c.sev \in Grave THEN Unlike("medium", TRUE) ELSE Unlike("low", FALSE)

SafeForAutoPR(c, size, risk, stops) ==
    /\ ~stops /\ ~FromAI(c) /\ c.source # "gosec" /\ size = "small"
    /\ \/ c.category = "dependency" /\ risk # "high"
       \/ c.category \in {"code_quality", "maintainability", "tech_debt"} /\ risk = "low"
       \/ c.category \in {"misconfiguration", "container"} /\ c.source \in PolicyScanners /\ risk # "high"

\* SuggestTests: one of the commands is one that ParseAllowedCommand lets through.
Testable(c) ==
    \/ c.file = "go" \/ c.source \in {"staticcheck", "golangci-lint", "hadolint"}
    \/ c.source = "trivy" /\ Misconfigured(c) /\ c.file = "docker"

ApplyRecipe(c) ==
    LET d == IF Misconfigured(c) THEN [c EXCEPT !.category = "misconfiguration"] ELSE c
        r == Recipe(c)
        a == AssessRisk(d, r.size)
    IN [of |-> d, risk |-> a.risk, size |-> r.size, human |-> r.human \/ a.human,
        stops |-> r.stops \/ a.stops, tests |-> Testable(d), advisory |-> FALSE,
        safe |-> r.safe /\ SafeForAutoPR(d, r.size, a.risk, r.stops \/ a.stops)]

\* needsAIEnrichment, of a finding that is not the AI's own.
Advised(c) == c.source \in {"semgrep", "static"} /\ c.category = "security"

\* SuggestPlan and what Generate adds: the advisor may play the risk down.
Enriched(draft) ==
    {[of |-> draft.of, risk |-> k, size |-> z, human |-> TRUE, stops |-> draft.stops,
      tests |-> t, advisory |-> TRUE, safe |-> FALSE] :
       k \in {draft.risk, "low"}, z \in {draft.size, "small"}, t \in {draft.tests, TRUE}}

\* Generate: a failed advisor leaves the recipe's draft.
Generate(c) == {ApplyRecipe(c)} \cup (IF Advised(c) THEN Enriched(ApplyRecipe(c)) ELSE {})

\* With remediation_min_severity medium and remediation_min_confidence 0.80.
LowException(c) ==
    /\ c.sev = "low" /\ c.conf >= 90
    /\ \/ c.category \in {"dependency", "misconfiguration"}
       \/ c.source \in {"staticcheck", "hadolint"}
       \/ c.source = "checkov" /\ c.category \notin {"code_quality", "maintainability"}

ShouldPlan(c) == c.conf >= 80 /\ (c.sev # "low" \/ LowException(c))

(***************************************************************************)
(* CheckPREligibility, with the defaults of the configuration.             *)
(***************************************************************************)
SupportsPatch(c) ==
    \/ c.source = "staticcheck" /\ c.rule = "S1039"
    \/ c.source = "hadolint" /\ c.rule = "DL3015"
    \/ c.source = "trivy" /\ c.rule = "DS029"

Forbidden(c) ==
    \/ c.category \in {"secret", "dependency", "architecture", "security"}
    \/ c.source \in {"gitleaks", "govulncheck", "grype", "trivy", "gosec", "graph"}

CheckPREligibility(p) ==
    LET c == p.draft.of
        policy == c.source = "trivy" /\ (c.category = "misconfiguration" \/ c.rule \in {"MIS", "DS029"})
    IN /\ p.status = "approved"
       /\ p.draft.safe /\ ~p.draft.human /\ p.draft.risk = "low" /\ p.draft.size = "small"
       /\ ~p.draft.advisory /\ ~p.draft.stops /\ p.draft.tests
       /\ (Forbidden(c) => policy) /\ SupportsPatch(c)
       /\ policy \/ c.sev \in {"low", "medium"}

(***************************************************************************)
(* Planners: generateRemediationPlan, and a scan's pass over what it filed *)
(* (maybeGenerateRemediationPlans).                                        *)
(***************************************************************************)
Unplanned == [status |-> "none"]

PlansInit ==
    /\ subject \in Subjects /\ hiding = FALSE
    /\ planner = [g \in Planners |-> [at |-> "new", of |-> subject]]
    /\ plan = [g \in Planners |-> Unplanned]
    /\ request = [a \in PullRequests |-> [at |-> "new", plan |-> NoPlan]]
    /\ changes = 0
    /\ rated = [g \in Planners |-> {}] /\ together = {} /\ unheeded = {} /\ approvedFor = {}

UnderWay(g) == planner[g].at \in {"supersede", "generate"}
Moves(g, p) == planner' = [planner EXCEPT ![g] = [planner[g] EXCEPT !.at = p]]
Failing == changes < MaxChanges /\ changes' = changes + 1

\* The row is read, its suppression looked up, its eligibility decided.
LoadFinding(g) ==
    /\ planner[g].at = "new"
    /\ planner' = [planner EXCEPT ![g] =
         [at |-> IF ~hiding /\ ShouldPlan(subject) THEN "supersede" ELSE "over", of |-> subject]]
    /\ rated' = [rated EXCEPT ![g] = {subject.sev}]
    /\ together' = together \cup {{g, h} : h \in {h \in Planners \ {g} : UnderWay(h)}}
    /\ UNCHANGED <<subject, hiding, plan, request, changes, unheeded, approvedFor>>

SupersedeRemediationPlans_Approved(g) ==
    /\ planner[g].at = "supersede" /\ Moves(g, "generate")
    /\ plan' = [h \in Planners |-> IF plan[h].status = "approved"
                                   THEN [plan[h] EXCEPT !.status = "superseded"] ELSE plan[h]]
    /\ UNCHANGED <<subject, hiding, request, changes, rated, together, unheeded, approvedFor>>

\* Only proposals are superseded; a failure is logged.
SupersedeRemediationPlans(g) ==
    /\ planner[g].at = "supersede" /\ Moves(g, "generate")
    /\ \/ plan' = [h \in Planners |-> IF plan[h].status = "proposed"
                                      THEN [plan[h] EXCEPT !.status = "superseded"] ELSE plan[h]]
          /\ UNCHANGED <<changes, unheeded>>
       \/ Failing /\ unheeded' = unheeded \cup {g} /\ UNCHANGED plan
    /\ UNCHANGED <<subject, hiding, request, rated, together, approvedFor>>

SavePlan(g) ==
    /\ planner[g].at = "generate" /\ Moves(g, "over")
    /\ \/ \E draft \in Generate(planner[g].of) :
             plan' = [plan EXCEPT ![g] = [status |-> "proposed", draft |-> draft]]
          /\ UNCHANGED changes
       \/ Failing /\ UNCHANGED plan
    /\ UNCHANGED <<subject, hiding, request, rated, together, unheeded, approvedFor>>

(***************************************************************************)
(* Operators and requests.                                                 *)
(***************************************************************************)
\* updatePlanStatus, whatever the plan's status is.
UpdatePlanStatus(g, verdict) ==
    /\ plan[g].status \notin {"none", verdict}
    /\ plan' = [plan EXCEPT ![g] = [plan[g] EXCEPT !.status = verdict]]
    /\ approvedFor' = IF verdict # "approved" THEN approvedFor
                      ELSE approvedFor \cup {a \in PullRequests : request[a].plan = g}
    /\ UNCHANGED <<subject, hiding, planner, request, changes, rated, together, unheeded>>

\* The handler reads the plan and checks it; so does the attempt.
CheckRequest(a, g) ==
    /\ request[a].at = "new" /\ plan[g].status # "none"
    /\ request' = [request EXCEPT ![a] =
         [at |-> IF CheckPREligibility(plan[g]) THEN "checked" ELSE "refused", plan |-> g]]
    /\ approvedFor' = IF plan[g].status = "approved" THEN approvedFor \cup {a} ELSE approvedFor
    /\ UNCHANGED <<subject, hiding, planner, plan, changes, rated, together, unheeded>>

GrantRequest(a) ==
    /\ request[a].at = "checked"
    /\ request' = [request EXCEPT ![a] =
         [at |-> IF CheckPREligibility(plan[request[a].plan]) THEN "granted" ELSE "refused",
          plan |-> request[a].plan]]
    /\ UNCHANGED <<subject, hiding, planner, plan, changes, rated, together, unheeded, approvedFor>>

\* A later scan rates the finding anew, or an operator hides it or shows it again.
FindingChanges ==
    /\ Failing
    /\ \/ \E s \in Severities \ {subject.sev} :
             /\ subject' = [subject EXCEPT !.sev = s]
             /\ rated' = [g \in Planners |-> IF planner[g].at = "new" THEN {} ELSE rated[g] \cup {s}]
          /\ UNCHANGED hiding
       \/ hiding' = ~hiding /\ UNCHANGED <<subject, rated>>
    /\ UNCHANGED <<planner, plan, request, together, unheeded, approvedFor>>

PlansNext ==
    \/ \E g \in Planners :
         \/ LoadFinding(g) \/ SupersedeRemediationPlans(g) \/ SavePlan(g)
         \/ \E v \in {"approved", "rejected"} : UpdatePlanStatus(g, v)
         \/ \E a \in PullRequests : CheckRequest(a, g)
    \/ \E a \in PullRequests : GrantRequest(a)
    \/ FindingChanges

PlansSpec == PlansInit /\ [][PlansNext]_planVars

(***************************************************************************)
(* Properties.                                                             *)
(***************************************************************************)

\* Rows and requests have the shapes of the code.
PlansTypeOK ==
    /\ planner \in [Planners -> [at : {"new", "supersede", "generate", "over"}, of : {subject} \cup
                     {[subject EXCEPT !.sev = s] : s \in Severities}]]
    /\ \A g \in Planners : plan[g].status \in {"none", "proposed", "approved", "rejected", "superseded"}
    /\ request \in [PullRequests -> [at : {"new", "checked", "granted", "refused"},
                                      plan : Planners \cup {NoPlan}]]

\* A finding has one proposal, unless planners met or could not supersede.
OneProposal == \A g, h \in Planners :
    g # h /\ plan[g].status = "proposed" /\ plan[h].status = "proposed" =>
        {g, h} \in together \/ unheeded \cap {g, h} # {}

\* A request is granted for a fix that a patcher makes, of no kind that the documents
\* forbid, which an operator approved since the request was made or had approved then,
\* and whose severity was allowed at some time since the plan's row was read.
GrantIsDue == \A a \in PullRequests :
    request[a].at = "granted" =>
        LET allowed == rated[request[a].plan] \cap {"low", "medium"}
        IN /\ a \in approvedFor
           /\ ~FromAI(subject) /\ subject.category \notin {"secret", "security", "architecture", "dependency"}
           /\ \/ subject.source \in {"staticcheck", "hadolint"} /\ allowed # {}
              \/ subject.source = "trivy" /\ Misconfigured(subject)

(* Plans are what operators take them for: one proposal for a finding, and pull     *)
(* requests for small deterministic fixes that were approved (generateRemediation-  *)
(* Plan, ApplyRecipe, AssessRisk, CheckPREligibility, attemptRemediationPR).        *)
PlansAreAccounted == OneProposal /\ GrantIsDue
=============================================================================
