---------------------------- MODULE RuleLearning ----------------------------
(***************************************************************************)
(* What the service learns of one rule in one repository                   *)
(* (main_calibration.go, main_suppressions.go, store/learning_sqlite.go,   *)
(* store/ai_learning_sqlite.go, store/calibration_sqlite.go): operators    *)
(* who mark its findings, advice of the AI, recomputes that turn both into *)
(* learning events and events into recommendations, and the decisions on   *)
(* these, which switch a rule on that quiets the findings.                 *)
(*                                                                         *)
(* The rule is one that may be quieted.  Recommendations for all           *)
(* repositories, expiry of rules, rates of scanners and the statistics of  *)
(* the dashboard are left out.                                             *)
(***************************************************************************)
EXTENDS Naturals, Sequences, FiniteSets

CONSTANTS
    RuleFindings,
    Recomputes,     \* the daily one, those after scans and on request
    Operator,       \* a request that decides on a recommendation
    MinDispositions,\* repoScopedMinEvents
    MinAdvice,      \* suggestions that make a recommendation
    MaxRecs,        \* bound: recommendations
    Courses         \* bound: what happens besides, see CourseKinds

CourseKinds == [jobs : SUBSET Recomputes, auto : BOOLEAN, advised : SUBSET RuleFindings,
                marked : SUBSET RuleFindings, decides : BOOLEAN, dies : BOOLEAN]

ASSUME LearningAssumptions ==
    /\ Operator \notin Recomputes /\ {MinDispositions, MinAdvice, MaxRecs} \subseteq Nat
    /\ Courses \subseteq CourseKinds

VARIABLES
    course,
    mark,       \* finding -> its status
    marking,    \* requests between the status and the event
    advice,     \* finding -> status of the suggestion to calibrate
    events,     \* learning_events, by kind and finding, which are the key
    recs,       \* status of each recommendation, in the order of their ids
    quiet,      \* recommendation of the active rule, or 0
    work,       \* recompute or operator -> where it is, and what is left
    early,      \* history: findings that a backfill took before their mark counted
    astray      \* history: recommendations decided twice at a time, halfway, or
                \* rejected when their rule was active

learnVars == <<course, mark, marking, advice, events, recs, quiet, work, early, astray>>

Workers == Recomputes \cup {Operator}
Resting == [at |-> "idle", todo |-> {}, id |-> 0]
Event(kind, f) == [kind |-> kind, of |-> f]

LearnInit ==
    /\ course \in Courses
    /\ mark = [f \in RuleFindings |-> "open"] /\ marking = {}
    /\ advice = [f \in RuleFindings |-> "none"] /\ events = {}
    /\ recs = <<>> /\ quiet = 0 /\ work = [w \in Workers |-> Resting]
    /\ early = {} /\ astray = {}

\* applyFindingSuppression: the status now, the event after the forge was told.
ApplyFindingSuppression(f, status) ==
    /\ f \in course.marked \ marking /\ mark' = [mark EXCEPT ![f] = status]
    /\ marking' = IF status = "false_positive" THEN marking \cup {f} ELSE marking
    /\ UNCHANGED <<course, advice, events, recs, quiet, work, early, astray>>

\* The event is recorded, or the request ends without.
EmitFalsePositiveMarked(f) ==
    /\ f \in marking /\ marking' = marking \ {f}
    /\ \/ events' = events \cup {Event("mark", f)}
       \/ course.dies /\ UNCHANGED events
    /\ UNCHANGED <<course, mark, advice, recs, quiet, work, early, astray>>

\* A review suggests to calibrate.
Advise(f) ==
    /\ f \in course.advised /\ advice[f] = "none" /\ advice' = [advice EXCEPT ![f] = "pending"]
    /\ UNCHANGED <<course, mark, marking, events, recs, quiet, work, early, astray>>

\* A closure verifies that the finding was fixed.
EmitClosureVerified(f) ==
    /\ f \in course.marked /\ mark[f] = "open" /\ mark' = [mark EXCEPT ![f] = "fixed"]
    /\ events' = events \cup {Event("fixed", f)}
    /\ UNCHANGED <<course, marking, advice, recs, quiet, work, early, astray>>

(***************************************************************************)
(* A recompute.                                                            *)
(***************************************************************************)

Proceed(w, at, todo) == work' = [work EXCEPT ![w] = [at |-> at, todo |-> todo, id |-> 0]]

\* A mutant: what is learnt already is taken too.
Unlearnt_All(f) == TRUE

Unlearnt(f) == \A e \in events : e.of = f => e.kind \notin {"mark", "backfill"}

\* A mutant: only findings with the status of a suppressed one are listed.
Unheard_Suppressed == {f \in RuleFindings : mark[f] = "suppressed" /\ Unlearnt(f)}

Unheard == {f \in RuleFindings : mark[f] \in {"suppressed", "false_positive"} /\ Unlearnt(f)}

StartRecompute(j) ==
    /\ j \in course.jobs /\ work[j].at = "idle" /\ Proceed(j, "backfill", Unheard)
    /\ early' = early \cup {f \in Unheard : Event("mark", f) \notin events}
    /\ UNCHANGED <<course, mark, marking, advice, events, recs, quiet, astray>>

\* BackfillFalsePositiveLearningEvents, row by row.
Backfill(j) ==
    /\ work[j].at = "backfill"
    /\ \/ \E f \in work[j].todo :
            /\ events' = events \cup {Event("backfill", f)}
            /\ Proceed(j, "backfill", work[j].todo \ {f})
       \/ work[j].todo = {} /\ Proceed(j, "cluster", {}) /\ UNCHANGED events
    /\ UNCHANGED <<course, mark, marking, advice, recs, quiet, early, astray>>

IsProposed == \E i \in DOMAIN recs : recs[i] = "proposed"

\* GenerateCalibrationFromAIAdvisory: the question and the insert are two
\* statements, here and below.
Cluster(j) ==
    /\ work[j].at = "cluster"
    /\ Proceed(j, IF Cardinality({f \in RuleFindings : advice[f] # "none"}) >= MinAdvice /\ ~IsProposed
             THEN "insert_cluster" ELSE "pending", {})
    /\ UNCHANGED <<course, mark, marking, advice, events, recs, quiet, early, astray>>

Insert(j) ==
    /\ work[j].at \in {"insert_cluster", "insert"}
    /\ recs' = IF Len(recs) < MaxRecs THEN Append(recs, "proposed") ELSE recs
    /\ Proceed(j, IF work[j].at = "insert" THEN "list" ELSE "pending", {})
    /\ UNCHANGED <<course, mark, marking, advice, events, quiet, early, astray>>

\* IngestAIAdvisoryCalibrateSuggestions: the event first, then the status.
ListPending(j) ==
    /\ work[j].at = "pending" /\ Proceed(j, "ingest", {f \in RuleFindings : advice[f] = "pending"})
    /\ UNCHANGED <<course, mark, marking, advice, events, recs, quiet, early, astray>>

Ingest(j) ==
    /\ work[j].at = "ingest"
    /\ \/ \E f \in work[j].todo :
            \/ /\ Event("advice", f) \notin events /\ events' = events \cup {Event("advice", f)}
               /\ UNCHANGED <<advice, work>>
            \/ /\ Event("advice", f) \in events /\ advice' = [advice EXCEPT ![f] = "ingested"]
               /\ Proceed(j, "ingest", work[j].todo \ {f}) /\ UNCHANGED events
       \/ work[j].todo = {} /\ Proceed(j, "rate", {}) /\ UNCHANGED <<advice, events>>
    /\ UNCHANGED <<course, mark, marking, recs, quiet, early, astray>>

Against == {e \in events : e.kind # "fixed"}

\* GenerateRepoScopedRecommendations.
Rate(j) ==
    /\ work[j].at = "rate"
    /\ Proceed(j, IF /\ Cardinality(events) >= MinDispositions
                /\ 2 * Cardinality(Against) >= Cardinality(events) /\ ~IsProposed
             THEN "insert" ELSE "list", {})
    /\ UNCHANGED <<course, mark, marking, advice, events, recs, quiet, early, astray>>

\* autoApplySafeCalibrationRecommendations: the list, and one after the other.
ListProposed(j) ==
    /\ work[j].at = "list"
    /\ Proceed(j, "apply", IF course.auto THEN {i \in DOMAIN recs : recs[i] = "proposed"} ELSE {})
    /\ UNCHANGED <<course, mark, marking, advice, events, recs, quiet, early, astray>>

(***************************************************************************)
(* Decisions: of an operator, and of a recompute that applies what is      *)
(* proposed.                                                               *)
(***************************************************************************)

\* Another decision on the recommendation is on its way.
Crossing(w, i) == \E v \in Workers \ {w} : work[v].id = i

Decide(w, at, i) ==
    /\ work' = [work EXCEPT ![w] = [at |-> at, todo |-> @.todo \ {i}, id |-> i]]
    /\ astray' = IF Crossing(w, i) THEN astray \cup {i} ELSE astray

ApplyNext(j) ==
    /\ work[j].at = "apply"
    /\ \/ \E i \in work[j].todo : Decide(j, "look", i)
       \/ work[j].todo = {} /\ Proceed(j, "idle", {}) /\ UNCHANGED astray
    /\ UNCHANGED <<course, mark, marking, advice, events, recs, quiet, early>>

OperatorDecides(i) ==
    /\ course.decides /\ work[Operator].at = "idle" /\ i \in DOMAIN recs
    /\ \/ Decide(Operator, "look", i)
       \/ Decide(Operator, "reject", i)
       \/ recs[i] = "accepted" /\ Decide(Operator, "expire", i)
    /\ UNCHANGED <<course, mark, marking, advice, events, recs, quiet, early>>

\* The worker goes on with its decision.
GoOn(w, at) == work' = [work EXCEPT ![w] = [@ EXCEPT !.at = at]]

\* alreadyHasCalibrationRule.
Look(w) ==
    /\ work[w].at = "look" /\ GoOn(w, IF quiet # 0 THEN "accept" ELSE "create")
    /\ UNCHANGED <<course, mark, marking, advice, events, recs, quiet, early, astray>>

\* CreateRepoCalibrationRule: a second active rule is refused by the index.
CreateRule(w) ==
    /\ work[w].at = "create" /\ GoOn(w, "accept")
    /\ quiet' = IF quiet = 0 THEN work[w].id ELSE quiet
    /\ UNCHANGED <<course, mark, marking, advice, events, recs, early, astray>>

\* A mutant: the rule is left active.
Expired_Not(i) == quiet

Expired(i) == IF quiet = i THEN 0 ELSE quiet

\* ExpireRepoCalibrationRulesByRecommendation.
ExpireRules(w) ==
    /\ work[w].at = "expire" /\ GoOn(w, "revert")
    /\ quiet' = Expired(work[w].id)
    /\ UNCHANGED <<course, mark, marking, advice, events, recs, early, astray>>

\* A mutant: another word for the status of a rejected one.
Outcome_Misspelt == [accept |-> "accepted", reject |-> "dismissed", revert |-> "reverted"]

Outcome == [accept |-> "accepted", reject |-> "rejected", revert |-> "reverted"]

\* UpdateCalibrationRecommendationStatus, whatever it was.
UpdateStatus(w) ==
    LET i == work[w].id
    IN /\ work[w].at \in DOMAIN Outcome /\ recs' = [recs EXCEPT ![i] = Outcome[work[w].at]]
       /\ astray' = IF work[w].at = "reject" /\ quiet = i
                     THEN astray \cup {i} ELSE astray
       /\ work' = [work EXCEPT ![w] = [@ EXCEPT !.at = IF w = Operator THEN "idle" ELSE "apply",
                                                !.id = 0]]
       /\ UNCHANGED <<course, mark, marking, advice, events, quiet, early>>

\* A request is given up, a recompute runs out of its five minutes.
GiveUp(w) ==
    /\ course.dies /\ work[w].at # "idle" /\ Proceed(w, "idle", {})
    /\ astray' = astray \cup {i \in DOMAIN recs : work[w].id = i}
    /\ UNCHANGED <<course, mark, marking, advice, events, recs, quiet, early>>

RecomputeStep(j) ==
    \/ Backfill(j) \/ Cluster(j) \/ Insert(j) \/ ListPending(j) \/ Ingest(j) \/ Rate(j)
    \/ ListProposed(j) \/ ApplyNext(j) \/ Look(j) \/ CreateRule(j) \/ UpdateStatus(j)

LearnNext ==
    \/ \E f \in RuleFindings :
         \/ \E s \in {"suppressed", "false_positive"} : ApplyFindingSuppression(f, s)
         \/ EmitFalsePositiveMarked(f) \/ Advise(f) \/ EmitClosureVerified(f)
    \/ \E j \in Recomputes : StartRecompute(j) \/ RecomputeStep(j)
    \/ \E i \in 1..MaxRecs : OperatorDecides(i)
    \/ Look(Operator) \/ CreateRule(Operator) \/ ExpireRules(Operator) \/ UpdateStatus(Operator)
    \/ \E w \in Workers : GiveUp(w)

\* A recompute is started every day, and if backfills are begun again and again,
\* one of them gets on.
FairLearning ==
    /\ \A j \in Recomputes : WF_learnVars(StartRecompute(j)) /\ WF_learnVars(RecomputeStep(j))
    /\ SF_learnVars(\E j \in Recomputes : Backfill(j))

LearnSpec == LearnInit /\ [][LearnNext]_learnVars
FairLearnSpec == LearnSpec /\ FairLearning

(***************************************************************************)
(* Properties.                                                             *)
(***************************************************************************)

LearnTypeOK ==
    /\ course \in Courses
    /\ mark \in [RuleFindings -> {"open", "suppressed", "false_positive", "fixed"}]
    /\ marking \subseteq RuleFindings /\ advice \in [RuleFindings -> {"none", "pending", "ingested"}]
    /\ events \subseteq [kind : {"mark", "backfill", "advice", "fixed"}, of : RuleFindings]
    /\ recs \in Seq({"proposed", "accepted", "rejected", "reverted"}) /\ Len(recs) <= MaxRecs
    /\ quiet \in 0..Len(recs) /\ early \subseteq RuleFindings /\ astray \subseteq DOMAIN recs
    /\ \A w \in Workers : work[w].id \in 0..Len(recs)

\* A finding counts twice as a false positive only if a recompute took it
\* first: after it was suppressed, or between its mark and the event of it.
CountedOnce ==
    \A f \in RuleFindings : {Event("mark", f), Event("backfill", f)} \subseteq events => f \in early

\* A rule that quiets findings is one that an operator can revert, or accept
\* anew, unless a decision on its recommendation went astray.
RuleIsRevertible ==
    quiet # 0 /\ (\A w \in Workers : work[w].id # quiet)
        => recs[quiet] \in {"accepted", "proposed"} \/ quiet \in astray

(* What was learnt, and what came of it, can be accounted for: no disposition   *)
(* is fed in twice by the recomputes' backfill ("findings that were never fed") *)
(* and no finding is quieted by a rule that no decision can reach.              *)
LearningIsAccountable == CountedOnce /\ RuleIsRevertible

(* A mark as false positive is learnt in the end, be its own event lost, and    *)
(* recomputes given up, however often: the backfill picks it up.                *)
MarksAreLearned ==
    \A f \in RuleFindings :
      mark[f] = "false_positive" ~> \E e \in events : e.of = f /\ e.kind \in {"mark", "backfill"}
==============================================================================
