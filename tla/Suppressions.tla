---------------------------- MODULE Suppressions ----------------------------
(***************************************************************************)
(* The suppression rules of one repository and the matcher that keeps them *)
(* in memory (main_suppressions.go; calibration/matcher.go;                *)
(* store/suppressions.go; store/suppressions_sqlite.go; the reload of      *)
(* main_calibration.go).  Operators write a rule first and tell the        *)
(* matcher afterwards; scans load the rules, filter what they found        *)
(* (createIssuesFromResult, main.go).  A load lists the table and stores   *)
(* the list in two steps, so loads cross.                                  *)
(***************************************************************************)
EXTENDS Naturals, FiniteSets

CONSTANTS Findings, Rules,
          Covers,      \* the findings each rule matches
          RepoRules,   \* the rules scoped to the repository; the others are global
          FilteringScans, Operators,
          MaxErrors    \* bound on calls to the store that fail

ASSUME SuppressionAssumptions ==
    /\ Covers \in [Rules -> SUBSET Findings]
    /\ RepoRules \subseteq Rules /\ FilteringScans \cap Operators = {}
    /\ MaxErrors \in Nat

VARIABLES
    rule,       \* the state of each row: "unused", "active" or "disabled"
    expired,    \* the rules whose expires_at has passed
    cache,      \* what the matcher holds: whether it has an entry, and which rules
    actor,      \* where a scan or an operator is, what it works on, the list it holds
    kept,       \* the findings a scan acts on
    errors,
    \* What happened, for the properties:
    overtaken,  \* the entry's list is older than a write to a repository's rule
    unsaid,     \* the rules an operator wrote and then gave up telling the matcher of
    steady,     \* the rules in force ever since a scan's list
    seen,       \* the rules in force at some time since then
    disturbed   \* the scans whose own list is not what they filter with

suppressionVars == <<rule, expired, cache, actor, kept, errors,
                     overtaken, unsaid, steady, seen, disturbed>>
Actors == FilteringScans \cup Operators
Absent == [entry |-> FALSE, rules |-> {}]

LiveRules == {r \in Rules : rule[r] = "active" /\ r \notin expired}
CoveredBy(rs) == UNION {Covers[r] : r \in rs}

\* MatchSuppression looks at expires_at again; Active is as it was listed.
IsSuppressed(f) == f \in CoveredBy(cache.rules \ expired)

SuppressionsInit ==
    /\ rule = [r \in Rules |-> "unused"]
    /\ expired = {} /\ cache = Absent
    /\ actor = [a \in Actors |->
                  [at |-> "new", rules |-> {}, list |-> {}, late |-> FALSE]]
    /\ kept = [s \in FilteringScans |-> {}]
    /\ errors = 0 /\ overtaken = FALSE /\ unsaid = {}
    /\ steady = [s \in FilteringScans |-> {}] /\ seen = [s \in FilteringScans |-> {}]
    /\ disturbed = {}

Enters(a, p) == actor' = [actor EXCEPT ![a] = [actor[a] EXCEPT !.at = p]]
Erring == errors < MaxErrors /\ errors' = errors + 1

\* Writing a repository's rule makes the lists that loads hold, and have not stored, late.
WriteRule(a, r, state, next) ==
    /\ rule' = [rule EXCEPT ![r] = state]
    /\ actor' = [b \in Actors |->
         IF b = a THEN [actor[a] EXCEPT !.at = next, !.rules = {r}]
         ELSE IF actor[b].at = "store" /\ r \in RepoRules THEN [actor[b] EXCEPT !.late = TRUE]
         ELSE actor[b]]

(***************************************************************************)
(* Operators.                                                              *)
(***************************************************************************)
\* applyFindingSuppression and suppressRepoRule: the rule, the finding's status,
\* then the matcher is emptied and loaded.
SuppressFinding(o, f, r) ==
    /\ actor[o].at = "new" /\ rule[r] = "unused" /\ f \in Covers[r]
    /\ WriteRule(o, r, "active", "mark")
    /\ UNCHANGED <<expired, cache, kept, errors, overtaken, unsaid>>

UpdateFindingStatus(o) ==
    /\ actor[o].at = "mark"
    /\ \/ Enters(o, "reload")
          /\ UNCHANGED <<errors, unsaid>>
       \/ Erring /\ Enters(o, "over")
          /\ unsaid' = unsaid \cup actor[o].rules
    /\ UNCHANGED <<rule, expired, cache, kept, overtaken>>

\* CreateSuppression empties the matcher's entry when the rule is the repository's.
CreateSuppression(o, r) ==
    /\ actor[o].at = "new" /\ rule[r] = "unused"
    /\ WriteRule(o, r, "active", IF r \in RepoRules THEN "drop" ELSE "over")
    /\ UNCHANGED <<expired, cache, kept, errors, overtaken, unsaid>>

DisableSuppression_Quiet(o, r) ==
    /\ actor[o].at = "new" /\ rule[r] # "unused"
    /\ WriteRule(o, r, "disabled", "over")
    /\ UNCHANGED <<expired, cache, kept, errors, overtaken, unsaid>>

\* DisableSuppression: the status of the findings the rule hid is not looked at.
DisableSuppression(o, r) ==
    /\ actor[o].at = "new" /\ rule[r] # "unused"
    /\ WriteRule(o, r, "disabled", IF r \in RepoRules THEN "drop" ELSE "over")
    /\ UNCHANGED <<expired, cache, kept, errors, overtaken, unsaid>>

\* The rule is disabled and cannot be read back: the operator is told of a failure.
DisabledUnread(o, r) ==
    /\ actor[o].at = "new" /\ rule[r] # "unused" /\ Erring
    /\ WriteRule(o, r, "disabled", "over") /\ unsaid' = unsaid \cup {r}
    /\ UNCHANGED <<expired, cache, kept, overtaken>>

\* Accepting a calibration reloads the matcher, reverting one empties it.
CalibrationChanged(o) ==
    /\ actor[o].at = "new" /\ \E p \in {"drop", "reload"} : Enters(o, p)
    /\ UNCHANGED <<rule, expired, cache, kept, errors, overtaken, unsaid>>

Invalidate(o) ==
    /\ actor[o].at \in {"drop", "reload"}
    /\ cache' = Absent /\ overtaken' = FALSE /\ unsaid' = {}
    /\ Enters(o, IF actor[o].at = "drop" THEN "over" ELSE "load")
    /\ UNCHANGED <<rule, expired, kept, errors>>

(***************************************************************************)
(* LoadRepository, by operators and scans: list, then store under the      *)
(* matcher's lock.  A failed list is logged and leaves the entry as it is. *)
(***************************************************************************)
AfterLoad(a) == IF a \in FilteringScans THEN "filter" ELSE "over"

ListActiveSuppressions(a) ==
    /\ actor[a].at = IF a \in FilteringScans THEN "new" ELSE "load"
    /\ \/ actor' = [actor EXCEPT ![a] =
                       [actor[a] EXCEPT !.at = "store", !.list = LiveRules, !.late = FALSE]]
          /\ UNCHANGED errors
       \/ Erring /\ Enters(a, AfterLoad(a))
    /\ UNCHANGED <<rule, expired, cache, kept, overtaken, unsaid>>

LoadRepository_KeepsOld(a) ==
    /\ actor[a].at = "store"
    /\ IF cache.entry THEN UNCHANGED <<cache, overtaken>>
       ELSE cache' = [entry |-> TRUE, rules |-> actor[a].list] /\ overtaken' = actor[a].late
    /\ Enters(a, AfterLoad(a)) /\ unsaid' = {}
    /\ UNCHANGED <<rule, expired, kept, errors>>

LoadRepository(a) ==
    /\ actor[a].at = "store"
    /\ cache' = [entry |-> TRUE, rules |-> actor[a].list] /\ overtaken' = actor[a].late
    /\ Enters(a, AfterLoad(a)) /\ unsaid' = {}
    /\ UNCHANGED <<rule, expired, kept, errors>>

(***************************************************************************)
(* Scans.                                                                  *)
(***************************************************************************)
\* FilterIssues: what is left is filed and planned for.
FilterIssues(s) ==
    /\ actor[s].at = "filter" /\ Enters(s, "over")
    /\ kept' = [kept EXCEPT ![s] = {f \in Findings : ~IsSuppressed(f)}]
    /\ UNCHANGED <<rule, expired, cache, errors, overtaken, unsaid>>

ExpireRule(r) ==
    /\ rule[r] # "unused" /\ r \notin expired /\ expired' = expired \cup {r}
    /\ UNCHANGED <<rule, cache, actor, kept, errors, overtaken, unsaid>>

(***************************************************************************)
(* What the properties remember.                                           *)
(***************************************************************************)
Filtering(s) == actor[s].at \in {"store", "filter"}

Remember ==
    LET Lists(s) == actor[s].at = "new" /\ actor'[s].at # "new"
        Empties == cache.entry /\ ~cache'.entry
        Loads(a) == actor[a].at = "store" /\ actor'[a].at # "store"
    IN /\ steady' = [s \in FilteringScans |-> IF Lists(s) THEN LiveRules
                                              ELSE IF Filtering(s) THEN steady[s] \cap LiveRules' ELSE steady[s]]
       /\ seen' = [s \in FilteringScans |-> IF Lists(s) THEN LiveRules
                                            ELSE IF Filtering(s) THEN seen[s] \cup LiveRules' ELSE seen[s]]
       /\ disturbed' = disturbed
            \cup {s \in FilteringScans : Lists(s) /\ actor'[s].at = "filter"}
            \cup {s \in FilteringScans : Filtering(s) /\ (Empties \/ \E a \in Actors \ {s} : Loads(a))}

SuppressionsStep(a) ==
    \/ ListActiveSuppressions(a) \/ LoadRepository(a)
    \/ a \in FilteringScans /\ FilterIssues(a)
    \/ a \in Operators /\ (UpdateFindingStatus(a) \/ Invalidate(a) \/ CalibrationChanged(a))
    \/ a \in Operators /\ \E r \in Rules :
         \/ CreateSuppression(a, r) \/ DisableSuppression(a, r) \/ DisabledUnread(a, r)
         \/ \E f \in Findings : SuppressFinding(a, f, r)

SuppressionsNext ==
    /\ (\E a \in Actors : SuppressionsStep(a)) \/ (\E r \in Rules : ExpireRule(r))
    /\ Remember

SuppressionsSpec == SuppressionsInit /\ [][SuppressionsNext]_suppressionVars

(***************************************************************************)
(* Properties.                                                             *)
(***************************************************************************)
\* Rules, entry and actors have the shapes of the code.
SuppressionsTypeOK ==
    /\ rule \in [Rules -> {"unused", "active", "disabled"}] /\ expired \subseteq Rules
    /\ cache \in [entry : BOOLEAN, rules : SUBSET Rules]
    /\ actor \in [Actors -> [at : {"new", "mark", "drop", "reload", "load", "store",
                                   "filter", "over"},
                             rules : SUBSET Rules,
                             list : SUBSET Rules, late : BOOLEAN]]
    /\ kept \in [FilteringScans -> SUBSET Findings]

Telling(r) == \E o \in Operators :
    actor[o].at \in {"mark", "drop", "reload"} /\ r \in actor[o].rules

\* The entry differs from the table on a repository's rule only while an operator is
\* about to say so, gave up saying so, or wrote it between a load's list and its store.
EntryIsCurrent ==
    cache.entry /\ ~overtaken =>
        \A r \in RepoRules \ expired :
            (r \in cache.rules <=> rule[r] = "active") \/ Telling(r) \/ r \in unsaid

\* A scan whose load nobody disturbed leaves out what a rule covered all the time since
\* it listed the rules, and acts on what none covered in that time.
FilterIsTrue == \A s \in FilteringScans \ disturbed :
    actor[s].at = "over" => /\ kept[s] \cap CoveredBy(steady[s]) = {}
                            /\ Findings \ kept[s] \subseteq CoveredBy(seen[s])

(* Suppressions say what is so: the matcher's entry agrees with the table, scans   *)
(* filter by rules in force (Matcher, applyFindingSuppression, FilterIssues).      *)
SuppressionsAreTold == EntryIsCurrent /\ FilterIsTrue
=============================================================================
