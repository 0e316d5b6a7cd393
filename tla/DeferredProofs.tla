--------------------------- MODULE DeferredProofs ----------------------------
(***************************************************************************)
(* Theorems about what an operator decides of the findings: suppressions,  *)
(* remediation plans, the routes of a finding and the settings of a scan.  *)
(* Each part proves the invariants of one module, for every value of its   *)
(* constants that its assumptions allow; the last carries them over to the *)
(* instance that TLC checks.                                               *)
(***************************************************************************)
EXTENDS MCDeferred, RunnerJobsProofs, EvidenceClosureProofs, TLAPS

\* A list that a load holds, and that no write overtook, is the table's on the
\* repository's rules.
ListsAreTrue ==
    \A a \in Actors : actor[a].at = "store" /\ ~actor[a].late =>
        \A r \in RepoRules \ expired : r \in actor[a].list <=> rule[r] = "active"

\* What a scan that nobody disturbed filters with lies between the rules in force all
\* the time since its list and those in force at some time since then.
Undisturbed(s) ==
    /\ Filtering(s) => steady[s] \subseteq LiveRules
    /\ actor[s].at = "store" =>
         steady[s] \subseteq actor[s].list /\ actor[s].list \subseteq seen[s]
    /\ actor[s].at = "filter" =>
         /\ cache.entry /\ steady[s] \subseteq cache.rules /\ cache.rules \subseteq seen[s]
    /\ actor[s].at = "over" =>
         /\ kept[s] \cap CoveredBy(steady[s]) = {}
         /\ Findings \ kept[s] \subseteq CoveredBy(seen[s])

ScansAreTrue == \A s \in FilteringScans \ disturbed : Undisturbed(s)

SuppressionsInv == SuppressionsTypeOK /\ ListsAreTrue /\ EntryIsCurrent /\ ScansAreTrue

-----------------------------------------------------------------------------
LEMMA SuppressionsInitial == SuppressionsInit => SuppressionsInv
BY SuppressionAssumptions
   DEF SuppressionsInit, SuppressionsInv, SuppressionsTypeOK, ListsAreTrue, EntryIsCurrent,
       ScansAreTrue, Undisturbed, Filtering, Absent, Actors

(***************************************************************************)
(* How the actors move.                                                    *)
(***************************************************************************)
Place == {"new", "mark", "drop", "reload", "load", "store", "filter", "over"}

LEMMA EntersMoves ==
    ASSUME SuppressionsTypeOK, NEW a \in Actors, NEW p \in Place, Enters(a, p)
    PROVE  /\ actor'[a].at = p /\ actor'[a].rules = actor[a].rules
           /\ actor'[a].list = actor[a].list /\ actor'[a].late = actor[a].late
           /\ \A b \in Actors : b # a => actor'[b] = actor[b]
           /\ actor' \in [Actors -> [at : Place, rules : SUBSET Rules,
                                     list : SUBSET Rules, late : BOOLEAN]]
BY DEF SuppressionsTypeOK, Enters, Place

LEMMA WriteMoves ==
    ASSUME SuppressionsTypeOK, NEW a \in Actors, NEW r \in Rules, NEW p \in Place,
           NEW state \in {"active", "disabled"}, WriteRule(a, r, state, p)
    PROVE  /\ actor'[a].at = p /\ actor'[a].rules = {r}
           /\ rule' \in [Rules -> {"unused", "active", "disabled"}]
           /\ rule'[r] = state /\ \A q \in Rules : q # r => rule'[q] = rule[q]
           /\ \A b \in Actors : b # a =>
                /\ actor'[b].at = actor[b].at /\ actor'[b].rules = actor[b].rules
                /\ actor'[b].list = actor[b].list
                /\ actor'[b].late = (actor[b].late \/ (actor[b].at = "store" /\ r \in RepoRules))
           /\ actor' \in [Actors -> [at : Place, rules : SUBSET Rules,
                                     list : SUBSET Rules, late : BOOLEAN]]
<1>1. /\ rule' \in [Rules -> {"unused", "active", "disabled"}]
      /\ rule'[r] = state /\ \A q \in Rules : q # r => rule'[q] = rule[q]
  BY DEF SuppressionsTypeOK, WriteRule
<1>2. actor'[a] = [actor[a] EXCEPT !.at = p, !.rules = {r}]
  BY DEF WriteRule
<1>3. \A b \in Actors : b # a =>
        actor'[b] = IF actor[b].at = "store" /\ r \in RepoRules THEN [actor[b] EXCEPT !.late = TRUE]
                    ELSE actor[b]
  BY DEF WriteRule
<1>4. \A b \in Actors : actor[b] \in [at : Place, rules : SUBSET Rules,
                                     list : SUBSET Rules, late : BOOLEAN]
  BY DEF SuppressionsTypeOK, Place
<1>5. actor'[a] = [at |-> p, rules |-> {r}, list |-> actor[a].list, late |-> actor[a].late]
  BY <1>2, <1>4
<1>6. ASSUME NEW b \in Actors, b # a
      PROVE actor'[b] = [at |-> actor[b].at, rules |-> actor[b].rules, list |-> actor[b].list,
               late |-> (actor[b].late \/ (actor[b].at = "store" /\ r \in RepoRules))]
  <2>1. CASE actor[b].at = "store" /\ r \in RepoRules
    BY <1>3, <1>4, <1>6, <2>1
  <2>2. CASE ~(actor[b].at = "store" /\ r \in RepoRules)
    BY <1>3, <1>4, <1>6, <2>2
  <2> QED BY <2>1, <2>2
<1>7. \A b \in Actors : actor'[b] \in [at : Place, rules : SUBSET Rules,
                                     list : SUBSET Rules, late : BOOLEAN]
  <2>1. ASSUME NEW b \in Actors, b # a, actor[b].at = "store" /\ r \in RepoRules
        PROVE  actor'[b] \in [at : Place, rules : SUBSET Rules, list : SUBSET Rules, late : BOOLEAN]
    BY <1>3, <1>4, <2>1
  <2>2. ASSUME NEW b \in Actors, b # a, ~(actor[b].at = "store" /\ r \in RepoRules)
        PROVE  actor'[b] \in [at : Place, rules : SUBSET Rules, list : SUBSET Rules, late : BOOLEAN]
    BY <1>3, <1>4, <2>2
  <2> QED BY <1>4, <1>5, <2>1, <2>2
<1>8. actor' = [b \in Actors |-> actor'[b]]
  BY DEF WriteRule
<1>9. actor' \in [Actors -> [at : Place, rules : SUBSET Rules, list : SUBSET Rules, late : BOOLEAN]]
  BY <1>7, <1>8
<1> QED BY <1>1, <1>5, <1>6, <1>9

(***************************************************************************)
(* What the history variables remember of a step.                          *)
(***************************************************************************)
\* A step in which scan s stays where it is, nobody loads, and no entry goes.
LEMMA RememberStay ==
    ASSUME Remember, NEW s \in FilteringScans, Undisturbed(s), s \notin disturbed',
           actor'[s].at = actor[s].at, actor'[s].list = actor[s].list,
           kept'[s] = kept[s],
           actor[s].at = "filter" => cache' = cache
    PROVE  Undisturbed(s)'
<1>1. CASE Filtering(s)
  <2>1. steady'[s] = steady[s] \cap LiveRules' /\ seen'[s] = seen[s] \cup LiveRules'
    BY <1>1 DEF Remember, Filtering
  <2> QED BY <1>1, <2>1 DEF Undisturbed, Filtering
<1>2. CASE ~Filtering(s)
  <2>1. steady'[s] = steady[s] /\ seen'[s] = seen[s]
    BY <1>2 DEF Remember, Filtering
  <2> QED BY <1>2, <2>1 DEF Undisturbed, Filtering, CoveredBy
<1> QED BY <1>1, <1>2

\* A step of others leaves an undisturbed scan undisturbed, if it says so afterwards.
LEMMA OthersLeave ==
    ASSUME Remember, SuppressionsInv, NEW s \in FilteringScans, s \notin disturbed',
           actor'[s].at = actor[s].at, actor'[s].list = actor[s].list, kept'[s] = kept[s],
           \/ UNCHANGED cache
           \/ ~cache'.entry
           \/ \E a \in Actors \ {s} : actor[a].at = "store" /\ actor'[a].at # "store"
    PROVE  Undisturbed(s)'
<1>1. s \notin disturbed /\ Undisturbed(s)
  BY DEF Remember, SuppressionsInv, ScansAreTrue
<1>2. ASSUME actor[s].at = "filter" PROVE cache' = cache
  <2>1. Filtering(s) /\ cache.entry
    BY <1>1, <1>2 DEF Undisturbed, Filtering
  <2>2. cache'.entry
    BY <2>1 DEF Remember
  <2>3. ~ \E a \in Actors \ {s} : actor[a].at = "store" /\ actor'[a].at # "store"
    BY <2>1 DEF Remember
  <2> QED BY <2>2, <2>3
<1> QED BY <1>1, <1>2, RememberStay

\* Scans are untouched by a step of an operator.
LEMMA OperatorLeavesScans ==
    ASSUME Remember, SuppressionsInv, NEW o \in Operators, kept' = kept,
           \A b \in Actors : b # o => actor'[b].at = actor[b].at /\ actor'[b].list = actor[b].list,
           \/ UNCHANGED cache
           \/ ~cache'.entry
           \/ actor[o].at = "store" /\ actor'[o].at # "store"
    PROVE  ScansAreTrue'
<1> SUFFICES ASSUME NEW s \in FilteringScans, s \notin disturbed' PROVE Undisturbed(s)'
  BY DEF ScansAreTrue
<1>1. s \in Actors /\ o \in Actors /\ s # o
  BY SuppressionAssumptions DEF Actors
<1>2. actor'[s].at = actor[s].at /\ actor'[s].list = actor[s].list /\ kept'[s] = kept[s]
  BY <1>1
<1> QED BY <1>1, <1>2, OthersLeave

(***************************************************************************)
(* A write to a rule.                                                      *)
(***************************************************************************)
\* A rule of the repository that is written is about to be told of, or will not be.
LEMMA WriteKeeps ==
    ASSUME Remember, SuppressionsInv, NEW o \in Operators, NEW r \in Rules, NEW p \in {"mark", "drop", "over"},
           NEW state \in {"active", "disabled"}, WriteRule(o, r, state, p),
           actor[o].at = "new",
           UNCHANGED <<expired, cache, kept, overtaken>>,
           unsaid \subseteq unsaid', p = "over" /\ r \in RepoRules => r \in unsaid'
    PROVE  SuppressionsInv'
<1>1. o \in Actors /\ p \in Place /\ SuppressionsTypeOK
  BY DEF Actors, Place, SuppressionsInv
<1>2. /\ actor'[o].at = p /\ actor'[o].rules = {r}
      /\ rule' \in [Rules -> {"unused", "active", "disabled"}]
      /\ rule'[r] = state /\ \A q \in Rules : q # r => rule'[q] = rule[q]
      /\ \A b \in Actors : b # o =>
           /\ actor'[b].at = actor[b].at /\ actor'[b].rules = actor[b].rules
           /\ actor'[b].list = actor[b].list
           /\ actor'[b].late = (actor[b].late \/ (actor[b].at = "store" /\ r \in RepoRules))
      /\ actor' \in [Actors -> [at : Place, rules : SUBSET Rules,
                                list : SUBSET Rules, late : BOOLEAN]]
  BY <1>1, WriteMoves
<1>3. SuppressionsTypeOK'
  BY <1>1, <1>2 DEF SuppressionsTypeOK, Place
<1>4. ListsAreTrue'
  <2> SUFFICES ASSUME NEW a \in Actors, actor'[a].at = "store", ~actor'[a].late,
                      NEW q \in RepoRules \ expired
               PROVE  q \in actor'[a].list <=> rule'[q] = "active"
    BY DEF ListsAreTrue
  <2>1. a # o BY <1>2
  <2>2. actor[a].at = "store" /\ ~actor[a].late /\ r \notin RepoRules BY <1>2, <2>1
  <2>3. rule'[q] = rule[q] BY <1>2, <2>2, SuppressionAssumptions
  <2>4. q \in actor[a].list <=> rule[q] = "active" BY <2>2 DEF SuppressionsInv, ListsAreTrue
  <2> QED BY <1>2, <2>1, <2>3, <2>4
<1>5. EntryIsCurrent'
  <2> SUFFICES ASSUME cache.entry, ~overtaken, NEW q \in RepoRules \ expired
               PROVE  (q \in cache.rules <=> rule'[q] = "active") \/ Telling(q)' \/ q \in unsaid'
    BY DEF EntryIsCurrent
  <2>1. CASE q = r
    <3>1. p # "over" => Telling(q)' BY <1>2, <2>1 DEF Telling
    <3> QED BY <2>1, <3>1
  <2>2. CASE q # r
    <3>1. rule'[q] = rule[q] BY <1>2, <2>2, SuppressionAssumptions
    <3>2. Telling(q) => Telling(q)'
      <4> SUFFICES ASSUME NEW u \in Operators, actor[u].at \in {"mark", "drop", "reload"},
                          q \in actor[u].rules
                   PROVE  Telling(q)'
        BY DEF Telling
      <4>1. u # o /\ u \in Actors BY <1>1 DEF Actors
      <4> QED BY <1>2, <4>1 DEF Telling
    <3>3. (q \in cache.rules <=> rule[q] = "active") \/ Telling(q) \/ q \in unsaid
      BY DEF SuppressionsInv, EntryIsCurrent
    <3> QED BY <3>1, <3>2, <3>3
  <2> QED BY <2>1, <2>2
<1>6. ScansAreTrue'
  BY <1>2, OperatorLeavesScans
<1> QED BY <1>3, <1>4, <1>5, <1>6 DEF SuppressionsInv

(***************************************************************************)
(* An operator who has written.                                            *)
(***************************************************************************)
\* An operator's step without a write and without a load keeps what is told.
LEMMA OperatorMoves ==
    ASSUME Remember, SuppressionsInv, NEW o \in Operators, NEW p \in Place \ {"store"}, Enters(o, p),
           UNCHANGED <<rule, expired, cache, kept, overtaken>>,
           unsaid \subseteq unsaid',
           actor[o].at \in {"mark", "drop", "reload"} /\ p \notin {"mark", "drop", "reload"}
               => actor[o].rules \subseteq unsaid'
    PROVE  SuppressionsInv'
<1>1. o \in Actors /\ SuppressionsTypeOK
  BY DEF Actors, SuppressionsInv
<1>2. /\ actor'[o].at = p /\ actor'[o].rules = actor[o].rules
      /\ \A b \in Actors : b # o => actor'[b] = actor[b]
      /\ actor' \in [Actors -> [at : Place, rules : SUBSET Rules,
                                list : SUBSET Rules, late : BOOLEAN]]
  BY <1>1, EntersMoves
<1>3. SuppressionsTypeOK'
  BY <1>1, <1>2 DEF SuppressionsTypeOK, Place
<1>4. ListsAreTrue'
  BY <1>2 DEF ListsAreTrue, SuppressionsInv
<1>5. EntryIsCurrent'
  <2>1. ASSUME NEW q, Telling(q) PROVE Telling(q)' \/ q \in unsaid'
    <3>1. PICK u \in Operators : actor[u].at \in {"mark", "drop", "reload"} /\ q \in actor[u].rules
      BY <2>1 DEF Telling
    <3>2. CASE u = o BY <1>2, <3>1, <3>2 DEF Telling
    <3>3. CASE u # o BY <1>2, <3>1, <3>3 DEF Telling, Actors
    <3> QED BY <3>2, <3>3
  <2> QED BY <2>1 DEF EntryIsCurrent, SuppressionsInv
<1>6. ScansAreTrue'
  BY <1>2, OperatorLeavesScans
<1> QED BY <1>3, <1>4, <1>5, <1>6 DEF SuppressionsInv

LEMMA InvalidateKeeps ==
    ASSUME Remember, SuppressionsInv, NEW o \in Operators, Invalidate(o)
    PROVE  SuppressionsInv'
<1>0. PICK p \in {"over", "load"} : Enters(o, p)
  BY DEF Invalidate
<1>1. o \in Actors /\ SuppressionsTypeOK /\ p \in Place
  BY DEF Actors, SuppressionsInv, Place
<1>2. /\ actor'[o].at = p
      /\ \A b \in Actors : b # o => actor'[b] = actor[b]
      /\ actor' \in [Actors -> [at : Place, rules : SUBSET Rules,
                                list : SUBSET Rules, late : BOOLEAN]]
  BY <1>0, <1>1, EntersMoves
<1>3. cache' = [entry |-> FALSE, rules |-> {}] /\ UNCHANGED <<rule, expired, kept>>
  BY DEF Invalidate, Absent
<1>4. SuppressionsTypeOK'
  BY <1>1, <1>2, <1>3 DEF SuppressionsTypeOK, Place
<1>5. ListsAreTrue'
  BY <1>2, <1>3 DEF ListsAreTrue, SuppressionsInv
<1>6. EntryIsCurrent'
  BY <1>3 DEF EntryIsCurrent
<1>7. ScansAreTrue'
  BY <1>2, <1>3, OperatorLeavesScans
<1> QED BY <1>4, <1>5, <1>6, <1>7 DEF SuppressionsInv

(***************************************************************************)
(* Loads.                                                                  *)
(***************************************************************************)
LEMMA ListKeeps ==
    ASSUME Remember, SuppressionsInv, NEW a \in Actors, ListActiveSuppressions(a)
    PROVE  SuppressionsInv'
<1>1. SuppressionsTypeOK /\ UNCHANGED <<rule, expired, cache, kept, overtaken, unsaid>>
  BY DEF SuppressionsInv, ListActiveSuppressions
<1>2. actor[a].at = (IF a \in FilteringScans THEN "new" ELSE "load")
  BY DEF ListActiveSuppressions
<1>3. \A b \in Actors : b # a => actor'[b] = actor[b]
  <2>1. CASE Enters(a, AfterLoad(a)) BY <2>1, <1>1 DEF Enters
  <2>2. CASE actor' = [actor EXCEPT ![a] =
                         [actor[a] EXCEPT !.at = "store", !.list = LiveRules, !.late = FALSE]]
    BY <2>2, <1>1 DEF SuppressionsTypeOK
  <2> QED BY <2>1, <2>2 DEF ListActiveSuppressions
<1>4. /\ actor'[a] \in [at : Place, rules : SUBSET Rules, list : SUBSET Rules, late : BOOLEAN]
      /\ \/ actor'[a].at = "store" /\ actor'[a].list = LiveRules /\ ~actor'[a].late
         \/ actor'[a].at = AfterLoad(a)
  <2>0. actor[a] \in [at : Place, rules : SUBSET Rules, list : SUBSET Rules, late : BOOLEAN]
    BY <1>1 DEF SuppressionsTypeOK, Place
  <2>1. CASE Enters(a, AfterLoad(a)) BY <2>1, <1>1, EntersMoves DEF AfterLoad, Place
  <2>2. CASE actor' = [actor EXCEPT ![a] =
                         [actor[a] EXCEPT !.at = "store", !.list = LiveRules, !.late = FALSE]]
    <3>1. actor'[a] = [at |-> "store", rules |-> actor[a].rules, list |-> LiveRules, late |-> FALSE]
      BY <2>0, <2>2, <1>1 DEF SuppressionsTypeOK
    <3>2. LiveRules \subseteq Rules BY DEF LiveRules
    <3> QED BY <2>0, <3>1, <3>2 DEF Place
  <2> QED BY <2>1, <2>2 DEF ListActiveSuppressions
<1>5. actor' \in [Actors -> [at : Place, rules : SUBSET Rules, list : SUBSET Rules, late : BOOLEAN]]
  <2>1. actor' = [b \in Actors |-> actor'[b]]
    BY <1>1 DEF ListActiveSuppressions, Enters, SuppressionsTypeOK
  <2>2. \A b \in Actors : actor'[b] \in [at : Place, rules : SUBSET Rules, list : SUBSET Rules, late : BOOLEAN]
    BY <1>1, <1>3, <1>4 DEF SuppressionsTypeOK, Place
  <2> QED BY <2>1, <2>2
<1>6. SuppressionsTypeOK'
  BY <1>1, <1>5 DEF SuppressionsTypeOK, Place
<1>7. ListsAreTrue'
  <2> SUFFICES ASSUME NEW b \in Actors, actor'[b].at = "store", ~actor'[b].late,
                      NEW q \in RepoRules \ expired
               PROVE  q \in actor'[b].list <=> rule[q] = "active"
    BY <1>1 DEF ListsAreTrue
  <2>1. CASE b = a
    <3>1. actor'[b].list = LiveRules BY <1>4, <2>1 DEF AfterLoad
    <3> QED BY <3>1, SuppressionAssumptions DEF LiveRules
  <2>2. CASE b # a
    BY <1>3, <2>2 DEF ListsAreTrue, SuppressionsInv
  <2> QED BY <2>1, <2>2
<1>8. EntryIsCurrent'
  <2>1. ASSUME NEW q, Telling(q) PROVE Telling(q)'
    <3>1. PICK u \in Operators : actor[u].at \in {"mark", "drop", "reload"} /\ q \in actor[u].rules
      BY <2>1 DEF Telling
    <3>2. u # a /\ u \in Actors BY <1>2, <3>1 DEF Actors
    <3> QED BY <1>3, <3>1, <3>2 DEF Telling
  <2> QED BY <1>1, <2>1 DEF EntryIsCurrent, SuppressionsInv
<1>9. ScansAreTrue'
  <2> SUFFICES ASSUME NEW s \in FilteringScans, s \notin disturbed' PROVE Undisturbed(s)'
    BY DEF ScansAreTrue
  <2>1. CASE s # a
    BY <1>1, <1>3, <2>1, OthersLeave DEF Actors
  <2>2. CASE s = a
    <3>1. actor[s].at = "new" /\ actor'[s].at # "new" BY <1>2, <1>4, <2>2 DEF AfterLoad
    <3>2. steady'[s] = LiveRules /\ seen'[s] = LiveRules BY <3>1 DEF Remember
    <3>3. actor'[s].at # "filter" BY <3>1 DEF Remember
    <3>4. actor'[s].at = "store" /\ actor'[s].list = LiveRules BY <1>4, <2>2, <3>3 DEF AfterLoad
    <3>5. LiveRules' = LiveRules BY <1>1 DEF LiveRules
    <3> QED BY <3>2, <3>4, <3>5 DEF Undisturbed
  <2> QED BY <2>1, <2>2
<1> QED BY <1>6, <1>7, <1>8, <1>9 DEF SuppressionsInv

LEMMA LoadKeeps ==
    ASSUME Remember, SuppressionsInv, NEW a \in Actors, LoadRepository(a)
    PROVE  SuppressionsInv'
<1>1. /\ SuppressionsTypeOK /\ UNCHANGED <<rule, expired, kept>> /\ actor[a].at = "store"
      /\ cache' = [entry |-> TRUE, rules |-> actor[a].list] /\ overtaken' = actor[a].late
      /\ AfterLoad(a) \in Place
  BY DEF SuppressionsInv, LoadRepository, AfterLoad, Place
<1>2. /\ actor'[a].at = AfterLoad(a)
      /\ \A b \in Actors : b # a => actor'[b] = actor[b]
      /\ actor' \in [Actors -> [at : Place, rules : SUBSET Rules,
                                list : SUBSET Rules, late : BOOLEAN]]
  BY <1>1, EntersMoves DEF LoadRepository
<1>3. SuppressionsTypeOK'
  BY <1>1, <1>2 DEF SuppressionsTypeOK, Place
<1>4. ListsAreTrue'
  BY <1>1, <1>2 DEF ListsAreTrue, SuppressionsInv, AfterLoad
<1>5. EntryIsCurrent'
  BY <1>1 DEF EntryIsCurrent, ListsAreTrue, SuppressionsInv
<1>6. ScansAreTrue'
  <2> SUFFICES ASSUME NEW s \in FilteringScans, s \notin disturbed' PROVE Undisturbed(s)'
    BY DEF ScansAreTrue
  <2>1. CASE s # a
    <3>1. actor'[a].at # "store" BY <1>2 DEF AfterLoad
    <3> QED BY <1>1, <1>2, <2>1, <3>1, OthersLeave DEF Actors
  <2>2. CASE s = a
    <3>1. s \notin disturbed /\ Undisturbed(s) /\ Filtering(s)
      BY <1>1, <2>2 DEF Remember, SuppressionsInv, ScansAreTrue, Filtering
    <3>2. actor'[s].at = "filter" BY <1>2, <2>2 DEF AfterLoad
    <3>3. steady'[s] = steady[s] \cap LiveRules' /\ seen'[s] = seen[s] \cup LiveRules'
      BY <1>1, <2>2, <3>1 DEF Remember, Filtering
    <3> QED BY <1>1, <2>2, <3>1, <3>2, <3>3 DEF Undisturbed, Filtering
  <2> QED BY <2>1, <2>2
<1> QED BY <1>3, <1>4, <1>5, <1>6 DEF SuppressionsInv

(***************************************************************************)
(* Scans, and time.                                                        *)
(***************************************************************************)
LEMMA FilterKeeps ==
    ASSUME Remember, SuppressionsInv, NEW s \in FilteringScans, FilterIssues(s)
    PROVE  SuppressionsInv'
<1>1. /\ SuppressionsTypeOK /\ UNCHANGED <<rule, expired, cache, overtaken, unsaid>> /\ actor[s].at = "filter"
      /\ s \in Actors /\ "over" \in Place
  BY DEF SuppressionsInv, FilterIssues, Place, Actors
<1>2. /\ actor'[s].at = "over"
      /\ \A b \in Actors : b # s => actor'[b] = actor[b]
      /\ actor' \in [Actors -> [at : Place, rules : SUBSET Rules,
                                list : SUBSET Rules, late : BOOLEAN]]
  BY <1>1, EntersMoves DEF FilterIssues
<1>3. /\ kept' \in [FilteringScans -> SUBSET Findings]
      /\ kept'[s] = {f \in Findings : ~IsSuppressed(f)}
      /\ \A t \in FilteringScans : t # s => kept'[t] = kept[t]
  BY <1>1 DEF FilterIssues, SuppressionsTypeOK
<1>4. SuppressionsTypeOK'
  BY <1>1, <1>2, <1>3 DEF SuppressionsTypeOK, Place
<1>5. ListsAreTrue'
  BY <1>1, <1>2 DEF ListsAreTrue, SuppressionsInv
<1>6. EntryIsCurrent'
  <2>1. ASSUME NEW q, Telling(q) PROVE Telling(q)'
    BY <1>1, <1>2, <2>1 DEF Telling, Actors
  <2> QED BY <1>1, <2>1 DEF EntryIsCurrent, SuppressionsInv
<1>7. ScansAreTrue'
  <2> SUFFICES ASSUME NEW t \in FilteringScans, t \notin disturbed' PROVE Undisturbed(t)'
    BY DEF ScansAreTrue
  <2>1. CASE t # s
    BY <1>1, <1>2, <1>3, <2>1, OthersLeave DEF Actors
  <2>2. CASE t = s
    <3>1. Undisturbed(s) /\ Filtering(s)
      BY <1>1, <2>2 DEF Remember, SuppressionsInv, ScansAreTrue, Filtering
    <3>2. steady'[s] = steady[s] \cap LiveRules' /\ seen'[s] = seen[s] \cup LiveRules'
      BY <1>1, <3>1 DEF Remember, Filtering
    <3>3. steady[s] \subseteq LiveRules /\ steady[s] \subseteq cache.rules /\ cache.rules \subseteq seen[s]
      BY <1>1, <3>1 DEF Undisturbed
    <3>4. kept'[s] \cap CoveredBy(steady[s]) = {}
      BY <1>3, <3>3 DEF IsSuppressed, CoveredBy, LiveRules
    <3>5. Findings \ kept'[s] \subseteq CoveredBy(seen[s])
      BY <1>3, <3>3 DEF IsSuppressed, CoveredBy
    <3>6. CoveredBy(steady[s])' = CoveredBy(steady'[s]) /\ CoveredBy(seen[s])' = CoveredBy(seen'[s])
      BY DEF CoveredBy
    <3>7. CoveredBy(steady'[s]) \subseteq CoveredBy(steady[s]) /\ CoveredBy(seen[s]) \subseteq CoveredBy(seen'[s])
      BY <3>2 DEF CoveredBy
    <3> QED BY <1>2, <2>2, <3>4, <3>5, <3>6, <3>7 DEF Undisturbed, Filtering
  <2> QED BY <2>1, <2>2
<1> QED BY <1>4, <1>5, <1>6, <1>7 DEF SuppressionsInv

LEMMA ExpireKeeps ==
    ASSUME Remember, SuppressionsInv, NEW r \in Rules, ExpireRule(r)
    PROVE  SuppressionsInv'
<1>1. /\ expired' = expired \cup {r}
      /\ UNCHANGED <<rule, cache, actor, kept, errors, overtaken, unsaid>>
  BY DEF ExpireRule
<1>2. SuppressionsTypeOK' BY <1>1 DEF SuppressionsTypeOK, SuppressionsInv
<1>3. ListsAreTrue' BY <1>1 DEF ListsAreTrue, SuppressionsInv
<1>4. EntryIsCurrent' BY <1>1 DEF EntryIsCurrent, Telling, SuppressionsInv
<1>5. ScansAreTrue' BY <1>1, OthersLeave DEF ScansAreTrue
<1> QED BY <1>2, <1>3, <1>4, <1>5 DEF SuppressionsInv

(***************************************************************************)
(* Every step keeps the invariant.                                         *)
(***************************************************************************)
LEMMA OperatorKeeps ==
    ASSUME Remember, SuppressionsInv, NEW o \in Operators,
           \/ UpdateFindingStatus(o) \/ Invalidate(o) \/ CalibrationChanged(o)
           \/ \E r \in Rules :
                \/ CreateSuppression(o, r) \/ DisableSuppression(o, r) \/ DisabledUnread(o, r)
                \/ \E f \in Findings : SuppressFinding(o, f, r)
    PROVE  SuppressionsInv'
<1>1. CASE UpdateFindingStatus(o)
  <2>1. PICK p \in {"reload", "over"} : /\ Enters(o, p) /\ unsaid \subseteq unsaid'
                                        /\ p = "over" => actor[o].rules \subseteq unsaid'
    BY <1>1 DEF UpdateFindingStatus
  <2>2. p \in Place \ {"store"} BY DEF Place
  <2>3. UNCHANGED <<rule, expired, cache, kept, overtaken>> BY <1>1 DEF UpdateFindingStatus
  <2> QED BY <2>1, <2>2, <2>3, OperatorMoves
<1>2. CASE Invalidate(o)
  BY <1>2, InvalidateKeeps
<1>3. CASE CalibrationChanged(o)
  <2>1. PICK p \in {"drop", "reload"} : Enters(o, p)
    BY <1>3 DEF CalibrationChanged
  <2>2. p \in Place \ {"store"} BY DEF Place
  <2>3. UNCHANGED <<rule, expired, cache, kept, overtaken, unsaid>> /\ actor[o].at = "new"
    BY <1>3 DEF CalibrationChanged
  <2> QED BY <2>1, <2>2, <2>3, OperatorMoves
<1>4. ASSUME NEW r \in Rules, CreateSuppression(o, r) PROVE SuppressionsInv'
  <2>1. PICK p \in {"drop", "over"} : WriteRule(o, r, "active", p) /\ (p = "over" => r \notin RepoRules)
    BY <1>4 DEF CreateSuppression
  <2>2. UNCHANGED <<expired, cache, kept, overtaken, unsaid>> /\ actor[o].at = "new"
    BY <1>4 DEF CreateSuppression
  <2> QED BY <2>1, <2>2, WriteKeeps
<1>5. ASSUME NEW r \in Rules, DisableSuppression(o, r) PROVE SuppressionsInv'
  <2>1. PICK p \in {"drop", "over"} : WriteRule(o, r, "disabled", p) /\ (p = "over" => r \notin RepoRules)
    BY <1>5 DEF DisableSuppression
  <2>2. UNCHANGED <<expired, cache, kept, overtaken, unsaid>> /\ actor[o].at = "new"
    BY <1>5 DEF DisableSuppression
  <2> QED BY <2>1, <2>2, WriteKeeps
<1>6. ASSUME NEW r \in Rules, DisabledUnread(o, r) PROVE SuppressionsInv'
  <2>1. WriteRule(o, r, "disabled", "over") /\ unsaid' = unsaid \cup {r}
    BY <1>6 DEF DisabledUnread
  <2>2. UNCHANGED <<expired, cache, kept, overtaken>> /\ actor[o].at = "new"
    BY <1>6 DEF DisabledUnread
  <2> QED BY <2>1, <2>2, WriteKeeps
<1>7. ASSUME NEW r \in Rules, NEW f \in Findings, SuppressFinding(o, f, r) PROVE SuppressionsInv'
  <2>1. WriteRule(o, r, "active", "mark")
    BY <1>7 DEF SuppressFinding
  <2>2. UNCHANGED <<expired, cache, kept, overtaken, unsaid>> /\ actor[o].at = "new"
    BY <1>7 DEF SuppressFinding
  <2> QED BY <2>1, <2>2, WriteKeeps
<1> QED BY <1>1, <1>2, <1>3, <1>4, <1>5, <1>6, <1>7

LEMMA SuppressionsKeeps == SuppressionsInv /\ [SuppressionsNext]_suppressionVars => SuppressionsInv'
<1> SUFFICES ASSUME SuppressionsInv, [SuppressionsNext]_suppressionVars PROVE SuppressionsInv'
  OBVIOUS
<1>1. CASE UNCHANGED suppressionVars
  BY <1>1 DEF suppressionVars, SuppressionsInv, SuppressionsTypeOK, ListsAreTrue, EntryIsCurrent,
              Telling, ScansAreTrue, Undisturbed, Filtering, LiveRules, CoveredBy
<1>2. ASSUME NEW a \in Actors, SuppressionsStep(a), Remember PROVE SuppressionsInv'
  BY <1>2, ListKeeps, LoadKeeps, FilterKeeps, OperatorKeeps DEF SuppressionsStep
<1>3. ASSUME NEW r \in Rules, ExpireRule(r), Remember PROVE SuppressionsInv'
  BY <1>3, ExpireKeeps
<1> QED BY <1>1, <1>2, <1>3 DEF SuppressionsNext

\* Rules, the matcher's entry and the actors keep their shapes.
THEOREM SuppressionsTypeCorrect == SuppressionsSpec => []SuppressionsTypeOK
<1>1. SuppressionsInv => SuppressionsTypeOK BY DEF SuppressionsInv
<1> QED BY <1>1, SuppressionsInitial, SuppressionsKeeps, PTL DEF SuppressionsSpec

\* However operators' writes cross the loads of scans, the matcher's entry is right about
\* a repository's rules unless somebody is about to say so or failed to, and a scan that
\* nobody disturbed leaves out what was suppressed all the time and nothing that never was
\* (Matcher, applyFindingSuppression, FilterIssues).
THEOREM SuppressionsTold == SuppressionsSpec => []SuppressionsAreTold
<1>1. SuppressionsInv => SuppressionsAreTold
  BY DEF SuppressionsInv, SuppressionsAreTold, FilterIsTrue, ScansAreTrue, Undisturbed
<1> QED BY <1>1, SuppressionsInitial, SuppressionsKeeps, PTL DEF SuppressionsSpec

------------------------------------------------------------------------------

\* Two rows of the finding: they differ by the severity at most.
SameFinding(c, d) ==
    /\ c.source = d.source /\ c.category = d.category /\ c.rule = d.rule
    /\ c.conf = d.conf /\ c.file = d.file /\ c.major = d.major

\* The row that a planner read is the finding's, with a severity it has had since.
PlannerReads(g) ==
    /\ planner[g] \in [at : {"new", "supersede", "generate", "over"}, of : FindingRows]
    /\ SameFinding(planner[g].of, subject)
    /\ planner[g].at # "new" => planner[g].of.sev \in rated[g]

\* A plan is its planner's, who is done, with a draft for the row that was read.
PlanIsOf(g) ==
    plan[g] # Unplanned =>
        /\ planner[g].at = "over"
        /\ plan[g].status \in {"proposed", "approved", "rejected", "superseded"}
        /\ plan[g].draft \in Generate(planner[g].of)
        /\ plan[g] = [status |-> plan[g].status, draft |-> plan[g].draft]

\* What two planners have to do with one another.
PlannersMet(g, h) ==
    /\ UnderWay(g) /\ UnderWay(h) => {g, h} \in together
    /\ planner[g].at = "generate" /\ plan[h].status = "proposed" =>
         {g, h} \in together \/ unheeded \cap {g, h} # {}
    /\ plan[g].status = "proposed" /\ plan[h].status = "proposed" =>
         {g, h} \in together \/ unheeded \cap {g, h} # {}

\* A request for an approved plan has seen it approved.
RequestIsFor(a) ==
    /\ request[a] \in [at : {"new", "checked", "granted", "refused"}, plan : Planners \cup {NoPlan}]
    /\ request[a].at # "new" => request[a].plan \in Planners /\ plan[request[a].plan] # Unplanned
    /\ request[a].plan \in Planners /\ plan[request[a].plan].status = "approved" => a \in approvedFor

PlansInv ==
    /\ subject \in FindingRows
    /\ subject.source = "trivy" /\ subject.rule \in {"MIS", "DS029"} => subject.category = "misconfiguration"
    /\ planner = [g \in Planners |-> planner[g]] /\ plan = [g \in Planners |-> plan[g]]
    /\ request = [a \in PullRequests |-> request[a]] /\ rated = [g \in Planners |-> rated[g]]
    /\ \A g \in Planners : PlannerReads(g) /\ PlanIsOf(g)
    /\ \A g, h \in Planners : g # h => PlannersMet(g, h)
    /\ \A a \in PullRequests : RequestIsFor(a)
    /\ GrantIsDue

-----------------------------------------------------------------------------
\* A draft is about the finding as it was read, a policy's under the policy's category.
LEMMA DraftIsOf ==
    ASSUME NEW c \in FindingRows, NEW d \in Generate(c)
    PROVE  /\ d.of.source = c.source /\ d.of.rule = c.rule /\ d.of.sev = c.sev
           /\ d.of.category = IF Misconfigured(c) THEN "misconfiguration" ELSE c.category
<1>1. ApplyRecipe(c).of = IF Misconfigured(c) THEN [c EXCEPT !.category = "misconfiguration"] ELSE c
  BY DEF ApplyRecipe
<1>2. d.of = ApplyRecipe(c).of
  <2>1. CASE d = ApplyRecipe(c) BY <2>1
  <2>2. CASE d \in Enriched(ApplyRecipe(c)) BY <2>2 DEF Enriched
  <2> QED BY <2>1, <2>2 DEF Generate
<1> QED BY <1>1, <1>2 DEF FindingRows

\* What CheckPREligibility lets through is of a kind that a patcher mends, of no kind
\* that is forbidden, and not grave unless a policy says how to mend it.
LEMMA EligibleIsMendable ==
    ASSUME NEW c \in FindingRows, NEW p, p.draft \in Generate(c), CheckPREligibility(p),
           c.source = "trivy" /\ c.rule \in {"MIS", "DS029"} => c.category = "misconfiguration"
    PROVE  /\ p.status = "approved"
           /\ ~FromAI(c) /\ c.category \notin {"secret", "security", "architecture", "dependency"}
           /\ \/ c.source \in {"staticcheck", "hadolint"} /\ c.sev \in {"low", "medium"}
              \/ c.source = "trivy" /\ Misconfigured(c)
<1>1. /\ p.draft.of.source = c.source /\ p.draft.of.rule = c.rule /\ p.draft.of.sev = c.sev
      /\ p.draft.of.category = IF Misconfigured(c) THEN "misconfiguration" ELSE c.category
  BY DraftIsOf
<1>2. /\ p.status = "approved" /\ SupportsPatch(p.draft.of)
      /\ \/ ~Forbidden(p.draft.of)
         \/ p.draft.of.source = "trivy"
      /\ p.draft.of.source = "trivy" \/ p.draft.of.sev \in {"low", "medium"}
  BY DEF CheckPREligibility
<1>3. CASE c.source = "trivy"
  BY <1>1, <1>2, <1>3 DEF SupportsPatch, Misconfigured, PolicyScanners, FromAI
<1>4. CASE c.source # "trivy"
  <2>1. c.source \in {"staticcheck", "hadolint"} /\ c.sev \in {"low", "medium"} /\ ~FromAI(c)
    BY <1>1, <1>2, <1>4 DEF SupportsPatch, FromAI
  <2>2. p.draft.of.category \notin {"secret", "security", "architecture", "dependency"}
    BY <1>1, <1>2, <1>4 DEF Forbidden
  <2> QED BY <1>1, <1>2, <2>1, <2>2 DEF Misconfigured
<1> QED BY <1>3, <1>4

\* What is said of the finding holds of every row of it.
LEMMA KindIsKept ==
    ASSUME NEW c, NEW d, SameFinding(c, d)
    PROVE  FromAI(c) = FromAI(d) /\ Misconfigured(c) = Misconfigured(d)
BY DEF SameFinding, FromAI, Misconfigured

LEMMA PlansInitial == PlansInit => PlansInv
<1> SUFFICES ASSUME PlansInit PROVE PlansInv OBVIOUS
<1>1. subject \in FindingRows /\ (subject.source = "trivy" /\ subject.rule \in {"MIS", "DS029"} => subject.category = "misconfiguration")
  BY PlanAssumptions DEF PlansInit
<1>2. /\ planner = [g \in Planners |-> planner[g]] /\ plan = [g \in Planners |-> plan[g]]
      /\ request = [a \in PullRequests |-> request[a]] /\ rated = [g \in Planners |-> rated[g]]
  BY DEF PlansInit
<1>3. \A g \in Planners : PlannerReads(g) /\ PlanIsOf(g)
  BY <1>1 DEF PlansInit, PlannerReads, PlanIsOf, SameFinding
<1>4. \A g, h \in Planners : g # h => PlannersMet(g, h)
  BY DEF PlansInit, PlannersMet, UnderWay, Unplanned
<1>5. (\A a \in PullRequests : RequestIsFor(a)) /\ GrantIsDue
  BY PlanAssumptions DEF PlansInit, RequestIsFor, GrantIsDue
<1> QED BY <1>1, <1>2, <1>3, <1>4, <1>5 DEF PlansInv

\* Most steps leave the finding and what was said of it.
LEMMA PlansRest ==
    ASSUME PlansInv, UNCHANGED <<subject, hiding>>, rated' = [g \in Planners |-> rated'[g]],
           planner' = [g \in Planners |-> planner'[g]], plan' = [g \in Planners |-> plan'[g]],
           request' = [a \in PullRequests |-> request'[a]],
           \A g \in Planners : PlannerReads(g)' /\ PlanIsOf(g)',
           \A g, h \in Planners : g # h => PlannersMet(g, h)',
           \A a \in PullRequests : RequestIsFor(a)',
           GrantIsDue'
    PROVE  PlansInv'
BY DEF PlansInv

\* A grant stands: what it rests on is kept.
LEMMA GrantStands ==
    ASSUME PlansInv, subject' = subject, approvedFor \subseteq approvedFor',
           \A a \in PullRequests : request'[a].at = "granted" =>
               request[a].at = "granted" /\ request'[a].plan = request[a].plan,
           \A g \in Planners : plan[g] # Unplanned => rated'[g] = rated[g]
    PROVE  GrantIsDue'
<1> SUFFICES ASSUME NEW a \in PullRequests, request'[a].at = "granted"
    PROVE  /\ a \in approvedFor'
           /\ ~FromAI(subject) /\ subject.category \notin {"secret", "security", "architecture", "dependency"}
           /\ \/ subject.source \in {"staticcheck", "hadolint"} /\ (rated'[request'[a].plan] \cap {"low", "medium"}) # {}
              \/ subject.source = "trivy" /\ Misconfigured(subject)
  BY DEF GrantIsDue
<1>1. request[a].at = "granted" /\ request'[a].plan = request[a].plan
  OBVIOUS
<1>2. RequestIsFor(a) BY DEF PlansInv
<1>3. rated'[request'[a].plan] = rated[request[a].plan] BY <1>1, <1>2 DEF RequestIsFor
<1> QED BY <1>1, <1>3 DEF PlansInv, GrantIsDue

LEMMA LoadKeepsPlans ==
    ASSUME PlansInv, NEW g \in Planners, LoadFinding(g)
    PROVE  PlansInv'
<1> DEFINE p == IF ~hiding /\ ShouldPlan(subject) THEN "supersede" ELSE "over"
<1>1. /\ planner[g].at = "new" /\ planner' = [planner EXCEPT ![g] = [at |-> p, of |-> subject]]
      /\ rated' = [rated EXCEPT ![g] = {subject.sev}]
      /\ together' = together \cup {{g, h} : h \in {h \in Planners \ {g} : UnderWay(h)}}
      /\ UNCHANGED <<subject, hiding, plan, request, changes, unheeded, approvedFor>>
  BY DEF LoadFinding
<1>2. /\ planner'[g] = [at |-> p, of |-> subject] /\ rated'[g] = {subject.sev}
      /\ \A h \in Planners : h # g => planner'[h] = planner[h] /\ rated'[h] = rated[h]
      /\ planner' = [h \in Planners |-> planner'[h]] /\ rated' = [h \in Planners |-> rated'[h]]
      /\ p \in {"supersede", "over"}
  BY <1>1 DEF PlansInv
<1>3. plan[g] = Unplanned BY <1>1 DEF PlansInv, PlanIsOf
<1>4. ASSUME NEW h \in Planners PROVE PlannerReads(h)' /\ PlanIsOf(h)'
  <2>1. CASE h = g
    <3>1. PlannerReads(h)' BY <1>1, <1>2, <2>1 DEF PlannerReads, SameFinding, PlansInv
    <3> QED BY <1>1, <1>3, <2>1, <3>1 DEF PlanIsOf
  <2>2. CASE h # g BY <1>1, <1>2, <2>2 DEF PlannerReads, PlanIsOf, PlansInv
  <2> QED BY <2>1, <2>2
<1>5. ASSUME NEW h \in Planners, NEW k \in Planners, h # k PROVE PlannersMet(h, k)'
  <2>1. PlannersMet(h, k) BY <1>5 DEF PlansInv
  <2>2. together \subseteq together' BY <1>1
  <2>3. ASSUME UnderWay(h)', UnderWay(k)' PROVE {h, k} \in together'
    <3>1. CASE h # g /\ k # g BY <1>2, <2>1, <2>2, <2>3, <3>1 DEF PlannersMet, UnderWay
    <3>2. CASE h = g BY <1>1, <1>2, <1>5, <2>3, <3>2 DEF UnderWay
    <3>3. CASE k = g
      <4>1. {h, k} = {g, h} BY <3>3
      <4> QED BY <1>1, <1>2, <1>5, <2>3, <3>3, <4>1 DEF UnderWay
    <3> QED BY <3>1, <3>2, <3>3
  <2>4. planner'[h].at = "generate" => planner[h].at = "generate" BY <1>2
  <2> QED BY <1>1, <2>1, <2>2, <2>3, <2>4 DEF PlannersMet
<1>6. \A a \in PullRequests : RequestIsFor(a)' BY <1>1 DEF PlansInv, RequestIsFor
<1>7. GrantIsDue' BY <1>1, <1>2, <1>3, GrantStands
<1>8. plan' = [h \in Planners |-> plan'[h]] /\ request' = [a \in PullRequests |-> request'[a]]
  BY <1>1 DEF PlansInv
<1> QED BY <1>1, <1>2, <1>4, <1>5, <1>6, <1>7, <1>8, PlansRest

\* A planner moves on, and some proposals are superseded, or a plan is saved.
LEMMA MovesOn ==
    ASSUME PlansInv, NEW g \in Planners, NEW p \in {"generate", "over"}, Moves(g, p)
    PROVE  /\ planner'[g] = [at |-> p, of |-> planner[g].of]
           /\ \A h \in Planners : h # g => planner'[h] = planner[h]
           /\ planner' = [h \in Planners |-> planner'[h]]
<1>1. planner[g] \in [at : {"new", "supersede", "generate", "over"}, of : FindingRows]
  BY DEF PlansInv, PlannerReads
<1> QED BY <1>1 DEF Moves, PlansInv

LEMMA SupersedeKeeps ==
    ASSUME PlansInv, NEW g \in Planners, SupersedeRemediationPlans(g)
    PROVE  PlansInv'
<1>1. /\ planner[g].at = "supersede" /\ Moves(g, "generate")
      /\ UNCHANGED <<subject, hiding, request, rated, together, approvedFor>>
  BY DEF SupersedeRemediationPlans
<1>2. /\ planner'[g] = [at |-> "generate", of |-> planner[g].of]
      /\ \A h \in Planners : h # g => planner'[h] = planner[h]
      /\ planner' = [h \in Planners |-> planner'[h]]
  BY <1>1, MovesOn
<1>3. /\ plan' = [h \in Planners |-> plan'[h]] /\ unheeded \subseteq unheeded'
      /\ \/ g \in unheeded'
         \/ \A h \in Planners : plan'[h].status # "proposed"
      /\ \A h \in Planners : \/ plan'[h] = plan[h]
                             \/ /\ plan[h].status = "proposed"
                                /\ plan'[h] = [plan[h] EXCEPT !.status = "superseded"]
  <2>0. \A h \in Planners : plan[h] # Unplanned =>
          plan[h] = [status |-> plan[h].status, draft |-> plan[h].draft]
    BY DEF PlansInv, PlanIsOf
  <2>1. CASE /\ plan' = [h \in Planners |-> IF plan[h].status = "proposed"
                                            THEN [plan[h] EXCEPT !.status = "superseded"] ELSE plan[h]]
             /\ UNCHANGED unheeded
    <3>1. ASSUME NEW h \in Planners PROVE plan'[h].status # "proposed"
      <4>1. CASE plan[h].status = "proposed"
        <5>1. plan[h] # Unplanned BY <4>1 DEF Unplanned
        <5>2. plan'[h] = [plan[h] EXCEPT !.status = "superseded"] BY <2>1, <4>1
        <5> QED BY <2>0, <5>1, <5>2
      <4>2. CASE plan[h].status # "proposed" BY <2>1, <4>2
      <4> QED BY <4>1, <4>2
    <3> QED BY <2>1, <3>1
  <2>2. CASE unheeded' = unheeded \cup {g} /\ UNCHANGED plan
    BY <2>2 DEF PlansInv
  <2> QED BY <2>1, <2>2 DEF SupersedeRemediationPlans
<1>4. ASSUME NEW h \in Planners
      PROVE  /\ PlannerReads(h)' /\ PlanIsOf(h)' /\ (plan[h] = Unplanned <=> plan'[h] = Unplanned)
             /\ plan'[h].status \in {"proposed", "approved"} => plan[h].status = plan'[h].status
  <2>1. PlannerReads(h) /\ PlanIsOf(h) BY DEF PlansInv
  <2>2. PlannerReads(h)'
    <3>1. CASE h = g BY <1>1, <1>2, <2>1, <3>1 DEF PlannerReads
    <3>2. CASE h # g BY <1>1, <1>2, <2>1, <3>2 DEF PlannerReads
    <3> QED BY <3>1, <3>2
  <2>3. CASE plan[h] = Unplanned
    <3>1. plan'[h] = Unplanned BY <1>3, <2>3 DEF Unplanned
    <3> QED BY <2>2, <2>3, <3>1 DEF PlanIsOf
  <2>4. CASE plan[h] # Unplanned
    <3>1. h # g /\ planner'[h] = planner[h] BY <1>1, <1>2, <2>1, <2>4 DEF PlanIsOf
    <3>2. CASE plan'[h] = plan[h]
      BY <1>1, <2>1, <2>2, <2>4, <3>1, <3>2 DEF PlanIsOf
    <3>3. CASE plan[h].status = "proposed" /\ plan'[h] = [plan[h] EXCEPT !.status = "superseded"]
      <4>1. plan[h] = [status |-> plan[h].status, draft |-> plan[h].draft] BY <2>1, <2>4 DEF PlanIsOf
      <4>2. plan'[h] = [status |-> "superseded", draft |-> plan[h].draft] BY <3>3, <4>1
      <4>3. plan'[h].status = "superseded" /\ plan'[h].draft = plan[h].draft BY <4>2
      <4>4. plan'[h] # Unplanned BY <4>3 DEF Unplanned
      <4>5. PlanIsOf(h)'
        BY <1>1, <2>1, <2>4, <3>1, <4>2, <4>3 DEF PlanIsOf
      <4> QED BY <2>2, <2>4, <4>3, <4>4, <4>5
    <3> QED BY <1>3, <3>2, <3>3
  <2> QED BY <2>3, <2>4
<1>5. ASSUME NEW h \in Planners, NEW k \in Planners, h # k PROVE PlannersMet(h, k)'
  <2>1. PlannersMet(h, k) BY <1>5 DEF PlansInv
  <2>2. (UnderWay(h)' => UnderWay(h)) /\ (UnderWay(k)' => UnderWay(k))
    BY <1>1, <1>2 DEF UnderWay
  <2>3. plan'[h].status = "proposed" => plan[h].status = "proposed" BY <1>4
  <2>4. plan'[k].status = "proposed" => plan[k].status = "proposed" BY <1>4
  <2>5. ASSUME planner'[h].at = "generate", plan'[k].status = "proposed"
        PROVE  {h, k} \in together' \/ unheeded' \cap {h, k} # {}
    <3>1. CASE h = g BY <1>3, <2>5, <3>1
    <3>2. CASE h # g BY <1>1, <1>2, <1>3, <2>1, <2>4, <2>5, <3>2 DEF PlannersMet
    <3> QED BY <3>1, <3>2
  <2> QED BY <1>1, <1>3, <2>1, <2>2, <2>3, <2>4, <2>5 DEF PlannersMet
<1>6. \A a \in PullRequests : RequestIsFor(a)'
  BY <1>1, <1>4 DEF PlansInv, RequestIsFor
<1>7. GrantIsDue' BY <1>1, GrantStands
<1>8. request' = [a \in PullRequests |-> request'[a]] /\ rated' = [h \in Planners |-> rated'[h]]
  BY <1>1 DEF PlansInv
<1> QED BY <1>1, <1>2, <1>3, <1>4, <1>5, <1>6, <1>7, <1>8, PlansRest

LEMMA SaveKeeps ==
    ASSUME PlansInv, NEW g \in Planners, SavePlan(g)
    PROVE  PlansInv'
<1>1. /\ planner[g].at = "generate" /\ Moves(g, "over")
      /\ UNCHANGED <<subject, hiding, request, rated, together, unheeded, approvedFor>>
  BY DEF SavePlan
<1>2. /\ planner'[g] = [at |-> "over", of |-> planner[g].of]
      /\ \A h \in Planners : h # g => planner'[h] = planner[h]
      /\ planner' = [h \in Planners |-> planner'[h]]
  BY <1>1, MovesOn
<1>3. /\ plan' = [h \in Planners |-> plan'[h]]
      /\ \A h \in Planners : h # g => plan'[h] = plan[h]
      /\ \/ plan'[g] = plan[g]
         \/ \E draft \in Generate(planner[g].of) : plan'[g] = [status |-> "proposed", draft |-> draft]
  BY DEF SavePlan, PlansInv
<1>4. plan[g] = Unplanned BY <1>1 DEF PlansInv, PlanIsOf
<1>5. ASSUME NEW h \in Planners PROVE PlannerReads(h)' /\ PlanIsOf(h)'
  <2>1. PlannerReads(h) /\ PlanIsOf(h) BY DEF PlansInv
  <2>2. CASE h # g BY <1>1, <1>2, <1>3, <2>1, <2>2 DEF PlannerReads, PlanIsOf
  <2>3. CASE h = g
    <3>1. PlannerReads(h)' BY <1>1, <1>2, <2>1, <2>3 DEF PlannerReads
    <3>2. CASE plan'[g] = plan[g] BY <1>4, <2>3, <3>1, <3>2 DEF PlanIsOf
    <3>3. ASSUME NEW draft \in Generate(planner[g].of), plan'[g] = [status |-> "proposed", draft |-> draft]
          PROVE  PlanIsOf(g)'
      BY <1>2, <3>3 DEF PlanIsOf
    <3> QED BY <1>3, <2>3, <3>1, <3>2, <3>3
  <2> QED BY <2>2, <2>3
<1>6. ASSUME NEW h \in Planners, NEW k \in Planners, h # k PROVE PlannersMet(h, k)'
  <2>1. PlannersMet(h, k) /\ PlannersMet(k, h) /\ {h, k} = {k, h} BY <1>6 DEF PlansInv
  <2>2. CASE h = g
    <3>1. planner'[k] = planner[k] /\ plan'[k] = plan[k] BY <1>2, <1>3, <1>6, <2>2
    <3>2. planner'[h].at = "over" BY <1>2, <2>2
    <3>3. plan[k].status = "proposed" => {h, k} \in together \/ unheeded \cap {h, k} # {}
      BY <1>1, <2>1, <2>2 DEF PlannersMet
    <3> QED BY <1>1, <3>1, <3>2, <3>3 DEF PlannersMet, UnderWay
  <2>3. CASE k = g
    <3>1. planner'[h] = planner[h] /\ plan'[h] = plan[h] BY <1>2, <1>3, <1>6, <2>3
    <3>2. planner'[k].at = "over" BY <1>2, <2>3
    <3>3. plan[h].status = "proposed" => {h, k} \in together \/ unheeded \cap {h, k} # {}
      BY <1>1, <2>1, <2>3 DEF PlannersMet
    <3>4. planner[h].at = "generate" => {h, k} \in together
      BY <1>1, <2>1, <2>3 DEF PlannersMet, UnderWay
    <3> QED BY <1>1, <3>1, <3>2, <3>3, <3>4 DEF PlannersMet, UnderWay
  <2>4. CASE h # g /\ k # g
    BY <1>1, <1>2, <1>3, <2>1, <2>4 DEF PlannersMet, UnderWay
  <2> QED BY <2>2, <2>3, <2>4
<1>7. ASSUME NEW a \in PullRequests PROVE RequestIsFor(a)'
  <2>1. RequestIsFor(a) BY DEF PlansInv
  <2>2. CASE request[a].plan = g
    <3>1. request[a].at = "new" BY <1>4, <2>1, <2>2 DEF RequestIsFor
    <3>2. plan'[g].status # "approved" BY <1>3, <1>4 DEF Unplanned
    <3> QED BY <1>1, <2>1, <2>2, <3>1, <3>2 DEF RequestIsFor
  <2>3. CASE request[a].plan # g
    BY <1>1, <1>3, <2>1, <2>3 DEF RequestIsFor
  <2> QED BY <2>2, <2>3
<1>8. GrantIsDue' BY <1>1, GrantStands
<1>9. request' = [a \in PullRequests |-> request'[a]] /\ rated' = [h \in Planners |-> rated'[h]]
  BY <1>1 DEF PlansInv
<1> QED BY <1>1, <1>2, <1>3, <1>5, <1>6, <1>7, <1>8, <1>9, PlansRest

LEMMA UpdateKeeps ==
    ASSUME PlansInv, NEW g \in Planners, NEW verdict \in {"approved", "rejected"},
           UpdatePlanStatus(g, verdict)
    PROVE  PlansInv'
<1>1. /\ UNCHANGED <<subject, hiding, planner, request, changes, rated, together, unheeded>>
      /\ plan' = [plan EXCEPT ![g] = [plan[g] EXCEPT !.status = verdict]]
      /\ plan[g] # Unplanned
  BY DEF UpdatePlanStatus, Unplanned
<1>2. /\ PlanIsOf(g) /\ plan[g] = [status |-> plan[g].status, draft |-> plan[g].draft]
  BY <1>1 DEF PlansInv, PlanIsOf
<1>3. /\ plan'[g] = [status |-> verdict, draft |-> plan[g].draft]
      /\ \A h \in Planners : h # g => plan'[h] = plan[h]
      /\ plan' = [h \in Planners |-> plan'[h]]
  BY <1>1, <1>2 DEF PlansInv
<1>4. ASSUME NEW h \in Planners PROVE PlannerReads(h)' /\ PlanIsOf(h)'
  <2>1. PlannerReads(h) /\ PlanIsOf(h) BY DEF PlansInv
  <2>2. PlannerReads(h)' BY <1>1, <2>1 DEF PlannerReads
  <2>3. CASE h = g BY <1>1, <1>2, <1>3, <2>2, <2>3 DEF PlanIsOf
  <2>4. CASE h # g BY <1>1, <1>3, <2>1, <2>2, <2>4 DEF PlanIsOf
  <2> QED BY <2>3, <2>4
<1>5. ASSUME NEW h \in Planners, NEW k \in Planners, h # k PROVE PlannersMet(h, k)'
  <2>1. PlannersMet(h, k) BY <1>5 DEF PlansInv
  <2>2. plan'[h].status = "proposed" => plan[h].status = "proposed" BY <1>3
  <2>3. plan'[k].status = "proposed" => plan[k].status = "proposed" BY <1>3
  <2> QED BY <1>1, <2>1, <2>2, <2>3 DEF PlannersMet, UnderWay
<1>6. ASSUME NEW a \in PullRequests PROVE RequestIsFor(a)'
  <2>1. RequestIsFor(a) BY DEF PlansInv
  <2>2. approvedFor \subseteq approvedFor' BY DEF UpdatePlanStatus
  <2>3. CASE request[a].plan = g
    <3>1. plan'[g].status = "approved" => a \in approvedFor'
      BY <1>3, <2>3 DEF UpdatePlanStatus
    <3>2. plan'[g] # Unplanned BY <1>3 DEF Unplanned
    <3> QED BY <1>1, <2>1, <2>3, <3>1, <3>2 DEF RequestIsFor
  <2>4. CASE request[a].plan # g
    BY <1>1, <1>3, <2>1, <2>2, <2>4 DEF RequestIsFor
  <2> QED BY <2>3, <2>4
<1>7. GrantIsDue'
  <2>1. approvedFor \subseteq approvedFor' BY DEF UpdatePlanStatus
  <2> QED BY <1>1, <2>1, GrantStands
<1>8. /\ request' = [a \in PullRequests |-> request'[a]] /\ rated' = [h \in Planners |-> rated'[h]]
      /\ planner' = [h \in Planners |-> planner'[h]]
  BY <1>1 DEF PlansInv
<1> QED BY <1>1, <1>3, <1>4, <1>5, <1>6, <1>7, <1>8, PlansRest

\* A step of a request leaves planners and plans alone.
LEMMA RequestSteps ==
    ASSUME PlansInv, UNCHANGED <<subject, hiding, planner, plan, changes, rated, together, unheeded>>,
           request' = [a \in PullRequests |-> request'[a]],
           \A a \in PullRequests : RequestIsFor(a)', GrantIsDue'
    PROVE  PlansInv'
<1>1. \A g \in Planners : PlannerReads(g)' /\ PlanIsOf(g)'
  BY DEF PlansInv, PlannerReads, PlanIsOf
<1>2. \A g, h \in Planners : g # h => PlannersMet(g, h)'
  BY DEF PlansInv, PlannersMet, UnderWay
<1>3. /\ planner' = [g \in Planners |-> planner'[g]] /\ plan' = [g \in Planners |-> plan'[g]]
      /\ rated' = [g \in Planners |-> rated'[g]]
  BY DEF PlansInv
<1> QED BY <1>1, <1>2, <1>3, PlansRest

LEMMA CheckKeeps ==
    ASSUME PlansInv, NEW a \in PullRequests, NEW g \in Planners, CheckRequest(a, g)
    PROVE  PlansInv'
<1> DEFINE p == IF CheckPREligibility(plan[g]) THEN "checked" ELSE "refused"
<1>1. /\ plan[g].status # "none" /\ request' = [request EXCEPT ![a] = [at |-> p, plan |-> g]]
      /\ UNCHANGED <<subject, hiding, planner, plan, changes, rated, together, unheeded>>
      /\ approvedFor \subseteq approvedFor' /\ (plan[g].status = "approved" => a \in approvedFor')
  BY DEF CheckRequest
<1>2. /\ request'[a] = [at |-> p, plan |-> g] /\ p \in {"checked", "refused"}
      /\ \A b \in PullRequests : b # a => request'[b] = request[b]
      /\ request' = [b \in PullRequests |-> request'[b]]
  BY <1>1 DEF PlansInv
<1>3. plan[g] # Unplanned BY <1>1 DEF Unplanned
<1>4. ASSUME NEW b \in PullRequests PROVE RequestIsFor(b)'
  <2>1. RequestIsFor(b) BY DEF PlansInv
  <2>2. CASE b = a BY <1>1, <1>2, <1>3, <2>2 DEF RequestIsFor
  <2>3. CASE b # a BY <1>1, <1>2, <2>1, <2>3 DEF RequestIsFor
  <2> QED BY <2>2, <2>3
<1>5. GrantIsDue' BY <1>1, <1>2, GrantStands
<1> QED BY <1>1, <1>2, <1>4, <1>5, RequestSteps

LEMMA GrantKeeps ==
    ASSUME PlansInv, NEW a \in PullRequests, GrantRequest(a)
    PROVE  PlansInv'
<1> DEFINE g == request[a].plan
           p == IF CheckPREligibility(plan[g]) THEN "granted" ELSE "refused"
<1>1. /\ request[a].at = "checked" /\ request' = [request EXCEPT ![a] = [at |-> p, plan |-> g]]
      /\ UNCHANGED <<subject, hiding, planner, plan, changes, rated, together, unheeded, approvedFor>>
  BY DEF GrantRequest
<1>2. /\ request'[a] = [at |-> p, plan |-> g] /\ p \in {"granted", "refused"}
      /\ \A b \in PullRequests : b # a => request'[b] = request[b]
      /\ request' = [b \in PullRequests |-> request'[b]]
  BY <1>1 DEF PlansInv
<1>3. RequestIsFor(a) /\ g \in Planners /\ plan[g] # Unplanned
  BY <1>1 DEF PlansInv, RequestIsFor
<1>4. ASSUME NEW b \in PullRequests PROVE RequestIsFor(b)'
  <2>1. RequestIsFor(b) BY DEF PlansInv
  <2>2. CASE b = a BY <1>1, <1>2, <1>3, <2>2 DEF RequestIsFor
  <2>3. CASE b # a BY <1>1, <1>2, <2>1, <2>3 DEF RequestIsFor
  <2> QED BY <2>2, <2>3
<1>5. GrantIsDue'
  <2> SUFFICES ASSUME NEW b \in PullRequests, request'[b].at = "granted"
      PROVE  /\ b \in approvedFor
             /\ ~FromAI(subject) /\ subject.category \notin {"secret", "security", "architecture", "dependency"}
             /\ \/ subject.source \in {"staticcheck", "hadolint"} /\ (rated[request'[b].plan] \cap {"low", "medium"}) # {}
                \/ subject.source = "trivy" /\ Misconfigured(subject)
    BY <1>1 DEF GrantIsDue
  <2>1. CASE b # a
    BY <1>2, <2>1 DEF PlansInv, GrantIsDue
  <2>2. CASE b = a
    <3>1. CheckPREligibility(plan[g]) BY <1>2, <2>2
    <3>2. PlannerReads(g) /\ PlanIsOf(g) BY <1>3 DEF PlansInv
    <3>3. /\ planner[g].of \in FindingRows /\ SameFinding(planner[g].of, subject)
          /\ planner[g].of.sev \in rated[g] /\ plan[g].draft \in Generate(planner[g].of)
      BY <1>3, <3>2 DEF PlannerReads, PlanIsOf
    <3>4. planner[g].of.source = "trivy" /\ planner[g].of.rule \in {"MIS", "DS029"}
            => planner[g].of.category = "misconfiguration"
      BY <3>3 DEF PlansInv, SameFinding
    <3>5. /\ plan[g].status = "approved"
          /\ ~FromAI(planner[g].of)
          /\ planner[g].of.category \notin {"secret", "security", "architecture", "dependency"}
          /\ \/ planner[g].of.source \in {"staticcheck", "hadolint"} /\ planner[g].of.sev \in {"low", "medium"}
             \/ planner[g].of.source = "trivy" /\ Misconfigured(planner[g].of)
      BY <3>1, <3>3, <3>4, EligibleIsMendable
    <3>6. FromAI(planner[g].of) = FromAI(subject) /\ Misconfigured(planner[g].of) = Misconfigured(subject)
      BY <3>3, KindIsKept
    <3>7. planner[g].of.source = subject.source /\ planner[g].of.category = subject.category
      BY <3>3 DEF SameFinding
    <3>8. a \in approvedFor BY <1>3, <3>5 DEF RequestIsFor
    <3>9. request'[b].plan = g BY <1>2, <2>2
    <3>10. ~FromAI(subject) /\ subject.category \notin {"secret", "security", "architecture", "dependency"}
      BY <3>5, <3>6, <3>7
    <3>11. CASE planner[g].of.source \in {"staticcheck", "hadolint"} /\ planner[g].of.sev \in {"low", "medium"}
      <4>1. planner[g].of.sev \in rated[request'[b].plan] \cap {"low", "medium"}
        BY <3>3, <3>9, <3>11
      <4>2. subject.source \in {"staticcheck", "hadolint"} BY <3>7, <3>11
      <4> QED BY <2>2, <3>8, <3>10, <4>1, <4>2
    <3>12. CASE planner[g].of.source = "trivy" /\ Misconfigured(planner[g].of)
      BY <2>2, <3>6, <3>7, <3>8, <3>10, <3>12
    <3> QED BY <3>5, <3>11, <3>12
  <2> QED BY <2>1, <2>2
<1> QED BY <1>1, <1>2, <1>4, <1>5, RequestSteps

LEMMA FindingKeeps ==
    ASSUME PlansInv, FindingChanges
    PROVE  PlansInv'
<1>1. UNCHANGED <<planner, plan, request, together, unheeded, approvedFor>>
  BY DEF FindingChanges
<1>2. /\ subject' \in FindingRows /\ SameFinding(subject', subject)
      /\ rated' = [g \in Planners |-> rated'[g]]
      /\ \A g \in Planners : planner[g].at # "new" => rated[g] \subseteq rated'[g]
  <2>1. CASE UNCHANGED <<subject, rated>> BY <2>1 DEF PlansInv, SameFinding
  <2>2. ASSUME NEW s \in Severities, subject' = [subject EXCEPT !.sev = s],
               rated' = [g \in Planners |-> IF planner[g].at = "new" THEN {} ELSE rated[g] \cup {s}]
        PROVE  /\ subject' \in FindingRows /\ SameFinding(subject', subject)
               /\ rated' = [g \in Planners |-> rated'[g]]
               /\ \A g \in Planners : planner[g].at # "new" => rated[g] \subseteq rated'[g]
    BY <2>2 DEF PlansInv, SameFinding, FindingRows
  <2> QED BY <2>1, <2>2 DEF FindingChanges
<1>3. subject'.source = "trivy" /\ subject'.rule \in {"MIS", "DS029"} => subject'.category = "misconfiguration"
  BY <1>2 DEF PlansInv, SameFinding
<1>4. /\ planner' = [g \in Planners |-> planner'[g]] /\ plan' = [g \in Planners |-> plan'[g]]
      /\ request' = [a \in PullRequests |-> request'[a]]
  BY <1>1 DEF PlansInv
<1>5. ASSUME NEW g \in Planners PROVE PlannerReads(g)' /\ PlanIsOf(g)'
  <2>1. PlannerReads(g) /\ PlanIsOf(g) BY DEF PlansInv
  <2>2. SameFinding(planner[g].of, subject') BY <1>2, <2>1 DEF PlannerReads, SameFinding
  <2> QED BY <1>1, <1>2, <2>1, <2>2 DEF PlannerReads, PlanIsOf
<1>6. \A g, h \in Planners : g # h => PlannersMet(g, h)'
  BY <1>1 DEF PlansInv, PlannersMet, UnderWay
<1>7. \A a \in PullRequests : RequestIsFor(a)'
  BY <1>1 DEF PlansInv, RequestIsFor
<1>8. GrantIsDue'
  <2> SUFFICES ASSUME NEW a \in PullRequests, request[a].at = "granted"
      PROVE  /\ a \in approvedFor
             /\ ~FromAI(subject') /\ subject'.category \notin {"secret", "security", "architecture", "dependency"}
             /\ \/ subject'.source \in {"staticcheck", "hadolint"} /\ (rated'[request[a].plan] \cap {"low", "medium"}) # {}
                \/ subject'.source = "trivy" /\ Misconfigured(subject')
    BY <1>1 DEF GrantIsDue
  <2>1. FromAI(subject') = FromAI(subject) /\ Misconfigured(subject') = Misconfigured(subject)
    BY <1>2, KindIsKept
  <2>2. subject'.source = subject.source /\ subject'.category = subject.category
    BY <1>2 DEF SameFinding
  <2>3. request[a].plan \in Planners /\ plan[request[a].plan] # Unplanned
    BY DEF PlansInv, RequestIsFor
  <2>4. planner[request[a].plan].at = "over" BY <2>3 DEF PlansInv, PlanIsOf
  <2>5. rated[request[a].plan] \subseteq rated'[request[a].plan] BY <1>2, <2>3, <2>4
  <2> QED BY <2>1, <2>2, <2>5 DEF PlansInv, GrantIsDue
<1> QED BY <1>2, <1>3, <1>4, <1>5, <1>6, <1>7, <1>8 DEF PlansInv

(***************************************************************************)
(* The theorems.                                                           *)
(***************************************************************************)
LEMMA PlansKeep == PlansInv /\ [PlansNext]_planVars => PlansInv'
<1> SUFFICES ASSUME PlansInv, [PlansNext]_planVars PROVE PlansInv' OBVIOUS
<1>1. CASE UNCHANGED planVars
  <2>1. \A g \in Planners : PlannerReads(g)' /\ PlanIsOf(g)'
    BY <1>1 DEF planVars, PlansInv, PlannerReads, PlanIsOf
  <2>2. \A g, h \in Planners : g # h => PlannersMet(g, h)'
    BY <1>1 DEF planVars, PlansInv, PlannersMet, UnderWay
  <2>3. (\A a \in PullRequests : RequestIsFor(a)') /\ GrantIsDue'
    BY <1>1 DEF planVars, PlansInv, RequestIsFor, GrantIsDue
  <2> QED BY <1>1, <2>1, <2>2, <2>3 DEF planVars, PlansInv
<1>2. ASSUME NEW g \in Planners, NEW v \in {"approved", "rejected"}, UpdatePlanStatus(g, v)
      PROVE  PlansInv'
  BY <1>2, UpdateKeeps
<1>3. ASSUME NEW g \in Planners, NEW a \in PullRequests, CheckRequest(a, g)
      PROVE  PlansInv'
  BY <1>3, CheckKeeps
<1> QED
  BY <1>1, <1>2, <1>3, LoadKeepsPlans, SupersedeKeeps, SaveKeeps, GrantKeeps, FindingKeeps
  DEF PlansNext

\* Planners, plans and requests keep their shapes, and a planner reads rows of its finding.
THEOREM PlansTypeCorrect == PlansSpec => []PlansTypeOK
<1>1. PlansInv => PlansTypeOK
  <2> SUFFICES ASSUME PlansInv PROVE PlansTypeOK OBVIOUS
  <2>1. ASSUME NEW g \in Planners
        PROVE  planner[g] \in [at : {"new", "supersede", "generate", "over"}, of : {subject} \cup
                     {[subject EXCEPT !.sev = s] : s \in Severities}]
    <3>1. PlannerReads(g) BY DEF PlansInv
    <3>2. planner[g].of = [subject EXCEPT !.sev = planner[g].of.sev] /\ planner[g].of.sev \in Severities
      BY <3>1 DEF PlannerReads, SameFinding, PlansInv, FindingRows
    <3> QED BY <3>1, <3>2 DEF PlannerReads
  <2>2. planner \in [Planners -> [at : {"new", "supersede", "generate", "over"}, of : {subject} \cup
                     {[subject EXCEPT !.sev = s] : s \in Severities}]]
    BY <2>1 DEF PlansInv
  <2>3. \A g \in Planners : plan[g].status \in {"none", "proposed", "approved", "rejected", "superseded"}
    BY DEF PlansInv, PlanIsOf, Unplanned
  <2>4. request \in [PullRequests -> [at : {"new", "checked", "granted", "refused"},
                                      plan : Planners \cup {NoPlan}]]
    BY DEF PlansInv, RequestIsFor
  <2> QED BY <2>2, <2>3, <2>4 DEF PlansTypeOK
<1> QED BY <1>1, PlansInitial, PlansKeep, PTL DEF PlansSpec

\* Whatever planners, operators and scans do beside one another, a finding has one
\* proposal unless planners met or could not supersede, and a pull request is granted for
\* nothing but a mendable finding that was approved (generateRemediationPlan, ApplyRecipe,
\* CheckPREligibility, attemptRemediationPR).
THEOREM PlansAccounted == PlansSpec => []PlansAreAccounted
<1>1. PlansInv => PlansAreAccounted
  BY DEF PlansInv, PlannersMet, OneProposal, PlansAreAccounted
<1> QED BY <1>1, PlansInitial, PlansKeep, PTL DEF PlansSpec

------------------------------------------------------------------------------

\* What the routes know of a finding.
RouteFindings == [sev : DOMAIN Rank, category : STRING, path : DOMAIN PathPenalty,
                  rule : STRING, located : BOOLEAN, dev : BOOLEAN, conf : 0 .. 100]

(***************************************************************************)
(* The tables.                                                             *)
(***************************************************************************)
LEMMA RankIs ==
    /\ DOMAIN Rank = {"info", "low", "medium", "high", "critical"}
    /\ Rank["info"] = 1 /\ Rank["low"] = 2 /\ Rank["medium"] = 3
    /\ Rank["high"] = 4 /\ Rank["critical"] = 5
    /\ \A s \in DOMAIN Rank : Rank[s] \in 1 .. 5
BY DEF Rank

LEMMA PenaltyIs ==
    /\ DOMAIN PathPenalty =
         {"source", "config", "dependency", "test", "docs", "example", "generated", "vendor"}
    /\ \A p \in DOMAIN PathPenalty : PathPenalty[p] \in 0 .. 35
BY DEF PathPenalty

LEMMA DefaultIs ==
    \A s \in DOMAIN Rank : DefaultConfidence[s] \in 1 .. 100
BY RankIs DEF DefaultConfidence

LEMMA OverridesAre ==
    /\ DOMAIN CategoryOverrides = {"secret", "dependency", "license", "code_quality", "test_gap"}
    /\ CategoryOverrides["secret"] = "auto_issue"
    /\ \A c \in DOMAIN CategoryOverrides :
         CategoryOverrides[c] \in {"auto_issue", "manual_review", "report_only"}
BY DEF CategoryOverrides

(***************************************************************************)
(* Confidence.                                                             *)
(***************************************************************************)
LEMMA Lowered ==
    ASSUME NEW c \in 0 .. 100, NEW d \in 0 .. 100
    PROVE  /\ Lower(c, d) \in 5 .. 100
           /\ \A b \in 0 .. 100 : b >= c => Lower(b, d) >= Lower(c, d)
BY DEF Lower

LEMMA Raised ==
    ASSUME NEW c \in 0 .. 100, NEW d \in 0 .. 100
    PROVE  /\ Raise(c, d) \in 0 .. 100
           /\ \A b \in 0 .. 100 : b >= c => Raise(b, d) >= Raise(c, d)
BY DEF Raise

\* What AdjustConfidence makes of a confidence depends on the rest of the finding only.
Doubt(f) == PathPenalty[f.path] + (IF OnlyForDevelopment(f) THEN 15 ELSE 0)
              + (IF Harmless(f) THEN 5 ELSE 0)
Adjusted(f, c) ==
    Lower(IF f.path = "source" /\ f.located /\ f.rule # "none" THEN Raise(Lower(c, Doubt(f)), 5)
          ELSE Lower(c, Doubt(f)), GraphPenalty(f))

LEMMA AdjustIs ==
    ASSUME NEW f
    PROVE  AdjustConfidence(f) = Adjusted(f, BaseConfidence(f))
BY DEF AdjustConfidence, Adjusted, Doubt

LEMMA Doubted ==
    ASSUME NEW f \in RouteFindings
    PROVE  Doubt(f) \in 0 .. 55 /\ GraphPenalty(f) \in 0 .. 40
<1>1. PathPenalty[f.path] \in 0 .. 35 BY PenaltyIs DEF RouteFindings
<1>2. (IF OnlyForDevelopment(f) THEN 15 ELSE 0) \in 0 .. 15 /\ (IF Harmless(f) THEN 5 ELSE 0) \in 0 .. 5
  OBVIOUS
<1>3. Doubt(f) \in 0 .. 55 BY <1>1, <1>2 DEF Doubt
<1>4. GraphPenalty(f) \in 0 .. 40 BY DEF GraphPenalty
<1> QED BY <1>3, <1>4

LEMMA AdjustedGrows ==
    ASSUME NEW f \in RouteFindings, NEW b \in 0 .. 100, NEW c \in 0 .. 100, b <= c
    PROVE  Adjusted(f, b) \in 5 .. 100 /\ Adjusted(f, c) \in 5 .. 100 /\ Adjusted(f, b) <= Adjusted(f, c)
<1>1. Doubt(f) \in 0 .. 100 /\ GraphPenalty(f) \in 0 .. 100 BY Doubted
<1> DEFINE lb == Lower(b, Doubt(f))   lc == Lower(c, Doubt(f))
           rb == IF f.path = "source" /\ f.located /\ f.rule # "none" THEN Raise(lb, 5) ELSE lb
           rc == IF f.path = "source" /\ f.located /\ f.rule # "none" THEN Raise(lc, 5) ELSE lc
<1>2. lb \in 5 .. 100 /\ lc \in 5 .. 100 /\ lb <= lc BY <1>1, Lowered
<1>3. lb \in 0 .. 100 /\ lc \in 0 .. 100 /\ 5 \in 0 .. 100 BY <1>2
<1>4. Raise(lb, 5) \in 0 .. 100 /\ Raise(lc, 5) \in 0 .. 100 /\ Raise(lb, 5) <= Raise(lc, 5)
  <2> HIDE DEF lb, lc
  <2> QED BY <1>2, <1>3, Raised
<1>5. rb \in 0 .. 100 /\ rc \in 0 .. 100 /\ rb <= rc
  <2> HIDE DEF lb, lc
  <2> QED BY <1>2, <1>3, <1>4
<1>6. Adjusted(f, b) = Lower(rb, GraphPenalty(f)) /\ Adjusted(f, c) = Lower(rc, GraphPenalty(f))
  BY DEF Adjusted
<1> HIDE DEF rb, rc
<1>7. Lower(rb, GraphPenalty(f)) \in 5 .. 100 /\ Lower(rc, GraphPenalty(f)) \in 5 .. 100
      /\ Lower(rb, GraphPenalty(f)) <= Lower(rc, GraphPenalty(f))
  BY <1>1, <1>5, Lowered
<1> QED BY <1>6, <1>7

LEMMA BaseIs ==
    ASSUME NEW f \in RouteFindings
    PROVE  BaseConfidence(f) \in 1 .. 100 /\ AdjustConfidence(f) \in 5 .. 100
<1>1. DefaultConfidence[f.sev] \in 1 .. 100 BY DefaultIs DEF RouteFindings
<1>2. BaseConfidence(f) \in 1 .. 100 BY <1>1 DEF BaseConfidence, RouteFindings
<1>3. BaseConfidence(f) \in 0 .. 100 /\ BaseConfidence(f) <= BaseConfidence(f) BY <1>2
<1> QED BY <1>2, <1>3, AdjustIs, AdjustedGrows

\* A scanner that is surer leaves the finding no less sure.
LEMMA SurerIsSurer ==
    ASSUME NEW f \in RouteFindings, f.conf > 0, NEW c \in 1 .. 100, c > f.conf
    PROVE  AdjustConfidence(f) <= AdjustConfidence([f EXCEPT !.conf = c])
<1> DEFINE g == [f EXCEPT !.conf = c]
<1>1. /\ g \in RouteFindings /\ g.conf = c /\ g.sev = f.sev /\ g.category = f.category /\ g.path = f.path
      /\ g.rule = f.rule /\ g.located = f.located /\ g.dev = f.dev
  BY DEF RouteFindings
<1> HIDE DEF g
<1>2. BaseConfidence(f) = f.conf /\ BaseConfidence(g) = c /\ f.conf \in 0 .. 100
      /\ c \in 0 .. 100 /\ f.conf <= c
  BY <1>1 DEF BaseConfidence, RouteFindings
<1>3. Doubt(g) = Doubt(f) /\ GraphPenalty(g) = GraphPenalty(f)
  BY <1>1 DEF Doubt, GraphPenalty, OnlyForDevelopment, Harmless
<1>4. Adjusted(g, c) = Adjusted(f, c)
  BY <1>1, <1>3 DEF Adjusted
<1>5. Adjusted(f, f.conf) <= Adjusted(f, c)
  BY <1>2, AdjustedGrows
<1>6. AdjustConfidence(f) <= AdjustConfidence(g)
  BY <1>2, <1>4, <1>5, AdjustIs
<1> QED BY <1>6 DEF g

(***************************************************************************)
(* The action.                                                             *)
(***************************************************************************)
Actions == {"auto_issue", "manual_review", "report_only", "suppressed_with_reason"}

SeverityAction(s, mode) ==
    IF s \in {"critical", "high"} \/ (mode = "strict" /\ s = "medium") \/ (mode = "compliance" /\ s # "info")
    THEN "auto_issue" ELSE IF s = "medium" THEN "manual_review" ELSE "report_only"

LEMMA SeverityActs ==
    ASSUME NEW mode, NEW s \in DOMAIN Rank
    PROVE  ActionBySeverity(mode)[s] = SeverityAction(s, mode)
BY DEF ActionBySeverity, SeverityAction

\* DecideAction, written out.
LEMMA Decides ==
    ASSUME NEW f \in RouteFindings, NEW conf, NEW mode, NEW deep,
           mode # "monitor_only", ~OffTheForge(f.rule, deep)
    PROVE  DecideAction(f, conf, mode, deep) =
             IF ActionFromSourceType(f) # ""
                  /\ (ActionFromSourceType(f) # "auto_issue" \/ PassesSeverityConfidenceGate(f, conf, mode))
             THEN ActionFromSourceType(f)
             ELSE IF f.category \in DOMAIN CategoryOverrides THEN CategoryOverrides[f.category]
             ELSE IF SeverityAction(f.sev, mode) # "auto_issue" \/ PassesSeverityConfidenceGate(f, conf, mode)
                  THEN SeverityAction(f.sev, mode)
             ELSE IF conf >= 70 THEN "manual_review" ELSE "report_only"
<1>1. f.sev \in DOMAIN Rank BY DEF RouteFindings
<1>2. ActionBySeverity(mode)[f.sev] = SeverityAction(f.sev, mode) BY <1>1, SeverityActs
<1> QED BY <1>2 DEF DecideAction

LEMMA NotDecided ==
    ASSUME NEW f, NEW conf, NEW mode, NEW deep, mode = "monitor_only" \/ OffTheForge(f.rule, deep)
    PROVE  DecideAction(f, conf, mode, deep) = "report_only"
BY DEF DecideAction

LEMMA SourceTypes ==
    ASSUME NEW f
    PROVE  ActionFromSourceType(f) \in {""} \cup Actions
BY DEF ActionFromSourceType, Actions

LEMMA DecidesAnAction ==
    ASSUME NEW f \in RouteFindings, NEW conf, NEW mode, NEW deep
    PROVE  DecideAction(f, conf, mode, deep) \in Actions
<1>1. CASE mode = "monitor_only" \/ OffTheForge(f.rule, deep) BY <1>1, NotDecided DEF Actions
<1>2. CASE ~(mode = "monitor_only" \/ OffTheForge(f.rule, deep))
  <2>1. SeverityAction(f.sev, mode) \in Actions BY DEF SeverityAction, Actions
  <2>2. f.category \in DOMAIN CategoryOverrides => CategoryOverrides[f.category] \in Actions
    BY OverridesAre DEF Actions
  <2> QED BY <1>2, <2>1, <2>2, Decides, SourceTypes DEF Actions
<1> QED BY <1>1, <1>2

\* What reaches the forge with some confidence reaches it with more.
LEMMA SurerReaches ==
    ASSUME NEW f \in RouteFindings, NEW b \in 0 .. 100, NEW c \in 0 .. 100, b <= c, NEW mode, NEW deep,
           IsForgeAction(DecideAction(f, b, mode, deep))
    PROVE  IsForgeAction(DecideAction(f, c, mode, deep))
<1>1. mode # "monitor_only" /\ ~OffTheForge(f.rule, deep)
  BY NotDecided DEF IsForgeAction
<1>2. PassesSeverityConfidenceGate(f, b, mode) => PassesSeverityConfidenceGate(f, c, mode)
  BY DEF PassesSeverityConfidenceGate
<1>3. b >= 70 => c >= 70 OBVIOUS
<1> DEFINE Pb == PassesSeverityConfidenceGate(f, b, mode)
           Pc == PassesSeverityConfidenceGate(f, c, mode)
           Sb == b >= 70   Sc == c >= 70
           D(P, S) == IF ActionFromSourceType(f) # "" /\ (ActionFromSourceType(f) # "auto_issue" \/ P)
                      THEN ActionFromSourceType(f)
                      ELSE IF f.category \in DOMAIN CategoryOverrides THEN CategoryOverrides[f.category]
                      ELSE IF SeverityAction(f.sev, mode) # "auto_issue" \/ P THEN SeverityAction(f.sev, mode)
                      ELSE IF S THEN "manual_review" ELSE "report_only"
<1>4. DecideAction(f, b, mode, deep) = D(Pb, Sb) /\ DecideAction(f, c, mode, deep) = D(Pc, Sc)
  BY <1>1, Decides
<1>5. IsForgeAction(D(Pb, Sb)) /\ (Pb => Pc) /\ (Sb => Sc)
  BY <1>2, <1>3, <1>4
<1>6. SeverityAction(f.sev, mode) \in {"auto_issue", "manual_review", "report_only"}
  BY DEF SeverityAction
<1> HIDE DEF Pb, Pc, Sb, Sc
<1>7. IsForgeAction(D(Pc, Sc))
  BY <1>5, <1>6 DEF IsForgeAction
<1> QED BY <1>4, <1>7

\* A stricter mode lets through what a laxer one does.
LEMMA StricterPasses ==
    ASSUME NEW f \in RouteFindings, NEW conf \in 70 .. 100, NEW mode, NEW m \in Stricter(mode)
    PROVE  /\ PassesSeverityConfidenceGate(f, conf, mode) => PassesSeverityConfidenceGate(f, conf, m)
           /\ SeverityAction(f.sev, mode) = "auto_issue" => SeverityAction(f.sev, m) = "auto_issue"
           /\ SeverityAction(f.sev, mode) = "manual_review" =>
                SeverityAction(f.sev, m) \in {"auto_issue", "manual_review"}
           /\ m # "monitor_only" /\ mode # "monitor_only"
<1>1. f.sev \in DOMAIN Rank BY DEF RouteFindings
<1>2. Rank[MinSeverity(mode)] >= Rank[MinSeverity(m)] /\ m # "monitor_only" /\ mode # "monitor_only"
  BY RankIs DEF MinSeverity, Stricter
<1>3. Rank[MinSeverity(mode)] \in 1 .. 5 /\ Rank[MinSeverity(m)] \in 1 .. 5 /\ Rank[f.sev] \in 1 .. 5
  BY <1>1, RankIs DEF MinSeverity
<1>4. PassesSeverityConfidenceGate(f, conf, mode) => PassesSeverityConfidenceGate(f, conf, m)
  BY <1>2, <1>3 DEF PassesSeverityConfidenceGate
<1>5. SeverityAction(f.sev, mode) = "auto_issue" => SeverityAction(f.sev, m) = "auto_issue"
  BY <1>1, RankIs DEF SeverityAction, Stricter
<1>6. SeverityAction(f.sev, mode) = "manual_review" =>
         SeverityAction(f.sev, m) \in {"auto_issue", "manual_review"}
  BY <1>1, RankIs DEF SeverityAction, Stricter
<1> QED BY <1>2, <1>4, <1>5, <1>6

LEMMA StricterReaches ==
    ASSUME NEW f \in RouteFindings, NEW conf \in 70 .. 100, NEW mode, NEW m \in Stricter(mode), NEW deep,
           IsForgeAction(DecideAction(f, conf, mode, deep))
    PROVE  IsForgeAction(DecideAction(f, conf, m, deep))
<1>1. ~OffTheForge(f.rule, deep)
  BY NotDecided DEF IsForgeAction
<1>2. /\ PassesSeverityConfidenceGate(f, conf, mode) => PassesSeverityConfidenceGate(f, conf, m)
      /\ SeverityAction(f.sev, mode) = "auto_issue" => SeverityAction(f.sev, m) = "auto_issue"
      /\ SeverityAction(f.sev, mode) = "manual_review" =>
           SeverityAction(f.sev, m) \in {"auto_issue", "manual_review"}
      /\ m # "monitor_only" /\ mode # "monitor_only"
  BY StricterPasses
<1>3. conf >= 70 OBVIOUS
<1>4. SeverityAction(f.sev, mode) \in {"auto_issue", "manual_review", "report_only"}
  BY DEF SeverityAction
<1> QED BY <1>1, <1>2, <1>3, <1>4, Decides DEF IsForgeAction

(***************************************************************************)
(* Where a finding is, given what it was: the invariant.                   *)
(***************************************************************************)
Base == Normalized(raw, course.mode, course.deep)
AfterKnownSafe == IF course.match \in {"pattern", "fixture"} THEN Calmed(Base) ELSE Base
AfterWire == IF course.delegated THEN [AfterKnownSafe EXCEPT !.action = ""] ELSE AfterKnownSafe
AfterRules == IF course.match = "rule" THEN [AfterWire EXCEPT !.action = "report_only"] ELSE AfterWire
Through == IF routed.action # "" THEN IsForgeAction(routed.action) ELSE PassesIssueGates(routed)

RoutedSoFar ==
    /\ raw \in RawFindings /\ course \in Courses
    /\ place \in {"raw", "normalized", "away", "scanned", "ruled", "forge", "dashboard", "filed", "skipped"}
    /\ place = "raw" => routed = [sev |-> raw.sev, conf |-> raw.conf, action |-> ""]
    /\ place = "normalized" => routed = Base
    /\ place = "away" => course.delegated /\ routed = AfterKnownSafe
    /\ place = "scanned" => routed = AfterWire
    /\ place \in {"ruled", "forge", "dashboard", "filed", "skipped"} => routed = AfterRules
    /\ place \in {"forge", "filed"} => Through
    /\ place = "dashboard" => ~Through
    /\ place = "filed" => ConfidentEnough(routed)

Routings == [sev : DOMAIN Rank, conf : 0 .. 100, action : {""} \cup Actions]

LEMMA RouteInit == RoutesInit => RoutedSoFar
BY DEF RoutesInit, Reported, RoutedSoFar

LEMMA RouteStep == RoutedSoFar /\ [RoutesNext]_routeVars => RoutedSoFar'
<1> SUFFICES ASSUME RoutedSoFar, [RoutesNext]_routeVars PROVE RoutedSoFar' OBVIOUS
<1>0. raw' = raw /\ course' = course
  BY DEF RoutesNext, NormalizeIssues, ApplyKnownSafeRouting, ToAnalysisResult,
         ApplyRepoRoutingForForge, FilterIssuesForForge, ProcessIssue, routeVars
<1>1. Base' = Base /\ AfterKnownSafe' = AfterKnownSafe /\ AfterWire' = AfterWire /\ AfterRules' = AfterRules
  BY <1>0 DEF Base, AfterKnownSafe, AfterWire, AfterRules, Calmed
<1>2. CASE NormalizeIssues BY <1>0, <1>1, <1>2 DEF NormalizeIssues, RoutedSoFar, Base
<1>3. CASE ApplyKnownSafeRouting
  <2>1. routed' = AfterKnownSafe BY <1>3 DEF ApplyKnownSafeRouting, RoutedSoFar, AfterKnownSafe
  <2> QED BY <1>0, <1>1, <1>3, <2>1 DEF ApplyKnownSafeRouting, RoutedSoFar, AfterWire
<1>4. CASE ToAnalysisResult
  BY <1>0, <1>1, <1>4 DEF ToAnalysisResult, RoutedSoFar, AfterWire
<1>5. CASE ApplyRepoRoutingForForge
  BY <1>0, <1>1, <1>5 DEF ApplyRepoRoutingForForge, RoutedSoFar, AfterRules
<1>6. CASE FilterIssuesForForge
  <2>1. Through' = Through BY <1>6 DEF FilterIssuesForForge, Through
  <2>2. place' = IF Through THEN "forge" ELSE "dashboard" BY <1>6 DEF FilterIssuesForForge, Through
  <2> QED BY <1>0, <1>1, <1>6, <2>1, <2>2 DEF FilterIssuesForForge, RoutedSoFar
<1>7. CASE ProcessIssue
  <2>1. Through' = Through BY <1>7 DEF ProcessIssue, Through
  <2>2. routed' = routed /\ place = "forge" /\ (place' = IF ConfidentEnough(routed) THEN "filed" ELSE "skipped")
    BY <1>7 DEF ProcessIssue
  <2> QED BY <1>0, <1>1, <2>1, <2>2 DEF RoutedSoFar
<1>8. CASE UNCHANGED routeVars
  <2>1. Through' = Through BY <1>8 DEF routeVars, Through
  <2> QED BY <1>0, <1>1, <1>8, <2>1 DEF routeVars, RoutedSoFar
<1> QED BY <1>2, <1>3, <1>4, <1>5, <1>6, <1>7, <1>8 DEF RoutesNext

(***************************************************************************)
(* What the invariant says of what was filed.                              *)
(***************************************************************************)
LEMMA RawIsFinding ==
    ASSUME RoutedSoFar
    PROVE  /\ raw \in RouteFindings /\ Base.sev = raw.sev /\ Base.conf = AdjustConfidence(raw)
           /\ Base.action = DecideAction(raw, AdjustConfidence(raw), course.mode, course.deep)
           /\ Base.action \in Actions /\ course \in AllCourses
<1>1. raw \in RouteFindings /\ course \in AllCourses
  <2>1. raw \in RawFindings /\ course \in Courses BY DEF RoutedSoFar
  <2>2. Confidences \cup {0} \subseteq 0 .. 100 BY RouteAssumptions
  <2> QED BY <2>1, <2>2, RouteAssumptions DEF RouteFindings
<1>2. /\ Base.sev = raw.sev /\ Base.conf = AdjustConfidence(raw)
      /\ Base.action = DecideAction(raw, AdjustConfidence(raw), course.mode, course.deep)
  BY DEF Base, Normalized
<1> QED BY <1>1, <1>2, DecidesAnAction

\* A finding that the core's own scan filed went as it was normalized.
LEMMA FiledAsNormalized ==
    ASSUME RoutedSoFar, place = "filed", ~course.delegated
    PROVE  /\ routed = Base /\ course.match = "none" /\ Files(raw, course.mode, course.deep)
<1>1. routed = AfterRules /\ Through /\ ConfidentEnough(routed) BY DEF RoutedSoFar
<1>2. AfterWire = AfterKnownSafe BY DEF AfterWire
<1>3. Base.action \in Actions BY RawIsFinding
<1>4. course.match # "rule"
  <2> SUFFICES ASSUME course.match = "rule" PROVE FALSE OBVIOUS
  <2>1. AfterKnownSafe = Base BY DEF AfterKnownSafe
  <2>2. routed.action = "report_only" BY <1>1, <1>2, <2>1 DEF AfterRules, Base, Normalized
  <2> QED BY <1>1, <2>2 DEF Through, IsForgeAction
<1>5. course.match \notin {"pattern", "fixture"}
  <2> SUFFICES ASSUME course.match \in {"pattern", "fixture"} PROVE FALSE OBVIOUS
  <2>1. routed = Calmed(Base) BY <1>1, <1>2, <1>4 DEF AfterRules, AfterKnownSafe
  <2>2. routed.action = "report_only" BY <2>1 DEF Calmed
  <2> QED BY <1>1, <2>2 DEF Through, IsForgeAction
<1>6. routed = Base BY <1>1, <1>2, <1>4, <1>5 DEF AfterRules, AfterKnownSafe
<1>7. course.match = "none" BY <1>4, <1>5, RawIsFinding DEF AllCourses
<1>8. IsForgeAction(Base.action)
  BY <1>1, <1>3, <1>6 DEF Through, Actions
<1> QED BY <1>1, <1>6, <1>7, <1>8 DEF Files, Base

LEMMA RulesQuiet ==
    ASSUME RoutedSoFar, place = "filed"
    PROVE  course.match # "rule"
<1> SUFFICES ASSUME course.match = "rule" PROVE FALSE OBVIOUS
<1>1. routed = AfterRules /\ Through BY DEF RoutedSoFar
<1>2. AfterWire.action \in {""} \cup Actions /\ routed = [AfterWire EXCEPT !.action = "report_only"]
      /\ AfterKnownSafe = Base
  BY <1>1, RawIsFinding DEF AfterRules, AfterWire, AfterKnownSafe, Base, Normalized
<1>3. AfterWire = [sev |-> AfterWire.sev, conf |-> AfterWire.conf, action |-> AfterWire.action]
  BY <1>2 DEF AfterWire, Base, Normalized
<1>4. routed.action = "report_only" BY <1>2, <1>3
<1> QED BY <1>1, <1>4 DEF Through, IsForgeAction

LEMMA QuietStays == RoutedSoFar => QuietIsQuiet
<1> SUFFICES ASSUME RoutedSoFar, place = "filed"
    PROVE  ~Quieted /\ (course.delegated \/ ~QuietedHere(raw))
  BY DEF QuietIsQuiet
<1>1. ~Quieted BY RulesQuiet DEF Quieted
<1>2. ASSUME ~course.delegated PROVE ~QuietedHere(raw)
  <2>1. /\ course.match = "none" /\ Files(raw, course.mode, course.deep)
    BY <1>2, FiledAsNormalized
  <2>2. IsForgeAction(DecideAction(raw, AdjustConfidence(raw), course.mode, course.deep))
    BY <2>1 DEF Files, Normalized
  <2>3. course.mode # "monitor_only" /\ ~OffTheForge(raw.rule, course.deep)
    BY <2>2, NotDecided DEF IsForgeAction
  <2>4. raw \in RouteFindings BY RawIsFinding
  <2>5. ActionFromSourceType(raw) \notin {"suppressed_with_reason", "report_only"}
    BY <2>2, <2>3, <2>4, Decides DEF IsForgeAction
  <2>6. raw.path \notin Suppressing BY <2>5 DEF ActionFromSourceType
  <2>7. raw.path \in Aside => raw.category = "secret"
    BY <2>5 DEF ActionFromSourceType, Suppressing, Aside
  <2> QED BY <2>1, <2>3, <2>6, <2>7 DEF QuietedHere
<1> QED BY <1>1, <1>2

LEMMA SecretsTold == RoutedSoFar => SecretsAreTold
<1> SUFFICES ASSUME RoutedSoFar, place = "dashboard", raw.category = "secret", ~course.delegated,
                    ~Quieted, ~QuietedHere(raw)
    PROVE  FALSE
  BY DEF SecretsAreTold
<1>1. routed = AfterRules /\ ~Through BY DEF RoutedSoFar
<1>2. routed = Base BY <1>1 DEF AfterRules, AfterWire, AfterKnownSafe, Quieted, QuietedHere
<1>3. raw \in RouteFindings /\ course.mode # "monitor_only" /\ ~OffTheForge(raw.rule, course.deep)
      /\ raw.path \notin Suppressing
  BY RawIsFinding DEF QuietedHere
<1>4. ActionFromSourceType(raw) \in {"", "auto_issue"}
  BY <1>3 DEF ActionFromSourceType, Suppressing, Aside
<1>5. raw.category \in DOMAIN CategoryOverrides /\ CategoryOverrides[raw.category] = "auto_issue"
  BY OverridesAre
<1>6. Base.action = "auto_issue"
  BY <1>3, <1>4, <1>5, Decides, RawIsFinding
<1> QED BY <1>1, <1>2, <1>6 DEF Through, IsForgeAction

LEMMA StricterFiles == RoutedSoFar => StricterFilesMore
<1> SUFFICES ASSUME RoutedSoFar, place = "filed", ~course.delegated, routed.conf >= 70,
                    NEW m \in Stricter(course.mode)
    PROVE  Files(raw, m, course.deep)
  BY DEF StricterFilesMore
<1> DEFINE conf == AdjustConfidence(raw)
<1>1. routed = Base /\ Files(raw, course.mode, course.deep) BY FiledAsNormalized
<1>2. raw \in RouteFindings /\ Base.conf = conf BY RawIsFinding
<1>3. conf \in 70 .. 100 BY <1>1, <1>2, BaseIs
<1>4. IsForgeAction(DecideAction(raw, conf, course.mode, course.deep))
  BY <1>1 DEF Files, Normalized
<1>5. IsForgeAction(DecideAction(raw, conf, m, course.deep))
  BY <1>2, <1>3, <1>4, StricterReaches
<1> QED BY <1>3, <1>5 DEF Files, Normalized, ConfidentEnough

LEMMA SurerFiles == RoutedSoFar => SurerNeverLoses
<1> SUFFICES ASSUME RoutedSoFar, place = "filed", ~course.delegated, raw.conf > 0,
                    NEW c \in Confidences, c > raw.conf
    PROVE  Files([raw EXCEPT !.conf = c], course.mode, course.deep)
  BY DEF SurerNeverLoses
<1> DEFINE g == [raw EXCEPT !.conf = c]
           b == AdjustConfidence(raw)
           d == AdjustConfidence(g)
<1>1. Files(raw, course.mode, course.deep) BY FiledAsNormalized
<1>2. raw \in RouteFindings /\ c \in 1 .. 100 BY RawIsFinding, RouteAssumptions
<1>3. g \in RouteFindings BY <1>2 DEF RouteFindings
<1>4. b \in 0 .. 100 /\ d \in 0 .. 100 /\ b <= d
  <2>1. b <= d BY <1>2, SurerIsSurer
  <2>2. b \in 5 .. 100 /\ d \in 5 .. 100 BY <1>2, <1>3, BaseIs
  <2> QED BY <2>1, <2>2
<1>5. IsForgeAction(DecideAction(raw, b, course.mode, course.deep)) /\ b >= 50
  BY <1>1 DEF Files, Normalized, ConfidentEnough
<1>6. IsForgeAction(DecideAction(raw, d, course.mode, course.deep))
  BY <1>2, <1>4, <1>5, SurerReaches
<1>7. DecideAction(g, d, course.mode, course.deep) = DecideAction(raw, d, course.mode, course.deep)
  <2>1. /\ g.sev = raw.sev /\ g.category = raw.category /\ g.path = raw.path /\ g.rule = raw.rule
    BY <1>2 DEF RouteFindings
  <2> HIDE DEF g, d
  <2>2. ActionFromSourceType(g) = ActionFromSourceType(raw)
    BY <2>1 DEF ActionFromSourceType
  <2>3. PassesSeverityConfidenceGate(g, d, course.mode) = PassesSeverityConfidenceGate(raw, d, course.mode)
    BY <2>1 DEF PassesSeverityConfidenceGate
  <2> QED BY <2>1, <2>2, <2>3 DEF DecideAction
<1>8. d >= 50 BY <1>4, <1>5
<1> QED BY <1>6, <1>7, <1>8 DEF Files, Normalized, ConfidentEnough

(***************************************************************************)
(* The theorems.                                                           *)
(***************************************************************************)
\* A finding keeps its severity, confidence and action in their ranges on its way.
THEOREM RoutesTypeCorrect == RoutesSpec => []RoutesTypeOK
<1>1. RoutedSoFar => RoutesTypeOK
  <2> SUFFICES ASSUME RoutedSoFar PROVE RoutesTypeOK OBVIOUS
  <2>1. raw \in RouteFindings /\ Base.action \in Actions BY RawIsFinding
  <2>2. Base \in Routings
    <3>1. AdjustConfidence(raw) \in 0 .. 100
      <4>1. AdjustConfidence(raw) \in 5 .. 100 BY <2>1, BaseIs
      <4> QED BY <4>1
    <3>2. raw.sev \in DOMAIN Rank BY <2>1 DEF RouteFindings
    <3>3. DecideAction(raw, AdjustConfidence(raw), course.mode, course.deep) \in Actions
      BY <2>1, DecidesAnAction
    <3> QED BY <3>1, <3>2, <3>3 DEF Base, Normalized, Routings
  <2>3. AfterKnownSafe \in Routings
    <3>1. Base.sev \in DOMAIN Rank /\ Base.conf \in 0 .. 100 BY <2>2 DEF Routings
    <3>2. "info" \in DOMAIN Rank BY RankIs
    <3>3. (IF Base.conf > 55 THEN 55 ELSE Base.conf) \in 0 .. 100 BY <3>1
    <3>4. Calmed(Base) \in Routings BY <3>1, <3>2, <3>3 DEF Calmed, Routings, Actions
    <3> QED BY <2>2, <3>4 DEF AfterKnownSafe
  <2>4. AfterWire \in Routings BY <2>3 DEF AfterWire, Routings
  <2>5. AfterRules \in Routings BY <2>4 DEF AfterRules, Routings, Actions
  <2>6. [sev |-> raw.sev, conf |-> raw.conf, action |-> ""] \in Routings
    BY <2>1 DEF Routings, RouteFindings
  <2>7. routed \in Routings BY <2>2, <2>3, <2>4, <2>5, <2>6 DEF RoutedSoFar
  <2>8. raw.conf \in Confidences \cup {0} BY RouteAssumptions DEF RoutedSoFar
  <2> QED BY <2>7, <2>8 DEF RoutesTypeOK, RoutedSoFar, Actions, Routings
<1> QED BY <1>1, RouteInit, RouteStep, PTL DEF RoutesSpec

\* For all findings, confidences and courses: no layer undoes what an earlier one kept
\* quiet, secrets are not kept quiet by anything else, and neither a stricter mode nor a
\* surer scanner loses an issue (AdjustConfidence, DecideAction, ApplyRepoRoutingForForge).
THEOREM FindingsRouted == RoutesSpec => []FindingsAreRouted
<1>1. RoutedSoFar => FindingsAreRouted
  BY QuietStays, SecretsTold, StricterFiles, SurerFiles DEF FindingsAreRouted
<1> QED BY <1>1, RouteInit, RouteStep, PTL DEF RoutesSpec

------------------------------------------------------------------------------

(***************************************************************************)
(* Settings.                                                               *)
(***************************************************************************)
Fields == {"enabled", "policy", "issues", "ai", "depth", "llm", "runner"}

\* The domain of settings.
LEMMA SettingsFields ==
    ASSUME NEW e \in Values
    PROVE  /\ DOMAIN e = Fields
           /\ e = [enabled |-> e.enabled, policy |-> e.policy, issues |-> e.issues, ai |-> e.ai,
                   depth |-> e.depth, llm |-> e.llm, runner |-> e.runner]
BY DEF Values, Fields

LEMMA DefaultsAreValues ==
    /\ DefaultGlobalSettings \in Values /\ DOMAIN DefaultGlobalSettings = Fields
BY DEF DefaultGlobalSettings, Values, Fields

LEMMA ProfilesAreValues ==
    ASSUME NEW p \in Profiles
    PROVE  ProfileDefaults[p] \in Values
<1>1. [DefaultGlobalSettings EXCEPT !.policy = "monitor_only", !.issues = "off", !.depth = 2] \in Values
  BY DEF DefaultGlobalSettings, Values
<1>2. [DefaultGlobalSettings EXCEPT !.depth = 2] \in Values
  BY DEF DefaultGlobalSettings, Values
<1>3. [DefaultGlobalSettings EXCEPT !.ai = "allowed", !.llm = TRUE, !.runner = "auto"] \in Values
  BY DEF DefaultGlobalSettings, Values
<1>4. DefaultGlobalSettings \in Values BY DefaultsAreValues
<1>5. /\ ProfileDefaults["light"] \in Values /\ ProfileDefaults["standard"] \in Values
      /\ ProfileDefaults["deep"] \in Values /\ ProfileDefaults["custom"] \in Values
  BY <1>1, <1>2, <1>3, <1>4 DEF ProfileDefaults
<1> QED BY <1>5 DEF Profiles

LEMMA MergedIs ==
    ASSUME NEW b \in Values, NEW o \in Values
    PROVE  /\ Merged(b, o) \in Values
           /\ Merged(b, o).enabled = b.enabled
           /\ \A f \in Fields \ {"enabled"} : Merged(b, o)[f] = o[f]
BY SettingsFields DEF Merged, Values, Fields

\* A row whose values could be validated.
Valid(r) == \E v \in Values : \A f \in DOMAIN r.over : f \in Fields /\ r.over[f] = v[f]

LEMMA OverriddenIs ==
    ASSUME NEW b \in Values, NEW r, Valid(r)
    PROVE  /\ Overridden(b, r) \in Values
           /\ \A f \in Fields : Overridden(b, r)[f] = IF f \in DOMAIN r.over THEN r.over[f] ELSE b[f]
<1>1. PICK v \in Values : \A f \in DOMAIN r.over : f \in Fields /\ r.over[f] = v[f]
  BY DEF Valid
<1>2. \A f \in Fields : Overridden(b, r)[f] = IF f \in DOMAIN r.over THEN r.over[f] ELSE b[f]
  BY SettingsFields DEF Overridden
<1>3. Overridden(b, r) = [f \in Fields |-> IF f \in DOMAIN r.over THEN v[f] ELSE b[f]]
  BY <1>1, SettingsFields DEF Overridden
<1>4. Overridden(b, r) \in Values
  BY <1>3 DEF Values, Fields
<1> QED BY <1>2, <1>4

LEMMA PreservedIs ==
    ASSUME SettingsAssumptions, platform \in Platforms, NEW e \in Values
    PROVE  /\ PreserveAI(e) \in Values
           /\ \A f \in {"enabled", "policy", "issues", "runner"} : PreserveAI(e)[f] = e[f]
BY SettingsFields DEF PreserveAI, Values, Global, SettingsAssumptions

LEMMA SwitchedIs ==
    ASSUME SettingsAssumptions, platform \in Platforms, NEW e \in Values
    PROVE  /\ KillSwitch(e) \in Values
           /\ \A f \in Fields \ {"llm"} : KillSwitch(e)[f] = e[f]
           /\ KillSwitch(e).llm = (e.llm /\ platform.set.llm)
BY SettingsFields DEF KillSwitch, Values, Global, Fields

LEMMA DryIs ==
    ASSUME NEW e \in Values
    PROVE  /\ DryRun(e) \in Values /\ DryRun(e).policy = "monitor_only" /\ DryRun(e).llm = FALSE
BY DEF DryRun, Values

LEMMA HeldIs ==
    ASSUME NEW e \in Values
    PROVE  /\ [e EXCEPT !.llm = FALSE] \in Values /\ [e EXCEPT !.llm = FALSE].llm = FALSE
           /\ \A f \in Fields \ {"llm"} : [e EXCEPT !.llm = FALSE][f] = e[f]
BY SettingsFields DEF Values, Fields

(***************************************************************************)
(* What a scan goes by, and what its row says.                             *)
(***************************************************************************)
LayerProfile(r) == IF r.profile = Inherit THEN platform.profile ELSE r.profile
Layered(r) == ProfileLayer(Global, LayerProfile(r))

LEMMA LayeredIs ==
    ASSUME platform \in Platforms, NEW r, r.profile \in Profiles \union {Inherit}
    PROVE  /\ Layered(r) \in Values
           /\ \A f \in Fields \ {"enabled"} :
                Layered(r)[f] = IF LayerProfile(r) = "custom" THEN platform.set[f]
                                ELSE ProfileDefaults[LayerProfile(r)][f]
           /\ Layered(r).enabled = platform.set.enabled
<1>1. Global \in Values /\ platform.profile \in Profiles BY SettingsAssumptions DEF Global
<1>2. LayerProfile(r) \in Profiles BY <1>1 DEF LayerProfile
<1>3. CASE LayerProfile(r) = "custom"
  BY <1>1, <1>3 DEF Layered, ProfileLayer, Global
<1>4. CASE LayerProfile(r) # "custom"
  <2>1. Layered(r) = Merged(Global, ProfileDefaults[LayerProfile(r)])
    BY <1>2, <1>4, SettingsAssumptions DEF Layered, ProfileLayer
  <2> QED BY <1>1, <1>2, <1>4, <2>1, ProfilesAreValues, MergedIs DEF Global
<1> QED BY <1>3, <1>4

LEMMA ResolvedIs ==
    ASSUME platform \in Platforms, NEW r, r.profile \in Profiles \union {Inherit}, Valid(r)
    PROVE  /\ Resolved(r) \in Values
           /\ \A f \in {"enabled", "policy", "issues"} : Resolved(r)[f] = Ruling(r, f)
           /\ \A f \in Fields \ {"llm"} : f \in DOMAIN r.over => Resolved(r)[f] = r.over[f]
           /\ Resolved(r).llm => platform.set.llm
           /\ Resolved(r).llm /\ "llm" \in DOMAIN r.over => r.over["llm"]
<1> DEFINE e == PreserveAI(Layered(r))
           o == Overridden(e, r)
<1>1. /\ Layered(r) \in Values
      /\ \A f \in Fields \ {"enabled"} :
           Layered(r)[f] = IF LayerProfile(r) = "custom" THEN platform.set[f]
                           ELSE ProfileDefaults[LayerProfile(r)][f]
      /\ Layered(r).enabled = platform.set.enabled
  BY LayeredIs
<1>2. /\ e \in Values /\ \A f \in {"enabled", "policy", "issues", "runner"} : e[f] = Layered(r)[f]
  BY <1>1, SettingsAssumptions, PreservedIs
<1>3. Resolved(r) = KillSwitch(o) BY DEF Resolved, Layered, LayerProfile
<1> HIDE DEF e
<1>4. /\ o \in Values /\ \A f \in Fields : o[f] = IF f \in DOMAIN r.over THEN r.over[f] ELSE e[f]
  BY <1>2, OverriddenIs
<1> HIDE DEF o
<1>5. /\ KillSwitch(o) \in Values /\ \A f \in Fields \ {"llm"} : KillSwitch(o)[f] = o[f]
      /\ KillSwitch(o).llm = (o.llm /\ platform.set.llm)
  BY <1>4, SettingsAssumptions, SwitchedIs
<1>6. platform.profile \in Profiles /\ Inherit \notin Profiles BY SettingsAssumptions
<1>7. ASSUME NEW f \in {"enabled", "policy", "issues"} PROVE Resolved(r)[f] = Ruling(r, f)
  <2>1. f \in Fields /\ f # "llm" BY DEF Fields
  <2>2. Resolved(r)[f] = o[f] BY <1>3, <1>5, <2>1
  <2>3. CASE f \in DOMAIN r.over BY <1>4, <2>1, <2>2, <2>3 DEF Ruling
  <2>4. CASE f \notin DOMAIN r.over
    <3>1. o[f] = Layered(r)[f] BY <1>2, <1>4, <2>1, <2>4
    <3>2. CASE f = "enabled" BY <1>1, <2>2, <2>4, <3>1, <3>2 DEF Ruling
    <3>3. CASE f # "enabled"
      <4>1. o[f] = IF LayerProfile(r) = "custom" THEN platform.set[f]
                   ELSE ProfileDefaults[LayerProfile(r)][f]
        BY <1>1, <2>1, <3>1, <3>3
      <4> QED BY <1>6, <2>2, <2>4, <3>3, <4>1 DEF Ruling, LayerProfile
    <3> QED BY <3>2, <3>3
  <2> QED BY <2>3, <2>4
<1>8. \A f \in Fields \ {"llm"} : f \in DOMAIN r.over => Resolved(r)[f] = r.over[f]
  BY <1>3, <1>4, <1>5
<1>9. (Resolved(r).llm => platform.set.llm) /\ (Resolved(r).llm => o.llm)
  BY <1>3, <1>5
<1>10. "llm" \in DOMAIN r.over => o.llm = r.over["llm"]
  BY <1>4 DEF Fields
<1> QED BY <1>3, <1>5, <1>7, <1>8, <1>9, <1>10

LEMMA RequestedIs ==
    ASSUME platform \in Platforms, NEW p \in Profiles, NEW r, Valid(r)
    PROVE  /\ Requested(p, r) \in Values
           /\ \A f \in Fields : f \in DOMAIN r.over => Requested(p, r)[f] = r.over[f]
<1>1. Global \in Values BY SettingsAssumptions DEF Global
<1>2. Merged(ProfileDefaults[p], Global) \in Values BY <1>1, ProfilesAreValues, MergedIs
<1> QED BY <1>2, OverriddenIs DEF Requested

\* What settings allow a scan that goes by a row.
LEMMA FilesByTheRow ==
    ASSUME platform \in Platforms, NEW asked, asked \in Profiles \union {Inherit}, NEW dry \in BOOLEAN, NEW calm \in BOOLEAN,
           NEW r, r.profile \in Profiles \union {Inherit}, Valid(r)
    PROVE  /\ Effective(asked, dry, r, calm) \in Values
           /\ ShouldCreateForgeIssues(Effective(asked, dry, r, calm)) =>
                IF asked \in {Inherit, "custom"} THEN MayFile(r)
                ELSE ~States(r, "enabled", FALSE) /\ ~States(r, "policy", "monitor_only")
                     /\ ~States(r, "issues", "off")
           /\ LLMEnabled(Effective(asked, dry, r, calm)) =>
                /\ ~dry /\ (asked \in {Inherit, "custom"} => platform.set.llm)
                /\ ~States(r, "llm", FALSE) /\ ~States(r, "ai", "disabled")
<1> DEFINE e == IF asked \in {Inherit, "custom"} THEN Resolved(r) ELSE Requested(asked, r)
           held == IF calm THEN e ELSE [e EXCEPT !.llm = FALSE]
<1>1. Effective(asked, dry, r, calm) = IF dry THEN DryRun(held) ELSE held BY DEF Effective
<1>2. /\ e \in Values
      /\ \A f \in Fields \ {"llm"} : f \in DOMAIN r.over => e[f] = r.over[f]
      /\ e.llm /\ "llm" \in DOMAIN r.over => r.over["llm"]
      /\ asked \in {Inherit, "custom"} =>
           /\ \A f \in {"enabled", "policy", "issues"} : e[f] = Ruling(r, f)
           /\ e.llm => platform.set.llm
  <2>1. CASE asked \in {Inherit, "custom"} BY <2>1, ResolvedIs
  <2>2. CASE asked \notin {Inherit, "custom"}
    <3>1. asked \in Profiles /\ "llm" \in Fields BY <2>2 DEF Fields
    <3> QED BY <2>2, <3>1, RequestedIs
  <2> QED BY <2>1, <2>2
<1> HIDE DEF e
<1>3. /\ held \in Values /\ (held.llm => e.llm) /\ \A f \in Fields \ {"llm"} : held[f] = e[f]
  BY <1>2, HeldIs
<1> HIDE DEF held
<1>4. Effective(asked, dry, r, calm) \in Values BY <1>1, <1>3, DryIs
<1>5. ASSUME ShouldCreateForgeIssues(Effective(asked, dry, r, calm))
      PROVE  IF asked \in {Inherit, "custom"} THEN MayFile(r)
             ELSE ~States(r, "enabled", FALSE) /\ ~States(r, "policy", "monitor_only")
                  /\ ~States(r, "issues", "off")
  <2>1. ~dry BY <1>1, <1>3, <1>5, DryIs DEF ShouldCreateForgeIssues
  <2>2. held.enabled /\ held.policy # "monitor_only" /\ held.issues # "off"
    BY <1>1, <1>5, <2>1 DEF ShouldCreateForgeIssues
  <2>3. {"enabled", "policy", "issues"} \subseteq Fields \ {"llm"} BY DEF Fields
  <2>4. e.enabled /\ e.policy # "monitor_only" /\ e.issues # "off" BY <1>3, <2>2, <2>3
  <2>5. asked \in {Inherit, "custom"} => MayFile(r) BY <1>2, <2>4 DEF MayFile
  <2>6. ~States(r, "enabled", FALSE) /\ ~States(r, "policy", "monitor_only") /\ ~States(r, "issues", "off")
    BY <1>2, <2>3, <2>4 DEF States
  <2> QED BY <2>5, <2>6
<1>6. ASSUME LLMEnabled(Effective(asked, dry, r, calm))
      PROVE  /\ ~dry /\ (asked \in {Inherit, "custom"} => platform.set.llm)
             /\ ~States(r, "llm", FALSE) /\ ~States(r, "ai", "disabled")
  <2>1. ~dry BY <1>1, <1>3, <1>6, DryIs DEF LLMEnabled
  <2>2. held.llm /\ held.ai # "disabled" BY <1>1, <1>6, <2>1 DEF LLMEnabled
  <2>3. e.llm /\ e.ai # "disabled" BY <1>3, <2>2 DEF Fields
  <2>4. ~States(r, "llm", FALSE) BY <1>2, <2>3 DEF States
  <2>5. ~States(r, "ai", "disabled") BY <1>2, <2>3 DEF States, Fields
  <2> QED BY <1>2, <2>1, <2>3, <2>4, <2>5
<1> QED BY <1>4, <1>5, <1>6

\* The documented layers under a given configuration.
RulingUnder(pf, r, f) ==
    IF f \in DOMAIN r.over THEN r.over[f]
    ELSE IF f # "enabled" /\ r.profile \in Profiles \ {"custom"} THEN ProfileDefaults[r.profile][f]
    ELSE IF f # "enabled" /\ r.profile = Inherit /\ pf.profile # "custom"
         THEN ProfileDefaults[pf.profile][f]
    ELSE pf.set[f]

MayFileUnder(pf, r) ==
    /\ RulingUnder(pf, r, "enabled") /\ RulingUnder(pf, r, "policy") # "monitor_only"
    /\ RulingUnder(pf, r, "issues") # "off"

LEMMA LayersUnder ==
    ASSUME NEW r
    PROVE  (MayFile(r) <=> MayFileUnder(platform, r)) /\ (MayFile(r)' <=> MayFileUnder(platform', r))
BY DEF MayFile, MayFileUnder, Ruling, RulingUnder

\* A row lets a scan file, and lets it run its auditors.
LetsFile(pf, asked, r) ==
    IF asked \in {Inherit, "custom"} THEN MayFileUnder(pf, r)
    ELSE ~States(r, "enabled", FALSE) /\ ~States(r, "policy", "monitor_only")
         /\ ~States(r, "issues", "off")

LetsAudit(pf, asked, dry, r) ==
    /\ ~dry /\ (asked \in {Inherit, "custom"} => pf.set.llm)
    /\ ~States(r, "llm", FALSE) /\ ~States(r, "ai", "disabled")

\* What the documented layers let a scan file that asked for nothing, no row forbids.
LEMMA LetsFileAnyway ==
    ASSUME NEW pf, NEW asked, NEW r, LetsFile(pf, Inherit, r)
    PROVE  LetsFile(pf, asked, r)
<1>1. MayFileUnder(pf, r) BY DEF LetsFile
<1>2. ~States(r, "enabled", FALSE) /\ ~States(r, "policy", "monitor_only") /\ ~States(r, "issues", "off")
  BY <1>1 DEF MayFileUnder, RulingUnder, States
<1> QED BY <1>1, <1>2 DEF LetsFile

(***************************************************************************)
(* Scans.                                                                  *)
(***************************************************************************)
UnderWayNow == {"queued", "begun", "here", "away"}

Scan == [at : {"idle", "done"} \union UnderWayNow,
         via : {"ui", "api", "pr", "scheduled", "webhook"}, dry : BOOLEAN,
         asked : Profiles \union {Inherit}, goes : Values,
         did : SUBSET {"filed", "audited"}, blind : BOOLEAN, seen : SUBSET Rows]

\* What a scan did, a row it was shown allowed: the clause of ScansObeySettings.
Obeys(pf, x) ==
    ~x.blind =>
      /\ "filed" \in x.did => \E r \in x.seen : LetsFile(pf, x.asked, r)
      /\ "audited" \in x.did => \E r \in x.seen : LetsAudit(pf, x.asked, x.dry, r)

\* A scan under way has been shown the row that is stored, has done nothing yet,
\* and what it goes by some row it was shown allows.
Informed(pf, stored, x) ==
    /\ x.at \in UnderWayNow => stored \in x.seen
    /\ x.at # "done" => x.did = {}
    /\ x.at \in {"begun", "here", "away"} /\ ~x.blind =>
         /\ ShouldCreateForgeIssues(x.goes) => \E r \in x.seen : LetsFile(pf, x.asked, r)
         /\ LLMEnabled(x.goes) => \E r \in x.seen : LetsAudit(pf, x.asked, x.dry, r)

SettingsInv ==
    /\ platform \in Platforms /\ row \in Rows /\ edits \in 0..MaxEdits
    /\ going \in [AskedScans -> Scan]
    /\ \A s \in AskedScans : Informed(platform, row, going[s]) /\ Obeys(platform, going[s])

LEMMA InvObeys == SettingsInv => SettingsTypeOK /\ ScansObeySettings
<1> SUFFICES ASSUME SettingsInv PROVE SettingsTypeOK /\ ScansObeySettings OBVIOUS
<1>1. SettingsTypeOK BY DEF SettingsInv, SettingsTypeOK, Scan, UnderWayNow
<1>2. ASSUME NEW s \in AskedScans, ~going[s].blind, "filed" \in going[s].did
      PROVE  \E r \in going[s].seen :
               IF going[s].asked \in {Inherit, "custom"} THEN MayFile(r)
               ELSE ~States(r, "enabled", FALSE) /\ ~States(r, "policy", "monitor_only")
                    /\ ~States(r, "issues", "off")
  <2>1. PICK r \in going[s].seen : LetsFile(platform, going[s].asked, r)
    BY <1>2 DEF SettingsInv, Obeys
  <2> QED BY <2>1, LayersUnder DEF LetsFile
<1>3. ASSUME NEW s \in AskedScans, ~going[s].blind, "audited" \in going[s].did
      PROVE  \E r \in going[s].seen : LetsAudit(platform, going[s].asked, going[s].dry, r)
  BY <1>3 DEF SettingsInv, Obeys
<1>4. ScansObeySettings
  <2>1. ASSUME NEW s \in AskedScans, ~going[s].blind, "audited" \in going[s].did
        PROVE  /\ ~going[s].dry
               /\ going[s].asked \in {Inherit, "custom"} => platform.set.llm
               /\ \E r \in going[s].seen : ~States(r, "llm", FALSE) /\ ~States(r, "ai", "disabled")
    BY <1>3, <2>1 DEF LetsAudit
  <2> QED BY <1>2, <2>1 DEF ScansObeySettings
<1> QED BY <1>1, <1>4

LEMMA RowsAreValid ==
    ASSUME NEW r \in Rows
    PROVE  Valid(r) /\ r.profile \in Profiles \union {Inherit}
<1>1. CASE \E u \in Updates : r.over = u.over
  BY <1>1, SettingsAssumptions, DefaultsAreValues DEF Rows, Valid
<1>2. CASE r.over = << >>
  BY <1>2, DefaultsAreValues DEF Rows, Valid
<1>3. ASSUME NEW b \in BOOLEAN, r.over = [enabled |-> b] PROVE Valid(r)
  <2>1. PICK v \in Values : v.enabled = b
    <3>1. [DefaultGlobalSettings EXCEPT !.enabled = b] \in Values BY DEF DefaultGlobalSettings, Values
    <3>2. [DefaultGlobalSettings EXCEPT !.enabled = b].enabled = b BY DEF DefaultGlobalSettings
    <3> QED BY <3>1, <3>2
  <2> QED BY <1>3, <2>1 DEF Valid, Fields
<1> QED BY <1>1, <1>2, <1>3 DEF Rows

LEMMA SettingsInitial == SettingsInit => SettingsInv
<1> SUFFICES ASSUME SettingsInit PROVE SettingsInv OBVIOUS
<1>1. Unasked \in Scan BY DefaultsAreValues DEF Unasked, Scan, UnderWayNow
<1>2. Informed(platform, row, Unasked) /\ Obeys(platform, Unasked)
  BY DEF Informed, Obeys, Unasked, UnderWayNow
<1>3. row \in Rows BY DEF SettingsInit, Unset, Rows
<1> QED BY <1>1, <1>2, <1>3, SettingsAssumptions DEF SettingsInit, SettingsInv

\* A row is looked up: what is stored, or, when the read failed, nothing.
LEMMA ReadIs ==
    ASSUME SettingsInv, NEW ok \in BOOLEAN
    PROVE  Valid(Read(ok)) /\ Read(ok).profile \in Profiles \union {Inherit} /\ (ok => Read(ok) = row)
<1>1. Unset \in Rows BY DEF Unset, Rows
<1>2. Read(ok) \in Rows BY <1>1 DEF Read, SettingsInv
<1> QED BY <1>2, RowsAreValid DEF Read

\* What is looked up when the read does not fail, the stored row allows.
LEMMA LooksUp ==
    ASSUME SettingsInv, NEW asked, asked \in Profiles \union {Inherit}, NEW dry \in BOOLEAN, NEW calm \in BOOLEAN, NEW ok \in BOOLEAN
    PROVE  /\ Effective(asked, dry, Read(ok), calm) \in Values
           /\ ok /\ ShouldCreateForgeIssues(Effective(asked, dry, Read(ok), calm))
                => LetsFile(platform, asked, row)
           /\ ok /\ LLMEnabled(Effective(asked, dry, Read(ok), calm))
                => LetsAudit(platform, asked, dry, row)
<1> DEFINE r == Read(ok)
<1>1. /\ Valid(r) /\ r.profile \in Profiles \union {Inherit} /\ (ok => r = row)
      /\ platform \in Platforms
  BY ReadIs DEF SettingsInv
<1> HIDE DEF r
<1>2. /\ Effective(asked, dry, r, calm) \in Values
      /\ ShouldCreateForgeIssues(Effective(asked, dry, r, calm)) =>
           IF asked \in {Inherit, "custom"} THEN MayFile(r)
           ELSE ~States(r, "enabled", FALSE) /\ ~States(r, "policy", "monitor_only")
                /\ ~States(r, "issues", "off")
      /\ LLMEnabled(Effective(asked, dry, r, calm)) =>
           /\ ~dry /\ (asked \in {Inherit, "custom"} => platform.set.llm)
           /\ ~States(r, "llm", FALSE) /\ ~States(r, "ai", "disabled")
  BY <1>1, FilesByTheRow
<1>3. ShouldCreateForgeIssues(Effective(asked, dry, r, calm)) => LetsFile(platform, asked, r)
  BY <1>2, LayersUnder DEF LetsFile
<1>4. LLMEnabled(Effective(asked, dry, r, calm)) => LetsAudit(platform, asked, dry, r)
  BY <1>2 DEF LetsAudit
<1> QED BY <1>1, <1>2, <1>3, <1>4 DEF r

\* A step of one scan keeps the invariant if it keeps what is said of the scan.
LEMMA ScanMoves ==
    ASSUME SettingsInv, NEW s \in AskedScans, going' = [going EXCEPT ![s] = going'[s]],
           going'[s] \in Scan, UNCHANGED <<platform, row, edits>>,
           Informed(platform, row, going'[s]), Obeys(platform, going'[s])
    PROVE  SettingsInv'
<1>1. going' \in [AskedScans -> Scan] BY DEF SettingsInv
<1>2. ASSUME NEW t \in AskedScans
      PROVE  Informed(platform', row', going'[t]) /\ Obeys(platform', going'[t])
  <2>1. CASE t = s BY <2>1
  <2>2. CASE t # s BY <2>2 DEF SettingsInv
  <2> QED BY <2>1, <2>2
<1> QED BY <1>1, <1>2 DEF SettingsInv

LEMMA StoreKeeps ==
    ASSUME SettingsInv, NEW u, Updated(u) \in Rows, Store(u)
    PROVE  SettingsInv'
<1>1. /\ platform' = platform /\ row' \in Rows /\ edits' \in 0..MaxEdits
      /\ going' = [s \in AskedScans |-> IF going[s].at \in {"idle", "done"} THEN going[s]
                                        ELSE [going[s] EXCEPT !.seen = @ \union {row'}]]
  BY SettingsAssumptions DEF Store, SettingsInv
<1>2. ASSUME NEW s \in AskedScans
      PROVE  /\ going'[s] \in Scan /\ Informed(platform, row', going'[s]) /\ Obeys(platform, going'[s])
  <2>1. going[s] \in Scan /\ Informed(platform, row, going[s]) /\ Obeys(platform, going[s])
    BY DEF SettingsInv
  <2>2. CASE going[s].at \in {"idle", "done"}
    <3>1. going'[s] = going[s] BY <1>1, <2>2
    <3> QED BY <2>1, <2>2, <3>1 DEF Informed, UnderWayNow
  <2>3. CASE going[s].at \notin {"idle", "done"}
    <3>1. going'[s] = [going[s] EXCEPT !.seen = going[s].seen \union {row'}] BY <1>1, <2>3
    <3>2. /\ going'[s].at = going[s].at /\ going'[s].asked = going[s].asked /\ going'[s].dry = going[s].dry
          /\ going'[s].goes = going[s].goes /\ going'[s].did = going[s].did
          /\ going'[s].blind = going[s].blind /\ going'[s].seen = going[s].seen \union {row'}
          /\ going'[s] \in Scan
      BY <1>1, <2>1, <3>1 DEF Scan
    <3>3. Informed(platform, row', going'[s]) BY <2>1, <3>2 DEF Informed
    <3>4. Obeys(platform, going'[s]) BY <2>1, <3>2 DEF Obeys
    <3> QED BY <3>2, <3>3, <3>4
  <2> QED BY <2>2, <2>3
<1>3. going' \in [AskedScans -> Scan] BY <1>1, <1>2
<1> QED BY <1>1, <1>2, <1>3 DEF SettingsInv

LEMMA UpdatesAreRows ==
    /\ \A u \in Updates : Updated(u) \in Rows
    /\ \A b \in BOOLEAN : Updated([profile |-> Inherit, over |-> [enabled |-> b]]) \in Rows
<1>1. ASSUME NEW u \in Updates PROVE Updated(u) \in Rows
  BY SettingsAssumptions DEF Updated, Applied, Rows, Profiles
<1>2. ASSUME NEW b \in BOOLEAN PROVE Updated([profile |-> Inherit, over |-> [enabled |-> b]]) \in Rows
  <2>1. [enabled |-> b] \in {[enabled |-> TRUE], [enabled |-> FALSE]} OBVIOUS
  <2> QED BY <2>1 DEF Updated, Applied, Rows, Profiles
<1> QED BY <1>1, <1>2

LEMMA AskKeeps ==
    ASSUME SettingsInv, NEW s \in AskedScans, AskScan(s)
    PROVE  SettingsInv'
<1>1. PICK via \in {"ui", "api", "pr", "scheduled", "webhook"}, dry \in BOOLEAN, ok \in BOOLEAN,
           asked \in Profiles \union {Inherit} :
         going' = [going EXCEPT ![s] = Asked(via, dry, asked, ok)]
  BY DEF AskScan
<1>2. row \in Rows /\ going \in [AskedScans -> Scan] BY DEF SettingsInv
<1>3. Asked(via, dry, asked, ok) \in Scan
  <2>1. (IF via = "ui" THEN ReportOnly(dry, Resolved(Read(ok))) ELSE dry) \in BOOLEAN
    BY DEF ReportOnly
  <2> QED BY <1>2, <2>1, DefaultsAreValues DEF Asked, Scan, UnderWayNow
<1>4. going'[s] = Asked(via, dry, asked, ok) BY <1>1, <1>2
<1>5. Informed(platform, row, going'[s]) /\ Obeys(platform, going'[s])
  BY <1>4 DEF Informed, Obeys, UnderWayNow, Asked
<1>6. going'[s] \in Scan /\ going' = [going EXCEPT ![s] = going'[s]] BY <1>1, <1>3, <1>4
<1> QED BY <1>5, <1>6, ScanMoves DEF AskScan

\* A scan that looks settings up: what it goes by the stored row allows.
LEMMA LookUpKeeps ==
    ASSUME SettingsInv, NEW s \in AskedScans, LookUp(s)
    PROVE  SettingsInv'
<1> DEFINE old == going[s]
<1>1. old \in Scan /\ Informed(platform, row, old) /\ old.at = "queued" /\ row \in Rows
      /\ going \in [AskedScans -> Scan]
  BY DEF SettingsInv, LookUp
<1>2. PICK ok \in BOOLEAN, calm \in BOOLEAN :
         going' = [going EXCEPT ![s] =
            [going[s] EXCEPT !.at = IF Effective(going[s].asked, going[s].dry, Read(ok), calm).enabled
                                    THEN "begun" ELSE "done",
                             !.goes = Effective(going[s].asked, going[s].dry, Read(ok), calm),
                             !.blind = going[s].blind \/ ~ok]]
  BY DEF LookUp
<1> DEFINE e == Effective(old.asked, old.dry, Read(ok), calm)
<1>3. /\ e \in Values
      /\ ok /\ ShouldCreateForgeIssues(e) => LetsFile(platform, old.asked, row)
      /\ ok /\ LLMEnabled(e) => LetsAudit(platform, old.asked, old.dry, row)
  <2>1. old.asked \in Profiles \union {Inherit} /\ old.dry \in BOOLEAN BY <1>1 DEF Scan
  <2> HIDE DEF old
  <2> QED BY <2>1, LooksUp
<1> HIDE DEF e
<1>4. going'[s] = [going[s] EXCEPT !.at = IF e.enabled THEN "begun" ELSE "done",
                                   !.goes = e, !.blind = going[s].blind \/ ~ok]
  BY <1>1, <1>2 DEF e
<1>5. /\ going'[s].at \in {"begun", "done"} /\ going'[s].via = old.via /\ going'[s].dry = old.dry
      /\ going'[s].asked = old.asked /\ going'[s].goes = e /\ going'[s].did = old.did
      /\ going'[s].seen = old.seen
  BY <1>1, <1>4 DEF Scan
<1>6. going'[s].blind = (old.blind \/ ~ok) BY <1>1, <1>4 DEF Scan
<1>7. going'[s] \in Scan
  <2>1. (going[s].blind \/ ~ok) \in BOOLEAN OBVIOUS
  <2> QED BY <1>1, <1>3, <1>4, <2>1 DEF Scan, UnderWayNow
<1>8. row \in old.seen /\ old.did = {} BY <1>1 DEF Informed, UnderWayNow
<1>9. Informed(platform, row, going'[s])
  BY <1>3, <1>5, <1>6, <1>8 DEF Informed
<1>10. Obeys(platform, going'[s]) BY <1>5, <1>8 DEF Obeys
<1>11. going' = [going EXCEPT ![s] = going'[s]] BY <1>2, <1>4 DEF e
<1> QED BY <1>7, <1>9, <1>10, <1>11, ScanMoves DEF LookUp

LEMMA DelegateKeeps ==
    ASSUME SettingsInv, NEW s \in AskedScans, Delegate(s)
    PROVE  SettingsInv'
<1>1. /\ going[s] \in Scan /\ Informed(platform, row, going[s]) /\ Obeys(platform, going[s])
      /\ going[s].at = "begun" /\ going \in [AskedScans -> Scan]
  BY DEF SettingsInv, Delegate
<1>2. PICK at \in {"away", "here", "done"} :
         going' = [going EXCEPT ![s] = [going[s] EXCEPT !.at = at]]
  BY <1>1 DEF Delegate
<1>3. /\ going'[s] = [going[s] EXCEPT !.at = at] BY <1>1, <1>2
<1>4. /\ going'[s] \in Scan /\ going'[s].at = at /\ going'[s].asked = going[s].asked
      /\ going'[s].dry = going[s].dry /\ going'[s].goes = going[s].goes
      /\ going'[s].did = going[s].did /\ going'[s].seen = going[s].seen
      /\ going'[s].blind = going[s].blind
  BY <1>1, <1>3 DEF Scan, UnderWayNow
<1>5. Informed(platform, row, going'[s]) BY <1>1, <1>4 DEF Informed, UnderWayNow
<1>6. Obeys(platform, going'[s]) BY <1>1, <1>4 DEF Obeys
<1>7. going' = [going EXCEPT ![s] = going'[s]] BY <1>2, <1>3
<1> QED BY <1>4, <1>5, <1>6, <1>7, ScanMoves DEF Delegate

LEMMA AnalyzeKeeps ==
    ASSUME SettingsInv, NEW s \in AskedScans, Analyze(s)
    PROVE  SettingsInv'
<1>1. /\ going[s] \in Scan /\ Informed(platform, row, going[s])
      /\ going[s].at \in {"here", "begun"} /\ going \in [AskedScans -> Scan]
  BY DEF SettingsInv, Analyze
<1>2. PICK filed \in {{}, Filed(going[s].goes)} :
         going' = [going EXCEPT ![s] =
            [going[s] EXCEPT !.at = "done", !.did = Audited(going[s].goes) \union filed]]
  BY <1>1 DEF Analyze
<1> DEFINE did == Audited(going[s].goes) \union filed
<1>3. did \subseteq {"filed", "audited"} BY DEF Audited, Filed
<1>4. /\ "filed" \in did => ShouldCreateForgeIssues(going[s].goes)
      /\ "audited" \in did => LLMEnabled(going[s].goes)
  BY DEF Audited, Filed
<1>5. going'[s] = [going[s] EXCEPT !.at = "done", !.did = did] BY <1>1, <1>2
<1> HIDE DEF did
<1>6. /\ going'[s] \in Scan /\ going'[s].at = "done" /\ going'[s].asked = going[s].asked
      /\ going'[s].dry = going[s].dry /\ going'[s].goes = going[s].goes
      /\ going'[s].did = did /\ going'[s].seen = going[s].seen
      /\ going'[s].blind = going[s].blind
  BY <1>1, <1>3, <1>5 DEF Scan
<1>7. Informed(platform, row, going'[s]) BY <1>6 DEF Informed, UnderWayNow
<1>8. Obeys(platform, going'[s]) BY <1>1, <1>4, <1>6 DEF Obeys, Informed
<1>9. going' = [going EXCEPT ![s] = going'[s]] BY <1>2, <1>5 DEF did
<1> QED BY <1>6, <1>7, <1>8, <1>9, ScanMoves DEF Analyze

\* What came back is filed by the settings looked up anew, as if nothing had been asked.
LEMMA IngestKeeps ==
    ASSUME SettingsInv, NEW s \in AskedScans, Ingest(s)
    PROVE  SettingsInv'
<1> DEFINE old == going[s]
<1>1. old \in Scan /\ Informed(platform, row, old) /\ old.at = "away" /\ row \in Rows
      /\ going \in [AskedScans -> Scan]
  BY DEF SettingsInv, Ingest
<1>2. PICK ok \in BOOLEAN, calm \in BOOLEAN, failed \in BOOLEAN :
         going' = [going EXCEPT ![s] =
            [going[s] EXCEPT !.at = "done", !.blind = going[s].blind \/ ~ok,
                             !.goes = Effective(Inherit, FALSE, Read(ok), calm),
                             !.did = IF failed THEN {} ELSE Filed(Effective(Inherit, FALSE, Read(ok), calm))]]
  BY DEF Ingest
<1> DEFINE e == Effective(Inherit, FALSE, Read(ok), calm)
           did == IF failed THEN {} ELSE Filed(e)
<1>3. /\ e \in Values
      /\ ok /\ ShouldCreateForgeIssues(e) => LetsFile(platform, Inherit, row)
  BY LooksUp
<1> HIDE DEF e
<1>4. did \subseteq {"filed"} /\ ("filed" \in did => ShouldCreateForgeIssues(e)) BY DEF Filed
<1> HIDE DEF did
<1>5. going'[s] = [going[s] EXCEPT !.at = "done", !.blind = going[s].blind \/ ~ok, !.goes = e, !.did = did]
  BY <1>1, <1>2 DEF e, did
<1>6. /\ going'[s].at = "done" /\ going'[s].asked = old.asked /\ going'[s].did = did
      /\ going'[s].seen = old.seen
  BY <1>1, <1>5 DEF Scan
<1>7. going'[s].blind = (old.blind \/ ~ok) BY <1>1, <1>5 DEF Scan
<1>8. going'[s] \in Scan
  <2>1. (going[s].blind \/ ~ok) \in BOOLEAN OBVIOUS
  <2> QED BY <1>1, <1>3, <1>4, <1>5, <2>1 DEF Scan
<1>9. row \in old.seen BY <1>1 DEF Informed, UnderWayNow
<1>10. Informed(platform, row, going'[s]) BY <1>6 DEF Informed, UnderWayNow
<1>11. Obeys(platform, going'[s])
  <2>1. LetsFile(platform, Inherit, row) => LetsFile(platform, old.asked, row) BY LetsFileAnyway
  <2> QED BY <1>3, <1>4, <1>6, <1>7, <1>9, <2>1 DEF Obeys
<1>12. going' = [going EXCEPT ![s] = going'[s]] BY <1>2, <1>5 DEF e, did
<1> QED BY <1>8, <1>10, <1>11, <1>12, ScanMoves DEF Ingest

LEMMA SettingsStep == SettingsInv /\ [SettingsNext]_settingsVars => SettingsInv'
<1> SUFFICES ASSUME SettingsInv, [SettingsNext]_settingsVars PROVE SettingsInv' OBVIOUS
<1>1. CASE UpdateRepoSettings BY <1>1, StoreKeeps, UpdatesAreRows DEF UpdateRepoSettings
<1>2. CASE SetRepoScanEnabled BY <1>2, StoreKeeps, UpdatesAreRows DEF SetRepoScanEnabled
<1>3. CASE \E s \in AskedScans : AskScan(s) \/ ScanStep(s)
  BY <1>3, AskKeeps, LookUpKeeps, DelegateKeeps, AnalyzeKeeps, IngestKeeps DEF ScanStep
<1>4. CASE UNCHANGED settingsVars BY <1>4 DEF SettingsInv, settingsVars
<1> QED BY <1>1, <1>2, <1>3, <1>4 DEF SettingsNext

(***************************************************************************)
(* The platform, the row and the scans are what they should be, whatever   *)
(* operators save and in whatever order scans are asked for, delegated and *)
(* ingested: no layer of settings leaves the settings.                     *)
(***************************************************************************)
THEOREM SettingsTypeCorrect == SettingsSpec => []SettingsTypeOK
BY SettingsInitial, SettingsStep, InvObeys, PTL DEF SettingsSpec

(***************************************************************************)
(* A scan files and audits only what a row that was stored while it was    *)
(* under way lets it, by the documented order of the layers: for every     *)
(* configuration of the process, every set of updates and any number of    *)
(* scans (store/profile_resolve.go and resolveEffectiveSettingsForRepo).   *)
(***************************************************************************)
THEOREM SettingsObeyed == SettingsSpec => []ScansObeySettings
BY SettingsInitial, SettingsStep, InvObeys, PTL DEF SettingsSpec


(***************************************************************************)
(* The instance that TLC checks: a behaviour of MCDeferred is a behaviour  *)
(* of every part, so that the theorems above, and those of                 *)
(* RunnerJobsProofs and EvidenceClosureProofs, hold in it.  A part that is *)
(* not on stays in an initial state, which for the routes needs something  *)
(* to report.                                                              *)
(***************************************************************************)
LEMMA DeferredIsParts ==
    ASSUME RawFindings # {}, Courses # {}
    PROVE  DeferredSpec => /\ Spec /\ ClosureSpec /\ SettingsSpec
                           /\ SuppressionsSpec /\ PlansSpec /\ RoutesSpec
<1>1. DeferredInit => /\ Init /\ ClosureInit /\ SettingsInit
                      /\ SuppressionsInit /\ PlansInit /\ RoutesInit
  <2>1. AnyFinding \in RawFindings /\ AnyCourse \in Courses BY DEF AnyFinding, AnyCourse
  <2>2. Reported({AnyFinding}, {AnyCourse}) => RoutesInit BY <2>1 DEF Reported, RoutesInit
  <2> QED BY <2>2 DEF DeferredInit
<1>2. [DeferredNext]_<<part, allVars>> =>
        /\ [Next]_vars /\ [ClosureNext]_closureVars /\ [SettingsNext]_settingsVars
        /\ [SuppressionsNext]_suppressionVars /\ [PlansNext]_planVars /\ [RoutesNext]_routeVars
  BY DEF DeferredNext, allVars
<1> QED BY <1>1, <1>2, PTL
    DEF DeferredSpec, Spec, ClosureSpec, SettingsSpec, SuppressionsSpec, PlansSpec, RoutesSpec

(***************************************************************************)
(* The types of everything that is decided later than it was asked.        *)
(***************************************************************************)
THEOREM DeferredTypeCorrect ==
    ASSUME RawFindings # {}, Courses # {}
    PROVE  DeferredSpec => []DeferredTypeOK
<1>1. /\ TypeOK /\ ClosureTypeOK /\ SettingsTypeOK /\ SuppressionsTypeOK /\ PlansTypeOK /\ RoutesTypeOK
      => DeferredTypeOK
  BY DEF DeferredTypeOK
<1> QED
  BY <1>1, DeferredIsParts, TypeCorrect, EvidenceTypeCorrect, SettingsTypeCorrect,
     SuppressionsTypeCorrect, PlansTypeCorrect, RoutesTypeCorrect, PTL
==============================================================================
