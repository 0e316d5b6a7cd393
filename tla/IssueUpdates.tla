---------------------------- MODULE IssueUpdates ----------------------------
(***************************************************************************)
(* What scans say on issues that are open already (issues/manager.go,      *)
(* issues/lifecycle.go, issues/tracker.go): the passes of one process over *)
(* what their scans found, the comments, and the markers in the body of an *)
(* issue, which are the only memory of what was said.                      *)
(*                                                                         *)
(* An issue is its finding: that no finding has two is IssueFiling's       *)
(* matter, and the claims of other processes are left out.  So are the     *)
(* labels, the summary issue, and backlog control, which keeps new issues  *)
(* from being filed.                                                       *)
(***************************************************************************)
EXTENDS Integers, Sequences, FiniteSets

CONSTANTS
    Findings,
    NoFinding,
    Passes,         \* scans that file at the same time
    NoPass,
    Observations,   \* bound: how a scan sees a finding, [sev, loc, conf]
    MinConfidence,  \* MinIssueConfidence, in percent
    MaxCreated,     \* MaxIssuesPerRun
    Days,           \* bound: the days on which scans run
    MaxPasses       \* bound: passes in all

ASSUME UpdateAssumptions ==
    /\ NoFinding \notin Findings /\ NoPass \notin Passes
    /\ 0 \in Days /\ Days \subseteq Nat /\ {MinConfidence, MaxCreated, MaxPasses} \subseteq Nat

VARIABLES
    database,   \* a store is configured: findings have mappings
    day,
    body,       \* finding -> markers of its open issue, or NoBody
    linked,     \* findings with an open local mapping
    pass,       \* pass -> where it is in CreateIssuesFromAnalysis
    filing,     \* holder of issueCreateMu
    ran,        \* passes so far
    told        \* history: finding -> stages announced and written down

updateVars == <<database, day, body, linked, pass, filing, ran, told>>

NoBody == [sev |-> "none"]
Bodies == [sev : {o.sev : o \in Observations}, loc : {o.loc : o \in Observations},
           conf : {o.conf : o \in Observations}, since : Days, stage : 0..4]
Idle == [at |-> "idle", found |-> {}, sight |-> [f \in {} |-> NoBody], left |-> {},
         seen |-> {}, now |-> NoFinding, copy |-> NoBody, made |-> 0]

UpdateInit ==
    /\ database \in BOOLEAN /\ day = 0
    /\ body = [f \in Findings |-> NoBody] /\ linked = {}
    /\ pass = [p \in Passes |-> Idle] /\ filing = NoPass /\ ran = 0
    /\ told = [f \in Findings |-> <<>>]

\* The pass goes on with t.
Becomes(p, t) == pass' = [pass EXCEPT ![p] = t]

\* A scan is over and found these.
StartPass(p) ==
    /\ pass[p].at = "idle" /\ ran < MaxPasses /\ ran' = ran + 1
    /\ \E found \in SUBSET Findings \ {{}} : \E sight \in [found -> Observations] :
         Becomes(p, [Idle EXCEPT !.at = "next", !.found = found, !.sight = sight, !.left = found])
    /\ UNCHANGED <<database, day, body, linked, filing, told>>

DayPasses ==
    /\ \E d \in Days : d > day /\ day' = d
    /\ UNCHANGED <<database, body, linked, pass, filing, ran, told>>

\* Reached the maximum: the rest is not looked at.
StopAtMaximum(p) ==
    /\ pass[p].at = "next" /\ pass[p].left # {} /\ MaxCreated > 0 /\ pass[p].made >= MaxCreated
    /\ Becomes(p, [pass[p] EXCEPT !.left = {}])
    /\ UNCHANGED <<database, day, body, linked, filing, ran, told>>

MayGoOn(p, f) ==
    /\ pass[p].at = "next" /\ f \in pass[p].left
    /\ MaxCreated > 0 => pass[p].made < MaxCreated

SkipFaint(p, f) ==
    /\ MayGoOn(p, f) /\ pass[p].sight[f].conf \in 1..(MinConfidence - 1)
    /\ Becomes(p, [pass[p] EXCEPT !.left = @ \ {f}])
    /\ UNCHANGED <<database, day, body, linked, filing, ran, told>>

\* A mutant: the lock of the process is not waited for.
LockIsFree_Ignored == TRUE

LockIsFree == filing = NoPass

\* createOrUpdateIssue: under the lock, the mapping first, which knows a number
\* and no body, and then the search, which links what it finds.
FindIssue(p, f) ==
    /\ MayGoOn(p, f) /\ pass[p].sight[f].conf \notin 1..(MinConfidence - 1)
    /\ LockIsFree /\ filing' = p
    /\ Becomes(p, [pass[p] EXCEPT
                     !.left = @ \ {f}, !.seen = @ \cup {f}, !.now = f,
                     !.at = IF f \in linked \/ body[f] # NoBody THEN "decide" ELSE "create",
                     !.copy = IF f \in linked THEN NoBody ELSE body[f]])
    /\ linked' \in IF database /\ body[f] # NoBody THEN {linked, linked \cup {f}} ELSE {linked}
    /\ UNCHANGED <<database, day, body, ran, told>>

NewBody(o) == [sev |-> o.sev, loc |-> o.loc, conf |-> o.conf, since |-> day, stage |-> 0]

\* The next finding; the lock is let go.
NextFinding(p, made) ==
    /\ Becomes(p, [pass[p] EXCEPT !.at = "next", !.now = NoFinding,
                                   !.copy = NoBody, !.made = made])
    /\ filing' = NoPass

CreateIssue(p) ==
    LET f == pass[p].now
    IN /\ pass[p].at = "create"
       /\ \/ /\ body' = [body EXCEPT ![f] = NewBody(pass[p].sight[f])]
             /\ linked' \in IF database THEN {linked, linked \cup {f}} ELSE {linked}
             /\ NextFinding(p, pass[p].made + 1)
          \/ UNCHANGED <<body, linked>> /\ NextFinding(p, pass[p].made)
       /\ UNCHANGED <<database, day, ran, told>>

\* agingStageForDays, as its rank.
Stage(days) == Cardinality({t \in {14, 30, 60, 90} : t <= days})

\* ConfidenceNeedsHumanReview.
NeedsReview(conf) == conf \in 1..64

\* A mutant: the stage is announced whenever the issue is old enough.
Advances_Again(old, want) == want > 0 /\ want >= old

Advances(old, want) == want > old

\* DecideExistingIssueUpdate: the reasons to speak, the first of which is given.
\* What the others say is not kept anywhere, so they may be given again.
Changed(o, b) == b # NoBody /\ (b.sev # o.sev \/ b.loc # o.loc)
ReviewNeeded(o, b) ==
    NeedsReview(o.conf) /\ (b = NoBody \/ ~NeedsReview(b.conf) \/ b.conf - o.conf >= 15)
HasAged(o, b) ==
    /\ b # NoBody /\ ~Changed(o, b) /\ ~ReviewNeeded(o, b)
    /\ Advances(b.stage, Stage(day - b.since))

\* updateExistingIssue.  A comment that fails ends the finding's turn.
Comment(p) ==
    LET f == pass[p].now
        stage == Stage(day - pass[p].copy.since)
    IN /\ pass[p].at = "decide"
       /\ \/ /\ HasAged(pass[p].sight[f], pass[p].copy)
             /\ told' = [told EXCEPT ![f] = Append(@, stage)]
             /\ Becomes(p, [pass[p] EXCEPT !.at = "patch",
                                            !.copy = [pass[p].copy EXCEPT !.stage = stage]])
             /\ UNCHANGED filing
          \/ NextFinding(p, pass[p].made) /\ UNCHANGED told
       /\ UNCHANGED <<database, day, body, linked, ran>>

\* A mutant: the body is not written back.
Patched_Not(f, b) == body

Patched(f, b) == [body EXCEPT ![f] = b]

\* UpsertAgingMarker on the copy that was read; a failure is logged.
EditIssueBody(p) ==
    LET f == pass[p].now
    IN /\ pass[p].at = "patch"
       /\ \/ body' = Patched(f, pass[p].copy) /\ UNCHANGED told
          \/ told' = [told EXCEPT ![f] = SubSeq(@, 1, Len(@) - 1)] /\ UNCHANGED body
       /\ NextFinding(p, pass[p].made)
       /\ UNCHANGED <<database, day, linked, ran>>

\* ReportNotReproduced: all open issues of which the pass has nothing seen.
Absent(p) == {f \in Findings : body[f] # NoBody} \ pass[p].seen

ListOpenIssues(p) ==
    /\ pass[p].at = "next" /\ pass[p].left = {}
    /\ Becomes(p, IF pass[p].seen # {} /\ Absent(p) # {}
                  THEN [pass[p] EXCEPT !.at = "report", !.left = Absent(p)] ELSE Idle)
    /\ UNCHANGED <<database, day, body, linked, filing, ran, told>>

\* One comment after the other; a failure ends them.
ReportNotReproduced(p, f) ==
    /\ pass[p].at = "report" /\ f \in pass[p].left
    /\ \/ Becomes(p, IF pass[p].left = {f} THEN Idle ELSE [pass[p] EXCEPT !.left = @ \ {f}])
       \/ Becomes(p, Idle)
    /\ UNCHANGED <<database, day, body, linked, filing, ran, told>>

UpdateNext ==
    \/ DayPasses
    \/ \E p \in Passes :
         \/ StartPass(p) \/ StopAtMaximum(p) \/ CreateIssue(p) \/ Comment(p)
         \/ EditIssueBody(p) \/ ListOpenIssues(p)
         \/ \E f \in Findings :
              SkipFaint(p, f) \/ FindIssue(p, f) \/ ReportNotReproduced(p, f)

UpdateSpec == UpdateInit /\ [][UpdateNext]_updateVars

(***************************************************************************)
(* Properties.                                                             *)
(***************************************************************************)

UpdateTypeOK ==
    /\ database \in BOOLEAN /\ day \in Days /\ ran \in 0..MaxPasses
    /\ body \in [Findings -> Bodies \cup {NoBody}] /\ linked \subseteq Findings
    /\ \A p \in Passes :
         /\ pass[p].at \in {"idle", "next", "create", "decide", "patch", "report"}
         /\ pass[p].left \subseteq Findings /\ pass[p].seen \subseteq pass[p].found
         /\ pass[p].now \in Findings \cup {NoFinding}
         /\ pass[p].copy \in Bodies \cup {NoBody}
    /\ filing \in Passes \cup {NoPass} /\ told \in [Findings -> Seq(1..4)]

(* "Aging stages advance once each" (lifecycle.go): of the announcements of an  *)
(* issue's age that could be written into its body, each one is of a later      *)
(* stage than those before it, however many passes of the process see the issue *)
(* at once, and the body holds the last.  It rests on the lock, which is held   *)
(* from the reading of the body to its writing.                                 *)
AgedOnce ==
    \A f \in Findings :
      /\ \A i, j \in DOMAIN told[f] : i < j => told[f][i] < told[f][j]
      /\ told[f] # <<>> /\ filing = NoPass => body[f].stage = told[f][Len(told[f])]
==============================================================================
