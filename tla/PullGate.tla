------------------------------ MODULE PullGate ------------------------------
(***************************************************************************)
(* The commit status and the summary comment of a pull request             *)
(* (ProcessPush and ProcessPullRequest in main.go, gitea/reporter.go,      *)
(* gitea/policy_outcome.go, issues/pr_summary.go, main_pr_summary.go).     *)
(*                                                                         *)
(* Scans of pushes and of the pull request run side by side while its head *)
(* moves.  They post statuses in one context, so the last one stands, and  *)
(* the scans of the pull request keep one comment up to date, under a lock *)
(* in the memory of the process.  A scan of a push looks at the files of   *)
(* the push, one of the pull request at all the files it changes.          *)
(***************************************************************************)
EXTENDS Naturals, Sequences

CONSTANTS
    Jobs,       \* scans that webhooks start
    NoJob,
    MaxHead,    \* commits that a pull request has, in their order
    Situations  \* what may come together, see Situation

(* "status"  a status is not posted                                              *)
(* "list", "edit", "delete"  a call about comments fails                         *)
(* "lost"    a comment is created, now or later, and the answer does not come    *)
(* "death"   the process dies                                                    *)
HitchKinds == {"status", "list", "edit", "delete", "lost", "death"}

PolicyModes == {"observe", "warn", "enforce"}

Triggers == {"push", "pr", "none"}

\* The settings of the repository (PolicyLevel, IncludeScannerFailures and
\* EnableGiteaStatus), what starts each scan, the commits, and what may go wrong.
Situation ==
    [mode : PolicyModes, include : BOOLEAN, status : BOOLEAN, kind : [Jobs -> Triggers],
     heads : 1..MaxHead, hitches : SUBSET HitchKinds]

ASSUME GateAssumptions ==
    NoJob \notin Jobs /\ MaxHead \in Nat \ {0} /\ Situations \subseteq Situation

VARIABLES
    policy,     \* the situation
    worst,      \* the worst finding in the changed files, at each commit
    head,       \* the head of the pull request
    point,      \* where each scan is
    asked,      \* the commit of its event
    analysed,   \* the commit that it analyses
    judged,     \* the state of its evaluation
    status,     \* the commit statuses on the forge, and the kind of scan of each
    comments,   \* the commits that the summary comments tell of, the oldest first
    lock,       \* the scan in inFlightPRSummary
    owned,      \* how many of the summary comments it listed
    landing,    \* comments that are still to be created
    unposted,   \* history: commits that a status was not posted on
    strayed,    \* history: the creation of a comment went unanswered
    unseen      \* history: commits judged without some of the files changed

scanning == <<point, asked, analysed, judged>>
summary == <<comments, lock, owned, landing, strayed>>
gateVars == <<policy, worst, head, scanning, status, unposted, summary, unseen>>

Heads == 1..MaxHead
Levels == {"none", "warn", "fail"}
Steps == {"idle", "queued", "read", "files", "scan", "post", "summarise", "listing",
          "write", "prune", "ended"}
Finals == {"success", "failure", "warning", "error"}
NoStatus == [state |-> "none", by |-> "none"]

GateInit ==
    /\ policy \in Situations /\ head = 1
    /\ worst \in {w \in [Heads -> Levels] :
                     \A c \in Heads : c > policy.heads => w[c] = "none"}
    /\ point = [s \in Jobs |-> "idle"]
    /\ asked = [s \in Jobs |-> 0] /\ analysed = [s \in Jobs |-> 0]
    /\ judged = [s \in Jobs |-> "none"]
    /\ status = [c \in Heads |-> NoStatus] /\ unposted = {}
    /\ comments = <<>> /\ lock = NoJob /\ owned = 0 /\ landing = <<>> /\ strayed = FALSE
    /\ unseen = {}

Turn(s, step) == point' = [point EXCEPT ![s] = step]

HeadMoves ==
    /\ head < policy.heads /\ head' = head + 1
    /\ UNCHANGED <<policy, worst, scanning, status, unposted, summary, unseen>>

\* A push is delivered once; events of the pull request may come again for the
\* same head.
StartJob(s) ==
    /\ point[s] = "idle" /\ policy.kind[s] # "none"
    /\ policy.kind[s] = "push" =>
          \A t \in Jobs : ~(policy.kind[t] = "push" /\ asked[t] = head)
    /\ Turn(s, "queued")
    /\ asked' = [asked EXCEPT ![s] = head]
    /\ UNCHANGED <<policy, worst, head, analysed, judged, status, unposted, summary, unseen>>

(***************************************************************************)
(* The scan.                                                               *)
(***************************************************************************)

\* A mutant: a warning is posted as it is.
MapGiteaCommitState_Identity(state) == state

MapGiteaCommitState(state) == IF state = "warning" THEN "failure" ELSE state

\* StatusReporter.post: an error is logged.
Post(s, c, state) ==
    \/ /\ policy.status
       /\ status' = [status EXCEPT ![c] =
                       [state |-> MapGiteaCommitState(state), by |-> policy.kind[s]]]
       /\ UNCHANGED unposted
    \/ /\ ~policy.status \/ "status" \in policy.hitches
       /\ unposted' = unposted \cup {c} /\ UNCHANGED status

\* It waits for analysisLimiter until then.
ReportPending(s) ==
    /\ point[s] = "queued" /\ Post(s, asked[s], "pending")
    /\ IF policy.kind[s] = "push"
       THEN Turn(s, "scan") /\ analysed' = [analysed EXCEPT ![s] = asked[s]]
       ELSE Turn(s, "read") /\ UNCHANGED analysed
    /\ UNCHANGED <<policy, worst, head, asked, judged, summary, unseen>>

\* AnalyzePullRequest: the head may have moved since the event,
GetPullRequest(s) ==
    /\ point[s] = "read" /\ Turn(s, "files") /\ analysed' = [analysed EXCEPT ![s] = head]
    /\ UNCHANGED <<policy, worst, head, asked, judged, status, unposted, summary, unseen>>

\* The worst finding that a scan may meet in some of the files.
PartOf(level) ==
    IF level = "none" THEN {"none"}
    ELSE IF level = "warn" THEN {"none", "warn"} ELSE Levels

\* EvaluatePolicyOutcome.  Required scanners are in the way of a verdict whether
\* failures are included or not.
Evaluate(level, coverage) ==
    IF coverage = "required"
    THEN IF policy.mode = "observe" THEN "success"
         ELSE IF policy.mode = "warn" THEN "warning" ELSE "error"
    ELSE IF coverage = "optional" /\ policy.include
    THEN IF policy.mode = "enforce" THEN "error" ELSE "warning"
    ELSE IF policy.mode = "observe" THEN "success"
    ELSE IF level = "fail" /\ policy.mode = "enforce" THEN "failure"
    ELSE IF level # "none" THEN "warning" ELSE "success"

\* What is not read is in nobody's way: the coverage knows of scanners only.
Judge(s, levels) ==
    /\ Turn(s, "post")
    /\ \E level \in levels, coverage \in {"complete", "optional", "required"} :
         judged' = [judged EXCEPT ![s] = Evaluate(level, coverage)]

\* A mutant: a failed analysis posts no status.
AnalysisFails_Silent(s) ==
    Turn(s, "ended") /\ UNCHANGED <<judged, status, unposted>>

\* There is no result: the status goes to the commit of the event, and the
\* handler returns.
AnalysisFails(s) ==
    /\ Post(s, asked[s], "error") /\ Turn(s, "ended") /\ UNCHANGED judged

\* and it may move again before the changed files are listed: then they are
\* not those of the commit that is analysed.  Of the list one page is asked for,
\* and a file of it that is too large, or that cannot be fetched, is skipped.
GetChangedFiles(s) ==
    /\ point[s] = "files"
    /\ \/ /\ \/ head = analysed[s] /\ Judge(s, {worst[head]}) /\ UNCHANGED unseen
             \/ /\ Judge(s, PartOf(worst[analysed[s]]))
                /\ unseen' = unseen \cup {analysed[s]}
          /\ UNCHANGED <<status, unposted>>
       \/ AnalysisFails(s) /\ UNCHANGED unseen
    /\ UNCHANGED <<policy, worst, head, asked, analysed, summary>>

AnalyzeChangedFiles(s) ==
    /\ point[s] = "scan"
    /\ \/ Judge(s, PartOf(worst[analysed[s]])) /\ UNCHANGED <<status, unposted>>
       \/ AnalysisFails(s)
    /\ UNCHANGED <<policy, worst, head, asked, analysed, summary, unseen>>

\* A mutant: the status goes to the commit of the event.
ResolveCommitSHA_OfEvent(s) == asked[s]

ResolveCommitSHA(s) == analysed[s]

\* maybePostPRPolicySummary does nothing for a quiet scan in observe mode.
Summarises(s) ==
    \/ policy.kind[s] = "pr" /\ Turn(s, "summarise")
    \/ /\ \/ policy.kind[s] = "push"
          \/ policy.mode = "observe" /\ policy.status /\ judged[s] = "success"
       /\ Turn(s, "ended")

ReportFinal(s) ==
    /\ point[s] = "post" /\ Post(s, ResolveCommitSHA(s), judged[s])
    /\ Summarises(s)
    /\ UNCHANGED <<policy, worst, head, asked, analysed, judged, summary, unseen>>

(***************************************************************************)
(* UpsertPRPolicySummary.                                                  *)
(***************************************************************************)

\* A mutant: no lock.
LoadOrStore_Always(s) == lock' = s /\ Turn(s, "listing")

\* A scan that meets another one here leaves the comment to it.
LoadOrStore(s) ==
    \/ lock = NoJob /\ lock' = s /\ Turn(s, "listing")
    \/ lock # NoJob /\ UNCHANGED lock /\ Turn(s, "ended")

TakeLock(s) ==
    /\ point[s] = "summarise" /\ LoadOrStore(s)
    /\ UNCHANGED <<policy, worst, head, asked, analysed, judged, status, unposted,
                   comments, owned, landing, strayed, unseen>>

LeaveSummary(s) == Turn(s, "ended") /\ lock' = NoJob /\ owned' = 0

\* A mutant: a failed list is an empty one.
ListFails_Empty(s) == Turn(s, "write") /\ owned' = 0 /\ UNCHANGED lock

ListFails(s) == LeaveSummary(s)

ListComments(s) ==
    /\ point[s] = "listing"
    /\ \/ Turn(s, "write") /\ owned' = Len(comments) /\ UNCHANGED lock
       \/ "list" \in policy.hitches /\ ListFails(s)
    /\ UNCHANGED <<policy, worst, head, asked, analysed, judged, status, unposted,
                   comments, landing, strayed, unseen>>

CreateComment(s) ==
    /\ point[s] = "write" /\ owned = 0
    /\ \/ comments' = Append(comments, analysed[s]) /\ UNCHANGED <<landing, strayed>>
       \/ /\ "lost" \in policy.hitches /\ UNCHANGED comments
          /\ landing' = Append(landing, analysed[s]) /\ strayed' = TRUE
    /\ LeaveSummary(s)
    /\ UNCHANGED <<policy, worst, head, asked, analysed, judged, status, unposted, unseen>>

EditComment(s) ==
    /\ point[s] = "write" /\ owned > 0
    /\ \/ /\ comments' = [comments EXCEPT ![1] = analysed[s]]
          /\ Turn(s, "prune") /\ UNCHANGED <<lock, owned>>
       \/ "edit" \in policy.hitches /\ LeaveSummary(s) /\ UNCHANGED comments
    /\ UNCHANGED <<policy, worst, head, asked, analysed, judged, status, unposted,
                   landing, strayed, unseen>>

\* All that were listed but the first; those that cannot be deleted stay.
DeleteDuplicates(s) ==
    /\ point[s] = "prune" /\ LeaveSummary(s)
    /\ \E n \in 0..(owned - 1) : \E stay \in [1..n -> 2..owned] :
         /\ n > 0 => "delete" \in policy.hitches
         /\ \A i, j \in 1..n : i < j => stay[i] < stay[j]
         /\ comments' = <<comments[1]>> \o [i \in 1..n |-> comments[stay[i]]]
                                       \o SubSeq(comments, owned + 1, Len(comments))
    /\ UNCHANGED <<policy, worst, head, asked, analysed, judged, status, unposted,
                   landing, strayed, unseen>>

\* The forge gets to a creation whose client is gone.
CommentLands ==
    /\ landing # <<>> /\ landing' = Tail(landing)
    /\ comments' = Append(comments, Head(landing))
    /\ UNCHANGED <<policy, worst, head, scanning, status, unposted, lock, owned,
                   strayed, unseen>>

\* A creation that was on its way may still land.
GateDies ==
    /\ "death" \in policy.hitches
    /\ point' = [s \in Jobs |-> IF point[s] = "idle" THEN "idle" ELSE "ended"]
    /\ lock' = NoJob /\ owned' = 0
    /\ unposted' = unposted \cup {c \in Heads :
                     \E s \in Jobs : point[s] # "idle" /\ c \in {asked[s], analysed[s]}}
    /\ \/ \E s \in Jobs : /\ point[s] = "write" /\ owned = 0
                          /\ landing' = Append(landing, analysed[s]) /\ strayed' = TRUE
       \/ UNCHANGED <<landing, strayed>>
    /\ UNCHANGED <<policy, worst, head, asked, analysed, judged, status, comments, unseen>>

JobStep(s) ==
    \/ ReportPending(s) \/ GetPullRequest(s) \/ GetChangedFiles(s) \/ AnalyzeChangedFiles(s)
    \/ ReportFinal(s) \/ TakeLock(s) \/ ListComments(s) \/ CreateComment(s)
    \/ EditComment(s) \/ DeleteDuplicates(s)

GateNext ==
    \/ \E s \in Jobs : StartJob(s) \/ JobStep(s)
    \/ HeadMoves \/ CommentLands \/ GateDies

\* The calls of a scan return: each has a deadline.
FairGate == \A s \in Jobs : WF_gateVars(JobStep(s))

GateSpec == GateInit /\ [][GateNext]_gateVars
FairGateSpec == GateSpec /\ FairGate

(***************************************************************************)
(* Properties.                                                             *)
(***************************************************************************)

GateTypeOK ==
    /\ policy \in Situations /\ worst \in [Heads -> Levels] /\ head \in Heads
    /\ point \in [Jobs -> Steps]
    /\ asked \in [Jobs -> 0..MaxHead] /\ analysed \in [Jobs -> 0..MaxHead]
    /\ judged \in [Jobs -> Finals \cup {"none"}]
    /\ status \in [Heads -> [state : {"none", "pending", "success", "failure", "error"},
                             by : {"none", "push", "pr"}]]
    /\ unposted \subseteq Heads
    /\ comments \in Seq(Heads) /\ landing \in Seq(Heads)
    /\ lock \in Jobs \cup {NoJob} /\ owned \in Nat /\ strayed \in BOOLEAN
    /\ unseen \subseteq Heads

(* An enforcing gate passes a commit only if no finding in the files that the   *)
(* pull request changes stands against it, however the head moves between the   *)
(* event and the analysis: the status goes to the commit that was analysed.     *)
(* That is so for commits whose files were all read: a file that was not, since *)
(* the list was another head's or cut short, or since the file was skipped, may *)
(* have any finding.  Scans of pushes look at fewer files and share the context:*)
(* of what they pass nothing like that holds.                                   *)
PassedIsClean ==
    \A c \in Heads \ unseen :
        policy.mode = "enforce" /\ status[c] = [state |-> "success", by |-> "pr"]
            => worst[c] = "none"

(* Whatever was read of it, a commit that a scan of the pull request passed was *)
(* analysed by such a scan, and judged a success: no pending state, no failed   *)
(* analysis, no warning and no commit of an event becomes a pass.               *)
PassedIsJudged ==
    \A c \in Heads :
        status[c] = [state |-> "success", by |-> "pr"] =>
            \E s \in Jobs : /\ policy.kind[s] = "pr" /\ analysed[s] = c
                            /\ judged[s] = "success"

(* The pending status of the head is replaced by a final one, whatever becomes  *)
(* of the analysis, unless the head moves on, a status cannot be posted or the  *)
(* process dies.                                                                *)
HeadIsSettled ==
    \A c \in Heads : []<>(status[c].state # "pending" \/ head # c \/ c \in unposted)

(* docs/PR_SUMMARY_IDEMPOTENCY.md: at most one summary per pull request.  Scans *)
(* that end together, retries and failed lists do not make a second one, only a *)
(* creation whose answer is lost does.                                          *)
OneSummary == Len(comments) > 1 => strayed

(* What a pull request is told is true: a pass is of a commit that was judged   *)
(* one, and of clean code where all of it was read, and one summary tells of it *)
(* (EvaluatePolicyOutcome, StatusReporter.post, UpsertPRPolicySummary).         *)
GateIsTrue == PassedIsClean /\ PassedIsJudged /\ OneSummary

\* All is quiet, and the pull request was scanned and judged at every head.
AllScanned ==
    /\ \A s \in Jobs : point[s] \in {"idle", "ended"}
    /\ \A c \in 1..head :
          \E s \in Jobs : policy.kind[s] = "pr" /\ analysed[s] = c /\ judged[s] # "none"

(* docs/PR_SUMMARY_IDEMPOTENCY.md: "Later commits on the same PR update the     *)
(* same comment with the latest outcome": without a mishap, it ends up telling  *)
(* of the last one.                                                             *)
SummaryIsLatest ==
    AllScanned /\ policy.hitches = {} /\ comments # <<>> => comments[1] = head
==============================================================================
