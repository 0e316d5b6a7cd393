--------------------------- MODULE PatchAttempts ---------------------------
(***************************************************************************)
(* Attempts to open a remediation pull request for one finding             *)
(* (attemptRemediationPR, main_remediation_pr.go; Executor.Run,            *)
(* patcher/executor.go; patcher/git.go).  Any number of requests attempt   *)
(* the same eligible plan: each clones and patches in a workspace of its   *)
(* own, but they all push to one branch, named after the finding, and the  *)
(* row of an attempt is saved when it is over.                             *)
(*                                                                         *)
(* The forge refuses a second open pull request for a branch.  People      *)
(* close and merge pull requests and delete the branch.                    *)
(***************************************************************************)
CONSTANTS
    Attempts,   \* requests to open a pull request for the plan
    NoCommit,
    Mishaps     \* what may happen, see MishapKinds

(* "error"   a call to git, the forge or the store fails, with its effect or not *)
(* "delete"  the branch is deleted                                               *)
(* "crash"   the process dies                                                    *)
MishapKinds == {"error", "delete", "crash"}

ASSUME PatchAssumptions == NoCommit \notin Attempts /\ Mishaps \subseteq MishapKinds

VARIABLES
    phase,      \* where each attempt is
    commit,     \* what each attempt patched and validated: CommitSHA
    verdict,    \* the status of each attempt in memory
    saved,      \* its row in patch_attempts
    branch,     \* the head of the finding's branch on the forge
    pull,       \* the pull request each attempt opened
    merged,     \* the default branch has the fix
    untold,     \* history: attempts whose answer or row an error or a crash took
    cut         \* history: attempts under whose feet the branch was deleted

forge == <<branch, pull, merged>>
patchVars == <<phase, commit, verdict, saved, forge, untold, cut>>

Commits == Attempts \cup {NoCommit}
UnderWay == {"clone", "patch", "push", "open", "comment", "save"}
Phases == UnderWay \cup {"new", "over", "dead"}
Verdicts == {"running", "failed", "pr_opened"}

PatchInit ==
    /\ phase = [a \in Attempts |-> "new"]
    /\ commit = [a \in Attempts |-> NoCommit]
    /\ verdict = [a \in Attempts |-> "running"]
    /\ saved = [a \in Attempts |-> "none"]
    /\ branch = NoCommit /\ pull = [a \in Attempts |-> "none"] /\ merged = FALSE
    /\ untold = {} /\ cut = {}

Enter(a, p) == phase' = [phase EXCEPT ![a] = p]

\* A mutant: with a status that no reader knows.
FailAttempt_Misspelt(a) == Enter(a, "save") /\ verdict' = [verdict EXCEPT ![a] = "error"]

\* A failed attempt is saved like any other.
FailAttempt(a) == Enter(a, "save") /\ verdict' = [verdict EXCEPT ![a] = "failed"]

StartAttempt(a) ==
    /\ phase[a] = "new" /\ Enter(a, "clone")
    /\ UNCHANGED <<commit, verdict, saved, forge, untold, cut>>

\* The patch finds nothing to change in a workspace that has the fix.
PrepareWorkspace(a) ==
    /\ phase[a] = "clone"
    /\ \/ ~merged /\ Enter(a, "patch") /\ UNCHANGED verdict
       \/ (merged \/ "error" \in Mishaps) /\ FailAttempt(a)
    /\ UNCHANGED <<commit, saved, forge, untold, cut>>

\* Attempts that patch the same base in the same second make the same commit.
Twins(a) == {a} \cup {commit[b] : b \in {b \in Attempts : phase[b] = "push"}}

PatchAndValidate(a) ==
    /\ phase[a] = "patch"
    /\ \/ FailAttempt(a) /\ UNCHANGED commit
       \/ /\ \E c \in Twins(a) : commit' = [commit EXCEPT ![a] = c]
          /\ Enter(a, "push") /\ UNCHANGED verdict
    /\ UNCHANGED <<saved, forge, untold, cut>>

\* A mutant: git push --force.
PushBranch_Force(a) ==
    /\ phase[a] = "push"
    /\ branch' = commit[a] /\ Enter(a, "open") /\ UNCHANGED verdict
    /\ UNCHANGED <<commit, saved, pull, merged, untold, cut>>

\* Without force: a branch with another commit refuses.
PushBranch(a) ==
    /\ phase[a] = "push"
    /\ \/ /\ branch \in {NoCommit, commit[a]} /\ branch' = commit[a]
          /\ \/ Enter(a, "open") /\ UNCHANGED verdict
             \/ "error" \in Mishaps /\ FailAttempt(a)
       \/ /\ (branch \notin {NoCommit, commit[a]} \/ "error" \in Mishaps)
          /\ FailAttempt(a) /\ UNCHANGED branch
    /\ UNCHANGED <<commit, saved, pull, merged, untold, cut>>

\* The forge accepts: there is a branch, and no open pull request for it.
Mergeable == branch # NoCommit /\ \A b \in Attempts : pull[b] # "open"

CreatePullRequest(a) ==
    /\ phase[a] = "open"
    /\ \/ /\ Mergeable /\ pull' = [pull EXCEPT ![a] = "open"]
          /\ \/ /\ Enter(a, "comment") /\ verdict' = [verdict EXCEPT ![a] = "pr_opened"]
                /\ UNCHANGED untold
             \/ /\ "error" \in Mishaps /\ FailAttempt(a)
                /\ untold' = untold \cup {a}
       \/ /\ (~Mergeable \/ "error" \in Mishaps)
          /\ FailAttempt(a) /\ UNCHANGED <<pull, untold>>
    /\ UNCHANGED <<commit, saved, branch, merged, cut>>

\* A mutant: an issue comment that fails makes the attempt a failed one.
CreateIssueComment_MustSucceed(a) ==
    /\ phase[a] = "comment"
    /\ \/ Enter(a, "save") /\ UNCHANGED verdict
       \/ "error" \in Mishaps /\ FailAttempt(a)
    /\ UNCHANGED <<commit, saved, forge, untold, cut>>

\* Whether it fails or not.
CreateIssueComment(a) ==
    /\ phase[a] = "comment" /\ Enter(a, "save")
    /\ UNCHANGED <<commit, verdict, saved, forge, untold, cut>>

\* An error is logged.  The lifecycle event and the label of the issue follow.
SavePatchAttempt(a) ==
    /\ phase[a] = "save" /\ Enter(a, "over")
    /\ \/ saved' = [saved EXCEPT ![a] = verdict[a]] /\ UNCHANGED untold
       \/ "error" \in Mishaps /\ untold' = untold \cup {a} /\ UNCHANGED saved
    /\ UNCHANGED <<commit, verdict, forge, cut>>

(***************************************************************************)
(* The environment.                                                        *)
(***************************************************************************)

ClosePull(a) ==
    /\ pull[a] = "open"
    /\ \/ pull' = [pull EXCEPT ![a] = "closed"] /\ UNCHANGED merged
       \/ pull' = [pull EXCEPT ![a] = "merged"] /\ merged' = TRUE
    /\ UNCHANGED <<phase, commit, verdict, saved, branch, untold, cut>>

\* Never the head of an open pull request.
DeleteBranch ==
    /\ "delete" \in Mishaps /\ branch # NoCommit
    /\ \A a \in Attempts : pull[a] # "open"
    /\ branch' = NoCommit
    /\ cut' = cut \cup {a \in Attempts : phase[a] = "open"}
    /\ UNCHANGED <<phase, commit, verdict, saved, pull, merged, untold>>

ProcessDies ==
    /\ "crash" \in Mishaps
    /\ phase' = [a \in Attempts |-> IF phase[a] \in UnderWay THEN "dead" ELSE phase[a]]
    /\ untold' = untold \cup {a \in Attempts : phase[a] \in UnderWay}
    /\ UNCHANGED <<commit, verdict, saved, forge, cut>>

AttemptStep(a) ==
    \/ StartAttempt(a) \/ PrepareWorkspace(a) \/ PatchAndValidate(a) \/ PushBranch(a)
    \/ CreatePullRequest(a) \/ CreateIssueComment(a) \/ SavePatchAttempt(a)

PatchNext ==
    \/ \E a \in Attempts : AttemptStep(a) \/ ClosePull(a)
    \/ DeleteBranch \/ ProcessDies

PatchSpec == PatchInit /\ [][PatchNext]_patchVars

(***************************************************************************)
(* Properties.                                                             *)
(***************************************************************************)

PatchTypeOK ==
    /\ phase \in [Attempts -> Phases] /\ commit \in [Attempts -> Commits]
    /\ verdict \in [Attempts -> Verdicts] /\ saved \in [Attempts -> Verdicts \cup {"none"}]
    /\ branch \in Commits /\ pull \in [Attempts -> {"none", "open", "closed", "merged"}]
    /\ merged \in BOOLEAN /\ untold \subseteq Attempts /\ cut \subseteq Attempts

\* What stands for review is what its attempt validated: no other attempt moves
\* the branch of an open pull request.  Only a branch that was deleted between
\* an attempt's push and its pull request may have been pushed again.
OpenPullIsValidated ==
    \A a \in Attempts : pull[a] = "open" /\ a \notin cut => branch = commit[a]

\* The merge check lists rows, so every pull request needs one.  One that no
\* row tells of is still in the hands of its attempt, or the process died or an
\* answer of the forge or the row itself was lost.
PullIsKnown ==
    \A a \in Attempts :
        pull[a] # "none" =>
            \/ saved[a] = "pr_opened"
            \/ phase[a] \in {"comment", "save"} /\ verdict[a] = "pr_opened"
            \/ a \in untold

(* A remediation pull request shows its attempt's validated commit, and the     *)
(* table knows it, however attempts share the branch, calls fail and branches   *)
(* are deleted (Executor.Run, PushBranch, SavePatchAttempt).                    *)
PullsAreAccounted == OpenPullIsValidated /\ PullIsKnown
==============================================================================
