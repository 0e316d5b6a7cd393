---------------------------- MODULE IssueLabels ----------------------------
(***************************************************************************)
(* The labels of one issue on Gitea (gitea/issue_labels.go,                *)
(* ResolveLabelIDs and the repository's labels of gitea/hooks.go,          *)
(* CreateIssue of issues/forge_client.go, ExpandLifecycleLabels of         *)
(* issues/labels.go).  The forge may accept a request and apply less of    *)
(* it; closing, merging and filing label the issue at the same time; and   *)
(* labels of one scope displace each other.                                *)
(***************************************************************************)
EXTENDS Naturals, FiniteSets

CONSTANTS
    Labellers,     \* calls of AddIssueLabels, for a lifecycle state each
    StateOf,       \* Labellers -> lifecycle state
    Filer,         \* the call of CreateIssue the issue is from
    MaxDrops,      \* bound: calls that fail, and requests the forge cuts
    MaxRelabels    \* bound: changes by people

\* Labels have a scope, the part before the slash.
Label(scope, name) == [scope |-> scope, name |-> name]
Confirmed == Label("triage", "confirmed")
AutoPR == Label("remediation", "auto-pr")
Lifecycle(name) == Label("repository-detective", name)

ExpandLifecycleLabels(state) ==
    CASE state = "needs-review" -> {Label("triage", "needs-review")}
      [] state = "resolved-verified" -> {Confirmed, Lifecycle("resolved-verified")}
      [] state = "fix-pr-merged" -> {AutoPR, Confirmed, Lifecycle("fix-pr-merged")}
      [] state = "pending-rescan" -> {Lifecycle("pending-rescan")}
      [] state = "closure-blocked" -> {Label("remediation", "blocked"), Lifecycle("closure-blocked")}

\* DefaultIssueBaseLabels and a category.
FiledWith == {Label("source", "repository-detective"), Label("category", "security")}

ASSUME LabelAssumptions ==
    Filer \notin Labellers /\ MaxDrops \in Nat /\ MaxRelabels \in Nat

LabelCalls == Labellers \cup {Filer}
Named == [c \in LabelCalls |-> IF c = Filer THEN FiledWith ELSE ExpandLifecycleLabels(StateOf[c])]
AllLabels == UNION {Named[c] : c \in LabelCalls}

VARIABLES
    filed,      \* the issue exists
    defined,    \* the labels the repository has
    onIssue,    \* those the issue has
    call,       \* where a call is, what it wants yet, what it was told last
    drops, relabels,
    shown       \* history: the labels the issue had at some time of a call

labelVars == <<filed, defined, onIssue, call, drops, relabels, shown>>

Rests == [at |-> "new", want |-> {}, got |-> {}]

LabelsInit ==
    /\ filed = FALSE /\ defined \in {{}, AllLabels} /\ onIssue = {}
    /\ call = [c \in LabelCalls |-> Rests]
    /\ drops = 0 /\ relabels = 0 /\ shown = [c \in LabelCalls |-> {}]

Over == {"ok", "failed"}
Steps(c, p, wants, hears) == call' = [call EXCEPT ![c] = [at |-> p, want |-> wants, got |-> hears]]
Goes(c, p) == IF p \in Over THEN Steps(c, p, {}, {}) ELSE Steps(c, p, call[c].want, call[c].got)
Fails == drops < MaxDrops /\ drops' = drops + 1

\* What the issue has once the forge has put labels on it: of a scope the last.
Put(labels) == labels \cup {l \in onIssue : \A k \in labels : k.scope # l.scope}

(***************************************************************************)
(* The requests to the forge, and their ends p and q.                      *)
(***************************************************************************)
\* GetIssueLabels: the answer, or an error.
GetIssueLabels(c, p, failed) ==
    /\ \/ /\ IF p \in Over THEN Goes(c, p)
             ELSE Steps(c, p, call[c].want, onIssue)
          /\ UNCHANGED drops
       \/ Fails /\ Goes(c, failed)
    /\ UNCHANGED <<filed, defined, onIssue, relabels>>

\* attachIssueLabels: refused; or applied, all that the repository has or less, and
\* then answered with the labels, answered with nothing (they are read), or lost.
AttachIssueLabels(c, labels, p, reread) ==
    /\ \/ Fails /\ Goes(c, "failed") /\ UNCHANGED onIssue
       \/ \E applied \in SUBSET (labels \cap defined) :
            /\ onIssue' = Put(applied)
            /\ \/ /\ IF onIssue' = {} THEN Goes(c, reread)
                     ELSE Steps(c, p, call[c].want, onIssue')
                  /\ IF applied = labels \cap defined THEN UNCHANGED drops ELSE Fails
               \/ Fails /\ Goes(c, reread)
               \/ Fails /\ Goes(c, "failed")
    /\ UNCHANGED <<filed, defined, relabels>>

\* ResolveLabelIDs: the repository's labels are listed, those it lacks are created;
\* a creation that fails is logged and its label left out.  The ids go to got.
ResolveLabelIDs(c, labels, p) ==
    /\ \/ \E created \in SUBSET (labels \ defined) :
            /\ defined' = defined \cup created
            /\ Steps(c, p, call[c].want, (labels \cap defined) \cup created)
            /\ IF created = labels \ defined THEN UNCHANGED drops ELSE Fails
       \/ Fails /\ Goes(c, "failed") /\ UNCHANGED defined
    /\ UNCHANGED <<filed, onIssue, relabels>>

(***************************************************************************)
(* AddIssueLabels.                                                         *)
(***************************************************************************)
StartLabels(c) ==
    /\ call[c].at = "new" /\ c \in Labellers /\ filed
    /\ Steps(c, "filter", Named[c], {})
    /\ UNCHANGED <<filed, defined, onIssue, drops, relabels>>

\* What the issue has already is not asked for; an error counts as nothing there.
FilterLabelsNotOnIssue(c) ==
    /\ call[c].at = "filter"
    /\ \/ LET left == call[c].want \ onIssue
          IN Steps(c, IF left = {} THEN "current" ELSE "attach", left, {})
          /\ UNCHANGED drops
       \/ Fails /\ Goes(c, "attach")
    /\ UNCHANGED <<filed, defined, onIssue, relabels>>

Current(c) == call[c].at = "current" /\ GetIssueLabels(c, "ok", "failed")

Attach(c) == call[c].at = "attach" /\ AttachIssueLabels(c, call[c].want, "verify", "reread")

Reread(c) == call[c].at = "reread" /\ GetIssueLabels(c, "verify", "failed")

VerifyRequestedLabels_Any(c) ==
    /\ call[c].at = "verify"
    /\ Goes(c, IF call[c].want \cap call[c].got # {} THEN "ok" ELSE "resolve")
    /\ UNCHANGED <<filed, defined, onIssue, drops, relabels>>

VerifyRequestedLabels(c) ==
    /\ call[c].at = "verify"
    /\ Goes(c, IF call[c].want \subseteq call[c].got THEN "ok" ELSE "resolve")
    /\ UNCHANGED <<filed, defined, onIssue, drops, relabels>>

\* The missing ones are made sure of on the repository and attached by their ids.
Ensure(c) ==
    /\ call[c].at = "resolve" /\ ResolveLabelIDs(c, call[c].want \ call[c].got, "retry")

Retry(c) ==
    /\ call[c].at = "retry"
    /\ IF call[c].got = {} THEN Goes(c, "final") /\ UNCHANGED <<filed, defined, onIssue, drops, relabels>>
       ELSE AttachIssueLabels(c, call[c].got, "final", "retried")

Retried(c) == call[c].at = "retried" /\ GetIssueLabels(c, "final", "failed")

FinalCheck_Old(c) ==
    /\ call[c].at = "final"
    /\ \/ /\ Goes(c, "ok") /\ UNCHANGED drops
       \/ Fails /\ Goes(c, "failed")
    /\ UNCHANGED <<filed, defined, onIssue, relabels>>

FinalCheck(c) ==
    /\ call[c].at = "final"
    /\ \/ Goes(c, IF call[c].want \subseteq onIssue THEN "ok" ELSE "failed") /\ UNCHANGED drops
       \/ Fails /\ Goes(c, "failed")
    /\ UNCHANGED <<filed, defined, onIssue, relabels>>

(***************************************************************************)
(* CreateIssue: by the ids of the labels that could be had; with none of   *)
(* them, the names are attached afterwards, and an error of that is one of *)
(* CreateIssue, though the issue is there.                                 *)
(***************************************************************************)
ResolveForIssue == call[Filer].at = "new" /\ ResolveLabelIDs(Filer, FiledWith, "create")

CreateWithLabels_Bare ==
    /\ call[Filer].at = "create"
    /\ filed' = TRUE /\ onIssue' = call[Filer].got /\ Goes(Filer, "ok")
    /\ UNCHANGED <<defined, drops, relabels>>

CreateWithLabels ==
    /\ call[Filer].at = "create"
    /\ \/ Fails /\ Goes(Filer, "failed") /\ filed' \in BOOLEAN
          /\ onIssue' = IF filed' THEN call[Filer].got ELSE {}
       \/ /\ filed' = TRUE /\ onIssue' = call[Filer].got /\ UNCHANGED drops
          /\ IF call[Filer].got # {} THEN Goes(Filer, "ok")
             ELSE Steps(Filer, "filter", FiledWith, {})
    /\ UNCHANGED <<defined, relabels>>

\* Somebody adds a label to the issue or takes one away.
Relabel ==
    /\ filed /\ relabels < MaxRelabels /\ relabels' = relabels + 1
    /\ onIssue' \in {Put({l}) : l \in defined} \cup {onIssue \ {l} : l \in onIssue}
    /\ UNCHANGED <<filed, defined, call, drops>>

RememberLabels ==
    shown' = [c \in LabelCalls |->
        IF call'[c].at = "new" \/ call[c].at \in Over THEN shown[c] ELSE shown[c] \cup onIssue']

LabelStep(c) ==
    \/ StartLabels(c) \/ FilterLabelsNotOnIssue(c) \/ Current(c) \/ Attach(c) \/ Reread(c)
    \/ VerifyRequestedLabels(c) \/ Ensure(c) \/ Retry(c) \/ Retried(c) \/ FinalCheck(c)

LabelsNext ==
    /\ (\E c \in LabelCalls : LabelStep(c)) \/ ResolveForIssue \/ CreateWithLabels \/ Relabel
    /\ RememberLabels

LabelsSpec == LabelsInit /\ [][LabelsNext]_labelVars

(***************************************************************************)
(* Properties.                                                             *)
(***************************************************************************)
\* Calls have the steps of the code, and labels are known ones.
LabelsTypeOK ==
    /\ filed \in BOOLEAN /\ defined \subseteq AllLabels /\ onIssue \subseteq AllLabels
    /\ call \in [LabelCalls -> [at : {"new", "filter", "current", "attach", "reread", "verify",
                                      "resolve", "retry", "retried", "final", "create"} \cup Over,
                                want : SUBSET AllLabels, got : SUBSET AllLabels]]
    /\ drops \in 0..MaxDrops /\ relabels \in 0..MaxRelabels

(* A call that reports success has seen all its labels on the issue, though the    *)
(* forge drops some, other calls displace them and answers are lost; and an issue  *)
(* that was created with success was given a label (AddIssueLabels, CreateIssue).  *)
LabelsAreProven == \A c \in LabelCalls :
    call[c].at = "ok" =>
        IF c = Filer THEN Named[c] \cap shown[c] # {} ELSE Named[c] \subseteq shown[c]
=============================================================================
