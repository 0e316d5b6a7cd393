-------------------------- MODULE BackgroundProofs ---------------------------
(***************************************************************************)
(* Theorems about what serves the operator beside the scans: the labels of *)
(* an issue, the cache of tool statuses, the announcements of an issue's   *)
(* age, and what is learnt of a rule.  Each part proves the invariants of  *)
(* one module, for every value of its constants; the last carries them     *)
(* over to the instance that TLC checks.                                   *)
(***************************************************************************)
EXTENDS MCBackground, SchedulerProofs, FiniteSetTheorems, SequenceTheorems, TLAPS

(***************************************************************************)
(* A call that reports success has seen its labels on the issue, for any   *)
(* number of calls, whatever state each one is for, and however often the  *)
(* forge fails, drops labels or loses answers.                             *)
(***************************************************************************)

(***************************************************************************)
(* The invariant.  A call that is under way has every label that it does   *)
(* not ask for behind it, knows of no label that the issue never had, and  *)
(* has been shown what the issue has now.                                  *)
(***************************************************************************)
Asking == {"filter", "current", "attach", "reread", "verify", "resolve", "retry", "retried", "final"}
Places == {"new", "create"} \cup Asking \cup Over

Proven(c) ==
    call[c].at = "ok" =>
        IF c = Filer THEN Named[c] \cap shown[c] # {} ELSE Named[c] \subseteq shown[c]

Honest(c) ==
    /\ call[c].at \in Asking => Named[c] \subseteq (call[c].want \cup shown[c]) /\ onIssue \subseteq shown[c]
    /\ call[c].at = "current" => call[c].want = {}
    /\ call[c].at = "verify" => call[c].got \subseteq shown[c]
    /\ call[c].at = "create" => c = Filer /\ call[c].got \subseteq Named[c]
    /\ Proven(c)

LabelsInv == LabelsTypeOK /\ \A c \in LabelCalls : Honest(c)

(***************************************************************************)
(* The labels of a call.                                                   *)
(***************************************************************************)
\* Every call asks for known labels, and an issue is filed with two.
LEMMA NamedLabels ==
    /\ Named \in [LabelCalls -> SUBSET AllLabels]
    /\ Filer \in LabelCalls /\ Named[Filer] = FiledWith /\ FiledWith # {}
<1>1. Filer \in LabelCalls BY DEF LabelCalls
<1>2. \A c \in LabelCalls : Named[c] \subseteq AllLabels BY DEF AllLabels
<1>3. Named = [c \in LabelCalls |-> Named[c]] BY DEF Named
<1>4. Named[Filer] = FiledWith BY <1>1 DEF Named
<1>5. FiledWith # {} BY DEF FiledWith
<1> QED BY <1>1, <1>2, <1>3, <1>4, <1>5

\* A step of a call leaves its record as written, and those of the others alone.
LEMMA StepsWrite ==
    ASSUME LabelsTypeOK, NEW c \in LabelCalls, NEW p, NEW w, NEW g, Steps(c, p, w, g)
    PROVE  /\ call'[c] = [at |-> p, want |-> w, got |-> g]
           /\ call'[c].at = p /\ call'[c].want = w /\ call'[c].got = g
           /\ \A d \in LabelCalls : d # c => call'[d] = call[d]
BY DEF Steps, LabelsTypeOK

\* It keeps the records typed.
LEMMA StepsTyped ==
    ASSUME LabelsTypeOK, NEW c \in LabelCalls, NEW p \in Places,
           NEW w \in SUBSET AllLabels, NEW g \in SUBSET AllLabels, Steps(c, p, w, g)
    PROVE  call' \in [LabelCalls -> [at : Places, want : SUBSET AllLabels, got : SUBSET AllLabels]]
BY DEF Steps, LabelsTypeOK, Places, Asking

\* What a call is shown never shrinks; one that is under way is shown the issue.
LEMMA ShownGrows ==
    ASSUME RememberLabels, NEW c \in LabelCalls, LabelsTypeOK
    PROVE  /\ shown[c] \subseteq shown'[c]
           /\ call[c].at \notin Over /\ call'[c].at # "new" => onIssue' \subseteq shown'[c]
           /\ call[c].at \notin Over /\ call'[c].at # "new" => shown'[c] = shown[c] \cup onIssue'
<1>1. shown'[c] = IF call'[c].at = "new" \/ call[c].at \in Over THEN shown[c] ELSE shown[c] \cup onIssue'
  BY DEF RememberLabels
<1> QED BY <1>1

\* A call that does not move stays honest.
LEMMA OthersStay ==
    ASSUME LabelsTypeOK, RememberLabels, NEW c \in LabelCalls, Honest(c), call'[c] = call[c]
    PROVE  Honest(c)'
<1>1. shown[c] \subseteq shown'[c] /\ (call[c].at \in Asking => onIssue' \subseteq shown'[c])
  BY ShownGrows DEF Asking, Over
<1>2. call[c].at = "ok" => Proven(c)'
  BY <1>1 DEF Honest, Proven
<1>3. call[c].at # "ok" => Proven(c)'
  BY DEF Proven
<1> QED BY <1>1, <1>2, <1>3 DEF Honest

(***************************************************************************)
(* What one step of a call does to the invariant.                          *)
(***************************************************************************)
\* The call that moves is honest afterwards, and the rest is of its type.
LEMMA StepKeeps ==
    ASSUME LabelsInv, RememberLabels, NEW c \in LabelCalls,
           NEW p \in Places, NEW w \in SUBSET AllLabels, NEW g \in SUBSET AllLabels, Steps(c, p, w, g),
           filed' \in BOOLEAN, defined' \subseteq AllLabels, onIssue' \subseteq AllLabels,
           drops' \in 0..MaxDrops, relabels' \in 0..MaxRelabels,
           Honest(c)'
    PROVE  LabelsInv'
<1>1. LabelsTypeOK'
  BY StepsTyped DEF LabelsInv, LabelsTypeOK, Places, Asking
<1>2. ASSUME NEW d \in LabelCalls PROVE Honest(d)'
  <2>1. CASE d = c BY <2>1
  <2>2. CASE d # c
    <3>1. call'[d] = call[d] BY <2>2, StepsWrite DEF LabelsInv
    <3> QED BY <3>1, OthersStay DEF LabelsInv
  <2> QED BY <2>1, <2>2
<1> QED BY <1>1, <1>2 DEF LabelsInv

\* A call may fail at any time.
LEMMA GivesUp ==
    ASSUME LabelsInv, RememberLabels, NEW c \in LabelCalls, Goes(c, "failed"),
           filed' \in BOOLEAN, defined' \subseteq AllLabels, onIssue' \subseteq AllLabels,
           drops' \in 0..MaxDrops, relabels' \in 0..MaxRelabels
    PROVE  LabelsInv'
<1>1. Steps(c, "failed", {}, {}) BY DEF Goes, Over
<1>2. call'[c].at = "failed" BY <1>1, StepsWrite DEF LabelsInv
<1>3. Honest(c)' BY <1>2 DEF Honest, Proven, Asking
<1>4. "failed" \in Places BY DEF Places, Over
<1> QED BY <1>1, <1>3, <1>4, StepKeeps

\* It goes on with what it asks for, and verifies only what the issue has had.
LEMMA GoesOn ==
    ASSUME LabelsInv, RememberLabels, NEW c \in LabelCalls, call[c].at \in Asking,
           NEW p \in Asking \ {"current"}, NEW g \in SUBSET AllLabels, Steps(c, p, call[c].want, g),
           p = "verify" => g \subseteq shown'[c],
           filed' \in BOOLEAN, defined' \subseteq AllLabels, onIssue' \subseteq AllLabels,
           drops' \in 0..MaxDrops, relabels' \in 0..MaxRelabels
    PROVE  LabelsInv'
<1>1. /\ call'[c].at = p /\ call'[c].want = call[c].want /\ call'[c].got = g
  BY StepsWrite DEF LabelsInv
<1>2. shown[c] \subseteq shown'[c] /\ onIssue' \subseteq shown'[c]
  BY <1>1, ShownGrows DEF LabelsInv, Asking, Over
<1>3. Named[c] \subseteq (call[c].want \cup shown[c]) BY DEF LabelsInv, Honest
<1>4. Named[c] \subseteq (call'[c].want \cup shown'[c]) BY <1>1, <1>2, <1>3
<1>5. p # "current" /\ p # "create" /\ p # "ok" BY DEF Asking
<1>6. Honest(c)' BY <1>1, <1>2, <1>4, <1>5 DEF Honest, Proven
<1>7. p \in Places BY DEF Places
<1>8. call[c].want \in SUBSET AllLabels BY DEF LabelsInv, LabelsTypeOK
<1> QED BY <1>6, <1>7, <1>8, StepKeeps

\* It succeeds when all that it still asks for has been on the issue.
LEMMA Succeeds ==
    ASSUME LabelsInv, RememberLabels, NEW c \in LabelCalls, call[c].at \in Asking, Goes(c, "ok"),
           call[c].want \subseteq shown'[c],
           filed' \in BOOLEAN, defined' \subseteq AllLabels, onIssue' \subseteq AllLabels,
           drops' \in 0..MaxDrops, relabels' \in 0..MaxRelabels
    PROVE  LabelsInv'
<1>1. Steps(c, "ok", {}, {}) BY DEF Goes, Over
<1>2. call'[c].at = "ok" BY <1>1, StepsWrite DEF LabelsInv
<1>3. shown[c] \subseteq shown'[c] BY ShownGrows DEF LabelsInv
<1>4. Named[c] \subseteq (call[c].want \cup shown[c]) BY DEF LabelsInv, Honest
<1>5. Named[c] \subseteq shown'[c] BY <1>3, <1>4
<1>6. c = Filer => Named[c] \cap shown'[c] # {} BY <1>5, NamedLabels
<1>7. Proven(c)' BY <1>5, <1>6 DEF Proven
<1>8. Honest(c)' BY <1>2, <1>7 DEF Honest, Asking
<1>9. "ok" \in Places BY DEF Places, Over
<1> QED BY <1>1, <1>8, <1>9, StepKeeps

(***************************************************************************)
(* The requests to the forge.                                              *)
(***************************************************************************)
\* The forge fails within its bound.
LEMMA FailsBounded ==
    ASSUME drops \in 0..MaxDrops, Fails
    PROVE  drops' \in 0..MaxDrops
BY LabelAssumptions DEF Fails

\* Reading the labels: what is heard is on the issue.
LEMMA Reads ==
    ASSUME LabelsInv, RememberLabels, NEW c \in LabelCalls, call[c].at \in Asking,
           NEW p \in (Asking \ {"current"}), GetIssueLabels(c, p, "failed")
    PROVE  LabelsInv'
<1>1. /\ filed' \in BOOLEAN /\ defined' \subseteq AllLabels /\ onIssue' \subseteq AllLabels
      /\ relabels' \in 0..MaxRelabels /\ drops \in 0..MaxDrops /\ onIssue' = onIssue
  BY DEF GetIssueLabels, LabelsInv, LabelsTypeOK
<1>2. CASE Steps(c, p, call[c].want, onIssue) /\ UNCHANGED drops
  <2>1. call'[c].at = p BY <1>2, StepsWrite DEF LabelsInv, LabelsTypeOK
  <2>2. p # "new" /\ call[c].at \notin Over BY DEF Asking, Over
  <2>3. onIssue \subseteq shown'[c] BY <1>1, <2>1, <2>2, ShownGrows DEF LabelsInv
  <2>4. drops' \in 0..MaxDrops BY <1>1, <1>2
  <2> QED BY <1>1, <1>2, <2>3, <2>4, GoesOn
<1>3. CASE Fails /\ Goes(c, "failed")
  BY <1>1, <1>3, FailsBounded, GivesUp
<1>4. p \notin Over BY DEF Asking, Over
<1> QED BY <1>2, <1>3, <1>4 DEF GetIssueLabels

\* Attaching: known labels are put on the issue, and what is heard is on it.
LEMMA Attaches ==
    ASSUME LabelsInv, RememberLabels, NEW c \in LabelCalls, call[c].at \in Asking,
           NEW labels \in SUBSET AllLabels,
           NEW p \in (Asking \ {"current"}), NEW reread \in (Asking \ {"current", "verify"}),
           AttachIssueLabels(c, labels, p, reread)
    PROVE  LabelsInv'
<1>1. /\ filed' \in BOOLEAN /\ defined' \subseteq AllLabels
      /\ relabels' \in 0..MaxRelabels /\ drops \in 0..MaxDrops /\ onIssue \subseteq AllLabels
      /\ call[c].got \in SUBSET AllLabels
  BY DEF AttachIssueLabels, LabelsInv, LabelsTypeOK
<1>2. CASE Fails /\ Goes(c, "failed") /\ UNCHANGED onIssue
  BY <1>1, <1>2, FailsBounded, GivesUp
<1>3. ASSUME NEW applied \in SUBSET (labels \cap defined), onIssue' = Put(applied),
             \/ /\ IF onIssue' = {} THEN Goes(c, reread) ELSE Steps(c, p, call[c].want, onIssue')
                /\ IF applied = labels \cap defined THEN UNCHANGED drops ELSE Fails
             \/ Fails /\ Goes(c, reread)
             \/ Fails /\ Goes(c, "failed")
      PROVE  LabelsInv'
  <2>1. onIssue' \subseteq AllLabels BY <1>1, <1>3 DEF Put
  <2>2. drops' \in 0..MaxDrops BY <1>1, <1>3, FailsBounded
  <2>3. CASE Goes(c, reread)
    <3>1. reread \notin Over /\ reread # "verify" BY DEF Asking, Over
    <3>2. Steps(c, reread, call[c].want, call[c].got) BY <2>3, <3>1 DEF Goes
    <3> QED BY <1>1, <2>1, <2>2, <3>1, <3>2, GoesOn
  <2>4. CASE Goes(c, "failed")
    BY <1>1, <2>1, <2>2, <2>4, GivesUp
  <2>5. CASE Steps(c, p, call[c].want, onIssue')
    <3>1. call'[c].at = p BY <2>5, <2>1, StepsWrite DEF LabelsInv
    <3>2. p # "new" /\ call[c].at \notin Over BY DEF Asking, Over
    <3>3. onIssue' \subseteq shown'[c] BY <3>1, <3>2, ShownGrows DEF LabelsInv
    <3> QED BY <1>1, <2>1, <2>2, <2>5, <3>3, GoesOn
  <2> QED BY <1>3, <2>3, <2>4, <2>5
<1> QED BY <1>2, <1>3 DEF AttachIssueLabels

\* Resolving: the repository gets known labels, and their ids are what is heard.
LEMMA Resolves ==
    ASSUME LabelsInv, NEW c \in LabelCalls, NEW labels \in SUBSET AllLabels, NEW p,
           ResolveLabelIDs(c, labels, p)
    PROVE  /\ filed' \in BOOLEAN /\ defined' \subseteq AllLabels /\ onIssue' \subseteq AllLabels
           /\ relabels' \in 0..MaxRelabels /\ drops' \in 0..MaxDrops
           /\ \/ \E g \in SUBSET labels : Steps(c, p, call[c].want, g)
              \/ Goes(c, "failed")
<1>1. /\ filed' \in BOOLEAN /\ onIssue' \subseteq AllLabels /\ relabels' \in 0..MaxRelabels
      /\ drops \in 0..MaxDrops /\ defined \subseteq AllLabels
  BY DEF ResolveLabelIDs, LabelsInv, LabelsTypeOK
<1>2. CASE Fails /\ Goes(c, "failed") /\ UNCHANGED defined
  BY <1>1, <1>2, FailsBounded
<1>3. ASSUME NEW created \in SUBSET (labels \ defined), defined' = defined \cup created,
             Steps(c, p, call[c].want, (labels \cap defined) \cup created),
             IF created = labels \ defined THEN UNCHANGED drops ELSE Fails
      PROVE  /\ defined' \subseteq AllLabels /\ drops' \in 0..MaxDrops
             /\ \E g \in SUBSET labels : Steps(c, p, call[c].want, g)
  <2>1. defined' \subseteq AllLabels BY <1>1, <1>3
  <2>2. drops' \in 0..MaxDrops BY <1>1, <1>3, FailsBounded
  <2>3. (labels \cap defined) \cup created \in SUBSET labels OBVIOUS
  <2> QED BY <1>3, <2>1, <2>2, <2>3
<1> QED BY <1>1, <1>2, <1>3 DEF ResolveLabelIDs

(***************************************************************************)
(* The steps of AddIssueLabels.                                            *)
(***************************************************************************)
LEMMA LabelStepKeeps ==
    ASSUME LabelsInv, RememberLabels, NEW c \in LabelCalls, LabelStep(c)
    PROVE  LabelsInv'
<1> DEFINE Rest == /\ filed' \in BOOLEAN /\ defined' \subseteq AllLabels /\ onIssue' \subseteq AllLabels
                   /\ relabels' \in 0..MaxRelabels
<1>1. /\ call[c].want \in SUBSET AllLabels /\ call[c].got \in SUBSET AllLabels
      /\ Named[c] \in SUBSET AllLabels /\ drops \in 0..MaxDrops
  BY NamedLabels DEF LabelsInv, LabelsTypeOK
<1>2. UNCHANGED <<filed, defined, onIssue, relabels>> => Rest
  BY DEF LabelsInv, LabelsTypeOK
<1>3. CASE StartLabels(c)
  <2>1. Steps(c, "filter", Named[c], {}) /\ call[c].at = "new" /\ Rest /\ drops' \in 0..MaxDrops
    BY <1>1, <1>2, <1>3 DEF StartLabels
  <2>2. call'[c].at = "filter" /\ call'[c].want = Named[c] BY <2>1, StepsWrite DEF LabelsInv
  <2>3. onIssue' \subseteq shown'[c] BY <2>1, <2>2, ShownGrows DEF LabelsInv, Over
  <2>4. Honest(c)' BY <2>2, <2>3 DEF Honest, Proven
  <2>5. "filter" \in Places BY DEF Places, Asking
  <2> QED BY <1>1, <2>1, <2>4, <2>5, StepKeeps
<1>4. CASE FilterLabelsNotOnIssue(c)
  <2>1. call[c].at = "filter" /\ call[c].at \in Asking /\ Rest
    BY <1>2, <1>4 DEF FilterLabelsNotOnIssue, Asking
  <2>2. CASE Fails /\ Goes(c, "attach")
    <3>1. Steps(c, "attach", call[c].want, call[c].got) BY <2>2 DEF Goes, Over
    <3>2. "attach" \in Asking \ {"current"} BY DEF Asking
    <3>3. drops' \in 0..MaxDrops BY <1>1, <2>2, FailsBounded
    <3> QED BY <1>1, <2>1, <3>1, <3>2, <3>3, GoesOn
  <2>3. ASSUME NEW p \in {"current", "attach"}, NEW left, left = call[c].want \ onIssue,
               p = (IF left = {} THEN "current" ELSE "attach"), Steps(c, p, left, {}), UNCHANGED drops
        PROVE  LabelsInv'
    <3>0. LabelsTypeOK /\ Steps(c, p, left, {}) BY <2>3 DEF LabelsInv
    <3>1. call'[c].at = p /\ call'[c].want = left BY <3>0, StepsWrite
    <3>2. /\ shown[c] \subseteq shown'[c] /\ onIssue' \subseteq shown'[c]
      BY <2>1, <3>1, ShownGrows DEF LabelsInv, Over
    <3>3. onIssue' = onIssue BY <1>4 DEF FilterLabelsNotOnIssue
    <3>4. Named[c] \subseteq (call[c].want \cup shown[c]) BY <2>1 DEF LabelsInv, Honest
    <3>5. Named[c] \subseteq (left \cup shown'[c]) BY <2>3, <3>2, <3>3, <3>4
    <3>6. p = "current" => left = {} BY <2>3
    <3>7. Honest(c)' BY <3>1, <3>2, <3>5, <3>6 DEF Honest, Proven
    <3>8. p \in Places /\ left \in SUBSET AllLabels /\ drops' \in 0..MaxDrops
      BY <1>1, <2>3 DEF Places, Asking
    <3> QED BY <2>1, <2>3, <3>7, <3>8, StepKeeps
  <2> QED BY <1>4, <2>2, <2>3 DEF FilterLabelsNotOnIssue
<1>5. CASE Current(c)
  <2>1. call[c].at = "current" /\ call[c].at \in Asking /\ Rest
    BY <1>2, <1>5 DEF Current, GetIssueLabels, Asking
  <2>2. CASE Fails /\ Goes(c, "failed") BY <1>1, <2>1, <2>2, FailsBounded, GivesUp
  <2>3. CASE Goes(c, "ok") /\ UNCHANGED drops
    <3>1. call[c].want \subseteq shown'[c] BY <2>1 DEF LabelsInv, Honest
    <3>2. drops' \in 0..MaxDrops BY <1>1, <2>3
    <3> QED BY <2>1, <2>3, <3>1, <3>2, Succeeds
  <2>4. "ok" \in Over BY DEF Over
  <2> QED BY <1>5, <2>2, <2>3, <2>4 DEF Current, GetIssueLabels
<1>6. CASE Attach(c)
  <2>1. call[c].at \in Asking /\ AttachIssueLabels(c, call[c].want, "verify", "reread")
    BY <1>6 DEF Attach, Asking
  <2>2. "verify" \in Asking \ {"current"} /\ "reread" \in Asking \ {"current", "verify"} BY DEF Asking
  <2> QED BY <1>1, <2>1, <2>2, Attaches
<1>7. CASE Reread(c)
  <2>1. call[c].at \in Asking /\ GetIssueLabels(c, "verify", "failed") BY <1>7 DEF Reread, Asking
  <2>2. "verify" \in Asking \ {"current"} BY DEF Asking
  <2> QED BY <2>1, <2>2, Reads
<1>8. CASE VerifyRequestedLabels(c)
  <2>1. /\ call[c].at = "verify" /\ call[c].at \in Asking /\ Rest /\ drops' \in 0..MaxDrops
    BY <1>1, <1>2, <1>8 DEF VerifyRequestedLabels, Asking
  <2>2. CASE call[c].want \subseteq call[c].got
    <3>1. Goes(c, "ok") BY <1>8, <2>2 DEF VerifyRequestedLabels
    <3>2. call[c].want \subseteq shown'[c] BY <2>1, <2>2, ShownGrows DEF LabelsInv, Honest
    <3> QED BY <2>1, <3>1, <3>2, Succeeds
  <2>3. CASE ~(call[c].want \subseteq call[c].got)
    <3>1. Goes(c, "resolve") BY <1>8, <2>3 DEF VerifyRequestedLabels
    <3>2. Steps(c, "resolve", call[c].want, call[c].got) BY <3>1 DEF Goes, Over
    <3>3. "resolve" \in Asking \ {"current"} BY DEF Asking
    <3> QED BY <1>1, <2>1, <3>2, <3>3, GoesOn
  <2> QED BY <2>2, <2>3
<1>9. CASE Ensure(c)
  <2>1. /\ call[c].at \in Asking /\ ResolveLabelIDs(c, call[c].want \ call[c].got, "retry")
        /\ call[c].want \ call[c].got \in SUBSET AllLabels
    BY <1>1, <1>9 DEF Ensure, Asking
  <2>2. /\ Rest /\ drops' \in 0..MaxDrops
        /\ \/ \E g \in SUBSET (call[c].want \ call[c].got) : Steps(c, "retry", call[c].want, g)
           \/ Goes(c, "failed")
    BY <2>1, Resolves
  <2>3. CASE Goes(c, "failed") BY <2>2, <2>3, GivesUp
  <2>4. ASSUME NEW g \in SUBSET (call[c].want \ call[c].got), Steps(c, "retry", call[c].want, g)
        PROVE  LabelsInv'
    <3>1. g \in SUBSET AllLabels /\ "retry" \in Asking \ {"current"} BY <2>1, <2>4 DEF Asking
    <3> QED BY <2>1, <2>2, <2>4, <3>1, GoesOn
  <2> QED BY <2>2, <2>3, <2>4
<1>10. CASE Retry(c)
  <2>1. call[c].at \in Asking BY <1>10 DEF Retry, Asking
  <2>2. CASE call[c].got = {}
    <3>1. /\ Goes(c, "final") /\ Rest /\ drops' \in 0..MaxDrops
      BY <1>1, <1>2, <1>10, <2>2 DEF Retry
    <3>2. Steps(c, "final", call[c].want, call[c].got) BY <3>1 DEF Goes, Over
    <3>3. "final" \in Asking \ {"current"} BY DEF Asking
    <3> QED BY <1>1, <2>1, <3>1, <3>2, <3>3, GoesOn
  <2>3. CASE call[c].got # {}
    <3>1. AttachIssueLabels(c, call[c].got, "final", "retried") BY <1>10, <2>3 DEF Retry
    <3>2. "final" \in Asking \ {"current"} /\ "retried" \in Asking \ {"current", "verify"} BY DEF Asking
    <3> QED BY <1>1, <2>1, <3>1, <3>2, Attaches
  <2> QED BY <2>2, <2>3
<1>11. CASE Retried(c)
  <2>1. call[c].at \in Asking /\ GetIssueLabels(c, "final", "failed") BY <1>11 DEF Retried, Asking
  <2>2. "final" \in Asking \ {"current"} BY DEF Asking
  <2> QED BY <2>1, <2>2, Reads
<1>12. CASE FinalCheck(c)
  <2>1. call[c].at = "final" /\ call[c].at \in Asking /\ Rest /\ onIssue' = onIssue
    BY <1>2, <1>12 DEF FinalCheck, Asking
  <2>2. CASE Fails /\ Goes(c, "failed") BY <1>1, <2>1, <2>2, FailsBounded, GivesUp
  <2>3. CASE Goes(c, "failed") /\ UNCHANGED drops BY <1>1, <2>1, <2>3, GivesUp
  <2>4. CASE call[c].want \subseteq onIssue /\ Goes(c, "ok") /\ UNCHANGED drops
    <3>1. Steps(c, "ok", {}, {}) BY <2>4 DEF Goes, Over
    <3>2. call'[c].at = "ok" BY <3>1, StepsWrite DEF LabelsInv
    <3>3. onIssue' \subseteq shown'[c] BY <2>1, <3>2, ShownGrows DEF LabelsInv, Over
    <3>4. call[c].want \subseteq shown'[c] /\ drops' \in 0..MaxDrops BY <1>1, <2>1, <2>4, <3>3
    <3> QED BY <2>1, <2>4, <3>4, Succeeds
  <2> QED BY <1>12, <2>2, <2>3, <2>4 DEF FinalCheck
<1> QED BY <1>3, <1>4, <1>5, <1>6, <1>7, <1>8, <1>9, <1>10, <1>11, <1>12 DEF LabelStep

(***************************************************************************)
(* CreateIssue, and people.                                                *)
(***************************************************************************)
LEMMA ResolveForIssueKeeps ==
    ASSUME LabelsInv, RememberLabels, ResolveForIssue
    PROVE  LabelsInv'
<1>1. Filer \in LabelCalls /\ Named[Filer] = FiledWith /\ FiledWith \in SUBSET AllLabels
  BY NamedLabels
<1>2. /\ filed' \in BOOLEAN /\ defined' \subseteq AllLabels /\ onIssue' \subseteq AllLabels
      /\ relabels' \in 0..MaxRelabels /\ drops' \in 0..MaxDrops
      /\ \/ \E g \in SUBSET FiledWith : Steps(Filer, "create", call[Filer].want, g)
         \/ Goes(Filer, "failed")
  BY <1>1, Resolves DEF ResolveForIssue
<1>3. CASE Goes(Filer, "failed") BY <1>1, <1>2, <1>3, GivesUp
<1>4. ASSUME NEW g \in SUBSET FiledWith, Steps(Filer, "create", call[Filer].want, g)
      PROVE  LabelsInv'
  <2>1. call'[Filer].at = "create" /\ call'[Filer].got = g BY <1>1, <1>4, StepsWrite DEF LabelsInv
  <2>2. Honest(Filer)' BY <1>1, <2>1 DEF Honest, Proven, Asking
  <2>3. "create" \in Places /\ g \in SUBSET AllLabels /\ call[Filer].want \in SUBSET AllLabels
    BY <1>1 DEF Places, LabelsInv, LabelsTypeOK
  <2> QED BY <1>1, <1>2, <1>4, <2>2, <2>3, StepKeeps
<1> QED BY <1>2, <1>3, <1>4

LEMMA CreateWithLabelsKeeps ==
    ASSUME LabelsInv, RememberLabels, CreateWithLabels
    PROVE  LabelsInv'
<1>1. /\ Filer \in LabelCalls /\ Named[Filer] = FiledWith /\ FiledWith \in SUBSET AllLabels
      /\ call[Filer].got \in SUBSET AllLabels /\ drops \in 0..MaxDrops
  BY NamedLabels DEF LabelsInv, LabelsTypeOK
<1>2. /\ call[Filer].at = "create" /\ call[Filer].got \subseteq Named[Filer]
  BY <1>1 DEF CreateWithLabels, LabelsInv, Honest
<1>3. /\ filed' \in BOOLEAN /\ defined' \subseteq AllLabels /\ relabels' \in 0..MaxRelabels
      /\ onIssue' \subseteq AllLabels
  BY <1>1 DEF CreateWithLabels, LabelsInv, LabelsTypeOK
<1>4. CASE Fails /\ Goes(Filer, "failed")
  BY <1>1, <1>3, <1>4, FailsBounded, GivesUp
<1>5. CASE onIssue' = call[Filer].got /\ UNCHANGED drops /\ call[Filer].got # {} /\ Goes(Filer, "ok")
  <2>1. Steps(Filer, "ok", {}, {}) BY <1>5 DEF Goes, Over
  <2>2. call'[Filer].at = "ok" BY <1>1, <2>1, StepsWrite DEF LabelsInv
  <2>3. onIssue' \subseteq shown'[Filer] BY <1>1, <1>2, <2>2, ShownGrows DEF LabelsInv, Over
  <2>4. Named[Filer] \cap shown'[Filer] # {} BY <1>2, <1>5, <2>3
  <2>5. Honest(Filer)' BY <2>2, <2>4 DEF Honest, Proven, Asking
  <2>6. "ok" \in Places /\ drops' \in 0..MaxDrops BY <1>1, <1>5 DEF Places, Over
  <2> QED BY <1>1, <1>3, <2>1, <2>5, <2>6, StepKeeps
<1>6. CASE UNCHANGED drops /\ Steps(Filer, "filter", FiledWith, {})
  <2>0. LabelsTypeOK /\ Filer \in LabelCalls /\ Steps(Filer, "filter", FiledWith, {})
    BY <1>1, <1>6 DEF LabelsInv
  <2>1. call'[Filer].at = "filter" /\ call'[Filer].want = FiledWith BY <2>0, StepsWrite
  <2>2. onIssue' \subseteq shown'[Filer] BY <1>1, <1>2, <2>1, ShownGrows DEF LabelsInv, Over
  <2>3. Honest(Filer)' BY <1>1, <2>1, <2>2 DEF Honest, Proven
  <2>4. "filter" \in Places /\ drops' \in 0..MaxDrops BY <1>1, <1>6 DEF Places, Asking
  <2> QED BY <1>1, <1>3, <1>6, <2>3, <2>4, StepKeeps
<1> QED BY <1>4, <1>5, <1>6 DEF CreateWithLabels

LEMMA RelabelKeeps ==
    ASSUME LabelsInv, RememberLabels, Relabel
    PROVE  LabelsInv'
<1>1. onIssue' \subseteq AllLabels /\ UNCHANGED <<filed, defined, call, drops>>
  BY DEF Relabel, Put, LabelsInv, LabelsTypeOK
<1>2. relabels' \in 0..MaxRelabels
  BY LabelAssumptions DEF Relabel, LabelsInv, LabelsTypeOK
<1>3. LabelsTypeOK' BY <1>1, <1>2 DEF LabelsInv, LabelsTypeOK
<1>4. ASSUME NEW c \in LabelCalls PROVE Honest(c)'
  BY <1>1, OthersStay DEF LabelsInv
<1> QED BY <1>3, <1>4 DEF LabelsInv

(***************************************************************************)
(* The theorems.                                                           *)
(***************************************************************************)
LEMMA LabelsInvInit == LabelsInit => LabelsInv
<1> SUFFICES ASSUME LabelsInit PROVE LabelsInv OBVIOUS
<1>1. LabelsTypeOK
  <2>1. call \in [LabelCalls -> [at : Places, want : SUBSET AllLabels, got : SUBSET AllLabels]]
    BY DEF LabelsInit, Rests, Places
  <2>2. drops \in 0..MaxDrops /\ relabels \in 0..MaxRelabels BY LabelAssumptions DEF LabelsInit
  <2>3. filed \in BOOLEAN /\ defined \subseteq AllLabels /\ onIssue \subseteq AllLabels
    BY DEF LabelsInit
  <2> QED BY <2>1, <2>2, <2>3 DEF LabelsTypeOK, Places, Asking
<1>2. ASSUME NEW c \in LabelCalls PROVE Honest(c)
  <2>1. call[c].at = "new" BY DEF LabelsInit, Rests
  <2> QED BY <2>1 DEF Honest, Proven, Asking
<1> QED BY <1>1, <1>2 DEF LabelsInv

LEMMA LabelsInvNext == LabelsInv /\ [LabelsNext]_labelVars => LabelsInv'
<1> SUFFICES ASSUME LabelsInv, [LabelsNext]_labelVars PROVE LabelsInv' OBVIOUS
<1>1. ASSUME NEW c \in LabelCalls, LabelStep(c), RememberLabels PROVE LabelsInv'
  BY <1>1, LabelStepKeeps
<1>2. CASE ResolveForIssue /\ RememberLabels BY <1>2, ResolveForIssueKeeps
<1>3. CASE CreateWithLabels /\ RememberLabels BY <1>3, CreateWithLabelsKeeps
<1>4. CASE Relabel /\ RememberLabels BY <1>4, RelabelKeeps
<1>5. CASE UNCHANGED labelVars
  BY <1>5 DEF labelVars, LabelsInv, LabelsTypeOK, Honest, Proven
<1> QED BY <1>1, <1>2, <1>3, <1>4, <1>5 DEF LabelsNext

(* The calls, the labels and the counters keep to their ranges.            *)
THEOREM LabelsTypeCorrect == LabelsSpec => []LabelsTypeOK
<1>1. LabelsInv => LabelsTypeOK BY DEF LabelsInv
<1> QED BY <1>1, LabelsInvInit, LabelsInvNext, PTL DEF LabelsSpec

(* A call that reports success has seen all its labels on the issue, and an *)
(* issue that was created with success was given one (AddIssueLabels of     *)
(* gitea/issue_labels.go, CreateIssue of issues/forge_client.go).           *)
THEOREM LabelsProven == LabelsSpec => []LabelsAreProven
<1>1. LabelsInv => LabelsAreProven BY DEF LabelsInv, Honest, Proven, LabelsAreProven
<1> QED BY <1>1, LabelsInvInit, LabelsInvNext, PTL DEF LabelsSpec

------------------------------------------------------------------------------

(***************************************************************************)
(* The promises of the tools cache, for any number of callers, of          *)
(* configurations and of saves.                                            *)
(***************************************************************************)

CallerPlaces == {"idle", "look", "start", "wait", "recheck", "probe", "answered"}
RefresherPlaces == {"idle", "wait", "recheck", "probe", "flag"}
Within == {"recheck", "probe"}

(***************************************************************************)
(* The invariant: who is between Lock and Unlock of toolsInflight is the   *)
(* one that holds it; the cache holds the answer of its key; an answer is  *)
(* carried only for the key it is of; nobody comes to probe a key that is  *)
(* fresh; and the flag stands for the goroutine.                           *)
(***************************************************************************)
Kept(c) ==
    /\ ask[c].at \in (IF c = Refresher THEN RefresherPlaces ELSE CallerPlaces)
    /\ ask[c].at # "idle" => ask[c].key \in Switches
    /\ ask[c].at \in Within <=> inflight = c
    /\ ask[c].at \in {"start", "answered"} => ask[c].out = ask[c].key
    /\ ask[c].at = "probe" => ~IsFresh(ask[c].key)

ToolsInv ==
    /\ ToolsTypeOK
    /\ cache.out = cache.key
    /\ refreshing <=> ask[Refresher].at # "idle"
    /\ \A c \in Askers : Kept(c)

(***************************************************************************)
(* Lemmas.                                                                 *)
(***************************************************************************)
\* One asker moves, and the others stay where they are.
LEMMA OneMoves ==
    ASSUME ToolsTypeOK, NEW c \in Askers, NEW p, NEW out, Moves(c, p, out)
    PROVE  /\ ask'[c] = [at |-> p, key |-> ask[c].key, out |-> out]
           /\ ask'[c].at = p /\ ask'[c].key = ask[c].key /\ ask'[c].out = out
           /\ \A d \in Askers : d # c => ask'[d] = ask[d]
BY DEF Moves, ToolsTypeOK

\* It keeps the records of the askers typed.
LEMMA MovesTyped ==
    ASSUME ToolsTypeOK, NEW c \in Askers, NEW p \in CallerPlaces \cup RefresherPlaces,
           NEW out \in Switches \cup {NoSwitches}, Moves(c, p, out)
    PROVE  ask' \in [Askers -> [at : {"idle", "look", "start", "wait", "recheck", "probe", "flag", "answered"},
                                key : Switches \cup {NoSwitches}, out : Switches \cup {NoSwitches}]]
BY DEF Moves, ToolsTypeOK, CallerPlaces, RefresherPlaces

\* What the cache is of is a configuration or nothing.
LEMMA CacheTyped ==
    ASSUME ToolsTypeOK
    PROVE  /\ cache.key \in Switches \cup {NoSwitches} /\ cache.out \in Switches \cup {NoSwitches}
           /\ cache.age \in {"fresh", "stale", "none"}
           /\ cache.age \in {"fresh", "stale"} => cache.key \in Switches
BY DEF ToolsTypeOK, Cleared

\* Who stays where it is keeps its part of the invariant, while the lock is not
\* given to it or taken from it and nothing becomes fresh that was not.
LEMMA StaysKept ==
    ASSUME NEW d \in Askers, Kept(d), ask'[d] = ask[d],
           inflight' = d <=> inflight = d,
           ask[d].at = "probe" => (IsFresh(ask[d].key)' => IsFresh(ask[d].key))
    PROVE  Kept(d)'
<1>1. ask[d].at = "probe" => ~IsFresh(ask[d].key)' BY DEF Kept
<1> QED BY <1>1 DEF Kept

\* The step of an asker that leaves the cache alone.
LEMMA AskerKeeps ==
    ASSUME ToolsInv, NEW c \in Askers, NEW p \in CallerPlaces \cup RefresherPlaces,
           NEW out \in Switches \cup {NoSwitches}, Moves(c, p, out),
           UNCHANGED <<switches, cache, refreshing, saving, saves>>,
           inflight' \in Askers \cup {NoCaller},
           \A d \in Askers : d # c => (inflight' = d <=> inflight = d),
           ask[c].at # "idle", p # "idle",
           Kept(c)'
    PROVE  ToolsInv'
<1>1. ToolsTypeOK' BY MovesTyped DEF ToolsInv, ToolsTypeOK, Cleared
<1>2. ASSUME NEW d \in Askers PROVE Kept(d)'
  <2>1. CASE d = c BY <2>1
  <2>2. CASE d # c
    <3>1. ask'[d] = ask[d] /\ Kept(d) BY <2>2, OneMoves DEF ToolsInv
    <3>2. IsFresh(ask[d].key)' => IsFresh(ask[d].key) BY <3>1 DEF IsFresh
    <3> QED BY <2>2, <3>1, <3>2, StaysKept
  <2> QED BY <2>1, <2>2
<1>3. ask'[Refresher].at # "idle" <=> ask[Refresher].at # "idle"
  <2>1. CASE c = Refresher BY <2>1, OneMoves DEF ToolsInv
  <2>2. CASE c # Refresher BY <2>2, OneMoves DEF ToolsInv, Askers
  <2> QED BY <2>1, <2>2
<1>4. cache'.out = cache'.key BY DEF ToolsInv
<1>5. refreshing' <=> refreshing OBVIOUS
<1>6. (refreshing <=> ask[Refresher].at # "idle")' BY <1>3, <1>5 DEF ToolsInv
<1> QED BY <1>1, <1>2, <1>4, <1>6 DEF ToolsInv

(***************************************************************************)
(* The steps of CheckTools and refreshTools.                               *)
(***************************************************************************)
LEMMA AskerStepKeeps ==
    ASSUME ToolsInv, NEW c \in Askers, AskerStep(c)
    PROVE  ToolsInv'
<1>1. /\ ToolsTypeOK /\ Kept(c) /\ cache.out = cache.key
      /\ ask[c].key \in Switches \cup {NoSwitches} /\ ask[c].out \in Switches \cup {NoSwitches}
      /\ cache.out \in Switches \cup {NoSwitches}
      /\ NoCaller \notin Askers /\ Refresher \notin Callers
  BY CacheTyped, ToolsAssumptions DEF ToolsInv, ToolsTypeOK, Askers
<1>2. CASE LookUp(c)
  <2>1. /\ ask[c].at = "look" /\ c # Refresher /\ inflight # c /\ ask[c].key \in Switches
        /\ UNCHANGED <<switches, cache, inflight, refreshing, saving, saves>>
    BY <1>1, <1>2 DEF LookUp, Kept, RefresherPlaces, Within
  <2>2. ASSUME NEW p \in {"answered", "start"}, Moves(c, p, cache.out), cache.key = ask[c].key
        PROVE  ToolsInv'
    <3>1. ask'[c].at = p /\ ask'[c].key = ask[c].key /\ ask'[c].out = cache.out
      BY <1>1, <2>2, OneMoves
    <3>2. Kept(c)' BY <1>1, <2>1, <2>2, <3>1 DEF Kept, CallerPlaces, Within
    <3>3. p \in CallerPlaces \cup RefresherPlaces /\ p # "idle" BY DEF CallerPlaces
    <3>4. inflight' \in Askers \cup {NoCaller} BY <1>1, <2>1 DEF ToolsTypeOK
    <3> QED BY <1>1, <2>1, <2>2, <3>2, <3>3, <3>4, AskerKeeps
  <2>3. ASSUME Moves(c, "wait", NoSwitches) PROVE ToolsInv'
    <3>1. ask'[c].at = "wait" /\ ask'[c].key = ask[c].key BY <1>1, <2>3, OneMoves
    <3>2. Kept(c)' BY <2>1, <3>1 DEF Kept, CallerPlaces, Within
    <3>3. "wait" \in CallerPlaces \cup RefresherPlaces BY DEF CallerPlaces
    <3>4. inflight' \in Askers \cup {NoCaller} BY <1>1, <2>1 DEF ToolsTypeOK
    <3> QED BY <2>1, <2>3, <3>2, <3>3, <3>4, AskerKeeps
  <2> QED BY <1>2, <2>2, <2>3 DEF LookUp, Cached, Answered
<1>3. CASE StartToolsRefresh(c)
  <2>1. /\ ask[c].at = "start" /\ c # Refresher /\ inflight # c /\ ask[c].key \in Switches
        /\ ask[c].out = ask[c].key
        /\ UNCHANGED <<switches, cache, inflight, saving, saves>>
    BY <1>1, <1>3 DEF StartToolsRefresh, Kept, RefresherPlaces, Within
  <2>2. CASE refreshing
    <3>1. Moves(c, "answered", ask[c].out) /\ UNCHANGED refreshing
      BY <1>3, <2>2 DEF StartToolsRefresh, Answered
    <3>2. ask'[c].at = "answered" /\ ask'[c].key = ask[c].key /\ ask'[c].out = ask[c].out
      BY <1>1, <3>1, OneMoves
    <3>3. Kept(c)' BY <2>1, <3>2 DEF Kept, CallerPlaces, Within
    <3>4. "answered" \in CallerPlaces \cup RefresherPlaces BY DEF CallerPlaces
    <3>5. inflight' \in Askers \cup {NoCaller} BY <1>1, <2>1 DEF ToolsTypeOK
    <3> QED BY <1>1, <2>1, <3>1, <3>3, <3>4, <3>5, AskerKeeps
  <2>3. CASE ~refreshing
    <3>1. /\ refreshing' = TRUE
          /\ ask' = [ask EXCEPT ![c] = [at |-> "answered", key |-> ask[c].key, out |-> ask[c].out],
                                ![Refresher] = Asks("wait", ask[c].key)]
      BY <1>3, <2>3 DEF StartToolsRefresh
    <3>2. Refresher \in Askers BY DEF Askers
    <3>3. /\ ask'[c] = [at |-> "answered", key |-> ask[c].key, out |-> ask[c].out]
          /\ ask'[Refresher] = [at |-> "wait", key |-> ask[c].key, out |-> NoSwitches]
          /\ \A d \in Askers \ {c, Refresher} : ask'[d] = ask[d]
      BY <1>1, <2>1, <3>1, <3>2 DEF ToolsTypeOK, Asks
    <3>4. ToolsTypeOK'
      <4>1. ask' \in [Askers -> [at : {"idle", "look", "start", "wait", "recheck", "probe", "flag", "answered"},
                                 key : Switches \cup {NoSwitches}, out : Switches \cup {NoSwitches}]]
        BY <1>1, <3>1, <3>2 DEF ToolsTypeOK, Asks
      <4> QED BY <1>1, <2>1, <3>1, <4>1 DEF ToolsTypeOK, Cleared
    <3>5. Kept(c)' BY <2>1, <3>3 DEF Kept, CallerPlaces, Within
    <3>6. inflight # Refresher
      <4>1. ask[Refresher].at = "idle" /\ Kept(Refresher) BY <2>3, <3>2 DEF ToolsInv
      <4> QED BY <4>1 DEF Kept, Within
    <3>7. Kept(Refresher)' BY <2>1, <3>3, <3>6 DEF Kept, RefresherPlaces, Within
    <3>8. ASSUME NEW d \in Askers \ {c, Refresher} PROVE Kept(d)'
      <4>1. ask'[d] = ask[d] /\ Kept(d) BY <3>3 DEF ToolsInv
      <4>2. IsFresh(ask[d].key)' => IsFresh(ask[d].key) BY <2>1, <4>1 DEF IsFresh
      <4> QED BY <2>1, <4>1, <4>2, StaysKept
    <3>9. \A d \in Askers : Kept(d)' BY <3>5, <3>7, <3>8
    <3>10. refreshing' /\ ask'[Refresher].at # "idle" BY <3>1, <3>3
    <3>11. cache'.out = cache'.key BY <1>1, <2>1
    <3> QED BY <3>4, <3>9, <3>10, <3>11 DEF ToolsInv
  <2> QED BY <2>2, <2>3
<1>4. CASE TakeInflight(c)
  <2>1. /\ ask[c].at = "wait" /\ inflight = NoCaller /\ inflight' = c
        /\ Moves(c, "recheck", NoSwitches) /\ ask[c].key \in Switches
        /\ UNCHANGED <<switches, cache, refreshing, saving, saves>>
    BY <1>1, <1>4 DEF TakeInflight, Kept
  <2>2. ask'[c].at = "recheck" /\ ask'[c].key = ask[c].key BY <1>1, <2>1, OneMoves
  <2>3. Kept(c)' BY <2>1, <2>2 DEF Kept, CallerPlaces, RefresherPlaces, Within
  <2>4. "recheck" \in CallerPlaces \cup RefresherPlaces BY DEF CallerPlaces
  <2>5. \A d \in Askers : d # c => (inflight' = d <=> inflight = d) BY <1>1, <2>1
  <2> QED BY <2>1, <2>3, <2>4, <2>5, AskerKeeps
<1>5. CASE Recheck(c)
  <2>1. /\ ask[c].at = "recheck" /\ inflight = c /\ ask[c].key \in Switches
        /\ UNCHANGED <<switches, cache, refreshing, saving, saves>>
    BY <1>1, <1>5 DEF Recheck, Kept, Within
  <2>2. CASE IsFresh(ask[c].key)
    <3> DEFINE p == IF c = Refresher THEN "flag" ELSE "answered"
    <3>1. Moves(c, p, cache.out) /\ inflight' = NoCaller BY <1>5, <2>2 DEF Recheck, Done
    <3>2. ask'[c].at = p /\ ask'[c].key = ask[c].key /\ ask'[c].out = cache.out
      BY <1>1, <3>1, OneMoves
    <3>3. cache.out = ask[c].key BY <1>1, <2>2 DEF IsFresh
    <3>4. Kept(c)' BY <1>1, <2>1, <3>1, <3>2, <3>3 DEF Kept, CallerPlaces, RefresherPlaces, Within
    <3>5. p \in CallerPlaces \cup RefresherPlaces /\ p # "idle" BY DEF CallerPlaces, RefresherPlaces
    <3>6. \A d \in Askers : d # c => (inflight' = d <=> inflight = d) BY <1>1, <2>1, <3>1
    <3>7. inflight' \in Askers \cup {NoCaller} /\ ask[c].at # "idle" BY <2>1, <3>1
    <3> HIDE DEF p
    <3> QED BY <1>1, <2>1, <3>1, <3>4, <3>5, <3>6, <3>7, AskerKeeps
  <2>3. CASE ~IsFresh(ask[c].key)
    <3>1. Moves(c, "probe", NoSwitches) /\ inflight' = inflight BY <1>5, <2>3 DEF Recheck
    <3>2. ask'[c].at = "probe" /\ ask'[c].key = ask[c].key BY <1>1, <3>1, OneMoves
    <3>3. ~IsFresh(ask[c].key)' BY <2>1, <2>3, <3>2 DEF IsFresh
    <3>4. Kept(c)' BY <2>1, <3>1, <3>2, <3>3 DEF Kept, CallerPlaces, RefresherPlaces, Within
    <3>5. "probe" \in CallerPlaces \cup RefresherPlaces BY DEF CallerPlaces
    <3>6. inflight' \in Askers \cup {NoCaller} BY <1>1, <3>1 DEF ToolsTypeOK
    <3> QED BY <2>1, <3>1, <3>4, <3>5, <3>6, AskerKeeps
  <2> QED BY <2>2, <2>3
<1>6. CASE Probe(c)
  <2> DEFINE p == IF c = Refresher THEN "flag" ELSE "answered"
  <2>1. /\ ask[c].at = "probe" /\ inflight = c /\ ask[c].key \in Switches
        /\ Moves(c, p, ask[c].key) /\ inflight' = NoCaller
        /\ cache' = [key |-> ask[c].key, out |-> ask[c].key, age |-> "fresh"]
        /\ UNCHANGED <<switches, refreshing, saving, saves>>
    BY <1>1, <1>6 DEF Probe, Done, Kept, Within
  <2>2. /\ ask'[c].at = p /\ ask'[c].key = ask[c].key /\ ask'[c].out = ask[c].key
        /\ \A d \in Askers : d # c => ask'[d] = ask[d]
    BY <1>1, <2>1, OneMoves
  <2>3. p \in CallerPlaces \cup RefresherPlaces /\ p # "idle" BY DEF CallerPlaces, RefresherPlaces
  <2>4. Kept(c)' BY <1>1, <2>1, <2>2 DEF Kept, CallerPlaces, RefresherPlaces, Within
  <2>5. ASSUME NEW d \in Askers, d # c PROVE Kept(d)'
    <3>1. ask'[d] = ask[d] /\ Kept(d) BY <2>2, <2>5 DEF ToolsInv
    <3>2. inflight # d /\ inflight' # d BY <1>1, <2>1, <2>5
    <3>3. ask[d].at # "probe" BY <3>1, <3>2 DEF Kept, Within
    <3> QED BY <3>1, <3>2, <3>3, StaysKept
  <2>6. ToolsTypeOK'
    <3>1. cache' \in [key : Switches, out : Switches, age : {"fresh", "stale"}] BY <2>1
    <3> HIDE DEF p
    <3>2. ask' \in [Askers -> [at : {"idle", "look", "start", "wait", "recheck", "probe", "flag", "answered"},
                               key : Switches \cup {NoSwitches}, out : Switches \cup {NoSwitches}]]
      BY <1>1, <2>1, <2>3, MovesTyped
    <3> QED BY <1>1, <2>1, <3>1, <3>2 DEF ToolsTypeOK, Cleared
  <2>7. ask'[Refresher].at # "idle" <=> ask[Refresher].at # "idle"
    <3>1. CASE c = Refresher BY <2>1, <2>2, <2>3, <3>1
    <3>2. CASE c # Refresher BY <2>2, <3>2 DEF Askers
    <3> QED BY <3>1, <3>2
  <2>8. (refreshing <=> ask[Refresher].at # "idle")' BY <2>1, <2>7 DEF ToolsInv
  <2>9. cache'.out = cache'.key BY <2>1
  <2> QED BY <2>4, <2>5, <2>6, <2>8, <2>9 DEF ToolsInv
<1>7. CASE TakeAnswer(c)
  <2>1. /\ c # Refresher /\ inflight # c /\ ask' = [ask EXCEPT ![c] = AtRest]
        /\ UNCHANGED <<switches, cache, inflight, refreshing, saving, saves>>
    BY <1>1, <1>7 DEF TakeAnswer, Kept, Within
  <2>2. /\ ask'[c] = [at |-> "idle", key |-> NoSwitches, out |-> NoSwitches]
        /\ \A d \in Askers : d # c => ask'[d] = ask[d]
    BY <1>1, <2>1 DEF ToolsTypeOK, AtRest, Asks
  <2>3. ToolsTypeOK' BY <1>1, <2>1 DEF ToolsTypeOK, AtRest, Asks, Cleared
  <2>4. Kept(c)' BY <2>1, <2>2 DEF Kept, CallerPlaces, Within
  <2>5. ASSUME NEW d \in Askers, d # c PROVE Kept(d)'
    <3>1. ask'[d] = ask[d] /\ Kept(d) BY <2>2, <2>5 DEF ToolsInv
    <3>2. IsFresh(ask[d].key)' => IsFresh(ask[d].key) BY <2>1, <3>1 DEF IsFresh
    <3> QED BY <2>1, <3>1, <3>2, StaysKept
  <2>6. ask'[Refresher] = ask[Refresher] BY <2>1, <2>2 DEF Askers
  <2>7. (refreshing <=> ask[Refresher].at # "idle")' BY <2>1, <2>6 DEF ToolsInv
  <2>8. cache'.out = cache'.key BY <1>1, <2>1
  <2> QED BY <2>3, <2>4, <2>5, <2>7, <2>8 DEF ToolsInv
<1> QED BY <1>2, <1>3, <1>4, <1>5, <1>6, <1>7 DEF AskerStep

LEMMA CheckToolsKeeps ==
    ASSUME ToolsInv, NEW c \in Callers, CheckTools(c)
    PROVE  ToolsInv'
<1>1. /\ ToolsTypeOK /\ c \in Askers /\ Kept(c) /\ c # Refresher
      /\ ask[c].at = "idle" /\ ask' = [ask EXCEPT ![c] = Asks("look", switches)]
      /\ UNCHANGED <<switches, cache, inflight, refreshing, saving, saves>>
  BY ToolsAssumptions DEF ToolsInv, Askers, CheckTools
<1>2. /\ ask'[c] = [at |-> "look", key |-> switches, out |-> NoSwitches]
      /\ \A d \in Askers : d # c => ask'[d] = ask[d]
  BY <1>1 DEF ToolsTypeOK, Asks
<1>3. ToolsTypeOK' BY <1>1 DEF ToolsTypeOK, Asks, Cleared
<1>4. Kept(c)' BY <1>1, <1>2 DEF Kept, CallerPlaces, Within, ToolsTypeOK
<1>5. ASSUME NEW d \in Askers, d # c PROVE Kept(d)'
  <2>1. ask'[d] = ask[d] /\ Kept(d) BY <1>2, <1>5 DEF ToolsInv
  <2>2. IsFresh(ask[d].key)' => IsFresh(ask[d].key) BY <1>1, <2>1 DEF IsFresh
  <2> QED BY <1>1, <2>1, <2>2, StaysKept
<1>6. ask'[Refresher] = ask[Refresher] BY <1>1, <1>2 DEF Askers
<1>7. (refreshing <=> ask[Refresher].at # "idle")' BY <1>1, <1>6 DEF ToolsInv
<1>8. cache'.out = cache'.key BY <1>1 DEF ToolsInv
<1> QED BY <1>3, <1>4, <1>5, <1>7, <1>8 DEF ToolsInv

LEMMA ClearFlagKeeps ==
    ASSUME ToolsInv, ClearFlag
    PROVE  ToolsInv'
<1>1. /\ ToolsTypeOK /\ Refresher \in Askers /\ Kept(Refresher)
      /\ ask[Refresher].at = "flag" /\ refreshing' = FALSE
      /\ ask' = [ask EXCEPT ![Refresher] = AtRest]
      /\ UNCHANGED <<switches, cache, inflight, saving, saves>>
  BY DEF ToolsInv, Askers, ClearFlag, Flag
<1>2. /\ ask'[Refresher] = [at |-> "idle", key |-> NoSwitches, out |-> NoSwitches]
      /\ \A d \in Askers : d # Refresher => ask'[d] = ask[d]
  BY <1>1 DEF ToolsTypeOK, AtRest, Asks
<1>3. ToolsTypeOK' BY <1>1 DEF ToolsTypeOK, AtRest, Asks, Cleared
<1>4. Kept(Refresher)' BY <1>1, <1>2 DEF Kept, RefresherPlaces, Within
<1>5. ASSUME NEW d \in Askers, d # Refresher PROVE Kept(d)'
  <2>1. ask'[d] = ask[d] /\ Kept(d) BY <1>2, <1>5 DEF ToolsInv
  <2>2. IsFresh(ask[d].key)' => IsFresh(ask[d].key) BY <1>1, <2>1 DEF IsFresh
  <2> QED BY <1>1, <2>1, <2>2, StaysKept
<1>6. (refreshing <=> ask[Refresher].at # "idle")' BY <1>1, <1>2
<1>7. cache'.out = cache'.key BY <1>1 DEF ToolsInv
<1> QED BY <1>3, <1>4, <1>5, <1>6, <1>7 DEF ToolsInv

\* The settings, the clearing of the cache and its age touch no asker.
LEMMA OthersKeep ==
    ASSUME ToolsInv,
           SaveSettings \/ ApplySetting \/ InvalidateToolsCache \/ CacheAges \/ UNCHANGED toolsVars
    PROVE  ToolsInv'
<1>1. ToolsTypeOK /\ cache.out = cache.key BY DEF ToolsInv
<1>2. UNCHANGED <<ask, inflight, refreshing>>
  BY DEF SaveSettings, ApplySetting, InvalidateToolsCache, CacheAges, toolsVars
<1>3. switches' \in Switches /\ saving' \in BOOLEAN /\ saves' \in 0..MaxSaves
  <2>1. switches \in Switches /\ saving \in BOOLEAN /\ saves \in 0..MaxSaves BY <1>1 DEF ToolsTypeOK
  <2>2. CASE SaveSettings
    <3>1. saves' \in 0..MaxSaves BY <2>1, <2>2, ToolsAssumptions DEF SaveSettings
    <3> QED BY <2>1, <2>2, <3>1 DEF SaveSettings
  <2>3. CASE ApplySetting BY <2>1, <2>3 DEF ApplySetting
  <2>4. CASE InvalidateToolsCache BY <2>1, <2>4 DEF InvalidateToolsCache
  <2>5. CASE CacheAges BY <2>1, <2>5 DEF CacheAges
  <2>6. CASE UNCHANGED toolsVars BY <2>1, <2>6 DEF toolsVars
  <2> QED BY <2>2, <2>3, <2>4, <2>5, <2>6
<1>4. \/ cache' = cache
      \/ cache' = Cleared
      \/ cache.age = "fresh" /\ cache' = [cache EXCEPT !.age = "stale"]
  BY DEF SaveSettings, ApplySetting, InvalidateToolsCache, CacheAges, toolsVars
<1>5. cache' \in [key : Switches, out : Switches, age : {"fresh", "stale"}] \cup {Cleared}
  BY <1>1, <1>4 DEF ToolsTypeOK, Cleared
<1>6. ToolsTypeOK' BY <1>1, <1>2, <1>3, <1>5 DEF ToolsTypeOK, Cleared
<1>7. cache'.out = cache'.key BY <1>1, <1>4 DEF Cleared, ToolsTypeOK
<1>8. cache'.age = "fresh" => cache' = cache BY <1>1, <1>4 DEF Cleared, ToolsTypeOK
<1>9. ASSUME NEW d \in Askers PROVE Kept(d)'
  <2>1. ask'[d] = ask[d] /\ Kept(d) BY <1>2 DEF ToolsInv
  <2>2. IsFresh(ask[d].key)' => IsFresh(ask[d].key) BY <1>8, <2>1 DEF IsFresh
  <2> QED BY <1>2, <2>1, <2>2, StaysKept
<1>10. (refreshing <=> ask[Refresher].at # "idle")' BY <1>2 DEF ToolsInv
<1> QED BY <1>6, <1>7, <1>9, <1>10 DEF ToolsInv

LEMMA ToolsInvInit == ToolsInit => ToolsInv
<1> SUFFICES ASSUME ToolsInit PROVE ToolsInv OBVIOUS
<1>1. \A c \in Askers : ask[c] = [at |-> "idle", key |-> NoSwitches, out |-> NoSwitches]
  BY DEF ToolsInit, AtRest, Asks
<1>2. ToolsTypeOK
  <2>1. ask \in [Askers -> [at : {"idle", "look", "start", "wait", "recheck", "probe", "flag", "answered"},
                            key : Switches \cup {NoSwitches}, out : Switches \cup {NoSwitches}]]
    BY DEF ToolsInit, AtRest, Asks
  <2>2. saves \in 0..MaxSaves BY ToolsAssumptions DEF ToolsInit
  <2>3. switches \in Switches /\ cache = Cleared /\ inflight = NoCaller /\ refreshing = FALSE /\ saving = FALSE
    BY DEF ToolsInit
  <2> QED BY <2>1, <2>2, <2>3 DEF ToolsTypeOK
<1>3. ASSUME NEW c \in Askers PROVE Kept(c)
  <2>1. inflight # c BY ToolsAssumptions DEF ToolsInit, Askers
  <2> QED BY <1>1, <2>1 DEF Kept, CallerPlaces, RefresherPlaces, Within
<1>4. cache.out = cache.key BY DEF ToolsInit, Cleared
<1>5. refreshing <=> ask[Refresher].at # "idle" BY <1>1 DEF ToolsInit, Askers
<1> QED BY <1>2, <1>3, <1>4, <1>5 DEF ToolsInv

LEMMA ToolsInvNext == ToolsInv /\ [ToolsNext]_toolsVars => ToolsInv'
<1> SUFFICES ASSUME ToolsInv, [ToolsNext]_toolsVars PROVE ToolsInv' OBVIOUS
<1>1. ASSUME NEW c \in Callers, CheckTools(c) PROVE ToolsInv' BY <1>1, CheckToolsKeeps
<1>2. ASSUME NEW c \in Askers, AskerStep(c) PROVE ToolsInv' BY <1>2, AskerStepKeeps
<1>3. CASE ClearFlag BY <1>3, ClearFlagKeeps
<1>4. CASE SaveSettings \/ ApplySetting \/ InvalidateToolsCache \/ CacheAges \/ UNCHANGED toolsVars
  BY <1>4, OthersKeep
<1> QED BY <1>1, <1>2, <1>3, <1>4 DEF ToolsNext

(***************************************************************************)
(* The theorems.                                                           *)
(***************************************************************************)
(* The cache, the lock, the flag and the askers keep to their ranges.      *)
THEOREM ToolsTypeCorrect == ToolsSpec => []ToolsTypeOK
<1>1. ToolsInv => ToolsTypeOK BY DEF ToolsInv
<1> QED BY <1>1, ToolsInvInit, ToolsInvNext, PTL DEF ToolsSpec

(* Answers fit the switches they were asked for, one caller probes at a    *)
(* time and none what is fresh, and the flag stands for the one refresh in *)
(* the background (CheckTools, startToolsRefresh and refreshTools of       *)
(* operator/scanners.go).                                                  *)
THEOREM CacheIsTrue == ToolsSpec => []ToolsAreTrue
<1>1. ToolsInv => ToolsAreTrue
  <2> SUFFICES ASSUME ToolsInv PROVE ToolsAreTrue OBVIOUS
  <2>1. AnswersFit BY DEF ToolsInv, Kept, AnswersFit, Askers
  <2>2. \A c \in Askers : ask[c].at = "probe" => ~(cache.key = ask[c].key /\ cache.age = "fresh")
    BY DEF ToolsInv, Kept, IsFresh
  <2>3. ASSUME NEW c \in Askers, NEW d \in Askers, ask[c].at = "probe", ask[d].at = "probe"
        PROVE  c = d
    BY <2>3 DEF ToolsInv, Kept, Within
  <2> QED BY <2>1, <2>2, <2>3 DEF ToolsAreTrue, NoStampede, ToolsInv
<1> QED BY <1>1, ToolsInvInit, ToolsInvNext, PTL DEF ToolsSpec

------------------------------------------------------------------------------

(***************************************************************************)
(* The announcements of an issue's age.                                    *)
(***************************************************************************)
\* Where a pass holds the lock.
Holding == {"create", "decide", "patch"}
Sights == UNION {[F -> Observations] : F \in SUBSET Findings}
Turns == [at : {"idle", "next", "report"} \cup Holding, found : SUBSET Findings, sight : Sights,
          left : SUBSET Findings, seen : SUBSET Findings, now : Findings \cup {NoFinding},
          copy : Bodies \cup {NoBody}, made : Nat]

\* What one pass has, in the state of the issues.
TurnOK(t, b) ==
    /\ t.sight \in [t.found -> Observations] /\ t.seen \subseteq t.found
    /\ t.at \in Holding \cup {"next"} => t.left \subseteq t.found
    /\ t.at \in Holding => t.now \in t.found
    /\ t.at = "create" => b[t.now] = NoBody
    /\ t.at = "decide" => t.copy \in {NoBody, b[t.now]}
    /\ t.at = "patch" => b[t.now] # NoBody /\ t.copy # NoBody

\* Announced, and not yet written down.
Awaits(t, f) == t.at = "patch" /\ t.now = f

\* The announcements are of later and later stages, and the body holds the last
\* of those that were written down: all, or all but the last that still awaits it.
Ages(s, b, waits) ==
    /\ \A i, j \in 1..Len(s) : i < j => s[i] < s[j]
    /\ b = NoBody => s = <<>>
    /\ waits => s # <<>> /\ (Len(s) > 1 => b.stage = s[Len(s) - 1])
    /\ ~waits /\ s # <<>> => b.stage = s[Len(s)]

InOrder(f) == Ages(told[f], body[f], \E p \in Passes : Awaits(pass[p], f))

UpdateTypes ==
    /\ database \in BOOLEAN /\ day \in Days /\ ran \in 0..MaxPasses
    /\ body \in [Findings -> Bodies \cup {NoBody}] /\ linked \subseteq Findings
    /\ pass \in [Passes -> Turns]
    /\ filing \in Passes \cup {NoPass} /\ told \in [Findings -> Seq(1..4)]

UpdateInv ==
    /\ UpdateTypes
    /\ \A p \in Passes : pass[p].at \in Holding <=> filing = p
    /\ \A p \in Passes : TurnOK(pass[p], body)
    /\ \A p \in Passes : pass[p].at = "patch" =>
         pass[p].copy.stage = told[pass[p].now][Len(told[pass[p].now])]
    /\ \A f \in Findings : InOrder(f)

LEMMA BodyKinds == ASSUME NEW b \in Bodies PROVE b # NoBody
BY DEF Bodies, NoBody

LEMMA IdleTurn == Idle \in Turns /\ Idle.at = "idle" /\ \A b : TurnOK(Idle, b)
<1> DEFINE s == [f \in {} |-> NoBody]
<1>1. s \in [{} -> Observations] OBVIOUS
<1>2. s \in Sights BY <1>1 DEF Sights
<1>3. Idle = [at |-> "idle", found |-> {}, sight |-> s, left |-> {},
              seen |-> {}, now |-> NoFinding, copy |-> NoBody, made |-> 0]
  BY DEF Idle
<1> HIDE DEF s
<1>4. Idle \in Turns BY <1>2, <1>3 DEF Turns, Holding
<1>5. Idle.at = "idle" /\ Idle.found = {} /\ Idle.sight = s /\ Idle.seen = {} BY <1>3
<1> QED BY <1>1, <1>4, <1>5 DEF TurnOK, Holding

LEMMA StageTypes == ASSUME NEW d \in Int PROVE Stage(d) \in 0..4
<1> DEFINE four == {14, 30, 60, 90}
<1>1. IsFiniteSet(four) /\ Cardinality(four) = 4
  <2>1. IsFiniteSet({14}) /\ Cardinality({14}) = 1 BY FS_Singleton
  <2>2. IsFiniteSet({14} \cup {30}) /\ Cardinality({14} \cup {30}) = 2 BY <2>1, FS_AddElement
  <2>3. IsFiniteSet(({14} \cup {30}) \cup {60}) /\ Cardinality(({14} \cup {30}) \cup {60}) = 3
    BY <2>2, FS_AddElement
  <2>4. IsFiniteSet((({14} \cup {30}) \cup {60}) \cup {90}) /\ Cardinality((({14} \cup {30}) \cup {60}) \cup {90}) = 4
    BY <2>3, FS_AddElement
  <2>5. (({14} \cup {30}) \cup {60}) \cup {90} = four OBVIOUS
  <2> QED BY <2>4, <2>5
<1> DEFINE T == {t \in four : t <= d}
<1>2. T \in SUBSET four OBVIOUS
<1>3. Stage(d) = Cardinality(T) BY DEF Stage
<1> HIDE DEF T, four
<1>4. IsFiniteSet(T) /\ Cardinality(T) <= 4 BY <1>1, <1>2, FS_Subset
<1>5. Cardinality(T) \in Nat BY <1>4, FS_CardinalityType
<1> QED BY <1>3, <1>4, <1>5

\* A later stage is announced, and forgotten when it could not be written down.
LEMMA AgesMore ==
    ASSUME NEW s \in Seq(1..4), NEW b \in Bodies, Ages(s, b, FALSE), NEW n \in 1..4, n > b.stage
    PROVE  /\ Append(s, n) \in Seq(1..4) /\ Ages(Append(s, n), b, TRUE)
           /\ Append(s, n)[Len(Append(s, n))] = n
<1> DEFINE t == Append(s, n)
<1>1. /\ t \in Seq(1..4) /\ Len(s) \in Nat /\ Len(t) = Len(s) + 1 /\ t[Len(s) + 1] = n
      /\ \A i \in 1..Len(s) : t[i] = s[i] /\ s[i] \in 1..4
  OBVIOUS
<1>2. b # NoBody /\ b.stage \in 0..4 BY BodyKinds DEF Bodies
<1> HIDE DEF t
<1>3. \A i \in 1..Len(s) : s[i] <= s[Len(s)]
  <2> SUFFICES ASSUME NEW i \in 1..Len(s) PROVE s[i] <= s[Len(s)] OBVIOUS
  <2>1. Len(s) \in 1..Len(s) BY <1>1
  <2>2. CASE i = Len(s) BY <1>1, <2>1, <2>2
  <2>3. CASE i # Len(s)
    <3>1. i < Len(s) BY <1>1, <2>3
    <3> QED BY <1>1, <2>1, <3>1 DEF Ages
  <2> QED BY <2>2, <2>3
<1>4. \A i \in 1..Len(s) : s[i] < n
  <2> SUFFICES ASSUME NEW i \in 1..Len(s) PROVE s[i] < n OBVIOUS
  <2>1. s # <<>> /\ Len(s) \in 1..Len(s) BY <1>1
  <2>2. b.stage = s[Len(s)] BY <2>1 DEF Ages
  <2>3. s[i] <= b.stage /\ s[i] \in Int BY <1>1, <1>3, <2>2
  <2> QED BY <1>2, <2>3
<1>5. ASSUME NEW i \in 1..Len(t), NEW j \in 1..Len(t), i < j PROVE t[i] < t[j]
  <2>1. i \in 1..Len(s) /\ (j \in 1..Len(s) \/ j = Len(s) + 1) BY <1>1, <1>5
  <2>2. CASE j \in 1..Len(s) BY <1>1, <1>5, <2>1, <2>2 DEF Ages
  <2>3. CASE j = Len(s) + 1 BY <1>1, <1>4, <2>1, <2>3
  <2> QED BY <2>1, <2>2, <2>3
<1>6. t # <<>> BY <1>1
<1>7. Len(t) > 1 => b.stage = t[Len(t) - 1]
  <2> SUFFICES ASSUME Len(t) > 1 PROVE b.stage = t[Len(t) - 1] OBVIOUS
  <2>1. Len(t) - 1 = Len(s) /\ Len(s) \in 1..Len(s) /\ s # <<>> BY <1>1
  <2> QED BY <1>1, <2>1 DEF Ages
<1>8. Ages(t, b, TRUE) BY <1>2, <1>5, <1>6, <1>7 DEF Ages
<1>9. t[Len(t)] = n BY <1>1
<1> QED BY <1>1, <1>8, <1>9 DEF t

LEMMA AgesLess ==
    ASSUME NEW s \in Seq(1..4), NEW b \in Bodies, Ages(s, b, TRUE)
    PROVE  /\ SubSeq(s, 1, Len(s) - 1) \in Seq(1..4) /\ Ages(SubSeq(s, 1, Len(s) - 1), b, FALSE)
<1> DEFINE t == SubSeq(s, 1, Len(s) - 1)
<1>1. Len(s) \in Nat /\ Len(s) # 0 BY DEF Ages
<1> DEFINE n == Len(s) - 1
<1>2. 1 \in 1..Len(s)+1 /\ n \in 1-1..Len(s) BY <1>1
<1>3. /\ t \in Seq(1..4) /\ Len(t) = Len(s) - 1
      /\ \A i \in 1..Len(s) - 1 : t[i] = s[i]
  <2> HIDE DEF n
  <2>1. /\ SubSeq(s, 1, n) \in Seq(1..4)
        /\ Len(SubSeq(s, 1, n)) = IF 1 <= n THEN n - 1 + 1 ELSE 0
        /\ \A i \in 1..n-1+1 : SubSeq(s, 1, n)[i] = s[1+i-1]
    BY <1>2, SubSeqProperties
  <2>2. n \in Nat /\ n = Len(s) - 1 BY <1>1 DEF n
  <2>3. \A i \in 1..n : SubSeq(s, 1, n)[i] = s[i]
    <3>1. \A i \in 1..n : i \in 1..n-1+1 /\ 1+i-1 = i BY <2>2
    <3> QED BY <2>1, <3>1
  <2>4. Len(SubSeq(s, 1, n)) = n BY <2>1, <2>2
  <2> QED BY <2>1, <2>2, <2>3, <2>4
<1> HIDE DEF t
<1>4. ASSUME NEW i \in 1..Len(t), NEW j \in 1..Len(t), i < j PROVE t[i] < t[j]
  <2>1. i \in 1..Len(s) /\ j \in 1..Len(s) /\ t[i] = s[i] /\ t[j] = s[j] BY <1>1, <1>3
  <2> QED BY <1>4, <2>1 DEF Ages
<1>5. t # <<>> => b.stage = t[Len(t)]
  <2> SUFFICES ASSUME t # <<>> PROVE b.stage = t[Len(t)] OBVIOUS
  <2>1. Len(t) # 0 BY <1>3
  <2>2. Len(s) > 1 /\ Len(t) \in 1..Len(s) - 1 BY <1>1, <1>3, <2>1
  <2> QED BY <1>3, <2>2 DEF Ages
<1>6. Ages(t, b, FALSE) BY <1>4, <1>5, BodyKinds DEF Ages
<1> QED BY <1>3, <1>6 DEF t

(***************************************************************************)
(* The steps of a pass.                                                    *)
(***************************************************************************)
LEMMA BecomesIs ==
    ASSUME UpdateTypes, NEW p \in Passes, NEW t \in Turns, Becomes(p, t)
    PROVE  pass' \in [Passes -> Turns] /\ pass'[p] = t /\ \A q \in Passes \ {p} : pass'[q] = pass[q]
BY DEF UpdateTypes, Becomes

\* While one pass holds the lock, nobody else waits to write.
LEMMA OneHolds ==
    ASSUME UpdateInv, NEW p \in Passes, pass[p].at \in Holding
    PROVE  /\ filing = p /\ \A q \in Passes \ {p} : pass[q].at \notin Holding
           /\ \A f : (\E q \in Passes : Awaits(pass[q], f)) <=> Awaits(pass[p], f)
BY DEF UpdateInv, Awaits, Holding

\* The step of a pass that neither writes nor announces.
LEMMA QuietKeeps ==
    ASSUME UpdateInv, NEW p \in Passes, NEW t \in Turns, Becomes(p, t),
           UNCHANGED <<database, day, body, told>>, ran' \in 0..MaxPasses, linked' \subseteq Findings,
           pass[p].at # "patch", t.at # "patch", TurnOK(t, body),
           filing' \in Passes \cup {NoPass}, t.at \in Holding <=> filing' = p,
           \A q \in Passes \ {p} : filing' = q <=> filing = q
    PROVE  UpdateInv'
<1>1. pass' \in [Passes -> Turns] /\ pass'[p] = t /\ \A q \in Passes \ {p} : pass'[q] = pass[q]
  BY BecomesIs DEF UpdateInv
<1>2. UpdateTypes' BY <1>1 DEF UpdateInv, UpdateTypes
<1>3. \A f : (\E q \in Passes : Awaits(pass'[q], f)) <=> (\E q \in Passes : Awaits(pass[q], f))
  BY <1>1 DEF Awaits
<1>5. \A f \in Findings : InOrder(f)'
  BY <1>3 DEF UpdateInv, InOrder, Ages
<1>6. (\A q \in Passes : pass[q].at \in Holding <=> filing = q)' BY <1>1 DEF UpdateInv
<1>7. (\A q \in Passes : TurnOK(pass[q], body))' BY <1>1 DEF UpdateInv
<1>8. (\A q \in Passes : pass[q].at = "patch" =>
         pass[q].copy.stage = told[pass[q].now][Len(told[pass[q].now])])'
  BY <1>1 DEF UpdateInv
<1> QED BY <1>2, <1>5, <1>6, <1>7, <1>8 DEF UpdateInv

\* The step of the pass that holds the lock.
LEMMA HolderKeeps ==
    ASSUME UpdateInv, NEW p \in Passes, pass[p].at \in Holding, NEW t \in Turns, Becomes(p, t),
           UNCHANGED <<database, day, ran>>, linked' \subseteq Findings,
           body' \in [Findings -> Bodies \cup {NoBody}], told' \in [Findings -> Seq(1..4)],
           filing' \in {p, NoPass}, t.at \in Holding <=> filing' = p, TurnOK(t, body'),
           t.at = "patch" => t.copy.stage = told'[t.now][Len(told'[t.now])],
           \A f \in Findings : Ages(told'[f], body'[f], Awaits(t, f))
    PROVE  UpdateInv'
<1>1. pass' \in [Passes -> Turns] /\ pass'[p] = t /\ \A q \in Passes \ {p} : pass'[q] = pass[q]
  BY BecomesIs DEF UpdateInv
<1>2. UpdateTypes' BY <1>1 DEF UpdateInv, UpdateTypes
<1>3. \A q \in Passes \ {p} : pass[q].at \notin Holding BY OneHolds
<1>4. \A f : (\E q \in Passes : Awaits(pass'[q], f)) <=> Awaits(t, f)
  BY <1>1, <1>3 DEF Awaits, Holding
<1>5. \A q \in Passes \ {p} : TurnOK(pass'[q], body')
  BY <1>1, <1>3 DEF UpdateInv, TurnOK, Holding
<1>6. NoPass \notin Passes BY UpdateAssumptions
<1>8. \A f \in Findings : InOrder(f)'
  BY <1>4 DEF InOrder, Ages
<1>9. (\A q \in Passes : pass[q].at \in Holding <=> filing = q)' BY <1>1, <1>3, <1>6
<1>10. (\A q \in Passes : TurnOK(pass[q], body))' BY <1>1, <1>5
<1>11. (\A q \in Passes : pass[q].at = "patch" =>
          pass[q].copy.stage = told[pass[q].now][Len(told[pass[q].now])])'
  BY <1>1, <1>3 DEF Holding
<1> QED BY <1>2, <1>8, <1>9, <1>10, <1>11 DEF UpdateInv

\* A finding's turn is over.
LEMMA NextTurn ==
    ASSUME UpdateInv, NEW p \in Passes, pass[p].at \in Holding, NEW n \in Nat
    PROVE  LET t == [pass[p] EXCEPT !.at = "next", !.now = NoFinding, !.copy = NoBody, !.made = n]
           IN  /\ t \in Turns /\ t.at = "next" /\ t.found = pass[p].found /\ t.sight = pass[p].sight
               /\ t.left = pass[p].left /\ t.seen = pass[p].seen
BY DEF UpdateInv, UpdateTypes, Turns

LEMMA UpdateStarts == UpdateInit => UpdateInv
<1> SUFFICES ASSUME UpdateInit PROVE UpdateInv OBVIOUS
<1>1. MaxPasses \in Nat /\ 0 \in Days /\ NoPass \notin Passes BY UpdateAssumptions
<1>2. \A p \in Passes : pass[p] = Idle BY DEF UpdateInit
<1>3. pass \in [Passes -> Turns] BY IdleTurn DEF UpdateInit
<1>4. UpdateTypes BY <1>1, <1>3 DEF UpdateInit, UpdateTypes
<1>5. \A f \in Findings : told[f] = <<>> /\ body[f] = NoBody BY DEF UpdateInit
<1>6. \A f : \A p \in Passes : ~Awaits(pass[p], f) BY <1>2, IdleTurn DEF Awaits
<1>8. \A f \in Findings : InOrder(f)
  <2> TAKE f \in Findings
  <2>1. ~\E p \in Passes : Awaits(pass[p], f) BY <1>6
  <2> QED BY <1>5, <2>1 DEF InOrder, Ages
<1> QED BY <1>1, <1>2, <1>4, <1>8, IdleTurn DEF UpdateInit, UpdateInv, Holding

LEMMA StartKeeps == ASSUME UpdateInv, NEW p \in Passes, StartPass(p) PROVE UpdateInv'
<1>0. PICK found \in SUBSET Findings : \E sight \in [found -> Observations] :
        Becomes(p, [Idle EXCEPT !.at = "next", !.found = found, !.sight = sight, !.left = found])
  BY DEF StartPass
<1>1. PICK sight \in [found -> Observations] :
        Becomes(p, [Idle EXCEPT !.at = "next", !.found = found, !.sight = sight, !.left = found])
  BY <1>0
<1> DEFINE t == [Idle EXCEPT !.at = "next", !.found = found, !.sight = sight, !.left = found]
<1>2. sight \in Sights BY DEF Sights
<1>3. /\ t \in Turns /\ t.at = "next" /\ t.found = found /\ t.sight = sight /\ t.left = found /\ t.seen = {}
  BY <1>2, IdleTurn DEF Turns, Idle
<1> HIDE DEF t
<1>4. TurnOK(t, body) BY <1>3 DEF TurnOK, Holding
<1>5. ran' \in 0..MaxPasses
  BY UpdateAssumptions DEF StartPass, UpdateInv, UpdateTypes
<1>6. filing # p /\ UNCHANGED <<database, day, body, linked, filing, told>> /\ pass[p].at = "idle"
  BY DEF StartPass, UpdateInv, Holding
<1> QED BY <1>1, <1>3, <1>4, <1>5, <1>6, QuietKeeps DEF Holding, UpdateInv, UpdateTypes, t

\* Where a pass that does not hold the lock goes on without it.
LEMMA IdlyKeeps ==
    ASSUME UpdateInv, NEW p \in Passes, NEW t \in Turns, Becomes(p, t), TurnOK(t, body),
           UNCHANGED <<database, day, body, linked, filing, ran, told>>,
           pass[p].at \notin Holding, t.at \notin Holding
    PROVE  UpdateInv'
BY QuietKeeps DEF UpdateInv, UpdateTypes, Holding

LEMMA LookOnKeeps ==
    ASSUME UpdateInv, NEW p \in Passes,
           \/ StopAtMaximum(p) \/ ListOpenIssues(p)
           \/ \E f \in Findings : SkipFaint(p, f) \/ ReportNotReproduced(p, f)
    PROVE  UpdateInv'
<1>1. pass[p] \in Turns /\ TurnOK(pass[p], body) BY DEF UpdateInv, UpdateTypes
<1>2. /\ UNCHANGED <<database, day, body, linked, filing, ran, told>>
      /\ pass[p].at \in {"next", "report"}
  BY DEF StopAtMaximum, ListOpenIssues, SkipFaint, ReportNotReproduced, MayGoOn
<1>3. ASSUME NEW l \in SUBSET Findings, pass[p].at = "next" => l \subseteq pass[p].left,
             Becomes(p, [pass[p] EXCEPT !.left = l])
      PROVE  UpdateInv'
  <2> DEFINE t == [pass[p] EXCEPT !.left = l]
  <2>1. /\ t \in Turns /\ t.at = pass[p].at /\ t.found = pass[p].found /\ t.sight = pass[p].sight
        /\ t.left = l /\ t.seen = pass[p].seen /\ t.now = pass[p].now /\ t.copy = pass[p].copy
    BY <1>1 DEF Turns
  <2>2. TurnOK(t, body) BY <1>1, <1>2, <1>3, <2>1 DEF TurnOK, Holding
  <2>3. Becomes(p, t) BY <1>3
  <2> HIDE DEF t
  <2> QED BY <1>2, <2>1, <2>2, <2>3, IdlyKeeps DEF Holding
<1>4. CASE Becomes(p, Idle) BY <1>2, <1>4, IdleTurn, IdlyKeeps DEF Holding
<1>5. CASE StopAtMaximum(p)
  <2>1. {} \in SUBSET Findings /\ {} \subseteq pass[p].left OBVIOUS
  <2> QED BY <1>3, <1>5, <2>1 DEF StopAtMaximum
<1>6. ASSUME NEW f \in Findings, SkipFaint(p, f) PROVE UpdateInv'
  <2> DEFINE l == pass[p].left \ {f}
  <2>1. l \in SUBSET Findings /\ l \subseteq pass[p].left BY <1>1 DEF Turns
  <2>2. Becomes(p, [pass[p] EXCEPT !.left = l]) BY <1>6 DEF SkipFaint
  <2> QED BY <1>3, <2>1, <2>2
<1>7. ASSUME NEW f \in Findings, ReportNotReproduced(p, f) PROVE UpdateInv'
  <2> DEFINE l == pass[p].left \ {f}
  <2>1. l \in SUBSET Findings /\ l \subseteq pass[p].left BY <1>1 DEF Turns
  <2>2. Becomes(p, [pass[p] EXCEPT !.left = l]) \/ Becomes(p, Idle) BY <1>7 DEF ReportNotReproduced
  <2> QED BY <1>3, <1>4, <2>1, <2>2
<1>8. CASE ListOpenIssues(p)
  <2>1. CASE Becomes(p, [pass[p] EXCEPT !.at = "report", !.left = Absent(p)])
    <3> DEFINE t == [pass[p] EXCEPT !.at = "report", !.left = Absent(p)]
    <3>1. Absent(p) \subseteq Findings BY DEF Absent
    <3>2. /\ t \in Turns /\ t.at = "report" /\ t.found = pass[p].found /\ t.sight = pass[p].sight
          /\ t.seen = pass[p].seen
      BY <1>1, <3>1 DEF Turns
    <3>3. TurnOK(t, body) BY <1>1, <3>2 DEF TurnOK, Holding
    <3> QED BY <1>2, <2>1, <3>2, <3>3, IdlyKeeps DEF Holding
  <2> QED BY <1>4, <1>8, <2>1 DEF ListOpenIssues
<1> QED BY <1>5, <1>6, <1>7, <1>8

LEMMA FindKeeps ==
    ASSUME UpdateInv, NEW p \in Passes, NEW f \in Findings, FindIssue(p, f)
    PROVE  UpdateInv'
<1>1. /\ pass[p] \in Turns /\ TurnOK(pass[p], body) /\ linked \subseteq Findings
      /\ body \in [Findings -> Bodies \cup {NoBody}] /\ ran \in 0..MaxPasses
  BY DEF UpdateInv, UpdateTypes
<1>2. /\ pass[p].at = "next" /\ f \in pass[p].left /\ filing = NoPass /\ filing' = p
      /\ UNCHANGED <<database, day, body, ran, told>>
  BY DEF FindIssue, MayGoOn, LockIsFree
<1>3. linked' \subseteq Findings BY <1>1 DEF FindIssue
<1> DEFINE at == IF f \in linked \/ body[f] # NoBody THEN "decide" ELSE "create"
           copy == IF f \in linked THEN NoBody ELSE body[f]
           t == [pass[p] EXCEPT !.left = @ \ {f}, !.seen = @ \cup {f}, !.now = f, !.at = at, !.copy = copy]
<1>4. Becomes(p, t) BY DEF FindIssue
<1>5. copy \in Bodies \cup {NoBody} /\ copy \in {NoBody, body[f]} BY <1>1
<1>6. at \in {"decide", "create"} /\ (at = "create" => body[f] = NoBody) OBVIOUS
<1> HIDE DEF at, copy
<1>7. /\ t \in Turns /\ t.at = at /\ t.found = pass[p].found /\ t.sight = pass[p].sight
      /\ t.left = pass[p].left \ {f} /\ t.seen = pass[p].seen \cup {f} /\ t.now = f /\ t.copy = copy
  BY <1>1, <1>5, <1>6 DEF Turns, Holding
<1> HIDE DEF t
<1>8. TurnOK(t, body) BY <1>1, <1>2, <1>5, <1>6, <1>7 DEF TurnOK, Holding
<1>9. NoPass \notin Passes BY UpdateAssumptions
<1> QED BY <1>1, <1>2, <1>3, <1>4, <1>6, <1>7, <1>8, <1>9, QuietKeeps DEF Holding

\* The turn of a finding ends with nothing said or written.
LEMMA NextKeeps ==
    ASSUME UpdateInv, NEW p \in Passes, pass[p].at \in {"create", "decide"}, NEW n \in Nat,
           NextFinding(p, n), UNCHANGED <<database, day, body, told, ran>>, linked' \subseteq Findings
    PROVE  UpdateInv'
<1> DEFINE t == [pass[p] EXCEPT !.at = "next", !.now = NoFinding, !.copy = NoBody, !.made = n]
<1>1. pass[p].at \in Holding /\ pass[p].at # "patch" BY DEF Holding
<1>2. /\ t \in Turns /\ t.at = "next" /\ t.found = pass[p].found /\ t.sight = pass[p].sight
      /\ t.left = pass[p].left /\ t.seen = pass[p].seen
  BY <1>1, NextTurn
<1>3. Becomes(p, t) /\ filing' = NoPass BY DEF NextFinding
<1>4. filing = p /\ NoPass \notin Passes BY <1>1, OneHolds, UpdateAssumptions
<1> HIDE DEF t
<1>5. TurnOK(t, body) BY <1>1, <1>2 DEF UpdateInv, TurnOK, Holding
<1>6. ran' \in 0..MaxPasses BY DEF UpdateInv, UpdateTypes
<1> QED BY <1>1, <1>2, <1>3, <1>4, <1>5, <1>6, QuietKeeps DEF Holding

LEMMA CreateKeeps == ASSUME UpdateInv, NEW p \in Passes, CreateIssue(p) PROVE UpdateInv'
<1> DEFINE f == pass[p].now
           o == pass[p].sight[f]
<1>1. /\ pass[p] \in Turns /\ TurnOK(pass[p], body) /\ linked \subseteq Findings /\ day \in Days
      /\ body \in [Findings -> Bodies \cup {NoBody}] /\ told \in [Findings -> Seq(1..4)]
  BY DEF UpdateInv, UpdateTypes
<1>2. pass[p].at = "create" /\ UNCHANGED <<database, day, ran, told>> BY DEF CreateIssue
<1>3. pass[p].made \in Nat /\ pass[p].made + 1 \in Nat BY <1>1 DEF Turns
<1>4. f \in Findings /\ o \in Observations /\ body[f] = NoBody
  BY <1>1, <1>2 DEF TurnOK, Holding, Turns
<1>5. CASE UNCHANGED <<body, linked>> /\ NextFinding(p, pass[p].made)
  BY <1>1, <1>2, <1>3, <1>5, NextKeeps
<1>6. CASE /\ body' = [body EXCEPT ![f] = NewBody(o)]
           /\ linked' \in IF database THEN {linked, linked \cup {f}} ELSE {linked}
           /\ NextFinding(p, pass[p].made + 1)
  <2> DEFINE t == [pass[p] EXCEPT !.at = "next", !.now = NoFinding, !.copy = NoBody, !.made = pass[p].made + 1]
  <2>1. pass[p].at \in Holding /\ NoPass \notin Passes BY <1>2, UpdateAssumptions DEF Holding
  <2>2. /\ t \in Turns /\ t.at = "next" /\ t.found = pass[p].found /\ t.sight = pass[p].sight
        /\ t.left = pass[p].left /\ t.seen = pass[p].seen
    BY <1>3, <2>1, NextTurn
  <2>3. Becomes(p, t) /\ filing' = NoPass BY <1>6 DEF NextFinding
  <2>4. NewBody(o) \in Bodies BY <1>1, <1>4 DEF NewBody, Bodies
  <2> HIDE DEF t, f, o
  <2>5. body' \in [Findings -> Bodies \cup {NoBody}] BY <1>1, <1>4, <1>6, <2>4
  <2>6. TurnOK(t, body') BY <1>1, <2>1, <2>2 DEF TurnOK, Holding
  <2>7. linked' \subseteq Findings BY <1>1, <1>4, <1>6
  <2>8. \A g \in Findings : Ages(told'[g], body'[g], Awaits(t, g))
    <3> TAKE g \in Findings
    <3>1. ~Awaits(t, g) BY <2>2 DEF Awaits
    <3>2. ~\E q \in Passes : Awaits(pass[q], g) BY <1>2, <2>1, OneHolds DEF Awaits
    <3>3. Ages(told[g], body[g], FALSE) BY <3>2 DEF UpdateInv, InOrder, Ages
    <3>4. CASE g # f BY <1>1, <1>2, <1>4, <1>6, <3>1, <3>3, <3>4 DEF Ages
    <3>5. CASE g = f
      <4>1. told[g] = <<>> BY <1>4, <3>3, <3>5 DEF Ages
      <4> QED BY <1>2, <3>1, <4>1 DEF Ages
    <3> QED BY <3>4, <3>5
  <2> QED BY <1>1, <1>2, <2>1, <2>2, <2>3, <2>5, <2>6, <2>7, <2>8, HolderKeeps DEF Holding
<1> QED BY <1>5, <1>6 DEF CreateIssue

LEMMA CommentKeeps == ASSUME UpdateInv, NEW p \in Passes, Comment(p) PROVE UpdateInv'
<1> DEFINE f == pass[p].now
           copy == pass[p].copy
           stage == Stage(day - copy.since)
<1>1. /\ pass[p] \in Turns /\ TurnOK(pass[p], body) /\ linked \subseteq Findings /\ day \in Nat
      /\ body \in [Findings -> Bodies \cup {NoBody}] /\ told \in [Findings -> Seq(1..4)]
  BY UpdateAssumptions DEF UpdateInv, UpdateTypes
<1>2. pass[p].at = "decide" /\ UNCHANGED <<database, day, body, linked, ran>> BY DEF Comment
<1>3. pass[p].made \in Nat /\ pass[p].at \in Holding BY <1>1, <1>2 DEF Turns, Holding
<1>4. CASE NextFinding(p, pass[p].made) /\ UNCHANGED told
  BY <1>1, <1>2, <1>3, <1>4, NextKeeps
<1>5. CASE /\ HasAged(pass[p].sight[f], copy)
           /\ told' = [told EXCEPT ![f] = Append(@, stage)]
           /\ Becomes(p, [pass[p] EXCEPT !.at = "patch", !.copy = [copy EXCEPT !.stage = stage]])
           /\ UNCHANGED filing
  <2>1. copy # NoBody /\ stage > copy.stage BY <1>5 DEF HasAged, Advances
  <2>2. f \in Findings /\ copy = body[f] /\ copy \in Bodies
    BY <1>1, <1>2, <2>1 DEF TurnOK, Holding, Turns
  <2>3. copy.stage \in 0..4 /\ copy.since \in Nat BY <2>2, UpdateAssumptions DEF Bodies
  <2>4. stage \in 1..4
    <3>1. stage \in 0..4 BY <1>1, <2>3, StageTypes
    <3> HIDE DEF stage
    <3> QED BY <2>1, <2>3, <3>1
  <2> DEFINE new == [copy EXCEPT !.stage = stage]
             t == [pass[p] EXCEPT !.at = "patch", !.copy = new]
  <2> HIDE DEF stage
  <2>5. new \in Bodies /\ new.stage = stage BY <2>2, <2>4 DEF Bodies
  <2>6. Becomes(p, t) BY <1>5
  <2> HIDE DEF new
  <2>7. /\ t \in Turns /\ t.at = "patch" /\ t.found = pass[p].found /\ t.sight = pass[p].sight
        /\ t.left = pass[p].left /\ t.seen = pass[p].seen /\ t.now = f /\ t.copy = new
    BY <1>1, <2>5 DEF Turns, Holding
  <2> HIDE DEF t
  <2>8. TurnOK(t, body)
    <3>1. new # NoBody /\ body[f] # NoBody BY <2>1, <2>2, <2>5, BodyKinds
    <3> QED BY <1>1, <1>3, <2>7, <3>1 DEF TurnOK, Holding
  <2>9. \A g : ~\E q \in Passes : Awaits(pass[q], g) BY <1>2, <1>3, OneHolds DEF Awaits
  <2>10. \A g \in Findings : Ages(told[g], body[g], FALSE) BY <2>9 DEF UpdateInv, InOrder, Ages
  <2>11. /\ Append(told[f], stage) \in Seq(1..4) /\ Ages(Append(told[f], stage), body[f], TRUE)
         /\ Append(told[f], stage)[Len(Append(told[f], stage))] = stage
    <3>1. told[f] \in Seq(1..4) /\ Ages(told[f], body[f], FALSE) /\ stage > body[f].stage /\ body[f] \in Bodies
      BY <1>1, <2>1, <2>2, <2>10
    <3> QED BY <2>4, <3>1, AgesMore
  <2>12. told'[f] = Append(told[f], stage) /\ \A g \in Findings \ {f} : told'[g] = told[g]
    BY <1>1, <1>5, <2>2
  <2>13. told' \in [Findings -> Seq(1..4)] BY <1>1, <1>5, <2>2, <2>11
  <2>14. \A g \in Findings : Ages(told'[g], body'[g], Awaits(t, g))
    <3> TAKE g \in Findings
    <3>1. CASE g = f
      <4>1. Awaits(t, g) BY <2>7, <3>1 DEF Awaits
      <4> QED BY <1>2, <2>11, <2>12, <3>1, <4>1 DEF Ages
    <3>2. CASE g # f
      <4>1. ~Awaits(t, g) BY <2>7, <3>2 DEF Awaits
      <4> QED BY <1>2, <2>10, <2>12, <3>2, <4>1 DEF Ages
    <3> QED BY <3>1, <3>2
  <2>15. filing' = p BY <1>3, <1>5, OneHolds
  <2>16. t.copy.stage = told'[t.now][Len(told'[t.now])] BY <2>5, <2>7, <2>11, <2>12
  <2>17. "patch" \in Holding /\ body' = body BY <1>2 DEF Holding
  <2> HIDE DEF f, copy
  <2> QED BY <1>1, <1>2, <1>3, <2>6, <2>7, <2>8, <2>13, <2>14, <2>15, <2>16, <2>17, HolderKeeps
<1> QED BY <1>4, <1>5 DEF Comment

LEMMA EditKeeps == ASSUME UpdateInv, NEW p \in Passes, EditIssueBody(p) PROVE UpdateInv'
<1> DEFINE f == pass[p].now
           t == [pass[p] EXCEPT !.at = "next", !.now = NoFinding, !.copy = NoBody, !.made = pass[p].made]
<1>1. /\ pass[p] \in Turns /\ TurnOK(pass[p], body) /\ linked \subseteq Findings
      /\ body \in [Findings -> Bodies \cup {NoBody}] /\ told \in [Findings -> Seq(1..4)]
  BY DEF UpdateInv, UpdateTypes
<1>2. pass[p].at = "patch" /\ UNCHANGED <<database, day, linked, ran>> /\ NextFinding(p, pass[p].made)
  BY DEF EditIssueBody
<1>3. pass[p].made \in Nat /\ pass[p].at \in Holding /\ NoPass \notin Passes
  BY <1>1, <1>2, UpdateAssumptions DEF Turns, Holding
<1>4. /\ t \in Turns /\ t.at = "next" /\ t.found = pass[p].found /\ t.sight = pass[p].sight
      /\ t.left = pass[p].left /\ t.seen = pass[p].seen
  BY <1>3, NextTurn
<1>5. Becomes(p, t) /\ filing' = NoPass BY <1>2 DEF NextFinding
<1> HIDE DEF t
<1>6. \A b : TurnOK(t, b) BY <1>1, <1>3, <1>4 DEF TurnOK, Holding
<1>7. f \in Findings /\ body[f] \in Bodies /\ pass[p].copy \in Bodies
      /\ pass[p].copy.stage = told[f][Len(told[f])]
  BY <1>1, <1>2 DEF TurnOK, Holding, Turns, UpdateInv
<1> DEFINE s == told[f]
<1>8. s \in Seq(1..4) /\ Ages(s, body[f], TRUE)
  <2>1. \E q \in Passes : Awaits(pass[q], f) BY <1>2 DEF Awaits
  <2> QED BY <1>1, <1>7, <2>1 DEF UpdateInv, InOrder, Ages
<1>9. \A g \in Findings \ {f} : Ages(told[g], body[g], FALSE)
  <2> TAKE g \in Findings \ {f}
  <2>1. ~\E q \in Passes : Awaits(pass[q], g) BY <1>3, OneHolds DEF Awaits
  <2> QED BY <2>1 DEF UpdateInv, InOrder, Ages
<1>10. \A g : ~Awaits(t, g) BY <1>4 DEF Awaits
<1>11. CASE body' = [body EXCEPT ![f] = pass[p].copy] /\ UNCHANGED told
  <2> HIDE DEF f, s
  <2>1. body' \in [Findings -> Bodies \cup {NoBody}] BY <1>1, <1>7, <1>11
  <2>2. \A g \in Findings : Ages(told'[g], body'[g], Awaits(t, g))
    <3> TAKE g \in Findings
    <3>1. CASE g # f BY <1>1, <1>9, <1>10, <1>11, <3>1 DEF Ages
    <3>2. CASE g = f
      <4>1. body'[g] = pass[p].copy /\ told'[g] = s BY <1>1, <1>7, <1>11, <3>2 DEF s
      <4>2. pass[p].copy # NoBody BY <1>7, BodyKinds
      <4> QED BY <1>7, <1>8, <1>10, <4>1, <4>2 DEF Ages, s
    <3> QED BY <3>1, <3>2
  <2> QED BY <1>1, <1>2, <1>3, <1>4, <1>5, <1>6, <1>11, <2>1, <2>2, HolderKeeps DEF Holding
<1>12. CASE told' = [told EXCEPT ![f] = SubSeq(s, 1, Len(s) - 1)] /\ UNCHANGED body
  <2> DEFINE less == SubSeq(s, 1, Len(s) - 1)
  <2>1. less \in Seq(1..4) /\ Ages(less, body[f], FALSE) BY <1>7, <1>8, AgesLess
  <2> HIDE DEF f, less
  <2>2. told' = [told EXCEPT ![f] = less] BY <1>12 DEF less
  <2>3. told' \in [Findings -> Seq(1..4)] BY <1>1, <2>1, <2>2
  <2>4. \A g \in Findings : Ages(told'[g], body'[g], Awaits(t, g))
    <3> TAKE g \in Findings
    <3>1. CASE g # f BY <1>1, <1>9, <1>10, <1>12, <2>2, <3>1 DEF Ages
    <3>2. CASE g = f
      <4>1. body'[g] = body[f] /\ told'[g] = less BY <1>1, <1>7, <1>12, <2>2, <3>2
      <4> QED BY <1>10, <2>1, <4>1 DEF Ages
    <3> QED BY <3>1, <3>2
  <2> QED BY <1>1, <1>2, <1>3, <1>4, <1>5, <1>6, <1>12, <2>3, <2>4, HolderKeeps DEF Holding
<1> QED BY <1>11, <1>12 DEF EditIssueBody, Patched

LEMMA UpdateStep ==
    ASSUME UpdateInv, [UpdateNext]_updateVars
    PROVE  UpdateInv'
<1>1. CASE UNCHANGED updateVars
  BY <1>1 DEF updateVars, UpdateInv, UpdateTypes, InOrder
<1>2. CASE DayPasses
  BY <1>2 DEF DayPasses, UpdateInv, UpdateTypes, InOrder
<1> QED BY <1>1, <1>2, StartKeeps, LookOnKeeps, CreateKeeps, CommentKeeps, EditKeeps, FindKeeps DEF UpdateNext

LEMMA UpdateAlways == UpdateSpec => []UpdateInv
<1>1. UpdateInv /\ [UpdateNext]_updateVars => UpdateInv' BY UpdateStep
<1> QED BY <1>1, UpdateStarts, PTL DEF UpdateSpec

(***************************************************************************)
(* The variables of issue updates keep their types, for any findings,      *)
(* passes and days.                                                        *)
(***************************************************************************)
THEOREM UpdatesTypeCorrect == UpdateSpec => []UpdateTypeOK
<1>1. UpdateInv => UpdateTypeOK
  BY DEF UpdateInv, UpdateTypes, UpdateTypeOK, Turns, Holding, TurnOK
<1> QED BY <1>1, UpdateAlways, PTL

(***************************************************************************)
(* Each stage of an issue's age is announced once, and later ones later,   *)
(* and the body of the issue holds the last: for any number of passes of   *)
(* the process over any findings, whatever comments and edits fail         *)
(* (DecideExistingIssueUpdate, UpsertAgingMarker, issueCreateMu).          *)
(***************************************************************************)
THEOREM AgesAnnouncedOnce == UpdateSpec => []AgedOnce
<1>1. UpdateInv => AgedOnce
  <2> SUFFICES ASSUME UpdateInv, NEW f \in Findings
               PROVE  /\ \A i, j \in DOMAIN told[f] : i < j => told[f][i] < told[f][j]
                      /\ told[f] # <<>> /\ filing = NoPass => body[f].stage = told[f][Len(told[f])]
    BY DEF AgedOnce
  <2>1. told[f] \in Seq(1..4) /\ DOMAIN told[f] = 1..Len(told[f]) BY DEF UpdateInv, UpdateTypes
  <2>2. filing = NoPass => ~\E p \in Passes : Awaits(pass[p], f)
    BY UpdateAssumptions DEF UpdateInv, Awaits, Holding
  <2> QED BY <2>1, <2>2 DEF UpdateInv, InOrder, Ages
<1> QED BY <1>1, UpdateAlways, PTL

------------------------------------------------------------------------------

(***************************************************************************)
(* What is learnt of a rule, and the decisions on it.                      *)
(***************************************************************************)
Deciding == {"look", "create", "accept", "reject", "expire", "revert"}
Learning == {"idle", "backfill", "cluster", "insert_cluster", "pending", "ingest", "rate",
             "insert", "list", "apply"}
Works == [at : Learning \cup Deciding, todo : SUBSET (RuleFindings \cup Nat), id : Nat]
Verdicts == {"proposed", "accepted", "rejected", "reverted"}

LearnTypes == LearnTypeOK /\ work \in [Workers -> Works]

\* Backfills, under way and done, are of findings that were noted as taken early.
Counted ==
    /\ \A w \in Workers : work[w].at = "backfill" => work[w].todo \subseteq early
    /\ \A w \in Workers : work[w].at = "ingest" => work[w].todo \subseteq RuleFindings
    /\ \A f \in RuleFindings : Event("backfill", f) \in events => f \in early

\* A worker has a recommendation exactly while it decides on it, two on one are
\* noted as astray, and who reverts one has left no rule of it active.
Decided ==
    /\ \A w \in Workers : work[w].at \in Deciding <=> work[w].id # 0
    /\ \A w \in Workers : work[w].at \in Deciding \cup {"idle", "apply"} => work[w].todo \subseteq DOMAIN recs
    /\ \A v, w \in Workers : v # w /\ work[v].id = work[w].id => work[w].id = 0 \/ work[w].id \in astray
    /\ \A w \in Workers : work[w].at = "revert" => work[w].id # quiet \/ work[w].id \in astray
    /\ RuleIsRevertible

LearnInv == LearnTypes /\ Counted /\ Decided

LEMMA EventKinds ==
    ASSUME NEW k, NEW l, NEW f, NEW g
    PROVE  Event(k, f) = Event(l, g) <=> k = l /\ f = g
BY DEF Event

LEMMA Outcomes ==
    /\ DOMAIN Outcome = {"accept", "reject", "revert"}
    /\ Outcome["accept"] = "accepted" /\ Outcome["reject"] = "rejected" /\ Outcome["revert"] = "reverted"
BY DEF Outcome

LEMMA ProceedIs ==
    ASSUME LearnTypes, NEW w \in Workers, NEW p \in Learning, NEW t \in SUBSET (RuleFindings \cup Nat),
           Proceed(w, p, t)
    PROVE  /\ work' \in [Workers -> Works]
           /\ work'[w].at = p /\ work'[w].todo = t /\ work'[w].id = 0
           /\ \A v \in Workers \ {w} : work'[v] = work[v]
<1> DEFINE r == [at |-> p, todo |-> t, id |-> 0]
<1>1. r \in Works /\ r.at = p /\ r.todo = t /\ r.id = 0 BY DEF Works
<1>2. work' = [work EXCEPT ![w] = r] /\ work \in [Workers -> Works] BY DEF Proceed, LearnTypes
<1> HIDE DEF r
<1> QED BY <1>1, <1>2

LEMMA GoOnIs ==
    ASSUME LearnTypes, NEW w \in Workers, NEW p \in Deciding, GoOn(w, p)
    PROVE  /\ work' \in [Workers -> Works]
           /\ work'[w].at = p /\ work'[w].todo = work[w].todo /\ work'[w].id = work[w].id
           /\ \A v \in Workers \ {w} : work'[v] = work[v]
<1> DEFINE r == [work[w] EXCEPT !.at = p]
<1>1. work[w] \in Works /\ work \in [Workers -> Works] BY DEF LearnTypes
<1>2. r \in Works /\ r.at = p /\ r.todo = work[w].todo /\ r.id = work[w].id BY <1>1 DEF Works
<1>3. work' = [work EXCEPT ![w] = r] BY DEF GoOn
<1> HIDE DEF r
<1> QED BY <1>1, <1>2, <1>3

LEMMA Widens ==
    ASSUME NEW n \in Nat, NEW m \in Nat, n <= m
    PROVE  0..n \subseteq 0..m /\ 1..n \subseteq 1..m /\ \A k \in 0..n : k # 0 => k \in 1..n
OBVIOUS

LEMMA LearnStarts == LearnInit => LearnInv
<1> SUFFICES ASSUME LearnInit PROVE LearnInv OBVIOUS
<1>1. Resting \in Works /\ Resting.at = "idle" /\ Resting.id = 0 /\ Resting.todo = {} BY DEF Resting, Works, Learning
<1>2. \A w \in Workers : work[w] = Resting BY DEF LearnInit
<1>3. LearnTypeOK
  <2>1. recs = <<>> /\ quiet = 0 /\ Len(recs) = 0 BY DEF LearnInit
  <2>2. MaxRecs \in Nat BY LearningAssumptions
  <2> QED BY <1>1, <1>2, <2>1, <2>2 DEF LearnInit, LearnTypeOK
<1>4. work \in [Workers -> Works] BY <1>1 DEF LearnInit
<1>5. Counted BY <1>1, <1>2 DEF LearnInit, Counted
<1>6. Decided BY <1>1, <1>2 DEF LearnInit, Decided, Deciding, RuleIsRevertible
<1> QED BY <1>3, <1>4, <1>5, <1>6 DEF LearnInv, LearnTypes

\* Requests and advice decide nothing.
LEMMA TellingKeeps ==
    ASSUME LearnInv, NEW f \in RuleFindings,
           \/ \E s \in {"suppressed", "false_positive"} : ApplyFindingSuppression(f, s)
           \/ EmitFalsePositiveMarked(f) \/ Advise(f) \/ EmitClosureVerified(f)
    PROVE  LearnInv'
<1>1. UNCHANGED <<course, recs, quiet, work, early, astray>>
  BY DEF ApplyFindingSuppression, EmitFalsePositiveMarked, Advise, EmitClosureVerified
<1>2. /\ mark' \in [RuleFindings -> {"open", "suppressed", "false_positive", "fixed"}]
      /\ marking' \subseteq RuleFindings /\ advice' \in [RuleFindings -> {"none", "pending", "ingested"}]
  BY DEF LearnInv, LearnTypes, LearnTypeOK, ApplyFindingSuppression, EmitFalsePositiveMarked, Advise,
     EmitClosureVerified
<1>3. events' \subseteq events \cup {Event("mark", f), Event("fixed", f)}
  BY DEF ApplyFindingSuppression, EmitFalsePositiveMarked, Advise, EmitClosureVerified
<1>4. events' \subseteq [kind : {"mark", "backfill", "advice", "fixed"}, of : RuleFindings]
  BY <1>3 DEF Event, LearnInv, LearnTypes, LearnTypeOK
<1>5. LearnTypes' BY <1>1, <1>2, <1>4 DEF LearnInv, LearnTypes, LearnTypeOK
<1>6. Counted' BY <1>1, <1>3, EventKinds DEF LearnInv, Counted
<1>7. Decided' BY <1>1 DEF LearnInv, Decided, RuleIsRevertible
<1> QED BY <1>5, <1>6, <1>7 DEF LearnInv

\* A recompute goes from one stage to another, and decides nothing; it may add
\* a recommendation.
LEMMA ProceedKeeps ==
    ASSUME LearnInv, NEW w \in Workers, NEW p \in Learning, NEW t \in SUBSET (RuleFindings \cup Nat),
           Proceed(w, p, t), work[w].at \notin Deciding,
           UNCHANGED <<course, mark, marking, quiet, astray>>,
           advice' \in [RuleFindings -> {"none", "pending", "ingested"}],
           events' \subseteq [kind : {"mark", "backfill", "advice", "fixed"}, of : RuleFindings],
           early' \subseteq RuleFindings, early \subseteq early',
           recs' \in {recs, Append(recs, "proposed")}, Len(recs') <= MaxRecs,
           p = "backfill" => t \subseteq early', p = "ingest" => t \subseteq RuleFindings, p \in {"idle", "apply"} => t \subseteq DOMAIN recs,
           \A f \in RuleFindings : Event("backfill", f) \in events' => f \in early'
    PROVE  LearnInv'
<1>1. /\ work' \in [Workers -> Works]
      /\ work'[w].at = p /\ work'[w].todo = t /\ work'[w].id = 0
      /\ \A v \in Workers \ {w} : work'[v] = work[v]
  BY ProceedIs DEF LearnInv
<1>2. LearnTypeOK /\ recs \in Seq(Verdicts) /\ Len(recs) \in Nat BY DEF LearnInv, LearnTypes, LearnTypeOK, Verdicts
<1>3. /\ recs' \in Seq(Verdicts) /\ Len(recs') \in Nat /\ Len(recs) <= Len(recs')
      /\ DOMAIN recs = 1..Len(recs) /\ DOMAIN recs' = 1..Len(recs')
      /\ \A i \in DOMAIN recs : recs'[i] = recs[i]
  <2>1. "proposed" \in Verdicts BY DEF Verdicts
  <2>2. CASE recs' = recs BY <1>2, <2>2
  <2>3. CASE recs' = Append(recs, "proposed") BY <1>2, <2>1, <2>3
  <2> QED BY <2>2, <2>3
<1>4. LearnTypeOK'
  <2>1. quiet \in 0..Len(recs') /\ astray \subseteq DOMAIN recs' BY <1>2, <1>3, Widens DEF LearnTypeOK
  <2>2. \A v \in Workers : work'[v].id \in 0..Len(recs')
    <3>0. Len(recs') \in Nat BY <1>3
    <3>1. 0 \in 0..Len(recs') BY <3>0
    <3> QED BY <1>1, <1>2, <1>3, <3>1, Widens DEF LearnTypeOK
  <2> QED BY <1>2, <1>3, <2>1, <2>2 DEF LearnTypeOK, Verdicts
<1>5. Counted' BY <1>1 DEF LearnInv, Counted
<1>6. Decided'
  <2>1. \A v \in Workers : work'[v].at \in Deciding <=> work'[v].id # 0
    <3>1. p \notin Deciding BY DEF Learning, Deciding
    <3> QED BY <1>1, <3>1 DEF LearnInv, Decided
  <2>2. \A v \in Workers : work'[v].at \in Deciding \cup {"idle", "apply"} => work'[v].todo \subseteq DOMAIN recs'
    <3>1. p \notin Deciding /\ DOMAIN recs \subseteq DOMAIN recs'
      BY <1>2, <1>3, Widens DEF Learning, Deciding
    <3> QED BY <1>1, <3>1 DEF LearnInv, Decided
  <2>3. work[w].id = 0 BY DEF LearnInv, Decided
  <2>4. \A v \in Workers : work'[v].id = work[v].id BY <1>1, <2>3
  <2>5. \A v \in Workers : work'[v].at = "revert" => work[v].at = "revert"
    BY <1>1 DEF Learning
  <2>6. RuleIsRevertible'
    <3>1. quiet # 0 => quiet \in DOMAIN recs BY <1>2, <1>3, Widens DEF LearnTypeOK
    <3> QED BY <1>3, <2>4, <3>1 DEF LearnInv, Decided, RuleIsRevertible
  <2> QED BY <2>1, <2>2, <2>4, <2>5, <2>6 DEF LearnInv, Decided
<1> QED BY <1>1, <1>4, <1>5, <1>6 DEF LearnInv, LearnTypes

LEMMA RecomputeKeeps ==
    ASSUME LearnInv, NEW j \in Recomputes,
           \/ StartRecompute(j) \/ Backfill(j) \/ Cluster(j) \/ Insert(j) \/ ListPending(j) \/ Ingest(j)
           \/ Rate(j) \/ ListProposed(j)
    PROVE  LearnInv'
<1>1. j \in Workers /\ LearnTypeOK /\ work[j] \in Works /\ recs \in Seq(Verdicts) /\ MaxRecs \in Nat
  BY LearningAssumptions DEF Workers, LearnInv, LearnTypes, LearnTypeOK, Verdicts
<1> DEFINE Same == /\ UNCHANGED <<course, mark, marking, quiet, astray>>
                   /\ work[j].at \notin Deciding
<1>2. ASSUME NEW p \in Learning \ {"backfill", "ingest", "apply"}, Proceed(j, p, {}), Same,
             UNCHANGED <<advice, events, early>>, recs' \in {recs, Append(recs, "proposed")},
             Len(recs') <= MaxRecs
      PROVE  LearnInv'
  BY <1>1, <1>2, ProceedKeeps DEF LearnInv, Counted, LearnTypeOK
<1>3. CASE StartRecompute(j)
  <2>1. Unheard \subseteq RuleFindings /\ Unheard \subseteq early'
    <3>1. \A f \in Unheard : Event("mark", f) \notin events BY DEF Unheard, Unlearnt, Event
    <3> QED BY <1>3, <3>1 DEF StartRecompute, Unheard
  <2>2. early' \subseteq RuleFindings /\ early \subseteq early'
    BY <1>1, <1>3, <2>1 DEF StartRecompute, LearnTypeOK
  <2>3. Same /\ UNCHANGED <<recs, advice, events>> /\ Proceed(j, "backfill", Unheard)
    BY <1>3 DEF StartRecompute, Deciding
  <2>4. "backfill" \in Learning BY DEF Learning
  <2>5. \A f \in RuleFindings : Event("backfill", f) \in events' => f \in early'
    BY <2>2, <2>3 DEF LearnInv, Counted
  <2> QED BY <1>1, <2>1, <2>2, <2>3, <2>4, <2>5, ProceedKeeps DEF LearnTypeOK
<1>4. CASE Backfill(j)
  <2>1. Same /\ UNCHANGED <<recs, advice, early>> BY <1>4 DEF Backfill, Deciding
  <2>2. CASE \E f \in work[j].todo : /\ events' = events \cup {Event("backfill", f)}
                                     /\ Proceed(j, "backfill", work[j].todo \ {f})
    <3>1. PICK f \in work[j].todo : /\ events' = events \cup {Event("backfill", f)}
                                    /\ Proceed(j, "backfill", work[j].todo \ {f})
      BY <2>2
    <3>2. work[j].todo \subseteq early /\ early \subseteq RuleFindings
      BY <1>1, <1>4 DEF Backfill, LearnInv, Counted, LearnTypeOK
    <3>3. events' \subseteq [kind : {"mark", "backfill", "advice", "fixed"}, of : RuleFindings]
      BY <1>1, <3>1, <3>2 DEF LearnTypeOK, Event
    <3>4. \A g \in RuleFindings : Event("backfill", g) \in events' => g \in early'
      BY <2>1, <3>1, <3>2, EventKinds DEF LearnInv, Counted
    <3>5. "backfill" \in Learning BY DEF Learning
    <3> DEFINE t == work[j].todo \ {f}
    <3>6. t \in SUBSET (RuleFindings \cup Nat) /\ t \subseteq early' BY <2>1, <3>2
    <3>7. Proceed(j, "backfill", t) BY <3>1
    <3> HIDE DEF t
    <3> QED BY <1>1, <2>1, <3>2, <3>3, <3>4, <3>5, <3>6, <3>7, ProceedKeeps DEF LearnTypeOK
  <2>3. CASE Proceed(j, "cluster", {}) /\ UNCHANGED events
    BY <1>1, <1>2, <2>1, <2>3 DEF Learning, LearnTypeOK
  <2> QED BY <1>4, <2>2, <2>3 DEF Backfill
<1>5. CASE Cluster(j)
  <2>1. Same /\ UNCHANGED <<recs, advice, events, early>> BY <1>5 DEF Cluster, Deciding
  <2>2. Proceed(j, "insert_cluster", {}) \/ Proceed(j, "pending", {}) BY <1>5 DEF Cluster
  <2> HIDE DEF Same
  <2> QED BY <1>1, <1>2, <2>1, <2>2 DEF Learning, LearnTypeOK
<1>6. CASE Insert(j)
  <2>1. Same /\ UNCHANGED <<advice, events, early>> BY <1>6 DEF Insert, Deciding
  <2>2. Proceed(j, "list", {}) \/ Proceed(j, "pending", {}) BY <1>6 DEF Insert
  <2>3. recs' \in {recs, Append(recs, "proposed")} /\ Len(recs') <= MaxRecs
    BY <1>1, <1>6 DEF Insert, LearnTypeOK
  <2> HIDE DEF Same
  <2> QED BY <1>2, <2>1, <2>2, <2>3 DEF Learning
<1>7. CASE ListPending(j)
  <2> DEFINE t == {f \in RuleFindings : advice[f] = "pending"}
  <2>1. Same /\ UNCHANGED <<recs, advice, events, early>> /\ Proceed(j, "ingest", t)
    BY <1>7 DEF ListPending, Deciding
  <2>2. t \in SUBSET (RuleFindings \cup Nat) /\ t \subseteq RuleFindings /\ "ingest" \in Learning BY DEF Learning
  <2> HIDE DEF t
  <2> QED BY <1>1, <2>1, <2>2, ProceedKeeps DEF LearnTypeOK, LearnInv, Counted
<1>8. CASE Ingest(j)
  <2>1. Same /\ UNCHANGED <<recs, early>> /\ work[j].at = "ingest" BY <1>8 DEF Ingest, Deciding
  <2>2. CASE Proceed(j, "rate", {}) /\ UNCHANGED <<advice, events>>
    BY <1>1, <1>2, <2>1, <2>2 DEF Learning, LearnTypeOK
  <2>3. CASE \E f \in work[j].todo : /\ events' = events /\ Event("advice", f) \in events
                                     /\ advice' = [advice EXCEPT ![f] = "ingested"]
                                     /\ Proceed(j, "ingest", work[j].todo \ {f})
    <3>1. PICK f \in work[j].todo : /\ events' = events /\ advice' = [advice EXCEPT ![f] = "ingested"]
                                    /\ Proceed(j, "ingest", work[j].todo \ {f})
      BY <2>3
    <3> DEFINE t == work[j].todo \ {f}
    <3>2. t \in SUBSET (RuleFindings \cup Nat) /\ t \subseteq RuleFindings BY <1>1, <2>1 DEF LearnInv, Counted
    <3>3. Proceed(j, "ingest", t) BY <3>1
    <3>4. advice' \in [RuleFindings -> {"none", "pending", "ingested"}] BY <1>1, <3>1 DEF LearnTypeOK
    <3>5. "ingest" \in Learning BY DEF Learning
    <3> HIDE DEF t
    <3> QED BY <1>1, <2>1, <3>1, <3>2, <3>3, <3>4, <3>5, ProceedKeeps DEF LearnTypeOK, LearnInv, Counted
  <2>4. CASE \E f \in work[j].todo : /\ events' = events \cup {Event("advice", f)}
                                     /\ UNCHANGED <<advice, work>>
    <3>1. PICK f \in work[j].todo : events' = events \cup {Event("advice", f)} /\ UNCHANGED <<advice, work>>
      BY <2>4
    <3>2. f \in RuleFindings BY <1>1, <2>1, <3>1 DEF LearnInv, Counted
    <3>3. LearnTypes' /\ Decided'
      BY <1>1, <2>1, <3>1, <3>2 DEF LearnInv, LearnTypes, LearnTypeOK, Decided, RuleIsRevertible, Event
    <3>4. Counted' BY <2>1, <3>1, EventKinds DEF LearnInv, Counted
    <3> QED BY <3>3, <3>4 DEF LearnInv
  <2> QED BY <1>8, <2>2, <2>3, <2>4 DEF Ingest
<1>9. CASE Rate(j)
  <2>1. Same /\ UNCHANGED <<recs, advice, events, early>> BY <1>9 DEF Rate, Deciding
  <2>2. Proceed(j, "insert", {}) \/ Proceed(j, "list", {}) BY <1>9 DEF Rate
  <2> HIDE DEF Same
  <2> QED BY <1>1, <1>2, <2>1, <2>2 DEF Learning, LearnTypeOK
<1>10. CASE ListProposed(j)
  <2> DEFINE t == IF course.auto THEN {i \in DOMAIN recs : recs[i] = "proposed"} ELSE {}
  <2>1. Same /\ UNCHANGED <<recs, advice, events, early>> /\ Proceed(j, "apply", t)
    BY <1>10 DEF ListProposed, Deciding
  <2>2. t \subseteq DOMAIN recs /\ DOMAIN recs = 1..Len(recs) /\ "apply" \in Learning BY <1>1 DEF Learning
  <2>3. t \in SUBSET (RuleFindings \cup Nat) BY <1>1, <2>2
  <2> HIDE DEF t
  <2> QED BY <1>1, <2>1, <2>2, <2>3, ProceedKeeps DEF LearnTypeOK, LearnInv, Counted
<1> QED BY <1>3, <1>4, <1>5, <1>6, <1>7, <1>8, <1>9, <1>10

(***************************************************************************)
(* Decisions.                                                              *)
(***************************************************************************)
\* What a step of a decision has to show, as it feeds nothing.
LEMMA DecidingKeeps ==
    ASSUME LearnInv, NEW w \in Workers, UNCHANGED <<course, mark, marking, advice, events, early>>,
           recs' \in Seq(Verdicts), Len(recs') = Len(recs), DOMAIN recs' = DOMAIN recs,
           quiet' \in 0..Len(recs), astray' \subseteq DOMAIN recs, astray \subseteq astray',
           work' \in [Workers -> Works], \A v \in Workers \ {w} : work'[v] = work[v],
           work'[w].id \in 0..Len(recs), work'[w].at \notin {"backfill", "ingest"},
           work'[w].at \in Deciding <=> work'[w].id # 0,
           work'[w].at \in Deciding \cup {"idle", "apply"} => work'[w].todo \subseteq DOMAIN recs,
           \A v \in Workers \ {w} :
              work'[w].id # 0 /\ work[v].id = work'[w].id => work'[w].id \in astray',
           \A v \in Workers : work'[v].at = "revert" => work'[v].id # quiet' \/ work'[v].id \in astray',
           RuleIsRevertible'
    PROVE  LearnInv'
<1>1. LearnTypes' BY DEF LearnInv, LearnTypes, LearnTypeOK, Verdicts
<1>2. Counted' BY DEF LearnInv, Counted
<1>3. ASSUME NEW u \in Workers, NEW v \in Workers, u # v, work'[u].id = work'[v].id
      PROVE  work'[v].id = 0 \/ work'[v].id \in astray'
  BY <1>3 DEF LearnInv, Decided
<1>4. Decided' BY <1>3 DEF LearnInv, Decided
<1> QED BY <1>1, <1>2, <1>4 DEF LearnInv

LEMMA DecideKeeps ==
    ASSUME LearnInv, NEW w \in Workers, NEW p \in {"look", "reject", "expire"}, NEW i \in DOMAIN recs,
           work[w].at \in {"idle", "apply"}, Decide(w, p, i),
           UNCHANGED <<course, mark, marking, advice, events, recs, quiet, early>>
    PROVE  LearnInv'
<1>1. LearnTypeOK /\ work[w] \in Works /\ work \in [Workers -> Works] /\ recs \in Seq(Verdicts)
      /\ DOMAIN recs = 1..Len(recs) /\ Len(recs) \in Nat /\ astray \subseteq DOMAIN recs
  BY DEF LearnInv, LearnTypes, LearnTypeOK, Verdicts
<1> DEFINE r == [at |-> p, todo |-> work[w].todo \ {i}, id |-> i]
<1>2. i \in Nat /\ i # 0 /\ i \in 0..Len(recs) BY <1>1
<1>3. r \in Works /\ r.at = p /\ r.todo \subseteq work[w].todo /\ r.id = i BY <1>1, <1>2 DEF Works, Deciding
<1>4. work' = [work EXCEPT ![w] = r] BY DEF Decide
<1> HIDE DEF r
<1>5. /\ work' \in [Workers -> Works] /\ work'[w] = r /\ \A v \in Workers \ {w} : work'[v] = work[v]
  BY <1>1, <1>3, <1>4
<1>6. astray' \subseteq DOMAIN recs /\ astray \subseteq astray' BY <1>1 DEF Decide
<1>7. \A v \in Workers \ {w} : work[v].id = i => i \in astray' BY DEF Decide, Crossing
<1>8. work[w].id = 0 BY DEF LearnInv, Decided, Deciding
<1>9. work[w].todo \subseteq DOMAIN recs BY DEF LearnInv, Decided
<1>10. RuleIsRevertible' BY <1>3, <1>5, <1>6, <1>8 DEF LearnInv, Decided, RuleIsRevertible
<1>11. \A v \in Workers : work'[v].at = "revert" => work'[v].id # quiet' \/ work'[v].id \in astray'
  BY <1>3, <1>5, <1>6 DEF LearnInv, Decided
<1>12. p \in Deciding /\ p \notin {"backfill", "ingest"} BY DEF Deciding
<1>13. quiet' \in 0..Len(recs) BY <1>1 DEF LearnTypeOK
<1> QED BY <1>1, <1>2, <1>3, <1>5, <1>6, <1>7, <1>9, <1>10, <1>11, <1>12, <1>13, DecidingKeeps

\* A worker goes on with its decision; the rule may be switched on or off.
LEMMA GoOnKeeps ==
    ASSUME LearnInv, NEW w \in Workers, NEW p \in Deciding, work[w].at \in Deciding, GoOn(w, p),
           UNCHANGED <<course, mark, marking, advice, events, recs, early, astray>>,
           quiet' \in {0, quiet, work[w].id},
           p = "revert" => quiet' # work[w].id,
           quiet' = quiet \/ quiet' = 0 \/ (quiet' = work[w].id /\ p # "revert")
    PROVE  LearnInv'
<1>1. LearnTypeOK /\ recs \in Seq(Verdicts) /\ Len(recs) \in Nat /\ astray \subseteq DOMAIN recs
      /\ quiet \in 0..Len(recs) /\ work[w].id \in 0..Len(recs) /\ 0 \in 0..Len(recs)
  <2>1. LearnTypeOK /\ recs \in Seq(Verdicts) BY DEF LearnInv, LearnTypes, LearnTypeOK, Verdicts
  <2>2. Len(recs) \in Nat BY <2>1
  <2> QED BY <2>1, <2>2 DEF LearnTypeOK
<1>2. /\ work' \in [Workers -> Works]
      /\ work'[w].at = p /\ work'[w].todo = work[w].todo /\ work'[w].id = work[w].id
      /\ \A v \in Workers \ {w} : work'[v] = work[v]
  BY GoOnIs DEF LearnInv
<1>3. work[w].id # 0 /\ work[w].todo \subseteq DOMAIN recs BY DEF LearnInv, Decided
<1>4. \A v \in Workers \ {w} : work[v].id = work[w].id => work[w].id \in astray BY <1>3 DEF LearnInv, Decided
<1>5. \A v \in Workers : work'[v].at = "revert" => work'[v].id # quiet' \/ work'[v].id \in astray'
  <2>1. ASSUME NEW v \in Workers \ {w}, work[v].at = "revert" PROVE work[v].id # quiet' \/ work[v].id \in astray
    <3>1. work[v].id # 0 BY <2>1 DEF LearnInv, Decided, Deciding
    <3>2. work[v].id # quiet \/ work[v].id \in astray BY <2>1 DEF LearnInv, Decided
    <3> QED BY <1>4, <3>1, <3>2
  <2> QED BY <1>2, <2>1
<1>6. RuleIsRevertible'
  <2>1. \A v \in Workers : work'[v].id = work[v].id BY <1>2
  <2> QED BY <2>1 DEF LearnInv, Decided, RuleIsRevertible
<1>7. p \notin {"backfill", "ingest"} BY DEF Deciding
<1>8. quiet' \in 0..Len(recs) BY <1>1
<1> QED BY <1>1, <1>2, <1>3, <1>4, <1>5, <1>6, <1>7, <1>8, DecidingKeeps

LEMMA StatusKeeps ==
    ASSUME LearnInv, NEW w \in Workers, UpdateStatus(w)
    PROVE  LearnInv'
<1> DEFINE i == work[w].id
           p == IF w = Operator THEN "idle" ELSE "apply"
           r == [work[w] EXCEPT !.at = p, !.id = 0]
<1>1. LearnTypeOK /\ work[w] \in Works /\ work \in [Workers -> Works] /\ recs \in Seq(Verdicts)
      /\ DOMAIN recs = 1..Len(recs) /\ Len(recs) \in Nat /\ astray \subseteq DOMAIN recs /\ quiet \in 0..Len(recs)
  BY DEF LearnInv, LearnTypes, LearnTypeOK, Verdicts
<1>2. work[w].at \in {"accept", "reject", "revert"} BY Outcomes DEF UpdateStatus
<1>3. i # 0 /\ i \in DOMAIN recs /\ work[w].todo \subseteq DOMAIN recs
  <2>1. i # 0 /\ work[w].todo \subseteq DOMAIN recs BY <1>2 DEF LearnInv, Decided, Deciding
  <2>2. i \in 0..Len(recs) BY <1>1 DEF LearnTypeOK
  <2> HIDE DEF i
  <2> QED BY <1>1, <2>1, <2>2, Widens
<1>4. Outcome[work[w].at] \in Verdicts /\ (work[w].at = "accept" => Outcome[work[w].at] = "accepted")
  BY <1>2, Outcomes DEF Verdicts
<1>5. r \in Works /\ r.at = p /\ r.todo = work[w].todo /\ r.id = 0 BY <1>1 DEF Works, Learning
<1>6. /\ recs' = [recs EXCEPT ![i] = Outcome[work[w].at]]
      /\ astray' = (IF work[w].at = "reject" /\ quiet = i THEN astray \cup {i} ELSE astray)
      /\ work' = [work EXCEPT ![w] = r]
      /\ UNCHANGED <<course, mark, marking, advice, events, quiet, early>>
  BY DEF UpdateStatus
<1>7. p \in {"idle", "apply"} OBVIOUS
<1>8. \A v \in Workers \ {w} : work[v].id = i => i \in astray BY <1>3 DEF LearnInv, Decided
<1>9. work[w].at = "revert" => i # quiet \/ i \in astray BY DEF LearnInv, Decided
<1> HIDE DEF i, p, r
<1>10. /\ recs' \in Seq(Verdicts) /\ Len(recs') = Len(recs) /\ DOMAIN recs' = DOMAIN recs
       /\ recs'[i] = Outcome[work[w].at] /\ \A k \in DOMAIN recs \ {i} : recs'[k] = recs[k]
  BY <1>1, <1>3, <1>4, <1>6
<1>11. work' \in [Workers -> Works] /\ work'[w] = r /\ \A v \in Workers \ {w} : work'[v] = work[v]
  BY <1>1, <1>5, <1>6
<1>12. astray' \subseteq DOMAIN recs /\ astray \subseteq astray' BY <1>1, <1>3, <1>6
<1>13. \A v \in Workers : work'[v].at = "revert" => work'[v].id # quiet' \/ work'[v].id \in astray'
  BY <1>5, <1>6, <1>7, <1>11, <1>12 DEF LearnInv, Decided
<1>14. RuleIsRevertible'
  <2>1. SUFFICES ASSUME quiet # 0, \A v \in Workers : work'[v].id # quiet
                 PROVE  recs'[quiet] \in {"accepted", "proposed"} \/ quiet \in astray'
    BY <1>6 DEF RuleIsRevertible
  <2>2. CASE quiet = i
    BY <1>2, <1>4, <1>6, <1>9, <1>10, <2>2
  <2>3. CASE quiet # i
    <3>1. \A v \in Workers : work[v].id # quiet BY <1>11, <2>1, <2>3 DEF i
    <3>2. quiet \in DOMAIN recs BY <1>1, <2>1, Widens
    <3>3. recs[quiet] \in {"accepted", "proposed"} \/ quiet \in astray
      BY <2>1, <3>1 DEF LearnInv, Decided, RuleIsRevertible
    <3> QED BY <1>10, <1>12, <2>3, <3>2, <3>3
  <2> QED BY <2>2, <2>3
<1>15. p \notin Deciding /\ p \notin {"backfill", "ingest"} BY <1>7 DEF Deciding
<1>16. 0 \in 0..Len(recs) /\ quiet' \in 0..Len(recs) BY <1>1, <1>6
<1> QED BY <1>3, <1>5, <1>6, <1>10, <1>11, <1>12, <1>13, <1>14, <1>15, <1>16, DecidingKeeps

LEMMA GiveUpKeeps ==
    ASSUME LearnInv, NEW w \in Workers, GiveUp(w)
    PROVE  LearnInv'
<1>1. LearnTypeOK /\ recs \in Seq(Verdicts) /\ DOMAIN recs = 1..Len(recs) /\ Len(recs) \in Nat
      /\ astray \subseteq DOMAIN recs /\ quiet \in 0..Len(recs)
  BY DEF LearnInv, LearnTypes, LearnTypeOK, Verdicts
<1>2. /\ work' \in [Workers -> Works]
      /\ work'[w].at = "idle" /\ work'[w].todo = {} /\ work'[w].id = 0
      /\ \A v \in Workers \ {w} : work'[v] = work[v]
  <2>1. Proceed(w, "idle", {}) /\ "idle" \in Learning BY DEF GiveUp, Learning
  <2> QED BY <2>1, ProceedIs DEF LearnInv
<1>3. /\ astray' = astray \cup {i \in DOMAIN recs : work[w].id = i}
      /\ UNCHANGED <<course, mark, marking, advice, events, recs, quiet, early>>
  BY DEF GiveUp
<1>4. astray' \subseteq DOMAIN recs /\ astray \subseteq astray' BY <1>1, <1>3
<1>5. RuleIsRevertible'
  <2>1. SUFFICES ASSUME quiet # 0, \A v \in Workers : work'[v].id # quiet
                 PROVE  recs[quiet] \in {"accepted", "proposed"} \/ quiet \in astray'
    BY <1>3 DEF RuleIsRevertible
  <2>2. quiet \in DOMAIN recs BY <1>1, <2>1, Widens
  <2>3. CASE work[w].id = quiet BY <1>3, <2>2, <2>3
  <2>4. CASE work[w].id # quiet
    BY <1>2, <1>4, <2>1, <2>4 DEF LearnInv, Decided, RuleIsRevertible
  <2> QED BY <2>3, <2>4
<1>6. \A v \in Workers : work'[v].at = "revert" => work'[v].id # quiet' \/ work'[v].id \in astray'
  BY <1>2, <1>3, <1>4 DEF LearnInv, Decided
<1>7. 0 \in 0..Len(recs) /\ "idle" \notin Deciding BY <1>1 DEF Deciding
<1> QED BY <1>1, <1>2, <1>3, <1>4, <1>5, <1>6, <1>7, DecidingKeeps

LEMMA DecisionKeeps ==
    ASSUME LearnInv, NEW w \in Workers,
           \/ ApplyNext(w) \/ Look(w) \/ CreateRule(w) \/ ExpireRules(w)
           \/ w = Operator /\ \E i \in 1..MaxRecs : OperatorDecides(i)
    PROVE  LearnInv'
<1>1. LearnTypeOK /\ work[w] \in Works /\ recs \in Seq(Verdicts) /\ Len(recs) <= MaxRecs
  BY DEF LearnInv, LearnTypes, LearnTypeOK, Verdicts
<1>2. CASE ApplyNext(w)
  <2>1. work[w].at = "apply" /\ UNCHANGED <<course, mark, marking, advice, events, recs, quiet, early>>
    BY <1>2 DEF ApplyNext
  <2>2. ASSUME NEW i \in work[w].todo, Decide(w, "look", i) PROVE LearnInv'
    <3>1. i \in DOMAIN recs BY <2>1, <2>2 DEF LearnInv, Decided
    <3> QED BY <2>1, <2>2, <3>1, DecideKeeps
  <2>3. CASE Proceed(w, "idle", {}) /\ UNCHANGED astray
    <3>1. "idle" \in Learning /\ work[w].at \notin Deciding BY <2>1 DEF Learning, Deciding
    <3>2. \A f \in RuleFindings : Event("backfill", f) \in events' => f \in early'
      BY <2>1 DEF LearnInv, Counted
    <3> QED BY <1>1, <2>1, <2>3, <3>1, <3>2, ProceedKeeps DEF LearnTypeOK
  <2> QED BY <1>2, <2>2, <2>3 DEF ApplyNext
<1>3. CASE Look(w)
  <2>1. work[w].at \in Deciding /\ {"accept", "create"} \subseteq Deciding
    BY <1>3 DEF Look, Deciding
  <2>2. GoOn(w, "accept") \/ GoOn(w, "create") BY <1>3 DEF Look
  <2> QED BY <1>3, <2>1, <2>2, GoOnKeeps DEF Look
<1>4. CASE CreateRule(w)
  <2>1. work[w].at \in Deciding /\ "accept" \in Deciding BY <1>4 DEF CreateRule, Deciding
  <2> QED BY <1>4, <2>1, GoOnKeeps DEF CreateRule
<1>5. CASE ExpireRules(w)
  <2>1. work[w].at \in Deciding /\ "revert" \in Deciding BY <1>5 DEF ExpireRules, Deciding
  <2>2. work[w].id # 0 BY <2>1 DEF LearnInv, Decided
  <2>3. quiet' \in {0, quiet} /\ quiet' # work[w].id BY <1>5, <2>2 DEF ExpireRules, Expired
  <2> QED BY <1>5, <2>1, <2>3, GoOnKeeps DEF ExpireRules
<1>6. CASE w = Operator /\ \E i \in 1..MaxRecs : OperatorDecides(i)
  <2>1. PICK i \in DOMAIN recs :
          /\ work[w].at = "idle" /\ \E p \in {"look", "reject", "expire"} : Decide(w, p, i)
          /\ UNCHANGED <<course, mark, marking, advice, events, recs, quiet, early>>
    BY <1>6 DEF OperatorDecides
  <2> QED BY <2>1, DecideKeeps
<1> QED BY <1>2, <1>3, <1>4, <1>5, <1>6

LEMMA LearnStep ==
    ASSUME LearnInv, [LearnNext]_learnVars
    PROVE  LearnInv'
<1>1. CASE UNCHANGED learnVars
  BY <1>1 DEF learnVars, LearnInv, LearnTypes, LearnTypeOK, Counted, Decided, RuleIsRevertible
<1>2. Recomputes \subseteq Workers /\ Operator \in Workers BY DEF Workers
<1>3. ASSUME NEW j \in Recomputes, StartRecompute(j) \/ RecomputeStep(j) PROVE LearnInv'
  <2>1. CASE \/ StartRecompute(j) \/ Backfill(j) \/ Cluster(j) \/ Insert(j) \/ ListPending(j) \/ Ingest(j)
             \/ Rate(j) \/ ListProposed(j)
    BY <2>1, RecomputeKeeps
  <2>2. CASE ApplyNext(j) \/ Look(j) \/ CreateRule(j) BY <1>2, <2>2, DecisionKeeps
  <2>3. CASE UpdateStatus(j) BY <1>2, <2>3, StatusKeeps
  <2> QED BY <1>3, <2>1, <2>2, <2>3 DEF RecomputeStep
<1>4. CASE \E i \in 1..MaxRecs : OperatorDecides(i) BY <1>2, <1>4, DecisionKeeps
<1>5. CASE Look(Operator) \/ CreateRule(Operator) \/ ExpireRules(Operator) BY <1>2, <1>5, DecisionKeeps
<1>6. CASE UpdateStatus(Operator) BY <1>2, <1>6, StatusKeeps
<1>7. ASSUME NEW w \in Workers, GiveUp(w) PROVE LearnInv' BY <1>7, GiveUpKeeps
<1>8. ASSUME NEW f \in RuleFindings,
             \/ \E s \in {"suppressed", "false_positive"} : ApplyFindingSuppression(f, s)
             \/ EmitFalsePositiveMarked(f) \/ Advise(f) \/ EmitClosureVerified(f)
      PROVE  LearnInv'
  BY <1>8, TellingKeeps
<1> QED BY <1>1, <1>3, <1>4, <1>5, <1>6, <1>7, <1>8 DEF LearnNext

LEMMA LearnInvAccountable == LearnInv => LearningIsAccountable
BY DEF LearnInv, Counted, Decided, LearningIsAccountable, CountedOnce

LEMMA LearnAlways == LearnSpec => []LearnInv
<1>1. LearnInv /\ [LearnNext]_learnVars => LearnInv' BY LearnStep
<1> QED BY <1>1, LearnStarts, PTL DEF LearnSpec

(***************************************************************************)
(* The variables of learning keep their types, for any number of findings, *)
(* recomputes and recommendations, whoever dies when.                      *)
(***************************************************************************)
THEOREM LearningTypeCorrect == LearnSpec => []LearnTypeOK
<1>1. LearnInv => LearnTypeOK BY DEF LearnInv, LearnTypes
<1> QED BY <1>1, LearnAlways, PTL

(***************************************************************************)
(* What was learnt can be accounted for: no disposition is fed in twice by *)
(* the backfill, unless it was taken before its own event was recorded,    *)
(* and no finding stays quieted by a rule that no decision can reach,      *)
(* however recomputes and an operator's decisions cross, unless decisions  *)
(* on one recommendation crossed or were cut short                         *)
(* (BackfillFalsePositiveLearningEvents, CreateRepoCalibrationRule,        *)
(* ExpireRepoCalibrationRulesByRecommendation).                            *)
(***************************************************************************)
THEOREM LearningAccounted == LearnSpec => []LearningIsAccountable
BY LearnAlways, LearnInvAccountable, PTL


(***************************************************************************)
(* The instance that TLC checks: a behaviour of MCBackground is a          *)
(* behaviour of every part, so that the theorems above, and those of       *)
(* SchedulerProofs, hold in it.                                            *)
(***************************************************************************)
LEMMA BackgroundIsParts ==
    BackgroundSpec => Spec /\ UpdateSpec /\ LabelsSpec /\ ToolsSpec /\ LearnSpec
<1>1. BackgroundInit => Init /\ UpdateInit /\ LabelsInit /\ ToolsInit /\ LearnInit
  BY DEF BackgroundInit
<1>2. [BackgroundNext]_background =>
        /\ [Next]_vars /\ [UpdateNext]_updateVars /\ [LabelsNext]_labelVars
        /\ [ToolsNext]_toolsVars /\ [LearnNext]_learnVars
  BY DEF BackgroundNext, background
<1> QED BY <1>1, <1>2, PTL DEF BackgroundSpec, Spec, UpdateSpec, LabelsSpec, ToolsSpec, LearnSpec

(***************************************************************************)
(* The types of everything that goes on behind the scans.                  *)
(***************************************************************************)
THEOREM BackgroundTypeCorrect == BackgroundSpec => []BackgroundTypeOK
<1>1. TypeOK /\ UpdateTypeOK /\ LabelsTypeOK /\ ToolsTypeOK /\ LearnTypeOK => BackgroundTypeOK
  BY DEF BackgroundTypeOK
<1> QED
  BY <1>1, BackgroundIsParts, TypeCorrect, UpdatesTypeCorrect, LabelsTypeCorrect,
     ToolsTypeCorrect, LearningTypeCorrect, PTL
==============================================================================
