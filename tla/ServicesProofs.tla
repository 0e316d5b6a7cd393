--------------------------- MODULE ServicesProofs ----------------------------
(***************************************************************************)
(* Theorems about what a process does for one scan or request: the claim   *)
(* of the first-run tuning, the rows of scans, the AI auditors, the status *)
(* and the summary of a pull request, the audit of a package, and the      *)
(* attempts at a patch.  Each part proves the invariants of one module;    *)
(* the last carries them over to the instance that TLC checks.             *)
(***************************************************************************)
EXTENDS MCServices, WebhookDeliveryProofs, FiniteSetTheorems, SequenceTheorems, TLAPS

(***************************************************************************)
(* The claim of the first-run tuning.                                      *)
(***************************************************************************)
\* No goroutine outlives the window of staleness.
Prompt == \A e \in Setups : "slow" \notin e.faults

\* A handler whose goroutine may still come to write under the claim, and one
\* that is about to give the claim back or to find that the tuning is recorded.
Writing == {"gate", "giveback", "go", "packet", "model", "apply", "put"}
TunedBy(h) == [state |-> "tuned", by |-> h, stale |-> FALSE]

\* A claim has one goroutine behind it, and is stale only when that one is gone;
\* who read the row for a release has read what it still is, and who read it for
\* a takeover has read a stale claim.
TuningInv ==
    /\ setup \in Setups
    /\ TuningTypeOK
    /\ claim.state # "claimed" => ~claim.stale
    /\ claim.state = "claimed" =>
         /\ claim.by \in Handlers
         /\ tpc[claim.by] \in {"gate", "giveback", "givenback", "quit"} \cup Background
         /\ claim.stale => tpc[claim.by] = "quit"
    /\ \A h \in Handlers :
         /\ tpc[h] \in Writing => claim = ClaimBy(h)
         /\ tpc[h] = "release" => claim \in {ClaimBy(h), TunedBy(h)}
         /\ tpc[h] \in {"delete", "givenback"} =>
              claim \in {ClaimBy(h), TunedBy(h)} /\ seen[h] = claim
         /\ tpc[h] = "replace" => seen[h].state = "claimed" /\ seen[h].stale

\* What is said of the claim beside the types.
Owned == ApplierHoldsClaim /\ ClaimIsTended

LEMMA TuningInvOwned == TuningInv => Owned
BY DEF TuningInv, Owned, ApplierHoldsClaim, ClaimIsTended, Writing, Background

LEMMA ClaimKinds ==
    ASSUME NEW h \in Handlers
    PROVE  /\ ClaimBy(h) \in Claims /\ TunedBy(h) \in Claims /\ NoClaim \in Claims
           /\ ClaimBy(h).state = "claimed" /\ ClaimBy(h).by = h /\ ClaimBy(h).stale = FALSE
           /\ TunedBy(h).state = "tuned" /\ TunedBy(h).by = h /\ TunedBy(h).stale = FALSE
           /\ NoClaim.state = "none" /\ NoClaim.stale = FALSE
BY DEF ClaimBy, TunedBy, NoClaim, Claims

\* A claim, or a tuning, is the business of one goroutine.
LEMMA OneTends ==
    ASSUME TuningInv, NEW h \in Handlers, claim \in {ClaimBy(h), TunedBy(h)}
    PROVE  \A g \in Handlers \ {h} : tpc[g] \notin Writing \cup {"release", "delete", "givenback"}
<1>1. claim.by = h BY ClaimKinds
<1>2. \A g \in Handlers : claim \in {ClaimBy(g), TunedBy(g)} => claim.by = g BY ClaimKinds
<1>3. \A g \in Handlers : tpc[g] \in Writing \cup {"release", "delete", "givenback"}
                             => claim \in {ClaimBy(g), TunedBy(g)}
  BY DEF TuningInv
<1> QED BY <1>1, <1>2, <1>3

LEMMA SetupStays ==
    /\ \A h \in Handlers : HandlerStep(h) \/ AfterReview(h) => setup' = setup
    /\ \A r \in Readers : ReaderStep(r) => setup' = setup
    /\ Restart => setup' = setup
<1>1. ASSUME NEW h \in Handlers, HandlerStep(h) PROVE setup' = setup
  BY <1>1 DEF HandlerStep, CheckScanAdmission, EnsureManualScanVisible, BeginPersistedScan, SkipDisabledPush,
     FinishScan, RecordSBOM, MarkDryRun, PersistScanFindings, MarkPersisted, MarkPersistenceFailed,
     IsPersistenceComplete, FileIssues, MarkIssueSyncComplete, MarkIssueSyncSkipped, UpdateScanPipelineState
<1>2. ASSUME NEW r \in Readers, ReaderStep(r) PROVE setup' = setup
  BY <1>2 DEF ReaderStep, FindReconcilable, HealIssueSync, UpdateScanPipelineState
<1> QED BY <1>1, <1>2 DEF AfterReview, Restart

LEMMA TuneStepKeepsSetup ==
    ASSUME NEW h \in Handlers, TuneStep(h)
    PROVE  setup' = setup
BY SetupStays DEF TuneStep, ShouldRunFirstRunAIRuleTuning, PassReview, TryInsertOperatorEvidence,
   ReplaceOperatorEvidenceIfStale, LoseClaim, EarlyRelease, StartReview, LookForReview, BuildPacket,
   ModelAnswers, ApplyRules, PutTuned, ReadForRelease, ReleaseClaim, GiveBackClaim, scanVars

\* A step of the tuning that leaves the claim alone: where it may lead.
LEMMA ClaimUntouched ==
    ASSUME TuningInv, setup' = setup, claim' = claim, seen' = seen, reviewed' \subseteq Scans,
           NEW h \in Handlers, NEW s \in TuneSteps, tpc' = [tpc EXCEPT ![h] = s],
           s \in Writing => tpc[h] \in Writing,
           s = "release" => tpc[h] \in Writing \cup {"release"},
           s \notin {"delete", "givenback", "replace", "none"},
           s \in {"claim", "lost", "end"} => tpc[h] \in {"none", "claim", "replace", "lost"}
    PROVE  TuningInv'
<1>1. tpc' \in [Handlers -> TuneSteps] /\ tpc'[h] = s /\ \A g \in Handlers \ {h} : tpc'[g] = tpc[g]
  BY DEF TuningInv, TuningTypeOK
<1>2. ASSUME NEW g \in Handlers
      PROVE  /\ tpc'[g] \in Writing => claim' = ClaimBy(g)
             /\ tpc'[g] = "release" => claim' \in {ClaimBy(g), TunedBy(g)}
             /\ tpc'[g] \in {"delete", "givenback"} =>
                  claim' \in {ClaimBy(g), TunedBy(g)} /\ seen'[g] = claim'
             /\ tpc'[g] = "replace" => seen'[g].state = "claimed" /\ seen'[g].stale
  BY <1>1 DEF TuningInv, Writing
<1>3. claim.state = "claimed" =>
         /\ tpc'[claim.by] \in {"gate", "giveback", "givenback", "quit"} \cup Background
         /\ claim.stale => tpc'[claim.by] = "quit"
  <2>1. CASE claim.by # h BY <1>1, <2>1 DEF TuningInv
  <2>2. CASE claim.by = h /\ claim.state = "claimed"
    <3>1. tpc[h] \in {"gate", "giveback", "givenback", "quit"} \cup Background
      BY <2>2 DEF TuningInv
    <3>2. s \in {"gate", "giveback", "givenback", "quit"} \cup Background
      BY <3>1 DEF TuneSteps, Background
    <3>3. claim.stale => tpc[h] = "quit" BY <2>2 DEF TuningInv
    <3>4. claim.stale => s = "quit"
      BY <3>2, <3>3 DEF Background, Writing
    <3> QED BY <1>1, <2>2, <3>2, <3>4
  <2> QED BY <2>1, <2>2
<1> QED BY <1>1, <1>2, <1>3 DEF TuningInv, TuningTypeOK

LEMMA TuningStarts == PathInit => TuningInv
BY DEF PathInit, ScanInit, TuneInit, TuningInv, TuningTypeOK, NoClaim, Claims, TuneSteps, Background, Writing

LEMMA InsertKeeps ==
    ASSUME TuningInv, NEW h \in Handlers, TryInsertOperatorEvidence(h)
    PROVE  TuningInv'
<1>1. setup' = setup /\ reviewed' = reviewed BY DEF TryInsertOperatorEvidence, scanVars
<1>2. CASE claim = NoClaim /\ claim' = ClaimBy(h) /\ TuneGoto(h, "gate") /\ UNCHANGED seen
  <2>1. claim.state = "none" BY <1>2, ClaimKinds
  <2>2. /\ tpc' \in [Handlers -> TuneSteps] /\ tpc'[h] = "gate"
        /\ \A g \in Handlers \ {h} : tpc'[g] = tpc[g]
    BY <1>2 DEF TuneGoto, TuningInv, TuningTypeOK, TuneSteps
  <2>3. \A g \in Handlers \ {h} : tpc[g] \notin Writing \cup {"release", "delete", "givenback"}
    BY <2>1, ClaimKinds DEF TuningInv
  <2>4. \A g \in Handlers : tpc'[g] \in Writing => g = h BY <2>2, <2>3
  <2>5. \A g \in Handlers : tpc'[g] \notin {"release", "delete", "givenback"}
    BY <2>2, <2>3 
  <2>6. claim' \in Claims /\ claim'.state = "claimed" /\ claim'.by = h /\ claim'.stale = FALSE
    BY <1>2, ClaimKinds
  <2>7. \A g \in Handlers : tpc'[g] = "replace" => seen'[g].state = "claimed" /\ seen'[g].stale
    BY <1>2, <2>2 DEF TuningInv
  <2> QED BY <1>1, <1>2, <2>2, <2>4, <2>5, <2>6, <2>7 DEF TuningInv, TuningTypeOK
<1>3. CASE claim.state = "claimed" /\ claim.stale /\ UNCHANGED claim /\ TuneGoto(h, "replace")
           /\ seen' = [seen EXCEPT ![h] = claim] /\ tpc[h] = "claim"
  <2>1. /\ tpc' \in [Handlers -> TuneSteps] /\ tpc'[h] = "replace"
        /\ \A g \in Handlers \ {h} : tpc'[g] = tpc[g]
    BY <1>3 DEF TuneGoto, TuningInv, TuningTypeOK, TuneSteps
  <2>2. /\ seen' \in [Handlers -> Claims] /\ seen'[h] = claim
        /\ \A g \in Handlers \ {h} : seen'[g] = seen[g]
    BY <1>3 DEF TuningInv, TuningTypeOK
  <2>3. claim.by # h BY <1>3 DEF TuningInv, Background
  <2> QED BY <1>1, <1>3, <2>1, <2>2, <2>3 DEF TuningInv, TuningTypeOK, Writing
<1>4. CASE UNCHANGED <<claim, seen>> /\ TuneGoto(h, "lost") /\ tpc[h] = "claim"
  <2>1. "lost" \in TuneSteps /\ "lost" \notin Writing BY DEF TuneSteps, Writing
  <2> QED BY <1>1, <1>4, <2>1, ClaimUntouched DEF TuneGoto, TuningInv, TuningTypeOK
<1> QED BY <1>2, <1>3, <1>4 DEF TryInsertOperatorEvidence

\* A claim is taken over when it is stale, and nobody writes under a stale claim.
LEMMA ReplaceKeeps ==
    ASSUME TuningInv, NEW h \in Handlers, ReplaceOperatorEvidenceIfStale(h)
    PROVE  TuningInv'
<1>1. setup' = setup /\ reviewed' = reviewed BY DEF ReplaceOperatorEvidenceIfStale, scanVars
<1>2. /\ tpc[h] = "replace" /\ seen' = [seen EXCEPT ![h] = NoClaim]
      /\ seen[h].state = "claimed" /\ seen[h].stale
  BY DEF ReplaceOperatorEvidenceIfStale, TuningInv
<1>3. /\ seen' \in [Handlers -> Claims]
      /\ \A g \in Handlers \ {h} : seen'[g] = seen[g]
  BY <1>2, ClaimKinds DEF TuningInv, TuningTypeOK
<1>4. CASE claim = seen[h] /\ claim' = ClaimBy(h) /\ TuneGoto(h, "gate")
  <2>2. /\ tpc' \in [Handlers -> TuneSteps] /\ tpc'[h] = "gate"
        /\ \A g \in Handlers \ {h} : tpc'[g] = tpc[g]
    BY <1>4 DEF TuneGoto, TuningInv, TuningTypeOK, TuneSteps
  <2>3. \A g \in Handlers \ {h} : tpc[g] \notin Writing \cup {"release", "delete", "givenback"}
    BY <1>2, <1>4, ClaimKinds DEF TuningInv
  <2>4. \A g \in Handlers : tpc'[g] \in Writing => g = h BY <2>2, <2>3
  <2>5. \A g \in Handlers : tpc'[g] \notin {"release", "delete", "givenback"}
    BY <2>2, <2>3
  <2>6. claim' \in Claims /\ claim'.state = "claimed" /\ claim'.by = h /\ claim'.stale = FALSE
    BY <1>4, ClaimKinds
  <2>7. \A g \in Handlers : tpc'[g] = "replace" => seen'[g].state = "claimed" /\ seen'[g].stale
    BY <1>3, <2>2 DEF TuningInv
  <2> QED BY <1>1, <1>3, <1>4, <2>2, <2>4, <2>5, <2>6, <2>7 DEF TuningInv, TuningTypeOK
<1>5. CASE TuneGoto(h, "lost") /\ UNCHANGED claim
  <2>1. /\ tpc' \in [Handlers -> TuneSteps] /\ tpc'[h] = "lost"
        /\ \A g \in Handlers \ {h} : tpc'[g] = tpc[g]
    BY <1>5 DEF TuneGoto, TuningInv, TuningTypeOK, TuneSteps
  <2>2. claim.state = "claimed" => claim.by # h BY <1>2 DEF TuningInv, Background
  <2> QED BY <1>1, <1>3, <1>5, <2>1, <2>2 DEF TuningInv, TuningTypeOK, Writing
<1> QED BY <1>4, <1>5 DEF ReplaceOperatorEvidenceIfStale

LEMMA PutKeeps ==
    ASSUME TuningInv, NEW h \in Handlers, PutTuned(h)
    PROVE  TuningInv'
<1>1. setup' = setup /\ tpc[h] = "put" /\ claim = ClaimBy(h) /\ UNCHANGED <<seen, reviewed>>
      /\ TuneGoto(h, "release") /\ claim' \in {claim, TunedBy(h)}
  BY DEF PutTuned, scanVars, TuningInv, Writing, TunedBy
<1>2. CASE claim' = claim
  <2>1. "release" \in TuneSteps /\ tpc[h] \in Writing /\ "release" \notin Writing
    BY <1>1 DEF TuneSteps, Background, Writing
  <2> QED BY <1>1, <1>2, <2>1, ClaimUntouched DEF TuneGoto, TuningInv, TuningTypeOK
<1>3. CASE claim' = TunedBy(h)
  <2>1. /\ tpc' \in [Handlers -> TuneSteps] /\ tpc'[h] = "release"
        /\ \A g \in Handlers \ {h} : tpc'[g] = tpc[g]
    BY <1>1 DEF TuneGoto, TuningInv, TuningTypeOK, TuneSteps, Background
  <2>2. \A g \in Handlers \ {h} : tpc[g] \notin Writing \cup {"release", "delete", "givenback"}
    BY <1>1, OneTends
  <2>3. claim' \in Claims /\ claim'.state = "tuned" /\ claim'.stale = FALSE BY <1>3, ClaimKinds
  <2> QED BY <1>1, <1>3, <2>1, <2>2, <2>3 DEF TuningInv, TuningTypeOK, Writing
<1> QED BY <1>1, <1>2, <1>3

LEMMA ReadKeeps ==
    ASSUME TuningInv, NEW h \in Handlers, ReadForRelease(h)
    PROVE  TuningInv'
<1>1. setup' = setup /\ UNCHANGED <<claim, reviewed>> /\ seen' = [seen EXCEPT ![h] = claim]
      /\ tpc[h] \in {"release", "giveback"}
  BY DEF ReadForRelease, scanVars
<1>2. claim \in {ClaimBy(h), TunedBy(h)} BY <1>1 DEF TuningInv, Writing
<1>3. /\ tpc' \in [Handlers -> TuneSteps] /\ tpc'[h] \in {"givenback", "delete"}
      /\ \A g \in Handlers \ {h} : tpc'[g] = tpc[g]
  BY DEF ReadForRelease, TuneGoto, TuningInv, TuningTypeOK, TuneSteps, Background
<1>4. /\ seen' \in [Handlers -> Claims] /\ seen'[h] = claim
      /\ \A g \in Handlers \ {h} : seen'[g] = seen[g]
  BY <1>1 DEF TuningInv, TuningTypeOK
<1>5. \A g \in Handlers \ {h} : tpc[g] \notin Writing \cup {"release", "delete", "givenback"}
  BY <1>2, OneTends
<1>6. ~claim.stale BY <1>2, ClaimKinds
<1> QED BY <1>1, <1>2, <1>3, <1>4, <1>5, <1>6, ClaimKinds DEF TuningInv, TuningTypeOK, Writing, Background

\* What is deleted is what was read, and what was read is still the releaser's own.
LEMMA DeleteKeeps ==
    ASSUME TuningInv, setup' = setup, reviewed' = reviewed,
           NEW h \in Handlers, tpc[h] \in {"delete", "givenback"}, DeleteIfInProgress(h)
    PROVE  /\ TuningInv'
           /\ claim.state = "tuned" => claim' = claim
           /\ claim' # claim => claim.by = h /\ tpc'[h] # tpc[h]
<1>1. claim \in {ClaimBy(h), TunedBy(h)} /\ seen[h] = claim BY DEF TuningInv
<1>2. claim' = IF claim.state = "claimed" THEN NoClaim ELSE claim BY <1>1 DEF DeleteIfInProgress
<1>3. claim' \in {NoClaim, TunedBy(h)} /\ (claim.state = "tuned" => claim' = claim) /\ claim.by = h
  BY <1>1, <1>2, ClaimKinds
<1>4. /\ tpc' \in [Handlers -> TuneSteps] /\ tpc'[h] = "end"
      /\ \A g \in Handlers \ {h} : tpc'[g] = tpc[g]
  BY DEF DeleteIfInProgress, TuneGoto, TuningInv, TuningTypeOK, TuneSteps
<1>5. /\ seen' \in [Handlers -> Claims]
      /\ \A g \in Handlers \ {h} : seen'[g] = seen[g]
  BY ClaimKinds DEF DeleteIfInProgress, TuningInv, TuningTypeOK
<1>6. \A g \in Handlers \ {h} : tpc[g] \notin Writing \cup {"release", "delete", "givenback"}
  BY <1>1, OneTends
<1>7. claim' \in Claims /\ claim'.state # "claimed" /\ ~claim'.stale BY <1>3, ClaimKinds
<1>8. TuningInv' BY <1>3, <1>4, <1>5, <1>6, <1>7 DEF TuningInv, TuningTypeOK, Writing
<1> QED BY <1>3, <1>4, <1>8

LEMMA TuneStepKeeps ==
    ASSUME TuningInv, NEW h \in Handlers, TuneStep(h)
    PROVE  TuningInv'
<1>0. setup' = setup BY TuneStepKeepsSetup
<1> DEFINE Simple(s) == /\ s \in TuneSteps \ {"delete", "givenback", "replace", "none"}
                        /\ tpc' = [tpc EXCEPT ![h] = s]
                        /\ s \in Writing => tpc[h] \in Writing
                        /\ s = "release" => tpc[h] \in Writing \cup {"release"}
                        /\ s \in {"claim", "lost", "end"} => tpc[h] \in {"none", "claim", "replace", "lost"}
<1>1. ASSUME NEW s, Simple(s), claim' = claim, seen' = seen, reviewed' \subseteq Scans PROVE TuningInv'
  BY <1>0, <1>1, ClaimUntouched
<1>2. reviewed \subseteq Scans /\ tpc \in [Handlers -> TuneSteps] BY DEF TuningInv, TuningTypeOK
<1> USE <1>2 DEF TuneGoto, TuneSteps, Background, Writing
<1>3. CASE ShouldRunFirstRunAIRuleTuning(h)
  <2>1. Simple("claim") BY <1>3 DEF ShouldRunFirstRunAIRuleTuning
  <2> QED BY <1>1, <1>3, <2>1 DEF ShouldRunFirstRunAIRuleTuning
<1>4. CASE PassReview(h)
  BY <1>0, <1>4 DEF PassReview, tuneVars, TuningInv, TuningTypeOK
<1>5. CASE LoseClaim(h)
  <2>1. Simple("end") BY <1>5 DEF LoseClaim
  <2> QED BY <1>1, <1>5, <2>1 DEF LoseClaim
<1>6. CASE EarlyRelease(h)
  <2>1. Simple("giveback") BY <1>6 DEF EarlyRelease
  <2> QED BY <1>1, <1>6, <2>1 DEF EarlyRelease
<1>7. CASE StartReview(h)
  <2>1. Simple("go") BY <1>7 DEF StartReview
  <2> QED BY <1>1, <1>7, <2>1 DEF StartReview
<1>8. CASE LookForReview(h)
  <2>1. Simple("apply") \/ Simple("packet") BY <1>8 DEF LookForReview
  <2>2. UNCHANGED <<claim, seen, reviewed>> BY <1>8 DEF LookForReview
  <2> HIDE DEF Simple
  <2> QED BY <1>1, <2>1, <2>2
<1>9. CASE BuildPacket(h)
  <2>1. Simple("apply") \/ Simple("model") BY <1>9 DEF BuildPacket
  <2>2. UNCHANGED <<claim, seen>> BY <1>9 DEF BuildPacket
  <2>3. reviewed' \subseteq Scans
    <3>1. Scan(h) \in Scans BY ScanRowsAssumptions DEF TuningInv, Scan
    <3> QED BY <1>9, <3>1 DEF BuildPacket
  <2> HIDE DEF Simple
  <2> QED BY <1>1, <2>1, <2>2, <2>3
<1>10. CASE ModelAnswers(h)
  <2>1. Simple("apply") \/ Simple("release") BY <1>10 DEF ModelAnswers
  <2>2. UNCHANGED <<claim, seen, reviewed>> BY <1>10 DEF ModelAnswers
  <2> HIDE DEF Simple
  <2> QED BY <1>1, <2>1, <2>2
<1>11. CASE ApplyRules(h)
  <2>1. Simple("put") \/ Simple("release") BY <1>11 DEF ApplyRules
  <2>2. UNCHANGED <<claim, seen, reviewed>> BY <1>11 DEF ApplyRules
  <2> HIDE DEF Simple
  <2> QED BY <1>1, <2>1, <2>2
<1>12. CASE ReleaseClaim(h) \/ GiveBackClaim(h)
  BY <1>0, <1>12, DeleteKeeps DEF ReleaseClaim, GiveBackClaim
<1> QED BY <1>3, <1>4, <1>5, <1>6, <1>7, <1>8, <1>9, <1>10, <1>11, <1>12,
           InsertKeeps, ReplaceKeeps, PutKeeps, ReadKeeps DEF TuneStep

LEMMA ExpireKeeps ==
    ASSUME TuningInv, NEW h \in Handlers, Expire(h)
    PROVE  TuningInv'
<1>1. setup' = setup /\ UNCHANGED <<claim, reviewed>> /\ seen' = [seen EXCEPT ![h] = NoClaim]
      /\ tpc' = [tpc EXCEPT ![h] = "quit"]
  BY DEF Expire, scanVars, TuneGoto
<1>2. /\ tpc' \in [Handlers -> TuneSteps] /\ tpc'[h] = "quit"
      /\ \A g \in Handlers \ {h} : tpc'[g] = tpc[g]
  BY <1>1 DEF TuningInv, TuningTypeOK, TuneSteps
<1>3. /\ seen' \in [Handlers -> Claims]
      /\ \A g \in Handlers \ {h} : seen'[g] = seen[g]
  BY <1>1, ClaimKinds DEF TuningInv, TuningTypeOK
<1> QED BY <1>1, <1>2, <1>3 DEF TuningInv, TuningTypeOK, Writing

\* Only the claim of a goroutine that is gone becomes stale.
LEMMA StaleKeeps ==
    ASSUME Prompt, TuningInv, BecomeStale
    PROVE  TuningInv'
<1>1. setup' = setup /\ UNCHANGED <<tpc, seen, reviewed>> /\ claim.state = "claimed"
      /\ claim' = [claim EXCEPT !.stale = TRUE] /\ claim \in Claims
  BY DEF BecomeStale, scanVars, TuningInv, TuningTypeOK
<1>2. tpc[claim.by] = "quit" /\ claim.by \in Handlers BY <1>1 DEF BecomeStale, TuningInv, Prompt
<1>3. claim' \in Claims /\ claim'.state = "claimed" /\ claim'.by = claim.by /\ claim'.stale = TRUE
  BY <1>1 DEF Claims
<1>4. \A g \in Handlers : tpc[g] \notin Writing \cup {"release", "delete", "givenback"}
  BY <1>1, <1>2, ClaimKinds DEF TuningInv, Writing
<1> QED BY <1>1, <1>2, <1>3, <1>4 DEF TuningInv, TuningTypeOK

LEMMA RestartKeeps ==
    ASSUME TuningInv, RestartAll
    PROVE  TuningInv'
<1>1. setup' = setup /\ UNCHANGED <<claim, reviewed>> /\ seen' = [h \in Handlers |-> NoClaim]
      /\ tpc' = [h \in Handlers |-> IF tpc[h] \in {"none", "end"} THEN tpc[h] ELSE "quit"]
  BY SetupStays DEF RestartAll
<1>2. tpc' \in [Handlers -> TuneSteps] BY <1>1 DEF TuneSteps
<1>3. seen' \in [Handlers -> Claims] BY <1>1, ClaimKinds
<1>4. \A h \in Handlers : tpc'[h] \in {"none", "end", "quit"} BY <1>1
<1>5. claim.state = "claimed" => tpc'[claim.by] = "quit" BY <1>1 DEF TuningInv, Background
<1> QED BY <1>1, <1>2, <1>3, <1>4, <1>5 DEF TuningInv, TuningTypeOK, Writing

LEMMA TuningInvStep ==
    ASSUME Prompt, TuningInv, [PathNext]_pathVars
    PROVE  TuningInv'
<1>1. ASSUME setup' = setup, UNCHANGED tuneVars PROVE TuningInv'
  BY <1>1 DEF TuningInv, TuningTypeOK, tuneVars
<1>2. ASSUME NEW h \in Handlers, HandlerStep(h), UNCHANGED tuneVars PROVE TuningInv'
  BY <1>1, <1>2, SetupStays
<1>3. ASSUME NEW r \in Readers, ReaderStep(r), UNCHANGED tuneVars PROVE TuningInv'
  BY <1>1, <1>3, SetupStays
<1>4. CASE UNCHANGED pathVars BY <1>1, <1>4 DEF pathVars, scanVars
<1> QED BY <1>2, <1>3, <1>4, TuneStepKeeps, ExpireKeeps, StaleKeeps, RestartKeeps DEF PathNext

\* A step that takes a claim away is its holder's, and none takes away a tuning.
LEMMA TakesOnlyOwn ==
    ASSUME TuningInv, [PathNext]_pathVars
    PROVE  /\ \A h \in Handlers :
                claim.state = "claimed" /\ claim.by = h /\ claim' = NoClaim => tpc'[h] # tpc[h]
           /\ claim.state = "tuned" => claim'.state = "tuned"
<1> DEFINE Own == /\ \A h \in Handlers :
                       claim.state = "claimed" /\ claim.by = h /\ claim' = NoClaim => tpc'[h] # tpc[h]
                  /\ claim.state = "tuned" => claim'.state = "tuned"
<1>0. ASSUME claim' = claim PROVE Own BY <1>0 DEF NoClaim
<1>1. ASSUME NEW h \in Handlers, TuneStep(h) PROVE Own
  <2>1. CASE TryInsertOperatorEvidence(h)
    BY <1>0, <2>1, ClaimKinds DEF TryInsertOperatorEvidence
  <2>2. CASE ReplaceOperatorEvidenceIfStale(h)
    <3>1. claim' = claim \/ (claim' = ClaimBy(h) /\ claim.state = "claimed")
      BY <2>2 DEF ReplaceOperatorEvidenceIfStale, TuningInv
    <3> QED BY <1>0, <3>1, ClaimKinds
  <2>3. CASE PutTuned(h)
    <3>1. claim' \in {claim, TunedBy(h)} BY <2>3 DEF PutTuned, TunedBy
    <3> QED BY <1>0, <3>1, ClaimKinds
  <2>4. CASE ReleaseClaim(h) \/ GiveBackClaim(h)
    <3>1. setup' = setup /\ reviewed' = reviewed /\ tpc[h] \in {"delete", "givenback"} /\ DeleteIfInProgress(h)
      BY <2>4, TuneStepKeepsSetup DEF ReleaseClaim, GiveBackClaim, TuneStep
    <3>2. /\ claim.state = "tuned" => claim' = claim
          /\ claim' # claim => claim.by = h /\ tpc'[h] # tpc[h]
      BY <3>1, DeleteKeeps
    <3> QED BY <1>0, <3>2
  <2>5. CASE \/ ShouldRunFirstRunAIRuleTuning(h) \/ PassReview(h) \/ LoseClaim(h) \/ EarlyRelease(h)
             \/ StartReview(h) \/ LookForReview(h) \/ BuildPacket(h) \/ ModelAnswers(h) \/ ApplyRules(h)
             \/ ReadForRelease(h)
    <3>1. claim' = claim
      BY <2>5 DEF ShouldRunFirstRunAIRuleTuning, PassReview, LoseClaim, EarlyRelease, StartReview,
         LookForReview, BuildPacket, ModelAnswers, ApplyRules, ReadForRelease, tuneVars
    <3> QED BY <1>0, <3>1
  <2> QED BY <1>1, <2>1, <2>2, <2>3, <2>4, <2>5 DEF TuneStep
<1>2. CASE BecomeStale
  <2>1. claim.state = "claimed" /\ claim' = [claim EXCEPT !.stale = TRUE] /\ claim \in Claims
    BY <1>2 DEF BecomeStale, TuningInv, TuningTypeOK
  <2>2. claim'.state = "claimed" BY <2>1 DEF Claims
  <2> QED BY <2>1, <2>2, ClaimKinds DEF NoClaim
<1>3. ASSUME NEW h \in Handlers, Expire(h) PROVE Own BY <1>0, <1>3 DEF Expire
<1>4. CASE RestartAll BY <1>0, <1>4 DEF RestartAll
<1>5. CASE UNCHANGED tuneVars BY <1>0, <1>5 DEF tuneVars
<1>6. CASE UNCHANGED pathVars BY <1>5, <1>6 DEF pathVars
<1> QED BY <1>1, <1>2, <1>3, <1>4, <1>5, <1>6 DEF PathNext

LEMMA TuningAlways == ASSUME Prompt PROVE PathSpec => []TuningInv
<1>1. TuningInv /\ [PathNext]_pathVars => TuningInv' BY TuningInvStep
<1> QED BY <1>1, TuningStarts, PTL DEF PathSpec

(***************************************************************************)
(* The claim of a first-run tuning has one goroutine behind it, which      *)
(* alone writes under it and gives it back: for any number of handlers and *)
(* any failures, crashes and time-outs, if no goroutine outlives the       *)
(* twenty minutes after which its claim counts as stale                    *)
(* (maybeEnqueueOpenClawReview, DeleteOperatorEvidenceIfStatus).           *)
(***************************************************************************)
THEOREM TuningOwned ==
    ASSUME Prompt
    PROVE  PathSpec => TuningIsOwned
<1>1. PathSpec => []Owned BY TuningAlways, TuningInvOwned, PTL
<1>2. PathSpec => ReleasesOwnClaim
  <2>1. TuningInv /\ [PathNext]_pathVars =>
          [\A h \in Handlers :
             claim.state = "claimed" /\ claim.by = h /\ claim' = NoClaim => tpc'[h] # tpc[h]]_pathVars
    BY TakesOnlyOwn
  <2> QED BY <2>1, TuningAlways, PTL DEF PathSpec, ReleasesOwnClaim
<1>3. PathSpec => TunedStays
  <2>1. TuningInv /\ [PathNext]_pathVars => [claim.state = "tuned" => claim'.state = "tuned"]_pathVars
    BY TakesOnlyOwn
  <2> QED BY <2>1, TuningAlways, PTL DEF PathSpec, TunedStays
<1> QED BY <1>1, <1>2, <1>3, PTL DEF TuningIsOwned, ReleasesOnlyOwn, Owned

------------------------------------------------------------------------------

(***************************************************************************)
(* The rows of scans: types.                                               *)
(***************************************************************************)
RowSteps == HandlerSteps \cup ReaderSteps

LEMMA SetupTypes ==
    ASSUME setup \in Setups
    PROVE  /\ \A h \in Handlers : Scan(h) \in Scans /\ Kind(h) \in Kinds
           /\ setup.modes \subseteq Modes /\ setup.found \subseteq 0..MaxFound
           /\ setup.readers \subseteq Readers /\ setup.budget \in Nat /\ MaxFound \in Nat
           /\ Handlers \cap Readers = {}
BY ScanRowsAssumptions DEF Scan, Kind

LEMMA RowKinds ==
    ASSUME MaxFound \in Nat
    PROVE  /\ NoRow \in Rows /\ StartedRow \in Rows /\ Fresh \in Locals
           /\ NoRow.pers = "none" /\ NoRow.status = "none" /\ NoRow.sync = "none"
           /\ StartedRow.pers = "none" /\ StartedRow.status = "started" /\ StartedRow.sync = "none"
BY DEF NoRow, StartedRow, Rows, Fresh, Locals, Modes, Statuses

\* What the marks write, when they write back a row.
LEMMA MarkTypes ==
    ASSUME NEW r \in Rows, NEW n \in 0..MaxFound
    PROVE  /\ [r EXCEPT !.status = "completed"] \in Rows
           /\ [r EXCEPT !.status = "completed", !.pers = "complete", !.expected = n] \in Rows
           /\ [r EXCEPT !.status = "persistence_incomplete", !.pers = "failed",
                        !.sync = "skipped", !.expected = n] \in Rows
           /\ [r EXCEPT !.status = "completed", !.sync = "complete"] \in Rows
           /\ [r EXCEPT !.status = "completed", !.sync = "skipped"] \in Rows
BY DEF Rows, Statuses

LEMMA GotoTypes ==
    ASSUME RowsTypeOK, NEW a \in Actors, NEW s \in RowSteps, Goto(a, s)
    PROVE  pc' \in [Actors -> RowSteps] /\ my' \in [Handlers -> Locals]
<1>1. pc' \in [Actors -> RowSteps] BY DEF Goto, RowsTypeOK, RowSteps
<1>2. my' \in [Handlers -> Locals]
  BY RowKinds, SetupTypes DEF Goto, RowsTypeOK
<1> QED BY <1>1, <1>2

LEMMA FaultTypes ==
    ASSUME RowsTypeOK, NEW k, Fault(k)
    PROVE  faults' \in 0..setup.budget
BY SetupTypes DEF Fault, RowsTypeOK

LEMMA UpdateTypes ==
    ASSUME RowsTypeOK, NEW a \in Actors, NEW s \in Scans, NEW m \in Rows, NEW n \in RowSteps, NEW f \in RowSteps,
           UpdateScanPipelineState(a, s, m, n, f)
    PROVE  /\ setup' = setup /\ inst' = inst /\ begun' = begun /\ late' = late /\ stray' = stray
           /\ row' \in [Scans -> Rows] /\ pc' \in [Actors -> RowSteps] /\ my' \in [Handlers -> Locals]
           /\ held' \in [Actors -> Rows] /\ faults' \in 0..setup.budget
<1>1. NoRow \in Rows BY RowKinds, SetupTypes DEF RowsTypeOK
<1>2. /\ setup' = setup /\ inst' = inst /\ begun' = begun /\ late' = late /\ stray' = stray
  BY DEF UpdateScanPipelineState
<1>3. row' \in [Scans -> Rows] BY DEF UpdateScanPipelineState, RowsTypeOK
<1>4. held' \in [Actors -> Rows] BY <1>1 DEF UpdateScanPipelineState, RowsTypeOK
<1>5. faults' \in 0..setup.budget BY FaultTypes DEF UpdateScanPipelineState, RowsTypeOK
<1>6. pc' \in [Actors -> RowSteps] /\ my' \in [Handlers -> Locals]
  <2>1. Goto(a, n) \/ Goto(a, f) \/ UNCHANGED <<pc, my>> BY DEF UpdateScanPipelineState
  <2> QED BY <2>1, GotoTypes DEF RowsTypeOK, RowSteps
<1> QED BY <1>2, <1>3, <1>4, <1>5, <1>6

LEMMA BeginTypes ==
    ASSUME RowsTypeOK, NEW h \in Handlers, BeginScan(h)
    PROVE  row' \in [Scans -> Rows] /\ begun' \in Seq(Scans) /\ late' \in [Handlers -> SUBSET Scans]
<1>1. StartedRow \in Rows /\ Scan(h) \in Scans BY RowKinds, SetupTypes DEF RowsTypeOK
<1>2. row' \in [Scans -> Rows] BY <1>1 DEF BeginScan, RowsTypeOK
<1>3. begun' \in Seq(Scans)
  <2>1. begun \in Seq(Scans) /\ begun' \in {begun, Append(begun, Scan(h))} BY DEF BeginScan, RowsTypeOK
  <2> QED BY <1>1, <2>1
<1>4. late' \in [Handlers -> SUBSET Scans]
  <2>1. late \in [Handlers -> SUBSET Scans] BY DEF RowsTypeOK
  <2>2. \A g \in Handlers : late[g] \cup {Scan(h)} \subseteq Scans BY <1>1, <2>1
  <2>3. CASE late' = [g \in Handlers |-> IF pc[g] # "visible" \/ g = h THEN {} ELSE late[g] \cup {Scan(h)}]
    BY <2>2, <2>3
  <2> QED BY <2>1, <2>3 DEF BeginScan
<1> QED BY <1>2, <1>3, <1>4

LEMMA OutcomeTypes ==
    ASSUME setup \in Setups, NEW h \in Handlers, NEW o \in Outcomes(Kind(h))
    PROVE  o.mode \in Modes /\ o.found \in 0..MaxFound /\ FinishedRow(Kind(h), o) \in Rows
<1>1. o.mode \in Modes /\ o.found \in 0..MaxFound BY SetupTypes DEF Outcomes, Modes
<1> QED BY <1>1 DEF FinishedRow, Rows, Statuses

LEMMA HandlerTypes ==
    ASSUME RowsTypeOK, NEW h \in Handlers, HandlerStep(h) \/ AfterReview(h)
    PROVE  RowsTypeOK'
<1>1. h \in Actors /\ Scan(h) \in Scans /\ held[h] \in Rows /\ my[h] \in Locals /\ Found(h) \in 0..MaxFound
      /\ setup.budget \in Nat
  BY SetupTypes DEF Actors, RowsTypeOK, Locals, Found
<1>2. ASSUME NEW m \in Rows, NEW n \in RowSteps, NEW f \in RowSteps, UNCHANGED target,
             UpdateScanPipelineState(h, Scan(h), m, n, f)
      PROVE  RowsTypeOK'
  BY <1>1, <1>2, UpdateTypes DEF RowsTypeOK, RowSteps
<1>3. ASSUME NEW s \in RowSteps, Goto(h, s), setup' = setup, row' \in [Scans -> Rows], inst' \in [Scans -> Nat],
             begun' \in Seq(Scans), held' = held, target' = target, faults' \in 0..setup.budget,
             late' \in [Handlers -> SUBSET Scans], stray' \subseteq Scans
      PROVE  RowsTypeOK'
  BY <1>1, <1>3, GotoTypes DEF RowsTypeOK, RowSteps
<1>4. CASE CheckScanAdmission(h)
  <2>1. Goto(h, "refused") \/ Goto(h, "visible") BY <1>4 DEF CheckScanAdmission
  <2>2. late' \in [Handlers -> SUBSET Scans] /\ faults' \in 0..setup.budget
    BY <1>4, FaultTypes DEF CheckScanAdmission, RowsTypeOK
  <2> QED BY <1>3, <1>4, <2>1, <2>2 DEF CheckScanAdmission, tables, RowsTypeOK, RowSteps, HandlerSteps
<1>5. CASE EnsureManualScanVisible(h)
  <2>1. Goto(h, "refused") \/ Goto(h, "begin") BY <1>5 DEF EnsureManualScanVisible
  <2>2. row' \in [Scans -> Rows] /\ begun' \in Seq(Scans) /\ late' \in [Handlers -> SUBSET Scans]
        /\ faults' \in 0..setup.budget
    BY <1>5, FaultTypes, BeginTypes DEF EnsureManualScanVisible, RowsTypeOK
  <2> QED BY <1>3, <1>5, <2>1, <2>2 DEF EnsureManualScanVisible, RowsTypeOK, RowSteps, HandlerSteps
<1>6. CASE BeginPersistedScan(h)
  <2>1. row' \in [Scans -> Rows] /\ begun' \in Seq(Scans) /\ late' \in [Handlers -> SUBSET Scans]
        /\ faults' \in 0..setup.budget
    BY <1>6, FaultTypes, BeginTypes DEF BeginPersistedScan, RowsTypeOK
  <2>2. pc' \in [Actors -> RowSteps] /\ my' \in [Handlers -> Locals]
    <3>1. CASE Goto(h, "done") \/ Goto(h, "analyze")
      BY <1>1, <3>1, GotoTypes DEF RowSteps, HandlerSteps
    <3>2. CASE my' = [my EXCEPT ![h] = [@ EXCEPT !.known = TRUE]] /\ pc' = [pc EXCEPT ![h] = "analyze"]
      <4>1. [my[h] EXCEPT !.known = TRUE] \in Locals BY <1>1 DEF Locals
      <4> QED BY <3>2, <4>1 DEF RowsTypeOK, RowSteps, HandlerSteps
    <3> QED BY <1>6, <3>1, <3>2 DEF BeginPersistedScan
  <2> QED BY <1>6, <2>1, <2>2 DEF BeginPersistedScan, RowsTypeOK, RowSteps
<1>7. CASE SkipDisabledPush(h)
  BY <1>1, <1>3, <1>7 DEF SkipDisabledPush, Strayed, tables, RowsTypeOK, RowSteps, HandlerSteps
<1>8. CASE FinishScan(h)
  <2>1. PICK o \in Outcomes(Kind(h)) :
          /\ \/ /\ row' = IF row[Scan(h)] = NoRow THEN row
                          ELSE [row EXCEPT ![Scan(h)] = FinishedRow(Kind(h), o)]
                /\ UNCHANGED <<faults, stray>>
             \/ Fault("finish") /\ Strayed(Scan(h)) /\ UNCHANGED row
          /\ \/ o.mode \in {"none", "failed"} /\ Goto(h, "done")
             \/ /\ o.mode \notin {"none", "failed"}
                /\ my' = [my EXCEPT ![h] = [known |-> my[h].known, mode |-> o.mode, found |-> o.found]]
                /\ \/ pc' = [pc EXCEPT ![h] = ReviewStep(o.mode)]
                   \/ setup.sbom /\ my[h].known /\ pc' = [pc EXCEPT ![h] = "sbom"]
    BY <1>8 DEF FinishScan
  <2>2. o.mode \in Modes /\ o.found \in 0..MaxFound /\ FinishedRow(Kind(h), o) \in Rows
    BY OutcomeTypes DEF RowsTypeOK
  <2>3. row' \in [Scans -> Rows] /\ faults' \in 0..setup.budget /\ stray' \subseteq Scans
    BY <1>1, <2>1, <2>2, FaultTypes DEF Strayed, RowsTypeOK
  <2>4. [known |-> my[h].known, mode |-> o.mode, found |-> o.found] \in Locals BY <1>1, <2>2 DEF Locals
  <2>5. pc' \in [Actors -> RowSteps] /\ my' \in [Handlers -> Locals]
    <3>1. CASE Goto(h, "done") BY <1>1, <3>1, GotoTypes DEF RowSteps, HandlerSteps
    <3>2. ReviewStep(o.mode) \in RowSteps /\ "sbom" \in RowSteps BY DEF ReviewStep, RowSteps, HandlerSteps
    <3> QED BY <2>1, <2>4, <3>1, <3>2 DEF RowsTypeOK, RowSteps
  <2> QED BY <1>8, <2>3, <2>5 DEF FinishScan, RowsTypeOK, RowSteps
<1>9. CASE RecordSBOM(h)
  <2>1. ReviewStep(my[h].mode) \in RowSteps BY DEF ReviewStep, RowSteps, HandlerSteps
  <2> QED BY <1>1, <1>2, <1>9, <2>1 DEF RecordSBOM
<1>10. CASE MarkDryRun(h)
  <2>1. "review" \in RowSteps BY DEF RowSteps, HandlerSteps
  <2> QED BY <1>1, <1>2, <1>10, <2>1, MarkTypes DEF MarkDryRun
<1>11. CASE PersistScanFindings(h)
  <2>1. inst' \in [Scans -> Nat]
    <3>1. inst[Scan(h)] \in Nat /\ inst[Scan(h)] + Found(h) \in Nat BY <1>1 DEF RowsTypeOK
    <3> QED BY <1>1, <1>11, <3>1 DEF PersistScanFindings, RowsTypeOK
  <2>2. faults' \in 0..setup.budget BY <1>11, FaultTypes DEF PersistScanFindings, RowsTypeOK
  <2> QED BY <1>3, <1>11, <2>1, <2>2 DEF PersistScanFindings, RowsTypeOK, RowSteps, HandlerSteps
<1>12. CASE MarkPersisted(h)
  <2>1. "check" \in RowSteps /\ "respoil" \in RowSteps BY DEF RowSteps, HandlerSteps
  <2> QED BY <1>1, <1>2, <1>12, <2>1, MarkTypes DEF MarkPersisted
<1>13. CASE MarkPersistenceFailed(h)
  <2>1. "done" \in RowSteps /\ "respoil" \in RowSteps BY DEF RowSteps, HandlerSteps
  <2> QED BY <1>1, <1>2, <1>13, <2>1, MarkTypes DEF MarkPersistenceFailed
<1>14. SyncStep(h) \in RowSteps BY DEF SyncStep, RowSteps, HandlerSteps
<1>15. CASE IsPersistenceComplete(h)
  <2>1. faults' \in 0..setup.budget BY <1>15, FaultTypes DEF IsPersistenceComplete, RowsTypeOK
  <2>2. Goto(h, SyncStep(h)) \/ Goto(h, "done") BY <1>15 DEF IsPersistenceComplete
  <2>3. "done" \in RowSteps BY DEF RowSteps, HandlerSteps
  <2> QED BY <1>3, <1>14, <1>15, <2>1, <2>2, <2>3 DEF IsPersistenceComplete, tables, RowsTypeOK
<1>16. CASE FileIssues(h)
  <2>1. faults' \in 0..setup.budget BY <1>16, FaultTypes DEF FileIssues, RowsTypeOK
  <2>2. Goto(h, "synced") \/ Goto(h, "done") BY <1>16 DEF FileIssues
  <2>3. "done" \in RowSteps /\ "synced" \in RowSteps BY DEF RowSteps, HandlerSteps
  <2> QED BY <1>3, <1>16, <2>1, <2>2, <2>3 DEF FileIssues, tables, RowsTypeOK
<1>17. CASE MarkIssueSyncComplete(h) \/ MarkIssueSyncSkipped(h)
  <2>1. "done" \in RowSteps BY DEF RowSteps, HandlerSteps
  <2> QED BY <1>1, <1>2, <1>17, <2>1, MarkTypes DEF MarkIssueSyncComplete, MarkIssueSyncSkipped
<1>18. CASE AfterReview(h)
  <2>1. "persist" \in RowSteps BY DEF RowSteps, HandlerSteps
  <2>2. Goto(h, "persist") \/ Goto(h, SyncStep(h)) BY <1>18 DEF AfterReview
  <2> QED BY <1>3, <1>14, <1>18, <2>1, <2>2 DEF AfterReview, tables, RowsTypeOK
<1> QED BY <1>4, <1>5, <1>6, <1>7, <1>8, <1>9, <1>10, <1>11, <1>12, <1>13, <1>15, <1>16, <1>17, <1>18
        DEF HandlerStep

LEMMA ReaderTypes ==
    ASSUME RowsTypeOK, NEW r \in Readers, ReaderStep(r), pc[r] = "heal" => target[r] \in Scans
    PROVE  RowsTypeOK' /\ UNCHANGED <<setup, inst, begun, late, stray>>
<1>1. r \in Actors /\ held[r] \in Rows /\ {"idle", "heal"} \subseteq RowSteps
      /\ NoRow \in Rows
  BY RowKinds, SetupTypes DEF Actors, RowsTypeOK, RowSteps, ReaderSteps
<1>2. CASE FindReconcilable(r)
  <2>1. PICK s \in Scans : target' = [target EXCEPT ![r] = s] BY <1>2 DEF FindReconcilable
  <2>2. Goto(r, "heal") /\ UNCHANGED <<setup, tables, held, faults, late, stray>>
    BY <1>2 DEF FindReconcilable
  <2> QED BY <1>1, <2>1, <2>2, GotoTypes DEF tables, RowsTypeOK, RowSteps
<1>3. CASE HealIssueSync(r)
  <2>1. UpdateScanPipelineState(r, target[r], [held[r] EXCEPT !.status = "completed", !.sync = "complete"],
                                "idle", "idle")
    BY <1>3 DEF HealIssueSync
  <2>2. [held[r] EXCEPT !.status = "completed", !.sync = "complete"] \in Rows
    <3>1. 0 \in 0..MaxFound BY SetupTypes DEF RowsTypeOK
    <3> QED BY <1>1, <3>1, MarkTypes
  <2>3. target' \in [Readers -> Scans \cup {NoScan}] BY <1>3 DEF HealIssueSync, RowsTypeOK
  <2>4. target[r] \in Scans BY <1>3 DEF HealIssueSync
  <2> QED BY <1>1, <2>1, <2>2, <2>3, <2>4, UpdateTypes DEF RowsTypeOK, RowSteps
<1> QED BY <1>2, <1>3 DEF ReaderStep

LEMMA RestartTypes ==
    ASSUME RowsTypeOK, Restart
    PROVE  RowsTypeOK'
<1>1. /\ setup' = setup /\ inst' = inst /\ begun' = begun
      /\ pc' = [a \in Actors |-> IF a \in Readers THEN "idle"
                                 ELSE IF pc[a] \in {"idle", "done", "refused"} THEN pc[a] ELSE "dead"]
      /\ my' = [h \in Handlers |-> Fresh] /\ late' = [h \in Handlers |-> {}]
      /\ held' = [a \in Actors |-> NoRow] /\ target' = [r \in Readers |-> NoScan]
      /\ stray' \subseteq Scans
  BY DEF Restart, RowsTypeOK
<1>2. faults' \in 0..setup.budget BY FaultTypes DEF Restart
<1>3. row' \in [Scans -> Rows]
  <2>1. \A s \in Scans : row[s] \in Rows /\ [row[s] EXCEPT !.status = "failed"] \in Rows
    <3>1. \A r \in Rows : [r EXCEPT !.status = "failed"] \in Rows BY DEF Rows, Statuses
    <3> QED BY <3>1 DEF RowsTypeOK
  <2> QED BY <2>1 DEF Restart
<1>4. pc' \in [Actors -> RowSteps] BY <1>1 DEF RowSteps, HandlerSteps, ReaderSteps
<1>5. NoRow \in Rows /\ Fresh \in Locals BY RowKinds, SetupTypes DEF RowsTypeOK
<1> QED BY <1>1, <1>2, <1>3, <1>4, <1>5 DEF RowsTypeOK, RowSteps

LEMMA RowsTypesStart == ScanInit => RowsTypeOK
<1> SUFFICES ASSUME ScanInit PROVE RowsTypeOK OBVIOUS
<1>1. setup \in Setups BY DEF ScanInit
<1>2. NoRow \in Rows /\ Fresh \in Locals BY <1>1, RowKinds, SetupTypes
<1>3. 0 \in 0..setup.budget BY <1>1, SetupTypes
<1> QED BY <1>2, <1>3 DEF ScanInit, RowsTypeOK, HandlerSteps

(***************************************************************************)
(* What rows claim: PersistedAsClaimed.                                    *)
(***************************************************************************)
\* A row that is as good as its scan's n instances: what is called complete is
\* completed and stored, and no row that may be reconciled lacks its marks.
Good(n, r) ==
    /\ r.pers = "complete" => r.status = "completed" /\ n >= r.expected
    /\ r.pers = "none" => r.status \notin {"analysis_complete", "persistence_incomplete"}

\* A handler marks, checks and files what it has stored.
Stored(p, m, n) ==
    /\ p \in {"persisted", "check"} => n >= m.found
    /\ p = "file" /\ m.known => n >= m.found

\* Where a handler has a read of UpdateScanPipelineState behind it.
Updating == {"sbom", "dry", "persisted", "spoil", "respoil", "synced", "skipsync"}

\* Rows, and the copies that a write will put back, claim no more than is stored.
RowInv ==
    /\ RowsTypeOK
    /\ \A s \in Scans : Good(inst[s], row[s])
    /\ \A h \in Handlers :
         /\ Good(inst[Scan(h)], held[h]) /\ Stored(pc[h], my[h], inst[Scan(h)])
         /\ pc[h] \notin Updating => held[h] = NoRow
    /\ \A r \in Readers :
         /\ pc[r] = "heal" => target[r] \in Scans /\ Good(inst[target[r]], held[r])
         /\ pc[r] # "heal" => held[r] = NoRow

LEMMA RowInvPersisted == RowInv => PersistedAsClaimed
<1> SUFFICES ASSUME RowInv PROVE PersistedAsClaimed OBVIOUS
<1>1. CompleteIsStored BY DEF RowInv, CompleteIsStored, Good
<1>2. ASSUME NEW s \in Scans, Reconcilable(s) PROVE row[s].status = "completed"
  BY <1>2 DEF RowInv, Reconcilable, IsReconcilable, Good
<1>3. FiledAfterPersisted BY DEF RowInv, FiledAfterPersisted, Stored, Found
<1> QED BY <1>1, <1>2, <1>3 DEF PersistedAsClaimed, ReconcilableIsCompleted

LEMMA GoodRows ==
    ASSUME NEW n \in Nat
    PROVE  Good(n, NoRow) /\ Good(n, StartedRow)
BY DEF Good, NoRow, StartedRow

LEMMA GoodGrows ==
    ASSUME NEW r \in Rows, NEW m \in Nat, NEW n \in Nat, m <= n, Good(m, r), MaxFound \in Nat
    PROVE  Good(n, r)
BY DEF Good, Rows

LEMMA RowInvStarts == ScanInit => RowInv
<1> SUFFICES ASSUME ScanInit PROVE RowInv OBVIOUS
<1>1. RowsTypeOK BY RowsTypesStart
<1>2. \A h \in Handlers : Scan(h) \in Scans BY SetupTypes DEF ScanInit
<1>3. \A h \in Handlers : pc[h] = "idle" /\ held[h] = NoRow BY DEF ScanInit, Actors
<1>4. \A r \in Readers : pc[r] = "idle" /\ held[r] = NoRow BY DEF ScanInit, Actors
<1> QED BY <1>1, <1>2, <1>3, <1>4, GoodRows DEF ScanInit, RowInv, Stored, Updating

\* What a handler may do to the invariant: only its own place, its copy and the
\* row and the instances of its scan change, and these are as they should be.
OnlyMoves(h) ==
    /\ setup' = setup /\ target' = target
    /\ \A a \in Actors \ {h} : pc'[a] = pc[a] /\ held'[a] = held[a]
    /\ \A g \in Handlers \ {h} : my'[g] = my[g]
    /\ \A s \in Scans \ {Scan(h)} : row'[s] = row[s] /\ inst'[s] = inst[s]
    /\ inst'[Scan(h)] >= inst[Scan(h)]

LEMMA HandlerMoves ==
    ASSUME RowInv, RowsTypeOK', NEW h \in Handlers, OnlyMoves(h),
           Good(inst'[Scan(h)], row'[Scan(h)]), Good(inst'[Scan(h)], held'[h]),
           Stored(pc'[h], my'[h], inst'[Scan(h)]), pc'[h] \notin Updating => held'[h] = NoRow
    PROVE  RowInv'
<1>1. RowsTypeOK /\ Scan(h) \in Scans /\ MaxFound \in Nat /\ Handlers \cap Readers = {}
  BY SetupTypes DEF RowInv, RowsTypeOK
<1>2. \A s \in Scans : inst[s] \in Nat /\ inst'[s] \in Nat /\ inst[s] <= inst'[s]
  <2>1. \A s \in Scans : inst[s] \in Nat /\ inst'[s] \in Nat BY <1>1 DEF RowsTypeOK
  <2>2. inst'[Scan(h)] >= inst[Scan(h)] /\ \A s \in Scans \ {Scan(h)} : inst'[s] = inst[s]
    BY DEF OnlyMoves
  <2> QED BY <2>1, <2>2
<1>3. \A g \in Handlers : Scan(g)' = Scan(g) /\ Scan(g) \in Scans BY <1>1, SetupTypes DEF OnlyMoves, Scan, RowsTypeOK
<1>4. ASSUME NEW s \in Scans PROVE Good(inst'[s], row'[s]) BY DEF RowInv, OnlyMoves
<1>5. ASSUME NEW g \in Handlers
      PROVE  /\ Good(inst'[Scan(g)], held'[g]) /\ Stored(pc'[g], my'[g], inst'[Scan(g)])
             /\ pc'[g] \notin Updating => held'[g] = NoRow
  <2>1. CASE g = h BY <2>1
  <2>2. CASE g # h
    <3>1. g \in Actors /\ pc'[g] = pc[g] /\ held'[g] = held[g] /\ my'[g] = my[g]
      BY <2>2 DEF OnlyMoves, Actors
    <3>2. held[g] \in Rows /\ my[g] \in Locals BY <1>1, <3>1 DEF RowsTypeOK
    <3>3. Good(inst'[Scan(g)], held[g]) BY <1>1, <1>2, <1>3, <3>2, GoodGrows DEF RowInv
    <3>4. Stored(pc[g], my[g], inst'[Scan(g)])
      <4>1. my[g].found \in Nat BY <1>1, <3>2 DEF Locals
      <4> QED BY <1>2, <1>3, <4>1 DEF RowInv, Stored
    <3> QED BY <3>1, <3>3, <3>4 DEF RowInv
  <2> QED BY <2>1, <2>2
<1>6. ASSUME NEW r \in Readers
      PROVE  /\ pc'[r] = "heal" => target'[r] \in Scans /\ Good(inst'[target'[r]], held'[r])
             /\ pc'[r] # "heal" => held'[r] = NoRow
  <2>1. r \in Actors /\ pc'[r] = pc[r] /\ held'[r] = held[r] /\ target' = target /\ held[r] \in Rows
    BY <1>1 DEF OnlyMoves, Actors, RowsTypeOK
  <2>2. pc[r] = "heal" => target[r] \in Scans /\ Good(inst'[target[r]], held[r])
    BY <1>1, <1>2, <2>1, GoodGrows DEF RowInv
  <2> QED BY <2>1, <2>2 DEF RowInv
<1> QED BY <1>3, <1>4, <1>5, <1>6 DEF RowInv

\* Every call of UpdateScanPipelineState by a handler: what it reads is good, and
\* so is what it writes if the merged row is.
LEMMA UpdateKeeps ==
    ASSUME RowInv, RowsTypeOK', NEW h \in Handlers, NEW m, NEW n, NEW f, UNCHANGED target,
           UpdateScanPipelineState(h, Scan(h), m, n, f), pc[h] \in Updating,
           Good(inst[Scan(h)], held[h]) => Good(inst[Scan(h)], m),
           Stored(n, my[h], inst[Scan(h)]), Stored(f, my[h], inst[Scan(h)])
    PROVE  RowInv'
<1>1. /\ RowsTypeOK /\ Scan(h) \in Scans /\ h \in Actors /\ inst[Scan(h)] \in Nat
      /\ Good(inst[Scan(h)], held[h]) /\ Good(inst[Scan(h)], row[Scan(h)])
      /\ Stored(pc[h], my[h], inst[Scan(h)])
  BY SetupTypes DEF RowInv, RowsTypeOK, Actors
<1>2. inst' = inst /\ setup' = setup BY DEF UpdateScanPipelineState
<1>3. Good(inst[Scan(h)], NoRow) BY <1>1, GoodRows
<1>4. CASE held' = [held EXCEPT ![h] = row[Scan(h)]] /\ UNCHANGED <<row, pc, my>>
  <2>1. OnlyMoves(h) BY <1>1, <1>2, <1>4 DEF OnlyMoves, RowsTypeOK
  <2>2. held'[h] = row[Scan(h)] BY <1>1, <1>4 DEF RowsTypeOK
  <2> QED BY <1>1, <1>2, <1>4, <2>1, <2>2, HandlerMoves
<1>5. ASSUME NEW s \in {n, f}, Goto(h, s), held' = [held EXCEPT ![h] = NoRow],
             row' = row \/ row' = [row EXCEPT ![Scan(h)] = m]
      PROVE  RowInv'
  <2>1. OnlyMoves(h) BY <1>1, <1>2, <1>5 DEF OnlyMoves, RowsTypeOK, Goto
  <2>2. held'[h] = NoRow /\ pc'[h] = s BY <1>1, <1>5 DEF RowsTypeOK, Goto
  <2>3. Good(inst[Scan(h)], row'[Scan(h)]) BY <1>1, <1>5 DEF RowsTypeOK
  <2>4. Stored(pc'[h], my'[h], inst[Scan(h)])
    BY <1>5, <2>2 DEF Stored, Goto
  <2> QED BY <1>2, <1>3, <2>1, <2>2, <2>3, <2>4, HandlerMoves
<1> QED BY <1>4, <1>5 DEF UpdateScanPipelineState

\* Every other step of a handler.
LEMMA GotoKeeps ==
    ASSUME RowInv, RowsTypeOK', NEW h \in Handlers, NEW s, Goto(h, s), UNCHANGED <<setup, held, target>>,
           pc[h] \notin Updating,
           \A t \in Scans \ {Scan(h)} : row'[t] = row[t] /\ inst'[t] = inst[t],
           inst'[Scan(h)] >= inst[Scan(h)], Good(inst'[Scan(h)], row'[Scan(h)]),
           Stored(s, my[h], inst'[Scan(h)])
    PROVE  RowInv'
<1>1. RowsTypeOK /\ Scan(h) \in Scans /\ h \in Actors /\ inst'[Scan(h)] \in Nat
  BY SetupTypes DEF RowInv, RowsTypeOK, Actors
<1>2. OnlyMoves(h) BY <1>1 DEF OnlyMoves, RowsTypeOK, Goto
<1>3. pc'[h] = s /\ held'[h] = NoRow BY <1>1 DEF RowInv, RowsTypeOK, Goto
<1>4. Stored(pc'[h], my'[h], inst'[Scan(h)]) BY <1>3 DEF Stored, Goto
<1> QED BY <1>1, <1>2, <1>3, <1>4, GoodRows, HandlerMoves

LEMMA BeginKeeps ==
    ASSUME RowInv, NEW h \in Handlers, BeginScan(h)
    PROVE  /\ \A t \in Scans \ {Scan(h)} : row'[t] = row[t]
           /\ \A n \in Nat : Good(n, row[Scan(h)]) => Good(n, row'[Scan(h)])
<1>1. Scan(h) \in Scans BY SetupTypes DEF RowInv, RowsTypeOK
<1> QED BY <1>1, GoodRows DEF BeginScan, RowInv, RowsTypeOK

LEMMA HandlerKeeps ==
    ASSUME RowInv, NEW h \in Handlers, HandlerStep(h) \/ AfterReview(h)
    PROVE  RowInv'
<1>1. RowsTypeOK /\ RowsTypeOK' BY HandlerTypes DEF RowInv
<1>2. /\ Scan(h) \in Scans /\ h \in Actors /\ inst[Scan(h)] \in Nat /\ my[h].found \in Nat
      /\ Good(inst[Scan(h)], row[Scan(h)]) /\ Good(inst[Scan(h)], held[h])
      /\ Stored(pc[h], my[h], inst[Scan(h)]) /\ held[h] \in Rows /\ my[h] \in Locals
  BY <1>1, SetupTypes DEF RowInv, RowsTypeOK, Actors, Locals
<1>3. ASSUME NEW s, Goto(h, s), UNCHANGED <<setup, held, target, row, inst>>, pc[h] \notin Updating,
             s \notin {"persisted", "check", "file"} \/ Stored(s, my[h], inst[Scan(h)])
      PROVE  RowInv'
  BY <1>1, <1>2, <1>3, GotoKeeps DEF Stored
<1>4. CASE CheckScanAdmission(h)
  BY <1>3, <1>4 DEF CheckScanAdmission, tables, Updating
<1>5. CASE EnsureManualScanVisible(h)
  <2>1. CASE row' = row BY <1>3, <1>5, <2>1 DEF EnsureManualScanVisible, Updating
  <2>2. CASE BeginScan(h) /\ Goto(h, "begin")
    BY <1>1, <1>2, <1>5, <2>2, GotoKeeps, BeginKeeps DEF EnsureManualScanVisible, Updating, Stored
  <2> QED BY <1>5, <2>1, <2>2 DEF EnsureManualScanVisible
<1>6. CASE BeginPersistedScan(h)
  <2>1. pc[h] \in {"begin", "idle"} /\ UNCHANGED <<setup, inst, held, target>>
    BY <1>6 DEF BeginPersistedScan
  <2>2. CASE row' = row /\ (Goto(h, "done") \/ Goto(h, "analyze"))
    BY <1>3, <2>1, <2>2 DEF Updating
  <2>3. CASE /\ BeginScan(h) /\ my' = [my EXCEPT ![h] = [@ EXCEPT !.known = TRUE]]
             /\ pc' = [pc EXCEPT ![h] = "analyze"]
    <3>1. pc'[h] = "analyze" /\ held'[h] = NoRow
      BY <1>1, <1>2, <2>1, <2>3 DEF RowInv, RowsTypeOK, Updating
    <3>2. OnlyMoves(h) BY <1>1, <1>2, <2>1, <2>3, BeginKeeps DEF OnlyMoves, RowsTypeOK
    <3>3. Good(inst'[Scan(h)], row'[Scan(h)]) BY <1>2, <2>1, <2>3, BeginKeeps
    <3> QED BY <1>1, <1>2, <2>1, <3>1, <3>2, <3>3, HandlerMoves, GoodRows DEF Stored
  <2> QED BY <1>6, <2>2, <2>3 DEF BeginPersistedScan
<1>7. CASE SkipDisabledPush(h)
  BY <1>3, <1>7 DEF SkipDisabledPush, tables, Updating
<1>8. CASE FinishScan(h)
  <2>1. PICK o \in Outcomes(Kind(h)) :
          /\ \/ /\ row' = IF row[Scan(h)] = NoRow THEN row
                          ELSE [row EXCEPT ![Scan(h)] = FinishedRow(Kind(h), o)]
                /\ UNCHANGED <<faults, stray>>
             \/ Fault("finish") /\ Strayed(Scan(h)) /\ UNCHANGED row
          /\ \/ o.mode \in {"none", "failed"} /\ Goto(h, "done")
             \/ /\ o.mode \notin {"none", "failed"}
                /\ my' = [my EXCEPT ![h] = [known |-> my[h].known, mode |-> o.mode, found |-> o.found]]
                /\ \/ pc' = [pc EXCEPT ![h] = ReviewStep(o.mode)]
                   \/ setup.sbom /\ my[h].known /\ pc' = [pc EXCEPT ![h] = "sbom"]
    BY <1>8 DEF FinishScan
  <2>2. pc[h] = "analyze" /\ UNCHANGED <<setup, inst, held, target>> BY <1>8 DEF FinishScan
  <2>3. Good(inst[Scan(h)], FinishedRow(Kind(h), o)) BY DEF Good, FinishedRow
  <2>4. /\ \A t \in Scans \ {Scan(h)} : row'[t] = row[t]
        /\ Good(inst[Scan(h)], row'[Scan(h)])
    BY <1>1, <1>2, <2>1, <2>3 DEF RowsTypeOK
  <2>5. CASE Goto(h, "done")
    BY <1>1, <1>2, <2>2, <2>4, <2>5, GotoKeeps DEF Updating, Stored
  <2>6. CASE /\ my' = [my EXCEPT ![h] = [known |-> my[h].known, mode |-> o.mode, found |-> o.found]]
             /\ pc' = [pc EXCEPT ![h] = ReviewStep(o.mode)] \/ pc' = [pc EXCEPT ![h] = "sbom"]
    <3>1. pc'[h] \in {"dry", "review", "sbom"} /\ held'[h] = NoRow
      BY <1>1, <1>2, <2>2, <2>6 DEF RowInv, RowsTypeOK, Updating, ReviewStep
    <3>2. OnlyMoves(h) BY <1>1, <1>2, <2>2, <2>4, <2>6 DEF OnlyMoves, RowsTypeOK
    <3> QED BY <1>1, <1>2, <2>2, <2>4, <3>1, <3>2, HandlerMoves, GoodRows DEF Stored
  <2> QED BY <2>1, <2>5, <2>6
<1>9. CASE RecordSBOM(h)
  <2>1. ReviewStep(my[h].mode) \in {"dry", "review"} BY DEF ReviewStep
  <2> QED BY <1>1, <1>2, <1>9, <2>1, UpdateKeeps DEF RecordSBOM, Updating, Stored
<1>10. CASE MarkDryRun(h)
  <2>1. Good(inst[Scan(h)], [held[h] EXCEPT !.status = "completed"]) BY <1>2 DEF Good, Rows
  <2> QED BY <1>1, <1>2, <1>10, <2>1, UpdateKeeps DEF MarkDryRun, Updating, Stored
<1>11. CASE PersistScanFindings(h)
  <2>1. pc[h] = "persist" /\ UNCHANGED <<setup, row, held, target>> BY <1>11 DEF PersistScanFindings
  <2>2. CASE inst' = [inst EXCEPT ![Scan(h)] = @ + Found(h)] /\ Goto(h, "persisted")
    <3>1. inst'[Scan(h)] = inst[Scan(h)] + my[h].found
      BY <1>1, <1>2, <2>2 DEF RowsTypeOK, Found
    <3>2. \A t \in Scans \ {Scan(h)} : inst'[t] = inst[t] BY <1>1, <2>2 DEF RowsTypeOK
    <3>3. inst'[Scan(h)] \in Nat /\ inst'[Scan(h)] >= inst[Scan(h)] /\ inst'[Scan(h)] >= my[h].found
      BY <1>2, <3>1
    <3>4. Good(inst'[Scan(h)], row'[Scan(h)])
      <4>1. row[Scan(h)] \in Rows /\ MaxFound \in Nat BY <1>1, <1>2, SetupTypes DEF RowsTypeOK
      <4> QED BY <1>2, <2>1, <3>3, <4>1, GoodGrows
    <3> QED BY <1>1, <1>2, <2>1, <2>2, <3>2, <3>3, <3>4, GotoKeeps DEF Updating, Stored
  <2>3. CASE Goto(h, "spoil") /\ UNCHANGED inst BY <1>3, <2>1, <2>3 DEF Updating
  <2> QED BY <1>11, <2>2, <2>3 DEF PersistScanFindings
<1>12. CASE MarkPersisted(h)
  <2>1. pc[h] = "persisted" /\ inst[Scan(h)] >= Found(h) BY <1>2, <1>12 DEF MarkPersisted, Stored, Found
  <2>2. Good(inst[Scan(h)], [held[h] EXCEPT !.status = "completed", !.pers = "complete", !.expected = Found(h)])
    BY <1>2, <2>1 DEF Good, Rows
  <2> QED BY <1>1, <1>2, <1>12, <2>1, <2>2, UpdateKeeps DEF MarkPersisted, Updating, Stored, Found
<1>13. CASE MarkPersistenceFailed(h)
  <2>1. Good(inst[Scan(h)], [held[h] EXCEPT !.status = "persistence_incomplete", !.pers = "failed",
                                            !.sync = "skipped", !.expected = Found(h)])
    BY <1>2 DEF Good, Rows
  <2> QED BY <1>1, <1>2, <1>13, <2>1, UpdateKeeps DEF MarkPersistenceFailed, Updating, Stored
<1>14. SyncStep(h) \in {"file", "skipsync"} BY DEF SyncStep
<1>15. CASE IsPersistenceComplete(h)
  <2>1. pc[h] = "check" /\ UNCHANGED <<setup, held, target, row, inst>> /\ (Goto(h, SyncStep(h)) \/ Goto(h, "done"))
    BY <1>15 DEF IsPersistenceComplete, tables
  <2>2. Stored(SyncStep(h), my[h], inst[Scan(h)]) BY <1>2, <1>14, <2>1 DEF Stored
  <2> QED BY <1>3, <2>1, <2>2 DEF Updating
<1>16. CASE FileIssues(h)
  <2>1. pc[h] = "file" /\ UNCHANGED <<setup, held, target, row, inst>> /\ (Goto(h, "synced") \/ Goto(h, "done"))
    BY <1>16 DEF FileIssues, tables
  <2> QED BY <1>3, <2>1 DEF Updating
<1>17. CASE MarkIssueSyncComplete(h)
  <2>1. Good(inst[Scan(h)], [held[h] EXCEPT !.status = "completed", !.sync = "complete"])
    BY <1>2 DEF Good, Rows
  <2> QED BY <1>1, <1>2, <1>17, <2>1, UpdateKeeps DEF MarkIssueSyncComplete, Updating, Stored
<1>18. CASE MarkIssueSyncSkipped(h)
  <2>1. Good(inst[Scan(h)], [held[h] EXCEPT !.status = "completed", !.sync = "skipped"])
    BY <1>2 DEF Good, Rows
  <2> QED BY <1>1, <1>2, <1>18, <2>1, UpdateKeeps DEF MarkIssueSyncSkipped, Updating, Stored
<1>19. CASE AfterReview(h)
  <2>1. /\ pc[h] = "review" /\ UNCHANGED <<setup, held, target, row, inst>>
        /\ Goto(h, IF my[h].known THEN "persist" ELSE SyncStep(h))
    BY <1>19 DEF AfterReview, tables
  <2>2. CASE my[h].known BY <1>3, <2>1, <2>2 DEF Updating
  <2>3. CASE ~my[h].known
    <3>1. Stored(SyncStep(h), my[h], inst[Scan(h)]) BY <1>14, <2>3 DEF Stored
    <3> QED BY <1>3, <2>1, <2>3, <3>1 DEF Updating
  <2> QED BY <2>2, <2>3
<1> QED BY <1>4, <1>5, <1>6, <1>7, <1>8, <1>9, <1>10, <1>11, <1>12, <1>13, <1>15, <1>16, <1>17, <1>18, <1>19
        DEF HandlerStep

LEMMA ReaderKeeps ==
    ASSUME RowInv, NEW r \in Readers, ReaderStep(r)
    PROVE  RowInv'
<1>1. RowsTypeOK /\ RowsTypeOK' /\ UNCHANGED <<setup, inst>> BY ReaderTypes DEF RowInv
<1>2. r \in Actors /\ r \notin Handlers /\ \A h \in Handlers : Scan(h) \in Scans
  BY <1>1, SetupTypes DEF Actors, RowsTypeOK
<1>3. ASSUME NEW t \in Scans, \A a \in Actors \ {r} : pc'[a] = pc[a] /\ held'[a] = held[a], my' = my,
             \A s \in Scans \ {t} : row'[s] = row[s], Good(inst[t], row'[t]),
             \A q \in Readers \ {r} : target'[q] = target[q],
             pc'[r] = "heal" => target'[r] \in Scans /\ Good(inst[target'[r]], held'[r]),
             pc'[r] # "heal" => held'[r] = NoRow
      PROVE  RowInv'
  <2>1. \A h \in Handlers : h \in Actors \ {r} BY <1>2 DEF Actors
  <2>2. \A q \in Readers \ {r} : q \in Actors \ {r} BY DEF Actors
  <2>3. \A h \in Handlers : Scan(h)' = Scan(h) BY <1>1 DEF Scan
  <2>4. \A s \in Scans : Good(inst'[s], row'[s]) BY <1>1, <1>3 DEF RowInv
  <2>5. ASSUME NEW h \in Handlers
        PROVE  /\ Good(inst'[Scan(h)'], held'[h]) /\ Stored(pc'[h], my'[h], inst'[Scan(h)'])
               /\ pc'[h] \notin Updating => held'[h] = NoRow
    BY <1>1, <1>3, <2>1, <2>3 DEF RowInv
  <2>6. ASSUME NEW q \in Readers
        PROVE  /\ pc'[q] = "heal" => target'[q] \in Scans /\ Good(inst'[target'[q]], held'[q])
               /\ pc'[q] # "heal" => held'[q] = NoRow
    BY <1>1, <1>3, <2>2 DEF RowInv
  <2> QED BY <1>1, <2>4, <2>5, <2>6 DEF RowInv
<1>4. CASE FindReconcilable(r)
  <2>1. PICK s \in Scans : target' = [target EXCEPT ![r] = s] BY <1>4 DEF FindReconcilable
  <2>2. Goto(r, "heal") /\ UNCHANGED <<row, held>> /\ pc[r] = "idle" BY <1>4 DEF FindReconcilable, tables
  <2>3. held[r] = NoRow /\ inst[s] \in Nat BY <1>1, <2>2 DEF RowInv, RowsTypeOK
  <2>4. pc'[r] = "heal" /\ target'[r] = s /\ my' = my /\ \A a \in Actors \ {r} : pc'[a] = pc[a]
    BY <1>1, <1>2, <2>1, <2>2 DEF Goto, RowsTypeOK
  <2>5. \A q \in Readers \ {r} : target'[q] = target[q] BY <1>1, <2>1 DEF RowsTypeOK
  <2>6. Good(inst[s], row'[s]) /\ Good(inst[s], held'[r]) BY <2>2, <2>3, GoodRows DEF RowInv
  <2> QED BY <1>3, <2>2, <2>4, <2>5, <2>6
<1>5. CASE HealIssueSync(r)
  <2>1. /\ UpdateScanPipelineState(r, target[r], [held[r] EXCEPT !.status = "completed", !.sync = "complete"],
                                   "idle", "idle")
        /\ target' = (IF pc'[r] = "idle" THEN [target EXCEPT ![r] = NoScan] ELSE target)
        /\ pc[r] = "heal"
    BY <1>5 DEF HealIssueSync
  <2> DEFINE t == target[r]
  <2>2. t \in Scans /\ Good(inst[t], held[r]) /\ Good(inst[t], row[t]) /\ held[r] \in Rows
    BY <1>1, <1>2, <2>1 DEF RowInv, RowsTypeOK
  <2>3. Good(inst[t], [held[r] EXCEPT !.status = "completed", !.sync = "complete"])
    BY <2>2 DEF Good, Rows
  <2>4. \A q \in Readers \ {r} : target'[q] = target[q] BY <1>1, <2>1 DEF RowsTypeOK
  <2>5. CASE held' = [held EXCEPT ![r] = row[t]] /\ UNCHANGED <<row, pc, my>>
    <3>1. held'[r] = row[t] /\ \A a \in Actors \ {r} : held'[a] = held[a] BY <1>1, <1>2, <2>5 DEF RowsTypeOK
    <3>2. target' = target BY <2>1, <2>5
    <3> HIDE DEF t
    <3>3. target[r] = t BY DEF t
    <3> QED BY <1>3, <2>1, <2>2, <2>4, <2>5, <3>1, <3>2, <3>3
  <2>6. CASE /\ held' = [held EXCEPT ![r] = NoRow] /\ Goto(r, "idle")
             /\ \/ row' = row
                \/ row' = [row EXCEPT ![t] = [held[r] EXCEPT !.status = "completed", !.sync = "complete"]]
    <3>1. held'[r] = NoRow /\ pc'[r] = "idle" /\ my' = my
          /\ \A a \in Actors \ {r} : held'[a] = held[a] /\ pc'[a] = pc[a]
      BY <1>1, <1>2, <2>6 DEF RowsTypeOK, Goto
    <3>2. Good(inst[t], row'[t]) /\ \A s \in Scans \ {t} : row'[s] = row[s]
      BY <1>1, <2>2, <2>3, <2>6 DEF RowsTypeOK
    <3> HIDE DEF t
    <3> QED BY <1>3, <2>2, <2>4, <3>1, <3>2
  <2> QED BY <2>1, <2>5, <2>6 DEF UpdateScanPipelineState
<1> QED BY <1>4, <1>5 DEF ReaderStep

LEMMA RestartKeepsRows ==
    ASSUME RowInv, Restart
    PROVE  RowInv'
<1>1. RowsTypeOK /\ RowsTypeOK' BY RestartTypes DEF RowInv
<1>2. /\ setup' = setup /\ inst' = inst
      /\ \A a \in Actors : held'[a] = NoRow
      /\ \A r \in Readers : pc'[r] = "idle"
      /\ \A h \in Handlers : pc'[h] \in {"idle", "done", "refused", "dead"}
  BY <1>1, SetupTypes DEF Restart, RowsTypeOK, Actors
<1>3. \A s \in Scans : row'[s] = row[s] \/ (row[s].status = "started" /\ row'[s] = [row[s] EXCEPT !.status = "failed"])
  BY DEF Restart
<1>4. ASSUME NEW s \in Scans PROVE Good(inst[s], row'[s])
  <2>1. row[s] \in Rows /\ Good(inst[s], row[s]) BY <1>1 DEF RowInv, RowsTypeOK
  <2> QED BY <1>3, <2>1 DEF Good, Rows
<1>5. \A h \in Handlers : Scan(h)' = Scan(h) /\ Scan(h) \in Scans BY <1>1, <1>2, SetupTypes DEF Scan, RowsTypeOK
<1>6. \A s \in Scans : inst[s] \in Nat BY <1>1 DEF RowsTypeOK
<1>7. ASSUME NEW h \in Handlers
      PROVE  /\ Good(inst[Scan(h)], held'[h]) /\ Stored(pc'[h], my'[h], inst[Scan(h)])
             /\ held'[h] = NoRow
  BY <1>2, <1>5, <1>6, GoodRows DEF Stored, Actors
<1>8. \A r \in Readers : pc'[r] # "heal" /\ held'[r] = NoRow BY <1>2 DEF Actors
<1> QED BY <1>1, <1>2, <1>4, <1>5, <1>7, <1>8 DEF RowInv

(***************************************************************************)
(* How far the row of a scan may have got, while its handler is the only   *)
(* one: RowsAreGuarded.                                                    *)
(***************************************************************************)
Early == {"idle", "visible", "begin", "analyze"}
Mid == {"sbom", "dry", "review", "persist", "persisted"}

\* A handler at p, the row r of its scan and the copy c that it holds of it: no
\* mark is made before its time, and no copy lacks a completed persistence.
Stage(p, r, c) ==
    /\ p \in Early => r.pers = "none" /\ r.sync = "none"
    /\ p \in Mid => /\ r.pers \in {"none", "pending"} /\ r.sync \in {"none", "pending"}
                    /\ c.pers \in {"none", "pending"} /\ c.sync \in {"none", "pending"}
    /\ p \in {"spoil", "respoil"} => r.pers # "complete"
    /\ p \in {"synced", "skipsync"} /\ c # NoRow => (r.pers = "complete" <=> c.pers = "complete")
    /\ p = "sbom" /\ c.status = "started" => r.status = "started"

\* The marks of a row that a write keeps.
Keeps(old, new) ==
    /\ old.pers = "complete" => new.pers = "complete"
    /\ old.sync \in {"complete", "skipped"} => new.sync \in {"complete", "skipped"}

\* Readers are after rows whose persistence is complete.
Guarded ==
    /\ \A h \in Handlers : Alone(Scan(h)) => Stage(pc[h], row[Scan(h)], held[h])
    /\ \A r \in Readers : pc[r] = "heal" /\ Alone(target[r]) =>
         /\ row[target[r]].pers = "complete"
         /\ held[r] # NoRow => held[r].pers = "complete"
    /\ \A h \in Handlers : pc[h] = "sbom" => setup.sbom

\* What a step keeps.
KeepsMarks == \A s \in Scans : Alone(s) => Keeps(row[s], row'[s])

LEMMA AloneStays == ASSUME NEW s, setup' = setup PROVE Alone(s)' <=> Alone(s)
BY DEF Alone, Scan

LEMMA GuardedStarts == ScanInit => Guarded
<1> SUFFICES ASSUME ScanInit PROVE Guarded OBVIOUS
<1>1. \A h \in Handlers : Scan(h) \in Scans BY SetupTypes DEF ScanInit
<1>2. \A h \in Handlers : pc[h] = "idle" /\ held[h] = NoRow BY DEF ScanInit, Actors
<1>3. \A r \in Readers : pc[r] = "idle" BY DEF ScanInit, Actors
<1> QED BY <1>1, <1>2, <1>3 DEF ScanInit, Guarded, Stage, Early, Mid, NoRow

LEMMA GuardedMoves ==
    ASSUME RowInv, Guarded, NEW h \in Handlers, OnlyMoves(h),
           Alone(Scan(h)) => /\ Stage(pc'[h], row'[Scan(h)], held'[h])
                             /\ Keeps(row[Scan(h)], row'[Scan(h)]),
           pc'[h] = "sbom" => setup.sbom
    PROVE  Guarded' /\ KeepsMarks
<1>1. /\ RowsTypeOK /\ setup' = setup /\ target' = target
      /\ \A g \in Handlers : Scan(g) \in Scans /\ Scan(g)' = Scan(g)
      /\ Handlers \cap Readers = {}
  BY SetupTypes DEF RowInv, RowsTypeOK, OnlyMoves, Scan
<1>2. \A s : Alone(s)' <=> Alone(s) BY <1>1 DEF Alone, Scan
<1>3. KeepsMarks BY <1>1 DEF KeepsMarks, Keeps, OnlyMoves
<1>4. ASSUME NEW g \in Handlers
      PROVE  /\ Alone(Scan(g)) => Stage(pc'[g], row'[Scan(g)], held'[g])
             /\ pc'[g] = "sbom" => setup.sbom
  <2>1. CASE g = h BY <2>1
  <2>2. CASE g # h
    <3>1. pc'[g] = pc[g] /\ held'[g] = held[g] BY <2>2 DEF OnlyMoves, Actors
    <3>2. Alone(Scan(g)) => Scan(g) # Scan(h) BY <2>2 DEF Alone
    <3>3. Alone(Scan(g)) => row'[Scan(g)] = row[Scan(g)] BY <1>1, <3>2 DEF OnlyMoves
    <3> QED BY <3>1, <3>3 DEF Guarded
  <2> QED BY <2>1, <2>2
<1>5. ASSUME NEW r \in Readers, pc'[r] = "heal", Alone(target[r])
      PROVE  /\ row'[target[r]].pers = "complete"
             /\ held'[r] # NoRow => held'[r].pers = "complete"
  <2>1. pc[r] = "heal" /\ held'[r] = held[r] BY <1>1, <1>5 DEF OnlyMoves, Actors
  <2>2. target[r] \in Scans BY <2>1 DEF RowInv
  <2>3. row'[target[r]].pers = "complete" BY <1>3, <1>5, <2>1, <2>2 DEF KeepsMarks, Keeps, Guarded
  <2> QED BY <1>5, <2>1, <2>3 DEF Guarded
<1> QED BY <1>1, <1>2, <1>3, <1>4, <1>5 DEF Guarded

LEMMA UpdateGuards ==
    ASSUME RowInv, Guarded, NEW h \in Handlers, NEW m, NEW n, NEW f, UNCHANGED target,
           UpdateScanPipelineState(h, Scan(h), m, n, f), pc[h] \in Updating, n # "sbom", f # "sbom",
           Stage(pc[h], row[Scan(h)], held[h]) /\ held[h] # NoRow
                => Keeps(row[Scan(h)], m) /\ Stage(n, m, NoRow),
           Stage(pc[h], row[Scan(h)], held[h]) => Stage(f, row[Scan(h)], NoRow)
    PROVE  Guarded' /\ KeepsMarks
<1>1. RowsTypeOK /\ Scan(h) \in Scans /\ h \in Actors BY SetupTypes DEF RowInv, RowsTypeOK, Actors
<1>2. inst' = inst /\ setup' = setup /\ inst[Scan(h)] \in Nat
  BY <1>1 DEF UpdateScanPipelineState, RowsTypeOK
<1>3. Alone(Scan(h)) => Stage(pc[h], row[Scan(h)], held[h]) BY DEF Guarded
<1>4. CASE held' = [held EXCEPT ![h] = row[Scan(h)]] /\ UNCHANGED <<row, pc, my>>
  <2>1. OnlyMoves(h) BY <1>1, <1>2, <1>4 DEF OnlyMoves, RowsTypeOK
  <2>2. held'[h] = row[Scan(h)] BY <1>1, <1>4 DEF RowsTypeOK
  <2>3. Stage(pc[h], row[Scan(h)], held[h]) => Stage(pc[h], row[Scan(h)], row[Scan(h)]) BY DEF Stage
  <2>4. Keeps(row[Scan(h)], row[Scan(h)]) BY DEF Keeps
  <2> QED BY <1>3, <1>4, <2>1, <2>2, <2>3, <2>4, GuardedMoves DEF Guarded
<1>5. ASSUME NEW s, NEW r, Goto(h, s), held' = [held EXCEPT ![h] = NoRow], row' = [row EXCEPT ![Scan(h)] = r],
             s # "sbom", Stage(pc[h], row[Scan(h)], held[h]) => Keeps(row[Scan(h)], r) /\ Stage(s, r, NoRow)
      PROVE  Guarded' /\ KeepsMarks
  <2>1. OnlyMoves(h) BY <1>1, <1>2, <1>5 DEF OnlyMoves, RowsTypeOK, Goto
  <2>2. held'[h] = NoRow /\ pc'[h] = s /\ row'[Scan(h)] = r BY <1>1, <1>5 DEF RowsTypeOK, Goto
  <2> QED BY <1>3, <1>5, <2>1, <2>2, GuardedMoves
<1>6. CASE held[h] # NoRow /\ row' = [row EXCEPT ![Scan(h)] = m] /\ held' = [held EXCEPT ![h] = NoRow] /\ Goto(h, n)
  BY <1>5, <1>6
<1>7. CASE held' = [held EXCEPT ![h] = NoRow] /\ Goto(h, f) /\ UNCHANGED row
  <2>1. row' = [row EXCEPT ![Scan(h)] = row[Scan(h)]] BY <1>1, <1>7 DEF RowsTypeOK
  <2>2. Keeps(row[Scan(h)], row[Scan(h)]) BY DEF Keeps
  <2> QED BY <1>5, <1>7, <2>1, <2>2
<1> QED BY <1>4, <1>6, <1>7 DEF UpdateScanPipelineState

LEMMA GotoGuards ==
    ASSUME RowInv, Guarded, NEW h \in Handlers, NEW s, Goto(h, s), UNCHANGED <<setup, held, target>>,
           pc[h] \notin Updating, s # "sbom",
           \A t \in Scans \ {Scan(h)} : row'[t] = row[t] /\ inst'[t] = inst[t],
           inst'[Scan(h)] >= inst[Scan(h)],
           Stage(pc[h], row[Scan(h)], NoRow)
                => Keeps(row[Scan(h)], row'[Scan(h)]) /\ Stage(s, row'[Scan(h)], NoRow)
    PROVE  Guarded' /\ KeepsMarks
<1>1. RowsTypeOK /\ Scan(h) \in Scans /\ h \in Actors
  BY SetupTypes DEF RowInv, RowsTypeOK, Actors
<1>2. OnlyMoves(h) BY <1>1 DEF OnlyMoves, RowsTypeOK, Goto
<1>3. pc'[h] = s /\ held'[h] = NoRow /\ held[h] = NoRow BY <1>1 DEF RowInv, RowsTypeOK, Goto
<1> QED BY <1>1, <1>2, <1>3, GuardedMoves DEF Guarded

LEMMA BeginGuards ==
    ASSUME RowInv, NEW h \in Handlers, BeginScan(h), NEW p \in Early, NEW q \in Early
    PROVE  /\ \A t \in Scans \ {Scan(h)} : row'[t] = row[t]
           /\ Stage(p, row[Scan(h)], NoRow)
                => Keeps(row[Scan(h)], row'[Scan(h)]) /\ Stage(q, row'[Scan(h)], NoRow)
<1>1. Scan(h) \in Scans /\ MaxFound \in Nat /\ row \in [Scans -> Rows]
  BY SetupTypes DEF RowInv, RowsTypeOK
<1>2. row'[Scan(h)] \in {row[Scan(h)], StartedRow} /\ \A t \in Scans \ {Scan(h)} : row'[t] = row[t]
  BY <1>1 DEF BeginScan
<1> QED BY <1>1, <1>2, RowKinds DEF Stage, Keeps, Early, Mid

LEMMA HandlerGuards ==
    ASSUME RowInv, Guarded, NEW h \in Handlers, HandlerStep(h) \/ AfterReview(h)
    PROVE  Guarded' /\ KeepsMarks
<1>1. RowsTypeOK BY DEF RowInv
<1>2. /\ Scan(h) \in Scans /\ h \in Actors /\ inst[Scan(h)] \in Nat
      /\ held[h] \in Rows /\ my[h] \in Locals /\ my[h].found \in Nat
  BY <1>1, SetupTypes DEF RowsTypeOK, Actors, Locals
<1>0. NoRow.pers = "none" /\ NoRow.status = "none" /\ NoRow.sync = "none" BY DEF NoRow
<1>3. ASSUME NEW s, Goto(h, s), UNCHANGED <<setup, held, target, row, inst>>, pc[h] \notin Updating, s # "sbom",
             Stage(pc[h], row[Scan(h)], NoRow) => Stage(s, row[Scan(h)], NoRow)
      PROVE  Guarded' /\ KeepsMarks
  <2>1. Keeps(row[Scan(h)], row[Scan(h)]) BY DEF Keeps
  <2> QED BY <1>1, <1>2, <1>3, <2>1, GotoGuards
<1>4. CASE CheckScanAdmission(h)
  <2>1. pc[h] = "idle" /\ UNCHANGED <<setup, held, target, row, inst>> /\ (Goto(h, "refused") \/ Goto(h, "visible"))
    BY <1>4 DEF CheckScanAdmission, tables
  <2> QED BY <1>0, <1>3, <2>1 DEF Updating, Stage, Early, Mid
<1>5. CASE EnsureManualScanVisible(h)
  <2>1. pc[h] = "visible" /\ UNCHANGED <<setup, held, target, inst>> BY <1>5 DEF EnsureManualScanVisible
  <2>2. CASE row' = row /\ Goto(h, "refused") BY <1>0, <1>3, <2>1, <2>2 DEF Updating, Stage, Early, Mid
  <2>3. CASE BeginScan(h) /\ Goto(h, "begin")
    <3>1. "visible" \in Early /\ "begin" \in Early /\ "visible" \notin Updating BY DEF Early, Updating
    <3> QED BY <1>2, <2>1, <2>3, <3>1, GotoGuards, BeginGuards
  <2> QED BY <1>5, <2>2, <2>3 DEF EnsureManualScanVisible
<1>6. CASE BeginPersistedScan(h)
  <2>1. pc[h] \in {"begin", "idle"} /\ UNCHANGED <<setup, inst, held, target>>
    BY <1>6 DEF BeginPersistedScan
  <2>2. CASE row' = row /\ (Goto(h, "done") \/ Goto(h, "analyze"))
    BY <1>0, <1>3, <2>1, <2>2 DEF Updating, Stage, Early, Mid
  <2>3. CASE /\ BeginScan(h) /\ my' = [my EXCEPT ![h] = [@ EXCEPT !.known = TRUE]]
             /\ pc' = [pc EXCEPT ![h] = "analyze"]
    <3>1. pc'[h] = "analyze" /\ held'[h] = NoRow /\ held[h] = NoRow
      BY <1>1, <1>2, <2>1, <2>3 DEF RowInv, RowsTypeOK, Updating
    <3>2. pc[h] \in Early /\ "analyze" \in Early BY <2>1 DEF Early
    <3>3. /\ \A t \in Scans \ {Scan(h)} : row'[t] = row[t]
          /\ Stage(pc[h], row[Scan(h)], NoRow)
                => Keeps(row[Scan(h)], row'[Scan(h)]) /\ Stage("analyze", row'[Scan(h)], NoRow)
      BY <2>3, <3>2, BeginGuards
    <3>4. OnlyMoves(h) BY <1>1, <1>2, <2>1, <2>3, <3>3 DEF OnlyMoves, RowsTypeOK
    <3> QED BY <3>1, <3>3, <3>4, GuardedMoves DEF Guarded
  <2> QED BY <1>6, <2>2, <2>3 DEF BeginPersistedScan
<1>7. CASE SkipDisabledPush(h)
  <2>1. pc[h] = "analyze" /\ UNCHANGED <<setup, held, target, row, inst>> /\ Goto(h, "done")
    BY <1>7 DEF SkipDisabledPush, tables
  <2> QED BY <1>0, <1>3, <2>1 DEF Updating, Stage, Early, Mid
<1>8. CASE FinishScan(h)
  <2>1. PICK o \in Outcomes(Kind(h)) :
          /\ \/ /\ row' = IF row[Scan(h)] = NoRow THEN row
                          ELSE [row EXCEPT ![Scan(h)] = FinishedRow(Kind(h), o)]
                /\ UNCHANGED <<faults, stray>>
             \/ Fault("finish") /\ Strayed(Scan(h)) /\ UNCHANGED row
          /\ \/ o.mode \in {"none", "failed"} /\ Goto(h, "done")
             \/ /\ o.mode \notin {"none", "failed"}
                /\ my' = [my EXCEPT ![h] = [known |-> my[h].known, mode |-> o.mode, found |-> o.found]]
                /\ \/ pc' = [pc EXCEPT ![h] = ReviewStep(o.mode)]
                   \/ setup.sbom /\ my[h].known /\ pc' = [pc EXCEPT ![h] = "sbom"]
    BY <1>8 DEF FinishScan
  <2>2. pc[h] = "analyze" /\ UNCHANGED <<setup, inst, held, target>> BY <1>8 DEF FinishScan
  <2>3. /\ \A t \in Scans \ {Scan(h)} : row'[t] = row[t]
        /\ row'[Scan(h)] \in {row[Scan(h)], FinishedRow(Kind(h), o)}
    BY <1>1, <1>2, <2>1 DEF RowsTypeOK
  <2>4. FinishedRow(Kind(h), o).pers \in {"none", "pending"} /\ FinishedRow(Kind(h), o).sync \in {"none", "pending"}
    BY DEF FinishedRow
  <2>5. ASSUME NEW p \in {"dry", "review", "sbom", "done"}
        PROVE  Stage(pc[h], row[Scan(h)], NoRow)
                => Keeps(row[Scan(h)], row'[Scan(h)]) /\ Stage(p, row'[Scan(h)], NoRow)
    BY <1>0, <2>2, <2>3, <2>4 DEF Stage, Keeps, Early, Mid
  <2>6. CASE Goto(h, "done")
    BY <1>1, <1>2, <2>2, <2>3, <2>5, <2>6, GotoGuards DEF Updating
  <2>7. CASE /\ my' = [my EXCEPT ![h] = [known |-> my[h].known, mode |-> o.mode, found |-> o.found]]
             /\ pc' = [pc EXCEPT ![h] = ReviewStep(o.mode)] \/ (setup.sbom /\ pc' = [pc EXCEPT ![h] = "sbom"])
    <3>1. pc'[h] \in {"dry", "review", "sbom", "done"} /\ held'[h] = NoRow /\ held[h] = NoRow
          /\ (pc'[h] = "sbom" => setup.sbom)
      BY <1>1, <1>2, <2>2, <2>7 DEF RowInv, RowsTypeOK, Updating, ReviewStep
    <3>2. OnlyMoves(h) BY <1>1, <1>2, <2>2, <2>3, <2>7 DEF OnlyMoves, RowsTypeOK
    <3> QED BY <2>5, <3>1, <3>2, GuardedMoves DEF Guarded
  <2> QED BY <2>1, <2>6, <2>7
<1>9. CASE RecordSBOM(h)
  <2>1. ReviewStep(my[h].mode) \in {"dry", "review"} BY DEF ReviewStep
  <2> QED BY <1>0, <1>9, <2>1, UpdateGuards DEF RecordSBOM, Updating, Stage, Keeps, Early, Mid
<1>10. CASE MarkDryRun(h)
  <2> DEFINE m == [held[h] EXCEPT !.status = "completed"]
  <2>1. m.pers = held[h].pers /\ m.sync = held[h].sync BY <1>2 DEF Rows
  <2>2. pc[h] = "dry" /\ UNCHANGED target /\ UpdateScanPipelineState(h, Scan(h), m, "review", "review")
    BY <1>10 DEF MarkDryRun
  <2> HIDE DEF m
  <2> QED BY <1>0, <2>1, <2>2, UpdateGuards DEF Updating, Stage, Keeps, Early, Mid
<1>11. CASE PersistScanFindings(h)
  <2>1. pc[h] = "persist" /\ UNCHANGED <<setup, row, held, target>> BY <1>11 DEF PersistScanFindings
  <2>0. ASSUME NEW p \in {"persisted", "spoil"}
        PROVE  Stage(pc[h], row[Scan(h)], NoRow)
                 => Keeps(row[Scan(h)], row'[Scan(h)]) /\ Stage(p, row'[Scan(h)], NoRow)
    BY <1>0, <2>1 DEF Stage, Keeps, Early, Mid
  <2>2. CASE inst' = [inst EXCEPT ![Scan(h)] = @ + Found(h)] /\ Goto(h, "persisted")
    <3>1. inst'[Scan(h)] = inst[Scan(h)] + my[h].found
      BY <1>1, <1>2, <2>2 DEF RowsTypeOK, Found
    <3>2. \A t \in Scans \ {Scan(h)} : inst'[t] = inst[t] BY <1>1, <2>2 DEF RowsTypeOK
    <3>3. inst'[Scan(h)] >= inst[Scan(h)] BY <1>2, <3>1
    <3> QED BY <2>0, <2>1, <2>2, <3>2, <3>3, GotoGuards DEF Updating
  <2>3. CASE Goto(h, "spoil") /\ UNCHANGED inst
    <3>1. inst'[Scan(h)] >= inst[Scan(h)] BY <1>2, <2>3
    <3> QED BY <2>0, <2>1, <2>3, <3>1, GotoGuards DEF Updating
  <2> QED BY <1>11, <2>2, <2>3 DEF PersistScanFindings
<1>12. CASE MarkPersisted(h)
  <2> DEFINE m == [held[h] EXCEPT !.status = "completed", !.pers = "complete", !.expected = Found(h)]
  <2>1. m.pers = "complete" /\ m.sync = held[h].sync BY <1>2 DEF Rows
  <2>2. pc[h] = "persisted" /\ UNCHANGED target /\ UpdateScanPipelineState(h, Scan(h), m, "check", "respoil")
    BY <1>12 DEF MarkPersisted
  <2> HIDE DEF m
  <2> QED BY <1>0, <2>1, <2>2, UpdateGuards DEF Updating, Stage, Keeps, Early, Mid
<1>13. CASE MarkPersistenceFailed(h)
  <2> DEFINE m == [held[h] EXCEPT !.status = "persistence_incomplete", !.pers = "failed",
                                  !.sync = "skipped", !.expected = Found(h)]
             next == IF pc[h] = "spoil" THEN "respoil" ELSE "done"
  <2>1. m.pers = "failed" /\ m.sync = "skipped" BY <1>2 DEF Rows
  <2>2. pc[h] \in {"spoil", "respoil"} /\ UNCHANGED target /\ UpdateScanPipelineState(h, Scan(h), m, next, next)
    BY <1>13 DEF MarkPersistenceFailed
  <2>3. next \in {"respoil", "done"} OBVIOUS
  <2> HIDE DEF m, next
  <2> QED BY <1>0, <2>1, <2>2, <2>3, UpdateGuards DEF Updating, Stage, Keeps, Early, Mid
<1>14. SyncStep(h) \in {"file", "skipsync"} BY DEF SyncStep
<1>15. CASE IsPersistenceComplete(h)
  <2>1. pc[h] = "check" /\ UNCHANGED <<setup, held, target, row, inst>> /\ (Goto(h, SyncStep(h)) \/ Goto(h, "done"))
    BY <1>15 DEF IsPersistenceComplete, tables
  <2> QED BY <1>0, <1>3, <1>14, <2>1 DEF Updating, Stage, Early, Mid
<1>16. CASE FileIssues(h)
  <2>1. pc[h] = "file" /\ UNCHANGED <<setup, held, target, row, inst>> /\ (Goto(h, "synced") \/ Goto(h, "done"))
    BY <1>16 DEF FileIssues, tables
  <2> QED BY <1>0, <1>3, <2>1 DEF Updating, Stage, Early, Mid
<1>17. CASE MarkIssueSyncComplete(h)
  <2> DEFINE m == [held[h] EXCEPT !.status = "completed", !.sync = "complete"]
  <2>1. m.pers = held[h].pers /\ m.sync = "complete" BY <1>2 DEF Rows
  <2>2. pc[h] = "synced" /\ UNCHANGED target /\ UpdateScanPipelineState(h, Scan(h), m, "done", "done")
    BY <1>17 DEF MarkIssueSyncComplete
  <2> HIDE DEF m
  <2> QED BY <1>0, <2>1, <2>2, UpdateGuards DEF Updating, Stage, Keeps, Early, Mid
<1>18. CASE MarkIssueSyncSkipped(h)
  <2> DEFINE m == [held[h] EXCEPT !.status = "completed", !.sync = "skipped"]
  <2>1. m.pers = held[h].pers /\ m.sync = "skipped" BY <1>2 DEF Rows
  <2>2. pc[h] = "skipsync" /\ UNCHANGED target /\ UpdateScanPipelineState(h, Scan(h), m, "done", "done")
    BY <1>18 DEF MarkIssueSyncSkipped
  <2> HIDE DEF m
  <2> QED BY <1>0, <2>1, <2>2, UpdateGuards DEF Updating, Stage, Keeps, Early, Mid
<1>19. CASE AfterReview(h)
  <2>1. /\ pc[h] = "review" /\ UNCHANGED <<setup, held, target, row, inst>>
        /\ \E s \in {"persist", "file", "skipsync"} : Goto(h, s)
    BY <1>14, <1>19 DEF AfterReview, tables
  <2>2. \A s \in {"persist", "file", "skipsync"} :
           Stage("review", row[Scan(h)], NoRow) => Stage(s, row[Scan(h)], NoRow)
    BY <1>0 DEF Stage, Early, Mid
  <2>3. PICK s \in {"persist", "file", "skipsync"} : Goto(h, s) BY <2>1
  <2>4. s # "sbom" /\ "review" \notin Updating BY DEF Updating
  <2> QED BY <1>3, <2>1, <2>2, <2>3, <2>4
<1> QED BY <1>4, <1>5, <1>6, <1>7, <1>8, <1>9, <1>10, <1>11, <1>12, <1>13, <1>15, <1>16, <1>17, <1>18, <1>19
        DEF HandlerStep

LEMMA ReaderGuards ==
    ASSUME RowInv, Guarded, NEW r \in Readers, ReaderStep(r)
    PROVE  Guarded' /\ KeepsMarks
<1>1. RowsTypeOK /\ RowsTypeOK' /\ UNCHANGED <<setup, inst>> BY ReaderTypes DEF RowInv
<1>2. /\ r \in Actors /\ r \notin Handlers
      /\ \A h \in Handlers : Scan(h) \in Scans /\ Scan(h)' = Scan(h) /\ h \in Actors \ {r}
      /\ \A q \in Readers \ {r} : q \in Actors \ {r}
      /\ \A s : Alone(s)' <=> Alone(s)
  BY <1>1, SetupTypes DEF Actors, RowsTypeOK, Scan, Alone
<1>3. CASE FindReconcilable(r)
  <2>1. PICK s \in Scans : row[s].pers = "complete" /\ target' = [target EXCEPT ![r] = s]
    BY <1>3 DEF FindReconcilable
  <2>2. Goto(r, "heal") /\ UNCHANGED <<row, held>> /\ pc[r] = "idle" BY <1>3 DEF FindReconcilable, tables
  <2>3. held'[r] = NoRow BY <1>1, <2>2 DEF RowInv
  <2>4. target'[r] = s /\ (\A a \in Actors \ {r} : pc'[a] = pc[a])
        /\ \A q \in Readers \ {r} : target'[q] = target[q]
    BY <1>1, <2>1, <2>2 DEF Goto, RowsTypeOK
  <2>5. \A h \in Handlers : pc'[h] = pc[h] /\ held'[h] = held[h] BY <1>2, <2>2, <2>4
  <2>6. ASSUME NEW q \in Readers, pc'[q] = "heal", Alone(target'[q])
        PROVE  row'[target'[q]].pers = "complete" /\ (held'[q] # NoRow => held'[q].pers = "complete")
    <3>1. CASE q = r BY <2>1, <2>2, <2>3, <2>4, <3>1
    <3>2. CASE q # r BY <1>2, <2>2, <2>4, <2>6, <3>2 DEF Guarded
    <3> QED BY <3>1, <3>2
  <2>7. Guarded' BY <1>1, <1>2, <2>2, <2>5, <2>6 DEF Guarded
  <2> QED BY <2>2, <2>7 DEF KeepsMarks, Keeps
<1>4. CASE HealIssueSync(r)
  <2> DEFINE t == target[r]
             m == [held[r] EXCEPT !.status = "completed", !.sync = "complete"]
  <2>1. /\ UpdateScanPipelineState(r, t, m, "idle", "idle")
        /\ target' = (IF pc'[r] = "idle" THEN [target EXCEPT ![r] = NoScan] ELSE target)
        /\ pc[r] = "heal"
    BY <1>4 DEF HealIssueSync
  <2>2. t \in Scans /\ held[r] \in Rows /\ row[t] \in Rows BY <1>1, <1>2, <2>1 DEF RowInv, RowsTypeOK
  <2>3. Alone(t) => row[t].pers = "complete" /\ (held[r] # NoRow => held[r].pers = "complete")
    BY <2>1 DEF Guarded
  <2>4. m.pers = held[r].pers /\ m.sync = "complete" BY <2>2 DEF Rows
  <2>5. \A q \in Readers \ {r} : target'[q] = target[q] BY <1>1, <2>1 DEF RowsTypeOK
  <2>6. /\ \A a \in Actors \ {r} : pc'[a] = pc[a] /\ held'[a] = held[a]
        /\ \A s \in Scans \ {t} : row'[s] = row[s]
        /\ row'[t] = row[t] \/ (held[r] # NoRow /\ row'[t] = m)
        /\ \/ held'[r] = row[t] /\ target' = target
           \/ pc'[r] = "idle"
    <3> HIDE DEF t, m
    <3> QED BY <1>1, <1>2, <2>1, <2>2 DEF UpdateScanPipelineState, RowsTypeOK, Goto
  <2> HIDE DEF t, m
  <2>7. /\ Alone(t) => row'[t].pers = "complete" /\ Keeps(row[t], row'[t])
    BY <2>3, <2>4, <2>6 DEF Keeps
  <2>8. KeepsMarks BY <2>6, <2>7 DEF KeepsMarks, Keeps
  <2>9. ASSUME NEW h \in Handlers, Alone(Scan(h)) PROVE Stage(pc'[h], row'[Scan(h)], held'[h])
    <3>1. Stage(pc[h], row[Scan(h)], held[h]) /\ pc'[h] = pc[h] /\ held'[h] = held[h] /\ Scan(h) \in Scans
      BY <1>2, <2>6, <2>9 DEF Guarded
    <3>2. CASE Scan(h) # t BY <2>6, <3>1, <3>2
    <3>3. CASE Scan(h) = t
      <4>1. row[t].pers = "complete" /\ row'[t].pers = "complete" BY <2>3, <2>7, <2>9, <3>3
      <4>2. pc[h] \notin Early \cup Mid \cup {"spoil", "respoil"} BY <3>1, <3>3, <4>1 DEF Stage, Early, Mid
      <4>3. pc[h] # "sbom" BY <4>2 DEF Mid
      <4> QED BY <3>1, <3>3, <4>1, <4>2, <4>3 DEF Stage
    <3> QED BY <3>2, <3>3
  <2>10. ASSUME NEW q \in Readers, pc'[q] = "heal", Alone(target'[q])
         PROVE  row'[target'[q]].pers = "complete" /\ (held'[q] # NoRow => held'[q].pers = "complete")
    <3>1. CASE q = r
      <4>1. held'[r] = row[t] /\ target'[r] = t BY <2>6, <2>10, <3>1 DEF t
      <4> QED BY <2>3, <2>7, <2>10, <3>1, <4>1
    <3>2. CASE q # r
      <4>1. pc[q] = "heal" /\ target'[q] = target[q] /\ held'[q] = held[q] BY <1>2, <2>5, <2>6, <2>10, <3>2
      <4>2. target[q] \in Scans /\ row[target[q]].pers = "complete" BY <2>10, <4>1 DEF RowInv, Guarded
      <4> QED BY <2>6, <2>7, <2>10, <4>1, <4>2 DEF Guarded
    <3> QED BY <3>1, <3>2
  <2>11. \A h \in Handlers : pc'[h] = "sbom" => setup.sbom BY <1>2, <2>6 DEF Guarded
  <2> QED BY <1>1, <1>2, <2>8, <2>9, <2>10, <2>11 DEF Guarded
<1> QED BY <1>3, <1>4 DEF ReaderStep

LEMMA RestartGuards ==
    ASSUME RowInv, Guarded, Restart
    PROVE  Guarded' /\ KeepsMarks
<1>1. RowsTypeOK /\ Handlers \cap Readers = {} BY SetupTypes DEF RowInv, RowsTypeOK
<1>2. /\ setup' = setup
      /\ \A a \in Actors : held'[a] = NoRow
      /\ \A r \in Readers : pc'[r] = "idle"
      /\ \A h \in Handlers : pc'[h] \in {"idle", "done", "refused", "dead"} /\ (pc'[h] = "idle" => pc[h] = "idle")
  BY <1>1 DEF Restart, Actors
<1>3. \A s \in Scans : row'[s].pers = row[s].pers /\ row'[s].sync = row[s].sync
  <2>1. \A s \in Scans : row'[s] = row[s] \/ row'[s] = [row[s] EXCEPT !.status = "failed"] BY DEF Restart
  <2>2. \A r \in Rows : [r EXCEPT !.status = "failed"].pers = r.pers /\ [r EXCEPT !.status = "failed"].sync = r.sync
    BY DEF Rows
  <2> QED BY <1>1, <2>1, <2>2 DEF RowsTypeOK
<1>4. \A h \in Handlers : Scan(h)' = Scan(h) /\ Scan(h) \in Scans BY <1>1, <1>2, SetupTypes DEF Scan, RowsTypeOK
<1>5. ASSUME NEW h \in Handlers, Alone(Scan(h)) PROVE Stage(pc'[h], row'[Scan(h)], held'[h])
  <2>1. pc'[h] = "idle" => row[Scan(h)].pers = "none" /\ row[Scan(h)].sync = "none"
    BY <1>2, <1>5 DEF Guarded, Stage, Early
  <2> QED BY <1>2, <1>3, <1>4, <2>1 DEF Stage, Early, Mid
<1>6. \A s : Alone(s)' <=> Alone(s) BY <1>2 DEF Alone, Scan
<1>7. Guarded' BY <1>2, <1>4, <1>5, <1>6 DEF Guarded
<1> QED BY <1>3, <1>7 DEF KeepsMarks, Keeps

(***************************************************************************)
(* Rows that are running, and manual scans that were admitted.             *)
(***************************************************************************)
\* Identifiers are not reused where bills of material are recorded: the write of
\* one handler could bring back a row as it was before another finished it.
Apart ==
    \A e \in Setups : e.sbom => \A g, h \in Handlers : e.job[g].scan = e.job[h].scan => g = h

\* A manual scan that was admitted knows of every running one that came since.
Admitted ==
    \A h \in Handlers : pc[h] = "visible" => \A s \in Scans : row[s].status = "started" => s \in late[h]

\* A step that starts no row, and admits nobody.
LEMMA NothingStarts ==
    ASSUME Admitted, late' = late, \A h \in Handlers : pc'[h] = "visible" => pc[h] = "visible",
           \A s \in Scans : row'[s].status = "started" => row[s].status = "started"
    PROVE  Admitted'
BY DEF Admitted

LEMMA BeginAdmits ==
    ASSUME RowInv, Admitted, NEW h \in Handlers, BeginScan(h), pc'[h] # "visible",
           \A g \in Handlers \ {h} : pc'[g] = pc[g]
    PROVE  Admitted'
<1>1. RowsTypeOK /\ Scan(h) \in Scans BY SetupTypes DEF RowInv, RowsTypeOK
<1>2. CASE UNCHANGED <<row, late>> BY <1>2, NothingStarts
<1>3. CASE /\ row' = [row EXCEPT ![Scan(h)] = StartedRow]
           /\ late' = [g \in Handlers |-> IF pc[g] # "visible" \/ g = h THEN {} ELSE late[g] \cup {Scan(h)}]
  BY <1>1, <1>3 DEF Admitted, RowsTypeOK
<1> QED BY <1>2, <1>3 DEF BeginScan

LEMMA UpdateAdmits ==
    ASSUME RowInv, Admitted, NEW a \in Actors, NEW s \in Scans, NEW m, NEW n, NEW f,
           UpdateScanPipelineState(a, s, m, n, f), n # "visible", f # "visible",
           held[a] # NoRow /\ m.status = "started" => row[s].status = "started"
    PROVE  Admitted'
<1>1. RowsTypeOK BY DEF RowInv
<1>2. late' = late BY DEF UpdateScanPipelineState
<1>3. \A h \in Handlers : pc'[h] = "visible" => pc[h] = "visible"
  BY <1>1 DEF UpdateScanPipelineState, Goto, RowsTypeOK, Actors
<1>4. \A t \in Scans : row'[t].status = "started" => row[t].status = "started"
  BY <1>1 DEF UpdateScanPipelineState, RowsTypeOK
<1> QED BY <1>2, <1>3, <1>4, NothingStarts

LEMMA HandlerAdmits ==
    ASSUME RowInv, Guarded, Admitted, Apart, NEW h \in Handlers, HandlerStep(h) \/ AfterReview(h)
    PROVE  Admitted'
<1>1. RowsTypeOK /\ h \in Actors /\ Scan(h) \in Scans /\ held[h] \in Rows /\ setup \in Setups
  BY SetupTypes DEF RowInv, RowsTypeOK, Actors
<1>2. ASSUME NEW s, Goto(h, s), s # "visible"
      PROVE  /\ pc'[h] # "visible" /\ \A g \in Handlers \ {h} : pc'[g] = pc[g]
             /\ \A g \in Handlers : pc'[g] = "visible" => pc[g] = "visible"
  <2>1. pc'[h] = s /\ \A g \in Handlers \ {h} : pc'[g] = pc[g] BY <1>1, <1>2 DEF Goto, RowsTypeOK, Actors
  <2> QED BY <1>2, <2>1
<1>3. ASSUME NEW s, Goto(h, s), s # "visible", UNCHANGED <<row, late>> PROVE Admitted'
  BY <1>2, <1>3, NothingStarts
<1>4. CASE CheckScanAdmission(h)
  <2>1. CASE Goto(h, "refused") /\ UNCHANGED late BY <1>3, <1>4, <2>1 DEF CheckScanAdmission, tables
  <2>2. row' = row BY <1>4 DEF CheckScanAdmission, tables
  <2>3. CASE ~HasRunningScan /\ UNCHANGED late
    BY <2>2, <2>3 DEF HasRunningScan, Admitted
  <2>4. CASE Goto(h, "visible") /\ late' = [late EXCEPT ![h] = Scans]
    <3>1. late'[h] = Scans /\ \A g \in Handlers \ {h} : late'[g] = late[g] /\ pc'[g] = pc[g]
      BY <1>1, <2>4 DEF Goto, RowsTypeOK, Actors
    <3> QED BY <2>2, <3>1 DEF Admitted
  <2> QED BY <1>4, <2>1, <2>3, <2>4 DEF CheckScanAdmission
<1>5. CASE EnsureManualScanVisible(h)
  <2>1. CASE BeginScan(h) /\ Goto(h, "begin") BY <1>2, <2>1, BeginAdmits
  <2> QED BY <1>3, <1>5, <2>1 DEF EnsureManualScanVisible
<1>6. CASE BeginPersistedScan(h)
  <2>1. CASE BeginScan(h) /\ pc' = [pc EXCEPT ![h] = "analyze"]
    <3>1. pc'[h] = "analyze" /\ \A g \in Handlers \ {h} : pc'[g] = pc[g] BY <1>1, <2>1 DEF RowsTypeOK, Actors
    <3> QED BY <2>1, <3>1, BeginAdmits
  <2>2. CASE UNCHANGED <<row, late>> /\ (Goto(h, "done") \/ Goto(h, "analyze")) BY <1>3, <2>2
  <2> QED BY <1>6, <2>1, <2>2 DEF BeginPersistedScan
<1>7. CASE SkipDisabledPush(h) BY <1>3, <1>7 DEF SkipDisabledPush, tables
<1>8. CASE FinishScan(h)
  <2>1. PICK o \in Outcomes(Kind(h)) :
          /\ row' \in {row, [row EXCEPT ![Scan(h)] = FinishedRow(Kind(h), o)]}
          /\ \/ Goto(h, "done")
             \/ pc' = [pc EXCEPT ![h] = ReviewStep(o.mode)] \/ pc' = [pc EXCEPT ![h] = "sbom"]
    BY <1>8 DEF FinishScan
  <2>2. FinishedRow(Kind(h), o).status # "started" BY DEF FinishedRow
  <2>3. \A t \in Scans : row'[t].status = "started" => row[t].status = "started"
    BY <1>1, <2>1, <2>2 DEF RowsTypeOK
  <2>4. \A g \in Handlers : pc'[g] = "visible" => pc[g] = "visible"
    BY <1>1, <1>2, <2>1 DEF ReviewStep, RowsTypeOK, Actors
  <2>5. late' = late BY <1>8 DEF FinishScan
  <2> QED BY <2>3, <2>4, <2>5, NothingStarts
<1>9. CASE RecordSBOM(h)
  <2>1. ReviewStep(my[h].mode) # "visible" BY DEF ReviewStep
  <2>2. setup.sbom /\ pc[h] = "sbom" BY <1>9 DEF RecordSBOM, Guarded
  <2>3. Alone(Scan(h)) BY <1>1, <2>2 DEF Apart, Alone, Scan
  <2>4. held[h].status = "started" => row[Scan(h)].status = "started" BY <2>2, <2>3 DEF Guarded, Stage
  <2> QED BY <1>1, <1>9, <2>1, <2>4, UpdateAdmits DEF RecordSBOM
<1>10. CASE MarkDryRun(h)
  <2>1. [held[h] EXCEPT !.status = "completed"].status # "started" BY <1>1 DEF Rows
  <2> QED BY <1>1, <1>10, <2>1, UpdateAdmits DEF MarkDryRun
<1>11. CASE PersistScanFindings(h) BY <1>3, <1>11 DEF PersistScanFindings
<1>12. CASE MarkPersisted(h)
  <2>1. [held[h] EXCEPT !.status = "completed", !.pers = "complete", !.expected = Found(h)].status # "started"
    BY <1>1 DEF Rows
  <2> QED BY <1>1, <1>12, <2>1, UpdateAdmits DEF MarkPersisted
<1>13. CASE MarkPersistenceFailed(h)
  <2> DEFINE m == [held[h] EXCEPT !.status = "persistence_incomplete", !.pers = "failed",
                                  !.sync = "skipped", !.expected = Found(h)]
             next == IF pc[h] = "spoil" THEN "respoil" ELSE "done"
  <2>1. m.status # "started" BY <1>1 DEF Rows
  <2>2. UpdateScanPipelineState(h, Scan(h), m, next, next) BY <1>13 DEF MarkPersistenceFailed
  <2>3. next # "visible" OBVIOUS
  <2> HIDE DEF m, next
  <2> QED BY <1>1, <2>1, <2>2, <2>3, UpdateAdmits
<1>14. SyncStep(h) # "visible" BY DEF SyncStep
<1>15. CASE IsPersistenceComplete(h) BY <1>3, <1>14, <1>15 DEF IsPersistenceComplete, tables
<1>16. CASE FileIssues(h)
  <2>1. Goto(h, "synced") \/ Goto(h, "done") BY <1>16 DEF FileIssues
  <2> QED BY <1>3, <1>16, <2>1 DEF FileIssues, tables
<1>17. CASE MarkIssueSyncComplete(h)
  <2>1. [held[h] EXCEPT !.status = "completed", !.sync = "complete"].status # "started" BY <1>1 DEF Rows
  <2> QED BY <1>1, <1>17, <2>1, UpdateAdmits DEF MarkIssueSyncComplete
<1>18. CASE MarkIssueSyncSkipped(h)
  <2>1. [held[h] EXCEPT !.status = "completed", !.sync = "skipped"].status # "started" BY <1>1 DEF Rows
  <2> QED BY <1>1, <1>18, <2>1, UpdateAdmits DEF MarkIssueSyncSkipped
<1>19. CASE AfterReview(h)
  <2>1. Goto(h, "persist") \/ Goto(h, SyncStep(h)) BY <1>19 DEF AfterReview
  <2> QED BY <1>3, <1>14, <1>19, <2>1 DEF AfterReview, tables
<1> QED BY <1>4, <1>5, <1>6, <1>7, <1>8, <1>9, <1>10, <1>11, <1>12, <1>13, <1>15, <1>16, <1>17, <1>18, <1>19
        DEF HandlerStep

LEMMA ReaderAdmits ==
    ASSUME RowInv, Admitted, NEW r \in Readers, ReaderStep(r)
    PROVE  Admitted'
<1>1. RowsTypeOK /\ r \in Actors /\ held[r] \in Rows BY DEF RowInv, RowsTypeOK, Actors
<1>2. CASE FindReconcilable(r)
  <2>1. Goto(r, "heal") /\ UNCHANGED <<row, late>> BY <1>2 DEF FindReconcilable, tables
  <2>2. \A h \in Handlers : pc'[h] = "visible" => pc[h] = "visible"
    BY <1>1, <2>1 DEF Goto, RowsTypeOK, Actors
  <2> QED BY <2>1, <2>2, NothingStarts
<1>3. CASE HealIssueSync(r)
  <2>1. [held[r] EXCEPT !.status = "completed", !.sync = "complete"].status # "started" BY <1>1 DEF Rows
  <2>2. target[r] \in Scans BY <1>3 DEF HealIssueSync, RowInv
  <2> QED BY <1>1, <1>3, <2>1, <2>2, UpdateAdmits DEF HealIssueSync
<1> QED BY <1>2, <1>3 DEF ReaderStep

LEMMA RestartAdmits == ASSUME RowInv, Restart PROVE Admitted'
<1>1. \A h \in Handlers : pc'[h] # "visible"
  BY SetupTypes DEF Restart, RowInv, RowsTypeOK, Actors
<1> QED BY <1>1 DEF Admitted

LEMMA AdmittedStarts == ScanInit => Admitted
BY SetupTypes DEF ScanInit, Admitted, Actors

(***************************************************************************)
(* Over the whole path of a scan, with the tuning beside it.               *)
(***************************************************************************)
\* Where nothing of what is said above is changed.
LEMMA RowsFrame ==
    ASSUME RowInv, Guarded, UNCHANGED <<setup, tables, pc, my, held, target, late, stray>>,
           faults' \in 0..setup.budget
    PROVE  RowInv' /\ Guarded' /\ KeepsMarks /\ (Admitted => Admitted')
<1>1. RowInv' BY DEF RowInv, RowsTypeOK, tables, Scan
<1>2. Guarded' BY DEF Guarded, tables, Scan, Alone
<1> QED BY <1>1, <1>2 DEF KeepsMarks, Keeps, Admitted, tables

\* A step of the tuning is a step of the handler past its review, a failure that
\* changes nothing of the rows, or none of theirs at all.
LEMMA TuneStepRows ==
    ASSUME NEW h \in Handlers, TuneStep(h)
    PROVE  \/ AfterReview(h) \/ UNCHANGED scanVars
           \/ Fault("put") /\ UNCHANGED <<setup, tables, pc, my, held, target, late, stray>>
BY DEF TuneStep, ShouldRunFirstRunAIRuleTuning, PassReview, TryInsertOperatorEvidence,
   ReplaceOperatorEvidenceIfStale, LoseClaim, EarlyRelease, StartReview, LookForReview, BuildPacket,
   ModelAnswers, ApplyRules, PutTuned, ReadForRelease, ReleaseClaim, GiveBackClaim

LEMMA RowsStep ==
    ASSUME RowInv, Guarded, [PathNext]_pathVars
    PROVE  RowInv' /\ Guarded' /\ KeepsMarks /\ (Apart /\ Admitted => Admitted')
<1> DEFINE Fine == RowInv' /\ Guarded' /\ KeepsMarks /\ (Apart /\ Admitted => Admitted')
<1>1. ASSUME NEW h \in Handlers, HandlerStep(h) \/ AfterReview(h) PROVE Fine
  BY <1>1, HandlerKeeps, HandlerGuards, HandlerAdmits
<1>2. ASSUME NEW r \in Readers, ReaderStep(r) PROVE Fine
  BY <1>2, ReaderKeeps, ReaderGuards, ReaderAdmits
<1>3. CASE Restart BY <1>3, RestartKeepsRows, RestartGuards, RestartAdmits
<1>4. CASE UNCHANGED scanVars
  <2>1. faults' \in 0..setup.budget BY <1>4 DEF scanVars, RowInv, RowsTypeOK
  <2> QED BY <1>4, <2>1, RowsFrame DEF scanVars, tables
<1>5. ASSUME Fault("put"), UNCHANGED <<setup, tables, pc, my, held, target, late, stray>> PROVE Fine
  BY <1>5, FaultTypes, RowsFrame DEF RowInv
<1>6. ASSUME NEW h \in Handlers, TuneStep(h) PROVE Fine BY <1>1, <1>4, <1>5, <1>6, TuneStepRows
<1>7. ASSUME NEW h \in Handlers, Expire(h) PROVE Fine BY <1>4, <1>7 DEF Expire
<1>8. CASE BecomeStale BY <1>4, <1>8 DEF BecomeStale
<1>9. CASE RestartAll BY <1>3, <1>9 DEF RestartAll
<1>10. CASE UNCHANGED pathVars BY <1>4, <1>10 DEF pathVars
<1> HIDE DEF Fine
<1> QED BY <1>1, <1>2, <1>6, <1>7, <1>8, <1>9, <1>10 DEF PathNext, Fine

LEMMA RowsAlways == PathSpec => [](RowInv /\ Guarded)
<1>1. PathInit => RowInv /\ Guarded BY RowInvStarts, GuardedStarts DEF PathInit
<1>2. RowInv /\ Guarded /\ [PathNext]_pathVars => RowInv' /\ Guarded' BY RowsStep
<1> QED BY <1>1, <1>2, PTL DEF PathSpec

\* The claim, and what the tunings have read of it.
LEMMA TuningTypesStep == RowsTypeOK /\ TuningTypeOK /\ [PathNext]_pathVars => TuningTypeOK'
<1> SUFFICES ASSUME RowsTypeOK, TuningTypeOK, [PathNext]_pathVars PROVE TuningTypeOK'
  OBVIOUS
<1> USE DEF tuneVars
<1>1. CASE UNCHANGED tuneVars BY <1>1 DEF TuningTypeOK
<1>2. ASSUME NEW h \in Handlers, TuneStep(h) \/ Expire(h) PROVE TuningTypeOK'
  <2>1. ASSUME NEW c \in Claims, NEW s \in TuneSteps,
               claim' = claim \/ claim' \in {NoClaim, ClaimBy(h), TunedBy(h)},
               seen' = seen \/ seen' = [seen EXCEPT ![h] = c], tpc' = tpc \/ TuneGoto(h, s),
               reviewed' = reviewed \/ reviewed' = reviewed \cup {Scan(h)}
        PROVE  TuningTypeOK'
    <3>1. claim' \in Claims BY <2>1, ClaimKinds DEF TuningTypeOK
    <3>2. Scan(h) \in Scans BY SetupTypes DEF RowsTypeOK
    <3> QED BY <2>1, <3>1, <3>2 DEF TuneGoto, TuningTypeOK
  <2>2. claim \in Claims /\ NoClaim \in Claims BY ClaimKinds DEF TuningTypeOK
  <2>3. TuneSteps = {"none", "claim", "replace", "lost", "gate", "giveback", "givenback", "end", "quit",
                     "go", "packet", "model", "apply", "put", "release", "delete"}
    BY DEF TuneSteps, Background
  <2> HIDE DEF tuneVars
  <2>4. CASE PassReview(h) BY <1>1, <2>4 DEF PassReview
  <2>5. CASE ShouldRunFirstRunAIRuleTuning(h)
    BY <2>1, <2>2, <2>3, <2>5 DEF ShouldRunFirstRunAIRuleTuning
  <2>6. CASE TryInsertOperatorEvidence(h)
    BY <2>1, <2>2, <2>3, <2>6 DEF TryInsertOperatorEvidence
  <2>7. CASE ReplaceOperatorEvidenceIfStale(h)
    BY <2>1, <2>2, <2>3, <2>7 DEF ReplaceOperatorEvidenceIfStale
  <2>8. CASE LoseClaim(h) BY <2>1, <2>2, <2>3, <2>8 DEF LoseClaim
  <2>9. CASE EarlyRelease(h) BY <2>1, <2>2, <2>3, <2>9 DEF EarlyRelease
  <2>10. CASE StartReview(h) BY <2>1, <2>2, <2>3, <2>10 DEF StartReview
  <2>11. CASE LookForReview(h) BY <2>1, <2>2, <2>3, <2>11 DEF LookForReview
  <2>12. CASE BuildPacket(h) BY <2>1, <2>2, <2>3, <2>12 DEF BuildPacket
  <2>13. CASE ModelAnswers(h) BY <2>1, <2>2, <2>3, <2>13 DEF ModelAnswers
  <2>14. CASE ApplyRules(h) BY <2>1, <2>2, <2>3, <2>14 DEF ApplyRules
  <2>15. CASE PutTuned(h) BY <2>1, <2>2, <2>3, <2>15 DEF PutTuned, TunedBy
  <2>16. CASE ReadForRelease(h) BY <2>1, <2>2, <2>3, <2>16 DEF ReadForRelease
  <2>17. CASE ReleaseClaim(h)
    BY <2>1, <2>2, <2>3, <2>17 DEF ReleaseClaim, DeleteIfInProgress
  <2>18. CASE GiveBackClaim(h)
    BY <2>1, <2>2, <2>3, <2>18 DEF GiveBackClaim, DeleteIfInProgress
  <2>19. CASE Expire(h) BY <2>1, <2>2, <2>3, <2>19 DEF Expire
  <2> QED
    BY <1>2, <2>4, <2>5, <2>6, <2>7, <2>8, <2>9, <2>10, <2>11, <2>12, <2>13, <2>14, <2>15, <2>16,
       <2>17, <2>18, <2>19 DEF TuneStep
<1>3. CASE BecomeStale
  <2>1. [claim EXCEPT !.stale = TRUE] \in Claims BY DEF TuningTypeOK, Claims
  <2> QED BY <1>3, <2>1 DEF BecomeStale, TuningTypeOK
<1>4. CASE RestartAll
  <2>1. NoClaim \in Claims /\ "quit" \in TuneSteps BY DEF NoClaim, Claims, TuneSteps
  <2> QED BY <1>4, <2>1 DEF RestartAll, TuningTypeOK
<1>5. CASE UNCHANGED pathVars BY <1>1, <1>5 DEF pathVars
<1> QED BY <1>1, <1>2, <1>3, <1>4, <1>5 DEF PathNext

(***************************************************************************)
(* Rows and claims keep their types, however long a tuning lasts: the      *)
(* columns of scan_runs and of the evidence row as the handlers, the       *)
(* tunings and the readers write them.                                     *)
(***************************************************************************)
THEOREM PathTypeCorrect == PathSpec => []PathTypeOK
<1>1. PathInit => TuningTypeOK BY TuningStarts DEF TuningInv
<1>2. RowInv => RowsTypeOK BY DEF RowInv
<1>3. RowsTypeOK /\ TuningTypeOK => PathTypeOK BY DEF PathTypeOK
<1> QED BY <1>1, <1>2, <1>3, TuningTypesStep, RowsAlways, PTL DEF PathSpec

(***************************************************************************)
(* What the store holds is what rows claim and issues are filed from: for  *)
(* any number of scans, handlers and readers, and any failing statements   *)
(* and restarts among their whole-row writes (RecordFindings,              *)
(* GetLatestReconcilableScanForRepository, createIssuesFromResult).        *)
(***************************************************************************)
THEOREM RowsPersisted == PathSpec => []PersistedAsClaimed
BY RowsAlways, RowInvPersisted, PTL

(***************************************************************************)
(* No manual scan is started beside one that its admission could see, and  *)
(* no write of a whole row takes back a completed persistence or issue     *)
(* sync: for any number of scans, handlers and readers, if scans whose     *)
(* bill of material is recorded do not share an identifier                 *)
(* (checkScanAdmission, UpdateScanPipelineState).                          *)
(***************************************************************************)
THEOREM RowsGuarded ==
    ASSUME Apart
    PROVE  PathSpec => RowsAreGuarded
<1>1. PathSpec => RefusedBesideRunning
  <2>1. PathInit => Admitted BY AdmittedStarts DEF PathInit
  <2>2. RowInv /\ Guarded /\ Admitted /\ [PathNext]_pathVars => Admitted' BY RowsStep
  <2>3. Admitted /\ [PathNext]_pathVars =>
          [\A h \in Handlers :
             pc[h] = "visible" /\ row[Scan(h)] = NoRow /\ row'[Scan(h)] # NoRow
               => {s \in Scans : row[s].status = "started"} \subseteq late[h]]_scanVars
    BY DEF Admitted
  <2> QED BY <2>1, <2>2, <2>3, RowsAlways, PTL DEF PathSpec, RefusedBesideRunning
<1>2. PathSpec => MarksStay
  <2>1. RowInv /\ Guarded /\ [PathNext]_pathVars =>
          [\A s \in Scans : Alone(s) =>
             /\ row[s].pers = "complete" => row'[s].pers = "complete"
             /\ row[s].sync \in {"complete", "skipped"}
                  => row'[s].sync \in {"complete", "skipped"}]_scanVars
    BY RowsStep DEF KeepsMarks, Keeps
  <2> QED BY <2>1, RowsAlways, PTL DEF PathSpec, MarksStay
<1> QED BY <1>1, <1>2 DEF RowsAreGuarded

------------------------------------------------------------------------------

(***************************************************************************)
(* The shared slot, the cancelled siblings, and what an auditor found.     *)
(***************************************************************************)
Sent(s) == {a \in Auditors : step[s][a] = "sent"}
InChannel(s) == 1..Len(results[s])
Pending(s) == {results[s][i].by : i \in InChannel(s)}
Enough == IF abortOnFirst THEN 1 ELSE MaxFailures

\* One call at a time, and the token is the caller's.
SlotInv ==
    /\ gate = 0 => \A s \in Audits, a \in Auditors : step[s][a] # "call"
    /\ gate = 1 => \E s \in Audits, a \in Auditors : step[s][a] = "call"
    /\ \A s, z \in Audits, a, b \in Auditors :
         step[s][a] = "call" /\ step[z][b] = "call" => s = z /\ a = b

\* An auditor sends one result, and is done; after the stage all are.
ChannelOK(s) ==
    /\ \A i \in InChannel(s) : results[s][i].by \in Sent(s)
    /\ \A i, j \in InChannel(s) : results[s][i].by = results[s][j].by => i = j
    /\ stage[s] # "audit" => Sent(s) = Auditors
    /\ \A a \in Auditors : step[s][a] \in {"queue", "call"} => batch[s][a] <= load[s].batches

\* What an auditor that went through its batches has found is kept, or on its way.
HeardOK(s) ==
    \A a \in Auditors :
        stage[s] \in {"audit", "validate"} /\ step[s][a] = "sent" /\ batch[s][a] > load[s].batches =>
            \/ cand[s][a] \subseteq kept[s]
            \/ stage[s] = "audit" /\ \E i \in InChannel(s) : results[s][i].found = cand[s][a]

\* Before anything is cancelled, an error is a timeout of the auditor's own,
\* and the collector has counted those that left the channel at most.
CauseOK(s) ==
    /\ stage[s] \in {"audit", "validate"} => timedOut[s] \subseteq Sent(s)
    /\ stage[s] = "audit" /\ ctx[s] = "live" /\ ~cancelled[s] =>
         /\ \A i \in InChannel(s) : results[s][i].err => results[s][i].by \in timedOut[s]
         /\ failures[s] <= Cardinality(timedOut[s] \ Pending(s))
    /\ stage[s] \in {"audit", "validate"} /\ cancelled[s] /\ ctx[s] = "live"
         => Cardinality(timedOut[s]) >= Enough

AuditOK(s) == ChannelOK(s) /\ HeardOK(s) /\ CauseOK(s)

AuditorInv == AuditTypeOK /\ SlotInv /\ \A s \in Audits : AuditOK(s)

(***************************************************************************)
(* What the analyses do not share stays as it is when one of them moves.   *)
(***************************************************************************)
Alike(z) ==
    /\ ctx'[z] = ctx[z] /\ cancelled'[z] = cancelled[z] /\ step'[z] = step[z]
    /\ batch'[z] = batch[z] /\ cand'[z] = cand[z] /\ results'[z] = results[z]
    /\ failures'[z] = failures[z] /\ kept'[z] = kept[z] /\ stage'[z] = stage[z]
    /\ timedOut'[z] = timedOut[z]

Beside(s) == UNCHANGED settings /\ \A z \in Audits \ {s} : Alike(z)

LEMMA AlikeKeeps ==
    ASSUME NEW z, AuditOK(z), Alike(z), UNCHANGED settings
    PROVE  AuditOK(z)'
<1>1. (InChannel(z))' = InChannel(z) /\ (Sent(z))' = Sent(z) /\ (Pending(z))' = Pending(z) /\ Enough' = Enough
  BY DEF InChannel, Sent, Pending, Enough, Alike, settings
<1>2. load' = load BY DEF settings
<1>3. ChannelOK(z)' BY <1>1, <1>2 DEF AuditOK, ChannelOK, Alike
<1>4. HeardOK(z)' BY <1>1, <1>2 DEF AuditOK, HeardOK, Alike
<1>5. CauseOK(z)' BY <1>1, <1>2 DEF AuditOK, CauseOK, Alike
<1> QED BY <1>3, <1>4, <1>5 DEF AuditOK

LEMMA BesideKeeps ==
    ASSUME AuditorInv, NEW s \in Audits, Beside(s), AuditOK(s)', AuditTypeOK', SlotInv'
    PROVE  AuditorInv'
<1>1. \A z \in Audits \ {s} : AuditOK(z)' BY AlikeKeeps DEF AuditorInv, Beside
<1> QED BY <1>1 DEF AuditorInv

LEMMA AuditorSets == ASSUME NEW T, T \subseteq Auditors PROVE IsFiniteSet(T) /\ Cardinality(T) \in Nat
BY AuditAssumptions, FS_Subset, FS_CardinalityType

LEMMA ReachesIs ==
    ASSUME AuditTypeOK, NEW s \in Audits, NEW a \in Auditors, NEW to, Reaches(s, a, to)
    PROVE  /\ step'[s][a] = to /\ \A b \in Auditors \ {a} : step'[s][b] = step[s][b]
           /\ \A z \in Audits \ {s} : step'[z] = step[z]
           /\ to \in {"loop", "queue", "call", "sent"} =>
                step' \in [Audits -> [Auditors -> {"loop", "queue", "call", "sent"}]]
BY DEF AuditTypeOK, Reaches

(***************************************************************************)
(* An auditor returns.                                                     *)
(***************************************************************************)
Result(s, a, err) == [by |-> a, err |-> err, found |-> IF err THEN {} ELSE cand[s][a]]

LEMMA ResultIs ==
    ASSUME AuditTypeOK, NEW s \in Audits, NEW a \in Auditors, NEW err \in BOOLEAN
    PROVE  /\ Result(s, a, err) \in Results /\ Result(s, a, err).by = a
           /\ Result(s, a, err).err <=> err
           /\ ~err => Result(s, a, err).found = cand[s][a]
<1>1. cand[s][a] \in SUBSET Candidates BY DEF AuditTypeOK
<1>2. (IF err THEN {} ELSE cand[s][a]) \in SUBSET Candidates BY <1>1
<1> QED BY <1>2 DEF Result, Results

LEMMA ReturnIs ==
    ASSUME AuditTypeOK, NEW s \in Audits, NEW a \in Auditors, NEW err \in BOOLEAN, Return(s, a, err)
    PROVE  /\ step' \in [Audits -> [Auditors -> {"loop", "queue", "call", "sent"}]]
           /\ step'[s][a] = "sent" /\ \A b \in Auditors \ {a} : step'[s][b] = step[s][b]
           /\ results' \in [Audits -> Seq(Results)]
           /\ \A z \in Audits \ {s} : step'[z] = step[z] /\ results'[z] = results[z]
           /\ results'[s] = Append(results[s], Result(s, a, err))
           /\ UNCHANGED <<batch, cand>>
<1>1. Reaches(s, a, "sent") /\ UNCHANGED <<batch, cand>>
      /\ results' = [results EXCEPT ![s] = Append(@, Result(s, a, err))]
  BY DEF Return, Result
<1>2. results \in [Audits -> Seq(Results)] BY DEF AuditTypeOK
<1>3. results[s] \in Seq(Results) /\ Result(s, a, err) \in Results BY <1>2, ResultIs
<1>4. Append(results[s], Result(s, a, err)) \in Seq(Results) BY <1>3
<1>5. results' \in [Audits -> Seq(Results)] BY <1>1, <1>2, <1>4
<1>6. results'[s] = Append(results[s], Result(s, a, err))
      /\ \A z \in Audits \ {s} : results'[z] = results[z]
  BY <1>1, <1>2
<1> QED BY <1>1, <1>5, <1>6, ReachesIs

LEMMA ReturnKeeps ==
    ASSUME AuditorInv, NEW s \in Audits, NEW a \in Auditors, NEW err \in BOOLEAN,
           Return(s, a, err), step[s][a] # "sent",
           IF err THEN batch[s][a] <= load[s].batches ELSE batch[s][a] > load[s].batches,
           UNCHANGED <<settings, ctx, cancelled, failures, kept, stage>>,
           \A z \in Audits \ {s} : timedOut'[z] = timedOut[z],
           IF err /\ ~Stopped(s) THEN timedOut'[s] = timedOut[s] \cup {a} ELSE timedOut'[s] = timedOut[s]
    PROVE  Beside(s) /\ AuditOK(s)'
<1>1. /\ step'[s][a] = "sent" /\ \A b \in Auditors \ {a} : step'[s][b] = step[s][b]
      /\ \A z \in Audits \ {s} : step'[z] = step[z] /\ results'[z] = results[z]
      /\ results'[s] = Append(results[s], Result(s, a, err))
      /\ UNCHANGED <<batch, cand>>
  BY ReturnIs DEF AuditorInv
<1>2. Beside(s) BY <1>1 DEF Beside, Alike
<1>3. /\ AuditTypeOK /\ AuditOK(s) /\ load' = load /\ abortOnFirst' = abortOnFirst
      /\ results[s] \in Seq(Results) /\ Len(results[s]) \in Nat
  BY DEF AuditorInv, settings, AuditTypeOK
<1> DEFINE R == results[s]  r == Result(s, a, err)
<1>4. /\ r \in Results /\ r.by = a /\ (r.err <=> err) /\ (~err => r.found = cand[s][a])
  BY <1>3, ResultIs
<1> HIDE DEF r
<1>5. /\ (InChannel(s))' = 1..Len(R) + 1 /\ InChannel(s) = 1..Len(R)
      /\ results'[s][Len(R) + 1] = r /\ \A i \in 1..Len(R) : results'[s][i] = R[i]
  BY <1>1, <1>3, <1>4 DEF InChannel, r
<1>6. \A i \in (InChannel(s))' : i \in InChannel(s) \/ i = Len(R) + 1 BY <1>3, <1>5
<1>7. (Sent(s))' = Sent(s) \cup {a} /\ a \notin Sent(s) BY <1>1 DEF Sent
<1>8. (Pending(s))' = Pending(s) \cup {a}
  <2>1. \A i \in InChannel(s) : i \in (InChannel(s))' BY <1>3, <1>5
  <2>2. Len(R) + 1 \in (InChannel(s))' BY <1>3, <1>5
  <2>3. (Pending(s))' = {results'[s][i].by : i \in (InChannel(s))'} BY DEF Pending
  <2>4. \A x \in (Pending(s))' : x \in Pending(s) \cup {a}
    BY <1>4, <1>5, <1>6, <2>3 DEF Pending
  <2>5. \A x \in Pending(s) : x \in (Pending(s))'
    BY <1>5, <2>1, <2>3 DEF Pending
  <2>6. a \in (Pending(s))' BY <1>4, <1>5, <2>2, <2>3
  <2> QED BY <2>4, <2>5, <2>6
<1>9. stage[s] = "audit" /\ stage' = stage BY <1>3, <1>7 DEF AuditOK, ChannelOK
<1>10. ChannelOK(s)'
  <2>1. \A i \in InChannel(s) : R[i].by \in Sent(s) BY <1>3 DEF AuditOK, ChannelOK
  <2>2. \A i \in (InChannel(s))' : results'[s][i].by \in (Sent(s))'
    BY <1>4, <1>5, <1>6, <1>7, <2>1
  <2>3. \A i \in InChannel(s) : results'[s][i].by = R[i].by /\ R[i].by # a
    BY <1>5, <1>7, <2>1
  <2>4. \A i, j \in (InChannel(s))' : results'[s][i].by = results'[s][j].by => i = j
    BY <1>3, <1>4, <1>5, <1>6, <2>3 DEF AuditOK, ChannelOK
  <2>5. \A b \in Auditors : step'[s][b] \in {"queue", "call"} => batch'[s][b] <= load'[s].batches
    BY <1>1, <1>3 DEF AuditOK, ChannelOK
  <2> QED BY <1>9, <2>2, <2>4, <2>5 DEF ChannelOK
<1>11. HeardOK(s)'
  <2> SUFFICES ASSUME NEW b \in Auditors, step'[s][b] = "sent", batch[s][b] > load[s].batches
               PROVE  \/ cand[s][b] \subseteq kept[s]
                      \/ \E i \in (InChannel(s))' : results'[s][i].found = cand[s][b]
    BY <1>1, <1>3, <1>9 DEF HeardOK
  <2>1. CASE b = a
    <3>1. ~err
      <4>1. batch[s][a] \in Nat /\ load[s].batches \in Nat BY <1>3, AuditAssumptions DEF AuditTypeOK
      <4> QED BY <2>1, <4>1
    <3>2. Len(R) + 1 \in (InChannel(s))' BY <1>3, <1>5
    <3> QED BY <1>4, <1>5, <2>1, <3>1, <3>2
  <2>2. CASE b # a
    <3>1. \/ cand[s][b] \subseteq kept[s] \/ \E i \in InChannel(s) : R[i].found = cand[s][b]
      BY <1>1, <1>3, <1>9, <2>2 DEF AuditOK, HeardOK
    <3>2. \A i \in InChannel(s) : i \in (InChannel(s))' /\ results'[s][i] = R[i] BY <1>3, <1>5
    <3> QED BY <3>1, <3>2
  <2> QED BY <2>1, <2>2
<1>12. CauseOK(s)'
  <2>1. timedOut[s] \subseteq Sent(s) /\ Sent(s) \subseteq Auditors BY <1>3, <1>9 DEF AuditOK, CauseOK, Sent
  <2>2. timedOut'[s] \subseteq (Sent(s))' BY <1>7, <2>1
  <2>3. ASSUME ctx[s] = "live", ~cancelled[s]
        PROVE  /\ \A i \in (InChannel(s))' : results'[s][i].err => results'[s][i].by \in timedOut'[s]
               /\ failures[s] <= Cardinality(timedOut'[s] \ (Pending(s))')
    <3>1. ~Stopped(s) BY <2>3 DEF Stopped
    <3>2. \A i \in InChannel(s) : R[i].err => R[i].by \in timedOut[s]
      BY <1>3, <1>9, <2>3 DEF AuditOK, CauseOK
    <3>3. timedOut'[s] = (IF err THEN timedOut[s] \cup {a} ELSE timedOut[s]) BY <3>1
    <3>4. timedOut'[s] \ (Pending(s))' = timedOut[s] \ Pending(s) BY <1>7, <1>8, <2>1, <3>3
    <3>5. failures[s] <= Cardinality(timedOut[s] \ Pending(s)) BY <1>3, <1>9, <2>3 DEF AuditOK, CauseOK
    <3>6. \A i \in InChannel(s) : results'[s][i].err => results'[s][i].by \in timedOut'[s]
      BY <1>5, <3>2, <3>3
    <3>7. results'[s][Len(R) + 1].err => results'[s][Len(R) + 1].by \in timedOut'[s]
      BY <1>4, <1>5, <3>3
    <3> QED BY <1>6, <3>4, <3>5, <3>6, <3>7
  <2>4. ASSUME ctx[s] = "live", cancelled[s] PROVE Cardinality(timedOut'[s]) >= Enough'
    <3>1. Stopped(s) BY <2>4 DEF Stopped
    <3> QED BY <1>3, <1>9, <2>4, <3>1 DEF AuditOK, CauseOK, Enough
  <2> QED BY <1>9, <2>2, <2>3, <2>4 DEF CauseOK
<1> QED BY <1>2, <1>10, <1>11, <1>12 DEF AuditOK

(***************************************************************************)
(* An auditor goes on.                                                     *)
(***************************************************************************)
\* Its batch and its candidates may be others: it is heard when it returns.
LEMMA AuditorKeeps ==
    ASSUME AuditorInv, NEW s \in Audits, NEW a \in Auditors, NEW to \in {"loop", "queue", "call"},
           Reaches(s, a, to), step[s][a] # "sent",
           UNCHANGED <<settings, ctx, cancelled, results, failures, kept, stage, timedOut>>,
           \A z \in Audits \ {s} : batch'[z] = batch[z] /\ cand'[z] = cand[z],
           \A b \in Auditors \ {a} : batch'[s][b] = batch[s][b] /\ cand'[s][b] = cand[s][b],
           to \in {"queue", "call"} => batch'[s][a] <= load[s].batches
    PROVE  Beside(s) /\ AuditOK(s)'
<1>1. /\ step'[s][a] = to /\ \A b \in Auditors \ {a} : step'[s][b] = step[s][b]
      /\ \A z \in Audits \ {s} : step'[z] = step[z]
  BY ReachesIs DEF AuditorInv
<1>2. Beside(s) BY <1>1 DEF Beside, Alike
<1>3. AuditOK(s) /\ load' = load BY DEF AuditorInv, settings
<1>4. /\ (Sent(s))' = Sent(s) /\ (InChannel(s))' = InChannel(s) /\ (Pending(s))' = Pending(s)
      /\ Enough' = Enough
  BY <1>1 DEF Sent, InChannel, Pending, Enough, settings
<1>5. ChannelOK(s)' BY <1>1, <1>3, <1>4 DEF AuditOK, ChannelOK
<1>6. HeardOK(s)' BY <1>1, <1>3, <1>4 DEF AuditOK, HeardOK
<1>7. CauseOK(s)' BY <1>3, <1>4 DEF AuditOK, CauseOK
<1> QED BY <1>2, <1>5, <1>6, <1>7 DEF AuditOK

LEMMA SameSlot ==
    ASSUME AuditorInv, UNCHANGED gate,
           \A z \in Audits, b \in Auditors : step'[z][b] = "call" <=> step[z][b] = "call"
    PROVE  SlotInv'
BY DEF AuditorInv, SlotInv

\* What a result of an auditor that did not call changes.
LEMMA ReturnStep ==
    ASSUME AuditorInv, NEW s \in Audits, NEW a \in Auditors, NEW err \in BOOLEAN,
           Return(s, a, err), step[s][a] \in {"loop", "queue"},
           IF err THEN batch[s][a] <= load[s].batches /\ Stopped(s)
                  ELSE batch[s][a] > load[s].batches,
           UNCHANGED <<settings, ctx, cancelled, gate, failures, kept, stage, report, timedOut>>
    PROVE  AuditorInv'
<1>1. Beside(s) /\ AuditOK(s)' BY ReturnKeeps
<1>2. AuditTypeOK BY DEF AuditorInv
<1>3. /\ step' \in [Audits -> [Auditors -> {"loop", "queue", "call", "sent"}]]
      /\ results' \in [Audits -> Seq(Results)] /\ UNCHANGED <<batch, cand>>
      /\ step'[s][a] = "sent" /\ \A b \in Auditors \ {a} : step'[s][b] = step[s][b]
      /\ \A z \in Audits \ {s} : step'[z] = step[z]
  BY <1>2, ReturnIs
<1>4. AuditTypeOK' BY <1>2, <1>3 DEF AuditTypeOK, settings
<1>5. SlotInv' BY <1>3, SameSlot
<1> QED BY <1>1, <1>4, <1>5, BesideKeeps

LEMMA StartBatchKeeps ==
    ASSUME AuditorInv, NEW s \in Audits, NEW a \in Auditors, StartBatch(s, a)
    PROVE  AuditorInv'
<1>1. /\ step[s][a] = "loop"
      /\ UNCHANGED <<settings, ctx, cancelled, gate, failures, kept, stage, report, timedOut>>
  BY DEF StartBatch
<1>2. CASE batch[s][a] > load[s].batches /\ Return(s, a, FALSE) BY <1>1, <1>2, ReturnStep
<1>3. CASE batch[s][a] <= load[s].batches /\ Stopped(s) /\ Return(s, a, TRUE)
  BY <1>1, <1>3, ReturnStep
<1>4. CASE /\ batch[s][a] <= load[s].batches /\ Reaches(s, a, "queue")
           /\ UNCHANGED <<batch, cand, results>>
  <2>1. Beside(s) /\ AuditOK(s)' BY <1>1, <1>4, AuditorKeeps
  <2>2. AuditTypeOK BY DEF AuditorInv
  <2>3. /\ step' \in [Audits -> [Auditors -> {"loop", "queue", "call", "sent"}]]
        /\ step'[s][a] = "queue" /\ \A b \in Auditors \ {a} : step'[s][b] = step[s][b]
        /\ \A z \in Audits \ {s} : step'[z] = step[z]
    BY <1>4, <2>2, ReachesIs
  <2>4. AuditTypeOK' BY <1>1, <1>4, <2>2, <2>3 DEF AuditTypeOK, settings
  <2>5. SlotInv' BY <1>1, <2>3, SameSlot
  <2> QED BY <2>1, <2>4, <2>5, BesideKeeps
<1> QED BY <1>2, <1>3, <1>4 DEF StartBatch

LEMMA AcquireKeeps ==
    ASSUME AuditorInv, NEW s \in Audits, NEW a \in Auditors, AcquireAuditorSlot(s, a)
    PROVE  AuditorInv'
<1>1. /\ step[s][a] = "queue" /\ batch[s][a] <= load[s].batches
      /\ UNCHANGED <<settings, ctx, cancelled, failures, kept, stage, report, timedOut>>
  BY DEF AcquireAuditorSlot, AuditorInv, AuditOK, ChannelOK
<1>2. CASE Stopped(s) /\ Return(s, a, TRUE) /\ UNCHANGED gate BY <1>1, <1>2, ReturnStep
<1>3. CASE gate = 0 /\ gate' = 1 /\ Reaches(s, a, "call") /\ UNCHANGED <<batch, cand, results>>
  <2>1. Beside(s) /\ AuditOK(s)' BY <1>1, <1>3, AuditorKeeps
  <2>2. AuditTypeOK BY DEF AuditorInv
  <2>3. /\ step' \in [Audits -> [Auditors -> {"loop", "queue", "call", "sent"}]]
        /\ step'[s][a] = "call" /\ \A b \in Auditors \ {a} : step'[s][b] = step[s][b]
        /\ \A z \in Audits \ {s} : step'[z] = step[z]
    BY <1>3, <2>2, ReachesIs
  <2>4. AuditTypeOK' BY <1>1, <1>3, <2>2, <2>3 DEF AuditTypeOK, settings
  <2>5. \A z \in Audits, b \in Auditors : step[z][b] # "call" BY <1>3 DEF AuditorInv, SlotInv
  <2>6. \A z \in Audits, b \in Auditors : step'[z][b] = "call" => z = s /\ b = a BY <2>3, <2>5
  <2>7. SlotInv' BY <1>3, <2>3, <2>6 DEF SlotInv
  <2> QED BY <2>1, <2>4, <2>7, BesideKeeps
<1> QED BY <1>1, <1>2, <1>3 DEF AcquireAuditorSlot

\* The caller gives the slot back.
LEMMA SlotFreed ==
    ASSUME AuditorInv, NEW s \in Audits, NEW a \in Auditors, step[s][a] = "call", gate' = 0,
           step'[s][a] # "call", \A b \in Auditors \ {a} : step'[s][b] = step[s][b],
           \A z \in Audits \ {s} : step'[z] = step[z]
    PROVE  SlotInv'
<1>1. \A z \in Audits, b \in Auditors : step[z][b] = "call" => z = s /\ b = a
  BY DEF AuditorInv, SlotInv
<1>2. \A z \in Audits, b \in Auditors : step'[z][b] # "call"
  <2> SUFFICES ASSUME NEW z \in Audits, NEW b \in Auditors PROVE step'[z][b] # "call" OBVIOUS
  <2>1. CASE z # s BY <1>1, <2>1
  <2>2. CASE z = s BY <1>1, <2>2
  <2> QED BY <2>1, <2>2
<1> QED BY <1>2 DEF SlotInv

LEMMA EndCallKeeps ==
    ASSUME AuditorInv, NEW s \in Audits, NEW a \in Auditors, EndCall(s, a)
    PROVE  AuditorInv'
<1>1. /\ step[s][a] = "call" /\ batch[s][a] <= load[s].batches /\ gate' = 0
      /\ UNCHANGED <<settings, ctx, cancelled, failures, kept, stage, report>>
  BY DEF EndCall, AuditorInv, AuditOK, ChannelOK
<1>2. AuditTypeOK /\ batch[s][a] \in Nat BY AuditAssumptions DEF AuditorInv, AuditTypeOK
<1>3. CASE CallAborts(s, a)
  <2>1. Return(s, a, TRUE) BY <1>3 DEF CallAborts
  <2>2. /\ step' \in [Audits -> [Auditors -> {"loop", "queue", "call", "sent"}]]
        /\ results' \in [Audits -> Seq(Results)] /\ UNCHANGED <<batch, cand>>
        /\ step'[s][a] = "sent" /\ \A b \in Auditors \ {a} : step'[s][b] = step[s][b]
        /\ \A z \in Audits \ {s} : step'[z] = step[z]
    BY <1>2, <2>1, ReturnIs
  <2>3. /\ timedOut' \in [Audits -> SUBSET Auditors]
        /\ \A z \in Audits \ {s} : timedOut'[z] = timedOut[z]
        /\ IF ~Stopped(s) THEN timedOut'[s] = timedOut[s] \cup {a} ELSE timedOut'[s] = timedOut[s]
    BY <1>2, <1>3 DEF CallAborts, AuditTypeOK
  <2>4. Beside(s) /\ AuditOK(s)' BY <1>1, <2>1, <2>3, ReturnKeeps
  <2>5. AuditTypeOK' BY <1>1, <1>2, <2>2, <2>3 DEF AuditTypeOK, settings
  <2>6. SlotInv' BY <1>1, <2>2, SlotFreed
  <2> QED BY <2>4, <2>5, <2>6, BesideKeeps
<1>4. CASE CallAnswers(s, a) \/ CallErrs(s, a)
  <2>1. /\ NextBatch(s, a) /\ UNCHANGED timedOut
    BY <1>4 DEF CallAnswers, CallErrs
  <2>2. /\ Reaches(s, a, "loop") /\ UNCHANGED results
        /\ batch' = [batch EXCEPT ![s] = [@ EXCEPT ![a] = batch[s][a] + 1]]
    BY <2>1 DEF NextBatch
  <2>3. /\ batch' \in [Audits -> [Auditors -> Nat \ {0}]]
        /\ \A z \in Audits \ {s} : batch'[z] = batch[z]
        /\ \A b \in Auditors \ {a} : batch'[s][b] = batch[s][b]
    BY <1>2, <2>2 DEF AuditTypeOK
  <2>4. /\ cand' \in [Audits -> [Auditors -> SUBSET Candidates]]
        /\ \A z \in Audits \ {s} : cand'[z] = cand[z]
        /\ \A b \in Auditors \ {a} : cand'[s][b] = cand[s][b]
    <3>1. CASE UNCHANGED cand BY <1>2, <3>1 DEF AuditTypeOK
    <3>2. CASE \E p \in Places :
                 cand' = [cand EXCEPT ![s] = [@ EXCEPT ![a] =
                            cand[s][a] \cup {[by |-> a, batch |-> batch[s][a], place |-> p]}]]
      <4>1. PICK p \in Places :
                 cand' = [cand EXCEPT ![s] = [@ EXCEPT ![a] =
                            cand[s][a] \cup {[by |-> a, batch |-> batch[s][a], place |-> p]}]]
        BY <3>2
      <4> DEFINE c == [by |-> a, batch |-> batch[s][a], place |-> p]
      <4>2. c \in Candidates BY <1>2 DEF Candidates
      <4> HIDE DEF c
      <4>3. cand' = [cand EXCEPT ![s] = [@ EXCEPT ![a] = cand[s][a] \cup {c}]] BY <4>1 DEF c
      <4>4. cand \in [Audits -> [Auditors -> SUBSET Candidates]] BY <1>2 DEF AuditTypeOK
      <4>5. cand[s][a] \cup {c} \in SUBSET Candidates BY <4>2, <4>4
      <4> QED BY <4>3, <4>4, <4>5
    <3> QED BY <1>4, <3>1, <3>2 DEF CallAnswers, CallErrs, Places
  <2>5. Beside(s) /\ AuditOK(s)' BY <1>1, <2>1, <2>2, <2>3, <2>4, AuditorKeeps
  <2>6. /\ step' \in [Audits -> [Auditors -> {"loop", "queue", "call", "sent"}]]
        /\ step'[s][a] = "loop" /\ \A b \in Auditors \ {a} : step'[s][b] = step[s][b]
        /\ \A z \in Audits \ {s} : step'[z] = step[z]
    BY <1>2, <2>2, ReachesIs
  <2>7. AuditTypeOK' BY <1>1, <1>2, <2>1, <2>2, <2>3, <2>4, <2>6 DEF AuditTypeOK, settings
  <2>8. SlotInv' BY <1>1, <2>6, SlotFreed
  <2> QED BY <2>5, <2>7, <2>8, BesideKeeps
<1> QED BY <1>3, <1>4 DEF EndCall

(***************************************************************************)
(* The collector reads a result.                                           *)
(***************************************************************************)
\* Everyone but the reader of the last result has been heard when it comes.
LEMMA LastResult ==
    ASSUME AuditTypeOK, NEW s \in Audits, results[s] # <<>>,
           Received(s) + 1 = Cardinality(Auditors)
    PROVE  Sent(s) = Auditors /\ Len(results[s]) = 1
<1>1. results[s] \in Seq(Results) BY DEF AuditTypeOK
<1>2. Len(results[s]) \in Nat \ {0} BY <1>1
<1>3. /\ IsFiniteSet(Auditors) /\ IsFiniteSet(Sent(s)) /\ Sent(s) \subseteq Auditors
      /\ Cardinality(Sent(s)) \in Nat /\ Cardinality(Auditors) \in Nat
      /\ Cardinality(Sent(s)) <= Cardinality(Auditors)
      /\ (Cardinality(Sent(s)) = Cardinality(Auditors) => Sent(s) = Auditors)
  BY AuditAssumptions, FS_Subset, FS_CardinalityType DEF Sent
<1>4. Received(s) = Cardinality(Sent(s)) - Len(results[s]) BY DEF Received, Sent
<1> DEFINE c == Cardinality(Sent(s))  n == Cardinality(Auditors)  k == Len(results[s])
<1>5. c - k + 1 = n /\ c \in Nat /\ n \in Nat /\ k \in Nat \ {0} /\ c <= n BY <1>2, <1>3, <1>4
<1> HIDE DEF c, n, k
<1>6. c = n /\ k = 1 BY <1>5
<1> QED BY <1>3, <1>6 DEF c, n, k

LEMMA CollectKeeps ==
    ASSUME AuditorInv, NEW s \in Audits, Collect(s)
    PROVE  AuditorInv'
<1> DEFINE R == results[s]  r == Head(R)  last == Received(s) + 1 = Cardinality(Auditors)
<1>1. AuditTypeOK /\ AuditOK(s) BY DEF AuditorInv
<1>2. R \in Seq(Results) /\ R # <<>> /\ stage[s] = "audit" BY <1>1 DEF AuditTypeOK, Collect
<1>3. /\ Len(R) \in Nat \ {0} /\ r = R[1] /\ r \in Results
      /\ Tail(R) \in Seq(Results) /\ Len(Tail(R)) = Len(R) - 1
      /\ \A i \in 1..Len(R) - 1 : Tail(R)[i] = R[i + 1]
  BY <1>2
<1>4. r.by \in Auditors /\ r.err \in BOOLEAN /\ r.found \subseteq Candidates
  BY <1>3 DEF Results
<1>5. /\ results' = [results EXCEPT ![s] = Tail(R)]
      /\ failures' = [failures EXCEPT ![s] = IF r.err THEN failures[s] + 1 ELSE failures[s]]
      /\ kept' = [kept EXCEPT ![s] = kept[s] \cup r.found]
      /\ cancelled' = [cancelled EXCEPT ![s] =
                         cancelled[s] \/ (r.err /\ (abortOnFirst \/ failures'[s] >= MaxFailures))]
      /\ stage' = [stage EXCEPT ![s] = IF last THEN "validate" ELSE stage[s]]
      /\ UNCHANGED <<settings, ctx, gate, auditorVars, report, timedOut>>
  BY DEF Collect
<1> HIDE DEF r, last
<1>6. /\ UNCHANGED <<abortOnFirst, load, ctx, gate, step, batch, cand, report, timedOut>>
      /\ settings' = settings
  BY <1>5 DEF settings, auditorVars
<1>7. /\ results'[s] = Tail(R) /\ kept'[s] = kept[s] \cup r.found
      /\ failures'[s] = (IF r.err THEN failures[s] + 1 ELSE failures[s])
      /\ (cancelled'[s] <=> cancelled[s] \/ (r.err /\ (abortOnFirst \/ failures'[s] >= MaxFailures)))
      /\ stage'[s] = (IF last THEN "validate" ELSE "audit")
      /\ \A z \in Audits \ {s} : /\ results'[z] = results[z] /\ failures'[z] = failures[z]
                                 /\ kept'[z] = kept[z] /\ cancelled'[z] = cancelled[z]
                                 /\ stage'[z] = stage[z]
  BY <1>1, <1>2, <1>5 DEF AuditTypeOK
<1>8. Beside(s) BY <1>6, <1>7 DEF Beside, Alike
<1>9. AuditTypeOK'
  <2>1. results' \in [Audits -> Seq(Results)] BY <1>1, <1>3, <1>5 DEF AuditTypeOK
  <2>2. failures' \in [Audits -> Nat]
    <3>1. (IF r.err THEN failures[s] + 1 ELSE failures[s]) \in Nat BY <1>1 DEF AuditTypeOK
    <3> QED BY <1>1, <1>5, <3>1 DEF AuditTypeOK
  <2>3. kept' \in [Audits -> SUBSET Candidates] BY <1>1, <1>4, <1>5 DEF AuditTypeOK
  <2>4. cancelled' \in [Audits -> BOOLEAN]
    <3> DEFINE c == cancelled[s] \/ (r.err /\ (abortOnFirst \/ failures'[s] >= MaxFailures))
    <3>1. c \in BOOLEAN OBVIOUS
    <3>2. cancelled' = [cancelled EXCEPT ![s] = c] BY <1>5
    <3> HIDE DEF c
    <3> QED BY <1>1, <3>1, <3>2 DEF AuditTypeOK
  <2>5. stage' \in [Audits -> {"audit", "validate", "prove", "reported"}]
    BY <1>1, <1>5 DEF AuditTypeOK
  <2> QED BY <1>1, <1>6, <2>1, <2>2, <2>3, <2>4, <2>5 DEF AuditTypeOK
<1>10. SlotInv' BY <1>6, SameSlot
<1>11. /\ InChannel(s) = 1..Len(R) /\ (InChannel(s))' = 1..Len(R) - 1
       /\ \A i \in (InChannel(s))' : i + 1 \in InChannel(s) /\ results'[s][i] = R[i + 1] /\ i + 1 # 1
       /\ \A i \in InChannel(s) : i = 1 \/ (i - 1 \in (InChannel(s))' /\ R[i] = results'[s][i - 1])
       /\ 1 \in InChannel(s)
  BY <1>3, <1>7 DEF InChannel
<1>12. /\ \A i \in InChannel(s) : R[i].by \in Sent(s)
       /\ \A i, j \in InChannel(s) : R[i].by = R[j].by => i = j
  BY <1>1 DEF AuditOK, ChannelOK
<1>13. (Sent(s))' = Sent(s) /\ Enough' = Enough BY <1>6 DEF Sent, Enough
<1>14. last => Sent(s) = Auditors /\ Len(R) = 1 BY <1>1, <1>2, LastResult DEF last
<1>15. ChannelOK(s)'
  <2>1. \A i \in (InChannel(s))' : results'[s][i].by \in (Sent(s))' BY <1>11, <1>12, <1>13
  <2>2. ASSUME NEW i \in (InChannel(s))', NEW j \in (InChannel(s))',
               results'[s][i].by = results'[s][j].by
        PROVE  i = j
    <3>1. i \in Int /\ j \in Int BY <1>3, <1>11
    <3>2. i + 1 \in InChannel(s) /\ j + 1 \in InChannel(s) /\ R[i + 1].by = R[j + 1].by
      BY <1>11, <2>2
    <3>3. i + 1 = j + 1 BY <1>12, <3>2
    <3> QED BY <3>1, <3>3
  <2>3. stage'[s] # "audit" => (Sent(s))' = Auditors BY <1>7, <1>13, <1>14
  <2>4. \A a \in Auditors : step'[s][a] \in {"queue", "call"} => batch'[s][a] <= load'[s].batches
    BY <1>1, <1>6 DEF AuditOK, ChannelOK
  <2> QED BY <2>1, <2>2, <2>3, <2>4 DEF ChannelOK
<1>16. HeardOK(s)'
  <2> SUFFICES ASSUME NEW a \in Auditors, step[s][a] = "sent", batch[s][a] > load[s].batches
               PROVE  \/ cand[s][a] \subseteq kept'[s]
                      \/ stage'[s] = "audit" /\ \E i \in (InChannel(s))' : results'[s][i].found = cand[s][a]
    BY <1>6 DEF HeardOK
  <2>1. cand[s][a] \subseteq kept[s] \/ \E i \in InChannel(s) : R[i].found = cand[s][a]
    BY <1>1, <1>2 DEF AuditOK, HeardOK
  <2>2. CASE cand[s][a] \subseteq kept[s] BY <1>7, <2>2
  <2>3. ASSUME NEW i \in InChannel(s), R[i].found = cand[s][a]
        PROVE  \/ cand[s][a] \subseteq kept'[s]
               \/ stage'[s] = "audit" /\ \E j \in (InChannel(s))' : results'[s][j].found = cand[s][a]
    <3>1. CASE i = 1 BY <1>3, <1>7, <2>3, <3>1
    <3>2. CASE i # 1
      <4>1. i - 1 \in (InChannel(s))' /\ results'[s][i - 1].found = cand[s][a] BY <1>11, <2>3, <3>2
      <4>2. ~last BY <1>3, <1>11, <1>14, <2>3, <3>2
      <4> QED BY <1>7, <4>1, <4>2
    <3> QED BY <3>1, <3>2
  <2> QED BY <2>1, <2>2, <2>3
<1>17. CauseOK(s)'
  <2>1. timedOut[s] \subseteq Sent(s) /\ timedOut[s] \subseteq Auditors
    BY <1>1, <1>2 DEF AuditOK, CauseOK, Sent
  <2> DEFINE T == timedOut[s]
  <2>2. /\ IsFiniteSet(T) /\ Cardinality(T) \in Nat
        /\ \A S : S \subseteq T => IsFiniteSet(S) /\ Cardinality(S) \in Nat /\ Cardinality(S) <= Cardinality(T)
    BY <2>1, AuditorSets, FS_Subset, FS_CardinalityType
  <2>3. /\ (Pending(s))' \subseteq Pending(s) /\ r.by \in Pending(s) /\ r.by \notin (Pending(s))'
    <3>1. (Pending(s))' = {results'[s][i].by : i \in (InChannel(s))'} BY DEF Pending
    <3>2. \A x \in (Pending(s))' : x \in Pending(s) BY <1>11, <3>1 DEF Pending
    <3>3. r.by \in Pending(s) BY <1>3, <1>11 DEF Pending
    <3>4. \A i \in (InChannel(s))' : results'[s][i].by # r.by BY <1>3, <1>11, <1>12
    <3> QED BY <3>1, <3>2, <3>3, <3>4
  <2>4. ASSUME ctx[s] = "live", ~cancelled[s]
        PROVE  /\ \A i \in (InChannel(s))' : results'[s][i].err => results'[s][i].by \in T
               /\ failures'[s] <= Cardinality(T \ (Pending(s))')
    <3>1. /\ \A i \in InChannel(s) : R[i].err => R[i].by \in T
          /\ failures[s] <= Cardinality(T \ Pending(s))
      BY <1>1, <1>2, <2>4 DEF AuditOK, CauseOK
    <3>2. \A i \in (InChannel(s))' : results'[s][i].err => results'[s][i].by \in T BY <1>11, <3>1
    <3> DEFINE A == T \ Pending(s)  B == T \ (Pending(s))'
    <3>3. A \subseteq T /\ B \subseteq T /\ A \subseteq B BY <2>3
    <3>4. /\ IsFiniteSet(A) /\ IsFiniteSet(B) /\ Cardinality(A) \in Nat /\ Cardinality(B) \in Nat
          /\ Cardinality(A) <= Cardinality(B)
      BY <2>2, <3>3, FS_Subset
    <3>5. failures[s] \in Nat BY <1>1 DEF AuditTypeOK
    <3>6. CASE ~r.err
      <4>1. failures'[s] = failures[s] BY <1>7, <3>6
      <4> QED BY <3>1, <3>2, <3>4, <3>5, <4>1
    <3>7. CASE r.err
      <4>1. r.by \in T BY <1>3, <1>11, <3>1, <3>7
      <4>2. r.by \in B /\ r.by \notin A BY <2>3, <4>1
      <4> HIDE DEF A, B
      <4>3. A \cup {r.by} \subseteq B BY <3>3, <4>2
      <4>4. Cardinality(A \cup {r.by}) = Cardinality(A) + 1 BY <3>4, <4>2, FS_AddElement
      <4>5. Cardinality(A \cup {r.by}) <= Cardinality(B) BY <3>4, <4>3, FS_Subset
      <4>6. failures'[s] = failures[s] + 1 BY <1>7, <3>7
      <4>7. failures[s] <= Cardinality(A) BY <3>1 DEF A
      <4>8. failures'[s] <= Cardinality(B) BY <3>4, <3>5, <4>4, <4>5, <4>6, <4>7
      <4> QED BY <3>2, <4>8 DEF B
    <3> QED BY <3>6, <3>7
  <2>5. ASSUME ctx[s] = "live", cancelled'[s] PROVE Cardinality(T) >= Enough
    <3>1. CASE cancelled[s] BY <1>1, <1>2, <2>5, <3>1 DEF AuditOK, CauseOK
    <3>2. CASE ~cancelled[s]
      <4>1. r.err /\ (abortOnFirst \/ failures'[s] >= MaxFailures) BY <1>7, <2>5, <3>2
      <4>2. failures'[s] <= Cardinality(T \ (Pending(s))') BY <2>4, <2>5, <3>2
      <4>3. /\ Cardinality(T \ (Pending(s))') <= Cardinality(T) /\ Cardinality(T \ (Pending(s))') \in Nat
        BY <2>2
      <4>4. failures'[s] = failures[s] + 1 /\ failures[s] \in Nat BY <1>1, <1>7, <4>1 DEF AuditTypeOK
      <4>5. failures'[s] <= Cardinality(T) BY <2>2, <4>2, <4>3, <4>4
      <4>6. MaxFailures \in Nat BY AuditAssumptions
      <4>7. CASE abortOnFirst BY <2>2, <4>4, <4>5, <4>7 DEF Enough
      <4>8. CASE ~abortOnFirst
        <5>1. failures'[s] >= MaxFailures BY <4>1, <4>8
        <5> QED BY <2>2, <4>4, <4>5, <4>6, <4>8, <5>1 DEF Enough
      <4> QED BY <4>7, <4>8
    <3> QED BY <3>1, <3>2
  <2>6. (ctx[s] = "live" /\ ~cancelled'[s]) => ~cancelled[s] BY <1>7
  <2>7. timedOut'[s] = T /\ ctx'[s] = ctx[s] BY <1>6
  <2> QED BY <1>13, <2>1, <2>4, <2>5, <2>6, <2>7 DEF CauseOK
<1> QED BY <1>8, <1>9, <1>10, <1>15, <1>16, <1>17, BesideKeeps DEF AuditOK

(***************************************************************************)
(* The stages after the auditors, and the end of a context.                *)
(***************************************************************************)
LEMMA ValidateKeeps ==
    ASSUME AuditorInv, NEW s \in Audits, Validate(s)
    PROVE  AuditorInv'
<1>1. AuditTypeOK /\ AuditOK(s) BY DEF AuditorInv
<1>2. PICK validated \in Debated(s) : kept' = [kept EXCEPT ![s] = validated] BY DEF Validate
<1>3. validated \subseteq Candidates BY <1>1 DEF Debated, AuditTypeOK
<1>4. /\ stage[s] = "validate" /\ stage' = [stage EXCEPT ![s] = "prove"]
      /\ cancelled' = [cancelled EXCEPT ![s] = TRUE]
      /\ cand' = [cand EXCEPT ![s] = [a \in Auditors |-> {}]]
      /\ batch' = [batch EXCEPT ![s] = [a \in Auditors |-> 1]]
      /\ failures' = [failures EXCEPT ![s] = 0] /\ timedOut' = [timedOut EXCEPT ![s] = {}]
      /\ UNCHANGED <<abortOnFirst, load, ctx, gate, step, results, report>>
      /\ settings' = settings
  BY DEF Validate, settings
<1>5. Beside(s) BY <1>1, <1>2, <1>4 DEF Beside, Alike, AuditTypeOK
<1>6. AuditTypeOK' BY <1>1, <1>2, <1>3, <1>4 DEF AuditTypeOK
<1>7. SlotInv' BY <1>4, SameSlot
<1>8. /\ (Sent(s))' = Sent(s) /\ (InChannel(s))' = InChannel(s) /\ Sent(s) = Auditors
      /\ stage'[s] = "prove"
  BY <1>1, <1>4 DEF Sent, InChannel, AuditOK, ChannelOK, AuditTypeOK
<1>9. ChannelOK(s)' BY <1>1, <1>4, <1>8 DEF AuditOK, ChannelOK, Sent
<1>10. HeardOK(s)' BY <1>8 DEF HeardOK
<1>11. CauseOK(s)' BY <1>8 DEF CauseOK
<1> QED BY <1>5, <1>6, <1>7, <1>9, <1>10, <1>11, BesideKeeps DEF AuditOK

LEMMA IssuesType ==
    ASSUME AuditTypeOK, NEW s \in Audits, NEW group \in ProvedStatic(s),
           NEW alone \in SUBSET (kept[s] \ Grouped(s))
    PROVE  Issues(s, group \cup alone) \subseteq Candidates \cup {Static}
<1>1. kept[s] \subseteq Candidates BY DEF AuditTypeOK
<1>2. group \subseteq Grouped(s) \cup {Static} /\ Grouped(s) \subseteq kept[s]
  BY DEF ProvedStatic, Grouped
<1> QED BY <1>1, <1>2 DEF Issues

LEMMA ProveIs ==
    ASSUME NEW s \in Audits, Prove(s)
    PROVE  \E group \in ProvedStatic(s), alone \in SUBSET (kept[s] \ Grouped(s)) :
              report' = [report EXCEPT ![s] = Issues(s, group \cup alone)]
<1>1. PICK group \in ProvedStatic(s) :
        \E alone \in IF ctx[s] = "done" THEN {{}} ELSE SUBSET (kept[s] \ Grouped(s)) :
           report' = [report EXCEPT ![s] = Issues(s, group \cup alone)]
  BY DEF Prove
<1>2. PICK alone \in IF ctx[s] = "done" THEN {{}} ELSE SUBSET (kept[s] \ Grouped(s)) :
           report' = [report EXCEPT ![s] = Issues(s, group \cup alone)]
  BY <1>1
<1>3. alone \in SUBSET (kept[s] \ Grouped(s)) BY <1>2
<1> QED BY <1>2, <1>3

LEMMA ProveKeeps ==
    ASSUME AuditorInv, NEW s \in Audits, Prove(s)
    PROVE  AuditorInv'
<1>1. AuditTypeOK /\ AuditOK(s) BY DEF AuditorInv
<1>2. PICK group \in ProvedStatic(s) : \E alone \in SUBSET (kept[s] \ Grouped(s)) :
              report' = [report EXCEPT ![s] = Issues(s, group \cup alone)]
  BY ProveIs
<1>3. PICK alone \in SUBSET (kept[s] \ Grouped(s)) :
              report' = [report EXCEPT ![s] = Issues(s, group \cup alone)]
  BY <1>2
<1>4. report' \in [Audits -> SUBSET (Candidates \cup {Static})]
  BY <1>1, <1>3, IssuesType DEF AuditTypeOK
<1>5. /\ stage[s] = "prove" /\ stage' = [stage EXCEPT ![s] = "reported"]
      /\ kept' = [kept EXCEPT ![s] = {}]
      /\ UNCHANGED <<abortOnFirst, load, ctx, cancelled, gate, step, batch, cand, results,
                     failures, timedOut>>
      /\ settings' = settings
  BY DEF Prove, settings, auditorVars
<1>6. Beside(s) BY <1>1, <1>5 DEF Beside, Alike, AuditTypeOK
<1>7. AuditTypeOK' BY <1>1, <1>4, <1>5 DEF AuditTypeOK
<1>8. SlotInv' BY <1>5, SameSlot
<1>9. /\ (Sent(s))' = Sent(s) /\ (InChannel(s))' = InChannel(s) /\ Sent(s) = Auditors
      /\ stage'[s] = "reported"
  BY <1>1, <1>5 DEF Sent, InChannel, AuditOK, ChannelOK, AuditTypeOK
<1>10. ChannelOK(s)' BY <1>1, <1>5, <1>9 DEF AuditOK, ChannelOK
<1>11. HeardOK(s)' BY <1>9 DEF HeardOK
<1>12. CauseOK(s)' BY <1>9 DEF CauseOK
<1> QED BY <1>6, <1>7, <1>8, <1>10, <1>11, <1>12, BesideKeeps DEF AuditOK

LEMMA ContextEndsKeeps ==
    ASSUME AuditorInv, NEW s \in Audits, ContextEnds(s)
    PROVE  AuditorInv'
<1>1. AuditTypeOK /\ AuditOK(s) BY DEF AuditorInv
<1>2. /\ ctx' = [ctx EXCEPT ![s] = "done"]
      /\ UNCHANGED <<abortOnFirst, load, cancelled, gate, step, batch, cand, results,
                     failures, kept, stage, report, timedOut>>
      /\ settings' = settings
  BY DEF ContextEnds, settings, auditorVars
<1>3. Beside(s) BY <1>1, <1>2 DEF Beside, Alike, AuditTypeOK
<1>4. AuditTypeOK' BY <1>1, <1>2 DEF AuditTypeOK
<1>5. SlotInv' BY <1>2, SameSlot
<1>6. /\ (Sent(s))' = Sent(s) /\ (InChannel(s))' = InChannel(s) /\ ctx'[s] = "done"
  BY <1>1, <1>2 DEF Sent, InChannel, AuditTypeOK
<1>7. ChannelOK(s)' BY <1>1, <1>2, <1>6 DEF AuditOK, ChannelOK
<1>8. HeardOK(s)' BY <1>1, <1>2, <1>6 DEF AuditOK, HeardOK
<1>9. CauseOK(s)' BY <1>1, <1>2, <1>6 DEF AuditOK, CauseOK
<1> QED BY <1>3, <1>4, <1>5, <1>7, <1>8, <1>9, BesideKeeps DEF AuditOK

(***************************************************************************)
(* The theorems.                                                           *)
(***************************************************************************)
LEMMA AuditorInit == AuditInit => AuditorInv
<1> SUFFICES ASSUME AuditInit PROVE AuditorInv OBVIOUS
<1>1. \A s \in Audits : load[s].batches \in Nat BY AuditAssumptions DEF AuditInit
<1>2. AuditTypeOK BY DEF AuditInit, AuditTypeOK
<1>3. SlotInv BY DEF AuditInit, SlotInv
<1>4. ASSUME NEW s \in Audits PROVE AuditOK(s)
  <2>1. /\ results[s] = <<>> /\ failures[s] = 0 /\ timedOut[s] = {} /\ ~cancelled[s]
        /\ \A a \in Auditors : cand[s][a] = {}
        /\ \A a \in Auditors : step[s][a] = IF load[s].batches = 0 THEN "sent" ELSE "loop"
        /\ stage[s] = IF load[s].batches = 0 THEN "validate" ELSE "audit"
    BY DEF AuditInit
  <2>2. InChannel(s) = {} BY <2>1 DEF InChannel
  <2>3. ChannelOK(s) BY <2>1, <2>2 DEF ChannelOK, Sent
  <2>4. HeardOK(s) BY <2>1 DEF HeardOK
  <2>5. Cardinality(timedOut[s] \ Pending(s)) = 0 BY <2>1, FS_EmptySet
  <2>6. CauseOK(s) BY <2>1, <2>2, <2>5 DEF CauseOK
  <2> QED BY <2>3, <2>4, <2>6 DEF AuditOK
<1> QED BY <1>2, <1>3, <1>4 DEF AuditorInv

LEMMA AuditorStepKeeps == AuditorInv /\ [AuditNext]_auditVars => AuditorInv'
<1> SUFFICES ASSUME AuditorInv, [AuditNext]_auditVars PROVE AuditorInv' OBVIOUS
<1>1. CASE UNCHANGED auditVars
  <2>1. /\ UNCHANGED <<abortOnFirst, load, ctx, cancelled, gate, step, batch, cand, results,
                       failures, kept, stage, report, timedOut>> /\ settings' = settings
    BY <1>1 DEF auditVars, settings
  <2>2. AuditTypeOK' BY <2>1 DEF AuditorInv, AuditTypeOK
  <2>3. SlotInv' BY <2>1, SameSlot
  <2>4. \A s \in Audits : AuditOK(s)'
    <3>1. \A s \in Audits : Alike(s) /\ UNCHANGED settings BY <2>1 DEF Alike
    <3> QED BY <3>1, AlikeKeeps DEF AuditorInv
  <2> QED BY <2>2, <2>3, <2>4 DEF AuditorInv
<1>2. ASSUME NEW s \in Audits, NEW a \in Auditors, AuditorStep(s, a) \/ EndCall(s, a) PROVE AuditorInv'
  BY <1>2, StartBatchKeeps, AcquireKeeps, EndCallKeeps DEF AuditorStep
<1>3. ASSUME NEW s \in Audits, StageStep(s) \/ ContextEnds(s) PROVE AuditorInv'
  BY <1>3, CollectKeeps, ValidateKeeps, ProveKeeps, ContextEndsKeeps DEF StageStep
<1> QED BY <1>1, <1>2, <1>3 DEF AuditNext

LEMMA AuditorAlways == AuditSpec => []AuditorInv
BY AuditorInit, AuditorStepKeeps, PTL DEF AuditSpec

(* Every result in the channel is one of an auditor, and every finding that is  *)
(* kept or reported is a candidate or the static one, for any number of         *)
(* analyses, auditors and batches.                                              *)
THEOREM AuditTypeCorrect == AuditSpec => []AuditTypeOK
<1>1. AuditorInv => AuditTypeOK BY DEF AuditorInv
<1> QED BY <1>1, AuditorAlways, PTL

LEMMA SlotCounted == AuditorInv => SlotHeldByCaller
<1> SUFFICES ASSUME AuditorInv PROVE SlotHeldByCaller OBVIOUS
<1>1. gate \in 0..1 /\ SlotInv BY DEF AuditorInv, AuditTypeOK
<1>2. CASE gate = 0
  <2>1. Calling = {} BY <1>1, <1>2 DEF Calling, SlotInv
  <2> QED BY <1>2, <2>1, FS_EmptySet DEF SlotHeldByCaller
<1>3. CASE gate = 1
  <2>1. PICK s \in Audits, a \in Auditors : step[s][a] = "call" BY <1>1, <1>3 DEF SlotInv
  <2>2. Calling = {<<s, a>>} BY <1>1, <2>1 DEF Calling, SlotInv
  <2> QED BY <1>3, <2>2, FS_Singleton DEF SlotHeldByCaller
<1> QED BY <1>1, <1>2, <1>3

(* The shared slot and the cancellation of siblings cost no answers: one call   *)
(* at a time holds the slot and gives it back, an analysis is cancelled for its *)
(* own timeouts only, and what an auditor has found is kept (acquireAuditorSlot *)
(* and the collector of Engine.Scan), whatever the number of auditors.          *)
THEOREM AuditorsHeard == AuditSpec => []AuditorsAreHeard
<1>1. AuditorInv => AuditorsAreHeard
  <2> SUFFICES ASSUME AuditorInv PROVE AuditorsAreHeard OBVIOUS
  <2>1. AnswersKept
    <3>1. \A s \in Audits : stage[s] = "validate" => Sent(s) = Auditors
      BY DEF AuditorInv, AuditOK, ChannelOK
    <3> QED BY <3>1 DEF AuditorInv, AuditOK, HeardOK, AnswersKept, Sent
  <2>2. CancelledForCause BY DEF AuditorInv, AuditOK, CauseOK, CancelledForCause, Enough
  <2> QED BY <2>1, <2>2, SlotCounted DEF AuditorsAreHeard
<1> QED BY <1>1, AuditorAlways, PTL

(* No failing or ended model loses the static finding, as long as it leads its  *)
(* group: Prove asks no model about it, and analysisResultFromReport falls back *)
(* on all that was validated.                                                   *)
THEOREM StaticReported == AuditSpec => StaticLeadReported
<1> DEFINE Told == \A s \in Audits :
         stage[s] = "prove" /\ stage'[s] = "reported" /\ ~LedByModel(s) => Static \in report'[s]
<1>1. AuditorInv /\ [AuditNext]_auditVars => Told
  <2> SUFFICES ASSUME AuditorInv, [AuditNext]_auditVars, NEW s \in Audits,
                      stage[s] = "prove", stage'[s] = "reported", ~LedByModel(s)
               PROVE  Static \in report'[s]
    OBVIOUS
  <2>1. AuditTypeOK BY DEF AuditorInv
  <2>2. stage'[s] # stage[s] OBVIOUS
  <2>3. Prove(s)
    <3>1. ~UNCHANGED stage BY <2>2
    <3>2. ~UNCHANGED auditVars BY <3>1 DEF auditVars
    <3>3. \A z \in Audits, a \in Auditors : ~AuditorStep(z, a) /\ ~EndCall(z, a)
      BY <3>1 DEF AuditorStep, StartBatch, AcquireAuditorSlot, EndCall
    <3>4. \A z \in Audits : ~ContextEnds(z) BY <3>1 DEF ContextEnds
    <3>5. PICK z \in Audits : StageStep(z) BY <3>2, <3>3, <3>4 DEF AuditNext
    <3>6. ~Collect(z) /\ ~Validate(z)
      <4>1. Collect(z) => stage'[s] \in {stage[s], "validate"} BY <2>1 DEF Collect, AuditTypeOK
      <4>2. Validate(z) => stage'[s] \in {stage[s], "prove"} BY <2>1 DEF Validate, AuditTypeOK
      <4> QED BY <2>2, <4>1, <4>2
    <3>7. Prove(z) BY <3>5, <3>6 DEF StageStep
    <3>8. z = s BY <2>1, <2>2, <3>7 DEF Prove, AuditTypeOK
    <3> QED BY <3>7, <3>8
  <2>4. PICK group \in ProvedStatic(s) : \E alone \in SUBSET (kept[s] \ Grouped(s)) :
              report' = [report EXCEPT ![s] = Issues(s, group \cup alone)]
    BY <2>3, ProveIs
  <2>5. PICK alone \in SUBSET (kept[s] \ Grouped(s)) :
              report' = [report EXCEPT ![s] = Issues(s, group \cup alone)]
    BY <2>4
  <2>6. Static \in group BY <2>4 DEF ProvedStatic
  <2>7. Issues(s, group \cup alone) = group \cup alone BY <2>6 DEF Issues
  <2> QED BY <2>1, <2>5, <2>6, <2>7 DEF AuditTypeOK
<1> QED BY <1>1, AuditorAlways, PTL DEF AuditSpec, StaticLeadReported

------------------------------------------------------------------------------

(***************************************************************************)
(* The pass that a commit gets, and the one summary.                       *)
(***************************************************************************)
\* Where a scan is in UpsertPRPolicySummary.
Inside == {"listing", "write", "prune"}

\* A success is of clean code, and only scans of the pull request list files.
JudgedOK(s) ==
    /\ point[s] # "idle" => asked[s] \in Heads
    /\ point[s] \notin {"idle", "queued", "read", "ended"} => analysed[s] \in Heads
    /\ point[s] = "scan" => policy.kind[s] = "push"
    /\ point[s] = "post" /\ judged[s] = "success" /\ policy.kind[s] = "pr" /\ policy.mode = "enforce"
         => worst[analysed[s]] = "none" \/ analysed[s] \in unseen

\* The scan in the summary has the lock, and the comments it listed are there.
SummaryOK(s) ==
    /\ point[s] \in Inside <=> lock = s
    /\ point[s] \in {"write", "prune"} =>
         owned <= Len(comments) /\ (~strayed => owned = Len(comments))
    /\ point[s] = "prune" => owned > 0

OnePerPull == ~strayed => landing = <<>> /\ Len(comments) <= 1

GateInv ==
    /\ GateTypeOK /\ PassedIsClean /\ OnePerPull
    /\ \A s \in Jobs : JudgedOK(s) /\ SummaryOK(s)

SettledGate == UNCHANGED <<policy, worst>>

LEMMA PolicyTypes ==
    ASSUME GateTypeOK
    PROVE  /\ policy.mode \in PolicyModes /\ policy.include \in BOOLEAN /\ policy.status \in BOOLEAN
           /\ policy.kind \in [Jobs -> Triggers] /\ policy.heads \in 1..MaxHead
           /\ MaxHead \in Nat \ {0} /\ Heads = 1..MaxHead /\ NoJob \notin Jobs
BY GateAssumptions DEF GateTypeOK, Situation, Heads

LEMMA TurnIs ==
    ASSUME GateTypeOK, NEW s \in Jobs, NEW to \in Steps, Turn(s, to)
    PROVE  /\ point' \in [Jobs -> Steps] /\ point'[s] = to
           /\ \A t \in Jobs \ {s} : point'[t] = point[t]
BY DEF GateTypeOK, Turn

\* What a scan does outside the summary.
LEMMA ScanMoves ==
    ASSUME GateInv, NEW s \in Jobs, GateTypeOK', PassedIsClean', JudgedOK(s)',
           UNCHANGED <<policy, worst, comments, lock, owned, landing, strayed>>,
           unseen \subseteq unseen', point[s] \notin Inside, point'[s] \notin Inside,
           \A t \in Jobs \ {s} : /\ point'[t] = point[t] /\ asked'[t] = asked[t]
                                 /\ analysed'[t] = analysed[t] /\ judged'[t] = judged[t]
    PROVE  GateInv'
<1>1. \A t \in Jobs \ {s} : JudgedOK(t)' BY DEF GateInv, JudgedOK
<1>2. \A t \in Jobs \ {s} : SummaryOK(t)' BY DEF GateInv, SummaryOK
<1>3. SummaryOK(s)' BY DEF GateInv, SummaryOK, Inside
<1>4. OnePerPull' BY DEF GateInv, OnePerPull
<1> QED BY <1>1, <1>2, <1>3, <1>4 DEF GateInv

\* What the scan that has the lock does.
LEMMA SummaryMoves ==
    ASSUME GateInv, NEW s \in Jobs, GateTypeOK', OnePerPull', SummaryOK(s)',
           UNCHANGED <<policy, worst, asked, analysed, judged, status, unseen>>,
           lock = s, lock' \in {s, NoJob}, point'[s] \in Inside \cup {"ended"},
           \A t \in Jobs \ {s} : point'[t] = point[t]
    PROVE  GateInv'
<1>1. \A t \in Jobs : lock = t => t = s OBVIOUS
<1>2. point[s] \in Inside /\ \A t \in Jobs \ {s} : point[t] \notin Inside
  BY DEF GateInv, SummaryOK
<1>3. \A t \in Jobs : JudgedOK(t)' BY <1>2 DEF GateInv, JudgedOK, Inside
<1>4. NoJob \notin Jobs BY GateAssumptions
<1>5. \A t \in Jobs \ {s} : SummaryOK(t)' BY <1>2, <1>4 DEF SummaryOK, Inside
<1>6. PassedIsClean' BY DEF GateInv, PassedIsClean
<1> QED BY <1>3, <1>5, <1>6 DEF GateInv

\* A pass that is posted is of a clean commit.
LEMMA PostKeeps ==
    ASSUME GateInv, NEW s \in Jobs, NEW c \in Heads,
           NEW state \in {"none", "pending", "success", "failure", "warning", "error"},
           Post(s, c, state), SettledGate, unseen \subseteq unseen',
           state = "success" /\ policy.kind[s] = "pr" /\ policy.mode = "enforce"
             => worst[c] = "none" \/ c \in unseen
    PROVE  /\ status' \in [Heads -> [state : {"none", "pending", "success", "failure", "error"},
                                     by : {"none", "push", "pr"}]]
           /\ unposted' \subseteq Heads /\ PassedIsClean'
<1> DEFINE States == [state : {"none", "pending", "success", "failure", "error"},
                      by : {"none", "push", "pr"}]
           posted == [state |-> MapGiteaCommitState(state), by |-> policy.kind[s]]
<1>1. GateTypeOK /\ status \in [Heads -> States] /\ unposted \subseteq Heads
  BY DEF GateInv, GateTypeOK
<1>2. posted \in States BY <1>1, PolicyTypes DEF MapGiteaCommitState, Triggers
<1>3. posted = [state |-> "success", by |-> "pr"] => state = "success" /\ policy.kind[s] = "pr"
  <2>1. posted.state = MapGiteaCommitState(state) /\ posted.by = policy.kind[s] OBVIOUS
  <2> HIDE DEF posted
  <2> QED BY <2>1 DEF MapGiteaCommitState
<1>4. status' = [status EXCEPT ![c] = posted] \/ status' = status BY DEF Post
<1> HIDE DEF posted
<1>5. status' \in [Heads -> States] /\ unposted' \subseteq Heads BY <1>1, <1>2, <1>4 DEF Post
<1>6. \A d \in Heads : status'[d] = status[d] \/ (d = c /\ status'[d] = posted) BY <1>1, <1>4
<1>7. PassedIsClean
  BY DEF GateInv
<1>8. PassedIsClean'
  <2> SUFFICES ASSUME NEW d \in Heads, d \notin unseen', policy.mode = "enforce",
                      status'[d] = [state |-> "success", by |-> "pr"]
               PROVE  worst[d] = "none"
    BY DEF PassedIsClean, SettledGate, Heads
  <2>1. CASE status'[d] = status[d] BY <1>7, <2>1 DEF PassedIsClean
  <2>2. CASE d = c /\ status'[d] = posted BY <1>3, <2>2
  <2> QED BY <1>6, <2>1, <2>2
<1> QED BY <1>5, <1>8

(***************************************************************************)
(* The scans.                                                              *)
(***************************************************************************)
LEMMA StartJobKeeps == ASSUME GateInv, NEW s \in Jobs, StartJob(s) PROVE GateInv'
<1>1. GateTypeOK BY DEF GateInv
<1>2. /\ point[s] = "idle" /\ Turn(s, "queued") /\ asked' = [asked EXCEPT ![s] = head]
      /\ UNCHANGED <<policy, worst, head, analysed, judged, status, unposted, unseen,
                     comments, lock, owned, landing, strayed>>
  BY DEF StartJob, summary
<1>3. /\ point' \in [Jobs -> Steps] /\ point'[s] = "queued"
      /\ \A t \in Jobs \ {s} : point'[t] = point[t]
  BY <1>1, <1>2, TurnIs DEF Steps
<1>4. /\ asked' \in [Jobs -> 0..MaxHead] /\ asked'[s] = head /\ head \in Heads
      /\ \A t \in Jobs \ {s} : asked'[t] = asked[t]
  BY <1>1, <1>2, PolicyTypes DEF GateTypeOK
<1>5. GateTypeOK' BY <1>1, <1>2, <1>3, <1>4 DEF GateTypeOK
<1>6. PassedIsClean' BY <1>2 DEF GateInv, PassedIsClean
<1>7. JudgedOK(s)' BY <1>2, <1>3, <1>4 DEF JudgedOK
<1> QED BY <1>2, <1>3, <1>4, <1>5, <1>6, <1>7, ScanMoves DEF Inside

LEMMA ReportPendingKeeps == ASSUME GateInv, NEW s \in Jobs, ReportPending(s) PROVE GateInv'
<1>1. GateTypeOK /\ JudgedOK(s) BY DEF GateInv
<1>2. /\ point[s] = "queued" /\ Post(s, asked[s], "pending")
      /\ UNCHANGED <<policy, worst, head, asked, judged, unseen, comments, lock, owned, landing, strayed>>
  BY DEF ReportPending, summary
<1>3. asked[s] \in Heads BY <1>1, <1>2 DEF JudgedOK
<1>4. /\ status' \in [Heads -> [state : {"none", "pending", "success", "failure", "error"},
                                by : {"none", "push", "pr"}]]
      /\ unposted' \subseteq Heads /\ PassedIsClean'
  BY <1>2, <1>3, PostKeeps DEF SettledGate
<1>5. \/ policy.kind[s] = "push" /\ Turn(s, "scan") /\ analysed' = [analysed EXCEPT ![s] = asked[s]]
      \/ Turn(s, "read") /\ UNCHANGED analysed
  BY DEF ReportPending
<1>6. /\ point' \in [Jobs -> Steps] /\ \A t \in Jobs \ {s} : point'[t] = point[t]
      /\ point'[s] \in {"scan", "read"} /\ (point'[s] = "scan" => policy.kind[s] = "push")
      /\ analysed' \in [Jobs -> 0..MaxHead] /\ \A t \in Jobs \ {s} : analysed'[t] = analysed[t]
      /\ point'[s] = "scan" => analysed'[s] \in Heads
  <2>1. CASE policy.kind[s] = "push" /\ Turn(s, "scan") /\ analysed' = [analysed EXCEPT ![s] = asked[s]]
    BY <1>1, <1>3, <2>1, TurnIs DEF Steps, GateTypeOK
  <2>2. CASE Turn(s, "read") /\ UNCHANGED analysed
    BY <1>1, <2>2, TurnIs DEF Steps, GateTypeOK
  <2> QED BY <1>5, <2>1, <2>2
<1>7. GateTypeOK' BY <1>1, <1>2, <1>4, <1>6 DEF GateTypeOK
<1>8. JudgedOK(s)' BY <1>2, <1>3, <1>6 DEF JudgedOK
<1> QED BY <1>2, <1>4, <1>6, <1>7, <1>8, ScanMoves DEF Inside

LEMMA GetPullRequestKeeps == ASSUME GateInv, NEW s \in Jobs, GetPullRequest(s) PROVE GateInv'
<1>1. GateTypeOK /\ JudgedOK(s) BY DEF GateInv
<1>2. /\ point[s] = "read" /\ Turn(s, "files") /\ analysed' = [analysed EXCEPT ![s] = head]
      /\ UNCHANGED <<policy, worst, head, asked, judged, status, unposted, unseen,
                     comments, lock, owned, landing, strayed>>
  BY DEF GetPullRequest, summary
<1>3. /\ point' \in [Jobs -> Steps] /\ point'[s] = "files"
      /\ \A t \in Jobs \ {s} : point'[t] = point[t]
  BY <1>1, <1>2, TurnIs DEF Steps
<1>4. /\ analysed' \in [Jobs -> 0..MaxHead] /\ analysed'[s] = head /\ head \in Heads
      /\ \A t \in Jobs \ {s} : analysed'[t] = analysed[t]
  BY <1>1, <1>2, PolicyTypes DEF GateTypeOK
<1>5. GateTypeOK' BY <1>1, <1>2, <1>3, <1>4 DEF GateTypeOK
<1>6. PassedIsClean' BY <1>2 DEF GateInv, PassedIsClean
<1>7. JudgedOK(s)' BY <1>1, <1>2, <1>3, <1>4 DEF JudgedOK
<1> QED BY <1>2, <1>3, <1>4, <1>5, <1>6, <1>7, ScanMoves DEF Inside

\* What enforcing policies pass has no finding.
LEMMA EvaluateIs ==
    ASSUME GateTypeOK, NEW level \in Levels, NEW coverage \in {"complete", "optional", "required"}
    PROVE  /\ Evaluate(level, coverage) \in Finals
           /\ Evaluate(level, coverage) = "success" /\ policy.mode = "enforce" => level = "none"
BY PolicyTypes DEF Evaluate, Finals, Levels, PolicyModes

LEMMA JudgeIs ==
    ASSUME GateTypeOK, NEW s \in Jobs, NEW levels \in SUBSET Levels, Judge(s, levels)
    PROVE  /\ point' \in [Jobs -> Steps] /\ point'[s] = "post"
           /\ judged' \in [Jobs -> Finals \cup {"none"}]
           /\ \A t \in Jobs \ {s} : point'[t] = point[t] /\ judged'[t] = judged[t]
           /\ judged'[s] = "success" /\ policy.mode = "enforce" => "none" \in levels
<1>1. Turn(s, "post") BY DEF Judge
<1>2. PICK level \in levels, coverage \in {"complete", "optional", "required"} :
         judged' = [judged EXCEPT ![s] = Evaluate(level, coverage)]
  BY DEF Judge
<1>3. /\ Evaluate(level, coverage) \in Finals
      /\ Evaluate(level, coverage) = "success" /\ policy.mode = "enforce" => level = "none"
  BY EvaluateIs
<1>4. judged \in [Jobs -> Finals \cup {"none"}] BY DEF GateTypeOK
<1>5. /\ judged' \in [Jobs -> Finals \cup {"none"}] /\ judged'[s] = Evaluate(level, coverage)
      /\ \A t \in Jobs \ {s} : judged'[t] = judged[t]
  BY <1>2, <1>3, <1>4
<1>6. /\ point' \in [Jobs -> Steps] /\ point'[s] = "post" /\ \A t \in Jobs \ {s} : point'[t] = point[t]
  BY <1>1, TurnIs DEF Steps
<1> QED BY <1>3, <1>5, <1>6

\* A scan that could be judged, or failed, at the files or in the scan.
LEMMA AnalysisKeeps ==
    ASSUME GateInv, NEW s \in Jobs, point[s] \in {"files", "scan"}, NEW levels \in SUBSET Levels,
           \/ Judge(s, levels) /\ UNCHANGED <<status, unposted>>
           \/ AnalysisFails(s),
           unseen \subseteq unseen', unseen' \subseteq Heads,
           UNCHANGED <<policy, worst, head, asked, analysed, comments, lock, owned, landing, strayed>>,
           policy.kind[s] # "push" /\ "none" \in levels
             => worst[analysed[s]] = "none" \/ analysed[s] \in unseen'
    PROVE  GateInv'
<1>1. GateTypeOK /\ JudgedOK(s) /\ policy.kind[s] \in Triggers BY PolicyTypes DEF GateInv
<1>2. asked[s] \in Heads /\ analysed[s] \in Heads BY <1>1 DEF JudgedOK
<1>3. CASE Judge(s, levels) /\ UNCHANGED <<status, unposted>>
  <2>1. /\ point' \in [Jobs -> Steps] /\ point'[s] = "post"
        /\ judged' \in [Jobs -> Finals \cup {"none"}]
        /\ \A t \in Jobs \ {s} : point'[t] = point[t] /\ judged'[t] = judged[t]
        /\ judged'[s] = "success" /\ policy.mode = "enforce" => "none" \in levels
    BY <1>1, <1>3, JudgeIs
  <2>2. GateTypeOK' BY <1>1, <1>3, <2>1 DEF GateTypeOK
  <2>3. PassedIsClean' BY <1>3 DEF GateInv, PassedIsClean
  <2>4. JudgedOK(s)' BY <1>2, <2>1 DEF JudgedOK
  <2> QED BY <2>1, <2>2, <2>3, <2>4, ScanMoves DEF Inside
<1>4. CASE AnalysisFails(s)
  <2>1. Post(s, asked[s], "error") /\ Turn(s, "ended") /\ UNCHANGED judged BY <1>4 DEF AnalysisFails
  <2>2. /\ status' \in [Heads -> [state : {"none", "pending", "success", "failure", "error"},
                                  by : {"none", "push", "pr"}]]
        /\ unposted' \subseteq Heads /\ PassedIsClean'
    BY <1>2, <2>1, PostKeeps DEF SettledGate
  <2>3. /\ point' \in [Jobs -> Steps] /\ point'[s] = "ended" /\ \A t \in Jobs \ {s} : point'[t] = point[t]
    BY <1>1, <2>1, TurnIs DEF Steps
  <2>4. GateTypeOK' BY <1>1, <2>1, <2>2, <2>3 DEF GateTypeOK
  <2>5. JudgedOK(s)' BY <1>2, <2>3 DEF JudgedOK
  <2> QED BY <2>1, <2>2, <2>3, <2>4, <2>5, ScanMoves DEF Inside
<1> QED BY <1>3, <1>4

LEMMA PartIs == ASSUME NEW level \in Levels PROVE PartOf(level) \subseteq Levels
BY DEF PartOf, Levels

LEMMA GetChangedFilesKeeps == ASSUME GateInv, NEW s \in Jobs, GetChangedFiles(s) PROVE GateInv'
<1>1. GateTypeOK /\ JudgedOK(s) BY DEF GateInv
<1>2. /\ point[s] = "files"
      /\ UNCHANGED <<policy, worst, head, asked, analysed, comments, lock, owned, landing, strayed>>
  BY DEF GetChangedFiles, summary
<1>3. analysed[s] \in Heads /\ worst[analysed[s]] \in Levels /\ unseen \subseteq Heads
  BY <1>1, <1>2 DEF JudgedOK, GateTypeOK
<1>4. CASE /\ head = analysed[s] /\ Judge(s, {worst[head]})
           /\ UNCHANGED <<unseen, status, unposted>>
  BY <1>2, <1>3, <1>4, AnalysisKeeps
<1>5. CASE /\ Judge(s, PartOf(worst[analysed[s]])) /\ unseen' = unseen \cup {analysed[s]}
           /\ UNCHANGED <<status, unposted>>
  <2>1. PartOf(worst[analysed[s]]) \in SUBSET Levels BY <1>3, PartIs
  <2>2. unseen \subseteq unseen' /\ unseen' \subseteq Heads /\ analysed[s] \in unseen' BY <1>3, <1>5
  <2> QED BY <1>2, <1>5, <2>1, <2>2, AnalysisKeeps
<1>6. CASE AnalysisFails(s) /\ UNCHANGED unseen
  <2>1. {} \in SUBSET Levels /\ "none" \notin {} OBVIOUS
  <2> QED BY <1>2, <1>3, <1>6, <2>1, AnalysisKeeps
<1> QED BY <1>4, <1>5, <1>6 DEF GetChangedFiles

LEMMA AnalyzeChangedFilesKeeps == ASSUME GateInv, NEW s \in Jobs, AnalyzeChangedFiles(s) PROVE GateInv'
<1>1. GateTypeOK /\ JudgedOK(s) BY DEF GateInv
<1> DEFINE levels == PartOf(worst[analysed[s]])
<1>2. /\ point[s] = "scan"
      /\ \/ Judge(s, levels) /\ UNCHANGED <<status, unposted>>
         \/ AnalysisFails(s)
      /\ UNCHANGED <<policy, worst, head, asked, analysed, unseen, comments, lock, owned, landing, strayed>>
  BY DEF AnalyzeChangedFiles, summary
<1>3. worst[analysed[s]] \in Levels /\ unseen \subseteq Heads /\ policy.kind[s] = "push"
  BY <1>1, <1>2 DEF JudgedOK, GateTypeOK
<1>4. levels \in SUBSET Levels BY <1>3, PartIs
<1> HIDE DEF levels
<1> QED BY <1>2, <1>3, <1>4, AnalysisKeeps

LEMMA ReportFinalKeeps == ASSUME GateInv, NEW s \in Jobs, ReportFinal(s) PROVE GateInv'
<1>1. GateTypeOK /\ JudgedOK(s) BY DEF GateInv
<1>2. /\ point[s] = "post" /\ Post(s, analysed[s], judged[s]) /\ Summarises(s)
      /\ UNCHANGED <<policy, worst, head, asked, analysed, judged, unseen,
                     comments, lock, owned, landing, strayed>>
  BY DEF ReportFinal, ResolveCommitSHA, summary
<1>3. /\ asked[s] \in Heads /\ analysed[s] \in Heads
      /\ judged[s] \in {"none", "pending", "success", "failure", "warning", "error"}
  BY <1>1, <1>2 DEF JudgedOK, GateTypeOK, Finals
<1>4. judged[s] = "success" /\ policy.kind[s] = "pr" /\ policy.mode = "enforce"
        => worst[analysed[s]] = "none" \/ analysed[s] \in unseen
  BY <1>1, <1>2 DEF JudgedOK
<1>5. /\ status' \in [Heads -> [state : {"none", "pending", "success", "failure", "error"},
                                by : {"none", "push", "pr"}]]
      /\ unposted' \subseteq Heads /\ PassedIsClean'
  BY <1>2, <1>3, <1>4, PostKeeps DEF SettledGate
<1>6. Turn(s, "summarise") \/ Turn(s, "ended") BY <1>2 DEF Summarises
<1>7. /\ point' \in [Jobs -> Steps] /\ point'[s] \in {"summarise", "ended"}
      /\ \A t \in Jobs \ {s} : point'[t] = point[t]
  BY <1>1, <1>6, TurnIs DEF Steps
<1>8. GateTypeOK' BY <1>1, <1>2, <1>5, <1>7 DEF GateTypeOK
<1>9. JudgedOK(s)' BY <1>2, <1>3, <1>7 DEF JudgedOK
<1> QED BY <1>2, <1>5, <1>7, <1>8, <1>9, ScanMoves DEF Inside

(***************************************************************************)
(* The summary.                                                            *)
(***************************************************************************)
LEMMA TakeLockKeeps == ASSUME GateInv, NEW s \in Jobs, TakeLock(s) PROVE GateInv'
<1>1. GateTypeOK /\ JudgedOK(s) /\ NoJob \notin Jobs BY GateAssumptions DEF GateInv
<1>2. /\ point[s] = "summarise" /\ LoadOrStore(s)
      /\ UNCHANGED <<policy, worst, head, asked, analysed, judged, status, unposted,
                     comments, owned, landing, strayed, unseen>>
  BY DEF TakeLock
<1>3. PassedIsClean' /\ OnePerPull' BY <1>2 DEF GateInv, PassedIsClean, OnePerPull
<1>4. CASE lock = NoJob /\ lock' = s /\ Turn(s, "listing")
  <2>1. /\ point' \in [Jobs -> Steps] /\ point'[s] = "listing"
        /\ \A t \in Jobs \ {s} : point'[t] = point[t]
    BY <1>1, <1>4, TurnIs DEF Steps
  <2>2. GateTypeOK' BY <1>1, <1>2, <1>4, <2>1 DEF GateTypeOK
  <2>3. \A t \in Jobs : JudgedOK(t)' BY <1>2, <2>1 DEF GateInv, JudgedOK
  <2>4. \A t \in Jobs : point[t] \notin Inside BY <1>1, <1>4 DEF GateInv, SummaryOK
  <2>5. \A t \in Jobs : SummaryOK(t)' BY <1>2, <1>4, <2>1, <2>4 DEF SummaryOK, Inside
  <2> QED BY <1>3, <2>2, <2>3, <2>5 DEF GateInv
<1>5. CASE lock # NoJob /\ UNCHANGED lock /\ Turn(s, "ended")
  <2>1. /\ point' \in [Jobs -> Steps] /\ point'[s] = "ended"
        /\ \A t \in Jobs \ {s} : point'[t] = point[t]
    BY <1>1, <1>5, TurnIs DEF Steps
  <2>2. GateTypeOK' BY <1>1, <1>2, <1>5, <2>1 DEF GateTypeOK
  <2>3. JudgedOK(s)' BY <1>1, <1>2, <2>1 DEF JudgedOK
  <2> QED BY <1>2, <1>3, <1>5, <2>1, <2>2, <2>3, ScanMoves DEF Inside
<1> QED BY <1>2, <1>4, <1>5 DEF LoadOrStore

LEMMA HasLock ==
    ASSUME GateInv, NEW s \in Jobs, point[s] \in Inside
    PROVE  /\ GateTypeOK /\ lock = s /\ SummaryOK(s) /\ comments \in Seq(Heads) /\ owned \in Nat
           /\ Len(comments) \in Nat /\ NoJob \notin Jobs /\ NoJob # s
           /\ point[s] \in {"write", "prune"} => analysed[s] \in Heads
<1>1. GateTypeOK /\ SummaryOK(s) /\ JudgedOK(s) /\ NoJob \notin Jobs BY GateAssumptions DEF GateInv
<1>2. comments \in Seq(Heads) /\ owned \in Nat BY <1>1 DEF GateTypeOK
<1>3. lock = s BY <1>1 DEF SummaryOK
<1>4. point[s] \in {"write", "prune"} => analysed[s] \in Heads BY <1>1 DEF JudgedOK
<1> QED BY <1>1, <1>2, <1>3, <1>4

\* The scan ends, and lets the lock go.
LEMMA LeaveIs ==
    ASSUME GateInv, NEW s \in Jobs, point[s] \in Inside, LeaveSummary(s)
    PROVE  /\ point' \in [Jobs -> Steps] /\ point'[s] = "ended"
           /\ \A t \in Jobs \ {s} : point'[t] = point[t]
           /\ lock' = NoJob /\ owned' = 0 /\ SummaryOK(s)'
<1>1. GateTypeOK /\ NoJob # s BY HasLock
<1>2. Turn(s, "ended") /\ lock' = NoJob /\ owned' = 0 BY DEF LeaveSummary
<1>3. /\ point' \in [Jobs -> Steps] /\ point'[s] = "ended"
      /\ \A t \in Jobs \ {s} : point'[t] = point[t]
  BY <1>1, <1>2, TurnIs DEF Steps
<1> QED BY <1>1, <1>2, <1>3 DEF SummaryOK, Inside

LEMMA ListCommentsKeeps == ASSUME GateInv, NEW s \in Jobs, ListComments(s) PROVE GateInv'
<1>1. point[s] = "listing" /\ point[s] \in Inside BY DEF ListComments, Inside
<1>2. UNCHANGED <<policy, worst, head, asked, analysed, judged, status, unposted,
                  comments, landing, strayed, unseen>>
  BY DEF ListComments
<1>3. GateTypeOK /\ lock = s /\ comments \in Seq(Heads) /\ NoJob # s /\ Len(comments) \in Nat
  BY <1>1, HasLock
<1>4. OnePerPull' BY <1>2 DEF GateInv, OnePerPull
<1>5. CASE Turn(s, "write") /\ owned' = Len(comments) /\ UNCHANGED lock
  <2>1. /\ point' \in [Jobs -> Steps] /\ point'[s] = "write"
        /\ \A t \in Jobs \ {s} : point'[t] = point[t]
    BY <1>3, <1>5, TurnIs DEF Steps
  <2>2. GateTypeOK' BY <1>2, <1>3, <1>5, <2>1 DEF GateTypeOK
  <2>3. SummaryOK(s)' BY <1>2, <1>3, <1>5, <2>1 DEF SummaryOK, Inside
  <2> QED BY <1>2, <1>3, <1>4, <1>5, <2>1, <2>2, <2>3, SummaryMoves DEF Inside
<1>6. CASE ListFails(s)
  <2>1. /\ point' \in [Jobs -> Steps] /\ point'[s] = "ended"
        /\ \A t \in Jobs \ {s} : point'[t] = point[t]
        /\ lock' = NoJob /\ owned' = 0 /\ SummaryOK(s)'
    BY <1>1, <1>6, LeaveIs DEF ListFails
  <2>2. GateTypeOK' BY <1>2, <1>3, <2>1 DEF GateTypeOK
  <2> QED BY <1>2, <1>3, <1>4, <2>1, <2>2, SummaryMoves
<1> QED BY <1>5, <1>6 DEF ListComments

LEMMA Appended ==
    ASSUME NEW C \in Seq(Heads), NEW c \in Heads
    PROVE  Append(C, c) \in Seq(Heads) /\ Len(Append(C, c)) = Len(C) + 1 /\ Len(C) \in Nat
OBVIOUS

LEMMA CreateCommentKeeps == ASSUME GateInv, NEW s \in Jobs, CreateComment(s) PROVE GateInv'
<1>1. /\ point[s] = "write" /\ point[s] \in Inside /\ owned = 0 /\ LeaveSummary(s)
      /\ UNCHANGED <<policy, worst, head, asked, analysed, judged, status, unposted, unseen>>
  BY DEF CreateComment, Inside
<1>2. /\ GateTypeOK /\ lock = s /\ SummaryOK(s) /\ comments \in Seq(Heads) /\ analysed[s] \in Heads
      /\ landing \in Seq(Heads)
  BY <1>1, HasLock DEF GateTypeOK
<1>3. /\ point' \in [Jobs -> Steps] /\ point'[s] = "ended"
      /\ \A t \in Jobs \ {s} : point'[t] = point[t]
      /\ lock' = NoJob /\ owned' = 0 /\ SummaryOK(s)'
  BY <1>1, LeaveIs
<1>4. CASE comments' = Append(comments, analysed[s]) /\ UNCHANGED <<landing, strayed>>
  <2>1. comments' \in Seq(Heads) /\ Len(comments') = Len(comments) + 1 /\ Len(comments) \in Nat
    BY <1>2, <1>4, Appended
  <2>2. GateTypeOK' BY <1>1, <1>2, <1>3, <1>4, <2>1 DEF GateTypeOK
  <2>3. ~strayed => Len(comments) = 0 BY <1>1, <1>2 DEF SummaryOK
  <2>4. OnePerPull' BY <1>4, <2>1, <2>3 DEF GateInv, OnePerPull
  <2> QED BY <1>1, <1>2, <1>3, <2>2, <2>4, SummaryMoves
<1>5. CASE UNCHANGED comments /\ landing' = Append(landing, analysed[s]) /\ strayed' = TRUE
  <2>1. landing' \in Seq(Heads) BY <1>2, <1>5, Appended
  <2>2. GateTypeOK' BY <1>1, <1>2, <1>3, <1>5, <2>1 DEF GateTypeOK
  <2>3. OnePerPull' BY <1>5 DEF OnePerPull
  <2> QED BY <1>1, <1>2, <1>3, <2>2, <2>3, SummaryMoves
<1> QED BY <1>4, <1>5 DEF CreateComment

LEMMA EditCommentKeeps == ASSUME GateInv, NEW s \in Jobs, EditComment(s) PROVE GateInv'
<1>1. /\ point[s] = "write" /\ point[s] \in Inside /\ owned > 0
      /\ UNCHANGED <<policy, worst, head, asked, analysed, judged, status, unposted,
                     landing, strayed, unseen>>
  BY DEF EditComment, Inside
<1>2. /\ GateTypeOK /\ lock = s /\ SummaryOK(s) /\ comments \in Seq(Heads) /\ analysed[s] \in Heads
      /\ owned \in Nat /\ Len(comments) \in Nat
  BY <1>1, HasLock
<1>3. CASE comments' = [comments EXCEPT ![1] = analysed[s]] /\ Turn(s, "prune") /\ UNCHANGED <<lock, owned>>
  <2>1. comments' \in Seq(Heads) /\ Len(comments') = Len(comments)
    <3>1. 1 \in 1..Len(comments) BY <1>1, <1>2 DEF SummaryOK
    <3> QED BY <1>2, <1>3, <3>1, ExceptSeq
  <2>2. /\ point' \in [Jobs -> Steps] /\ point'[s] = "prune"
        /\ \A t \in Jobs \ {s} : point'[t] = point[t]
    BY <1>2, <1>3, TurnIs DEF Steps
  <2>3. GateTypeOK' BY <1>1, <1>2, <1>3, <2>1, <2>2 DEF GateTypeOK
  <2>4. OnePerPull' BY <1>1, <2>1 DEF GateInv, OnePerPull
  <2>5. SummaryOK(s)' BY <1>1, <1>2, <1>3, <2>1, <2>2 DEF SummaryOK, Inside
  <2> QED BY <1>1, <1>2, <1>3, <2>2, <2>3, <2>4, <2>5, SummaryMoves DEF Inside
<1>4. CASE LeaveSummary(s) /\ UNCHANGED comments
  <2>1. /\ point' \in [Jobs -> Steps] /\ point'[s] = "ended"
        /\ \A t \in Jobs \ {s} : point'[t] = point[t]
        /\ lock' = NoJob /\ owned' = 0 /\ SummaryOK(s)'
    BY <1>1, <1>4, LeaveIs
  <2>2. GateTypeOK' BY <1>1, <1>2, <1>4, <2>1 DEF GateTypeOK
  <2>3. OnePerPull' BY <1>1, <1>4 DEF GateInv, OnePerPull
  <2> QED BY <1>1, <1>2, <2>1, <2>2, <2>3, SummaryMoves
<1> QED BY <1>3, <1>4 DEF EditComment

\* What is left is the first, some of those that were listed, and all later ones.
LEMMA Pruned ==
    ASSUME NEW C \in Seq(Heads), NEW m \in 1..Len(C), NEW n \in 0..(m - 1), NEW stay \in [1..n -> 2..m]
    PROVE  LET D == <<C[1]>> \o [i \in 1..n |-> C[stay[i]]] \o SubSeq(C, m + 1, Len(C))
           IN  D \in Seq(Heads) /\ Len(D) = 1 + n + (Len(C) - m)
<1> DEFINE A == <<C[1]>>  B == [i \in 1..n |-> C[stay[i]]]  E == SubSeq(C, m + 1, Len(C))
<1>1. Len(C) \in Nat /\ m \in Nat /\ n \in Nat /\ m <= Len(C) /\ m >= 1 OBVIOUS
<1>2. A \in Seq(Heads) /\ Len(A) = 1 BY <1>1
<1>3. B \in Seq(Heads) /\ Len(B) = n
  <2>1. \A i \in 1..n : stay[i] \in 1..Len(C) BY <1>1
  <2>2. B \in [1..n -> Heads] BY <2>1
  <2> QED BY <1>1, <2>2
<1>4. E \in Seq(Heads) /\ Len(E) = Len(C) - m
  <2> DEFINE k == m + 1  l == Len(C)
  <2>1. k \in 1..Len(C) + 1 /\ l \in k - 1..Len(C) BY <1>1
  <2> HIDE DEF k, l
  <2>2. SubSeq(C, k, l) \in Seq(Heads) /\ Len(SubSeq(C, k, l)) = (IF k <= l THEN l - k + 1 ELSE 0)
    BY <2>1, SubSeqProperties
  <2> QED BY <1>1, <2>2 DEF k, l
<1> HIDE DEF A, B, E
<1>5. A \o B \in Seq(Heads) /\ Len(A \o B) = 1 + n BY <1>2, <1>3, ConcatProperties
<1> DEFINE F == A \o B
<1> HIDE DEF F
<1>6. F \in Seq(Heads) /\ Len(F) = 1 + n BY <1>5 DEF F
<1>7. F \o E \in Seq(Heads) /\ Len(F \o E) = Len(F) + Len(E) BY <1>4, <1>6, ConcatProperties
<1>8. Len(F \o E) = 1 + n + (Len(C) - m) BY <1>1, <1>4, <1>6, <1>7
<1> QED BY <1>7, <1>8 DEF A, B, E, F

LEMMA DeleteDuplicatesKeeps == ASSUME GateInv, NEW s \in Jobs, DeleteDuplicates(s) PROVE GateInv'
<1>1. /\ point[s] = "prune" /\ point[s] \in Inside /\ LeaveSummary(s)
      /\ UNCHANGED <<policy, worst, head, asked, analysed, judged, status, unposted,
                     landing, strayed, unseen>>
  BY DEF DeleteDuplicates, Inside
<1>2. /\ GateTypeOK /\ lock = s /\ SummaryOK(s) /\ comments \in Seq(Heads)
      /\ owned \in Nat /\ Len(comments) \in Nat
  BY <1>1, HasLock
<1>3. /\ point' \in [Jobs -> Steps] /\ point'[s] = "ended"
      /\ \A t \in Jobs \ {s} : point'[t] = point[t]
      /\ lock' = NoJob /\ owned' = 0 /\ SummaryOK(s)'
  BY <1>1, LeaveIs
<1>4. owned \in 1..Len(comments) /\ (~strayed => owned = Len(comments)) BY <1>1, <1>2 DEF SummaryOK
<1>5. PICK n \in 0..(owned - 1) : \E stay \in [1..n -> 2..owned] :
         comments' = <<comments[1]>> \o [i \in 1..n |-> comments[stay[i]]]
                                     \o SubSeq(comments, owned + 1, Len(comments))
  BY DEF DeleteDuplicates
<1>6. PICK stay \in [1..n -> 2..owned] :
         comments' = <<comments[1]>> \o [i \in 1..n |-> comments[stay[i]]]
                                     \o SubSeq(comments, owned + 1, Len(comments))
  BY <1>5
<1>7. comments' \in Seq(Heads) /\ Len(comments') = 1 + n + (Len(comments) - owned)
  BY <1>2, <1>4, <1>5, <1>6, Pruned
<1>8. GateTypeOK' BY <1>1, <1>2, <1>3, <1>7 DEF GateTypeOK
<1>9. OnePerPull'
  <2> SUFFICES ASSUME ~strayed PROVE landing = <<>> /\ Len(comments') <= 1 BY <1>1 DEF OnePerPull
  <2>1. landing = <<>> /\ Len(comments) <= 1 BY DEF GateInv, OnePerPull
  <2>2. owned = Len(comments) /\ n = 0 BY <1>2, <1>4, <1>5, <2>1
  <2> QED BY <1>7, <2>1, <2>2
<1> QED BY <1>1, <1>2, <1>3, <1>8, <1>9, SummaryMoves

(***************************************************************************)
(* The environment.                                                        *)
(***************************************************************************)
LEMMA HeadMovesKeeps == ASSUME GateInv, HeadMoves PROVE GateInv'
<1>1. GateTypeOK BY DEF GateInv
<1>2. /\ head' = head + 1 /\ head < policy.heads
      /\ UNCHANGED <<policy, worst, point, asked, analysed, judged, status, unposted,
                     comments, lock, owned, landing, strayed, unseen>>
  BY DEF HeadMoves, scanning, summary
<1>3. head' \in Heads BY <1>1, <1>2, PolicyTypes DEF GateTypeOK
<1>4. GateTypeOK' BY <1>1, <1>2, <1>3 DEF GateTypeOK
<1>5. PassedIsClean' /\ OnePerPull' BY <1>2 DEF GateInv, PassedIsClean, OnePerPull
<1>6. \A s \in Jobs : JudgedOK(s)' /\ SummaryOK(s)' BY <1>2 DEF GateInv, JudgedOK, SummaryOK
<1> QED BY <1>4, <1>5, <1>6 DEF GateInv

LEMMA CommentLandsKeeps == ASSUME GateInv, CommentLands PROVE GateInv'
<1>1. GateTypeOK /\ comments \in Seq(Heads) /\ landing \in Seq(Heads) BY DEF GateInv, GateTypeOK
<1>2. /\ landing # <<>> /\ landing' = Tail(landing) /\ comments' = Append(comments, Head(landing))
      /\ UNCHANGED <<policy, worst, head, point, asked, analysed, judged, status, unposted, lock,
                     owned, strayed, unseen>>
  BY DEF CommentLands, scanning
<1>3. Head(landing) \in Heads /\ Tail(landing) \in Seq(Heads) BY <1>1, <1>2
<1>4. comments' \in Seq(Heads) /\ Len(comments') = Len(comments) + 1 /\ Len(comments) \in Nat
  BY <1>1, <1>2, <1>3, Appended
<1>5. strayed BY <1>2 DEF GateInv, OnePerPull
<1>6. GateTypeOK' BY <1>1, <1>2, <1>3, <1>4 DEF GateTypeOK
<1>7. PassedIsClean' /\ OnePerPull' BY <1>2, <1>5 DEF GateInv, PassedIsClean, OnePerPull
<1>8. \A s \in Jobs : JudgedOK(s)' BY <1>2 DEF GateInv, JudgedOK
<1>9. \A s \in Jobs : SummaryOK(s)' BY <1>1, <1>2, <1>4, <1>5 DEF GateInv, SummaryOK, GateTypeOK
<1> QED BY <1>6, <1>7, <1>8, <1>9 DEF GateInv

LEMMA GateDiesKeeps == ASSUME GateInv, GateDies PROVE GateInv'
<1>1. GateTypeOK /\ landing \in Seq(Heads) /\ NoJob \notin Jobs
  BY GateAssumptions DEF GateInv, GateTypeOK
<1>2. /\ point' = [s \in Jobs |-> IF point[s] = "idle" THEN "idle" ELSE "ended"]
      /\ lock' = NoJob /\ owned' = 0
      /\ unposted' = unposted \cup {c \in Heads :
                       \E s \in Jobs : point[s] # "idle" /\ c \in {asked[s], analysed[s]}}
      /\ UNCHANGED <<policy, worst, head, asked, analysed, judged, status, comments, unseen>>
  BY DEF GateDies
<1>3. /\ point' \in [Jobs -> Steps]
      /\ \A s \in Jobs : point'[s] \in {"idle", "ended"} /\ (point'[s] # "idle" => point[s] # "idle")
  BY <1>2 DEF Steps
<1>4. landing' \in Seq(Heads) /\ strayed' \in BOOLEAN /\ (~strayed' => landing' = landing /\ ~strayed)
  <2>1. CASE UNCHANGED <<landing, strayed>> BY <1>1, <2>1 DEF GateTypeOK
  <2>2. CASE \E s \in Jobs : /\ point[s] = "write" /\ owned = 0
                             /\ landing' = Append(landing, analysed[s]) /\ strayed' = TRUE
    <3>1. PICK s \in Jobs : /\ point[s] = "write" /\ landing' = Append(landing, analysed[s])
                            /\ strayed' = TRUE
      BY <2>2
    <3>2. analysed[s] \in Heads BY <3>1 DEF GateInv, JudgedOK
    <3> QED BY <1>1, <3>1, <3>2, Appended
  <2> QED BY <2>1, <2>2 DEF GateDies
<1>5. GateTypeOK' BY <1>1, <1>2, <1>3, <1>4 DEF GateTypeOK
<1>6. PassedIsClean' BY <1>2 DEF GateInv, PassedIsClean
<1>7. OnePerPull' BY <1>2, <1>4 DEF GateInv, OnePerPull
<1>8. \A s \in Jobs : JudgedOK(s)' BY <1>2, <1>3 DEF GateInv, JudgedOK
<1>9. \A s \in Jobs : SummaryOK(s)' BY <1>1, <1>2, <1>3 DEF SummaryOK, Inside
<1> QED BY <1>5, <1>6, <1>7, <1>8, <1>9 DEF GateInv

(***************************************************************************)
(* The theorems.                                                           *)
(***************************************************************************)
LEMMA GateStarts == GateInit => GateInv
<1> SUFFICES ASSUME GateInit PROVE GateInv OBVIOUS
<1>1. /\ MaxHead \in Nat \ {0} /\ NoJob \notin Jobs BY GateAssumptions
<1>2. /\ policy \in Situations /\ worst \in [Heads -> Levels] /\ head = 1
      /\ point = [s \in Jobs |-> "idle"] /\ asked = [s \in Jobs |-> 0] /\ analysed = [s \in Jobs |-> 0]
      /\ judged = [s \in Jobs |-> "none"] /\ status = [c \in Heads |-> NoStatus] /\ unposted = {}
      /\ comments = <<>> /\ lock = NoJob /\ owned = 0 /\ landing = <<>> /\ strayed = FALSE /\ unseen = {}
  BY DEF GateInit
<1> HIDE DEF GateInit
<1>3. NoStatus \in [state : {"none", "pending", "success", "failure", "error"}, by : {"none", "push", "pr"}]
      /\ NoStatus.state = "none"
  BY DEF NoStatus
<1>4. comments \in Seq(Heads) /\ landing \in Seq(Heads) /\ Len(comments) = 0 BY <1>2
<1>5. GateTypeOK
  <2>1. head \in Heads /\ 0 \in 0..MaxHead BY <1>1, <1>2 DEF Heads
  <2>2. point \in [Jobs -> Steps] BY <1>2 DEF Steps
  <2>3. asked \in [Jobs -> 0..MaxHead] /\ analysed \in [Jobs -> 0..MaxHead] BY <1>2, <2>1
  <2>4. judged \in [Jobs -> Finals \cup {"none"}] BY <1>2
  <2>5. status \in [Heads -> [state : {"none", "pending", "success", "failure", "error"},
                              by : {"none", "push", "pr"}]]
    BY <1>2, <1>3
  <2> QED BY <1>2, <1>4, <2>1, <2>2, <2>3, <2>4, <2>5 DEF GateTypeOK
<1>6. PassedIsClean BY <1>2, <1>3 DEF PassedIsClean
<1>7. OnePerPull BY <1>2, <1>4 DEF OnePerPull
<1>8. \A s \in Jobs : JudgedOK(s) /\ SummaryOK(s) BY <1>1, <1>2 DEF JudgedOK, SummaryOK, Inside
<1> QED BY <1>5, <1>6, <1>7, <1>8 DEF GateInv

LEMMA GateStep == GateInv /\ [GateNext]_gateVars => GateInv'
<1> SUFFICES ASSUME GateInv, [GateNext]_gateVars PROVE GateInv' OBVIOUS
<1>1. CASE UNCHANGED gateVars
  <2>1. UNCHANGED <<policy, worst, head, point, asked, analysed, judged, status, unposted,
                    comments, lock, owned, landing, strayed, unseen>>
    BY <1>1 DEF gateVars, scanning, summary
  <2>2. GateTypeOK' BY <2>1 DEF GateInv, GateTypeOK
  <2>3. PassedIsClean' /\ OnePerPull' BY <2>1 DEF GateInv, PassedIsClean, OnePerPull
  <2>4. \A s \in Jobs : JudgedOK(s)' /\ SummaryOK(s)' BY <2>1 DEF GateInv, JudgedOK, SummaryOK
  <2> QED BY <2>2, <2>3, <2>4 DEF GateInv
<1>2. ASSUME NEW s \in Jobs, StartJob(s) \/ JobStep(s) PROVE GateInv'
  BY <1>2, StartJobKeeps, ReportPendingKeeps, GetPullRequestKeeps, GetChangedFilesKeeps,
     AnalyzeChangedFilesKeeps, ReportFinalKeeps, TakeLockKeeps, ListCommentsKeeps,
     CreateCommentKeeps, EditCommentKeeps, DeleteDuplicatesKeeps
  DEF JobStep
<1> QED BY <1>1, <1>2, HeadMovesKeeps, CommentLandsKeeps, GateDiesKeeps DEF GateNext

LEMMA GateAlways == GateSpec => []GateInv
BY GateStarts, GateStep, PTL DEF GateSpec

(* Every status and comment is of a commit of the pull request, for any number  *)
(* of scans and commits.                                                        *)
THEOREM GateTypeCorrect == GateSpec => []GateTypeOK
<1>1. GateInv => GateTypeOK BY DEF GateInv
<1> QED BY <1>1, GateAlways, PTL

\* Where a scan is that was judged, and a scan that passed a commit.
Late == {"post", "summarise", "ended"} \cup Inside

Passed(s, c) == policy.kind[s] = "pr" /\ analysed[s] = c /\ judged[s] = "success"

\* A verdict stands: neither it nor the commit it is about changes.
VerdictInv ==
    /\ PassedIsJudged
    /\ \A s \in Jobs : judged[s] # "none" => point[s] \in Late

\* What leaves the verdicts alone and posts no pass without one.
LEMMA VerdictKept ==
    ASSUME VerdictInv, policy' = policy,
           \A t \in Jobs : judged[t] # "none" => judged'[t] = judged[t] /\ analysed'[t] = analysed[t],
           \A t \in Jobs : judged'[t] # "none" => point'[t] \in Late,
           \A c \in Heads : \/ status'[c] = status[c]
                            \/ status'[c] # [state |-> "success", by |-> "pr"]
                            \/ \E t \in Jobs : Passed(t, c)
    PROVE  VerdictInv'
<1>1. \A t \in Jobs, c \in Heads : Passed(t, c) => Passed(t, c)' BY DEF Passed
<1>2. ASSUME NEW c \in Heads, status'[c] = [state |-> "success", by |-> "pr"]
      PROVE  \E t \in Jobs : Passed(t, c)
  BY <1>2 DEF VerdictInv, PassedIsJudged, Passed
<1>3. PassedIsJudged' BY <1>1, <1>2 DEF PassedIsJudged, Passed, Heads
<1> QED BY <1>3 DEF VerdictInv

\* The states that are posted.
LEMMA Posted ==
    ASSUME GateInv, NEW s \in Jobs, NEW c \in Heads, NEW state, Post(s, c, state),
           NEW d \in Heads, status'[d] # status[d]
    PROVE  /\ d = c
           /\ status'[d] = [state |-> "success", by |-> "pr"]
                => state = "success" /\ policy.kind[s] = "pr"
<1> DEFINE posted == [state |-> MapGiteaCommitState(state), by |-> policy.kind[s]]
<1>1. status \in [Heads -> [state : {"none", "pending", "success", "failure", "error"},
                            by : {"none", "push", "pr"}]]
  BY DEF GateInv, GateTypeOK
<1>2. status' = [status EXCEPT ![c] = posted] BY DEF Post
<1>3. posted.state = MapGiteaCommitState(state) /\ posted.by = policy.kind[s] OBVIOUS
<1> HIDE DEF posted
<1>4. d = c /\ status'[d] = posted BY <1>1, <1>2
<1> QED BY <1>3, <1>4 DEF MapGiteaCommitState

LEMMA VerdictStep == GateInv /\ VerdictInv /\ [GateNext]_gateVars => VerdictInv'
<1> SUFFICES ASSUME GateInv, VerdictInv, [GateNext]_gateVars PROVE VerdictInv' OBVIOUS
<1>0. /\ GateTypeOK /\ point \in [Jobs -> Steps] /\ analysed \in [Jobs -> 0..MaxHead]
      /\ judged \in [Jobs -> Finals \cup {"none"}]
      /\ \A t \in Jobs : JudgedOK(t)
  BY DEF GateInv, GateTypeOK
<1>a. \A t \in Jobs : judged[t] # "none" => point[t] \in Late BY DEF VerdictInv
<1> USE DEF Late, Inside, Steps
\* A scan that goes on, and judges nothing.
<1>b. ASSUME NEW s \in Jobs, NEW to \in Steps, Turn(s, to), judged' = judged,
             judged[s] # "none" => to \in Late
      PROVE  \A t \in Jobs : judged'[t] # "none" => point'[t] \in Late
  <2>1. point'[s] = to /\ \A t \in Jobs \ {s} : point'[t] = point[t] BY <1>0, <1>b, TurnIs
  <2> HIDE DEF Late
  <2> QED BY <1>a, <1>b, <2>1
<1>1. ASSUME NEW s \in Jobs, StartJob(s) PROVE VerdictInv'
  BY <1>0, <1>1, <1>a, <1>b, VerdictKept DEF StartJob
<1>2. ASSUME NEW s \in Jobs, ReportPending(s) PROVE VerdictInv'
  <2>1. /\ point[s] = "queued" /\ Post(s, asked[s], "pending") /\ UNCHANGED <<policy, judged>>
        /\ \/ Turn(s, "scan") /\ analysed' = [analysed EXCEPT ![s] = asked[s]]
           \/ Turn(s, "read") /\ UNCHANGED analysed
    BY <1>2 DEF ReportPending
  <2>2. asked[s] \in Heads /\ judged[s] = "none" BY <1>0, <1>a, <2>1 DEF JudgedOK
  <2>3. \A t \in Jobs : judged[t] # "none" => analysed'[t] = analysed[t] BY <1>0, <2>1, <2>2
  <2>4. \A t \in Jobs : judged'[t] # "none" => point'[t] \in Late BY <1>b, <2>1, <2>2
  <2>5. \A c \in Heads : status'[c] = status[c] \/ status'[c] # [state |-> "success", by |-> "pr"]
    BY <2>1, <2>2, Posted
  <2> QED BY <2>1, <2>3, <2>4, <2>5, VerdictKept
<1>3. ASSUME NEW s \in Jobs, GetPullRequest(s) PROVE VerdictInv'
  <2>1. /\ point[s] = "read" /\ Turn(s, "files") /\ analysed' = [analysed EXCEPT ![s] = head]
        /\ UNCHANGED <<policy, judged, status>>
    BY <1>3 DEF GetPullRequest
  <2>2. judged[s] = "none" BY <1>0, <1>a, <2>1
  <2>3. \A t \in Jobs : judged[t] # "none" => analysed'[t] = analysed[t] BY <1>0, <2>1, <2>2
  <2>4. \A t \in Jobs : judged'[t] # "none" => point'[t] \in Late BY <1>b, <2>1, <2>2
  <2> QED BY <2>1, <2>3, <2>4, VerdictKept
<1>4. ASSUME NEW s \in Jobs, GetChangedFiles(s) \/ AnalyzeChangedFiles(s) PROVE VerdictInv'
  <2>1. point[s] \in {"files", "scan"} /\ UNCHANGED <<policy, asked, analysed>>
    BY <1>4 DEF GetChangedFiles, AnalyzeChangedFiles
  <2>2. judged[s] = "none" /\ asked[s] \in Heads /\ analysed[s] \in Heads
    BY <1>0, <1>a, <2>1 DEF JudgedOK
  <2>3. CASE AnalysisFails(s)
    <3>1. Post(s, asked[s], "error") /\ Turn(s, "ended") /\ judged' = judged
      BY <2>3 DEF AnalysisFails
    <3>2. \A t \in Jobs : judged'[t] # "none" => point'[t] \in Late BY <1>b, <3>1
    <3>3. \A c \in Heads : status'[c] = status[c] \/ status'[c] # [state |-> "success", by |-> "pr"]
      BY <2>2, <3>1, Posted
    <3> QED BY <2>1, <3>1, <3>2, <3>3, VerdictKept
  <2>4. ASSUME NEW levels \in SUBSET Levels, Judge(s, levels), status' = status PROVE VerdictInv'
    <3>1. /\ point'[s] = "post"
          /\ \A t \in Jobs \ {s} : point'[t] = point[t] /\ judged'[t] = judged[t]
      BY <1>0, <2>4, JudgeIs
    <3>2. \A t \in Jobs : judged[t] # "none" => judged'[t] = judged[t] BY <2>2, <3>1
    <3>3. \A t \in Jobs : judged'[t] # "none" => point'[t] \in Late BY <1>a, <3>1
    <3> QED BY <2>1, <2>4, <3>2, <3>3, VerdictKept
  <2>5. worst[analysed[s]] \in Levels BY <1>0, <2>2 DEF GateTypeOK
  <2>6. {worst[analysed[s]]} \in SUBSET Levels /\ PartOf(worst[analysed[s]]) \in SUBSET Levels
    BY <2>5, PartIs
  <2> QED BY <1>4, <2>3, <2>4, <2>6 DEF GetChangedFiles, AnalyzeChangedFiles
<1>5. ASSUME NEW s \in Jobs, ReportFinal(s) PROVE VerdictInv'
  <2>1. /\ point[s] = "post" /\ Post(s, analysed[s], judged[s]) /\ UNCHANGED <<policy, analysed, judged>>
        /\ Turn(s, "summarise") \/ Turn(s, "ended")
    BY <1>5 DEF ReportFinal, Summarises, ResolveCommitSHA
  <2>2. analysed[s] \in Heads BY <1>0, <2>1 DEF JudgedOK
  <2>3. \A t \in Jobs : judged'[t] # "none" => point'[t] \in Late BY <1>b, <2>1
  <2>4. \A c \in Heads : \/ status'[c] = status[c]
                         \/ status'[c] # [state |-> "success", by |-> "pr"]
                         \/ \E t \in Jobs : Passed(t, c)
    BY <2>1, <2>2, Posted DEF Passed
  <2> QED BY <2>1, <2>3, <2>4, VerdictKept
<1>6. ASSUME NEW s \in Jobs, TakeLock(s) PROVE VerdictInv'
  BY <1>0, <1>6, <1>b, VerdictKept DEF TakeLock, LoadOrStore
<1>7. ASSUME NEW s \in Jobs, ListComments(s) PROVE VerdictInv'
  BY <1>0, <1>7, <1>b, VerdictKept DEF ListComments, ListFails, LeaveSummary
<1>8. ASSUME NEW s \in Jobs, CreateComment(s) \/ EditComment(s) \/ DeleteDuplicates(s) PROVE VerdictInv'
  <2>1. /\ Turn(s, "prune") \/ Turn(s, "ended")
        /\ UNCHANGED <<policy, analysed, judged, status>>
    BY <1>8 DEF CreateComment, EditComment, DeleteDuplicates, LeaveSummary
  <2> QED BY <1>b, <2>1, VerdictKept
<1>9. CASE HeadMoves \/ CommentLands \/ UNCHANGED gateVars
  <2>1. UNCHANGED <<policy, point, analysed, judged, status>>
    BY <1>9 DEF HeadMoves, CommentLands, gateVars, scanning
  <2> QED BY <1>a, <2>1, VerdictKept
<1>10. CASE GateDies
  <2>1. /\ UNCHANGED <<policy, analysed, judged, status>>
        /\ \A t \in Jobs : point'[t] = IF point[t] = "idle" THEN "idle" ELSE "ended"
    BY <1>10 DEF GateDies
  <2> QED BY <1>a, <2>1, VerdictKept
<1> QED BY <1>1, <1>2, <1>3, <1>4, <1>5, <1>6, <1>7, <1>8, <1>9, <1>10 DEF GateNext, JobStep

(* What a pull request is told is true: a pass is of a commit that was judged   *)
(* one, and of clean code where all of it was read, and one summary tells of it *)
(* (EvaluatePolicyOutcome, StatusReporter.post, UpsertPRPolicySummary), however *)
(* many scans run side by side while the head moves.                            *)
THEOREM GateTrue == GateSpec => []GateIsTrue
<1>1. GateInit => VerdictInv
  <2> SUFFICES ASSUME GateInit PROVE VerdictInv OBVIOUS
  <2>1. \A c \in Heads : status[c].state = "none" BY DEF GateInit, NoStatus
  <2> QED BY <2>1 DEF GateInit, VerdictInv, PassedIsJudged
<1>2. GateInv /\ VerdictInv => GateIsTrue
  <2> SUFFICES ASSUME GateInv, VerdictInv PROVE GateIsTrue OBVIOUS
  <2>1. Len(comments) \in Nat BY DEF GateInv, GateTypeOK
  <2>2. OneSummary BY <2>1 DEF GateInv, OnePerPull, OneSummary
  <2> QED BY <2>2 DEF GateInv, VerdictInv, GateIsTrue
<1> QED BY <1>1, <1>2, GateStarts, GateStep, VerdictStep, PTL DEF GateSpec

------------------------------------------------------------------------------

(***************************************************************************)
(* What a recommendation stands for.                                       *)
(***************************************************************************)
\* Nothing is gathered before the scanners have run.
InstallInv ==
    /\ InstallTypeOK
    /\ place = "conclude" /\ clock = "live" => ~cutOff
    /\ entry.status = "completed" => ~cutOff /\ place \in {"findings", "reports", "over"}
    /\ entry.recommendation = "safe" =>
         place \in {"findings", "reports", "over"} /\ Recommendation = "safe"

LEMMA NoSecretCounted ==
    ASSUME InstallTypeOK, Recommendation = "safe", Len(gathered) <= MaxFindings, NEW i \in DOMAIN gathered
    PROVE  gathered[i] # "secret"
<1> DEFINE S == {j \in Considered : gathered[j] = "secret"}
<1>1. gathered \in Seq(FindingKinds) /\ Len(gathered) \in Nat /\ MaxFindings \in Nat
      /\ DOMAIN gathered = 1..Len(gathered)
  BY InstallAssumptions DEF InstallTypeOK
<1>2. IsFiniteSet(S)
  <2>1. IsFiniteSet(1..Len(gathered)) BY <1>1, FS_Interval
  <2>2. S \subseteq 1..Len(gathered) BY <1>1 DEF Considered
  <2> QED BY <2>1, <2>2, FS_Subset
<1>3. Count("secret") = Cardinality(S) BY DEF Count
<1>4. ~(Count("secret") > 0) BY DEF Recommendation
<1> HIDE DEF S
<1>5. Cardinality(S) \in Nat BY <1>2, FS_CardinalityType
<1>6. Cardinality(S) = 0 BY <1>3, <1>4, <1>5
<1>7. S = {} BY <1>2, <1>6, FS_EmptySet
<1>8. i \in 1..Len(gathered) BY <1>1
<1>9. i <= MaxFindings BY <1>1, <1>8
<1> QED BY <1>1, <1>7, <1>9 DEF S, Considered

LEMMA SameEvidence ==
    ASSUME UNCHANGED <<gathered, bad>> PROVE Recommendation' = Recommendation
BY DEF Recommendation, Score, Count, Considered

LEMMA InstallKeeps == InstallInv /\ [InstallNext]_installVars => InstallInv'
<1> SUFFICES ASSUME InstallInv, [InstallNext]_installVars PROVE InstallInv' OBVIOUS
<1> DEFINE Listed == [status : {"none", "queued", "running", "completed", "failed"},
                    recommendation : {"unknown", "safe", "caution", "do_not_install", "audit_failed"}]
<1>0. InstallTypeOK /\ entry \in Listed BY DEF InstallInv, InstallTypeOK
<1> USE DEF InstallInv
<1>1. CASE UNCHANGED installVars
  <2>1. UNCHANGED <<stop, place, clock, entry, workspace, gathered, bad, cutOff, stored, broken>>
    BY <1>1 DEF installVars
  <2>2. Recommendation' = Recommendation BY <2>1, SameEvidence
  <2> QED BY <1>0, <2>1, <2>2 DEF InstallTypeOK
<1>2. CASE StartAudit
  <2>1. Recommendation' = Recommendation BY <1>2, SameEvidence DEF StartAudit
  <2>2. entry' \in Listed /\ entry'.status = "queued" /\ entry'.recommendation = entry.recommendation
    BY <1>0, <1>2 DEF StartAudit
  <2> QED BY <1>0, <1>2, <2>1, <2>2 DEF StartAudit, InstallTypeOK
<1>3. CASE Deadline
  <2>1. Recommendation' = Recommendation BY <1>3, SameEvidence DEF Deadline
  <2> QED BY <1>0, <1>3, <2>1 DEF Deadline, InstallTypeOK
<1>4. CASE InstallDies
  <2>1. Recommendation' = Recommendation BY <1>4, SameEvidence DEF InstallDies
  <2> QED BY <1>0, <1>4, <2>1 DEF InstallDies, InstallTypeOK
<1>5. ASSUME FailInstall, place \in {"clone", "list"},
             UNCHANGED <<stop, clock, gathered, bad, cutOff, stored>>
      PROVE  InstallInv'
  <2>1. Recommendation' = Recommendation BY <1>5, SameEvidence
  <2>2. entry' \in {entry, Failed} /\ broken' \in BOOLEAN /\ place' = "over" /\ workspace' \in BOOLEAN
    BY <1>0, <1>5 DEF FailInstall, UpdateAuditRequest, Leave, InstallTypeOK
  <2>3. Failed \in Listed /\ Failed.status = "failed" /\ Failed.recommendation = "audit_failed"
    BY DEF Failed
  <2>4. entry.status # "completed" /\ entry.recommendation # "safe" BY <1>5
  <2>5. entry' \in Listed /\ entry'.status # "completed" /\ entry'.recommendation # "safe"
    BY <1>0, <2>2, <2>3, <2>4
  <2> QED BY <1>0, <1>5, <2>2, <2>5 DEF InstallTypeOK
<1>6. CASE MarkRunning
  <2>1. Recommendation' = Recommendation BY <1>6, SameEvidence DEF MarkRunning
  <2>2. entry.status # "completed" /\ entry.recommendation # "safe" BY <1>6 DEF MarkRunning
  <2>3. entry' \in Listed /\ entry'.status # "completed" /\ entry'.recommendation # "safe"
    BY <1>0, <1>6, <2>2 DEF MarkRunning
  <2> QED BY <1>0, <1>6, <2>3 DEF MarkRunning, Leave, InstallTypeOK
<1>7. CASE ShallowClone
  <2>1. Recommendation' = Recommendation BY <1>7, SameEvidence DEF ShallowClone
  <2>2. place' = "list" /\ UNCHANGED entry /\ UNCHANGED broken /\ workspace' = TRUE => InstallInv'
    BY <1>0, <1>7, <2>1 DEF ShallowClone, InstallTypeOK
  <2> QED BY <1>5, <1>7, <2>2 DEF ShallowClone
<1>8. CASE ListWorkspaceFiles
  <2>1. Recommendation' = Recommendation BY <1>8, SameEvidence DEF ListWorkspaceFiles
  <2>2. place' = "scan" /\ UNCHANGED entry /\ UNCHANGED broken /\ UNCHANGED workspace => InstallInv'
    BY <1>0, <1>8, <2>1 DEF ListWorkspaceFiles, InstallTypeOK
  <2> QED BY <1>5, <1>8, <2>2 DEF ListWorkspaceFiles
<1>9. CASE RunScanners
  <2>1. gathered' \in Seq(FindingKinds) /\ bad' \in Nat /\ cutOff' \in BOOLEAN
    BY <1>9, InstallAssumptions DEF RunScanners
  <2>2. (cutOff' <=> clock = "out") /\ clock' = clock /\ entry' = entry /\ place' = "conclude"
    BY <1>9 DEF RunScanners
  <2>3. entry.status # "completed" /\ entry.recommendation # "safe" BY <1>9 DEF RunScanners
  <2> QED BY <1>0, <1>9, <2>1, <2>2, <2>3 DEF RunScanners, InstallTypeOK
<1>10. CASE Conclude
  <2>1. Recommendation' = Recommendation BY <1>10, SameEvidence DEF Conclude
  <2>2. Recommendation \in {"safe", "caution", "do_not_install"} BY DEF Recommendation
  <2>3. CASE /\ Store /\ place' = "findings" /\ UNCHANGED <<workspace, broken>>
             /\ entry' = [status |-> "completed", recommendation |-> Recommendation]
    <3>1. clock = "live" /\ ~cutOff BY <1>10, <2>3 DEF Conclude, Store
    <3>2. entry' \in Listed /\ entry'.status = "completed" /\ entry'.recommendation = Recommendation
      BY <2>2, <2>3
    <3> QED BY <1>0, <1>10, <2>1, <2>3, <3>1, <3>2 DEF Conclude, InstallTypeOK
  <2>4. CASE Leave(FALSE) /\ broken' = TRUE /\ UNCHANGED entry
    BY <1>0, <1>10, <2>1, <2>4 DEF Conclude, Leave, InstallTypeOK
  <2> QED BY <1>10, <2>3, <2>4 DEF Conclude
<1>11. CASE AddAuditFindings
  <2>1. Recommendation' = Recommendation BY <1>11, SameEvidence DEF AddAuditFindings
  <2> QED BY <1>0, <1>11, <2>1 DEF AddAuditFindings, InstallTypeOK
<1>12. CASE AddDisclosureReports
  <2>1. Recommendation' = Recommendation BY <1>12, SameEvidence DEF AddDisclosureReports
  <2> QED BY <1>0, <1>12, <2>1 DEF AddDisclosureReports, Leave, InstallTypeOK
<1> QED BY <1>1, <1>2, <1>3, <1>4, <1>6, <1>7, <1>8, <1>9, <1>10, <1>11, <1>12 DEF InstallNext, InstallStep

LEMMA InstallStarts == InstallInit => InstallInv
<1> SUFFICES ASSUME InstallInit PROVE InstallInv OBVIOUS
<1>1. Row0 \in [status : {"none", "queued", "running", "completed", "failed"},
                recommendation : {"unknown", "safe", "caution", "do_not_install", "audit_failed"}]
      /\ Row0.status = "none" /\ Row0.recommendation = "unknown"
  BY DEF Row0
<1>2. InstallTypeOK
  <2>1. gathered \in Seq(FindingKinds) BY DEF InstallInit
  <2>2. entry = Row0 /\ place = "idle" /\ clock = "live" /\ workspace = FALSE /\ bad = 0
        /\ cutOff = FALSE /\ stored = {} /\ broken = FALSE
        /\ stop \in [error : BOOLEAN, death : BOOLEAN, retain : BOOLEAN]
    BY DEF InstallInit
  <2> HIDE DEF InstallInit
  <2> QED BY <1>1, <2>1, <2>2 DEF InstallTypeOK
<1> QED BY <1>1, <1>2 DEF InstallInit, InstallInv

LEMMA InstallAlways == InstallSpec => []InstallInv
BY InstallStarts, InstallKeeps, PTL DEF InstallSpec

(* The row of an audit has one of its statuses and recommendations, whatever    *)
(* the number of findings and scanners.                                         *)
THEOREM InstallTypeCorrect == InstallSpec => []InstallTypeOK
<1>1. InstallInv => InstallTypeOK BY DEF InstallInv
<1> QED BY <1>1, InstallAlways, PTL

(* A recommendation stands for what was scanned: it never comes from an audit   *)
(* that its deadline cut short, and is not "safe" where a secret was seen       *)
(* (Runner.runAudit, ComputeRiskScore), for any number of findings.             *)
THEOREM RecommendedRightly == InstallSpec => []RecommendedOnEvidence
<1>1. InstallInv => RecommendedOnEvidence
  <2> SUFFICES ASSUME InstallInv PROVE RecommendedOnEvidence OBVIOUS
  <2>1. ConcludedInTime BY DEF InstallInv, ConcludedInTime
  <2>2. SecretIsCautioned BY NoSecretCounted DEF InstallInv, SecretIsCautioned
  <2> QED BY <2>1, <2>2 DEF RecommendedOnEvidence
<1> QED BY <1>1, InstallAlways, PTL

------------------------------------------------------------------------------

(***************************************************************************)
(* Theorems about PatchAttempts, for every set of attempts and every       *)
(* combination of mishaps.                                                 *)
(*                                                                         *)
(* That no attempt moves the branch under an open pull request follows     *)
(* from a push without force alone: the inductive invariant says that from *)
(* its push on, the branch of an attempt stays at the commit of the        *)
(* attempt, unless it was deleted, and that the forge has nothing of an    *)
(* attempt that has not got to its pull request.                           *)
(***************************************************************************)

USE PatchAssumptions

\* An attempt past its validation has a commit.
Validated ==
    \A a \in Attempts :
        phase[a] \in {"push", "open", "comment"} \/ pull[a] # "none" => commit[a] # NoCommit

\* From the push on, the branch is at the attempt's commit.
Pushed ==
    \A a \in Attempts :
        (phase[a] = "open" \/ pull[a] = "open") /\ a \notin cut => branch = commit[a]

\* The stages of an attempt, its verdict, its pull request and its row.
Stages ==
    \A a \in Attempts :
        /\ pull[a] # "none" => phase[a] \in {"comment", "save", "over", "dead"}
        /\ phase[a] = "comment" => verdict[a] = "pr_opened"
        /\ saved[a] # "none" => phase[a] = "over"

PInv == PatchTypeOK /\ Validated /\ Pushed /\ Stages /\ PullIsKnown

-----------------------------------------------------------------------------
LEMMA InitPatch == PatchInit => PInv
BY DEF PatchInit, PInv, PatchTypeOK, Validated, Pushed, Stages, PullIsKnown, Commits,
       Phases, UnderWay, Verdicts

(***************************************************************************)
(* Types.                                                                  *)
(***************************************************************************)
\* What an attempt commits is its own commit or one that is being pushed.
LEMMA TwinCommits ==
    ASSUME PatchTypeOK, Validated, NEW a \in Attempts
    PROVE  Twins(a) \subseteq Attempts
BY DEF PatchTypeOK, Validated, Twins, Commits

LEMMA PatchTypeStep ==
    ASSUME PatchTypeOK, Validated, [PatchNext]_patchVars
    PROVE  PatchTypeOK'
<1>. USE DEF PatchTypeOK, Commits, Phases, UnderWay, Verdicts, forge, Enter, FailAttempt
<1>1. ASSUME NEW a \in Attempts, StartAttempt(a) PROVE PatchTypeOK'
  BY <1>1 DEF StartAttempt
<1>2. ASSUME NEW a \in Attempts, PrepareWorkspace(a) PROVE PatchTypeOK'
  BY <1>2 DEF PrepareWorkspace
<1>3. ASSUME NEW a \in Attempts, PatchAndValidate(a) PROVE PatchTypeOK'
  BY <1>3, TwinCommits DEF PatchAndValidate
<1>4. ASSUME NEW a \in Attempts, PushBranch(a) PROVE PatchTypeOK'
  BY <1>4 DEF PushBranch
<1>5. ASSUME NEW a \in Attempts, CreatePullRequest(a) PROVE PatchTypeOK'
  BY <1>5 DEF CreatePullRequest
<1>6. ASSUME NEW a \in Attempts, CreateIssueComment(a) PROVE PatchTypeOK'
  BY <1>6 DEF CreateIssueComment
<1>7. ASSUME NEW a \in Attempts, SavePatchAttempt(a) PROVE PatchTypeOK'
  BY <1>7 DEF SavePatchAttempt
<1>8. ASSUME NEW a \in Attempts, ClosePull(a) PROVE PatchTypeOK'
  BY <1>8 DEF ClosePull
<1>9. CASE DeleteBranch
  BY <1>9 DEF DeleteBranch
<1>10. CASE ProcessDies
  BY <1>10 DEF ProcessDies
<1>11. CASE UNCHANGED patchVars
  BY <1>11 DEF patchVars
<1>12. QED
  BY <1>1, <1>2, <1>3, <1>4, <1>5, <1>6, <1>7, <1>8, <1>9, <1>10, <1>11
  DEF PatchNext, AttemptStep

(***************************************************************************)
(* The branch, the pull requests and the rows.                             *)
(***************************************************************************)
Course == Validated /\ Pushed /\ Stages /\ PullIsKnown

LEMMA CourseStep ==
    ASSUME PInv, [PatchNext]_patchVars
    PROVE  Course'
<1>0. PatchTypeOK /\ Validated /\ Pushed /\ Stages /\ PullIsKnown
  BY DEF PInv
<1>. USE <1>0 DEF Course, Validated, Pushed, Stages, PullIsKnown, PatchTypeOK, Commits,
                  forge, Enter, FailAttempt
<1>1. ASSUME NEW a \in Attempts, StartAttempt(a) PROVE Course'
  BY <1>1 DEF StartAttempt
<1>2. ASSUME NEW a \in Attempts, PrepareWorkspace(a) PROVE Course'
  BY <1>2 DEF PrepareWorkspace
<1>3. ASSUME NEW a \in Attempts, PatchAndValidate(a) PROVE Course'
  BY <1>3, TwinCommits DEF PatchAndValidate
<1>4. ASSUME NEW a \in Attempts, PushBranch(a) PROVE Course'
  BY <1>4 DEF PushBranch
<1>5. ASSUME NEW a \in Attempts, CreatePullRequest(a) PROVE Course'
  BY <1>5 DEF CreatePullRequest
<1>6. ASSUME NEW a \in Attempts, CreateIssueComment(a) PROVE Course'
  BY <1>6 DEF CreateIssueComment
<1>7. ASSUME NEW a \in Attempts, SavePatchAttempt(a) PROVE Course'
  BY <1>7 DEF SavePatchAttempt
<1>8. ASSUME NEW a \in Attempts, ClosePull(a) PROVE Course'
  BY <1>8 DEF ClosePull
<1>9. CASE DeleteBranch
  BY <1>9 DEF DeleteBranch
<1>10. CASE ProcessDies
  BY <1>10 DEF ProcessDies, UnderWay
<1>11. CASE UNCHANGED patchVars
  BY <1>11 DEF patchVars
<1>12. QED
  BY <1>1, <1>2, <1>3, <1>4, <1>5, <1>6, <1>7, <1>8, <1>9, <1>10, <1>11
  DEF PatchNext, AttemptStep

THEOREM PatchInvariance == PatchSpec => []PInv
<1>1. PInv /\ [PatchNext]_patchVars => PInv'
  BY PatchTypeStep, CourseStep DEF PInv, Course
<1>2. QED
  BY InitPatch, <1>1, PTL DEF PatchSpec

\* Attempts keep to their phases and verdicts, and rows to theirs.
THEOREM PatchTypeCorrect == PatchSpec => []PatchTypeOK
<1>1. PInv => PatchTypeOK
  BY DEF PInv
<1>2. QED
  BY <1>1, PatchInvariance, PTL

\* Whatever attempts share the branch, an open pull request shows the commit
\* that its attempt validated, and the table knows of every pull request:
\* PushBranch, CreatePullRequest and SavePatchAttempt.
THEOREM PullsAccounted == PatchSpec => []PullsAreAccounted
<1>1. PInv => OpenPullIsValidated /\ PullIsKnown
  BY DEF PInv, Pushed, OpenPullIsValidated
<1>2. QED
  BY <1>1, PatchInvariance, PTL DEF PullsAreAccounted


(***************************************************************************)
(* The instance that TLC checks: a behaviour of MCServices is a behaviour  *)
(* of every part, so that the theorems above hold in it.                   *)
(***************************************************************************)
LEMMA ServicesAreParts ==
    ServicesSpec => /\ PathSpec /\ Spec /\ AuditSpec
                    /\ PatchSpec /\ GateSpec /\ InstallSpec
<1>1. ServicesInit => PathInit /\ Init /\ AuditInit /\ PatchInit /\ GateInit /\ InstallInit
  BY DEF ServicesInit
<1>2. [ServicesNext]_services =>
        /\ [PathNext]_pathVars /\ [Next]_vars /\ [AuditNext]_auditVars
        /\ [PatchNext]_patchVars /\ [GateNext]_gateVars /\ [InstallNext]_installVars
  BY DEF ServicesNext, services
<1> QED BY <1>1, <1>2, PTL
    DEF ServicesSpec, PathSpec, Spec, AuditSpec, PatchSpec, GateSpec, InstallSpec

(***************************************************************************)
(* The types of everything that a process does for one scan or request.    *)
(***************************************************************************)
THEOREM ServicesTypeCorrect == ServicesSpec => []ServicesTypeOK
<1>1. /\ PathTypeOK /\ TypeOK /\ AuditTypeOK /\ PatchTypeOK /\ GateTypeOK /\ InstallTypeOK
      => ServicesTypeOK
  BY DEF ServicesTypeOK
<1> QED
  BY <1>1, ServicesAreParts, PathTypeCorrect, DeliveryTypeCorrect, AuditTypeCorrect,
     PatchTypeCorrect, GateTypeCorrect, InstallTypeCorrect, PTL
==============================================================================
