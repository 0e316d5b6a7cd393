------------------------ MODULE IssueFilingProofs ------------------------
(***************************************************************************)
(* Proofs about IssueFiling: type correctness, the exclusion of the        *)
(* durable claim, the survival of the recovery row, one issue per process, *)
(* one open issue and one open mapping.  All rest on TypeInv and on        *)
(* LockInv (who is inside the process's mutex); ClaimInv, AuthorInv,       *)
(* OneByOne and FirstMapped add what each property needs.                  *)
(***************************************************************************)
EXTENDS IssueFiling, FiniteSetTheorems, TLAPS

(***************************************************************************)
(* Type correctness.                                                       *)
(***************************************************************************)
ControlType ==
    /\ pc \in [Workers -> Steps]
    /\ via \in [Workers -> Origins]
    /\ target \in [Workers -> Issues \union {0}]
    /\ InHand

ClaimOK ==
    /\ claim \in ClaimType
    /\ claim.holder = NoProc <=> claim.state = "none"
    /\ claim.state = "filed" => claim.issue \in Issues

StoreType ==
    /\ author \in Seq(Procs)
    /\ open \subseteq Issues
    /\ ClaimOK
    /\ mapOpen \subseteq Issues /\ mapClosed \subseteq Issues
    /\ mutex \in [Procs -> Workers \union {NoWorker}]
    /\ held \in [Workers -> BOOLEAN]

LEMMA TypeSplit == TypeInv <=> ControlType /\ StoreType
  BY DEF TypeInv, TypeOK, ControlType, StoreType, ClaimOK

NeedsIssue == {"mark", "link", "linkput", "update", "record"}

(* A move changes the moving worker's control only, and keeps it typed. *)
LEMMA GotoFacts ==
    ASSUME ControlType, NEW w \in Workers, NEW step \in Steps, Goto(w, step)
    PROVE  /\ pc' \in [Workers -> Steps]
           /\ pc'[w] = step
           /\ \A v \in Workers : v # w => pc'[v] = pc[v]
  BY DEF ControlType, Goto

LEMMA CarryFacts ==
    ASSUME ControlType, NEW w \in Workers, NEW step \in Steps, NEW how \in Origins,
           NEW n, Carry(w, n, how, step)
    PROVE  /\ pc' \in [Workers -> Steps]
           /\ via' \in [Workers -> Origins]
           /\ pc'[w] = step /\ via'[w] = how /\ target'[w] = n
           /\ \A v \in Workers : v # w => /\ pc'[v] = pc[v]
                                       /\ via'[v] = via[v]
                                       /\ target'[v] = target[v]
  BY GotoFacts DEF ControlType, Carry

LEMMA GotoType ==
    ASSUME ControlType, NEW w \in Workers, NEW step \in Steps, Goto(w, step),
           UNCHANGED <<target, via>>, Issues \subseteq Issues',
           step \in NeedsIssue => target[w] # 0
    PROVE  ControlType'
<1>1. target' \in [Workers -> Issues' \union {0}]
  BY DEF ControlType
<1>2. InHand'
  BY GotoFacts DEF ControlType, InHand, NeedsIssue
<1> QED
  BY <1>1, <1>2, GotoFacts DEF ControlType

LEMMA CarryType ==
    ASSUME ControlType, NEW w \in Workers, NEW step \in Steps, NEW how \in Origins,
           NEW n \in Issues' \union {0}, Carry(w, n, how, step),
           Issues \subseteq Issues', step \in NeedsIssue => n # 0
    PROVE  ControlType'
<1>1. target \in [Workers -> Issues' \union {0}]
  BY DEF ControlType
<1>2. target' \in [Workers -> Issues' \union {0}]
  BY <1>1 DEF Carry
<1>3. InHand'
  BY CarryFacts DEF ControlType, InHand, NeedsIssue
<1> QED
  BY <1>2, <1>3, CarryFacts DEF ControlType

(* CreateIssue adds one issue, with the next number. *)
LEMMA FilingFacts ==
    ASSUME StoreType, NEW p \in Procs, FileOnForge(p)
    PROVE  /\ author' \in Seq(Procs)
           /\ Len(author) + 1 \in Issues' \ Issues
           /\ Issues' = Issues \union {Len(author) + 1}
           /\ open' \subseteq Issues'
           /\ author'[Len(author) + 1] = p
           /\ \A i \in Issues : author'[i] = author[i]
<1>1. author \in Seq(Procs) /\ Len(author) \in Nat
  BY DEF StoreType
<1>2. author' = Append(author, p)
  BY DEF FileOnForge
<1>3. author' \in Seq(Procs) /\ Len(author') = Len(author) + 1
  BY <1>1, <1>2
<1>4. Issues' = Issues \union {Len(author) + 1} /\ Len(author) + 1 \notin Issues
  BY <1>1, <1>3 DEF Issues
<1>5. open' \subseteq Issues'
  BY <1>4 DEF FileOnForge, StoreType
<1>6. author'[Len(author) + 1] = p /\ \A i \in Issues : author'[i] = author[i]
  BY <1>1, <1>2 DEF Issues
<1> QED
  BY <1>3, <1>4, <1>5, <1>6

(* The three statements on the claim row keep it typed. *)
LEMMA ClaimStatements ==
    ASSUME ClaimOK, NEW p \in Procs, UNCHANGED author
    PROVE  /\ AcquireRow(p) => ClaimOK'
           /\ ReleaseRow(p) => ClaimOK'
           /\ \A n \in Issues :
                 claim' = (IF claim.holder = p
                           THEN [claim EXCEPT !.state = "filed", !.issue = n, !.lapsed = FALSE]
                           ELSE claim)
                 => ClaimOK'
           /\ UNCHANGED claim => ClaimOK'
<1> USE ProcsAssumption
<1>1. Issues' = Issues /\ Issues \subseteq Nat
  BY DEF Issues
<1>2. AcquireRow(p) => ClaimOK'
  BY <1>1 DEF AcquireRow, Claimed, ClaimOK, ClaimType
<1>3. ReleaseRow(p) => ClaimOK'
  BY <1>1 DEF ReleaseRow, NoClaim, ClaimOK, ClaimType
<1>4. ASSUME NEW n \in Issues,
             claim' = IF claim.holder = p
                      THEN [claim EXCEPT !.state = "filed", !.issue = n, !.lapsed = FALSE]
                      ELSE claim
      PROVE  ClaimOK'
  <2>1. CASE claim.holder = p
    <3>1. /\ claim' \in ClaimType
          /\ claim'.holder = p /\ claim'.state = "filed" /\ claim'.issue = n
      BY <1>1, <1>4, <2>1 DEF ClaimOK, ClaimType
    <3> QED
      BY <1>1, <3>1 DEF ClaimOK
  <2>2. CASE claim.holder # p
    BY <1>1, <1>4, <2>2 DEF ClaimOK
  <2> QED
    BY <2>1, <2>2
<1>5. UNCHANGED claim => ClaimOK'
  BY <1>1 DEF ClaimOK
<1> QED
  BY <1>2, <1>3, <1>4, <1>5

LEMMA TypeStep ==
    ASSUME TypeInv, NEW w \in Workers, Step(w)
    PROVE  TypeInv'
<1> SUFFICES ControlType' /\ StoreType'
  BY DEF TypeInv, TypeOK, ControlType, StoreType, ClaimOK
<1>0. /\ ControlType /\ StoreType
      /\ target[w] \in Issues \union {0}
      /\ pc[w] \in NeedsIssue => target[w] # 0
      /\ via[w] \in Origins
      /\ ProcOf[w] \in Procs
  BY TypeSplit, WorkersAssumption DEF ControlType, InHand, NeedsIssue
<1>s. UNCHANGED author => Issues' = Issues
  BY DEF Issues
<1>g. ASSUME NEW step \in Steps, Goto(w, step), UNCHANGED <<target, via>>, UNCHANGED author,
             step \in NeedsIssue => target[w] # 0
      PROVE  ControlType'
  BY <1>0, <1>s, <1>g, GotoType
<1>c. ASSUME NEW step \in Steps, NEW how \in Origins, NEW n \in Issues \union {0},
             Carry(w, n, how, step), UNCHANGED author, step \in NeedsIssue => n # 0
      PROVE  ControlType'
  BY <1>0, <1>s, <1>c, CarryType
<1>l. ASSUME AfterLink(w), UNCHANGED author, pc[w] \in NeedsIssue
      PROVE  ControlType'
  <2>1. target[w] # 0
    BY <1>0, <1>l
  <2>2. ASSUME NEW n \in Issues \union {0}, NEW how \in Origins,
               NEW step \in {"lookup", "release", "update"}, n = 0 => step = "lookup",
               Carry(w, n, how, step)
        PROVE  ControlType'
    BY <1>c, <1>l, <2>2 DEF Steps, NeedsIssue
  <2>3. "none" \in Origins /\ "create" \in Origins
    BY DEF Origins
  <2> QED
    BY <1>0, <1>l, <2>1, <2>2, <2>3 DEF AfterLink
<1>r. ASSUME NEW n \in Issues \union {0}, Return(w, n), UNCHANGED author
      PROVE  /\ ControlType'
             /\ mutex' \in [Procs -> Workers \union {NoWorker}]
             /\ held' \in [Workers -> BOOLEAN]
  <2>1. ControlType'
    BY <1>0, <1>c, <1>r DEF Return, Steps, Origins, NeedsIssue
  <2> QED
    BY <1>0, <1>r, <2>1 DEF Return, StoreType
<1>m. ASSUME UNCHANGED author, pc[w] \in NeedsIssue
      PROVE  target[w] \in Issues
  BY <1>0, <1>m
<1>f. claim.state = "filed" => claim.issue \in Issues /\ claim.issue # 0
  BY <1>0 DEF StoreType, ClaimOK, Issues
<1>1. CASE RefreshExternalIssueStates(w)
  <2>1. ControlType'
    BY <1>0, <1>1, <1>g DEF RefreshExternalIssueStates, forgeVars, Steps, NeedsIssue
  <2>2. StoreType'
    BY <1>0, <1>s, <1>1, ClaimStatements DEF RefreshExternalIssueStates, forgeVars, StoreType
  <2> QED
    BY <2>1, <2>2
<1>2. CASE BackfillExternalIssueMappings(w)
  <2>1. ControlType'
    BY <1>0, <1>2, <1>g, <1>c DEF BackfillExternalIssueMappings, forgeVars, Steps, Origins, NeedsIssue, StoreType, Issues
  <2>2. StoreType'
    BY <1>0, <1>s, <1>2, ClaimStatements DEF BackfillExternalIssueMappings, forgeVars, mapVars, StoreType
  <2> QED
    BY <2>1, <2>2
<1>3. CASE LinkForgeIssue(w)
  <2>1. ControlType'
    BY <1>0, <1>3, <1>g, <1>l DEF LinkForgeIssue, forgeVars, Steps, NeedsIssue
  <2>2. StoreType'
    BY <1>0, <1>s, <1>3, ClaimStatements DEF LinkForgeIssue, forgeVars, mapVars, StoreType
  <2> QED
    BY <2>1, <2>2
<1>4. CASE UpsertExternalIssue(w)
  <2>1. ControlType'
    BY <1>0, <1>4, <1>l DEF UpsertExternalIssue, forgeVars, NeedsIssue
  <2>2. StoreType'
    BY <1>0, <1>s, <1>4, ClaimStatements DEF UpsertExternalIssue, NeedsIssue, forgeVars, mapVars, StoreType
  <2> QED
    BY <2>1, <2>2
<1>5. CASE MappedIssueNumber(w)
  <2>1. ControlType'
    BY <1>0, <1>5, <1>g, <1>c DEF MappedIssueNumber, forgeVars, Steps, Origins, NeedsIssue, StoreType, Issues
  <2>2. StoreType'
    BY <1>0, <1>s, <1>5, ClaimStatements DEF MappedIssueNumber, forgeVars, mapVars, StoreType
  <2> QED
    BY <2>1, <2>2
<1>6. CASE FindIssueByFingerprint(w)
  <2>1. ControlType'
    BY <1>0, <1>6, <1>g, <1>c DEF FindIssueByFingerprint, forgeVars, Steps, Origins, NeedsIssue, StoreType, Issues
  <2>2. StoreType'
    BY <1>0, <1>s, <1>6, ClaimStatements DEF FindIssueByFingerprint, forgeVars, mapVars, StoreType
  <2> QED
    BY <2>1, <2>2
<1>7. CASE AcquireIssueFilingClaim(w)
  <2>1. ControlType'
    BY <1>0, <1>7, <1>g DEF AcquireIssueFilingClaim, forgeVars, Steps, NeedsIssue
  <2>2. StoreType'
    BY <1>0, <1>s, <1>7, ClaimStatements DEF AcquireIssueFilingClaim, forgeVars, mapVars, StoreType
  <2> QED
    BY <2>1, <2>2
<1>8. CASE ReadClaimRow(w)
  <2>1. ControlType'
    <3>1. CASE Carry(w, claim.issue, "adopt", "link") /\ claim.state = "filed"
      BY <1>0, <1>8, <1>f, <1>c, <3>1 DEF ReadClaimRow, forgeVars, Steps, Origins
    <3>2. CASE UNCHANGED <<target, via>> /\ (Goto(w, "create") \/ Goto(w, "poll"))
      BY <1>8, <1>g, <3>2 DEF ReadClaimRow, forgeVars, Steps, NeedsIssue
    <3> QED
      BY <1>8, <3>1, <3>2 DEF ReadClaimRow
  <2>2. StoreType'
    BY <1>0, <1>s, <1>8, ClaimStatements DEF ReadClaimRow, forgeVars, mapVars, StoreType
  <2> QED
    BY <2>1, <2>2
<1>9. CASE PollSearch(w)
  <2>1. ControlType'
    BY <1>0, <1>9, <1>g, <1>c DEF PollSearch, forgeVars, Steps, Origins, NeedsIssue, StoreType, Issues
  <2>2. StoreType'
    BY <1>0, <1>s, <1>9, ClaimStatements DEF PollSearch, forgeVars, mapVars, StoreType
  <2> QED
    BY <2>1, <2>2
<1>10. CASE PollRow(w)
  <2>1. ControlType'
    <3>1. CASE Carry(w, claim.issue, "poll", "link") /\ claim.state = "filed"
      BY <1>0, <1>10, <1>f, <1>c, <3>1 DEF PollRow, forgeVars, Steps, Origins
    <3>2. CASE UNCHANGED <<target, via>> /\ Goto(w, "poll")
      BY <1>10, <1>g, <3>2 DEF PollRow, forgeVars, Steps, NeedsIssue
    <3> QED
      BY <1>10, <3>1, <3>2 DEF PollRow
  <2>2. StoreType'
    BY <1>0, <1>s, <1>10, ClaimStatements DEF PollRow, forgeVars, mapVars, StoreType
  <2> QED
    BY <2>1, <2>2
<1>11. CASE PollDeadline(w)
  <2>1. ControlType'
    BY <1>0, <1>11, <1>g DEF PollDeadline, forgeVars, Steps, NeedsIssue
  <2>2. StoreType'
    BY <1>0, <1>s, <1>11, ClaimStatements DEF PollDeadline, forgeVars, mapVars, StoreType
  <2> QED
    BY <2>1, <2>2
<1>12. CASE PollCancelled(w)
  <2>1. ControlType'
    BY <1>0, <1>12, <1>r DEF PollCancelled, forgeVars
  <2>2. StoreType'
    BY <1>0, <1>s, <1>12, <1>r, ClaimStatements DEF PollCancelled, forgeVars, mapVars, StoreType
  <2> QED
    BY <2>1, <2>2
<1>13. CASE ReacquireIssueFilingClaim(w)
  <2>1. ControlType'
    BY <1>0, <1>13, <1>g, <1>r DEF ReacquireIssueFilingClaim, forgeVars, Steps, NeedsIssue
  <2>2. StoreType'
    BY <1>0, <1>s, <1>13, <1>r, ClaimStatements DEF ReacquireIssueFilingClaim, forgeVars, mapVars, StoreType
  <2> QED
    BY <2>1, <2>2
<1>14. CASE RereadClaimRow(w)
  <2>1. ControlType'
    BY <1>0, <1>14, <1>g, <1>r DEF RereadClaimRow, forgeVars, Steps, NeedsIssue
  <2>2. StoreType'
    BY <1>0, <1>s, <1>14, <1>r, ClaimStatements DEF RereadClaimRow, forgeVars, mapVars, StoreType
  <2> QED
    BY <2>1, <2>2
<1>15. CASE createIssueForProblem(w)
  <2>1. ASSUME FileOnForge(ProcOf[w]), NEW n \in {0, Len(author) + 1}, AfterCreate(w, n)
        PROVE  ControlType'
    <3>1. n \in Issues' \union {0} /\ Issues \subseteq Issues'
      BY <1>0, <2>1, FilingFacts
    <3> QED
      BY <1>0, <2>1, <3>1, CarryType DEF AfterCreate, Return, Steps, Origins, NeedsIssue
  <2>2. ASSUME AfterCreate(w, 0), UNCHANGED forgeVars
        PROVE  ControlType'
    BY <1>0, <1>c, <2>2 DEF AfterCreate, Return, forgeVars, Steps, Origins, NeedsIssue
  <2>3. ControlType'
    BY <1>0, <1>15, <2>1, <2>2 DEF createIssueForProblem
  <2>4. /\ mutex' \in [Procs -> Workers \union {NoWorker}]
        /\ held' \in [Workers -> BOOLEAN]
    BY <1>0, <1>15 DEF createIssueForProblem, AfterCreate, Return, StoreType
  <2>5. author' \in Seq(Procs) /\ open' \subseteq Issues' /\ Issues \subseteq Issues'
    BY <1>0, <1>s, <1>15, FilingFacts DEF createIssueForProblem, forgeVars, StoreType
  <2>6. StoreType'
    BY <1>0, <1>15, <2>4, <2>5 DEF createIssueForProblem, mapVars, StoreType, ClaimOK
  <2> QED
    BY <2>3, <2>6
<1>16. CASE MarkIssueFilingClaimFiled(w)
  <2>1. ControlType'
    BY <1>0, <1>16, <1>g DEF MarkIssueFilingClaimFiled, forgeVars, Steps, NeedsIssue
  <2>2. StoreType'
    BY <1>0, <1>s, <1>16, <1>m, ClaimStatements DEF MarkIssueFilingClaimFiled, NeedsIssue, forgeVars, mapVars, StoreType
  <2> QED
    BY <2>1, <2>2
<1>17. CASE updateExistingIssue(w)
  <2>1. ControlType'
    <3>1. CASE UNCHANGED <<target, via>> /\ Goto(w, "release")
      BY <1>0, <1>17, <1>g, <3>1 DEF updateExistingIssue, forgeVars, Steps, NeedsIssue
    <3>2. CASE Return(w, target[w]) \/ Return(w, 0)
      BY <1>0, <1>17, <1>r, <3>2 DEF updateExistingIssue, forgeVars
    <3> QED
      BY <1>17, <3>1, <3>2 DEF updateExistingIssue
  <2>2. StoreType'
    <3>1. CASE UNCHANGED <<mutex, held>>
      BY <1>0, <1>s, <1>17, <3>1, ClaimStatements DEF updateExistingIssue, forgeVars, mapVars, StoreType
    <3>2. CASE Return(w, target[w]) \/ Return(w, 0)
      BY <1>0, <1>s, <1>17, <1>r, <3>2, ClaimStatements DEF updateExistingIssue, forgeVars, mapVars, StoreType
    <3> QED
      BY <1>17, <3>1, <3>2 DEF updateExistingIssue
  <2> QED
    BY <2>1, <2>2
<1>18. CASE ReleaseIssueFilingClaim(w)
  <2>1. ControlType'
    BY <1>0, <1>18, <1>r DEF ReleaseIssueFilingClaim, forgeVars
  <2>2. StoreType'
    BY <1>0, <1>s, <1>18, <1>r, ClaimStatements DEF ReleaseIssueFilingClaim, forgeVars, mapVars, StoreType
  <2> QED
    BY <2>1, <2>2
<1>19. CASE RecordExternalIssuesBatch(w)
  <2>1. ControlType'
    BY <1>0, <1>19, <1>c DEF RecordExternalIssuesBatch, forgeVars, Steps, Origins, NeedsIssue
  <2>2. StoreType'
    BY <1>0, <1>s, <1>19, ClaimStatements DEF RecordExternalIssuesBatch, RecordRows, NeedsIssue, forgeVars, mapVars, StoreType
  <2> QED
    BY <2>1, <2>2
<1> QED
  BY <1>1, <1>2, <1>3, <1>4, <1>5, <1>6, <1>7, <1>8, <1>9, <1>10, <1>11, <1>12,
     <1>13, <1>14, <1>15, <1>16, <1>17, <1>18, <1>19 DEF Step
LEMMA TypeNext == TypeInv /\ [Next]_vars => TypeInv'
<1> SUFFICES ASSUME TypeInv, [Next]_vars PROVE TypeInv'
  OBVIOUS
<1> USE DEF TypeInv, TypeOK, InHand, Issues, ClaimType
<1>1. ASSUME NEW w \in Workers, Step(w) PROVE TypeInv'
  BY <1>1, TypeStep
<1>2. CASE LeaseLapses
  BY <1>2 DEF LeaseLapses, forgeVars, mapVars, localVars
<1>3. ASSUME NEW p \in Procs, Crash(p) PROVE TypeInv'
  BY <1>3 DEF Crash, Steps, Origins, forgeVars, mapVars
<1>4. ASSUME NEW n \in open, CloseOnForge(n) PROVE TypeInv'
  BY <1>4 DEF CloseOnForge, mapVars, localVars
<1>5. CASE UNCHANGED vars
  BY <1>5 DEF vars
<1> QED
  BY <1>1, <1>2, <1>3, <1>4, <1>5 DEF Next

LEMMA InitType == Init => TypeInv
  BY ProcsAssumption, WorkersAssumption
  DEF Init, TypeInv, TypeOK, InHand, Issues, ClaimType, NoClaim, Steps, Origins

LEMMA TypeAlways == Spec => []TypeInv
  BY InitType, TypeNext, PTL DEF Spec

(* Whatever fails, every issue number that the store, a claim row or a pass    *)
(* carries is that of an issue that was created on the forge.                  *)
THEOREM TypeCorrect == Spec => []TypeOK
<1>1. TypeInv => TypeOK
  BY DEF TypeInv
<1> QED
  BY <1>1, TypeAlways, PTL

(***************************************************************************)
(* The mutex.                                                              *)
(***************************************************************************)

(* A step of w is invisible in the locals of another worker, and touches the   *)
(* mutex only to lock it when it is free or to unlock it from inside.          *)
LEMMA OthersKeep ==
    ASSUME TypeInv, NEW w \in Workers, Step(w)
    PROVE  /\ pc[w] # "dead"
           /\ \A v \in Workers : v # w => /\ pc'[v] = pc[v]
                                       /\ via'[v] = via[v]
                                       /\ target'[v] = target[v]
                                       /\ held'[v] = held[v]
           /\ \A p \in Procs : p # ProcOf[w] => mutex'[p] = mutex[p]
           /\ \/ UNCHANGED mutex
              \/ mutex[ProcOf[w]] = NoWorker
              \/ Critical(w)
<1>0. /\ ProcOf[w] \in Procs
      /\ pc \in [Workers -> Steps] /\ via \in [Workers -> Origins]
      /\ target \in [Workers -> Issues \union {0}]
      /\ held \in [Workers -> BOOLEAN] /\ mutex \in [Procs -> Workers \union {NoWorker}]
  BY WorkersAssumption DEF TypeInv, TypeOK
<1>1. \A n, how, step : Carry(w, n, how, step) =>
         \A v \in Workers : v # w => pc'[v] = pc[v] /\ via'[v] = via[v] /\ target'[v] = target[v]
  BY <1>0 DEF Carry, Goto
<1>2. \A step : Goto(w, step) => \A v \in Workers : v # w => pc'[v] = pc[v]
  BY <1>0 DEF Goto
<1>3. \A n : Return(w, n) =>
         /\ \A v \in Workers : v # w => pc'[v] = pc[v] /\ via'[v] = via[v] 
                                      /\ target'[v] = target[v] /\ held'[v] = held[v]
         /\ \A p \in Procs : p # ProcOf[w] => mutex'[p] = mutex[p]
  BY <1>0, <1>1 DEF Return
<1>4. AfterLink(w) => \A v \in Workers : v # w => pc'[v] = pc[v] /\ via'[v] = via[v] /\ target'[v] = target[v]
  BY <1>1 DEF AfterLink
<1>5. \A n : AfterCreate(w, n) =>
         /\ \A v \in Workers : v # w => pc'[v] = pc[v] /\ via'[v] = via[v] 
                                      /\ target'[v] = target[v] /\ held'[v] = held[v]
         /\ \A p \in Procs : p # ProcOf[w] => mutex'[p] = mutex[p]
  BY <1>1, <1>3 DEF AfterCreate
<1> QED
  BY <1>0, <1>1, <1>2, <1>3, <1>4, <1>5
  DEF Step, Critical, RefreshExternalIssueStates, BackfillExternalIssueMappings,
      LinkForgeIssue, UpsertExternalIssue, MappedIssueNumber, FindIssueByFingerprint,
      AcquireIssueFilingClaim, ReadClaimRow, PollSearch, PollRow, PollDeadline,
      PollCancelled, ReacquireIssueFilingClaim, RereadClaimRow, createIssueForProblem,
      MarkIssueFilingClaimFiled, updateExistingIssue, ReleaseIssueFilingClaim,
      RecordExternalIssuesBatch

LEMMA LockOthers ==
    ASSUME TypeInv, LockInv, NEW w \in Workers, Step(w), NEW v \in Workers, v # w
    PROVE  LockOK(v)'
<1>1. /\ pc'[v] = pc[v] /\ via'[v] = via[v] /\ held'[v] = held[v]
      /\ pc[w] # "dead"
  BY OthersKeep
<1>2. Critical(v) => mutex'[ProcOf[v]] = v
  <2>1. ProcOf[v] \in Procs /\ NoWorker # v
    BY WorkersAssumption
  <2>2. Critical(v) => mutex[ProcOf[v]] = v
    BY DEF LockInv, LockOK
  <2>3. Critical(w) => mutex[ProcOf[w]] = w
    BY DEF LockInv, LockOK
  <2> QED
    BY <2>1, <2>2, <2>3, OthersKeep
<1>3. pc[v] = "dead" => Gone(ProcOf[v])'
  <2>1. pc[v] = "dead" => ProcOf[w] # ProcOf[v] /\ Gone(ProcOf[v])
    BY <1>1 DEF LockInv, LockOK, Gone
  <2> QED
    BY <2>1, OthersKeep DEF Gone
<1> QED
  BY <1>1, <1>2, <1>3 DEF LockInv, LockOK, Critical, Unfiled

LEMMA LockSelf ==
    ASSUME TypeInv, LockInv, NEW w \in Workers, Step(w)
    PROVE  LockOK(w)'
<1>0. /\ ProcOf[w] \in Procs
      /\ pc \in [Workers -> Steps] /\ via \in [Workers -> Origins]
      /\ target \in [Workers -> Issues \union {0}]
      /\ held \in [Workers -> BOOLEAN] /\ mutex \in [Procs -> Workers \union {NoWorker}]
      /\ LockOK(w)
  BY WorkersAssumption DEF TypeInv, TypeOK, LockInv
<1>g. \A step : Goto(w, step) => pc'[w] = step
  BY <1>0 DEF Goto
<1>c. \A n, how, step : Carry(w, n, how, step) => pc'[w] = step /\ via'[w] = how
  BY <1>0 DEF Carry, Goto
<1>r. \A n : Return(w, n) =>
         pc'[w] \in {"idle", "record"} /\ ~held'[w] /\ (pc'[w] = "idle" => via'[w] = "none")
  BY <1>0, <1>c DEF Return
<1>k. ASSUME Return(w, 0) \/ Return(w, target[w]) \/ \E n : Return(w, n) PROVE LockOK(w)'
  BY <1>k, <1>r DEF LockOK, Critical, Unfiled
<1>a. ASSUME pc[w] \in {"link", "linkput"}, AfterLink(w), UNCHANGED <<mutex, held>>
      PROVE  LockOK(w)'
  BY <1>0, <1>a, <1>c DEF AfterLink, LockOK, Critical, Unfiled
<1>1. CASE RefreshExternalIssueStates(w)
  BY <1>0, <1>1, <1>g DEF RefreshExternalIssueStates, LockOK, Critical, Unfiled
<1>2. CASE BackfillExternalIssueMappings(w)
  BY <1>0, <1>2, <1>g, <1>c DEF BackfillExternalIssueMappings, LockOK, Critical, Unfiled
<1>3. CASE LinkForgeIssue(w)
  BY <1>0, <1>3, <1>g, <1>a DEF LinkForgeIssue, LockOK, Critical, Unfiled
<1>4. CASE UpsertExternalIssue(w)
  BY <1>0, <1>4, <1>a DEF UpsertExternalIssue
<1>5. CASE MappedIssueNumber(w)
  BY <1>0, <1>5, <1>g, <1>c DEF MappedIssueNumber, LockOK, Critical, Unfiled
<1>6. CASE FindIssueByFingerprint(w)
  BY <1>0, <1>6, <1>g, <1>c DEF FindIssueByFingerprint, LockOK, Critical, Unfiled
<1>7. CASE AcquireIssueFilingClaim(w)
  BY <1>0, <1>7, <1>g DEF AcquireIssueFilingClaim, LockOK, Critical, Unfiled
<1>8. CASE ReadClaimRow(w)
  BY <1>0, <1>8, <1>g, <1>c DEF ReadClaimRow, LockOK, Critical, Unfiled
<1>9. CASE PollSearch(w)
  BY <1>0, <1>9, <1>g, <1>c DEF PollSearch, LockOK, Critical, Unfiled
<1>10. CASE PollRow(w)
  BY <1>0, <1>10, <1>g, <1>c DEF PollRow, LockOK, Critical, Unfiled
<1>11. CASE PollDeadline(w)
  BY <1>0, <1>11, <1>g DEF PollDeadline, LockOK, Critical, Unfiled
<1>12. CASE PollCancelled(w)
  BY <1>12, <1>k DEF PollCancelled
<1>13. CASE ReacquireIssueFilingClaim(w)
  BY <1>0, <1>13, <1>g, <1>k DEF ReacquireIssueFilingClaim, LockOK, Critical, Unfiled
<1>14. CASE RereadClaimRow(w)
  BY <1>0, <1>14, <1>g, <1>k DEF RereadClaimRow, LockOK, Critical, Unfiled
<1>15. CASE createIssueForProblem(w)
  <2>1. ASSUME NEW n, pc[w] = "create", AfterCreate(w, n) PROVE LockOK(w)'
    BY <1>0, <1>c, <1>k, <2>1 DEF AfterCreate, LockOK, Critical, Unfiled
  <2> QED
    BY <1>15, <2>1 DEF createIssueForProblem
<1>16. CASE MarkIssueFilingClaimFiled(w)
  BY <1>0, <1>16, <1>g DEF MarkIssueFilingClaimFiled, LockOK, Critical, Unfiled
<1>17. CASE updateExistingIssue(w)
  BY <1>0, <1>17, <1>g, <1>k DEF updateExistingIssue, LockOK, Critical, Unfiled
<1>18. CASE ReleaseIssueFilingClaim(w)
  BY <1>18, <1>k DEF ReleaseIssueFilingClaim
<1>19. CASE RecordExternalIssuesBatch(w)
  BY <1>0, <1>19, <1>c DEF RecordExternalIssuesBatch, LockOK, Critical, Unfiled
<1> QED
  BY <1>1, <1>2, <1>3, <1>4, <1>5, <1>6, <1>7, <1>8, <1>9, <1>10, <1>11, <1>12,
     <1>13, <1>14, <1>15, <1>16, <1>17, <1>18, <1>19 DEF Step

LEMMA LockStep ==
    ASSUME TypeInv, LockInv, NEW w \in Workers, Step(w)
    PROVE  LockInv'
  BY LockOthers, LockSelf DEF LockInv

(* What a crash leaves of the locals of a worker. *)
LEMMA CrashFacts ==
    ASSUME TypeInv, NEW p \in Procs, Crash(p)
    PROVE  /\ \A v \in Workers : ProcOf[v] = p =>
                /\ pc'[v] = "dead" /\ target'[v] = 0 /\ via'[v] = "none" /\ ~held'[v]
           /\ \A v \in Workers : ProcOf[v] # p =>
                /\ pc'[v] = pc[v] /\ target'[v] = target[v]
                /\ via'[v] = via[v] /\ held'[v] = held[v]
                /\ mutex'[ProcOf[v]] = mutex[ProcOf[v]]
           /\ Gone(p)' /\ \A q \in Procs : Gone(q) => Gone(q)'
           /\ UNCHANGED <<author, open, claim, mapOpen, mapClosed>>
  BY WorkersAssumption DEF TypeInv, TypeOK, Crash, Gone, forgeVars, mapVars

LEMMA LockNext ==
    ASSUME TypeInv, LockInv, [Next]_vars
    PROVE  LockInv'
<1> USE DEF LockInv, LockOK, Critical, Unfiled, Gone
<1>1. ASSUME NEW w \in Workers, Step(w) PROVE LockInv'
  BY <1>1, LockStep DEF LockInv
<1>2. CASE LeaseLapses
  BY <1>2 DEF LeaseLapses, localVars
<1>3. ASSUME NEW p \in Procs, Crash(p) PROVE LockInv'
  BY <1>3, CrashFacts, WorkersAssumption
<1>4. ASSUME NEW n \in open, CloseOnForge(n) PROVE LockInv'
  BY <1>4 DEF CloseOnForge, localVars
<1>5. CASE UNCHANGED vars
  BY <1>5 DEF vars
<1> QED
  BY <1>1, <1>2, <1>3, <1>4, <1>5 DEF Next

LEMMA InitLock == Init => LockInv
  BY DEF Init, LockInv, LockOK, Critical, Unfiled

LEMMA LockAlways == Spec => []LockInv
<1>1. TypeInv /\ LockInv /\ [Next]_vars => LockInv'
  BY LockNext
<1> QED
  BY <1>1, InitLock, TypeAlways, PTL DEF Spec

(* issueCreateMu: one worker of a process at a time.  *)
LEMMA OneInside ==
    ASSUME LockInv, NEW v \in Workers, NEW w \in Workers,
           Critical(v), Critical(w), ProcOf[v] = ProcOf[w]
    PROVE  v = w
  BY DEF LockInv, LockOK

(***************************************************************************)
(* What a worker's step does to the claim row and to the mappings, and how *)
(* it comes to the steps the invariants speak of.                          *)
(***************************************************************************)
LEMMA MappedGrows ==
    ASSUME TypeInv, [Next]_vars
    PROVE  mapped \subseteq mapped'
<1>1. ASSUME NEW w \in Workers, Step(w) PROVE mapped \subseteq mapped'
  <2>1. CASE RecordExternalIssuesBatch(w)
    BY <2>1 DEF RecordExternalIssuesBatch, RecordRows, mapped, mapVars
  <2>2. CASE RefreshExternalIssueStates(w)
    BY <2>2 DEF RefreshExternalIssueStates, mapped
  <2>3. CASE UpsertExternalIssue(w)
    BY <2>3 DEF UpsertExternalIssue, mapped, mapVars
  <2>4. CASE UNCHANGED mapVars
    BY <2>4 DEF mapped, mapVars
  <2> QED
    BY <1>1, <2>1, <2>2, <2>3, <2>4
    DEF Step, BackfillExternalIssueMappings, LinkForgeIssue, MappedIssueNumber,
        FindIssueByFingerprint, AcquireIssueFilingClaim, ReadClaimRow, PollSearch,
        PollRow, PollDeadline, PollCancelled, ReacquireIssueFilingClaim,
        RereadClaimRow, createIssueForProblem, MarkIssueFilingClaimFiled,
        updateExistingIssue, ReleaseIssueFilingClaim
<1> QED
  BY <1>1 DEF Next, LeaseLapses, Crash, CloseOnForge, mapped, mapVars, vars

Acquires(w) ==
    /\ pc[w] \in {"acquire", "reacquire"}
    /\ pc'[w] \in {"readrow", "rereadrow"}
    /\ Takeable(ProcOf[w]) /\ claim' = Claimed(ProcOf[w])

Marks(w) ==
    /\ pc[w] = "mark" /\ pc'[w] = "link" /\ via'[w] = via[w]
    /\ claim.holder = ProcOf[w]
    /\ claim'.holder = ProcOf[w] /\ claim'.state = "filed" /\ ~claim'.lapsed

Releases(w) ==
    /\ pc[w] = "release" /\ pc'[w] \in {"idle", "record"}
    /\ claim.holder = ProcOf[w] \/ claim.state = "filed"
    /\ claim' = NoClaim

LEMMA ClaimMoves ==
    ASSUME TypeInv, NEW w \in Workers, Step(w)
    PROVE  UNCHANGED claim \/ Acquires(w) \/ Marks(w) \/ Releases(w)
<1>0. /\ pc \in [Workers -> Steps] /\ via \in [Workers -> Origins]
      /\ target \in [Workers -> Issues \union {0}] /\ claim \in ClaimType
  BY DEF TypeInv, TypeOK
<1>g. \A step : Goto(w, step) => pc'[w] = step
  BY <1>0 DEF Goto
<1>c. \A n, how, step : Carry(w, n, how, step) => pc'[w] = step /\ via'[w] = how
  BY <1>0 DEF Carry, Goto
<1>r. \A n : Return(w, n) => pc'[w] \in {"idle", "record"}
  BY <1>0, <1>c DEF Return
<1>1. CASE AcquireIssueFilingClaim(w)
  BY <1>1, <1>g DEF AcquireIssueFilingClaim, AcquireRow, Acquires
<1>2. CASE ReacquireIssueFilingClaim(w)
  BY <1>2, <1>g DEF ReacquireIssueFilingClaim, AcquireRow, Acquires
<1>3. CASE MarkIssueFilingClaimFiled(w)
  BY <1>0, <1>3, <1>g DEF MarkIssueFilingClaimFiled, Marks, ClaimType
<1>4. CASE ReleaseIssueFilingClaim(w)
  BY <1>4, <1>r DEF ReleaseIssueFilingClaim, ReleaseRow, Releases
<1> QED
  BY <1>1, <1>2, <1>3, <1>4
  DEF Step, RefreshExternalIssueStates, BackfillExternalIssueMappings, LinkForgeIssue,
      UpsertExternalIssue, MappedIssueNumber, FindIssueByFingerprint, ReadClaimRow,
      PollSearch, PollRow, PollDeadline, PollCancelled, RereadClaimRow,
      createIssueForProblem, updateExistingIssue, RecordExternalIssuesBatch

LEMMA Entering ==
    ASSUME TypeInv, LockInv, NEW w \in Workers, Step(w)
    PROVE  /\ Unfiled(w)' /\ ~Unfiled(w) =>
                pc[w] = "lookup" /\ mapped = {} /\ mutex[ProcOf[w]] = NoWorker /\ UNCHANGED claim
           /\ pc'[w] \in {"readrow", "rereadrow"} => AcquireRow(ProcOf[w]) /\ Unfiled(w)
           /\ pc'[w] = "create" /\ held'[w] =>
                /\ pc[w] \in {"readrow", "rereadrow"}
                /\ claim.holder = ProcOf[w] /\ UNCHANGED claim
           /\ pc'[w] = "release" /\ via'[w] = "none" =>
                pc[w] = "create" /\ held[w] /\ UNCHANGED claim
<1>0. /\ pc \in [Workers -> Steps] /\ via \in [Workers -> Origins]
      /\ target \in [Workers -> Issues \union {0}]
      /\ held \in [Workers -> BOOLEAN]
      /\ LockOK(w)
  BY DEF TypeInv, TypeOK, LockInv
<1>g. \A step : Goto(w, step) => pc'[w] = step
  BY <1>0 DEF Goto
<1>c. \A n, how, step : Carry(w, n, how, step) => pc'[w] = step /\ via'[w] = how
  BY <1>0 DEF Carry, Goto
<1>r. \A n : Return(w, n) => pc'[w] \in {"idle", "record"}
  BY <1>0, <1>c DEF Return
<1>a. AfterLink(w) => \/ pc'[w] \in {"lookup", "update"}
                      \/ pc'[w] = "release" /\ via'[w] = "create"
  BY <1>0, <1>c DEF AfterLink
<1>e. \A n : AfterCreate(w, n) => \/ pc'[w] \in {"idle", "record", "mark"}
                                  \/ pc'[w] = "release" /\ held[w]
  BY <1>0, <1>c, <1>r DEF AfterCreate
<1> QED
  BY <1>0, <1>g, <1>c, <1>r, <1>a, <1>e
  DEF Step, LockOK, Unfiled, RefreshExternalIssueStates, BackfillExternalIssueMappings,
      LinkForgeIssue, UpsertExternalIssue, MappedIssueNumber, FindIssueByFingerprint,
      AcquireIssueFilingClaim, ReadClaimRow, PollSearch, PollRow, PollDeadline,
      PollCancelled, ReacquireIssueFilingClaim, RereadClaimRow, createIssueForProblem,
      MarkIssueFilingClaimFiled, updateExistingIssue, ReleaseIssueFilingClaim,
      RecordExternalIssuesBatch

(* A link that is written leaves a mapping behind. *)
LEMMA Linked ==
    ASSUME "link" \notin Faults, TypeInv, LockInv, MappedAfterLink, NEW w \in Workers, Step(w)
    PROVE  /\ pc'[w] = "release" /\ via'[w] # "none" => mapped' # {}
           /\ pc'[w] = "update" => mapped' # {}
           /\ Linking(w) => Linking(w)' \/ mapped' # {}
<1>0. /\ pc \in [Workers -> Steps] /\ via \in [Workers -> Origins]
      /\ target \in [Workers -> Issues \union {0}]
      /\ held \in [Workers -> BOOLEAN]
      /\ LockOK(w)
      /\ pc[w] = "release" /\ via[w] # "none" => mapped # {}
      /\ pc[w] = "update" => mapped # {}
  BY DEF TypeInv, TypeOK, LockInv, MappedAfterLink
<1>g. \A step : Goto(w, step) => pc'[w] = step
  BY <1>0 DEF Goto
<1>c. \A n, how, step : Carry(w, n, how, step) => pc'[w] = step /\ via'[w] = how
  BY <1>0 DEF Carry, Goto
<1>r. \A n : Return(w, n) => pc'[w] \in {"idle", "record"}
  BY <1>0, <1>c DEF Return
<1>e. \A n : AfterCreate(w, n) => \/ pc'[w] \in {"idle", "record", "mark"}
                                  \/ pc'[w] = "release" /\ via'[w] = "none"
  BY <1>0, <1>c, <1>r DEF AfterCreate
<1>m. mapped # {} => mapped' # {}
  BY MappedGrows DEF Next
<1>1. CASE LinkForgeIssue(w)
  BY <1>0, <1>1, <1>g, <1>m DEF LinkForgeIssue, Linking
<1>2. CASE UpsertExternalIssue(w)
  BY <1>2 DEF UpsertExternalIssue, mapped
<1>3. CASE MarkIssueFilingClaimFiled(w)
  BY <1>0, <1>3, <1>g DEF MarkIssueFilingClaimFiled, LockOK, Linking
<1>4. CASE MappedIssueNumber(w)
  BY <1>0, <1>4, <1>g, <1>c, <1>m DEF MappedIssueNumber, mapped, Linking
<1>5. CASE updateExistingIssue(w)
  BY <1>0, <1>5, <1>g, <1>r, <1>m DEF updateExistingIssue, Linking
<1>6. CASE createIssueForProblem(w)
  BY <1>0, <1>6, <1>e DEF createIssueForProblem, Linking
<1> QED
  BY <1>0, <1>1, <1>2, <1>3, <1>4, <1>5, <1>6, <1>g, <1>c, <1>r
  DEF Step, Linking, RefreshExternalIssueStates, BackfillExternalIssueMappings,
      FindIssueByFingerprint, AcquireIssueFilingClaim, ReadClaimRow, PollSearch, PollRow,
      PollDeadline, PollCancelled, ReacquireIssueFilingClaim, RereadClaimRow,
      ReleaseIssueFilingClaim, RecordExternalIssuesBatch

LEMMA MappedAfterLinkNext ==
    ASSUME "link" \notin Faults, TypeInv, LockInv, MappedAfterLink, [Next]_vars
    PROVE  MappedAfterLink'
<1>0. mapped # {} => mapped' # {}
  BY MappedGrows
<1>1. ASSUME NEW w \in Workers, Step(w) PROVE MappedAfterLink'
  BY <1>0, <1>1, Linked, OthersKeep DEF MappedAfterLink
<1>2. ASSUME NEW p \in Procs, Crash(p) PROVE MappedAfterLink'
  BY <1>0, <1>2, CrashFacts DEF MappedAfterLink
<1> QED
  BY <1>0, <1>1, <1>2 DEF Next, LeaseLapses, CloseOnForge, vars, localVars, MappedAfterLink

(* Whoever was on the way to a mapping arrives there, goes on, or dies.  *)
LEMMA TendedNext ==
    ASSUME "link" \notin Faults, TypeInv, LockInv, MappedAfterLink, [Next]_vars,
           NEW p \in Procs, Tended(p)
    PROVE  Tended(p)'
<1>0. mapped # {} => mapped' # {}
  BY MappedGrows
<1>1. ASSUME NEW w \in Workers, Step(w) PROVE Tended(p)'
  <2>1. CASE Gone(p)
    BY <1>1, <2>1, OthersKeep DEF Tended, Gone
  <2>2. ASSUME NEW u \in Workers, ProcOf[u] = p, Linking(u) PROVE Tended(p)'
    BY <1>1, <2>2, Linked, OthersKeep DEF Tended, Linking
  <2> QED
    BY <1>0, <2>1, <2>2 DEF Tended
<1>2. ASSUME NEW q \in Procs, Crash(q) PROVE Tended(p)'
  BY <1>0, <1>2, CrashFacts DEF Tended, Linking
<1> QED
  BY <1>0, <1>1, <1>2 DEF Next, LeaseLapses, CloseOnForge, vars, localVars, Tended, Gone, Linking

(* A process that is about to look the fingerprint up, empty-handed and with   *)
(* no mapping in the store, has no worker on the way to a mapping.             *)
LEMMA NotTended ==
    ASSUME LockInv, NEW w \in Workers, pc[w] = "lookup", mapped = {},
           mutex[ProcOf[w]] = NoWorker
    PROVE  ~Tended(ProcOf[w])
<1>1. ~Gone(ProcOf[w])
  BY DEF Gone
<1>2. ASSUME NEW u \in Workers, ProcOf[u] = ProcOf[w], Linking(u) PROVE FALSE
  <2>1. mutex[ProcOf[u]] = u
    BY <1>2 DEF LockInv, LockOK, Linking, Critical
  <2> QED
    BY <1>2, <2>1, WorkersAssumption
<1> QED
  BY <1>1, <1>2 DEF Tended

(***************************************************************************)
(* The claim.                                                              *)
(***************************************************************************)
LEMMA FiledRowNext ==
    ASSUME "link" \notin Faults, TypeInv, LockInv, MappedAfterLink, FiledRowAccounted, [Next]_vars
    PROVE  FiledRowAccounted'
<1>0. /\ claim.state = "filed" => Tended(claim.holder) /\ claim.holder \in Procs
      /\ TypeInv'
  BY TypeNext, TypeSplit DEF FiledRowAccounted, StoreType, ClaimOK, ClaimType
<1>1. CASE claim'.state = "filed" /\ claim.state = "filed" /\ claim'.holder = claim.holder
  <2>1. Tended(claim.holder)'
    BY <1>0, <1>1, TendedNext
  <2> QED
    BY <1>0, <1>1, <2>1 DEF FiledRowAccounted, Tended
<1>2. ASSUME NEW w \in Workers, Step(w), Marks(w) PROVE FiledRowAccounted'
  <2>1. Linking(w)'
    BY <1>2 DEF Marks, LockInv, LockOK, Linking
  <2> QED
    BY <1>2, <2>1 DEF Marks, FiledRowAccounted, Tended
<1>3. ASSUME NEW w \in Workers, Step(w) PROVE FiledRowAccounted'
  <2>1. CASE Acquires(w) \/ Releases(w)
    BY <2>1 DEF Acquires, Releases, Claimed, NoClaim, FiledRowAccounted
  <2>2. CASE UNCHANGED claim
    BY <1>1, <2>2 DEF FiledRowAccounted
  <2> QED
    BY <1>2, <1>3, <2>1, <2>2, ClaimMoves
<1>4. CASE LeaseLapses
  <2>1. claim'.state = "claimed"
    BY <1>4, TypeSplit DEF LeaseLapses, StoreType, ClaimOK, ClaimType
  <2> QED
    BY <2>1 DEF FiledRowAccounted
<1>5. CASE UNCHANGED claim
  BY <1>1, <1>5 DEF FiledRowAccounted
<1> QED
  BY <1>3, <1>4, <1>5 DEF Next, Crash, CloseOnForge, vars

LEMMA OwnRowUnfiledNext ==
    ASSUME TypeInv, LockInv, FiledRowAccounted, OwnRowUnfiled, [Next]_vars
    PROVE  OwnRowUnfiled'
<1>1. ASSUME NEW w \in Workers, Step(w), NEW v \in Workers,
             Unfiled(v)', claim'.holder = ProcOf[v], claim'.state = "filed"
      PROVE  FALSE
  <2>1. ProcOf[v] \in Procs /\ ProcOf[v] # NoProc
    BY WorkersAssumption, ProcsAssumption
  <2>2. CASE v = w
    <3>1. UNCHANGED claim
      BY <1>1, <2>2, ClaimMoves DEF Acquires, Marks, Releases, Claimed, NoClaim, Unfiled
    <3>2. ~Unfiled(w)
      BY <1>1, <2>2, <3>1 DEF OwnRowUnfiled
    <3>3. pc[w] = "lookup" /\ mapped = {} /\ mutex[ProcOf[w]] = NoWorker
      BY <1>1, <2>2, <3>2, Entering
    <3>4. Tended(ProcOf[w])
      BY <1>1, <2>2, <3>1 DEF FiledRowAccounted
    <3> QED
      BY <3>3, <3>4, NotTended
  <2>3. CASE v # w
    <3>1. Unfiled(v) /\ Critical(v)
      BY <1>1, <2>3, OthersKeep DEF Unfiled, Critical
    <3>2. CASE UNCHANGED claim
      BY <1>1, <3>1, <3>2 DEF OwnRowUnfiled
    <3>3. CASE Marks(w)
      <4>1. Critical(w) /\ ProcOf[v] = ProcOf[w]
        BY <1>1, <3>3 DEF Marks, Critical
      <4> QED
        BY <2>3, <3>1, <4>1, OneInside
    <3>4. CASE Acquires(w) \/ Releases(w)
      BY <1>1, <3>4 DEF Acquires, Releases, Claimed, NoClaim
    <3> QED
      BY <1>1, <3>2, <3>3, <3>4, ClaimMoves
  <2> QED
    BY <2>2, <2>3
<1>2. CASE LeaseLapses
  <2>1. claim'.state = "claimed"
    BY <1>2, TypeSplit DEF LeaseLapses, StoreType, ClaimOK, ClaimType
  <2> QED
    BY <2>1 DEF OwnRowUnfiled
<1>3. ASSUME NEW p \in Procs, Crash(p) PROVE OwnRowUnfiled'
  BY <1>3, CrashFacts DEF OwnRowUnfiled, Unfiled
<1> QED
  BY <1>1, <1>2, <1>3 DEF Next, CloseOnForge, vars, localVars, OwnRowUnfiled, Unfiled

(* The row that v relies on is not disturbed by another worker.  *)
LEMMA RowStaysOurs ==
    ASSUME TypeInv, LockInv, NEW w \in Workers, Step(w), NEW v \in Workers, v # w,
           Critical(v), RowIsOurs(v)
    PROVE  RowIsOurs(v)'
<1>0. ProcOf[v] \in Procs /\ ProcOf[w] \in Procs
  BY WorkersAssumption
<1>1. CASE UNCHANGED claim
  BY <1>1 DEF RowIsOurs
<1>2. CASE Acquires(w)
  <2>1. Critical(w) /\ ProcOf[v] = ProcOf[w]
    BY <1>2 DEF Acquires, Takeable, RowIsOurs, Critical
  <2> QED
    BY <2>1, OneInside
<1>3. CASE Marks(w) \/ Releases(w)
  <2>1. Critical(w) /\ ProcOf[v] = ProcOf[w]
    BY <1>3 DEF Marks, Releases, RowIsOurs, Critical
  <2> QED
    BY <2>1, OneInside
<1> QED
  BY <1>1, <1>2, <1>3, ClaimMoves

(* A process has no row when its worker reads one back, unless that worker's.  *)
LEMMA ForeignRowStays ==
    ASSUME TypeInv, LockInv, NEW w \in Workers, Step(w), NEW v \in Workers, v # w,
           Critical(v), claim.holder # ProcOf[v]
    PROVE  claim'.holder # ProcOf[v]
<1>0. ProcOf[v] \in Procs /\ ProcOf[w] \in Procs /\ ProcOf[v] # NoProc
  BY WorkersAssumption, ProcsAssumption
<1>1. CASE Acquires(w)
  <2>1. Critical(w)
    BY <1>1 DEF Acquires, Critical
  <2>2. ProcOf[v] # ProcOf[w]
    BY <2>1, OneInside
  <2> QED
    BY <1>1, <2>2 DEF Acquires, Claimed
<1>2. CASE UNCHANGED claim \/ Marks(w) \/ Releases(w)
  BY <1>0, <1>2 DEF Marks, Releases, NoClaim
<1> QED
  BY <1>1, <1>2, ClaimMoves

LEMMA ReliedRowNext ==
    ASSUME "slow" \notin Faults, TypeInv, LockInv, OwnRowUnfiled, ReliedRowLive, [Next]_vars
    PROVE  ReliedRowLive'
<1>1. ASSUME NEW w \in Workers, Step(w), NEW v \in Workers, v # w
      PROVE  /\ pc'[v] \in {"readrow", "rereadrow"} /\ claim'.holder = ProcOf[v] => RowIsOurs(v)'
             /\ held'[v] /\ pc'[v] = "create" => RowIsOurs(v)'
             /\ pc'[v] = "release" /\ via'[v] = "none" => RowIsOurs(v)'
  <2>1. pc'[v] = pc[v] /\ via'[v] = via[v] /\ held'[v] = held[v]
    BY <1>1, OthersKeep
  <2>2. pc[v] \in {"readrow", "rereadrow", "create", "release"} => Critical(v)
    BY DEF Critical
  <2> QED
    BY <1>1, <2>1, <2>2, RowStaysOurs, ForeignRowStays DEF ReliedRowLive
<1>2. ASSUME NEW w \in Workers, Step(w)
      PROVE  /\ pc'[w] \in {"readrow", "rereadrow"} /\ claim'.holder = ProcOf[w] => RowIsOurs(w)'
             /\ held'[w] /\ pc'[w] = "create" => RowIsOurs(w)'
             /\ pc'[w] = "release" /\ via'[w] = "none" => RowIsOurs(w)'
  <2>0. ProcOf[w] \in Procs /\ ProcOf[w] # NoProc /\ claim.state \in {"none", "claimed", "filed"}
        /\ (claim.holder = NoProc <=> claim.state = "none")
    BY WorkersAssumption, ProcsAssumption, TypeSplit DEF StoreType, ClaimOK, ClaimType
  <2>1. ASSUME pc'[w] \in {"readrow", "rereadrow"}, claim'.holder = ProcOf[w]
        PROVE  RowIsOurs(w)'
    <3>1. AcquireRow(ProcOf[w]) /\ Unfiled(w)
      BY <1>2, <2>1, Entering
    <3>2. CASE Takeable(ProcOf[w])
      BY <3>1, <3>2 DEF AcquireRow, Claimed, RowIsOurs
    <3>3. CASE ~Takeable(ProcOf[w])
      BY <2>0, <2>1, <3>1, <3>3 DEF AcquireRow, Takeable, OwnRowUnfiled
    <3> QED
      BY <3>2, <3>3
  <2>2. held'[w] /\ pc'[w] = "create" => RowIsOurs(w)'
    BY <1>2, Entering DEF ReliedRowLive, RowIsOurs
  <2>3. pc'[w] = "release" /\ via'[w] = "none" => RowIsOurs(w)'
    BY <1>2, Entering DEF ReliedRowLive, RowIsOurs
  <2> QED
    BY <2>1, <2>2, <2>3
<1>3. CASE LeaseLapses
  <2>1. \A v \in Workers : ProcOf[v] = claim.holder => ~UsesClaim(v)
    BY <1>3 DEF LeaseLapses
  <2>2. claim'.holder = claim.holder
    BY <1>3, TypeSplit DEF LeaseLapses, StoreType, ClaimOK, ClaimType
  <2>3. \A v \in Workers : pc[v] = "release" /\ via[v] = "none" => held[v]
    BY DEF LockInv, LockOK
  <2> QED
    BY <1>3, <2>1, <2>2, <2>3 DEF LeaseLapses, localVars, ReliedRowLive, RowIsOurs, UsesClaim
<1>4. ASSUME NEW p \in Procs, Crash(p) PROVE ReliedRowLive'
  BY <1>4, CrashFacts DEF ReliedRowLive, RowIsOurs
<1> QED
  BY <1>1, <1>2, <1>3, <1>4
  DEF Next, CloseOnForge, vars, localVars, ReliedRowLive, RowIsOurs

LEMMA ClaimAlways == "slow" \notin Faults /\ "link" \notin Faults => (Spec => []ClaimInv)
<1> SUFFICES ASSUME "slow" \notin Faults, "link" \notin Faults PROVE Spec => []ClaimInv
  OBVIOUS
<1>1. Init => ClaimInv
  BY InitType, InitLock DEF ClaimInv, Init, MappedAfterLink, FiledRowAccounted, OwnRowUnfiled,
     ReliedRowLive, NoClaim, Unfiled
<1>2. ClaimInv /\ [Next]_vars => ClaimInv'
  BY TypeNext, LockNext, MappedAfterLinkNext, FiledRowNext, OwnRowUnfiledNext, ReliedRowNext
  DEF ClaimInv
<1> QED
  BY <1>1, <1>2, PTL DEF Spec

(* As long as leases outlast the passes that use them and links are written,   *)
(* no two passes reach CreateIssue with the claim in hand, whatever else fails *)
(* and however many processes file the same finding.                           *)
THEOREM ClaimExclusion ==
    "slow" \notin Faults /\ "link" \notin Faults => (Spec => []ClaimExclusive)
<1>1. ClaimInv => ClaimExclusive
  <2> SUFFICES ASSUME ClaimInv, NEW v \in Workers, NEW w \in Workers,
                      pc[v] = "create", held[v], pc[w] = "create", held[w]
               PROVE  v = w
    BY DEF ClaimExclusive
  <2>1. ProcOf[v] = claim.holder /\ ProcOf[w] = claim.holder
    BY DEF ClaimInv, ReliedRowLive, RowIsOurs
  <2> QED
    BY <2>1, OneInside DEF ClaimInv, Critical
<1> QED
  BY <1>1, ClaimAlways, PTL

(* Under the same assumptions a filed row is deleted only once a local mapping *)
(* names the issue's fingerprint: a crash never leaves an issue without trace. *)
THEOREM RecoveryRow ==
    "slow" \notin Faults /\ "link" \notin Faults => (Spec => RecoveryRowOutlivesLinking)
<1>1. ClaimInv /\ [Next]_vars =>
        [claim.state = "filed" /\ claim'.state # "filed" => mapped # {}]_vars
  <2> SUFFICES ASSUME ClaimInv, [Next]_vars, claim.state = "filed", claim'.state # "filed"
               PROVE  mapped # {}
    OBVIOUS
  <2>1. ASSUME NEW w \in Workers, Step(w) PROVE mapped # {}
    <3>1. Releases(w)
      BY <2>1, ClaimMoves DEF ClaimInv, Acquires, Marks, Takeable
    <3> QED
      BY <3>1 DEF ClaimInv, Releases, ReliedRowLive, RowIsOurs, MappedAfterLink
  <2> QED
    BY <2>1 DEF Next, LeaseLapses, Crash, CloseOnForge, vars
<1> QED
  BY <1>1, ClaimAlways, PTL DEF Spec, RecoveryRowOutlivesLinking

(***************************************************************************)
(* One issue per process.                                                  *)
(***************************************************************************)
QuietForge == Faults \intersect {"link", "reply", "claim", "create", "backlog"} = {}

LEMMA Filing ==
    ASSUME TypeInv, NEW w \in Workers, Step(w)
    PROVE  \/ UNCHANGED <<author, open>>
           \/ /\ pc[w] = "create" /\ FileOnForge(ProcOf[w])
              /\ AfterCreate(w, Len(author) + 1) \/ "reply" \in Faults
              /\ pc'[w] \in {"idle", "record", "mark", "release"}
<1>0. pc \in [Workers -> Steps] /\ via \in [Workers -> Origins]
      /\ target \in [Workers -> Issues \union {0}]
  BY DEF TypeInv, TypeOK
<1>1. \A n, how, step : Carry(w, n, how, step) => pc'[w] = step
  BY <1>0 DEF Carry, Goto
<1>2. \A n : AfterCreate(w, n) => pc'[w] \in {"idle", "record", "mark", "release"}
  BY <1>0, <1>1 DEF AfterCreate, Return
<1> QED
  BY <1>2
  DEF Step, forgeVars, RefreshExternalIssueStates, BackfillExternalIssueMappings,
      LinkForgeIssue, UpsertExternalIssue, MappedIssueNumber, FindIssueByFingerprint,
      AcquireIssueFilingClaim, ReadClaimRow, PollSearch, PollRow, PollDeadline,
      PollCancelled, ReacquireIssueFilingClaim, RereadClaimRow, createIssueForProblem,
      MarkIssueFilingClaimFiled, updateExistingIssue, ReleaseIssueFilingClaim,
      RecordExternalIssuesBatch

LEMMA NewAuthor ==
    ASSUME TypeInv, NEW w \in Workers, FileOnForge(ProcOf[w]), NEW p \in Procs
    PROVE  HasFiled(p)' <=> HasFiled(p) \/ p = ProcOf[w]
<1>1. ProcOf[w] \in Procs /\ StoreType
  BY WorkersAssumption, TypeSplit
<1> QED
  BY <1>1, FilingFacts DEF HasFiled

LEMMA AuthorsNext ==
    ASSUME QuietForge, AuthorInv, [Next]_vars
    PROVE  AuthorsAccounted'
<1>0. /\ TypeInv /\ LockInv /\ MappedAfterLink
      /\ "link" \notin Faults /\ "reply" \notin Faults
      /\ \A p \in Procs : HasFiled(p) => Tended(p)
  BY DEF AuthorInv, AuthorsAccounted, QuietForge
<1>1. ASSUME NEW p \in Procs, HasFiled(p) PROVE Tended(p)'
  BY <1>0, <1>1, TendedNext
<1>2. ASSUME NEW w \in Workers, Step(w), ~UNCHANGED author PROVE Tended(ProcOf[w])'
  <2>1. pc[w] = "create" /\ AfterCreate(w, Len(author) + 1) /\ Len(author) \in Nat
    BY <1>0, <1>2, Filing DEF TypeInv, TypeOK
  <2>2. CASE held[w]
    BY <1>0, <2>1, <2>2 DEF AfterCreate, Carry, Goto, Tended, Linking, TypeInv, TypeOK
  <2>3. CASE ~held[w]
    BY <1>0, <2>1, <2>3, MappedGrows DEF AuthorInv, UnclaimedIsLate, Tended
  <2> QED
    BY <2>2, <2>3
<1>3. ASSUME NEW w \in Workers, Step(w), NEW p \in Procs, HasFiled(p)' PROVE Tended(p)'
  <2>1. CASE UNCHANGED author
    BY <1>1, <1>3, <2>1 DEF HasFiled, Issues
  <2>2. CASE ~UNCHANGED author
    BY <1>0, <1>1, <1>2, <1>3, <2>2, Filing, NewAuthor
  <2> QED
    BY <2>1, <2>2
<1>4. ASSUME UNCHANGED author, NEW p \in Procs, HasFiled(p)' PROVE Tended(p)'
  BY <1>1, <1>4 DEF HasFiled, Issues
<1> QED
  BY <1>3, <1>4 DEF Next, LeaseLapses, Crash, CloseOnForge, vars, forgeVars, AuthorsAccounted, Tended

LEMMA UnfiledNext ==
    ASSUME AuthorInv, [Next]_vars
    PROVE  UnfiledIsNew'
<1>0. TypeInv /\ LockInv /\ UnfiledIsNew /\ \A p \in Procs : HasFiled(p) => Tended(p)
  BY DEF AuthorInv, AuthorsAccounted
<1>1. UNCHANGED author => \A p \in Procs : HasFiled(p)' = HasFiled(p)
  BY DEF HasFiled, Issues
<1>2. ASSUME NEW w \in Workers, Step(w), NEW v \in Workers, Unfiled(v)'
      PROVE  ~HasFiled(ProcOf[v])'
  <2>0. ProcOf[v] \in Procs /\ ProcOf[w] \in Procs
    BY WorkersAssumption
  <2>1. CASE v = w
    <3>1. UNCHANGED author
      BY <1>0, <1>2, <2>1, Filing DEF Unfiled
    <3>2. CASE Unfiled(w)
      BY <1>0, <1>1, <2>0, <2>1, <3>1, <3>2 DEF UnfiledIsNew
    <3>3. CASE ~Unfiled(w)
      <4>1. ~HasFiled(ProcOf[w])
        BY <1>0, <1>2, <2>0, <2>1, <3>3, Entering, NotTended
      <4> QED
        BY <1>1, <2>0, <2>1, <3>1, <4>1
    <3> QED
      BY <3>2, <3>3
  <2>2. CASE v # w
    <3>1. Unfiled(v) /\ Critical(v)
      BY <1>0, <1>2, <2>2, OthersKeep DEF Unfiled, Critical
    <3>2. ~HasFiled(ProcOf[v])
      BY <1>0, <3>1 DEF UnfiledIsNew
    <3>3. CASE UNCHANGED author
      BY <1>1, <2>0, <3>2, <3>3
    <3>4. CASE ~UNCHANGED author
      <4>1. pc[w] = "create" /\ FileOnForge(ProcOf[w])
        BY <1>0, <1>2, <3>4, Filing
      <4>2. ProcOf[v] # ProcOf[w]
        BY <1>0, <2>2, <3>1, <4>1, OneInside DEF Critical
      <4> QED
        BY <1>0, <2>0, <3>2, <4>1, <4>2, NewAuthor
    <3> QED
      BY <3>3, <3>4
  <2> QED
    BY <2>1, <2>2
<1>3. ASSUME NEW p \in Procs, Crash(p) PROVE UnfiledIsNew'
  BY <1>0, <1>1, <1>3, CrashFacts, WorkersAssumption DEF UnfiledIsNew, Unfiled
<1>4. CASE UNCHANGED <<author, pc>>
  BY <1>0, <1>1, <1>4, WorkersAssumption DEF UnfiledIsNew, Unfiled
<1> QED
  BY <1>2, <1>3, <1>4 DEF Next, LeaseLapses, CloseOnForge, vars, forgeVars, localVars, UnfiledIsNew

(* How a pass comes to create without a claim, or to release without an issue. *)
LEMMA Unclaimed ==
    ASSUME QuietForge, TypeInv, LockInv, NEW w \in Workers, Step(w)
    PROVE  /\ pc'[w] = "create" /\ ~held'[w] =>
                pc[w] = "readrow" /\ claim.state = "none"
           /\ pc'[w] = "release" => via'[w] # "none"
<1>0. /\ pc \in [Workers -> Steps] /\ via \in [Workers -> Origins]
      /\ target \in [Workers -> Issues \union {0}] /\ held \in [Workers -> BOOLEAN]
      /\ "reply" \notin Faults /\ "claim" \notin Faults
      /\ Faults \intersect {"create", "backlog"} = {}
      /\ Len(author) + 1 # 0
  BY DEF TypeInv, TypeOK, QuietForge
<1>g. \A step : Goto(w, step) => pc'[w] = step
  BY <1>0 DEF Goto
<1>c. \A n, how, step : Carry(w, n, how, step) => pc'[w] = step /\ via'[w] = how
  BY <1>0 DEF Carry, Goto
<1>r. \A n : Return(w, n) => pc'[w] \in {"idle", "record"}
  BY <1>0, <1>c DEF Return
<1>a. AfterLink(w) => \/ pc'[w] \in {"lookup", "update"}
                      \/ pc'[w] = "release" /\ via'[w] = "create"
  BY <1>0, <1>c DEF AfterLink
<1>1. CASE createIssueForProblem(w)
  BY <1>0, <1>1, <1>c, <1>r DEF createIssueForProblem, AfterCreate
<1> QED
  BY <1>0, <1>1, <1>g, <1>c, <1>r, <1>a
  DEF Step, RefreshExternalIssueStates, BackfillExternalIssueMappings,
      LinkForgeIssue, UpsertExternalIssue, MappedIssueNumber, FindIssueByFingerprint,
      AcquireIssueFilingClaim, ReadClaimRow, PollSearch, PollRow, PollDeadline,
      PollCancelled, ReacquireIssueFilingClaim, RereadClaimRow,
      MarkIssueFilingClaimFiled, updateExistingIssue, ReleaseIssueFilingClaim,
      RecordExternalIssuesBatch

LEMMA UnclaimedNext ==
    ASSUME QuietForge, AuthorInv, [Next]_vars
    PROVE  UnclaimedIsLate'
<1>0. TypeInv /\ LockInv /\ MappedAfterLink /\ UnclaimedIsLate
  BY DEF AuthorInv
<1>1. mapped # {} => mapped' # {}
  BY <1>0, MappedGrows
<1>2. ASSUME NEW w \in Workers, Step(w), claim'.state = "none", claim.state # "none"
      PROVE  mapped' # {}
  <2>1. Releases(w) \/ Marks(w) \/ Acquires(w)
    BY <1>0, <1>2, ClaimMoves
  <2>2. pc[w] = "release"
    BY <1>2, <2>1 DEF Releases, Marks, Acquires, Claimed
  <2> QED
    BY <1>0, <1>1, <2>2 DEF UnclaimedIsLate, MappedAfterLink
<1>3. ASSUME NEW w \in Workers, Step(w), NEW v \in Workers
      PROVE  /\ pc'[v] = "readrow" /\ claim'.state = "none" => mapped' # {}
             /\ pc'[v] = "create" /\ ~held'[v] => mapped' # {}
             /\ pc'[v] = "release" => via'[v] # "none"
  <2>1. CASE v # w
    BY <1>0, <1>1, <1>2, <1>3, <2>1, OthersKeep DEF UnclaimedIsLate
  <2>2. CASE v = w
    <3>1. pc'[w] = "readrow" => claim'.state # "none"
      BY <1>0, <1>3, Entering DEF AcquireRow, Takeable, Claimed
    <3>2. pc'[w] = "create" /\ ~held'[w] => mapped' # {}
      BY <1>0, <1>1, <1>3, Unclaimed DEF UnclaimedIsLate
    <3>3. pc'[w] = "release" => via'[w] # "none"
      BY <1>0, <1>3, Unclaimed
    <3> QED
      BY <2>2, <3>1, <3>2, <3>3
  <2> QED
    BY <2>1, <2>2
<1>4. CASE LeaseLapses
  <2>1. claim'.state # "none"
    BY <1>0, <1>4, TypeSplit DEF LeaseLapses, StoreType, ClaimOK, ClaimType
  <2> QED
    BY <1>0, <1>1, <1>4, <2>1 DEF LeaseLapses, localVars, UnclaimedIsLate
<1>5. ASSUME NEW p \in Procs, Crash(p) PROVE UnclaimedIsLate'
  BY <1>0, <1>1, <1>5, CrashFacts DEF UnclaimedIsLate
<1> QED
  BY <1>0, <1>1, <1>3, <1>4, <1>5 DEF Next, CloseOnForge, vars, localVars, UnclaimedIsLate

LEMMA FilesOnceNext ==
    ASSUME AuthorInv, [Next]_vars
    PROVE  NoProcessFilesTwice'
<1>0. TypeInv /\ UnfiledIsNew /\ NoProcessFilesTwice /\ StoreType
  BY TypeSplit DEF AuthorInv
<1>1. ASSUME NEW w \in Workers, Step(w), ~UNCHANGED author PROVE NoProcessFilesTwice'
  <2>1. pc[w] = "create" /\ FileOnForge(ProcOf[w]) /\ ProcOf[w] \in Procs
    BY <1>0, <1>1, Filing, WorkersAssumption
  <2>2. \A i \in Issues : author[i] # ProcOf[w]
    BY <1>0, <2>1 DEF UnfiledIsNew, Unfiled, HasFiled
  <2> QED
    BY <1>0, <2>1, <2>2, FilingFacts DEF NoProcessFilesTwice
<1>2. CASE UNCHANGED author
  BY <1>0, <1>2 DEF NoProcessFilesTwice, Issues
<1> QED
  BY <1>1, <1>2 DEF Next, LeaseLapses, Crash, CloseOnForge, vars, forgeVars

LEMMA AuthorAlways == QuietForge => (Spec => []AuthorInv)
<1> SUFFICES ASSUME QuietForge PROVE Spec => []AuthorInv
  OBVIOUS
<1>1. Init => AuthorInv
  BY InitType, InitLock DEF AuthorInv, Init, MappedAfterLink, AuthorsAccounted, UnfiledIsNew,
     UnclaimedIsLate, NoProcessFilesTwice, HasFiled, Issues, Unfiled
<1>2. AuthorInv /\ [Next]_vars => AuthorInv'
  <2> SUFFICES ASSUME AuthorInv, [Next]_vars PROVE AuthorInv'
    OBVIOUS
  <2>1. TypeInv' /\ LockInv'
    BY TypeNext, LockNext DEF AuthorInv
  <2>2. MappedAfterLink'
    BY MappedAfterLinkNext DEF AuthorInv, QuietForge
  <2> QED
    BY <2>1, <2>2, AuthorsNext, UnfiledNext, UnclaimedNext, FilesOnceNext DEF AuthorInv
<1> QED
  BY <1>1, <1>2, PTL DEF Spec

(* If the forge answers, claims are read and links are written, a process      *)
(* never files the fingerprint twice, with any number of passes and processes  *)
(* overlapping, crashing, failing to search, to mark or to record.             *)
THEOREM OneIssuePerProcess == QuietForge => (Spec => []NoProcessFilesTwice)
<1>1. AuthorInv => NoProcessFilesTwice
  BY DEF AuthorInv
<1> QED
  BY <1>1, AuthorAlways, PTL

(***************************************************************************)
(* One open issue, if passes of different processes do not overlap.        *)
(***************************************************************************)
\* Between a search that found nothing and CreateIssue.
Seeking == {"acquire", "readrow", "poll", "pollrow", "reacquire", "rereadrow", "create"}

OneByOne ==
    /\ \A v, w \in Workers :
         pc[v] \notin {"idle", "dead"} /\ pc[w] \notin {"idle", "dead"} => ProcOf[v] = ProcOf[w]
    /\ \A w \in Workers : pc[w] \in Seeking => open = {}
    /\ \A m, n \in open : m = n

(* Who begins finds no pass of another process, and who comes to seek has      *)
(* sought before or has just found nothing.                                    *)
LEMMA Seeks ==
    ASSUME "overlap" \notin Faults, "search" \notin Faults, TypeInv, NEW w \in Workers, Step(w)
    PROVE  /\ pc[w] = "idle" => \A v \in Workers : ProcOf[v] # ProcOf[w] => pc[v] \in {"idle", "dead"}
           /\ pc'[w] \in Seeking => pc[w] \in Seeking \/ open = {}
<1>0. /\ pc \in [Workers -> Steps] /\ via \in [Workers -> Origins]
      /\ target \in [Workers -> Issues \union {0}]
  BY DEF TypeInv, TypeOK
<1>g. \A step : Goto(w, step) => pc'[w] = step
  BY <1>0 DEF Goto
<1>c. \A n, how, step : Carry(w, n, how, step) => pc'[w] = step /\ via'[w] = how
  BY <1>0 DEF Carry, Goto
<1>r. \A n : Return(w, n) => pc'[w] \in {"idle", "record"}
  BY <1>0, <1>c DEF Return
<1>a. AfterLink(w) => pc'[w] \in {"lookup", "release", "update"}
  BY <1>0, <1>c DEF AfterLink
<1>e. \A n : AfterCreate(w, n) => pc'[w] \in {"idle", "record", "mark", "release"}
  BY <1>0, <1>c, <1>r DEF AfterCreate
<1> QED
  BY <1>0, <1>g, <1>c, <1>r, <1>a, <1>e
  DEF Step, Seeking, RefreshExternalIssueStates, BackfillExternalIssueMappings,
      LinkForgeIssue, UpsertExternalIssue, MappedIssueNumber, FindIssueByFingerprint,
      AcquireIssueFilingClaim, ReadClaimRow, PollSearch, PollRow, PollDeadline,
      PollCancelled, ReacquireIssueFilingClaim, RereadClaimRow, createIssueForProblem,
      MarkIssueFilingClaimFiled, updateExistingIssue, ReleaseIssueFilingClaim,
      RecordExternalIssuesBatch

LEMMA OneByOneStep ==
    ASSUME "overlap" \notin Faults, "search" \notin Faults, TypeInv, LockInv, OneByOne,
           NEW w \in Workers, Step(w)
    PROVE  OneByOne'
<1>1. /\ pc[w] # "dead" /\ \A v \in Workers : v # w => pc'[v] = pc[v]
  BY OthersKeep
<1>2. \A u, v \in Workers :
         pc'[u] \notin {"idle", "dead"} /\ pc'[v] \notin {"idle", "dead"} => ProcOf[u] = ProcOf[v]
  BY <1>1, Seeks DEF OneByOne
<1>3. CASE UNCHANGED <<author, open>>
  <2>1. \A v \in Workers : pc'[v] \in Seeking => open' = {}
    BY <1>1, <1>3, Seeks DEF OneByOne
  <2> QED
    BY <1>2, <1>3, <2>1 DEF OneByOne
<1>4. CASE /\ pc[w] = "create" /\ FileOnForge(ProcOf[w])
           /\ pc'[w] \in {"idle", "record", "mark", "release"}
  <2>1. open = {} /\ open' = {Len(author) + 1}
    BY <1>4 DEF OneByOne, Seeking, FileOnForge
  <2>2. \A v \in Workers : pc'[v] \notin Seeking
    <3>1. \A v \in Workers : v # w /\ pc[v] \in Seeking => Critical(v) /\ ProcOf[v] = ProcOf[w]
      BY <1>4 DEF OneByOne, Seeking, Critical
    <3>2. Critical(w)
      BY <1>4 DEF Critical
    <3> QED
      BY <1>1, <1>4, <3>1, <3>2, OneInside DEF Seeking
  <2> QED
    BY <1>2, <2>1, <2>2 DEF OneByOne
<1> QED
  BY <1>3, <1>4, Filing

(* The promise of wireIssueFilingClaims: as long as passes of different        *)
(* processes do not overlap and the forge can be searched, no more than one    *)
(* issue of the fingerprint is open, whatever else fails, is lost or is late,  *)
(* and for any number of processes and passes.                                 *)
THEOREM OneIssueOpen ==
    ASSUME "overlap" \notin Faults, "search" \notin Faults
    PROVE  Spec => []OneOpenIssue
<1>1. Init => OneByOne
  BY DEF Init, OneByOne, Seeking
<1>2. TypeInv /\ LockInv /\ OneByOne /\ [Next]_vars => OneByOne'
  <2> SUFFICES ASSUME TypeInv, LockInv, OneByOne, [Next]_vars PROVE OneByOne'
    OBVIOUS
  <2>1. ASSUME NEW w \in Workers, Step(w) PROVE OneByOne'
    BY <2>1, OneByOneStep
  <2>2. ASSUME NEW p \in Procs, Crash(p) PROVE OneByOne'
    <3>1. UNCHANGED open /\ \A v \in Workers : pc'[v] = "dead" \/ pc'[v] = pc[v]
      BY <2>2, CrashFacts
    <3> QED
      BY <3>1 DEF OneByOne, Seeking
  <2>3. ASSUME NEW n \in open, CloseOnForge(n) PROVE OneByOne'
    BY <2>3 DEF CloseOnForge, localVars, OneByOne
  <2>4. CASE LeaseLapses
    BY <2>4 DEF LeaseLapses, localVars, forgeVars, OneByOne
  <2>5. CASE UNCHANGED vars
    BY <2>5 DEF vars, OneByOne
  <2> QED
    BY <2>1, <2>2, <2>3, <2>4, <2>5 DEF Next
<1>3. OneByOne => OneOpenIssue
  <2> SUFFICES ASSUME OneByOne PROVE OneOpenIssue
    OBVIOUS
  <2>1. CASE open = {}
    BY <2>1, FS_EmptySet DEF OneOpenIssue
  <2>2. ASSUME NEW n \in open PROVE OneOpenIssue
    <3>1. open = {n}
      BY <2>2 DEF OneByOne
    <3> QED
      BY <3>1, FS_Singleton DEF OneOpenIssue
  <2> QED
    BY <2>1, <2>2
<1> QED
  BY <1>1, <1>2, <1>3, TypeAlways, LockAlways, PTL DEF Spec

(***************************************************************************)
(* One open mapping, when all is recorded.                                 *)
(***************************************************************************)
\* Until there is a mapping, who is on the way to one has the claim.
LinkerHolds ==
    \A w \in Workers : Linking(w) /\ mapped = {} =>
        held[w] /\ claim.holder = ProcOf[w] /\ ~claim.lapsed

NoneDied == \A w \in Workers : pc[w] # "dead"

\* Issues are filed by passes.
Authored == \A i \in Issues : \E w \in Workers : author[i] = ProcOf[w]

\* Until a process dies, the first issue is the one that is mapped.
FirstMapped ==
    /\ open = Issues
    /\ mapped # {} => mapOpen = {1}
    /\ \A w \in Workers : /\ pc[w] = "linkput" => target[w] = 1
                          /\ pc[w] = "record" => mapped # {}

LEMMA ComesToLink ==
    ASSUME TypeInv, LockInv, NEW w \in Workers, Step(w)
    PROVE  /\ Linking(w)' => /\ held'[w] = held[w]
                             /\ Linking(w) \/ (pc[w] = "create" /\ held[w] /\ UNCHANGED claim)
           /\ pc'[w] = "record" => \/ pc[w] \in {"update", "release"}
                                   \/ pc[w] = "create" /\ ~held[w]
           /\ pc'[w] = "linkput" => /\ pc[w] = "link" /\ mapped = {}
                                    /\ UNCHANGED <<author, target>>
<1>0. /\ pc \in [Workers -> Steps] /\ via \in [Workers -> Origins]
      /\ target \in [Workers -> Issues \union {0}] /\ held \in [Workers -> BOOLEAN]
  BY DEF TypeInv, TypeOK
<1>g. \A step : Goto(w, step) => pc'[w] = step
  BY <1>0 DEF Goto
<1>c. \A n, how, step : Carry(w, n, how, step) => pc'[w] = step /\ via'[w] = how
  BY <1>0 DEF Carry, Goto
<1>r. /\ \A n : Return(w, n) => pc'[w] \in {"idle", "record"}
      /\ Return(w, 0) => pc'[w] = "idle"
  BY <1>0, <1>c DEF Return
<1>a. AfterLink(w) => pc'[w] \in {"lookup", "release", "update"}
  BY <1>0, <1>c DEF AfterLink
<1>e. \A n : AfterCreate(w, n) => \/ pc'[w] \in {"idle", "record"} /\ ~held[w]
                                  \/ pc'[w] = "release" /\ held[w]
                                  \/ pc'[w] = "mark" /\ held[w] /\ UNCHANGED held
  BY <1>0, <1>c, <1>r DEF AfterCreate
<1>1. CASE LinkForgeIssue(w)
  BY <1>0, <1>1, <1>g, <1>a DEF LinkForgeIssue, Linking, forgeVars
<1>2. CASE createIssueForProblem(w)
  BY <1>0, <1>2, <1>c, <1>e DEF createIssueForProblem, Linking
<1>3. CASE MarkIssueFilingClaimFiled(w)
  BY <1>0, <1>3, <1>g DEF MarkIssueFilingClaimFiled, Linking
<1>4. CASE pc'[w] \notin {"mark", "linkput", "record"} /\ (pc'[w] = "link" => via'[w] # "create")
  BY <1>4 DEF Linking
<1>5. CASE pc'[w] = "record" /\ pc[w] \in {"update", "release"}
  BY <1>5 DEF Linking
<1> QED
  BY <1>0, <1>g, <1>c, <1>r, <1>a, <1>1, <1>2, <1>3, <1>4, <1>5
  DEF Step, forgeVars, RefreshExternalIssueStates, BackfillExternalIssueMappings,
      UpsertExternalIssue, MappedIssueNumber, FindIssueByFingerprint,
      AcquireIssueFilingClaim, ReadClaimRow, PollSearch, PollRow, PollDeadline,
      PollCancelled, ReacquireIssueFilingClaim, RereadClaimRow,
      updateExistingIssue, ReleaseIssueFilingClaim, RecordExternalIssuesBatch

LEMMA LinkerStep ==
    ASSUME ClaimInv, AuthorInv, LinkerHolds, NEW w \in Workers, Step(w)
    PROVE  LinkerHolds'
<1> SUFFICES ASSUME NEW v \in Workers, Linking(v)', mapped' = {}
             PROVE  held'[v] /\ claim'.holder = ProcOf[v] /\ ~claim'.lapsed
  BY DEF LinkerHolds
<1>0. /\ TypeInv /\ LockInv /\ mapped = {}
      /\ ProcOf[v] \in Procs /\ ProcOf[v] # NoProc
  BY MappedGrows, WorkersAssumption, ProcsAssumption DEF ClaimInv, Next
<1>1. ~Releases(w)
  BY <1>0 DEF Releases, AuthorInv, UnclaimedIsLate, MappedAfterLink
<1>2. CASE v # w
  <2>1. Linking(v) /\ held'[v] = held[v] /\ Critical(v)
    BY <1>0, <1>2, OthersKeep DEF Linking, Critical
  <2>2. held[v] /\ claim.holder = ProcOf[v] /\ ~claim.lapsed
    BY <1>0, <2>1 DEF LinkerHolds
  <2>3. ~Acquires(w) /\ ~Marks(w)
    <3>1. ASSUME Acquires(w) \/ Marks(w) PROVE Critical(w) /\ ProcOf[w] = ProcOf[v]
      <4>1. claim.state # "none"
        BY <1>0, <2>2 DEF TypeInv, TypeOK
      <4> QED
        BY <2>2, <3>1, <4>1 DEF Acquires, Marks, Takeable, Critical
    <3> QED
      BY <1>0, <1>2, <2>1, <3>1, OneInside
  <2> QED
    BY <1>0, <1>1, <2>1, <2>2, <2>3, ClaimMoves
<1>3. CASE v = w
  <2>1. /\ held'[w] = held[w]
        /\ Linking(w) \/ (pc[w] = "create" /\ held[w] /\ UNCHANGED claim)
    BY <1>0, <1>3, ComesToLink
  <2>2. CASE Linking(w)
    <3>1. held[w] /\ claim.holder = ProcOf[w] /\ ~claim.lapsed
      BY <1>0, <2>2 DEF LinkerHolds
    <3>2. ~Acquires(w)
      BY <2>2 DEF Acquires, Linking
    <3>3. UNCHANGED claim \/ Marks(w)
      BY <1>0, <1>1, <3>2, ClaimMoves
    <3> QED
      BY <1>3, <2>1, <3>1, <3>3 DEF Marks
  <2>3. CASE pc[w] = "create" /\ held[w] /\ UNCHANGED claim
    BY <1>3, <2>1, <2>3 DEF ClaimInv, ReliedRowLive, RowIsOurs
  <2> QED
    BY <2>1, <2>2, <2>3
<1> QED
  BY <1>2, <1>3

LEMMA LinkerNext ==
    ASSUME "slow" \notin Faults, ClaimInv, AuthorInv, LinkerHolds, [Next]_vars
    PROVE  LinkerHolds'
<1>0. TypeInv /\ LockInv
  BY DEF ClaimInv
<1>1. ASSUME NEW w \in Workers, Step(w) PROVE LinkerHolds'
  BY <1>1, LinkerStep
<1>2. CASE LeaseLapses
  <2>1. ASSUME NEW w \in Workers, Linking(w), mapped = {} PROVE FALSE
    BY <1>2, <2>1 DEF LinkerHolds, LeaseLapses, UsesClaim
  <2>2. UNCHANGED <<pc, via, mapOpen, mapClosed>>
    BY <1>2 DEF LeaseLapses, localVars, mapVars
  <2> QED
    BY <2>1, <2>2 DEF LinkerHolds, Linking, mapped
<1>3. ASSUME NEW p \in Procs, Crash(p) PROVE LinkerHolds'
  BY <1>0, <1>3, CrashFacts DEF LinkerHolds, Linking, mapped
<1>4. ASSUME NEW n \in open, CloseOnForge(n) PROVE LinkerHolds'
  BY <1>4 DEF CloseOnForge, localVars, mapVars, LinkerHolds, Linking, mapped
<1>5. CASE UNCHANGED vars
  BY <1>5 DEF vars, LinkerHolds, Linking, mapped
<1> QED
  BY <1>1, <1>2, <1>3, <1>4, <1>5 DEF Next

LEMMA AuthoredNext ==
    ASSUME TypeInv, Authored, [Next]_vars
    PROVE  Authored'
<1>1. ASSUME UNCHANGED author PROVE Authored'
  BY <1>1 DEF Authored, Issues
<1>2. ASSUME NEW w \in Workers, Step(w), ~UNCHANGED author PROVE Authored'
  <2>1. FileOnForge(ProcOf[w]) /\ ProcOf[w] \in Procs /\ StoreType
    BY <1>2, Filing, WorkersAssumption, TypeSplit
  <2> QED
    BY <2>1, FilingFacts DEF Authored
<1> QED
  BY <1>1, <1>2 DEF Next, LeaseLapses, Crash, CloseOnForge, vars, forgeVars

(* Without a mapping all issues are in the hands of one pass, and it has one. *)
LEMMA OneUnmapped ==
    ASSUME AuthorInv, LinkerHolds, Authored, NoneDied, mapped = {}
    PROVE  Issues \subseteq {1}
<1>1. \A i \in Issues : author[i] = claim.holder
  <2> SUFFICES ASSUME NEW i \in Issues PROVE author[i] = claim.holder
    OBVIOUS
  <2>1. PICK v \in Workers : author[i] = ProcOf[v]
    BY DEF Authored
  <2>2. Tended(ProcOf[v])
    BY <2>1, WorkersAssumption DEF AuthorInv, AuthorsAccounted, HasFiled
  <2>3. PICK w \in Workers : ProcOf[w] = ProcOf[v] /\ Linking(w)
    BY <2>2 DEF Tended, Gone, NoneDied
  <2> QED
    BY <2>1, <2>3 DEF LinkerHolds
<1>2. \A i, j \in Issues : i = j
  BY <1>1 DEF AuthorInv, NoProcessFilesTwice
<1>3. Len(author) \in Nat
  BY DEF AuthorInv, TypeInv, TypeOK
<1>4. Len(author) < 2
  <2>1. ASSUME Len(author) >= 2 PROVE FALSE
    <3>1. 1 \in Issues /\ 2 \in Issues
      BY <1>3, <2>1 DEF Issues
    <3> QED
      BY <1>2, <3>1
  <2> QED
    BY <1>3, <2>1
<1> QED
  BY <1>3, <1>4 DEF Issues

(* What is done to a row that is open for the first issue leaves it open. *)
LEMMA RecordsFirst ==
    ASSUME NEW n \in Nat \ {0}, mapOpen = {1}, RecordRows(n)
    PROVE  mapOpen' = {1}
<1> DEFINE lowest == CHOOSE k \in mapOpen : \A j \in mapOpen : k <= j
<1>1. \E k \in mapOpen : \A j \in mapOpen : k <= j
  <2>1. 1 \in mapOpen /\ \A j \in mapOpen : 1 <= j
    OBVIOUS
  <2> QED
    BY <2>1
<1>2. lowest \in mapOpen
  BY <1>1
<1>3. lowest = 1
  BY <1>2
<1>4. mapOpen' = IF mapOpen # {} /\ lowest < n THEN mapOpen \ {n}
                 ELSE IF mapOpen # {} /\ n < lowest THEN (mapOpen \ {lowest}) \union {n}
                 ELSE mapOpen \union {n}
  BY DEF RecordRows
<1> HIDE DEF lowest
<1>5. CASE n = 1
  BY <1>3, <1>4, <1>5
<1>6. CASE n > 1
  BY <1>3, <1>4, <1>6
<1> QED
  BY <1>5, <1>6

LEMMA FirstMappedStep ==
    ASSUME QuietForge, AuthorInv, LinkerHolds, Authored, NoneDied, FirstMapped,
           NEW w \in Workers, Step(w)
    PROVE  FirstMapped'
<1>0. /\ TypeInv /\ LockInv /\ MappedAfterLink /\ UnclaimedIsLate /\ StoreType
      /\ ProcOf[w] \in Procs /\ InHand
      /\ target \in [Workers -> Issues \union {0}]
      /\ mapped = {} => Issues \subseteq {1}
      /\ open = Issues /\ mapOpen \subseteq Issues
      /\ Issues \subseteq Nat \ {0}
  BY TypeSplit, OneUnmapped, WorkersAssumption
  DEF AuthorInv, FirstMapped, TypeInv, TypeOK, Issues
<1>1. open' = Issues'
  <2>1. CASE UNCHANGED <<author, open>>
    BY <1>0, <2>1 DEF Issues
  <2>2. CASE FileOnForge(ProcOf[w])
    BY <1>0, <2>2, FilingFacts DEF FileOnForge
  <2> QED
    BY <1>0, <2>1, <2>2, Filing
<1>2. mapped' # {} => mapOpen' = {1}
  <2>1. CASE UNCHANGED mapVars
    BY <2>1 DEF mapVars, mapped, FirstMapped
  <2>2. CASE RefreshExternalIssueStates(w)
    <3>1. mapOpen \ open = {}
      BY <1>0
    <3>2. mapOpen' = mapOpen /\ mapClosed' = mapClosed
      BY <2>2, <3>1 DEF RefreshExternalIssueStates
    <3> QED
      BY <3>2 DEF mapped, FirstMapped
  <2>3. CASE UpsertExternalIssue(w)
    <3>1. target[w] = 1
      BY <2>3 DEF UpsertExternalIssue, FirstMapped
    <3>2. mapOpen' = mapOpen \union {1}
      BY <2>3, <3>1 DEF UpsertExternalIssue, QuietForge
    <3>3. mapOpen \subseteq {1}
      BY DEF mapped, FirstMapped
    <3> QED
      BY <3>2, <3>3
  <2>4. CASE RecordExternalIssuesBatch(w)
    <3>1. target[w] \in Nat \ {0} /\ mapOpen = {1}
      BY <1>0, <2>4 DEF RecordExternalIssuesBatch, FirstMapped, InHand
    <3> QED
      BY <2>4, <3>1, RecordsFirst DEF RecordExternalIssuesBatch, mapVars
  <2> QED
    BY <2>1, <2>2, <2>3, <2>4
    DEF Step, BackfillExternalIssueMappings, LinkForgeIssue, MappedIssueNumber,
        FindIssueByFingerprint, AcquireIssueFilingClaim, ReadClaimRow, PollSearch,
        PollRow, PollDeadline, PollCancelled, ReacquireIssueFilingClaim,
        RereadClaimRow, createIssueForProblem, MarkIssueFilingClaimFiled,
        updateExistingIssue, ReleaseIssueFilingClaim
<1>3. mapped # {} => mapped' # {}
  BY <1>0, MappedGrows DEF Next
<1>4. ASSUME NEW v \in Workers
      PROVE  /\ pc'[v] = "linkput" => target'[v] = 1
             /\ pc'[v] = "record" => mapped' # {}
  <2>1. CASE v # w
    BY <1>0, <1>3, <2>1, OthersKeep DEF FirstMapped
  <2>2. CASE v = w
    <3>1. ASSUME pc'[w] = "linkput" PROVE target'[w] = 1
      <4>1. pc[w] = "link" /\ mapped = {} /\ target' = target
        BY <1>0, <3>1, ComesToLink
      <4> QED
        BY <1>0, <4>1 DEF InHand
    <3>2. pc'[w] = "record" => mapped # {}
      BY <1>0, ComesToLink DEF MappedAfterLink, UnclaimedIsLate
    <3> QED
      BY <1>3, <2>2, <3>1, <3>2
  <2> QED
    BY <2>1, <2>2
<1> QED
  BY <1>1, <1>2, <1>4 DEF FirstMapped

LEMMA FirstMappedNext ==
    ASSUME QuietForge, "close" \notin Faults, AuthorInv, LinkerHolds, Authored,
           NoneDied => FirstMapped, [Next]_vars
    PROVE  NoneDied' => FirstMapped'
<1>0. TypeInv
  BY DEF AuthorInv
<1>1. ASSUME NEW w \in Workers, Step(w), NoneDied' PROVE FirstMapped'
  <2>1. NoneDied
    BY <1>0, <1>1, OthersKeep DEF NoneDied
  <2> QED
    BY <1>1, <2>1, FirstMappedStep
<1>2. ASSUME NEW p \in Procs, Crash(p) PROVE ~NoneDied'
  BY <1>0, <1>2, CrashFacts DEF Crash, NoneDied
<1>3. ASSUME UNCHANGED <<author, open, mapOpen, mapClosed, pc, target>>
      PROVE  NoneDied' => FirstMapped'
  BY <1>3 DEF NoneDied, FirstMapped, Issues, mapped
<1> QED
  BY <1>1, <1>2, <1>3
  DEF Next, LeaseLapses, CloseOnForge, vars, forgeVars, mapVars, localVars

(* When every pass has recorded its outcome, at most one mapping is open:      *)
(* with any number of passes and processes overlapping, crashing, failing to   *)
(* search, to comment, to mark or to record, if the forge answers, leases      *)
(* outlast their users, links are written and issues are not closed by hand.   *)
(* The issue that stays mapped is the first one.                               *)
THEOREM OneMapping ==
    ASSUME QuietForge, "slow" \notin Faults, "close" \notin Faults
    PROVE  Spec => []OneOpenMappingAtRest
<1> DEFINE MapInv == LinkerHolds /\ Authored /\ (NoneDied => FirstMapped)
<1>1. Init => MapInv
  BY DEF Init, LinkerHolds, Linking, Authored, FirstMapped, Issues, mapped
<1>2. ClaimInv /\ AuthorInv /\ MapInv /\ [Next]_vars => MapInv'
  BY LinkerNext, AuthoredNext, FirstMappedNext DEF ClaimInv
<1>3. MapInv => OneOpenMappingAtRest
  <2> SUFFICES ASSUME MapInv, \A w \in Workers : pc[w] = "idle"
               PROVE  Cardinality(mapOpen) <= 1
    BY DEF OneOpenMappingAtRest
  <2>1. mapped = {} \/ mapOpen = {1}
    BY DEF NoneDied, FirstMapped
  <2>2. CASE mapped = {}
    <3>1. mapOpen = {}
      BY <2>2 DEF mapped
    <3> QED
      BY <3>1, FS_EmptySet
  <2>3. CASE mapOpen = {1}
    BY <2>3, FS_Singleton
  <2> QED
    BY <2>1, <2>2, <2>3
<1> HIDE DEF MapInv
<1>4. "link" \notin Faults
  BY DEF QuietForge
<1>5. Spec => []ClaimInv
  BY <1>4, ClaimAlways
<1>6. Spec => []AuthorInv
  BY AuthorAlways
<1> QED
  BY <1>1, <1>2, <1>3, <1>5, <1>6, PTL DEF Spec
==============================================================================
