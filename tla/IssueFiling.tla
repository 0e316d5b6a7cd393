----------------------------- MODULE IssueFiling -----------------------------
(***************************************************************************)
(* Filing the forge issue of ONE finding: one (repository, forge,          *)
(* fingerprint) slot, seen by several processes of Repository Detective    *)
(* that share a SQLite store and a forge (Gitea or GitHub).                *)
(*                                                                         *)
(* A worker is one scan's post-analysis pass (main.go,                     *)
(* createIssuesFromResult): it repairs local mappings, then looks the      *)
(* fingerprint up and creates or updates the issue (issues/manager.go,     *)
(* createOrUpdateIssue, under the process's issueCreateMu), then records   *)
(* the outcome in external_issues.  Workers of one process share its claim *)
(* holder id and its mutex.  A process that crashed never comes back: its  *)
(* successor draws a new holder id, so it is another member of Procs.      *)
(*                                                                         *)
(* Every forge call and every SQL statement is a step of its own; SQLite   *)
(* runs one statement at a time.  Issue numbers are those of the issues    *)
(* that carry this fingerprint, in creation order.                         *)
(***************************************************************************)
EXTENDS Naturals, Sequences, FiniteSets

CONSTANTS
    Procs,      \* manager processes (incarnations), each with one holder id
    Workers,    \* filing passes
    ProcOf,     \* the process a worker runs in
    NoProc,     \* "no holder"
    NoWorker,   \* "mutex is free"
    MaxIssues,  \* bound: issues that may be created for the fingerprint
    Faults      \* what may happen besides the normal course, see FaultKinds

(* "search"  a forge listing fails          "create" CreateIssue is refused     *)
(* "reply"   CreateIssue's answer is lost   "comment" the comment fails         *)
(* "claim"   the claim statement fails      "link"   LinkForgeIssue fails       *)
(* "write"   mark, release or record fails  "crash"  a process dies             *)
(* "slow"    a lease lapses under a live user of it                             *)
(* "close"   a person closes the issue      "backlog" backlog control is on     *)
(* "overlap" passes of different processes run at the same time                 *)
FaultKinds == {"search", "create", "reply", "comment", "claim", "link",
               "write", "crash", "slow", "close", "backlog", "overlap"}

ASSUME ProcsAssumption == NoProc \notin Procs
ASSUME WorkersAssumption == NoWorker \notin Workers /\ ProcOf \in [Workers -> Procs]
ASSUME BoundAssumption == MaxIssues \in Nat
ASSUME FaultsAssumption == Faults \subseteq FaultKinds

VARIABLES
    author,     \* author[n]: the process that created issue n on the forge
    open,       \* the issues open on the forge
    claim,      \* the row of issue_filing_claims
    mapOpen,    \* external_issues rows of the finding in state 'open'
    mapClosed,  \* ... in state 'closed'
    mutex,      \* issueCreateMu of each process
    pc, target, via, held   \* per worker: step, issue in hand, how it was
                            \* found, and createOrUpdateIssue's claimHeld

vars == <<author, open, claim, mapOpen, mapClosed, mutex, pc, target, via, held>>
localVars == <<pc, target, via, held>>
forgeVars == <<author, open>>
mapVars == <<mapOpen, mapClosed>>

Issues == 1..Len(author)
mapped == mapOpen \union mapClosed

NoClaim == [holder |-> NoProc, state |-> "none", issue |-> 0, lapsed |-> FALSE]
Claimed(p) == [holder |-> p, state |-> "claimed", issue |-> 0, lapsed |-> FALSE]

Steps == {"idle", "backfill", "lookup", "search", "acquire", "readrow",
          "poll", "pollrow", "reacquire", "rereadrow", "create", "mark",
          "link", "linkput", "update", "release", "record", "dead"}
Origins == {"none", "backfill", "mapped", "search", "adopt", "poll", "create"}

Init ==
    /\ author = <<>>
    /\ open = {}
    /\ claim = NoClaim
    /\ mapOpen = {} /\ mapClosed = {}
    /\ mutex = [p \in Procs |-> NoWorker]
    /\ pc = [w \in Workers |-> "idle"]
    /\ target = [w \in Workers |-> 0]
    /\ via = [w \in Workers |-> "none"]
    /\ held = [w \in Workers |-> FALSE]

(***************************************************************************)
(* Moves of a worker's control.                                            *)
(***************************************************************************)
Goto(w, step) == pc' = [pc EXCEPT ![w] = step]

\* Take issue n, found the given way, to the next step.
Carry(w, n, how, step) ==
    /\ target' = [target EXCEPT ![w] = n]
    /\ via' = [via EXCEPT ![w] = how]
    /\ Goto(w, step)

\* Mutant: an early return without an issue leaves the mutex locked.
Return_KeepsMutex(w, n) ==
    /\ mutex' = IF n = 0 THEN mutex ELSE [mutex EXCEPT ![ProcOf[w]] = NoWorker]
    /\ held' = [held EXCEPT ![w] = FALSE]
    /\ IF n = 0 THEN Carry(w, 0, "none", "idle") ELSE Carry(w, n, via[w], "record")

\* createOrUpdateIssue returns: the deferred Unlock runs, and an issue that was
\* created or updated (n # 0) goes on to RecordExternalIssues.
Return(w, n) ==
    /\ mutex' = [mutex EXCEPT ![ProcOf[w]] = NoWorker]
    /\ held' = [held EXCEPT ![w] = FALSE]
    /\ IF n = 0 THEN Carry(w, 0, "none", "idle") ELSE Carry(w, n, via[w], "record")

(***************************************************************************)
(* Mapping repair, before the filing loop and outside the mutex.           *)
(***************************************************************************)

\* Locally open mappings whose forge issue is closed are marked closed; a row
\* whose GetIssue or update failed keeps its state.
RefreshExternalIssueStates(w) ==
    /\ pc[w] = "idle"
    /\ \/ "overlap" \in Faults
       \/ \A v \in Workers : ProcOf[v] # ProcOf[w] => pc[v] \in {"idle", "dead"}
    /\ \E done \in SUBSET (mapOpen \ open) :
         /\ done # mapOpen \ open => Faults \intersect {"search", "write"} # {}
         /\ mapOpen' = mapOpen \ done
         /\ mapClosed' = mapClosed \union done
    /\ Goto(w, "backfill")
    /\ UNCHANGED <<forgeVars, claim, mutex, target, via, held>>

\* The lowest open issue with the fingerprint is the one to link.
BackfillExternalIssueMappings(w) ==
    /\ pc[w] = "backfill"
    /\ \/ /\ "search" \in Faults \/ open = {}
          /\ Goto(w, "lookup")
          /\ UNCHANGED <<target, via>>
       \/ \E n \in open :
            /\ \A k \in open : n <= k
            /\ Carry(w, n, "backfill", "link")
    /\ UNCHANGED <<forgeVars, claim, mapVars, mutex, held>>

(***************************************************************************)
(* Linking: the lookup and the insert are separate statements.             *)
(***************************************************************************)
AfterLink(w) ==
    \/ via[w] = "backfill" /\ Carry(w, 0, "none", "lookup")
    \/ via[w] = "create" /\ Carry(w, target[w], "create", "release")
    \/ via[w] \notin {"backfill", "create"} /\ Carry(w, target[w], via[w], "update")

\* Any mapping of the fingerprint, open or closed, makes the link unnecessary.
LinkForgeIssue(w) ==
    /\ pc[w] = "link"
    /\ \/ (mapped # {} \/ "link" \in Faults) /\ AfterLink(w)
       \/ mapped = {} /\ Goto(w, "linkput") /\ UNCHANGED <<target, via>>
    /\ UNCHANGED <<forgeVars, claim, mapVars, mutex, held>>

UpsertExternalIssue(w) ==
    /\ pc[w] = "linkput"
    /\ \/ mapOpen' = mapOpen \union {target[w]} /\ mapClosed' = mapClosed \ {target[w]}
       \/ "link" \in Faults /\ UNCHANGED mapVars
    /\ AfterLink(w)
    /\ UNCHANGED <<forgeVars, claim, mutex, held>>

(***************************************************************************)
(* createOrUpdateIssue: from Lock to the remote search.                    *)
(***************************************************************************)

\* The newest open mapping, or else the newest closed one.
MappedIssueNumber(w) ==
    /\ pc[w] = "lookup"
    /\ mutex[ProcOf[w]] = NoWorker
    /\ mutex' = [mutex EXCEPT ![ProcOf[w]] = w]
    /\ \/ mapped = {} /\ Goto(w, "search") /\ UNCHANGED <<target, via>>
       \/ \E n \in IF mapOpen # {} THEN mapOpen ELSE mapClosed :
            Carry(w, n, "mapped", "update")
    /\ UNCHANGED <<forgeVars, claim, mapVars, held>>

\* Mutant: no remote search.
FindIssueByFingerprint_Skipped(w) ==
    /\ pc[w] = "search"
    /\ Goto(w, "acquire")
    /\ UNCHANGED <<forgeVars, claim, mapVars, mutex, target, via, held>>

\* A failed search is logged and the pass goes on as if nothing were found.
FindIssueByFingerprint(w) ==
    /\ pc[w] = "search"
    /\ \/ /\ "search" \in Faults \/ open = {}
          /\ Goto(w, "acquire")
          /\ UNCHANGED <<target, via>>
       \/ \E n \in open : Carry(w, n, "search", "link")
    /\ UNCHANGED <<forgeVars, claim, mapVars, mutex, held>>

(***************************************************************************)
(* The durable claim.                                                      *)
(***************************************************************************)
\* Mutant: a claimed row may be taken before its lease lapses.
Takeable_NoLease(p) == claim.state \in {"none", "claimed"}

\* Mutant: a row whose holder died is never taken over.
Takeable_NoTakeover(p) ==
    claim.state = "none" \/ (claim.state = "claimed" /\ claim.holder = p)

Takeable(p) ==
    \/ claim.state = "none"
    \/ claim.state = "claimed" /\ (claim.lapsed \/ claim.holder = p)

AcquireRow(p) == claim' = IF Takeable(p) THEN Claimed(p) ELSE claim

\* Mutant: the row is blanked instead of deleted.
ReleaseRow_Blanked(p) ==
    claim' = IF claim.holder = p \/ claim.state = "filed"
             THEN [claim EXCEPT !.holder = NoProc] ELSE claim

ReleaseRow(p) ==
    claim' = IF claim.holder = p \/ claim.state = "filed" THEN NoClaim ELSE claim

\* The INSERT ... ON CONFLICT DO UPDATE; the row is read back by a second
\* statement.  A claim that cannot be had is not needed: the pass goes on.
AcquireIssueFilingClaim(w) ==
    /\ pc[w] = "acquire"
    /\ \/ AcquireRow(ProcOf[w]) /\ Goto(w, "readrow")
       \/ "claim" \in Faults /\ Goto(w, "create") /\ UNCHANGED claim
    /\ UNCHANGED <<forgeVars, mapVars, mutex, target, via, held>>

ReadClaimRow(w) ==
    /\ pc[w] = "readrow"
    /\ \/ /\ claim.state = "none" \/ "claim" \in Faults
          /\ Goto(w, "create")
          /\ UNCHANGED <<target, via, held>>
       \/ /\ claim.holder = ProcOf[w]
          /\ held' = [held EXCEPT ![w] = TRUE]
          /\ Goto(w, "create")
          /\ UNCHANGED <<target, via>>
       \/ /\ claim.holder # ProcOf[w] /\ claim.state = "filed"
          /\ Carry(w, claim.issue, "adopt", "link")
          /\ UNCHANGED held
       \/ /\ claim.holder # ProcOf[w] /\ claim.state = "claimed"
          /\ Goto(w, "poll")
          /\ UNCHANGED <<target, via, held>>
    /\ UNCHANGED <<forgeVars, claim, mapVars, mutex>>

\* One round of the convergence poll: search the forge, then read the row.
PollSearch(w) ==
    /\ pc[w] = "poll"
    /\ \/ \E n \in open : Carry(w, n, "poll", "link")
       \/ /\ open = {} \/ "search" \in Faults
          /\ Goto(w, "pollrow")
          /\ UNCHANGED <<target, via>>
    /\ UNCHANGED <<forgeVars, claim, mapVars, mutex, held>>

PollRow(w) ==
    /\ pc[w] = "pollrow"
    /\ \/ claim.state = "filed" /\ Carry(w, claim.issue, "poll", "link")
       \/ /\ claim.state # "filed" \/ "claim" \in Faults
          /\ Goto(w, "poll")
          /\ UNCHANGED <<target, via>>
    /\ UNCHANGED <<forgeVars, claim, mapVars, mutex, held>>

\* filingPollWindow is over; the claim is asked for once more.
PollDeadline(w) ==
    /\ pc[w] = "poll"
    /\ Goto(w, "reacquire")
    /\ UNCHANGED <<forgeVars, claim, mapVars, mutex, target, via, held>>

\* The pass's context ends while it polls.
PollCancelled(w) ==
    /\ pc[w] = "poll"
    /\ Return(w, 0)
    /\ UNCHANGED <<forgeVars, claim, mapVars>>

ReacquireIssueFilingClaim(w) ==
    /\ pc[w] = "reacquire"
    /\ \/ AcquireRow(ProcOf[w]) /\ Goto(w, "rereadrow") /\ UNCHANGED <<mutex, target, via, held>>
       \/ "claim" \in Faults /\ Return(w, 0) /\ UNCHANGED claim
    /\ UNCHANGED <<forgeVars, mapVars>>

RereadClaimRow(w) ==
    /\ pc[w] = "rereadrow"
    /\ \/ /\ claim.holder = ProcOf[w]
          /\ held' = [held EXCEPT ![w] = TRUE]
          /\ Goto(w, "create")
          /\ UNCHANGED <<mutex, target, via>>
       \/ /\ claim.holder # ProcOf[w] \/ "claim" \in Faults
          /\ Return(w, 0)                       \* skipped this round
    /\ UNCHANGED <<forgeVars, claim, mapVars>>

(***************************************************************************)
(* Creating the issue and leaving a trace of it.                           *)
(***************************************************************************)
FileOnForge(p) ==
    /\ Len(author) < MaxIssues
    /\ author' = Append(author, p)
    /\ open' = open \union {Len(author) + 1}

\* With a claim in hand the pass still has to release it; without one it is done.
AfterCreate(w, n) ==
    IF held[w]
    THEN /\ Carry(w, n, IF n = 0 THEN "none" ELSE "create", IF n = 0 THEN "release" ELSE "mark")
         /\ UNCHANGED <<mutex, held>>
    ELSE Return(w, n)

createIssueForProblem(w) ==
    /\ pc[w] = "create"
    /\ \/ FileOnForge(ProcOf[w]) /\ AfterCreate(w, Len(author) + 1)
       \/ "reply" \in Faults /\ FileOnForge(ProcOf[w]) /\ AfterCreate(w, 0)
       \/ /\ Faults \intersect {"create", "backlog"} # {}
          /\ AfterCreate(w, 0)
          /\ UNCHANGED forgeVars
    /\ UNCHANGED <<claim, mapVars>>

\* Mutant: the link is left to RecordExternalIssuesBatch.
MarkIssueFilingClaimFiled_NoLink(w) ==
    /\ pc[w] = "mark"
    /\ claim' = IF claim.holder = ProcOf[w]
                THEN [claim EXCEPT !.state = "filed", !.issue = target[w], !.lapsed = FALSE]
                ELSE claim
    /\ Goto(w, "release")
    /\ UNCHANGED <<forgeVars, mapVars, mutex, target, via, held>>

\* UPDATE ... WHERE holder = ?: losing the row in the meantime is only logged.
MarkIssueFilingClaimFiled(w) ==
    /\ pc[w] = "mark"
    /\ \/ claim' = IF claim.holder = ProcOf[w]
                   THEN [claim EXCEPT !.state = "filed", !.issue = target[w], !.lapsed = FALSE]
                   ELSE claim
       \/ "write" \in Faults /\ UNCHANGED claim
    /\ Goto(w, "link")
    /\ UNCHANGED <<forgeVars, mapVars, mutex, target, via, held>>

updateExistingIssue(w) ==
    /\ pc[w] = "update"
    /\ \/ /\ via[w] = "adopt" /\ Goto(w, "release")
          /\ UNCHANGED <<mutex, target, via, held>>
       \/ via[w] # "adopt" /\ Return(w, target[w])
       \/ "comment" \in Faults /\ Return(w, 0)
    /\ UNCHANGED <<forgeVars, claim, mapVars>>

ReleaseIssueFilingClaim(w) ==
    /\ pc[w] = "release"
    /\ ReleaseRow(ProcOf[w]) \/ ("write" \in Faults /\ UNCHANGED claim)
    /\ Return(w, target[w])
    /\ UNCHANGED <<forgeVars, mapVars>>

\* Mutant: a second open row is not closed.
RecordRows_KeepsBoth(n) ==
    /\ mapOpen' = mapOpen \union {n}
    /\ mapClosed' = mapClosed \ {n}

\* One transaction.  The lowest number stays open; the code looks at one other
\* open row only.
RecordRows(n) ==
    LET others == mapOpen \ {n}
        lowest == CHOOSE k \in mapOpen : \A j \in mapOpen : k <= j
        opened == IF mapOpen # {} /\ lowest < n THEN others
                  ELSE IF mapOpen # {} /\ n < lowest THEN (mapOpen \ {lowest}) \union {n}
                  ELSE mapOpen \union {n}
    IN  /\ mapOpen' = opened
        /\ mapClosed' = (mapClosed \union mapOpen \union {n}) \ opened

RecordExternalIssuesBatch(w) ==
    /\ pc[w] = "record"
    /\ RecordRows(target[w]) \/ ("write" \in Faults /\ UNCHANGED mapVars)
    /\ Carry(w, 0, "none", "idle")
    /\ UNCHANGED <<forgeVars, claim, mutex, held>>

(***************************************************************************)
(* The environment.                                                        *)
(***************************************************************************)

\* Between asking for the row and giving it back.
UsesClaim(w) == held[w] \/ pc[w] \in {"readrow", "rereadrow"}

LeaseLapses ==
    /\ claim.state = "claimed" /\ ~claim.lapsed
    /\ "slow" \in Faults \/ \A w \in Workers : ProcOf[w] = claim.holder => ~UsesClaim(w)
    /\ claim' = [claim EXCEPT !.lapsed = TRUE]
    /\ UNCHANGED <<forgeVars, mapVars, mutex, localVars>>

Crash(p) ==
    LET lost(w) == ProcOf[w] = p IN
    /\ "crash" \in Faults
    /\ \E w \in Workers : lost(w) /\ pc[w] # "dead"
    /\ pc' = [w \in Workers |-> IF lost(w) THEN "dead" ELSE pc[w]]
    /\ target' = [w \in Workers |-> IF lost(w) THEN 0 ELSE target[w]]
    /\ via' = [w \in Workers |-> IF lost(w) THEN "none" ELSE via[w]]
    /\ held' = [w \in Workers |-> IF lost(w) THEN FALSE ELSE held[w]]
    /\ mutex' = [mutex EXCEPT ![p] = NoWorker]
    /\ UNCHANGED <<forgeVars, claim, mapVars>>

CloseOnForge(n) ==
    /\ "close" \in Faults
    /\ open' = open \ {n}
    /\ UNCHANGED <<author, claim, mapVars, mutex, localVars>>

Step(w) ==
    \/ RefreshExternalIssueStates(w)
    \/ BackfillExternalIssueMappings(w)
    \/ LinkForgeIssue(w)
    \/ UpsertExternalIssue(w)
    \/ MappedIssueNumber(w)
    \/ FindIssueByFingerprint(w)
    \/ AcquireIssueFilingClaim(w)
    \/ ReadClaimRow(w)
    \/ PollSearch(w)
    \/ PollRow(w)
    \/ PollDeadline(w)
    \/ PollCancelled(w)
    \/ ReacquireIssueFilingClaim(w)
    \/ RereadClaimRow(w)
    \/ createIssueForProblem(w)
    \/ MarkIssueFilingClaimFiled(w)
    \/ updateExistingIssue(w)
    \/ ReleaseIssueFilingClaim(w)
    \/ RecordExternalIssuesBatch(w)

Next ==
    \/ \E w \in Workers : Step(w)
    \/ LeaseLapses
    \/ \E p \in Procs : Crash(p)
    \/ \E n \in open : CloseOnForge(n)

Spec == Init /\ [][Next]_vars

(* A pass that has started is run to its end by its goroutine; the poll        *)
(* window is five seconds of wall clock, so its deadline comes however often   *)
(* the poll is repeated; a lease lapses with time.                             *)
Fairness ==
    /\ \A w \in Workers : WF_vars(Step(w)) /\ SF_vars(PollDeadline(w))
    /\ WF_vars(LeaseLapses)

FairSpec == Spec /\ Fairness
-----------------------------------------------------------------------------
(***************************************************************************)
(* Safety.                                                                 *)
(***************************************************************************)

ClaimType == [holder : Procs \union {NoProc}, state : {"none", "claimed", "filed"},
              issue : Nat, lapsed : BOOLEAN]

\* Every issue number the store or a pass carries is that of an issue that was
\* created on the forge; a row has a holder exactly when it exists.
TypeOK ==
    /\ author \in Seq(Procs)
    /\ open \subseteq Issues
    /\ claim \in ClaimType
    /\ claim.holder = NoProc <=> claim.state = "none"
    /\ claim.state = "filed" => claim.issue \in Issues
    /\ mapOpen \subseteq Issues /\ mapClosed \subseteq Issues
    /\ mutex \in [Procs -> Workers \union {NoWorker}]
    /\ pc \in [Workers -> Steps]
    /\ target \in [Workers -> Issues \union {0}]
    /\ via \in [Workers -> Origins]
    /\ held \in [Workers -> BOOLEAN]

(* One process never creates two issues for the fingerprint: what               *)
(* issueCreateMu and the mapping left behind by LinkForgeIssue are for.         *)
(* Needs the link to be written and CreateIssue's answer to arrive.             *)
NoProcessFilesTwice ==
    \A i, j \in Issues : author[i] = author[j] => i = j

(* Two passes that hold the durable claim are never both about to call          *)
(* CreateIssue: the exclusion AcquireIssueFilingClaim is for.  Needs leases     *)
(* that outlast the passes using them, and links that are written.              *)
ClaimExclusive ==
    \A v, w \in Workers :
        pc[v] = "create" /\ held[v] /\ pc[w] = "create" /\ held[w] => v = w

(* A filed row, the only trace of an issue whose creator may have died before   *)
(* linking it, is deleted only when a local mapping has taken its place         *)
(* (ReleaseIssueFilingClaim lets any holder delete it).                         *)
RecoveryRowOutlivesLinking ==
    [][claim.state = "filed" /\ claim'.state # "filed" => mapped # {}]_vars

(* The promise of wireIssueFilingClaims and of Manager's recovery comment: one  *)
(* open forge issue per fingerprint.  It holds for retries after crashes, lost  *)
(* answers and failed statements, and not for passes that overlap.              *)
OneOpenIssue == Cardinality(open) <= 1

(* When every pass has recorded its outcome, at most one mapping is open,       *)
(* however many issues the passes filed: RecordExternalIssuesBatch undoes the   *)
(* double links that LinkForgeIssue's check-then-insert lets through.           *)
OneOpenMappingAtRest ==
    (\A w \in Workers : pc[w] = "idle") => Cardinality(mapOpen) <= 1

(***************************************************************************)
(* Liveness.                                                               *)
(***************************************************************************)

(* A claim left behind by a process that crashed does not keep the finding      *)
(* from being filed and linked, as long as one process survives to scan again.  *)
EventuallyMapped ==
    (\E w \in Workers : []<>(pc[w] = "idle")) => <>(mapped # {})

(* createOrUpdateIssue always comes back: the in-process mutex is given up.     *)
MutexGivenUp ==
    \A w \in Workers : mutex[ProcOf[w]] = w ~> mutex[ProcOf[w]] # w

(* A finding is filed in the end: neither a claim that a dead process left      *)
(* behind, nor a pass that polls with the mutex held and returns early, keeps   *)
(* it and the passes after it waiting (createOrUpdateIssue).                    *)
FilingEnds == EventuallyMapped /\ MutexGivenUp
-----------------------------------------------------------------------------
(***************************************************************************)
(* What the proofs need besides: the inductive invariants.                 *)
(***************************************************************************)

\* A pass about to use an issue number has one.
InHand ==
    \A w \in Workers :
        pc[w] \in {"mark", "link", "linkput", "update", "record"} => target[w] # 0

TypeInv == TypeOK /\ InHand

\* Steps taken with the process's mutex locked.
Critical(w) ==
    \/ pc[w] \in {"search", "acquire", "readrow", "poll", "pollrow", "reacquire",
                  "rereadrow", "create", "mark", "update", "release"}
    \/ pc[w] \in {"link", "linkput"} /\ via[w] # "backfill"

\* Between finding the slot empty-handed and calling CreateIssue.
Unfiled(w) == pc[w] \in {"search", "acquire", "readrow", "poll", "pollrow",
                        "reacquire", "rereadrow", "create"}

\* On the way from a created issue to its mapping.
Linking(w) ==
    pc[w] = "mark" \/ (pc[w] \in {"link", "linkput"} /\ via[w] = "create")

Gone(p) == \A w \in Workers : ProcOf[w] = p => pc[w] = "dead"

LockOK(w) ==
    /\ Critical(w) => mutex[ProcOf[w]] = w
    /\ held[w] => pc[w] \in {"create", "mark", "link", "linkput", "release"}
    /\ held[w] => Critical(w)
    /\ pc[w] = "mark" => via[w] = "create"
    /\ Unfiled(w) => via[w] = "none"
    /\ pc[w] = "release" => via[w] \in {"none", "create", "adopt"}
    /\ pc[w] = "release" /\ via[w] = "none" => held[w]
    /\ held[w] /\ pc[w] \in {"link", "linkput"} => via[w] = "create"
    /\ pc[w] \in {"idle", "backfill", "lookup"} => via[w] = "none" /\ ~held[w]
    /\ pc[w] = "dead" => Gone(ProcOf[w])

LockInv == \A w \in Workers : LockOK(w)

\* A worker past its link, or adopting a filed row, leaves a mapping behind.
MappedAfterLink ==
    \A w \in Workers :
        /\ pc[w] = "release" /\ via[w] # "none" => mapped # {}
        /\ pc[w] = "update" => mapped # {}

\* Whoever was on the way to a mapping has arrived, is still on it, or died.
Tended(p) ==
    \/ mapped # {}
    \/ Gone(p)
    \/ \E w \in Workers : ProcOf[w] = p /\ Linking(w)

FiledRowAccounted == claim.state = "filed" => Tended(claim.holder)

OwnRowUnfiled ==
    \A w \in Workers :
        Unfiled(w) /\ claim.holder = ProcOf[w] => claim.state # "filed"

\* The row a pass relies on is its own, and live.
RowIsOurs(w) == claim.holder = ProcOf[w] /\ claim.state = "claimed" /\ ~claim.lapsed

ReliedRowLive ==
    \A w \in Workers :
        /\ pc[w] \in {"readrow", "rereadrow"} /\ claim.holder = ProcOf[w] => RowIsOurs(w)
        /\ held[w] /\ pc[w] = "create" => RowIsOurs(w)
        /\ pc[w] = "release" /\ via[w] = "none" => RowIsOurs(w)

ClaimInv ==
    /\ TypeInv /\ LockInv /\ MappedAfterLink
    /\ FiledRowAccounted /\ OwnRowUnfiled /\ ReliedRowLive

HasFiled(p) == \E i \in Issues : author[i] = p

AuthorsAccounted == \A p \in Procs : HasFiled(p) => Tended(p)

UnfiledIsNew ==
    \A w \in Workers : Unfiled(w) => ~HasFiled(ProcOf[w])

\* Without a claim in hand, somebody has already linked an issue.
UnclaimedIsLate ==
    \A w \in Workers :
        /\ pc[w] = "readrow" /\ claim.state = "none" => mapped # {}
        /\ pc[w] = "create" /\ ~held[w] => mapped # {}
        /\ pc[w] = "release" => via[w] # "none"

AuthorInv ==
    /\ TypeInv /\ LockInv /\ MappedAfterLink
    /\ AuthorsAccounted /\ UnfiledIsNew /\ UnclaimedIsLate /\ NoProcessFilesTwice
==============================================================================
