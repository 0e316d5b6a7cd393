------------------------- MODULE RunnerJobsProofs -------------------------
(***************************************************************************)
(* Theorems about RunnerJobs, for every set of requests and of workers and *)
(* every combination of the conditions: overlapping dispatches, workers    *)
(* started on a job by its id, and results that come twice among them.     *)
(*                                                                         *)
(* A worker's hold on a job, the handling of a result and the status of a  *)
(* job's row are kept in step by nothing but the order of the statements.  *)
(* The inductive invariants record that order: a request that is not       *)
(* dispatched has no row; a job that is claimed has left the queue; the    *)
(* only result of a job that is being handled knows what the row says.     *)
(***************************************************************************)
EXTENDS RunnerJobs, FiniteSetTheorems, TLAPS

\* A request whose dispatch is not over has no job.
Undispatched ==
    \A j \in Jobs : disp[j] # "done" => job[j] = "none"

\* A job that a worker holds has a row; one that is claimed has left the queue.
HeldJobs ==
    \A w \in Workers :
        /\ work[w].at # "idle" => job[work[w].job] # "none"
        /\ work[w].claim => job[work[w].job] # "queued"

IInv == TypeOK /\ OneClaimant /\ Undispatched /\ HeldJobs

-----------------------------------------------------------------------------
USE JobsAssumption

\* The clean-up of stale jobs touches queued and running jobs only, and makes
\* them expired (ExpireStaleRunnerJobs).
LEMMA ExpiredFacts ==
    ASSUME job \in [Jobs -> JobStatus]
    PROVE  /\ Expired(job) \in [Jobs -> JobStatus]
           /\ \A j \in Jobs :
                 \/ Expired(job)[j] = job[j]
                 \/ job[j] \in ActiveStatus /\ Expired(job)[j] = "expired"
BY DEF Expired, JobStatus, ActiveStatus, FinalStatus

\* A new job is the last by created_at, and none the less expired for it.
LEMMA AppendFacts ==
    ASSUME TypeOK, NEW j \in Jobs
    PROVE  Append(order, j) \in Seq(Jobs) /\ lapsed \in 0..Len(Append(order, j))
<1>1. order \in Seq(Jobs) /\ lapsed \in 0..Len(order)
  BY DEF TypeOK
<1>2. Append(order, j) \in Seq(Jobs) /\ Len(Append(order, j)) = Len(order) + 1
  BY <1>1
<1>3. Len(order) \in Nat
  BY <1>1
<1>4. QED
  BY <1>1, <1>2, <1>3

\* What a worker may have in hand.
InHand == {Idle} \union Busy

LEMMA HandFacts ==
    ASSUME TypeOK, NEW w \in Workers
    PROVE  /\ work[w] \in InHand
           /\ work[w].at = "idle" <=> work[w] = Idle
           /\ work[w].at # "idle" => work[w] \in Busy
           /\ Idle.at = "idle" /\ Idle.job = NoJob /\ Idle.claim = FALSE /\ Idle.gone = FALSE
           /\ work[w].claim => work[w].at # "idle"
           /\ work[w].job \in Jobs <=> work[w].at # "idle"
BY DEF TypeOK, InHand, Idle, Busy

LEMMA HoldingFacts ==
    ASSUME NEW j \in Jobs, NEW c \in BOOLEAN
    PROVE  /\ Holding(j, c) \in Busy /\ Holding(j, c).at = "holds"
           /\ Holding(j, c).job = j /\ Holding(j, c).claim = c
BY DEF Holding, Idle, Busy

\* Who works and on what, while one worker goes on with the job it has.
GoesOnTo(w, at) ==
    /\ work' \in [Workers -> InHand]
    /\ work'[w].at = at /\ work'[w].job = work[w].job /\ work'[w].claim = work[w].claim
    /\ \A v \in Workers : v # w => work'[v] = work[v]

LEMMA StageFacts ==
    ASSUME TypeOK, NEW w \in Workers, work[w].at # "idle",
           NEW at \in {"checked", "written", "finished"}, Stage(w, at)
    PROVE  GoesOnTo(w, at) /\ work'[w].ok = work[w].ok /\ work'[w].gone = work[w].gone
<1>1. work[w] \in Busy /\ work \in [Workers -> InHand]
  BY HandFacts DEF TypeOK, InHand
<1>2. work' = [work EXCEPT ![w] = [work[w] EXCEPT !.at = at]]
  BY DEF Stage
<1>3. [work[w] EXCEPT !.at = at] = [at |-> at, job |-> work[w].job, claim |-> work[w].claim,
                                    ok |-> work[w].ok, gone |-> work[w].gone]
  BY <1>1 DEF Busy
<1> QED
  BY <1>1, <1>2, <1>3 DEF Busy, InHand, GoesOnTo

LEMMA ReplyFacts ==
    ASSUME TypeOK, NEW w \in Workers, Reply(w)
    PROVE  /\ work' \in [Workers -> InHand] /\ work'[w] = Idle
           /\ \A v \in Workers : v # w => work'[v] = work[v]
BY DEF Reply, TypeOK, InHand

\* An accepted result is checked; a lost worker leaves its handler alone.
LEMMA SubmitFacts ==
    ASSUME TypeOK, NEW w \in Workers, Submit(w), ~(Reply(w) /\ raced' = raced)
    PROVE  /\ GoesOnTo(w, "checked") /\ ~Rejects(work[w].job)
           /\ raced' = IF Handling(work[w].job) = {} THEN raced ELSE raced \union {work[w].job}
<1>1. PICK ok \in BOOLEAN : work' = [work EXCEPT ![w].at = "checked", ![w].ok = ok]
  BY DEF Submit
<1>2. work[w] \in Busy /\ work \in [Workers -> InHand]
  BY HandFacts DEF Submit, TypeOK, InHand
<1>3. work'[w] = [at |-> "checked", job |-> work[w].job, claim |-> work[w].claim,
                  ok |-> ok, gone |-> work[w].gone]
  BY <1>1, <1>2 DEF Busy
<1>4. work'[w] \in Busy
  BY <1>2, <1>3 DEF Busy
<1>5. work' \in [Workers -> InHand] /\ \A v \in Workers : v # w => work'[v] = work[v]
  BY <1>1, <1>2, <1>4 DEF InHand
<1> QED
  BY <1>3, <1>5 DEF GoesOnTo, Submit

LEMMA GoneFacts ==
    ASSUME TypeOK, NEW w \in Workers, work[w].at # "idle", work' = [work EXCEPT ![w].gone = TRUE]
    PROVE  GoesOnTo(w, work[w].at) /\ work'[w].ok = work[w].ok
<1>1. work[w] \in Busy /\ work \in [Workers -> InHand]
  BY HandFacts DEF TypeOK, InHand
<1>2. work'[w] = [at |-> work[w].at, job |-> work[w].job, claim |-> work[w].claim,
                  ok |-> work[w].ok, gone |-> TRUE]
  BY <1>1 DEF Busy
<1> QED
  BY <1>1, <1>2 DEF Busy, InHand, GoesOnTo

LEMMA InitInv == Init => IInv
<1> SUFFICES ASSUME Init PROVE IInv
  OBVIOUS
<1>1. \A w \in Workers : work[w].claim = FALSE /\ work[w].at = "idle"
  BY DEF Init, Idle
<1>2. TypeOK
  BY DEF Init, TypeOK, JobStatus, ScanStatus
<1> QED
  BY <1>1, <1>2 DEF Init, IInv, OneClaimant, Undispatched, HeldJobs

(***************************************************************************)
(* Types.                                                                  *)
(***************************************************************************)
LEMMA TypeStep == TypeOK /\ [Next]_vars => TypeOK'
<1>. SUFFICES ASSUME TypeOK, [Next]_vars PROVE TypeOK'
  OBVIOUS
<1>. USE DEF JobStatus, ScanStatus, ActiveStatus, FinalStatus
<1>0. \A at : \A w \in Workers : GoesOnTo(w, at) => work' \in [Workers -> {Idle} \union Busy]
  BY DEF GoesOnTo, InHand
<1>1. ASSUME NEW j \in Jobs, Begin(j) PROVE TypeOK'
  BY <1>1, AppendFacts DEF Begin, TypeOK, history
<1>2. ASSUME NEW j \in Jobs, Count(j) PROVE TypeOK'
  BY <1>2, AppendFacts DEF Count, Refused, TypeOK
<1>3. ASSUME NEW j \in Jobs, CreateRunnerJob(j) PROVE TypeOK'
  BY <1>3 DEF CreateRunnerJob, Refused, clock, TypeOK, history
<1>4. ASSUME NEW j \in Jobs, CoreScan(j) PROVE TypeOK'
  BY <1>4 DEF CoreScan, clock, TypeOK, history
<1>5. ASSUME NEW w \in Workers, UpdateRunnerJob(w) PROVE TypeOK'
  <2>1. job' \in [Jobs -> JobStatus]
    BY <1>5 DEF UpdateRunnerJob, TypeOK
  <2>2. work' \in [Workers -> {Idle} \union Busy]
    BY <1>0, <1>5, StageFacts, ReplyFacts DEF UpdateRunnerJob, InHand
  <2>3. QED
    BY <1>5, <2>1, <2>2 DEF UpdateRunnerJob, clock, history, TypeOK
<1>6. ASSUME NEW w \in Workers, FinishScan(w) PROVE TypeOK'
  <2>1. scan' \in [Jobs -> ScanStatus]
    <3>1. work[w].job \in Jobs /\ scan[work[w].job] \in ScanStatus
      BY <1>6, HandFacts DEF FinishScan, TypeOK
    <3>2. IngestedScan(w) \in ScanStatus
      BY <3>1 DEF IngestedScan
    <3> QED
      BY <1>6, <3>2 DEF FinishScan, TypeOK
  <2>2. work' \in [Workers -> {Idle} \union Busy]
    BY <1>0, <1>6, StageFacts, ReplyFacts DEF FinishScan, InHand
  <2>3. QED
    BY <1>6, <2>1, <2>2 DEF FinishScan, clock, history, TypeOK
<1>7. ASSUME NEW w \in Workers, RecordFindings(w) PROVE TypeOK'
  <2>1. work' \in [Workers -> {Idle} \union Busy]
    BY <1>7, ReplyFacts DEF RecordFindings, InHand
  <2>2. QED
    BY <1>7, <2>1 DEF RecordFindings, clock, history, TypeOK
<1>8. ASSUME NEW j \in Jobs, CancelRunnerJob(j) PROVE TypeOK'
  BY <1>8 DEF CancelRunnerJob, clock, history, TypeOK
<1>9. ASSUME NEW w \in Workers, Claim(w) PROVE TypeOK'
  <2>1. Expired(job) \in [Jobs -> JobStatus]
    BY ExpiredFacts DEF TypeOK
  <2>2. job' \in [Jobs -> JobStatus]
    BY <1>9, <2>1 DEF Claim
  <2>3. \A j \in Ready(Expired(job)) : Holding(j, TRUE) \in Busy
    BY HoldingFacts DEF Ready
  <2>4. work' \in [Workers -> {Idle} \union Busy]
    BY <1>9, <2>3 DEF Claim, TypeOK
  <2>5. QED
    BY <1>9, <2>2, <2>4 DEF Claim, clock, history, TypeOK
<1>10. ASSUME NEW w \in Workers, Submit(w) PROVE TypeOK'
  <2>1. work' \in [Workers -> {Idle} \union Busy]
    BY <1>0, <1>10, SubmitFacts, ReplyFacts DEF InHand
  <2>2. raced' \subseteq Jobs
    BY <1>10, HandFacts DEF Submit, TypeOK
  <2>3. QED
    BY <1>10, <2>1, <2>2 DEF Submit, rows, clock, TypeOK
<1>11. ASSUME NEW w \in Workers, GiveUp(w) PROVE TypeOK'
  <2>1. work' \in [Workers -> {Idle} \union Busy]
    BY <1>0, <1>11, GoneFacts, ReplyFacts DEF GiveUp, InHand
  <2>2. QED
    BY <1>11, <2>1 DEF GiveUp, rows, clock, history, TypeOK
<1>12. ASSUME NEW w \in Workers, NEW j \in Jobs, GetJobSpec(w, j) PROVE TypeOK'
  <2>1. work' \in [Workers -> {Idle} \union Busy]
    BY <1>12, HoldingFacts DEF GetJobSpec, TypeOK
  <2>2. QED
    BY <1>12, <2>1 DEF GetJobSpec, rows, clock, history, TypeOK
<1>13. CASE Lapse
  BY <1>13 DEF Lapse, rows, history, TypeOK
<1>14. CASE Restart
  <2>1. work' \in [Workers -> {Idle} \union Busy]
    BY <1>14 DEF Restart, TypeOK
  <2>2. job \in [Jobs -> JobStatus]
    BY DEF TypeOK
  <2>3. job' \in [Jobs -> JobStatus]
    BY <1>14, <2>2, ExpiredFacts DEF Restart
  <2>4. disp' \in [Jobs -> {"idle", "begun", "counted", "core", "done"}] /\ scan' \in [Jobs -> ScanStatus]
    BY <1>14 DEF Restart, TypeOK
  <2>5. QED
    BY <1>14, <2>1, <2>3, <2>4 DEF Restart, clock, history, TypeOK
<1>15. CASE UNCHANGED vars
  BY <1>15 DEF vars, TypeOK
<1>16. QED
  BY <1>1, <1>2, <1>3, <1>4, <1>5, <1>6, <1>7, <1>8, <1>9, <1>10, <1>11, <1>12,
     <1>13, <1>14, <1>15 DEF Next, DispatchStep, HandlerStep

(***************************************************************************)
(* The order of the statements.                                            *)
(***************************************************************************)
Order == OneClaimant /\ Undispatched /\ HeldJobs

\* Nothing that leaves rows where they are, or takes them further, and gives
\* no worker another job disturbs the order.
LEMMA OrderKept ==
    ASSUME IInv,
           \A j \in Jobs : disp'[j] = disp[j] \/ disp'[j] = "done",
           \A j \in Jobs : (job[j] = "none" <=> job'[j] = "none") /\ (job'[j] = "queued" => job[j] = "queued"),
           \A w \in Workers :
             work'[w] = Idle \/
               (/\ work'[w].job = work[w].job /\ work'[w].claim = work[w].claim
                /\ work[w].at # "idle")
               \/ work'[w] = work[w]
    PROVE  Order'
<1>0. TypeOK
  BY DEF IInv
<1>1. \A w \in Workers : work'[w].claim => work[w].claim /\ work'[w].job = work[w].job
  BY <1>0, HandFacts
<1>2. \A w \in Workers : work'[w].at # "idle" => work[w].at # "idle" /\ work'[w].job = work[w].job
  BY <1>0, HandFacts
<1>3. OneClaimant'
  BY <1>1 DEF OneClaimant, IInv
<1>4. Undispatched'
  BY DEF Undispatched, IInv
<1>5. ASSUME NEW w \in Workers
      PROVE  /\ work'[w].at # "idle" => job'[work'[w].job] # "none"
             /\ work'[w].claim => job'[work'[w].job] # "queued"
  <2>1. CASE work[w].at = "idle"
    BY <1>0, <1>1, <1>2, <2>1, HandFacts
  <2>2. CASE work[w].at # "idle"
    <3>1. work[w].job \in Jobs
      BY <1>0, <2>2, HandFacts
    <3>2. job[work[w].job] # "none" /\ (work[w].claim => job[work[w].job] # "queued")
      BY <2>2 DEF IInv, HeldJobs
    <3> QED
      BY <1>1, <1>2, <3>1, <3>2
  <2> QED
    BY <2>1, <2>2
<1> QED
  BY <1>3, <1>4, <1>5 DEF Order, HeldJobs

LEMMA OrderStep == IInv /\ [Next]_vars => Order'
<1>. SUFFICES ASSUME IInv, [Next]_vars PROVE Order'
  OBVIOUS
<1>0. TypeOK /\ OneClaimant /\ Undispatched /\ HeldJobs
  BY DEF IInv
<1>a. ASSUME NEW w \in Workers, NEW at, GoesOnTo(w, at), work[w].at # "idle"
      PROVE  \A v \in Workers :
             work'[v] = Idle \/
               (/\ work'[v].job = work[v].job /\ work'[v].claim = work[v].claim
                /\ work[v].at # "idle")
               \/ work'[v] = work[v]
  BY <1>a DEF GoesOnTo
<1>b. ASSUME NEW w \in Workers, Reply(w)
      PROVE  \A v \in Workers : work'[v] = Idle \/ work'[v] = work[v]
  BY <1>0, <1>b, ReplyFacts
<1>1. ASSUME NEW j \in Jobs, Begin(j) PROVE Order'
  BY <1>0, <1>1 DEF Begin, Order, OneClaimant, Undispatched, HeldJobs, TypeOK
<1>2. ASSUME NEW j \in Jobs, Count(j) PROVE Order'
  BY <1>0, <1>2 DEF Count, Refused, Order, OneClaimant, Undispatched, HeldJobs, TypeOK
<1>3. ASSUME NEW j \in Jobs, CreateRunnerJob(j) PROVE Order'
  <2>1. UNCHANGED work /\ job[j] = "none"
    BY <1>0, <1>3 DEF CreateRunnerJob, Undispatched
  <2>2. \A w \in Workers : work[w].job # j
    BY <1>0, <2>1, HandFacts DEF HeldJobs
  <2>3. Undispatched'
    BY <1>0, <1>3 DEF CreateRunnerJob, Refused, Undispatched, TypeOK
  <2>4. \A i \in Jobs : i # j => job'[i] = job[i]
    BY <1>0, <1>3 DEF CreateRunnerJob, TypeOK
  <2>5. \A w \in Workers : work[w].claim => work[w].at # "idle"
    BY <1>0, HandFacts
  <2>6. \A w \in Workers : work[w].at # "idle" => job'[work[w].job] = job[work[w].job]
    BY <1>0, <2>2, <2>4, HandFacts
  <2>7. QED
    BY <1>0, <2>1, <2>3, <2>5, <2>6 DEF Order, OneClaimant, HeldJobs
<1>4. ASSUME NEW j \in Jobs, CoreScan(j) PROVE Order'
  BY <1>0, <1>4 DEF CoreScan, Order, OneClaimant, Undispatched, HeldJobs, TypeOK
<1>5. ASSUME NEW w \in Workers, UpdateRunnerJob(w) PROVE Order'
  <2>1. work[w].job \in Jobs /\ job[work[w].job] # "none" /\ work[w].at # "idle"
    BY <1>0, <1>5, HandFacts DEF UpdateRunnerJob, HeldJobs
  <2>2. \A j \in Jobs : (job[j] = "none" <=> job'[j] = "none") /\ (job'[j] = "queued" => job[j] = "queued")
    BY <1>0, <1>5, <2>1 DEF UpdateRunnerJob, TypeOK
  <2>3. disp' = disp /\ (Reply(w) \/ GoesOnTo(w, "written"))
    BY <1>0, <1>5, <2>1, StageFacts DEF UpdateRunnerJob
  <2>4. QED
    BY <1>a, <1>b, <2>1, <2>2, <2>3, OrderKept
<1>6. ASSUME NEW w \in Workers, FinishScan(w) \/ RecordFindings(w) PROVE Order'
  <2>1. work[w].at # "idle" /\ job' = job /\ disp' = disp
    BY <1>6 DEF FinishScan, RecordFindings
  <2>2. Reply(w) \/ GoesOnTo(w, "finished")
    BY <1>0, <1>6, <2>1, StageFacts DEF FinishScan, RecordFindings
  <2>3. QED
    BY <1>a, <1>b, <2>1, <2>2, OrderKept
<1>8. ASSUME NEW j \in Jobs, CancelRunnerJob(j) PROVE Order'
  <2>1. /\ disp' = disp /\ work' = work
        /\ \A i \in Jobs : (job[i] = "none" <=> job'[i] = "none") /\ (job'[i] = "queued" => job[i] = "queued")
    BY <1>0, <1>8 DEF CancelRunnerJob, Cancellable, ActiveStatus, TypeOK
  <2>2. QED
    BY <2>1, OrderKept
<1>9. ASSUME NEW w \in Workers, Claim(w) PROVE Order'
  <2>. DEFINE now == Expired(job)
  <2>0. job \in [Jobs -> JobStatus]
    BY <1>0 DEF TypeOK
  <2>1. now \in [Jobs -> JobStatus]
    BY <2>0, ExpiredFacts
  <2>2. \A j \in Jobs :
          now[j] = job[j] \/ (job[j] \in ActiveStatus /\ now[j] = "expired")
    BY <2>0, ExpiredFacts
  <2>3. UNCHANGED disp
    BY <1>9 DEF Claim
  <2>4. CASE job' = now /\ UNCHANGED work
    BY <2>2, <2>3, <2>4, OrderKept DEF ActiveStatus
  <2>5. ASSUME NEW j \in Ready(now), job' = [now EXCEPT ![j] = "running"],
               \/ work' = [work EXCEPT ![w] = Holding(j, TRUE)]
               \/ UNCHANGED work
        PROVE  Order'
    <3>1. j \in Jobs /\ now[j] = "queued" /\ job[j] = "queued"
      BY <2>2, <2>5 DEF Ready
    <3>. HIDE DEF now
    <3>2. /\ job'[j] = "running"
          /\ \A i \in Jobs : (job[i] = "none" <=> job'[i] = "none") /\ (job'[i] = "queued" => job[i] = "queued")
      BY <2>1, <2>2, <2>5, <3>1 DEF ActiveStatus
    <3>3. CASE UNCHANGED work
      BY <2>3, <3>2, <3>3, OrderKept
    <3>4. CASE work' = [work EXCEPT ![w] = Holding(j, TRUE)]
      <4>1. /\ work'[w].at = "holds" /\ work'[w].job = j /\ work'[w].claim
            /\ \A v \in Workers : v # w => work'[v] = work[v]
        BY <1>0, <3>1, <3>4, HoldingFacts DEF TypeOK
      <4>2. \A v \in Workers : work[v].claim => work[v].job # j
        BY <1>0, <3>1 DEF HeldJobs
      <4>3. OneClaimant'
        BY <1>0, <4>1, <4>2 DEF OneClaimant
      <4>4. Undispatched'
        BY <1>0, <2>3, <3>2 DEF Undispatched
      <4>5. ASSUME NEW v \in Workers
            PROVE  /\ work'[v].at # "idle" => job'[work'[v].job] # "none"
                   /\ work'[v].claim => job'[work'[v].job] # "queued"
        <5>1. CASE v = w
          BY <3>2, <4>1, <5>1
        <5>2. CASE v # w /\ work[v].at # "idle"
          <6>1. work'[v] = work[v] /\ work[v].job \in Jobs
            BY <1>0, <4>1, <5>2, HandFacts
          <6> QED
            BY <1>0, <3>2, <5>2, <6>1 DEF HeldJobs
        <5>3. CASE v # w /\ work[v].at = "idle"
          BY <1>0, <4>1, <5>3, HandFacts
        <5> QED
          BY <5>1, <5>2, <5>3
      <4>6. QED
        BY <4>3, <4>4, <4>5 DEF Order, HeldJobs
    <3>5. QED
      BY <2>5, <3>3, <3>4
  <2>6. QED
    BY <1>9, <2>4, <2>5 DEF Claim
<1>10. ASSUME NEW w \in Workers, Submit(w) PROVE Order'
  <2>1. work[w].at # "idle" /\ job' = job /\ disp' = disp
    BY <1>10 DEF Submit, rows
  <2>2. Reply(w) \/ GoesOnTo(w, "checked")
    BY <1>0, <1>10, SubmitFacts
  <2>3. QED
    BY <1>a, <1>b, <2>1, <2>2, OrderKept
<1>11. ASSUME NEW w \in Workers, GiveUp(w) PROVE Order'
  <2>1. work[w].at # "idle" /\ job' = job /\ disp' = disp
    BY <1>11 DEF GiveUp, rows
  <2>2. Reply(w) \/ GoesOnTo(w, work[w].at)
    BY <1>0, <1>11, <2>1, GoneFacts DEF GiveUp
  <2>3. QED
    BY <1>a, <1>b, <2>1, <2>2, OrderKept
<1>12. ASSUME NEW w \in Workers, NEW j \in Jobs, GetJobSpec(w, j) PROVE Order'
  <2>1. /\ work'[w].at = "holds" /\ work'[w].job = j /\ work'[w].claim = FALSE
        /\ \A v \in Workers : v # w => work'[v] = work[v]
        /\ job' = job /\ disp' = disp /\ job[j] # "none"
    BY <1>0, <1>12, HoldingFacts DEF GetJobSpec, TypeOK, rows
  <2>2. QED
    BY <1>0, <2>1 DEF Order, OneClaimant, Undispatched, HeldJobs
<1>13. CASE Lapse
  BY <1>0, <1>13 DEF Lapse, rows, Order, OneClaimant, Undispatched, HeldJobs
<1>14. CASE Restart
  <2>1. job \in [Jobs -> JobStatus]
    BY <1>0 DEF TypeOK
  <2>2. /\ \A j \in Jobs : disp'[j] = disp[j] \/ disp'[j] = "done"
        /\ \A w \in Workers : work'[w] = Idle \/ work'[w] = work[w]
    BY <1>14 DEF Restart
  <2>3. \A j \in Jobs : (job[j] = "none" <=> job'[j] = "none") /\ (job'[j] = "queued" => job[j] = "queued")
    BY <1>14, <2>1, ExpiredFacts DEF Restart, ActiveStatus
  <2>4. QED
    BY <2>2, <2>3, OrderKept
<1>15. CASE UNCHANGED vars
  BY <1>0, <1>15 DEF vars, Order, OneClaimant, Undispatched, HeldJobs
<1>16. QED
  BY <1>1, <1>2, <1>3, <1>4, <1>5, <1>6, <1>8, <1>9, <1>10, <1>11, <1>12,
     <1>13, <1>14, <1>15 DEF Next, DispatchStep, HandlerStep

THEOREM InvStep == IInv /\ [Next]_vars => IInv'
<1>1. IInv /\ [Next]_vars => TypeOK'
  BY TypeStep DEF IInv
<1>2. IInv /\ [Next]_vars => Order'
  BY OrderStep
<1>3. QED
  BY <1>1, <1>2 DEF IInv, Order

THEOREM Invariance == Spec => []IInv
<1>1. Init => IInv
  BY InitInv
<1>2. IInv /\ [Next]_vars => IInv'
  BY InvStep
<1>3. QED
  BY <1>1, <1>2, PTL DEF Spec

-----------------------------------------------------------------------------
\* Statuses keep to their values, a job is created once, and expiry never
\* overtakes the jobs created.
THEOREM TypeCorrect == Spec => []TypeOK
<1>1. IInv => TypeOK
  BY DEF IInv
<1>2. QED
  BY <1>1, Invariance, PTL

\* However claims, lost answers, cancellations, expiry, restarts, workers that
\* take a job by its id and results that nobody asked for fall, a job is never
\* claimed by two workers (ClaimNextRunnerJob, store/runner_sqlite.go).
THEOREM JobExclusion == Spec => []OneClaimant
<1>1. IInv => OneClaimant
  BY DEF IInv
<1>2. QED
  BY <1>1, Invariance, PTL

\* A request that core analyses itself, or that is still being dispatched,
\* has no job, and no worker is at work on it.
THEOREM CoreAlone == Spec => []CoreOrRunner
<1>1. IInv => CoreOrRunner
  <2> SUFFICES ASSUME IInv PROVE CoreOrRunner
    OBVIOUS
  <2>1. \A w \in Workers : work[w].job \in Jobs => work[w].at # "idle"
    BY HandFacts DEF IInv
  <2> QED
    BY <2>1 DEF IInv, CoreOrRunner, Undispatched, HeldJobs
<1>2. QED
  BY <1>1, Invariance, PTL

(***************************************************************************)
(* Scans: what a scan shows follows the row of its job, as long as no two  *)
(* results of the job meet.                                                *)
(***************************************************************************)
Analysed == {"analysis_complete", "completed", "persistence_incomplete"}

\* One result of a job is handled at a time.
OneResult == \A j \in Jobs \ raced : \A v, w \in Handling(j) : v = w

\* A handler knows what the rows say: the job is not completed before its own
\* update, and shows its answer after it; the scan shows nothing before
\* FinishScan, and no stored findings before RecordFindings.
HandlersKnow ==
    \A w \in Workers :
        LET j == work[w].job IN
        (j \in Jobs /\ j \notin raced) =>
            /\ work[w].at = "checked" => job[j] # "completed"
            /\ work[w].at = "written" =>
                 scan[j] \notin Analysed /\ (work[w].ok <=> job[j] = "completed")
            /\ work[w].at = "finished" => scan[j] # "completed" /\ job[j] = "completed"

\* A scan that shows an analysis was analysed by core, or its job says
\* completed, and its dispatch is over.
ScansShow ==
    \A j \in Jobs \ raced :
        scan[j] \in Analysed => disp[j] = "done" /\ job[j] \in {"none", "completed"}

ScansFollow == OneResult /\ HandlersKnow /\ ScansShow

SInv == IInv /\ ScansFollow

\* Nothing that starts no handling, takes none further, completes no job and
\* analyses no scan disturbs this.
LEMMA ScansKept ==
    ASSUME SInv, raced' = raced,
           \A w \in Workers :
             \/ work'[w].at \in {"idle", "holds"}
             \/ work'[w].at = work[w].at /\ work'[w].job = work[w].job /\ work'[w].ok = work[w].ok,
           \A j \in Jobs : disp[j] = "done" => disp'[j] = "done",
           \A j \in Jobs : disp[j] = "done" /\ job[j] = "none" => job'[j] = "none",
           \A j \in Jobs : job'[j] = "completed" <=> job[j] = "completed",
           \A j \in Jobs : scan'[j] \in Analysed => scan'[j] = scan[j]
    PROVE  ScansFollow'
<1>1. \A j \in Jobs : Handling(j)' \subseteq Handling(j)
  BY DEF Handling
<1>2. OneResult'
  BY <1>1 DEF SInv, ScansFollow, OneResult
<1>3. HandlersKnow'
  BY DEF SInv, ScansFollow, HandlersKnow, Analysed
<1>4. ScansShow'
  BY DEF SInv, ScansFollow, ScansShow, Analysed
<1> QED
  BY <1>2, <1>3, <1>4 DEF ScansFollow

\* The rows that a claim or a restart expires are neither completed nor none.
LEMMA ExpiryKeeps ==
    ASSUME TypeOK, NEW j \in Jobs
    PROVE  /\ Expired(job)[j] = "completed" <=> job[j] = "completed"
           /\ Expired(job)[j] = "none" <=> job[j] = "none"
BY ExpiredFacts DEF TypeOK, ActiveStatus

\* A claim completes no job, and makes none.
LEMMA ClaimKeeps ==
    ASSUME TypeOK, NEW w \in Workers, Claim(w), NEW j \in Jobs
    PROVE  /\ job'[j] = "completed" <=> job[j] = "completed"
           /\ job'[j] = "none" <=> job[j] = "none"
           /\ job[j] \in FinalStatus => job'[j] = job[j]
<1>1. Expired(job) \in [Jobs -> JobStatus]
  BY ExpiredFacts DEF TypeOK
<1>2. /\ Expired(job)[j] = "completed" <=> job[j] = "completed"
      /\ Expired(job)[j] = "none" <=> job[j] = "none"
      /\ job[j] \in FinalStatus => Expired(job)[j] = job[j]
  BY ExpiryKeeps, ExpiredFacts DEF TypeOK, ActiveStatus, FinalStatus
<1>3. CASE job' = Expired(job)
  BY <1>2, <1>3
<1>4. ASSUME NEW i \in Ready(Expired(job)), job' = [Expired(job) EXCEPT ![i] = "running"]
      PROVE  /\ job'[j] = "completed" <=> job[j] = "completed"
             /\ job'[j] = "none" <=> job[j] = "none"
             /\ job[j] \in FinalStatus => job'[j] = job[j]
  <2>1. i \in Jobs /\ Expired(job)[i] = "queued"
    BY DEF Ready
  <2>2. CASE i = j
    BY <1>1, <1>2, <1>4, <2>1, <2>2 DEF FinalStatus
  <2>3. CASE i # j
    BY <1>1, <1>2, <1>4, <2>1, <2>3
  <2> QED
    BY <2>2, <2>3
<1> QED
  BY <1>3, <1>4 DEF Claim

LEMMA ScansStep == SInv /\ [Next]_vars => ScansFollow'
<1>. SUFFICES ASSUME SInv, [Next]_vars PROVE ScansFollow'
  OBVIOUS
<1>0. TypeOK /\ Undispatched /\ HeldJobs /\ OneResult /\ HandlersKnow /\ ScansShow
  BY DEF SInv, IInv, ScansFollow
<1>h. \A w \in Workers : work[w].at # "idle" => work[w].job \in Jobs /\ job[work[w].job] # "none"
  BY <1>0, HandFacts DEF HeldJobs
\* What a worker that goes on leaves to the others.
<1>a. ASSUME NEW w \in Workers, NEW j \in Jobs \ raced, w \in Handling(j),
             NEW v \in Workers, v # w, work[v].at \in {"checked", "written", "finished"}
      PROVE  work[v].job # j
  BY <1>0, <1>a DEF OneResult, Handling
<1>b. ASSUME NEW w \in Workers, Reply(w)
      PROVE  \A v \in Workers : work'[v].at \in {"idle", "holds"} \/ work'[v] = work[v]
  BY <1>0, <1>b, ReplyFacts, HandFacts
<1>1. ASSUME NEW j \in Jobs, Begin(j) PROVE ScansFollow'
  BY <1>0, <1>1, ScansKept DEF Begin, TypeOK, history, Analysed
<1>2. ASSUME NEW j \in Jobs, Count(j) PROVE ScansFollow'
  BY <1>0, <1>2, ScansKept DEF Count, Refused, TypeOK, Analysed
<1>3. ASSUME NEW j \in Jobs, CreateRunnerJob(j) PROVE ScansFollow'
  <2>1. job[j] = "none" /\ work' = work /\ raced' = raced
    BY <1>0, <1>3 DEF CreateRunnerJob, Undispatched, history
  <2>2. /\ \A i \in Jobs : disp[i] = "done" => disp'[i] = "done"
        /\ \A i \in Jobs : disp[i] = "done" /\ job[i] = "none" => job'[i] = "none"
        /\ \A i \in Jobs : job'[i] = "completed" <=> job[i] = "completed"
        /\ \A i \in Jobs : scan'[i] \in Analysed => scan'[i] = scan[i]
    BY <1>0, <1>3, <2>1 DEF CreateRunnerJob, Refused, TypeOK, Analysed
  <2>3. QED
    BY <2>1, <2>2, ScansKept
<1>4. ASSUME NEW j \in Jobs, CoreScan(j) PROVE ScansFollow'
  <2>1. job[j] = "none" /\ UNCHANGED <<job, work, raced>>
    BY <1>0, <1>4 DEF CoreScan, Undispatched, history
  <2>2. \A w \in Workers : work[w].at # "idle" => work[w].job # j
    BY <1>h, <2>1
  <2>3. OneResult'
    BY <1>0, <2>1 DEF OneResult, Handling
  <2>4. \A i \in Jobs : i # j => scan'[i] = scan[i] /\ disp'[i] = disp[i]
    BY <1>0, <1>4 DEF CoreScan, TypeOK
  <2>5. disp'[j] = "done"
    BY <1>0, <1>4 DEF CoreScan, TypeOK
  <2>6. HandlersKnow'
    BY <1>0, <2>1, <2>2, <2>4 DEF HandlersKnow
  <2>7. ScansShow'
    BY <1>0, <2>1, <2>4, <2>5 DEF ScansShow
  <2> QED
    BY <2>3, <2>6, <2>7 DEF ScansFollow
<1>5. ASSUME NEW w \in Workers, UpdateRunnerJob(w) PROVE ScansFollow'
  <2>. DEFINE j == work[w].job
  <2>1. /\ j \in Jobs /\ job[j] # "none" /\ w \in Handling(j)
        /\ UNCHANGED <<disp, scan, raced>>
    BY <1>h, <1>5 DEF UpdateRunnerJob, Handling, history
  <2>2. CASE Reply(w) /\ UNCHANGED job
    BY <1>b, <2>1, <2>2, ScansKept
  <2>3. CASE Stage(w, "written") /\ job' = [job EXCEPT ![j] = IF work[w].ok THEN "completed" ELSE "failed"]
    <3>1. GoesOnTo(w, "written") /\ work'[w].ok = work[w].ok
      BY <1>0, <1>5, <2>3, StageFacts DEF UpdateRunnerJob
    <3>2. /\ job'[j] = IF work[w].ok THEN "completed" ELSE "failed"
          /\ \A i \in Jobs : i # j => job'[i] = job[i]
      BY <1>0, <2>1, <2>3 DEF TypeOK
    <3>3. j \notin raced => job[j] # "completed" /\ scan[j] \notin Analysed
      BY <1>0, <1>5, <2>1 DEF UpdateRunnerJob, HandlersKnow, ScansShow
    <3>. HIDE DEF j
    <3>4. \A i \in Jobs : Handling(i)' \subseteq Handling(i)
      BY <2>1, <3>1 DEF GoesOnTo, Handling, j
    <3>5. OneResult'
      BY <1>0, <2>1, <3>4 DEF OneResult
    <3>6. HandlersKnow'
      <4> SUFFICES ASSUME NEW v \in Workers, work'[v].job \in Jobs, work'[v].job \notin raced'
                   PROVE  LET i == work'[v].job IN
                          /\ work'[v].at = "checked" => job'[i] # "completed"
                          /\ work'[v].at = "written" =>
                               scan'[i] \notin Analysed /\ (work'[v].ok <=> job'[i] = "completed")
                          /\ work'[v].at = "finished" => scan'[i] # "completed" /\ job'[i] = "completed"
        BY DEF HandlersKnow, Analysed
      <4>1. CASE v = w
        BY <2>1, <3>1, <3>2, <3>3, <4>1 DEF GoesOnTo, j
      <4>2. CASE v # w
        <5>1. work'[v] = work[v]
          BY <3>1, <4>2 DEF GoesOnTo
        <5>2. CASE work[v].job = j
          BY <1>a, <2>1, <4>2, <5>1, <5>2
        <5>3. CASE work[v].job # j
          BY <1>0, <2>1, <3>2, <5>1, <5>3 DEF HandlersKnow
        <5> QED
          BY <5>2, <5>3
      <4> QED
        BY <4>1, <4>2
    <3>7. ScansShow'
      BY <1>0, <2>1, <3>2, <3>3 DEF ScansShow
    <3> QED
      BY <3>5, <3>6, <3>7 DEF ScansFollow
  <2>4. QED
    BY <1>5, <2>2, <2>3 DEF UpdateRunnerJob
<1>6. ASSUME NEW w \in Workers, FinishScan(w) PROVE ScansFollow'
  <2>. DEFINE j == work[w].job
  <2>1. /\ j \in Jobs /\ job[j] # "none" /\ w \in Handling(j)
        /\ UNCHANGED <<disp, job, raced>>
    BY <1>h, <1>6 DEF FinishScan, Handling, history
  <2>2. CASE Reply(w) /\ UNCHANGED scan
    BY <1>b, <2>1, <2>2, ScansKept
  <2>3. CASE /\ scan' = [scan EXCEPT ![j] = IngestedScan(w)]
             /\ IF work[w].ok THEN Stage(w, "finished") ELSE Reply(w)
    <3>1. /\ \A v \in Workers : v # w => work'[v] = work[v]
          /\ work'[w] = Idle \/ (GoesOnTo(w, "finished") /\ work[w].ok)
      BY <1>0, <1>6, <2>3, StageFacts, ReplyFacts DEF FinishScan, GoesOnTo
    <3>2. /\ scan'[j] = IngestedScan(w)
          /\ \A i \in Jobs : i # j => scan'[i] = scan[i]
      BY <1>0, <2>1, <2>3 DEF TypeOK
    <3>3. j \notin raced => scan[j] \notin Analysed /\ (work[w].ok <=> job[j] = "completed")
      BY <1>0, <1>6, <2>1 DEF FinishScan, HandlersKnow
    <3>4. j \notin raced => (scan'[j] \in Analysed => job[j] = "completed") /\ scan'[j] # "completed"
      BY <3>2, <3>3 DEF IngestedScan, Analysed
    <3>5. disp[j] = "done"
      BY <1>0, <2>1 DEF Undispatched
    <3>. HIDE DEF j
    <3>6. \A i \in Jobs : Handling(i)' \subseteq Handling(i)
      BY <2>1, <3>1 DEF GoesOnTo, Handling, j, Idle
    <3>7. OneResult'
      BY <1>0, <2>1, <3>6 DEF OneResult
    <3>8. HandlersKnow'
      <4> SUFFICES ASSUME NEW v \in Workers, work'[v].job \in Jobs, work'[v].job \notin raced'
                   PROVE  LET i == work'[v].job IN
                          /\ work'[v].at = "checked" => job'[i] # "completed"
                          /\ work'[v].at = "written" =>
                               scan'[i] \notin Analysed /\ (work'[v].ok <=> job'[i] = "completed")
                          /\ work'[v].at = "finished" => scan'[i] # "completed" /\ job'[i] = "completed"
        BY DEF HandlersKnow, Analysed
      <4>1. CASE v = w
        BY <2>1, <3>1, <3>3, <3>4, <4>1 DEF GoesOnTo, j, Idle
      <4>2. CASE v # w
        <5>1. work'[v] = work[v]
          BY <3>1, <4>2
        <5>2. CASE work[v].job = j
          BY <1>a, <2>1, <4>2, <5>1, <5>2
        <5>3. CASE work[v].job # j
          BY <1>0, <2>1, <3>2, <5>1, <5>3 DEF HandlersKnow
        <5> QED
          BY <5>2, <5>3
      <4> QED
        BY <4>1, <4>2
    <3>9. ScansShow'
      BY <1>0, <2>1, <3>2, <3>4, <3>5 DEF ScansShow
    <3> QED
      BY <3>7, <3>8, <3>9 DEF ScansFollow
  <2>4. QED
    BY <1>6, <2>2, <2>3 DEF FinishScan
<1>7. ASSUME NEW w \in Workers, RecordFindings(w) PROVE ScansFollow'
  <2>. DEFINE j == work[w].job
  <2>1. /\ j \in Jobs /\ job[j] # "none" /\ w \in Handling(j)
        /\ UNCHANGED <<disp, job, raced>>
    BY <1>h, <1>7 DEF RecordFindings, Handling, history
  <2>2. work'[w] = Idle /\ \A v \in Workers : v # w => work'[v] = work[v]
    BY <1>0, <1>7, ReplyFacts DEF RecordFindings
  <2>3. \A i \in Jobs : i # j => scan'[i] = scan[i]
    BY <1>0, <1>7, <2>1 DEF RecordFindings, TypeOK
  <2>4. j \notin raced => job[j] = "completed"
    BY <1>0, <1>7, <2>1 DEF RecordFindings, HandlersKnow
  <2>5. disp[j] = "done"
    BY <1>0, <2>1 DEF Undispatched
  <2>. HIDE DEF j
  <2>6. \A i \in Jobs : Handling(i)' \subseteq Handling(i)
    BY <2>2 DEF Handling, Idle
  <2>7. OneResult'
    BY <1>0, <2>1, <2>6 DEF OneResult
  <2>8. HandlersKnow'
    <3> SUFFICES ASSUME NEW v \in Workers, work'[v].job \in Jobs, work'[v].job \notin raced'
                 PROVE  LET i == work'[v].job IN
                        /\ work'[v].at = "checked" => job'[i] # "completed"
                        /\ work'[v].at = "written" =>
                             scan'[i] \notin Analysed /\ (work'[v].ok <=> job'[i] = "completed")
                        /\ work'[v].at = "finished" => scan'[i] # "completed" /\ job'[i] = "completed"
      BY DEF HandlersKnow, Analysed
    <3>1. CASE v = w
      BY <2>2, <3>1 DEF Idle
    <3>2. CASE v # w /\ work[v].job = j
      BY <1>a, <2>1, <2>2, <3>2
    <3>3. CASE v # w /\ work[v].job # j
      BY <1>0, <2>1, <2>2, <2>3, <3>3 DEF HandlersKnow
    <3> QED
      BY <3>1, <3>2, <3>3
  <2>9. ScansShow'
    BY <1>0, <2>1, <2>3, <2>4, <2>5 DEF ScansShow
  <2> QED
    BY <2>7, <2>8, <2>9 DEF ScansFollow
<1>8. ASSUME NEW j \in Jobs, CancelRunnerJob(j) PROVE ScansFollow'
  BY <1>0, <1>8, ScansKept DEF CancelRunnerJob, Cancellable, ActiveStatus, history, TypeOK
<1>9. ASSUME NEW w \in Workers, Claim(w) PROVE ScansFollow'
  <2>1. UNCHANGED <<disp, scan, raced>>
    BY <1>9 DEF Claim, history
  <2>2. \A v \in Workers : work'[v].at = "holds" \/ work'[v] = work[v]
    <3>1. \A j \in Ready(Expired(job)) : Holding(j, TRUE).at = "holds"
      BY HoldingFacts DEF Ready
    <3> QED
      BY <1>0, <1>9, <3>1 DEF Claim, TypeOK
  <2>3. QED
    BY <1>0, <1>9, <2>1, <2>2, ClaimKeeps, ScansKept
<1>10. ASSUME NEW w \in Workers, Submit(w) PROVE ScansFollow'
  <2>1. UNCHANGED <<disp, job, scan>>
    BY <1>10 DEF Submit, rows
  <2>2. CASE Reply(w) /\ raced' = raced
    BY <1>b, <2>1, <2>2, ScansKept
  <2>3. CASE ~(Reply(w) /\ raced' = raced)
    <3>. DEFINE j == work[w].job
    <3>1. /\ GoesOnTo(w, "checked") /\ ~Rejects(j)
          /\ raced' = IF Handling(j) = {} THEN raced ELSE raced \union {j}
      BY <1>0, <1>10, <2>3, SubmitFacts
    <3>2. j \in Jobs /\ job[j] # "completed"
      BY <1>h, <1>10, <3>1 DEF Submit, Rejects
    <3>. HIDE DEF j
    <3>3. /\ \A i \in Jobs : i # j => Handling(i)' \subseteq Handling(i)
          /\ Handling(j)' \subseteq Handling(j) \union {w}
      BY <3>1 DEF GoesOnTo, Handling, j
    <3>4. OneResult'
      <4> SUFFICES ASSUME NEW i \in Jobs \ raced', NEW u \in Handling(i)', NEW v \in Handling(i)'
                   PROVE  u = v
        BY DEF OneResult
      <4>1. CASE i = j
        BY <3>1, <4>1 DEF GoesOnTo, Handling, j
      <4>2. CASE i # j
        BY <1>0, <3>1, <3>3, <4>2 DEF OneResult
      <4> QED
        BY <4>1, <4>2
    <3>5. HandlersKnow'
      <4> SUFFICES ASSUME NEW v \in Workers, work'[v].job \in Jobs, work'[v].job \notin raced'
                   PROVE  LET i == work'[v].job IN
                          /\ work'[v].at = "checked" => job'[i] # "completed"
                          /\ work'[v].at = "written" =>
                               scan'[i] \notin Analysed /\ (work'[v].ok <=> job'[i] = "completed")
                          /\ work'[v].at = "finished" => scan'[i] # "completed" /\ job'[i] = "completed"
        BY DEF HandlersKnow, Analysed
      <4>1. CASE v = w
        BY <2>1, <3>1, <3>2, <4>1 DEF GoesOnTo, j
      <4>2. CASE v # w
        BY <1>0, <2>1, <3>1, <4>2 DEF GoesOnTo, HandlersKnow
      <4> QED
        BY <4>1, <4>2
    <3>6. ScansShow'
      BY <1>0, <2>1, <3>1 DEF ScansShow
    <3> QED
      BY <3>4, <3>5, <3>6 DEF ScansFollow
  <2> QED
    BY <2>2, <2>3
<1>11. ASSUME NEW w \in Workers, GiveUp(w) PROVE ScansFollow'
  <2>1. UNCHANGED <<disp, job, scan, raced>> /\ work[w].at # "idle"
    BY <1>11 DEF GiveUp, rows, history
  <2>2. CASE Reply(w)
    BY <1>b, <2>1, <2>2, ScansKept
  <2>3. CASE work' = [work EXCEPT ![w].gone = TRUE]
    <3>1. GoesOnTo(w, work[w].at) /\ work'[w].ok = work[w].ok
      BY <1>0, <2>1, <2>3, GoneFacts
    <3>2. \A v \in Workers :
            work'[v].at = work[v].at /\ work'[v].job = work[v].job /\ work'[v].ok = work[v].ok
      BY <3>1 DEF GoesOnTo
    <3> QED
      BY <2>1, <3>2, ScansKept
  <2> QED
    BY <1>11, <2>2, <2>3 DEF GiveUp
<1>12. ASSUME NEW w \in Workers, NEW j \in Jobs, GetJobSpec(w, j) PROVE ScansFollow'
  <2>1. UNCHANGED <<disp, job, scan, raced>>
    BY <1>12 DEF GetJobSpec, rows, history
  <2>2. \A v \in Workers : work'[v].at = "holds" \/ work'[v] = work[v]
    BY <1>0, <1>12, HoldingFacts DEF GetJobSpec, TypeOK
  <2>3. QED
    BY <2>1, <2>2, ScansKept
<1>13. CASE Lapse
  BY <1>0, <1>13, ScansKept DEF Lapse, rows, history
<1>14. CASE Restart
  <2>1. /\ \A w \in Workers : work'[w].at = "idle" \/ work'[w] = work[w]
        /\ \A j \in Jobs : scan'[j] \in Analysed => scan'[j] = scan[j]
        /\ \A j \in Jobs : disp[j] = "done" => disp'[j] = "done"
        /\ raced' = raced /\ job' = Expired(job)
    BY <1>14 DEF Restart, Idle, Analysed, history
  <2>2. QED
    BY <1>0, <2>1, ExpiryKeeps, ScansKept
<1>15. CASE UNCHANGED vars
  BY <1>0, <1>15, ScansKept DEF vars
<1>16. QED
  BY <1>1, <1>2, <1>3, <1>4, <1>5, <1>6, <1>7, <1>8, <1>9, <1>10, <1>11, <1>12,
     <1>13, <1>14, <1>15 DEF Next, DispatchStep, HandlerStep

THEOREM ScansInvariance == Spec => []SInv
<1>1. Init => SInv
  <2> SUFFICES ASSUME Init PROVE ScansFollow
    BY InitInv DEF SInv
  <2>1. \A w \in Workers : work[w].at = "idle"
    BY DEF Init, Idle
  <2>2. \A j \in Jobs : scan[j] = "none"
    BY DEF Init
  <2> QED
    BY <2>1, <2>2 DEF ScansFollow, OneResult, Handling, HandlersKnow, ScansShow, Analysed
<1>2. SInv /\ [Next]_vars => SInv'
  BY InvStep, ScansStep DEF SInv
<1>3. QED
  BY <1>1, <1>2, PTL DEF Spec

\* A scan never shows a result that the row of its job does not, whatever
\* becomes of the request that brought it, unless two results of the job met.
THEOREM AnalysisAnswered == Spec => []AnalysisIsAnswered
<1>1. SInv => AnalysisIsAnswered
  BY DEF SInv, ScansFollow, ScansShow, Analysed, AnalysisIsAnswered
<1>2. QED
  BY <1>1, ScansInvariance, PTL

\* A job that has ended is changed by nothing but a result.
LEMMA AnswerIsFinal == Spec => EndedJobStays
<1>1. SInv /\ [Next]_vars
        => [\A j \in Jobs :
              /\ job[j] \in FinalStatus => job'[j] \in {job[j], "completed", "failed"}
              /\ job[j] = "completed" /\ j \notin raced => job'[j] = "completed"]_vars
  <2>. SUFFICES ASSUME SInv, Next, NEW j \in Jobs, job[j] \in FinalStatus
                PROVE  /\ job'[j] \in {job[j], "completed", "failed"}
                       /\ job[j] = "completed" /\ j \notin raced => job'[j] = "completed"
    BY DEF FinalStatus
  <2>0. TypeOK /\ Undispatched /\ HandlersKnow
    BY DEF SInv, IInv, ScansFollow
  <2>1. ASSUME NEW i \in Jobs, DispatchStep(i) PROVE job'[j] = job[j]
    BY <2>0, <2>1 DEF DispatchStep, Begin, Count, CreateRunnerJob, CoreScan, TypeOK,
                      Undispatched, FinalStatus
  <2>2. ASSUME NEW w \in Workers, UpdateRunnerJob(w)
        PROVE  /\ job'[j] \in {job[j], "completed", "failed"}
               /\ job[j] = "completed" /\ j \notin raced => job'[j] = "completed"
    BY <2>0, <2>2 DEF UpdateRunnerJob, HandlersKnow, TypeOK
  <2>3. ASSUME NEW i \in Jobs, CancelRunnerJob(i) PROVE job'[j] = job[j]
    BY <2>0, <2>3 DEF CancelRunnerJob, Cancellable, ActiveStatus, TypeOK, FinalStatus
  <2>4. ASSUME NEW w \in Workers, Claim(w) PROVE job'[j] = job[j]
    BY <2>0, <2>4, ClaimKeeps
  <2>5. ASSUME NEW w \in Workers, Submit(w) \/ GiveUp(w) \/ FinishScan(w) \/ RecordFindings(w)
        PROVE  job'[j] = job[j]
    BY <2>5 DEF Submit, GiveUp, FinishScan, RecordFindings, rows
  <2>6. ASSUME NEW w \in Workers, NEW i \in Jobs, GetJobSpec(w, i) PROVE job'[j] = job[j]
    BY <2>6 DEF GetJobSpec, rows
  <2>7. CASE Lapse \/ Restart
    <3>1. Expired(job)[j] = job[j]
      BY <2>0, ExpiredFacts DEF TypeOK, ActiveStatus, FinalStatus
    <3> QED
      BY <2>7, <3>1 DEF Lapse, Restart, rows
  <2>8. QED
    BY <2>1, <2>2, <2>3, <2>4, <2>5, <2>6, <2>7 DEF Next, HandlerStep
<1>2. QED
  BY <1>1, ScansInvariance, PTL DEF Spec, EndedJobStays

\* A scan whose findings are stored is not touched by a late result, by the
\* fallback to core or by the clean-up of a restart.
LEMMA StoredIsFinal == Spec => CompletedScanStays
<1>1. SInv /\ [Next]_vars
        => [\A j \in Jobs \ raced : scan[j] = "completed" => scan'[j] = "completed"]_vars
  <2>. SUFFICES ASSUME SInv, Next, NEW j \in Jobs \ raced, scan[j] = "completed"
                PROVE  scan'[j] = "completed"
    OBVIOUS
  <2>0. TypeOK /\ HandlersKnow /\ ScansShow
    BY DEF SInv, IInv, ScansFollow
  <2>1. /\ disp[j] = "done"
        /\ \A w \in Workers : work[w].job = j => work[w].at \notin {"written", "finished"}
    BY <2>0 DEF ScansShow, HandlersKnow, Analysed
  <2>2. ASSUME NEW i \in Jobs, DispatchStep(i) PROVE scan'[j] = "completed"
    BY <2>0, <2>1, <2>2 DEF DispatchStep, Begin, Count, CreateRunnerJob, CoreScan,
                            Refused, TypeOK
  <2>3. ASSUME NEW w \in Workers, HandlerStep(w) PROVE scan'[j] = "completed"
    BY <2>0, <2>1, <2>3 DEF HandlerStep, UpdateRunnerJob, FinishScan, RecordFindings, TypeOK
  <2>4. ASSUME NEW i \in Jobs, CancelRunnerJob(i) PROVE scan'[j] = "completed"
    BY <2>4 DEF CancelRunnerJob
  <2>5. ASSUME NEW w \in Workers, Claim(w) \/ Submit(w) \/ GiveUp(w)
        PROVE  scan'[j] = "completed"
    BY <2>5 DEF Claim, Submit, GiveUp, rows
  <2>6. CASE Lapse \/ \E w \in Workers, i \in Jobs : GetJobSpec(w, i)
    BY <2>6 DEF Lapse, GetJobSpec, rows
  <2>7. CASE Restart
    BY <2>7 DEF Restart, Reapable
  <2>8. QED
    BY <2>2, <2>3, <2>4, <2>5, <2>6, <2>7 DEF Next
<1>2. QED
  BY <1>1, ScansInvariance, PTL DEF Spec, CompletedScanStays

\* Whatever results come, late, twice, or from workers that claimed nothing, a
\* job that has ended is changed by nothing else; and while no two of them meet,
\* neither the row of a completed job nor a scan whose findings are stored
\* changes again.
THEOREM AnswersAreFinal == Spec => AnswersStay
BY AnswerIsFinal, StoredIsFinal DEF AnswersStay

(***************************************************************************)
(* The limit on jobs.                                                      *)
(***************************************************************************)

\* The jobs that the limit has to hold for, and the requests whose count is over
\* and whose insert is not.
Room == (Active \intersect Limited) \ crowded
Counted == {j \in Limited : disp[j] = "counted"} \ crowded

\* Of the requests that are counted and not inserted, only one found no other
\* such request when it was counted; and that one has a place.
Capped ==
    /\ IsFiniteSet(Active)
    /\ Cardinality(Room) <= MaxJobs
    /\ \A i, j \in Counted : i = j
    /\ Counted # {} => Cardinality(Room) < MaxJobs

LEMMA RoomFacts ==
    ASSUME IsFiniteSet(Active)
    PROVE  /\ IsFiniteSet(Room) /\ Cardinality(Room) \in Nat
           /\ Cardinality(Active) \in Nat /\ Cardinality(Room) <= Cardinality(Active)
<1>1. Room \in SUBSET Active
  BY DEF Room
<1> QED
  BY <1>1, FS_Subset, FS_CardinalityType

\* Whatever neither adds a job to the active ones nor counts a request keeps to
\* the limit.
LEMMA FewerJobs ==
    ASSUME Capped, Active' \subseteq Active, crowded' = crowded,
           \A j \in Jobs : disp'[j] = "counted" => disp[j] = "counted"
    PROVE  Capped'
<1>. DEFINE m == Cardinality(Room')
            n == Cardinality(Room)
<1>1. IsFiniteSet(Active) /\ IsFiniteSet(Room)
  BY RoomFacts DEF Capped
<1>2. Room' \in SUBSET Room /\ Active' \in SUBSET Active
  BY DEF Room, Limited
<1>3. IsFiniteSet(Active') /\ m \in Nat /\ n \in Nat /\ m <= n
  BY <1>1, <1>2, FS_Subset, FS_CardinalityType
<1>4. Counted' \subseteq Counted
  BY DEF Counted, Limited
<1>5. n <= MaxJobs /\ (Counted # {} => n < MaxJobs) /\ \A i, j \in Counted : i = j
  BY DEF Capped
<1>. HIDE DEF m, n
<1>6. m <= MaxJobs /\ (Counted' # {} => m < MaxJobs)
  BY <1>3, <1>4, <1>5, MaxJobsAssumption
<1>7. QED
  BY <1>3, <1>4, <1>5, <1>6 DEF Capped, m

LEMMA CappedStep ==
    ASSUME IInv, Capped, [Next]_vars
    PROVE  Capped'
<1>0. TypeOK /\ Undispatched
  BY DEF IInv
<1>1. ASSUME NEW j \in Jobs, Begin(j) PROVE Capped'
  <2>1. UNCHANGED <<job, crowded>>
    BY <1>1 DEF Begin, history
  <2>2. Active' = Active /\ Room' = Room
    BY <2>1 DEF Active, Room
  <2>3. Counted' = Counted
    BY <1>0, <1>1, <2>1 DEF Begin, Counted, Limited, TypeOK
  <2>4. QED
    BY <2>2, <2>3 DEF Capped
<1>2. ASSUME NEW j \in Jobs, Count(j) PROVE Capped'
  <2>1. job' = job /\ disp[j] = "begun" /\ Active' = Active
    BY <1>2 DEF Count, Active
  <2>2. CASE Refused(j) /\ crowded' = crowded
    <3>1. \A i \in Jobs : disp'[i] = "counted" => disp[i] = "counted"
      BY <1>0, <2>2 DEF Refused, TypeOK
    <3>2. QED
      BY <2>1, <2>2, <3>1, FewerJobs
  <2>3. CASE /\ ~Full /\ disp' = [disp EXCEPT ![j] = "counted"]
             /\ crowded' = IF \E i \in Limited : disp[i] = "counted"
                           THEN crowded \union {j} ELSE crowded
    <3>1. job[j] = "none" /\ j \notin Active
      BY <1>0, <2>1 DEF Undispatched, Active, ActiveStatus
    <3>2. Room' = Room
      BY <2>1, <2>3, <3>1 DEF Room, Limited
    <3>3. IsFiniteSet(Active)
      BY DEF Capped
    <3>4. CASE \E i \in Limited : disp[i] = "counted"
      <4>1. Counted' \subseteq Counted
        BY <1>0, <2>3, <3>4 DEF Counted, TypeOK, Limited
      <4>2. QED
        BY <2>1, <3>2, <4>1 DEF Capped
    <3>5. CASE ~\E i \in Limited : disp[i] = "counted"
      <4>1. Counted' \subseteq {j}
        BY <1>0, <2>3, <3>5 DEF Counted, TypeOK, Limited
      <4>2. ~(Cardinality(Active) >= MaxJobs)
        BY <2>3 DEF Full
      <4>3. Cardinality(Room) < MaxJobs /\ Cardinality(Room) \in Nat
        BY <3>3, <4>2, RoomFacts, MaxJobsAssumption
      <4>4. QED
        BY <2>1, <3>2, <3>3, <4>1, <4>3, MaxJobsAssumption DEF Capped
    <3>6. QED
      BY <3>4, <3>5
  <2>4. QED
    BY <1>2, <2>2, <2>3 DEF Count
<1>3. ASSUME NEW j \in Jobs, CreateRunnerJob(j) PROVE Capped'
  <2>1. disp[j] = "counted" /\ job[j] = "none" /\ j \notin Active /\ crowded' = crowded
    BY <1>0, <1>3 DEF CreateRunnerJob, Undispatched, Active, ActiveStatus, history
  <2>2. CASE Refused(j) /\ UNCHANGED job
    <3>1. \A i \in Jobs : disp'[i] = "counted" => disp[i] = "counted"
      BY <1>0, <2>2 DEF Refused, TypeOK
    <3>2. QED
      BY <2>1, <2>2, <3>1, FewerJobs DEF Active
  <2>3. CASE job' = [job EXCEPT ![j] = "queued"] /\ disp' = [disp EXCEPT ![j] = "done"]
    <3>1. Active' = Active \union {j}
      BY <1>0, <2>3 DEF Active, ActiveStatus, TypeOK
    <3>2. IsFiniteSet(Active) /\ IsFiniteSet(Active')
      BY <3>1, FS_AddElement DEF Capped
    <3>3. Counted' = Counted \ {j}
      BY <1>0, <2>1, <2>3 DEF Counted, TypeOK, Limited
    <3>4. CASE j \in Counted
      <4>1. Counted' = {} /\ Cardinality(Room) < MaxJobs
        BY <3>3, <3>4 DEF Capped
      <4>2. Room' = Room \union {j} /\ j \notin Room
        BY <2>1, <3>1, <3>4 DEF Room, Counted, Limited
      <4>3. IsFiniteSet(Room) /\ Cardinality(Room) \in Nat
        BY <3>2, RoomFacts
      <4>4. Cardinality(Room') = Cardinality(Room) + 1
        BY <4>2, <4>3, FS_AddElement
      <4>5. Cardinality(Room') <= MaxJobs
        BY <4>1, <4>3, <4>4, MaxJobsAssumption
      <4>6. QED
        BY <3>2, <4>1, <4>5 DEF Capped
    <3>5. CASE j \notin Counted
      <4>1. Room' = Room /\ Counted' = Counted
        BY <2>1, <3>1, <3>3, <3>5 DEF Room, Counted, Limited
      <4>2. QED
        BY <3>2, <4>1 DEF Capped
    <3>6. QED
      BY <3>4, <3>5
  <2>4. QED
    BY <1>3, <2>2, <2>3 DEF CreateRunnerJob
<1>4. ASSUME NEW j \in Jobs, CoreScan(j) PROVE Capped'
  <2>1. \A i \in Jobs : disp'[i] = "counted" => disp[i] = "counted"
    BY <1>0, <1>4 DEF CoreScan, TypeOK
  <2>2. QED
    BY <1>4, <2>1, FewerJobs DEF CoreScan, Active, history
<1>5. ASSUME Active' \subseteq Active, disp' = disp, crowded' = crowded PROVE Capped'
  BY <1>5, FewerJobs
<1>6. ASSUME NEW w \in Workers, UpdateRunnerJob(w) PROVE Capped'
  <2>1. Active' \subseteq Active /\ disp' = disp /\ crowded' = crowded
    BY <1>0, <1>6 DEF UpdateRunnerJob, Active, ActiveStatus, TypeOK, history
  <2>2. QED
    BY <1>5, <2>1
<1>7. ASSUME NEW w \in Workers, FinishScan(w) \/ RecordFindings(w) PROVE Capped'
  BY <1>5, <1>7 DEF FinishScan, RecordFindings, Active, history
<1>8. ASSUME NEW j \in Jobs, CancelRunnerJob(j) PROVE Capped'
  <2>1. Active' \subseteq Active /\ disp' = disp /\ crowded' = crowded
    BY <1>0, <1>8 DEF CancelRunnerJob, Cancellable, Active, ActiveStatus, TypeOK, history
  <2>2. QED
    BY <1>5, <2>1
<1>9. \A j \in Jobs : Expired(job)[j] \in ActiveStatus => job[j] \in ActiveStatus
  BY <1>0, ExpiredFacts DEF TypeOK, ActiveStatus
<1>10. ASSUME NEW w \in Workers, Claim(w) PROVE Capped'
  <2>1. Expired(job) \in [Jobs -> JobStatus]
    BY <1>0, ExpiredFacts DEF TypeOK
  <2>2. \A j \in Ready(Expired(job)) : j \in Jobs /\ Expired(job)[j] \in ActiveStatus
    BY DEF Ready, ActiveStatus
  <2>3. Active' \subseteq Active
    BY <1>9, <1>10, <2>1, <2>2 DEF Claim, Active
  <2>4. QED
    BY <1>5, <1>10, <2>3 DEF Claim, history
<1>11. ASSUME NEW w \in Workers, Submit(w) \/ GiveUp(w) PROVE Capped'
  BY <1>5, <1>11 DEF Submit, GiveUp, rows, Active, history
<1>12. ASSUME NEW w \in Workers, NEW j \in Jobs, GetJobSpec(w, j) PROVE Capped'
  BY <1>5, <1>12 DEF GetJobSpec, rows, Active, history
<1>13. CASE Lapse
  BY <1>5, <1>13 DEF Lapse, rows, Active, history
<1>14. CASE Restart
  <2>1. Active' \subseteq Active
    BY <1>9, <1>14 DEF Restart, Active
  <2>2. crowded' = crowded /\ \A i \in Jobs : disp'[i] # "counted"
    BY <1>14 DEF Restart, history
  <2>3. QED
    BY <2>1, <2>2, FewerJobs
<1>15. CASE UNCHANGED vars
  BY <1>5, <1>15 DEF vars, Active
<1>16. QED
  BY <1>1, <1>2, <1>3, <1>4, <1>6, <1>7, <1>8, <1>10, <1>11, <1>12, <1>13, <1>14, <1>15
     DEF Next, DispatchStep, HandlerStep

\* However many dispatches overlap, the jobs that are counted against
\* runner_max_concurrent_jobs pass it only by those whose count missed a request
\* that was counted and not inserted yet; for any limit and any number of
\* requests and workers, whatever the container jobs, lost answers, results that
\* come twice, expiry, cancellations and restarts do.
THEOREM CapacityHeld == Spec => []WithinCapacity
<1>1. Init => IInv /\ Capped
  <2>1. ASSUME Init PROVE Capped
    <3>1. Active = {} /\ Room = {} /\ Counted = {}
      <4>1. Active = {} /\ \A j \in Limited : disp[j] # "counted"
        BY <2>1 DEF Init, Active, ActiveStatus, Limited
      <4> QED
        BY <4>1 DEF Room, Counted
    <3>2. IsFiniteSet({}) /\ Cardinality({}) = 0
      BY FS_EmptySet
    <3>3. 0 <= MaxJobs
      BY MaxJobsAssumption
    <3>4. QED
      BY <3>1, <3>2, <3>3 DEF Capped
  <2>2. QED
    BY <2>1, InitInv
<1>2. IInv /\ Capped /\ [Next]_vars => (IInv /\ Capped)'
  BY CappedStep, InvStep
<1>3. IInv /\ Capped => WithinCapacity
  BY DEF Capped, Room, WithinCapacity
<1>4. QED
  BY <1>1, <1>2, <1>3, PTL DEF Spec
=============================================================================
