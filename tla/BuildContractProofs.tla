------------------------- MODULE BuildContractProofs -------------------------
(* Proofs about BuildContract, for any number of builds and instances, any   *)
(* deadlines and any number of outages: what the leases promise to a         *)
(* build-service that keeps its contract.                                    *)
EXTENDS BuildContract, BuildQueueProofs

Results == ReportTypes \ {"STARTED"}

\* The statuses of a build that has been given to build-service.
Given == {"DISPATCHED", "RUNNING", "EXPIRED", "SUCCEEDED", "FAILED"}

ServiceTyped ==
    /\ exec \in [Builds -> {"IDLE", "RUNNING", "ENDED", "DIED"}]
    /\ runFor \in [Builds -> 0..MaxDuration]
    /\ startBy \in [Builds -> Int]
    /\ transit \in [Builds -> [ReportTypes -> -1..TransitTime]]
    /\ outages \in 0..MaxOutages
    /\ up \/ outages > 0

\* A report holds a row only while it is being heard.
HeldIsSent == \A b \in Builds : locking[b] # "NONE" => Sent(b, locking[b])

\* What is reported, and what the row says it heard, has happened.
ReportsTrue ==
    /\ HeldIsSent
    /\ \A b \in Builds :
         /\ \A t \in ReportTypes : Sent(b, t) => exec[b] # "IDLE"
         /\ \A t \in Results : Sent(b, t) => exec[b] = "ENDED"
         /\ status[b] = "RUNNING" => exec[b] # "IDLE" /\ left[b] \in Nat
         /\ status[b] \in {"SUCCEEDED", "FAILED"} => exec[b] = "ENDED"

\* What is run, or may still be started, has been given to build-service.
OnlyTheGiven ==
    \A b \in Builds :
        /\ startBy[b] > 0 \/ exec[b] # "IDLE" => attempt[b] > 0
        /\ attempt[b] > 0 => Instances # {} /\ status[b] \in Given
        /\ attempt[b] > 0 /\ status[b] = "EXPIRED" => reason[b] \in {"START_TIMEOUT", "LEASE_EXPIRED"}

ServiceInv == ServiceTyped /\ ReportsTrue /\ OnlyTheGiven /\ NothingImpossible

-----------------------------------------------------------------------------
(* Every step of the contract is a step of the scheduler, or none of it. *)

LEMMA ContractStep == ContractNext => [Next]_vars
<1> SUFFICES ASSUME ContractNext PROVE [Next]_vars
  OBVIOUS
<1>1. ASSUME NEW b \in Builds, StartBuild(b) \/ LoseBuild(b) PROVE UNCHANGED vars
  BY <1>1 DEF StartBuild, LoseBuild
<1>2. ASSUME NEW b \in Builds, ReportRolledBack(b) PROVE Report
  BY <1>2 DEF ReportRolledBack, Report
<1>3. ASSUME NEW b \in Builds, NEW t \in ReportTypes, EndBuild(b, t) \/ ReportUnmatched(b, t)
      PROVE  UNCHANGED vars
  BY <1>3 DEF EndBuild, ReportUnmatched
<1>4. ASSUME NEW b \in Builds, NEW t \in ReportTypes, HearReport(b, t) \/ ReportHeard(b, t)
      PROVE  Report
  BY <1>4 DEF HearReport, ReportHeard, Report
<1>5. BackboneFails \/ BackboneReturns => UNCHANGED vars
  BY DEF BackboneFails, BackboneReturns
<1>6. QueueStep => Next
  BY DEF QueueStep, Next, Elsewhere
<1>7. ASSUME NEW i \in Sweeping, Ask(i) \/ SweepRun(i) PROVE Sweep(i)
  BY <1>7 DEF Ask, SweepRun, Sweep
<1>8. TimePasses => Tick
  BY DEF TimePasses
<1> QED BY <1>1, <1>2, <1>3, <1>4, <1>5, <1>6, <1>7, <1>8 DEF ContractNext, Next, Elsewhere

LEMMA ContractIsSpec == ContractSpec => Spec
<1>1. ContractInit => Init
  BY DEF ContractInit
<1>2. [ContractNext]_contractVars => [Next]_vars
  BY ContractStep DEF contractVars
<1> QED BY <1>1, <1>2, PTL DEF ContractSpec, Spec

-----------------------------------------------------------------------------
(* What the queue's own steps do to a row.                                  *)

Still(b) == status'[b] = status[b] /\ attempt'[b] = attempt[b] /\ reason'[b] = reason[b]

\* The row enters the queue, waits or leaves it unserved; no attempt has been made.
Waits(b) ==
    /\ status[b] \in {"ABSENT", "QUEUED"} /\ attempt'[b] = attempt[b]
    /\ status'[b] \in {"QUEUED", "REJECTED", "SUPERSEDED", "CANCELLED", "EXPIRED"}

GoesOut(b) ==
    /\ status[b] \in {"QUEUED", "DISPATCHED"} /\ status'[b] = "DISPATCHED"
    /\ attempt'[b] = attempt[b] + 1

Overdue(b) ==
    /\ status[b] = "DISPATCHED" /\ status'[b] = "EXPIRED" /\ reason'[b] = "START_TIMEOUT"
    /\ attempt'[b] = attempt[b]

Lapses(b) ==
    /\ status[b] = "RUNNING" /\ left[b] = 0 /\ ~unreachable
    /\ status'[b] = "EXPIRED" /\ reason'[b] = "LEASE_EXPIRED"
    /\ attempt'[b] = attempt[b]

LeftKept(b) == left'[b] = left[b] \/ status[b] = "QUEUED"

QueueMoves == \A b \in Builds : (Still(b) /\ LeftKept(b)) \/ Waits(b) \/ (GoesOut(b) /\ status[b] = "QUEUED")

LEMMA QueueStepMoves ==
    ASSUME IInv, QueueStep
    PROVE  /\ QueueMoves
           /\ UNCHANGED <<locking, asked, unreachable>>
           /\ attempt' # attempt => Instances # {}
<1> USE DEF QueueMoves, Still, Waits, GoesOut, LeftKept
<1>0. /\ status \in [Builds -> Statuses] /\ attempt \in [Builds -> Nat]
      /\ reason \in [Builds -> Reasons] /\ left \in [Builds -> Nat \cup {Never}]
  BY DEF IInv, TypeInv, Typed, RowsTyped
<1>1. ASSUME UNCHANGED <<status, attempt, reason, left>> PROVE QueueMoves
  BY <1>1
<1>2. ASSUME NEW p \in Pushes, NEW b \in Builds, Supersede(b, p) PROVE QueueMoves
  <2>1. PICK w \in WaitingFor(p) :
          /\ status' = [status EXCEPT ![w] = "SUPERSEDED", ![b] = "QUEUED"]
          /\ reason' = [reason EXCEPT ![w] = "SUPERSEDED"]
    BY <1>2 DEF Supersede
  <2>2. /\ w \in Builds /\ status[w] = "QUEUED" /\ status[b] = "ABSENT" /\ attempt' = attempt
        /\ \A d \in WaitingFor(p) : status[d] = "QUEUED"
        /\ left' = [d \in Builds |-> IF d = b THEN MaxAge
                                     ELSE IF d \in WaitingFor(p) THEN 0 ELSE left[d]]
    BY <1>2 DEF Supersede, WaitingFor, Queued, IsNext, Enqueued
  <2> QED BY <1>0, <2>1, <2>2
<1>3. ASSUME NEW p \in Pushes, NEW b \in Builds, Enqueue(b, p) PROVE QueueMoves
  <2>1. \A d \in WaitingFor(p) : status[d] = "QUEUED"
    BY DEF WaitingFor, Queued
  <2> QED BY <1>0, <1>3, <2>1 DEF Enqueue, IsNext, Enqueued
<1>4. ASSUME NEW p \in Pushes, NEW b \in Builds, Reject(b, p) PROVE QueueMoves
  BY <1>0, <1>4 DEF Reject, IsNext, Ended
<1>5. ASSUME NEW b \in Builds, CancelByUser(b) PROVE QueueMoves
  BY <1>0, <1>5 DEF CancelByUser, Ended, Disarmed
<1>6. ASSUME NEW a \in Apps, OnAppDeleted(a) PROVE QueueMoves
  BY <1>0, <1>6 DEF OnAppDeleted, Ended, Disarmed, OfApp, Queued
<1>7. ASSUME NEW o \in Orgs, OnOrgDeleted(o) PROVE QueueMoves
  BY <1>0, <1>7 DEF OnOrgDeleted, Ended, Disarmed, OfOrg, Queued
<1>8. ASSUME NEW i \in Instances, RoundCommit(i) PROVE QueueMoves
  BY <1>0, <1>8 DEF RoundCommit, IInv, RoundInv, SentWaits
<1>9. ASSUME \/ \E p \in Pushes : DropPush(p)
             \/ \E a \in Apps : OnAppCreated(a)
             \/ \E i \in Instances : RoundOpen(i) \/ Turn(i) \/ DispatchOne(i) \/ RoundAbort(i)
      PROVE  UNCHANGED <<status, attempt, reason, left>>
  BY <1>9 DEF DropPush, OnAppCreated, RoundOpen, Turn, DispatchOne, RoundAbort, buildVars
<1> HIDE DEF QueueMoves
<1>10. QueueMoves
  BY <1>1, <1>2, <1>3, <1>4, <1>5, <1>6, <1>7, <1>8, <1>9, InstancesAssumption, TenantsAssumption
     DEF QueueStep, Intake, Teardown, Round
<1>11. UNCHANGED <<locking, asked, unreachable>>
  <2>1. CASE Intake
    BY <2>1 DEF Intake, DropPush, Supersede, Enqueue, Reject, sweepVars
  <2>2. CASE Teardown
    BY <2>2 DEF Teardown, CancelByUser, OnAppCreated, OnAppDeleted, OnOrgDeleted, sweepVars
  <2>3. CASE \E i \in Dispatching : Round(i)
    BY <2>3 DEF Round, RoundOpen, Turn, DispatchOne, RoundCommit, RoundAbort, sweepVars
  <2> QED BY <2>1, <2>2, <2>3 DEF QueueStep
<1>12. attempt' # attempt => Instances # {}
  <2>1. CASE Intake
    BY <2>1 DEF Intake, DropPush, Supersede, Enqueue, Enqueued, Reject, buildVars
  <2>2. CASE Teardown
    BY <2>2 DEF Teardown, CancelByUser, OnAppCreated, OnAppDeleted, OnOrgDeleted, buildVars
  <2> QED BY <2>1, <2>2, InstancesAssumption DEF QueueStep
<1> QED BY <1>10, <1>11, <1>12

\* What a sweep does to a row: it may only move the deadline of one that is in flight.
SweepMoves(i) ==
    \A b \in Builds :
        \/ Still(b) /\ (left'[b] = left[b] \/ (SweepRecovered(i) /\ left'[b] = Grace /\ left[b] < Grace))
        \/ status[b] = "QUEUED" /\ Waits(b)
        \/ GoesOut(b)
        \/ Overdue(b)
        \/ Lapses(b) /\ asked[i] = "HEARD"

LEMMA SweepStepMoves ==
    ASSUME IInv, NEW i \in Sweeping, SweepRun(i)
    PROVE  /\ SweepMoves(i)
           /\ asked[i] # "IDLE" /\ asked' = [asked EXCEPT ![i] = "IDLE"]
           /\ UNCHANGED locking
           /\ unreachable' # unreachable => SweepDeaf(i) \/ SweepRecovered(i)
<1> USE DEF SweepMoves, Still, Waits, GoesOut, Overdue, Lapses
<1>0. /\ status \in [Builds -> Statuses] /\ attempt \in [Builds -> Nat]
      /\ reason \in [Builds -> Reasons] /\ left \in [Builds -> Nat \cup {Never}]
  BY DEF IInv, TypeInv, Typed, RowsTyped
<1>1. CASE SweepDeaf(i)
  <2>1. PICK queue \in SUBSET Builds : Ended(queue, "EXPIRED", "QUEUE_TIMEOUT") /\ queue \subseteq DueIn("QUEUED")
    BY <1>1 DEF SweepDeaf, Batch, DueIn
  <2>2. attempt' = attempt /\ left' = left
    BY <1>1 DEF SweepDeaf
  <2>3. SweepMoves(i)
    BY <1>0, <2>1, <2>2 DEF Ended, DueIn
  <2> HIDE DEF SweepMoves
  <2> QED BY <1>1, <2>3 DEF SweepDeaf
<1>2. CASE SweepRecovered(i)
  <2>1. PICK queue \in SUBSET Builds : Ended(queue, "EXPIRED", "QUEUE_TIMEOUT") /\ queue \subseteq DueIn("QUEUED")
    BY <1>2 DEF SweepRecovered, Batch, DueIn
  <2>2. attempt' = attempt /\ left' = [b \in Builds |-> IF b \in NearDeadline THEN Grace ELSE left[b]]
    BY <1>2 DEF SweepRecovered
  <2>3. \A b \in NearDeadline : left[b] < Grace /\ status[b] # "QUEUED"
    BY DEF NearDeadline, InFlight, IsInFlight
  <2>4. SweepMoves(i)
    BY <1>0, <1>2, <2>1, <2>2, <2>3 DEF Ended, DueIn
  <2> HIDE DEF SweepMoves
  <2> QED BY <1>2, <2>4 DEF SweepRecovered
<1>3. CASE SweepDue(i)
  <2> DEFINE Unstarted == IF i \in paused THEN {} ELSE LastAttempt
             Again == IF i \in paused THEN {} ELSE Redispatchable
  <2>1. PICK queue \in Batch(DueIn("QUEUED"), SweepBatch), start \in Batch(Unstarted, SweepBatch),
             lease \in Batch(DueIn("RUNNING"), SweepBatch) :
          \E again \in Batch(Again, SweepBatch - Cardinality(start)) :
             /\ Expired(queue, start, lease)
             /\ attempt' = [b \in Builds |-> IF b \in again THEN attempt[b] + 1 ELSE attempt[b]]
             /\ left' = [b \in Builds |-> IF b \in again THEN StartTimeout ELSE left[b]]
    BY <1>3 DEF SweepDue
  <2>2. PICK again \in Batch(Again, SweepBatch - Cardinality(start)) :
             /\ attempt' = [b \in Builds |-> IF b \in again THEN attempt[b] + 1 ELSE attempt[b]]
             /\ left' = [b \in Builds |-> IF b \in again THEN StartTimeout ELSE left[b]]
    BY <2>1
  <2>3. /\ \A b \in queue : status[b] = "QUEUED"
        /\ \A b \in start : status[b] = "DISPATCHED" /\ attempt[b] >= MaxAttempts
        /\ \A b \in lease : status[b] = "RUNNING" /\ left[b] = 0
    BY <2>1 DEF Batch, DueIn, LastAttempt
  <2>4. \A b \in again : status[b] = "DISPATCHED" /\ attempt[b] < MaxAttempts
    BY <2>2 DEF Batch, DueIn, Redispatchable
  <2>5. \A b \in again : b \notin queue \cup start \cup lease
    BY <1>0, <2>3, <2>4, LimitsAssumption DEF Batch, Redispatchable, DueIn
  <2>6. /\ status' = [b \in Builds |-> IF b \in queue \cup start \cup lease THEN "EXPIRED" ELSE status[b]]
        /\ reason' = [b \in Builds |-> CASE b \in queue -> "QUEUE_TIMEOUT"
                                         [] b \in start -> "START_TIMEOUT"
                                         [] b \in lease -> "LEASE_EXPIRED"
                                         [] OTHER -> reason[b]]
    BY <2>1 DEF Expired
  <2>7. ~unreachable /\ asked[i] = "HEARD" /\ UNCHANGED <<locking, unreachable>>
        /\ asked' = [asked EXCEPT ![i] = "IDLE"]
    BY <1>3 DEF SweepDue
  <2>8. ASSUME NEW b \in Builds
        PROVE  \/ Still(b) /\ left'[b] = left[b]
               \/ status[b] = "QUEUED" /\ Waits(b)
               \/ GoesOut(b) \/ Overdue(b)
               \/ Lapses(b)
    <3>1. CASE b \in queue
      BY <2>2, <2>3, <2>5, <2>6, <3>1
    <3>2. CASE b \in start
      BY <2>2, <2>3, <2>5, <2>6, <3>2
    <3>3. CASE b \in lease
      BY <2>2, <2>3, <2>5, <2>6, <2>7, <3>3
    <3>4. CASE b \in again
      BY <2>2, <2>4, <2>5, <2>6, <3>4
    <3>5. CASE b \notin queue \cup start \cup lease /\ b \notin again
      BY <2>2, <2>6, <3>5
    <3> QED BY <3>1, <3>2, <3>3, <3>4, <3>5
  <2> HIDE DEF Still, Waits, GoesOut, Overdue, Lapses
  <2> QED BY <2>7, <2>8
<1> QED BY <1>1, <1>2, <1>3 DEF SweepRun

-----------------------------------------------------------------------------
(* What is reported has happened, and what is run has been given out.       *)

LEMMA ServiceStart == ContractInit => ServiceInv
<1> SUFFICES ASSUME ContractInit PROVE ServiceInv
  OBVIOUS
<1>1. ServiceTyped
  BY ContractAssumption DEF ContractInit, ServiceTyped, NotSent
<1>2. ReportsTrue /\ OnlyTheGiven
  BY DEF ContractInit, Init, ReportsTrue, HeldIsSent, OnlyTheGiven, Results, Sent, NotSent, Given
<1> QED BY <1>1, <1>2 DEF ServiceInv, NothingImpossible, ContractInit

\* Writing the transit time of one report.
LEMMA TransitWrites ==
    ASSUME ServiceTyped, NEW b \in Builds, NEW t \in ReportTypes, NEW v \in -1..TransitTime
    PROVE  [transit EXCEPT ![b][t] = v] \in [Builds -> [ReportTypes -> -1..TransitTime]]
<1>1. [transit[b] EXCEPT ![t] = v] \in [ReportTypes -> -1..TransitTime]
  BY DEF ServiceTyped
<1> QED BY <1>1 DEF ServiceTyped

LEMMA ServiceTypes == IInv /\ ServiceInv /\ [ContractNext]_contractVars => ServiceTyped'
<1> SUFFICES ASSUME IInv, ServiceInv, [ContractNext]_contractVars PROVE ServiceTyped'
  OBVIOUS
<1> USE ContractAssumption DEF ServiceInv, ServiceTyped
<1>0. TransitTime \in -1..TransitTime /\ NotSent \in -1..TransitTime
  BY DEF NotSent
<1>1. ASSUME NEW b \in Builds, StartBuild(b) PROVE ServiceTyped'
  <2>1. "STARTED" \in ReportTypes
    BY DEF ReportTypes
  <2>2. transit' \in [Builds -> [ReportTypes -> -1..TransitTime]]
    BY <1>0, <1>1, <2>1, TransitWrites DEF StartBuild, Send
  <2>3. exec' \in [Builds -> {"IDLE", "RUNNING", "ENDED", "DIED"}] /\ runFor' \in [Builds -> 0..MaxDuration]
    BY <1>1 DEF StartBuild
  <2> QED BY <1>1, <2>2, <2>3 DEF StartBuild
<1>2. ASSUME NEW b \in Builds, LoseBuild(b) \/ ReportRolledBack(b) PROVE ServiceTyped'
  BY <1>2 DEF LoseBuild, ReportRolledBack, serviceVars
<1>3. ASSUME NEW b \in Builds, NEW t \in ReportTypes, EndBuild(b, t) PROVE ServiceTyped'
  <2>1. transit' \in [Builds -> [ReportTypes -> -1..TransitTime]]
    BY <1>0, <1>3, TransitWrites DEF EndBuild, Send
  <2>2. exec' \in [Builds -> {"IDLE", "RUNNING", "ENDED", "DIED"}]
    BY <1>3 DEF EndBuild
  <2> QED BY <1>3, <2>1, <2>2 DEF EndBuild
<1>4. ASSUME NEW b \in Builds, NEW t \in ReportTypes, HearReport(b, t) PROVE ServiceTyped'
  BY <1>4 DEF HearReport, serviceVars
<1>5. ASSUME NEW b \in Builds, NEW t \in ReportTypes, ReportHeard(b, t) \/ ReportUnmatched(b, t)
      PROVE  ServiceTyped'
  <2>1. transit' = [transit EXCEPT ![b][t] = NotSent]
    BY <1>5 DEF ReportHeard, ReportUnmatched, Consume
  <2>2. transit' \in [Builds -> [ReportTypes -> -1..TransitTime]]
    BY <1>0, <2>1, TransitWrites
  <2> QED BY <1>5, <2>2 DEF ReportHeard, ReportUnmatched
<1>6. CASE BackboneFails
  <2>1. outages' \in 0..MaxOutages /\ outages' > 0
    BY <1>6 DEF BackboneFails
  <2>2. UNCHANGED <<exec, runFor, startBy, transit>>
    BY <1>6 DEF BackboneFails, serviceVars
  <2> QED BY <2>1, <2>2
<1>7. CASE BackboneReturns
  BY <1>0, <1>7 DEF BackboneReturns
<1>8. Published => startBy' \in [Builds -> Int]
  BY DeadlinesAssumption DEF Published, Never
<1>9. CASE QueueStep
  BY <1>8, <1>9 DEF QueueStep
<1>10. ASSUME NEW i \in Sweeping, Ask(i) \/ SweepRun(i) PROVE ServiceTyped'
  BY <1>8, <1>10 DEF Ask, SweepRun, serviceVars
<1>11. CASE TimePasses
  <2>1. runFor' \in [Builds -> 0..MaxDuration]
    BY <1>11 DEF TimePasses, Less
  <2>2. startBy' \in [Builds -> Int]
    BY <1>11 DEF TimePasses, Less
  <2>3. transit' \in [Builds -> [ReportTypes -> -1..TransitTime]]
    BY <1>11 DEF TimePasses, Less
  <2> QED BY <1>11, <2>1, <2>2, <2>3 DEF TimePasses
<1>12. CASE UNCHANGED contractVars
  BY <1>12 DEF contractVars, serviceVars
<1> QED BY <1>1, <1>2, <1>3, <1>4, <1>5, <1>6, <1>7, <1>9, <1>10, <1>11, <1>12 DEF ContractNext

\* Sending and consuming one report leaves the others where they are.
LEMMA SentAfter ==
    ASSUME ServiceTyped, NEW b \in Builds, NEW t \in ReportTypes
    PROVE  /\ Send(b, t) => \A d \in Builds, u \in ReportTypes :
                 Sent(d, u)' <=> Sent(d, u) \/ (d = b /\ u = t)
           /\ Consume(b, t) => \A d \in Builds, u \in ReportTypes :
                 Sent(d, u)' <=> Sent(d, u) /\ ~(d = b /\ u = t)
<1> USE ContractAssumption DEF ServiceTyped, Sent, NotSent
<1>1. ASSUME Send(b, t), NEW d \in Builds, NEW u \in ReportTypes
      PROVE  Sent(d, u)' <=> Sent(d, u) \/ (d = b /\ u = t)
  BY <1>1 DEF Send
<1>2. ASSUME Consume(b, t), NEW d \in Builds, NEW u \in ReportTypes
      PROVE  Sent(d, u)' <=> Sent(d, u) /\ ~(d = b /\ u = t)
  BY <1>2 DEF Consume
<1> QED BY <1>1, <1>2

\* Steps of build-service itself.
LEMMA ExecKeeps ==
    ASSUME IInv, ServiceInv, NEW b \in Builds, StartBuild(b) \/ LoseBuild(b) \/ \E t \in ReportTypes : EndBuild(b, t)
    PROVE  ReportsTrue' /\ OnlyTheGiven'
<1> USE DEF ServiceInv
<1>0. exec \in [Builds -> {"IDLE", "RUNNING", "ENDED", "DIED"}] /\ "STARTED" \in ReportTypes
  BY DEF ServiceTyped, ReportTypes
<1>1. /\ UNCHANGED <<status, attempt, reason, left, locking, startBy>>
      /\ exec'[b] # "IDLE" /\ \A d \in Builds : d # b => exec'[d] = exec[d]
      /\ exec[b] # "ENDED" /\ exec'[b] # exec[b]
  BY <1>0 DEF StartBuild, LoseBuild, EndBuild, vars
<1>2. \A d \in Builds, u \in ReportTypes : Sent(d, u) => Sent(d, u)'
  BY <1>0, SentAfter DEF StartBuild, LoseBuild, EndBuild, Sent
<1>3. \A d \in Builds, u \in Results : Sent(d, u)' => exec'[d] = "ENDED"
  <2>1. CASE StartBuild(b)
    BY <1>0, <1>1, <2>1, SentAfter DEF StartBuild, ReportsTrue, Results
  <2>2. CASE LoseBuild(b)
    BY <1>1, <2>2 DEF LoseBuild, ReportsTrue, Sent
  <2>3. ASSUME NEW t \in ReportTypes, EndBuild(b, t) PROVE \A d \in Builds, u \in Results : Sent(d, u)' => exec'[d] = "ENDED"
    <3>1. exec'[b] = "ENDED"
      BY <1>0, <2>3 DEF EndBuild
    <3> QED BY <1>1, <2>3, <3>1, SentAfter DEF EndBuild, ReportsTrue, Results
  <2> QED BY <2>1, <2>2, <2>3
<1>4. \A d \in Builds, u \in ReportTypes : Sent(d, u)' => exec'[d] # "IDLE"
  <2>1. CASE StartBuild(b)
    BY <1>0, <1>1, <2>1, SentAfter DEF StartBuild, ReportsTrue
  <2>2. CASE LoseBuild(b)
    BY <1>1, <2>2 DEF LoseBuild, ReportsTrue, Sent
  <2>3. ASSUME NEW t \in ReportTypes, EndBuild(b, t) PROVE \A d \in Builds, u \in ReportTypes : Sent(d, u)' => exec'[d] # "IDLE"
    BY <1>1, <2>3, SentAfter DEF EndBuild, ReportsTrue
  <2> QED BY <2>1, <2>2, <2>3
<1>5. \A d \in Builds : locking[d] # "NONE" => locking[d] \in ReportTypes
  BY DEF IInv, TypeInv, Typed, LocksTyped
<1>6. ReportsTrue'
  <2>1. HeldIsSent'
    BY <1>1, <1>2, <1>5 DEF ReportsTrue, HeldIsSent, Sent
  <2> QED BY <1>1, <1>3, <1>4, <2>1 DEF ReportsTrue
<1>7. startBy[b] > 0 \/ exec[b] # "IDLE"
  BY DEF StartBuild, LoseBuild, EndBuild
<1>8. OnlyTheGiven'
  BY <1>1, <1>7 DEF OnlyTheGiven
<1> QED BY <1>6, <1>8

\* Steps that touch neither rows nor what build-service does.
LEMMA ChannelKeeps ==
    ASSUME IInv, ServiceInv, UNCHANGED <<status, attempt, reason, exec>>,
           \A d \in Builds : startBy'[d] > 0 => startBy[d] > 0,
           \A d \in Builds : left[d] \in Nat => left'[d] \in Nat,
           \A d \in Builds, u \in ReportTypes : Sent(d, u)' => Sent(d, u),
           HeldIsSent'
    PROVE  ReportsTrue' /\ OnlyTheGiven'
<1> USE DEF ServiceInv
<1>1. ReportsTrue'
  BY DEF ReportsTrue, Results
<1>2. OnlyTheGiven'
  BY DEF OnlyTheGiven
<1> QED BY <1>1, <1>2

\* A report is heard: the row moves to what it says.
LEMMA HeardKeeps ==
    ASSUME IInv, ServiceInv, NEW b \in Builds, NEW t \in ReportTypes, ReportHeard(b, t)
    PROVE  ReportsTrue' /\ OnlyTheGiven'
<1> USE DEF ServiceInv
<1>0. /\ status \in [Builds -> Statuses] /\ left \in [Builds -> Nat \cup {Never}]
      /\ reason \in [Builds -> Reasons] /\ locking \in [Builds -> ReportTypes \cup {"NONE"}]
  BY DEF IInv, TypeInv, Typed, RowsTyped, LocksTyped
<1>1. /\ UNCHANGED <<attempt, exec, startBy>> /\ locking[b] = t /\ t # "NONE"
      /\ \A d \in Builds : d # b => status'[d] = status[d] /\ left'[d] = left[d] /\ reason'[d] = reason[d]
                                    /\ locking'[d] = locking[d]
      /\ locking'[b] = "NONE"
      /\ status'[b] = IF t = "STARTED" THEN "RUNNING" ELSE t
      /\ left'[b] = IF t = "STARTED" THEN RunLease ELSE 0
  BY <1>0 DEF ReportHeard, ReportCommit, Moved, ReportTypes
<1>2. status[b] \in ReportFrom(t)
  BY <1>1 DEF IInv, RoundInv, LockSound
<1>3. RunLease \in Nat
  BY ContractAssumption, DeadlinesAssumption
<1>4. \A d \in Builds, u \in ReportTypes : Sent(d, u)' <=> Sent(d, u) /\ ~(d = b /\ u = t)
  BY SentAfter DEF ReportHeard
<1>5. Sent(b, t) /\ exec[b] # "IDLE" /\ (t # "STARTED" => exec[b] = "ENDED")
  BY <1>1 DEF ReportsTrue, HeldIsSent, Results
<1>6. ReportsTrue'
  <2>1. \A d \in Builds : /\ \A u \in ReportTypes : Sent(d, u)' => exec'[d] # "IDLE"
                          /\ \A u \in Results : Sent(d, u)' => exec'[d] = "ENDED"
    BY <1>1, <1>4 DEF ReportsTrue, Results
  <2>2. HeldIsSent'
    <3> SUFFICES ASSUME NEW d \in Builds, locking'[d] # "NONE" PROVE Sent(d, locking[d])'
      BY DEF HeldIsSent
    <3>1. d # b /\ locking'[d] = locking[d] /\ locking[d] \in ReportTypes /\ Sent(d, locking[d])
      BY <1>0, <1>1 DEF ReportsTrue, HeldIsSent
    <3> QED BY <1>4, <3>1 DEF Sent
  <2>3. \A d \in Builds : /\ status'[d] = "RUNNING" => exec'[d] # "IDLE" /\ left'[d] \in Nat
                          /\ status'[d] \in {"SUCCEEDED", "FAILED"} => exec'[d] = "ENDED"
    <3>1. /\ status'[b] = "RUNNING" => exec'[b] # "IDLE" /\ left'[b] \in Nat
          /\ status'[b] \in {"SUCCEEDED", "FAILED"} => exec'[b] = "ENDED"
      BY <1>1, <1>3, <1>5
    <3> QED BY <1>1, <3>1 DEF ReportsTrue
  <2> QED BY <2>1, <2>2, <2>3 DEF ReportsTrue
<1>7. OnlyTheGiven'
  <2>1. attempt[b] > 0
    BY <1>5 DEF OnlyTheGiven
  <2>2. status'[b] \in Given /\ status'[b] # "EXPIRED" /\ Instances # {}
    BY <1>1, <2>1 DEF Given, ReportTypes, OnlyTheGiven
  <2> QED BY <1>1, <2>1, <2>2 DEF OnlyTheGiven
<1> QED BY <1>6, <1>7

\* The queue's rounds, intake, teardown and sweeps: only what goes out gets an attempt, and a build that
\* was given out only expires for not having started or for its lease.
LEMMA OwnStepsKeep ==
    ASSUME IInv, ServiceInv, HistoryInv, UNCHANGED <<exec, transit, locking>>, Published,
           attempt' # attempt => Instances # {},
           \A b \in Builds : \/ Still(b) /\ (status[b] = "RUNNING" => left'[b] \in {left[b], Grace})
                             \/ Waits(b) \/ GoesOut(b) \/ Overdue(b) \/ Lapses(b)
    PROVE  ReportsTrue' /\ OnlyTheGiven'
<1> USE DEF ServiceInv
<1>0. /\ attempt \in [Builds -> Nat] /\ \A b \in Builds : status[b] \in Statuses
      /\ \A b \in Builds : \A t : Sent(b, t)' <=> Sent(b, t)
  BY DEF IInv, TypeInv, Typed, RowsTyped, Sent
<1>1. ReportsTrue'
  <2>0. HeldIsSent'
    BY <1>0 DEF ReportsTrue, HeldIsSent, Sent
  <2> SUFFICES ASSUME NEW b \in Builds
               PROVE  /\ status'[b] = "RUNNING" => exec[b] # "IDLE" /\ left'[b] \in Nat
                      /\ status'[b] \in {"SUCCEEDED", "FAILED"} => exec[b] = "ENDED"
    BY <1>0, <2>0 DEF ReportsTrue
  <2>1. CASE Still(b) /\ (status[b] = "RUNNING" => left'[b] \in {left[b], Grace})
    BY <2>1, DeadlinesAssumption DEF Still, ReportsTrue
  <2> QED BY <2>1 DEF Waits, GoesOut, Overdue, Lapses
<1>2. OnlyTheGiven'
  <2> SUFFICES ASSUME NEW b \in Builds
               PROVE  /\ startBy'[b] > 0 \/ exec[b] # "IDLE" => attempt'[b] > 0
                      /\ attempt'[b] > 0 => Instances # {} /\ status'[b] \in Given
                      /\ attempt'[b] > 0 /\ status'[b] = "EXPIRED" => reason'[b] \in {"START_TIMEOUT", "LEASE_EXPIRED"}
    BY DEF OnlyTheGiven
  <2>1. attempt[b] \in Nat /\ startBy'[b] = IF attempt'[b] > attempt[b] THEN StartTimeout ELSE startBy[b]
    BY <1>0 DEF Published
  <2>2. CASE Still(b)
    BY <2>1, <2>2 DEF Still, OnlyTheGiven
  <2>3. CASE Waits(b)
    <3>1. attempt[b] = 0 /\ attempt'[b] = 0
      BY <2>3 DEF Waits, HistoryInv
    <3> QED BY <2>1, <3>1 DEF OnlyTheGiven
  <2>4. CASE GoesOut(b)
    <3>1. attempt' # attempt
      BY <2>1, <2>4 DEF GoesOut
    <3> QED BY <2>1, <2>4, <3>1 DEF GoesOut, Given
  <2>5. CASE Overdue(b) \/ Lapses(b)
    BY <2>1, <2>5 DEF Overdue, Lapses, OnlyTheGiven, Given
  <2> QED BY <2>2, <2>3, <2>4, <2>5
<1> QED BY <1>1, <1>2

\* The anomaly that a report counts is never the impossible one.
LEMMA CountedKinds ==
    ASSUME IInv, ServiceInv, [ContractNext]_contractVars
    PROVE  NothingImpossible'
<1> USE DEF ServiceInv, NothingImpossible
<1>1. ASSUME NEW b \in Builds, NEW t \in ReportTypes, ReportUnmatched(b, t) PROVE NothingImpossible'
  <2>1. Sent(b, t) /\ status[b] \notin ReportFrom(t) /\ anomalies' = anomalies \cup {Classified(t, status[b])}
    BY <1>1 DEF ReportUnmatched
  <2>2. status[b] \in Given
    BY <2>1 DEF ReportsTrue, OnlyTheGiven
  <2>3. Classified(t, status[b]) # "IMPOSSIBLE"
    BY <2>1, <2>2 DEF Given, Classified, ReportFrom, ReportTypes
  <2> QED BY <2>1, <2>3
<1>2. ASSUME NEW b \in Builds, NEW t \in ReportTypes, ReportHeard(b, t) PROVE NothingImpossible'
  BY <1>2 DEF ReportHeard
<1>3. ASSUME NEW b \in Builds, StartBuild(b) \/ LoseBuild(b) \/ ReportRolledBack(b) PROVE UNCHANGED anomalies
  BY <1>3 DEF StartBuild, LoseBuild, ReportRolledBack
<1>4. ASSUME NEW b \in Builds, NEW t \in ReportTypes, EndBuild(b, t) \/ HearReport(b, t) PROVE UNCHANGED anomalies
  BY <1>4 DEF EndBuild, HearReport
<1>5. ASSUME NEW i \in Sweeping, Ask(i) \/ SweepRun(i) PROVE UNCHANGED anomalies
  BY <1>5 DEF Ask, SweepRun
<1>6. BackboneFails \/ BackboneReturns \/ QueueStep \/ TimePasses \/ UNCHANGED contractVars => UNCHANGED anomalies
  BY DEF BackboneFails, BackboneReturns, QueueStep, TimePasses, contractVars
<1> QED BY <1>1, <1>2, <1>3, <1>4, <1>5, <1>6 DEF ContractNext

LEMMA ServiceStep == IInv /\ HistoryInv /\ ServiceInv /\ [ContractNext]_contractVars => ServiceInv'
<1> SUFFICES ASSUME IInv, HistoryInv, ServiceInv, [ContractNext]_contractVars
             PROVE  ReportsTrue' /\ OnlyTheGiven'
  BY ServiceTypes, CountedKinds DEF ServiceInv
<1>0. /\ ServiceTyped /\ ReportsTrue /\ HeldIsSent
      /\ left \in [Builds -> Nat \cup {Never}]
  BY DEF ServiceInv, ReportsTrue, IInv, TypeInv, Typed, RowsTyped
<1> DEFINE Quiescent == UNCHANGED <<status, attempt, reason, exec, left, startBy, locking, transit>>
<1>q. Quiescent => ReportsTrue' /\ OnlyTheGiven'
  <2> SUFFICES ASSUME Quiescent PROVE ReportsTrue' /\ OnlyTheGiven'
    OBVIOUS
  <2>1. \A d \in Builds, u \in ReportTypes : Sent(d, u)' => Sent(d, u)
    BY DEF Sent
  <2>2. HeldIsSent'
    BY <1>0 DEF HeldIsSent, Sent
  <2> QED BY <2>1, <2>2, ChannelKeeps
<1> HIDE DEF Quiescent
<1>1. ASSUME NEW b \in Builds, StartBuild(b) \/ LoseBuild(b) PROVE ReportsTrue' /\ OnlyTheGiven'
  BY <1>1, ExecKeeps
<1>2. ASSUME NEW b \in Builds, NEW t \in ReportTypes, EndBuild(b, t) PROVE ReportsTrue' /\ OnlyTheGiven'
  BY <1>2, ExecKeeps
<1>3. ASSUME NEW b \in Builds, ReportRolledBack(b) PROVE ReportsTrue' /\ OnlyTheGiven'
  <2>1. /\ UNCHANGED <<status, attempt, reason, exec, left, startBy, transit>>
        /\ \A d \in Builds : locking'[d] \in {"NONE", locking[d]}
    BY <1>3 DEF ReportRolledBack, ReportAbort, buildVars, serviceVars, IInv, TypeInv, Typed, LocksTyped
  <2> QED BY <1>0, <2>1, ChannelKeeps DEF Sent, HeldIsSent
<1>4. ASSUME NEW b \in Builds, NEW t \in ReportTypes, HearReport(b, t) PROVE ReportsTrue' /\ OnlyTheGiven'
  <2>1. /\ UNCHANGED <<status, attempt, reason, exec, left, startBy, transit>> /\ Sent(b, t)
        /\ \A d \in Builds : locking'[d] = IF d = b THEN t ELSE locking[d]
    BY <1>4 DEF HearReport, ReportLock, buildVars, serviceVars, IInv, TypeInv, Typed, LocksTyped
  <2> QED BY <1>0, <2>1, ChannelKeeps DEF Sent, HeldIsSent
<1>5. ASSUME NEW b \in Builds, NEW t \in ReportTypes, ReportHeard(b, t) PROVE ReportsTrue' /\ OnlyTheGiven'
  BY <1>5, HeardKeeps
<1>6. ASSUME NEW b \in Builds, NEW t \in ReportTypes, ReportUnmatched(b, t) PROVE ReportsTrue' /\ OnlyTheGiven'
  <2>1. UNCHANGED <<status, attempt, reason, exec, left, startBy, locking>> /\ locking[b] = "NONE"
    BY <1>6 DEF ReportUnmatched, vars, RowLocked
  <2>2. \A d \in Builds, u \in ReportTypes : Sent(d, u)' <=> Sent(d, u) /\ ~(d = b /\ u = t)
    BY <1>0, <1>6, SentAfter DEF ReportUnmatched
  <2>3. HeldIsSent'
    <3>1. \A d \in Builds : locking[d] \in ReportTypes \cup {"NONE"}
      BY DEF IInv, TypeInv, Typed, LocksTyped
    <3> QED BY <1>0, <2>1, <2>2, <3>1 DEF HeldIsSent, Sent
  <2> QED BY <1>0, <2>1, <2>2, <2>3, ChannelKeeps
<1>7. CASE BackboneFails
  <2>1. Quiescent
    BY <1>7 DEF Quiescent, BackboneFails, vars, serviceVars
  <2> QED BY <1>q, <2>1
<1>8. CASE BackboneReturns \/ TimePasses
  <2>1. /\ UNCHANGED <<status, attempt, reason, exec, locking>>
        /\ \A d \in Builds : startBy'[d] > 0 => startBy[d] > 0
        /\ \A d \in Builds : left[d] \in Nat => left'[d] \in Nat
    <3>1. CASE BackboneReturns
      BY <3>1 DEF BackboneReturns, vars
    <3>2. CASE TimePasses
      BY <1>0, <3>2 DEF TimePasses, Tick, Less, ServiceTyped
    <3> QED BY <1>8, <3>1, <3>2
  <2>2. \A d \in Builds, u \in ReportTypes : Sent(d, u)' <=> Sent(d, u)
    <3>1. CASE BackboneReturns
      BY <1>0, <3>1, ContractAssumption DEF BackboneReturns, Sent, NotSent, ServiceTyped
    <3>2. CASE TimePasses
      BY <1>0, <3>2, ContractAssumption DEF TimePasses, Less, Sent, NotSent, ServiceTyped
    <3> QED BY <1>8, <3>1, <3>2
  <2>3. HeldIsSent'
    <3>1. \A d \in Builds : locking[d] \in ReportTypes \cup {"NONE"}
      BY DEF IInv, TypeInv, Typed, LocksTyped
    <3> QED BY <1>0, <2>1, <2>2, <3>1 DEF HeldIsSent, Sent
  <2>4. UNCHANGED <<status, attempt, reason, exec>>
    BY <2>1
  <2>5. \A d \in Builds, u \in ReportTypes : Sent(d, u)' => Sent(d, u)
    BY <2>2
  <2> QED BY <1>0, <2>1, <2>3, <2>4, <2>5, ChannelKeeps
<1>9. CASE QueueStep
  <2>1. /\ QueueMoves
        /\ UNCHANGED <<locking, asked, unreachable>>
        /\ attempt' # attempt => Instances # {}
    BY <1>9, QueueStepMoves
  <2>2. UNCHANGED <<exec, transit>> /\ Published
    BY <1>9 DEF QueueStep
  <2>3. \A b \in Builds : \/ Still(b) /\ (status[b] = "RUNNING" => left'[b] \in {left[b], Grace})
                          \/ Waits(b) \/ GoesOut(b)
    BY <2>1 DEF QueueMoves, LeftKept
  <2> QED BY <2>1, <2>2, <2>3, OwnStepsKeep
<1>10. ASSUME NEW i \in Sweeping, Ask(i) PROVE ReportsTrue' /\ OnlyTheGiven'
  <2>1. Quiescent
    BY <1>10 DEF Quiescent, Ask, SweepAsk, buildVars, serviceVars
  <2> QED BY <1>q, <2>1
<1>11. ASSUME NEW i \in Sweeping, SweepRun(i) PROVE ReportsTrue' /\ OnlyTheGiven'
  <2>1. UNCHANGED <<exec, transit, locking>> /\ Published /\ SweepMoves(i) /\ Instances # {}
    BY <1>11, SweepStepMoves, InstancesAssumption DEF SweepRun
  <2> QED BY <2>1, OwnStepsKeep DEF SweepMoves
<1>12. CASE UNCHANGED contractVars
  <2>1. Quiescent
    BY <1>12 DEF Quiescent, contractVars, vars, serviceVars
  <2> QED BY <1>q, <2>1
<1> QED BY <1>1, <1>2, <1>3, <1>4, <1>5, <1>6, <1>7, <1>8, <1>9, <1>10, <1>11, <1>12 DEF ContractNext

LEMMA ServiceHolds == ContractSpec => []ServiceInv
<1>1. IInv /\ HistoryInv /\ ServiceInv /\ [ContractNext]_contractVars => ServiceInv'
  BY ServiceStep
<1> QED BY <1>1, ServiceStart, ContractIsSpec, Inductive, HistoryHolds, PTL DEF ContractSpec

\* With a build-service that keeps its contract no report is ever impossible, for any number of
\* builds and sweeping instances: what the queue supersedes, cancels or rejects it has never given out.
THEOREM ReportsAreExplained == ContractSpec => []NothingImpossible
<1>1. ServiceInv => NothingImpossible
  BY DEF ServiceInv
<1> QED BY <1>1, ServiceHolds, PTL

-----------------------------------------------------------------------------
(* What one outage costs.                                                    *)

Spare(o) == (MaxOutages - o) * OutageCost

HeardAnswers == {i \in Sweeping : asked[i] = "HEARD"}

\* A sweep that has run in this tick may have used an answer from before the outage.
Used == IF swept THEN 1 ELSE 0

\* The ticks a report may still need before it is heard.
Margin(b, t) ==
    IF up THEN transit[b][t] + 1 + Spare(outages)
          ELSE TransitTime + 1 + Spare(outages) + Cardinality(HeardAnswers) + Used

LEMMA Product ==
    ASSUME NEW m \in Nat, NEW o \in 0..m, NEW c \in Nat
    PROVE  /\ (m - o) * c \in Nat
           /\ (m - o) * c <= m * c
           /\ o > 0 => (m - o) * c + c <= m * c
           /\ o < m => (m - o) * c = (m - (o + 1)) * c + c
OBVIOUS

LEMMA CostsTyped == Cardinality(Sweeping) \in Nat /\ OutageCost \in Nat /\ TransitTime \in Nat /\ Grace \in Nat
<1>1. Cardinality(Sweeping) \in Nat
  BY FS_CardinalityType, ContractAssumption
<1> QED BY <1>1, ContractAssumption, DeadlinesAssumption DEF OutageCost

LEMMA SpareCovers ==
    ASSUME NEW o \in 0..MaxOutages
    PROVE  /\ Spare(o) \in Nat
           /\ o < MaxOutages => Spare(o) = Spare(o + 1) + OutageCost
           /\ GraceCovers => Grace >= TransitTime + 1 + Spare(o)
           /\ GraceCovers /\ o > 0 => Grace >= TransitTime + 1 + Spare(o) + OutageCost
<1>1. MaxOutages \in Nat
  BY ContractAssumption
<1>2. /\ Spare(o) \in Nat
      /\ Spare(o) <= MaxOutages * OutageCost
      /\ o > 0 => Spare(o) + OutageCost <= MaxOutages * OutageCost
      /\ o < MaxOutages => Spare(o) = Spare(o + 1) + OutageCost
  BY <1>1, CostsTyped, Product DEF Spare
<1>3. MaxOutages * OutageCost \in Nat
  BY <1>1, CostsTyped
<1> HIDE DEF Spare
<1> QED BY <1>2, <1>3, CostsTyped DEF GraceCovers

LEMMA AnswersCounted ==
    ASSUME NEW S \in SUBSET Sweeping
    PROVE  Cardinality(S) \in 0..Cardinality(Sweeping) /\ IsFiniteSet(S)
<1>1. IsFiniteSet(Sweeping)
  BY ContractAssumption
<1>2. IsFiniteSet(S) /\ Cardinality(S) <= Cardinality(Sweeping)
  BY <1>1, FS_Subset
<1>3. Cardinality(S) \in Nat
  BY <1>2, FS_CardinalityType
<1> QED BY <1>2, <1>3, CostsTyped

\* No report ever needs longer than the grace.
MarginsFit ==
    \A b \in Builds, t \in ReportTypes :
        /\ Margin(b, t) \in Int /\ Margin(b, t) <= Grace
        /\ Sent(b, t) => Margin(b, t) > 0

LEMMA MarginsAreCovered == GraceCovers /\ ServiceTyped => MarginsFit
<1> SUFFICES ASSUME GraceCovers, ServiceTyped, NEW b \in Builds, NEW t \in ReportTypes
             PROVE  /\ Margin(b, t) \in Int /\ Margin(b, t) <= Grace
                    /\ Sent(b, t) => Margin(b, t) > 0
  BY DEF MarginsFit
<1>1. /\ outages \in 0..MaxOutages
      /\ up \/ outages > 0
      /\ transit[b][t] \in -1..TransitTime
  BY DEF ServiceTyped
<1>2. Cardinality(HeardAnswers) \in 0..Cardinality(Sweeping)
  BY AnswersCounted DEF HeardAnswers
<1>3. Used \in 0..1
  BY DEF Used
<1>4. /\ Spare(outages) \in Nat
      /\ Grace >= TransitTime + 1 + Spare(outages)
      /\ outages > 0 => Grace >= TransitTime + 1 + Spare(outages) + TransitTime + Cardinality(Sweeping) + 1
  <2>1. /\ Spare(outages) \in Nat
        /\ Grace >= TransitTime + 1 + Spare(outages)
        /\ outages > 0 => Grace >= TransitTime + 1 + Spare(outages) + OutageCost
    BY <1>1, SpareCovers
  <2> QED BY <2>1, <1>1, CostsTyped DEF OutageCost
<1>5. CASE up
  BY <1>1, <1>4, <1>5, CostsTyped DEF Margin, Sent, NotSent
<1>6. CASE ~up
  <2>1. Margin(b, t) = TransitTime + 1 + Spare(outages) + Cardinality(HeardAnswers) + Used
    BY <1>6 DEF Margin
  <2> QED BY <1>1, <1>2, <1>3, <1>4, <1>6, <2>1, CostsTyped
<1> QED BY <1>5, <1>6

-----------------------------------------------------------------------------
(* A run lease outlasts the run and what its result may still meet.          *)

\* The lease of a build that is running lasts for the rest of the run and the whole grace.
RunCovered(b) == exec[b] = "RUNNING" /\ status[b] = "RUNNING" => left[b] >= runFor[b] + Grace

\* A result that has not been counted yet is on its way, and the lease lasts until it is heard.
ResultCovered(b) ==
    exec[b] = "ENDED" /\ status[b] \in {"DISPATCHED", "RUNNING", "EXPIRED"} =>
        \E t \in Results :
            Sent(b, t) /\ (status[b] = "RUNNING" /\ ~unreachable => left[b] >= Margin(b, t))

Covered(b) == RunCovered(b) /\ ResultCovered(b)

LeaseInv == (\A b \in Builds : Covered(b)) /\ LeaseMeansSilence

LEMMA LeaseStart == ContractInit => LeaseInv
BY DEF ContractInit, Init, LeaseInv, Covered, RunCovered, ResultCovered, LeaseMeansSilence

\* What keeps a build covered: nothing new is known of it, its lease has lost no more than the margin,
\* or it has just been given up.
LEMMA CoverKept ==
    ASSUME NEW b \in Builds, Covered(b),
           exec'[b] = exec[b], runFor'[b] = runFor[b],
           \/ status'[b] = status[b] /\ left'[b] = left[b]
           \/ status'[b] \in {"DISPATCHED", "EXPIRED"} /\ status[b] \in {"DISPATCHED", "RUNNING"}
           \/ exec[b] \notin {"RUNNING", "ENDED"},
           unreachable' \/ ~unreachable, left[b] \in Int,
           \A t \in Results : Sent(b, t) => Sent(b, t)' /\ Margin(b, t) \in Int
                                /\ (Margin(b, t))' \in Int /\ (Margin(b, t))' <= Margin(b, t)
    PROVE  Covered(b)'
<1>1. RunCovered(b)'
  BY DEF Covered, RunCovered
<1>2. ResultCovered(b)'
  <2> SUFFICES ASSUME exec'[b] = "ENDED", status'[b] \in {"DISPATCHED", "RUNNING", "EXPIRED"}
               PROVE  \E t \in Results : Sent(b, t)' /\ (status'[b] = "RUNNING" /\ ~unreachable' =>
                                                            left'[b] >= (Margin(b, t))')
    BY DEF ResultCovered
  <2>0. exec[b] = "ENDED" /\ status[b] \in {"DISPATCHED", "RUNNING", "EXPIRED"}
    OBVIOUS
  <2>1. PICK t \in Results : Sent(b, t) /\ (status[b] = "RUNNING" /\ ~unreachable => left[b] >= Margin(b, t))
    BY <2>0 DEF Covered, ResultCovered
  <2>2. Sent(b, t)'
    BY <2>1
  <2>3. status'[b] = "RUNNING" /\ ~unreachable' => left'[b] >= (Margin(b, t))'
    <3>1. Margin(b, t) \in Int /\ (Margin(b, t))' \in Int /\ (Margin(b, t))' <= Margin(b, t)
      BY <2>1
    <3> HIDE DEF Margin
    <3> QED BY <2>1, <3>1
  <2> QED BY <2>2, <2>3
<1> QED BY <1>1, <1>2 DEF Covered

Fit == GraceCovers => MarginsFit

LEMMA MarginsNeedTheGrace == ServiceTyped => Fit
BY MarginsAreCovered DEF Fit

\* What every step of the proof knows of the state before it and after it.
LEMMA Facts ==
    ASSUME IInv, HistoryInv, ServiceInv, GraceCovers, [ContractNext]_contractVars
    PROVE  /\ status \in [Builds -> Statuses] /\ left \in [Builds -> Nat \cup {Never}]
           /\ locking \in [Builds -> ReportTypes \cup {"NONE"}]
           /\ reason \in [Builds -> Reasons]
           /\ \A b \in Builds : left[b] \in Int
           /\ ServiceTyped /\ ServiceTyped' /\ MarginsFit /\ MarginsFit'
           /\ ReportsTrue /\ OnlyTheGiven
           /\ Results \subseteq ReportTypes
<1>1. ServiceTyped'
  BY ServiceTypes
<1>2. ServiceTyped
  BY DEF ServiceInv
<1>3. MarginsFit
  BY <1>2, MarginsAreCovered
<1>4. MarginsFit'
  <2>1. ServiceTyped' => Fit'
    BY MarginsNeedTheGrace, PTL
  <2> QED BY <1>1, <2>1 DEF Fit, GraceCovers
<1> QED BY <1>1, <1>2, <1>3, <1>4 DEF IInv, TypeInv, Typed, RowsTyped, LocksTyped, ServiceInv, Results, Never

\* Silence and margins that nothing disturbs.
LEMMA SilenceKept ==
    ASSUME LeaseMeansSilence,
           \A b \in Builds : /\ reason'[b] = "LEASE_EXPIRED" => reason[b] = "LEASE_EXPIRED" \/ exec'[b] = "DIED"
                             /\ exec[b] = "DIED" => exec'[b] = "DIED"
    PROVE  LeaseMeansSilence'
BY DEF LeaseMeansSilence

LEMMA SameMargins ==
    ASSUME UNCHANGED <<transit, up, outages, asked, swept>>
    PROVE  \A b, t : /\ (Margin(b, t))' = Margin(b, t)
                     /\ Sent(b, t) <=> Sent(b, t)'
BY DEF Margin, Sent, HeardAnswers, Used, Spare

\* build-service starts a build, ends it or loses it.
LEMMA ExecCovers ==
    ASSUME IInv, HistoryInv, ServiceInv, GraceCovers, LeaseInv, [ContractNext]_contractVars,
           NEW b \in Builds, StartBuild(b) \/ LoseBuild(b) \/ \E t \in ReportTypes : EndBuild(b, t)
    PROVE  LeaseInv'
<1> USE Facts
<1>1. /\ UNCHANGED <<status, left, reason, asked, unreachable, up, outages, swept>>
      /\ exec[b] # "DIED" /\ \A d \in Builds : d # b => exec'[d] = exec[d] /\ runFor'[d] = runFor[d]
                                                       /\ transit'[d] = transit[d]
  BY DEF StartBuild, LoseBuild, EndBuild, vars, sweepVars, Send, ServiceTyped
<1>2. LeaseMeansSilence'
  <2>1. \A d \in Builds : exec[d] = "DIED" => exec'[d] = "DIED"
    BY <1>1
  <2> QED BY <1>1, <2>1, SilenceKept DEF LeaseInv
<1>3. ASSUME NEW d \in Builds, d # b PROVE Covered(d)'
  <2>1. \A t \in Results : Sent(d, t) => Sent(d, t)' /\ Margin(d, t) \in Int
                                /\ (Margin(d, t))' \in Int /\ (Margin(d, t))' <= Margin(d, t)
    <3>1. \A t \in ReportTypes : (Sent(d, t) <=> Sent(d, t)') /\ (Margin(d, t))' = Margin(d, t)
      BY <1>1, <1>3 DEF Sent, Margin, HeardAnswers, Used, Spare
    <3> QED BY <3>1 DEF MarginsFit
  <2> QED BY <1>1, <1>3, <2>1, CoverKept DEF LeaseInv
<1>4. Covered(b)'
  <2>1. CASE StartBuild(b)
    <3>1. exec'[b] = "RUNNING" /\ status'[b] # "RUNNING"
      BY <1>1, <2>1 DEF StartBuild, ReportsTrue, ServiceTyped
    <3> QED BY <3>1 DEF Covered, RunCovered, ResultCovered
  <2>2. CASE LoseBuild(b)
    <3>1. exec'[b] = "DIED"
      BY <2>2 DEF LoseBuild, ServiceTyped
    <3> QED BY <3>1 DEF Covered, RunCovered, ResultCovered
  <2>3. ASSUME NEW t \in ReportTypes, EndBuild(b, t) PROVE Covered(b)'
    <3>1. exec'[b] = "ENDED" /\ t \in Results /\ exec[b] = "RUNNING"
      BY <2>3 DEF EndBuild, Results, ServiceTyped
    <3>2. Sent(b, t)'
      BY <2>3, SentAfter DEF EndBuild
    <3>3. status[b] = "RUNNING" => left[b] >= Grace
      BY <3>1, DeadlinesAssumption DEF LeaseInv, Covered, RunCovered, ServiceTyped
    <3>4. status'[b] = "RUNNING" => left'[b] >= (Margin(b, t))'
      <4>1. (Margin(b, t))' \in Int /\ (Margin(b, t))' <= Grace
        BY DEF MarginsFit
      <4> QED BY <1>1, <3>3, <4>1, DeadlinesAssumption
    <3> QED BY <3>1, <3>2, <3>4 DEF Covered, RunCovered, ResultCovered
  <2> QED BY <2>1, <2>2, <2>3
<1> QED BY <1>2, <1>3, <1>4 DEF LeaseInv

\* A step of a listener, or of the queue outside of the sweeps, that leaves a build's reports and margins alone.
LEMMA QuietCovers ==
    ASSUME IInv, HistoryInv, ServiceInv, GraceCovers, LeaseInv, [ContractNext]_contractVars,
           UNCHANGED <<exec, runFor, up, outages, swept, asked, unreachable>>,
           \A b \in Builds :
             \/ status'[b] = status[b] /\ left'[b] = left[b]
             \/ exec[b] \notin {"RUNNING", "ENDED"},
           \A b \in Builds : reason'[b] = reason[b] \/ reason'[b] # "LEASE_EXPIRED",
           \A b \in Builds, t \in Results : status[b] \in {"DISPATCHED", "RUNNING", "EXPIRED"} /\ Sent(b, t)
                                              => transit'[b][t] = transit[b][t]
    PROVE  LeaseInv'
<1> USE Facts
<1>1. LeaseMeansSilence'
  <2>1. \A b \in Builds : /\ reason'[b] = "LEASE_EXPIRED" => reason[b] = "LEASE_EXPIRED" \/ exec'[b] = "DIED"
                          /\ exec[b] = "DIED" => exec'[b] = "DIED"
    OBVIOUS
  <2> QED BY <2>1, SilenceKept DEF LeaseInv
<1>2. ASSUME NEW b \in Builds PROVE Covered(b)'
  <2>1. CASE status[b] \in {"DISPATCHED", "RUNNING", "EXPIRED"}
    <3>1. \A t \in Results : Sent(b, t) => Sent(b, t)' /\ Margin(b, t) \in Int
                                  /\ (Margin(b, t))' \in Int /\ (Margin(b, t))' <= Margin(b, t)
      <4> SUFFICES ASSUME NEW t \in Results, Sent(b, t)
                   PROVE  Sent(b, t)' /\ Margin(b, t) \in Int
                            /\ (Margin(b, t))' \in Int /\ (Margin(b, t))' <= Margin(b, t)
        OBVIOUS
      <4>1. transit'[b][t] = transit[b][t]
        BY <2>1
      <4>2. Sent(b, t)' /\ (Margin(b, t))' = Margin(b, t)
        BY <4>1 DEF Sent, Margin, HeardAnswers, Used, Spare
      <4> QED BY <4>2 DEF MarginsFit
    <3> QED BY <3>1, CoverKept DEF LeaseInv
  <2>2. CASE status[b] \notin {"DISPATCHED", "RUNNING", "EXPIRED"}
    <3>1. \/ status'[b] = status[b]
          \/ exec'[b] \notin {"RUNNING", "ENDED"}
      OBVIOUS
    <3> QED BY <2>2, <3>1 DEF Covered, RunCovered, ResultCovered
  <2> QED BY <2>1, <2>2
<1> QED BY <1>1, <1>2 DEF LeaseInv

\* A started or a result is heard: a new lease covers everything.
LEMMA HeardCovers ==
    ASSUME IInv, HistoryInv, ServiceInv, GraceCovers, LeaseInv, [ContractNext]_contractVars,
           NEW b \in Builds, NEW t \in ReportTypes, ReportHeard(b, t)
    PROVE  LeaseInv'
<1> USE Facts
<1>1. /\ UNCHANGED <<exec, runFor, up, outages, swept, asked, unreachable>> /\ locking[b] = t
      /\ \A d \in Builds : d # b => status'[d] = status[d] /\ left'[d] = left[d] /\ reason'[d] = reason[d]
      /\ status'[b] = IF t = "STARTED" THEN "RUNNING" ELSE t
      /\ left'[b] = IF t = "STARTED" THEN RunLease ELSE 0
      /\ reason'[b] \in {reason[b], "BUILD_FAILED"}
  BY DEF ReportHeard, ReportCommit, Moved, ReportTypes, sweepVars
<1>2. status[b] \in ReportFrom(t)
  BY <1>1 DEF IInv, RoundInv, LockSound, ReportTypes
<1>3. \A d \in Builds, u \in ReportTypes : d # b \/ u # t => transit'[d][u] = transit[d][u]
  BY DEF ReportHeard, Consume, ServiceTyped
<1>4. LeaseMeansSilence'
  <2>1. \A d \in Builds : /\ reason'[d] = "LEASE_EXPIRED" => reason[d] = "LEASE_EXPIRED" \/ exec'[d] = "DIED"
                          /\ exec[d] = "DIED" => exec'[d] = "DIED"
    BY <1>1
  <2> QED BY <2>1, SilenceKept DEF LeaseInv
<1>5. ASSUME NEW d \in Builds, d # b PROVE Covered(d)'
  <2>1. \A u \in Results : Sent(d, u) => Sent(d, u)' /\ Margin(d, u) \in Int
                                /\ (Margin(d, u))' \in Int /\ (Margin(d, u))' <= Margin(d, u)
    <3>1. \A u \in ReportTypes : (Sent(d, u) <=> Sent(d, u)') /\ (Margin(d, u))' = Margin(d, u)
      BY <1>1, <1>3, <1>5 DEF Sent, Margin, HeardAnswers, Used, Spare
    <3> QED BY <3>1 DEF MarginsFit
  <2> QED BY <1>1, <1>5, <2>1, CoverKept DEF LeaseInv
<1>6. CASE t # "STARTED"
  <2>1. status'[b] \in {"SUCCEEDED", "FAILED"}
    BY <1>1, <1>6 DEF ReportTypes
  <2>2. Covered(b)'
    BY <2>1 DEF Covered, RunCovered, ResultCovered
  <2> QED BY <1>4, <1>5, <2>2 DEF LeaseInv
<1>7. CASE t = "STARTED"
  <2>1. left'[b] = MaxDuration + Grace /\ status[b] = "DISPATCHED"
    BY <1>1, <1>2, <1>7, ContractAssumption DEF ReportFrom
  <2>2. RunCovered(b)'
    <3>1. runFor'[b] \in 0..MaxDuration
      BY DEF ServiceTyped
    <3> QED BY <2>1, <3>1, ContractAssumption, DeadlinesAssumption DEF RunCovered
  <2>3. ResultCovered(b)'
    <3> SUFFICES ASSUME exec'[b] = "ENDED"
                 PROVE  \E u \in Results : Sent(b, u)' /\ left'[b] >= (Margin(b, u))'
      BY DEF ResultCovered
    <3>1. PICK u \in Results : Sent(b, u)
      BY <1>1, <2>1 DEF LeaseInv, Covered, ResultCovered
    <3>2. Sent(b, u)'
      BY <1>3, <1>7, <3>1 DEF Sent, Results
    <3>3. (Margin(b, u))' \in Int /\ (Margin(b, u))' <= Grace
      BY DEF MarginsFit
    <3> QED BY <2>1, <3>2, <3>3, ContractAssumption, DeadlinesAssumption
  <2>4. Covered(b)'
    BY <2>2, <2>3 DEF Covered
  <2> QED BY <1>4, <1>5, <2>4 DEF LeaseInv
<1> QED BY <1>6, <1>7

\* An outage begins or ends: what it takes from the margin it has in reserve.
LEMMA BackboneCovers ==
    ASSUME IInv, HistoryInv, ServiceInv, GraceCovers, LeaseInv, [ContractNext]_contractVars,
           BackboneFails \/ BackboneReturns
    PROVE  LeaseInv'
<1> USE Facts
<1>1. UNCHANGED <<status, left, reason, exec, runFor, unreachable, asked, swept>>
  BY DEF BackboneFails, BackboneReturns, vars, serviceVars
<1>2. LeaseMeansSilence'
  BY <1>1 DEF LeaseInv, LeaseMeansSilence
<1>3. \A b \in Builds, t \in ReportTypes : transit[b][t] \in -1..TransitTime
  BY DEF ServiceTyped
<1>4. Cardinality(HeardAnswers) \in 0..Cardinality(Sweeping) /\ HeardAnswers' = HeardAnswers
  BY <1>1, AnswersCounted DEF HeardAnswers
<1>5. Used \in 0..1 /\ Used' = Used
  BY <1>1 DEF Used
<1>6. Spare(outages) \in Nat
  BY SpareCovers DEF ServiceTyped
<1>7. ASSUME NEW b \in Builds, NEW t \in ReportTypes, Sent(b, t)
      PROVE  Sent(b, t)' /\ (Margin(b, t))' <= Margin(b, t)
  <2>1. transit[b][t] \in 0..TransitTime
    BY <1>3, <1>7, ContractAssumption DEF Sent, NotSent
  <2>2. CASE BackboneFails
    <3>1. /\ outages \in 0..MaxOutages /\ outages < MaxOutages /\ outages' = outages + 1
          /\ up /\ ~up' /\ transit' = transit
      BY <2>2 DEF BackboneFails, ServiceTyped, serviceVars
    <3>2. Spare(outages) = Spare(outages + 1) + OutageCost
      BY <3>1, SpareCovers
    <3>3. (Spare(outages))' = Spare(outages + 1)
      BY <3>1 DEF Spare
    <3>4. Spare(outages + 1) \in Nat
      BY <3>1, SpareCovers, ContractAssumption
    <3>5. Margin(b, t) = transit[b][t] + 1 + Spare(outages)
      BY <3>1 DEF Margin
    <3>6. (Margin(b, t))' = TransitTime + 1 + (Spare(outages))' + Cardinality(HeardAnswers') + Used'
      BY <3>1 DEF Margin
    <3>7. (Margin(b, t))' <= Margin(b, t)
      BY <1>4, <1>5, <2>1, <3>2, <3>3, <3>4, <3>5, <3>6, CostsTyped DEF OutageCost
    <3> QED BY <1>7, <3>1, <3>7 DEF Sent
  <2>3. CASE BackboneReturns
    <3>1. /\ ~up /\ up' /\ outages' = outages /\ transit'[b][t] = TransitTime
      BY <1>7, <2>3 DEF BackboneReturns
    <3>2. (Spare(outages))' = Spare(outages)
      BY <3>1 DEF Spare
    <3>3. Margin(b, t) = TransitTime + 1 + Spare(outages) + Cardinality(HeardAnswers) + Used
      BY <3>1 DEF Margin
    <3>4. (Margin(b, t))' = TransitTime + 1 + Spare(outages)
      BY <3>1, <3>2 DEF Margin
    <3>5. (Margin(b, t))' <= Margin(b, t)
      BY <1>4, <1>5, <1>6, <3>3, <3>4, CostsTyped
    <3> QED BY <3>1, <3>5, ContractAssumption DEF Sent, NotSent
  <2> QED BY <2>2, <2>3
<1>8. ASSUME NEW b \in Builds PROVE Covered(b)'
  <2>1. \A t \in Results : Sent(b, t) => Sent(b, t)' /\ Margin(b, t) \in Int
                                /\ (Margin(b, t))' \in Int /\ (Margin(b, t))' <= Margin(b, t)
    BY <1>7 DEF MarginsFit
  <2> QED BY <1>1, <2>1, CoverKept DEF LeaseInv
<1> QED BY <1>2, <1>8 DEF LeaseInv

\* A sweep that cannot hear suspends every lease; one that hears again after an outage moves the leases
\* out; any other may use up one answer from before the outage.
LEMMA SweepCovers ==
    ASSUME IInv, HistoryInv, ServiceInv, GraceCovers, LeaseInv, [ContractNext]_contractVars,
           NEW i \in Sweeping, SweepRun(i)
    PROVE  LeaseInv'
<1> USE Facts
<1>1. /\ SweepMoves(i)
      /\ asked[i] # "IDLE" /\ asked' = [asked EXCEPT ![i] = "IDLE"]
      /\ unreachable' # unreachable => SweepDeaf(i) \/ SweepRecovered(i)
  BY SweepStepMoves
<1>2. UNCHANGED <<exec, runFor, transit, up, outages>> /\ swept' = TRUE
  BY DEF SweepRun
<1>3. asked \in [Instances -> {"IDLE", "HEARD", "DEAF"}] /\ i \in Instances
  BY InstancesAssumption DEF IInv, TypeInv, Typed, LocksTyped
<1>4. \A b \in Builds : exec[b] # "IDLE" => attempt[b] > 0
  BY DEF OnlyTheGiven
<1>5. \A b \in Builds : Waits(b) => exec[b] \notin {"RUNNING", "ENDED"}
  BY <1>4 DEF Waits, HistoryInv
<1>6. ASSUME NEW b \in Builds, Lapses(b) PROVE exec[b] = "DIED"
  <2>1. status[b] = "RUNNING" /\ left[b] = 0 /\ ~unreachable /\ exec[b] # "IDLE"
    BY <1>6 DEF Lapses, ReportsTrue
  <2>2. exec[b] # "RUNNING"
    <3>1. exec[b] = "RUNNING" => 0 >= runFor[b] + Grace /\ runFor[b] \in Nat
      BY <2>1, ContractAssumption DEF LeaseInv, Covered, RunCovered, ServiceTyped
    <3> QED BY <3>1, DeadlinesAssumption
  <2>3. exec[b] # "ENDED"
    <3> SUFFICES ASSUME exec[b] = "ENDED" PROVE FALSE
      OBVIOUS
    <3>1. PICK t \in Results : Sent(b, t) /\ 0 >= Margin(b, t)
      BY <2>1 DEF LeaseInv, Covered, ResultCovered
    <3> QED BY <3>1 DEF MarginsFit
  <2> QED BY <2>1, <2>2, <2>3 DEF ServiceTyped
<1>7. LeaseMeansSilence'
  <2>1. ASSUME NEW b \in Builds
        PROVE  /\ reason'[b] = "LEASE_EXPIRED" => reason[b] = "LEASE_EXPIRED" \/ exec'[b] = "DIED"
               /\ exec[b] = "DIED" => exec'[b] = "DIED"
    <3>1. CASE Lapses(b)
      BY <1>2, <1>6, <3>1
    <3>2. CASE status[b] = "QUEUED" /\ Waits(b)
      <4>1. reason'[b] # "LEASE_EXPIRED" \/ reason'[b] = reason[b]
        <5>1. attempt'[b] = 0 /\ status'[b] # "RUNNING"
          BY <3>2 DEF Waits, HistoryInv
        <5>2. CASE SweepDeaf(i) \/ SweepRecovered(i)
          BY <5>2 DEF SweepDeaf, SweepRecovered, Ended
        <5>3. CASE SweepDue(i)
          <6>1. PICK queue \in Batch(DueIn("QUEUED"), SweepBatch),
                     start \in Batch(IF i \in paused THEN {} ELSE LastAttempt, SweepBatch),
                     lease \in Batch(DueIn("RUNNING"), SweepBatch) : Expired(queue, start, lease)
            BY <5>3 DEF SweepDue
          <6>2. b \notin lease
            BY <3>2 DEF Batch, DueIn
          <6> QED BY <6>1, <6>2 DEF Expired
        <5> QED BY <5>2, <5>3 DEF SweepRun
      <4> QED BY <1>2, <4>1
    <3>3. CASE Still(b) \/ Overdue(b)
      BY <1>2, <3>3 DEF Still, Overdue
    <3>4. CASE GoesOut(b)
      <4>1. reason'[b] # "LEASE_EXPIRED" \/ reason'[b] = reason[b]
        <5>1. status'[b] = "DISPATCHED"
          BY <3>4 DEF GoesOut
        <5>2. CASE SweepDeaf(i) \/ SweepRecovered(i)
          BY <5>2 DEF SweepDeaf, SweepRecovered, Ended
        <5>3. CASE SweepDue(i)
          <6>1. PICK queue \in Batch(DueIn("QUEUED"), SweepBatch),
                     start \in Batch(IF i \in paused THEN {} ELSE LastAttempt, SweepBatch),
                     lease \in Batch(DueIn("RUNNING"), SweepBatch) : Expired(queue, start, lease)
            BY <5>3 DEF SweepDue
          <6> QED BY <5>1, <6>1 DEF Expired
        <5> QED BY <5>2, <5>3 DEF SweepRun
      <4> QED BY <1>2, <4>1
    <3> QED BY <1>1, <3>1, <3>2, <3>3, <3>4 DEF SweepMoves
  <2> QED BY <2>1, SilenceKept DEF LeaseInv
<1>8. \A b, t : Sent(b, t) <=> Sent(b, t)'
  BY <1>2 DEF Sent
<1>9. CASE SweepDue(i)
  <2>1. asked[i] = "HEARD" /\ unreachable' = unreachable /\ ~SweepRecovered(i)
    BY <1>9 DEF SweepDue, SweepRecovered
  <2>2. HeardAnswers' = HeardAnswers \ {i} /\ i \in HeardAnswers
    BY <1>1, <1>3, <2>1 DEF HeardAnswers
  <2>3. Cardinality(HeardAnswers') = Cardinality(HeardAnswers) - 1 /\ Cardinality(HeardAnswers) \in Nat
    <3>1. IsFiniteSet(HeardAnswers) /\ Cardinality(HeardAnswers) \in 0..Cardinality(Sweeping)
      BY AnswersCounted DEF HeardAnswers
    <3>2. Cardinality(HeardAnswers \ {i}) = Cardinality(HeardAnswers) - 1
      BY <2>2, <3>1, FS_RemoveElement
    <3> QED BY <2>2, <3>1, <3>2, CostsTyped
  <2>4. Used \in 0..1 /\ Used' = 1
    BY <1>2 DEF Used
  <2>5. Spare(outages) \in Nat /\ (Spare(outages))' = Spare(outages)
    BY <1>2, SpareCovers DEF ServiceTyped, Spare
  <2>6. ASSUME NEW b \in Builds, NEW t \in Results PROVE (Margin(b, t))' <= Margin(b, t)
    <3>0. Margin(b, t) \in Int
      BY DEF MarginsFit
    <3>1. CASE up
      BY <1>2, <2>5, <3>0, <3>1 DEF Margin
    <3>2. CASE ~up
      <4>1. Margin(b, t) = TransitTime + 1 + Spare(outages) + Cardinality(HeardAnswers) + Used
        BY <3>2 DEF Margin
      <4>2. (Margin(b, t))' = TransitTime + 1 + Spare(outages) + Cardinality(HeardAnswers') + 1
        BY <1>2, <2>4, <2>5, <3>2 DEF Margin
      <4> QED BY <2>3, <2>4, <2>5, <4>1, <4>2, CostsTyped
    <3> QED BY <3>1, <3>2
  <2>7. ASSUME NEW b \in Builds PROVE Covered(b)'
    <3>1. \A t \in Results : Sent(b, t) => Sent(b, t)' /\ Margin(b, t) \in Int
                                  /\ (Margin(b, t))' \in Int /\ (Margin(b, t))' <= Margin(b, t)
      BY <1>8, <2>6 DEF MarginsFit
    <3>2. \/ status'[b] = status[b] /\ left'[b] = left[b]
          \/ status'[b] \in {"DISPATCHED", "EXPIRED"} /\ status[b] \in {"DISPATCHED", "RUNNING"}
          \/ exec[b] \notin {"RUNNING", "ENDED"}
      <4>1. CASE Still(b) /\ left'[b] = left[b]
        BY <4>1 DEF Still
      <4>2. CASE Waits(b)
        BY <1>5, <4>2
      <4>3. CASE GoesOut(b)
        <5>1. status[b] = "QUEUED" => exec[b] \notin {"RUNNING", "ENDED"}
          BY <1>4 DEF HistoryInv
        <5> QED BY <4>3, <5>1 DEF GoesOut
      <4>4. CASE Overdue(b) \/ Lapses(b)
        BY <4>4 DEF Overdue, Lapses
      <4> QED BY <1>1, <2>1, <4>1, <4>2, <4>3, <4>4 DEF SweepMoves
    <3> QED BY <1>2, <2>1, <3>1, <3>2, CoverKept DEF LeaseInv
  <2> QED BY <1>7, <2>7 DEF LeaseInv
<1>10. CASE SweepDeaf(i) \/ SweepRecovered(i)
  <2>1. \A b \in Builds : status[b] \in {"DISPATCHED", "RUNNING", "EXPIRED"} => status'[b] = status[b]
    <3>1. PICK queue \in Batch(DueIn("QUEUED"), SweepBatch) : Ended(queue, "EXPIRED", "QUEUE_TIMEOUT")
      BY <1>10 DEF SweepDeaf, SweepRecovered
    <3> QED BY <3>1 DEF Batch, DueIn, Ended
  <2>2. \A b \in Builds : status'[b] \in {"DISPATCHED", "RUNNING"} => status'[b] = status[b]
    <3>1. PICK queue \in Batch(DueIn("QUEUED"), SweepBatch) : Ended(queue, "EXPIRED", "QUEUE_TIMEOUT")
      BY <1>10 DEF SweepDeaf, SweepRecovered
    <3> QED BY <3>1 DEF Batch, DueIn, Ended
  <2>3. ASSUME NEW b \in Builds, exec[b] = "ENDED", status'[b] = "EXPIRED" PROVE status[b] = "EXPIRED"
    <3>1. status[b] # "QUEUED"
      BY <1>4, <2>3 DEF HistoryInv
    <3>2. PICK queue \in Batch(DueIn("QUEUED"), SweepBatch) : Ended(queue, "EXPIRED", "QUEUE_TIMEOUT")
      BY <1>10 DEF SweepDeaf, SweepRecovered
    <3> QED BY <2>3, <3>1, <3>2 DEF Batch, DueIn, Ended
  <2>4. ASSUME NEW b \in Builds, status[b] = "RUNNING"
        PROVE  left'[b] = left[b] \/ (SweepRecovered(i) /\ left'[b] = Grace /\ left[b] < Grace)
    BY <1>1, <2>1, <2>4 DEF SweepMoves, Waits, GoesOut, Overdue, Lapses
  <2>5. SweepRecovered(i) => \A b \in Builds : status[b] = "RUNNING" => left'[b] >= Grace
    <3> SUFFICES ASSUME SweepRecovered(i), NEW b \in Builds, status[b] = "RUNNING" PROVE left'[b] >= Grace
      OBVIOUS
    <3>1. left[b] \in Nat
      BY DEF ReportsTrue
    <3>2. b \in NearDeadline <=> left[b] < Grace
      BY <3>1 DEF NearDeadline, InFlight, IsInFlight, Never
    <3>3. left'[b] = IF b \in NearDeadline THEN Grace ELSE left[b]
      BY DEF SweepRecovered
    <3> QED BY <3>1, <3>2, <3>3, DeadlinesAssumption
  <2>6. SweepDeaf(i) => unreachable'
    BY DEF SweepDeaf
  <2>7. ASSUME NEW b \in Builds PROVE Covered(b)'
    <3>1. RunCovered(b)'
      <4> SUFFICES ASSUME exec'[b] = "RUNNING", status'[b] = "RUNNING" PROVE left'[b] >= runFor'[b] + Grace
        BY DEF RunCovered
      <4>1. status[b] = "RUNNING" /\ left[b] >= runFor[b] + Grace /\ runFor[b] \in Nat
        BY <1>2, <2>2, ContractAssumption DEF LeaseInv, Covered, RunCovered, ServiceTyped
      <4>2. left'[b] = left[b]
        BY <2>4, <4>1, DeadlinesAssumption
      <4> QED BY <1>2, <4>1, <4>2
    <3>2. ResultCovered(b)'
      <4> SUFFICES ASSUME exec'[b] = "ENDED", status'[b] \in {"DISPATCHED", "RUNNING", "EXPIRED"}
                   PROVE  \E t \in Results : Sent(b, t)' /\ (status'[b] = "RUNNING" /\ ~unreachable' =>
                                                                left'[b] >= (Margin(b, t))')
        BY DEF ResultCovered
      <4>1. exec[b] = "ENDED" /\ status[b] = status'[b]
        BY <1>2, <2>2, <2>3
      <4>2. PICK t \in Results : Sent(b, t)
        BY <4>1 DEF LeaseInv, Covered, ResultCovered
      <4>3. ASSUME status'[b] = "RUNNING", ~unreachable' PROVE left'[b] >= (Margin(b, t))'
        <5>1. left'[b] >= Grace
          BY <1>10, <2>5, <2>6, <4>1, <4>3
        <5>2. (Margin(b, t))' \in Int /\ (Margin(b, t))' <= Grace
          BY DEF MarginsFit
        <5>3. left'[b] \in Int
          BY <2>4, <4>1, <4>3, DeadlinesAssumption
        <5> QED BY <5>1, <5>2, <5>3, DeadlinesAssumption
      <4> QED BY <1>8, <4>2, <4>3
    <3> QED BY <3>1, <3>2 DEF Covered
  <2> QED BY <1>7, <2>7 DEF LeaseInv
<1> QED BY <1>9, <1>10 DEF SweepRun

\* A tick: a lease, the run or the way of its report get shorter together; while the backbone is away the
\* tick needs a sweep, which was paid for.
LEMMA TickCovers ==
    ASSUME IInv, HistoryInv, ServiceInv, GraceCovers, LeaseInv, [ContractNext]_contractVars, TimePasses
    PROVE  LeaseInv'
<1> USE Facts
<1>1. /\ UNCHANGED <<status, reason, exec, unreachable, asked, up, outages>>
      /\ swept /\ swept' = FALSE
  BY DEF TimePasses, Tick, sweepVars
<1>2. LeaseMeansSilence'
  BY <1>1 DEF LeaseInv, LeaseMeansSilence
<1>3. \A b \in Builds : left'[b] = Less(left[b])
  BY DEF TimePasses, Tick, Less
<1>4. ASSUME NEW b \in Builds, NEW t \in ReportTypes, Sent(b, t)
      PROVE  Sent(b, t)' /\ (Margin(b, t))' = Margin(b, t) - 1
  <2>0. transit[b][t] \in 0..TransitTime /\ outages \in 0..MaxOutages
    BY <1>4, ContractAssumption DEF ServiceTyped, Sent, NotSent
  <2>1. Spare(outages) \in Nat /\ (Spare(outages))' = Spare(outages)
    BY <1>1, <2>0, SpareCovers DEF Spare
  <2>2. CASE up
    <3>1. transit[b][t] # 0 /\ transit'[b][t] = Less(transit[b][t])
      BY <2>2 DEF TimePasses
    <3>2. transit'[b][t] = transit[b][t] - 1 /\ transit'[b][t] \in Nat
      BY <2>0, <3>1, ContractAssumption DEF Less
    <3> QED BY <1>1, <2>0, <2>1, <2>2, <3>2, ContractAssumption DEF Margin, Sent, NotSent
  <2>3. CASE ~up
    <3>1. transit'[b][t] = transit[b][t]
      BY <2>3 DEF TimePasses
    <3>2. HeardAnswers' = HeardAnswers
      BY <1>1 DEF HeardAnswers
    <3>3. Used = 1 /\ Used' = 0
      BY <1>1 DEF Used
    <3>4. Cardinality(HeardAnswers) \in 0..Cardinality(Sweeping)
      BY AnswersCounted DEF HeardAnswers
    <3>5. Margin(b, t) = TransitTime + 1 + Spare(outages) + Cardinality(HeardAnswers) + 1
      BY <2>3, <3>3 DEF Margin
    <3>6. (Margin(b, t))' = TransitTime + 1 + Spare(outages) + Cardinality(HeardAnswers)  + 0
      BY <1>1, <2>1, <2>3, <3>2, <3>3 DEF Margin
    <3>7. (Margin(b, t))' = Margin(b, t) - 1
      BY <2>1, <3>4, <3>5, <3>6, CostsTyped
    <3> QED BY <1>4, <3>1, <3>7 DEF Sent
  <2> QED BY <2>2, <2>3
<1>5. ASSUME NEW b \in Builds PROVE Covered(b)'
  <2>1. RunCovered(b)'
    <3> SUFFICES ASSUME exec'[b] = "RUNNING", status'[b] = "RUNNING" PROVE left'[b] >= runFor'[b] + Grace
      BY DEF RunCovered
    <3>1. /\ exec[b] = "RUNNING" /\ left[b] >= runFor[b] + Grace /\ runFor[b] \in Nat
          /\ runFor[b] > 0 /\ runFor'[b] = Less(runFor[b])
      BY <1>1, ContractAssumption DEF LeaseInv, Covered, RunCovered, ServiceTyped, TimePasses
    <3> QED BY <1>3, <3>1, DeadlinesAssumption DEF Less
  <2>2. ResultCovered(b)'
    <3> SUFFICES ASSUME exec'[b] = "ENDED", status'[b] \in {"DISPATCHED", "RUNNING", "EXPIRED"}
                 PROVE  \E t \in Results : Sent(b, t)' /\ (status'[b] = "RUNNING" /\ ~unreachable' =>
                                                              left'[b] >= (Margin(b, t))')
      BY DEF ResultCovered
    <3>1. PICK t \in Results : Sent(b, t) /\ (status[b] = "RUNNING" /\ ~unreachable => left[b] >= Margin(b, t))
      BY <1>1 DEF LeaseInv, Covered, ResultCovered
    <3>2. Sent(b, t)' /\ (Margin(b, t))' = Margin(b, t) - 1 /\ Margin(b, t) \in Int /\ Margin(b, t) > 0
      BY <1>4, <3>1 DEF MarginsFit
    <3>3. ASSUME status'[b] = "RUNNING", ~unreachable' PROVE left'[b] >= (Margin(b, t))'
      <4>1. left[b] >= Margin(b, t) /\ left[b] \in Int /\ left'[b] = Less(left[b])
        BY <1>1, <1>3, <3>1, <3>3
      <4> QED BY <3>2, <4>1 DEF Less
    <3> QED BY <3>2, <3>3
  <2> QED BY <2>1, <2>2 DEF Covered
<1> QED BY <1>2, <1>5 DEF LeaseInv

LEMMA LeaseStep == IInv /\ HistoryInv /\ ServiceInv /\ GraceCovers /\ LeaseInv /\ [ContractNext]_contractVars => LeaseInv'
<1> SUFFICES ASSUME IInv, HistoryInv, ServiceInv, GraceCovers, LeaseInv, [ContractNext]_contractVars
             PROVE  LeaseInv'
  OBVIOUS
<1>1. ASSUME NEW b \in Builds, StartBuild(b) \/ LoseBuild(b) \/ \E t \in ReportTypes : EndBuild(b, t)
      PROVE  LeaseInv'
  BY <1>1, ExecCovers
<1>2. ASSUME NEW b \in Builds, NEW t \in ReportTypes, ReportHeard(b, t) PROVE LeaseInv'
  BY <1>2, HeardCovers
<1>3. ASSUME NEW b \in Builds, ReportRolledBack(b) \/ \E t \in ReportTypes : HearReport(b, t) PROVE LeaseInv'
  <2>1. UNCHANGED <<exec, runFor, up, outages, swept, asked, unreachable, status, left, reason, transit>>
    BY <1>3 DEF ReportRolledBack, HearReport, ReportAbort, ReportLock, buildVars, sweepVars, serviceVars
  <2> QED BY <2>1, QuietCovers
<1>4. ASSUME NEW b \in Builds, NEW t \in ReportTypes, ReportUnmatched(b, t) PROVE LeaseInv'
  <2>1. /\ UNCHANGED <<exec, runFor, up, outages, swept, asked, unreachable, status, left, reason>>
        /\ status[b] \notin ReportFrom(t)
        /\ transit' = [transit EXCEPT ![b][t] = NotSent]
    BY <1>4 DEF ReportUnmatched, Consume, vars
  <2>2. ASSUME NEW d \in Builds, NEW u \in Results, status[d] \in {"DISPATCHED", "RUNNING", "EXPIRED"}
        PROVE  transit'[d][u] = transit[d][u]
    <3>1. ~(d = b /\ u = t)
      BY <2>1, <2>2 DEF ReportFrom, Results
    <3> QED BY <2>1, <3>1 DEF ServiceInv, ServiceTyped
  <2> QED BY <2>1, <2>2, QuietCovers
<1>5. CASE BackboneFails \/ BackboneReturns
  BY <1>5, BackboneCovers
<1>6. CASE QueueStep
  <2>1. QueueMoves /\ UNCHANGED <<exec, runFor, transit, up, outages, swept, asked, unreachable>>
    BY <1>6, QueueStepMoves DEF QueueStep
  <2>2. ASSUME NEW b \in Builds
        PROVE  \/ status'[b] = status[b] /\ left'[b] = left[b]
               \/ exec[b] \notin {"RUNNING", "ENDED"}
    <3>1. status[b] \in {"ABSENT", "QUEUED"} => exec[b] \notin {"RUNNING", "ENDED"}
      BY DEF HistoryInv, ServiceInv, OnlyTheGiven
    <3> QED BY <2>1, <3>1 DEF QueueMoves, Still, Waits, LeftKept
  <2>3. ASSUME NEW b \in Builds PROVE reason'[b] = reason[b] \/ reason'[b] # "LEASE_EXPIRED"
    <3>1. CASE Intake
      BY <3>1 DEF Intake, DropPush, Supersede, Enqueue, Reject, Ended, buildVars, IInv, TypeInv, Typed, RowsTyped
    <3>2. CASE Teardown
      BY <3>2 DEF Teardown, CancelByUser, OnAppCreated, OnAppDeleted, OnOrgDeleted, Ended, buildVars
    <3>3. CASE \E i \in Dispatching : Round(i)
      BY <3>3 DEF Round, RoundOpen, Turn, DispatchOne, RoundCommit, RoundAbort, buildVars
    <3> QED BY <1>6, <3>1, <3>2, <3>3 DEF QueueStep
  <2> QED BY <2>1, <2>2, <2>3, QuietCovers
<1>7. ASSUME NEW i \in Sweeping, Ask(i) PROVE LeaseInv'
  <2>1. /\ UNCHANGED <<exec, runFor, up, outages, swept, unreachable, status, left, reason, transit>>
        /\ asked[i] = "IDLE" /\ asked' = [asked EXCEPT ![i] = IF up THEN "HEARD" ELSE "DEAF"]
    BY <1>7 DEF Ask, SweepAsk, buildVars, serviceVars
  <2>2. ~up => HeardAnswers' = HeardAnswers
    BY <2>1 DEF HeardAnswers, IInv, TypeInv, Typed, LocksTyped
  <2>3. \A b, t : (Margin(b, t))' = Margin(b, t) /\ (Sent(b, t) <=> Sent(b, t)')
    BY <2>1, <2>2 DEF Margin, Sent, Spare, Used
  <2>4. LeaseMeansSilence'
    BY <2>1 DEF LeaseInv, LeaseMeansSilence
  <2>5. ASSUME NEW b \in Builds PROVE Covered(b)'
    <3>1. \A t \in Results : Sent(b, t) => Sent(b, t)' /\ Margin(b, t) \in Int
                                /\ (Margin(b, t))' \in Int /\ (Margin(b, t))' <= Margin(b, t)
      BY <2>3, Facts DEF MarginsFit
    <3> QED BY <2>1, <3>1, Facts, CoverKept DEF LeaseInv
  <2> QED BY <2>4, <2>5 DEF LeaseInv
<1>8. ASSUME NEW i \in Sweeping, SweepRun(i) PROVE LeaseInv'
  BY <1>8, SweepCovers
<1>9. CASE TimePasses
  BY <1>9, TickCovers
<1>10. CASE UNCHANGED contractVars
  <2>1. UNCHANGED <<exec, runFor, up, outages, swept, asked, unreachable, status, left, reason, transit>>
    BY <1>10 DEF contractVars, vars, serviceVars
  <2> QED BY <2>1, QuietCovers
<1> QED BY <1>1, <1>2, <1>3, <1>4, <1>5, <1>6, <1>7, <1>8, <1>9, <1>10 DEF ContractNext

\* Whenever the grace covers the outages there can be, every lease outlasts the run and the way of its
\* result, and none has expired but on a builder that died.
LEMMA LeasesHold == ASSUME GraceCovers PROVE ContractSpec => [](IInv /\ ServiceInv /\ LeaseInv)
<1>1. IInv /\ HistoryInv /\ ServiceInv /\ LeaseInv /\ [ContractNext]_contractVars => LeaseInv'
  BY LeaseStep
<1> QED BY <1>1, ServiceHolds, LeaseStart, ContractIsSpec, Inductive, HistoryHolds, PTL DEF ContractSpec

\* LeaseMeansSilence for any number of builds, instances and outages, and any deadlines of which the grace
\* covers the outages: the sweeper's LEASE_EXPIRED is right about every build it names.
THEOREM LeasesEndInSilence == ASSUME GraceCovers PROVE ContractSpec => []LeaseMeansSilence
<1>1. LeaseInv => LeaseMeansSilence
  BY DEF LeaseInv
<1> QED BY <1>1, LeasesHold, PTL

\* OverlapNeedsStartTimeout under the same condition: the unique index on an app's builds in flight keeps
\* build-service to one running build of the app, but for builds the queue gave up before they started.
THEOREM OverlapsAreLateStarts == ASSUME GraceCovers PROVE ContractSpec => []OverlapNeedsStartTimeout
<1>1. IInv /\ ServiceInv /\ LeaseInv => OverlapNeedsStartTimeout
  <2> SUFFICES ASSUME IInv, ServiceInv, LeaseInv, NEW b \in Builds, NEW d \in Builds,
                      b # d, exec[b] = "RUNNING", exec[d] = "RUNNING", App(b) = App(d),
                      reason[b] # "START_TIMEOUT", reason[d] # "START_TIMEOUT"
               PROVE  FALSE
    BY DEF OverlapNeedsStartTimeout
  <2>1. ASSUME NEW c \in {b, d} PROVE c \in InFlight
    <3>1. exec[c] = "RUNNING" /\ reason[c] # "START_TIMEOUT"
      OBVIOUS
    <3>2. status[c] \in Given /\ Instances # {} /\ status[c] \notin {"SUCCEEDED", "FAILED"}
      BY <3>1 DEF ServiceInv, OnlyTheGiven, ReportsTrue
    <3>3. status[c] # "EXPIRED"
      BY <3>1 DEF ServiceInv, OnlyTheGiven, LeaseInv, LeaseMeansSilence
    <3> QED BY <3>2, <3>3 DEF InFlight, IsInFlight, Given
  <2>2. PICK i \in Instances : TRUE
    BY DEF ServiceInv, OnlyTheGiven
  <2>3. b \in Held(i) /\ d \in Held(i)
    BY <2>1 DEF Held
  <2> QED BY <2>2, <2>3 DEF IInv, RoundInv, AppExclusive
<1> QED BY <1>1, LeasesHold, PTL
=============================================================================
