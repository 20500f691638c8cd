-------------------------- MODULE BuildQueueProofs --------------------------
(* Proofs about BuildQueue, and about the counters that FairShare adds to   *)
(* it, for every number of builds, orgs, apps and instances and every value *)
(* of the limits and deadlines.                                             *)
EXTENDS FairShare, FiniteSetTheorems, WellFoundedInduction, TLAPS

\* A round's record before anything is known of how many slots it has left.
RoundTyped ==
    [open : BOOLEAN, slots : Int, hit : BOOLEAN,
     list : SUBSET Builds, sent : SUBSET Builds, locked : SUBSET Orgs]

Typed == RowsTyped /\ LocksTyped /\ round \in [Instances -> RoundTyped]

\* What a transaction works on exists, so its app and org are known.
Known ==
    /\ \A i \in Instances, b \in Builds : b \in round[i].list \cup round[i].sent => status[b] # "ABSENT"
    /\ \A b \in Builds : locking[b] # "NONE" => status[b] # "ABSENT"

TypeInv == Typed /\ Known

\* Everything an outbox append adds to a build's events is an event.
LEMMA EventTypes ==
    /\ \A s \in Seq(Event) : /\ Append(s, QueuedEvent) \in Seq(Event)
                             /\ Append(s, CancelledEvent) \in Seq(Event)
    /\ \A s \in Seq(Event), n \in Nat : Append(s, DispatchedEvent(n)) \in Seq(Event)
<1>1. QueuedEvent \in Event /\ CancelledEvent \in Event
  BY DEF QueuedEvent, CancelledEvent, Event
<1>2. \A n \in Nat : DispatchedEvent(n) \in Event
  BY DEF DispatchedEvent, Event
<1> QED BY <1>1, <1>2

\* Ending builds leaves the three columns it writes well typed.
LEMMA EndedTypes ==
    ASSUME RowsTyped, NEW S \in SUBSET Builds, NEW s \in Statuses, NEW r \in Reasons,
           Ended(S, s, r)
    PROVE  /\ status' \in [Builds -> Statuses]
           /\ reason' \in [Builds -> Reasons]
           /\ events' \in [Builds -> Seq(Event)]
<1>1. \A b \in Builds : Append(events[b], CancelledEvent) \in Seq(Event)
  BY EventTypes DEF RowsTyped
<1> QED BY <1>1 DEF RowsTyped, Ended

\* Ranks in the line are natural numbers.
LEMMA RenumberedType ==
    ASSUME NEW f \in [Orgs -> Nat]
    PROVE  Renumbered(f) \in [Orgs -> Nat]
<1> SUFFICES ASSUME NEW o \in Orgs
             PROVE  Cardinality({f[p] : p \in {q \in Orgs : 0 < f[q] /\ f[q] <= f[o]}}) \in Nat
  BY DEF Renumbered
<1> DEFINE T == {f[p] : p \in {q \in Orgs : 0 < f[q] /\ f[q] <= f[o]}}
<1>1. T \in SUBSET Nat /\ \A t \in T : t <= f[o]
  OBVIOUS
<1>2. IsFiniteSet(T)
  BY <1>1, FS_BoundedSetOfNaturals
<1> QED BY <1>2, FS_CardinalityType

-----------------------------------------------------------------------------
(* The inductive invariant.  The limits are checked against a list that is  *)
(* read once per turn and used over several steps, so they only hold because *)
(* of what stays true of that list, and of the rows a round has written, for *)
(* as long as it is open.                                                    *)

OneRound == \A i, j \in Instances : IsOpen(i) /\ IsOpen(j) => i = j

\* A round that is not open has nothing on its hands.
ClosedIsIdle == \A i \in Instances : ~IsOpen(i) => round[i] = NoRound

\* What an open round has dispatched still waits in the table, behind its org's lock.
SentWaits ==
    \A i \in Instances : \A b \in round[i].sent :
        status[b] = "QUEUED" /\ Org(b) \in round[i].locked

\* A report that holds a row found it in a status it may move.
LockSound == \A b \in Builds : locking[b] # "NONE" => status[b] \in ReportFrom(locking[b])

\* The candidates of a turn belong to different orgs and to apps that hold no slot.
ListApart ==
    \A i \in Instances : \A c \in round[i].list :
        /\ OfApp(Held(i), App(c)) = {}
        /\ \A d \in round[i].list : Org(d) = Org(c) => d = c

\* Each candidate's org has a slot to give, and the round has one for each candidate.
ListFits ==
    \A i \in Instances : \A c \in round[i].list :
        Cardinality(OfOrg(Held(i), Org(c))) < MaxConcurrent[Org(c)]

SlotsFit ==
    \A i \in Instances :
        /\ Cardinality(Held(i)) + round[i].slots <= GlobalConcurrency
        /\ Cardinality(round[i].list) <= round[i].slots

RoundInv ==
    /\ OneRound
    /\ ClosedIsIdle
    /\ SentWaits
    /\ LockSound
    /\ ListApart
    /\ ListFits
    /\ SlotsFit
    /\ AppExclusive
    /\ OrgWithinLimit

IInv == TypeInv /\ RoundInv

-----------------------------------------------------------------------------
(* Types *)

\* The initial state is well typed.
LEMMA TypeInit == Init => TypeInv
<1> SUFFICES ASSUME Init PROVE TypeInv
  OBVIOUS
<1>1. events \in [Builds -> Seq(Event)]
  BY DEF Init
<1>2. RowsTyped
  BY <1>1 DEF Init, RowsTyped, Statuses, Reasons
<1>3. LocksTyped
  BY DEF Init, LocksTyped, ReportTypes
<1>4. round \in [Instances -> RoundTyped]
  BY DEF Init, NoRound, RoundTyped
<1>5. Known
  BY DEF Init, Known, NoRound
<1> QED BY <1>2, <1>3, <1>4, <1>5 DEF TypeInv, Typed

\* The org of a build that exists is one of the orgs.
LEMMA OrgType ==
    ASSUME RowsTyped, NEW b \in Builds, status[b] # "ABSENT"
    PROVE  App(b) \in Apps /\ Org(b) \in Orgs
BY TenantsAssumption DEF RowsTyped, PushContent, App, Org

\* Every step of the scheduler leaves rows, locks and rounds well typed.
LEMMA TypeStep == TypeInv /\ [Next]_vars => Typed'
<1> SUFFICES ASSUME TypeInv, [Next]_vars PROVE Typed'
  OBVIOUS
<1> USE TenantsAssumption, InstancesAssumption, LimitsAssumption, DeadlinesAssumption
<1> USE DEF TypeInv, Typed
<1>1. ASSUME NEW p \in Pushes, DropPush(p) PROVE Typed'
  BY <1>1 DEF DropPush, PushContent, RowsTyped, LocksTyped, buildVars, sweepVars
<1>2. ASSUME NEW p \in Pushes, NEW b \in Builds, Supersede(b, p) PROVE Typed'
  <2>1. status' \in [Builds -> Statuses] /\ reason' \in [Builds -> Reasons]
        /\ supersededBy' \in [Builds -> SUBSET Builds]
    BY <1>2 DEF Supersede, RowsTyped, WaitingFor, Queued, Statuses, Reasons
  <2>2. events' \in [Builds -> Seq(Event)]
    <3>1. PICK w \in Builds : w # b /\ events' = [events EXCEPT ![w] = Append(@, CancelledEvent),
                                                              ![b] = Append(@, QueuedEvent)]
      BY <1>2 DEF Supersede, WaitingFor, Queued, IsNext
    <3>2. Append(events[w], CancelledEvent) \in Seq(Event) /\ Append(events[b], QueuedEvent) \in Seq(Event)
      BY EventTypes DEF RowsTyped
    <3> QED BY <3>1, <3>2 DEF RowsTyped
  <2>3. push' = [push EXCEPT ![b] = p] /\ attempt' = attempt
        /\ left' \in [Builds -> Nat \cup {Never}]
    BY <1>2 DEF Supersede, Enqueued, RowsTyped
  <2>4. \A d \in Builds : status'[d] # "ABSENT" => push'[d] \in PushContent
    BY <1>2, <2>3 DEF Supersede, RowsTyped, WaitingFor, Queued
  <2>5. orgs' \in [Orgs -> {"ABSENT", "ACTIVE", "DELETED"}] /\ apps' \in [Apps -> {"ABSENT", "ACTIVE", "DELETED"}]
    BY <1>2 DEF Supersede, ProjectsOf, RowsTyped
  <2> QED BY <1>2, <2>1, <2>2, <2>3, <2>4, <2>5 DEF Supersede, RowsTyped, LocksTyped, sweepVars
<1>3. ASSUME NEW p \in Pushes, NEW b \in Builds, Enqueue(b, p) PROVE Typed'
  <2>1. status' \in [Builds -> Statuses]
    BY <1>3 DEF Enqueue, RowsTyped, Statuses
  <2>2. events' \in [Builds -> Seq(Event)]
    BY <1>3, EventTypes DEF Enqueue, RowsTyped
  <2>3. push' = [push EXCEPT ![b] = p] /\ attempt' = attempt
        /\ left' \in [Builds -> Nat \cup {Never}]
    BY <1>3 DEF Enqueue, Enqueued, RowsTyped
  <2>5. orgs' \in [Orgs -> {"ABSENT", "ACTIVE", "DELETED"}] /\ apps' \in [Apps -> {"ABSENT", "ACTIVE", "DELETED"}]
    BY <1>3 DEF Enqueue, ProjectsOf, RowsTyped
  <2> QED BY <1>3, <2>1, <2>2, <2>3, <2>5 DEF Enqueue, RowsTyped, LocksTyped, sweepVars
<1>4. ASSUME NEW p \in Pushes, NEW b \in Builds, Reject(b, p) PROVE Typed'
  <2>1. Ended({b}, "REJECTED", "QUEUE_FULL")
    BY <1>4 DEF Reject
  <2>2. /\ status' \in [Builds -> Statuses]
        /\ reason' \in [Builds -> Reasons]
        /\ events' \in [Builds -> Seq(Event)]
    BY <2>1, EndedTypes DEF Statuses, Reasons
  <2>3. \A d \in Builds : status'[d] # "ABSENT" => push'[d] \in PushContent
    BY <1>4, <2>1 DEF Reject, Ended, RowsTyped
  <2>5. orgs' \in [Orgs -> {"ABSENT", "ACTIVE", "DELETED"}] /\ apps' \in [Apps -> {"ABSENT", "ACTIVE", "DELETED"}]
    BY <1>4 DEF Reject, ProjectsOf, RowsTyped
  <2> QED BY <1>4, <2>2, <2>3, <2>5 DEF Reject, RowsTyped, LocksTyped, sweepVars
<1>5. ASSUME NEW b \in Builds, CancelByUser(b) PROVE Typed'
  <2>1. Ended({b}, "CANCELLED", "USER_CANCELLED") /\ Disarmed({b})
    BY <1>5 DEF CancelByUser
  <2>2. /\ status' \in [Builds -> Statuses]
        /\ reason' \in [Builds -> Reasons]
        /\ events' \in [Builds -> Seq(Event)]
    BY <2>1, EndedTypes DEF Statuses, Reasons
  <2>3. \A d \in Builds : status'[d] # "ABSENT" => status[d] # "ABSENT"
    BY <1>5, <2>1 DEF CancelByUser, Ended
  <2>4. left' \in [Builds -> Nat \cup {Never}]
    BY <2>1 DEF Disarmed, RowsTyped
  <2> QED BY <1>5, <2>2, <2>3, <2>4 DEF CancelByUser, RowsTyped, LocksTyped, sweepVars, orgVars
<1>6. ASSUME NEW a \in Apps, OnAppCreated(a) PROVE Typed'
  BY <1>6 DEF OnAppCreated, RowsTyped, LocksTyped, buildVars, sweepVars
<1>7. ASSUME NEW a \in Apps, OnAppDeleted(a) PROVE Typed'
  <2> DEFINE S == OfApp(Queued, a)
  <2>1. Ended(S, "CANCELLED", "APP_DELETED") /\ Disarmed(S) /\ S \in SUBSET Builds
    BY <1>7 DEF OnAppDeleted, OfApp, Queued
  <2>2. /\ status' \in [Builds -> Statuses]
        /\ reason' \in [Builds -> Reasons]
        /\ events' \in [Builds -> Seq(Event)]
    BY <2>1, EndedTypes DEF Statuses, Reasons
  <2>3. \A d \in Builds : status'[d] # "ABSENT" => status[d] # "ABSENT"
    BY <2>1 DEF Ended, OfApp, Queued
  <2>4. left' \in [Builds -> Nat \cup {Never}]
    BY <2>1 DEF Disarmed, RowsTyped
  <2> QED BY <1>7, <2>2, <2>3, <2>4 DEF OnAppDeleted, RowsTyped, LocksTyped, sweepVars
<1>8. ASSUME NEW o \in Orgs, OnOrgDeleted(o) PROVE Typed'
  <2> DEFINE S == OfOrg(Queued, o)
  <2>1. Ended(S, "CANCELLED", "ORG_DELETED") /\ Disarmed(S) /\ S \in SUBSET Builds
    BY <1>8 DEF OnOrgDeleted, OfOrg, Queued
  <2>2. /\ status' \in [Builds -> Statuses]
        /\ reason' \in [Builds -> Reasons]
        /\ events' \in [Builds -> Seq(Event)]
    BY <2>1, EndedTypes DEF Statuses, Reasons
  <2>3. \A d \in Builds : status'[d] # "ABSENT" => status[d] # "ABSENT"
    BY <2>1 DEF Ended, OfOrg, Queued
  <2>4. left' \in [Builds -> Nat \cup {Never}]
    BY <2>1 DEF Disarmed, RowsTyped
  <2> QED BY <1>8, <2>2, <2>3, <2>4 DEF OnOrgDeleted, RowsTyped, LocksTyped, sweepVars
<1>9. ASSUME NEW i \in Instances, RoundOpen(i) PROVE Typed'
  <2>1. IsFiniteSet(InFlight) /\ SlotsAtStart \in Int
    <3>1. IsFiniteSet(InFlight)
      BY FS_Subset DEF InFlight
    <3>2. Cardinality(InFlight) \in Nat
      BY <3>1, FS_CardinalityType
    <3> QED BY <3>1, <3>2 DEF SlotsAtStart
  <2>2. round' \in [Instances -> RoundTyped]
    BY <1>9, <2>1 DEF RoundOpen, NoRound, RoundTyped
  <2> QED BY <1>9, <2>2 DEF RoundOpen, RowsTyped, LocksTyped, buildVars, sweepVars, orgVars
<1>10. ASSUME NEW i \in Instances, Turn(i) PROVE Typed'
  <2>1. PICK T \in SUBSET Builds : round' = [round EXCEPT ![i].list = T, ![i].hit = FALSE]
    BY <1>10 DEF Turn, FirstInLine, Candidates, Eligible, Queued
  <2>2. round' \in [Instances -> RoundTyped]
    BY <2>1 DEF RoundTyped
  <2> QED BY <1>10, <2>2 DEF Turn, RowsTyped, LocksTyped, buildVars, sweepVars, orgVars
<1>11. ASSUME NEW i \in Instances, DispatchOne(i) PROVE Typed'
  <2>1. PICK c \in round[i].list :
          round' = [round EXCEPT ![i] = IF CanDispatch(c) THEN Served(@, c) ELSE Passed(@, c)]
    BY <1>11 DEF DispatchOne
  <2>2. c \in Builds /\ Org(c) \in Orgs
    <3>1. c \in Builds
      BY DEF RoundTyped
    <3> QED BY <3>1, OrgType DEF Known
  <2>3. round' \in [Instances -> RoundTyped]
    <3>1. Passed(round[i], c) \in RoundTyped
      BY <2>2 DEF Passed, RoundTyped
    <3>2. Served(round[i], c) \in RoundTyped
      <4> DEFINE r == Passed(round[i], c)
      <4>1. r \in RoundTyped
        BY <3>1
      <4> HIDE DEF r
      <4>2. [r EXCEPT !.sent = @ \cup {c}, !.slots = @ - 1, !.hit = TRUE] \in RoundTyped
        <5>1. r.slots - 1 \in Int /\ r.sent \cup {c} \in SUBSET Builds
          BY <2>2, <4>1 DEF RoundTyped
        <5> QED BY <4>1, <5>1 DEF RoundTyped
      <4> QED BY <4>2 DEF Served, r
    <3> QED BY <2>1, <3>1, <3>2
  <2> QED BY <1>11, <2>3 DEF DispatchOne, RowsTyped, LocksTyped, buildVars, sweepVars, orgVars
<1>12. ASSUME NEW i \in Instances, RoundCommit(i) PROVE Typed'
  <2> DEFINE sent == round[i].sent
  <2>1. sent \in SUBSET Builds
    BY DEF RoundTyped
  <2>2. status' \in [Builds -> Statuses] /\ attempt' \in [Builds -> Nat]
        /\ left' \in [Builds -> Nat \cup {Never}]
    BY <1>12 DEF RoundCommit, RowsTyped, Statuses
  <2>3. \A d \in Builds : status'[d] # "ABSENT" => push'[d] \in PushContent
    BY <1>12 DEF RoundCommit, RowsTyped, Known
  <2>4. events' \in [Builds -> Seq(Event)]
    <3>1. \A d \in Builds : Append(events[d], DispatchedEvent(attempt[d] + 1)) \in Seq(Event)
      BY EventTypes DEF RowsTyped
    <3> QED BY <1>12, <3>1 DEF RoundCommit, RowsTyped
  <2>5. lastServed' \in [Orgs -> Nat]
    <3>1. [o \in Orgs |-> ServedAt(i, o)] \in [Orgs -> Nat]
      BY FS_CardinalityType DEF ServedAt, RowsTyped
    <3>2. lastServed' = Renumbered([o \in Orgs |-> ServedAt(i, o)])
      BY <1>12 DEF RoundCommit
    <3> QED BY <3>1, <3>2, RenumberedType
  <2>6. round' \in [Instances -> RoundTyped]
    BY <1>12 DEF RoundCommit, NoRound, RoundTyped
  <2> QED BY <1>12, <2>2, <2>3, <2>4, <2>5, <2>6 DEF RoundCommit, RowsTyped, LocksTyped, sweepVars
<1>13. ASSUME NEW i \in Instances, RoundAbort(i) PROVE Typed'
  BY <1>13 DEF RoundAbort, NoRound, RoundTyped, RowsTyped, LocksTyped, buildVars, sweepVars, orgVars
<1>14. ASSUME NEW b \in Builds, NEW t \in ReportTypes, ReportLock(b, t) PROVE Typed'
  BY <1>14 DEF ReportLock, RowsTyped, LocksTyped, buildVars, sweepVars, orgVars
<1>15. ASSUME NEW b \in Builds, NEW t \in ReportTypes, ReportCommit(b, t) PROVE Typed'
  <2>1. /\ status' \in [Builds -> Statuses]
        /\ reason' \in [Builds -> Reasons]
        /\ left' \in [Builds -> Nat \cup {Never}]
        /\ locking' \in [Builds -> ReportTypes \cup {"NONE"}]
    BY <1>15 DEF ReportCommit, Moved, RowsTyped, LocksTyped, Statuses, Reasons, ReportTypes
  <2>2. \A d \in Builds : status'[d] # "ABSENT" => status[d] # "ABSENT"
    BY <1>15 DEF ReportCommit, Moved, RowsTyped, Known, ReportTypes
  <2> QED BY <1>15, <2>1, <2>2 DEF ReportCommit, RowsTyped, LocksTyped, sweepVars, orgVars
<1>16. ASSUME NEW b \in Builds, ReportAbort(b) PROVE Typed'
  BY <1>16 DEF ReportAbort, RowsTyped, LocksTyped, buildVars, sweepVars, orgVars
<1>17. ASSUME NEW i \in Instances, NEW answer \in {"HEARD", "DEAF"}, SweepAsk(i, answer) PROVE Typed'
  BY <1>17 DEF SweepAsk, RowsTyped, LocksTyped, buildVars, orgVars
<1>18. ASSUME NEW i \in Instances, SweepDeaf(i) PROVE Typed'
  <2>1. PICK queue \in SUBSET Builds : Ended(queue, "EXPIRED", "QUEUE_TIMEOUT") /\ queue \subseteq DueIn("QUEUED")
    BY <1>18 DEF SweepDeaf, Batch, DueIn
  <2>2. /\ status' \in [Builds -> Statuses]
        /\ reason' \in [Builds -> Reasons]
        /\ events' \in [Builds -> Seq(Event)]
    BY <2>1, EndedTypes DEF Statuses, Reasons
  <2>3. \A d \in Builds : status'[d] # "ABSENT" => status[d] # "ABSENT"
    BY <2>1 DEF Ended, DueIn
  <2> QED BY <1>18, <2>2, <2>3 DEF SweepDeaf, RowsTyped, LocksTyped, orgVars
<1>19. ASSUME NEW i \in Instances, SweepRecovered(i) PROVE Typed'
  <2>1. PICK queue \in SUBSET Builds : Ended(queue, "EXPIRED", "QUEUE_TIMEOUT") /\ queue \subseteq DueIn("QUEUED")
    BY <1>19 DEF SweepRecovered, Batch, DueIn
  <2>2. /\ status' \in [Builds -> Statuses]
        /\ reason' \in [Builds -> Reasons]
        /\ events' \in [Builds -> Seq(Event)]
    BY <2>1, EndedTypes DEF Statuses, Reasons
  <2>3. \A d \in Builds : status'[d] # "ABSENT" => status[d] # "ABSENT"
    BY <2>1 DEF Ended, DueIn
  <2>4. left' \in [Builds -> Nat \cup {Never}]
    BY <1>19 DEF SweepRecovered, RowsTyped
  <2> QED BY <1>19, <2>2, <2>3, <2>4 DEF SweepRecovered, RowsTyped, LocksTyped, orgVars
<1>20. ASSUME NEW i \in Instances, SweepDue(i) PROVE Typed'
  <2> DEFINE Unstarted == IF i \in paused THEN {} ELSE LastAttempt
             Retried == IF i \in paused THEN {} ELSE Redispatchable
  <2>1. PICK queue \in Batch(DueIn("QUEUED"), SweepBatch), start \in Batch(Unstarted, SweepBatch),
             lease \in Batch(DueIn("RUNNING"), SweepBatch) :
        \E again \in Batch(Retried, SweepBatch - Cardinality(start)) :
          /\ Expired(queue, start, lease)
          /\ attempt' = [b \in Builds |-> IF b \in again THEN attempt[b] + 1 ELSE attempt[b]]
          /\ left' = [b \in Builds |-> IF b \in again THEN StartTimeout ELSE left[b]]
          /\ events' = [b \in Builds |->
                         CASE b \in queue \cup start \cup lease -> Append(events[b], CancelledEvent)
                           [] b \in again -> Append(events[b], DispatchedEvent(attempt[b] + 1))
                           [] OTHER -> events[b]]
    BY <1>20 DEF SweepDue
  <2>2. PICK again \in SUBSET Builds :
          /\ Expired(queue, start, lease)
          /\ attempt' = [b \in Builds |-> IF b \in again THEN attempt[b] + 1 ELSE attempt[b]]
          /\ left' = [b \in Builds |-> IF b \in again THEN StartTimeout ELSE left[b]]
          /\ events' = [b \in Builds |->
                         CASE b \in queue \cup start \cup lease -> Append(events[b], CancelledEvent)
                           [] b \in again -> Append(events[b], DispatchedEvent(attempt[b] + 1))
                           [] OTHER -> events[b]]
    BY <2>1 DEF Batch, Redispatchable, DueIn
  <2>3. \A b \in queue \cup start \cup lease : status[b] # "ABSENT"
    BY <2>1 DEF Batch, DueIn, LastAttempt
  <2>4. status' \in [Builds -> Statuses] /\ reason' \in [Builds -> Reasons]
    BY <2>2 DEF Expired, RowsTyped, Statuses, Reasons
  <2>5. \A d \in Builds : status'[d] # "ABSENT" => status[d] # "ABSENT"
    BY <2>2, <2>3 DEF Expired
  <2>6. left' \in [Builds -> Nat \cup {Never}] /\ attempt' \in [Builds -> Nat]
    BY <2>2 DEF RowsTyped
  <2>7. events' \in [Builds -> Seq(Event)]
    <3>1. \A d \in Builds : /\ Append(events[d], DispatchedEvent(attempt[d] + 1)) \in Seq(Event)
                            /\ Append(events[d], CancelledEvent) \in Seq(Event)
      BY EventTypes DEF RowsTyped
    <3> QED BY <2>2, <3>1 DEF RowsTyped
  <2> QED BY <1>20, <2>4, <2>5, <2>6, <2>7 DEF SweepDue, RowsTyped, LocksTyped, orgVars
<1>21. ASSUME Tick PROVE Typed'
  <2>1. left' \in [Builds -> Nat \cup {Never}]
    BY <1>21 DEF Tick, RowsTyped, Never
  <2> QED BY <1>21, <2>1 DEF Tick, RowsTyped, LocksTyped, sweepVars, orgVars
<1>22. ASSUME NEW i \in Instances, SetPaused(i) PROVE Typed'
  BY <1>22 DEF SetPaused, RowsTyped, LocksTyped, buildVars, orgVars
<1>23. ASSUME UNCHANGED vars PROVE Typed'
  BY <1>23 DEF vars, RowsTyped, LocksTyped
<1> QED
  BY <1>1, <1>2, <1>3, <1>4, <1>5, <1>6, <1>7, <1>8, <1>9, <1>10, <1>11, <1>12, <1>13, <1>14, <1>15,
     <1>16, <1>17, <1>18, <1>19, <1>20, <1>21, <1>22, <1>23
     DEF Next, Elsewhere, Intake, Teardown, Report, Round, Sweep

-----------------------------------------------------------------------------
(* Steps outside the rounds *)

\* All that a transaction that commits between two statements of a round does to the rows
\* the round works on: it takes builds out of flight and leaves the round's own ones alone.
Harmless ==
    /\ round' = round
    /\ \A b \in Builds : status[b] # "ABSENT" => status'[b] # "ABSENT" /\ push'[b] = push[b]
    /\ \A b \in Builds : IsInFlight(status'[b]) => IsInFlight(status[b])
    /\ \A i \in Instances : \A b \in round[i].sent : status'[b] = status[b]
    /\ \A b \in Builds : locking'[b] # "NONE" => status'[b] \in ReportFrom(locking'[b])

\* Ending builds that no report and no round holds is harmless.
LEMMA EndedHarmless ==
    ASSUME IInv, NEW S \in SUBSET Builds, NEW s, NEW r, Ended(S, s, r),
           s \notin {"ABSENT", "DISPATCHED", "RUNNING"},
           \A b \in S : locking[b] = "NONE",
           \A i \in Instances : \A b \in S : b \notin round[i].sent,
           round' = round, push' = push, locking' = locking
    PROVE  Harmless
BY DEF IInv, TypeInv, Typed, RowsTyped, LocksTyped, RoundTyped, RoundInv, LockSound, Ended, Harmless, IsInFlight

\* A build that waits is held by no report; one whose org row is free is held by no round.
LEMMA FreeRows ==
    ASSUME IInv
    PROVE  /\ \A b \in Queued : locking[b] = "NONE"
           /\ \A b \in Builds : ~OrgLocked(Org(b)) => \A i \in Instances : b \notin round[i].sent
           /\ \A b \in Builds : ~RowLocked(b) =>
                 locking[b] = "NONE" /\ \A i \in Instances : b \notin round[i].sent
BY DEF IInv, RoundInv, LockSound, SentWaits, ReportFrom, Queued, OrgLocked, RowLocked

LEMMA ElsewhereHarmless == IInv /\ (Elsewhere \/ UNCHANGED vars) => Harmless
<1> SUFFICES ASSUME IInv, Elsewhere \/ UNCHANGED vars PROVE Harmless
  OBVIOUS
<1> USE DEF IInv, TypeInv, Typed
<1>0. LockSound
  BY DEF RoundInv
<1>1. ASSUME NEW p \in Pushes, DropPush(p) PROVE Harmless
  BY <1>0, <1>1 DEF DropPush, Harmless, LockSound, buildVars
<1>2. ASSUME NEW p \in Pushes, NEW b \in Builds, Supersede(b, p) PROVE Harmless
  <2>1. PICK w \in WaitingFor(p) : status' = [status EXCEPT ![w] = "SUPERSEDED", ![b] = "QUEUED"]
    BY <1>2 DEF Supersede
  <2>2. w \in Queued /\ ~OrgLocked(Org(w))
    BY <1>2 DEF Supersede, WaitingFor, Org, App
  <2>3. locking[w] = "NONE" /\ \A i \in Instances : w \notin round[i].sent
    BY <2>2, FreeRows DEF Queued
  <2>4. status[b] = "ABSENT" /\ locking[b] = "NONE" /\ \A i \in Instances : b \notin round[i].sent
    BY <1>2 DEF Supersede, IsNext, Known
  <2>5. round' = round /\ locking' = locking /\ push' = [push EXCEPT ![b] = p]
    BY <1>2 DEF Supersede, Enqueued
  <2> QED BY <1>0, <2>1, <2>2, <2>3, <2>4, <2>5 DEF Harmless, LockSound, RowsTyped, RoundTyped, IsInFlight, Queued
<1>3. ASSUME NEW p \in Pushes, NEW b \in Builds, Enqueue(b, p) \/ Reject(b, p) PROVE Harmless
  <2>1. status[b] = "ABSENT" /\ locking[b] = "NONE" /\ \A i \in Instances : b \notin round[i].sent
    BY <1>3 DEF Enqueue, Reject, IsNext, Known
  <2>2. status'[b] \in {"QUEUED", "REJECTED"} /\ \A d \in Builds \ {b} : status'[d] = status[d]
    BY <1>3 DEF Enqueue, Reject, Ended, RowsTyped
  <2>3. round' = round /\ locking' = locking /\ push' = [push EXCEPT ![b] = p]
    BY <1>3 DEF Enqueue, Reject, Enqueued
  <2> QED BY <1>0, <2>1, <2>2, <2>3 DEF Harmless, LockSound, RowsTyped, RoundTyped, IsInFlight
<1>4. ASSUME NEW b \in Builds, CancelByUser(b) PROVE Harmless
  <2>1. locking[b] = "NONE" /\ \A i \in Instances : b \notin round[i].sent
    BY <1>4, FreeRows DEF CancelByUser, Queued
  <2> QED BY <1>4, <2>1, EndedHarmless DEF CancelByUser
<1>5. ASSUME NEW a \in Apps, OnAppCreated(a) PROVE Harmless
  BY <1>0, <1>5 DEF OnAppCreated, Harmless, LockSound, buildVars
<1>6. ASSUME NEW a \in Apps, OnAppDeleted(a) PROVE Harmless
  <2>1. \A b \in OfApp(Queued, a) : locking[b] = "NONE" /\ \A i \in Instances : b \notin round[i].sent
    BY <1>6, FreeRows DEF OnAppDeleted, OfApp, Queued, Org, App
  <2>2. OfApp(Queued, a) \in SUBSET Builds
    BY DEF OfApp, Queued
  <2> QED BY <1>6, <2>1, <2>2, EndedHarmless DEF OnAppDeleted
<1>7. ASSUME NEW o \in Orgs, OnOrgDeleted(o) PROVE Harmless
  <2>1. \A b \in OfOrg(Queued, o) : locking[b] = "NONE" /\ \A i \in Instances : b \notin round[i].sent
    BY <1>7, FreeRows DEF OnOrgDeleted, OfOrg, Queued
  <2>2. OfOrg(Queued, o) \in SUBSET Builds
    BY DEF OfOrg, Queued
  <2> QED BY <1>7, <2>1, <2>2, EndedHarmless DEF OnOrgDeleted
<1>8. ASSUME NEW b \in Builds, NEW t \in ReportTypes, ReportLock(b, t) PROVE Harmless
  BY <1>0, <1>8 DEF ReportLock, Harmless, LockSound, LocksTyped, buildVars
<1>9. ASSUME NEW b \in Builds, NEW t \in ReportTypes, ReportCommit(b, t) PROVE Harmless
  <2>1. status[b] \in ReportFrom(t) /\ t # "NONE"
    BY <1>0, <1>9 DEF ReportCommit, LockSound, ReportTypes
  <2>2. \A i \in Instances : b \notin round[i].sent
    BY <2>1 DEF RoundInv, SentWaits, ReportFrom
  <2>3. IsInFlight(IF t = "STARTED" THEN "RUNNING" ELSE t) => IsInFlight(status[b])
    BY <2>1 DEF ReportFrom, IsInFlight, ReportTypes
  <2>4. status' = [status EXCEPT ![b] = IF t = "STARTED" THEN "RUNNING" ELSE t]
    BY <1>9 DEF ReportCommit, Moved
  <2>5. (IF t = "STARTED" THEN "RUNNING" ELSE t) # "ABSENT"
    BY DEF ReportTypes
  <2>6. round' = round /\ push' = push /\ locking' = [locking EXCEPT ![b] = "NONE"]
    BY <1>9 DEF ReportCommit
  <2> QED BY <1>0, <2>2, <2>3, <2>4, <2>5, <2>6 DEF Harmless, LockSound, LocksTyped, RowsTyped
<1>10. ASSUME NEW b \in Builds, ReportAbort(b) PROVE Harmless
  BY <1>0, <1>10 DEF ReportAbort, Harmless, LockSound, LocksTyped, buildVars
<1>11. ASSUME NEW i \in Instances, NEW answer \in {"HEARD", "DEAF"}, SweepAsk(i, answer) PROVE Harmless
  BY <1>0, <1>11 DEF SweepAsk, Harmless, LockSound, buildVars
<1>12. ASSUME NEW i \in Instances, SweepDeaf(i) \/ SweepRecovered(i) PROVE Harmless
  <2>1. PICK queue \in SUBSET Builds : Ended(queue, "EXPIRED", "QUEUE_TIMEOUT") /\ queue \subseteq DueIn("QUEUED")
    BY <1>12 DEF SweepDeaf, SweepRecovered, Batch, DueIn
  <2>2. \A b \in queue : locking[b] = "NONE" /\ \A j \in Instances : b \notin round[j].sent
    BY <2>1, FreeRows DEF DueIn
  <2> QED BY <1>12, <2>1, <2>2, EndedHarmless DEF SweepDeaf, SweepRecovered
<1>13. ASSUME NEW i \in Instances, SweepDue(i) PROVE Harmless
  <2> DEFINE Unstarted == IF i \in paused THEN {} ELSE LastAttempt
  <2>1. PICK queue \in Batch(DueIn("QUEUED"), SweepBatch), start \in Batch(Unstarted, SweepBatch),
             lease \in Batch(DueIn("RUNNING"), SweepBatch) : Expired(queue, start, lease)
    BY <1>13 DEF SweepDue
  <2>2. \A b \in queue \cup start \cup lease :
           locking[b] = "NONE" /\ \A j \in Instances : b \notin round[j].sent
    BY <2>1, FreeRows DEF Batch, DueIn, LastAttempt
  <2>3. round' = round /\ push' = push /\ locking' = locking
    BY <1>13 DEF SweepDue
  <2> QED BY <1>0, <2>1, <2>2, <2>3 DEF Expired, Harmless, LockSound, RowsTyped, RoundTyped, IsInFlight
<1>14. ASSUME Tick \/ (\E i \in Instances : SetPaused(i)) PROVE Harmless
  BY <1>0, <1>14 DEF Tick, SetPaused, Harmless, LockSound, buildVars
<1>15. ASSUME UNCHANGED vars PROVE Harmless
  BY <1>0, <1>15 DEF vars, Harmless, LockSound
<1> QED
  BY InstancesAssumption, TenantsAssumption, <1>1, <1>2, <1>3, <1>4, <1>5, <1>6, <1>7, <1>8, <1>9, <1>10, <1>11, <1>12,
     <1>13, <1>14, <1>15
     DEF Elsewhere, Intake, Teardown, Report, Sweep

-----------------------------------------------------------------------------
(* The invariant is kept *)

\* Builds are finitely many, and so is every set of them; fewer builds are not more.
LEMMA BuildSets ==
    /\ \A S \in SUBSET Builds : IsFiniteSet(S) /\ Cardinality(S) \in Nat
    /\ \A S, T \in SUBSET Builds : S \subseteq T => Cardinality(S) <= Cardinality(T)
    /\ \A S \in SUBSET Builds, b \in Builds :
          Cardinality(S \cup {b}) \in Nat /\ Cardinality(S \cup {b}) <= Cardinality(S) + 1
<1>1. \A S \in SUBSET Builds : IsFiniteSet(S) /\ Cardinality(S) \in Nat
  BY TenantsAssumption, FS_Subset, FS_CardinalityType
<1>2. ASSUME NEW S \in SUBSET Builds, NEW T \in SUBSET Builds, S \subseteq T
      PROVE  Cardinality(S) <= Cardinality(T)
  BY <1>1, <1>2, FS_Subset
<1>3. ASSUME NEW S \in SUBSET Builds, NEW b \in Builds
      PROVE  Cardinality(S \cup {b}) \in Nat /\ Cardinality(S \cup {b}) <= Cardinality(S) + 1
  <2>1. IsFiniteSet(S) /\ Cardinality(S) \in Nat
    BY <1>1
  <2>2. Cardinality(S \cup {b}) = IF b \in S THEN Cardinality(S) ELSE Cardinality(S) + 1
    BY <2>1, FS_AddElement
  <2> QED BY <2>1, <2>2
<1> QED BY <1>1, <1>2, <1>3

\* The builds a round holds are builds, and so are those of one org among them.
LEMMA HeldType ==
    ASSUME Typed, NEW i \in Instances
    PROVE  Held(i) \in SUBSET Builds /\ \A o : OfOrg(Held(i), o) \in SUBSET Builds
BY DEF Typed, RoundTyped, Held, InFlight, OfOrg

\* After a harmless step no round holds a build it did not hold before.
LEMMA HeldShrinks ==
    ASSUME IInv, Harmless, NEW i \in Instances
    PROVE  /\ Held(i)' \subseteq Held(i)
           /\ \A b \in Held(i) : status[b] # "ABSENT" /\ push'[b] = push[b]
           /\ \A o : OfOrg(Held(i), o)' \subseteq OfOrg(Held(i), o)
<1>1. Held(i)' \subseteq Held(i)
  BY DEF Harmless, Held, InFlight
<1>2. \A b \in Held(i) : b \in Builds /\ status[b] # "ABSENT" /\ push'[b] = push[b]
  BY DEF IInv, TypeInv, Typed, RoundTyped, Known, Harmless, Held, InFlight, IsInFlight
<1> QED BY <1>1, <1>2 DEF OfOrg, Org, App

LEMMA HarmlessKeeps == IInv /\ Harmless /\ Typed' => IInv'
<1> SUFFICES ASSUME IInv, Harmless, Typed' PROVE IInv'
  OBVIOUS
<1> USE DEF IInv, TypeInv
<1>1. Known'
  BY DEF Known, Harmless, Typed, RoundTyped, ReportFrom
<1>2. OneRound' /\ ClosedIsIdle'
  BY DEF Harmless, RoundInv, OneRound, ClosedIsIdle, IsOpen
<1>3. SentWaits'
  <2> SUFFICES ASSUME NEW i \in Instances, NEW b \in round[i].sent
               PROVE  status'[b] = "QUEUED" /\ Org(b)' \in round[i].locked
    BY DEF Harmless, SentWaits
  <2>1. b \in Builds /\ status[b] = "QUEUED" /\ Org(b) \in round[i].locked
    BY DEF Typed, RoundTyped, RoundInv, SentWaits
  <2> QED BY <2>1 DEF Harmless, Org, App
<1>4. LockSound'
  BY DEF LockSound, Harmless
<1>5. ListApart' /\ ListFits'
  <2> SUFFICES ASSUME NEW i \in Instances, NEW c \in round[i].list
               PROVE  /\ (OfApp(Held(i), App(c)) = {})'
                      /\ \A d \in round[i].list : Org(d)' = Org(c)' => d = c
                      /\ (Cardinality(OfOrg(Held(i), Org(c))) < MaxConcurrent[Org(c)])'
    BY DEF Harmless, ListApart, ListFits
  <2>1. \A d \in round[i].list : d \in Builds /\ status[d] # "ABSENT" /\ Org(d)' = Org(d) /\ App(d)' = App(d)
    BY DEF Typed, RoundTyped, Known, Harmless, Org, App
  <2>2. (OfApp(Held(i), App(c)) = {})'
    BY <2>1, HeldShrinks DEF RoundInv, ListApart, OfApp, App
  <2>3. \A d \in round[i].list : Org(d)' = Org(c)' => d = c
    BY <2>1 DEF RoundInv, ListApart
  <2>4. (Cardinality(OfOrg(Held(i), Org(c))) < MaxConcurrent[Org(c)])'
    <3>1. PICK o \in Orgs : o = Org(c) /\ o = Org(c)'
      BY <2>1, OrgType DEF Typed
    <3>2. Cardinality(OfOrg(Held(i), o)) < MaxConcurrent[o]
      BY <3>1 DEF RoundInv, ListFits
    <3>3. /\ OfOrg(Held(i), o)' \subseteq OfOrg(Held(i), o)
          /\ OfOrg(Held(i), o)' \in SUBSET Builds /\ OfOrg(Held(i), o) \in SUBSET Builds
      <4>1. OfOrg(Held(i), o)' \subseteq OfOrg(Held(i), o)
        BY HeldShrinks
      <4>2. OfOrg(Held(i), o) \in SUBSET Builds
        BY HeldType
      <4> QED BY <4>1, <4>2
    <3>4. Cardinality(OfOrg(Held(i), o)') <= Cardinality(OfOrg(Held(i), o))
      BY <3>3, BuildSets
    <3>5. Cardinality(OfOrg(Held(i), o)) \in Nat /\ Cardinality(OfOrg(Held(i), o)') \in Nat /\ MaxConcurrent[o] \in Nat
      BY <3>1, <3>3, BuildSets, LimitsAssumption
    <3> QED BY <3>1, <3>2, <3>4, <3>5
  <2> QED BY <2>2, <2>3, <2>4
<1>6. SlotsFit'
  <2> SUFFICES ASSUME NEW i \in Instances
               PROVE  /\ Cardinality(Held(i)') + round[i].slots <= GlobalConcurrency
                      /\ Cardinality(round[i].list) <= round[i].slots
    BY DEF Harmless, SlotsFit
  <2>1. Cardinality(Held(i)') <= Cardinality(Held(i)) /\ Cardinality(Held(i)) \in Nat /\ Cardinality(Held(i)') \in Nat
    <3>1. Held(i)' \subseteq Held(i) /\ Held(i) \in SUBSET Builds /\ Held(i)' \in SUBSET Builds
      BY HeldShrinks, HeldType
    <3> QED BY <3>1, BuildSets
  <2>2. round[i].slots \in Int /\ GlobalConcurrency \in Int
    BY LimitsAssumption DEF Typed, RoundTyped
  <2>3. /\ Cardinality(Held(i)) + round[i].slots <= GlobalConcurrency
        /\ Cardinality(round[i].list) <= round[i].slots
    BY DEF RoundInv, SlotsFit
  <2> QED BY <2>1, <2>2, <2>3
<1>7. AppExclusive'
  BY HeldShrinks DEF RoundInv, AppExclusive, App
<1>8. OrgWithinLimit'
  <2> SUFFICES ASSUME NEW i \in Instances, NEW o \in Orgs
               PROVE  Cardinality(OfOrg(Held(i), o)') <= MaxConcurrent[o]
    BY DEF OrgWithinLimit
  <2>1. /\ OfOrg(Held(i), o)' \subseteq OfOrg(Held(i), o)
        /\ OfOrg(Held(i), o)' \in SUBSET Builds /\ OfOrg(Held(i), o) \in SUBSET Builds
    <3>1. OfOrg(Held(i), o)' \subseteq OfOrg(Held(i), o)
      BY HeldShrinks
    <3>2. OfOrg(Held(i), o) \in SUBSET Builds
      BY HeldType
    <3> QED BY <3>1, <3>2
  <2>2. Cardinality(OfOrg(Held(i), o)') <= Cardinality(OfOrg(Held(i), o))
    BY <2>1, BuildSets
  <2>3. Cardinality(OfOrg(Held(i), o)) \in Nat /\ Cardinality(OfOrg(Held(i), o)') \in Nat /\ MaxConcurrent[o] \in Nat
    BY <2>1, BuildSets, LimitsAssumption
  <2>4. Cardinality(OfOrg(Held(i), o)) <= MaxConcurrent[o]
    BY DEF RoundInv, OrgWithinLimit
  <2> QED BY <2>2, <2>3, <2>4
<1> QED BY <1>1, <1>2, <1>3, <1>4, <1>5, <1>6, <1>7, <1>8 DEF RoundInv

\* While one round is open, every other instance's record is empty.
LEMMA OthersIdle ==
    ASSUME IInv, NEW i \in Instances, IsOpen(i), NEW j \in Instances, j # i
    PROVE  round[j] = NoRound
BY DEF IInv, RoundInv, OneRound, ClosedIsIdle

LEMMA OpenKeeps ==
    ASSUME IInv, Typed', NEW i \in Instances, RoundOpen(i)
    PROVE  IInv'
<1> USE DEF IInv, TypeInv
<1>1. \A j \in Instances : round[j] = NoRound
  BY DEF RoundOpen, RoundInv, ClosedIsIdle
<1>2. round' = [round EXCEPT ![i] = [NoRound EXCEPT !.open = TRUE, !.slots = SlotsAtStart, !.hit = TRUE]]
  BY DEF RoundOpen
<1>3. \A j \in Instances : /\ round'[j].list = {} /\ round'[j].sent = {}
                           /\ j # i => round'[j] = NoRound
                           /\ round'[j].slots = IF j = i THEN SlotsAtStart ELSE 0
  <2> DEFINE r == [NoRound EXCEPT !.open = TRUE, !.slots = SlotsAtStart, !.hit = TRUE]
  <2>1. r.list = {} /\ r.sent = {} /\ r.slots = SlotsAtStart
    BY DEF NoRound
  <2>2. NoRound.list = {} /\ NoRound.sent = {} /\ NoRound.slots = 0
    BY DEF NoRound
  <2>3. \A j \in Instances : round'[j] = IF j = i THEN r ELSE NoRound
    BY <1>1, <1>2 DEF Typed
  <2> HIDE DEF r
  <2> QED BY <2>1, <2>2, <2>3
<1>4. status' = status /\ push' = push /\ locking' = locking
  BY DEF RoundOpen, buildVars
<1>5. \A j \in Instances : Held(j)' = InFlight /\ Held(j) = InFlight
  BY <1>1, <1>3, <1>4 DEF Held, InFlight, NoRound
<1>6. Known' /\ LockSound' /\ SentWaits' /\ ListApart' /\ ListFits'
  BY <1>3, <1>4 DEF Known, RoundInv, LockSound, SentWaits, ListApart, ListFits
<1>7. OneRound' /\ ClosedIsIdle'
  BY <1>2, <1>3 DEF OneRound, ClosedIsIdle, IsOpen, NoRound, Typed
<1>8. AppExclusive'
  BY <1>4, <1>5 DEF RoundInv, AppExclusive, App
<1>9. OrgWithinLimit'
  BY <1>4, <1>5 DEF RoundInv, OrgWithinLimit, OfOrg, Org, App
<1>10. SlotsFit'
  <2> SUFFICES ASSUME NEW j \in Instances
               PROVE  /\ Cardinality(Held(j)') + round'[j].slots <= GlobalConcurrency
                      /\ Cardinality(round'[j].list) <= round'[j].slots
    BY DEF SlotsFit
  <2>1. Cardinality(InFlight) \in Nat /\ Cardinality({}) = 0
    BY BuildSets, FS_EmptySet DEF InFlight
  <2>2. Cardinality(InFlight) <= GlobalConcurrency
    BY <1>1, <1>5, <2>1, LimitsAssumption DEF RoundInv, SlotsFit, NoRound
  <2>3. SlotsAtStart \in Nat /\ SlotsAtStart <= GlobalConcurrency - Cardinality(InFlight)
    BY <2>1, <2>2, LimitsAssumption DEF SlotsAtStart
  <2>4. /\ Held(j)' = InFlight /\ round'[j].list = {}
        /\ round'[j].slots = SlotsAtStart \/ round'[j].slots = 0
    BY <1>3, <1>5
  <2> QED BY <2>1, <2>2, <2>3, <2>4, LimitsAssumption
<1> QED BY <1>6, <1>7, <1>8, <1>9, <1>10 DEF RoundInv

LEMMA AbortKeeps ==
    ASSUME IInv, Typed', NEW i \in Instances, RoundAbort(i)
    PROVE  IInv'
<1> USE DEF IInv, TypeInv
<1>1. \A j \in Instances : round'[j] = NoRound
  BY OthersIdle DEF RoundAbort, Typed
<1>2. status' = status /\ push' = push /\ locking' = locking
  BY DEF RoundAbort, buildVars
<1>3. \A j \in Instances : Held(j)' = InFlight /\ Held(j)' \subseteq Held(i)
  BY <1>1, <1>2 DEF Held, InFlight, NoRound
<1>4. Known' /\ LockSound' /\ SentWaits' /\ ListApart' /\ ListFits' /\ OneRound' /\ ClosedIsIdle'
  BY <1>1, <1>2 DEF Known, RoundInv, LockSound, SentWaits, ListApart, ListFits, NoRound, OneRound, ClosedIsIdle, IsOpen
<1>5. AppExclusive'
  BY <1>2, <1>3 DEF RoundInv, AppExclusive, App
<1>6. OrgWithinLimit'
  <2> SUFFICES ASSUME NEW j \in Instances, NEW o \in Orgs
               PROVE  Cardinality(OfOrg(Held(j), o)') <= MaxConcurrent[o]
    BY DEF OrgWithinLimit
  <2>1. OfOrg(Held(j), o)' \subseteq OfOrg(Held(i), o)
    BY <1>2, <1>3 DEF OfOrg, Org, App
  <2>2. OfOrg(Held(i), o) \in SUBSET Builds
    BY HeldType
  <2>3. Cardinality(OfOrg(Held(i), o)) \in Nat /\ Cardinality(OfOrg(Held(j), o)') \in Nat
        /\ Cardinality(OfOrg(Held(j), o)') <= Cardinality(OfOrg(Held(i), o))
    BY <2>1, <2>2, BuildSets
  <2>4. Cardinality(OfOrg(Held(i), o)) <= MaxConcurrent[o] /\ MaxConcurrent[o] \in Nat
    BY LimitsAssumption DEF RoundInv, OrgWithinLimit
  <2> QED BY <2>3, <2>4
<1>7. SlotsFit'
  <2> SUFFICES ASSUME NEW j \in Instances
               PROVE  Cardinality(Held(j)') <= GlobalConcurrency
    BY <1>1, FS_EmptySet, BuildSets, <1>3, LimitsAssumption DEF SlotsFit, NoRound, InFlight
  <2>1. Held(i) \in SUBSET Builds /\ round[i].list \in SUBSET Builds
    BY HeldType DEF Typed, RoundTyped
  <2>2. /\ Cardinality(Held(i)) \in Nat /\ Cardinality(Held(j)') \in Nat /\ Cardinality(round[i].list) \in Nat
        /\ Cardinality(Held(j)') <= Cardinality(Held(i))
    BY <1>3, <2>1, BuildSets
  <2>3. /\ Cardinality(Held(i)) + round[i].slots <= GlobalConcurrency
        /\ Cardinality(round[i].list) <= round[i].slots
        /\ round[i].slots \in Int /\ GlobalConcurrency \in Nat
    BY LimitsAssumption DEF RoundInv, SlotsFit, Typed, RoundTyped
  <2> QED BY <2>2, <2>3
<1> QED BY <1>4, <1>5, <1>6, <1>7 DEF RoundInv

\* A commit makes the round's dispatches everyone's: what is in flight is what it held.
LEMMA CommitKeeps ==
    ASSUME IInv, Typed', NEW i \in Instances, RoundCommit(i)
    PROVE  IInv'
<1> USE DEF IInv, TypeInv
<1>1. \A j \in Instances : round'[j] = NoRound
  BY OthersIdle DEF RoundCommit, Typed
<1>2. /\ status' = [b \in Builds |-> IF b \in round[i].sent THEN "DISPATCHED" ELSE status[b]]
      /\ push' = push /\ locking' = locking
  BY DEF RoundCommit
<1>3. \A j \in Instances : Held(j)' = Held(i)
  BY <1>1, <1>2 DEF Held, InFlight, NoRound, IsInFlight, Typed, RoundTyped
<1>4. \A b \in round[i].sent : locking[b] = "NONE"
  BY DEF RoundInv, LockSound, SentWaits, ReportFrom, Typed, RoundTyped
<1>5. Known' /\ LockSound'
  BY <1>1, <1>2, <1>4 DEF Known, RoundInv, LockSound, NoRound
<1>6. SentWaits' /\ ListApart' /\ ListFits' /\ OneRound' /\ ClosedIsIdle'
  BY <1>1 DEF RoundInv, SentWaits, ListApart, ListFits, NoRound, OneRound, ClosedIsIdle, IsOpen
<1>7. AppExclusive'
  BY <1>2, <1>3 DEF RoundInv, AppExclusive, App
<1>8. OrgWithinLimit'
  BY <1>2, <1>3 DEF RoundInv, OrgWithinLimit, OfOrg, Org, App
<1>9. SlotsFit'
  <2>1. Held(i) \in SUBSET Builds /\ round[i].list \in SUBSET Builds
    BY HeldType DEF Typed, RoundTyped
  <2>2. Cardinality(Held(i)) \in Nat /\ Cardinality(round[i].list) \in Nat /\ Cardinality({}) = 0
    BY <2>1, BuildSets, FS_EmptySet
  <2>3. /\ Cardinality(Held(i)) + round[i].slots <= GlobalConcurrency
        /\ Cardinality(round[i].list) <= round[i].slots
        /\ round[i].slots \in Int /\ GlobalConcurrency \in Nat
    BY LimitsAssumption DEF RoundInv, SlotsFit, Typed, RoundTyped
  <2> QED BY <1>1, <1>3, <2>2, <2>3 DEF SlotsFit, NoRound
<1> QED BY <1>5, <1>6, <1>7, <1>8, <1>9 DEF RoundInv

\* A turn's candidates are eligible builds of different orgs, no more of them than slots.
LEMMA TurnKeeps ==
    ASSUME IInv, Typed', NEW i \in Instances, Turn(i)
    PROVE  IInv'
<1> USE DEF IInv, TypeInv
<1>1. PICK T \in FirstInLine(i, round[i].slots) : round' = [round EXCEPT ![i].list = T, ![i].hit = FALSE]
  BY DEF Turn
<1>2. /\ round'[i].list = T /\ round'[i].sent = round[i].sent /\ round'[i].slots = round[i].slots
      /\ round'[i].open = round[i].open /\ round'[i].locked = round[i].locked
      /\ \A j \in Instances \ {i} : round'[j] = round[j]
  BY <1>1 DEF Typed, RoundTyped
<1>3. /\ status' = status /\ push' = push /\ locking' = locking
      /\ IsOpen(i) /\ round[i].slots > 0
  BY DEF Turn, buildVars
<1>4. T \subseteq Candidates(i) /\ Cardinality(T) <= round[i].slots /\ T \in SUBSET Builds
  BY <1>1 DEF FirstInLine, Candidates, Eligible, Queued
<1>5. \A j \in Instances : Held(j)' = Held(j)
  BY <1>2, <1>3 DEF Held, InFlight
<1>6. Known' /\ LockSound' /\ SentWaits'
  BY <1>2, <1>3, <1>4 DEF Known, RoundInv, LockSound, SentWaits, Candidates, Eligible, Queued, Org, App
<1>7. OneRound' /\ ClosedIsIdle'
  BY <1>2, <1>3 DEF RoundInv, OneRound, ClosedIsIdle, IsOpen
<1>8. \A j \in Instances \ {i} : round'[j].list = {}
  BY <1>2, <1>3, OthersIdle DEF NoRound
<1>9. ListApart' /\ ListFits'
  <2> SUFFICES ASSUME NEW c \in T
               PROVE  /\ (OfApp(Held(i), App(c)) = {})'
                      /\ \A d \in T : Org(d)' = Org(c)' => d = c
                      /\ (Cardinality(OfOrg(Held(i), Org(c))) < MaxConcurrent[Org(c)])'
    BY <1>2, <1>8 DEF ListApart, ListFits
  <2>1. c \in Eligible(i)
    BY <1>4 DEF Candidates
  <2>2. \A d \in T : Org(d) = Org(c) => d = c
    <3> SUFFICES ASSUME NEW d \in T, Org(d) = Org(c), d # c PROVE FALSE
      OBVIOUS
    <3>1. Ahead(c, d) /\ Ahead(d, c)
      BY <1>4, <2>1 DEF Candidates
    <3>2. c \in Nat /\ d \in Nat
      BY <1>4, TenantsAssumption
    <3> QED BY <3>1, <3>2 DEF Ahead
  <2>3. Org(c)' = Org(c) /\ App(c)' = App(c) /\ \A d : Org(d)' = Org(d)
    BY <1>3 DEF Org, App
  <2>4. (OfApp(Held(i), App(c)) = {})'
    BY <1>3, <1>5, <2>1, <2>3 DEF Eligible, OfApp, App
  <2>5. (Cardinality(OfOrg(Held(i), Org(c))) < MaxConcurrent[Org(c)])'
    BY <1>3, <1>5, <2>1, <2>3 DEF Eligible, OfOrg, Org, App
  <2> QED BY <2>2, <2>3, <2>4, <2>5
<1>10. AppExclusive'
  BY <1>3, <1>5 DEF RoundInv, AppExclusive, App
<1>11. OrgWithinLimit'
  BY <1>3, <1>5 DEF RoundInv, OrgWithinLimit, OfOrg, Org, App
<1>12. SlotsFit'
  BY <1>2, <1>4, <1>5 DEF RoundInv, SlotsFit
<1> QED BY <1>6, <1>7, <1>9, <1>10, <1>11, <1>12 DEF RoundInv

\* Sending one candidate takes one slot, of the platform and of its org, and the candidates
\* that are left belong to other orgs: nothing the turn's query found of them has changed.
LEMMA DispatchKeeps ==
    ASSUME IInv, Typed', NEW i \in Instances, DispatchOne(i)
    PROVE  IInv'
<1> USE DEF IInv, TypeInv
<1>1. PICK c \in round[i].list :
        round' = [round EXCEPT ![i] = IF CanDispatch(c) THEN Served(@, c) ELSE Passed(@, c)]
  BY DEF DispatchOne
<1>2. status' = status /\ push' = push /\ locking' = locking /\ IsOpen(i)
  BY DEF DispatchOne, buildVars
<1>3. round[i] \in RoundTyped
  BY DEF Typed
<1>4. /\ Passed(round[i], c).open = round[i].open
      /\ Passed(round[i], c).slots = round[i].slots
      /\ Passed(round[i], c).list = round[i].list \ {c}
      /\ Passed(round[i], c).sent = round[i].sent
      /\ Passed(round[i], c).locked = round[i].locked \cup {Org(c)}
  BY <1>3 DEF Passed, RoundTyped
<1>5. /\ Served(round[i], c).open = round[i].open
      /\ Served(round[i], c).slots = round[i].slots - 1
      /\ Served(round[i], c).list = round[i].list \ {c}
      /\ Served(round[i], c).sent = round[i].sent \cup {c}
      /\ Served(round[i], c).locked = round[i].locked \cup {Org(c)}
  BY <1>3 DEF Served, Passed, RoundTyped
<1>6. \A j \in Instances \ {i} : round'[j] = round[j] /\ round'[j] = NoRound
  BY <1>1, <1>2, OthersIdle DEF Typed
<1>7. /\ round'[i].list = round[i].list \ {c}
      /\ round'[i].open = round[i].open
      /\ round'[i].locked = round[i].locked \cup {Org(c)}
      /\ \/ CanDispatch(c) /\ round'[i].sent = round[i].sent \cup {c} /\ round'[i].slots = round[i].slots - 1
         \/ round'[i].sent = round[i].sent /\ round'[i].slots = round[i].slots
  <2>1. round'[i] = IF CanDispatch(c) THEN Served(round[i], c) ELSE Passed(round[i], c)
    BY <1>1 DEF Typed
  <2> QED BY <2>1, <1>4, <1>5
<1>8. c \in Builds /\ round[i].list \in SUBSET Builds /\ round[i].sent \in SUBSET Builds /\ status[c] # "ABSENT"
  BY <1>3 DEF RoundTyped, Known
<1>9. Org(c) \in Orgs
  BY <1>8, OrgType DEF Typed
<1>10. /\ \A j \in Instances \ {i} : Held(j)' = Held(j)
       /\ Held(i)' = Held(i) \/ Held(i)' = Held(i) \cup {c}
  BY <1>2, <1>6, <1>7 DEF Held, InFlight
<1>11. \A o : OfOrg(Held(i), o)' \in {OfOrg(Held(i), o), OfOrg(Held(i), o) \cup IF o = Org(c) THEN {c} ELSE {}}
  BY <1>2, <1>10 DEF OfOrg, Org, App
<1>12. OneRound' /\ ClosedIsIdle' /\ LockSound' /\ Known'
  <2>1. \A j \in Instances : IsOpen(j)' <=> IsOpen(j)
    BY <1>6, <1>7 DEF IsOpen
  <2>2. OneRound'
    BY <2>1 DEF RoundInv, OneRound
  <2>3. ClosedIsIdle'
    BY <1>2, <1>6, <2>1 DEF ClosedIsIdle
  <2>4. LockSound'
    BY <1>2 DEF RoundInv, LockSound
  <2>5. Known'
    BY <1>2, <1>6, <1>7, <1>8 DEF Known, NoRound
  <2> QED BY <2>2, <2>3, <2>4, <2>5
<1>13. SentWaits'
  BY <1>2, <1>6, <1>7 DEF RoundInv, SentWaits, CanDispatch, NoRound, Org, App
<1>14. \A b \in Held(i) : App(b) # App(c)
  BY DEF RoundInv, ListApart, OfApp
<1>15. AppExclusive'
  BY <1>2, <1>6, <1>10, <1>14 DEF RoundInv, AppExclusive, App
<1>16. \A d \in round'[i].list : Org(d) # Org(c) /\ App(d) # App(c)
  BY <1>7 DEF RoundInv, ListApart, Org
<1>17. ListApart'
  <2> SUFFICES ASSUME NEW d \in round'[i].list
               PROVE  /\ (OfApp(Held(i), App(d)) = {})'
                      /\ \A e \in round'[i].list : Org(e)' = Org(d)' => e = d
    BY <1>6 DEF ListApart, NoRound
  <2>1. OfApp(Held(i), App(d)) = {} /\ \A e \in round[i].list : Org(e) = Org(d) => e = d
    BY <1>7 DEF RoundInv, ListApart
  <2> QED BY <1>2, <1>7, <1>10, <1>16, <2>1 DEF OfApp, Org, App
<1>18. ListFits'
  <2> SUFFICES ASSUME NEW d \in round'[i].list
               PROVE  (Cardinality(OfOrg(Held(i), Org(d))) < MaxConcurrent[Org(d)])'
    BY <1>6 DEF ListFits, NoRound
  <2>1. Org(d)' = Org(d) /\ OfOrg(Held(i), Org(d))' = OfOrg(Held(i), Org(d))
    BY <1>2, <1>10, <1>16 DEF OfOrg, Org, App
  <2> QED BY <2>1, <1>7 DEF RoundInv, ListFits
<1>19. OrgWithinLimit'
  <2> SUFFICES ASSUME NEW o \in Orgs
               PROVE  Cardinality(OfOrg(Held(i), o)') <= MaxConcurrent[o]
    BY <1>2, <1>6, <1>10 DEF RoundInv, OrgWithinLimit, OfOrg, Org, App
  <2> DEFINE S == OfOrg(Held(i), o)
  <2>1. S \in SUBSET Builds /\ IsFiniteSet(S) /\ Cardinality(S) \in Nat
    BY HeldType, BuildSets
  <2>2. Cardinality(S) <= MaxConcurrent[o] /\ MaxConcurrent[o] \in Nat
    BY LimitsAssumption DEF RoundInv, OrgWithinLimit
  <2>3. o = Org(c) => Cardinality(S) < MaxConcurrent[o]
    BY DEF RoundInv, ListFits
  <2>4. Cardinality(S \cup {c}) \in Nat /\ Cardinality(S \cup {c}) <= Cardinality(S) + 1
    BY <2>1, <1>8, BuildSets
  <2>5. CASE OfOrg(Held(i), o)' = S
    BY <2>2, <2>5
  <2>6. CASE o = Org(c) /\ OfOrg(Held(i), o)' = S \cup {c}
    <3> HIDE DEF S
    <3> QED BY <2>1, <2>2, <2>3, <2>4, <2>6
  <2>7. OfOrg(Held(i), o)' = S \/ (o = Org(c) /\ OfOrg(Held(i), o)' = S \cup {c})
    BY <1>11
  <2> QED BY <2>5, <2>6, <2>7
<1>20. SlotsFit'
  <2> SUFFICES /\ Cardinality(Held(i)') + round'[i].slots <= GlobalConcurrency
               /\ Cardinality(round'[i].list) <= round'[i].slots
    BY <1>6, <1>10 DEF RoundInv, SlotsFit
  <2>1. Held(i) \in SUBSET Builds /\ IsFiniteSet(Held(i)) /\ Cardinality(Held(i)) \in Nat
    BY HeldType, BuildSets
  <2>2. Cardinality(Held(i) \cup {c}) \in Nat /\ Cardinality(Held(i) \cup {c}) <= Cardinality(Held(i)) + 1
    BY <2>1, <1>8, BuildSets
  <2>3. IsFiniteSet(round[i].list) /\ Cardinality(round[i].list) \in Nat
    BY <1>8, BuildSets
  <2>4. Cardinality(round'[i].list) = Cardinality(round[i].list) - 1
    BY <1>7, <2>3, FS_RemoveElement
  <2>5. /\ Cardinality(Held(i)) + round[i].slots <= GlobalConcurrency
        /\ Cardinality(round[i].list) <= round[i].slots
        /\ round[i].slots \in Int /\ GlobalConcurrency \in Nat
    BY <1>3, LimitsAssumption DEF RoundInv, SlotsFit, RoundTyped
  <2>6. \/ Held(i)' = Held(i) \cup {c} /\ round'[i].slots = round[i].slots - 1
        \/ Held(i)' = Held(i) /\ round'[i].slots = round[i].slots
    BY <1>2, <1>7 DEF Held, InFlight
  <2>7. CASE Held(i)' = Held(i) \cup {c} /\ round'[i].slots = round[i].slots - 1
    BY <2>1, <2>2, <2>3, <2>4, <2>5, <2>7
  <2>8. CASE Held(i)' = Held(i) /\ round'[i].slots = round[i].slots
    BY <2>1, <2>3, <2>4, <2>5, <2>8
  <2> QED BY <2>6, <2>7, <2>8
<1> QED BY <1>12, <1>13, <1>15, <1>17, <1>18, <1>19, <1>20 DEF RoundInv

-----------------------------------------------------------------------------
(* Theorems *)

LEMMA InitIInv == Init => IInv
<1> SUFFICES ASSUME Init PROVE IInv
  OBVIOUS
<1>1. TypeInv
  BY TypeInit
<1>2. \A i \in Instances : round[i] = NoRound /\ Held(i) = {}
  BY DEF Init, Held, InFlight, IsInFlight, NoRound
<1>3. OneRound /\ ClosedIsIdle /\ SentWaits /\ ListApart /\ ListFits /\ AppExclusive
  BY <1>2 DEF OneRound, ClosedIsIdle, SentWaits, ListApart, ListFits, AppExclusive, IsOpen, NoRound
<1>4. LockSound
  BY DEF Init, LockSound
<1>5. SlotsFit
  BY <1>2, FS_EmptySet, LimitsAssumption DEF SlotsFit, NoRound
<1>6. OrgWithinLimit
  <2> SUFFICES ASSUME NEW i \in Instances, NEW o \in Orgs
               PROVE  Cardinality(OfOrg(Held(i), o)) <= MaxConcurrent[o]
    BY DEF OrgWithinLimit
  <2>1. OfOrg(Held(i), o) = {}
    BY <1>2 DEF OfOrg
  <2> QED BY <2>1, FS_EmptySet, LimitsAssumption
<1> QED BY <1>1, <1>3, <1>4, <1>5, <1>6 DEF IInv, RoundInv

LEMMA NextIInv == IInv /\ [Next]_vars => IInv'
<1> SUFFICES ASSUME IInv, [Next]_vars PROVE IInv'
  OBVIOUS
<1>1. Typed'
  BY TypeStep DEF IInv
<1>2. CASE Elsewhere \/ UNCHANGED vars
  BY <1>1, <1>2, ElsewhereHarmless, HarmlessKeeps
<1>3. ASSUME NEW i \in Dispatching, Round(i) PROVE IInv'
  BY <1>1, <1>3, InstancesAssumption, OpenKeeps, TurnKeeps, DispatchKeeps, CommitKeeps, AbortKeeps DEF Round
<1> QED BY <1>2, <1>3 DEF Next

\* The strengthening is an invariant of the scheduler, for every fleet, tenant and limit.
THEOREM Inductive == Spec => []IInv
<1>1. Init => IInv
  BY InitIInv
<1>2. IInv /\ [Next]_vars => IInv'
  BY NextIInv
<1> QED BY <1>1, <1>2, PTL DEF Spec

\* What every state owes its readers follows from it.
LEMMA IInvImplies == IInv => TypeOK /\ AppExclusive /\ OrgWithinLimit /\ FleetWithinCapacity
<1> SUFFICES ASSUME IInv PROVE TypeOK /\ AppExclusive /\ OrgWithinLimit /\ FleetWithinCapacity
  OBVIOUS
<1>1. \A i \in Instances :
        /\ Cardinality(Held(i)) \in Nat /\ Cardinality(round[i].list) \in Nat
        /\ round[i] \in RoundTyped /\ round[i].slots \in Int
        /\ Cardinality(Held(i)) + round[i].slots <= GlobalConcurrency
        /\ Cardinality(round[i].list) <= round[i].slots
  <2> SUFFICES ASSUME NEW i \in Instances
               PROVE  /\ Cardinality(Held(i)) \in Nat /\ Cardinality(round[i].list) \in Nat
                      /\ round[i] \in RoundTyped /\ round[i].slots \in Int
    BY DEF IInv, RoundInv, SlotsFit
  <2>1. round[i] \in RoundTyped /\ round[i].slots \in Int /\ round[i].list \in SUBSET Builds
    BY DEF IInv, TypeInv, Typed, RoundTyped
  <2>2. Held(i) \in SUBSET Builds
    BY HeldType DEF IInv, TypeInv
  <2> QED BY <2>1, <2>2, BuildSets
<1>2. FleetWithinCapacity
  BY <1>1, LimitsAssumption DEF FleetWithinCapacity
<1>3. round \in [Instances -> RoundType]
  <2>1. \A i \in Instances : round[i] \in RoundType
    BY <1>1 DEF RoundTyped, RoundType
  <2> QED BY <2>1 DEF IInv, TypeInv, Typed
<1> QED BY <1>2, <1>3 DEF IInv, TypeInv, Typed, RoundInv, TypeOK

\* Rows, locks and rounds are well formed in every state: in particular a round never has a
\* negative number of slots left, although it grants them to candidates it listed earlier.
THEOREM TypeCorrect == Spec => []TypeOK
BY Inductive, IInvImplies, PTL

\* The unique index on an app's in-flight build never fails a round: no interleaving of
\* rounds, reports, sweeps, pushes and deletions lets two builds of an app hold slots.
THEOREM OneBuildPerApp == Spec => []AppExclusive
BY Inductive, IInvImplies, PTL

\* An org never exceeds its profile's maxConcurrent.
THEOREM OrgLimitHolds == Spec => []OrgWithinLimit
BY Inductive, IInvImplies, PTL

\* The platform never exceeds global-concurrency.
THEOREM FleetLimitHolds == Spec => []FleetWithinCapacity
BY Inductive, IInvImplies, PTL

-----------------------------------------------------------------------------
(* The life of a row *)

Same(b) == status'[b] = status[b] /\ attempt'[b] = attempt[b] /\ events'[b] = events[b]

\* The ways in which a step may move a build's row, with what it tells the outbox.
Admitted(b) ==
    /\ status[b] = "ABSENT" /\ attempt'[b] = attempt[b]
    /\ \/ status'[b] = "QUEUED" /\ events'[b] = Append(events[b], QueuedEvent)
       \/ status'[b] = "REJECTED" /\ events'[b] = Append(events[b], CancelledEvent)

SentOut(b) ==
    /\ status[b] \in {"QUEUED", "DISPATCHED"} /\ status'[b] = "DISPATCHED"
    /\ attempt'[b] = attempt[b] + 1
    /\ events'[b] = Append(events[b], DispatchedEvent(attempt[b] + 1))

GivenUp(b) ==
    /\ \/ status[b] = "QUEUED" /\ status'[b] \in {"EXPIRED", "CANCELLED", "SUPERSEDED"}
       \/ IsInFlight(status[b]) /\ status'[b] = "EXPIRED"
    /\ attempt'[b] = attempt[b]
    /\ events'[b] = Append(events[b], CancelledEvent)

Reported(b) ==
    /\ \/ status[b] = "DISPATCHED" /\ status'[b] = "RUNNING"
       \/ status[b] \in {"DISPATCHED", "RUNNING", "EXPIRED"} /\ status'[b] \in {"SUCCEEDED", "FAILED"}
    /\ attempt'[b] = attempt[b] /\ events'[b] = events[b]

Moves == \A b \in Builds : Same(b) \/ Admitted(b) \/ SentOut(b) \/ GivenUp(b) \/ Reported(b)

\* Every row moves along its life in every step of the scheduler.
LEMMA RowStep == IInv /\ [Next]_vars => Moves
<1> SUFFICES ASSUME IInv, [Next]_vars PROVE Moves
  OBVIOUS
<1> USE DEF Moves, Same, Admitted, SentOut, GivenUp, Reported
<1>0. /\ status \in [Builds -> Statuses] /\ attempt \in [Builds -> Nat]
      /\ events \in [Builds -> Seq(Event)]
  BY DEF IInv, TypeInv, Typed, RowsTyped
<1>1. ASSUME status' = status, attempt' = attempt, events' = events PROVE Moves
  BY <1>1
<1>2. ASSUME NEW p \in Pushes, NEW b \in Builds, Supersede(b, p) PROVE Moves
  <2>1. PICK w \in WaitingFor(p) :
          /\ status' = [status EXCEPT ![w] = "SUPERSEDED", ![b] = "QUEUED"]
          /\ events' = [events EXCEPT ![w] = Append(@, CancelledEvent), ![b] = Append(@, QueuedEvent)]
    BY <1>2 DEF Supersede
  <2>2. w \in Builds /\ status[w] = "QUEUED" /\ status[b] = "ABSENT" /\ attempt' = attempt
    BY <1>2 DEF Supersede, WaitingFor, Queued, IsNext, Enqueued
  <2> QED BY <1>0, <2>1, <2>2
<1>3. ASSUME NEW p \in Pushes, NEW b \in Builds, Enqueue(b, p) \/ Reject(b, p) PROVE Moves
  BY <1>0, <1>3 DEF Enqueue, Reject, IsNext, Ended, Enqueued
<1>4. ASSUME NEW b \in Builds, CancelByUser(b) PROVE Moves
  BY <1>0, <1>4 DEF CancelByUser, Ended
<1>5. ASSUME NEW a \in Apps, OnAppDeleted(a) PROVE Moves
  BY <1>0, <1>5 DEF OnAppDeleted, Ended, OfApp, Queued
<1>6. ASSUME NEW o \in Orgs, OnOrgDeleted(o) PROVE Moves
  BY <1>0, <1>6 DEF OnOrgDeleted, Ended, OfOrg, Queued
<1>7. ASSUME NEW i \in Instances, RoundCommit(i) PROVE Moves
  BY <1>0, <1>7 DEF RoundCommit, IInv, RoundInv, SentWaits
<1>8. ASSUME NEW b \in Builds, NEW t \in ReportTypes, ReportCommit(b, t) PROVE Moves
  <2>1. status[b] \in ReportFrom(t)
    BY <1>8 DEF ReportCommit, IInv, RoundInv, LockSound, ReportTypes
  <2>2. status' = [status EXCEPT ![b] = IF t = "STARTED" THEN "RUNNING" ELSE t]
        /\ attempt' = attempt /\ events' = events
    BY <1>8 DEF ReportCommit, Moved
  <2> QED BY <1>0, <2>1, <2>2 DEF ReportFrom, ReportTypes
<1>9. ASSUME NEW i \in Instances, SweepDeaf(i) \/ SweepRecovered(i) PROVE Moves
  <2>1. PICK queue \in SUBSET Builds : Ended(queue, "EXPIRED", "QUEUE_TIMEOUT") /\ queue \subseteq DueIn("QUEUED")
    BY <1>9 DEF SweepDeaf, SweepRecovered, Batch, DueIn
  <2>2. attempt' = attempt
    BY <1>9 DEF SweepDeaf, SweepRecovered
  <2> QED BY <1>0, <2>1, <2>2 DEF Ended, DueIn
<1>10. ASSUME NEW i \in Instances, SweepDue(i) PROVE Moves
  <2> DEFINE Unstarted == IF i \in paused THEN {} ELSE LastAttempt
             Again == IF i \in paused THEN {} ELSE Redispatchable
  <2>1. PICK queue \in Batch(DueIn("QUEUED"), SweepBatch), start \in Batch(Unstarted, SweepBatch),
             lease \in Batch(DueIn("RUNNING"), SweepBatch) :
          \E again \in Batch(Again, SweepBatch - Cardinality(start)) :
             /\ Expired(queue, start, lease)
             /\ attempt' = [b \in Builds |-> IF b \in again THEN attempt[b] + 1 ELSE attempt[b]]
             /\ events' = [b \in Builds |->
                   CASE b \in queue \cup start \cup lease -> Append(events[b], CancelledEvent)
                     [] b \in again -> Append(events[b], DispatchedEvent(attempt[b] + 1))
                     [] OTHER -> events[b]]
    BY <1>10 DEF SweepDue
  <2>2. PICK again \in Batch(Again, SweepBatch - Cardinality(start)) :
             /\ attempt' = [b \in Builds |-> IF b \in again THEN attempt[b] + 1 ELSE attempt[b]]
             /\ events' = [b \in Builds |->
                   CASE b \in queue \cup start \cup lease -> Append(events[b], CancelledEvent)
                     [] b \in again -> Append(events[b], DispatchedEvent(attempt[b] + 1))
                     [] OTHER -> events[b]]
    BY <2>1
  <2>3. /\ \A b \in queue : status[b] = "QUEUED"
        /\ \A b \in start : status[b] = "DISPATCHED" /\ attempt[b] >= MaxAttempts
        /\ \A b \in lease : status[b] = "RUNNING"
    BY <2>1 DEF Batch, DueIn, LastAttempt
  <2>4. \A b \in again : status[b] = "DISPATCHED" /\ attempt[b] < MaxAttempts
    BY <2>2 DEF Batch, DueIn, Redispatchable
  <2>5. \A b \in again : b \notin queue \cup start \cup lease
    BY <1>0, <2>3, <2>4, LimitsAssumption DEF Batch, Redispatchable, DueIn
  <2>6. status' = [b \in Builds |-> IF b \in queue \cup start \cup lease THEN "EXPIRED" ELSE status[b]]
    BY <2>1 DEF Expired
  <2>7. ASSUME NEW b \in Builds PROVE Same(b) \/ SentOut(b) \/ GivenUp(b)
    <3>1. CASE b \in queue \cup start \cup lease
      BY <2>2, <2>3, <2>5, <2>6, <3>1 DEF IsInFlight
    <3>2. CASE b \in again
      BY <2>2, <2>4, <2>5, <2>6, <3>2
    <3>3. CASE b \notin queue \cup start \cup lease /\ b \notin again
      BY <2>2, <2>6, <3>3
    <3> QED BY <3>1, <3>2, <3>3
  <2> QED BY <2>7
<1>11. ASSUME NEW i \in Instances, Round(i), ~RoundCommit(i) PROVE Moves
  BY <1>1, <1>11 DEF Round, RoundOpen, Turn, DispatchOne, RoundAbort, buildVars
<1>12. ASSUME Elsewhere PROVE Moves
  <2>1. ASSUME \/ \E p \in Pushes : DropPush(p)
               \/ \E a \in Apps : OnAppCreated(a)
               \/ \E b \in Builds : ReportAbort(b) \/ \E t \in ReportTypes : ReportLock(b, t)
               \/ \E i \in Instances : SetPaused(i) \/ \E answer \in {"HEARD", "DEAF"} : SweepAsk(i, answer)
               \/ Tick
        PROVE  status' = status /\ attempt' = attempt /\ events' = events
    BY <2>1 DEF DropPush, OnAppCreated, ReportAbort, ReportLock, SetPaused, SweepAsk, Tick, buildVars
  <2> HIDE DEF Moves
  <2> QED BY <1>1, <1>2, <1>3, <1>4, <1>5, <1>6, <1>8, <1>9, <1>10, <1>12, <2>1, InstancesAssumption,
             TenantsAssumption DEF Elsewhere, Intake, Teardown, Report, Sweep
<1> HIDE DEF Moves
<1> QED BY <1>1, <1>7, <1>11, <1>12, InstancesAssumption DEF Next, vars

-----------------------------------------------------------------------------
(* Ranks only rise *)

RankRises == \A b \in Builds : status'[b] # status[b] => Rank[status'[b]] > Rank[status[b]]

\* Rank spelled out.
LEMMA RankValues ==
    /\ Rank["ABSENT"] = -1 /\ Rank["QUEUED"] = 0 /\ Rank["DISPATCHED"] = 1 /\ Rank["RUNNING"] = 2
    /\ Rank["EXPIRED"] = 3 /\ Rank["SUCCEEDED"] = 4 /\ Rank["FAILED"] = 4
    /\ Rank["SUPERSEDED"] = 4 /\ Rank["CANCELLED"] = 4 /\ Rank["REJECTED"] = 4
BY DEF Rank, Statuses

LEMMA RankStep == IInv /\ [Next]_vars => RankRises
<1> SUFFICES ASSUME IInv, [Next]_vars PROVE RankRises
  OBVIOUS
<1>1. Moves
  BY RowStep
<1> QED BY <1>1, RankValues DEF RankRises, Moves, Same, Admitted, SentOut, GivenUp, Reported, IsInFlight

\* No transaction moves a build to a lower rank or out of a terminal status, however it
\* interleaves with the rounds, the sweeps and the reports of others.
THEOREM RanksOnlyRise == Spec => RankNeverFalls
<1>1. IInv /\ [Next]_vars => [RankRises]_vars
  BY RankStep
<1> QED BY <1>1, Inductive, PTL DEF Spec, RankNeverFalls, RankRises

-----------------------------------------------------------------------------
(* What the outbox tells *)

Life(n) == <<QueuedEvent>> \o DispatchedEvents(n)

\* A life starts with its queued event and grows by one dispatched event per attempt.
LEMMA LifeGrows ==
    /\ Life(0) = Append(<<>>, QueuedEvent)
    /\ \A n \in Nat : Life(n + 1) = Append(Life(n), DispatchedEvent(n + 1))
<1> USE DEF Life, DispatchedEvents
<1>1. \A n \in Nat : DispatchedEvents(n) \in Seq(Event) /\ Len(DispatchedEvents(n)) = n
  BY DEF DispatchedEvent, Event
<1>2. QueuedEvent \in Event
  BY DEF QueuedEvent, Event
<1>3. Life(0) = Append(<<>>, QueuedEvent)
  BY <1>1, <1>2
<1>4. ASSUME NEW n \in Nat PROVE Life(n + 1) = Append(Life(n), DispatchedEvent(n + 1))
  <2>1. DispatchedEvents(n + 1) = Append(DispatchedEvents(n), DispatchedEvent(n + 1))
    BY <1>1
  <2> QED BY <1>1, <1>2, <2>1 
<1> QED BY <1>3, <1>4

\* The outbox tells the life of every row; a build is sent out first when it leaves the queue.
HistoryInv ==
    /\ \A b \in Builds : status[b] \in {"ABSENT", "QUEUED"} => attempt[b] = 0
    /\ \A b \in Builds : IsInFlight(status[b]) => attempt[b] > 0
    /\ OutboxTellsTheRow

LEMMA HistoryInit == Init => HistoryInv
BY DEF Init, HistoryInv, IsInFlight, OutboxTellsTheRow

LEMMA HistoryStep == IInv /\ HistoryInv /\ [Next]_vars => HistoryInv'
<1> SUFFICES ASSUME IInv, HistoryInv, [Next]_vars PROVE HistoryInv'
  OBVIOUS
<1>0. \A b \in Builds : status[b] \in Statuses /\ attempt[b] \in Nat
  BY DEF IInv, TypeInv, Typed, RowsTyped
<1>1. Moves
  BY RowStep
<1>2. ASSUME NEW b \in Builds
      PROVE  /\ status'[b] \in {"ABSENT", "QUEUED"} => attempt'[b] = 0
             /\ IsInFlight(status'[b]) => attempt'[b] > 0
  BY <1>0, <1>1 DEF HistoryInv, Moves, Same, Admitted, SentOut, GivenUp, Reported, IsInFlight
<1>3. OutboxTellsTheRow'
  <2> SUFFICES ASSUME NEW b \in Builds
               PROVE  LET life == Life(attempt'[b])
                          given == Append(life, CancelledEvent)
                      IN  CASE status'[b] = "ABSENT" -> events'[b] = <<>>
                            [] status'[b] = "REJECTED" -> events'[b] = <<CancelledEvent>>
                            [] status'[b] \in {"QUEUED", "DISPATCHED", "RUNNING"} -> events'[b] = life
                            [] status'[b] \in {"EXPIRED", "SUPERSEDED", "CANCELLED"} -> events'[b] = given
                            [] OTHER -> events'[b] \in {life, given}
    BY DEF OutboxTellsTheRow, Life, DispatchedEvents
  <2>1. LET life == Life(attempt[b])
            given == Append(life, CancelledEvent)
        IN  CASE status[b] = "ABSENT" -> events[b] = <<>>
              [] status[b] = "REJECTED" -> events[b] = <<CancelledEvent>>
              [] status[b] \in {"QUEUED", "DISPATCHED", "RUNNING"} -> events[b] = life
              [] status[b] \in {"EXPIRED", "SUPERSEDED", "CANCELLED"} -> events[b] = given
              [] OTHER -> events[b] \in {life, given}
    BY DEF HistoryInv, OutboxTellsTheRow, Life
  <2>2. CASE Same(b)
    BY <2>1, <2>2 DEF Same
  <2>3. CASE Admitted(b)
    <3>1. events[b] = <<>> /\ attempt'[b] = 0
      BY <2>1, <2>3 DEF Admitted, HistoryInv
    <3>2. Append(<<>>, CancelledEvent) = <<CancelledEvent>>
      OBVIOUS
    <3> QED BY <2>3, <3>1, <3>2, LifeGrows DEF Admitted
  <2>4. CASE SentOut(b)
    <3>1. events[b] = Life(attempt[b])
      BY <2>1, <2>4 DEF SentOut
    <3> QED BY <1>0, <2>4, <3>1, LifeGrows DEF SentOut
  <2>5. CASE GivenUp(b)
    <3>1. events[b] = Life(attempt[b])
      BY <2>1, <2>5 DEF GivenUp, IsInFlight
    <3> QED BY <2>5, <3>1 DEF GivenUp
  <2>6. CASE Reported(b)
    BY <2>1, <2>6 DEF Reported
  <2> QED BY <1>1, <2>2, <2>3, <2>4, <2>5, <2>6 DEF Moves
<1> QED BY <1>2, <1>3 DEF HistoryInv

LEMMA HistoryHolds == Spec => []HistoryInv
<1>1. Init => HistoryInv
  BY HistoryInit
<1>2. IInv /\ HistoryInv /\ [Next]_vars => HistoryInv'
  BY HistoryStep
<1> QED BY <1>1, <1>2, Inductive, PTL DEF Spec

\* The outbox tells every consumer the life of the row, and nothing twice: one queued event,
\* one dispatched event per attempt in order, one build.cancelled when the queue gave up.
THEOREM OutboxIsTrue == Spec => []OutboxTellsTheRow
<1>1. HistoryInv => OutboxTellsTheRow
  BY DEF HistoryInv
<1> QED BY <1>1, HistoryHolds, PTL

-----------------------------------------------------------------------------
(* What waits *)

SameBranch(b, d) == App(b) = App(d) /\ Branch(b) = Branch(d)

\* Build ids are taken in order.
InOrder == \A b, d \in Builds : d < b /\ status[b] # "ABSENT" => status[d] # "ABSENT"

\* Nothing newer was ever admitted for the branch of a build that still waits.
NewestWaits ==
    \A b \in Queued, d \in Builds : b < d /\ status[d] # "ABSENT" => ~SameBranch(b, d)

QueueInv == InOrder /\ NewestWaits /\ ReplacedByAdmitted /\ NoWorkForTheDeleted

LEMMA NewestIsOnly == QueueInv => OneWaiting
BY TenantsAssumption DEF QueueInv, NewestWaits, OneWaiting, SameBranch, Queued

LEMMA QueueInit == Init => QueueInv
BY DEF Init, QueueInv, InOrder, NewestWaits, ReplacedByAdmitted, NoWorkForTheDeleted, Queued

\* A step that admits nothing, supersedes nothing and deletes no app or org for which a
\* build goes on waiting.
Quiet ==
    /\ push' = push /\ supersededBy' = supersededBy
    /\ \A b \in Builds : status'[b] # status[b] =>
          status[b] # "ABSENT" /\ status'[b] \notin {"ABSENT", "QUEUED", "REJECTED", "SUPERSEDED"}
    /\ \A b \in Builds : status'[b] = "QUEUED" =>
          /\ apps'[App(b)] = "DELETED" => apps[App(b)] = "DELETED"
          /\ orgs'[Org(b)] = "DELETED" => orgs[Org(b)] = "DELETED"

LEMMA QuietKeeps == ASSUME IInv, QueueInv, Quiet PROVE QueueInv'
<1> USE DEF QueueInv, Quiet
<1>1. \A b \in Builds : b \in Queued' => b \in Queued
  BY DEF Queued
<1>2. \A b \in Builds : (status'[b] = "ABSENT") <=> (status[b] = "ABSENT")
  OBVIOUS
<1>3. \A b, d : SameBranch(b, d)' <=> SameBranch(b, d)
  BY DEF SameBranch, App, Branch
<1>4. InOrder' /\ NewestWaits'
  BY <1>1, <1>2, <1>3 DEF InOrder, NewestWaits, Queued
<1>5. ReplacedByAdmitted'
  <2> SUFFICES ASSUME NEW b \in Builds, status'[b] = "SUPERSEDED"
               PROVE  \E d \in supersededBy[b] :
                         /\ d > b /\ App(d)' = App(b)' /\ Branch(d)' = Branch(b)'
                         /\ status'[d] \notin {"ABSENT", "REJECTED"}
    BY DEF ReplacedByAdmitted
  <2>1. PICK d \in supersededBy[b] :
          /\ d > b /\ App(d) = App(b) /\ Branch(d) = Branch(b)
          /\ status[d] \notin {"ABSENT", "REJECTED"}
    BY DEF ReplacedByAdmitted
  <2>2. d \in Builds
    BY DEF IInv, TypeInv, Typed, RowsTyped
  <2> QED BY <2>1, <2>2 DEF App, Branch
<1>6. NoWorkForTheDeleted'
  <2> SUFFICES ASSUME NEW b \in Builds, b \in Queued'
               PROVE  apps'[App(b)'] # "DELETED" /\ orgs'[Org(b)'] # "DELETED"
    BY DEF NoWorkForTheDeleted, Queued
  <2>1. App(b)' = App(b) /\ Org(b)' = Org(b)
    BY DEF App, Org
  <2>2. b \in Queued /\ status'[b] = "QUEUED"
    BY <1>1 DEF Queued
  <2> QED BY <2>1, <2>2 DEF NoWorkForTheDeleted
<1> QED BY <1>4, <1>5, <1>6

\* Nearly every step is quiet: what it ends it takes out of the queue, and a tombstone takes
\* the builds of its app or org along.
LEMMA MostAreQuiet ==
    ASSUME IInv, [Next]_vars,
           ~ \E p \in Pushes, b \in Builds : Supersede(b, p) \/ Enqueue(b, p) \/ Reject(b, p)
    PROVE  Quiet
<1> USE DEF Quiet
<1>0. /\ status \in [Builds -> Statuses]
      /\ apps \in [Apps -> {"ABSENT", "ACTIVE", "DELETED"}]
      /\ orgs \in [Orgs -> {"ABSENT", "ACTIVE", "DELETED"}]
      /\ \A b \in Builds : status[b] # "ABSENT" => App(b) \in Apps /\ Org(b) \in Orgs
  BY OrgType DEF IInv, TypeInv, Typed, RowsTyped
<1>1. ASSUME status' = status, push' = push, supersededBy' = supersededBy, orgs' = orgs, apps' = apps
      PROVE  Quiet
  BY <1>1
<1>2. ASSUME NEW p \in Pushes, DropPush(p) PROVE Quiet
  BY <1>0, <1>2, TenantsAssumption DEF DropPush, buildVars, PushContent
<1>3. ASSUME NEW b \in Builds, CancelByUser(b) PROVE Quiet
  BY <1>0, <1>3 DEF CancelByUser, Ended, orgVars
<1>4. ASSUME NEW a \in Apps, OnAppCreated(a) PROVE Quiet
  BY <1>0, <1>4 DEF OnAppCreated, buildVars
<1>5. ASSUME NEW a \in Apps, OnAppDeleted(a) PROVE Quiet
  <2>1. \A b \in Builds : status'[b] = "QUEUED" => status[b] = "QUEUED" /\ App(b) # a
    BY <1>0, <1>5 DEF OnAppDeleted, Ended, OfApp, Queued
  <2>2. \A b \in Builds : status'[b] # status[b] => status[b] = "QUEUED" /\ status'[b] = "CANCELLED"
    BY <1>0, <1>5 DEF OnAppDeleted, Ended, OfApp, Queued
  <2> QED BY <1>0, <1>5, <2>1, <2>2 DEF OnAppDeleted
<1>6. ASSUME NEW o \in Orgs, OnOrgDeleted(o) PROVE Quiet
  <2>1. \A b \in Builds : status'[b] = "QUEUED" => status[b] = "QUEUED" /\ Org(b) # o
    BY <1>0, <1>6 DEF OnOrgDeleted, Ended, OfOrg, Queued
  <2>2. \A b \in Builds : status'[b] # status[b] => status[b] = "QUEUED" /\ status'[b] = "CANCELLED"
    BY <1>0, <1>6 DEF OnOrgDeleted, Ended, OfOrg, Queued
  <2> QED BY <1>0, <1>6, <2>1, <2>2 DEF OnOrgDeleted
<1>7. ASSUME NEW i \in Instances, RoundCommit(i) PROVE Quiet
  BY <1>0, <1>7 DEF RoundCommit, IInv, RoundInv, SentWaits
<1>8. ASSUME NEW b \in Builds, NEW t \in ReportTypes, ReportCommit(b, t) PROVE Quiet
  <2>1. status[b] \in ReportFrom(t)
    BY <1>8 DEF ReportCommit, IInv, RoundInv, LockSound, ReportTypes
  <2>2. status' = [status EXCEPT ![b] = IF t = "STARTED" THEN "RUNNING" ELSE t]
    BY <1>8 DEF ReportCommit, Moved
  <2> QED BY <1>0, <1>8, <2>1, <2>2 DEF ReportCommit, ReportFrom, ReportTypes, orgVars
<1>9. ASSUME NEW i \in Instances, SweepDeaf(i) \/ SweepRecovered(i) \/ SweepDue(i) PROVE Quiet
  <2>1. \A b \in Builds : status'[b] # status[b] => status'[b] = "EXPIRED"
    BY <1>0, <1>9 DEF SweepDeaf, SweepRecovered, SweepDue, Ended, Expired
  <2>2. Moves
    BY RowStep
  <2>3. \A b \in Builds : status'[b] # status[b] => status[b] # "ABSENT"
    BY <2>1, <2>2 DEF Moves, Same, Admitted, SentOut, GivenUp, Reported, IsInFlight
  <2> QED BY <1>9, <2>1, <2>3 DEF SweepDeaf, SweepRecovered, SweepDue, orgVars
<1>10. ASSUME NEW i \in Instances, Round(i), ~RoundCommit(i) PROVE Quiet
  BY <1>1, <1>10 DEF Round, RoundOpen, Turn, DispatchOne, RoundAbort, buildVars, orgVars
<1>11. ASSUME Elsewhere PROVE Quiet
  <2>1. ASSUME \/ \E b \in Builds : ReportAbort(b) \/ \E t \in ReportTypes : ReportLock(b, t)
               \/ \E i \in Instances : SetPaused(i) \/ \E answer \in {"HEARD", "DEAF"} : SweepAsk(i, answer)
               \/ Tick
        PROVE  Quiet
    BY <1>1, <2>1 DEF ReportAbort, ReportLock, SetPaused, SweepAsk, Tick, buildVars, orgVars
  <2> HIDE DEF Quiet
  <2> QED BY <1>2, <1>3, <1>4, <1>5, <1>6, <1>8, <1>9, <1>11, <2>1, InstancesAssumption,
             TenantsAssumption DEF Elsewhere, Intake, Teardown, Report, Sweep
<1> HIDE DEF Quiet
<1>12. UNCHANGED vars => Quiet
  BY <1>1 DEF vars
<1> QED BY <1>7, <1>10, <1>11, <1>12, InstancesAssumption DEF Next

\* A push that is taken in, in any of the three ways, is its branch's newest build.
LEMMA IntakeKeeps ==
    ASSUME IInv, Typed', QueueInv, NEW p \in Pushes, NEW b \in Builds,
           Supersede(b, p) \/ Enqueue(b, p) \/ Reject(b, p)
    PROVE  QueueInv'
<1> DEFINE Replaced(d) ==
             /\ d \in WaitingFor(p) /\ status'[d] = "SUPERSEDED"
             /\ supersededBy'[d] = {b} /\ status'[b] = "QUEUED"
<1>0. /\ status \in [Builds -> Statuses] /\ push \in [Builds -> PushContent \cup {NoPush}]
      /\ supersededBy \in [Builds -> SUBSET Builds]
      /\ apps \in [Apps -> {"ABSENT", "ACTIVE", "DELETED"}]
      /\ orgs \in [Orgs -> {"ABSENT", "ACTIVE", "DELETED"}]
      /\ p \in PushContent /\ p.app \in Apps /\ AppOrg[p.app] \in Orgs
      /\ Builds \subseteq Nat
  BY TenantsAssumption DEF IInv, TypeInv, Typed, RowsTyped, PushContent
<1>1. /\ IsNext(b) /\ Accepts(p) /\ ProjectsOf(p)
      /\ push' = [push EXCEPT ![b] = p]
  BY DEF Supersede, Enqueue, Reject, Enqueued
<1>2. status[b] = "ABSENT" /\ \A d \in Builds : d < b => status[d] # "ABSENT"
  BY <1>1 DEF IsNext
<1>3. \A d \in Builds : status[d] # "ABSENT" => d < b
  BY <1>0, <1>2 DEF QueueInv, InOrder
<1>4. /\ status'[b] \in {"QUEUED", "REJECTED"}
      /\ \A d \in Builds \ {b} : status'[d] = status[d] \/ Replaced(d)
      /\ \A d \in Builds : status'[d] = "QUEUED" /\ d \in WaitingFor(p) => d = b
  <2>1. CASE Supersede(b, p)
    <3>1. PICK w \in WaitingFor(p) :
            /\ status' = [status EXCEPT ![w] = "SUPERSEDED", ![b] = "QUEUED"]
            /\ supersededBy' = [supersededBy EXCEPT ![w] = {b}]
      BY <2>1 DEF Supersede
    <3>2. w \in Queued /\ w # b
      BY <1>2 DEF WaitingFor, Queued
    <3>3. \A d \in WaitingFor(p) : d = w
      BY <3>1, NewestIsOnly DEF OneWaiting, WaitingFor
    <3> QED BY <1>0, <3>1, <3>2, <3>3 DEF Queued
  <2>2. CASE Enqueue(b, p)
    BY <1>0, <2>2 DEF Enqueue
  <2>3. CASE Reject(b, p)
    BY <1>0, <2>3 DEF Reject, Ended
  <2> QED BY <2>1, <2>2, <2>3
<1>5. /\ push'[b] = p /\ \A d \in Builds \ {b} : push'[d] = push[d]
      /\ App(b)' = p.app /\ Branch(b)' = p.branch /\ Org(b)' = AppOrg[p.app]
      /\ \A d \in Builds \ {b} : App(d)' = App(d) /\ Branch(d)' = Branch(d) /\ Org(d)' = Org(d)
  BY <1>0, <1>1 DEF App, Branch, Org
<1>6. \A d \in Builds \ {b} : (status'[d] = "ABSENT") <=> (status[d] = "ABSENT")
  BY <1>4 DEF WaitingFor, Queued
<1>7. InOrder'
  BY <1>0, <1>2, <1>3, <1>4, <1>6 DEF InOrder
<1>8. NewestWaits'
  <2> SUFFICES ASSUME NEW c \in Builds, NEW d \in Builds, status'[c] = "QUEUED", c < d,
                      status'[d] # "ABSENT", SameBranch(c, d)'
               PROVE  FALSE
    BY DEF NewestWaits, Queued
  <2>1. c # b
    BY <1>0, <1>3, <1>6
  <2>2. status[c] = "QUEUED"
    BY <1>4, <2>1
  <2>3. CASE d = b
    BY <1>4, <1>5, <2>1, <2>2, <2>3 DEF SameBranch, WaitingFor, Queued
  <2>4. CASE d # b
    BY <1>5, <1>6, <2>1, <2>2, <2>4 DEF QueueInv, NewestWaits, SameBranch, Queued
  <2> QED BY <2>3, <2>4
<1>9. ReplacedByAdmitted'
  <2> SUFFICES ASSUME NEW c \in Builds, status'[c] = "SUPERSEDED"
               PROVE  \E d \in supersededBy'[c] :
                         /\ d > c /\ App(d)' = App(c)' /\ Branch(d)' = Branch(c)'
                         /\ status'[d] \notin {"ABSENT", "REJECTED"}
    BY DEF ReplacedByAdmitted
  <2>1. c # b
    BY <1>4
  <2>2. CASE status[c] = "SUPERSEDED"
    <3>1. PICK d \in supersededBy[c] :
            /\ d > c /\ App(d) = App(c) /\ Branch(d) = Branch(c)
            /\ status[d] \notin {"ABSENT", "REJECTED"}
      BY <2>2 DEF QueueInv, ReplacedByAdmitted
    <3>2. d \in Builds /\ d # b
      BY <1>0, <1>2, <3>1
    <3>3. supersededBy'[c] = supersededBy[c]
      BY <1>0, <2>2 DEF Supersede, Enqueue, Reject, WaitingFor, Queued
    <3> QED BY <1>4, <1>5, <2>1, <3>1, <3>2, <3>3
  <2>3. CASE status[c] # "SUPERSEDED"
    <3>1. c \in WaitingFor(p) /\ supersededBy'[c] = {b} /\ status'[b] = "QUEUED"
      BY <1>4, <2>1, <2>3
    <3>2. b > c
      BY <1>0, <1>3, <3>1 DEF WaitingFor, Queued
    <3> QED BY <1>5, <2>1, <3>1, <3>2 DEF WaitingFor
  <2> QED BY <2>2, <2>3
<1>10. NoWorkForTheDeleted'
  <2> SUFFICES ASSUME NEW c \in Builds, status'[c] = "QUEUED"
               PROVE  apps'[App(c)'] # "DELETED" /\ orgs'[Org(c)'] # "DELETED"
    BY DEF NoWorkForTheDeleted, Queued
  <2>1. /\ \A a \in Apps : apps[a] # "DELETED" => apps'[a] # "DELETED"
        /\ \A o \in Orgs : orgs[o] # "DELETED" => orgs'[o] # "DELETED"
    BY <1>0, <1>1 DEF ProjectsOf
  <2>2. CASE c = b
    BY <1>0, <1>1, <1>5, <2>1, <2>2 DEF Accepts
  <2>3. CASE c # b
    <3>1. status[c] = "QUEUED"
      BY <1>4, <2>3
    <3>2. App(c) \in Apps /\ Org(c) \in Orgs /\ apps[App(c)] # "DELETED" /\ orgs[Org(c)] # "DELETED"
      BY <3>1, OrgType DEF QueueInv, NoWorkForTheDeleted, Queued, IInv, TypeInv, Typed
    <3> QED BY <1>5, <2>1, <2>3, <3>2
  <2> QED BY <2>2, <2>3
<1> QED BY <1>7, <1>8, <1>9, <1>10 DEF QueueInv

LEMMA QueueHolds == Spec => []QueueInv
<1>1. Init => QueueInv
  BY QueueInit
<1>2. IInv /\ QueueInv /\ [Next]_vars => QueueInv'
  BY MostAreQuiet, QuietKeeps, IntakeKeeps, TypeStep DEF IInv
<1> QED BY <1>1, <1>2, Inductive, PTL DEF Spec

\* At most one build waits per app and branch, so the unique index never fails an intake:
\* the newer push always finds and replaces the older one that waits.
THEOREM OneWaitsPerBranch == Spec => []OneWaiting
BY QueueHolds, NewestIsOnly, PTL

\* The queue cap never costs a branch its build: what was superseded was replaced by a newer
\* build of the same app and branch that really entered the queue.
THEOREM ReplacementsAreAdmitted == Spec => []ReplacedByAdmitted
<1>1. QueueInv => ReplacedByAdmitted
  BY DEF QueueInv
<1> QED BY <1>1, QueueHolds, PTL

\* Nothing waits for a deleted app or org, however pushes and deletions interleave.
THEOREM DeletedHaveNoWork == Spec => []NoWorkForTheDeleted
<1>1. QueueInv => NoWorkForTheDeleted
  BY DEF QueueInv
<1> QED BY <1>1, QueueHolds, PTL

NoneOlder ==
    \A b \in Builds : attempt[b] = 0 /\ attempt'[b] > 0 =>
        \A d \in Builds : d > b /\ attempt[d] > 0 => App(d) # App(b) \/ Branch(d) # Branch(b)

\* Commits of a branch go to build-service in the order they were pushed: whatever waits is
\* the newest of its branch, and only what waits is sent out for the first time.
THEOREM BranchesGoForward == Spec => NeverBuildsOlder
<1>1. IInv /\ HistoryInv /\ QueueInv /\ [Next]_vars => [NoneOlder]_vars
  <2> SUFFICES ASSUME IInv, HistoryInv, QueueInv, [Next]_vars,
                      NEW b \in Builds, attempt[b] = 0, attempt'[b] > 0,
                      NEW d \in Builds, d > b, attempt[d] > 0
               PROVE  App(d) # App(b) \/ Branch(d) # Branch(b)
    BY DEF NoneOlder
  <2>1. Moves
    BY RowStep
  <2>2. status[b] = "QUEUED"
    BY <2>1 DEF Moves, Same, Admitted, SentOut, GivenUp, Reported, HistoryInv, IsInFlight
  <2>3. status[d] # "ABSENT"
    BY DEF HistoryInv
  <2>4. b < d
    BY TenantsAssumption
  <2> QED BY <2>2, <2>3, <2>4 DEF QueueInv, NewestWaits, SameBranch, Queued
<1> QED BY <1>1, Inductive, HistoryHolds, QueueHolds, PTL DEF Spec, NeverBuildsOlder, NoneOlder

-----------------------------------------------------------------------------
(* The slots are a pool *)

SlotOf(b) == [job |-> b, key |-> App(b)]
SlotsOf(S) == {SlotOf(b) : b \in S}

Taken == {[job |-> b, key |-> App(b)] : b \in InFlight}
Spent == {b \in Builds : attempt[b] > 0 /\ b \notin InFlight}

TakenFits == Instances # {} => Pool!WithinLimits(Taken)

\* No more slots than builds that hold one.
LEMMA SlotsCount ==
    \A S \in SUBSET Builds : Cardinality(SlotsOf(S)) \in Nat /\ Cardinality(SlotsOf(S)) <= Cardinality(S)
<1> SUFFICES ASSUME NEW S \in SUBSET Builds
             PROVE  Cardinality(SlotsOf(S)) \in Nat /\ Cardinality(SlotsOf(S)) <= Cardinality(S)
  OBVIOUS
<1> DEFINE f == [b \in S |-> SlotOf(b)]
<1>1. f \in Surjection(S, SlotsOf(S))
  BY DEF Surjection, SlotsOf
<1>2. IsFiniteSet(S)
  BY BuildSets
<1> HIDE DEF f
<1> QED BY <1>1, <1>2, FS_Surjection, FS_CardinalityType

\* The jobs of some slots are the builds that hold them.
LEMMA JobsOfSlots == \A S : Pool!JobsOf(SlotsOf(S)) = S
<1> SUFFICES ASSUME NEW S PROVE Pool!JobsOf(SlotsOf(S)) = S
  OBVIOUS
<1>1. \A b : SlotOf(b).job = b
  BY DEF SlotOf
<1>2. \A s : s \in SlotsOf(S) <=> \E b \in S : s = SlotOf(b)
  BY DEF SlotsOf
<1>3. \A x : x \in Pool!JobsOf(SlotsOf(S)) <=> \E s \in SlotsOf(S) : x = s.job
  BY DEF Pool!JobsOf
<1>4. \A x : x \in Pool!JobsOf(SlotsOf(S)) <=> x \in S
  BY <1>1, <1>2, <1>3
<1> QED BY <1>4

\* SlotPool counts as the scheduler does.
LEMMA SameCount == \A S : Pool!Cardinality(S) = Cardinality(S)
BY DEF Pool!Cardinality, Cardinality, Pool!IsFiniteSet, IsFiniteSet

\* What the invariant says of the builds in flight, said of their slots.
LEMMA InFlightFits == IInv => TakenFits
<1> SUFFICES ASSUME IInv, NEW i \in Instances PROVE Pool!WithinLimits(Taken)
  BY DEF TakenFits
<1> USE DEF IInv, TypeInv
<1>0. Held(i) \in SUBSET Builds /\ InFlight \subseteq Held(i)
  BY HeldType DEF Held
<1>1. \A s, r \in Taken : s.job = r.job \/ s.key = r.key => s = r
  BY <1>0 DEF Taken, RoundInv, AppExclusive
<1>2. ASSUME NEW o \in Orgs PROVE Cardinality(Pool!HeldBy(Taken, o)) <= MaxConcurrent[o]
  <2>1. Pool!HeldBy(Taken, o) = SlotsOf(OfOrg(InFlight, o))
    BY DEF Pool!HeldBy, Taken, SlotsOf, SlotOf, OfOrg, Org
  <2>2. /\ OfOrg(InFlight, o) \in SUBSET Builds /\ OfOrg(Held(i), o) \in SUBSET Builds
        /\ OfOrg(InFlight, o) \subseteq OfOrg(Held(i), o)
    BY <1>0 DEF OfOrg, InFlight
  <2>3. Cardinality(OfOrg(InFlight, o)) <= Cardinality(OfOrg(Held(i), o))
    BY <2>2, BuildSets
  <2>4. /\ Cardinality(OfOrg(InFlight, o)) \in Nat /\ Cardinality(OfOrg(Held(i), o)) \in Nat
        /\ Cardinality(OfOrg(Held(i), o)) <= MaxConcurrent[o] /\ MaxConcurrent[o] \in Nat
    BY <2>2, BuildSets, LimitsAssumption DEF RoundInv, OrgWithinLimit
  <2>5. /\ Cardinality(SlotsOf(OfOrg(InFlight, o))) \in Nat
        /\ Cardinality(SlotsOf(OfOrg(InFlight, o))) <= Cardinality(OfOrg(InFlight, o))
    BY <2>2, SlotsCount
  <2> QED BY <2>1, <2>3, <2>4, <2>5
<1>3. Cardinality(Taken) <= GlobalConcurrency
  <2>1. Taken = SlotsOf(InFlight) /\ InFlight \in SUBSET Builds
    BY DEF Taken, SlotsOf, SlotOf, InFlight
  <2>2. Cardinality(InFlight) <= Cardinality(Held(i)) /\ Cardinality(Held(i)) <= GlobalConcurrency
    BY <1>0, <2>1, BuildSets, IInvImplies DEF FleetWithinCapacity
  <2>3. /\ Cardinality(InFlight) \in Nat /\ Cardinality(Held(i)) \in Nat /\ GlobalConcurrency \in Nat
        /\ Cardinality(SlotsOf(InFlight)) \in Nat
        /\ Cardinality(SlotsOf(InFlight)) <= Cardinality(InFlight)
    BY <1>0, <2>1, BuildSets, SlotsCount, LimitsAssumption
  <2> QED BY <2>1, <2>2, <2>3
<1> QED BY <1>1, <1>2, <1>3, SameCount DEF Pool!WithinLimits

\* A step that sends nobody out gives slots up, or leaves them all alone.
LEMMA ReturnsMap ==
    ASSUME IInv, HistoryInv, Moves,
           \A b \in Builds : status[b] # "ABSENT" => push'[b] = push[b],
           \A b \in Builds : IsInFlight(status'[b]) => IsInFlight(status[b])
    PROVE  Pool!GiveUp
<1>0. \A b \in Builds : attempt[b] \in Nat
  BY DEF IInv, TypeInv, Typed, RowsTyped
<1>1. InFlight' \subseteq InFlight /\ \A b \in InFlight : App(b)' = App(b)
  BY DEF InFlight, IsInFlight, App
<1>2. Taken' \subseteq Taken
  BY <1>1 DEF Taken
<1>3. Pool!JobsOf(Taken \ Taken') = InFlight \ InFlight'
  <2>1. Taken \ Taken' = SlotsOf(InFlight \ InFlight')
    BY <1>1 DEF Taken, SlotsOf, SlotOf
  <2> QED BY <2>1, JobsOfSlots
<1>4. ASSUME NEW b \in Builds PROVE b \in Spent' <=> b \in Spent \/ b \in InFlight \ InFlight'
  <2>1. b \in InFlight => attempt[b] > 0 /\ attempt'[b] > 0
    BY <1>0 DEF HistoryInv, InFlight, Moves, Same, Admitted, SentOut, GivenUp, Reported
  <2>2. b \notin InFlight => b \notin InFlight' /\ attempt'[b] = attempt[b]
    BY <1>1 DEF InFlight, IsInFlight, Moves, Same, Admitted, SentOut, GivenUp, Reported
  <2> QED BY <2>1, <2>2 DEF Spent
<1>5. Spent' = Spent \cup Pool!JobsOf(Taken \ Taken')
  BY <1>3, <1>4 DEF Spent, InFlight
<1> QED BY <1>2, <1>5 DEF Pool!GiveUp, Taken, Spent

\* A round's commit grants a slot to each build it has dispatched.
LEMMA CommitMaps ==
    ASSUME IInv, IInv', HistoryInv, NEW i \in Instances, RoundCommit(i)
    PROVE  Pool!Grant
<1> DEFINE sent == round[i].sent
<1>1. /\ sent \in SUBSET Builds /\ \A b \in sent : status[b] = "QUEUED"
      /\ status \in [Builds -> Statuses] /\ attempt \in [Builds -> Nat]
  BY DEF IInv, TypeInv, Typed, RowsTyped, RoundTyped, RoundInv, SentWaits
<1>2. InFlight' = InFlight \cup sent /\ InFlight \cap sent = {}
  BY <1>1 DEF RoundCommit, InFlight, IsInFlight
<1>3. \A b : App(b)' = App(b)
  BY DEF RoundCommit, App
<1>4. Taken \subseteq Taken' /\ Taken' \ Taken = SlotsOf(sent)
  BY <1>2, <1>3 DEF Taken, SlotsOf, SlotOf
<1>5. Taken' \subseteq Pool!Slot
  <2>1. \A b \in InFlight' : b \in Builds /\ App(b) \in Apps
    BY <1>1, <1>2, OrgType DEF InFlight, IsInFlight, IInv, TypeInv, Typed
  <2> QED BY <1>3, <2>1 DEF Taken, Pool!Slot
<1>6. \A b \in sent : attempt[b] = 0
  BY <1>1 DEF HistoryInv
<1>7. Pool!JobsOf(Taken' \ Taken) \cap Spent = {}
  BY <1>4, <1>6 DEF Pool!JobsOf, SlotsOf, SlotOf, Spent
<1>8. Pool!WithinLimits(Taken')
  <2>1. TakenFits'
    BY InFlightFits, PTL
  <2> QED BY <2>1 DEF TakenFits, Pool!WithinLimits, Pool!HeldBy
<1>9. Spent' = Spent
  BY <1>1, <1>2, <1>6 DEF RoundCommit, Spent
<1> QED BY <1>4, <1>5, <1>7, <1>8, <1>9 DEF Pool!Grant, Taken, Spent

\* The scheduler implements the pool: nothing that rounds, reports, sweeps and deletions do
\* shows at the slots but grants within the limits and slots that are given up for good.
THEOREM SlotsAreAPool == Spec => SlotPoolSpec
<1>1. Init => Pool!Init
  BY DEF Init, Pool!Init, InFlight, IsInFlight
<1>2. ASSUME IInv, IInv', HistoryInv, [Next]_vars PROVE [Pool!Next]_(Pool!poolVars)
  <2>1. ASSUME NEW i \in Instances, RoundCommit(i) PROVE Pool!Grant
    BY <1>2, <2>1, CommitMaps
  <2>2. ASSUME NEW i \in Instances, Round(i), ~RoundCommit(i) PROVE Pool!GiveUp
    BY <1>2, <2>2, ReturnsMap, RowStep DEF Round, RoundOpen, Turn, DispatchOne, RoundAbort, buildVars
  <2>3. ASSUME Elsewhere \/ UNCHANGED vars PROVE Pool!GiveUp
    BY <1>2, <2>3, ReturnsMap, RowStep, ElsewhereHarmless DEF Harmless
  <2> QED BY <1>2, <2>1, <2>2, <2>3, InstancesAssumption DEF Next, Pool!Next
<1>3. IInv /\ IInv' /\ HistoryInv /\ [Next]_vars => [Pool!Next]_(Pool!poolVars)
  BY <1>2
<1> QED BY <1>1, <1>3, Inductive, HistoryHolds, PTL DEF Spec, SlotPoolSpec, Pool!Spec

\* Every set of builds has a first one.
LEMMA FirstBuild == \A S \in SUBSET Builds : S # {} => \E b \in S : \A d \in S : b <= d
<1> SUFFICES ASSUME NEW S \in SUBSET Builds, S # {} PROVE \E b \in S : \A d \in S : b <= d
  OBVIOUS
<1>1. S \subseteq Nat
  BY TenantsAssumption
<1>2. PICK b \in S : \A d \in S : ~(<<d, b>> \in OpToRel(<, Nat))
  BY <1>1, NatLessThanWellFounded, WFMin
<1>3. \A d \in S : ~(d < b)
  BY <1>1, <1>2 DEF OpToRel
<1> QED BY <1>1, <1>3

-----------------------------------------------------------------------------
(* The line *)

\* A candidate stands for every org that waits and was not served in the round.
LEMMA WaitingIsListed ==
    ASSUME IInv, NEW i \in Instances, IsOpen(i), NEW o \in Orgs, WaitsForTurn(o),
           \A b \in round[i].sent : Org(b) # o
    PROVE  \E c \in Candidates(i) : Org(c) = o
<1> DEFINE E == {b \in Eligible(i) : Org(b) = o}
           I == {b \in E : push[b].class = "INTERACTIVE"}
<1>1. PICK w \in Queued : Org(w) = o /\ OfApp(InFlight, App(w)) = {}
  BY DEF WaitsForTurn
<1>2. OfOrg(Held(i), o) = OfOrg(InFlight, o)
  BY DEF OfOrg, Held
<1>3. OfApp(Held(i), App(w)) = {}
  BY <1>1 DEF OfApp, Held, Org
<1>4. w \in Eligible(i)
  BY <1>1, <1>2, <1>3 DEF Eligible, WaitsForTurn
<1>5. E \in SUBSET Builds /\ I \in SUBSET Builds /\ E # {} /\ Builds \subseteq Nat
  BY <1>1, <1>4, TenantsAssumption DEF Eligible, Queued
<1>6. \A b \in E : push[b].class \in {"INTERACTIVE", "AUTOMATIC"}
  BY DEF Eligible, Queued, IInv, TypeInv, Typed, RowsTyped, PushContent
<1>7. ASSUME NEW c \in E, \A d \in E : d = c \/ Ahead(c, d) PROVE c \in Candidates(i) /\ Org(c) = o
  BY <1>7 DEF Candidates
<1>8. CASE I # {}
  <2>1. PICK c \in I : \A d \in I : c <= d
    BY <1>5, <1>8, FirstBuild
  <2>2. c \in E /\ c \in Nat /\ push[c].class = "INTERACTIVE"
    BY <1>5, <2>1
  <2>3. ASSUME NEW d \in E, d # c PROVE Ahead(c, d)
    <3>1. CASE push[d].class = "INTERACTIVE"
      <4>1. d \in I /\ d \in Nat
        BY <1>5, <3>1
      <4>2. c <= d
        BY <2>1, <4>1
      <4> QED BY <2>2, <2>3, <3>1, <4>1, <4>2 DEF Ahead
    <3>2. CASE push[d].class # "INTERACTIVE"
      BY <2>2, <3>2 DEF Ahead
    <3> QED BY <3>1, <3>2
  <2> HIDE DEF E, I
  <2> QED BY <1>7, <2>2, <2>3
<1>9. CASE I = {}
  <2>1. PICK c \in E : \A d \in E : c <= d
    BY <1>5, FirstBuild
  <2>2. c \in Nat /\ push[c].class = "AUTOMATIC"
    BY <1>5, <1>6, <1>9
  <2>3. ASSUME NEW d \in E, d # c PROVE Ahead(c, d)
    <3>1. push[d].class = "AUTOMATIC" /\ d \in Nat /\ c <= d
      BY <1>5, <1>6, <1>9, <2>1
    <3> QED BY <2>2, <2>3, <3>1 DEF Ahead
  <2> HIDE DEF E, I
  <2> QED BY <1>7, <2>1, <2>3
<1> QED BY <1>8, <1>9

Positions(f, n) == {f[p] : p \in {q \in Orgs : 0 < f[q] /\ f[q] <= n}}

LEMMA PositionsFinite ==
    ASSUME NEW f \in [Orgs -> Nat], NEW n \in Nat
    PROVE  /\ IsFiniteSet(Positions(f, n)) /\ Cardinality(Positions(f, n)) \in Nat
           /\ Cardinality(Positions(f, n)) <= Cardinality(Orgs) /\ Cardinality(Orgs) \in Nat
<1> DEFINE T == {q \in Orgs : 0 < f[q] /\ f[q] <= n}
           g == [q \in T |-> f[q]]
<1>1. IsFiniteSet(T) /\ Cardinality(T) <= Cardinality(Orgs) /\ Cardinality(T) \in Nat /\ Cardinality(Orgs) \in Nat
  BY TenantsAssumption, FS_Subset, FS_CardinalityType
<1>2. g \in Surjection(T, Positions(f, n))
  BY DEF Surjection, Positions
<1> HIDE DEF g, T
<1>3. IsFiniteSet(Positions(f, n)) /\ Cardinality(Positions(f, n)) <= Cardinality(T)
  BY <1>1, <1>2, FS_Surjection
<1> QED BY <1>1, <1>3, FS_CardinalityType

\* Numbering the line anew keeps its order, and no number exceeds the number of orgs.
LEMMA RenumberedLine ==
    ASSUME NEW f \in [Orgs -> Nat]
    PROVE  /\ \A o \in Orgs : Renumbered(f)[o] <= Cardinality(Orgs)
           /\ \A o, p \in Orgs : f[o] < f[p] => Renumbered(f)[o] < Renumbered(f)[p]
<1>1. \A o \in Orgs : Renumbered(f)[o] = IF f[o] = 0 THEN 0 ELSE Cardinality(Positions(f, f[o]))
  BY DEF Renumbered, Positions
<1>2. \A o \in Orgs : /\ IsFiniteSet(Positions(f, f[o])) /\ Cardinality(Positions(f, f[o])) \in Nat
                      /\ Cardinality(Positions(f, f[o])) <= Cardinality(Orgs) /\ Cardinality(Orgs) \in Nat
  BY PositionsFinite
<1>3. \A o \in Orgs : Renumbered(f)[o] <= Cardinality(Orgs)
  BY <1>1, <1>2, TenantsAssumption, FS_CardinalityType
<1>4. ASSUME NEW o \in Orgs, NEW p \in Orgs, f[o] < f[p] PROVE Renumbered(f)[o] < Renumbered(f)[p]
  <2>1. f[p] \in Positions(f, f[p]) /\ f[p] \notin Positions(f, f[o])
    BY <1>4 DEF Positions
  <2>2. Positions(f, f[o]) \subseteq Positions(f, f[p])
    BY <1>4 DEF Positions
  <2>3. Cardinality(Positions(f, f[o])) < Cardinality(Positions(f, f[p]))
    BY <1>2, <2>1, <2>2, FS_Subset
  <2>4. Cardinality(Positions(f, f[p])) > 0
    BY <1>2, <2>1, FS_EmptySet
  <2>5. f[p] # 0 /\ f[o] \in Nat /\ f[p] \in Nat
    BY <1>4
  <2> QED BY <1>1, <1>2, <2>3, <2>4, <2>5
<1> QED BY <1>3, <1>4

-----------------------------------------------------------------------------
(* The counters *)

Counts == [Orgs -> [Orgs -> Nat]]

SentOrgs(i) == {Org(b) : b \in round[i].sent}
ListOrgs(i) == {Org(c) : c \in round[i].list}

\* What an org has let pass in this round and, unless it was offered a turn in it, before.
LetPass(i, o, p) == turns[o][p] + IF o \in round[i].locked THEN 0 ELSE passedBy[o][p]

CountersTyped == passedBy \in Counts /\ turns \in Counts

LineBounded == \A o \in Orgs : lastServed[o] <= Cardinality(Orgs)

\* Only who waits counts, and a round only counts turns of others that it has served.
CountsWait == \A o, p \in Orgs : passedBy[o][p] > 0 \/ turns[o][p] > 0 => WaitsForTurn(o)
TurnsServed ==
    \A o, p \in Orgs : turns[o][p] > 0 =>
        \E i \in Instances : IsOpen(i) /\ p \in SentOrgs(i) /\ o \notin SentOrgs(i)

\* Who was passed by stands in the line before who passed.
PassedComesFirst == \A o, p \in Orgs : passedBy[o][p] > 0 => lastServed[o] < lastServed[p]

\* An org that has let another pass is on every list that the other is on.
PassedIsListed ==
    \A i \in Instances, o, p \in Orgs : IsOpen(i) /\ p \in ListOrgs(i) /\ LetPass(i, o, p) > 0 =>
        o \in ListOrgs(i)

OnceAtMost ==
    \A i \in Instances, o, p \in Orgs : IsOpen(i) => LetPass(i, o, p) <= 1

FairInv ==
    /\ CountersTyped
    /\ LineBounded
    /\ CountsWait
    /\ TurnsServed
    /\ PassedComesFirst
    /\ PassedIsListed
    /\ OneTurnEach
    /\ OnceAtMost

LEMMA FairStart == FairInit => FairInv
<1> SUFFICES ASSUME FairInit PROVE FairInv
  OBVIOUS
<1>1. \A o, p \in Orgs : passedBy[o][p] = 0 /\ turns[o][p] = 0
  BY DEF FairInit, NoCount
<1>2. CountersTyped
  BY DEF FairInit, NoCount, CountersTyped, Counts
<1>3. \A i \in Instances : ~IsOpen(i)
  BY DEF FairInit, Init, IsOpen, NoRound
<1>4. LineBounded
  BY TenantsAssumption, FS_CardinalityType DEF FairInit, Init, LineBounded
<1> QED BY <1>1, <1>2, <1>3, <1>4
    DEF FairInv, CountsWait, TurnsServed, PassedComesFirst, PassedIsListed, OneTurnEach, OnceAtMost

\* The orgs of what is listed and sent are orgs.
LEMMA RoundOrgs ==
    ASSUME IInv, NEW i \in Instances
    PROVE  SentOrgs(i) \subseteq Orgs /\ ListOrgs(i) \subseteq Orgs /\ SentOrgs(i) \subseteq round[i].locked
<1>1. \A b \in round[i].list \cup round[i].sent : b \in Builds /\ status[b] # "ABSENT"
  BY DEF IInv, TypeInv, Typed, Known, RoundTyped
<1>2. \A b \in round[i].list \cup round[i].sent : Org(b) \in Orgs
  BY <1>1, OrgType DEF IInv, TypeInv, Typed
<1> QED BY <1>2 DEF SentOrgs, ListOrgs, IInv, RoundInv, SentWaits

\* A step that leaves rounds and line alone and only drops counts.
LEMMA CalmKeeps ==
    ASSUME IInv, FairInv, round' = round, lastServed' = lastServed,
           \A i \in Instances : SentOrgs(i)' = SentOrgs(i) /\ ListOrgs(i)' = ListOrgs(i),
           CountersTyped',
           \A o, p \in Orgs :
              /\ passedBy'[o][p] \in {0, passedBy[o][p]} /\ turns'[o][p] \in {0, turns[o][p]}
              /\ passedBy'[o][p] > 0 \/ turns'[o][p] > 0 => WaitsForTurn(o)'
    PROVE  FairInv'
<1> USE DEF FairInv
<1>0. \A o, p \in Orgs : /\ passedBy[o][p] \in Nat /\ turns[o][p] \in Nat
                          /\ passedBy'[o][p] \in Nat /\ turns'[o][p] \in Nat
  BY DEF CountersTyped, Counts
<1>1. \A i \in Instances : IsOpen(i)' <=> IsOpen(i)
  BY DEF IsOpen
<1>2. LineBounded' /\ CountsWait' /\ OneTurnEach'
  BY <1>0 DEF LineBounded, CountsWait, OneTurnEach
<1>3. TurnsServed'
  BY <1>0, <1>1 DEF TurnsServed
<1>4. PassedComesFirst'
  BY <1>0 DEF PassedComesFirst
<1>5. \A i \in Instances, o, p \in Orgs :
         LetPass(i, o, p)' \in Nat /\ LetPass(i, o, p) \in Nat /\ LetPass(i, o, p)' <= LetPass(i, o, p)
  BY <1>0 DEF LetPass
<1>6. PassedIsListed' /\ OnceAtMost'
  BY <1>1, <1>5 DEF PassedIsListed, OnceAtMost
<1> QED BY <1>2, <1>3, <1>4, <1>6

LEMMA ElsewhereLine == Elsewhere => lastServed' = lastServed
BY DEF Elsewhere, Intake, DropPush, Supersede, Enqueue, Reject, Teardown, CancelByUser, OnAppCreated,
       OnAppDeleted, OnOrgDeleted, Report, ReportAbort, ReportLock, ReportCommit, Sweep, SweepAsk,
       SweepDeaf, SweepRecovered, SweepDue, SetPaused, Tick, orgVars

LEMMA SameOrgs ==
    ASSUME IInv, Harmless, NEW i \in Instances
    PROVE  SentOrgs(i)' = SentOrgs(i) /\ ListOrgs(i)' = ListOrgs(i)
<1>1. \A b \in round[i].list \cup round[i].sent : Org(b)' = Org(b)
  BY DEF IInv, TypeInv, Typed, Known, RoundTyped, Harmless, Org, App
<1> QED BY <1>1 DEF SentOrgs, ListOrgs, Harmless

LEMMA ElsewhereFair ==
    ASSUME IInv, FairInv, Elsewhere,
           passedBy' = StillWaiting(passedBy, {}), turns' = StillWaiting(turns, {})
    PROVE  FairInv'
<1>1. Harmless /\ lastServed' = lastServed
  BY ElsewhereHarmless, ElsewhereLine
<1>2. \A i \in Instances : SentOrgs(i)' = SentOrgs(i) /\ ListOrgs(i)' = ListOrgs(i)
  BY <1>1, SameOrgs
<1>3. CountersTyped'
  BY DEF FairInv, CountersTyped, Counts, StillWaiting
<1>4. \A o, p \in Orgs :
         /\ passedBy'[o][p] \in {0, passedBy[o][p]} /\ turns'[o][p] \in {0, turns[o][p]}
         /\ passedBy'[o][p] > 0 \/ turns'[o][p] > 0 => WaitsForTurn(o)'
  BY DEF StillWaiting
<1> QED BY <1>1, <1>2, <1>3, <1>4, CalmKeeps DEF Harmless

LEMMA StutterFair ==
    ASSUME IInv, FairInv, UNCHANGED fairVars
    PROVE  FairInv'
<1>1. UNCHANGED vars /\ passedBy' = passedBy /\ turns' = turns
  BY DEF fairVars
<1>2. Harmless /\ lastServed' = lastServed
  BY <1>1, ElsewhereHarmless DEF vars
<1>3. \A o : WaitsForTurn(o)' <=> WaitsForTurn(o)
  BY <1>1 DEF vars, WaitsForTurn, OfOrg, OfApp, InFlight, Queued, Org, App
<1>4. \A i \in Instances : SentOrgs(i)' = SentOrgs(i) /\ ListOrgs(i)' = ListOrgs(i)
  BY <1>2, SameOrgs
<1>5. \A o, p \in Orgs :
         /\ passedBy'[o][p] \in {0, passedBy[o][p]} /\ turns'[o][p] \in {0, turns[o][p]}
         /\ passedBy'[o][p] > 0 \/ turns'[o][p] > 0 => WaitsForTurn(o)'
  BY <1>1, <1>3 DEF FairInv, CountsWait
<1>6. CountersTyped'
  BY <1>1 DEF FairInv, CountersTyped
<1> QED BY <1>2, <1>4, <1>5, <1>6, CalmKeeps DEF Harmless

\* A round's statements before its commit change nothing that others see.
LEMMA SameWaits ==
    ASSUME UNCHANGED <<status, push, orgs>>
    PROVE  /\ \A o : WaitsForTurn(o)' <=> WaitsForTurn(o)
           /\ \A b : Org(b)' = Org(b)
BY DEF WaitsForTurn, OfOrg, OfApp, InFlight, Queued, Org, App

LEMMA CountTypes ==
    ASSUME FairInv
    PROVE  \A o, p \in Orgs : passedBy[o][p] \in Nat /\ turns[o][p] \in Nat
BY DEF FairInv, CountersTyped, Counts

\* A round opens with nobody listed or served.
LEMMA OpenFair ==
    ASSUME IInv, FairInv, NEW i \in Instances, RoundOpen(i), UNCHANGED <<passedBy, turns>>
    PROVE  FairInv'
<1> USE DEF FairInv
<1>1. UNCHANGED <<status, push, orgs, lastServed>>
  BY DEF RoundOpen, buildVars, orgVars
<1>2. \A o, p \in Orgs : turns[o][p] = 0
  BY CountTypes DEF TurnsServed, RoundOpen
<1>3. /\ round'[i].list = {}
      /\ \A j \in Instances \ {i} : ~IsOpen(j)'
  BY DEF RoundOpen, NoRound, IsOpen, IInv, TypeInv, Typed
<1>4. CountersTyped' /\ LineBounded' /\ OneTurnEach' /\ CountsWait' /\ PassedComesFirst'
  BY <1>1, SameWaits DEF CountersTyped, LineBounded, OneTurnEach, CountsWait, PassedComesFirst
<1>5. TurnsServed'
  BY <1>2 DEF TurnsServed
<1>6. PassedIsListed'
  BY <1>3 DEF PassedIsListed, ListOrgs
<1>7. OnceAtMost'
  BY <1>2, <1>3, CountTypes DEF OnceAtMost, LetPass, OneTurnEach
<1> QED BY <1>4, <1>5, <1>6, <1>7

\* A round that dies takes its turns along.
LEMMA AbortFair ==
    ASSUME IInv, FairInv, NEW i \in Instances, RoundAbort(i), turns' = NoCount, passedBy' = passedBy
    PROVE  FairInv'
<1> USE DEF FairInv
<1>1. UNCHANGED <<status, push, orgs, lastServed>>
  BY DEF RoundAbort, buildVars, orgVars
<1>2. \A o, p \in Orgs : turns'[o][p] = 0
  BY DEF NoCount
<1>3. \A j \in Instances : ~IsOpen(j)'
  BY OthersIdle DEF RoundAbort, NoRound, IsOpen, IInv, TypeInv, Typed
<1>4. CountersTyped' /\ LineBounded' /\ OneTurnEach' /\ CountsWait' /\ PassedComesFirst'
  BY <1>1, <1>2, SameWaits
     DEF CountersTyped, Counts, NoCount, LineBounded, OneTurnEach, CountsWait, PassedComesFirst
<1>5. TurnsServed' /\ PassedIsListed' /\ OnceAtMost'
  BY <1>2, <1>3 DEF TurnsServed, PassedIsListed, OnceAtMost
<1> QED BY <1>4, <1>5

\* Where an org stands for the round's own queries.
LEMMA Standing ==
    ASSUME IInv, FairInv, NEW i \in Instances, IsOpen(i), NEW o \in Orgs, NEW p \in Orgs,
           LetPass(i, o, p) > 0
    PROVE  /\ WaitsForTurn(o) /\ o \notin SentOrgs(i)
           /\ ServedAt(i, o) < ServedAt(i, p)
           /\ ServedAt(i, o) \in Nat /\ ServedAt(i, p) \in Nat
<1> USE DEF FairInv
<1>0. /\ passedBy[o][p] \in Nat /\ turns[o][p] \in Nat /\ lastServed \in [Orgs -> Nat]
      /\ Cardinality(Orgs) \in Nat
  BY CountTypes, TenantsAssumption, FS_CardinalityType DEF IInv, TypeInv, Typed, RowsTyped
<1>1. turns[o][p] > 0 \/ (passedBy[o][p] > 0 /\ o \notin round[i].locked)
  BY <1>0 DEF LetPass
<1>2. WaitsForTurn(o)
  BY <1>1 DEF CountsWait
<1>3. turns[o][p] > 0 => p \in SentOrgs(i) /\ o \notin SentOrgs(i)
  BY DEF TurnsServed, IInv, RoundInv, OneRound
<1>4. o \notin SentOrgs(i)
  BY <1>1, <1>3, RoundOrgs
<1>5. ServedAt(i, o) = lastServed[o]
  BY <1>4 DEF ServedAt, SentOrgs
<1>6. ServedAt(i, p) = IF p \in SentOrgs(i) THEN Cardinality(Orgs) + 1 ELSE lastServed[p]
  BY DEF ServedAt, SentOrgs
<1>7. lastServed[o] <= Cardinality(Orgs)
  BY DEF LineBounded
<1>8. turns[o][p] > 0 \/ lastServed[o] < lastServed[p]
  BY <1>1 DEF PassedComesFirst
<1>9. ServedAt(i, o) < ServedAt(i, p)
  BY <1>0, <1>3, <1>5, <1>6, <1>7, <1>8
<1> QED BY <1>0, <1>2, <1>4, <1>5, <1>6, <1>9

\* A turn that lists an org lists everyone whom that org has passed.
LEMMA TurnFair ==
    ASSUME IInv, FairInv, NEW i \in Instances, Turn(i), UNCHANGED <<passedBy, turns>>
    PROVE  FairInv'
<1> USE DEF FairInv
<1>1. UNCHANGED <<status, push, orgs, lastServed>> /\ IsOpen(i)
  BY DEF Turn, buildVars, orgVars
<1>2. PICK T \in FirstInLine(i, round[i].slots) : round' = [round EXCEPT ![i].list = T, ![i].hit = FALSE]
  BY DEF Turn
<1>3. /\ round'[i].list = T /\ round'[i].sent = round[i].sent /\ round'[i].locked = round[i].locked
      /\ \A j \in Instances : round'[j].open = round[j].open /\ round'[j].sent = round[j].sent
      /\ \A j \in Instances \ {i} : round'[j] = round[j] /\ ~IsOpen(j)
  BY <1>1, <1>2, OthersIdle DEF IInv, TypeInv, Typed, RoundTyped, IsOpen, NoRound
<1>4. CountersTyped' /\ LineBounded' /\ OneTurnEach' /\ CountsWait' /\ PassedComesFirst'
  BY <1>1, SameWaits DEF CountersTyped, LineBounded, OneTurnEach, CountsWait, PassedComesFirst
<1>5. \A j \in Instances : (IsOpen(j)' <=> IsOpen(j)) /\ SentOrgs(j)' = SentOrgs(j)
  BY <1>1, <1>3, SameWaits DEF IsOpen, SentOrgs
<1>6. TurnsServed'
  BY <1>5 DEF TurnsServed
<1>7. \A o, p \in Orgs : LetPass(i, o, p)' = LetPass(i, o, p)
  BY <1>3 DEF LetPass
<1>8. OnceAtMost'
  BY <1>3, <1>5, <1>7 DEF OnceAtMost
<1>9. PassedIsListed'
  <2> SUFFICES ASSUME NEW o \in Orgs, NEW c \in T, Org(c) \in Orgs, LetPass(i, o, Org(c)) > 0
               PROVE  \E d \in T : Org(d) = o
    BY <1>1, <1>3, <1>5, <1>7, SameWaits DEF PassedIsListed, ListOrgs
  <2>1. /\ WaitsForTurn(o) /\ o \notin SentOrgs(i)
        /\ ServedAt(i, o) < ServedAt(i, Org(c))
        /\ ServedAt(i, o) \in Nat /\ ServedAt(i, Org(c)) \in Nat
    BY <1>1, Standing
  <2>2. PICK d \in Candidates(i) : Org(d) = o
    BY <1>1, <2>1, WaitingIsListed DEF SentOrgs
  <2>3. d \in T
    <3>1. d \notin T => InLineBefore(i, Org(c), o)
      BY <1>2, <2>2 DEF FirstInLine
    <3> QED BY <2>1, <3>1 DEF InLineBefore
  <2> QED BY <2>2, <2>3
<1> QED BY <1>4, <1>6, <1>8, <1>9

\* Whoever is dispatched is first in line among the listed, so nobody who is listed has let it
\* pass before; the org whose turn it is starts counting again.
LEMMA DispatchFair ==
    ASSUME IInv, FairInv, NEW i \in Instances, DispatchOne(i), CountTurn(i), passedBy' = passedBy
    PROVE  FairInv'
<1> USE DEF FairInv
<1>1. UNCHANGED <<status, push, orgs, lastServed>> /\ IsOpen(i)
  BY DEF DispatchOne, buildVars, orgVars
<1>2. PICK c \in round[i].list :
        /\ \A d \in round[i].list \ {c} : InLineBefore(i, Org(c), Org(d))
        /\ round' = [round EXCEPT ![i] = IF CanDispatch(c) THEN Served(@, c) ELSE Passed(@, c)]
  BY DEF DispatchOne
<1>3. /\ c \in Builds /\ Org(c) \in Orgs /\ round[i].sent \in SUBSET Builds
      /\ \A b \in round[i].sent : status[b] = "QUEUED"
  <2>1. c \in Builds /\ status[c] # "ABSENT" /\ round[i].sent \in SUBSET Builds
    BY DEF IInv, TypeInv, Typed, Known, RoundTyped
  <2> QED BY <2>1, OrgType DEF IInv, TypeInv, Typed, RoundInv, SentWaits
<1>4. /\ round'[i].open = round[i].open /\ round'[i].list = round[i].list \ {c}
      /\ round'[i].locked = round[i].locked \cup {Org(c)}
      /\ round'[i].sent \in {round[i].sent, round[i].sent \cup {c}}
      /\ \A j \in Instances \ {i} : round'[j] = round[j] /\ ~IsOpen(j)
  <2>1. round[i] \in RoundTyped /\ round'[i] = IF CanDispatch(c) THEN Served(round[i], c) ELSE Passed(round[i], c)
    BY <1>2 DEF IInv, TypeInv, Typed
  <2>2. /\ Passed(round[i], c).open = round[i].open
        /\ Passed(round[i], c).list = round[i].list \ {c}
        /\ Passed(round[i], c).sent = round[i].sent
        /\ Passed(round[i], c).locked = round[i].locked \cup {Org(c)}
    BY <2>1 DEF Passed, RoundTyped
  <2>3. /\ Served(round[i], c).open = round[i].open
        /\ Served(round[i], c).list = round[i].list \ {c}
        /\ Served(round[i], c).sent = round[i].sent \cup {c}
        /\ Served(round[i], c).locked = round[i].locked \cup {Org(c)}
    BY <2>1 DEF Served, Passed, RoundTyped
  <2>4. \A j \in Instances \ {i} : round'[j] = round[j] /\ ~IsOpen(j)
    BY <1>1, <1>2, OthersIdle DEF IInv, TypeInv, Typed, IsOpen, NoRound
  <2> QED BY <2>1, <2>2, <2>3, <2>4
<1> DEFINE new == round'[i].sent \ round[i].sent
           offered == {Org(d) : d \in (round[i].list \ round'[i].list) \cup round'[i].sent}
<1>6. /\ Org(c) \in offered /\ SentOrgs(i) \subseteq offered
      /\ offered \subseteq SentOrgs(i) \cup {Org(c)}
      /\ SentOrgs(i)' \in {SentOrgs(i), SentOrgs(i) \cup {Org(c)}}
      /\ new \subseteq {c} /\ (new # {} => SentOrgs(i)' = SentOrgs(i) \cup {Org(c)})
  BY <1>1, <1>4, SameWaits DEF SentOrgs
<1>7. \A p \in Orgs : Cardinality(OfOrg(new, p)) = IF new # {} /\ p = Org(c) THEN 1 ELSE 0
  <2> SUFFICES ASSUME NEW p \in Orgs
               PROVE  Cardinality(OfOrg(new, p)) = IF new # {} /\ p = Org(c) THEN 1 ELSE 0
    OBVIOUS
  <2>1. OfOrg(new, p) = IF new # {} /\ p = Org(c) THEN {c} ELSE {}
    BY <1>6 DEF OfOrg
  <2>2. Cardinality({}) = 0 /\ Cardinality({} \cup {c}) = 1
    <3>1. IsFiniteSet({}) /\ Cardinality({}) = 0
      BY FS_EmptySet
    <3>2. Cardinality({} \cup {c}) = IF c \in {} THEN Cardinality({}) ELSE Cardinality({}) + 1
      BY <3>1, FS_AddElement
    <3> QED BY <3>1, <3>2
  <2> QED BY <2>1, <2>2
<1>8. \A o, p \in Orgs : turns'[o][p] =
         IF ~WaitsForTurn(o) \/ o \in offered THEN 0
         ELSE turns[o][p] + IF new # {} /\ p = Org(c) THEN 1 ELSE 0
  BY <1>7 DEF CountTurn
<1>9. \A o, p \in Orgs : turns'[o][p] \in Nat /\ passedBy[o][p] \in Nat /\ turns[o][p] \in Nat
  BY <1>8, CountTypes
<1>10. CountersTyped'
  <2>1. turns' = [o \in Orgs |-> [p \in Orgs |-> turns'[o][p]]]
    BY DEF CountTurn
  <2> QED BY <1>9, <2>1 DEF CountersTyped, Counts
<1> HIDE DEF new, offered
<1>11. ASSUME NEW o \in Orgs, o \notin offered PROVE LetPass(i, o, Org(c)) = 0
  <2> SUFFICES ASSUME LetPass(i, o, Org(c)) > 0 PROVE FALSE
    BY <1>3, <1>9 DEF LetPass
  <2>1. Org(c) \in ListOrgs(i)
    BY DEF ListOrgs
  <2>2. PICK d \in round[i].list : Org(d) = o
    BY <1>1, <1>3, <2>1 DEF PassedIsListed, ListOrgs
  <2>3. InLineBefore(i, Org(c), o)
    BY <1>2, <1>6, <1>11, <2>2
  <2>4. ServedAt(i, o) < ServedAt(i, Org(c)) /\ ServedAt(i, o) \in Nat /\ ServedAt(i, Org(c)) \in Nat
    BY <1>1, <1>3, Standing
  <2> QED BY <2>3, <2>4 DEF InLineBefore
<1>12. \A o, p \in Orgs : LetPass(i, o, p)' =
          IF o \in offered THEN 0
          ELSE turns'[o][p] + IF o \in round[i].locked THEN 0 ELSE passedBy[o][p]
  <2>1. \A o \in Orgs : o \in offered => o \in round'[i].locked
    BY <1>4, <1>6, RoundOrgs
  <2>2. \A o \in Orgs : o \notin offered => (o \in round'[i].locked <=> o \in round[i].locked)
    BY <1>4, <1>6
  <2> QED BY <1>8, <2>1, <2>2 DEF LetPass
<1>13. \A o, p \in Orgs : p # Org(c) => LetPass(i, o, p)' <= LetPass(i, o, p)
  BY <1>8, <1>9, <1>12 DEF LetPass
<1>14. LineBounded' /\ OneTurnEach' /\ PassedComesFirst'
  BY <1>1 DEF LineBounded, OneTurnEach, PassedComesFirst
<1>15. CountsWait'
  BY <1>1, <1>8, SameWaits DEF CountsWait
<1>16. TurnsServed'
  <2> SUFFICES ASSUME NEW o \in Orgs, NEW p \in Orgs, turns'[o][p] > 0
               PROVE  p \in SentOrgs(i)' /\ o \notin SentOrgs(i)'
    BY <1>1, <1>4 DEF TurnsServed, IsOpen
  <2>1. o \notin offered /\ (turns[o][p] > 0 \/ (new # {} /\ p = Org(c)))
    BY <1>8, <1>9
  <2>2. o \notin SentOrgs(i)'
    BY <1>6, <2>1
  <2>3. turns[o][p] > 0 => p \in SentOrgs(i)
    BY <1>1 DEF TurnsServed, IInv, RoundInv, OneRound
  <2> QED BY <1>6, <2>1, <2>2, <2>3
<1>17. PassedIsListed'
  <2>1. \A j \in Instances : IsOpen(j)' => j = i
    BY <1>4 DEF IsOpen
  <2>2. ListOrgs(i)' = {Org(d) : d \in round[i].list \ {c}}
    BY <1>1, <1>4, SameWaits DEF ListOrgs
  <2> SUFFICES ASSUME NEW o \in Orgs, NEW p \in Orgs, NEW d \in round[i].list \ {c}, Org(d) = p,
                      LetPass(i, o, p)' > 0
               PROVE  \E e \in round[i].list \ {c} : Org(e) = o
    BY <2>1, <2>2 DEF PassedIsListed
  <2>3. p # Org(c)
    BY DEF IInv, RoundInv, ListApart
  <2>4. LetPass(i, o, p) > 0 /\ o \notin offered
    BY <1>9, <1>12, <1>13, <2>3 DEF LetPass
  <2>5. p \in ListOrgs(i)
    BY DEF ListOrgs
  <2>6. PICK e \in round[i].list : Org(e) = o
    BY <1>1, <2>4, <2>5 DEF PassedIsListed, ListOrgs
  <2> QED BY <1>6, <2>4, <2>6
<1>18. OnceAtMost'
  <2> SUFFICES ASSUME NEW o \in Orgs, NEW p \in Orgs PROVE LetPass(i, o, p)' <= 1
    BY <1>4 DEF OnceAtMost, IsOpen
  <2>1. LetPass(i, o, p) <= 1 /\ LetPass(i, o, p) \in Nat
    BY <1>1, <1>9 DEF OnceAtMost, LetPass
  <2>2. CASE p # Org(c)
    BY <1>9, <1>12, <1>13, <2>1, <2>2
  <2>3. CASE p = Org(c) /\ o \in offered
    BY <1>12, <2>3
  <2>4. CASE p = Org(c) /\ o \notin offered
    <3>1. turns[o][p] = 0 /\ (o \in round[i].locked \/ passedBy[o][p] = 0)
      BY <1>9, <1>11, <2>4 DEF LetPass
    <3> QED BY <1>8, <1>12, <2>4, <3>1
  <2> QED BY <2>2, <2>3, <2>4
<1> QED BY <1>10, <1>14, <1>15, <1>16, <1>17, <1>18

\* The commit puts the orgs it served behind everyone who let them pass.
LEMMA CommitFair ==
    ASSUME IInv, FairInv, NEW i \in Instances, RoundCommit(i), CommitTurns(i), turns' = NoCount
    PROVE  FairInv'
<1> USE DEF FairInv
<1> DEFINE f == [o \in Orgs |-> ServedAt(i, o)]
<1>1. IsOpen(i) /\ lastServed' = Renumbered(f)
  BY DEF RoundCommit
<1>2. \A j \in Instances : ~IsOpen(j)'
  BY <1>1, OthersIdle DEF RoundCommit, NoRound, IsOpen, IInv, TypeInv, Typed
<1>3. f \in [Orgs -> Nat]
  BY TenantsAssumption, FS_CardinalityType DEF ServedAt, IInv, TypeInv, Typed, RowsTyped
<1>4. LineBounded'
  BY <1>1, <1>3, RenumberedLine DEF LineBounded
<1>5. \A o, p \in Orgs : turns'[o][p] = 0
  BY DEF NoCount
<1>6. ASSUME NEW o \in Orgs, NEW p \in Orgs
      PROVE  /\ passedBy'[o][p] \in {0, LetPass(i, o, p)}
             /\ passedBy'[o][p] > 0 => WaitsForTurn(o)'
  BY DEF CommitTurns, StillWaiting, LetPass
<1>7. \A o, p \in Orgs : LetPass(i, o, p) \in Nat /\ LetPass(i, o, p) <= 1
  BY <1>1, CountTypes DEF LetPass, OnceAtMost
<1>8. CountersTyped'
  <2>1. passedBy' = [o \in Orgs |-> [p \in Orgs |-> passedBy'[o][p]]]
    BY DEF CommitTurns, StillWaiting
  <2>2. \A o, p \in Orgs : passedBy'[o][p] \in Nat
    BY <1>6, <1>7
  <2> QED BY <2>1, <2>2 DEF CountersTyped, Counts, NoCount
<1>9. CountsWait' /\ OneTurnEach'
  BY <1>5, <1>6, <1>7 DEF CountsWait, OneTurnEach
<1>10. PassedComesFirst'
  <2> SUFFICES ASSUME NEW o \in Orgs, NEW p \in Orgs, passedBy'[o][p] > 0
               PROVE  lastServed'[o] < lastServed'[p]
    BY DEF PassedComesFirst
  <2>1. f[o] < f[p]
    BY <1>1, <1>6, Standing
  <2> HIDE DEF f
  <2> QED BY <1>1, <1>3, <2>1, RenumberedLine
<1>11. TurnsServed' /\ PassedIsListed' /\ OnceAtMost'
  BY <1>2, <1>5 DEF TurnsServed, PassedIsListed, OnceAtMost
<1> QED BY <1>4, <1>8, <1>9, <1>10, <1>11

\* FairShare is the scheduler, and its counters follow.
LEMMA FairIsSpec == FairShareSpec => Spec
<1>1. FairInit => Init
  BY DEF FairInit
<1>2. [FairNext]_fairVars => [Next]_vars
  BY DEF FairNext, CountedRound, Next, Round, fairVars
<1> QED BY <1>1, <1>2, PTL DEF FairShareSpec, Spec

LEMMA FairStep == IInv /\ FairInv /\ [FairNext]_fairVars => FairInv'
<1> SUFFICES ASSUME IInv, FairInv, [FairNext]_fairVars PROVE FairInv'
  OBVIOUS
<1>1. ASSUME NEW i \in Dispatching, CountedRound(i) PROVE FairInv'
  BY <1>1, InstancesAssumption, OpenFair, TurnFair, DispatchFair, CommitFair, AbortFair DEF CountedRound
<1>2. CASE UNCHANGED fairVars
  BY <1>2, StutterFair
<1>3. ASSUME Elsewhere, passedBy' = StillWaiting(passedBy, {}), turns' = StillWaiting(turns, {})
      PROVE  FairInv'
  BY <1>3, ElsewhereFair
<1> QED BY <1>1, <1>2, <1>3 DEF FairNext

\* Round robin: while an org waits to be offered a turn no other org gets two, whatever its
\* backlog and however rounds, crashes, limits, expiries and returned slots interleave.
THEOREM OrgsTakeTurns == FairShareSpec => []OneTurnEach
<1>1. FairInit => FairInv
  BY FairStart
<1>2. IInv /\ FairInv /\ [FairNext]_fairVars => FairInv'
  BY FairStep
<1>3. FairInv => OneTurnEach
  BY DEF FairInv
<1> QED BY <1>1, <1>2, <1>3, FairIsSpec, Inductive, PTL DEF FairShareSpec
=============================================================================
