----------------------------- MODULE BuildQueue -----------------------------
(***************************************************************************)
(* The scheduler of build-queue-service: the builds table, the org and app *)
(* projections it is scheduled against, the dispatcher rounds of every     *)
(* instance, the lease sweeper and the listeners of build-service's        *)
(* reports.  Every action is one database transaction, except              *)
(*                                                                         *)
(*   - a dispatcher round, whose statements are steps of their own: other  *)
(*     transactions commit between them, its own writes stay invisible     *)
(*     until RoundCommit, and the org rows it has locked stay locked;      *)
(*   - a report, which first locks the build's row (ReportLock) and then   *)
(*     decides (ReportCommit): the sweeper passes over the locked row;     *)
(*   - a lease sweep, which asks for the backbone (SweepAsk) before it     *)
(*     opens its transaction, so the answer may be stale when it is used.  *)
(*                                                                         *)
(* Deadlines are kept as the ticks still left until they pass: a build has *)
(* one running deadline at a time (its queue age, its start deadline or    *)
(* its run lease), and 0 means the deadline is before now().               *)
(***************************************************************************)
EXTENDS Integers, FiniteSets, Sequences

CONSTANTS
    Orgs,               \* org ids, numbers: ties in the line are broken by org_id
    Apps,               \* app ids
    AppOrg,             \* the org each app belongs to
    Branches,           \* branch names
    Pushes,             \* the pushes git-integration-service may publish
    Builds,             \* build ids, numbers in the order their pushes arrive
    Instances,          \* replicas of the service
    Dispatching,        \* instances with dispatch.wakeup-enabled
    Sweeping,           \* instances with lease.sweeper-enabled
    Pausable,           \* instances whose dispatch.paused an operator may flip
    Announced,          \* the apps whose app.created may arrive
    Deletable,          \* the apps and orgs whose deletion may arrive
    MaxConcurrent,      \* limit profile of each org: builds in flight
    MaxQueued,          \* limit profile of each org: builds waiting
    GlobalConcurrency,  \* dispatch.global-concurrency
    BatchSize,          \* dispatch.batch-size
    MaxAttempts,        \* dispatch.max-attempts
    SweepBatch,         \* lease.batch-size
    StartTimeout,       \* dispatch.start-timeout in ticks, or Never
    RunLease,           \* build.max-duration + lease.grace in ticks, or Never
    Grace,              \* lease.grace in ticks
    MaxAge,             \* queue.max-age in ticks, or Never
    NoPush              \* the push of a build that does not exist yet

\* A deadline beyond the horizon of the model.
Never == -1

PushContent == [app : Apps, branch : Branches, class : {"INTERACTIVE", "AUTOMATIC"}]

ASSUME TenantsAssumption ==
    /\ Orgs \subseteq Nat /\ IsFiniteSet(Orgs)
    /\ AppOrg \in [Apps -> Orgs]
    /\ Builds \subseteq Nat /\ IsFiniteSet(Builds)
    /\ Pushes \subseteq PushContent /\ NoPush \notin PushContent
    /\ Announced \subseteq Apps

ASSUME InstancesAssumption ==
    Dispatching \subseteq Instances /\ Sweeping \subseteq Instances /\ Pausable \subseteq Instances

ASSUME LimitsAssumption ==
    /\ MaxConcurrent \in [Orgs -> Nat \ {0}]
    /\ MaxQueued \in [Orgs -> Nat \ {0}]
    /\ GlobalConcurrency \in Nat \ {0}
    /\ BatchSize \in Nat \ {0}
    /\ SweepBatch \in Nat \ {0}
    /\ MaxAttempts \in Nat \ {0}

ASSUME DeadlinesAssumption ==
    /\ StartTimeout \in Nat \ {0} \/ StartTimeout = Never
    /\ RunLease \in Nat \ {0} \/ RunLease = Never
    /\ MaxAge \in Nat \ {0} \/ MaxAge = Never
    /\ Grace \in Nat \ {0}

VARIABLES
    status,       \* builds.status; ABSENT before the row is inserted
    push,         \* app, branch and priority class of the build
    attempt,      \* builds.attempt
    left,         \* ticks until the build's current deadline passes
    reason,       \* builds.status_reason
    supersededBy, \* builds.superseded_by
    events,       \* per build, the events its transactions appended to the outbox
    orgs,         \* orgs.status
    lastServed,   \* orgs.last_served_at; 0 is NULL
    apps,         \* apps.status
    round,        \* the dispatcher transaction of each instance
    locking,      \* per build, the report whose transaction holds its row lock
    asked,        \* per instance, the reachability answer its sweep works with
    unreachable,  \* lease_sweeper_state.unreachable_since is set
    paused        \* instances with dispatch.paused on

buildVars == <<status, push, attempt, left, reason, supersededBy, events>>
orgVars == <<orgs, lastServed, apps>>
sweepVars == <<asked, unreachable, paused>>
vars == <<status, push, attempt, left, reason, supersededBy, events, orgs, lastServed,
          apps, round, locking, asked, unreachable, paused>>

-----------------------------------------------------------------------------
(* The builds table *)

Statuses == {"ABSENT", "QUEUED", "DISPATCHED", "RUNNING", "EXPIRED", "SUCCEEDED",
             "FAILED", "SUPERSEDED", "CANCELLED", "REJECTED"}

Reasons == {"NONE", "SUPERSEDED", "USER_CANCELLED", "APP_DELETED", "ORG_DELETED",
            "QUEUE_FULL", "QUEUE_TIMEOUT", "START_TIMEOUT", "LEASE_EXPIRED", "BUILD_FAILED"}

ReportTypes == {"STARTED", "SUCCEEDED", "FAILED"}

\* BuildStatus.rank: a build only moves to a higher rank.
Rank == [s \in Statuses |->
            CASE s = "ABSENT" -> -1
              [] s = "QUEUED" -> 0
              [] s = "DISPATCHED" -> 1
              [] s = "RUNNING" -> 2
              [] s = "EXPIRED" -> 3
              [] OTHER -> 4]

IsInFlight(s) == s \in {"DISPATCHED", "RUNNING"}

InFlight == {b \in Builds : IsInFlight(status[b])}
Queued == {b \in Builds : status[b] = "QUEUED"}

App(b) == push[b].app
Org(b) == AppOrg[App(b)]
Branch(b) == push[b].branch

OfOrg(S, o) == {b \in S : Org(b) = o}
OfApp(S, a) == {b \in S : App(b) = a}

\* BuildIds: one queued and one cancelled id per build, one dispatched id per attempt.
QueuedEvent == <<"queued", 0>>
DispatchedEvent(n) == <<"dispatched", n>>
CancelledEvent == <<"cancelled", 0>>

Event == {"queued", "dispatched", "cancelled"} \X Nat

\* Mutant: the builds that leave the queue by age are not told to anyone.
Ended_Untold(S, s, r) ==
    /\ status' = [b \in Builds |-> IF b \in S THEN s ELSE status[b]]
    /\ reason' = [b \in Builds |-> IF b \in S THEN r ELSE reason[b]]
    /\ events' = [b \in Builds |-> IF b \in S /\ r # "QUEUE_TIMEOUT"
                                   THEN Append(events[b], CancelledEvent) ELSE events[b]]

\* The status, reason and outbox row of every build of S that ends in status s.
Ended(S, s, r) ==
    /\ status' = [b \in Builds |-> IF b \in S THEN s ELSE status[b]]
    /\ reason' = [b \in Builds |-> IF b \in S THEN r ELSE reason[b]]
    /\ events' = [b \in Builds |-> IF b \in S THEN Append(events[b], CancelledEvent)
                                              ELSE events[b]]

\* The deadline of a build that has left the queue or its slot is never read again.
Disarmed(S) == left' = [b \in Builds |-> IF b \in S THEN 0 ELSE left[b]]

-----------------------------------------------------------------------------
(* Row locks: an org row is held by the round that locked it, until that   *)
(* round commits or rolls back.                                            *)

NoRound == [open |-> FALSE, slots |-> 0, hit |-> FALSE, list |-> {}, sent |-> {}, locked |-> {}]

OrgLocked(o) == \E i \in Instances : o \in round[i].locked

\* Mutant: the sweeper does not pass over the rows that reports hold.
RowLocked_RoundsOnly(b) == \E i \in Instances : b \in round[i].sent

\* A row an open round has dispatched, or a report is deciding: SKIP LOCKED passes over it.
RowLocked(b) == locking[b] # "NONE" \/ \E i \in Instances : b \in round[i].sent

-----------------------------------------------------------------------------
(* Intake: git.push.received, one transaction under the org row lock.      *)

\* Pushes of an org arrive in order (the topic is keyed by orgId), so build ids are taken in order.
IsNext(b) == status[b] = "ABSENT" /\ \A d \in Builds : d < b => status[d] # "ABSENT"

\* Mutant: a build only coalesces with one of its own priority class.
WaitingFor_SameClass(p) == {d \in Queued : push[d] = p}

WaitingFor(p) == {d \in Queued : App(d) = p.app /\ Branch(d) = p.branch}

AtQueueCap(o) == Cardinality(OfOrg(Queued, o)) >= MaxQueued[o]

\* orgAccepts and appAccepts insert the rows that are missing; a tombstone is left as it is.
ProjectsOf(p) ==
    /\ orgs' = [orgs EXCEPT ![AppOrg[p.app]] = IF @ = "ABSENT" THEN "ACTIVE" ELSE @]
    /\ apps' = [apps EXCEPT ![p.app] = IF @ = "ABSENT" THEN "ACTIVE" ELSE @]

\* Mutant: the app's tombstone is not looked at.
Accepts_AnyApp(p) == orgs[AppOrg[p.app]] # "DELETED"

Accepts(p) == orgs[AppOrg[p.app]] # "DELETED" /\ apps[p.app] # "DELETED"

\* The push is dropped; an org seen for the first time can't be DELETED, but its app can.
DropPush(p) ==
    /\ ~OrgLocked(AppOrg[p.app])
    /\ ~Accepts(p)
    /\ orgs' = [orgs EXCEPT ![AppOrg[p.app]] = IF @ = "ABSENT" THEN "ACTIVE" ELSE @]
    /\ UNCHANGED <<buildVars, lastServed, apps, round, locking, sweepVars>>

Enqueued(b, p) ==
    /\ push' = [push EXCEPT ![b] = p]
    /\ left' = [d \in Builds |-> IF d = b THEN MaxAge
                                ELSE IF d \in WaitingFor(p) THEN 0 ELSE left[d]]
    /\ UNCHANGED attempt

\* Mutant: the queue cap also turns away the build that replaces a waiting one.
Supersede_Capped(b, p) ==
    /\ IsNext(b) /\ Accepts(p) /\ ~OrgLocked(AppOrg[p.app])
    /\ \E w \in WaitingFor(p) :
         /\ status' = [status EXCEPT ![w] = "SUPERSEDED",
                                     ![b] = IF AtQueueCap(AppOrg[p.app]) THEN "REJECTED" ELSE "QUEUED"]
         /\ reason' = [reason EXCEPT ![w] = "SUPERSEDED"]
         /\ supersededBy' = [supersededBy EXCEPT ![w] = {b}]
         /\ events' = [events EXCEPT ![w] = Append(@, CancelledEvent)]
    /\ Enqueued(b, p) /\ ProjectsOf(p)
    /\ UNCHANGED <<lastServed, round, locking, sweepVars>>

\* Coalescing: the newer request replaces the one that waits for the same app and branch.
Supersede(b, p) ==
    /\ IsNext(b) /\ Accepts(p) /\ ~OrgLocked(AppOrg[p.app])
    /\ \E w \in WaitingFor(p) :
         /\ status' = [status EXCEPT ![w] = "SUPERSEDED", ![b] = "QUEUED"]
         /\ reason' = [reason EXCEPT ![w] = "SUPERSEDED"]
         /\ supersededBy' = [supersededBy EXCEPT ![w] = {b}]
         /\ events' = [events EXCEPT ![w] = Append(@, CancelledEvent),
                                     ![b] = Append(@, QueuedEvent)]
    /\ Enqueued(b, p) /\ ProjectsOf(p)
    /\ UNCHANGED <<lastServed, round, locking, sweepVars>>

Enqueue(b, p) ==
    /\ IsNext(b) /\ Accepts(p) /\ ~OrgLocked(AppOrg[p.app])
    /\ WaitingFor(p) = {} /\ ~AtQueueCap(AppOrg[p.app])
    /\ status' = [status EXCEPT ![b] = "QUEUED"]
    /\ events' = [events EXCEPT ![b] = Append(@, QueuedEvent)]
    /\ Enqueued(b, p) /\ ProjectsOf(p)
    /\ UNCHANGED <<reason, supersededBy, lastServed, round, locking, sweepVars>>

\* The org's queue is full and nothing waits to be replaced: recorded, never queued.
Reject(b, p) ==
    /\ IsNext(b) /\ Accepts(p) /\ ~OrgLocked(AppOrg[p.app])
    /\ WaitingFor(p) = {} /\ AtQueueCap(AppOrg[p.app])
    /\ push' = [push EXCEPT ![b] = p]
    /\ Ended({b}, "REJECTED", "QUEUE_FULL")
    /\ ProjectsOf(p)
    /\ UNCHANGED <<attempt, left, supersededBy, lastServed, round, locking, sweepVars>>

-----------------------------------------------------------------------------
(* Cancellation and teardown: org row lock first, then the waiting builds. *)

\* Mutant: a user may also cancel a build that build-service already has.
CancelByUser_Dispatched(b) ==
    /\ status[b] \in {"QUEUED", "DISPATCHED"} /\ ~OrgLocked(Org(b))
    /\ Ended({b}, "CANCELLED", "USER_CANCELLED") /\ Disarmed({b})
    /\ UNCHANGED <<push, attempt, supersededBy, orgVars, round, locking, sweepVars>>

CancelByUser(b) ==
    /\ status[b] = "QUEUED" /\ ~OrgLocked(Org(b))
    /\ Ended({b}, "CANCELLED", "USER_CANCELLED") /\ Disarmed({b})
    /\ UNCHANGED <<push, attempt, supersededBy, orgVars, round, locking, sweepVars>>

OnAppCreated(a) ==
    /\ apps' = [apps EXCEPT ![a] = IF @ = "ABSENT" THEN "ACTIVE" ELSE @]
    /\ orgs' = [orgs EXCEPT ![AppOrg[a]] = IF @ = "ABSENT" THEN "ACTIVE" ELSE @]
    /\ UNCHANGED <<buildVars, lastServed, round, locking, sweepVars>>

OnAppDeleted(a) ==
    /\ ~OrgLocked(AppOrg[a])
    /\ apps' = [apps EXCEPT ![a] = "DELETED"]
    /\ orgs' = [orgs EXCEPT ![AppOrg[a]] = IF @ = "ABSENT" THEN "ACTIVE" ELSE @]
    /\ Ended(OfApp(Queued, a), "CANCELLED", "APP_DELETED")
    /\ Disarmed(OfApp(Queued, a))
    /\ UNCHANGED <<push, attempt, supersededBy, lastServed, round, locking, sweepVars>>

OnOrgDeleted(o) ==
    /\ ~OrgLocked(o)
    /\ orgs' = [orgs EXCEPT ![o] = "DELETED"]
    /\ Ended(OfOrg(Queued, o), "CANCELLED", "ORG_DELETED")
    /\ Disarmed(OfOrg(Queued, o))
    /\ UNCHANGED <<push, attempt, supersededBy, lastServed, apps, round, locking,
                   sweepVars>>

-----------------------------------------------------------------------------
(* The dispatcher: every instance opens rounds; one at a time holds the    *)
(* advisory lock.  A round sees its own dispatches as in flight.           *)

IsOpen(i) == round[i].open

\* Mutant: a build the sweeper gave up on still counts against the platform.
SlotsAtStart_KeepsExpired ==
    LET free == GlobalConcurrency - Cardinality({b \in Builds : status[b] = "EXPIRED"} \cup InFlight)
    IN  IF free < BatchSize THEN free ELSE BatchSize

\* free and the batch bound shrink together, so their minimum stands for both.
SlotsAtStart ==
    LET free == GlobalConcurrency - Cardinality(InFlight)
    IN  IF free < BatchSize THEN free ELSE BatchSize

\* Mutant: the advisory lock is not taken.
RoundOpen_Unlocked(i) ==
    /\ i \notin paused /\ ~IsOpen(i)
    /\ round' = [round EXCEPT ![i] = [NoRound EXCEPT !.open = TRUE, !.slots = SlotsAtStart,
                                                    !.hit = TRUE]]
    /\ UNCHANGED <<buildVars, orgVars, locking, sweepVars>>

\* pg_try_advisory_xact_lock: an instance that finds another round open skips its own.
RoundOpen(i) ==
    /\ i \notin paused
    /\ \A j \in Instances : ~IsOpen(j)
    /\ round' = [round EXCEPT ![i] = [NoRound EXCEPT !.open = TRUE, !.slots = SlotsAtStart,
                                                    !.hit = TRUE]]
    /\ UNCHANGED <<buildVars, orgVars, locking, sweepVars>>

\* What the round's own transaction sees.
Held(i) == InFlight \cup round[i].sent

\* Mutant: serving an org does not move it to the back of the line.
ServedAt_Unmarked(i, o) == lastServed[o]

\* Only the order of last_served_at is kept: 0 is NULL, equal numbers are equal timestamps.
\* now() is the same for a whole transaction, so the orgs a round serves tie.
ServedAt(i, o) ==
    IF \E b \in round[i].sent : Org(b) = o THEN Cardinality(Orgs) + 1 ELSE lastServed[o]
Renumbered(f) ==
    [o \in Orgs |-> IF f[o] = 0 THEN 0
                   ELSE Cardinality({f[p] : p \in {q \in Orgs : 0 < f[q] /\ f[q] <= f[o]}})]

\* Mutant: the app's own build in flight does not hold its next one back.
Eligible_AnyApp(i) ==
    {b \in Queued \ round[i].sent :
        /\ orgs[Org(b)] = "ACTIVE"
        /\ Cardinality(OfOrg(Held(i), Org(b))) < MaxConcurrent[Org(b)]}

\* Mutant: the round does not count its own dispatches against an org's limit.
Eligible_CommittedOnly(i) ==
    {b \in Queued \ round[i].sent :
        /\ orgs[Org(b)] = "ACTIVE"
        /\ Cardinality(OfOrg(InFlight, Org(b))) < MaxConcurrent[Org(b)]
        /\ OfApp(Held(i), App(b)) = {}}

Eligible(i) ==
    {b \in Queued \ round[i].sent :
        /\ orgs[Org(b)] = "ACTIVE"
        /\ Cardinality(OfOrg(Held(i), Org(b))) < MaxConcurrent[Org(b)]
        /\ OfApp(Held(i), App(b)) = {}}

\* Within an org: priority class, then arrival.
Ahead(b, d) ==
    IF push[b].class = push[d].class THEN b < d ELSE push[b].class = "INTERACTIVE"

\* DISTINCT ON (org_id): the first eligible build of each org.
Candidates(i) ==
    {b \in Eligible(i) : \A d \in Eligible(i) : Org(d) = Org(b) => d = b \/ Ahead(b, d)}

\* Between orgs: least recently served first, never served before all others, then org_id.
InLineBefore(i, o, p) ==
    ServedAt(i, o) < ServedAt(i, p) \/ (ServedAt(i, o) = ServedAt(i, p) /\ o < p)

\* Mutant: the LIMIT is missing, a turn takes a build of every org.
FirstInLine_Unlimited(i, n) == {Candidates(i)}

\* ORDER BY last_served_at NULLS FIRST, org_id LIMIT n.
FirstInLine(i, n) ==
    {T \in SUBSET Candidates(i) :
        /\ Cardinality(T) <= n
        /\ Cardinality(T) = n \/ T = Candidates(i)
        /\ \A t \in T, c \in Candidates(i) \ T : InLineBefore(i, Org(t), Org(c))}

Turn(i) ==
    /\ IsOpen(i) /\ round[i].list = {} /\ round[i].hit /\ round[i].slots > 0
    /\ \E T \in FirstInLine(i, round[i].slots) :
         round' = [round EXCEPT ![i].list = T, ![i].hit = FALSE]
    /\ UNCHANGED <<buildVars, orgVars, locking, sweepVars>>

\* The guarded UPDATE: the build may have been cancelled or expired since the query.
CanDispatch(c) == orgs[Org(c)] = "ACTIVE" /\ status[c] = "QUEUED"

\* A candidate that is passed over costs no slot, but its org stays locked.
Passed(r, c) == [r EXCEPT !.list = @ \ {c}, !.locked = @ \cup {Org(c)}]
Served(r, c) == [Passed(r, c) EXCEPT !.sent = @ \cup {c}, !.slots = @ - 1, !.hit = TRUE]

\* The org row of the next candidate is locked, then the build is dispatched if it can be.
DispatchOne(i) ==
    /\ IsOpen(i)
    /\ \E c \in round[i].list :
         /\ \A j \in Instances \ {i} : Org(c) \notin round[j].locked
         /\ \A d \in round[i].list \ {c} : InLineBefore(i, Org(c), Org(d))
         /\ round' = [round EXCEPT ![i] = IF CanDispatch(c) THEN Served(@, c) ELSE Passed(@, c)]
    /\ UNCHANGED <<buildVars, orgVars, locking, sweepVars>>

\* The round ends when no slot is left or a turn served nobody; only now is it visible.
RoundCommit(i) ==
    /\ IsOpen(i) /\ round[i].list = {} /\ (round[i].slots <= 0 \/ ~round[i].hit)
    /\ LET sent == round[i].sent IN
         /\ status' = [b \in Builds |-> IF b \in sent THEN "DISPATCHED" ELSE status[b]]
         /\ attempt' = [b \in Builds |-> IF b \in sent THEN attempt[b] + 1 ELSE attempt[b]]
         /\ left' = [b \in Builds |-> IF b \in sent THEN StartTimeout ELSE left[b]]
         /\ events' = [b \in Builds |-> IF b \in sent
                                        THEN Append(events[b], DispatchedEvent(attempt[b] + 1))
                                        ELSE events[b]]
         /\ lastServed' = Renumbered([o \in Orgs |-> ServedAt(i, o)])
    /\ round' = [round EXCEPT ![i] = NoRound]
    /\ UNCHANGED <<push, reason, supersededBy, orgs, apps, locking, sweepVars>>

\* The instance dies, or the transaction fails: nothing of the round remains.
RoundAbort(i) ==
    /\ IsOpen(i)
    /\ round' = [round EXCEPT ![i] = NoRound]
    /\ UNCHANGED <<buildVars, orgVars, locking, sweepVars>>

-----------------------------------------------------------------------------
(* Reports of build-service: build.started, build.succeeded, build.failed. *)

ReportFrom(t) == IF t = "STARTED" THEN {"DISPATCHED"} ELSE {"DISPATCHED", "RUNNING", "EXPIRED"}

\* GUARDED_FROM's SELECT ... FOR UPDATE.  A report that matches no row changes nothing.
ReportLock(b, t) ==
    /\ status[b] \in ReportFrom(t) /\ ~RowLocked(b)
    /\ locking' = [locking EXCEPT ![b] = t]
    /\ UNCHANGED <<buildVars, orgVars, round, sweepVars>>

\* Mutant: the run lease leaves out the grace.
Moved_Graceless(b, t) ==
    /\ status' = [status EXCEPT ![b] = IF t = "STARTED" THEN "RUNNING" ELSE t]
    /\ left' = [left EXCEPT ![b] = IF t = "STARTED" THEN RunLease - Grace ELSE 0]
    /\ reason' = [reason EXCEPT ![b] = IF t = "FAILED" THEN "BUILD_FAILED" ELSE @]

Moved(b, t) ==
    /\ status' = [status EXCEPT ![b] = IF t = "STARTED" THEN "RUNNING" ELSE t]
    /\ left' = [left EXCEPT ![b] = IF t = "STARTED" THEN RunLease ELSE 0]
    /\ reason' = [reason EXCEPT ![b] = IF t = "FAILED" THEN "BUILD_FAILED" ELSE @]

ReportCommit(b, t) ==
    /\ locking[b] = t
    /\ Moved(b, t)
    /\ locking' = [locking EXCEPT ![b] = "NONE"]
    /\ UNCHANGED <<push, attempt, supersededBy, events, orgVars, round, sweepVars>>

\* The listener's transaction rolls back; the record is delivered again later.
ReportAbort(b) ==
    /\ locking[b] # "NONE"
    /\ locking' = [locking EXCEPT ![b] = "NONE"]
    /\ UNCHANGED <<buildVars, orgVars, round, sweepVars>>

-----------------------------------------------------------------------------
(* The lease sweeper, on every instance.                                   *)

SweepAsk(i, answer) ==
    /\ asked[i] = "IDLE"
    /\ asked' = [asked EXCEPT ![i] = answer]
    /\ UNCHANGED <<buildVars, orgVars, round, locking, unreachable, paused>>

DueIn(s) == {b \in Builds : status[b] = s /\ left[b] = 0 /\ ~RowLocked(b)}

\* LIMIT n FOR UPDATE SKIP LOCKED; which of the due rows go first is left open.
Batch(S, n) ==
    {T \in SUBSET S : Cardinality(T) <= n /\ (Cardinality(T) = n \/ T = S)}

\* Mutant: the last attempt is off by one.
LastAttempt_OffByOne == {b \in DueIn("DISPATCHED") : attempt[b] > MaxAttempts}

LastAttempt == {b \in DueIn("DISPATCHED") : attempt[b] >= MaxAttempts}
Redispatchable == {b \in DueIn("DISPATCHED") : attempt[b] < MaxAttempts}

\* Each expired build gets its reason and its one build.cancelled.
Expired(queue, start, lease) ==
    /\ status' = [b \in Builds |-> IF b \in queue \cup start \cup lease THEN "EXPIRED"
                                                                       ELSE status[b]]
    /\ reason' = [b \in Builds |-> CASE b \in queue -> "QUEUE_TIMEOUT"
                                     [] b \in start -> "START_TIMEOUT"
                                     [] b \in lease -> "LEASE_EXPIRED"
                                     [] OTHER -> reason[b]]

\* The backbone could not be heard: queue age still applies, the outage is recorded.
SweepDeaf(i) ==
    /\ asked[i] = "DEAF"
    /\ \E queue \in Batch(DueIn("QUEUED"), SweepBatch) :
         Ended(queue, "EXPIRED", "QUEUE_TIMEOUT")
    /\ unreachable' = TRUE
    /\ asked' = [asked EXCEPT ![i] = "IDLE"]
    /\ UNCHANGED <<push, attempt, left, supersededBy, orgVars, round, locking, paused>>

NearDeadline == {b \in InFlight : left[b] # Never /\ left[b] < Grace}

\* The first sweep that hears after an outage moves deadlines out and acts on none.
SweepRecovered(i) ==
    /\ asked[i] = "HEARD" /\ unreachable
    /\ \A b \in NearDeadline : locking[b] = "NONE"
    /\ \E queue \in Batch(DueIn("QUEUED"), SweepBatch) :
         Ended(queue, "EXPIRED", "QUEUE_TIMEOUT")
    /\ left' = [b \in Builds |-> IF b \in NearDeadline THEN Grace
                                                                          ELSE left[b]]
    /\ unreachable' = FALSE
    /\ asked' = [asked EXCEPT ![i] = "IDLE"]
    /\ UNCHANGED <<push, attempt, supersededBy, orgVars, round, locking, paused>>

SweepDue(i) ==
    /\ asked[i] = "HEARD" /\ ~unreachable
    /\ \E queue \in Batch(DueIn("QUEUED"), SweepBatch),
          start \in Batch(IF i \in paused THEN {} ELSE LastAttempt, SweepBatch),
          lease \in Batch(DueIn("RUNNING"), SweepBatch) :
       \E again \in Batch(IF i \in paused THEN {} ELSE Redispatchable,
                          SweepBatch - Cardinality(start)) :
         /\ Expired(queue, start, lease)
         /\ attempt' = [b \in Builds |-> IF b \in again THEN attempt[b] + 1 ELSE attempt[b]]
         /\ left' = [b \in Builds |-> IF b \in again THEN StartTimeout ELSE left[b]]
         /\ events' = [b \in Builds |->
                         CASE b \in queue \cup start \cup lease -> Append(events[b], CancelledEvent)
                           [] b \in again -> Append(events[b], DispatchedEvent(attempt[b] + 1))
                           [] OTHER -> events[b]]
    /\ asked' = [asked EXCEPT ![i] = "IDLE"]
    /\ UNCHANGED <<push, supersededBy, orgVars, round, locking, unreachable, paused>>

-----------------------------------------------------------------------------
(* Time and the operator                                                   *)

\* A tick is far longer than a round, which is a few indexed statements.
Tick ==
    /\ \A i \in Instances : ~IsOpen(i)
    /\ left' = [b \in Builds |-> IF left[b] > 0 THEN left[b] - 1 ELSE left[b]]
    /\ UNCHANGED <<status, push, attempt, reason, supersededBy, events, orgVars, round, locking,
                   sweepVars>>

SetPaused(i) ==
    /\ paused' = IF i \in paused THEN paused \ {i} ELSE paused \cup {i}
    /\ UNCHANGED <<buildVars, orgVars, round, locking, asked, unreachable>>

-----------------------------------------------------------------------------
Init ==
    /\ status = [b \in Builds |-> "ABSENT"]
    /\ push = [b \in Builds |-> NoPush]
    /\ attempt = [b \in Builds |-> 0]
    /\ left = [b \in Builds |-> 0]
    /\ reason = [b \in Builds |-> "NONE"]
    /\ supersededBy = [b \in Builds |-> {}]
    /\ events = [b \in Builds |-> <<>>]
    /\ orgs = [o \in Orgs |-> "ABSENT"]
    /\ lastServed = [o \in Orgs |-> 0]
    /\ apps = [a \in Apps |-> "ABSENT"]
    /\ round = [i \in Instances |-> NoRound]
    /\ locking = [b \in Builds |-> "NONE"]
    /\ asked = [i \in Instances |-> "IDLE"]
    /\ unreachable = FALSE
    /\ paused = {}

Intake ==
    \E p \in Pushes :
        DropPush(p) \/ \E b \in Builds : Supersede(b, p) \/ Enqueue(b, p) \/ Reject(b, p)

Teardown ==
    \/ \E b \in Builds : CancelByUser(b)
    \/ \E a \in Announced : OnAppCreated(a)
    \/ \E a \in Apps \cap Deletable : OnAppDeleted(a)
    \/ \E o \in Orgs \cap Deletable : OnOrgDeleted(o)

Round(i) ==
    RoundOpen(i) \/ Turn(i) \/ DispatchOne(i) \/ RoundCommit(i) \/ RoundAbort(i)

Report ==
    \E b \in Builds :
        ReportAbort(b) \/ \E t \in ReportTypes : ReportLock(b, t) \/ ReportCommit(b, t)

Sweep(i) ==
    \/ \E answer \in {"HEARD", "DEAF"} : SweepAsk(i, answer)
    \/ SweepDeaf(i) \/ SweepRecovered(i) \/ SweepDue(i)

\* Everything that may commit between two statements of a round.
Elsewhere ==
    \/ Intake
    \/ Teardown
    \/ Report
    \/ \E i \in Sweeping : Sweep(i)
    \/ \E i \in Pausable : SetPaused(i)
    \/ Tick

Next == Elsewhere \/ \E i \in Dispatching : Round(i)

Spec == Init /\ [][Next]_vars

(* What the schedules guarantee: rounds and sweeps run on a timer, whatever *)
(* they find.  Strong fairness on the statements of a round says that an    *)
(* instance does not crash in the middle of every one of them, and on the   *)
(* commit of a report that its listener does not roll back for ever.        *)
(* Nothing obliges anyone to push, to cancel or to report.                  *)
Fairness ==
    /\ SF_vars(Tick)
    /\ WF_vars(\E i \in Dispatching : RoundOpen(i))
    /\ SF_vars(\E i \in Dispatching : Turn(i))
    /\ SF_vars(\E i \in Dispatching : DispatchOne(i))
    /\ SF_vars(\E i \in Dispatching : RoundCommit(i))
    /\ SF_vars(\E b \in Builds, t \in ReportTypes : ReportCommit(b, t))
    /\ \A i \in Sweeping :
         /\ WF_vars(SweepAsk(i, "HEARD") \/ SweepAsk(i, "DEAF"))
         /\ WF_vars(SweepDeaf(i) \/ SweepRecovered(i) \/ SweepDue(i))

FairSpec == Spec /\ Fairness

-----------------------------------------------------------------------------
(* Properties *)

RoundType ==
    [open : BOOLEAN, slots : Nat, hit : BOOLEAN,
     list : SUBSET Builds, sent : SUBSET Builds, locked : SUBSET Orgs]

RowsTyped ==
    /\ status \in [Builds -> Statuses]
    /\ push \in [Builds -> PushContent \cup {NoPush}]
    /\ \A b \in Builds : status[b] # "ABSENT" => push[b] \in PushContent
    /\ attempt \in [Builds -> Nat]
    /\ left \in [Builds -> Nat \cup {Never}]
    /\ reason \in [Builds -> Reasons]
    /\ supersededBy \in [Builds -> SUBSET Builds]
    /\ events \in [Builds -> Seq(Event)]
    /\ orgs \in [Orgs -> {"ABSENT", "ACTIVE", "DELETED"}]
    /\ lastServed \in [Orgs -> Nat]
    /\ apps \in [Apps -> {"ABSENT", "ACTIVE", "DELETED"}]

LocksTyped ==
    /\ locking \in [Builds -> ReportTypes \cup {"NONE"}]
    /\ asked \in [Instances -> {"IDLE", "HEARD", "DEAF"}]
    /\ unreachable \in BOOLEAN
    /\ paused \in SUBSET Instances

\* Every row and every transaction is well formed: a build that exists knows its push, and a
\* round never hands out more slots than it found.
TypeOK ==
    /\ RowsTyped
    /\ LocksTyped
    /\ round \in [Instances -> RoundType]

\* Neither the committed rows nor what an uncommitted round has written ever hold two
\* in-flight builds of one app: ux_builds_app_in_flight never rolls a round back.
AppExclusive ==
    \A i \in Instances : \A b, d \in Held(i) : App(b) = App(d) => b = d

\* No org holds more slots than its profile's maxConcurrent, although the round that
\* checks the limit works from a list of candidates read earlier.
OrgWithinLimit ==
    \A i \in Instances, o \in Orgs : Cardinality(OfOrg(Held(i), o)) <= MaxConcurrent[o]

\* The platform never has more than global-concurrency builds in flight, although the
\* free slots are counted once per round and slots are released while the round runs.
FleetWithinCapacity ==
    \A i \in Instances : Cardinality(Held(i)) <= GlobalConcurrency

\* At most one build waits per app and branch (ux_builds_app_branch_queued).
OneWaiting ==
    \A b, d \in Queued : App(b) = App(d) /\ Branch(b) = Branch(d) => b = d

\* A superseded build was replaced by a newer build of its own app and branch that was
\* really admitted: the cap never turns away the replacement of a build it displaced.
ReplacedByAdmitted ==
    \A b \in Builds : status[b] = "SUPERSEDED" =>
        \E d \in supersededBy[b] :
            /\ d > b /\ App(d) = App(b) /\ Branch(d) = Branch(b)
            /\ status[d] \notin {"ABSENT", "REJECTED"}

\* A tombstone and the cancellations it causes commit together, and no push slips a
\* build in behind them: nothing waits for a deleted app or org.
NoWorkForTheDeleted ==
    \A b \in Queued : apps[App(b)] # "DELETED" /\ orgs[Org(b)] # "DELETED"

DispatchedEvents(n) == [k \in 1..n |-> DispatchedEvent(k)]

\* The outbox tells every consumer the life of the row: queued once, one dispatched per
\* attempt in order, and one build.cancelled exactly when the queue gave the build up
\* (also when a late result moved it on afterwards).  No event id is ever used twice.
OutboxTellsTheRow ==
    \A b \in Builds :
        LET life == <<QueuedEvent>> \o DispatchedEvents(attempt[b])
            given == Append(life, CancelledEvent)
        IN  CASE status[b] = "ABSENT" -> events[b] = <<>>
              [] status[b] = "REJECTED" -> events[b] = <<CancelledEvent>>
              [] status[b] \in {"QUEUED", "DISPATCHED", "RUNNING"} -> events[b] = life
              [] status[b] \in {"EXPIRED", "SUPERSEDED", "CANCELLED"} -> events[b] = given
              [] OTHER -> events[b] \in {life, given}

\* No transaction, however it interleaves with the others, moves a build to a lower rank
\* or out of a terminal status (BuildStatus: "Status only moves to a higher rank").
RankNeverFalls ==
    [][\A b \in Builds : status'[b] # status[b] => Rank[status'[b]] > Rank[status[b]]]_vars

\* Once a newer build of an app's branch has gone to build-service, an older one never
\* follows it: commits of a branch are dispatched in the order they were pushed.
NeverBuildsOlder ==
    [][\A b \in Builds : attempt[b] = 0 /\ attempt'[b] > 0 =>
          \A d \in Builds : d > b /\ attempt[d] > 0 =>
              App(d) # App(b) \/ Branch(d) # Branch(b)]_vars

\* The outages of the backbone end: from some time on every sweep hears it.
OutagesEnd == <>[](\A i \in Sweeping : asked[i] # "DEAF")

\* Somebody lets every instance dispatch again.
PausingEnds == <>[](Dispatching \cap paused = {})

\* A slot always comes back: whatever build-service does or fails to report, the deadlines
\* and the sweeper take the build out of flight once the backbone can be heard for good and
\* nobody pauses any more (a paused sweeper leaves dispatched builds alone).
SlotsComeBack ==
    OutagesEnd /\ PausingEnds => \A b \in Builds : b \in InFlight ~> b \notin InFlight

\* Without any queue age, a waiting build still leaves the queue: returned slots, rounds
\* and the line get to it once pausing has ended.
EveryWaiterIsServed ==
    OutagesEnd /\ PausingEnds => \A b \in Builds : b \in Queued ~> b \notin Queued

\* The in-flight builds are a pool of slots that are granted within the limits and never
\* taken back once given up.
Pool == INSTANCE SlotPool WITH
    Jobs <- Builds, Keys <- Apps, Tenants <- Orgs, TenantOf <- AppOrg,
    TenantLimit <- MaxConcurrent, Capacity <- GlobalConcurrency,
    held <- {[job |-> b, key |-> App(b)] : b \in InFlight},
    spent <- {b \in Builds : attempt[b] > 0 /\ b \notin InFlight}

SlotPoolSpec == Pool!Spec
=============================================================================
