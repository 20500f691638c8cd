# Pallet.io: specifications, checks and proofs

TLA+ models of the parts of Pallet.io where order, concurrency and failure decide whether the
platform is right: the build scheduler, the transactional outbox that connects the services, the
path of a push from GitHub to the queue, the members of an org and what other services know of
them, the sessions of the web app, and the screens of the web
app that show a change before the server has answered or that repeat what may have happened
already.  TLC checks them on small instances; TLAPS proves, for instances of any size, most of
what the safety properties say.  `PROJECT.json` lists components, runs, mutants, hazards,
findings and theorems, and gives for every definition the lines it models.

Contents: [the system](#the-system) · [modules](#modules) · [runs](#runs-what-each-shows-and-its-bounds)
· [fairness](#fairness) · [proofs](#proofs) · [differences](#differences-between-code-and-docs)
· [what is not modelled](#what-is-not-modelled) · [plan](#plan)

## The system

Seven Spring Boot services, each with a PostgreSQL schema of its own, connected by Kafka, and a
web app (Next.js).  A service writes events into its outbox table in the transaction that changes
its state; a relay publishes them, keyed by org, and the consumer claims each event id in its
inbox in the transaction that applies it.  Every service runs in several replicas; what must
happen once at a time is guarded by row locks, advisory locks and unique indexes.  The web app
keeps a browser's tokens in Redis behind an opaque cookie and calls the services through the
gateway.  `build-service`, which runs the builds, is not in the repository: the queue is written
against its contract.

| Component | State | Operations | What is hard | What makes it correct |
|---|---|---|---|---|
| build-queue-service, scheduler | `builds`, `orgs`, `apps`, `lease_sweeper_state` | intake of a push, coalescing, cap, cancellation, teardown, dispatcher rounds, reports, lease sweeps | rounds work from lists read earlier, sweeps from an answer read earlier; reports race with deadlines; crashes in mid-round | one build in flight per app, org and platform limits, one waiting build per branch, statuses only rise, slots come back, orgs take turns |
| build-queue-service, wakeup | a LISTEN connection | notify, poll | lost notifications | a round runs within the poll interval |
| platform-common-outbox | `outbox_events`, `processed_events`, an advisory lock | append, relay tick, failure and parking, inbox claim | commit order differs from id order, two relays, crash between publish and mark, poisoned rows | per org: no gap, no reversal; effects applied once and in order; orgs do not block each other |
| platform-common-messaging | offsets, dead letter topics | deliver, retry, dead-letter | redelivery before the offset is committed | see the inbox |
| git-integration-service, pushes | `webhook_deliveries`, `branch_heads` | store, claim, decide, ask GitHub, lease, record failure | deliveries late, twice, out of order; GitHub is asked without locks | never backwards, no change passed over |
| git-integration-service, reconciler and links | `repo_links`, `branch_heads.etag` | reconcile, link, disconnect, change branch | answers older than the row they are applied to; lost webhooks | converges to GitHub's head; stops at disconnect |
| git-integration-service, manual builds | `manual_build_requests`; a dialog's key | submit, retry, replay, record | a retry while the first request is still under way; GitHub asked between check and record | one build per intent, the hour's limit is exact |
| git-integration-service, round trips to GitHub | `authorization_states`, GitHub sessions; a tab's return intent | set out, authorise, install, configure, cancel, link | the browser comes back from any page of its history, with a state and an intent that may be of different trips | an installation is linked to the org it was started for |
| git-integration-service, the rest | installations, check runs, access | lifecycle events, teardown, reverification, check reports | cascading deletions, GitHub's rate limit | no access outlives its grant |
| web: sessions | sessions and refresh leases in Redis, the cookie | resolve, refresh, proxy, step-up, sign-in, sign-out | handlers of one browser refresh, replace and end one session at once; leases run out; rotation makes a second refresh fatal | refresh is single-flight, parallel loads sign nobody out, an ended session never comes back |
| web: lists and bell | the query cache, what a mutation keeps to roll back | remove, change role, mark, mark all, poll, read again | overlapping optimistic changes, refusals, reads that fall between | what is shown is true once calls and reads are over |
| web: settings forms | a form, the cached row and its version | edit, save, follow what is read, refuse | others save meanwhile | only edits are sent; nothing unseen is overwritten |
| org-team-service | `organizations`, `memberships`, `invites`, `membership_backfill_cursor`; teams, apps | CRUD, ownership transfer, invites, membership versions, backfill, purge | ownership transfer against removal and profile updates, accept against revoke, backfill against changes | exactly one owner; consumers end with the latest membership |
| identity-service | Keycloak users, bootstrap records | signup saga, invites, verification, reset | compensation, an event sent after commit | no half signed-up org |
| notification-service | deliveries, idempotency marks | fan-out, send, retry | the row that tells duplicates is committed before the fan-out | every requested notification is sent or visibly failed |
| api-gateway | a Redis token bucket | admit | arithmetic at the boundaries, Redis down | rate bounded |
| platform-common: other libraries, config-server, infrastructure, the rest of the web app | none or configuration | | | |

How they interact: git-integration-service publishes `git.push.received`; build-queue-service
takes it in, publishes `build.queued`, `build.dispatched` and `build.cancelled`, and consumes
`build.started`, `build.succeeded`, `build.failed` of build-service; org-team-service publishes
`app.*`, `org.*` and membership states, which both project; git-integration-service consumes the
build events for GitHub's check runs.  The browser calls the web server's handlers, each of which
resolves the session (refreshing it if it must, at identity-service) before it calls the gateway.

## Modules

| Module | Models | State and actions against the code |
|---|---|---|
| `BuildQueue` | the scheduler: every transaction that writes `builds`, `orgs`, `apps` | below |
| `SlotPool` | what the scheduler promises about capacity, without queue, rounds or database | refinement: `held` are the builds in flight, `spent` the builds that have been in flight |
| `FairShare` | `BuildQueue` with counters of turns, which no action reads | an org is offered its turn when `DispatchOne` locks its row, also if the build it was listed for has gone |
| `BuildContract` | `BuildQueue` composed with a build-service that keeps its contract, reports in transit and outages | the composition synchronises on `attempt` (a dispatched event) and on reports |
| `Outbox` | writers, relays, broker, one consumer per org | below |
| `EventFeed` | what the outbox promises: one line per org that grows at its end, told in order | refinement: `line` are the rows nothing can precede any more, `told` the first occurrences in the partition |
| `BranchHeads` | deliveries, workers, chain rule, head reconciler and links of one branch | below |
| `Membership` | the members of one team org, the topic of their states, another service's read model of it | below |
| `WebSession` | handlers, Redis, identity and the cookie of one browser | below |
| `SessionLife` | what a browser session promises: opened once, given younger pairs of its user that no session held, ended for good | refinement: the sessions in Redis |
| `QueryCache` | the query client as the hooks use it: what is cached, flagged stale, and being read | external library; every screen's reads are built from it |
| `OptimisticRemovals` | removing a team member, revoking an invite or a session, changing a role | `Start` is `onMutate`, `Succeed`/`Fail` are `onSuccess`/`onError` with `onSettled` |
| `NotificationBell` | marking one or all as read, the list and the unread count that is polled | one action per callback of the hooks, one per read |
| `SettingsForms` | `AppSettingsPanel` and `BuildSettingsPanel` | `Edit`, `Save`, the server's `Land`, `Refuse` and `Reread`, `Answer` (cache and `form.reset`), and `Follow` (the form's `values`) when the cached row changes |
| `ManualBuilds` | `ManualBuildButton` and `ManualBuildService` | the dialog's keys; the service before and after it asks GitHub |
| `GitHubHandoff` | return intents, signed states, callbacks and links of one person | `finish-github-redirect.ts` and the two services it calls |
| `WebApp` | the composition of the five screens; a behaviour has one of them open | assumes what the theorems assume of constants, which TLC evaluates |
| `*Proofs` | theorems about the module they are named after | [proofs](#proofs) |
| `MC_*` | instances for TLC | |

**BuildQueue.**  One action is one transaction (`Supersede`, `Enqueue`, `Reject`, `DropPush` are
`BuildIntake.accept` by outcome; `CancelByUser`, `OnAppDeleted`, `OnOrgDeleted`, `OnAppCreated`
the listeners and the cancellation service; `SweepDeaf`, `SweepRecovered`, `SweepDue` are
`LeaseSweeper.lockedSweep` by outcome), with three exceptions that are split because others
commit in between.  A round is `RoundOpen`, `Turn` (the candidate query), `DispatchOne` (lock an
org row, guarded update) and `RoundCommit`; what it has written is in `round[i].sent` and becomes
visible only at the commit, `RoundAbort` is a crash or rollback.  A report is `ReportLock` and
`ReportCommit`, because the sweeper's `SKIP LOCKED` sees the lock.  A sweep asks for the backbone
(`SweepAsk`) before its transaction.  Deadlines are the ticks left until they pass; a build has
one at a time.  `last_served_at` keeps only its order, renumbered at each commit; orgs served in
one round tie, as `now()` is the transaction's start.  Rows are never deleted (retention is not
modelled), so a build id is used once, in the order of arrival of its org's partition.

**Outbox.**  `xid` is `tx_id`, assigned at the first write and so before the org lock; `commits`
is the real order of commits; `Settled` is the `pg_snapshot_xmin` guard; `HeldBack` the
`NOT EXISTS` of the batch query.  `Send`, `MarkPublished`, `FailRow`, `BrokerFails` and `Skip` are
the branches of the relay's loop, `RelayDies` and `LoseLock` its crashes.  The consumer is
`Handle` (inbox claim and effects in one transaction), `Ack`, `Redeliver`, `HandleFails` and
`DeadLetter`.  Payload, trace, sensitivity and backoff durations are left out; a relay that backs
off is one that opens its next batch later.

**BranchHeads.**  A delivery goes UNSENT → SENT (GitHub knows it) → RECEIVED → PROCESSED, IGNORED
or PARKED.  A worker is in a phase: OPEN (the delivery's row locked and the links read), then
`Apply` in one transaction, or `Ask`, `Lease`, `GitHubAnswers`, `Reopen`.  `ChainRule` is
`ChainRule.decide`; `Compared` gives every answer GitHub may give, also for a commit no branch
holds any more.  `RunRead`, `RunTake`, `RunStep`, `RunAsk`, `RunAnswered`, `RunEnds` are one pass of
the reconciler over the branch.  Its transaction for an app is two steps, since others may commit between them:
it reads the app's link without a lock (`RunTake`), then locks the head and decides (`RunStep`), without
looking at the link's branch again, or has GitHub to ask (`RunAsk`).  GitHub's answer is shared by the apps of
the run, and the link is read again with it (`RunAnswered`).  History is a constant: `History[c]` is the set of commits `c` holds.  `published` counts
from the last time the app's chain started, as a new link starts a new chain.

**Membership.**  A transaction is begun (`ChangeRole`, `Remove`, `TransferOwnership`, `Delete`,
`Purge`, `ReadProfile`, `Sweep`, `OpenBatch`: id, locks, what was read) and committed
(`CommitChange`, `CommitDelete`, ..., `CommitBatch`), so that others fall between; `Rollback` is a crash,
a deadlock, or a version that has moved (`AsRead` is `@Version`).  Whoever holds the org's row lock
is `tx["org"]`.  `Shared` are the rows a backfill batch holds `FOR SHARE`.  Commits hand their records
to `outbox` under their transaction id; `Relay` publishes in that order, as `EventFeed` promises.  The
read model is build-queue-service's `MembershipStateListener` and `OrgDeletedListener`; git-integration-service
has the same.  `Consume` is `applyState` or a tombstone's delete, `Rebuild` the runbook's
TRUNCATE and reset of offsets, `Compact` what Kafka may do to records a reader has passed.
VIEWER, which no rule tells from DEVELOPER, is left out.  A member that has been removed
for a year is in no open transaction (`LongRemoved`); an accepted invite is one step, since nobody
else can write a row that is not there.  What the reads of a batch find is taken at one moment: rows
that are locked one after the other can't change meanwhile.

**WebSession.**  A handler (`Requests`) runs one of `bff`, `summary`, `logout`, `stepup`, `login`
and is at one `step`: each step is one call to Redis, identity or the gateway, so that anything
of another handler may fall between two.  `Lock`, `Reread`, `Refresh`, `Release` are
`refreshOnce`; `Poll` is `awaitConcurrentRefresh`; `ReplaceIfCurrent` the Lua script's
compare-and-set, used by `Swap` (a refresh) and `Place` (a step-up); `SignIn`,
`ReplaceSession` and `Create` are a sign-in.  Token pairs are numbers in the order identity
issues them; a pair belongs to a Keycloak session (`family`) and ages from fresh to unusable;
`Rotates` says whether identity takes a refresh token only once.  Calls that fail or whose
answers are lost, and handlers that die (`Die`), are `Fault`s; `LeaseRunsOut` puts a handler that
is late into `overrun`.  What a proxied call reads or writes behind the gateway is left out.

**The web screens.**  Rows, notifications, fields and values are model values.  A call has a
phase: `sent`, carried out (`made`) or found to be without effect (`missing`), and then its
callback runs; a call that is given up may be carried out later (`late`).  A read is asked for,
answered at one moment by the server, and arrives at another, unless it is cancelled.  Names of
variables that occur in several screens are made different so that `WebApp` can hold them all.

## Runs: what each shows, and its bounds

State counts are distinct states; each run ends within four minutes on two workers.
Deadlock checking is off everywhere: the models stop when the finite supply of pushes,
transactions, deliveries, handlers or calls is used up, where the program waits for the next one.

| Run | Instance | Checks |
|---|---|---|
| `rounds` (802 k) | 2 instances, 2 orgs with 2 apps each, webhook pushes and manual builds, 3 builds, cap 2, an app that may be deleted; platform limit 2, org limits 2 and 1, batch 2, symmetric instances | `TypeOK`, `AppExclusive`, `OrgWithinLimit`, `FleetWithinCapacity`, `OneTurnEach`, `OneWaiting`, `ReplacedByAdmitted`, `NoWorkForTheDeleted`, `NeverBuildsOlder`, `SlotPoolSpec` |
| `leases` (114 k) | 1 app, 2 branches, 2 builds, cap 1, an org that may be deleted, 1 instance that dispatches, sweeps and may be paused; start deadline, lease and grace 1 tick, 1 attempt; fair schedules | `RankNeverFalls`, `SlotsComeBack`, `EveryWaiterIsServed` |
| `contract` (2.0 M) | 1 app, 2 builds, 2 attempts, queue age 2, max-duration 1, transit 1, grace 5, one outage | `LeaseMeansSilence`, `OutboxTellsTheRow`, `OverlapNeedsStartTimeout`, `NothingImpossible` |
| `feed` (55 k) | 3 transactions of one org, two without the org lock, 2 relays, batch 2, one faulty row, 1 fault | `FeedSpec` |
| `consumer` (204 k) | 2 transactions of one org, a faulty one of another, 2 tries, 1 fault, fair schedules | `AppliedOnceInOrder`, `SoundOrgsAreServed` |
| `deliveries` (1.85 M) | linear history of 3 commits, 3 deliveries, 2 workers, 2 link changes, 1 attempt, 1 lookup round | `NeverBackwards`, `NoChangePassedOver`, `StopsAtDisconnect` |
| `converge` (159 k) | 4 commits, one rewrite, 2 apps, 2 deliveries, 1 worker, fair reconciler | `Converges` |
| `members` (748 k) | 2 people, the founder and another member of before the topic, batches of 1, 4 transactions with an id, profile updates up to version 1 | `OneOwner`, `ReadModelRight` |
| `session` (308 k) | 2 handlers, 2 session ids, 4 pairs, 2 users, 1 poll, 2 swaps, 1 trouble, 2 agings, rotation on, handlers keep running | `SingleFlight`, `ParallelLoadsSignNobodyOut`, `OneSessionLeft`, `LifeSpec`, `EveryRequestIsAnswered` |
| `screens` (581 k) | one of: 2 rows, 2 calls, 2 troubles · 2 notifications, 2 marks, 1 trouble · 2 fields of 3 values, 2 edits, 1 save by others, 1 slip · 2 people, 3 attempts, 2 branches, 1 build an hour, 1 mishap · 1 tab, 2 orgs, 2 installations, 3 states, 1 setback | `RowsTrueAtRest`, `EachMarkItsOwn`, `BellComesRight`, `NothingOverwrittenUnseen`, `SavesGoThrough`, `OneBuildPerIntent`, `LimitExact`, `GrantsStayWithTheirOrg`, `LinksWhatItSetOutFor` |
| `overtaken` | as `members`, 2 transactions | violates `RelayedAfterTheBackfill` |
| `sharedanswer` | linear history, 2 apps | violates `NoChangePassedOver` |

Why these bounds are enough to meet the hard cases:

- `rounds`: two apps of one org in a round that may serve only one, an org that arrives between
  two turns, a result that frees a slot while the slots of the round are already counted, a
  second instance that opens at any moment.  Three builds are the least at which one org can be
  served twice while another waits, and a waiting build is displaced while the queue is at its cap.
- `leases`: a build passes through every status in every order the code allows, rejection at the cap
  included.  The org's deletion may fall anywhere.  A sweep acts on an answer of any earlier moment.
  Deadlines of more ticks only add ticks in which nothing is due.
- `contract`: with two attempts there is a redispatch and a last attempt.  The lease is the duration plus a grace.  A result may be in transit for
  1 tick when it is sent, wait out the outage, and take 1 more; the grace leaves room for that and for
  a sweep that asked before the outage.  The mutant that omits the grace fails.  The queue age lets
  a waiting build expire, so that every kind of ending is announced in this run.  Outages are seen by
  a sweep because a sweep runs in every tick; shorter ones are a hazard without a property.
- `feed`: two relays and one fault are what it takes for a lost lock to put both to work on
  overlapping batches; transactions that skip the org row commit in any order.
- `deliveries`: three deliveries allow a late one to be overtaken by a newer one and a duplicate
  of either.  History is linear and the repository has one linked app: with force pushes
  `NeverBackwards`, and with two apps `NoChangePassedOver`, do not hold (below).
- `converge`: the rewrite replaces commit 2 by a sibling, 3.  Pushing back to an ancestor is
  excluded: there the property does not hold (below).
- `members`: four transactions remove a member, sweep the row, take the same person in again and
  leave one for a batch, a profile update, a deletion or a purge that runs beside any of them.  A transfer and the
  stale write that would undo it take two.  The org may also be one deleted before the topic existed.
- `session`: one handler steps up, signs out or signs in while the other proxies or steps up.
  Resolving a session is the same code for all of them, so a step-up beside a proxied call also
  stands for two proxied calls.  Four pairs are the first, a refresh, and one for each step-up.
  Two agings take a pair to the refresh window and past its access token, or two pairs to
  one each.  One trouble is enough to break each run of calls at each of its steps.  A handler runs once, so
  no lease of a third is there to be released by the first of two that overlap; `SingleFlight` and
  `LifeSpec` are proved for any number of handlers.
- `screens`: two overlapping calls are what a rollback can get wrong, the second trouble lets both
  fail or one fail around a read.  Three values tell what the form showed, what another person saved and what
  was typed apart.  Three attempts are a request, its retry and another person's.  Three states and
  two installations let a tab come back from an earlier round trip with a later intent.  The
  screens share nothing but what they read anew when they open, so one per behaviour is enough.

Every property of a passing run has a mutant: a definition of the model changed the way a bug in
the code would (the advisory lock not taken, a round that does not count its own dispatches, a
lease handed to everyone, a rollback that forgets the bell, an intent that stays in its tab, ...).  They
stand in the modules next to the definitions they change, marked `Mutant`, and no specification
uses them.

## Fairness

- Rounds and sweeps are started by schedulers with a fixed delay on every instance, whatever the
  previous one did: weak fairness on opening a round, on asking and on sweeping.
- The statements of a round may always be cut off by a crash.  Strong fairness on them says that
  crashes do not hit every round at the same statement for ever; likewise for a report's
  commit.
- Time passes (`Tick`); a round keeps it from passing, being a few indexed statements against
  ticks of minutes.
- Nothing is assumed about build-service: no report need ever come.  `SlotsComeBack` and
  `EveryWaiterIsServed` assume that outages of the backbone end (`OutagesEnd`), since the sweeper
  gives up on no running build while it cannot hear, and that a paused instance is resumed
  (`PausingEnds`).
- Outbox: open transactions end (statement and transaction timeouts), relay ticks come,
  `next_attempt_at` passes; a broker that can take a record again and again takes it (strong,
  since any tick may fail).  Nothing forces the faulty row through.
- BranchHeads: the reconciler's timer and a run's end are weakly fair, its steps on an app
  strongly: not every run fails at GitHub.  No webhook need ever arrive and no worker need work.
- WebSession: a handler that has arrived keeps running; each of its calls is answered or fails.
  Nothing is assumed of leases, ageing or other handlers.
- WebApp: the bell is polled at its interval whatever happens, calls are answered or given up,
  reads arrive.  `SavesGoThrough` also assumes that someone keeps pressing Save while there is
  something to save.

## Proofs

Eight modules hold proofs, each for every value of the constants that satisfies its assumptions.
`ASSUME`s stand in the modules that declare the constants; where a screen's constants are only
known in the composition, the theorems take them as a hypothesis (`ListConstants`,
`BellConstants`, `FormConstants`, `BuildConstants`, `HandoffConstants`), which `WebApp` assumes and TLC evaluates.

| Module | Theorem | Says |
|---|---|---|
| `BuildQueueProofs` | `Inductive`, `TypeCorrect` | the invariant, and `TypeOK` |
| | `OneBuildPerApp`, `OrgLimitHolds`, `FleetLimitHolds` | `AppExclusive`, `OrgWithinLimit`, `FleetWithinCapacity` |
| | `RanksOnlyRise`, `OutboxIsTrue` | `RankNeverFalls`, `OutboxTellsTheRow` |
| | `OneWaitsPerBranch`, `ReplacementsAreAdmitted`, `DeletedHaveNoWork`, `BranchesGoForward` | `OneWaiting`, `ReplacedByAdmitted`, `NoWorkForTheDeleted`, `NeverBuildsOlder` |
| | `SlotsAreAPool` | `SlotPoolSpec`: the scheduler refines `SlotPool` |
| | `OrgsTakeTurns` | `OneTurnEach`, of `FairShare` |
| `BuildContractProofs` | `ReportsAreExplained` | `NothingImpossible` |
| | `LeasesEndInSilence`, `OverlapsAreLateStarts` | `LeaseMeansSilence`, `OverlapNeedsStartTimeout`, if `GraceCovers` |
| `OutboxProofs` | `OutboxInvariant` | the invariant, types included |
| | `OutboxIsAFeed` | `FeedSpec`: the outbox refines `EventFeed` |
| | `OutboxAppliesOnceInOrder` | `AppliedOnceInOrder` |
| `BranchHeadsProofs` | `BranchTyped` | `TypeOK` |
| | `PushesStop` | `StopsAtDisconnect` |
| | `NothingPassedOver` | `NoChangePassedOver`, if all apps on the branch have the same root directory |
| | `GrowingBranchNeverBackwards` | `NeverBackwards`, if `Rewrites = {}` |
| `WebSessionProofs` | `TypesHold`, `RefreshIsSingleFlight` | `TypeOK`, `SingleFlight` |
| | `StepUpsLeaveOneSession`, `ParallelLoadsAreSafe` | `OneSessionLeft`, `ParallelLoadsSignNobodyOut` |
| | `SessionsKeepTheirPromise` | `LifeSpec`: the sessions refine `SessionLife` |
| `MembershipProofs` | `MembersTyped`, `OneOwnerHolds` | `TypeOK`, `OneOwner` |
| | `ReadersComeRight` | `ReadModelRight` |
| `OptimisticRemovalsProofs` | `ListTyped`, `ListsComeRight`, `NumbersComeRight` | `RowsTrueAtRest`, `NumberFollowsRemovals` |
| `WebAppProofs` | `FormsTyped`, `EditsOnly`, `NothingUnseen` | `OnlyEditsAreSent`, `NothingOverwrittenUnseen`, of `SettingsForms` |
| | `BellTyped`, `MarksStayTheirOwn` | `EachMarkItsOwn`, of `NotificationBell` |
| | `OneRequestPerKey`, `OneBuild`, `LimitHolds` | `OneBuildPerIntent`, `LimitExact`, of `ManualBuilds` |
| | `GrantsStay`, `LinksWhatWasSetOut` | `GrantsStayWithTheirOrg`, `LinksWhatItSetOutFor`, of `GitHubHandoff` |
| | `App...` | the same for the composition that `screens` checks |

**The scheduler.**  The limits are not inductive.  A round checks them in one query and acts on
the answer over many steps, so the invariant has to say what stays true of that answer while
everyone else commits:

- `OneRound`, `ClosedIsIdle`: the advisory lock; a round that is not open holds nothing.
- `SentWaits`: what a round has dispatched is still QUEUED for everyone else, and its org's row is
  locked by the round, so no intake, cancellation or teardown touches it.
- `ListApart`: the candidates of a turn are of different orgs, and their apps hold no slot.
- `ListFits`, `SlotsFit`: each candidate's org has room for one more, and the round has a slot
  for every candidate, within the platform's limit.
- `LockSound`: a report found its row in a status that it may move, and nobody has moved it since.
- `Typed`, `Known`: types, and that what a transaction works on exists.

Steps outside rounds only shrink what is in flight and leave alone what a round has
locked or dispatched (`Harmless`; `ElsewhereHarmless` goes through every action), and a harmless
step keeps the invariant (`HarmlessKeeps`).  The steps of a round are taken one by one
(`OpenKeeps`, `TurnKeeps`, `DispatchKeeps`, `CommitKeeps`, `AbortKeeps`); `DispatchKeeps` is where the
cardinalities are added up.

Everything that happens to a single row is said once: `RowStep` shows that a step leaves a row
alone or admits it, sends it out, gives it up or takes a report about it, each with its event.
Only two steps need the invariant for that, a report's commit (`LockSound`) and a round's (`SentWaits`).
Ranks and the outbox follow (`HistoryInv`: a life is one queued event and one dispatched
event per attempt).  The intake properties need that ids are taken in order (`InOrder`) and that
nothing newer was admitted for a branch whose build still waits (`NewestWaits`, which is stronger
than `OneWaiting`); nearly every step is `Quiet` for them, intake is `IntakeKeeps`.  With both,
what goes out for the first time is the newest of its branch (`BranchesGoForward`).  For the pool, a
round's commit is a grant (`CommitMaps`) and every other step gives slots up or changes none (`ReturnsMap`).

Turns: whoever has let another org pass stands before it in the line (`PassedComesFirst`; numbering the
line anew keeps its order, `RenumberedLine`), is a candidate of every turn in which it waits
(`WaitingIsListed`), and so is on every list that the other is on (`PassedIsListed`).  Whoever is
dispatched is the first of its list, so it has passed nobody on it.  The theorem covers what the
`rounds` instance is too small for: queue age, sweeps, any number of orgs and of slots.

**The contract.**  A step of the composition is a step of the scheduler or none of it (`ContractStep`), so
everything proved of the scheduler holds here.  `ServiceInv` relates the two sides: what is reported has
happened, and what is run has been given out and can no longer be superseded, cancelled or rejected.
`LeaseInv` adds time.  The lease of a running build lasts for the rest of the run and the whole grace;
once it has ended, a result is on its way, and the lease lasts for the `Margin` that result may still
need: its transit, what is left of the outages (`Spare`), and in an outage one tick for every sweep that
still holds an answer from before (`HeardAnswers`, `Used`), since each tick needs a sweep and a sweep
that cannot hear suspends the leases.  The beginning of an outage pays its
cost out of the spare (`BackboneCovers`), a sweep uses up its answer (`SweepCovers`), a tick shortens lease
and margin together (`TickCovers`).  The hypothesis `GraceCovers`, `Grace > TransitTime + MaxOutages *
OutageCost`, is what the grace has to be longer than; the code only checks that it is positive
(`BuildQueuePropertiesValidator.java:71`).  TLC shows it is tight: with one outage and a grace of one tick
less `LeaseMeansSilence` fails, with one sweeping instance and with two.  `MC_BuildContract` assumes it of the instance.

**Outbox.**  A row is settled once no open transaction has an id at or below its own.  `Growth` is
what the snapshot's `xmin` buys: nothing new ever comes before a settled row, because ids are
taken once and in order (`IdsTaken`).  On that rest

- `LogInOrder`: a partition holds settled rows, each behind every row of its org ahead of it;
- `BatchInOrder`: what a relay still has to send can be sent in its order: whatever is ahead of a
  row is in the partition or earlier in the batch, unless the relay passes over the row's org.
  This holds of a stale batch too, which is why a lost lock only makes copies;
- `PublishedLogged`: a row marked as published is in its partition, so a batch may leave it out.

A record is written either again or when everything ahead of its row is there (`Extends`), so the
first copies make a prefix of the line (`NextOfLine`: as many values as rows ahead).  The line is a list
by rank; that such lists exist, and grow only at the end if the set does, is proved for any
finite total order (`ListedAt`, `ListGrows`), and that first copies of a sequence grow by at most the appended
value in `FirstsOfAppend`.  For the consumer, every acknowledged record has been claimed or
dead-lettered (`ConsumedLogged`): an event that is applied after a later one had its turn before
it (`LateOnlyFromDead`).

**Branch heads.**  `PushesStop` needs the types, which include that an app without a link keeps no
head: a round that read its link earlier is stopped by that (`OnlyTheLinkedMove`).
`NothingPassedOver` rests on what a worker asks: only about pushes that touched an app (`AskedForTouched`).
So an app whose head moves by a compare moves by a push that touched some app, which is it, or one with
the same directory.  It needs no history: force pushes and lost commits change nothing.  With two directories it
fails (difference 1).
`GrowingBranchNeverBackwards` says for which branches order of delivery does not matter, those
that are never rewritten, and there for any history, merges included.  The invariant
(`Growing`) names a set of commits, the heads GitHub has had: they form a line, and every stored push,
head, link check, question, answer and run is about them.  On a line GitHub has one true answer to
every compare (`AnswersSound`), so a head that is accepted was built on the one before it
(`AcceptedIsLater`) and the log grows in order (`LogMoves`, `LogGrows`).  The line is not a
variable; it is the invariant's existential, extended by each push.  The hypothesis is needed: with a force push
the property fails (difference 6).

**Sessions.**  `SingleFlight` follows from who holds the lease: a handler between taking and
releasing it is its owner, unless it has overrun.  The refinement needs that a pair in a
handler's hands is in no session, and that no two handlers hold the same one, so that the script that stores it stores a
pair no session had.  The steps are sorted by what they do to the store: calm ones keep it,
issuing ones only add a pair in hand, putting ones open or replace one session, and deletions end one
(`StepCases`, `StepsMap`).

`OneSessionLeft` needs that a refreshed pair is of the same Keycloak session as the one it was refreshed
from (`SameSession`): a compare-and-set then either stays in the session's Keycloak session or is a
step-up's, whose next step ends the one before (`ReplacedSettles`).  For
`ParallelLoadsSignNobodyOut` a refresh token must not be sent twice.  A pair has been held by one session only
(`HeldOnce`), so two handlers that send the same one refresh the same session, which the lease
forbids (`SpendsOwn`); and a session whose token is spent is about to get the next pair, by a handler
that still has the lease (`SpentIsReplaced`), so whoever takes the lease next reads a token that is
not spent.  All this holds until the first call fails or the first lease runs out
(`Undisturbed`), as the property says; the hypothesis cannot be dropped, as the failure of a refresh
whose token was taken shows.

**Lists and numbers.**  A list at rest is true because the end of the last call has it read again,
and a change by others raises a counter that an answer carries: what was read after the last
change is the server's.  A number is never read again after a removal that went well: there the
invariant is arithmetic, `count = |there| - |Pending|` with the calls that are still to be carried out, each of
a row that is still there.

**The bell.**  The cached list and number are ahead of the server by the marks that are on their way
(`OnTheWay`), so a list or a number that knows of every change by others is right about what is left
unread after those (`ToRead`).  Each mark then moves both sides alike: beginning, reaching the server, and being
put back by a failure, which adds exactly one because no two marks are of the same notification
(`OnesFit`).  That needs a list and a number of the same time when a mark begins, which is part of
`muddled`, as are reads beside a mark and failures after the server had read it.

**Forms.**  Every row that has been read, cached or sent along fits the stored row of its version
(`RowsFit`), and the build form shows the cached row except in fields that were edited
(`FormFollows`).  A save that lands had the stored version, so it was made from the stored values.

**Manual builds and round trips.**  A key belongs to one intent as long as the intent is open, so
whatever comes under a key is the same request (`OneRequestPerKey`), and the row of the first is
found by all others inside their transaction.  In a round trip the tab's intent is what it last set
out for (`SetOutInv`), and a state is spent once, by the org it was issued to (`GrantInv`).

**Members.**  `OneOwner` is about what a transaction read before others committed.  The org's
transactions hold its row, so what a role change or a removal will write is never the owner's row
nor an owner's role, and a transfer writes exactly the rows of the old and the new owner (`OrgTx`).
A profile update holds nothing: there it is the version that helps.  While a row's version is the
one that was read, the row is what was read (`StillRead`); it would not be if a row could go and come
back at version 0 meanwhile, which the retention of a year excludes.

`ReadModelRight` follows the records of one member through the outbox into the topic (`MemberInv`).  The last of them
is right about the row (`Truth`): the same role and status, and a version that is not above the
row's, so that the next record supersedes it.  A record that is not the last has a lower version or is the same, as
long as no tombstone stands between (`TopicInOrder`, `OutboxInOrder`); after a tombstone versions start again at 0.
So what the reader holds is older than the last record, or it, if no tombstone is still to
come (`HoldsOlder`), and that makes applying by version right whatever is delivered again.  Members of whom nothing
was published are those the backfill has not reached (`BackfillInv`): the members
a batch has read are the first of those that are left (`PageIs`), and the cursor moves to the last of
them.  The hypothesis of `ReadModelRight`, that no record of the member was published behind a younger one,
is needed (difference 2).

**Composition.**  No step of one screen touches what another keeps, so each screen's theorem
carries over; `WebAppProofs` shows that the composition's steps are the screen's steps or
stutters.

Only model-checked: liveness (`SlotsComeBack`, `EveryWaiterIsServed`, `SoundOrgsAreServed`,
`Converges`, `EveryRequestIsAnswered`, `BellComesRight`, `SavesGoThrough`), since liveness under
fairness and ENABLED are beyond the prover.  Every other property of a passing run is a theorem.

## Differences between code and docs

The first two are runs that end in the counterexample.

1. `sharedanswer`, a bug.  The answer to a compare is looked up by repository and commits, not by
   app, so an app that a push does not touch is accepted by the answer another app asked for,
   and its head skips a push that is still on its way.  That push is stale when it comes; the
   change is never built on its own, only with the next push.  ARCHITECTURE.md of
   git-integration-service (1159-1161) says a skipped app is never advanced after a compare.
2. `overtaken`, a bug.  A change of a member takes its transaction id when it locks the org, and may
   then wait for the row locks of a backfill batch with a younger id.  The relay publishes by
   transaction id, so the change goes out before the batch's older state, which compaction keeps: a
   read model that is seeded or rebuilt later shows, say, a removed member as active, until the next
   change.  `MembershipStateBackfill.java:102-103` says the change is relayed after; its test orders
   by row id.  `ReadModelRight` leaves out members this has happened to (`overtaken`).

Met while modelling, and left out of the runs.  In the services:

3. A delivery in progress while the branch of a link is changed publishes the old branch and
   writes its dropped head back: `lockActive` (`PushProcessor.java:161`) looks at the link, not at
   its branch, where `RepoLinkService.java:164-165` and ARCHITECTURE.md (1566-1567) say that changing
   a branch must not deploy.  `Linked` in `BranchHeads` models it.  The reconciler compares
   the branch only in a read without a lock (`HeadReconciler.java:257-262`).  If it is changed before the head is locked, the
   run adopts GitHub's head on the branch just left; it publishes nothing then, unless a delivery in
   progress has put a head there first (`RunTake` and `RunStep`; the chains that `NeverBackwards` and
   `NoChangePassedOver` judge in `deliveries` include these).
4. ARCHITECTURE.md of build-queue-service (693-695) says an AUTOMATIC build waits behind at most
   the waiting INTERACTIVE builds of the org's other apps, not an unbounded stream.
   `DispatchQuery` (line 52) orders by class first, so every later manual build also goes first; coalescing bounds
   how many wait at a time.  (Pushes of one app INTERACTIVE and of another AUTOMATIC, and count overtakings.)
5. `LifecycleAnomalies` (line 23) counts a late start as a breach by build-service.  The start
   deadline has no grace, so a start that was in time and is still in transit when the last
   attempt expires is counted too.  (`"LATE_START" \notin anomalies` as an invariant of `contract`.)
6. ARCHITECTURE.md of git-integration-service (1195-1198) says build-queue-service never has to
   worry about going backwards.  A force push delivered late is accepted whatever the head is
   (`ChainRule` line 27) and published after its successor.  (`Rewrites <- McFork` with `NeverBackwards`.)
7. The same document (1578, 1636) says the reconciler builds the current head of every linked
   branch even if every webhook is lost.  A branch force-pushed back to an ancestor is BEHIND and
   stays unbuilt, as a test intends (`aGitHubHeadBehindOursBuildsNothing`).  (`<<2, 1>>` in `Rewrites` with
   `Converges`.)
8. ADR-0017 (line 33) promises commit order per org.  The order is that of the transaction ids
   (`OutboxRepository.java:32`), which a listener takes at its inbox claim, before it waits for
   the org row.  `EventFeed` promises that order and no gaps.
9. ARCHITECTURE.md of build-queue-service (156, 687-690) says an org's build is delayed by one turn
   of another org at most.  An org whose listed build expires before its row is locked is passed over
   without being served (`Dispatcher` goes on with the next candidate), again and again if that
   happens again and again: the sweeper needs no org lock.  `OneTurnEach` counts such a turn as offered.
   (Queue age in `rounds`, 6 builds, 3 slots, and turns that count only when they serve.)

In the web app's sessions:

10. A proxied call that still carries the old access token when a step-up has ended its Keycloak
   session is answered 401, and `gateway-proxy.ts:172` deletes the session, which by then holds
   the step-up's new tokens: the person who has just confirmed is signed out.  `revocation.ts:18-19`
   reads such an answer as "revoked elsewhere"; `server.ts:49` does the same for pages.
11. Two step-ups at once may leave the first one's Keycloak session open if the call to end it fails;
    `OneSessionLeft` allows for it (`loose`).
12. ADR-0025 argues from refresh token rotation.  The imported realm does not switch it on; the model has
    both (`Rotates`), the run has it on.  With rotation, a refresh whose answer is lost signs the browser out, and calls
    to identity have no timeout of their own while the lease is 10 seconds.
13. A `Set-Cookie` that clears a session may reach the browser after a newer sign-in's cookie.  A
    sign-in deletes the previous session without ending it at identity, and a session that cannot
    be created after that leaves the browser signed out.

In the web app's screens; each is why a property is stated the way it is:

14. The form of an app's settings (`AppSettingsPanel.tsx:72`) keeps what it showed first while the
    app is read again: the next save sends a field nobody touched and takes back what someone
    else has saved, where `update-app.ts:24` says an untouched field is never sent.
    `OnlyEditsAreSent` speaks of the build settings only.  (`panel = "app"` in it.)
15. A removal from a team that is refused or whose answer is lost puts back the number it kept, over the removals that
    went well meanwhile, and a read of the number that falls into a removal loses or doubles
    it, until the next read: `NumberFollowsRemovals` says so (`drifted`).
16. A mark cancels the list's reads, also the one that a failed mark of everything has just asked
    for; and marking a row that was read elsewhere takes one off the bell until the next poll
    (`muddled`).
17. Edits typed while a save is under way are wiped by `form.reset` when it lands, contrary to
    `BuildSettingsPanel.tsx:62-66`.  A read that was answered before a save and arrives after it
    puts the older row back into the cache; the next save with its version is refused.
18. An abandoned, still fresh intent and "Manage on GitHub" (`InstallationList.tsx:181`, with
    "Redirect on update" of GITHUB_APP_SETUP.md) let an installation be linked to the org of
    the older intent: `LinksWhatItSetOutFor` speaks of what the tab had set out for, not of the page it
    came from last.
19. `IDEMPOTENCY_KEY_REUSE` can't be met by this dialog (`OneRequestPerKey`); a replay compares no hashes in the model.
    A request names the branch only if it is not the production branch the page knows
    (`requestedBranch`).  Whoever retries for the same branch after the page has learnt of another
    production branch sends another request, with a key of its own, and may start a second build:
    `OneBuildPerIntent` compares requests as they are sent (`SameIntent`).

## What is not modelled

- Within the modelled parts: retention (rows and claims deleted long after the fact; that
  `manual_build_requests` are kept for longer than a dialog lives is assumed), suspended
  installations, links with auto-deploy off, truncated commit lists, skip markers,
  tags and branch deletions in `BranchHeads`; the reconciler's and the redelivery sweeper's cursors
  and rate budgets (a SENT delivery that is stored late stands for a redelivery); outages shorter
  than a sweep interval; the order of row locks inside one statement.
- Web: several tabs of one person in one round trip (`Tabs` allows them, the run has one), tabs
  duplicated with their session storage, link requests carried out after the tab gave them up,
  the profile form, and hooks that only invalidate.  Four hooks that remove rows share one
  model; `hook` says where they differ.
- build-queue-service's wakeup, API, metrics.
- git-integration-service's installations, access checks, check runs.
- org-team-service: creating and renaming orgs, resending invites, quotas, e-mail conflicts, teams, apps, tokens;
  two transactions of one kind beside each other in `Membership` (two profile updates, two sweeps).
- identity-service, notification-service, api-gateway: see the plan.
- Formatting, parsing, HTTP, Keycloak, GitHub's and Kafka's internals; configuration; and of the
  web app everything that keeps no state of its own.  The map covers about a twentieth of its
  33 000 lines and could not honestly cover many more: most of them are pages, copy, components,
  schemas and HTTP adapters that render what the query cache holds.  The logic this project is
  about is for the larger part in the Java services.

## Plan

In the order of what goes wrong most expensively:

1. Teams and apps of org-team-service, whose deletion cascades.
2. `Notification` and `Signup`: the row that tells duplicates is committed before the fan-out, retry; a saga
   with a compensation and an event after the commit.
3. Git: the check-run reporter (desired and reported state), installation teardown, and the
   redelivery window.
4. `DispatchWakeup`, `LockOrder` (the lock order of app.created, intake and deletion), retention
   with its windows, the gateway's token bucket as a pure module.
