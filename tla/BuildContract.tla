--------------------------- MODULE BuildContract ---------------------------
(***************************************************************************)
(* BuildQueue together with the build-service its leases are designed for. *)
(* build-service has no code in the repository: it is the one the queue's  *)
(* contract asks for.  It runs a build at most once, never starts one      *)
(* after the startBy of the last attempt, stops it at max-duration, and    *)
(* sends one started and at most one result per build; it may also die in  *)
(* the middle of a build and say nothing.                                  *)
(*                                                                         *)
(* Reports cross the backbone, on three topics, in any order.  While the   *)
(* backbone is up each is heard within TransitTime ticks of being sent, or *)
(* of the end of the outage that held it back.  A sweep runs in every tick.*)
(***************************************************************************)
EXTENDS BuildQueue

CONSTANTS
    MaxDuration,  \* build.max-duration, in ticks
    TransitTime,  \* ticks a report may spend in transit while the backbone is up
    MaxOutages    \* outages of the backbone in a behaviour

ASSUME ContractAssumption ==
    /\ MaxDuration \in Nat \ {0} /\ TransitTime \in Nat
    /\ RunLease = MaxDuration + Grace
    /\ MaxOutages \in Nat /\ IsFiniteSet(Sweeping)

\* What one outage may cost a result on its way: it is held back until a sweep that knows of the
\* outage has moved the leases out, and before that every instance may still sweep once with an
\* answer from before; then it travels anew.
OutageCost == TransitTime + Cardinality(Sweeping) + 1

\* lease.grace is longer than a result can take, with all the outages it may meet.  The service only
\* asks for a positive grace; the properties of leases need this one.
GraceCovers == Grace > TransitTime + MaxOutages * OutageCost

VARIABLES
    exec,      \* what build-service does with a build
    runFor,    \* ticks until a running build is stopped
    startBy,   \* ticks until the startBy of the build's last attempt passes
    transit,   \* per build and report, ticks it may still spend in transit
    up,        \* the backbone can be reached
    outages,   \* outages so far
    swept,     \* a sweep ran in this tick
    anomalies  \* the kinds LifecycleAnomalies has counted

serviceVars == <<exec, runFor, startBy, transit>>
contractVars == <<vars, serviceVars, up, outages, swept, anomalies>>

NotSent == -1
Sent(b, t) == transit[b][t] # NotSent

Send(b, t) == transit' = [transit EXCEPT ![b][t] = TransitTime]
Consume(b, t) == transit' = [transit EXCEPT ![b][t] = NotSent]

-----------------------------------------------------------------------------
(* build-service *)

StartBuild(b) ==
    /\ exec[b] = "IDLE" /\ startBy[b] > 0
    /\ exec' = [exec EXCEPT ![b] = "RUNNING"]
    /\ runFor' = [runFor EXCEPT ![b] = MaxDuration]
    /\ Send(b, "STARTED")
    /\ UNCHANGED <<vars, startBy, up, outages, swept, anomalies>>

EndBuild(b, t) ==
    /\ exec[b] = "RUNNING" /\ t # "STARTED"
    /\ exec' = [exec EXCEPT ![b] = "ENDED"]
    /\ Send(b, t)
    /\ UNCHANGED <<vars, runFor, startBy, up, outages, swept, anomalies>>

LoseBuild(b) ==
    /\ exec[b] = "RUNNING"
    /\ exec' = [exec EXCEPT ![b] = "DIED"]
    /\ UNCHANGED <<vars, runFor, startBy, transit, up, outages, swept, anomalies>>

-----------------------------------------------------------------------------
(* The backbone *)

BackboneFails ==
    /\ up /\ outages < MaxOutages
    /\ up' = FALSE /\ outages' = outages + 1
    /\ UNCHANGED <<vars, serviceVars, swept, anomalies>>

\* What piled up is caught up on within the usual transit time.
BackboneReturns ==
    /\ ~up /\ up' = TRUE
    /\ transit' = [b \in Builds |-> [t \in ReportTypes |->
                      IF Sent(b, t) THEN TransitTime ELSE NotSent]]
    /\ UNCHANGED <<vars, exec, runFor, startBy, outages, swept, anomalies>>

-----------------------------------------------------------------------------
(* The queue's listeners *)

HearReport(b, t) ==
    /\ up /\ Sent(b, t)
    /\ ReportLock(b, t)
    /\ UNCHANGED <<serviceVars, up, outages, swept, anomalies>>

ReportHeard(b, t) ==
    /\ ReportCommit(b, t)
    /\ Consume(b, t)
    /\ anomalies' = anomalies \cup IF status[b] = "EXPIRED" THEN {"LATE_RESULT"} ELSE {}
    /\ UNCHANGED <<exec, runFor, startBy, up, outages, swept>>

\* LifecycleAnomalies.classify, of a report whose guarded update matched no row.
Classified(t, s) ==
    CASE s \in {"SUCCEEDED", "FAILED"} -> "OUT_OF_ORDER"
      [] s = "RUNNING" /\ t = "STARTED" -> "OUT_OF_ORDER"
      [] s = "EXPIRED" /\ t = "STARTED" -> "LATE_START"
      [] OTHER -> "IMPOSSIBLE"

ReportUnmatched(b, t) ==
    /\ up /\ Sent(b, t)
    /\ status[b] \notin ReportFrom(t) /\ ~RowLocked(b)
    /\ Consume(b, t)
    /\ anomalies' = anomalies \cup {Classified(t, status[b])}
    /\ UNCHANGED <<vars, exec, runFor, startBy, up, outages, swept>>

ReportRolledBack(b) ==
    ReportAbort(b) /\ UNCHANGED <<serviceVars, up, outages, swept, anomalies>>

-----------------------------------------------------------------------------
(* The queue's own steps publish attempts; time passes for both sides.     *)

\* Every attempt the queue writes carries a fresh startBy.
Published ==
    startBy' = [b \in Builds |-> IF attempt'[b] > attempt[b] THEN StartTimeout ELSE startBy[b]]

QueueStep ==
    /\ Intake \/ Teardown \/ \E i \in Dispatching : Round(i)
    /\ Published
    /\ UNCHANGED <<exec, runFor, transit, up, outages, swept, anomalies>>

Ask(i) ==
    /\ SweepAsk(i, IF up THEN "HEARD" ELSE "DEAF")
    /\ UNCHANGED <<serviceVars, up, outages, swept, anomalies>>

SweepRun(i) ==
    /\ SweepDeaf(i) \/ SweepRecovered(i) \/ SweepDue(i)
    /\ Published
    /\ swept' = TRUE
    /\ UNCHANGED <<exec, runFor, transit, up, outages, anomalies>>

Less(n) == IF n > 0 THEN n - 1 ELSE n

TimePasses ==
    /\ swept
    /\ \A b \in Builds :
         /\ exec[b] = "RUNNING" => runFor[b] > 0
         /\ up => \A t \in ReportTypes : transit[b][t] # 0
    /\ Tick
    /\ runFor' = [b \in Builds |-> IF exec[b] = "RUNNING" THEN Less(runFor[b]) ELSE runFor[b]]
    /\ startBy' = [b \in Builds |-> Less(startBy[b])]
    /\ transit' = [b \in Builds |-> [t \in ReportTypes |->
                      IF up THEN Less(transit[b][t]) ELSE transit[b][t]]]
    /\ swept' = FALSE
    /\ UNCHANGED <<exec, up, outages, anomalies>>

ContractInit ==
    /\ Init
    /\ exec = [b \in Builds |-> "IDLE"]
    /\ runFor = [b \in Builds |-> 0]
    /\ startBy = [b \in Builds |-> 0]
    /\ transit = [b \in Builds |-> [t \in ReportTypes |-> NotSent]]
    /\ up = TRUE /\ outages = 0
    /\ swept = FALSE
    /\ anomalies = {}

ContractNext ==
    \/ \E b \in Builds : StartBuild(b) \/ LoseBuild(b) \/ ReportRolledBack(b)
    \/ \E b \in Builds, t \in ReportTypes :
         EndBuild(b, t) \/ HearReport(b, t) \/ ReportHeard(b, t) \/ ReportUnmatched(b, t)
    \/ BackboneFails \/ BackboneReturns
    \/ QueueStep
    \/ \E i \in Sweeping : Ask(i) \/ SweepRun(i)
    \/ TimePasses

ContractSpec == ContractInit /\ [][ContractNext]_contractVars

-----------------------------------------------------------------------------
(* Properties *)

\* A run lease only ever expires for a builder that died without a word: neither a result in
\* transit, nor one held back by an outage, nor a sweep that asked before the outage began
\* gives up on a build that was being run.
LeaseMeansSilence ==
    \A b \in Builds : reason[b] = "LEASE_EXPIRED" => exec[b] = "DIED"

\* build-service never runs two builds of an app at once, unless the queue gave one of them up
\* for not having started.
OverlapNeedsStartTimeout ==
    \A b, d \in Builds :
        /\ b # d /\ exec[b] = "RUNNING" /\ exec[d] = "RUNNING"
        /\ App(b) = App(d)
        => "START_TIMEOUT" \in {reason[b], reason[d]}

\* With a build-service that keeps its contract no report is ever impossible: whatever the
\* queue supersedes, cancels or rejects has never been out of its hands.
NothingImpossible == "IMPOSSIBLE" \notin anomalies
=============================================================================
