-------------------------- MODULE BranchHeadsProofs --------------------------
(* Proofs about BranchHeads, for any history, deliveries, workers, apps and  *)
(* bounds: its types, that pushes stop at a disconnect, that apps with one   *)
(* root directory miss no change to it, and that a branch that only grows is *)
(* never published backwards.                                                *)
EXTENDS BranchHeads, SequenceTheorems, TLAPS

\* Logs of anything, and functions changed at one place.
LEMMA EmptyLog == ASSUME NEW S PROVE <<>> \in Seq(S)
  OBVIOUS
LEMMA NewLog == ASSUME NEW S, NEW x \in S PROVE <<x>> \in Seq(S)
  OBVIOUS
LEMMA LongerLog == ASSUME NEW S, NEW s \in Seq(S), NEW x \in S PROVE Append(s, x) \in Seq(S)
  OBVIOUS
LEMMA Changed ==
    ASSUME NEW A, NEW S, NEW f \in [A -> S], NEW a \in A, NEW x \in S
    PROVE  [f EXCEPT ![a] = x] \in [A -> S]
  OBVIOUS

USE HistoryAssumption, BoundsAssumption

-----------------------------------------------------------------------------
(* Types                                                                     *)

\* A push that GitHub makes has a record, which is not that of no push.
LEMMA PushRecords ==
    /\ NoPush \notin PushRecord
    /\ \A c \in Commits, b \in Commits \cup {None}, f \in BOOLEAN :
         [before |-> b, after |-> c, forced |-> f] \in PushRecord
  BY DEF NoPush, PushRecord

\* A worker at rest, and what its state is made of.
LEMMA WorkerStates ==
    /\ Idle \in WorkerState
    /\ \A r \in WorkerState :
         /\ r.phase \in Phases /\ r.delivery \in Deliveries \cup {None} /\ r.targets \subseteq Apps
         /\ r.known \subseteq Answer /\ r.asks \subseteq Question /\ r.rounds \in 0..MaxLookupRounds
  BY DEF Idle, WorkerState, Phases

\* A worker's next state is as it should be, its open delivery one that it could claim.
StateOK(w, r) ==
    /\ r \in WorkerState
    /\ r.phase = "IDLE" <=> r.delivery = None
    /\ r.phase # "IDLE" => stored[r.delivery] # "UNSENT"
    /\ r.phase = "OPEN" => /\ stored' = stored /\ stored[r.delivery] = "RECEIVED"
                           /\ \A v \in Workers \ {w} : ~(Doing(v, "OPEN") /\ Job(v) = r.delivery)
    /\ r.phase \in {"ASKING", "LEASED"} => r.asks # {}
    /\ r.phase = "ANSWERED" => r.known # {}

\* A worker's step, checked for what it leaves of the others'.
LEMMA PutKeeps ==
    ASSUME TypeOK, NEW w \in Workers, NEW r, StateOK(w, r), Put(w, r),
           \A d \in Deliveries : stored[d] # "UNSENT" => stored'[d] # "UNSENT",
           \A v \in Workers \ {w} : Doing(v, "OPEN") => stored'[Job(v)] = stored[Job(v)]
    PROVE  WorkersOK'
<1>1. /\ worker \in [Workers -> WorkerState] /\ worker' = [worker EXCEPT ![w] = r] /\ r \in WorkerState
  BY DEF TypeOK, WorkersOK, Put, StateOK
<1>2. worker' \in [Workers -> WorkerState] /\ worker'[w] = r /\ \A v \in Workers \ {w} : worker'[v] = worker[v]
  BY <1>1
<1>3. \A v \in Workers : worker'[v].delivery \in Deliveries \cup {None}
  BY <1>2, WorkerStates
<1>4. ASSUME NEW v \in Workers
      PROVE  /\ worker'[v].phase = "IDLE" <=> worker'[v].delivery = None
             /\ worker'[v].phase # "IDLE" => stored'[worker'[v].delivery] # "UNSENT"
             /\ worker'[v].phase = "ASKING" \/ worker'[v].phase = "LEASED" => worker'[v].asks # {}
             /\ worker'[v].phase = "ANSWERED" => worker'[v].known # {}
  <2>1. CASE v = w
    BY <1>2, <1>3, <2>1 DEF StateOK
  <2>2. CASE v # w
    BY <1>2, <1>3, <2>2 DEF TypeOK, WorkersOK, Doing, Job
  <2> QED BY <2>1, <2>2
<1>5. ASSUME NEW v \in Workers, worker'[v].phase = "OPEN"
      PROVE  /\ stored'[worker'[v].delivery] = "RECEIVED"
             /\ \A u \in Workers \ {v} : ~(worker'[u].phase = "OPEN" /\ worker'[u].delivery = worker'[v].delivery)
  <2>1. CASE v = w
    BY <1>2, <1>5, <2>1 DEF StateOK, Doing, Job
  <2>2. CASE v # w
    BY <1>2, <1>5, <2>2 DEF StateOK, TypeOK, WorkersOK, Doing, Job
  <2> QED BY <2>1, <2>2
<1> QED BY <1>2, <1>4, <1>5 DEF WorkersOK, Doing, Job

\* No delivery is taken back, or away from the round that has it open.
OnlyForward ==
    \A d \in Deliveries : /\ stored[d] # "UNSENT" => stored'[d] # "UNSENT"
                          /\ stored[d] = "RECEIVED" => stored'[d] = "RECEIVED"

\* Nothing GitHub does takes a delivery back, or away from the round that has it open.
LEMMA StoredStays ==
    ASSUME TypeOK, UNCHANGED worker, OnlyForward
    PROVE  WorkersOK'
<1>1. \A v \in Workers : worker[v].delivery \in Deliveries \cup {None}
  BY WorkerStates DEF TypeOK, WorkersOK
<1> QED BY <1>1 DEF OnlyForward, TypeOK, WorkersOK, Doing, Job

\* Each part of the system keeps the types.
LEMMA GitHubTyped == ASSUME TypeOK, GitHub PROVE TypeOK'
<1>1. PICK d \in Deliveries :
        \/ \E c \in Commits : Push(d, c)
        \/ \E e \in Deliveries : PushAgain(d, e)
        \/ Store(d)
        \/ Due(d)
  BY DEF GitHub
<1>2. UNCHANGED <<worker, linkVars, headVars, run>> /\ gh' \in Commits
  BY <1>1 DEF TypeOK, Push, PushAgain, Store, Due, Reported
<1>3. DeliveriesOK' /\ OnlyForward
  <2>1. ASSUME NEW push \in PushRecord, Reported(d, push), stored[d] = "UNSENT"
        PROVE  DeliveriesOK' /\ OnlyForward
    BY <2>1 DEF OnlyForward, TypeOK, DeliveriesOK, Reported
  <2>2. CASE \E c \in Commits : Push(d, c)
    <3>1. gh \in Commits
      BY DEF TypeOK
    <3> QED BY <2>1, <2>2, <3>1, PushRecords DEF Push, Unsent
  <2>3. CASE \E e \in Deliveries : PushAgain(d, e)
    BY <2>1, <2>3 DEF PushAgain, Unsent, TypeOK, DeliveriesOK
  <2>4. CASE Store(d)
    <3>1. /\ stored' = [stored EXCEPT ![d] = "RECEIVED"] /\ stored[d] = "SENT"
          /\ UNCHANGED <<pushed, attempts, waiting>>
      BY <2>4 DEF Store
    <3> QED BY <3>1 DEF OnlyForward, TypeOK, DeliveriesOK
  <2>5. CASE Due(d)
    BY <2>5 DEF OnlyForward, Due, TypeOK, DeliveriesOK
  <2> QED BY <1>1, <2>2, <2>3, <2>4, <2>5
<1>4. WorkersOK'
  BY <1>2, <1>3, StoredStays
<1>5. HeadsOK' /\ changes' \in 0..MaxLinkChanges /\ RunOK'
  BY <1>2 DEF TypeOK, HeadsOK, RunOK, linkVars, headVars
<1> QED BY <1>2, <1>3, <1>4, <1>5 DEF TypeOK

\* One answer to each question is well formed.
LEMMA AnswersTyped ==
    ASSUME NEW Q \in SUBSET Question, NEW A \in Answered(Q)
    PROVE  A \subseteq Answer /\ (Q # {} => A # {})
<1>1. PICK f \in [Q -> Statuses] : /\ A = {[asked |-> q, status |-> f[q]] : q \in Q}
                                   /\ \A q \in Q : f[q] \in Compared(q[1], q[2])
  BY DEF Answered
<1>2. \A q \in Q : q \in Question /\ f[q] \in Statuses /\ [asked |-> q, status |-> f[q]] \in A
  BY <1>1
<1>3. ASSUME NEW q \in Q
      PROVE  [asked |-> q, status |-> f[q]] \in Answer
  <2>1. f[q] = "IDENTICAL" => q[1] = q[2]
    BY <1>1 DEF Compared, Status
  <2> QED BY <1>2, <2>1 DEF Answer
<1>4. \A x \in A : \E q \in Q : x = [asked |-> q, status |-> f[q]]
  BY <1>1
<1>5. A \subseteq Answer
  BY <1>3, <1>4
<1>6. Q # {} => A # {}
  BY <1>2
<1> QED BY <1>5, <1>6

\* What a worker may be asked to decide.
LEMMA Decided ==
    ASSUME TypeOK, NEW w \in Workers, ~Doing(w, "IDLE")
    PROVE  /\ Job(w) \in Deliveries /\ stored[Job(w)] # "UNSENT" /\ JobPush(w) \in PushRecord
           /\ JobPush(w).after \in Commits
           /\ Building(w) \subseteq Accepting(w) /\ Accepting(w) \subseteq Deciding(w)
           /\ Deciding(w) \subseteq worker[w].targets /\ worker[w].targets \subseteq Apps
           /\ worker[w] \in WorkerState
<1>1. worker[w] \in WorkerState /\ Job(w) \in Deliveries /\ stored[Job(w)] # "UNSENT"
  BY WorkerStates DEF TypeOK, WorkersOK, Doing, Job
<1>2. JobPush(w) \in PushRecord
  BY <1>1 DEF TypeOK, DeliveriesOK, JobPush
<1> QED BY <1>1, <1>2, WorkerStates DEF PushRecord, Building, Accepting, Deciding

\* Questions are about heads and the pushed commit.
LEMMA Asked ==
    ASSUME TypeOK, NEW w \in Workers, ~Doing(w, "IDLE")
    PROVE  /\ Unanswered(w) \subseteq Question
           /\ \A q \in Unanswered(w) : \E a \in Apps : head[a] # None /\ q = <<head[a], JobPush(w).after>>
<1>1. ASSUME NEW q \in Unanswered(w)
      PROVE  \E a \in Apps : head[a] \in Commits /\ head[a] # None /\ q = <<head[a], JobPush(w).after>>
  <2>1. PICK a \in Deciding(w) : Decision(w, a) = "NEEDS_COMPARE" /\ q = <<head[a], JobPush(w).after>>
    BY DEF Unanswered
  <2>2. head[a] # None
    BY <2>1 DEF Decision, ChainRule
  <2> QED BY <2>1, <2>2, Decided DEF TypeOK, HeadsOK
<1> QED BY <1>1, Decided DEF Question

\* A failed round remembers its delivery only.
LEMMA FailedState ==
    ASSUME NEW w \in Workers, NEW d \in Deliveries, stored[d] # "UNSENT"
    PROVE  StateOK(w, [Idle EXCEPT !.phase = "FAILED", !.delivery = d])
<1> DEFINE r == [Idle EXCEPT !.phase = "FAILED", !.delivery = d]
<1>1. r \in WorkerState /\ r.phase = "FAILED" /\ r.delivery = d
  BY WorkerStates DEF WorkerState, Phases
<1> HIDE DEF r
<1>2. StateOK(w, r)
  BY <1>1 DEF StateOK
<1> QED BY <1>2 DEF r

LEMMA WorkTyped == ASSUME TypeOK, NEW w \in Workers, Work(w) PROVE TypeOK'
<1>1. UNCHANGED <<gh, linkVars, run>>
  BY DEF Work, RoundOpen, Apply, Ask, Lease, GitHubAnswers, Reopen, RoundFails, RecordFailure, WorkerDrops
<1>2. StateOK(w, Idle) /\ worker[w] \in WorkerState
  BY WorkerStates DEF Idle, StateOK, TypeOK, WorkersOK
<1>3. ASSUME DeliveriesOK', WorkersOK', HeadsOK'
      PROVE  TypeOK'
  BY <1>1, <1>3 DEF TypeOK, RunOK, linkVars
<1>4. ASSUME NEW r, StateOK(w, r), Put(w, r), UNCHANGED <<deliveryVars, headVars>>
      PROVE  TypeOK'
  <2>1. DeliveriesOK' /\ HeadsOK'
    BY <1>1, <1>4 DEF TypeOK, DeliveriesOK, HeadsOK, deliveryVars, linkVars, headVars
  <2> QED BY <1>3, <1>4, <2>1, PutKeeps DEF deliveryVars
<1>5. CASE \E d \in Deliveries : RoundOpen(w, d)
  <2>1. PICK d \in Deliveries : RoundOpen(w, d)
    BY <1>5
  <2> DEFINE r == [Idle EXCEPT !.phase = "OPEN", !.delivery = d, !.targets = Targets]
  <2>2. StateOK(w, r)
    <3>1. r \in WorkerState /\ r.phase = "OPEN" /\ r.delivery = d
      BY WorkerStates DEF WorkerState, Phases, Targets
    <3>2. /\ stored' = stored /\ stored[d] = "RECEIVED"
          /\ \A v \in Workers : ~(Doing(v, "OPEN") /\ Job(v) = d)
      BY <2>1 DEF RoundOpen, Claimable, deliveryVars
    <3> HIDE DEF r
    <3> QED BY <3>1, <3>2 DEF StateOK
  <2>3. Put(w, r)
    BY <2>1 DEF RoundOpen
  <2> QED BY <1>4, <2>1, <2>2, <2>3 DEF RoundOpen
<1>6. CASE Apply(w)
  <2>1. Doing(w, "OPEN") /\ JobPush(w).after \in Commits /\ Job(w) \in Deliveries /\ stored[Job(w)] # "UNSENT"
    BY <1>6, Decided DEF Apply, Doing
  <2>2. HeadsOK'
    <3>1. /\ head' \in [Apps -> Commits \cup {None}] /\ etag' \in [Apps -> Commits \cup {None}]
          /\ published' \in [Apps -> Seq(Commits)]
      BY <1>6, <2>1 DEF Apply, TypeOK, HeadsOK
    <3>2. \A a \in Apps : etag'[a] \in {None, head'[a]} /\ (link[a] = "NONE" => head'[a] = None)
      <4>1. \A a \in Accepting(w) : link[a] # "NONE"
        BY <2>1, Decided DEF Accepting, Deciding, Linked, Doing, TypeOK, HeadsOK
      <4> QED BY <1>6, <4>1 DEF Apply, TypeOK, HeadsOK
    <3> QED BY <1>1, <3>1, <3>2 DEF TypeOK, HeadsOK, linkVars
  <2>3. DeliveriesOK'
    <3>1. stored[Job(w)] = "RECEIVED"
      BY <1>6 DEF Apply, TypeOK, WorkersOK
    <3> QED BY <1>6, <2>1, <3>1 DEF Apply, TypeOK, DeliveriesOK
  <2>4. \A v \in Workers \ {w} : Doing(v, "OPEN") => Job(v) # Job(w)
    BY <2>1 DEF TypeOK, WorkersOK
  <2>5. \A d \in Deliveries : stored[d] # "UNSENT" => stored'[d] # "UNSENT"
    BY <1>6 DEF Apply, TypeOK, DeliveriesOK
  <2>6. \A v \in Workers \ {w} : Doing(v, "OPEN") => stored'[Job(v)] = stored[Job(v)]
    BY <1>6, <2>4, Decided DEF Apply, Doing, TypeOK, DeliveriesOK
  <2> QED BY <1>2, <1>3, <1>6, <2>2, <2>3, <2>5, <2>6, PutKeeps DEF Apply
<1>7. CASE Ask(w)
  <2>1. ~Doing(w, "IDLE") /\ Job(w) \in Deliveries /\ stored[Job(w)] # "UNSENT" /\ Unanswered(w) # {}
        /\ Unanswered(w) \in SUBSET Question
    BY <1>7, Decided, Asked DEF Ask, Doing
  <2>2. CASE worker[w].rounds = MaxLookupRounds
    <3>1. StateOK(w, [Idle EXCEPT !.phase = "FAILED", !.delivery = Job(w)])
      BY <1>2, <2>1, FailedState
    <3> QED BY <1>4, <1>7, <2>2, <3>1 DEF Ask
  <2>3. CASE worker[w].rounds # MaxLookupRounds
    <3> DEFINE r == [worker[w] EXCEPT !.phase = "ASKING", !.asks = Unanswered(w), !.targets = {}, !.rounds = @ + 1]
    <3>1. r \in WorkerState /\ r.phase = "ASKING" /\ r.delivery = Job(w) /\ r.asks = Unanswered(w)
      <4>1. worker[w].rounds + 1 \in 0..MaxLookupRounds
        BY <1>2, <2>3, WorkerStates
      <4> QED BY <1>2, <2>1, <4>1 DEF WorkerState, Phases, Job
    <3>2. Put(w, r)
      BY <1>7, <2>3 DEF Ask
    <3> HIDE DEF r
    <3>3. StateOK(w, r)
      BY <2>1, <3>1 DEF StateOK
    <3> QED BY <1>4, <1>7, <3>2, <3>3 DEF Ask
  <2> QED BY <2>2, <2>3
<1>8. CASE Lease(w)
  <2>1. ~Doing(w, "IDLE") /\ Job(w) \in Deliveries /\ stored[Job(w)] # "UNSENT" /\ worker[w].asks # {}
    BY <1>8, Decided DEF Lease, Doing, TypeOK, WorkersOK
  <2>2. DeliveriesOK' /\ HeadsOK' /\ stored' = stored
    BY <1>1, <1>8, <2>1 DEF Lease, TypeOK, DeliveriesOK, HeadsOK, linkVars, headVars
  <2>3. ASSUME NEW r, StateOK(w, r), Put(w, r)
        PROVE  TypeOK'
    BY <1>3, <2>2, <2>3, PutKeeps
  <2>4. CASE Put(w, [worker[w] EXCEPT !.phase = "LEASED"])
    <3> DEFINE r == [worker[w] EXCEPT !.phase = "LEASED"]
    <3>1. r \in WorkerState /\ r.phase = "LEASED" /\ r.delivery = Job(w) /\ r.asks = worker[w].asks
      BY <1>2 DEF WorkerState, Phases, Job
    <3>2. Put(w, r)
      BY <2>4
    <3> HIDE DEF r
    <3>3. StateOK(w, r)
      BY <2>1, <3>1 DEF StateOK
    <3> QED BY <2>3, <3>2, <3>3
  <2> QED BY <1>2, <1>8, <2>3, <2>4 DEF Lease
<1>9. CASE GitHubAnswers(w)
  <2> DEFINE new == {q \in worker[w].asks : \A a \in worker[w].known : a.asked # q}
  <2>1. /\ ~Doing(w, "IDLE") /\ Job(w) \in Deliveries /\ stored[Job(w)] # "UNSENT"
        /\ worker[w].asks # {} /\ worker[w].asks \subseteq Question /\ worker[w].known \subseteq Answer
    BY <1>2, <1>9, Decided, WorkerStates DEF GitHubAnswers, Doing, TypeOK, WorkersOK
  <2>2. PICK A \in Answered(new) :
          Put(w, [worker[w] EXCEPT !.phase = "ANSWERED", !.known = @ \cup A, !.asks = {}])
    BY <1>9 DEF GitHubAnswers
  <2>3. A \subseteq Answer /\ (new # {} => A # {})
    BY <2>1, AnswersTyped
  <2>4. worker[w].known \cup A # {} /\ worker[w].known \cup A \subseteq Answer
    BY <2>1, <2>3
  <2> DEFINE r == [worker[w] EXCEPT !.phase = "ANSWERED", !.known = @ \cup A, !.asks = {}]
  <2>5. r \in WorkerState /\ r.phase = "ANSWERED" /\ r.delivery = Job(w) /\ r.known = worker[w].known \cup A
    BY <1>2, <2>4 DEF WorkerState, Phases, Job
  <2>6. Put(w, r)
    BY <2>2
  <2> HIDE DEF r
  <2>7. StateOK(w, r)
    BY <2>1, <2>4, <2>5 DEF StateOK
  <2> QED BY <1>4, <1>9, <2>6, <2>7 DEF GitHubAnswers
<1>10. CASE Reopen(w)
  <2>1. ~Doing(w, "IDLE") /\ Job(w) \in Deliveries /\ stored[Job(w)] # "UNSENT"
    BY <1>10, Decided DEF Reopen, Doing
  <2>2. CASE Claimable(Job(w))
    <3> DEFINE r == [worker[w] EXCEPT !.phase = "OPEN", !.targets = Targets]
    <3>1. r \in WorkerState /\ r.phase = "OPEN" /\ r.delivery = Job(w)
      BY <1>2 DEF WorkerState, Phases, Job, Targets
    <3>2. Put(w, r)
      BY <1>10, <2>2 DEF Reopen
    <3> HIDE DEF r
    <3>3. StateOK(w, r)
      BY <1>10, <2>1, <2>2, <3>1 DEF StateOK, Claimable, Reopen, deliveryVars
    <3> QED BY <1>4, <1>10, <3>2, <3>3 DEF Reopen
  <2> QED BY <1>2, <1>4, <1>10, <2>2 DEF Reopen
<1>11. CASE RoundFails(w)
  <2>1. StateOK(w, [Idle EXCEPT !.phase = "FAILED", !.delivery = Job(w)])
    BY <1>11, Decided, FailedState DEF RoundFails, Doing
  <2> QED BY <1>4, <1>11, <2>1 DEF RoundFails
<1>12. CASE RecordFailure(w)
  <2>1. ~Doing(w, "IDLE") /\ Job(w) \in Deliveries /\ stored[Job(w)] # "UNSENT" /\ Put(w, Idle)
        /\ UNCHANGED <<pushed, headVars>>
    BY <1>12, Decided DEF RecordFailure, Doing
  <2>2. CASE Claimable(Job(w))
    <3>1. stored[Job(w)] = "RECEIVED" /\ \A v \in Workers : Doing(v, "OPEN") => Job(v) # Job(w)
      BY <2>2 DEF Claimable
    <3>2. /\ attempts' = [attempts EXCEPT ![Job(w)] = @ + 1]
          /\ stored' = [stored EXCEPT ![Job(w)] =
                            IF attempts[Job(w)] + 1 >= MaxAttempts THEN "PARKED" ELSE @]
          /\ waiting' = waiting \cup {Job(w)}
      BY <1>12, <2>2 DEF RecordFailure
    <3>3. attempts[Job(w)] \in 0..MaxAttempts /\ attempts[Job(w)] # MaxAttempts /\ MaxAttempts \in Nat
      BY <2>1, <3>1 DEF TypeOK, DeliveriesOK
    <3>4. DeliveriesOK'
      <4>1. attempts' \in [Deliveries -> 0..MaxAttempts]
        BY <2>1, <3>2, <3>3 DEF TypeOK, DeliveriesOK
      <4>2. ASSUME NEW d \in Deliveries
            PROVE  /\ stored'[d] = "PARKED" <=> attempts'[d] = MaxAttempts
                   /\ stored'[d] # "UNSENT" => pushed[d] \in PushRecord
        <5>1. CASE d = Job(w)
          BY <2>1, <3>1, <3>2, <3>3, <5>1 DEF TypeOK, DeliveriesOK
        <5>2. CASE d # Job(w)
          BY <3>2, <5>2 DEF TypeOK, DeliveriesOK
        <5> QED BY <5>1, <5>2
      <4>3. stored' \in [Deliveries -> {"UNSENT", "SENT", "RECEIVED", "PROCESSED", "IGNORED", "PARKED"}]
        BY <3>2 DEF TypeOK, DeliveriesOK
      <4> QED BY <2>1, <3>2, <4>1, <4>2, <4>3 DEF TypeOK, DeliveriesOK
    <3>5. \A d \in Deliveries : stored[d] # "UNSENT" => stored'[d] # "UNSENT"
      BY <3>1, <3>2 DEF TypeOK, DeliveriesOK
    <3>6. \A v \in Workers \ {w} : Doing(v, "OPEN") => stored'[Job(v)] = stored[Job(v)]
      BY <3>1, <3>2, Decided DEF Doing, TypeOK, DeliveriesOK
    <3>7. HeadsOK'
      BY <1>1, <2>1 DEF TypeOK, HeadsOK, linkVars, headVars
    <3> QED BY <1>2, <1>3, <2>1, <3>4, <3>5, <3>6, <3>7, PutKeeps
  <2>3. CASE ~Claimable(Job(w))
    BY <1>2, <1>4, <1>12, <2>1, <2>3 DEF RecordFailure, deliveryVars
  <2> QED BY <2>2, <2>3
<1>13. CASE WorkerDrops(w)
  BY <1>2, <1>4, <1>13 DEF WorkerDrops
<1> QED BY <1>5, <1>6, <1>7, <1>8, <1>9, <1>10, <1>11, <1>12, <1>13 DEF Work

\* A run of the reconciler that is under way has read a commit.
LEMMA RunStates ==
    ASSUME TypeOK
    PROVE  /\ run.sha \in Commits \cup {None} /\ run.todo \subseteq Apps
           /\ run.known \subseteq Answer /\ run.rounds \in 0..MaxLookupRounds
           /\ run.asks \subseteq Question
           /\ \A a \in run.todo : run.sha \in Commits
           /\ run.phase \in {"OPEN", "ASKING"} => run.app \in run.todo
<1>1. NoRun.todo = {}
  BY DEF NoRun
<1> QED BY <1>1 DEF TypeOK, RunOK, RunState

LEMMA NoRunTyped == ASSUME run' = NoRun PROVE RunOK'
<1>1. NoRun \in RunState /\ NoRun.sha = None /\ NoRun.phase = "IDLE"
  BY DEF NoRun, RunState
<1> QED BY <1>1 DEF RunOK

\* What a run knows and has to do as it goes from app to app.
LEMMA DoneTyped ==
    ASSUME TypeOK, NEW a \in run.todo, NEW known \in SUBSET Answer, Done(a, known)
    PROVE  RunOK' /\ (run' = NoRun \/ (run'.sha = run.sha /\ run'.known = known /\ run'.asks = {}))
<1>1. CASE run' = NoRun
  BY <1>1, NoRunTyped
<1>2. CASE run' # NoRun
  <2> DEFINE r == [run EXCEPT !.phase = "NEXT", !.app = None, !.todo = @ \ {a}, !.asks = {}, !.known = known,
                              !.rounds = 0]
  <2>1. /\ r \in RunState /\ r.sha = run.sha /\ r.known = known /\ r.asks = {}
        /\ r.phase = "NEXT"
    <3>1. 0 \in 0..MaxLookupRounds
      BY BoundsAssumption
    <3>2. run \in RunState /\ run.todo \ {a} \in SUBSET Apps
      BY RunStates DEF TypeOK, RunOK
    <3> QED BY <3>1, <3>2 DEF RunState
  <2>2. run' = r
    BY <1>2 DEF Done
  <2>3. run.sha \in Commits
    BY RunStates
  <2> HIDE DEF r
  <2> QED BY <1>2, <2>1, <2>2, <2>3 DEF RunOK
<1> QED BY <1>1, <1>2

LEMMA TakeTyped ==
    ASSUME TypeOK, NEW a \in run.todo, NEW known \in SUBSET Answer, NEW rounds \in 0..MaxLookupRounds,
           Take(a, known, rounds)
    PROVE  RunOK' /\ (run' = NoRun \/ (run'.sha = run.sha /\ run'.known = known /\ run'.asks = {}))
<1>1. CASE link[a] = "HERE"
  <2> DEFINE r == [run EXCEPT !.phase = "OPEN", !.app = a, !.asks = {}, !.known = known, !.rounds = rounds]
  <2>1. /\ r \in RunState /\ r.sha = run.sha /\ r.known = known /\ r.asks = {}
        /\ r.phase = "OPEN" /\ r.app = a /\ r.todo = run.todo
    BY RunStates DEF TypeOK, RunOK, RunState
  <2>2. run' = r
    BY <1>1 DEF Take
  <2>3. run.sha \in Commits /\ NoRun.sha = None
    BY RunStates DEF NoRun
  <2> HIDE DEF r
  <2> QED BY <2>1, <2>2, <2>3 DEF RunOK
<1>2. CASE link[a] # "HERE"
  BY <1>2, DoneTyped DEF Take
<1> QED BY <1>1, <1>2

\* What the reconciler takes for a duplicate is the head itself.
LEMMA DuplicateIsHead ==
    ASSUME TypeOK, NEW a \in run.todo, RunDecision(a) = "DUPLICATE"
    PROVE  head[a] = run.sha
<1> DEFINE answer == {x.status : x \in {y \in run.known : y.asked = <<head[a], run.sha>>}}
<1>1. head[a] = run.sha \/ answer = {"IDENTICAL"}
  BY DEF RunDecision, ChainRule, Found
<1>2. ASSUME answer = {"IDENTICAL"}
      PROVE  head[a] = run.sha
  <2>1. PICK x \in run.known : x.asked = <<head[a], run.sha>> /\ x.status = "IDENTICAL"
    BY <1>2
  <2>2. x.asked[1] = x.asked[2]
    BY <2>1, RunStates DEF Answer
  <2> QED BY <2>1, <2>2
<1> QED BY <1>1, <1>2

LEMMA ReconcileTyped == ASSUME TypeOK, Reconcile PROVE TypeOK'
<1>1. UNCHANGED <<gh, deliveryVars, worker, linkVars>>
  BY DEF Reconcile, RunRead, RunEnds, RunTake, RunStep, RunAsk, RunAnswered
<1>2. DeliveriesOK' /\ WorkersOK'
  BY <1>1 DEF TypeOK, DeliveriesOK, WorkersOK, Doing, Job, deliveryVars
<1>3. ASSUME HeadsOK', RunOK'
      PROVE  TypeOK'
  BY <1>1, <1>2, <1>3 DEF TypeOK, linkVars
<1>4. ASSUME UNCHANGED headVars
      PROVE  HeadsOK'
  BY <1>1, <1>4 DEF TypeOK, HeadsOK, linkVars, headVars
<1>5. CASE RunRead
  <2> DEFINE r == [NoRun EXCEPT !.phase = "NEXT", !.sha = gh, !.todo = Targets]
  <2>1. r \in RunState /\ r.sha = gh /\ r.phase = "NEXT"
    <3>1. NoRun \in RunState
      BY BoundsAssumption DEF NoRun, RunState
    <3>2. gh \in Commits /\ Targets \in SUBSET Apps
      BY DEF TypeOK, Targets
    <3> QED BY <3>1, <3>2 DEF RunState
  <2>2. run' = r /\ UNCHANGED headVars
    BY <1>5 DEF RunRead
  <2>3. gh # None /\ NoRun.sha = None
    BY DEF TypeOK, NoRun
  <2> HIDE DEF r
  <2>4. RunOK'
    BY <2>1, <2>2, <2>3 DEF RunOK
  <2> QED BY <1>3, <1>4, <2>2, <2>4
<1>6. CASE RunEnds
  BY <1>3, <1>4, <1>6, NoRunTyped DEF RunEnds
<1>7. CASE \E a \in Apps : RunStep(a)
  <2>1. PICK a \in Apps : RunStep(a)
    BY <1>7
  <2>2. a \in run.todo /\ run.sha \in Commits /\ Done(a, run.known)
    BY <2>1, RunStates DEF RunStep, Taken
  <2>3. HeadsOK'
    <3>1. CASE UNCHANGED headVars
      BY <1>4, <3>1
    <3>2. CASE /\ Linked(a)
               /\ head' = [head EXCEPT ![a] = run.sha] \/ (head' = head /\ head[a] = run.sha)
               /\ etag' = [etag EXCEPT ![a] = run.sha]
               /\ published' = published \/ published' = [published EXCEPT ![a] = Append(@, run.sha)]
      <4> DEFINE sha == run.sha
      <4>a. a \in Apps /\ sha \in Commits
        BY <2>2, <2>1
      <4>b. head \in [Apps -> Commits \cup {None}] /\ etag \in [Apps -> Commits \cup {None}]
            /\ published \in [Apps -> Seq(Commits)]
        BY DEF TypeOK, HeadsOK
      <4>c. /\ head' = [head EXCEPT ![a] = sha] \/ head' = head
            /\ etag' = [etag EXCEPT ![a] = sha]
            /\ published' = published \/ published' = [published EXCEPT ![a] = Append(@, sha)]
        BY <3>2
      <4> HIDE DEF sha
      <4>d. head' \in [Apps -> Commits \cup {None}]
        <5>1. [head EXCEPT ![a] = sha] \in [Apps -> Commits \cup {None}]
          BY <4>a, <4>b, Changed
        <5> QED BY <4>b, <4>c, <5>1
      <4>e. etag' \in [Apps -> Commits \cup {None}]
        <5>1. [etag EXCEPT ![a] = sha] \in [Apps -> Commits \cup {None}]
          BY <4>a, <4>b, Changed
        <5> QED BY <4>c, <5>1
      <4>f. published' \in [Apps -> Seq(Commits)]
        <5>1. published[a] \in Seq(Commits)
          BY <4>a, <4>b
        <5>2. Append(published[a], sha) \in Seq(Commits)
          BY <4>a, <5>1, LongerLog
        <5>3. [published EXCEPT ![a] = Append(published[a], sha)] \in [Apps -> Seq(Commits)]
          BY <4>a, <4>b, <5>2, Changed
        <5> QED BY <4>b, <4>c, <5>3
      <4>1. /\ head' \in [Apps -> Commits \cup {None}] /\ etag' \in [Apps -> Commits \cup {None}]
            /\ published' \in [Apps -> Seq(Commits)]
        BY <4>d, <4>e, <4>f
      <4>2. \A b \in Apps : etag'[b] \in {None, head'[b]} /\ (link[b] = "NONE" => head'[b] = None)
        BY <2>2, <3>2 DEF TypeOK, HeadsOK, Linked
      <4> QED BY <1>1, <4>1, <4>2 DEF TypeOK, HeadsOK, linkVars
    <3>3. RunDecision(a) = "DUPLICATE" => head[a] = run.sha
      BY <2>2, DuplicateIsHead
    <3> QED BY <2>1, <3>1, <3>2, <3>3 DEF RunStep
  <2>4. RunOK'
    BY <2>2, DoneTyped, RunStates
  <2> QED BY <1>3, <2>3, <2>4
<1>8. CASE \E a \in Apps : RunTake(a)
  <2>1. PICK a \in run.todo : Take(a, run.known, 0) /\ UNCHANGED headVars
    BY <1>8 DEF RunTake
  <2>2. RunOK'
    BY <2>1, TakeTyped, RunStates
  <2> QED BY <1>3, <1>4, <2>1, <2>2
<1>9. CASE \E a \in Apps : RunAsk(a)
  <2>1. PICK a \in Apps : RunAsk(a)
    BY <1>9
  <2> DEFINE r == [run EXCEPT !.phase = "ASKING", !.asks = {<<head[a], run.sha>>}]
  <2>2. /\ run' = r /\ UNCHANGED headVars /\ run.rounds < MaxLookupRounds
        /\ RunDecision(a) = "NEEDS_COMPARE" /\ run.app \in run.todo /\ run.sha \in Commits
    BY <2>1, RunStates DEF RunAsk, Taken
  <2>3. {<<head[a], run.sha>>} \in SUBSET Question
    <3>1. head[a] # None
      BY <2>2 DEF RunDecision, ChainRule
    <3> QED BY <2>2, <3>1 DEF TypeOK, HeadsOK, Question
  <2>4. /\ r \in RunState /\ r.sha = run.sha /\ r.phase = "ASKING" /\ r.rounds = run.rounds
        /\ r.app = run.app /\ r.todo = run.todo
    BY <2>3 DEF TypeOK, RunOK, RunState
  <2>5. NoRun.sha = None
    BY DEF NoRun
  <2> HIDE DEF r
  <2>6. RunOK'
    BY <2>2, <2>4, <2>5 DEF RunOK
  <2> QED BY <1>3, <1>4, <2>2, <2>6
<1>10. CASE RunAnswered
  <2>1. PICK A \in Answered(run.asks) : Take(run.app, run.known \cup A, run.rounds + 1)
    BY <1>10 DEF RunAnswered
  <2>2. run.app \in run.todo /\ run.known \cup A \in SUBSET Answer
    BY <1>10, AnswersTyped, RunStates DEF RunAnswered
  <2>3. run.rounds + 1 \in 0..MaxLookupRounds
    BY <1>10, RunStates, BoundsAssumption DEF RunAnswered, TypeOK, RunOK
  <2>4. RunOK'
    BY <2>1, <2>2, <2>3, TakeTyped
  <2>5. UNCHANGED headVars
    BY <1>10 DEF RunAnswered
  <2> QED BY <1>3, <1>4, <2>4, <2>5
<1> QED BY <1>5, <1>6, <1>7, <1>8, <1>9, <1>10 DEF Reconcile

LEMMA LinkingTyped == ASSUME TypeOK, Linking PROVE TypeOK'
<1>1. PICK a \in Apps : LinkCheck(a) \/ Link(a) \/ Disconnect(a) \/ SwitchAway(a) \/ SwitchTo(a)
  BY DEF Linking
<1>2. UNCHANGED <<gh, deliveryVars, worker, run>>
  BY <1>1 DEF LinkCheck, Link, Disconnect, SwitchAway, SwitchTo
<1>3. DeliveriesOK' /\ WorkersOK'
  BY <1>2 DEF TypeOK, DeliveriesOK, WorkersOK, Doing, Job, deliveryVars
<1>4. changes' \in 0..MaxLinkChanges
  BY <1>1 DEF LinkCheck, Link, Disconnect, SwitchAway, SwitchTo, Changes, TypeOK
<1>5. ASSUME HeadsOK'
      PROVE  TypeOK'
  BY <1>2, <1>3, <1>4, <1>5 DEF TypeOK, RunOK
<1>6. CASE LinkCheck(a)
  BY <1>5, <1>6 DEF LinkCheck, TypeOK, HeadsOK, headVars
<1>7. CASE Link(a)
  <2>1. /\ checked[a] \in Commits /\ link' = [link EXCEPT ![a] = "HERE"]
        /\ checked' = [checked EXCEPT ![a] = None]
        /\ head' = [head EXCEPT ![a] = checked[a]] /\ etag' = [etag EXCEPT ![a] = None]
    BY <1>7 DEF Link, Chain, TypeOK, HeadsOK
  <2>2. PICK log \in {<<>>, <<checked[a]>>} : published' = [published EXCEPT ![a] = log]
    BY <1>7 DEF Link, Chain
  <2>3. log \in Seq(Commits)
    <3>1. <<>> \in Seq(Commits)
      BY EmptyLog
    <3>2. <<checked[a]>> \in Seq(Commits)
      BY <2>1, NewLog
    <3>3. log = <<>> \/ log = <<checked[a]>>
      BY Zenon
    <3> QED BY <3>1, <3>2, <3>3, Zenon
  <2> QED BY <1>5, <2>1, <2>2, <2>3 DEF TypeOK, HeadsOK
<1>8. CASE Disconnect(a)
  BY <1>5, <1>8 DEF Disconnect, Chain, TypeOK, HeadsOK
<1>9. CASE SwitchAway(a)
  BY <1>5, <1>9 DEF SwitchAway, Chain, TypeOK, HeadsOK
<1>10. CASE SwitchTo(a)
  BY <1>5, <1>10 DEF SwitchTo, TypeOK, HeadsOK, headVars
<1> QED BY <1>1, <1>6, <1>7, <1>8, <1>9, <1>10

-----------------------------------------------------------------------------
LEMMA InitTyped == ASSUME Init PROVE TypeOK
<1>1. DeliveriesOK
  BY DEF Init, DeliveriesOK
<1>2. WorkersOK
  BY WorkerStates DEF Init, WorkersOK, Doing, Job, Idle
<1>3. HeadsOK
  BY DEF Init, HeadsOK
<1>4. RunOK
  BY DEF Init, NoRun, RunState, RunOK
<1> QED BY <1>1, <1>2, <1>3, <1>4 DEF Init, TypeOK

LEMMA NextTyped == ASSUME TypeOK, [Next]_vars PROVE TypeOK'
<1>1. CASE UNCHANGED vars
  BY <1>1 DEF vars, TypeOK, DeliveriesOK, WorkersOK, HeadsOK, RunOK, Doing, Job
<1> QED BY <1>1, GitHubTyped, WorkTyped, ReconcileTyped, LinkingTyped DEF Next

\* Deliveries, workers, heads and the reconciler's run are well formed: among other things one
\* round at a time has a delivery open, which is not done, a delivery is parked exactly when
\* its attempts are used up, and an app without a link keeps no head.
THEOREM BranchTyped == Spec => []TypeOK
  BY InitTyped, NextTyped, PTL DEF Spec

-----------------------------------------------------------------------------
(* Disconnecting                                                             *)

\* What a step may not do to an app that is not linked, before or after it.
LeftAlone(a) ==
    link[a] = "NONE" /\ link'[a] = "NONE" => published'[a] = published[a] /\ head'[a] = head[a]

\* Heads move and commits are published for linked apps only.
LEMMA OnlyTheLinkedMove == ASSUME TypeOK, [Next]_vars, NEW a \in Apps PROVE LeftAlone(a)
<1>1. CASE UNCHANGED headVars
  BY <1>1 DEF headVars, LeftAlone
<1>2. CASE \E w \in Workers : Apply(w)
  <2>1. PICK w \in Workers : Apply(w)
    BY <1>2
  <2>2. ASSUME link[a] = "NONE" PROVE a \notin Accepting(w)
    BY <2>2 DEF TypeOK, HeadsOK, Accepting, Deciding, Linked
  <2>3. a \notin Building(w) \/ a \in Accepting(w)
    BY DEF Building
  <2> QED BY <2>1, <2>2, <2>3 DEF Apply, LeftAlone
<1>3. CASE \E b \in Apps : RunStep(b)
  <2>1. PICK b \in Apps : RunStep(b)
    BY <1>3
  <2>2. CASE UNCHANGED headVars
    BY <2>2 DEF headVars, LeftAlone
  <2>3. CASE Linked(b) /\ ~UNCHANGED headVars
    <3>1. a # b => head'[a] = head[a] /\ published'[a] = published[a]
      <4>1. a # b => [head EXCEPT ![b] = run.sha][a] = head[a]
        BY DEF TypeOK, HeadsOK
      <4>2. a # b => [published EXCEPT ![b] = Append(published[b], run.sha)][a] = published[a]
        BY DEF TypeOK, HeadsOK
      <4> QED BY <2>1, <2>2, <4>1, <4>2 DEF RunStep, headVars
    <3>2. link[b] # "NONE"
      BY <2>3 DEF Linked, TypeOK, HeadsOK
    <3> QED BY <3>1, <3>2 DEF LeftAlone
  <2> QED BY <2>1, <2>2, <2>3 DEF RunStep
<1>4. CASE \E b \in Apps : Link(b) \/ Disconnect(b) \/ SwitchAway(b)
  BY <1>4 DEF Link, Disconnect, SwitchAway, Chain, LeftAlone, TypeOK, HeadsOK
<1>5. CASE UNCHANGED vars
  BY <1>1, <1>5 DEF vars, headVars
<1>6. CASE GitHub
  BY <1>1, <1>6 DEF GitHub, Push, PushAgain, Reported, Store, Due
<1>7. CASE \E w \in Workers : Work(w)
  <2>1. PICK w \in Workers : Work(w)
    BY <1>7
  <2>2. UNCHANGED headVars \/ Apply(w)
    BY <2>1 DEF Work, RoundOpen, Ask, Lease, GitHubAnswers, Reopen, RoundFails, RecordFailure,
                WorkerDrops
  <2> QED BY <1>1, <1>2, <2>2
<1>8. CASE Reconcile
  BY <1>1, <1>3, <1>8 DEF Reconcile, RunRead, RunEnds, RunTake, RunAsk, RunAnswered
<1>9. CASE Linking
  BY <1>1, <1>4, <1>9 DEF Linking, LinkCheck, SwitchTo
<1> QED BY <1>5, <1>6, <1>7, <1>8, <1>9 DEF Next

\* Pushes for an app stop at its disconnect, whatever a worker or the reconciler had read before.
THEOREM PushesStop == Spec => StopsAtDisconnect
<1>1. ASSUME TypeOK, [Next]_vars
      PROVE  [\A a \in Apps : link[a] = "NONE" /\ link'[a] = "NONE"
                               => published'[a] = published[a] /\ head'[a] = head[a]]_vars
  BY <1>1, OnlyTheLinkedMove DEF LeftAlone
<1> QED BY <1>1, BranchTyped, PTL DEF Spec, StopsAtDisconnect

-----------------------------------------------------------------------------
(* Apps with the same root directory, which one app alone is                 *)

\* What a worker asks and knows is about a push that touched an app: it asks for no other.
AskedForTouched ==
    \A w \in Workers : worker[w].asks # {} \/ worker[w].known # {} =>
        ~Doing(w, "IDLE") /\ \E a \in Apps : Touches(JobPush(w), a)

\* A worker's step that asks nothing new, or gives everything up.
LEMMA NothingNewAsked ==
    ASSUME TypeOK, AskedForTouched, NEW w \in Workers, NEW r, Put(w, r), UNCHANGED pushed,
           \/ r.asks = {} /\ r.known = {}
           \/ /\ r.delivery = Job(w) /\ r.phase # "IDLE"
              /\ r.asks # {} \/ r.known # {} => \E a \in Apps : Touches(JobPush(w), a)
    PROVE  AskedForTouched'
<1>1. worker'[w] = r /\ \A v \in Workers \ {w} : worker'[v] = worker[v]
  BY DEF Put, TypeOK, WorkersOK
<1> SUFFICES ASSUME NEW v \in Workers, worker'[v].asks # {} \/ worker'[v].known # {}
             PROVE  ~Doing(v, "IDLE")' /\ \E a \in Apps : Touches(JobPush(v), a)'
  BY DEF AskedForTouched
<1>2. CASE v = w
  <2>1. worker'[v].delivery = Job(w) /\ worker'[v].phase # "IDLE" /\ \E a \in Apps : Touches(JobPush(w), a)
    BY <1>1, <1>2
  <2>2. JobPush(v)' = JobPush(w)
    BY <2>1 DEF JobPush, Job
  <2> QED BY <2>1, <2>2 DEF Doing, Touches
<1>3. CASE v # w
  <2>1. ~Doing(v, "IDLE") /\ \E a \in Apps : Touches(JobPush(v), a)
    BY <1>1, <1>3 DEF AskedForTouched
  <2>2. worker'[v] = worker[v] /\ JobPush(v)' = JobPush(v)
    BY <1>1, <1>3 DEF JobPush, Job
  <2> QED BY <2>1, <2>2 DEF Doing, Touches
<1> QED BY <1>2, <1>3

LEMMA AskingKeeps == ASSUME TypeOK, AskedForTouched, NEW w \in Workers, Work(w) PROVE AskedForTouched'
<1>1. UNCHANGED pushed
  BY DEF Work, RoundOpen, Apply, Ask, Lease, GitHubAnswers, Reopen, RoundFails, RecordFailure, WorkerDrops,
         deliveryVars
<1>2. Idle.asks = {} /\ Idle.known = {} /\ worker[w] \in WorkerState
  BY DEF Idle, TypeOK, WorkersOK
<1>3. ASSUME Put(w, Idle) PROVE AskedForTouched'
  BY <1>1, <1>2, <1>3, NothingNewAsked
<1>4. ASSUME NEW d, Put(w, [Idle EXCEPT !.phase = "FAILED", !.delivery = d]) PROVE AskedForTouched'
  <2> DEFINE r == [Idle EXCEPT !.phase = "FAILED", !.delivery = d]
  <2>1. r.asks = {} /\ r.known = {}
    BY DEF Idle
  <2> HIDE DEF r
  <2>2. Put(w, r)
    BY <1>4 DEF r
  <2> QED BY <1>1, <2>1, <2>2, NothingNewAsked
<1>5. worker[w].asks # {} \/ worker[w].known # {} => \E a \in Apps : Touches(JobPush(w), a)
  BY DEF AskedForTouched
<1>6. CASE \E d \in Deliveries : RoundOpen(w, d)
  <2>1. PICK d \in Deliveries : RoundOpen(w, d)
    BY <1>6
  <2> DEFINE r == [Idle EXCEPT !.phase = "OPEN", !.delivery = d, !.targets = Targets]
  <2>2. r.asks = {} /\ r.known = {} /\ Put(w, r)
    BY <2>1 DEF RoundOpen, Idle
  <2> HIDE DEF r
  <2> QED BY <1>1, <2>2, NothingNewAsked
<1>7. CASE Ask(w)
  <2>1. CASE worker[w].rounds = MaxLookupRounds
    BY <1>4, <1>7, <2>1 DEF Ask
  <2>2. CASE worker[w].rounds # MaxLookupRounds
    <3> DEFINE r == [worker[w] EXCEPT !.phase = "ASKING", !.asks = Unanswered(w), !.targets = {}, !.rounds = @ + 1]
    <3>1. r.delivery = Job(w) /\ r.phase # "IDLE" /\ Put(w, r)
      BY <1>2, <1>7, <2>2 DEF Ask, WorkerState, Job
    <3>2. \E a \in Apps : Touches(JobPush(w), a)
      <4>1. PICK a \in Deciding(w) : Touches(JobPush(w), a)
        BY <1>7 DEF Ask, Unanswered
      <4> QED BY <1>2, <4>1, WorkerStates DEF Deciding
    <3> HIDE DEF r
    <3> QED BY <1>1, <3>1, <3>2, NothingNewAsked
  <2> QED BY <2>1, <2>2
<1>8. CASE Lease(w)
  <2> DEFINE r == [worker[w] EXCEPT !.phase = "LEASED"]
  <2>1. r.delivery = Job(w) /\ r.phase # "IDLE" /\ r.asks = worker[w].asks /\ r.known = worker[w].known
    BY <1>2 DEF WorkerState, Job
  <2>2. Put(w, r) \/ Put(w, Idle)
    BY <1>8 DEF Lease
  <2> HIDE DEF r
  <2> QED BY <1>1, <1>3, <1>5, <2>1, <2>2, NothingNewAsked
<1>9. CASE GitHubAnswers(w)
  <2>1. PICK A : Put(w, [worker[w] EXCEPT !.phase = "ANSWERED", !.known = @ \cup A, !.asks = {}])
    BY <1>9 DEF GitHubAnswers
  <2> DEFINE r == [worker[w] EXCEPT !.phase = "ANSWERED", !.known = @ \cup A, !.asks = {}]
  <2>2. r.delivery = Job(w) /\ r.phase # "IDLE" /\ Put(w, r)
    BY <1>2, <2>1 DEF WorkerState, Job
  <2>3. worker[w].asks # {}
    BY <1>9 DEF GitHubAnswers, TypeOK, WorkersOK
  <2> HIDE DEF r
  <2> QED BY <1>1, <1>5, <2>2, <2>3, NothingNewAsked
<1>10. CASE Reopen(w)
  <2> DEFINE r == [worker[w] EXCEPT !.phase = "OPEN", !.targets = Targets]
  <2>1. r.delivery = Job(w) /\ r.phase # "IDLE" /\ r.asks = worker[w].asks /\ r.known = worker[w].known
    BY <1>2 DEF WorkerState, Job
  <2>2. Put(w, r) \/ Put(w, Idle)
    BY <1>10 DEF Reopen
  <2> HIDE DEF r
  <2> QED BY <1>1, <1>3, <1>5, <2>1, <2>2, NothingNewAsked
<1>11. CASE RoundFails(w)
  BY <1>4, <1>11 DEF RoundFails
<1>12. CASE Apply(w) \/ RecordFailure(w) \/ WorkerDrops(w)
  BY <1>3, <1>12 DEF Apply, RecordFailure, WorkerDrops
<1> QED BY <1>6, <1>7, <1>8, <1>9, <1>10, <1>11, <1>12 DEF Work

\* A push keeps its record, so what was asked about it stays about one that touched an app.
LEMMA AskedStays == ASSUME TypeOK, AskedForTouched, [Next]_vars PROVE AskedForTouched'
<1>1. ASSUME UNCHANGED worker, \A d \in Deliveries : stored[d] # "UNSENT" => pushed'[d] = pushed[d]
      PROVE  AskedForTouched'
  <2> SUFFICES ASSUME NEW v \in Workers, worker'[v].asks # {} \/ worker'[v].known # {}
               PROVE  ~Doing(v, "IDLE")' /\ \E a \in Apps : Touches(JobPush(v), a)'
    BY DEF AskedForTouched
  <2>1. ~Doing(v, "IDLE") /\ \E a \in Apps : Touches(JobPush(v), a)
    BY <1>1 DEF AskedForTouched
  <2>2. JobPush(v)' = JobPush(v)
    BY <1>1, <2>1, Decided DEF JobPush, Job
  <2> QED BY <1>1, <2>1, <2>2 DEF Doing, Touches
<1>2. CASE GitHub
  <2>1. \A d \in Deliveries : stored[d] # "UNSENT" => pushed'[d] = pushed[d]
    <3>1. ASSUME NEW e \in Deliveries, NEW push, Reported(e, push), Unsent(e)
          PROVE  \A d \in Deliveries : stored[d] # "UNSENT" => pushed'[d] = pushed[d]
      BY <3>1 DEF Reported, Unsent, TypeOK, DeliveriesOK
    <3> QED BY <1>2, <3>1 DEF GitHub, Push, PushAgain, Store, Due
  <2> QED BY <1>1, <1>2, <2>1 DEF GitHub, Push, PushAgain, Reported, Store, Due
<1>3. CASE \E w \in Workers : Work(w)
  BY <1>3, AskingKeeps
<1>4. CASE Reconcile \/ Linking \/ UNCHANGED vars
  <2>1. UNCHANGED <<worker, deliveryVars>>
    BY <1>4 DEF Reconcile, RunRead, RunEnds, RunTake, RunStep, RunAsk, RunAnswered, Linking, LinkCheck, Link,
                Disconnect, SwitchAway, SwitchTo, vars, deliveryVars
  <2> QED BY <1>1, <2>1 DEF deliveryVars
<1> QED BY <1>2, <1>3, <1>4 DEF Next

\* How a head gets from one commit to another: by a push that is not published only if it
\* touches nothing of the app.
LEMMA HeadMovesKnowing ==
    ASSUME \A a, b \in Apps : Touching[a] = Touching[b],
           TypeOK, AskedForTouched, [Next]_vars, NEW a \in Apps,
           head[a] # None, head'[a] # None, head'[a] # head[a],
           (History[head'[a]] \ History[head[a]]) \cap Touching[a] # {}
    PROVE  published'[a] = Append(published[a], head'[a])
<1>1. CASE UNCHANGED headVars
  BY <1>1 DEF headVars
<1>2. CASE \E w \in Workers : Apply(w)
  <2>1. PICK w \in Workers : Apply(w)
    BY <1>2
  <2>2. a \in Accepting(w) /\ head'[a] = JobPush(w).after
    BY <2>1 DEF Apply
  <2>3. Touches(JobPush(w), a)
    <3>1. Decision(w, a) = "ACCEPT" /\ JobPush(w).after # head[a]
      BY <2>2 DEF Accepting
    <3>2. CASE JobPush(w).before = head[a] \/ JobPush(w).forced
      BY <2>2, <3>2 DEF Touches
    <3>3. CASE ~(JobPush(w).before = head[a] \/ JobPush(w).forced)
      <4>1. worker[w].known # {}
        BY <3>1, <3>3 DEF Decision, ChainRule
      <4>2. PICK b \in Apps : Touches(JobPush(w), b)
        BY <4>1 DEF AskedForTouched
      <4>3. Touching[a] = Touching[b]
        OBVIOUS
      <4> QED BY <4>2, <4>3 DEF Touches
    <3> QED BY <3>2, <3>3
  <2> QED BY <2>1, <2>2, <2>3 DEF Apply, Building
<1>3. CASE \E b \in Apps : RunStep(b)
  <2>1. PICK b \in Apps : RunStep(b)
    BY <1>3
  <2>2. head'[a] # head[a] => b = a
    BY <2>1 DEF RunStep, headVars, TypeOK, HeadsOK
  <2> QED BY <2>1, <2>2 DEF RunStep, headVars, TypeOK, HeadsOK
<1>4. CASE \E b \in Apps : Link(b) \/ Disconnect(b) \/ SwitchAway(b)
  <2>1. PICK b \in Apps : Link(b) \/ Disconnect(b) \/ SwitchAway(b)
    BY <1>4
  <2>2. \E sha : head' = [head EXCEPT ![b] = sha] /\ (sha = None \/ link[b] = "NONE")
    BY <2>1 DEF Link, Disconnect, SwitchAway, Chain
  <2>3. a = b /\ link[b] = "NONE"
    BY <2>2 DEF TypeOK, HeadsOK
  <2> QED BY <2>3 DEF TypeOK, HeadsOK
<1>5. CASE UNCHANGED vars
  BY <1>1, <1>5 DEF vars, headVars
<1>6. CASE GitHub
  BY <1>1, <1>6 DEF GitHub, Push, PushAgain, Reported, Store, Due
<1>7. CASE \E w \in Workers : Work(w)
  <2>1. PICK w \in Workers : Work(w)
    BY <1>7
  <2>2. UNCHANGED headVars \/ Apply(w)
    BY <2>1 DEF Work, RoundOpen, Ask, Lease, GitHubAnswers, Reopen, RoundFails, RecordFailure,
                WorkerDrops
  <2> QED BY <1>1, <1>2, <2>2
<1>8. CASE Reconcile
  BY <1>1, <1>3, <1>8 DEF Reconcile, RunRead, RunEnds, RunTake, RunAsk, RunAnswered
<1>9. CASE Linking
  BY <1>1, <1>4, <1>9 DEF Linking, LinkCheck, SwitchTo
<1> QED BY <1>5, <1>6, <1>7, <1>8, <1>9 DEF Next

\* While all apps on the branch have the same root directory, no head moves past a change to it
\* without a build, whatever is rewritten, lost or overtaken: the only pushes that are not
\* compared are those that change nothing of any app.
THEOREM NothingPassedOver ==
    ASSUME \A a, b \in Apps : Touching[a] = Touching[b]
    PROVE  Spec => NoChangePassedOver
<1>1. Init => AskedForTouched
  BY DEF Init, Idle, AskedForTouched
<1>2. TypeOK /\ AskedForTouched /\ [Next]_vars => AskedForTouched'
  BY AskedStays
<1>3. TypeOK /\ AskedForTouched /\ [Next]_vars =>
        [\A a \in Apps :
           (/\ None \notin {head[a], head'[a]} /\ head'[a] # head[a]
            /\ (History[head'[a]] \ History[head[a]]) \cap Touching[a] # {})
           => published'[a] = Append(published[a], head'[a])]_vars
  BY HeadMovesKnowing
<1> QED BY <1>1, <1>2, <1>3, BranchTyped, PTL DEF Spec, NoChangePassedOver

-----------------------------------------------------------------------------
(* A branch that only grows                                                  *)

\* GitHub's heads of the branch, one after the other.
Line(S) ==
    /\ S \subseteq Commits /\ gh \in S
    /\ \A c \in S : c \in History[gh]
    /\ \A c, d \in S : c \in History[d] \/ d \in History[c]

\* h is a commit that c was built on.
Precedes(h, c) == h \in History[c] /\ h # c

\* An answer that lets a head move names a later commit.
Sound(x) == x.status \in {"AHEAD", "DIVERGED"} => Precedes(x.asked[1], x.asked[2])

\* What was published for a chain is what its head was built on, in that order.
LogOK(h, log) ==
    /\ h = None => log = <<>>
    /\ \A j \in DOMAIN log : log[j] \in History[h]
    /\ \A j, k \in DOMAIN log : j < k => log[k] \notin History[log[j]]

PushesOn(S) == \A d \in Deliveries : stored[d] # "UNSENT" =>
    /\ pushed[d].before \in S /\ pushed[d].after \in S /\ ~pushed[d].forced
    /\ Precedes(pushed[d].before, pushed[d].after)

WorkOn(S) == \A w \in Workers :
    worker[w].asks \subseteq S \X S /\ \A x \in worker[w].known : Sound(x)

HeadsOn(S) == \A a \in Apps :
    /\ head[a] \in S \cup {None} /\ checked[a] \in S \cup {None}
    /\ LogOK(head[a], published[a])

RunOn(S) ==
    run.sha \in S \cup {None} /\ run.asks \subseteq S \X S /\ \A x \in run.known : Sound(x)

Growing(S) == Line(S) /\ PushesOn(S) /\ WorkOn(S) /\ HeadsOn(S) /\ RunOn(S)

\* Everything that is stored, asked and known is about heads that GitHub had.
GrowingInv == TypeOK /\ \E S \in SUBSET Commits : Growing(S)

\* A log and its head, moved past.
LEMMA LogMoves ==
    ASSUME NEW h \in Commits \cup {None}, NEW c \in Commits, NEW log \in Seq(Commits),
           LogOK(h, log), h = None \/ h = c \/ Precedes(h, c)
    PROVE  LogOK(c, log)
<1>1. CASE h = None
  <2>1. DOMAIN log = {}
    BY <1>1 DEF LogOK
  <2> QED BY <2>1 DEF LogOK
<1>2. CASE h # None
  <2>1. History[h] \subseteq History[c]
    BY <1>2 DEF Precedes
  <2> QED BY <1>2, <2>1 DEF LogOK
<1> QED BY <1>1, <1>2

\* A log, published to.
LEMMA LogGrows ==
    ASSUME NEW h \in Commits \cup {None}, NEW c \in Commits, NEW log \in Seq(Commits),
           LogOK(h, log), h = None \/ Precedes(h, c)
    PROVE  LogOK(c, Append(log, c))
<1> DEFINE more == Append(log, c)
<1>1. /\ Len(log) \in Nat /\ DOMAIN log = 1..Len(log) /\ DOMAIN more = 1..(Len(log) + 1)
      /\ more[Len(log) + 1] = c /\ \A j \in 1..Len(log) : more[j] = log[j] /\ log[j] \in Commits
  BY LenProperties, AppendProperties, ElementOfSeq
<1>2. LogOK(c, log)
  BY LogMoves
<1>3. \A j \in 1..Len(log) : c \notin History[log[j]]
  <2>1. CASE h = None
    <3>1. DOMAIN log = {}
      BY <2>1 DEF LogOK
    <3> QED BY <1>1, <3>1
  <2>2. CASE h # None
    <3>1. c \notin History[h]
      BY <2>2 DEF Precedes
    <3>2. \A j \in 1..Len(log) : log[j] \in History[h]
      BY <1>1 DEF LogOK
    <3>3. \A j \in 1..Len(log) : History[log[j]] \subseteq History[h]
      BY <1>1, <2>2, <3>2
    <3> QED BY <3>1, <3>3
  <2> QED BY <2>1, <2>2
<1> HIDE DEF more
<1>4. \A j \in DOMAIN more : more[j] \in History[c]
  BY <1>1, <1>2 DEF LogOK
<1>5. ASSUME NEW j \in DOMAIN more, NEW k \in DOMAIN more, j < k
      PROVE  more[k] \notin History[more[j]]
  <2>1. j \in 1..Len(log) /\ (k \in 1..Len(log) \/ k = Len(log) + 1)
    BY <1>1, <1>5
  <2> QED BY <1>1, <1>2, <1>3, <1>5, <2>1 DEF LogOK
<1> QED BY <1>4, <1>5 DEF LogOK, more

\* The chain rule lets a head move to a commit that was built on it only.
LEMMA AcceptedIsLater ==
    ASSUME NEW h \in Commits \cup {None}, NEW push \in PushRecord, NEW K \in SUBSET Answer,
           \A x \in K : Sound(x), ~push.forced,
           push.before = None \/ Precedes(push.before, push.after),
           ChainRule(h, push, K) = "ACCEPT"
    PROVE  h = None \/ Precedes(h, push.after)
<1> DEFINE asked == {x \in K : x.asked = <<h, push.after>>}
           answer == {a.status : a \in asked}
<1>1. SUFFICES ASSUME h # None PROVE Precedes(h, push.after)
  OBVIOUS
<1>2. CASE push.before = h
  BY <1>1, <1>2
<1>3. CASE push.before # h
  <2>1. answer # {} /\ answer \subseteq {"AHEAD", "DIVERGED"}
    BY <1>1, <1>3 DEF ChainRule
  <2>2. PICK x \in asked : x.status \in {"AHEAD", "DIVERGED"}
    BY <2>1
  <2> QED BY <2>2 DEF Sound
<1> QED BY <1>2, <1>3

\* GitHub answers truly about heads that it had.
LEMMA AnswersSound ==
    ASSUME NEW S, Line(S), NEW Q \in SUBSET (S \X S), NEW A \in Answered(Q)
    PROVE  \A x \in A : Sound(x)
<1>1. PICK f \in [Q -> Statuses] : /\ A = {[asked |-> q, status |-> f[q]] : q \in Q}
                                   /\ \A q \in Q : f[q] \in Compared(q[1], q[2])
  BY DEF Answered
<1>2. ASSUME NEW q \in Q
      PROVE  Sound([asked |-> q, status |-> f[q]])
  <2>1. /\ q[1] \in S /\ q[2] \in S /\ q[1] \in History[gh] /\ q[2] \in History[gh]
        /\ q[1] \in History[q[2]] \/ q[2] \in History[q[1]]
    BY DEF Line
  <2>2. f[q] = Status(q[1], q[2])
    BY <1>1, <2>1 DEF Compared
  <2> QED BY <2>1, <2>2 DEF Status, Sound, Precedes
<1> QED BY <1>1, <1>2

\* Each part of the system keeps to heads that GitHub had.
LEMMA GitHubGrows ==
    ASSUME Rewrites = {}, TypeOK, NEW S, Growing(S), GitHub
    PROVE  \E T \in SUBSET Commits : Growing(T)'
<1>1. UNCHANGED <<worker, linkVars, headVars, run>>
  BY DEF GitHub, Push, PushAgain, Reported, Store, Due
<1>2. ASSUME NEW T, S \subseteq T
      PROVE  WorkOn(T)' /\ HeadsOn(T)' /\ RunOn(T)'
  <2>1. WorkOn(T)'
    BY <1>1, <1>2 DEF Growing, WorkOn
  <2>2. HeadsOn(T)' /\ RunOn(T)'
    BY <1>1, <1>2 DEF Growing, HeadsOn, RunOn, linkVars, headVars
  <2> QED BY <2>1, <2>2
<1>3. S \in SUBSET Commits
  BY DEF Growing, Line
<1>4. CASE \E d \in Deliveries, c \in Commits : Push(d, c)
  <2>1. PICK d \in Deliveries, c \in Commits : Push(d, c)
    BY <1>4
  <2> DEFINE T == S \cup {c}
  <2>2. /\ gh' = c /\ gh \in History[c] /\ gh # c
        /\ Reported(d, [before |-> gh, after |-> c, forced |-> FALSE])
    BY <2>1 DEF Push
  <2>3. Line(T)'
    <3>1. \A b \in S : b \in History[c]
      BY <2>2 DEF Growing, Line, TypeOK
    <3> QED BY <1>3, <2>2, <3>1 DEF Growing, Line
  <2>4. PushesOn(T)'
    BY <2>2 DEF Growing, PushesOn, Line, Reported, Precedes, TypeOK, DeliveriesOK
  <2> QED BY <1>2, <1>3, <2>3, <2>4 DEF Growing
<1>5. CASE ~\E d \in Deliveries, c \in Commits : Push(d, c)
  <2>1. gh' = gh
    BY <1>5 DEF GitHub, PushAgain, Store, Due
  <2>2. Line(S)'
    BY <2>1 DEF Growing, Line
  <2>3. PushesOn(S)'
    <3>0. \A d \in Deliveries : stored[d] # "UNSENT" =>
              /\ pushed[d].before \in S /\ pushed[d].after \in S /\ ~pushed[d].forced
              /\ Precedes(pushed[d].before, pushed[d].after)
      BY DEF Growing, PushesOn
    <3>1. CASE \E d, e \in Deliveries : PushAgain(d, e)
      <4>1. PICK d \in Deliveries, e \in Deliveries : PushAgain(d, e)
        BY <3>1
      <4>2. /\ stored[e] # "UNSENT" /\ stored' = [stored EXCEPT ![d] = "SENT"]
            /\ pushed' = [pushed EXCEPT ![d] = pushed[e]]
        BY <4>1 DEF PushAgain, Reported
      <4>3. \A x \in Deliveries : \/ x = d /\ pushed'[x] = pushed[e]
                                  \/ pushed'[x] = pushed[x] /\ stored'[x] = stored[x]
        BY <4>2 DEF TypeOK, DeliveriesOK
      <4> QED BY <3>0, <4>2, <4>3 DEF PushesOn
    <3>2. CASE \E d \in Deliveries : Store(d)
      <4>1. PICK d \in Deliveries : Store(d)
        BY <3>2
      <4>2. stored[d] = "SENT" /\ stored' = [stored EXCEPT ![d] = "RECEIVED"] /\ pushed' = pushed
        BY <4>1 DEF Store
      <4>3. \A x \in Deliveries : stored'[x] # "UNSENT" => stored[x] # "UNSENT"
        BY <4>2 DEF TypeOK, DeliveriesOK
      <4> QED BY <3>0, <4>2, <4>3 DEF PushesOn
    <3>3. CASE \E d \in Deliveries : Due(d)
      BY <3>3 DEF Growing, PushesOn, Due
    <3> QED BY <1>5, <3>1, <3>2, <3>3 DEF GitHub
  <2> QED BY <1>2, <1>3, <2>2, <2>3 DEF Growing
<1> QED BY <1>4, <1>5

\* The heads after a round or a run's step for one app.
LEMMA HeadsGrow ==
    ASSUME TypeOK, NEW S, Growing(S), checked' = checked,
           head' \in [Apps -> Commits \cup {None}],
           \A a \in Apps :
               \/ head'[a] = head[a] /\ published'[a] = published[a]
               \/ /\ head'[a] \in S
                  /\ head[a] = None \/ head[a] = head'[a] \/ Precedes(head[a], head'[a])
                  /\ published'[a] = published[a]
               \/ /\ head'[a] \in S
                  /\ head[a] = None \/ Precedes(head[a], head'[a])
                  /\ published'[a] = Append(published[a], head'[a])
    PROVE  HeadsOn(S)'
<1> SUFFICES ASSUME NEW a \in Apps
             PROVE  head'[a] \in S \cup {None} /\ LogOK(head'[a], published'[a])
  BY DEF Growing, HeadsOn
<1>1. /\ head[a] \in Commits \cup {None} /\ published[a] \in Seq(Commits)
      /\ head[a] \in S \cup {None} /\ LogOK(head[a], published[a]) /\ S \subseteq Commits
  BY DEF Growing, HeadsOn, Line, TypeOK, HeadsOK
<1>2. CASE head'[a] = head[a] /\ published'[a] = published[a]
  BY <1>1, <1>2
<1>3. CASE /\ head'[a] \in S
           /\ head[a] = None \/ head[a] = head'[a] \/ Precedes(head[a], head'[a])
           /\ published'[a] = published[a]
  BY <1>1, <1>3, LogMoves
<1>4. CASE /\ head'[a] \in S
           /\ head[a] = None \/ Precedes(head[a], head'[a])
           /\ published'[a] = Append(published[a], head'[a])
  BY <1>1, <1>4, LogGrows
<1> QED BY <1>2, <1>3, <1>4

LEMMA WorkGrows ==
    ASSUME TypeOK, NEW S, Growing(S), NEW w \in Workers, Work(w)
    PROVE  Growing(S)'
<1>1. UNCHANGED <<gh, pushed, linkVars, run>>
  BY DEF Work, RoundOpen, Apply, Ask, Lease, GitHubAnswers, Reopen, RoundFails, RecordFailure,
         WorkerDrops, deliveryVars
<1>2. Line(S)' /\ RunOn(S)'
  BY <1>1 DEF Growing, Line, RunOn
<1>3. PushesOn(S)'
  <2>1. \A d \in Deliveries : stored'[d] # "UNSENT" => stored[d] # "UNSENT"
    <3>1. stored' = stored \/ Apply(w) \/ RecordFailure(w)
      BY DEF Work, RoundOpen, Ask, Lease, GitHubAnswers, Reopen, RoundFails, WorkerDrops, deliveryVars
    <3>2. CASE Apply(w)
      BY <3>2, Decided DEF Apply, Doing, TypeOK, DeliveriesOK
    <3>3. CASE RecordFailure(w)
      BY <3>3, Decided DEF RecordFailure, Doing, TypeOK, DeliveriesOK
    <3> QED BY <3>1, <3>2, <3>3
  <2> QED BY <1>1, <2>1 DEF Growing, PushesOn
<1>4. HeadsOn(S)'
  <2>1. CASE UNCHANGED headVars
    BY <1>1, <2>1 DEF Growing, HeadsOn, headVars, linkVars
  <2>2. CASE Apply(w)
    <3>1. /\ Job(w) \in Deliveries /\ stored[Job(w)] # "UNSENT" /\ JobPush(w) \in PushRecord
          /\ Building(w) \subseteq Accepting(w) /\ worker[w].known \subseteq Answer
      BY <2>2, Decided, WorkerStates DEF Apply, Doing
    <3>2. /\ JobPush(w).after \in S /\ ~JobPush(w).forced
          /\ Precedes(JobPush(w).before, JobPush(w).after)
      BY <3>1 DEF Growing, PushesOn, JobPush
    <3>3. ASSUME NEW a \in Apps, a \in Accepting(w)
          PROVE  head[a] = None \/ Precedes(head[a], JobPush(w).after)
      <4>1. /\ ChainRule(head[a], JobPush(w), worker[w].known) = "ACCEPT"
            /\ head[a] \in Commits \cup {None}
        BY <3>3 DEF Accepting, Decision, TypeOK, HeadsOK
      <4>2. \A x \in worker[w].known : Sound(x)
        BY DEF Growing, WorkOn
      <4> QED BY <3>1, <3>2, <4>1, <4>2, AcceptedIsLater
    <3>4. ASSUME NEW a \in Apps
          PROVE  /\ head'[a] = IF a \in Accepting(w) THEN JobPush(w).after ELSE head[a]
                 /\ published'[a] = IF a \in Building(w) THEN Append(published[a], JobPush(w).after)
                                    ELSE published[a]
      BY <2>2 DEF Apply
    <3>5. head' \in [Apps -> Commits \cup {None}]
      BY <3>1, <2>2 DEF Apply, PushRecord, TypeOK, HeadsOK
    <3> QED BY <1>1, <3>1, <3>2, <3>3, <3>4, <3>5, HeadsGrow DEF linkVars
  <2> QED BY <2>1, <2>2 DEF Work, RoundOpen, Ask, Lease, GitHubAnswers, Reopen, RoundFails,
                            RecordFailure, WorkerDrops
<1>5. WorkOn(S)'
  <2>1. ASSUME NEW r, Put(w, r), r.asks \subseteq S \X S, \A x \in r.known : Sound(x)
        PROVE  WorkOn(S)'
    BY <2>1 DEF Growing, WorkOn, Put, TypeOK, WorkersOK
  <2>2. /\ worker[w] \in WorkerState /\ worker[w].asks \subseteq S \X S
        /\ \A x \in worker[w].known : Sound(x)
    BY DEF Growing, WorkOn, TypeOK, WorkersOK
  <2>3. /\ Idle.asks = {} /\ Idle.known = {}
        /\ \A r : Put(w, r) /\ r.asks \in {{}, worker[w].asks} /\ r.known \in {{}, worker[w].known}
                  => WorkOn(S)'
    <3>1. Idle.asks = {} /\ Idle.known = {}
      BY DEF Idle
    <3>2. ASSUME NEW r, Put(w, r), r.asks \in {{}, worker[w].asks}, r.known \in {{}, worker[w].known}
          PROVE  WorkOn(S)'
      <4>1. r.asks \subseteq S \X S
        BY <2>2, <3>2
      <4>2. \A x \in r.known : Sound(x)
        BY <2>2, <3>2
      <4> QED BY <2>1, <3>2, <4>1, <4>2
    <3> QED BY <3>1, <3>2
  <2>4. CASE Ask(w) /\ worker[w].rounds # MaxLookupRounds
    <3>1. Unanswered(w) \subseteq S \X S
      <4>1. /\ Job(w) \in Deliveries /\ stored[Job(w)] # "UNSENT" /\ ~Doing(w, "IDLE")
        BY <2>4, Decided DEF Ask, Doing
      <4>2. JobPush(w).after \in S
        BY <4>1 DEF Growing, PushesOn, JobPush
      <4>3. \A a \in Apps : head[a] \in S \cup {None}
        BY DEF Growing, HeadsOn
      <4> QED BY <4>1, <4>2, <4>3, Asked
    <3> DEFINE r == [worker[w] EXCEPT !.phase = "ASKING", !.asks = Unanswered(w), !.targets = {}, !.rounds = @ + 1]
    <3>2. r.asks = Unanswered(w) /\ r.known = worker[w].known /\ Put(w, r)
      BY <2>2, <2>4 DEF Ask, WorkerState
    <3> HIDE DEF r
    <3> QED BY <2>1, <2>2, <3>1, <3>2
  <2>5. CASE GitHubAnswers(w)
    <3> DEFINE new == {q \in worker[w].asks : \A a \in worker[w].known : a.asked # q}
    <3>1. PICK A \in Answered(new) :
            Put(w, [worker[w] EXCEPT !.phase = "ANSWERED", !.known = @ \cup A, !.asks = {}])
      BY <2>5 DEF GitHubAnswers
    <3>2. new \in SUBSET (S \X S)
      BY <2>2
    <3>3. \A x \in A : Sound(x)
      <4> HIDE DEF new
      <4> QED BY <3>2, AnswersSound DEF Growing
    <3> DEFINE r == [worker[w] EXCEPT !.phase = "ANSWERED", !.known = @ \cup A, !.asks = {}]
    <3>4. r.asks = {} /\ r.known = worker[w].known \cup A /\ Put(w, r)
      BY <2>2, <3>1 DEF WorkerState
    <3> HIDE DEF r
    <3> QED BY <2>1, <2>2, <3>3, <3>4
  <2>6. CASE \E d \in Deliveries : RoundOpen(w, d)
    <3>1. PICK d \in Deliveries :
            Put(w, [Idle EXCEPT !.phase = "OPEN", !.delivery = d, !.targets = Targets])
      BY <2>6 DEF RoundOpen
    <3> DEFINE r == [Idle EXCEPT !.phase = "OPEN", !.delivery = d, !.targets = Targets]
    <3>2. r.asks = {} /\ r.known = {} /\ Put(w, r)
      BY <3>1 DEF Idle
    <3> HIDE DEF r
    <3> QED BY <2>3, <3>2
  <2>7. CASE \/ Apply(w) \/ (Ask(w) /\ worker[w].rounds = MaxLookupRounds)
             \/ RoundFails(w) \/ RecordFailure(w) \/ WorkerDrops(w)
    <3> DEFINE r == [Idle EXCEPT !.phase = "FAILED", !.delivery = Job(w)]
    <3>1. Put(w, Idle) \/ Put(w, r)
      BY <2>7 DEF Apply, Ask, RoundFails, RecordFailure, WorkerDrops
    <3>2. r.asks = {} /\ r.known = {}
      BY DEF Idle
    <3> HIDE DEF r
    <3>3. Put(w, Idle) => WorkOn(S)'
      BY <2>3
    <3>4. Put(w, r) => WorkOn(S)'
      BY <2>3, <3>2
    <3> QED BY <3>1, <3>3, <3>4
  <2>8. CASE Lease(w) \/ Reopen(w)
    <3> DEFINE p == [worker[w] EXCEPT !.phase = "LEASED"]
               q == [worker[w] EXCEPT !.phase = "OPEN", !.targets = Targets]
    <3>1. Put(w, Idle) \/ Put(w, p) \/ Put(w, q)
      BY <2>8 DEF Lease, Reopen
    <3>2. /\ p.asks = worker[w].asks /\ p.known = worker[w].known
          /\ q.asks = worker[w].asks /\ q.known = worker[w].known
      BY <2>2 DEF WorkerState
    <3> HIDE DEF p, q
    <3>3. Put(w, Idle) => WorkOn(S)'
      BY <2>3
    <3>4. Put(w, p) => WorkOn(S)'
      BY <2>3, <3>2
    <3>5. Put(w, q) => WorkOn(S)'
      BY <2>3, <3>2
    <3> QED BY <3>1, <3>3, <3>4, <3>5
  <2>9. CASE Ask(w)
    BY <2>4, <2>7, <2>9
  <2> QED BY <2>5, <2>6, <2>7, <2>8, <2>9, Zenon DEF Work
<1> QED BY <1>2, <1>3, <1>4, <1>5 DEF Growing

LEMMA ReconcileGrows == ASSUME TypeOK, NEW S, Growing(S), Reconcile PROVE Growing(S)'
<1>1. UNCHANGED <<gh, deliveryVars, worker, linkVars>>
  BY DEF Reconcile, RunRead, RunEnds, RunTake, RunStep, RunAsk, RunAnswered
<1>2. Line(S)' /\ PushesOn(S)' /\ WorkOn(S)'
  BY <1>1 DEF Growing, Line, PushesOn, WorkOn, deliveryVars
<1>3. HeadsOn(S)'
  <2>1. CASE UNCHANGED headVars
    BY <1>1, <2>1 DEF Growing, HeadsOn, headVars, linkVars
  <2>2. CASE \E a \in Apps : RunStep(a) /\ ~UNCHANGED headVars
    <3>1. PICK a \in Apps : RunStep(a) /\ ~UNCHANGED headVars
      BY <2>2
    <3>2. run.sha \in Commits /\ run.sha \in S /\ run.known \subseteq Answer
      <4>1. a \in run.todo
        BY <3>1, RunStates DEF RunStep, Taken
      <4> QED BY <4>1, RunStates DEF Growing, RunOn
    <3>3. \/ head'[a] = head[a] /\ published'[a] = published[a]
          \/ /\ head'[a] = run.sha /\ head[a] = None /\ published'[a] = published[a]
          \/ /\ head'[a] = run.sha /\ RunDecision(a) = "ACCEPT"
             /\ published'[a] = Append(published[a], run.sha)
      BY <3>1 DEF RunStep, TypeOK, HeadsOK
    <3>4. \A b \in Apps \ {a} : head'[b] = head[b] /\ published'[b] = published[b]
      BY <3>1 DEF RunStep, TypeOK, HeadsOK
    <3>5. RunDecision(a) = "ACCEPT" => head[a] = None \/ Precedes(head[a], run.sha)
      <4>1. Found \in PushRecord /\ ~Found.forced /\ Found.before = None /\ Found.after = run.sha
        BY <3>2 DEF Found, PushRecord
      <4>2. head[a] \in Commits \cup {None} /\ \A x \in run.known : Sound(x)
        BY DEF Growing, RunOn, TypeOK, HeadsOK
      <4> QED BY <3>2, <4>1, <4>2, AcceptedIsLater DEF RunDecision
    <3>6. head' \in [Apps -> Commits \cup {None}]
      <4>1. TypeOK'
        BY ReconcileTyped
      <4> QED BY <4>1 DEF TypeOK, HeadsOK
    <3> QED BY <1>1, <3>2, <3>3, <3>4, <3>5, <3>6, HeadsGrow DEF linkVars
  <2> QED BY <2>1, <2>2 DEF Reconcile, RunRead, RunEnds, RunTake, RunAsk, RunAnswered
<1>4. RunOn(S)'
  <2>1. CASE RunRead
    <3> DEFINE r == [NoRun EXCEPT !.phase = "NEXT", !.sha = gh, !.todo = Targets]
    <3>1. r.sha = gh /\ r.asks = {} /\ r.known = {} /\ run' = r
      BY <2>1 DEF RunRead, NoRun
    <3> HIDE DEF r
    <3> QED BY <3>1 DEF RunOn, Growing, Line
  <2>2. ASSUME run' = NoRun \/ (run'.sha = run.sha /\ run'.asks = {} /\ \A x \in run'.known : Sound(x))
        PROVE  RunOn(S)'
    <3>1. NoRun.sha = None /\ NoRun.asks = {} /\ NoRun.known = {}
      BY DEF NoRun
    <3> QED BY <2>2, <3>1 DEF Growing, RunOn
  <2>3. \A x \in run.known : Sound(x)
    BY DEF Growing, RunOn
  <2>4. CASE \E a \in Apps : RunStep(a)
    <3>1. PICK a \in run.todo : Done(a, run.known)
      BY <2>4, RunStates DEF RunStep, Taken
    <3> QED BY <2>2, <2>3, <3>1, DoneTyped, RunStates
  <2>5. CASE \E a \in Apps : RunTake(a)
    <3>1. PICK a \in run.todo : Take(a, run.known, 0)
      BY <2>5 DEF RunTake
    <3>2. 0 \in 0..MaxLookupRounds /\ run.known \in SUBSET Answer
      BY RunStates, BoundsAssumption
    <3>3. run' = NoRun \/ (run'.sha = run.sha /\ run'.known = run.known /\ run'.asks = {})
      BY <3>1, <3>2, TakeTyped
    <3> QED BY <2>2, <2>3, <3>3
  <2>6. CASE \E a \in Apps : RunAsk(a)
    <3>1. PICK a \in Apps : RunAsk(a)
      BY <2>6
    <3>2. {<<head[a], run.sha>>} \subseteq S \X S
      <4>1. head[a] # None
        BY <3>1 DEF RunAsk, RunDecision, ChainRule
      <4>2. run.sha # None
        BY <3>1, RunStates DEF RunAsk, Taken
      <4> QED BY <4>1, <4>2 DEF Growing, HeadsOn, RunOn
    <3> DEFINE r == [run EXCEPT !.phase = "ASKING", !.asks = {<<head[a], run.sha>>}]
    <3>3. r.sha = run.sha /\ r.asks = {<<head[a], run.sha>>} /\ r.known = run.known
      BY DEF TypeOK, RunOK, RunState
    <3>4. run' = r
      BY <3>1 DEF RunAsk
    <3> HIDE DEF r
    <3> QED BY <3>2, <3>3, <3>4 DEF Growing, RunOn
  <2>7. CASE RunAnswered
    <3>1. PICK A \in Answered(run.asks) : Take(run.app, run.known \cup A, run.rounds + 1)
      BY <2>7 DEF RunAnswered
    <3>2. run.asks \in SUBSET (S \X S)
      BY DEF Growing, RunOn
    <3>3. \A x \in run.known \cup A : Sound(x)
      BY <2>3, <3>1, <3>2, AnswersSound DEF Growing
    <3>4. run.app \in run.todo /\ run.known \cup A \in SUBSET Answer
      BY <2>7, AnswersTyped, RunStates DEF RunAnswered
    <3>5. run.rounds + 1 \in 0..MaxLookupRounds
      BY <2>7, RunStates, BoundsAssumption DEF RunAnswered, TypeOK, RunOK
    <3>6. PICK known \in SUBSET Answer : known = run.known \cup A
      BY <3>4
    <3>7. Take(run.app, known, run.rounds + 1)
      BY <3>1, <3>6
    <3>8. run' = NoRun \/ (run'.sha = run.sha /\ run'.known = known /\ run'.asks = {})
      BY <3>4, <3>5, <3>7, TakeTyped
    <3> QED BY <2>2, <3>3, <3>6, <3>8
  <2>8. CASE RunEnds
    BY <2>2, <2>8 DEF RunEnds
  <2> QED BY <2>1, <2>4, <2>5, <2>6, <2>7, <2>8 DEF Reconcile
<1> QED BY <1>2, <1>3, <1>4 DEF Growing

LEMMA LinkingGrows == ASSUME TypeOK, NEW S, Growing(S), Linking PROVE Growing(S)'
<1>1. PICK a \in Apps : LinkCheck(a) \/ Link(a) \/ Disconnect(a) \/ SwitchAway(a) \/ SwitchTo(a)
  BY DEF Linking
<1>2. UNCHANGED <<gh, deliveryVars, worker, run>>
  BY <1>1 DEF LinkCheck, Link, Disconnect, SwitchAway, SwitchTo
<1>3. Line(S)' /\ PushesOn(S)' /\ WorkOn(S)' /\ RunOn(S)'
  BY <1>2 DEF Growing, Line, PushesOn, WorkOn, RunOn, deliveryVars
<1>4. ASSUME NEW h \in S \cup {None}, NEW log, LogOK(h, log), NEW c \in S \cup {None},
             head' = [head EXCEPT ![a] = h], published' = [published EXCEPT ![a] = log],
             checked' = checked \/ checked' = [checked EXCEPT ![a] = c]
      PROVE  Growing(S)'
  <2>1. ASSUME NEW b \in Apps
        PROVE  /\ head'[b] \in S \cup {None} /\ checked'[b] \in S \cup {None}
               /\ LogOK(head'[b], published'[b])
    <3>1. /\ head[b] \in S \cup {None} /\ checked[b] \in S \cup {None}
          /\ LogOK(head[b], published[b])
      BY DEF Growing, HeadsOn
    <3>2. checked'[b] \in {checked[b], c}
      BY <1>4 DEF TypeOK, HeadsOK
    <3>3. CASE b = a
      <4>1. head'[b] = h /\ published'[b] = log
        BY <1>4, <3>3 DEF TypeOK, HeadsOK
      <4> QED BY <1>4, <3>1, <3>2, <4>1
    <3>4. CASE b # a
      <4>1. head'[b] = head[b] /\ published'[b] = published[b]
        BY <1>4, <3>4 DEF TypeOK, HeadsOK
      <4> QED BY <3>1, <3>2, <4>1
    <3> QED BY <3>3, <3>4
  <2> QED BY <1>3, <2>1 DEF HeadsOn, Growing
<1>5. CASE UNCHANGED headVars
  <2>1. checked' = checked \/ checked' = [checked EXCEPT ![a] = gh]
    BY <1>1, <1>5 DEF LinkCheck, Link, Disconnect, SwitchAway, SwitchTo, Chain, headVars, TypeOK, HeadsOK
  <2>2. head' = head /\ published' = published /\ gh \in S
    BY <1>5 DEF headVars, Growing, Line
  <2>3. \A b \in Apps : checked'[b] \in {checked[b], gh}
    BY <2>1 DEF TypeOK, HeadsOK
  <2>4. \A b \in Apps : /\ head[b] \in S \cup {None} /\ checked[b] \in S \cup {None}
                        /\ LogOK(head[b], published[b])
    BY DEF Growing, HeadsOn
  <2> QED BY <1>3, <2>2, <2>3, <2>4 DEF HeadsOn, Growing
<1>6. CASE Disconnect(a) \/ SwitchAway(a)
  <2>1. LogOK(None, <<>>)
    BY DEF LogOK
  <2>2. checked' = checked /\ head' = [head EXCEPT ![a] = None] /\ published' = [published EXCEPT ![a] = <<>>]
    BY <1>6 DEF Disconnect, SwitchAway, Chain
  <2>3. None \in S \cup {None}
    OBVIOUS
  <2> QED BY <1>4, <2>1, <2>2, <2>3, Zenon
<1>7. CASE Link(a)
  <2>1. PICK log \in {<<>>, <<checked[a]>>} : Chain(a, checked[a], log)
    BY <1>7 DEF Link
  <2>2. checked[a] \in Commits /\ checked[a] \in S
    BY <1>7 DEF Link, Growing, HeadsOn, TypeOK, HeadsOK
  <2>3. LogOK(checked[a], <<>>)
    BY <2>2 DEF LogOK
  <2>4. LogOK(checked[a], <<checked[a]>>)
    BY <2>2 DEF LogOK
  <2>5. log = <<>> \/ log = <<checked[a]>>
    BY Zenon
  <2>6. LogOK(checked[a], log)
    BY <2>3, <2>4, <2>5, Zenon
  <2>7. /\ head' = [head EXCEPT ![a] = checked[a]] /\ published' = [published EXCEPT ![a] = log]
        /\ checked' = [checked EXCEPT ![a] = None]
    BY <1>7, <2>1 DEF Link, Chain
  <2>8. None \in S \cup {None} /\ checked[a] \in S \cup {None}
    BY <2>2
  <2> QED BY <1>4, <2>6, <2>7, <2>8, Zenon
<1>8. LinkCheck(a) \/ SwitchTo(a) => UNCHANGED headVars
  BY DEF LinkCheck, SwitchTo
<1> QED BY <1>1, <1>5, <1>6, <1>7, <1>8, Zenon

\* With no rewriting of the branch's history, what is published for an app only ever goes
\* forward, whatever order and however often deliveries arrive.
THEOREM GrowingBranchNeverBackwards ==
    ASSUME Rewrites = {}
    PROVE  Spec => []NeverBackwards
<1>1. Init => GrowingInv
  <2>1. ASSUME Init PROVE Growing({First})
    <3>1. Line({First}) /\ PushesOn({First})
      BY <2>1 DEF Init, Line, PushesOn
    <3>2. WorkOn({First}) /\ RunOn({First})
      BY <2>1 DEF Init, WorkOn, RunOn, Idle, NoRun
    <3>3. HeadsOn({First})
      BY <2>1 DEF Init, HeadsOn, LogOK
    <3> QED BY <3>1, <3>2, <3>3 DEF Growing
  <2> QED BY <2>1, InitTyped DEF GrowingInv
<1>2. GrowingInv /\ [Next]_vars => GrowingInv'
  <2> SUFFICES ASSUME GrowingInv, [Next]_vars PROVE GrowingInv'
    OBVIOUS
  <2>1. PICK S \in SUBSET Commits : Growing(S)
    BY DEF GrowingInv
  <2>2. TypeOK /\ TypeOK'
    BY NextTyped DEF GrowingInv
  <2>3. CASE UNCHANGED vars
    <3>1. Growing(S)'
      BY <2>1, <2>3 DEF vars, Growing, Line, PushesOn, WorkOn, HeadsOn, RunOn
    <3> QED BY <2>2, <3>1 DEF GrowingInv
  <2>4. CASE GitHub
    BY <2>1, <2>2, <2>4, GitHubGrows DEF GrowingInv
  <2>5. CASE \E w \in Workers : Work(w)
    BY <2>1, <2>2, <2>5, WorkGrows DEF GrowingInv
  <2>6. CASE Reconcile
    BY <2>1, <2>2, <2>6, ReconcileGrows DEF GrowingInv
  <2>7. CASE Linking
    BY <2>1, <2>2, <2>7, LinkingGrows DEF GrowingInv
  <2> QED BY <2>3, <2>4, <2>5, <2>6, <2>7 DEF Next
<1>3. GrowingInv => NeverBackwards
  BY DEF GrowingInv, Growing, HeadsOn, LogOK, NeverBackwards
<1> QED BY <1>1, <1>2, <1>3, PTL DEF Spec
=============================================================================
