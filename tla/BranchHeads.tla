---------------------------- MODULE BranchHeads ----------------------------
(***************************************************************************)
(* git-integration-service, from a push on GitHub to git.push.received:    *)
(* the stored deliveries, the workers that process them, the chain rule    *)
(* under the row lock of each app's branch head, the head reconciler, and  *)
(* the linking of apps to the branch.  One repository, one branch.         *)
(*                                                                         *)
(* A worker's round is one transaction in two steps: it claims a delivery  *)
(* and reads the links to build (RoundOpen), then locks the heads and      *)
(* decides (Apply or Ask).  The delivery's row stays locked in between,    *)
(* links and heads don't.  So is the reconciler's transaction for an app:  *)
(* it reads the link (RunTake), then locks the head and decides (RunStep   *)
(* or RunAsk).  GitHub is asked with nothing locked.                       *)
(***************************************************************************)
EXTENDS Integers, Sequences

CONSTANTS
    Commits,         \* commit ids
    History,         \* the commits each commit's history holds, itself included
    Rewrites,        \* pairs of commits: the heads a force push may replace, and by what
    Apps,            \* the apps that may deploy from the branch
    Touching,        \* per app, the commits that change its root directory
    Deliveries,      \* delivery ids, numbers in the order GitHub makes them
    Workers,         \* delivery workers of all instances
    MaxLookupRounds, \* delivery.max-lookup-rounds
    MaxAttempts,     \* delivery.max-attempts
    MaxLinkChanges,  \* bound: links made, switched and disconnected
    First,           \* the branch's first commit
    None             \* no commit, no delivery

ASSUME HistoryAssumption ==
    /\ First \in Commits /\ None \notin Commits
    /\ History \in [Commits -> SUBSET Commits]
    /\ \A c \in Commits : c \in History[c]
    /\ \A c, d \in Commits : d \in History[c] => History[d] \subseteq History[c]
    /\ \A c, d \in Commits : d \in History[c] /\ c \in History[d] => c = d
    /\ Rewrites \subseteq Commits \X Commits
    /\ Touching \in [Apps -> SUBSET Commits]

ASSUME BoundsAssumption ==
    /\ Deliveries \subseteq Nat \ {0} /\ None \notin Deliveries
    /\ {MaxLookupRounds, MaxAttempts} \subseteq Nat \ {0}
    /\ MaxLinkChanges \in Nat

VARIABLES
    gh,        \* GitHub's head of the branch
    stored,    \* webhook_deliveries.status; UNSENT before the push, SENT until it is stored
    pushed,    \* the push each delivery reports
    attempts,  \* webhook_deliveries.attempts
    waiting,   \* deliveries whose next_attempt_at is still to come
    worker,    \* what each worker is doing
    link,      \* repo_links: no active link, one to this branch, one to another
    checked,   \* the head a link request read before its transaction
    changes,   \* link changes so far
    head,      \* branch_heads.head_sha
    etag,      \* branch_heads.etag: the commit the tagged answer named
    published, \* per app, the commits published since its chain started
    run        \* the head reconciler's run on this branch

deliveryVars == <<stored, pushed, attempts, waiting>>
linkVars == <<link, checked, changes>>
headVars == <<head, etag, published>>
vars == <<gh, stored, pushed, attempts, waiting, worker, link, checked, changes,
          head, etag, published, run>>

-----------------------------------------------------------------------------
(* GitHub                                                                  *)

NoPush == [before |-> None, after |-> None, forced |-> FALSE]

Unsent(d) == stored[d] = "UNSENT" /\ \A e \in Deliveries : e < d => stored[e] # "UNSENT"

Reported(d, push) ==
    /\ stored' = [stored EXCEPT ![d] = "SENT"]
    /\ pushed' = [pushed EXCEPT ![d] = push]
    /\ UNCHANGED <<attempts, waiting, worker, linkVars, headVars, run>>

\* A fast-forward, a force push, or the branch deleted and pushed again.
Push(d, c) ==
    /\ Unsent(d) /\ c # gh
    /\ gh' = c
    /\ \/ gh \in History[c] /\ Reported(d, [before |-> gh, after |-> c, forced |-> FALSE])
       \/ /\ <<gh, c>> \in Rewrites
          /\ \/ Reported(d, [before |-> gh, after |-> c, forced |-> TRUE])
             \/ Reported(d, [before |-> None, after |-> c, forced |-> FALSE])

\* The same push under another delivery id.
PushAgain(d, e) ==
    /\ Unsent(d) /\ stored[e] # "UNSENT"
    /\ Reported(d, pushed[e])
    /\ UNCHANGED gh

\* The webhook, or a redelivery of it, is stored; until then GitHub may have lost it.
Store(d) ==
    /\ stored[d] = "SENT"
    /\ stored' = [stored EXCEPT ![d] = "RECEIVED"]
    /\ UNCHANGED <<gh, pushed, attempts, waiting, worker, linkVars, headVars, run>>

Status(h, c) ==
    CASE h = c -> "IDENTICAL"
      [] h # c /\ h \in History[c] -> "AHEAD"
      [] h # c /\ c \in History[h] -> "BEHIND"
      [] OTHER -> "DIVERGED"

\* CompareLookup: a commit that no branch holds any more may be gone, and then the pushed
\* commit decides.
Compared(h, c) ==
    {Status(h, c)} \cup (IF c \notin History[gh] THEN {"BEHIND"} ELSE {})
                   \cup (IF h \notin History[gh] THEN {"DIVERGED"} ELSE {})

Statuses == {"IDENTICAL", "AHEAD", "BEHIND", "DIVERGED"}

\* One answer to each question of Q.
Answered(Q) ==
    {{[asked |-> q, status |-> f[q]] : q \in Q} :
        f \in {g \in [Q -> Statuses] : \A q \in Q : g[q] \in Compared(q[1], q[2])}}

-----------------------------------------------------------------------------
(* The chain rule                                                          *)

\* Mutant: an older commit is accepted like a newer one.
ChainRule_BehindAccepted(h, push, K) ==
    LET answer == {a.status : a \in {x \in K : x.asked = <<h, push.after>>}} IN
    CASE h = None -> "ACCEPT"
      [] h # None /\ push.after = h -> "DUPLICATE"
      [] h # None /\ push.after # h /\ (push.before = h \/ push.forced) -> "ACCEPT"
      [] OTHER -> IF answer = {} THEN "NEEDS_COMPARE"
                  ELSE IF answer = {"IDENTICAL"} THEN "DUPLICATE" ELSE "ACCEPT"

\* The decision on moving head h to push.after, knowing the answers K.
ChainRule(h, push, K) ==
    LET answer == {a.status : a \in {x \in K : x.asked = <<h, push.after>>}} IN
    CASE h = None -> "ACCEPT"
      [] h # None /\ push.after = h -> "DUPLICATE"
      [] h # None /\ push.after # h /\ (push.before = h \/ push.forced) -> "ACCEPT"
      [] OTHER -> IF answer = {} THEN "NEEDS_COMPARE"
                  ELSE IF answer \subseteq {"AHEAD", "DIVERGED"} THEN "ACCEPT"
                  ELSE IF answer = {"IDENTICAL"} THEN "DUPLICATE" ELSE "STALE"

\* Mutant: only the head commit's files are looked at.
Touches_HeadCommit(push, a) == push.forced \/ push.before = None \/ push.after \in Touching[a]

\* PathFilter: only a push that lists every change can leave an app out.
Touches(push, a) ==
    \/ push.forced \/ push.before = None
    \/ (History[push.after] \ History[push.before]) \cap Touching[a] # {}

-----------------------------------------------------------------------------
(* The delivery workers                                                    *)

Idle == [phase |-> "IDLE", delivery |-> None, targets |-> {}, known |-> {}, asks |-> {},
         rounds |-> 0]

Doing(w, phase) == worker[w].phase = phase
Job(w) == worker[w].delivery
JobPush(w) == pushed[Job(w)]

\* FOR UPDATE SKIP LOCKED passes over the deliveries of open rounds.
Claimable(d) ==
    stored[d] = "RECEIVED" /\ \A w \in Workers : ~(Doing(w, "OPEN") /\ Job(w) = d)

\* SkipRules reads the links a push to the branch should build.
Targets == {a \in Apps : link[a] = "HERE"}

Put(w, r) == worker' = [worker EXCEPT ![w] = r]

RoundOpen(w, d) ==
    /\ Doing(w, "IDLE") /\ Claimable(d) /\ d \notin waiting
    /\ Put(w, [Idle EXCEPT !.phase = "OPEN", !.delivery = d, !.targets = Targets])
    /\ UNCHANGED <<gh, deliveryVars, linkVars, headVars, run>>

\* Mutant: the link is not read again under the head's lock.
Linked_Unchecked(a) == a \in Apps

\* A link that is no longer active and has no head is out; one moved to another branch is not noticed.
Linked(a) == head[a] # None \/ link[a] # "NONE"

Deciding(w) == {a \in worker[w].targets : Linked(a)}

Decision(w, a) == ChainRule(head[a], JobPush(w), worker[w].known)

Unanswered(w) ==
    {<<head[a], JobPush(w).after>> : a \in
        {b \in Deciding(w) : Decision(w, b) = "NEEDS_COMPARE" /\ Touches(JobPush(w), b)}}

Accepting(w) == {a \in Deciding(w) : Decision(w, a) = "ACCEPT"}

Building(w) == {a \in Accepting(w) : Touches(JobPush(w), a)}

\* Every app is decided: events, heads and the delivery's status in one transaction.
Apply(w) ==
    /\ Doing(w, "OPEN") /\ Unanswered(w) = {}
    /\ published' = [a \in Apps |-> IF a \in Building(w)
                                    THEN Append(published[a], JobPush(w).after)
                                    ELSE published[a]]
    /\ head' = [a \in Apps |-> IF a \in Accepting(w) THEN JobPush(w).after ELSE head[a]]
    /\ etag' = [a \in Apps |-> IF a \in Accepting(w) THEN None ELSE etag[a]]
    /\ stored' = [stored EXCEPT ![Job(w)] = IF Building(w) # {} THEN "PROCESSED" ELSE "IGNORED"]
    /\ Put(w, Idle)
    /\ UNCHANGED <<gh, pushed, attempts, waiting, linkVars, run>>

\* An app's decision waits for GitHub: the round rolls back, or fails if it was the last.
Ask(w) ==
    /\ Doing(w, "OPEN") /\ Unanswered(w) # {}
    /\ Put(w, IF worker[w].rounds = MaxLookupRounds
              THEN [Idle EXCEPT !.phase = "FAILED", !.delivery = Job(w)]
              ELSE [worker[w] EXCEPT !.phase = "ASKING", !.asks = Unanswered(w), !.targets = {},
                                     !.rounds = @ + 1])
    /\ UNCHANGED <<gh, deliveryVars, linkVars, headVars, run>>

\* The lease keeps others off while GitHub is asked; a delivery that is done or held ends the work.
Lease(w) ==
    /\ Doing(w, "ASKING")
    /\ IF Claimable(Job(w))
       THEN waiting' = waiting \cup {Job(w)} /\ Put(w, [worker[w] EXCEPT !.phase = "LEASED"])
       ELSE Put(w, Idle) /\ UNCHANGED waiting
    /\ UNCHANGED <<gh, stored, pushed, attempts, linkVars, headVars, run>>

GitHubAnswers(w) ==
    /\ Doing(w, "LEASED")
    /\ LET new == {q \in worker[w].asks : \A a \in worker[w].known : a.asked # q} IN
         \E A \in Answered(new) :
           Put(w, [worker[w] EXCEPT !.phase = "ANSWERED", !.known = @ \cup A, !.asks = {}])
    /\ UNCHANGED <<gh, deliveryVars, linkVars, headVars, run>>

\* The same delivery again, whatever its next_attempt_at; links are read afresh.
Reopen(w) ==
    /\ Doing(w, "ANSWERED")
    /\ Put(w, IF Claimable(Job(w)) THEN [worker[w] EXCEPT !.phase = "OPEN", !.targets = Targets]
                                   ELSE Idle)
    /\ UNCHANGED <<gh, deliveryVars, linkVars, headVars, run>>

\* The round's transaction fails and rolls back.
RoundFails(w) ==
    /\ Doing(w, "OPEN")
    /\ Put(w, [Idle EXCEPT !.phase = "FAILED", !.delivery = Job(w)])
    /\ UNCHANGED <<gh, deliveryVars, linkVars, headVars, run>>

\* recordFailure: skipped if the delivery is done or another worker has it again.
RecordFailure(w) ==
    /\ Doing(w, "FAILED")
    /\ IF Claimable(Job(w))
       THEN /\ attempts' = [attempts EXCEPT ![Job(w)] = @ + 1]
            /\ stored' = [stored EXCEPT ![Job(w)] =
                             IF attempts[Job(w)] + 1 >= MaxAttempts THEN "PARKED" ELSE @]
            /\ waiting' = waiting \cup {Job(w)}
       ELSE UNCHANGED <<stored, attempts, waiting>>
    /\ Put(w, Idle)
    /\ UNCHANGED <<gh, pushed, linkVars, headVars, run>>

\* GitHub is unavailable or limits the rate (the delivery waits, no attempt is spent), or the
\* instance dies: what was leased comes back when its time is up.
WorkerDrops(w) ==
    /\ worker[w].phase \notin {"IDLE", "FAILED"}
    /\ Put(w, Idle)
    /\ UNCHANGED <<gh, deliveryVars, linkVars, headVars, run>>

Due(d) ==
    /\ d \in waiting /\ stored[d] = "RECEIVED"
    /\ waiting' = waiting \ {d}
    /\ UNCHANGED <<gh, stored, pushed, attempts, worker, linkVars, headVars, run>>

-----------------------------------------------------------------------------
(* The head reconciler, on one instance at a time                          *)

NoRun == [phase |-> "IDLE", sha |-> None, app |-> None, todo |-> {}, asks |-> {}, known |-> {},
          rounds |-> 0]

\* Mutant: one app's ETag makes the read conditional for all.
Shared_ByOne(t) == \E a \in Targets : head[a] # None /\ etag[a] = t

\* Only an ETag that every app on the branch shares makes the read conditional.
Shared(t) == \A a \in Targets : head[a] # None /\ etag[a] = t

\* The branch is read; a 304 ends the run.
RunRead ==
    /\ run = NoRun /\ Targets # {} /\ ~Shared(gh)
    /\ run' = [NoRun EXCEPT !.phase = "NEXT", !.sha = gh, !.todo = Targets]
    /\ UNCHANGED <<gh, deliveryVars, worker, linkVars, headVars>>

Found == [before |-> None, after |-> run.sha, forced |-> FALSE]

RunDecision(a) == ChainRule(head[a], Found, run.known)

Done(a, known) ==
    run' = IF run.todo = {a} THEN NoRun
           ELSE [run EXCEPT !.phase = "NEXT", !.app = None, !.todo = @ \ {a}, !.asks = {}, !.known = known,
                            !.rounds = 0]

\* One app, in a transaction of its own, which begins by reading the app's link without a lock.
Take(a, known, rounds) ==
    IF link[a] = "HERE"
    THEN run' = [run EXCEPT !.phase = "OPEN", !.app = a, !.asks = {}, !.known = known, !.rounds = rounds]
    ELSE Done(a, known)

RunTake(a) ==
    /\ run.phase = "NEXT" /\ a \in run.todo
    /\ Take(a, run.known, 0)
    /\ UNCHANGED <<gh, deliveryVars, worker, linkVars, headVars>>

Taken(a) == run.phase = "OPEN" /\ run.app = a

\* Under the head's lock, or that of the link if there is no head.  The link's branch is not looked at again.
RunStep(a) ==
    /\ Taken(a)
    /\ \/ /\ ~Linked(a) \/ RunDecision(a) = "STALE"
          /\ UNCHANGED headVars
       \/ /\ Linked(a) /\ head[a] = None
          /\ head' = [head EXCEPT ![a] = run.sha] /\ etag' = [etag EXCEPT ![a] = run.sha]
          /\ UNCHANGED published
       \/ /\ Linked(a) /\ RunDecision(a) = "DUPLICATE"
          /\ etag' = [etag EXCEPT ![a] = run.sha]
          /\ UNCHANGED <<head, published>>
       \/ /\ Linked(a) /\ head[a] # None /\ RunDecision(a) = "ACCEPT"
          /\ head' = [head EXCEPT ![a] = run.sha] /\ etag' = [etag EXCEPT ![a] = run.sha]
          /\ published' = [published EXCEPT ![a] = Append(@, run.sha)]
    /\ Done(a, run.known)
    /\ UNCHANGED <<gh, deliveryVars, worker, linkVars>>

\* The decision waits for GitHub; the transaction has changed nothing and ends.
RunAsk(a) ==
    /\ Taken(a) /\ RunDecision(a) = "NEEDS_COMPARE" /\ run.rounds < MaxLookupRounds
    /\ run' = [run EXCEPT !.phase = "ASKING", !.asks = {<<head[a], run.sha>>}]
    /\ UNCHANGED <<gh, deliveryVars, worker, linkVars, headVars>>

\* The compare is answered with nothing held, and shared by the apps of the run; then the app is taken again.
RunAnswered ==
    /\ run.phase = "ASKING"
    /\ \E A \in Answered(run.asks) : Take(run.app, run.known \cup A, run.rounds + 1)
    /\ UNCHANGED <<gh, deliveryVars, worker, linkVars, headVars>>

\* The instance dies, GitHub fails, or a head moves faster than it can be compared.
RunEnds ==
    /\ run # NoRun
    /\ run' = NoRun
    /\ UNCHANGED <<gh, deliveryVars, worker, linkVars, headVars>>

-----------------------------------------------------------------------------
(* Linking                                                                 *)

Changes == changes < MaxLinkChanges /\ changes' = changes + 1

Chain(a, sha, log) ==
    /\ head' = [head EXCEPT ![a] = sha]
    /\ etag' = [etag EXCEPT ![a] = None]
    /\ published' = [published EXCEPT ![a] = log]

\* The access check reads the branch, before the transaction that links.
LinkCheck(a) ==
    /\ link[a] = "NONE" /\ changes < MaxLinkChanges /\ checked[a] # gh
    /\ checked' = [checked EXCEPT ![a] = gh]
    /\ UNCHANGED <<gh, deliveryVars, worker, link, changes, headVars, run>>

Link(a) ==
    /\ link[a] = "NONE" /\ checked[a] # None /\ Changes
    /\ link' = [link EXCEPT ![a] = "HERE"]
    /\ checked' = [checked EXCEPT ![a] = None]
    /\ \E log \in {<<>>, <<checked[a]>>} : Chain(a, checked[a], log)
    /\ UNCHANGED <<gh, deliveryVars, worker, run>>

Disconnect(a) ==
    /\ link[a] # "NONE" /\ Changes
    /\ link' = [link EXCEPT ![a] = "NONE"]
    /\ Chain(a, None, <<>>)
    /\ UNCHANGED <<gh, deliveryVars, worker, checked, run>>

\* The production branch is changed to another one, whose head is dropped, or to this one.
SwitchAway(a) ==
    /\ link[a] = "HERE" /\ Changes
    /\ link' = [link EXCEPT ![a] = "ELSEWHERE"]
    /\ Chain(a, None, <<>>)
    /\ UNCHANGED <<gh, deliveryVars, worker, checked, run>>

SwitchTo(a) ==
    /\ link[a] = "ELSEWHERE" /\ Changes
    /\ link' = [link EXCEPT ![a] = "HERE"]
    /\ UNCHANGED <<gh, deliveryVars, worker, checked, headVars, run>>

-----------------------------------------------------------------------------
Init ==
    /\ gh = First
    /\ stored = [d \in Deliveries |-> "UNSENT"]
    /\ pushed = [d \in Deliveries |-> NoPush]
    /\ attempts = [d \in Deliveries |-> 0]
    /\ waiting = {}
    /\ worker = [w \in Workers |-> Idle]
    /\ link = [a \in Apps |-> "HERE"]
    /\ checked = [a \in Apps |-> None]
    /\ changes = 0
    /\ head = [a \in Apps |-> First]
    /\ etag = [a \in Apps |-> None]
    /\ published = [a \in Apps |-> <<>>]
    /\ run = NoRun

GitHub == \E d \in Deliveries :
    (\E c \in Commits : Push(d, c)) \/ (\E e \in Deliveries : PushAgain(d, e)) \/ Store(d) \/ Due(d)

Work(w) ==
    \/ \E d \in Deliveries : RoundOpen(w, d)
    \/ Apply(w) \/ Ask(w) \/ Lease(w) \/ GitHubAnswers(w) \/ Reopen(w)
    \/ RoundFails(w) \/ RecordFailure(w) \/ WorkerDrops(w)

Reconcile ==
    \/ RunRead \/ RunAnswered \/ RunEnds
    \/ \E a \in Apps : RunTake(a) \/ RunStep(a) \/ RunAsk(a)

Linking == \E a \in Apps :
    LinkCheck(a) \/ Link(a) \/ Disconnect(a) \/ SwitchAway(a) \/ SwitchTo(a)

Next == GitHub \/ (\E w \in Workers : Work(w)) \/ Reconcile \/ Linking

Spec == Init /\ [][Next]_vars

(* The reconciler runs on a timer, a run is a bounded pass over the links,   *)
(* and not every run of it fails.  Nothing is assumed of webhooks and       *)
(* workers: every delivery may be lost.                                     *)
Fairness ==
    /\ WF_vars(RunRead) /\ WF_vars(RunEnds)
    /\ \A a \in Apps : SF_vars(RunTake(a)) /\ SF_vars(RunStep(a))
    /\ SF_vars(\E a \in Apps : RunAsk(a))
    /\ SF_vars(RunAnswered)

FairSpec == Spec /\ Fairness

-----------------------------------------------------------------------------
(* Properties                                                              *)

Phases == {"IDLE", "OPEN", "ASKING", "LEASED", "ANSWERED", "FAILED"}
PushRecord == [before : Commits \cup {None}, after : Commits, forced : BOOLEAN]
Question == Commits \X Commits
\* Only a commit and itself are identical.
Answer == {x \in [asked : Question, status : Statuses] : x.status = "IDENTICAL" => x.asked[1] = x.asked[2]}
WorkerState ==
    [phase : Phases, delivery : Deliveries \cup {None}, targets : SUBSET Apps,
     known : SUBSET Answer, asks : SUBSET Question, rounds : 0..MaxLookupRounds]
RunState ==
    [phase : {"IDLE", "NEXT", "OPEN", "ASKING"}, sha : Commits \cup {None}, app : Apps \cup {None},
     todo : SUBSET Apps, asks : SUBSET Question, known : SUBSET Answer, rounds : 0..MaxLookupRounds]

\* A delivery is parked exactly when its attempts are used up.
DeliveriesOK ==
    /\ stored \in [Deliveries -> {"UNSENT", "SENT", "RECEIVED", "PROCESSED", "IGNORED", "PARKED"}]
    /\ pushed \in [Deliveries -> PushRecord \cup {NoPush}]
    /\ \A d \in Deliveries : stored[d] # "UNSENT" => pushed[d] \in PushRecord
    /\ attempts \in [Deliveries -> 0..MaxAttempts]
    /\ \A d \in Deliveries : stored[d] = "PARKED" <=> attempts[d] = MaxAttempts
    /\ waiting \subseteq Deliveries

\* One round at a time has a delivery open, which is not done; a worker past its first lookup
\* has something to ask or to know.
WorkersOK ==
    /\ worker \in [Workers -> WorkerState]
    /\ \A w \in Workers :
         /\ Doing(w, "IDLE") <=> Job(w) = None
         /\ ~Doing(w, "IDLE") => stored[Job(w)] # "UNSENT"
         /\ Doing(w, "OPEN") => /\ stored[Job(w)] = "RECEIVED"
                                /\ \A v \in Workers \ {w} : ~(Doing(v, "OPEN") /\ Job(v) = Job(w))
         /\ Doing(w, "ASKING") \/ Doing(w, "LEASED") => worker[w].asks # {}
         /\ Doing(w, "ANSWERED") => worker[w].known # {}

\* A head's ETag always describes the head it is stored with, and an app without a link has none.
HeadsOK ==
    /\ link \in [Apps -> {"NONE", "HERE", "ELSEWHERE"}]
    /\ checked \in [Apps -> Commits \cup {None}]
    /\ head \in [Apps -> Commits \cup {None}]
    /\ etag \in [Apps -> Commits \cup {None}]
    /\ \A a \in Apps : etag[a] \in {None, head[a]} /\ (link[a] = "NONE" => head[a] = None)
    /\ published \in [Apps -> Seq(Commits)]

\* A run has read a commit, works on an app it has still to do, and has lookups left for what it asks.
RunOK ==
    /\ run \in RunState
    /\ run = NoRun <=> run.sha = None
    /\ run.phase \in {"OPEN", "ASKING"} => run.app \in run.todo
    /\ run.phase = "ASKING" => run.rounds < MaxLookupRounds

TypeOK ==
    /\ gh \in Commits
    /\ DeliveriesOK
    /\ WorkersOK
    /\ HeadsOK
    /\ changes \in 0..MaxLinkChanges
    /\ RunOK

\* A head only moves past changes to an app's directory by publishing the commit it moves to:
\* what a late or lost push brought is in what is published instead ("we missed an
\* intermediate push", "never builds" only what didn't touch the app).
NoChangePassedOver ==
    [][\A a \in Apps :
         (/\ None \notin {head[a], head'[a]} /\ head'[a] # head[a]
          /\ (History[head'[a]] \ History[head[a]]) \cap Touching[a] # {})
         => published'[a] = Append(published[a], head'[a])]_vars

\* Whatever order and however often deliveries arrive, workers and the reconciler between them
\* never publish a commit again, or one that a published commit already holds.
NeverBackwards ==
    \A a \in Apps : \A j, k \in DOMAIN published[a] :
        j < k => published[a][k] \notin History[published[a][j]]

\* "Disconnects the link; pushes for the app stop at commit": a round that read the link
\* before, or a run that is under way, publishes nothing for it and leaves no head.
StopsAtDisconnect ==
    [][\A a \in Apps : link[a] = "NONE" /\ link'[a] = "NONE"
                        => published'[a] = published[a] /\ head'[a] = head[a]]_vars

\* Every app's head ends up at GitHub's, though every webhook may be lost.
Converges == <>[](\A a \in Apps : link[a] = "HERE" => head[a] = gh)
=============================================================================
