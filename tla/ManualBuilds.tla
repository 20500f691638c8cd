---------------------------- MODULE ManualBuilds ----------------------------
(* Manual builds of one app: the dialog that keeps one idempotency key per   *)
(* intent across retries, and the service that records a request under its   *)
(* key, resolves the branch on GitHub before its transaction, and counts the *)
(* builds of the hour (ManualBuildButton, ManualBuildService).               *)
EXTENDS Naturals, FiniteSets

CONSTANTS
    People,       \* open dialogs of the app
    Attempts,     \* submissions, numbered in the order they are made
    Branches,
    PerHour,      \* manualBuildsPerHour
    MaxMishaps,   \* changes of the link, answers given up, and calls and processes that fail,
                  \* together
    NoBranch,     \* the request names no branch: the production branch is built
    NoAttempt

VARIABLES
    link,       \* the app's repository link: whether it is active, its production branch
    pages,      \* the production branch each page last read
    keys,       \* useIdempotencyKey: the attempt that was first to send the current key
    keyed,      \* the request the current key was handed out for
    attempts,   \* what became of each submission
    requested,  \* manual_build_requests: the attempt recorded under each key
    recent,     \* keys recorded within the hour
    mishaps

vars == <<link, pages, keys, keyed, attempts, requested, recent, mishaps>>

Requests == Branches \cup {NoBranch}
Keys == Attempts
Made(a) == attempts[a] # NoAttempt
Mishap == mishaps < MaxMishaps /\ mishaps' = mishaps + 1
At(a, step) == Made(a) /\ attempts[a].step = step
Waiting(p) == \E a \in Attempts : Made(a) /\ attempts[a].person = p /\ attempts[a].waiting

Submission ==
    [person : People, key : Keys, asked : Requests, branch : Requests,
     step : {"arrived", "resolving", "resolved", "over"},
     outcome : {"none", "built", "replayed", "limited", "failed"},
     waiting : BOOLEAN, heard : BOOLEAN]

\* What the theorems assume of the constants.
BuildConstants ==
    /\ Attempts \subseteq Nat
    /\ NoAttempt \notin Attempts \cup Submission
    /\ Branches # {}
    /\ PerHour \in Nat

TypeOK ==
    /\ link \in [active : BOOLEAN, production : Branches]
    /\ pages \in [People -> Branches]
    /\ keys \in [People -> Keys \cup {NoAttempt}]
    /\ keyed \in [People -> Requests \cup {NoAttempt}]
    /\ attempts \in [Attempts -> Submission \cup {NoAttempt}]
    /\ requested \in [Keys -> Attempts \cup {NoAttempt}]
    /\ recent \subseteq Keys
    /\ mishaps \in Nat

-----------------------------------------------------------------------------
(* The dialog.                                                               *)

\* The production branch is not named in the request: requestedBranch.
Asked(p, branch) == IF branch = pages[p] THEN NoBranch ELSE branch

\* The key of the intent: a new one when the request differs from the one it was handed out for.
KeyFor(p, asked, a) == IF keyed[p] = asked /\ keys[p] # NoAttempt THEN keys[p] ELSE a

\* Submissions are numbered in order. One waits at a time.
Submit(p) ==
    /\ ~Waiting(p)
    /\ \E a \in Attempts :
         /\ ~Made(a)
         /\ \A b \in Attempts : b < a => Made(b)
         /\ \E branch \in Branches :
              LET asked == Asked(p, branch)
                  key == KeyFor(p, asked, a)
              IN  /\ keys' = [keys EXCEPT ![p] = key]
                  /\ keyed' = [keyed EXCEPT ![p] = asked]
                  /\ attempts' = [attempts EXCEPT ![a] =
                         [person |-> p, key |-> key, asked |-> asked, branch |-> NoBranch,
                          step |-> "arrived", outcome |-> "none", waiting |-> TRUE, heard |-> FALSE]]
    /\ UNCHANGED <<link, pages, requested, recent, mishaps>>

\* The answer arrives: a build, new or replayed, is the end of the intent.
Hear(a) ==
    /\ At(a, "over")
    /\ attempts[a].waiting
    /\ attempts' = [attempts EXCEPT ![a].waiting = FALSE, ![a].heard = TRUE]
    /\ IF attempts[a].outcome \in {"built", "replayed"}
       THEN /\ keys' = [keys EXCEPT ![attempts[a].person] = NoAttempt]
            /\ keyed' = [keyed EXCEPT ![attempts[a].person] = NoAttempt]
       ELSE UNCHANGED <<keys, keyed>>
    /\ UNCHANGED <<link, pages, requested, recent, mishaps>>

\* The connection drops or the dialog's call runs into its timeout; the service goes on.
GiveUp(a) ==
    /\ Made(a)
    /\ attempts[a].waiting
    /\ Mishap
    /\ attempts' = [attempts EXCEPT ![a].waiting = FALSE]
    /\ UNCHANGED <<link, pages, keys, keyed, requested, recent>>

ReadLink(p) ==
    /\ pages[p] # link.production
    /\ ~Waiting(p)
    /\ pages' = [pages EXCEPT ![p] = link.production]
    /\ UNCHANGED <<link, keys, keyed, attempts, requested, recent, mishaps>>

-----------------------------------------------------------------------------
(* The service.                                                              *)

Over(a, outcome) == [attempts EXCEPT ![a].step = "over", ![a].outcome = outcome]

Replayed(a) == requested[attempts[a].key] # NoAttempt

WithinLimit == Cardinality(recent) < PerHour

\* An earlier request under the key answers for this one, before the limit is looked at.
Arrive(a) ==
    /\ At(a, "arrived")
    /\ attempts' =
         IF ~link.active THEN Over(a, "failed")
         ELSE IF Replayed(a) THEN Over(a, "replayed")
         ELSE IF ~WithinLimit THEN Over(a, "limited")
         ELSE [attempts EXCEPT ![a].step = "resolving",
                               ![a].branch = IF attempts[a].asked = NoBranch THEN link.production
                                             ELSE attempts[a].asked]
    /\ UNCHANGED <<link, pages, keys, keyed, requested, recent, mishaps>>

\* GitHub names the head of the branch, or does not.
ResolveHead(a) ==
    /\ At(a, "resolving")
    /\ \/ attempts' = [attempts EXCEPT ![a].step = "resolved"] /\ UNCHANGED mishaps
       \/ attempts' = Over(a, "failed") /\ Mishap
    /\ UNCHANGED <<link, pages, keys, keyed, requested, recent>>

\* The link is gone, or no longer builds the branch that was resolved for it.
Moved(a) ==
    \/ ~link.active
    \/ attempts[a].asked = NoBranch /\ attempts[a].branch # link.production

Refuse(a) ==
    /\ At(a, "resolved")
    /\ Moved(a)
    /\ attempts' = Over(a, "failed")
    /\ UNCHANGED <<link, pages, keys, keyed, requested, recent, mishaps>>

\* Mutant: a request that was not recorded on arrival is not looked for again.
Recorded_OnArrival(a) == FALSE

Recorded(a) == Replayed(a)

Replay(a) ==
    /\ At(a, "resolved")
    /\ ~Moved(a)
    /\ Recorded(a)
    /\ attempts' = Over(a, "replayed")
    /\ UNCHANGED <<link, pages, keys, keyed, requested, recent, mishaps>>

\* Mutant: the limit is only looked at before the transaction.
StillWithinLimit_Early == TRUE

StillWithinLimit == WithinLimit

Limit(a) ==
    /\ At(a, "resolved")
    /\ ~Moved(a)
    /\ ~Recorded(a)
    /\ ~StillWithinLimit
    /\ attempts' = Over(a, "limited")
    /\ UNCHANGED <<link, pages, keys, keyed, requested, recent, mishaps>>

\* The transaction holds the link's row: the request and its push are recorded together.
Build(a) ==
    /\ At(a, "resolved")
    /\ ~Moved(a)
    /\ ~Recorded(a)
    /\ StillWithinLimit
    /\ attempts' = Over(a, "built")
    /\ requested' = [requested EXCEPT ![attempts[a].key] = a]
    /\ recent' = recent \cup {attempts[a].key}
    /\ UNCHANGED <<link, pages, keys, keyed, mishaps>>

\* The service dies, or its database does, before the transaction commits.
Crash(a) ==
    /\ Made(a)
    /\ attempts[a].step # "over"
    /\ Mishap
    /\ attempts' = Over(a, "failed")
    /\ UNCHANGED <<link, pages, keys, keyed, requested, recent>>

HourPasses ==
    /\ \E k \in recent : recent' = recent \ {k}
    /\ UNCHANGED <<link, pages, keys, keyed, attempts, requested, mishaps>>

Relink ==
    /\ Mishap
    /\ \/ \E branch \in Branches \ {link.production} : link' = [link EXCEPT !.production = branch]
       \/ link' = [link EXCEPT !.active = ~@]
    /\ UNCHANGED <<pages, keys, keyed, attempts, requested, recent>>

-----------------------------------------------------------------------------
Init ==
    /\ link = [active |-> TRUE, production |-> CHOOSE branch \in Branches : TRUE]
    /\ pages = [p \in People |-> link.production]
    /\ keys = [p \in People |-> NoAttempt]
    /\ keyed = [p \in People |-> NoAttempt]
    /\ attempts = [a \in Attempts |-> NoAttempt]
    /\ requested = [k \in Keys |-> NoAttempt]
    /\ recent = {}
    /\ mishaps = 0

Next ==
    \/ \E p \in People : Submit(p) \/ ReadLink(p)
    \/ \E a \in Attempts :
         \/ Hear(a)
         \/ GiveUp(a)
         \/ Arrive(a)
         \/ ResolveHead(a)
         \/ Refuse(a)
         \/ Replay(a)
         \/ Limit(a)
         \/ Build(a)
         \/ Crash(a)
    \/ HourPasses
    \/ Relink

Spec == Init /\ [][Next]_vars

-----------------------------------------------------------------------------
\* Two submissions of a person serve one intent if nothing else was asked for in between, and
\* no build was reported before the second. Requests are compared as they are sent: the same branch
\* is another request once the page knows of another production branch (requestedBranch).
SameIntent(a, b) ==
    \A c \in Attempts \cap a..b :
        (Made(c) /\ attempts[c].person = attempts[a].person) =>
            /\ attempts[c].asked = attempts[a].asked
            /\ (c # b /\ attempts[c].heard) => attempts[c].outcome \notin {"built", "replayed"}

\* A retry never starts a second build, whether the first try is answered, lost or still on
\* its way when the retry arrives (the doc comment of ManualBuildDialog).
OneBuildPerIntent ==
    \A a, b \in Attempts :
        (/\ a < b
         /\ Made(a) /\ Made(b)
         /\ attempts[a].person = attempts[b].person
         /\ SameIntent(a, b))
        => ~(attempts[a].outcome = "built" /\ attempts[b].outcome = "built")

\* A key is never sent with two different requests: nobody meets IDEMPOTENCY_KEY_REUSE.
KeysFitRequests ==
    \A a, b \in Attempts :
        (Made(a) /\ Made(b) /\ attempts[a].key = attempts[b].key) => attempts[a].asked = attempts[b].asked

\* The hour's limit is exact, however many requests are checked against it at once
\* ("which makes the hourly limit exact", ManualBuildService.request).
LimitExact == Cardinality(recent) <= PerHour
=============================================================================
