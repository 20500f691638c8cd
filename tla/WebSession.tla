----------------------------- MODULE WebSession -----------------------------
(* The browser sessions of the web app: token pairs kept in Redis behind an  *)
(* opaque cookie, refreshed under a lease and replaced by compare-and-set,   *)
(* while proxied calls, sign-ins, sign-outs and step-ups use the same        *)
(* session at once (src/web/src/modules/session).                            *)
EXTENDS Naturals, FiniteSets

CONSTANTS
    Ids,         \* session ids, in the order they are minted
    Pairs,       \* token pairs, in the order identity issues them
    Users,       \* accounts
    Owner,       \* the account the first session belongs to
    Requests,    \* handlers running in the web servers, each of them once
    Serves,      \* what a handler may be asked for
    Rotates,     \* whether identity takes a refresh token only once
    MaxPolls,    \* pollAttempts: how often a handler asks for a concurrent refresh
    MaxSwaps,    \* maxAttempts: how often a step-up tries to put its tokens in
    MaxTroubles, \* calls that fail, answers that get lost, handlers that die and sessions
                 \* ended from another device, together
    MaxAging,    \* times a pair gets older
    Nothing      \* neither a pair nor a handler nor an account

ASSUME NumbersAssumption ==
    /\ IsFiniteSet(Ids) /\ Ids = 1..Cardinality(Ids) /\ 1 \in Ids
    /\ IsFiniteSet(Pairs) /\ Pairs = 1..Cardinality(Pairs) /\ 1 \in Pairs
    /\ Rotates \in BOOLEAN
    /\ MaxPolls \in Nat \ {0}
    /\ MaxSwaps \in Nat \ {0}
    /\ MaxTroubles \in Nat
    /\ MaxAging \in Nat
ASSUME NothingAssumption == Nothing \notin Pairs \cup Requests \cup Users
ASSUME OwnerAssumption == Owner \in Users

\* A bff call also stands for the pages that read on the server.
Kinds == {"bff", "summary", "logout", "stepup", "login"}

ASSUME ServesAssumption == Serves \in [Requests -> SUBSET Kinds]

\* How far a pair has aged: fresh, in the refresh window, with its access token run out,
\* with its refresh token run out too.
Ages == 0..3

Resolving == {"lookup", "discard", "lock", "reread", "refresh", "refused", "swap", "latest", "release", "poll"}
Steps == {"idle", "done"} \cup Resolving
           \cup {"forward", "drop", "revoke"}
           \cup {"confirm", "place", "catchup", "revokePrevious", "revokeNew"}
           \cup {"signin", "replace", "create"}

Outcomes == {"none", "active", "expired", "failed"}

VARIABLES
    store,      \* the pair Redis keeps under each session's key
    lease,      \* the handler that owns each session's refresh key in Redis
    minted,     \* how many sessions have been created
    issued,     \* how many pairs identity has issued
    family,     \* the Keycloak session of a pair, named by the pair its sign-in got
    subject,    \* the account of a pair
    age,        \* how far each pair has aged
    spent,      \* pairs whose refresh token has been used up
    ended,      \* Keycloak sessions that are over

    step,       \* where each handler is
    kind,       \* what it serves
    cookie,     \* the session its cookie names
    seen,       \* the pair it works from
    fresh,      \* the pair identity has issued to it
    tries,      \* the polls or the swaps it has made
    outcome,    \* what resolving the session came to

    \* Kept for the properties.
    held,       \* the pairs each session has held
    overrun,    \* handlers whose lease ran out while they were at work
    loose,      \* Keycloak sessions a failed call or a dead handler left behind
    faults,
    endings,
    aging

store_vars == <<store, lease, minted, held>>
identity_vars == <<issued, family, subject, age, spent, ended>>
request_vars == <<step, kind, cookie, seen, fresh, tries, outcome>>
ghost_vars == <<overrun, loose, faults, endings, aging>>
vars == <<store_vars, identity_vars, request_vars, ghost_vars>>

\* The steps that work from a pair of the store, and those that have a new one in hand.
WorksFromPair == {"discard", "lock", "refresh", "swap", "poll", "forward", "revoke", "confirm", "place",
                  "catchup", "revokePrevious", "revokeNew"}
HasNewPair == {"swap", "latest", "place", "catchup", "revokePrevious", "revokeNew", "replace", "create"}

TypeOK ==
    /\ store \in [Ids -> Pairs \cup {Nothing}]
    /\ lease \in [Ids -> Requests \cup {Nothing}]
    /\ minted \in 1..Cardinality(Ids)
    /\ issued \in 1..Cardinality(Pairs)
    /\ family \in [Pairs -> Pairs \cup {Nothing}]
    /\ subject \in [Pairs -> Users \cup {Nothing}]
    /\ age \in [Pairs -> Ages]
    /\ spent \in SUBSET Pairs
    /\ ended \in SUBSET Pairs
    /\ step \in [Requests -> Steps]
    /\ kind \in [Requests -> Kinds]
    /\ cookie \in [Requests -> Ids]
    /\ seen \in [Requests -> Pairs \cup {Nothing}]
    /\ fresh \in [Requests -> Pairs \cup {Nothing}]
    /\ tries \in [Requests -> Nat]
    /\ outcome \in [Requests -> Outcomes]
    /\ held \in [Ids -> SUBSET Pairs]
    /\ overrun \in SUBSET Requests
    /\ loose \in SUBSET Pairs
    /\ faults \in 0..MaxTroubles
    /\ endings \in 0..MaxTroubles
    /\ aging \in 0..MaxAging
    /\ \A r \in Requests :
         /\ (outcome[r] = "active" \/ step[r] \in WorksFromPair) => seen[r] \in Pairs
         /\ step[r] \in HasNewPair => fresh[r] \in Pairs

-----------------------------------------------------------------------------
(* A pair's life at identity, which is external to this module: it is known  *)
(* by what the web app asks of it.                                           *)

NeedsRefresh(p) == age[p] >= 1
HasValidAccess(p) == age[p] <= 1
IsRefreshable(p) == age[p] <= 2

\* The gateway and identity accept the pair's access token.
Accepted(p) == HasValidAccess(p) /\ family[p] \notin ended
\* Identity accepts the pair's refresh token.
Refreshes(p) == IsRefreshable(p) /\ family[p] \notin ended /\ p \notin spent

Fault == faults + endings < MaxTroubles /\ faults' = faults + 1
NoFault == UNCHANGED faults

\* Identity issues the next pair to r, for user u and in Keycloak session f.
IssueTo(r, u, f) ==
    LET p == issued + 1
    IN  /\ p \in Pairs
        /\ issued' = p
        /\ family' = [family EXCEPT ![p] = f]
        /\ subject' = [subject EXCEPT ![p] = u]
        /\ fresh' = [fresh EXCEPT ![r] = p]
        /\ UNCHANGED <<age, ended>>

-----------------------------------------------------------------------------
(* Handlers: one step per call to Redis or to identity, with what the        *)
(* handler computes from its answer.                                         *)

Goto(r, s) == step' = [step EXCEPT ![r] = s]

\* What each handler does once its session is resolved.
AfterResolve(r, o) ==
    CASE kind[r] = "bff" /\ o = "active" -> "forward"
      [] kind[r] = "logout" -> IF o = "active" THEN "revoke" ELSE "drop"
      [] kind[r] = "stepup" /\ o = "active" -> "confirm"
      [] OTHER -> "done"

\* The handler has answered, and what it knew is gone.
Finish(r) ==
    /\ Goto(r, "done")
    /\ seen' = [seen EXCEPT ![r] = Nothing]
    /\ fresh' = [fresh EXCEPT ![r] = Nothing]
    /\ tries' = [tries EXCEPT ![r] = 0]
    /\ outcome' = [outcome EXCEPT ![r] = "none"]
    /\ kind' = [kind EXCEPT ![r] = "bff"]
    /\ cookie' = [cookie EXCEPT ![r] = 1]

\* The session is resolved to o, with pair p, by a handler that owns no lease.
Resolve(r, o, p) ==
    \/ AfterResolve(r, o) = "done" /\ Finish(r)
    \/ /\ AfterResolve(r, o) # "done"
       /\ Goto(r, AfterResolve(r, o))
       /\ outcome' = [outcome EXCEPT ![r] = o]
       /\ seen' = [seen EXCEPT ![r] = p]
       /\ fresh' = [fresh EXCEPT ![r] = Nothing]
       /\ tries' = [tries EXCEPT ![r] = 0]
       /\ UNCHANGED <<kind, cookie>>

\* The same, by the owner of the lease: it gives the lease back first.
ResolveThenRelease(r, o, p) ==
    /\ Goto(r, "release")
    /\ outcome' = [outcome EXCEPT ![r] = o]
    /\ seen' = [seen EXCEPT ![r] = p]
    /\ fresh' = [fresh EXCEPT ![r] = Nothing]
    /\ UNCHANGED <<kind, cookie, tries>>

FallBackTo(p) == IF HasValidAccess(p) THEN "active" ELSE "failed"

Arrive(r) ==
    /\ step[r] = "idle"
    /\ \E k \in Serves[r], i \in 1..minted :
         /\ kind' = [kind EXCEPT ![r] = k]
         /\ cookie' = [cookie EXCEPT ![r] = i]
         /\ Goto(r, IF k = "login" THEN "signin" ELSE "lookup")
    /\ UNCHANGED <<store_vars, identity_vars, ghost_vars, seen, fresh, tries, outcome>>

Lookup(r) ==
    /\ step[r] = "lookup"
    /\ LET p == store[cookie[r]]
       IN  \/ p = Nothing /\ Resolve(r, "expired", Nothing)
           \/ /\ p # Nothing
              /\ ~IsRefreshable(p)
              /\ Goto(r, "discard")
              /\ seen' = [seen EXCEPT ![r] = p]
              /\ UNCHANGED <<kind, cookie, fresh, tries, outcome>>
           \/ /\ p # Nothing
              /\ IsRefreshable(p)
              /\ NeedsRefresh(p)
              /\ Goto(r, "lock")
              /\ seen' = [seen EXCEPT ![r] = p]
              /\ UNCHANGED <<kind, cookie, fresh, tries, outcome>>
           \/ p # Nothing /\ ~NeedsRefresh(p) /\ Resolve(r, "active", p)
    /\ UNCHANGED <<store_vars, identity_vars, ghost_vars>>

Delete(i) == store' = [store EXCEPT ![i] = Nothing] /\ UNCHANGED <<lease, minted, held>>

Discard(r) ==
    /\ step[r] = "discard"
    /\ Delete(cookie[r])
    /\ Resolve(r, "expired", Nothing)
    /\ UNCHANGED <<identity_vars, ghost_vars>>

\* Mutant: the refresh key is set whether or not another handler has it.
Lock_Always(r) ==
    /\ step[r] = "lock"
    /\ lease' = [lease EXCEPT ![cookie[r]] = r]
    /\ Goto(r, "reread")
    /\ UNCHANGED <<store, minted, held, identity_vars, ghost_vars, kind, cookie, seen, fresh, tries, outcome>>

Lock(r) ==
    /\ step[r] = "lock"
    /\ IF lease[cookie[r]] = Nothing
       THEN lease' = [lease EXCEPT ![cookie[r]] = r] /\ Goto(r, "reread")
       ELSE UNCHANGED lease /\ Goto(r, "poll")
    /\ UNCHANGED <<store, minted, held, identity_vars, ghost_vars, kind, cookie, seen, fresh, tries, outcome>>

\* Mutant: the session is not read again once the lease is taken.
Reread_Unread(r) ==
    /\ step[r] = "reread"
    /\ Goto(r, "refresh")
    /\ UNCHANGED <<store_vars, identity_vars, ghost_vars, kind, cookie, seen, fresh, tries, outcome>>

Reread(r) ==
    /\ step[r] = "reread"
    /\ LET p == store[cookie[r]]
       IN  \/ p = Nothing /\ ResolveThenRelease(r, "expired", Nothing)
           \/ p # Nothing /\ ~NeedsRefresh(p) /\ ResolveThenRelease(r, "active", p)
           \/ /\ p # Nothing
              /\ NeedsRefresh(p)
              /\ Goto(r, "refresh")
              /\ seen' = [seen EXCEPT ![r] = p]
              /\ UNCHANGED <<kind, cookie, fresh, tries, outcome>>
    /\ UNCHANGED <<store_vars, identity_vars, ghost_vars>>

\* Identity takes the refresh token and its answer arrives, or the call fails with or
\* without having spent the token. An answer for another account is one of the faults.
Refresh(r) ==
    /\ step[r] = "refresh"
    /\ LET p == seen[r]
       IN  \/ /\ Refreshes(p)
              /\ \E u \in Users :
                   /\ IssueTo(r, u, family[p])
                   /\ IF u = subject[p] THEN NoFault ELSE Fault
              /\ spent' = IF Rotates THEN spent \cup {p} ELSE spent
              /\ Goto(r, "swap")
              /\ UNCHANGED <<kind, cookie, seen, tries, outcome>>
           \/ /\ ~Refreshes(p)
              /\ Goto(r, "refused")
              /\ NoFault
              /\ UNCHANGED <<identity_vars, kind, cookie, seen, fresh, tries, outcome>>
           \/ /\ Fault
              /\ ResolveThenRelease(r, FallBackTo(p), p)
              /\ \/ UNCHANGED spent
                 \/ Rotates /\ spent' = spent \cup {p}
              /\ UNCHANGED <<issued, family, subject, age, ended>>
    /\ UNCHANGED <<store_vars, overrun, loose, endings, aging>>

Refused(r) ==
    /\ step[r] = "refused"
    /\ Delete(cookie[r])
    /\ ResolveThenRelease(r, "expired", Nothing)
    /\ UNCHANGED <<identity_vars, ghost_vars>>

\* Mutant: the pair is replaced whatever the session holds.
ReplaceIfCurrent_Blind(r, i, expected) ==
    /\ store' = [store EXCEPT ![i] = fresh[r]]
    /\ held' = [held EXCEPT ![i] = @ \cup {fresh[r]}]
    /\ UNCHANGED <<lease, minted>>

\* The script that replaces the pair if the session still holds the expected one.
ReplaceIfCurrent(r, i, expected) ==
    /\ store[i] = expected
    /\ store' = [store EXCEPT ![i] = fresh[r]]
    /\ held' = [held EXCEPT ![i] = @ \cup {fresh[r]}]
    /\ UNCHANGED <<lease, minted>>

BelongsToSameUser(p, q) == subject[p] = subject[q]

Swap(r) ==
    /\ step[r] = "swap"
    /\ \/ /\ ~BelongsToSameUser(seen[r], fresh[r])
          /\ Goto(r, "refused")
          /\ UNCHANGED <<store_vars, kind, cookie, seen, fresh, tries, outcome>>
       \/ /\ BelongsToSameUser(seen[r], fresh[r])
          /\ ReplaceIfCurrent(r, cookie[r], seen[r])
          /\ ResolveThenRelease(r, "active", fresh[r])
       \/ /\ BelongsToSameUser(seen[r], fresh[r])
          /\ store[cookie[r]] # seen[r]
          /\ Goto(r, "latest")
          /\ UNCHANGED <<store_vars, kind, cookie, seen, fresh, tries, outcome>>
    /\ UNCHANGED <<identity_vars, ghost_vars>>

Latest(r) ==
    /\ step[r] = "latest"
    /\ LET p == store[cookie[r]]
       IN  ResolveThenRelease(r, IF p = Nothing THEN "expired" ELSE "active", p)
    /\ UNCHANGED <<store_vars, identity_vars, ghost_vars>>

\* The script that releases the lease if r still owns it.
ReleaseIfOwner(r, i) ==
    /\ lease' = [lease EXCEPT ![i] = IF @ = r THEN Nothing ELSE @]
    /\ UNCHANGED <<store, minted, held>>

Release(r) ==
    /\ step[r] = "release"
    /\ ReleaseIfOwner(r, cookie[r])
    /\ Resolve(r, outcome[r], seen[r])
    /\ UNCHANGED <<identity_vars, ghost_vars>>

\* Mutant: a handler waits for a concurrent refresh for as long as it takes.
Poll_Forever(r) ==
    /\ step[r] = "poll"
    /\ LET p == store[cookie[r]]
       IN  \/ p = Nothing /\ Resolve(r, "expired", Nothing)
           \/ p \notin {Nothing, seen[r]} /\ Resolve(r, "active", p)
           \/ p = seen[r] /\ UNCHANGED request_vars
    /\ UNCHANGED <<store_vars, identity_vars, ghost_vars>>

Poll(r) ==
    /\ step[r] = "poll"
    /\ LET p == store[cookie[r]]
       IN  \/ p = Nothing /\ Resolve(r, "expired", Nothing)
           \/ p \notin {Nothing, seen[r]} /\ Resolve(r, "active", p)
           \/ /\ p = seen[r]
              /\ tries[r] + 1 < MaxPolls
              /\ tries' = [tries EXCEPT ![r] = @ + 1]
              /\ UNCHANGED <<step, kind, cookie, seen, fresh, outcome>>
           \/ /\ p = seen[r]
              /\ tries[r] + 1 = MaxPolls
              /\ Resolve(r, FallBackTo(p), p)
    /\ UNCHANGED <<store_vars, identity_vars, ghost_vars>>

\* The proxied call. Both a Keycloak session that is over and an access token that has run
\* out are answered as the session's end; a call that fails says nothing.
Forward(r) ==
    /\ step[r] = "forward"
    /\ \/ Accepted(seen[r]) /\ Finish(r) /\ NoFault
       \/ /\ ~Accepted(seen[r])
          /\ Goto(r, "drop")
          /\ NoFault
          /\ UNCHANGED <<kind, cookie, seen, fresh, tries, outcome>>
       \/ Fault /\ Finish(r)
    /\ UNCHANGED <<store_vars, identity_vars, overrun, loose, endings, aging>>

Drop(r) ==
    /\ step[r] = "drop"
    /\ Delete(cookie[r])
    /\ Finish(r)
    /\ UNCHANGED <<identity_vars, ghost_vars>>

\* Identity ends the Keycloak session of pair p if it accepts the access token of pair q;
\* otherwise, or if the call fails, that session is left behind.
RevokeQuietly(p, q) ==
    /\ \/ /\ Accepted(q)
          /\ ended' = ended \cup {family[p]}
          /\ UNCHANGED loose
          /\ NoFault
       \/ /\ ~Accepted(q)
          /\ loose' = loose \cup {family[p]}
          /\ UNCHANGED ended
          /\ NoFault
       \/ /\ loose' = loose \cup {family[p]}
          /\ UNCHANGED ended
          /\ Fault
    /\ UNCHANGED <<issued, family, subject, age, spent, overrun, endings, aging>>

\* Signing out deletes the session whatever identity answers.
Revoke(r) ==
    /\ step[r] = "revoke"
    /\ RevokeQuietly(seen[r], seen[r])
    /\ Goto(r, "drop")
    /\ UNCHANGED <<store_vars, kind, cookie, seen, fresh, tries, outcome>>

\* Signing in with a password, which starts a Keycloak session or is refused.
Grant(r, granted) ==
    \/ /\ \E u \in Users : IssueTo(r, u, issued + 1)
       /\ Goto(r, granted)
       /\ UNCHANGED <<kind, cookie, seen, tries, outcome, spent>>
    \/ Finish(r) /\ UNCHANGED identity_vars

Confirm(r) ==
    /\ step[r] = "confirm"
    /\ Grant(r, "place")
    /\ UNCHANGED <<store_vars, ghost_vars>>

Place(r) ==
    /\ step[r] = "place"
    /\ \/ /\ ~BelongsToSameUser(seen[r], fresh[r])
          /\ Goto(r, "revokeNew")
          /\ UNCHANGED store_vars
       \/ /\ BelongsToSameUser(seen[r], fresh[r])
          /\ ReplaceIfCurrent(r, cookie[r], seen[r])
          /\ Goto(r, "revokePrevious")
       \/ /\ BelongsToSameUser(seen[r], fresh[r])
          /\ store[cookie[r]] # seen[r]
          /\ Goto(r, "catchup")
          /\ UNCHANGED store_vars
    /\ UNCHANGED <<identity_vars, ghost_vars, kind, cookie, seen, fresh, tries, outcome>>

\* A pair that got in first is built on, unless the session is gone or too many did.
CatchUp(r) ==
    /\ step[r] = "catchup"
    /\ LET p == store[cookie[r]]
       IN  \/ /\ p = Nothing
              /\ Goto(r, "revokeNew")
              /\ UNCHANGED <<seen, tries>>
           \/ /\ p # Nothing
              /\ seen' = [seen EXCEPT ![r] = p]
              /\ tries' = [tries EXCEPT ![r] = @ + 1]
              /\ Goto(r, IF tries[r] + 1 < MaxSwaps THEN "place" ELSE "revokeNew")
    /\ UNCHANGED <<store_vars, identity_vars, ghost_vars, kind, cookie, fresh, outcome>>

RevokePrevious(r) ==
    /\ step[r] = "revokePrevious"
    /\ RevokeQuietly(seen[r], fresh[r])
    /\ Finish(r)
    /\ UNCHANGED store_vars

RevokeNew(r) ==
    /\ step[r] = "revokeNew"
    /\ RevokeQuietly(fresh[r], fresh[r])
    /\ Finish(r)
    /\ UNCHANGED store_vars

\* A sign-in from a browser that sends a cookie deletes the session it names.
SignIn(r) ==
    /\ step[r] = "signin"
    /\ \E next \in {"replace", "create"} : Grant(r, next)
    /\ UNCHANGED <<store_vars, ghost_vars>>

ReplaceSession(r) ==
    /\ step[r] = "replace"
    /\ Delete(cookie[r])
    /\ Goto(r, "create")
    /\ UNCHANGED <<identity_vars, ghost_vars, kind, cookie, seen, fresh, tries, outcome>>

Create(r) ==
    /\ step[r] = "create"
    /\ minted + 1 \in Ids
    /\ minted' = minted + 1
    /\ store' = [store EXCEPT ![minted'] = fresh[r]]
    /\ held' = [held EXCEPT ![minted'] = {fresh[r]}]
    /\ Finish(r)
    /\ UNCHANGED <<lease, identity_vars, ghost_vars>>

-----------------------------------------------------------------------------
(* What goes wrong, and what time and other devices do.                      *)

\* What a handler that gives up leaves at identity.
InHand(r) ==
    {family[p] : p \in ({fresh[r]} \cup IF step[r] = "revokePrevious" THEN {seen[r]} ELSE {}) \ {Nothing}}

\* A call to Redis fails: resolving the session fails, which ends every handler but a
\* sign-out, and a step-up or a sign-in leaves its new tokens to themselves.
RedisFails(r) ==
    /\ Fault
    /\ \/ step[r] \in {"lookup", "discard", "lock", "poll", "release"} /\ Resolve(r, "failed", Nothing)
       \/ step[r] \in {"reread", "refused", "swap", "latest"} /\ ResolveThenRelease(r, "failed", Nothing)
       \/ step[r] \in {"drop", "place", "catchup", "replace", "create"} /\ Finish(r)
    /\ loose' = loose \cup InHand(r)
    /\ UNCHANGED <<store_vars, identity_vars, overrun, endings, aging>>

\* The process dies, and no answer is sent.
Die(r) ==
    /\ step[r] \notin {"idle", "done"}
    /\ Fault
    /\ loose' = loose \cup InHand(r)
    /\ Finish(r)
    /\ UNCHANGED <<store_vars, identity_vars, overrun, endings, aging>>

\* Nothing bounds a call to identity, so that a lease can run out before its owner is done.
LeaseRunsOut(i) ==
    /\ lease[i] # Nothing
    /\ lease' = [lease EXCEPT ![i] = Nothing]
    /\ overrun' = overrun \cup {lease[i]}
    /\ UNCHANGED <<store, minted, held, identity_vars, request_vars, loose, faults, endings, aging>>

\* Time passes for a pair. All pairs live equally long.
Age(p) ==
    /\ p <= issued
    /\ aging < MaxAging
    /\ aging' = aging + 1
    /\ \E a \in Ages :
         /\ a > age[p]
         /\ \A q \in 1..(p - 1) : age[q] >= a
         /\ age' = [age EXCEPT ![p] = a]
    /\ UNCHANGED <<issued, family, subject, spent, ended, store_vars, request_vars,
                   overrun, loose, faults, endings>>

\* Redis forgets a session when its refresh token runs out.
Forget(i) ==
    /\ store[i] # Nothing
    /\ ~IsRefreshable(store[i])
    /\ Delete(i)
    /\ UNCHANGED <<identity_vars, request_vars, ghost_vars>>

\* The account ends one of its sessions from another device.
EndElsewhere(f) ==
    /\ f <= issued
    /\ family[f] = f
    /\ f \notin ended
    /\ faults + endings < MaxTroubles
    /\ endings' = endings + 1
    /\ ended' = ended \cup {f}
    /\ UNCHANGED <<issued, family, subject, age, spent, store_vars, request_vars,
                   overrun, loose, faults, aging>>

-----------------------------------------------------------------------------
\* One session is open, fresh from a sign-in.
Init ==
    /\ store = [i \in Ids |-> IF i = 1 THEN 1 ELSE Nothing]
    /\ lease = [i \in Ids |-> Nothing]
    /\ minted = 1
    /\ issued = 1
    /\ family = [p \in Pairs |-> IF p = 1 THEN 1 ELSE Nothing]
    /\ subject = [p \in Pairs |-> IF p = 1 THEN Owner ELSE Nothing]
    /\ age = [p \in Pairs |-> 0]
    /\ spent = {}
    /\ ended = {}
    /\ step = [r \in Requests |-> "idle"]
    /\ kind = [r \in Requests |-> "bff"]
    /\ cookie = [r \in Requests |-> 1]
    /\ seen = [r \in Requests |-> Nothing]
    /\ fresh = [r \in Requests |-> Nothing]
    /\ tries = [r \in Requests |-> 0]
    /\ outcome = [r \in Requests |-> "none"]
    /\ held = [i \in Ids |-> IF i = 1 THEN {1} ELSE {}]
    /\ overrun = {}
    /\ loose = {}
    /\ faults = 0
    /\ endings = 0
    /\ aging = 0

Serve(r) ==
    \/ Lookup(r)
    \/ Discard(r)
    \/ Lock(r)
    \/ Reread(r)
    \/ Refresh(r)
    \/ Refused(r)
    \/ Swap(r)
    \/ Latest(r)
    \/ Release(r)
    \/ Poll(r)
    \/ Forward(r)
    \/ Drop(r)
    \/ Revoke(r)
    \/ Confirm(r)
    \/ Place(r)
    \/ CatchUp(r)
    \/ RevokePrevious(r)
    \/ RevokeNew(r)
    \/ SignIn(r)
    \/ ReplaceSession(r)
    \/ Create(r)

Next ==
    \/ \E r \in Requests : Arrive(r)
    \/ \E r \in Requests : Serve(r)
    \/ \E r \in Requests : RedisFails(r)
    \/ \E r \in Requests : Die(r)
    \/ \E i \in Ids : LeaseRunsOut(i)
    \/ \E i \in Ids : Forget(i)
    \/ \E p \in Pairs : Age(p)
    \/ \E f \in Pairs : EndElsewhere(f)

Spec == Init /\ [][Next]_vars

\* A handler that has arrived keeps running: every call it waits for is answered or fails.
FairSpec == Spec /\ \A r \in Requests : WF_vars(Serve(r))

-----------------------------------------------------------------------------
\* Of the handlers whose lease has not run out, at most one is refreshing a session: the
\* refresh key admits one, and only its owner removes it (refresh-lock.ts, refreshOnce).
Refreshing == {"reread", "refresh", "refused", "swap", "latest", "release"}

SingleFlight ==
    \A r, s \in Requests \ overrun :
        (step[r] \in Refreshing /\ step[s] \in Refreshing /\ cookie[r] = cookie[s]) => r = s

\* Parallel loads sign nobody out: as long as no call fails, no process dies and no lease
\* runs out, identity refuses a handler's refresh token only because its
\* Keycloak session is over or the token has run out (ADR-0025 on why refresh is
\* single-flight; refreshOnce, refresh).
ParallelLoadsSignNobodyOut ==
    \A r \in Requests :
        (/\ step[r] = "refused"
         /\ overrun = {}
         /\ faults = 0)
        => family[seen[r]] \in ended \/ ~IsRefreshable(seen[r])

\* A step-up leaves one Keycloak session to its browser session: any other one whose tokens
\* the browser session has held is over, or is about to be ended by the step-up that
\* replaced it, or was left behind by a call that failed (reauthenticate.ts).
OneSessionLeft ==
    \A i \in Ids : store[i] # Nothing =>
        \A p \in held[i] :
            \/ family[p] \in ended \cup loose \cup {family[store[i]]}
            \/ \E r \in Requests : step[r] = "revokePrevious" /\ family[seen[r]] = family[p]

\* Every request that arrives is answered, also when the handler it waits for dies with the
\* lease in its name (awaitConcurrentRefresh, refreshOnce).
EveryRequestIsAnswered == \A r \in Requests : step[r] = "lookup" ~> step[r] = "done"

\* The sessions in Redis implement SessionLife.
Life == INSTANCE SessionLife WITH
    tokens <- store,
    user <- [i \in Ids |-> IF store[i] = Nothing THEN Nothing ELSE subject[store[i]]]

LifeSpec == Life!Spec
=============================================================================
