-------------------------- MODULE WebSessionProofs --------------------------
(* Proofs about WebSession, for any number of handlers, sessions, pairs and  *)
(* accounts, and any bounds.                                                 *)
EXTENDS WebSession, FiniteSetTheorems, TLAPS

USE NumbersAssumption, NothingAssumption, ServesAssumption, OwnerAssumption

\* The pairs identity has issued.
Known == 1..issued

-----------------------------------------------------------------------------
(* The inductive invariant.                                                  *)

\* The parts of the state that are functions of handlers.
Arrays ==
    /\ step \in [Requests -> Steps]
    /\ kind \in [Requests -> Kinds]
    /\ cookie \in [Requests -> Ids]
    /\ seen \in [Requests -> Pairs \cup {Nothing}]
    /\ fresh \in [Requests -> Pairs \cup {Nothing}]
    /\ tries \in [Requests -> Nat]
    /\ outcome \in [Requests -> Outcomes]

\* A handler works from pairs that have been issued, and has the ones its step needs.
RequestOK(r) ==
    /\ seen[r] \in Known \cup {Nothing}
    /\ fresh[r] \in Known \cup {Nothing}
    /\ (outcome[r] = "active" \/ step[r] \in WorksFromPair) => seen[r] # Nothing
    /\ step[r] \in HasNewPair => fresh[r] # Nothing

\* What Redis and identity keep, and the bounds.
Typed ==
    /\ store \in [Ids -> Pairs \cup {Nothing}]
    /\ lease \in [Ids -> Requests \cup {Nothing}]
    /\ held \in [Ids -> SUBSET Pairs]
    /\ minted \in 1..Cardinality(Ids)
    /\ issued \in Pairs
    /\ family \in [Pairs -> Pairs \cup {Nothing}]
    /\ subject \in [Pairs -> Users \cup {Nothing}]
    /\ age \in [Pairs -> Ages]
    /\ spent \subseteq Pairs
    /\ ended \subseteq Pairs
    /\ loose \subseteq Pairs
    /\ overrun \subseteq Requests
    /\ faults \in 0..MaxTroubles
    /\ endings \in 0..MaxTroubles
    /\ aging \in 0..MaxAging

\* Sessions hold issued pairs, a session that was never opened none; every issued pair belongs
\* to an account and to a Keycloak session.
Holdings ==
    /\ \A i \in Ids : /\ held[i] \subseteq Known
                      /\ held[i] = {} <=> i > minted
                      /\ store[i] # Nothing => store[i] \in held[i]
    /\ \A p \in Known : family[p] \in Pairs /\ subject[p] \in Users

\* A pair that a handler has in hand is its own, and no session has held it until the handler
\* puts it in.
InHandInv ==
    /\ \A r \in Requests : (fresh[r] # Nothing /\ step[r] # "revokePrevious") =>
                               \A i \in Ids : fresh[r] \notin held[i]
    /\ \A r, q \in Requests : (fresh[r] # Nothing /\ fresh[r] = fresh[q]) => r = q

\* A handler that is refreshing has the lease, unless it ran out.
LeaseInv ==
    \A r \in Requests \ overrun : step[r] \in Refreshing => lease[cookie[r]] = r

Inv ==
    /\ Typed
    /\ Arrays
    /\ \A r \in Requests : RequestOK(r)
    /\ Holdings
    /\ InHandInv
    /\ LeaseInv

-----------------------------------------------------------------------------
(* What a handler's step does to the handlers.                               *)

\* The handler is as it should be after the step, and the others are as they were.
Moved(r) ==
    /\ Arrays'
    /\ RequestOK(r)'
    /\ \A q \in Requests \ {r} :
         /\ step'[q] = step[q] /\ cookie'[q] = cookie[q] /\ seen'[q] = seen[q]
         /\ fresh'[q] = fresh[q] /\ outcome'[q] = outcome[q]

LEMMA KnownPairs ==
    ASSUME Typed
    PROVE  /\ Known \subseteq Pairs /\ Nothing \notin Known
           /\ \A p \in Pairs : p \in Nat \ {0}
           /\ \A i \in Ids : i \in Nat \ {0}
           /\ 1..minted \subseteq Ids
<1>1. Cardinality(Ids) \in Nat /\ Cardinality(Pairs) \in Nat
  BY FS_CardinalityType
<1> QED BY <1>1 DEF Typed, Known

LEMMA FinishMoves ==
    ASSUME Typed, Arrays, NEW r \in Requests, Finish(r)
    PROVE  Moved(r) /\ step'[r] = "done" /\ fresh'[r] = Nothing
  BY DEF Finish, Goto, Moved, Arrays, RequestOK, Steps, Kinds, Outcomes, WorksFromPair, HasNewPair

LEMMA AfterResolves ==
    ASSUME NEW r, NEW o
    PROVE  /\ AfterResolve(r, o) \in {"forward", "revoke", "drop", "confirm", "done"}
           /\ AfterResolve(r, o) \in {"forward", "revoke", "confirm"} => o = "active"
  BY DEF AfterResolve

LEMMA ResolveMoves ==
    ASSUME Typed, Arrays, NEW r \in Requests, NEW o \in Outcomes, NEW p \in Known \cup {Nothing},
           o = "active" => p # Nothing, Resolve(r, o, p), issued' = issued
    PROVE  /\ Moved(r)
           /\ step'[r] \in {"forward", "revoke", "drop", "confirm", "done"} /\ fresh'[r] = Nothing
<1>1. CASE Finish(r)
  BY <1>1, FinishMoves
<1>2. CASE /\ Goto(r, AfterResolve(r, o))
           /\ outcome' = [outcome EXCEPT ![r] = o]
           /\ seen' = [seen EXCEPT ![r] = p]
           /\ fresh' = [fresh EXCEPT ![r] = Nothing]
           /\ tries' = [tries EXCEPT ![r] = 0]
           /\ UNCHANGED <<kind, cookie>>
  <2> DEFINE s == AfterResolve(r, o)
  <2>1. s \in {"forward", "revoke", "drop", "confirm", "done"}
        /\ (s \in {"forward", "revoke", "confirm"} => o = "active")
    BY AfterResolves
  <2>2. step' = [step EXCEPT ![r] = s]
    BY <1>2 DEF Goto
  <2> HIDE DEF s
  <2>3. step'[r] = s /\ seen'[r] = p /\ fresh'[r] = Nothing /\ outcome'[r] = o
    BY <1>2, <2>2 DEF Arrays
  <2>4. Arrays'
    BY <1>2, <2>1, <2>2, KnownPairs DEF Arrays, Steps
  <2>5. RequestOK(r)'
    BY <2>1, <2>3 DEF RequestOK, Known, WorksFromPair, HasNewPair
  <2>6. \A q \in Requests \ {r} :
          /\ step'[q] = step[q] /\ cookie'[q] = cookie[q] /\ seen'[q] = seen[q]
          /\ fresh'[q] = fresh[q] /\ outcome'[q] = outcome[q]
    BY <1>2, <2>2 DEF Arrays
  <2> QED BY <2>1, <2>3, <2>4, <2>5, <2>6 DEF Moved
<1> QED BY <1>1, <1>2 DEF Resolve

LEMMA ReleaseMoves ==
    ASSUME Typed, Arrays, NEW r \in Requests, NEW o \in Outcomes, NEW p \in Known \cup {Nothing},
           o = "active" => p # Nothing, ResolveThenRelease(r, o, p), issued' = issued
    PROVE  Moved(r) /\ step'[r] = "release" /\ cookie'[r] = cookie[r] /\ fresh'[r] = Nothing
<1>1. step'[r] = "release" /\ seen'[r] = p /\ fresh'[r] = Nothing /\ outcome'[r] = o
  BY DEF ResolveThenRelease, Goto, Arrays
<1>2. Arrays'
  BY KnownPairs DEF ResolveThenRelease, Goto, Arrays, Steps, Resolving
<1>3. RequestOK(r)'
  BY <1>1 DEF RequestOK, Known, WorksFromPair, HasNewPair
<1>4. \A q \in Requests \ {r} :
        /\ step'[q] = step[q] /\ cookie'[q] = cookie[q] /\ seen'[q] = seen[q]
        /\ fresh'[q] = fresh[q] /\ outcome'[q] = outcome[q]
  BY DEF ResolveThenRelease, Goto, Arrays
<1> QED BY <1>1, <1>2, <1>3, <1>4 DEF Moved, ResolveThenRelease

LEMMA GotoMoves ==
    ASSUME Typed, Arrays, NEW r \in Requests, RequestOK(r), NEW s \in Steps, Goto(r, s),
           UNCHANGED <<kind, cookie, seen, fresh, tries, outcome>>, issued' = issued,
           s \in WorksFromPair => seen[r] # Nothing, s \in HasNewPair => fresh[r] # Nothing
    PROVE  Moved(r) /\ step'[r] = s /\ fresh'[r] = fresh[r] /\ cookie'[r] = cookie[r]
  BY DEF Goto, Moved, Arrays, RequestOK, Known

-----------------------------------------------------------------------------
(* Steps that take no new pair in hand and put none into a session.          *)

StoreStill == UNCHANGED <<store, held, minted>>
Deleted == \E i \in Ids : store' = [store EXCEPT ![i] = Nothing] /\ UNCHANGED <<held, minted>>

Calm(r) ==
    /\ Moved(r)
    /\ StoreStill \/ Deleted
    /\ UNCHANGED <<issued, family, subject>>
    /\ fresh'[r] \in {fresh[r], Nothing}
    /\ step[r] = "revokePrevious" => fresh'[r] = Nothing

\* The lease and who has lost it stay as they are, and nobody starts to refresh.
KeepsLease(r) ==
    /\ UNCHANGED <<lease, overrun>>
    /\ step'[r] \in Refreshing => step[r] \in Refreshing /\ cookie'[r] = cookie[r]

LEMMA CalmKeeps ==
    ASSUME Inv, NEW r \in Requests, Calm(r)
    PROVE  Arrays' /\ (\A q \in Requests : RequestOK(q)') /\ Holdings' /\ InHandInv'
<1> USE DEF Inv
<1>1. Arrays' /\ \A q \in Requests : RequestOK(q)'
  BY DEF Calm, Moved, RequestOK, Known
<1>2. \A i \in Ids : held'[i] = held[i] /\ store'[i] \in {store[i], Nothing}
  BY DEF Calm, StoreStill, Deleted, Typed
<1>3. Holdings'
  BY <1>2 DEF Calm, StoreStill, Deleted, Holdings, Known
<1>4. InHandInv'
  <2>1. \A q \in Requests : fresh'[q] # Nothing =>
          /\ fresh'[q] = fresh[q]
          /\ step'[q] # "revokePrevious" => step[q] # "revokePrevious"
    BY DEF Calm, Moved
  <2> QED BY <1>2, <2>1 DEF InHandInv
<1> QED BY <1>1, <1>3, <1>4

LEMMA LeaseKept ==
    ASSUME Inv, NEW r \in Requests, Moved(r), KeepsLease(r)
    PROVE  LeaseInv'
  BY DEF Inv, Moved, KeepsLease, LeaseInv

LEMMA Faults ==
    ASSUME Typed, Fault \/ NoFault \/ UNCHANGED faults
    PROVE  faults' \in 0..MaxTroubles
  BY DEF Typed, Fault, NoFault

LEMMA DeletesTyped ==
    ASSUME Typed, NEW i \in Ids, Delete(i)
    PROVE  /\ Deleted /\ UNCHANGED lease
           /\ store' \in [Ids -> Pairs \cup {Nothing}]
  BY DEF Typed, Delete, Deleted

\* What a step leaves alone when it takes no new pair in hand and touches no lease.
Apart == (StoreStill \/ Deleted) /\ UNCHANGED <<lease, overrun, issued, family, subject>>

LEMMA ResolveCalm ==
    ASSUME Inv, NEW r \in Requests, NEW o \in Outcomes, NEW p \in Known \cup {Nothing},
           o = "active" => p # Nothing, Resolve(r, o, p), Apart
    PROVE  Calm(r) /\ KeepsLease(r)
  BY ResolveMoves DEF Inv, Apart, Calm, KeepsLease, Refreshing

LEMMA ReleaseCalm ==
    ASSUME Inv, NEW r \in Requests, NEW o \in Outcomes, NEW p \in Known \cup {Nothing},
           o = "active" => p # Nothing, ResolveThenRelease(r, o, p), Apart, step[r] \in Refreshing
    PROVE  Calm(r) /\ KeepsLease(r)
  BY ReleaseMoves DEF Inv, Apart, Calm, KeepsLease, Refreshing

LEMMA FinishCalm ==
    ASSUME Inv, NEW r \in Requests, Finish(r), Apart
    PROVE  Calm(r) /\ KeepsLease(r)
  BY FinishMoves DEF Inv, Apart, Calm, KeepsLease, Refreshing

LEMMA GotoCalm ==
    ASSUME Inv, NEW r \in Requests, NEW s \in Steps, Goto(r, s), Apart,
           UNCHANGED <<kind, cookie, seen, fresh, tries, outcome>>,
           s \in WorksFromPair => seen[r] # Nothing, s \in HasNewPair => fresh[r] # Nothing,
           s \in Refreshing => step[r] \in Refreshing, step[r] # "revokePrevious"
    PROVE  Calm(r) /\ KeepsLease(r)
  BY GotoMoves DEF Inv, Apart, Calm, KeepsLease

LEMMA Cookies ==
    ASSUME Inv, NEW r \in Requests
    PROVE  cookie[r] \in Ids /\ store[cookie[r]] \in Known \cup {Nothing}
  BY DEF Inv, Arrays, Holdings, Typed

\* Handlers that only read the store.
LEMMA LookupCalm ==
    ASSUME Inv, NEW r \in Requests, Lookup(r)
    PROVE  Calm(r) /\ KeepsLease(r) /\ Typed'
<1> USE DEF Inv
<1>1. Typed' /\ Apart
  BY DEF Lookup, Typed, Apart, StoreStill, store_vars, identity_vars, ghost_vars
<1>2. cookie[r] \in Ids /\ store[cookie[r]] \in Known \cup {Nothing} /\ step[r] = "lookup"
  BY Cookies DEF Lookup
<1>3. ASSUME NEW s \in {"discard", "lock"}, Goto(r, s), store[cookie[r]] # Nothing,
             seen' = [seen EXCEPT ![r] = store[cookie[r]]],
             UNCHANGED <<kind, cookie, fresh, tries, outcome>>
      PROVE  Calm(r) /\ KeepsLease(r)
  <2>1. Moved(r) /\ step'[r] = s /\ fresh'[r] = fresh[r]
    BY <1>1, <1>2, <1>3, KnownPairs
       DEF Apart, Goto, Moved, Arrays, RequestOK, Known, Steps, Resolving, WorksFromPair, HasNewPair
  <2> QED BY <1>1, <1>2, <2>1 DEF Apart, Calm, KeepsLease, Refreshing
<1>4. \/ Resolve(r, "expired", Nothing)
      \/ store[cookie[r]] # Nothing /\ Resolve(r, "active", store[cookie[r]])
      \/ \E s \in {"discard", "lock"} :
           /\ Goto(r, s) /\ store[cookie[r]] # Nothing
           /\ seen' = [seen EXCEPT ![r] = store[cookie[r]]]
           /\ UNCHANGED <<kind, cookie, fresh, tries, outcome>>
  BY DEF Lookup
<1> QED BY <1>1, <1>2, <1>3, <1>4, ResolveCalm DEF Outcomes

LEMMA RereadCalm ==
    ASSUME Inv, NEW r \in Requests, Reread(r)
    PROVE  Calm(r) /\ KeepsLease(r) /\ Typed'
<1> USE DEF Inv
<1>1. Typed' /\ Apart
  BY DEF Reread, Typed, Apart, StoreStill, store_vars, identity_vars, ghost_vars
<1>2. cookie[r] \in Ids /\ store[cookie[r]] \in Known \cup {Nothing} /\ step[r] \in Refreshing
  BY Cookies DEF Reread, Refreshing
<1>3. CASE /\ Goto(r, "refresh") /\ store[cookie[r]] # Nothing
           /\ seen' = [seen EXCEPT ![r] = store[cookie[r]]]
           /\ UNCHANGED <<kind, cookie, fresh, tries, outcome>>
  <2>1. Moved(r) /\ fresh'[r] = fresh[r] /\ cookie'[r] = cookie[r]
    BY <1>1, <1>2, <1>3, KnownPairs
       DEF Apart, Goto, Moved, Arrays, RequestOK, Known, Steps, Resolving, WorksFromPair, HasNewPair
  <2> QED BY <1>1, <1>2, <2>1 DEF Apart, Calm, KeepsLease, Refreshing
<1>4. \/ ResolveThenRelease(r, "expired", Nothing)
      \/ store[cookie[r]] # Nothing /\ ResolveThenRelease(r, "active", store[cookie[r]])
      \/ /\ Goto(r, "refresh") /\ store[cookie[r]] # Nothing
         /\ seen' = [seen EXCEPT ![r] = store[cookie[r]]]
         /\ UNCHANGED <<kind, cookie, fresh, tries, outcome>>
  BY DEF Reread
<1> QED BY <1>1, <1>2, <1>3, <1>4, ReleaseCalm DEF Outcomes

LEMMA LatestCalm ==
    ASSUME Inv, NEW r \in Requests, Latest(r)
    PROVE  Calm(r) /\ KeepsLease(r) /\ Typed'
<1> USE DEF Inv
<1>1. Typed' /\ Apart
  BY DEF Latest, Typed, Apart, StoreStill, store_vars, identity_vars, ghost_vars
<1>2. store[cookie[r]] \in Known \cup {Nothing} /\ step[r] \in Refreshing
  BY Cookies DEF Latest, Refreshing
<1>3. ResolveThenRelease(r, IF store[cookie[r]] = Nothing THEN "expired" ELSE "active", store[cookie[r]])
  BY DEF Latest
<1> QED BY <1>1, <1>2, <1>3, ReleaseCalm DEF Outcomes

LEMMA PollCalm ==
    ASSUME Inv, NEW r \in Requests, Poll(r)
    PROVE  Calm(r) /\ KeepsLease(r) /\ Typed'
<1> USE DEF Inv
<1>1. Typed' /\ Apart
  BY DEF Poll, Typed, Apart, StoreStill, store_vars, identity_vars, ghost_vars
<1>2. store[cookie[r]] \in Known \cup {Nothing} /\ step[r] = "poll" /\ seen[r] # Nothing
  BY Cookies DEF Poll, RequestOK, WorksFromPair
<1>3. CASE /\ tries' = [tries EXCEPT ![r] = @ + 1]
           /\ UNCHANGED <<step, kind, cookie, seen, fresh, outcome>>
  <2>1. Moved(r) /\ fresh'[r] = fresh[r] /\ cookie'[r] = cookie[r] /\ step'[r] = step[r]
    BY <1>1, <1>3 DEF Apart, Moved, Arrays, RequestOK, Known
  <2> QED BY <1>1, <1>2, <2>1 DEF Apart, Calm, KeepsLease, Refreshing
<1>4. \E o \in Outcomes, p \in Known \cup {Nothing} :
        \/ (o = "active" => p # Nothing) /\ Resolve(r, o, p)
        \/ /\ tries' = [tries EXCEPT ![r] = @ + 1]
           /\ UNCHANGED <<step, kind, cookie, seen, fresh, outcome>>
  BY <1>2 DEF Poll, Outcomes, FallBackTo
<1> QED BY <1>1, <1>3, <1>4, ResolveCalm

\* Handlers that delete a session, or stop working.
LEMMA DeletersCalm ==
    ASSUME Inv, NEW r \in Requests, Discard(r) \/ Refused(r) \/ Drop(r) \/ ReplaceSession(r)
    PROVE  Calm(r) /\ KeepsLease(r) /\ Typed'
<1> USE DEF Inv
<1>1. cookie[r] \in Ids /\ Delete(cookie[r])
  BY Cookies DEF Discard, Refused, Drop, ReplaceSession
<1>2. Typed' /\ Apart
  BY <1>1, DeletesTyped
     DEF Discard, Refused, Drop, ReplaceSession, Typed, Delete, Apart, identity_vars, ghost_vars
<1>3. CASE Discard(r)
  BY <1>2, <1>3, ResolveCalm DEF Discard, Outcomes
<1>4. CASE Refused(r)
  BY <1>2, <1>4, ReleaseCalm DEF Refused, Outcomes, Refreshing
<1>5. CASE Drop(r)
  BY <1>2, <1>5, FinishCalm DEF Drop
<1>6. CASE ReplaceSession(r)
  <2>1. step[r] = "replace" /\ fresh[r] # Nothing
    BY <1>6 DEF ReplaceSession, RequestOK, HasNewPair
  <2> QED BY <1>2, <1>6, <2>1, GotoCalm DEF ReplaceSession, Steps, WorksFromPair, HasNewPair, Refreshing
<1> QED BY <1>2, <1>3, <1>4, <1>5, <1>6

LEMMA ArriveCalm ==
    ASSUME Inv, NEW r \in Requests, Arrive(r)
    PROVE  Calm(r) /\ KeepsLease(r) /\ Typed'
<1> USE DEF Inv
<1>1. Typed' /\ Apart
  BY DEF Arrive, Typed, Apart, StoreStill, store_vars, identity_vars, ghost_vars
<1>2. PICK k \in Serves[r], i \in 1..minted :
        /\ kind' = [kind EXCEPT ![r] = k]
        /\ cookie' = [cookie EXCEPT ![r] = i]
        /\ Goto(r, IF k = "login" THEN "signin" ELSE "lookup")
        /\ UNCHANGED <<seen, fresh, tries, outcome>>
  BY DEF Arrive
<1>3. k \in Kinds /\ i \in Ids
  BY KnownPairs
<1>4. step[r] = "idle" /\ step'[r] \in {"signin", "lookup"} /\ fresh'[r] = fresh[r]
  BY <1>2 DEF Arrive, Goto, Arrays
<1>5. Arrays'
  BY <1>2, <1>3 DEF Goto, Arrays, Steps, Resolving
<1>6. RequestOK(r)'
  BY <1>1, <1>2, <1>4 DEF Apart, RequestOK, Known, WorksFromPair, HasNewPair
<1>7. \A q \in Requests \ {r} :
        /\ step'[q] = step[q] /\ cookie'[q] = cookie[q] /\ seen'[q] = seen[q]
        /\ fresh'[q] = fresh[q] /\ outcome'[q] = outcome[q]
  BY <1>2 DEF Goto, Arrays
<1> QED BY <1>1, <1>4, <1>5, <1>6, <1>7 DEF Moved, Apart, Calm, KeepsLease, Refreshing

\* What is left behind at identity are Keycloak sessions.
LEMMA LeftBehind ==
    ASSUME Inv, NEW r \in Requests
    PROVE  InHand(r) \subseteq Pairs
  BY KnownPairs DEF Inv, InHand, RequestOK, Holdings, Arrays

LEMMA RevokesTyped ==
    ASSUME Inv, NEW p \in Known, NEW q, RevokeQuietly(p, q), UNCHANGED <<store, lease, minted, held>>
    PROVE  Typed' /\ Apart
<1>1. family[p] \in Pairs
  BY DEF Inv, Holdings
<1>2. faults' \in 0..MaxTroubles
  BY Faults DEF Inv, RevokeQuietly
<1> QED BY <1>1, <1>2 DEF Inv, RevokeQuietly, Typed, Apart, StoreStill

\* Calls to the gateway and to identity that end a session, or find it ended.
LEMMA CallersCalm ==
    ASSUME Inv, NEW r \in Requests, Forward(r) \/ Revoke(r) \/ RevokePrevious(r) \/ RevokeNew(r)
    PROVE  Calm(r) /\ KeepsLease(r) /\ Typed'
<1> USE DEF Inv
<1>1. CASE Forward(r)
  <2>1. Typed' /\ Apart
    <3>1. faults' \in 0..MaxTroubles
      BY <1>1, Faults DEF Forward
    <3> QED BY <1>1, <3>1 DEF Forward, Typed, Apart, StoreStill, store_vars, identity_vars
  <2>2. CASE Finish(r)
    BY <2>1, <2>2, FinishCalm
  <2>3. CASE Goto(r, "drop") /\ UNCHANGED <<kind, cookie, seen, fresh, tries, outcome>>
    BY <1>1, <2>1, <2>3, GotoCalm DEF Forward, Steps, WorksFromPair, HasNewPair, Refreshing
  <2> QED BY <1>1, <2>1, <2>2, <2>3 DEF Forward
<1>2. CASE Revoke(r)
  <2>1. seen[r] \in Known /\ step[r] = "revoke"
    BY <1>2 DEF Revoke, RequestOK, WorksFromPair
  <2>2. Typed' /\ Apart
    BY <1>2, <2>1, RevokesTyped DEF Revoke, store_vars
  <2> QED BY <1>2, <2>1, <2>2, GotoCalm DEF Revoke, Steps, WorksFromPair, HasNewPair, Refreshing
<1>3. CASE RevokePrevious(r)
  <2>1. seen[r] \in Known
    BY <1>3 DEF RevokePrevious, RequestOK, WorksFromPair
  <2>2. Typed' /\ Apart
    BY <1>3, <2>1, RevokesTyped DEF RevokePrevious, store_vars
  <2> QED BY <1>3, <2>2, FinishCalm DEF RevokePrevious
<1>4. CASE RevokeNew(r)
  <2>1. fresh[r] \in Known
    BY <1>4 DEF RevokeNew, RequestOK, HasNewPair
  <2>2. Typed' /\ Apart
    BY <1>4, <2>1, RevokesTyped DEF RevokeNew, store_vars
  <2> QED BY <1>4, <2>2, FinishCalm DEF RevokeNew
<1> QED BY <1>1, <1>2, <1>3, <1>4

LEMMA CatchUpCalm ==
    ASSUME Inv, NEW r \in Requests, CatchUp(r)
    PROVE  Calm(r) /\ KeepsLease(r) /\ Typed'
<1> USE DEF Inv
<1>1. Typed' /\ Apart
  BY DEF CatchUp, Typed, Apart, StoreStill, store_vars, identity_vars, ghost_vars
<1>2. store[cookie[r]] \in Known \cup {Nothing} /\ step[r] = "catchup" /\ fresh[r] # Nothing /\ seen[r] # Nothing
  BY Cookies DEF CatchUp, RequestOK, WorksFromPair, HasNewPair
<1>3. CASE Goto(r, "revokeNew") /\ UNCHANGED <<seen, tries>>
  BY <1>1, <1>2, <1>3, GotoCalm DEF CatchUp, Steps, WorksFromPair, HasNewPair, Refreshing
<1>4. CASE /\ store[cookie[r]] # Nothing
           /\ seen' = [seen EXCEPT ![r] = store[cookie[r]]]
           /\ tries' = [tries EXCEPT ![r] = @ + 1]
           /\ Goto(r, IF tries[r] + 1 < MaxSwaps THEN "place" ELSE "revokeNew")
  <2>1. PICK s \in {"place", "revokeNew"} : Goto(r, s)
    BY <1>4
  <2>2. Moved(r) /\ fresh'[r] = fresh[r] /\ step'[r] = s
    BY <1>1, <1>2, <1>4, <2>1, KnownPairs DEF CatchUp, Apart, Goto, Moved, Arrays, RequestOK, Known, Steps
  <2> QED BY <1>1, <1>2, <2>2 DEF Apart, Calm, KeepsLease, Refreshing
<1> QED BY <1>1, <1>3, <1>4 DEF CatchUp

\* A handler whose call fails, or that dies.
LEMMA FailuresCalm ==
    ASSUME Inv, NEW r \in Requests, RedisFails(r) \/ Die(r)
    PROVE  Calm(r) /\ KeepsLease(r) /\ Typed'
<1> USE DEF Inv
<1>1. Typed' /\ Apart
  <2>1. faults' \in 0..MaxTroubles
    BY Faults DEF RedisFails, Die
  <2>2. loose' \subseteq Pairs
    BY LeftBehind DEF RedisFails, Die, Typed
  <2> QED BY <2>1, <2>2 DEF RedisFails, Die, Typed, Apart, StoreStill, store_vars, identity_vars
<1>2. \/ Resolve(r, "failed", Nothing)
      \/ step[r] \in Refreshing /\ ResolveThenRelease(r, "failed", Nothing)
      \/ Finish(r)
  BY DEF RedisFails, Die, Refreshing
<1> QED BY <1>1, <1>2, ResolveCalm, ReleaseCalm, FinishCalm DEF Outcomes

-----------------------------------------------------------------------------
(* Steps that take a new pair in hand.                                       *)

Issuing(r) ==
    /\ Moved(r)
    /\ StoreStill
    /\ issued' = issued + 1 /\ issued' \in Pairs /\ fresh'[r] = issued'
    /\ \A p \in Known : family'[p] = family[p] /\ subject'[p] = subject[p]
    /\ family'[issued'] \in Pairs /\ subject'[issued'] \in Users

LEMMA IssueMoves ==
    ASSUME Inv, NEW r \in Requests, NEW u \in Users, NEW f, IssueTo(r, u, f),
           f \in Pairs \/ f = issued + 1, NEW s \in Steps, Goto(r, s), StoreStill,
           UNCHANGED <<kind, cookie, seen, tries, outcome>>, s \in WorksFromPair => seen[r] # Nothing
    PROVE  /\ Issuing(r) /\ step'[r] = s /\ cookie'[r] = cookie[r]
           /\ family' \in [Pairs -> Pairs \cup {Nothing}] /\ subject' \in [Pairs -> Users \cup {Nothing}]
<1> USE DEF Inv
<1> DEFINE new == issued + 1
<1>1. new \in Pairs /\ new \notin Known /\ issued' = new /\ f \in Pairs /\ issued \in Nat
  BY KnownPairs DEF IssueTo, Known, Typed
<1>2. /\ family' = [family EXCEPT ![new] = f] /\ subject' = [subject EXCEPT ![new] = u]
      /\ fresh' = [fresh EXCEPT ![r] = new]
  BY DEF IssueTo
<1> HIDE DEF new
<1>3. /\ family' \in [Pairs -> Pairs \cup {Nothing}] /\ subject' \in [Pairs -> Users \cup {Nothing}]
      /\ family'[new] = f /\ subject'[new] = u
      /\ \A p \in Known : family'[p] = family[p] /\ subject'[p] = subject[p]
  BY <1>1, <1>2, KnownPairs DEF Typed
<1>4. Arrays'
  BY <1>1, <1>2 DEF Arrays, Goto
<1>5. step'[r] = s /\ fresh'[r] = new /\ cookie'[r] = cookie[r] /\ seen'[r] = seen[r] /\ outcome'[r] = outcome[r]
  BY <1>1, <1>2 DEF Arrays, Goto
<1>6. \A q \in Requests \ {r} :
        /\ step'[q] = step[q] /\ cookie'[q] = cookie[q] /\ seen'[q] = seen[q]
        /\ fresh'[q] = fresh[q] /\ outcome'[q] = outcome[q]
  BY <1>2 DEF Goto, Arrays
<1>7. Known \subseteq Known' /\ new \in Known'
  BY <1>1 DEF Known, new
<1>8. RequestOK(r)'
  BY <1>1, <1>5, <1>7, KnownPairs DEF RequestOK
<1> QED BY <1>1, <1>3, <1>4, <1>5, <1>6, <1>8 DEF Issuing, Moved, new

LEMMA IssueKeeps ==
    ASSUME Inv, NEW r \in Requests, Issuing(r)
    PROVE  Arrays' /\ (\A q \in Requests : RequestOK(q)') /\ Holdings' /\ InHandInv'
<1> USE DEF Inv
<1>1. Known' = Known \cup {issued'} /\ issued' \notin Known /\ issued' # Nothing
  BY KnownPairs DEF Issuing, Known, Typed
<1>2. Arrays' /\ \A q \in Requests : RequestOK(q)'
  BY <1>1 DEF Issuing, Moved, RequestOK
<1>3. Holdings'
  BY <1>1 DEF Issuing, StoreStill, Holdings
<1>4. InHandInv'
  <2>1. \A i \in Ids : held'[i] = held[i] /\ issued' \notin held[i]
    BY <1>1 DEF Issuing, StoreStill, Holdings
  <2>2. \A q \in Requests \ {r} : fresh'[q] = fresh[q] /\ step'[q] = step[q] /\ fresh[q] # issued'
    BY <1>1 DEF Issuing, Moved, RequestOK
  <2>3. fresh'[r] = issued'
    BY DEF Issuing
  <2> QED BY <2>1, <2>2, <2>3 DEF InHandInv
<1> QED BY <1>2, <1>3, <1>4

\* A refresh: identity issues a pair, refuses, or the call fails.
LEMMA RefreshCases ==
    ASSUME Inv, NEW r \in Requests, Refresh(r)
    PROVE  (Calm(r) \/ Issuing(r)) /\ KeepsLease(r) /\ Typed'
<1> USE DEF Inv
<1>1. /\ step[r] = "refresh" /\ seen[r] \in Known /\ family[seen[r]] \in Pairs
      /\ StoreStill /\ UNCHANGED <<lease, overrun, loose, endings, aging>>
  BY DEF Refresh, RequestOK, WorksFromPair, Holdings, StoreStill, store_vars
<1>2. faults' \in 0..MaxTroubles
  BY Faults DEF Refresh, Fault, NoFault
<1>3. CASE /\ \E u \in Users : IssueTo(r, u, family[seen[r]])
           /\ spent' = IF Rotates THEN spent \cup {seen[r]} ELSE spent
           /\ Goto(r, "swap")
           /\ UNCHANGED <<kind, cookie, seen, tries, outcome>>
  <2>1. PICK u \in Users : IssueTo(r, u, family[seen[r]])
    BY <1>3
  <2>2. /\ Issuing(r) /\ step'[r] = "swap" /\ cookie'[r] = cookie[r]
        /\ family' \in [Pairs -> Pairs \cup {Nothing}] /\ subject' \in [Pairs -> Users \cup {Nothing}]
    BY <1>1, <1>3, <2>1, IssueMoves, KnownPairs DEF Steps, Resolving
  <2>3. spent' \subseteq Pairs
    BY <1>1, <1>3, KnownPairs DEF Typed
  <2>4. Typed'
    BY <1>1, <1>2, <2>1, <2>2, <2>3 DEF Issuing, IssueTo, Typed, StoreStill
  <2> QED BY <1>1, <2>2, <2>4 DEF KeepsLease, Refreshing
<1>4. CASE /\ Goto(r, "refused") /\ UNCHANGED <<identity_vars, kind, cookie, seen, fresh, tries, outcome>>
  <2>1. Apart /\ Typed'
    BY <1>1, <1>2, <1>4 DEF Apart, Typed, StoreStill, identity_vars
  <2> QED BY <1>1, <1>4, <2>1, GotoCalm DEF Steps, Resolving, WorksFromPair, HasNewPair, Refreshing
<1>5. CASE /\ ResolveThenRelease(r, FallBackTo(seen[r]), seen[r])
           /\ UNCHANGED spent \/ spent' = spent \cup {seen[r]}
           /\ UNCHANGED <<issued, family, subject, age, ended>>
  <2>1. Apart /\ Typed'
    BY <1>1, <1>2, <1>5, KnownPairs DEF Apart, Typed, StoreStill
  <2>2. FallBackTo(seen[r]) \in Outcomes /\ step[r] \in Refreshing
    BY <1>1 DEF FallBackTo, Outcomes, Refreshing
  <2> QED BY <1>1, <1>5, <2>1, <2>2, ReleaseCalm, KnownPairs
<1> QED BY <1>3, <1>4, <1>5 DEF Refresh

\* A sign-in with a password: identity starts a Keycloak session or refuses.
LEMMA GrantCases ==
    ASSUME Inv, NEW r \in Requests, Confirm(r) \/ SignIn(r)
    PROVE  (Calm(r) \/ Issuing(r)) /\ KeepsLease(r) /\ Typed'
<1> USE DEF Inv
<1>1. StoreStill /\ UNCHANGED <<lease, overrun, loose, faults, endings, aging>>
  BY DEF Confirm, SignIn, StoreStill, store_vars, ghost_vars
<1>2. CASE Finish(r) /\ UNCHANGED identity_vars
  <2>1. Apart /\ Typed'
    BY <1>1, <1>2 DEF Apart, Typed, StoreStill, identity_vars
  <2> QED BY <1>2, <2>1, FinishCalm
<1>3. ASSUME NEW s \in {"place", "replace", "create"}, s = "place" => step[r] = "confirm",
             NEW u \in Users, IssueTo(r, u, issued + 1), Goto(r, s),
             UNCHANGED <<kind, cookie, seen, tries, outcome, spent>>
      PROVE  (Calm(r) \/ Issuing(r)) /\ KeepsLease(r) /\ Typed'
  <2>1. s \in WorksFromPair => seen[r] # Nothing
    BY <1>3 DEF WorksFromPair, RequestOK
  <2>2. /\ Issuing(r) /\ step'[r] = s /\ cookie'[r] = cookie[r]
        /\ family' \in [Pairs -> Pairs \cup {Nothing}] /\ subject' \in [Pairs -> Users \cup {Nothing}]
    BY <1>1, <1>3, <2>1, IssueMoves DEF Steps
  <2>3. Typed'
    BY <1>1, <1>3, <2>2 DEF Issuing, IssueTo, Typed, StoreStill
  <2> QED BY <1>1, <2>2, <2>3 DEF KeepsLease, Refreshing
<1>4. CASE Confirm(r)
  BY <1>2, <1>3, <1>4 DEF Confirm, Grant
<1>5. CASE SignIn(r)
  <2>1. PICK next \in {"replace", "create"} : Grant(r, next)
    BY <1>5 DEF SignIn
  <2> QED BY <1>2, <1>3, <2>1 DEF Grant
<1> QED BY <1>4, <1>5

-----------------------------------------------------------------------------
(* Steps that put a pair into a session.                                     *)

\* The handler's own pair goes into session i.
Putting(r, i) ==
    /\ Moved(r)
    /\ i \in Ids /\ fresh[r] \in Known
    /\ store' = [store EXCEPT ![i] = fresh[r]]
    /\ held' = [held EXCEPT ![i] = @ \cup {fresh[r]}]
    /\ IF held[i] = {} THEN i = minted + 1 /\ minted' = i ELSE UNCHANGED minted
    /\ UNCHANGED <<issued, family, subject>>
    /\ fresh'[r] = Nothing \/ (step'[r] = "revokePrevious" /\ fresh'[r] = fresh[r])

LEMMA PuttingKeeps ==
    ASSUME Inv, NEW r \in Requests, NEW i, Putting(r, i)
    PROVE  Arrays' /\ (\A q \in Requests : RequestOK(q)') /\ Holdings' /\ InHandInv'
<1> USE DEF Inv
<1>1. Arrays' /\ \A q \in Requests : RequestOK(q)'
  BY DEF Putting, Moved, RequestOK, Known
<1>2. /\ held'[i] = held[i] \cup {fresh[r]} /\ store'[i] = fresh[r]
      /\ \A j \in Ids \ {i} : held'[j] = held[j] /\ store'[j] = store[j]
  BY DEF Putting, Typed
<1>3. Holdings'
  <2>1. \A j \in Ids : held'[j] = {} <=> j > minted'
    <3>1. \A j \in Ids : j \in Nat /\ minted \in Nat
      BY KnownPairs DEF Typed
    <3>2. CASE held[i] = {}
      BY <1>2, <3>1, <3>2 DEF Putting, Holdings
    <3>3. CASE held[i] # {}
      BY <1>2, <3>1, <3>3 DEF Putting, Holdings
    <3> QED BY <3>2, <3>3
  <2>2. Known' = Known
    BY DEF Putting, Known
  <2>3. \A j \in Ids : held'[j] \subseteq Known /\ (store'[j] # Nothing => store'[j] \in held'[j])
    BY <1>2 DEF Putting, Holdings
  <2> QED BY <2>1, <2>2, <2>3 DEF Putting, Holdings
<1>4. InHandInv'
  <2>1. \A q \in Requests \ {r} : fresh'[q] = fresh[q] /\ step'[q] = step[q]
    BY DEF Putting, Moved
  <2>2. fresh[r] # Nothing
    BY KnownPairs DEF Putting
  <2> QED BY <1>2, <2>1, <2>2 DEF Putting, InHandInv
<1> QED BY <1>1, <1>3, <1>4

LEMMA ReplacesTyped ==
    ASSUME Inv, NEW r \in Requests, NEW i \in Ids, NEW p, ReplaceIfCurrent(r, i, p),
           fresh[r] # Nothing, p # Nothing
    PROVE  /\ store' \in [Ids -> Pairs \cup {Nothing}] /\ held' \in [Ids -> SUBSET Pairs]
           /\ held[i] # {} /\ fresh[r] \in Known
  BY KnownPairs DEF Inv, ReplaceIfCurrent, Typed, Arrays, Holdings, RequestOK

\* The two compare-and-sets: a refresh's and a step-up's.
LEMMA SwapCases ==
    ASSUME Inv, NEW r \in Requests, Swap(r)
    PROVE  /\ KeepsLease(r) /\ Typed'
           /\ Calm(r) \/ (Putting(r, cookie[r]) /\ subject[store[cookie[r]]] = subject[fresh[r]]
                          /\ store[cookie[r]] # Nothing /\ step[r] # "revokePrevious")
<1> USE DEF Inv
<1>1. /\ step[r] = "swap" /\ seen[r] # Nothing /\ fresh[r] # Nothing /\ cookie[r] \in Ids
      /\ UNCHANGED <<identity_vars, ghost_vars>>
  BY Cookies DEF Swap, RequestOK, WorksFromPair, HasNewPair
<1>2. ASSUME NEW s \in {"refused", "latest"}, Goto(r, s),
             UNCHANGED <<store_vars, kind, cookie, seen, fresh, tries, outcome>>
      PROVE  Calm(r) /\ KeepsLease(r) /\ Typed'
  <2>1. Apart /\ Typed'
    BY <1>1, <1>2 DEF Apart, Typed, StoreStill, store_vars, identity_vars, ghost_vars
  <2> QED BY <1>1, <1>2, <2>1, GotoCalm DEF Steps, Resolving, WorksFromPair, HasNewPair, Refreshing
<1>3. CASE /\ BelongsToSameUser(seen[r], fresh[r])
           /\ ReplaceIfCurrent(r, cookie[r], seen[r])
           /\ ResolveThenRelease(r, "active", fresh[r])
  <2>1. /\ store' \in [Ids -> Pairs \cup {Nothing}] /\ held' \in [Ids -> SUBSET Pairs]
        /\ held[cookie[r]] # {} /\ fresh[r] \in Known
    BY <1>1, <1>3, ReplacesTyped
  <2>2. Moved(r) /\ step'[r] = "release" /\ cookie'[r] = cookie[r] /\ fresh'[r] = Nothing
    <3>1. issued' = issued
      BY <1>1 DEF identity_vars
    <3> QED BY <1>1, <1>3, <2>1, <3>1, ReleaseMoves DEF Outcomes
  <2>3. Typed' /\ KeepsLease(r)
    BY <1>1, <1>3, <2>1, <2>2 DEF Typed, ReplaceIfCurrent, KeepsLease, Refreshing, identity_vars, ghost_vars
  <2>4. Putting(r, cookie[r])
    BY <1>1, <1>3, <2>1, <2>2 DEF Putting, ReplaceIfCurrent, identity_vars
  <2> QED BY <1>1, <1>3, <2>3, <2>4 DEF ReplaceIfCurrent, BelongsToSameUser
<1> QED BY <1>2, <1>3 DEF Swap

LEMMA PlaceCases ==
    ASSUME Inv, NEW r \in Requests, Place(r)
    PROVE  /\ KeepsLease(r) /\ Typed'
           /\ Calm(r) \/ (Putting(r, cookie[r]) /\ subject[store[cookie[r]]] = subject[fresh[r]]
                          /\ store[cookie[r]] # Nothing /\ step[r] # "revokePrevious")
<1> USE DEF Inv
<1>1. /\ step[r] = "place" /\ seen[r] # Nothing /\ fresh[r] # Nothing /\ cookie[r] \in Ids
      /\ UNCHANGED <<identity_vars, ghost_vars, kind, cookie, seen, fresh, tries, outcome>>
  BY Cookies DEF Place, RequestOK, WorksFromPair, HasNewPair
<1>2. ASSUME NEW s \in {"revokeNew", "catchup"}, Goto(r, s), UNCHANGED store_vars
      PROVE  Calm(r) /\ KeepsLease(r) /\ Typed'
  <2>1. Apart /\ Typed'
    BY <1>1, <1>2 DEF Apart, Typed, StoreStill, store_vars, identity_vars, ghost_vars
  <2> QED BY <1>1, <1>2, <2>1, GotoCalm DEF Steps, WorksFromPair, HasNewPair, Refreshing
<1>3. CASE /\ BelongsToSameUser(seen[r], fresh[r])
           /\ ReplaceIfCurrent(r, cookie[r], seen[r])
           /\ Goto(r, "revokePrevious")
  <2>1. /\ store' \in [Ids -> Pairs \cup {Nothing}] /\ held' \in [Ids -> SUBSET Pairs]
        /\ held[cookie[r]] # {} /\ fresh[r] \in Known
    BY <1>1, <1>3, ReplacesTyped
  <2>2. Moved(r) /\ step'[r] = "revokePrevious" /\ fresh'[r] = fresh[r] /\ cookie'[r] = cookie[r]
    <3>1. issued' = issued
      BY <1>1 DEF identity_vars
    <3> QED BY <1>1, <1>3, <3>1, GotoMoves DEF Steps
  <2>3. Typed' /\ KeepsLease(r)
    BY <1>1, <1>3, <2>1, <2>2 DEF Typed, ReplaceIfCurrent, KeepsLease, Refreshing, identity_vars, ghost_vars
  <2>4. Putting(r, cookie[r])
    BY <1>1, <1>3, <2>1, <2>2 DEF Putting, ReplaceIfCurrent, identity_vars
  <2> QED BY <1>1, <1>3, <2>3, <2>4 DEF ReplaceIfCurrent, BelongsToSameUser
<1> QED BY <1>2, <1>3 DEF Place

LEMMA CreatePuts ==
    ASSUME Inv, NEW r \in Requests, Create(r)
    PROVE  /\ Putting(r, minted + 1) /\ held[minted + 1] = {} /\ step[r] # "revokePrevious"
           /\ KeepsLease(r) /\ Typed'
<1> USE DEF Inv
<1> DEFINE i == minted + 1
<1>1. /\ step[r] = "create" /\ i \in Ids /\ minted' = i /\ Finish(r)
      /\ store' = [store EXCEPT ![i] = fresh[r]] /\ held' = [held EXCEPT ![i] = {fresh[r]}]
      /\ UNCHANGED <<lease, identity_vars, ghost_vars>>
  BY DEF Create
<1>2. fresh[r] \in Known /\ held[i] = {}
  <2>1. fresh[r] \in Known
    BY <1>1 DEF RequestOK, HasNewPair
  <2>2. minted \in Ids /\ minted \in Nat
    BY KnownPairs DEF Typed
  <2>3. i > minted
    BY <2>2
  <2>4. held[i] = {} <=> i > minted
    BY <1>1 DEF Holdings
  <2> QED BY <2>1, <2>3, <2>4
<1>3. Moved(r) /\ step'[r] = "done" /\ fresh'[r] = Nothing
  BY <1>1, FinishMoves
<1>4. held' = [held EXCEPT ![i] = @ \cup {fresh[r]}]
  BY <1>1, <1>2 DEF Typed
<1>5. Typed'
  <2>1. store' \in [Ids -> Pairs \cup {Nothing}] /\ held' \in [Ids -> SUBSET Pairs]
    BY <1>1, <1>2, KnownPairs DEF Typed
  <2>2. minted' \in 1..Cardinality(Ids)
    BY <1>1
  <2> QED BY <1>1, <2>1, <2>2 DEF Typed, identity_vars, ghost_vars
<1> QED BY <1>1, <1>2, <1>3, <1>4, <1>5 DEF Putting, KeepsLease, Refreshing, identity_vars, ghost_vars

-----------------------------------------------------------------------------
(* The lease.                                                                *)

\* What a step may do to the sessions: nothing, take one out, or put the handler's own pair in.
MovesSessions(r) ==
    \/ Calm(r)
    \/ Issuing(r)
    \/ \E i \in Ids :
         /\ Putting(r, i)
         /\ step[r] # "revokePrevious"
         /\ held[i] # {} => store[i] # Nothing /\ subject[store[i]] = subject[fresh[r]]

LEMMA SessionsKept ==
    ASSUME Inv, NEW r \in Requests, MovesSessions(r)
    PROVE  Arrays' /\ (\A q \in Requests : RequestOK(q)') /\ Holdings' /\ InHandInv' /\ Moved(r)
  BY CalmKeeps, IssueKeeps, PuttingKeeps DEF MovesSessions, Calm, Issuing, Putting

\* A free lease is taken by the handler that starts to refresh; a lease that is owned is not.
LEMMA LockKeeps ==
    ASSUME Inv, NEW r \in Requests, Lock(r)
    PROVE  MovesSessions(r) /\ Typed' /\ LeaseInv'
<1> USE DEF Inv
<1>1. /\ step[r] = "lock" /\ cookie[r] \in Ids /\ seen[r] # Nothing /\ StoreStill
      /\ UNCHANGED <<identity_vars, ghost_vars, kind, cookie, seen, fresh, tries, outcome>>
  BY Cookies DEF Lock, RequestOK, WorksFromPair, StoreStill
<1>2. PICK s \in {"reread", "poll"} :
        /\ Goto(r, s)
        /\ IF s = "reread" THEN lease[cookie[r]] = Nothing /\ lease' = [lease EXCEPT ![cookie[r]] = r]
                          ELSE UNCHANGED lease
  BY DEF Lock
<1>3. Moved(r) /\ step'[r] = s /\ fresh'[r] = fresh[r] /\ cookie'[r] = cookie[r]
  <2>1. issued' = issued /\ s \in Steps /\ s \notin HasNewPair
    BY <1>1, <1>2 DEF identity_vars, Steps, Resolving, HasNewPair
  <2> QED BY <1>1, <1>2, <2>1, GotoMoves
<1>4. Calm(r)
  BY <1>1, <1>3 DEF Calm, identity_vars
<1>5. Typed'
  BY <1>1, <1>2 DEF Typed, StoreStill, identity_vars, ghost_vars
<1>6. LeaseInv'
  <2>1. ASSUME NEW q \in Requests, q \notin overrun, step'[q] \in Refreshing
        PROVE  lease'[cookie'[q]] = q
    <3>1. CASE q = r
      BY <1>1, <1>2, <1>3, <2>1, <3>1 DEF Typed, Refreshing
    <3>2. CASE q # r
      <4>1. step'[q] = step[q] /\ cookie'[q] = cookie[q] /\ cookie[q] \in Ids
        BY <1>3, <3>2, Cookies DEF Moved
      <4>2. lease[cookie[q]] = q
        BY <2>1, <4>1 DEF LeaseInv
      <4> QED BY <1>1, <1>2, <4>1, <4>2 DEF Typed
    <3> QED BY <3>1, <3>2
  <2>2. overrun' = overrun
    BY <1>1 DEF ghost_vars
  <2> QED BY <2>1, <2>2 DEF LeaseInv
<1> QED BY <1>4, <1>5, <1>6 DEF MovesSessions

\* A handler gives back its own lease only.
LEMMA ReleaseKeeps ==
    ASSUME Inv, NEW r \in Requests, Release(r)
    PROVE  MovesSessions(r) /\ Typed' /\ LeaseInv'
<1> USE DEF Inv
<1>1. /\ StoreStill /\ UNCHANGED <<identity_vars, ghost_vars>> /\ cookie[r] \in Ids
      /\ lease' = [lease EXCEPT ![cookie[r]] = IF @ = r THEN Nothing ELSE @]
      /\ Resolve(r, outcome[r], seen[r]) /\ step[r] # "revokePrevious"
  BY Cookies DEF Release, ReleaseIfOwner, StoreStill
<1>2. /\ Moved(r) /\ fresh'[r] = Nothing
      /\ step'[r] \in {"forward", "revoke", "drop", "confirm", "done"}
  <2>1. outcome[r] \in Outcomes /\ seen[r] \in Known \cup {Nothing} /\ (outcome[r] = "active" => seen[r] # Nothing)
    BY DEF Arrays, RequestOK
  <2> QED BY <1>1, <2>1, ResolveMoves DEF identity_vars
<1>3. Calm(r)
  BY <1>1, <1>2 DEF Calm, identity_vars
<1>4. Typed'
  BY <1>1 DEF Typed, StoreStill, identity_vars, ghost_vars
<1>5. LeaseInv'
  <2>1. ASSUME NEW q \in Requests, q \notin overrun, step'[q] \in Refreshing
        PROVE  lease'[cookie'[q]] = q
    <3>1. q # r
      BY <1>2, <2>1 DEF Refreshing
    <3>2. step'[q] = step[q] /\ cookie'[q] = cookie[q] /\ cookie[q] \in Ids
      BY <1>2, <3>1, Cookies DEF Moved
    <3>3. lease[cookie[q]] = q
      BY <2>1, <3>2 DEF LeaseInv
    <3> QED BY <1>1, <3>1, <3>2, <3>3 DEF Typed
  <2>2. overrun' = overrun
    BY <1>1 DEF ghost_vars
  <2> QED BY <2>1, <2>2 DEF LeaseInv
<1> QED BY <1>3, <1>4, <1>5 DEF MovesSessions

\* What every handler's step does.
LEMMA HandlerSteps ==
    ASSUME Inv, NEW r \in Requests, Arrive(r) \/ Serve(r) \/ RedisFails(r) \/ Die(r)
    PROVE  MovesSessions(r) /\ Inv'
<1>1. CASE Lock(r)
  BY <1>1, LockKeeps, SessionsKept DEF Inv
<1>2. CASE Release(r)
  BY <1>2, ReleaseKeeps, SessionsKept DEF Inv
<1>3. ASSUME MovesSessions(r), KeepsLease(r), Typed'
      PROVE  Inv'
  BY <1>3, SessionsKept, LeaseKept DEF Inv
<1>4. CASE Lookup(r) \/ Reread(r) \/ Latest(r) \/ Poll(r)
  BY <1>3, <1>4, LookupCalm, RereadCalm, LatestCalm, PollCalm DEF MovesSessions
<1>5. CASE Discard(r) \/ Refused(r) \/ Drop(r) \/ ReplaceSession(r) \/ Arrive(r) \/ CatchUp(r)
  BY <1>3, <1>5, DeletersCalm, ArriveCalm, CatchUpCalm DEF MovesSessions
<1>6. CASE Forward(r) \/ Revoke(r) \/ RevokePrevious(r) \/ RevokeNew(r) \/ RedisFails(r) \/ Die(r)
  BY <1>3, <1>6, CallersCalm, FailuresCalm DEF MovesSessions
<1>7. CASE Refresh(r) \/ Confirm(r) \/ SignIn(r)
  BY <1>3, <1>7, RefreshCases, GrantCases DEF MovesSessions
<1>8. CASE Swap(r) \/ Place(r)
  BY <1>3, <1>8, SwapCases, PlaceCases, Cookies DEF MovesSessions
<1>9. CASE Create(r)
  <2>1. Putting(r, minted + 1) /\ held[minted + 1] = {} /\ step[r] # "revokePrevious" /\ KeepsLease(r) /\ Typed'
    BY <1>9, CreatePuts
  <2>2. MovesSessions(r)
    BY <2>1 DEF MovesSessions, Putting
  <2> QED BY <1>3, <2>1, <2>2
<1> QED BY <1>1, <1>2, <1>4, <1>5, <1>6, <1>7, <1>8, <1>9 DEF Serve

-----------------------------------------------------------------------------
(* Time, other devices and Redis.                                            *)

Quiet ==
    /\ UNCHANGED request_vars
    /\ StoreStill \/ Deleted
    /\ UNCHANGED <<issued, family, subject>>

LEMMA QuietKeeps ==
    ASSUME Inv, Quiet
    PROVE  Arrays' /\ (\A q \in Requests : RequestOK(q)') /\ Holdings' /\ InHandInv'
<1> USE DEF Inv
<1>1. Arrays' /\ \A q \in Requests : RequestOK(q)'
  BY DEF Quiet, Arrays, RequestOK, Known, request_vars
<1>2. \A i \in Ids : held'[i] = held[i] /\ store'[i] \in {store[i], Nothing}
  BY DEF Quiet, StoreStill, Deleted, Typed
<1>3. Holdings'
  BY <1>2 DEF Quiet, StoreStill, Deleted, Holdings, Known
<1>4. InHandInv'
  BY <1>2 DEF Quiet, InHandInv, request_vars
<1> QED BY <1>1, <1>3, <1>4

LEMMA QuietSteps ==
    ASSUME Inv,
           \/ \E i \in Ids : LeaseRunsOut(i) \/ Forget(i)
           \/ \E p \in Pairs : Age(p) \/ EndElsewhere(p)
    PROVE  Quiet /\ Inv'
<1> USE DEF Inv
<1>1. ASSUME NEW i \in Ids, LeaseRunsOut(i)
      PROVE  Quiet /\ Inv'
  <2>1. Quiet
    BY <1>1 DEF LeaseRunsOut, Quiet, StoreStill, identity_vars
  <2>2. lease' = [lease EXCEPT ![i] = Nothing] /\ overrun' = overrun \cup {lease[i]} /\ lease[i] \in Requests
    BY <1>1 DEF LeaseRunsOut, Typed
  <2>3. Typed'
    BY <1>1, <2>2 DEF LeaseRunsOut, Typed, identity_vars
  <2>4. LeaseInv'
    <3>1. ASSUME NEW q \in Requests, q \notin overrun', step'[q] \in Refreshing
          PROVE  lease'[cookie'[q]] = q
      <4>1. step'[q] = step[q] /\ cookie'[q] = cookie[q] /\ cookie[q] \in Ids /\ q \notin overrun /\ q # lease[i]
        BY <2>1, <2>2, <3>1, Cookies DEF Quiet, request_vars
      <4>2. lease[cookie[q]] = q
        BY <3>1, <4>1 DEF LeaseInv
      <4> QED BY <2>2, <4>1, <4>2 DEF Typed
    <3> QED BY <3>1 DEF LeaseInv
  <2> QED BY <2>1, <2>3, <2>4, QuietKeeps
<1>2. ASSUME Quiet, Typed', UNCHANGED <<lease, overrun>>
      PROVE  Quiet /\ Inv'
  <2>1. LeaseInv'
    BY <1>2 DEF Quiet, LeaseInv, request_vars
  <2> QED BY <1>2, <2>1, QuietKeeps
<1>3. ASSUME NEW i \in Ids, Forget(i)
      PROVE  Quiet /\ Inv'
  <2>1. Quiet /\ Typed' /\ UNCHANGED <<lease, overrun>>
    BY <1>3, DeletesTyped DEF Forget, Delete, Quiet, Typed, identity_vars, ghost_vars
  <2> QED BY <1>2, <2>1
<1>4. ASSUME NEW p \in Pairs, Age(p)
      PROVE  Quiet /\ Inv'
  <2>1. PICK a \in Ages : age' = [age EXCEPT ![p] = a]
    BY <1>4 DEF Age
  <2>2. Typed'
    BY <1>4, <2>1 DEF Age, Typed, store_vars
  <2> QED BY <1>2, <1>4, <2>2 DEF Age, Quiet, StoreStill, store_vars
<1>5. ASSUME NEW p \in Pairs, EndElsewhere(p)
      PROVE  Quiet /\ Inv'
  <2>1. Typed'
    BY <1>5 DEF EndElsewhere, Typed, store_vars
  <2> QED BY <1>2, <1>5, <2>1 DEF EndElsewhere, Quiet, StoreStill, store_vars
<1> QED BY <1>1, <1>3, <1>4, <1>5

-----------------------------------------------------------------------------
LEMMA StepCases ==
    ASSUME Next
    PROVE  \/ \E r \in Requests : Arrive(r) \/ Serve(r) \/ RedisFails(r) \/ Die(r)
           \/ \E i \in Ids : LeaseRunsOut(i) \/ Forget(i)
           \/ \E p \in Pairs : Age(p) \/ EndElsewhere(p)
  BY DEF Next

LEMMA InitInv == Init => Inv
<1> SUFFICES ASSUME Init PROVE Inv
  OBVIOUS
<1>1. Cardinality(Ids) \in Nat /\ Cardinality(Pairs) \in Nat /\ \A i \in Ids : i \in Nat \ {0}
  BY FS_CardinalityType
<1>2. Typed
  <2>1. minted \in 1..Cardinality(Ids) /\ issued \in Pairs
    BY <1>1 DEF Init
  <2>2. /\ store \in [Ids -> Pairs \cup {Nothing}] /\ lease \in [Ids -> Requests \cup {Nothing}]
        /\ held \in [Ids -> SUBSET Pairs]
    BY DEF Init
  <2>3. /\ family \in [Pairs -> Pairs \cup {Nothing}] /\ subject \in [Pairs -> Users \cup {Nothing}]
        /\ age \in [Pairs -> Ages]
    BY DEF Init, Ages
  <2> QED BY <2>1, <2>2, <2>3 DEF Init, Typed
<1>3. Arrays
  BY DEF Init, Arrays, Steps, Kinds, Outcomes
<1>4. \A r \in Requests : RequestOK(r) /\ fresh[r] = Nothing /\ step[r] = "idle"
  BY DEF Init, RequestOK, WorksFromPair, HasNewPair
<1>5. Holdings
  <2>1. Known = {1}
    BY DEF Init, Known
  <2> QED BY <1>1, <2>1 DEF Init, Holdings
<1>6. InHandInv /\ LeaseInv
  BY <1>4 DEF InHandInv, LeaseInv, Refreshing
<1> QED BY <1>2, <1>3, <1>4, <1>5, <1>6 DEF Inv

LEMMA NextInv == Inv /\ [Next]_vars => Inv'
<1> SUFFICES ASSUME Inv, [Next]_vars PROVE Inv'
  OBVIOUS
<1>1. CASE Next
  BY <1>1, StepCases, HandlerSteps, QuietSteps
<1>2. CASE UNCHANGED vars
  <2>1. Quiet /\ UNCHANGED <<lease, overrun>>
    BY <1>2 DEF vars, Quiet, StoreStill, store_vars, identity_vars, ghost_vars
  <2>2. Typed'
    BY <1>2 DEF Inv, Typed, vars, store_vars, identity_vars, ghost_vars
  <2>3. LeaseInv'
    BY <2>1 DEF Inv, Quiet, LeaseInv, request_vars
  <2> QED BY <2>1, <2>2, <2>3, QuietKeeps DEF Inv
<1> QED BY <1>1, <1>2

\* At every moment the parts of the state that the properties rest on are as they should be.
THEOREM Invariant == Spec => []Inv
  BY InitInv, NextInv, PTL DEF Spec

\* Every variable keeps its type, and a handler has the pairs its step works from.
THEOREM TypesHold == Spec => []TypeOK
<1>1. Inv => TypeOK
  <2> SUFFICES ASSUME Inv PROVE TypeOK
    OBVIOUS
  <2>1. Typed /\ Arrays
    BY DEF Inv
  <2>2. issued \in 1..Cardinality(Pairs)
    BY <2>1 DEF Typed
  <2>3. \A r \in Requests :
          /\ (outcome[r] = "active" \/ step[r] \in WorksFromPair) => seen[r] \in Pairs
          /\ step[r] \in HasNewPair => fresh[r] \in Pairs
    BY <2>1, KnownPairs DEF Inv, RequestOK
  <2> QED BY <2>1, <2>2, <2>3 DEF Typed, Arrays, TypeOK
<1> QED BY <1>1, Invariant, PTL

\* Among the handlers whose lease has not run out, at most one is refreshing a session
\* (refresh-lock.ts, refreshOnce).
THEOREM RefreshIsSingleFlight == Spec => []SingleFlight
<1>1. Inv => SingleFlight
  BY DEF Inv, LeaseInv, SingleFlight
<1> QED BY <1>1, Invariant, PTL

-----------------------------------------------------------------------------
(* What identity has taken and ended, and which pairs a session has held.    *)

\* No call has failed, no handler has died and no lease has run out.
Undisturbed == overrun = {} /\ faults = 0

\* What only grows: Keycloak sessions that are over or left behind, ages, what a session has
\* held; the pairs that have been issued keep their account and their Keycloak session.
Grows ==
    /\ ended \subseteq ended' /\ loose \subseteq loose'
    /\ \A p \in Known : family'[p] = family[p] /\ subject'[p] = subject[p]
    /\ \A p \in Pairs : age'[p] >= age[p]
    /\ \A i \in Ids : held[i] \subseteq held'[i]
    /\ Undisturbed' => Undisturbed

LEMMA SessionsGrow ==
    ASSUME Inv, NEW r \in Requests, MovesSessions(r)
    PROVE  /\ \A p \in Known : family'[p] = family[p] /\ subject'[p] = subject[p]
           /\ \A i \in Ids : held[i] \subseteq held'[i]
<1>1. CASE Calm(r)
  BY <1>1 DEF Calm, StoreStill, Deleted
<1>2. CASE Issuing(r)
  BY <1>2 DEF Issuing, StoreStill
<1>3. ASSUME NEW i \in Ids, Putting(r, i)
      PROVE  /\ \A p \in Known : family'[p] = family[p] /\ subject'[p] = subject[p]
             /\ \A j \in Ids : held[j] \subseteq held'[j]
  BY <1>3 DEF Putting, Inv, Typed
<1> QED BY <1>1, <1>2, <1>3 DEF MovesSessions

\* What a handler leaves at identity: nothing gets younger, and no trouble goes away.
Leaves ==
    /\ ended \subseteq ended' /\ loose \subseteq loose' /\ age' = age
    /\ overrun' = overrun
    /\ faults' = faults \/ faults' = faults + 1

LEMMA HandlersLeave ==
    ASSUME Inv, NEW r \in Requests, Arrive(r) \/ Serve(r) \/ RedisFails(r) \/ Die(r)
    PROVE  Leaves
<1>1. CASE \/ Arrive(r) \/ Lookup(r) \/ Discard(r) \/ Lock(r) \/ Reread(r) \/ Refused(r)
           \/ Swap(r) \/ Latest(r) \/ Release(r) \/ Poll(r)
  BY <1>1 DEF Leaves, identity_vars, ghost_vars, Arrive, Lookup, Discard, Lock, Reread, Refused,
              Swap, Latest, Release, Poll
<1>2. CASE Drop(r) \/ Place(r) \/ CatchUp(r) \/ ReplaceSession(r) \/ Create(r)
  BY <1>2 DEF Leaves, identity_vars, ghost_vars, Drop, Place, CatchUp, ReplaceSession, Create
<1>3. CASE Refresh(r)
  BY <1>3 DEF Leaves, identity_vars, Refresh, IssueTo, Fault, NoFault
<1>4. CASE Confirm(r) \/ SignIn(r)
  BY <1>4 DEF Leaves, identity_vars, ghost_vars, Confirm, SignIn, Grant, IssueTo
<1>5. CASE Forward(r)
  BY <1>5 DEF Leaves, identity_vars, Forward, Fault, NoFault
<1>6. CASE Revoke(r) \/ RevokePrevious(r) \/ RevokeNew(r)
  BY <1>6 DEF Leaves, Revoke, RevokePrevious, RevokeNew, RevokeQuietly, Fault, NoFault
<1>7. CASE RedisFails(r) \/ Die(r)
  BY <1>7 DEF Leaves, RedisFails, Die, identity_vars, Fault
<1> QED BY <1>1, <1>2, <1>3, <1>4, <1>5, <1>6, <1>7 DEF Serve

LEMMA HandlersGrow ==
    ASSUME Inv, NEW r \in Requests, Arrive(r) \/ Serve(r) \/ RedisFails(r) \/ Die(r)
    PROVE  Grows
<1>1. Leaves /\ MovesSessions(r)
  BY HandlersLeave, HandlerSteps
<1>2. faults \in Nat /\ \A p \in Pairs : age[p] \in Nat
  BY DEF Inv, Typed, Ages
<1>3. Undisturbed' => Undisturbed
  BY <1>1, <1>2 DEF Leaves, Undisturbed
<1>4. \A p \in Pairs : age'[p] >= age[p]
  BY <1>1, <1>2 DEF Leaves
<1> QED BY <1>1, <1>3, <1>4, SessionsGrow DEF Leaves, Grows

LEMMA OthersGrow ==
    ASSUME Inv,
           \/ \E i \in Ids : LeaseRunsOut(i) \/ Forget(i)
           \/ \E p \in Pairs : Age(p) \/ EndElsewhere(p)
    PROVE  Grows /\ Quiet /\ spent' = spent
<1>0. \A p \in Pairs : age[p] \in Nat
  BY DEF Inv, Typed, Ages
<1>1. Quiet
  BY QuietSteps
<1>2. /\ \A p \in Known : family'[p] = family[p] /\ subject'[p] = subject[p]
      /\ \A i \in Ids : held[i] \subseteq held'[i]
  BY <1>1 DEF Quiet, StoreStill, Deleted
<1>3. ASSUME NEW i \in Ids, LeaseRunsOut(i) \/ Forget(i)
      PROVE  /\ ended' = ended /\ loose' = loose /\ age' = age /\ faults' = faults /\ spent' = spent
             /\ overrun \subseteq overrun'
  BY <1>3 DEF LeaseRunsOut, Forget, identity_vars, ghost_vars
<1>4. ASSUME NEW p \in Pairs, Age(p)
      PROVE  /\ ended' = ended /\ loose' = loose /\ spent' = spent /\ faults' = faults /\ overrun' = overrun
             /\ \A q \in Pairs : age'[q] >= age[q]
  <2>1. PICK a \in Ages : a > age[p] /\ age' = [age EXCEPT ![p] = a]
    BY <1>4 DEF Age
  <2>2. a \in Nat /\ age \in [Pairs -> Ages]
    BY DEF Ages, Inv, Typed
  <2>3. \A q \in Pairs : age'[q] = IF q = p THEN a ELSE age[q]
    BY <2>1, <2>2
  <2> QED BY <1>0, <1>4, <2>1, <2>2, <2>3 DEF Age
<1>5. ASSUME NEW p \in Pairs, EndElsewhere(p)
      PROVE  /\ ended \subseteq ended' /\ loose' = loose /\ spent' = spent /\ faults' = faults
             /\ overrun' = overrun /\ age' = age
  BY <1>5 DEF EndElsewhere
<1>6. /\ ended \subseteq ended' /\ loose \subseteq loose' /\ spent' = spent
      /\ \A q \in Pairs : age'[q] >= age[q]
      /\ Undisturbed' => Undisturbed
  BY <1>0, <1>3, <1>4, <1>5 DEF Undisturbed
<1> QED BY <1>1, <1>2, <1>6 DEF Grows

-----------------------------------------------------------------------------
(* A step-up leaves one Keycloak session to its browser session.             *)

\* The steps from which a handler can lose a refreshed pair or deliver it.
Critical == {"refresh", "refused", "swap"}

\* A refreshed pair belongs to the Keycloak session of the pair it was refreshed from.
SameSession == \A r \in Requests : step[r] = "swap" => family[fresh[r]] = family[seen[r]]

\* A step that neither sends a refresh token nor has an answer to one; a handler at a
\* compare-and-set leaves it this way only when a call fails or it dies.
Aside(r) ==
    /\ step'[r] \notin Critical
    /\ spent' = spent
    /\ step[r] = "swap" => ~Undisturbed'

LEMMA Afoul ==
    ASSUME Inv, Fault
    PROVE  ~Undisturbed'
  BY DEF Inv, Typed, Fault, Undisturbed

LEMMA ResolvesAside ==
    ASSUME Inv, NEW r \in Requests, NEW o, NEW p,
           \/ Resolve(r, o, p) \/ ResolveThenRelease(r, o, p) \/ Finish(r)
           \/ \E s \in Steps \ Critical : Goto(r, s)
    PROVE  step'[r] \notin Critical
<1>1. step \in [Requests -> Steps]
  BY DEF Inv, Arrays
<1>2. PICK s \in Steps \ Critical : Goto(r, s)
  BY AfterResolves DEF Resolve, ResolveThenRelease, Finish, Steps, Resolving, Critical
<1> QED BY <1>1, <1>2 DEF Goto

LEMMA MostAside ==
    ASSUME Inv, NEW r \in Requests, Arrive(r) \/ Serve(r) \/ RedisFails(r) \/ Die(r)
    PROVE  Aside(r) \/ Reread(r) \/ Refresh(r) \/ Swap(r)
<1> USE DEF Steps, Resolving, Critical
<1>1. CASE Arrive(r)
  <2>1. \E s \in Steps \ Critical : Goto(r, s)
    BY <1>1 DEF Arrive
  <2> QED BY <1>1, <2>1, ResolvesAside DEF Aside, Arrive, identity_vars
<1>2. CASE RedisFails(r) \/ Die(r)
  BY <1>2, ResolvesAside, Afoul DEF Aside, RedisFails, Die, identity_vars
<1>3. CASE Lookup(r) \/ Discard(r) \/ Refused(r) \/ Latest(r) \/ Release(r)
  BY <1>3, ResolvesAside DEF Aside, Lookup, Discard, Refused, Latest, Release, identity_vars
<1>4. CASE Lock(r)
  BY <1>4, ResolvesAside DEF Aside, Lock, identity_vars
<1>5. CASE Poll(r)
  <2>1. CASE UNCHANGED step
    BY <1>5, <2>1 DEF Poll, Aside, identity_vars
  <2>2. CASE ~UNCHANGED step
    BY <1>5, <2>2, ResolvesAside DEF Poll, Aside, identity_vars
  <2> QED BY <2>1, <2>2
<1>6. CASE Forward(r) \/ Drop(r) \/ Revoke(r) \/ RevokePrevious(r) \/ RevokeNew(r)
  BY <1>6, ResolvesAside
     DEF Aside, Forward, Drop, Revoke, RevokePrevious, RevokeNew, RevokeQuietly, identity_vars
<1>7. CASE Confirm(r) \/ SignIn(r)
  BY <1>7, ResolvesAside DEF Aside, Confirm, SignIn, Grant, identity_vars
<1>8. CASE Place(r) \/ ReplaceSession(r) \/ Create(r)
  BY <1>8, ResolvesAside DEF Aside, Place, ReplaceSession, Create, identity_vars
<1>9. CASE CatchUp(r)
  BY <1>9, ResolvesAside DEF Aside, CatchUp, identity_vars
<1> QED BY <1>1, <1>2, <1>3, <1>4, <1>5, <1>6, <1>7, <1>8, <1>9 DEF Serve

\* What the answer to a refresh leads to.
Answered(r) ==
    /\ step'[r] = "swap" /\ step[r] = "refresh" /\ Refreshes(seen[r])
    /\ family'[fresh'[r]] = family[seen[r]]
    /\ spent' \subseteq spent \cup {seen[r]}
    /\ Undisturbed' => subject'[fresh'[r]] = subject[seen[r]]
    /\ Issuing(r)

LEMMA RefreshAnswers ==
    ASSUME Inv, NEW r \in Requests, Refresh(r)
    PROVE  /\ step[r] = "refresh" /\ cookie'[r] = cookie[r]
           /\ \/ Answered(r) /\ seen'[r] = seen[r]
              \/ step'[r] = "refused" /\ ~Refreshes(seen[r]) /\ spent' = spent /\ seen'[r] = seen[r]
              \/ step'[r] = "release" /\ ~Undisturbed'
<1> USE DEF Inv
<1>1. step[r] = "refresh" /\ seen[r] \in Known /\ family[seen[r]] \in Pairs /\ StoreStill
  BY DEF Refresh, RequestOK, WorksFromPair, Holdings, StoreStill, store_vars
<1>2. CASE /\ Refreshes(seen[r])
           /\ \E u \in Users : /\ IssueTo(r, u, family[seen[r]])
                               /\ IF u = subject[seen[r]] THEN NoFault ELSE Fault
           /\ spent' = IF Rotates THEN spent \cup {seen[r]} ELSE spent
           /\ Goto(r, "swap")
           /\ UNCHANGED <<kind, cookie, seen, tries, outcome>>
  <2>1. PICK u \in Users : /\ IssueTo(r, u, family[seen[r]])
                           /\ IF u = subject[seen[r]] THEN NoFault ELSE Fault
    BY <1>2
  <2>2. Issuing(r) /\ step'[r] = "swap" /\ cookie'[r] = cookie[r]
    BY <1>1, <1>2, <2>1, IssueMoves, KnownPairs DEF Steps, Resolving
  <2>3. /\ fresh'[r] = issued + 1 /\ issued + 1 \in Pairs
        /\ family'[issued + 1] = family[seen[r]] /\ subject'[issued + 1] = u
    BY <2>1, <2>2 DEF IssueTo, Issuing, Typed
  <2>4. Undisturbed' => u = subject[seen[r]]
    BY <2>1, Afoul
  <2> QED BY <1>1, <1>2, <2>2, <2>3, <2>4 DEF Answered
<1>3. CASE /\ ~Refreshes(seen[r]) /\ Goto(r, "refused")
           /\ UNCHANGED <<identity_vars, kind, cookie, seen, fresh, tries, outcome>>
  BY <1>1, <1>3 DEF Goto, Arrays, identity_vars
<1>4. CASE Fault /\ ResolveThenRelease(r, FallBackTo(seen[r]), seen[r])
  BY <1>1, <1>4, Afoul DEF ResolveThenRelease, Goto, Arrays
<1> QED BY <1>2, <1>3, <1>4 DEF Refresh

LEMMA SwapAnswers ==
    ASSUME Inv, NEW r \in Requests, Swap(r)
    PROVE  /\ step[r] = "swap" /\ cookie'[r] = cookie[r] /\ spent' = spent
           /\ \/ /\ step'[r] = "refused" /\ seen'[r] = seen[r]
                 /\ subject[seen[r]] # subject[fresh[r]] /\ StoreStill
              \/ /\ step'[r] = "release" /\ store[cookie[r]] = seen[r]
                 /\ store' = [store EXCEPT ![cookie[r]] = fresh[r]]
              \/ /\ step'[r] = "latest" /\ store[cookie[r]] # seen[r] /\ StoreStill
<1> USE DEF Inv
<1>1. /\ step[r] = "swap" /\ spent' = spent /\ cookie'[r] = cookie[r]
  BY DEF Swap, identity_vars, ResolveThenRelease, Arrays
<1>2. \A s \in Steps : Goto(r, s) => step'[r] = s
  BY DEF Goto, Arrays
<1>3. "refused" \in Steps /\ "release" \in Steps /\ "latest" \in Steps
  BY DEF Steps, Resolving
<1> QED BY <1>1, <1>2, <1>3
     DEF Swap, BelongsToSameUser, ReplaceIfCurrent, ResolveThenRelease, StoreStill, store_vars

LEMMA RereadAnswers ==
    ASSUME Inv, NEW r \in Requests, Reread(r)
    PROVE  /\ step[r] = "reread" /\ cookie'[r] = cookie[r] /\ spent' = spent /\ StoreStill
           /\ \/ step'[r] = "release"
              \/ step'[r] = "refresh" /\ seen'[r] = store[cookie[r]] /\ store[cookie[r]] # Nothing
  BY DEF Inv, Reread, ResolveThenRelease, Goto, Arrays, StoreStill, store_vars, identity_vars

\* What a handler's step does to what a session keeps: nothing, or its pair goes, or the
\* handler's own pair comes in, from a compare-and-set or into a session just opened.
StoreMoves(r) ==
    \/ \A i \in Ids : held'[i] = held[i] /\ store'[i] \in {store[i], Nothing}
    \/ \E i \in Ids :
         /\ fresh[r] \in Known /\ \A j \in Ids : fresh[r] \notin held[j]
         /\ store' = [store EXCEPT ![i] = fresh[r]]
         /\ held' = [held EXCEPT ![i] = @ \cup {fresh[r]}]

LEMMA StoresMove ==
    ASSUME Inv, NEW r \in Requests, MovesSessions(r)
    PROVE  StoreMoves(r)
<1>1. CASE Calm(r) \/ Issuing(r)
  BY <1>1 DEF Calm, Issuing, StoreStill, Deleted, StoreMoves, Inv, Typed
<1>2. ASSUME NEW i \in Ids, Putting(r, i), step[r] # "revokePrevious"
      PROVE  StoreMoves(r)
  <2>1. fresh[r] \in Known /\ fresh[r] # Nothing
    BY <1>2, KnownPairs DEF Inv, Putting
  <2> QED BY <1>2, <2>1 DEF Putting, StoreMoves, Inv, InHandInv
<1> QED BY <1>1, <1>2 DEF MovesSessions

\* The step of a handler leaves SameSession as it should be.
LEMMA SameSessionKept ==
    ASSUME Inv, SameSession, NEW r \in Requests, Arrive(r) \/ Serve(r) \/ RedisFails(r) \/ Die(r)
    PROVE  SameSession'
<1>1. Grows /\ Moved(r)
  BY HandlersGrow, HandlerSteps, SessionsKept
<1>2. ASSUME NEW q \in Requests, q # r, step'[q] = "swap"
      PROVE  family'[fresh'[q]] = family'[seen'[q]]
  <2>1. step[q] = "swap" /\ fresh'[q] = fresh[q] /\ seen'[q] = seen[q]
    BY <1>1, <1>2 DEF Moved
  <2>2. fresh[q] \in Known /\ seen[q] \in Known
    BY <2>1 DEF Inv, RequestOK, WorksFromPair, HasNewPair
  <2> QED BY <1>1, <2>1, <2>2 DEF SameSession, Grows
<1>3. ASSUME step'[r] = "swap"
      PROVE  family'[fresh'[r]] = family'[seen'[r]]
  <2>1. Refresh(r)
    BY <1>3, MostAside, RereadAnswers, SwapAnswers DEF Aside, Critical
  <2>2. Answered(r) /\ seen'[r] = seen[r] /\ seen[r] \in Known
    BY <1>3, <2>1, RefreshAnswers DEF Inv, RequestOK, WorksFromPair, Refresh
  <2> QED BY <1>1, <2>2 DEF Answered, Grows
<1> QED BY <1>2, <1>3 DEF SameSession

\* The Keycloak session of pair p needs no more of the web app: it is over, was left behind
\* by a failure, or is the one that a step-up is about to end.
Settled(p) ==
    \/ family[p] \in ended \cup loose
    \/ \E r \in Requests : step[r] = "revokePrevious" /\ family[seen[r]] = family[p]

LEMMA LeftAsSettled ==
    ASSUME Inv
    PROVE  OneSessionLeft <=> \A i \in Ids : store[i] # Nothing =>
                                 \A p \in held[i] : Settled(p) \/ family[p] = family[store[i]]
  BY DEF OneSessionLeft, Settled

LEMMA RevokesPrevious ==
    ASSUME Inv, NEW r \in Requests, step[r] = "revokePrevious",
           Arrive(r) \/ Serve(r) \/ RedisFails(r) \/ Die(r)
    PROVE  family[seen[r]] \in ended' \cup loose'
<1>1. RevokePrevious(r) \/ Die(r)
  BY DEF Arrive, Serve, RedisFails, Lookup, Discard, Lock, Reread, Refresh, Refused, Swap, Latest, Release,
         Poll, Forward, Drop, Revoke, Confirm, Place, CatchUp, RevokeNew, SignIn, ReplaceSession, Create
<1>2. seen[r] # Nothing
  BY DEF Inv, RequestOK, WorksFromPair
<1>3. CASE RevokePrevious(r)
  BY <1>3 DEF RevokePrevious, RevokeQuietly
<1>4. CASE Die(r)
  BY <1>2, <1>4 DEF Die, InHand
<1> QED BY <1>1, <1>3, <1>4

LEMMA SettledStays ==
    ASSUME Inv, NEW r \in Requests, Arrive(r) \/ Serve(r) \/ RedisFails(r) \/ Die(r),
           NEW p \in Known, Settled(p)
    PROVE  Settled(p)'
<1>1. Grows /\ Moved(r)
  BY HandlersGrow, HandlerSteps, SessionsKept
<1>2. family'[p] = family[p]
  BY <1>1 DEF Grows
<1>3. CASE family[p] \in ended \cup loose
  BY <1>1, <1>2, <1>3 DEF Grows, Settled
<1>4. ASSUME NEW q \in Requests, step[q] = "revokePrevious", family[seen[q]] = family[p]
      PROVE  Settled(p)'
  <2>1. CASE q = r
    BY <1>2, <1>4, <2>1, RevokesPrevious DEF Settled
  <2>2. CASE q # r
    <3>1. step'[q] = "revokePrevious" /\ seen'[q] = seen[q] /\ seen[q] \in Known
      BY <1>1, <1>4, <2>2 DEF Moved, Inv, RequestOK, WorksFromPair
    <3> QED BY <1>1, <1>2, <1>4, <3>1 DEF Grows, Settled
  <2> QED BY <2>1, <2>2
<1> QED BY <1>3, <1>4 DEF Settled

\* A pair that comes into a session belongs to the Keycloak session of the one it replaces,
\* or a step-up that is about to end that one puts it there.
LEMMA ReplacedSettles ==
    ASSUME Inv, SameSession, NEW r \in Requests, Arrive(r) \/ Serve(r) \/ RedisFails(r) \/ Die(r),
           NEW i \in Ids, store' = [store EXCEPT ![i] = fresh[r]], store[i] # fresh[r],
           fresh[r] # Nothing
    PROVE  \/ held[i] = {}
           \/ store[i] # Nothing /\ family[fresh[r]] = family[store[i]]
           \/ store[i] # Nothing /\ step'[r] = "revokePrevious" /\ seen'[r] = store[i]
<1>1. store \in [Ids -> Pairs \cup {Nothing}] /\ step \in [Requests -> Steps] /\ seen[r] \in Known \cup {Nothing}
  BY DEF Inv, Typed, Arrays, RequestOK
<1>2. store'[i] = fresh[r] /\ \A j \in Ids : j # i => store'[j] = store[j]
  BY <1>1
<1>3. ASSUME NEW j \in Ids, Delete(j)
      PROVE  FALSE
  BY <1>1, <1>2, <1>3 DEF Delete
<1>4. cookie[r] \in Ids
  BY Cookies
<1>5. CASE Swap(r)
  <2>1. step[r] = "swap" /\ store[cookie[r]] = seen[r] /\ store'[cookie[r]] = fresh[r] /\ cookie[r] = i
    BY <1>1, <1>2, <1>4, <1>5, SwapAnswers DEF StoreStill
  <2> QED BY <2>1 DEF Inv, RequestOK, WorksFromPair, SameSession
<1>6. CASE Place(r)
  <2>1. /\ store[cookie[r]] = seen[r] /\ store' = [store EXCEPT ![cookie[r]] = fresh[r]]
        /\ step'[r] = "revokePrevious" /\ seen'[r] = seen[r]
    BY <1>1, <1>2, <1>6 DEF Place, ReplaceIfCurrent, store_vars, Goto
  <2>2. cookie[r] = i /\ seen[r] # Nothing
    BY <1>1, <1>2, <1>4, <1>6, <2>1 DEF Place, Inv, RequestOK, WorksFromPair
  <2> QED BY <2>1, <2>2
<1>7. CASE Create(r)
  <2>1. minted + 1 \in Ids /\ store' = [store EXCEPT ![minted + 1] = fresh[r]] /\ held[minted + 1] = {}
    BY <1>7, CreatePuts DEF Create
  <2>2. minted + 1 = i
    BY <1>1, <1>2, <2>1
  <2> QED BY <2>1, <2>2
<1>8. CASE Discard(r) \/ Refused(r) \/ Drop(r) \/ ReplaceSession(r)
  BY <1>3, <1>4, <1>8 DEF Discard, Refused, Drop, ReplaceSession
<1>9. CASE \/ Arrive(r) \/ RedisFails(r) \/ Die(r) \/ Lookup(r) \/ Lock(r) \/ Reread(r) \/ Refresh(r)
           \/ Latest(r) \/ Release(r) \/ Poll(r) \/ Forward(r) \/ Revoke(r) \/ Confirm(r)
           \/ CatchUp(r) \/ RevokePrevious(r) \/ RevokeNew(r) \/ SignIn(r)
  <2>1. store' = store
    BY <1>9 DEF Arrive, RedisFails, Die, Lookup, Lock, Reread, Refresh, Latest, Release, ReleaseIfOwner, Poll,
                Forward, Revoke, Confirm, CatchUp, RevokePrevious, RevokeNew, SignIn, store_vars
  <2> QED BY <1>2, <2>1
<1> QED BY <1>5, <1>6, <1>7, <1>8, <1>9 DEF Serve

LEMMA OneSessionLeftKept ==
    ASSUME Inv, SameSession, OneSessionLeft, NEW r \in Requests,
           Arrive(r) \/ Serve(r) \/ RedisFails(r) \/ Die(r)
    PROVE  OneSessionLeft'
<1>1. Inv' /\ Grows /\ Moved(r) /\ StoreMoves(r)
  BY HandlersGrow, HandlerSteps, SessionsKept, StoresMove
<1>2. ASSUME NEW i \in Ids, store'[i] # Nothing, NEW p \in held'[i]
      PROVE  Settled(p)' \/ family'[p] = family'[store'[i]]
  <2>1. CASE p \in held[i] /\ store'[i] = store[i]
    <3>1. p \in Known /\ store[i] \in Known
      BY <1>2, <2>1 DEF Inv, Holdings
    <3>2. Settled(p) \/ family[p] = family[store[i]]
      BY <1>2, <2>1, LeftAsSettled
    <3> QED BY <1>1, <2>1, <3>1, <3>2, SettledStays DEF Grows
  <2>2. CASE /\ fresh[r] \in Known /\ \A j \in Ids : fresh[r] \notin held[j]
             /\ store' = [store EXCEPT ![i] = fresh[r]]
             /\ held' = [held EXCEPT ![i] = @ \cup {fresh[r]}]
    <3>1. store'[i] = fresh[r] /\ held'[i] = held[i] \cup {fresh[r]} /\ fresh[r] # Nothing /\ store[i] # fresh[r]
      BY <2>2, KnownPairs DEF Inv, Typed, Holdings
    <3>2. CASE p \in held[i]
      <4>1. p \in Known /\ held[i] # {} /\ (store[i] # Nothing => store[i] \in Known)
        BY <3>2 DEF Inv, Holdings
      <4>2. store[i] # Nothing
        BY <2>2, <3>1, <4>1, ReplacedSettles
      <4>3. CASE Settled(p)
        BY <4>1, <4>3, SettledStays
      <4>4. CASE family[p] = family[store[i]]
        <5>1. CASE family[fresh[r]] = family[store[i]]
          BY <1>1, <2>2, <3>1, <4>1, <4>4, <5>1 DEF Grows
        <5>2. CASE step'[r] = "revokePrevious" /\ seen'[r] = store[i]
          <6>1. family'[seen'[r]] = family'[p]
            BY <1>1, <4>1, <4>2, <4>4, <5>2 DEF Grows
          <6> QED BY <5>2, <6>1 DEF Settled
        <5> QED BY <2>2, <3>1, <4>1, <5>1, <5>2, ReplacedSettles
      <4> QED BY <4>2, <4>3, <4>4, <3>2, LeftAsSettled
    <3> QED BY <1>2, <3>1, <3>2
  <2>3. CASE ~(p \in held[i] /\ store'[i] = store[i])
    <3>1. PICK j \in Ids :
            /\ fresh[r] \in Known /\ \A k \in Ids : fresh[r] \notin held[k]
            /\ store' = [store EXCEPT ![j] = fresh[r]]
            /\ held' = [held EXCEPT ![j] = @ \cup {fresh[r]}]
      BY <1>1, <1>2, <2>3 DEF StoreMoves
    <3>2. j = i
      BY <1>2, <2>3, <3>1 DEF Inv, Typed
    <3> QED BY <2>2, <3>1, <3>2
  <2> QED BY <2>1, <2>3
<1> QED BY <1>1, <1>2 DEF OneSessionLeft, Settled

\* The other steps leave the sessions and the handlers alone.
LEMMA OthersKeepSettled ==
    ASSUME Inv, Grows, Quiet, NEW p \in Known, Settled(p)
    PROVE  Settled(p)'
<1>1. family'[p] = family[p]
  BY DEF Grows
<1>2. CASE family[p] \in ended \cup loose
  BY <1>1, <1>2 DEF Grows, Settled
<1>3. ASSUME NEW q \in Requests, step[q] = "revokePrevious", family[seen[q]] = family[p]
      PROVE  Settled(p)'
  <2>1. step'[q] = "revokePrevious" /\ seen'[q] = seen[q] /\ seen[q] \in Known
    BY <1>3 DEF Quiet, request_vars, Inv, RequestOK, WorksFromPair
  <2> QED BY <1>1, <1>3, <2>1 DEF Grows, Settled
<1> QED BY <1>2, <1>3 DEF Settled

LEMMA OthersKeepOneSession ==
    ASSUME Inv, Grows, Quiet, SameSession, OneSessionLeft
    PROVE  SameSession' /\ OneSessionLeft'
<1>1. SameSession'
  <2>1. \A q \in Requests : step[q] = "swap" => fresh[q] \in Known /\ seen[q] \in Known
    BY DEF Inv, RequestOK, WorksFromPair, HasNewPair
  <2> QED BY <2>1 DEF Quiet, request_vars, Grows, SameSession
<1>2. \A i \in Ids : held'[i] = held[i] /\ store'[i] \in {store[i], Nothing}
  BY DEF Quiet, StoreStill, Deleted, Inv, Typed
<1>3. ASSUME NEW i \in Ids, store'[i] # Nothing, NEW p \in held'[i]
      PROVE  Settled(p)' \/ family'[p] = family'[store'[i]]
  <2>1. p \in Known /\ store'[i] = store[i] /\ store[i] \in Known
    BY <1>2, <1>3 DEF Inv, Holdings
  <2>2. Settled(p) \/ family[p] = family[store[i]]
    BY <1>2, <1>3, <2>1, LeftAsSettled
  <2> QED BY <2>1, <2>2, OthersKeepSettled DEF Grows
<1> QED BY <1>1, <1>3 DEF OneSessionLeft, Settled

\* A step that does nothing changes nothing.
LEMMA StutterGrows ==
    ASSUME Inv, UNCHANGED vars
    PROVE  Grows /\ Quiet /\ spent' = spent
<1>1. \A p \in Pairs : age[p] \in Nat
  BY DEF Inv, Typed, Ages
<1> QED BY <1>1 DEF vars, store_vars, identity_vars, ghost_vars, Grows, Quiet, StoreStill, Undisturbed

\* A step-up leaves one Keycloak session to its browser session: every other one whose tokens
\* it has held is over, about to be ended or was left behind by a failure (reauthenticate.ts).
THEOREM StepUpsLeaveOneSession == Spec => []OneSessionLeft
<1> DEFINE Left == Inv /\ SameSession /\ OneSessionLeft
<1>1. Init => Left
  <2>1. Init => SameSession /\ OneSessionLeft
    BY DEF Init, SameSession, OneSessionLeft
  <2> QED BY <2>1, InitInv
<1>2. Left /\ [Next]_vars => Left'
  <2> SUFFICES ASSUME Left, [Next]_vars PROVE Left'
    OBVIOUS
  <2>1. Inv'
    BY NextInv
  <2>2. ASSUME NEW r \in Requests, Arrive(r) \/ Serve(r) \/ RedisFails(r) \/ Die(r)
        PROVE  SameSession' /\ OneSessionLeft'
    BY <2>2, SameSessionKept, OneSessionLeftKept
  <2>3. ASSUME \/ \E i \in Ids : LeaseRunsOut(i) \/ Forget(i)
               \/ \E p \in Pairs : Age(p) \/ EndElsewhere(p)
        PROVE  SameSession' /\ OneSessionLeft'
    BY <2>3, OthersGrow, OthersKeepOneSession
  <2>4. CASE UNCHANGED vars
    BY <2>1, <2>4, StutterGrows, OthersKeepOneSession
  <2>5. CASE Next
    BY <2>1, <2>2, <2>3, <2>5, StepCases
  <2> QED BY <2>1, <2>4, <2>5
<1>3. Left => OneSessionLeft
  OBVIOUS
<1> QED BY <1>1, <1>2, <1>3, PTL DEF Spec

-----------------------------------------------------------------------------
(* Parallel loads sign nobody out.                                           *)

\* A pair has been held by one session at most, a refresh token is spent only for a session
\* that holds its pair, and a handler that refreshes works from a pair its session has held.
HeldOnce == \A i, j \in Ids : \A p \in held[i] : p \in held[j] => i = j
SpentHeld == \A p \in spent : \E i \in Ids : p \in held[i]
WorksFromHeld == \A r \in Requests : step[r] \in Critical => seen[r] \in held[cookie[r]]

\* While nothing fails and no lease runs out: nobody sends a refresh token that is spent; a
\* session with a spent one is about to get the pair issued for it, which is the same user's.
SendsUnspent == \A r \in Requests : step[r] = "refresh" => seen[r] \notin spent
SpentIsReplaced ==
    \A i \in Ids : store[i] \in spent =>
        \E r \in Requests : step[r] = "swap" /\ cookie[r] = i /\ seen[r] = store[i]
AnswerIsOwn == \A r \in Requests : step[r] = "swap" => subject[seen[r]] = subject[fresh[r]]
RefusedForGood ==
    \A r \in Requests : step[r] = "refused" => family[seen[r]] \in ended \/ ~IsRefreshable(seen[r])
Undisturbing == SendsUnspent /\ SpentIsReplaced /\ AnswerIsOwn /\ RefusedForGood

LoadsInv ==
    /\ HeldOnce
    /\ SpentHeld
    /\ WorksFromHeld
    /\ Undisturbed => Undisturbing

LEMMA HeldOnceKept ==
    ASSUME Inv, HeldOnce, NEW r \in Requests, StoreMoves(r)
    PROVE  HeldOnce'
  BY DEF Inv, Typed, HeldOnce, StoreMoves

\* The handler that is at work is where the step takes it; the others are where they were.
LEMMA WorksFromHeldKept ==
    ASSUME Inv, WorksFromHeld, SpentHeld, NEW r \in Requests,
           Arrive(r) \/ Serve(r) \/ RedisFails(r) \/ Die(r)
    PROVE  WorksFromHeld' /\ SpentHeld'
<1>1. Grows /\ Moved(r)
  BY HandlersGrow, HandlerSteps, SessionsKept
<1>2. \A q \in Requests : cookie[q] \in Ids
  BY Cookies
<1>3. ASSUME NEW q \in Requests, q # r, step'[q] \in Critical
      PROVE  seen'[q] \in held'[cookie'[q]]
  BY <1>1, <1>2, <1>3 DEF Moved, Grows, WorksFromHeld
<1>4. ASSUME spent' = spent
      PROVE  SpentHeld'
  BY <1>1, <1>4 DEF Grows, SpentHeld
<1>5. CASE Aside(r)
  BY <1>3, <1>4, <1>5 DEF Aside, WorksFromHeld
<1>6. CASE Reread(r)
  <2>1. cookie'[r] = cookie[r] /\ spent' = spent /\ StoreStill
        /\ (step'[r] = "release" \/ (seen'[r] = store[cookie[r]] /\ store[cookie[r]] # Nothing))
    BY <1>6, RereadAnswers
  <2>2. step'[r] \in Critical => seen'[r] \in held'[cookie'[r]]
    BY <1>2, <2>1 DEF StoreStill, Inv, Holdings, Critical
  <2> QED BY <1>3, <1>4, <2>1, <2>2 DEF WorksFromHeld
<1>7. CASE Refresh(r)
  <2>1. step[r] = "refresh" /\ cookie'[r] = cookie[r] /\ seen[r] \in held[cookie[r]]
    BY <1>7, RefreshAnswers DEF WorksFromHeld, Critical
  <2>2. step'[r] \in Critical => seen'[r] = seen[r]
    BY <1>7, RefreshAnswers DEF Critical
  <2>3. WorksFromHeld'
    BY <1>1, <1>2, <1>3, <2>1, <2>2 DEF Grows, WorksFromHeld
  <2>4. spent' \subseteq spent \cup {seen[r]}
    BY <1>7 DEF Refresh, identity_vars
  <2>5. SpentHeld'
    BY <1>1, <1>2, <2>1, <2>4 DEF Grows, SpentHeld
  <2> QED BY <2>3, <2>5
<1>8. CASE Swap(r)
  <2>1. /\ step[r] = "swap" /\ cookie'[r] = cookie[r] /\ spent' = spent
        /\ step'[r] \in Critical => seen'[r] = seen[r]
    BY <1>8, SwapAnswers DEF Critical
  <2>2. step'[r] \in Critical => seen'[r] \in held'[cookie'[r]]
    BY <1>1, <1>2, <2>1 DEF Grows, WorksFromHeld, Critical
  <2> QED BY <1>3, <1>4, <2>1, <2>2 DEF WorksFromHeld
<1> QED BY <1>5, <1>6, <1>7, <1>8, MostAside

\* While no lease runs out, a handler that refreshes a session is the only one that does.
LEMMA Alone ==
    ASSUME Inv, Undisturbed, NEW r \in Requests, NEW q \in Requests,
           step[r] \in Refreshing, step[q] \in Refreshing, cookie[r] = cookie[q]
    PROVE  r = q
  BY DEF Inv, LeaseInv, Undisturbed

\* A pair that identity takes no more stays so.
LEMMA RefusedStays ==
    ASSUME Inv, Inv', Grows, NEW p \in Known, family[p] \in ended \/ ~IsRefreshable(p)
    PROVE  (family[p] \in ended \/ ~IsRefreshable(p))'
<1>0. p \in Pairs
  BY KnownPairs DEF Inv
<1>1. age[p] \in Nat /\ age'[p] \in Nat /\ age'[p] >= age[p]
  BY <1>0 DEF Grows, Inv, Typed, Ages
<1>2. ~IsRefreshable(p) => (~IsRefreshable(p))'
  BY <1>1 DEF IsRefreshable
<1> QED BY <1>2 DEF Grows

\* The handlers that were at work before the step have nothing to fear from it, as long as
\* the refresh tokens that it spends are not theirs.
LEMMA OthersUndisturbed ==
    ASSUME Inv, Inv', Grows, WorksFromHeld, NEW q \in Requests, step'[q] = step[q],
           seen'[q] = seen[q], fresh'[q] = fresh[q], Undisturbing,
           step[q] \in Critical => seen[q] \notin spent' \ spent
    PROVE  /\ step'[q] = "refresh" => seen'[q] \notin spent'
           /\ step'[q] = "swap" => subject'[seen'[q]] = subject'[fresh'[q]]
           /\ step'[q] = "refused" => (family[seen[q]] \in ended \/ ~IsRefreshable(seen[q]))'
<1>1. CASE step[q] = "refresh"
  BY <1>1 DEF Undisturbing, SendsUnspent, Critical
<1>2. CASE step[q] = "swap"
  <2>1. seen[q] \in Known /\ fresh[q] \in Known
    BY <1>2 DEF Inv, RequestOK, WorksFromPair, HasNewPair
  <2> QED BY <1>2, <2>1 DEF Undisturbing, AnswerIsOwn, Grows
<1>3. CASE step[q] = "refused"
  <2>1. PICK p \in Known : p = seen[q]
    BY <1>3, Cookies DEF WorksFromHeld, Critical, Inv, Holdings
  <2>2. family[p] \in ended \/ ~IsRefreshable(p)
    BY <1>3, <2>1 DEF Undisturbing, RefusedForGood
  <2>3. (family[p] \in ended \/ ~IsRefreshable(p))'
    BY <2>2, RefusedStays
  <2> QED BY <1>3, <2>1, <2>3 DEF IsRefreshable
<1> QED BY <1>1, <1>2, <1>3

\* Only a refresh spends a refresh token, and no other handler that refreshes works from it.
LEMMA SpendsOwn ==
    ASSUME Inv, HeldOnce, WorksFromHeld, Undisturbed, NEW r \in Requests,
           Arrive(r) \/ Serve(r) \/ RedisFails(r) \/ Die(r)
    PROVE  /\ spent' \subseteq spent \cup {seen[r]}
           /\ spent' # spent => step[r] = "refresh" /\ Refresh(r)
           /\ \A q \in Requests : q # r /\ step[q] \in Critical => seen[q] \notin spent' \ spent
<1>1. /\ spent' \subseteq spent \cup {seen[r]}
      /\ spent' # spent => step[r] = "refresh" /\ Refresh(r)
  BY MostAside, RereadAnswers, SwapAnswers DEF Aside, Refresh, identity_vars
<1>2. ASSUME NEW q \in Requests, q # r, step[q] \in Critical, seen[q] \in spent' \ spent
      PROVE  FALSE
  <2>1. step[r] = "refresh" /\ seen[q] = seen[r]
    BY <1>1, <1>2
  <2>2. cookie[q] = cookie[r]
    BY <1>2, <2>1, Cookies DEF WorksFromHeld, Critical, HeldOnce
  <2> QED BY <1>2, <2>1, <2>2, Alone DEF Critical, Refreshing
<1> QED BY <1>1, <1>2

LEMMA ActorUndisturbed ==
    ASSUME Inv, Inv', LoadsInv, Undisturbed, Undisturbed', Grows, NEW r \in Requests,
           Arrive(r) \/ Serve(r) \/ RedisFails(r) \/ Die(r)
    PROVE  /\ step'[r] = "refresh" => seen'[r] \notin spent'
           /\ step'[r] = "swap" => subject'[seen'[r]] = subject'[fresh'[r]]
           /\ step'[r] = "refused" => (family[seen[r]] \in ended \/ ~IsRefreshable(seen[r]))'
<1> USE DEF Critical
<1>1. Undisturbing
  BY DEF LoadsInv
<1>2. CASE Aside(r)
  BY <1>2 DEF Aside
<1>3. CASE Reread(r)
  <2>1. /\ step[r] = "reread" /\ spent' = spent
        /\ step'[r] \in Critical => step'[r] = "refresh" /\ seen'[r] = store[cookie[r]]
    BY <1>3, RereadAnswers
  <2>2. store[cookie[r]] \notin spent
    BY <1>1, <2>1, Cookies, Alone DEF Undisturbing, SpentIsReplaced, Refreshing
  <2> QED BY <2>1, <2>2
<1>4. CASE Refresh(r)
  <2>1. PICK p \in Known : p = seen[r]
    BY <1>4 DEF Refresh, Inv, RequestOK, WorksFromPair
  <2>2. p \notin spent
    BY <1>1, <1>4, <2>1 DEF Undisturbing, SendsUnspent, Refresh
  <2>3. CASE Answered(r) /\ seen'[r] = seen[r]
    BY <2>1, <2>3 DEF Answered, Grows
  <2>4. CASE step'[r] = "refused" /\ ~Refreshes(seen[r]) /\ seen'[r] = seen[r]
    <3>1. family[p] \in ended \/ ~IsRefreshable(p)
      BY <2>1, <2>2, <2>4 DEF Refreshes
    <3>2. (family[p] \in ended \/ ~IsRefreshable(p))'
      BY <3>1, RefusedStays
    <3> QED BY <2>1, <2>4, <3>2 DEF IsRefreshable
  <2> QED BY <1>4, <2>3, <2>4, RefreshAnswers
<1>5. CASE Swap(r)
  BY <1>1, <1>5, SwapAnswers DEF Undisturbing, AnswerIsOwn
<1> QED BY <1>2, <1>3, <1>4, <1>5, MostAside

LEMMA ReplacedKept ==
    ASSUME Inv, Inv', LoadsInv, Undisturbed, Undisturbed', NEW r \in Requests, Moved(r), StoreMoves(r),
           Arrive(r) \/ Serve(r) \/ RedisFails(r) \/ Die(r)
    PROVE  SpentIsReplaced'
<1> SUFFICES ASSUME NEW i \in Ids, store'[i] \in spent'
             PROVE  \E q \in Requests : step'[q] = "swap" /\ cookie'[q] = i /\ seen'[q] = store'[i]
  BY DEF SpentIsReplaced
<1>1. /\ Undisturbing /\ HeldOnce /\ SpentHeld /\ WorksFromHeld
      /\ spent' \subseteq spent \cup {seen[r]}
      /\ spent' # spent => step[r] = "refresh" /\ Refresh(r)
  BY SpendsOwn DEF LoadsInv
<1>2. store'[i] # Nothing
  BY DEF Inv, Typed
<1>3. \A p \in spent' : \E j \in Ids : p \in held[j]
  BY <1>1, Cookies DEF SpentHeld, WorksFromHeld, Critical
<1>4. store'[i] = store[i] /\ store[i] \in held[i]
  BY <1>2, <1>3 DEF StoreMoves, Inv, Typed, Holdings
<1>5. CASE store[i] \in spent
  <2>1. PICK q \in Requests : step[q] = "swap" /\ cookie[q] = i /\ seen[q] = store[i]
    BY <1>1, <1>5 DEF Undisturbing, SpentIsReplaced
  <2>2. CASE q = r
    <3>1. Swap(r)
      BY <2>1, <2>2, MostAside, RereadAnswers, RefreshAnswers DEF Aside
    <3>2. /\ store' = [store EXCEPT ![cookie[r]] = fresh[r]] /\ store[cookie[r]] = seen[r]
      BY <1>1, <2>1, <2>2, <3>1, SwapAnswers DEF Undisturbing, AnswerIsOwn
    <3>3. store'[i] = fresh[r]
      BY <2>1, <2>2, <3>2 DEF Inv, Typed
    <3>4. \A j \in Ids : fresh[r] \notin held[j]
      BY <1>2, <2>1, <2>2, <3>3 DEF Inv, InHandInv
    <3> QED BY <1>4, <3>3, <3>4
  <2>3. CASE q # r
    BY <1>4, <2>1, <2>3 DEF Moved
  <2> QED BY <2>2, <2>3
<1>6. CASE store[i] \notin spent
  <2>1. Refresh(r) /\ store[i] = seen[r] /\ step[r] = "refresh" /\ spent' # spent
    BY <1>1, <1>4, <1>6
  <2>2. cookie[r] = i
    BY <1>1, <1>4, <2>1, Cookies DEF HeldOnce, WorksFromHeld, Critical
  <2>3. step'[r] = "swap" /\ seen'[r] = seen[r] /\ cookie'[r] = cookie[r]
    BY <2>1, RefreshAnswers DEF Answered
  <2> QED BY <1>4, <2>1, <2>2, <2>3
<1> QED BY <1>5, <1>6

LEMMA LoadsKept ==
    ASSUME Inv, LoadsInv, NEW r \in Requests, Arrive(r) \/ Serve(r) \/ RedisFails(r) \/ Die(r)
    PROVE  LoadsInv'
<1>1. Inv' /\ Grows /\ Moved(r) /\ StoreMoves(r)
  BY HandlersGrow, HandlerSteps, SessionsKept, StoresMove
<1>2. HeldOnce' /\ SpentHeld' /\ WorksFromHeld'
  BY <1>1, HeldOnceKept, WorksFromHeldKept DEF LoadsInv
<1>3. ASSUME Undisturbed'
      PROVE  Undisturbing'
  <2>1. Undisturbed /\ Undisturbing
    BY <1>1, <1>3 DEF Grows, LoadsInv
  <2>2. ASSUME NEW q \in Requests
        PROVE  /\ step'[q] = "refresh" => seen'[q] \notin spent'
               /\ step'[q] = "swap" => subject'[seen'[q]] = subject'[fresh'[q]]
               /\ step'[q] = "refused" => (family[seen[q]] \in ended \/ ~IsRefreshable(seen[q]))'
    <3>1. CASE q = r
      BY <1>1, <1>3, <2>1, <3>1, ActorUndisturbed
    <3>2. CASE q # r
      <4>1. step'[q] = step[q] /\ seen'[q] = seen[q] /\ fresh'[q] = fresh[q]
        BY <1>1, <3>2 DEF Moved
      <4>2. step[q] \in Critical => seen[q] \notin spent' \ spent
        BY <2>1, <3>2, SpendsOwn DEF LoadsInv
      <4> QED BY <1>1, <2>1, <4>1, <4>2, OthersUndisturbed DEF LoadsInv
    <3> QED BY <3>1, <3>2
  <2>3. SendsUnspent' /\ AnswerIsOwn' /\ RefusedForGood'
    BY <2>2 DEF SendsUnspent, AnswerIsOwn, RefusedForGood
  <2>4. SpentIsReplaced'
    BY <1>1, <1>3, <2>1, ReplacedKept
  <2> QED BY <2>3, <2>4 DEF Undisturbing
<1> QED BY <1>2, <1>3 DEF LoadsInv

LEMMA OthersKeepLoads ==
    ASSUME Inv, Inv', LoadsInv, Grows, Quiet, spent' = spent
    PROVE  LoadsInv'
<1>1. \A i \in Ids : held'[i] = held[i] /\ store'[i] \in {store[i], Nothing}
  BY DEF Quiet, StoreStill, Deleted, Inv, Typed
<1>2. step' = step /\ cookie' = cookie /\ seen' = seen /\ fresh' = fresh
  BY DEF Quiet, request_vars
<1>3. HeldOnce' /\ SpentHeld'
  BY <1>1 DEF LoadsInv, HeldOnce, SpentHeld
<1>4. WorksFromHeld'
  BY <1>1, <1>2, Cookies DEF LoadsInv, WorksFromHeld
<1>5. ASSUME Undisturbed'
      PROVE  Undisturbing'
  <2>1. Undisturbing /\ WorksFromHeld
    BY <1>5 DEF Grows, LoadsInv
  <2>2. \A q \in Requests :
          /\ step'[q] = "refresh" => seen'[q] \notin spent'
          /\ step'[q] = "swap" => subject'[seen'[q]] = subject'[fresh'[q]]
          /\ step'[q] = "refused" => (family[seen[q]] \in ended \/ ~IsRefreshable(seen[q]))'
    BY <1>2, <2>1, OthersUndisturbed
  <2>3. SpentIsReplaced'
    <3>1. Nothing \notin spent
      BY DEF Inv, Typed
    <3> QED BY <1>1, <1>2, <2>1, <3>1 DEF Undisturbing, SpentIsReplaced
  <2>4. SendsUnspent' /\ AnswerIsOwn' /\ RefusedForGood'
    BY <2>2 DEF SendsUnspent, AnswerIsOwn, RefusedForGood
  <2> QED BY <2>3, <2>4 DEF Undisturbing
<1> QED BY <1>3, <1>4, <1>5 DEF LoadsInv

\* Parallel loads sign nobody out: as long as no call fails, no process dies and no lease runs
\* out, identity refuses a handler's refresh token only because its Keycloak session is over or
\* the token has run out (refreshOnce, refresh; ADR-0025).
THEOREM ParallelLoadsAreSafe == Spec => []ParallelLoadsSignNobodyOut
<1> DEFINE Loads == Inv /\ LoadsInv
<1>1. Init => Loads
  <2>1. Init => LoadsInv
    BY DEF Init, LoadsInv, HeldOnce, SpentHeld, WorksFromHeld, Critical, Undisturbing,
           SendsUnspent, SpentIsReplaced, AnswerIsOwn, RefusedForGood
  <2> QED BY <2>1, InitInv
<1>2. Loads /\ [Next]_vars => Loads'
  <2> SUFFICES ASSUME Loads, [Next]_vars PROVE Loads'
    OBVIOUS
  <2>1. Inv'
    BY NextInv
  <2>2. ASSUME NEW r \in Requests, Arrive(r) \/ Serve(r) \/ RedisFails(r) \/ Die(r)
        PROVE  LoadsInv'
    BY <2>2, LoadsKept
  <2>3. ASSUME \/ \E i \in Ids : LeaseRunsOut(i) \/ Forget(i)
               \/ \E p \in Pairs : Age(p) \/ EndElsewhere(p)
        PROVE  LoadsInv'
    BY <2>1, <2>3, OthersGrow, OthersKeepLoads
  <2>4. CASE UNCHANGED vars
    BY <2>1, <2>4, StutterGrows, OthersKeepLoads
  <2>5. CASE Next
    BY <2>1, <2>2, <2>3, <2>5, StepCases
  <2> QED BY <2>1, <2>4, <2>5
<1>3. Loads => ParallelLoadsSignNobodyOut
  BY DEF LoadsInv, Undisturbed, Undisturbing, RefusedForGood, ParallelLoadsSignNobodyOut
<1> QED BY <1>1, <1>2, <1>3, PTL DEF Spec

-----------------------------------------------------------------------------
(* The sessions in Redis implement SessionLife.                              *)

UserOf(i) == IF store[i] = Nothing THEN Nothing ELSE subject[store[i]]

\* The pairs that sessions hold keep their account.
LEMMA UsersKept ==
    ASSUME Inv, Inv', \A p \in Known : subject'[p] = subject[p],
           NEW i \in Ids, store'[i] = store[i]
    PROVE  UserOf(i)' = UserOf(i)
  BY DEF Inv, Holdings, UserOf

LEMMA StillIsNoStep ==
    ASSUME Inv, Inv', StoreStill, \A p \in Known : subject'[p] = subject[p]
    PROVE  UNCHANGED Life!vars
  BY UsersKept DEF StoreStill, UserOf, Life!vars

LEMMA DeletedEnds ==
    ASSUME Inv, Inv', Deleted, UNCHANGED subject
    PROVE  [Life!Next]_(Life!vars)
<1>1. PICK i \in Ids : store' = [store EXCEPT ![i] = Nothing] /\ UNCHANGED <<held, minted>>
  BY DEF Deleted
<1>2. CASE store[i] = Nothing
  <2>1. StoreStill
    BY <1>1, <1>2 DEF Inv, Typed, StoreStill
  <2> QED BY <2>1, StillIsNoStep
<1>3. CASE store[i] # Nothing
  <2>1. store \in [Ids -> Pairs \cup {Nothing}] /\ subject' = subject /\ held' = held
    BY <1>1 DEF Inv, Typed
  <2>2. [j \in Ids |-> IF store[j] = Nothing THEN Nothing ELSE subject[store[j]]]'
          = [[j \in Ids |-> IF store[j] = Nothing THEN Nothing ELSE subject[store[j]]] EXCEPT ![i] = Nothing]
    BY <1>1, <2>1
  <2>3. Life!End(i)
    BY <1>1, <1>3, <2>1, <2>2 DEF Life!End, Life!IsOpen
  <2> QED BY <2>3 DEF Life!Next
<1> QED BY <1>2, <1>3

LEMMA PuttingOpensOrReplaces ==
    ASSUME Inv, Inv', NEW r \in Requests, NEW i \in Ids, Putting(r, i), step[r] # "revokePrevious",
           held[i] # {} => store[i] # Nothing /\ subject[store[i]] = subject[fresh[r]]
    PROVE  Life!Next
<1>1. /\ fresh[r] \in Known /\ fresh[r] \in Pairs /\ fresh[r] # Nothing /\ subject[fresh[r]] \in Users
      /\ \A j \in Ids : fresh[r] \notin held[j]
  BY KnownPairs DEF Inv, Putting, Holdings, InHandInv
<1>2. Life!Hold(i, fresh[r])
  BY <1>1 DEF Putting, Life!Hold, Life!Unheld
<1>3. /\ UNCHANGED subject /\ store' = [store EXCEPT ![i] = fresh[r]]
      /\ store \in [Ids -> Pairs \cup {Nothing}]
  BY DEF Putting, Inv, Typed
<1>4. CASE held[i] = {}
  <2>1. Life!Open(i)
    BY <1>1, <1>2, <1>3, <1>4 DEF Life!Open, Life!New
  <2> QED BY <2>1 DEF Life!Next
<1>5. CASE held[i] # {}
  <2>1. Life!Replace(i)
    BY <1>1, <1>2, <1>3, <1>5 DEF Life!Replace, Life!IsOpen
  <2> QED BY <2>1 DEF Life!Next
<1> QED BY <1>4, <1>5

LEMMA StepsMap ==
    ASSUME Inv, Inv', [Next]_vars
    PROVE  [Life!Next]_(Life!vars)
<1>1. ASSUME NEW r \in Requests, MovesSessions(r)
      PROVE  [Life!Next]_(Life!vars)
  <2>1. CASE Calm(r)
    BY <2>1, StillIsNoStep, DeletedEnds DEF Calm
  <2>2. CASE Issuing(r)
    BY <2>2, StillIsNoStep DEF Issuing
  <2> QED BY <1>1, <2>1, <2>2, PuttingOpensOrReplaces DEF MovesSessions
<1>2. CASE Quiet
  BY <1>2, StillIsNoStep, DeletedEnds DEF Quiet
<1>3. CASE UNCHANGED vars
  BY <1>3, StillIsNoStep DEF vars, StoreStill, store_vars, identity_vars
<1> QED BY <1>1, <1>2, <1>3, StepCases, HandlerSteps, QuietSteps

LEMMA StartMaps == Init => Life!Init
  BY DEF Init, Life!Init, Life!New

\* A browser session is opened once, its pair is replaced only by another pair of the same
\* account that no session held before, and once it has ended its cookie opens nothing again
\* (token-store.ts, session-server.ts, reauthenticate.ts).
THEOREM SessionsKeepTheirPromise == Spec => LifeSpec
  BY Invariant, StartMaps, StepsMap, PTL DEF Spec, LifeSpec, Life!Spec

=============================================================================
