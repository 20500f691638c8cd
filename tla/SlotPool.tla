------------------------------ MODULE SlotPool ------------------------------
(***************************************************************************)
(* What the scheduler promises about capacity, with no queue, no rounds    *)
(* and no database: a pool of slots.  A job asks for a slot under a key    *)
(* (its app) that belongs to a tenant (its org).  Slots are granted to     *)
(* several jobs at a time, within three limits, and a job that has given   *)
(* its slot up never holds one again.                                      *)
(***************************************************************************)
EXTENDS Integers, FiniteSets

CONSTANTS
    Jobs,         \* who may hold a slot
    Keys,         \* at most one slot per key
    Tenants,      \* owners of keys
    TenantOf,     \* the tenant of each key
    TenantLimit,  \* slots a tenant may hold
    Capacity      \* slots there are

VARIABLES
    held,         \* the slots taken: a job and the key it runs under
    spent         \* the jobs that have given up their slot

poolVars == <<held, spent>>

Slot == [job : Jobs, key : Keys]

JobsOf(S) == {s.job : s \in S}
HeldBy(S, t) == {s \in S : TenantOf[s.key] = t}

WithinLimits(S) ==
    /\ \A s, r \in S : s.job = r.job \/ s.key = r.key => s = r
    /\ \A t \in Tenants : Cardinality(HeldBy(S, t)) <= TenantLimit[t]
    /\ Cardinality(S) <= Capacity

Init == held = {} /\ spent = {}

Grant ==
    /\ held \subseteq held'
    /\ held' \subseteq Slot
    /\ JobsOf(held' \ held) \cap spent = {}
    /\ WithinLimits(held')
    /\ UNCHANGED spent

GiveUp ==
    /\ held' \subseteq held
    /\ spent' = spent \cup JobsOf(held \ held')

Next == Grant \/ GiveUp

Spec == Init /\ [][Next]_poolVars
=============================================================================
