------------------------------- MODULE Outbox -------------------------------
(***************************************************************************)
(* The transactional outbox and inbox of platform-common-outbox: the       *)
(* transactions that append rows, the relay of every replica, the broker,  *)
(* and one consumer per org with its inbox.                                *)
(*                                                                         *)
(* A transaction gets its id when it first writes (pg_current_xact_id),    *)
(* its rows get theirs when they are inserted, and both become visible     *)
(* only when it commits: neither order is the order of commits.  The relay *)
(* reads a batch once and then works through it, each row's outcome in a   *)
(* transaction of its own.  Backoff is left out: a relay that backs off is *)
(* one that opens its next batch later.                                    *)
(***************************************************************************)
EXTENDS Integers, FiniteSets, Sequences

CONSTANTS
    Orgs,         \* org ids; the topics are keyed by them
    Txs,          \* the transactions that may write
    TxOrg,        \* the org each of them writes for
    Unlocked,     \* transactions that write without locking the org row
    MaxRows,      \* rows a transaction appends at most
    Relays,       \* replicas of the service
    Consumed,     \* orgs whose events a consumer handles here
    BatchSize,    \* outbox.batch-size
    MaxAttempts,  \* outbox.max-attempts
    Faulty,       \* transactions whose events the broker may reject for what they are
    MaxTries,     \* messaging.retry.max-attempts of the consumer
    MaxFaults,    \* bound: sends in doubt, crashes after a send, lost locks
    Nobody        \* no transaction, no relay

ASSUME OutboxAssumption ==
    /\ TxOrg \in [Txs -> Orgs]
    /\ Consumed \subseteq Orgs
    /\ Unlocked \subseteq Txs /\ Faulty \subseteq Txs
    /\ {MaxRows, BatchSize, MaxAttempts, MaxTries} \subseteq Nat \ {0}
    /\ MaxFaults \in Nat
    /\ Nobody \notin Txs \cup Relays

VARIABLES
    tx,        \* where each transaction stands
    xid,       \* its id, 0 before its first write
    holder,    \* the transaction holding each org's row
    rows,      \* outbox_events, a row's id is its position
    leader,    \* the relay whose transaction holds the advisory lock
    batch,     \* the rows each relay still has to work through
    sent,      \* the first of them has reached the broker
    faults,    \* sends in doubt, crashes after a send and lost locks so far
    blocked,   \* the orgs each relay passes over for the rest of its batch
    log,       \* per org, the records of its partition
    acked,     \* per org, the offset its consumer has committed
    handled,   \* the record after it has been handled, but not acknowledged
    tries,     \* failed deliveries of the record after it
    claimed,   \* processed_events
    applied,   \* per org, the events whose effects the consumer committed
    dead       \* the dead letter topic

txVars == <<tx, xid, holder>>
relayVars == <<leader, batch, sent, blocked, faults>>
consumerVars == <<acked, handled, tries, claimed, applied, dead>>
vars == <<tx, xid, holder, rows, leader, batch, sent, blocked, faults,
          log, acked, handled, tries, claimed, applied, dead>>

-----------------------------------------------------------------------------
(* Writers                                                                 *)

Begun == {t \in Txs : xid[t] > 0}
RowsOf(t) == {r \in DOMAIN rows : rows[r].tx = t}
OrgOf(r) == TxOrg[rows[r].tx]

\* The first write, usually the inbox claim: it assigns the transaction id.
Begin(t) ==
    /\ tx[t] = "NEW"
    /\ tx' = [tx EXCEPT ![t] = "OPEN"]
    /\ xid' = [xid EXCEPT ![t] = Cardinality(Begun) + 1]
    /\ UNCHANGED <<holder, rows, relayVars, log, consumerVars>>

LockOrg(t) ==
    /\ tx[t] = "OPEN" /\ t \notin Unlocked /\ holder[TxOrg[t]] = Nobody
    /\ holder' = [holder EXCEPT ![TxOrg[t]] = t]
    /\ UNCHANGED <<tx, xid, rows, relayVars, log, consumerVars>>

NewRow(t) == [tx |-> t, status |-> "PENDING", attempts |-> 0, due |-> TRUE]

AppendRow(t) ==
    /\ tx[t] = "OPEN" /\ (t \in Unlocked \/ holder[TxOrg[t]] = t)
    /\ Cardinality(RowsOf(t)) < MaxRows
    /\ rows' = Append(rows, NewRow(t))
    /\ UNCHANGED <<txVars, relayVars, log, consumerVars>>

Released(t) == [o \in Orgs |-> IF holder[o] = t THEN Nobody ELSE holder[o]]

Commit(t) ==
    /\ tx[t] = "OPEN"
    /\ tx' = [tx EXCEPT ![t] = "COMMITTED"]
    /\ holder' = Released(t)
    /\ UNCHANGED <<xid, rows, relayVars, log, consumerVars>>

Rollback(t) ==
    /\ tx[t] = "OPEN"
    /\ tx' = [tx EXCEPT ![t] = "ROLLED_BACK"]
    /\ holder' = Released(t)
    /\ UNCHANGED <<xid, rows, relayVars, log, consumerVars>>

-----------------------------------------------------------------------------
(* What a relay reads                                                      *)

\* pg_snapshot_xmin: the lowest id of a transaction that may still write.
Older(n) == \A t \in Txs : tx[t] = "OPEN" => n < xid[t]

Visible == {r \in DOMAIN rows : tx[rows[r].tx] = "COMMITTED"}

\* Mutant: every committed row is read, also those an open transaction may still precede.
Settled_Committed == Visible

Settled == {r \in Visible : Older(xid[rows[r].tx])}

\* ORDER BY tx_id, id.
Precedes(q, r) ==
    xid[rows[q].tx] < xid[rows[r].tx] \/ (rows[q].tx = rows[r].tx /\ q < r)

\* Mutant: a row waits for the failing rows of every org.
HeldBack_ByAnyOrg(r) ==
    \E q \in Visible :
        /\ Precedes(q, r)
        /\ rows[q].status = "PARKED" \/ (rows[q].status = "PENDING" /\ ~rows[q].due)

\* An earlier row of the org is parked or waits for its next attempt.
HeldBack(r) ==
    \E q \in Visible :
        /\ OrgOf(q) = OrgOf(r) /\ Precedes(q, r)
        /\ rows[q].status = "PARKED" \/ (rows[q].status = "PENDING" /\ ~rows[q].due)

Ready == {r \in Settled : rows[r].status = "PENDING" /\ rows[r].due /\ ~HeldBack(r)}

InOrder(S) ==
    [n \in 1..Cardinality(S) |->
        CHOOSE r \in S : Cardinality({q \in S : Precedes(q, r)}) = n - 1]

FirstOf(s) == SubSeq(s, 1, IF Len(s) < BatchSize THEN Len(s) ELSE BatchSize)

-----------------------------------------------------------------------------
(* The relay: one tick reads a batch, then sends row by row                *)

Current(i) == Head(batch[i])

\* On to the next row; the tick's transaction ends with its batch, and the advisory lock with it.
Advance(i, skipped) ==
    /\ batch' = [batch EXCEPT ![i] = Tail(@)]
    /\ sent' = [sent EXCEPT ![i] = FALSE]
    /\ blocked' = [blocked EXCEPT ![i] = IF Len(batch[i]) = 1 THEN {} ELSE skipped]
    /\ leader' = IF Len(batch[i]) = 1 /\ leader = i THEN Nobody ELSE leader

GiveUp(i) ==
    /\ batch' = [batch EXCEPT ![i] = <<>>]
    /\ sent' = [sent EXCEPT ![i] = FALSE]
    /\ blocked' = [blocked EXCEPT ![i] = {}]
    /\ leader' = IF leader = i THEN Nobody ELSE leader

RelayOpen(i) ==
    /\ leader = Nobody /\ batch[i] = <<>> /\ Ready # {}
    /\ leader' = i
    /\ batch' = [batch EXCEPT ![i] = FirstOf(InOrder(Ready))]
    /\ UNCHANGED <<txVars, rows, sent, blocked, faults, log, consumerVars>>

Skip(i) ==
    /\ batch[i] # <<>> /\ ~sent[i] /\ OrgOf(Current(i)) \in blocked[i]
    /\ Advance(i, blocked[i])
    /\ UNCHANGED <<txVars, rows, faults, log, consumerVars>>

Sending(i) ==
    /\ batch[i] # <<>> /\ ~sent[i] /\ OrgOf(Current(i)) \notin blocked[i]

Recorded(r) == [log EXCEPT ![OrgOf(r)] = Append(@, r)]

Send(i) ==
    /\ Sending(i)
    /\ log' = Recorded(Current(i))
    /\ sent' = [sent EXCEPT ![i] = TRUE]
    /\ UNCHANGED <<txVars, rows, leader, batch, blocked, faults, consumerVars>>

\* The broker fails or the send times out, the latter perhaps after the record was written.
BrokerFails(i) ==
    /\ Sending(i)
    /\ \/ UNCHANGED <<log, faults>>
       \/ faults < MaxFaults /\ faults' = faults + 1 /\ log' = Recorded(Current(i))
    /\ GiveUp(i)
    /\ UNCHANGED <<txVars, rows, consumerVars>>

MarkPublished(i) ==
    /\ batch[i] # <<>> /\ sent[i]
    /\ rows' = [rows EXCEPT ![Current(i)].status = "PUBLISHED"]
    /\ Advance(i, blocked[i])
    /\ UNCHANGED <<txVars, faults, log, consumerVars>>

Parked(n) == n >= MaxAttempts

\* The fault is the row's: it waits or is parked, and its org is blocked for this batch.
FailRow(i) ==
    /\ Sending(i) /\ rows[Current(i)].tx \in Faulty
    /\ LET n == rows[Current(i)].attempts + 1 IN
         rows' = [rows EXCEPT ![Current(i)].attempts = n,
                              ![Current(i)].due = FALSE,
                              ![Current(i)].status = IF Parked(n) THEN "PARKED" ELSE @]
    /\ Advance(i, blocked[i] \cup {OrgOf(Current(i))})
    /\ UNCHANGED <<txVars, faults, log, consumerVars>>

\* next_attempt_at passes.
RowDue(r) ==
    /\ rows[r].status = "PENDING" /\ ~rows[r].due
    /\ rows' = [rows EXCEPT ![r].due = TRUE]
    /\ UNCHANGED <<txVars, relayVars, log, consumerVars>>

\* The replica dies, or a row's transaction fails: the rest of the batch is dropped.
RelayDies(i) ==
    /\ batch[i] # <<>>
    /\ sent[i] => faults < MaxFaults
    /\ faults' = IF sent[i] THEN faults + 1 ELSE faults
    /\ GiveUp(i)
    /\ UNCHANGED <<txVars, rows, log, consumerVars>>

\* The connection that holds the advisory lock is lost; the batch is finished all the same.
LoseLock(i) ==
    /\ leader = i /\ faults < MaxFaults
    /\ leader' = Nobody
    /\ faults' = faults + 1
    /\ UNCHANGED <<txVars, rows, batch, sent, blocked, log, consumerVars>>

-----------------------------------------------------------------------------
(* The consumer of an org's partition                                      *)

Pending(o) == acked[o] < Len(log[o]) /\ ~handled[o]
Record(o) == log[o][acked[o] + 1]

\* Mutant: the inbox lets every delivery through.
FirstDelivery_Always(r) == TRUE

FirstDelivery(r) == r \notin claimed

\* One transaction: the inbox claim and, on the first delivery, the effects.
Handle(o) ==
    /\ Pending(o)
    /\ applied' = IF FirstDelivery(Record(o)) THEN [applied EXCEPT ![o] = Append(@, Record(o))]
                                              ELSE applied
    /\ claimed' = claimed \cup {Record(o)}
    /\ handled' = [handled EXCEPT ![o] = TRUE]
    /\ UNCHANGED <<txVars, rows, relayVars, log, acked, tries, dead>>

Ack(o) ==
    /\ handled[o]
    /\ acked' = [acked EXCEPT ![o] = @ + 1]
    /\ handled' = [handled EXCEPT ![o] = FALSE]
    /\ tries' = [tries EXCEPT ![o] = 0]
    /\ UNCHANGED <<txVars, rows, relayVars, log, claimed, applied, dead>>

\* The consumer dies between its commit and the offset's: the record comes again.
Redeliver(o) ==
    /\ handled[o]
    /\ handled' = [handled EXCEPT ![o] = FALSE]
    /\ tries' = [tries EXCEPT ![o] = 0]
    /\ UNCHANGED <<txVars, rows, relayVars, log, acked, claimed, applied, dead>>

HandleFails(o) ==
    /\ Pending(o) /\ tries[o] + 1 < MaxTries
    /\ tries' = [tries EXCEPT ![o] = @ + 1]
    /\ UNCHANGED <<txVars, rows, relayVars, log, acked, handled, claimed, applied, dead>>

\* The last delivery fails too: the record goes to the dead letter topic.
DeadLetter(o) ==
    /\ Pending(o) /\ tries[o] + 1 = MaxTries
    /\ dead' = dead \cup {Record(o)}
    /\ acked' = [acked EXCEPT ![o] = @ + 1]
    /\ tries' = [tries EXCEPT ![o] = 0]
    /\ UNCHANGED <<txVars, rows, relayVars, log, handled, claimed, applied>>

-----------------------------------------------------------------------------
Init ==
    /\ tx = [t \in Txs |-> "NEW"]
    /\ xid = [t \in Txs |-> 0]
    /\ holder = [o \in Orgs |-> Nobody]
    /\ rows = <<>>
    /\ leader = Nobody
    /\ batch = [i \in Relays |-> <<>>]
    /\ sent = [i \in Relays |-> FALSE]
    /\ blocked = [i \in Relays |-> {}]
    /\ faults = 0
    /\ log = [o \in Orgs |-> <<>>]
    /\ acked = [o \in Orgs |-> 0]
    /\ handled = [o \in Orgs |-> FALSE]
    /\ tries = [o \in Orgs |-> 0]
    /\ claimed = {}
    /\ applied = [o \in Orgs |-> <<>>]
    /\ dead = {}

Writer(t) == Begin(t) \/ LockOrg(t) \/ AppendRow(t) \/ Commit(t) \/ Rollback(t)

Relay(i) ==
    \/ RelayOpen(i) \/ Skip(i) \/ Send(i) \/ MarkPublished(i) \/ FailRow(i)
    \/ BrokerFails(i) \/ RelayDies(i) \/ LoseLock(i)

Consumer(o) == Handle(o) \/ Ack(o) \/ Redeliver(o) \/ HandleFails(o) \/ DeadLetter(o)

Next ==
    \/ \E t \in Txs : Writer(t)
    \/ \E i \in Relays : Relay(i)
    \/ \E r \in DOMAIN rows : RowDue(r)
    \/ \E o \in Consumed : Consumer(o)

Spec == Init /\ [][Next]_vars

(* Transactions end, ticks come, deadlines pass; a broker that can take a    *)
(* record again and again takes it, and a handler does not fail for ever.    *)
Fairness ==
    /\ \A t \in Txs : WF_vars(Commit(t) \/ Rollback(t))
    /\ WF_vars(\E r \in DOMAIN rows : RowDue(r))
    /\ WF_vars(\E i \in Relays : RelayOpen(i))
    /\ \A i \in Relays :
         /\ WF_vars(Skip(i))
         /\ SF_vars(Send(i))
         /\ SF_vars(MarkPublished(i))
    /\ \A o \in Consumed : WF_vars(Handle(o) \/ HandleFails(o) \/ DeadLetter(o)) /\ SF_vars(Ack(o))

FairSpec == Spec /\ Fairness

-----------------------------------------------------------------------------
(* Properties *)

\* The rows of an org that nothing can come before any more, in the order of the relay.
Line(o) == InOrder({r \in Settled : OrgOf(r) = o})

\* A sequence without its repetitions.
Firsts(s) ==
    LET new == {k \in DOMAIN s : \A j \in 1..(k - 1) : s[j] # s[k]}
    IN  [n \in 1..Cardinality(new) |->
            s[CHOOSE k \in new : Cardinality({j \in new : j < k}) = n - 1]]

\* Whatever relays, crashes, lost locks and parked rows do, each org has one line of events
\* that only grows at its end, and its partition holds a prefix of that line, copies aside.
Feed == INSTANCE EventFeed WITH
    line <- [o \in Orgs |-> Line(o)],
    told <- [o \in Orgs |-> Firsts(log[o])]

FeedSpec == Feed!Spec

\* The inbox makes of an at-least-once log a handling that is exactly once and in order: no
\* effect is applied twice, and none after the effect of a later event, unless the record
\* went to the dead letter topic before a copy of it got through.
AppliedOnceInOrder ==
    \A o \in Orgs : \A j, k \in DOMAIN applied[o] : j < k =>
        /\ applied[o][j] # applied[o][k]
        /\ Precedes(applied[o][j], applied[o][k]) \/ applied[o][k] \in dead

Sound(r) == \A t \in Faulty : TxOrg[t] # OrgOf(r)

\* A row that keeps failing holds back its own org and no other: every committed event of an
\* org whose rows are sound ends up handled or dead-lettered, whatever happens to the others.
SoundOrgsAreServed ==
    <>[](\A r \in Visible : Sound(r) /\ OrgOf(r) \in Consumed => r \in claimed \cup dead)
=============================================================================
