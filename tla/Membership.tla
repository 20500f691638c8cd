----------------------------- MODULE Membership -----------------------------
(***************************************************************************)
(* The members of one team org: the transactions of org-team-service that  *)
(* change them, the compacted topic org.membership.changed that carries    *)
(* their state, and the read model another service keeps of it (ADR-0019). *)
(*                                                                         *)
(* A transaction is two steps.  The first takes its id and its locks and   *)
(* reads; the second writes and commits, once nobody shares a row it       *)
(* writes.  What lies between its writes nobody sees: readers of a written *)
(* row wait for the commit.  The outbox publishes by transaction id and    *)
(* never past an open transaction, as EventFeed promises.                  *)
(***************************************************************************)
EXTENDS Integers, FiniteSets, Sequences, FiniteSetsExt, Functions

CONSTANTS
    Members,    \* the people, as the backfill orders them
    Founder,    \* who made the org
    Legacy,     \* who joined before the topic existed
    BatchSize,  \* membership-backfill.batch-size
    MaxTx,      \* bound: transactions that write
    MaxVersion, \* bound: profile updates stop here
    Absent,     \* no row, no invite, no transaction
    Tombstone,  \* the record of a deleted row
    Completed   \* the cursor after the last batch

Roles == {"OWNER", "ADMIN", "DEVELOPER"}
Row == [role : Roles, status : {"ACTIVE", "REMOVED"}, version : Nat]

ASSUME MembershipAssumption ==
    /\ Members \subseteq Nat \ {0} /\ IsFiniteSet(Members)
    /\ Founder \in Legacy /\ Legacy \subseteq Members
    /\ BatchSize \in Nat \ {0} /\ {MaxTx, MaxVersion} \subseteq Nat
    /\ Absent \notin Row /\ Tombstone \notin Row /\ Completed \notin Nat

VARIABLES
    org,       \* organizations: status, owner_user_id, and the transaction that deleted it
    rows,      \* memberships
    invites,   \* the role of each pending invite
    cursor,    \* membership_backfill_cursor
    tx,        \* the open transaction of each kind
    lastXid,   \* the youngest transaction id
    outbox,    \* committed and unpublished, by transaction id
    topic,     \* per member, the records of its key
    reader,    \* the read model and how far it has come
    overtaken  \* members with a record that is behind a younger one of theirs

tables == <<org, rows, invites, cursor>>
stream == <<topic, reader>>
vars == <<tables, tx, lastXid, outbox, stream, overtaken>>

-----------------------------------------------------------------------------
(* Rows, records and transactions                                          *)

\* "org" is whoever holds the org's row lock; "profile" a profile update.
Kinds == {"org", "profile", "sweep", "backfill"}

Here == {m \in Members : rows[m] # Absent}
Active == {m \in Here : rows[m].status = "ACTIVE"}
Removed == Here \ Active

Open == {k \in Kinds : tx[k] # Absent}

Begin(kind, work) ==
    /\ tx[kind] = Absent /\ lastXid < MaxTx
    /\ lastXid' = lastXid + 1
    /\ tx' = [tx EXCEPT ![kind] = [xid |-> lastXid', work |-> work]]
    /\ UNCHANGED <<tables, outbox, stream, overtaken>>

\* A crash, a deadlock, a failed version check.
Rollback(kind) ==
    /\ tx[kind] # Absent
    /\ tx' = [tx EXCEPT ![kind] = Absent]
    /\ UNCHANGED <<tables, lastXid, outbox, stream, overtaken>>

\* What younger transactions have committed for m and the relay still holds back.
Younger(m, xid) == {x \in DOMAIN outbox : x > xid /\ m \in DOMAIN outbox[x]}

Publish(xid, records) ==
    /\ outbox' = [x \in DOMAIN outbox \cup {xid} |-> IF x = xid THEN records ELSE outbox[x]]
    /\ overtaken' = overtaken \cup
           {m \in DOMAIN records : /\ Younger(m, xid) # {}
                                   /\ outbox[Max(Younger(m, xid))][m] # records[m]}

\* SELECT ... FOR SHARE: the rows a backfill batch keeps others from writing.
Shared == IF tx["backfill"] = Absent THEN {} ELSE DOMAIN tx["backfill"].work

Write(written) ==
    /\ DOMAIN written \cap Shared = {}
    /\ rows' = [m \in Members |-> IF m \in DOMAIN written THEN written[m] ELSE rows[m]]

\* The rows that change become one record each, a deleted row a tombstone.
WriteAndPublish(xid, written) ==
    /\ Write(written)
    /\ Publish(xid, [m \in DOMAIN written |-> IF written[m] = Absent THEN Tombstone ELSE written[m]])

-----------------------------------------------------------------------------
(* The org's transactions, one at a time under its row lock                *)

\* OrgGuard.lockActive and activeActor; what to write carries the versions that were read.
Change(actor, owner, to) ==
    /\ org.status = "ACTIVE" /\ actor \in Active
    /\ Begin("org", [op |-> "change", owner |-> owner, to |-> to])

MayRemove(actor, target) ==
    \/ actor = target
    \/ rows[actor].role = "OWNER"
    \/ rows[actor].role = "ADMIN" /\ rows[target].role = "DEVELOPER"

ChangeRole(actor, target, role) ==
    /\ target \in Active
    /\ Change(actor, org.owner, [m \in {target} |-> [rows[m] EXCEPT !.role = role]])
    /\ rows[actor].role = "OWNER"
    /\ "OWNER" \notin {rows[target].role, role} /\ rows[target].role # role

Remove(actor, target) ==
    /\ target \in Active
    /\ Change(actor, org.owner, [m \in {target} |-> [rows[m] EXCEPT !.status = "REMOVED"]])
    /\ rows[target].role # "OWNER" /\ MayRemove(actor, target)

TransferOwnership(actor, target) ==
    /\ target \in Active
    /\ Change(actor, target,
              [m \in {actor, target} |->
                   [rows[m] EXCEPT !.role = IF m = target THEN "OWNER" ELSE "ADMIN"]])
    /\ rows[actor].role = "OWNER" /\ rows[target].role # "OWNER"

\* @Version: the rows a flush writes are still the rows that were read.
\* Mutant: the version is not in the update's WHERE.
AsRead_Unversioned(read) == \A m \in DOMAIN read : rows[m] # Absent

AsRead(read) == \A m \in DOMAIN read : rows[m] # Absent /\ rows[m].version = read[m].version

NextVersion(row) == [row EXCEPT !.version = @ + 1]

CommitChange ==
    LET work == tx["org"].work IN
    /\ tx["org"] # Absent /\ work.op = "change"
    /\ AsRead(work.to)
    /\ WriteAndPublish(tx["org"].xid, [m \in DOMAIN work.to |-> NextVersion(work.to[m])])
    /\ org' = [org EXCEPT !.owner = work.owner]
    /\ tx' = [tx EXCEPT !["org"] = Absent]
    /\ UNCHANGED <<invites, cursor, lastXid, stream>>

\* organizations.owner_user_id decides who may.
Delete(actor) ==
    /\ org.status = "ACTIVE" /\ org.owner = actor
    /\ Begin("org", [op |-> "delete"])

\* removeAllActive is one statement, over the rows as they are by then.
\* Mutant: a bulk update skips @Version.
RemovedRow_SameVersion(row) == [row EXCEPT !.status = "REMOVED"]

RemovedRow(row) == [NextVersion(row) EXCEPT !.status = "REMOVED"]

CommitDelete ==
    /\ tx["org"] # Absent /\ tx["org"].work.op = "delete"
    /\ WriteAndPublish(tx["org"].xid, [m \in Active |-> RemovedRow(rows[m])])
    /\ org' = [org EXCEPT !.status = "DELETED", !.deletedIn = tx["org"].xid]
    /\ invites' = [m \in Members |-> Absent]
    /\ tx' = [tx EXCEPT !["org"] = Absent]
    /\ UNCHANGED <<cursor, lastXid, stream>>

\* OrgPurgeJob, 30 days after the deletion; the status PURGED stands for purged_at.
Purge ==
    /\ org.status = "DELETED"
    /\ Begin("org", [op |-> "purge"])

CommitPurge ==
    /\ tx["org"] # Absent /\ tx["org"].work.op = "purge"
    /\ WriteAndPublish(tx["org"].xid, [m \in Here |-> Absent])
    /\ org' = [org EXCEPT !.status = "PURGED"]
    /\ invites' = [m \in Members |-> Absent]
    /\ tx' = [tx EXCEPT !["org"] = Absent]
    /\ UNCHANGED <<cursor, lastXid, stream>>

-----------------------------------------------------------------------------
(* Invites.  Nobody else can write a member's row before it is there, so   *)
(* these transactions are one step each.                                   *)

OrgFree == org.status = "ACTIVE" /\ tx["org"] = Absent

MayInvite(actor, role) ==
    \/ rows[actor].role = "OWNER" /\ role # "OWNER"
    \/ rows[actor].role = "ADMIN" /\ role = "DEVELOPER"

\* requireInvitable: neither a member, nor a removed one, nor invited already.
Invite(m, role) ==
    /\ OrgFree /\ rows[m] = Absent /\ invites[m] = Absent
    /\ \E actor \in Active : MayInvite(actor, role)
    /\ invites' = [invites EXCEPT ![m] = role]
    /\ UNCHANGED <<org, rows, cursor, tx, lastXid, outbox, stream, overtaken>>

\* Revoked, or expired.
EndInvite(m) ==
    /\ invites[m] # Absent
    /\ invites' = [invites EXCEPT ![m] = Absent]
    /\ UNCHANGED <<org, rows, cursor, tx, lastXid, outbox, stream, overtaken>>

\* The listener of org.invite.accepted; saveAndFlush starts the version at 0.
Accept(m) ==
    /\ OrgFree /\ invites[m] # Absent /\ rows[m] = Absent /\ lastXid < MaxTx
    /\ lastXid' = lastXid + 1
    /\ WriteAndPublish(lastXid', [n \in {m} |->
           [role |-> invites[n], status |-> "ACTIVE", version |-> 0]])
    /\ invites' = [invites EXCEPT ![m] = Absent]
    /\ UNCHANGED <<org, cursor, tx, stream>>

-----------------------------------------------------------------------------
(* Profile updates write the whole row, without the org's lock and without *)
(* a record; only the version keeps them from undoing a change.            *)

ReadProfile(m) ==
    /\ m \in Active /\ rows[m].version < MaxVersion
    /\ Begin("profile", [n \in {m} |-> rows[n]])

CommitProfile ==
    LET read == tx["profile"].work IN
    /\ tx["profile"] # Absent
    /\ AsRead(read)
    /\ Write([m \in DOMAIN read |-> NextVersion(read[m])])
    /\ tx' = [tx EXCEPT !["profile"] = Absent]
    /\ UNCHANGED <<org, invites, cursor, lastXid, outbox, stream, overtaken>>

-----------------------------------------------------------------------------
(* The sweep of memberships removed long ago                               *)

\* Removed a year ago (retention.removed-memberships): no transaction is that old.
LongRemoved == Removed \ (IF tx["profile"] = Absent THEN {} ELSE DOMAIN tx["profile"].work)

Sweep == LongRemoved # {} /\ Begin("sweep", "rows")

CommitSweep(old) ==
    /\ tx["sweep"] # Absent
    /\ WriteAndPublish(tx["sweep"].xid, [m \in old |-> Absent])
    /\ tx' = [tx EXCEPT !["sweep"] = Absent]
    /\ UNCHANGED <<org, invites, cursor, lastXid, stream>>

-----------------------------------------------------------------------------
(* The backfill of the topic, one batch per transaction                    *)

\* The advisory lock and the cursor's row.
OpenBatch == cursor # Completed /\ Begin("backfill", <<>>)

Unread == {m \in Here : m > cursor}
Page == {m \in Unread : Cardinality({n \in Unread : n < m}) < BatchSize}

ReadBatch ==
    /\ tx["backfill"] # Absent /\ Shared = {} /\ Page # {}
    /\ tx' = [tx EXCEPT !["backfill"].work = [m \in Page |->
                  IF org.status = "ACTIVE" THEN rows[m] ELSE [rows[m] EXCEPT !.status = "REMOVED"]]]
    /\ UNCHANGED <<tables, lastXid, outbox, stream, overtaken>>

\* A short page, an empty one too, is the last.
CommitBatch ==
    /\ tx["backfill"] # Absent
    /\ Shared = {} => Page = {}
    /\ Publish(tx["backfill"].xid, tx["backfill"].work)
    /\ cursor' = IF Cardinality(Shared) < BatchSize THEN Completed ELSE Max(Shared)
    /\ tx' = [tx EXCEPT !["backfill"] = Absent]
    /\ UNCHANGED <<org, rows, invites, lastXid, stream>>

\* The operator runs it again.
RunAgain ==
    /\ cursor = Completed
    /\ cursor' = 0
    /\ UNCHANGED <<org, rows, invites, tx, lastXid, outbox, stream, overtaken>>

-----------------------------------------------------------------------------
(* The relay and the broker                                                *)

\* ORDER BY tx_id, and never past a transaction that is still open.
Relay ==
    /\ DOMAIN outbox # {}
    /\ LET xid == Min(DOMAIN outbox) IN
       /\ \A k \in Open : tx[k].xid > xid
       /\ topic' = [m \in Members |-> IF m \in DOMAIN outbox[xid]
                                      THEN Append(topic[m], outbox[xid][m]) ELSE topic[m]]
       /\ outbox' = Restrict(outbox, DOMAIN outbox \ {xid})
    /\ UNCHANGED <<tables, tx, lastXid, reader, overtaken>>

\* Compaction keeps a key's latest record; min.compaction.lag.ms spares what a reader has not come to.
Compact(m) ==
    /\ Len(topic[m]) > 1 /\ reader.pos[m] + 1 >= Len(topic[m])
    /\ LET gone == Len(topic[m]) - 1 IN
       /\ topic' = [topic EXCEPT ![m] = <<@[Len(@)]>>]
       /\ reader' = [reader EXCEPT !.pos[m] = @ - gone]
    /\ UNCHANGED <<tables, tx, lastXid, outbox, overtaken>>

-----------------------------------------------------------------------------
(* Another service's read model                                            *)

OnlyTheReader == UNCHANGED <<tables, tx, lastXid, outbox, topic, overtaken>>

\* applyState: a row appears, or moves to a higher version.
Newer(held, record) == held = Absent \/ held.version < record.version

Applied(held, record) ==
    IF record = Tombstone THEN Absent ELSE IF Newer(held, record) THEN record ELSE held

Consume(m) ==
    /\ reader.pos[m] < Len(topic[m])
    /\ reader' = [reader EXCEPT !.pos[m] = @ + 1,
                                !.table[m] = Applied(@, topic[m][reader.pos[m] + 1])]
    /\ OnlyTheReader

\* A restart or a rebalance: records since the last acknowledged one, one step back at a time.
Redeliver(m) ==
    /\ reader.pos[m] > 0
    /\ reader' = [reader EXCEPT !.pos[m] = @ - 1]
    /\ OnlyTheReader

\* TRUNCATE, and the group's offsets to the earliest.
Rebuild ==
    /\ reader' = [reader EXCEPT !.table = [m \in Members |-> Absent],
                                !.pos = [m \in Members |-> 0]]
    /\ OnlyTheReader

\* org.deleted is another topic: it may come before or after any of the records.
OrgDeleted ==
    /\ org.status # "ACTIVE" /\ ~reader.orgDeleted
    /\ org.deletedIn \notin DOMAIN outbox
    /\ reader' = [reader EXCEPT !.orgDeleted = TRUE,
                                !.table = [m \in Members |-> IF @[m] = Absent THEN Absent
                                                             ELSE [@[m] EXCEPT !.status = "REMOVED"]]]
    /\ OnlyTheReader

-----------------------------------------------------------------------------

\* Orgs of before the topic; deleting one then left its rows as they were.
Init ==
    /\ \E status \in {"ACTIVE", "DELETED"} :
          org = [status |-> status, owner |-> Founder, deletedIn |-> 0]
    /\ rows = [m \in Members |->
          IF m \in Legacy
          THEN [role |-> IF m = Founder THEN "OWNER" ELSE "DEVELOPER", status |-> "ACTIVE", version |-> 0]
          ELSE Absent]
    /\ invites = [m \in Members |-> Absent]
    /\ cursor = 0
    /\ tx = [k \in Kinds |-> Absent]
    /\ lastXid = 0
    /\ outbox = <<>>
    /\ topic = [m \in Members |-> <<>>]
    /\ reader = [table |-> [m \in Members |-> Absent], pos |-> [m \in Members |-> 0],
                 orgDeleted |-> FALSE]
    /\ overtaken = {}

OrgStep ==
    \/ \E actor, target \in Members :
          \/ \E role \in Roles : ChangeRole(actor, target, role)
          \/ Remove(actor, target)
          \/ TransferOwnership(actor, target)
    \/ CommitChange
    \/ \E actor \in Members : Delete(actor)
    \/ CommitDelete
    \/ Purge
    \/ CommitPurge

MemberStep ==
    \E m \in Members :
        \/ \E role \in Roles : Invite(m, role)
        \/ EndInvite(m)
        \/ Accept(m)
        \/ ReadProfile(m)

UpkeepStep ==
    \/ CommitProfile
    \/ Sweep
    \/ \E old \in SUBSET LongRemoved \ {{}} : CommitSweep(old)
    \/ OpenBatch
    \/ ReadBatch
    \/ CommitBatch
    \/ RunAgain
    \/ \E kind \in Kinds : Rollback(kind)

StreamStep ==
    \/ Relay
    \/ \E m \in Members : Compact(m) \/ Consume(m) \/ Redeliver(m)
    \/ Rebuild
    \/ OrgDeleted

Next == OrgStep \/ MemberStep \/ UpkeepStep \/ StreamStep

Spec == Init /\ [][Next]_vars

-----------------------------------------------------------------------------
(* Properties                                                              *)

TypeOK ==
    /\ org \in [status : {"ACTIVE", "DELETED", "PURGED"}, owner : Members, deletedIn : Nat]
    /\ rows \in [Members -> Row \cup {Absent}]
    /\ invites \in [Members -> (Roles \ {"OWNER"}) \cup {Absent}]
    /\ cursor \in Members \cup {0, Completed}
    /\ \A k \in Open : tx[k].xid \in 1..lastXid
    /\ \A x \in DOMAIN outbox : DOMAIN outbox[x] \subseteq Members
    /\ \A m \in Members : reader.pos[m] \in 0..Len(topic[m])
    /\ overtaken \subseteq Members

(* An org that is there has one owner: of its active members exactly the   *)
(* one owner_user_id names, whatever transfers, removals and profile       *)
(* updates run beside each other.                                          *)
OneOwner ==
    org.status = "ACTIVE" => {m \in Active : rows[m].role = "OWNER"} = {org.owner}

Settled ==
    /\ Open = {} /\ outbox = <<>>
    /\ \A m \in Members : reader.pos[m] = Len(topic[m])

\* A member of before the topic is only known by a backfill or a later change.
Published(m) == cursor = Completed \/ topic[m] # <<>>

Status(m) == IF org.status = "ACTIVE" THEN rows[m].status ELSE "REMOVED"

(* Once everything is published and read, the read model knows every       *)
(* member's role and whether they are still in the org, and nobody else:   *)
(* after removals and invitations of the same person, sweeps, deletions,   *)
(* redeliveries, compaction and a rebuild from an empty table, unless two  *)
(* of the member's records were published in the wrong order.              *)
ReadModelRight ==
    Settled => \A m \in Members \ overtaken :
        LET held == reader.table[m] IN
        Published(m) =>
            IF rows[m] = Absent THEN held = Absent
            ELSE held # Absent /\ held.role = rows[m].role /\ held.status = Status(m)

(* The claim of the backfill's comment: a write that races with a batch    *)
(* is relayed after it with the higher version.  So the records of a       *)
(* member never fall back to a lower version, but over a tombstone.        *)
RelayedAfterTheBackfill ==
    \A m \in Members : \A i \in 2..Len(topic[m]) :
        Tombstone \in {topic[m][i - 1], topic[m][i]}
            \/ topic[m][i - 1].version <= topic[m][i].version
=============================================================================
