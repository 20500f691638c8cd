-------------------------- MODULE MembershipProofs --------------------------
(* Proofs about Membership, for any number of people, transactions and       *)
(* profile updates and any size of the backfill's batches: that an org has   *)
(* one owner, and that a read model which has read everything is right.      *)
EXTENDS Membership, FiniteSetTheorems, SequenceTheorems, WellFoundedInduction, TLAPS

Record == Row \cup {Tombstone}

TablesTyped ==
    /\ org \in [status : {"ACTIVE", "DELETED", "PURGED"}, owner : Members, deletedIn : Nat]
    /\ rows \in [Members -> Row \cup {Absent}]
    /\ invites \in [Members -> (Roles \ {"OWNER"}) \cup {Absent}]
    /\ cursor \in Members \cup {0, Completed}

OutboxTyped ==
    /\ lastXid \in Nat
    /\ DOMAIN outbox \subseteq 1..lastXid
    /\ \A x \in DOMAIN outbox : /\ DOMAIN outbox[x] \subseteq Members
                                /\ \A m \in DOMAIN outbox[x] : outbox[x][m] \in Record
    /\ overtaken \subseteq Members

StreamTyped ==
    /\ topic \in [Members -> Seq(Record)]
    /\ reader \in [table : [Members -> Row \cup {Absent}], pos : [Members -> Nat], orgDeleted : BOOLEAN]
    /\ \A m \in Members : reader.pos[m] <= Len(topic[m])

\* Every open transaction has an id of its own, under which nothing is published yet.
XidsApart ==
    /\ DOMAIN tx = Kinds
    /\ \A k \in Open : tx[k].xid \in 1..lastXid /\ tx[k].xid \notin DOMAIN outbox
    /\ \A k, l \in Open : tx[k].xid = tx[l].xid => k = l

Written(f) == DOMAIN f \subseteq Members /\ \A m \in DOMAIN f : f[m] \in Row

\* What the transaction under the org's lock will write: either rows of others than the owner, none of
\* them an owner's, or the rows of the old and the new owner.
OrgWork(work) ==
    \/ work.op = "delete" /\ org.status = "ACTIVE"
    \/ work.op = "purge" /\ org.status = "DELETED"
    \/ /\ work.op = "change" /\ org.status = "ACTIVE"
       /\ Written(work.to) /\ work.owner \in Members
       /\ \/ /\ work.owner = org.owner /\ org.owner \notin DOMAIN work.to
             /\ \A m \in DOMAIN work.to : work.to[m].role # "OWNER"
          \/ /\ DOMAIN work.to = {org.owner, work.owner} /\ org.owner # work.owner
             /\ work.to[work.owner].role = "OWNER" /\ work.to[work.owner].status = "ACTIVE"
             /\ work.to[org.owner].role # "OWNER"

OrgTx == tx["org"] # Absent => OrgWork(tx["org"].work)

\* A row that a profile update has read is still that row while its version is the same: versions only
\* rise, and the row does not go away to come back.
StillRead(read) ==
    /\ Written(read)
    /\ \A m \in DOMAIN read :
         /\ rows[m] = Absent => org.status = "PURGED"
         /\ rows[m] # Absent => /\ rows[m].version >= read[m].version
                                /\ rows[m].version = read[m].version => rows[m] = read[m]

ProfileTx == tx["profile"] # Absent => StillRead(tx["profile"].work)

\* A batch's rows are as it read them.
AsPublished(m) == [rows[m] EXCEPT !.status = Status(m)]

BatchTx ==
    tx["backfill"] # Absent =>
        /\ tx["backfill"] = [xid |-> tx["backfill"].xid, work |-> tx["backfill"].work]
        /\ Shared \subseteq Here
        /\ \A m \in Shared : tx["backfill"].work[m] = AsPublished(m)

TypeInv == TablesTyped /\ OutboxTyped /\ StreamTyped /\ XidsApart /\ BatchTx

OwnerInv == OneOwner /\ OrgTx /\ ProfileTx

-----------------------------------------------------------------------------
(* Greatest and least elements                                              *)

LEMMA LeastExists ==
    ASSUME NEW S, S \subseteq Nat, S # {}
    PROVE  \E x \in S : \A y \in S : x <= y
<1>1. PICK x \in S : \A y \in S : <<y, x>> \notin OpToRel(<, Nat)
  BY NatLessThanWellFounded, WFMin
<1>2. \A y \in S : ~(y < x)
  BY <1>1 DEF OpToRel
<1> QED BY <1>2

LEMMA GreatestExists ==
    ASSUME NEW n \in Nat, NEW S, S \subseteq 0..n, S # {}
    PROVE  \E x \in S : \A y \in S : y <= x
<1> DEFINE T == {n - y : y \in S}
<1>1. T \subseteq Nat /\ T # {}
  <2>1. \A y \in S : n - y \in Nat
    OBVIOUS
  <2> QED BY <2>1
<1>2. PICK t \in T : \A u \in T : t <= u
  <2> HIDE DEF T
  <2> QED BY <1>1, LeastExists
<1>3. PICK x \in S : t = n - x
  BY <1>2
<1>4. \A y \in S : n - x <= n - y
  BY <1>2, <1>3
<1> QED BY <1>4

LEMMA MinIs ==
    ASSUME NEW S, S \subseteq Nat, S # {}
    PROVE  Min(S) \in S /\ \A y \in S : Min(S) <= y
BY LeastExists DEF Min

LEMMA MaxIs ==
    ASSUME NEW n \in Nat, NEW S, S \subseteq 0..n, S # {}
    PROVE  Max(S) \in S /\ \A y \in S : y <= Max(S)
BY GreatestExists DEF Max

\* The people are numbered, so there is a last one.
LEMMA LastOfMembers ==
    ASSUME NEW S, S \subseteq Members, S # {}
    PROVE  Max(S) \in S /\ \A y \in S : y <= Max(S)
<1> DEFINE above(x) == {y \in S : y > x}
           f == [x \in S |-> Cardinality(above(x))]
<1>1. IsFiniteSet(S) /\ S \subseteq Nat
  BY MembershipAssumption, FS_Subset
<1>2. \A x \in S : IsFiniteSet(above(x)) /\ f[x] \in Nat
  <2> SUFFICES ASSUME NEW x \in S PROVE IsFiniteSet(above(x)) /\ Cardinality(above(x)) \in Nat
    OBVIOUS
  <2>1. above(x) \subseteq S
    OBVIOUS
  <2> HIDE DEF above
  <2> QED BY <1>1, <2>1, FS_Subset, FS_CardinalityType
<1> DEFINE T == {f[x] : x \in S}
<1>3. T \subseteq Nat /\ T # {}
  <2> HIDE DEF f
  <2> QED BY <1>2
<1>4. PICK t \in T : \A u \in T : t <= u
  <2> HIDE DEF T
  <2> QED BY <1>3, LeastExists
<1>5. PICK x \in S : t = f[x]
  BY <1>4
<1>6. ASSUME NEW y \in S, y > x PROVE FALSE
  <2>a. x \in Nat /\ y \in Nat
    BY <1>1, <1>6
  <2>b. \A z \in S : z \in Nat
    BY <1>1
  <2>c. \A z \in S : z > y => z > x
    BY <2>a, <2>b, <1>6
  <2>d. above(y) \subseteq above(x)
    BY <2>c
  <2>e. y \in above(x) /\ ~(y > y)
    BY <2>a, <1>6
  <2>f. y \notin above(y)
    BY <2>e
  <2>1. above(y) \subseteq above(x) /\ y \in above(x) /\ y \notin above(y)
    BY <2>d, <2>e, <2>f
  <2>2. f[x] <= f[y]
    BY <1>4, <1>5
  <2>3. f[x] = Cardinality(above(x)) /\ f[y] = Cardinality(above(y)) /\ f[x] \in Nat /\ f[y] \in Nat
    BY <1>2
  <2> HIDE DEF above, f
  <2>4. Cardinality(above(y)) <= Cardinality(above(x)) /\ (Cardinality(above(y)) = Cardinality(above(x)) => above(y) = above(x))
    BY <1>2, <2>1, FS_Subset
  <2> QED BY <2>1, <2>2, <2>3, <2>4
<1>7. \A y \in S : y <= x
  BY <1>1, <1>6
<1> QED BY <1>7 DEF Max

-----------------------------------------------------------------------------
(* What the building blocks of the actions do                               *)

\* An unwritten row is published as before.
SamePublished(m) ==
    /\ rows'[m] = rows[m]
    /\ rows[m] # Absent => Status(m)' = Status(m)

LEMMA BeginDoes ==
    ASSUME TypeInv, NEW kind \in Kinds, NEW work, Begin(kind, work), kind = "backfill" => work = <<>>
    PROVE  /\ TypeInv' /\ tx'[kind].work = work
           /\ \A k \in Kinds : k # kind => tx'[k] = tx[k]
<1> USE DEF TypeInv
<1>1. /\ tx' = [tx EXCEPT ![kind] = [xid |-> lastXid + 1, work |-> work]] /\ lastXid' = lastXid + 1
      /\ UNCHANGED <<org, rows, invites, cursor, outbox, topic, reader, overtaken>>
  BY DEF Begin, tables, stream
<1>2. tx'[kind] = [xid |-> lastXid + 1, work |-> work] /\ \A k \in Kinds : k # kind => tx'[k] = tx[k]
  BY <1>1 DEF XidsApart
<1>3. TablesTyped'
  BY <1>1 DEF TablesTyped
<1>4. OutboxTyped'
  <2>1. DOMAIN outbox' \subseteq 1..lastXid'
    BY <1>1 DEF OutboxTyped
  <2> QED BY <1>1, <2>1 DEF OutboxTyped
<1>5. StreamTyped'
  BY <1>1 DEF StreamTyped
<1>6. XidsApart'
  <2>1. DOMAIN tx' = Kinds
    BY <1>1 DEF XidsApart
  <2>2. \A k \in Kinds \ {kind} : k \in Open' => /\ k \in Open /\ tx'[k].xid = tx[k].xid
    BY <1>2 DEF Open
  <2>3. \A k \in Open : tx[k].xid \in 1..lastXid
    BY DEF XidsApart
  <2>4. tx'[kind].xid = lastXid + 1 /\ lastXid \in Nat /\ lastXid + 1 \notin DOMAIN outbox
    BY <1>2 DEF OutboxTyped
  <2>5. \A k \in Open' : tx'[k].xid \in 1..lastXid' /\ tx'[k].xid \notin DOMAIN outbox'
    <3> TAKE k \in Open'
    <3>1. k \in Kinds
      BY DEF Open
    <3>2. CASE k = kind
      BY <3>2, <2>4, <1>1
    <3>3. CASE k # kind
      BY <3>1, <3>3, <2>2, <2>3, <2>4, <1>1 DEF XidsApart
    <3> QED BY <3>2, <3>3
  <2>6. \A k, l \in Open' : tx'[k].xid = tx'[l].xid => k = l
    <3> SUFFICES ASSUME NEW k \in Open', NEW l \in Open', tx'[k].xid = tx'[l].xid, k # l PROVE FALSE
      OBVIOUS
    <3>1. k \in Kinds /\ l \in Kinds
      BY DEF Open
    <3>2. CASE k = kind
      BY <3>1, <3>2, <2>2, <2>3, <2>4
    <3>3. CASE l = kind
      BY <3>1, <3>3, <2>2, <2>3, <2>4
    <3>4. CASE k # kind /\ l # kind
      BY <3>1, <3>4, <2>2 DEF XidsApart
    <3> QED BY <3>2, <3>3, <3>4
  <2> QED BY <2>1, <2>5, <2>6 DEF XidsApart
<1>7. BatchTx'
  <2>1. CASE kind = "backfill"
    <3>1. tx'["backfill"] = [xid |-> lastXid + 1, work |-> <<>>]
      BY <1>2, <2>1
    <3>2. Shared' = {}
      BY <3>1 DEF Shared
    <3> QED BY <3>1, <3>2 DEF BatchTx
  <2>2. CASE kind # "backfill"
    <3>1. tx'["backfill"] = tx["backfill"]
      BY <1>2, <2>2 DEF Kinds
    <3> QED BY <3>1, <1>1 DEF BatchTx, Shared, Here, AsPublished, Status
  <2> QED BY <2>1, <2>2
<1> QED BY <1>2, <1>3, <1>4, <1>5, <1>6, <1>7

LEMMA PublishTyped ==
    ASSUME OutboxTyped, NEW xid, NEW records, Publish(xid, records), DOMAIN records \subseteq Members,
           \A m \in DOMAIN records : records[m] \in Record,
           lastXid' \in Nat, lastXid <= lastXid', xid \in 1..lastXid'
    PROVE  OutboxTyped' /\ DOMAIN outbox' = DOMAIN outbox \cup {xid}
<1>1. DOMAIN outbox' = DOMAIN outbox \cup {xid}
  BY DEF Publish
<1>2. \A x \in DOMAIN outbox' : outbox'[x] = IF x = xid THEN records ELSE outbox[x]
  BY DEF Publish
<1>3. DOMAIN outbox' \subseteq 1..lastXid'
  BY <1>1 DEF OutboxTyped
<1>4. \A x \in DOMAIN outbox' : /\ DOMAIN outbox'[x] \subseteq Members
                                /\ \A m \in DOMAIN outbox'[x] : outbox'[x][m] \in Record
  <2> TAKE x \in DOMAIN outbox'
  <2>1. CASE x = xid
    BY <2>1, <1>2
  <2>2. CASE x # xid
    BY <2>2, <1>1, <1>2 DEF OutboxTyped
  <2> QED BY <2>1, <2>2
<1>5. overtaken' \subseteq Members
  <2>1. \A m \in overtaken' : m \in overtaken \/ m \in DOMAIN records
    BY DEF Publish
  <2> QED BY <2>1 DEF OutboxTyped
<1> QED BY <1>1, <1>3, <1>4, <1>5 DEF OutboxTyped

LEMMA CloseDoes ==
    ASSUME XidsApart, NEW kind \in Open, tx' = [tx EXCEPT ![kind] = Absent], lastXid' = lastXid,
           DOMAIN outbox' \subseteq DOMAIN outbox \cup {tx[kind].xid}
    PROVE  XidsApart' /\ tx'[kind] = Absent /\ \A k \in Kinds : k # kind => tx'[k] = tx[k]
<1>1. kind \in Kinds /\ DOMAIN tx = Kinds
  BY DEF Open, XidsApart
<1>2. DOMAIN tx' = Kinds /\ tx'[kind] = Absent /\ \A k \in Kinds : k # kind => tx'[k] = tx[k]
  BY <1>1
<1>3. \A k \in Open' : k \in Open /\ k # kind /\ tx'[k] = tx[k]
  BY <1>2 DEF Open
<1>4. \A k \in Open : tx[k].xid \in 1..lastXid /\ tx[k].xid \notin DOMAIN outbox
  BY DEF XidsApart
<1>5. \A k, l \in Open : tx[k].xid = tx[l].xid => k = l
  BY DEF XidsApart
<1>6. \A k \in Open' : tx'[k].xid \in 1..lastXid' /\ tx'[k].xid \notin DOMAIN outbox'
  <2> TAKE k \in Open'
  <2>1. k \in Open /\ k # kind /\ tx'[k] = tx[k]
    BY <1>3
  <2>2. tx[k].xid # tx[kind].xid
    BY <2>1, <1>5
  <2> QED BY <2>1, <2>2, <1>4
<1>7. \A k, l \in Open' : tx'[k].xid = tx'[l].xid => k = l
  BY <1>3, <1>5
<1> QED BY <1>2, <1>6, <1>7 DEF XidsApart

LEMMA BatchKept ==
    ASSUME BatchTx, tx'["backfill"] = tx["backfill"] \/ tx'["backfill"] = Absent,
           \A m \in Shared : SamePublished(m)
    PROVE  BatchTx' /\ Shared' \subseteq Shared
<1>1. CASE tx'["backfill"] = Absent
  BY <1>1 DEF BatchTx, Shared
<1>2. CASE tx'["backfill"] = tx["backfill"] /\ tx'["backfill"] # Absent
  <2>1. Shared' = Shared /\ Shared \subseteq Here
    BY <1>2 DEF BatchTx, Shared
  <2>2. \A m \in Shared : m \in Members /\ rows'[m] = rows[m] /\ rows[m] # Absent /\ Status(m)' = Status(m)
    BY <2>1 DEF Here, SamePublished
  <2>3. \A m \in Shared : m \in Here' /\ AsPublished(m)' = AsPublished(m)
    BY <2>2 DEF Here, AsPublished
  <2>4. \A m \in Shared' : tx'["backfill"].work[m] = AsPublished(m)'
    BY <1>2, <2>1, <2>3 DEF BatchTx
  <2>5. tx'["backfill"] = [xid |-> tx'["backfill"].xid, work |-> tx'["backfill"].work]
    BY <1>2 DEF BatchTx
  <2>6. Shared' \subseteq Here'
    BY <2>1, <2>3
  <2> QED BY <2>1, <2>4, <2>5, <2>6 DEF BatchTx
<1> QED BY <1>1, <1>2

LEMMA WriteDoes ==
    ASSUME TablesTyped, NEW written, Write(written), \A m \in DOMAIN written : written[m] \in Row \cup {Absent}
    PROVE  /\ rows' \in [Members -> Row \cup {Absent}]
           /\ \A m \in Members : rows'[m] = IF m \in DOMAIN written THEN written[m] ELSE rows[m]
           /\ \A m \in Shared : m \notin DOMAIN written
<1>1. \A m \in Members : rows[m] \in Row \cup {Absent}
  BY DEF TablesTyped
<1> QED BY <1>1 DEF Write

-----------------------------------------------------------------------------
(* One owner                                                                *)

Inv == TypeInv /\ OwnerInv

\* Begins and ends of transactions that change no row.
LEMMA OwnerKept ==
    ASSUME OwnerInv, org' = org, rows' = rows,
           tx'["org"] = tx["org"] \/ tx'["org"] = Absent \/ OrgWork(tx'["org"].work),
           tx'["profile"] = tx["profile"] \/ tx'["profile"] = Absent \/ StillRead(tx'["profile"].work)
    PROVE  OwnerInv'
<1>1. OneOwner'
  BY DEF OwnerInv, OneOwner, Active, Here
<1>2. OrgTx'
  <2>1. tx["org"] # Absent => OrgWork(tx["org"].work)
    BY DEF OwnerInv, OrgTx
  <2> SUFFICES ASSUME tx'["org"] # Absent PROVE OrgWork(tx["org"].work)'
    BY DEF OrgTx
  <2>2. OrgWork(tx'["org"].work)
    BY <2>1
  <2> QED BY <2>2 DEF OrgWork
<1>3. ProfileTx'
  <2>1. tx["profile"] # Absent => StillRead(tx["profile"].work)
    BY DEF OwnerInv, ProfileTx
  <2> SUFFICES ASSUME tx'["profile"] # Absent PROVE StillRead(tx["profile"].work)'
    BY DEF ProfileTx
  <2>2. StillRead(tx'["profile"].work)
    BY <2>1
  <2> QED BY <2>2 DEF StillRead
<1> QED BY <1>1, <1>2, <1>3 DEF OwnerInv

\* The row stays as it is, rises, or goes with the org.
RowKept(m) ==
    \/ rows'[m] = rows[m]
    \/ rows[m] # Absent /\ rows'[m] # Absent /\ rows'[m].version > rows[m].version
    \/ rows'[m] = Absent /\ org'.status = "PURGED"

LEMMA ProfileKept ==
    ASSUME TablesTyped, rows' \in [Members -> Row \cup {Absent}], ProfileTx,
           tx'["profile"] = tx["profile"] \/ tx'["profile"] = Absent,
           org.status = "PURGED" => org'.status = "PURGED",
           tx["profile"] # Absent => \A m \in DOMAIN tx["profile"].work : RowKept(m)
    PROVE  ProfileTx'
<1> SUFFICES ASSUME tx'["profile"] # Absent PROVE StillRead(tx["profile"].work)'
  BY DEF ProfileTx
<1> PICK read : read = tx["profile"].work
  OBVIOUS
<1>1. tx["profile"] # Absent /\ tx'["profile"] = tx["profile"] /\ StillRead(read)
  BY DEF ProfileTx
<1>2. ASSUME NEW m \in DOMAIN read
      PROVE  /\ rows'[m] = Absent => org'.status = "PURGED"
             /\ rows'[m] # Absent => /\ rows'[m].version >= read[m].version
                                     /\ rows'[m].version = read[m].version => rows'[m] = read[m]
  <2>1. m \in Members /\ read[m] \in Row /\ RowKept(m)
    BY <1>1 DEF StillRead, Written
  <2>2. /\ rows[m] = Absent => org.status = "PURGED"
        /\ rows[m] # Absent => /\ rows[m].version >= read[m].version
                               /\ rows[m].version = read[m].version => rows[m] = read[m]
    BY <1>1 DEF StillRead
  <2>3. CASE rows'[m] = rows[m]
    BY <2>2, <2>3
  <2>4. CASE rows[m] # Absent /\ rows'[m] # Absent /\ rows'[m].version > rows[m].version
    <3>1. rows[m] \in Row /\ rows'[m] \in Row
      BY <2>1, <2>4 DEF TablesTyped
    <3>2. rows[m].version \in Nat /\ rows'[m].version \in Nat /\ read[m].version \in Nat
      BY <3>1, <2>1 DEF Row
    <3> QED BY <2>2, <2>4, <3>2
  <2>5. CASE rows'[m] = Absent /\ org'.status = "PURGED"
    BY <2>5
  <2> QED BY <2>1, <2>3, <2>4, <2>5 DEF RowKept
<1>3. StillRead(read)'
  BY <1>1, <1>2 DEF StillRead, Written
<1> QED BY <1>1, <1>3 DEF StillRead

\* What the org's transactions and the sweep have in common.
LEMMA CommitDoes ==
    ASSUME TypeInv, NEW kind \in Open, kind # "backfill", NEW written, DOMAIN written \subseteq Members,
           \A m \in DOMAIN written : written[m] \in Row \cup {Absent},
           WriteAndPublish(tx[kind].xid, written), tx' = [tx EXCEPT ![kind] = Absent], lastXid' = lastXid,
           cursor' = cursor, UNCHANGED stream,
           org' \in [status : {"ACTIVE", "DELETED", "PURGED"}, owner : Members, deletedIn : Nat],
           invites' \in [Members -> (Roles \ {"OWNER"}) \cup {Absent}],
           \A m \in Members \ DOMAIN written : SamePublished(m)
    PROVE  /\ TypeInv' /\ tx'[kind] = Absent /\ \A k \in Kinds : k # kind => tx'[k] = tx[k]
           /\ \A m \in Members : rows'[m] = IF m \in DOMAIN written THEN written[m] ELSE rows[m]
<1> USE DEF TypeInv
<1>1. /\ rows' \in [Members -> Row \cup {Absent}]
      /\ \A m \in Members : rows'[m] = IF m \in DOMAIN written THEN written[m] ELSE rows[m]
      /\ \A m \in Shared : m \notin DOMAIN written
  BY WriteDoes DEF WriteAndPublish
<1>2. PICK records : records = [m \in DOMAIN written |-> IF written[m] = Absent THEN Tombstone ELSE written[m]]
  OBVIOUS
<1>3. DOMAIN records \subseteq Members /\ (\A m \in DOMAIN records : records[m] \in Record)
      /\ Publish(tx[kind].xid, records)
  BY <1>2 DEF Record, WriteAndPublish
<1>4. tx[kind].xid \in 1..lastXid'
  BY DEF XidsApart
<1>5. lastXid' \in Nat /\ lastXid <= lastXid'
  BY DEF OutboxTyped
<1>6. OutboxTyped' /\ DOMAIN outbox' = DOMAIN outbox \cup {tx[kind].xid}
  BY <1>3, <1>4, <1>5, PublishTyped
<1>7. XidsApart' /\ tx'[kind] = Absent /\ \A k \in Kinds : k # kind => tx'[k] = tx[k]
  BY <1>6, CloseDoes
<1>8. TablesTyped'
  BY <1>1 DEF TablesTyped
<1>9. StreamTyped'
  BY DEF stream, StreamTyped
<1>10. BatchTx'
  <2>1. \A m \in Shared : SamePublished(m)
    BY <1>1 DEF BatchTx, Shared, Here
  <2>2. tx'["backfill"] = tx["backfill"]
    BY <1>7 DEF Kinds
  <2> QED BY <2>1, <2>2, BatchKept
<1> QED BY <1>1, <1>6, <1>7, <1>8, <1>9, <1>10

\* The rows of members, and the row of a version later.
LEMMA RowsAre ==
    ASSUME TypeInv
    PROVE  /\ \A m \in Here : m \in Members /\ rows[m] \in Row
           /\ Active \subseteq Here /\ \A m \in Active : rows[m].status = "ACTIVE"
           /\ \A row \in Row : /\ NextVersion(row) \in Row /\ NextVersion(row).version > row.version
                               /\ NextVersion(row).role = row.role /\ NextVersion(row).status = row.status
           /\ \A row \in Row : /\ RemovedRow(row) \in Row /\ RemovedRow(row).version > row.version
                               /\ RemovedRow(row).status = "REMOVED"
<1>1. \A m \in Here : m \in Members /\ rows[m] \in Row
  BY DEF TypeInv, TablesTyped, Here
<1>2. Active \subseteq Here /\ \A m \in Active : rows[m].status = "ACTIVE"
  BY DEF Active
<1>3. ASSUME NEW row \in Row
      PROVE  /\ NextVersion(row) \in Row /\ NextVersion(row).version > row.version
             /\ NextVersion(row).role = row.role /\ NextVersion(row).status = row.status
  BY <1>3 DEF NextVersion, Row
<1>4. ASSUME NEW row \in Row
      PROVE  /\ RemovedRow(row) \in Row /\ RemovedRow(row).version > row.version
             /\ RemovedRow(row).status = "REMOVED"
  <2> PICK next : next = NextVersion(row)
    OBVIOUS
  <2>1. next \in Row /\ next.version > row.version
    BY <1>3, <1>4
  <2>2. RemovedRow(row) = [next EXCEPT !.status = "REMOVED"]
    BY DEF RemovedRow
  <2> QED BY <2>1, <2>2 DEF Row
<1> QED BY <1>1, <1>2, <1>3, <1>4

\* The transactions that only begin.
LEMMA BeginKeeps ==
    ASSUME Inv, NEW kind \in Kinds, NEW work, Begin(kind, work), kind = "backfill" => work = <<>>,
           kind = "org" => OrgWork(work), kind = "profile" => StillRead(work)
    PROVE  Inv'
<1>1. /\ TypeInv' /\ tx'[kind].work = work
      /\ \A k \in Kinds : k # kind => tx'[k] = tx[k]
  BY BeginDoes DEF Inv
<1>2. org' = org /\ rows' = rows
  BY DEF Begin, tables
<1>3. tx'["org"] = tx["org"] \/ tx'["org"] = Absent \/ OrgWork(tx'["org"].work)
  BY <1>1 DEF Kinds
<1>4. tx'["profile"] = tx["profile"] \/ tx'["profile"] = Absent \/ StillRead(tx'["profile"].work)
  BY <1>1 DEF Kinds
<1>5. OwnerInv'
  BY <1>2, <1>3, <1>4, OwnerKept DEF Inv
<1> QED BY <1>1, <1>5 DEF Inv

\* Only the owner has the owner's role.
LEMMA OwnersAre ==
    ASSUME Inv, org.status = "ACTIVE"
    PROVE  org.owner \in Active /\ \A m \in Active : rows[m].role = "OWNER" <=> m = org.owner
BY DEF Inv, OwnerInv, OneOwner

LEMMA ChangeRoleKeeps ==
    ASSUME Inv, NEW actor \in Members, NEW target \in Members, NEW role \in Roles, ChangeRole(actor, target, role)
    PROVE  Inv'
<1> PICK to : to = [m \in {target} |-> [rows[m] EXCEPT !.role = role]]
  OBVIOUS
<1> PICK work : work = [op |-> "change", owner |-> org.owner, to |-> to]
  OBVIOUS
<1>1. org.status = "ACTIVE" /\ target \in Active /\ Begin("org", work) /\ role # "OWNER" /\ rows[target].role # "OWNER"
  BY DEF ChangeRole, Change
<1>2. org.owner \in Active /\ target # org.owner
  BY <1>1, OwnersAre
<1>3. rows[target] \in Row
  BY <1>1, RowsAre DEF Inv
<1>4. Written(to) /\ \A m \in DOMAIN to : to[m].role # "OWNER"
  BY <1>1, <1>3 DEF Written, Row
<1>5. org.owner \in Members
  BY DEF Inv, TypeInv, TablesTyped
<1>6. OrgWork(work)
  BY <1>1, <1>2, <1>4, <1>5 DEF OrgWork
<1> QED BY <1>1, <1>6, BeginKeeps DEF Kinds

LEMMA RemoveKeeps ==
    ASSUME Inv, NEW actor \in Members, NEW target \in Members, Remove(actor, target)
    PROVE  Inv'
<1> PICK to : to = [m \in {target} |-> [rows[m] EXCEPT !.status = "REMOVED"]]
  OBVIOUS
<1> PICK work : work = [op |-> "change", owner |-> org.owner, to |-> to]
  OBVIOUS
<1>1. org.status = "ACTIVE" /\ target \in Active /\ Begin("org", work) /\ rows[target].role # "OWNER"
  BY DEF Remove, Change
<1>2. org.owner \in Active /\ target # org.owner
  BY <1>1, OwnersAre
<1>3. rows[target] \in Row
  BY <1>1, RowsAre DEF Inv
<1>4. Written(to) /\ \A m \in DOMAIN to : to[m].role # "OWNER"
  BY <1>1, <1>3 DEF Written, Row
<1>5. org.owner \in Members
  BY DEF Inv, TypeInv, TablesTyped
<1>6. OrgWork(work)
  BY <1>1, <1>2, <1>4, <1>5 DEF OrgWork
<1> QED BY <1>1, <1>6, BeginKeeps DEF Kinds

LEMMA TransferKeeps ==
    ASSUME Inv, NEW actor \in Members, NEW target \in Members, TransferOwnership(actor, target)
    PROVE  Inv'
<1> PICK to : to = [m \in {actor, target} |->
                      [rows[m] EXCEPT !.role = IF m = target THEN "OWNER" ELSE "ADMIN"]]
  OBVIOUS
<1> PICK work : work = [op |-> "change", owner |-> target, to |-> to]
  OBVIOUS
<1>1. /\ org.status = "ACTIVE" /\ target \in Active /\ actor \in Active /\ Begin("org", work)
      /\ rows[actor].role = "OWNER" /\ rows[target].role # "OWNER"
  BY DEF TransferOwnership, Change
<1>2. actor = org.owner /\ target # org.owner
  BY <1>1, OwnersAre
<1>3. rows[target] \in Row /\ rows[actor] \in Row /\ rows[target].status = "ACTIVE"
  BY <1>1, RowsAre DEF Inv
<1>4. to[target] = [rows[target] EXCEPT !.role = "OWNER"] /\ to[actor] = [rows[actor] EXCEPT !.role = "ADMIN"]
  BY <1>2
<1>5. Written(to)
  <2>1. to[target] \in Row /\ to[actor] \in Row
    BY <1>3, <1>4 DEF Row, Roles
  <2> QED BY <2>1 DEF Written
<1>6. to[target].role = "OWNER" /\ to[target].status = "ACTIVE" /\ to[actor].role # "OWNER"
  BY <1>3, <1>4 DEF Row
<1>7. DOMAIN work.to = {org.owner, work.owner} /\ work.op = "change" /\ work.to = to /\ work.owner = target
  BY <1>2
<1>8. OrgWork(work)
  BY <1>1, <1>2, <1>5, <1>6, <1>7 DEF OrgWork
<1> QED BY <1>1, <1>8, BeginKeeps DEF Kinds

LEMMA BeginsKeep ==
    ASSUME Inv, \/ \E actor \in Members : Delete(actor)
                \/ Purge \/ Sweep \/ OpenBatch
                \/ \E m \in Members : ReadProfile(m)
    PROVE  Inv'
<1>1. ASSUME NEW actor \in Members, Delete(actor) PROVE Inv'
  <2> PICK work : work = [op |-> "delete"]
    OBVIOUS
  <2>1. Begin("org", work) /\ OrgWork(work)
    BY <1>1 DEF Delete, OrgWork
  <2> QED BY <2>1, BeginKeeps DEF Kinds
<1>2. ASSUME Purge PROVE Inv'
  <2> PICK work : work = [op |-> "purge"]
    OBVIOUS
  <2>1. Begin("org", work) /\ OrgWork(work)
    BY <1>2 DEF Purge, OrgWork
  <2> QED BY <2>1, BeginKeeps DEF Kinds
<1>3. ASSUME Sweep PROVE Inv'
  <2>1. Begin("sweep", "rows")
    BY <1>3 DEF Sweep
  <2> QED BY <2>1, BeginKeeps DEF Kinds
<1>4. ASSUME OpenBatch PROVE Inv'
  <2>1. Begin("backfill", <<>>)
    BY <1>4 DEF OpenBatch
  <2> QED BY <2>1, BeginKeeps DEF Kinds
<1>5. ASSUME NEW m \in Members, ReadProfile(m) PROVE Inv'
  <2> PICK work : work = [n \in {m} |-> rows[n]]
    OBVIOUS
  <2>1. Begin("profile", work) /\ rows[m] \in Row
    BY <1>5, RowsAre DEF ReadProfile, Inv
  <2>2. StillRead(work)
    <3>1. rows[m] # Absent /\ rows[m].version >= rows[m].version
      BY <2>1, MembershipAssumption DEF Row
    <3> QED BY <2>1, <3>1 DEF StillRead, Written
  <2> QED BY <2>1, <2>2, BeginKeeps DEF Kinds
<1> QED BY <1>1, <1>2, <1>3, <1>4, <1>5

\* Rows of members are written and published: what the read model's proof needs to know of it.
Commits(xid, written) ==
    /\ DOMAIN written \subseteq Members /\ \A m \in DOMAIN written : written[m] \in Row \cup {Absent}
    /\ WriteAndPublish(xid, written)
    /\ xid \in 1..lastXid' /\ xid \notin DOMAIN outbox
    /\ cursor' = cursor /\ UNCHANGED stream /\ tx'["backfill"] = tx["backfill"]
    /\ \A m \in Members \ DOMAIN written : SamePublished(m)
    /\ \A m \in DOMAIN written : written[m] # Absent =>
         /\ rows[m] # Absent => written[m].version > rows[m].version
         /\ org'.status = "ACTIVE" \/ written[m].status = "REMOVED"

\* What the org's transactions and the sweep have in common.
Ends(kind, written) ==
    /\ DOMAIN written \subseteq Members /\ \A m \in DOMAIN written : written[m] \in Row \cup {Absent}
    /\ WriteAndPublish(tx[kind].xid, written) /\ tx' = [tx EXCEPT ![kind] = Absent]
    /\ lastXid' = lastXid /\ cursor' = cursor /\ UNCHANGED stream
    /\ org' \in [status : {"ACTIVE", "DELETED", "PURGED"}, owner : Members, deletedIn : Nat]
    /\ org.status = "PURGED" => org'.status = "PURGED"
    /\ invites' \in [Members -> (Roles \ {"OWNER"}) \cup {Absent}]
    /\ \A m \in Members \ DOMAIN written :
         rows[m] # Absent => Status(m) = IF org'.status = "ACTIVE" THEN rows[m].status ELSE "REMOVED"
    /\ \A m \in DOMAIN written :
         /\ written[m] # Absent => /\ rows[m] # Absent => written[m].version > rows[m].version
                                   /\ org'.status = "ACTIVE" \/ written[m].status = "REMOVED"
         /\ \/ rows[m] # Absent /\ written[m] # Absent
            \/ written[m] = Absent /\ org'.status = "PURGED"
            \/ tx["profile"] # Absent => m \notin DOMAIN tx["profile"].work

LEMMA EndDoes ==
    ASSUME Inv, NEW kind \in Open, kind \in {"org", "sweep"}, NEW written, Ends(kind, written)
    PROVE  /\ TypeInv' /\ ProfileTx' /\ Commits(tx[kind].xid, written)
           /\ tx'[kind] = Absent /\ \A k \in Kinds : k # kind => tx'[k] = tx[k]
           /\ \A m \in Members : rows'[m] = IF m \in DOMAIN written THEN written[m] ELSE rows[m]
<1>1. /\ rows' \in [Members -> Row \cup {Absent}]
      /\ \A m \in Members : rows'[m] = IF m \in DOMAIN written THEN written[m] ELSE rows[m]
      /\ \A m \in Shared : m \notin DOMAIN written
  BY WriteDoes DEF Ends, WriteAndPublish, Inv, TypeInv
<1>2. \A m \in Members \ DOMAIN written : SamePublished(m)
  BY <1>1 DEF Ends, SamePublished, Status
<1>3. /\ TypeInv' /\ tx'[kind] = Absent /\ \A k \in Kinds : k # kind => tx'[k] = tx[k]
  <2>1. TypeInv /\ kind # "backfill"
    BY DEF Inv
  <2> QED BY <1>2, <2>1, CommitDoes DEF Ends
<1>4. tx[kind].xid \in 1..lastXid' /\ tx[kind].xid \notin DOMAIN outbox
  BY DEF Ends, Inv, TypeInv, XidsApart
<1>5. tx'["backfill"] = tx["backfill"] /\ tx'["profile"] = tx["profile"]
  BY <1>3 DEF Kinds
<1>6. Commits(tx[kind].xid, written)
  BY <1>2, <1>4, <1>5 DEF Ends, Commits
<1>7. ASSUME tx["profile"] # Absent, NEW m \in DOMAIN tx["profile"].work PROVE RowKept(m)
  <2>1. m \in Members
    BY <1>7 DEF Inv, OwnerInv, ProfileTx, StillRead, Written
  <2>2. CASE m \notin DOMAIN written
    BY <2>1, <2>2, <1>1 DEF RowKept
  <2>3. CASE m \in DOMAIN written
    BY <2>1, <2>3, <1>1, <1>7 DEF RowKept, Ends
  <2> QED BY <2>2, <2>3
<1>8. ProfileTx'
  BY <1>1, <1>5, <1>7, ProfileKept DEF Ends, Inv, TypeInv, OwnerInv
<1> QED BY <1>1, <1>3, <1>6, <1>8

LEMMA CommitChangeKeeps ==
    ASSUME Inv, CommitChange
    PROVE  Inv' /\ \E xid, written : Commits(xid, written)
<1> PICK work : work = tx["org"].work
  OBVIOUS
<1> PICK written : written = [m \in DOMAIN work.to |-> NextVersion(work.to[m])]
  OBVIOUS
<1>1. /\ tx["org"] # Absent /\ work.op = "change" /\ AsRead(work.to) /\ WriteAndPublish(tx["org"].xid, written)
      /\ org' = [org EXCEPT !.owner = work.owner] /\ tx' = [tx EXCEPT !["org"] = Absent]
      /\ lastXid' = lastXid /\ cursor' = cursor /\ invites' = invites /\ UNCHANGED stream
  BY DEF CommitChange
<1>2. OrgWork(work)
  BY <1>1 DEF Inv, OwnerInv, OrgTx
<1>3. /\ org.status = "ACTIVE" /\ Written(work.to) /\ work.owner \in Members
      /\ \/ /\ work.owner = org.owner /\ org.owner \notin DOMAIN work.to
            /\ \A m \in DOMAIN work.to : work.to[m].role # "OWNER"
         \/ /\ DOMAIN work.to = {org.owner, work.owner} /\ org.owner # work.owner
            /\ work.to[work.owner].role = "OWNER" /\ work.to[work.owner].status = "ACTIVE"
            /\ work.to[org.owner].role # "OWNER"
  BY <1>1, <1>2 DEF OrgWork
<1>4. DOMAIN written = DOMAIN work.to /\ DOMAIN written \subseteq Members
  BY <1>3 DEF Written
<1>5. \A m \in DOMAIN written : /\ written[m] \in Row /\ written[m].version > work.to[m].version
                                /\ written[m].role = work.to[m].role /\ written[m].status = work.to[m].status
  <2>1. \A m \in DOMAIN written : work.to[m] \in Row /\ written[m] = NextVersion(work.to[m])
    BY <1>3, <1>4 DEF Written
  <2> QED BY <2>1, RowsAre DEF Inv
<1>6. \A m \in DOMAIN written : rows[m] # Absent /\ written[m] # Absent /\ written[m].version > rows[m].version
  BY <1>1, <1>4, <1>5, MembershipAssumption DEF AsRead
<1>7. /\ org' \in [status : {"ACTIVE", "DELETED", "PURGED"}, owner : Members, deletedIn : Nat]
      /\ invites' \in [Members -> (Roles \ {"OWNER"}) \cup {Absent}]
      /\ org'.status = org.status /\ org'.owner = work.owner
  BY <1>1, <1>3 DEF Inv, TypeInv, TablesTyped
<1>8. /\ TypeInv' /\ ProfileTx' /\ Commits(tx["org"].xid, written)
      /\ tx'["org"] = Absent /\ \A k \in Kinds : k # "org" => tx'[k] = tx[k]
      /\ \A m \in Members : rows'[m] = IF m \in DOMAIN written THEN written[m] ELSE rows[m]
  <2>1. "org" \in Open
    BY <1>1 DEF Open, Kinds
  <2>2. \A m \in Members \ DOMAIN written : rows[m] # Absent => Status(m) = IF org'.status = "ACTIVE" THEN rows[m].status ELSE "REMOVED"
    BY <1>7 DEF Status
  <2>3. \A m \in DOMAIN written :
              /\ written[m] # Absent => /\ rows[m] # Absent => written[m].version > rows[m].version
                                        /\ org'.status = "ACTIVE" \/ written[m].status = "REMOVED"
              /\ \/ rows[m] # Absent /\ written[m] # Absent
                 \/ written[m] = Absent /\ org'.status = "PURGED"
                 \/ tx["profile"] # Absent => m \notin DOMAIN tx["profile"].work
    BY <1>3, <1>6, <1>7
  <2>4. Ends("org", written)
    BY <2>2, <2>3, <1>1, <1>3, <1>4, <1>5, <1>7 DEF Ends
  <2> QED BY <2>1, <2>4, EndDoes
<1>9. OneOwner'
  <2>1. org.owner \in Active /\ \A m \in Active : rows[m].role = "OWNER" <=> m = org.owner
    BY <1>3, OwnersAre
  <2>2. ASSUME NEW m \in Members, m \notin DOMAIN written
        PROVE  m \in Active' /\ rows'[m].role = "OWNER" <=> m = org.owner
    <3>1. rows'[m] = rows[m]
      BY <1>8, <2>2
    <3> QED BY <3>1, <2>1, <2>2 DEF Active, Here
  <2>3. ASSUME NEW m \in DOMAIN written
        PROVE  /\ m \in Active' <=> work.to[m].status = "ACTIVE"
               /\ rows'[m].role = work.to[m].role
    <3>1. m \in Members /\ rows'[m] = written[m] /\ written[m] # Absent
      BY <1>4, <1>6, <1>8
    <3> QED BY <3>1, <1>5 DEF Active, Here
  <2>4. ASSUME NEW m \in Members PROVE m \in Active' /\ rows'[m].role = "OWNER" <=> m = work.owner
    BY <1>3, <1>4, <2>2, <2>3
  <2>5. Active' \subseteq Members
    BY DEF Active, Here
  <2>6. {m \in Active' : rows'[m].role = "OWNER"} = {work.owner}
    BY <1>3, <2>4, <2>5
  <2> QED BY <1>7, <2>6 DEF OneOwner
<1>10. OrgTx'
  BY <1>8 DEF OrgTx
<1> QED BY <1>8, <1>9, <1>10 DEF Inv, OwnerInv

LEMMA CommitDeleteKeeps ==
    ASSUME Inv, CommitDelete
    PROVE  Inv' /\ \E xid, written : Commits(xid, written)
<1> PICK written : written = [m \in Active |-> RemovedRow(rows[m])]
  OBVIOUS
<1>1. /\ tx["org"] # Absent /\ tx["org"].work.op = "delete" /\ WriteAndPublish(tx["org"].xid, written)
      /\ org' = [org EXCEPT !.status = "DELETED", !.deletedIn = tx["org"].xid] /\ tx' = [tx EXCEPT !["org"] = Absent]
      /\ lastXid' = lastXid /\ cursor' = cursor /\ invites' = [m \in Members |-> Absent] /\ UNCHANGED stream
  BY DEF CommitDelete
<1>2. org.status = "ACTIVE"
  BY <1>1 DEF Inv, OwnerInv, OrgTx, OrgWork
<1>3. DOMAIN written = Active /\ DOMAIN written \subseteq Members
  BY DEF Active, Here
<1>4. \A m \in DOMAIN written : /\ rows[m] # Absent /\ written[m] \in Row /\ written[m] # Absent
                                /\ written[m].version > rows[m].version /\ written[m].status = "REMOVED"
  BY RowsAre, MembershipAssumption DEF Inv, Here
<1>5. "org" \in Open
  BY <1>1 DEF Open, Kinds
<1>6. tx["org"].xid \in Nat
  BY <1>5 DEF Inv, TypeInv, XidsApart, OutboxTyped
<1>7. /\ org' \in [status : {"ACTIVE", "DELETED", "PURGED"}, owner : Members, deletedIn : Nat]
      /\ org'.status = "DELETED"
  BY <1>1, <1>6 DEF Inv, TypeInv, TablesTyped
<1>8. \A m \in Members \ DOMAIN written : rows[m] # Absent => Status(m) = IF org'.status = "ACTIVE" THEN rows[m].status ELSE "REMOVED"
  <2> TAKE m \in Members \ DOMAIN written
  <2>1. rows[m] # Absent => rows[m] \in Row /\ rows[m].status # "ACTIVE"
    BY <1>3, RowsAre DEF Active, Here, Inv
  <2> QED BY <2>1, <1>2, <1>7 DEF Row, Status
<1>9. /\ TypeInv' /\ ProfileTx' /\ Commits(tx["org"].xid, written) /\ tx'["org"] = Absent
  <2>1. Ends("org", written)
    <3>1. invites' \in [Members -> (Roles \ {"OWNER"}) \cup {Absent}]
      BY <1>1
    <3> QED BY <3>1, <1>1, <1>2, <1>3, <1>4, <1>7, <1>8 DEF Ends
  <2> QED BY <2>1, <1>5, EndDoes
<1>10. OneOwner' /\ OrgTx'
  BY <1>7, <1>9 DEF OneOwner, OrgTx
<1> QED BY <1>9, <1>10 DEF Inv, OwnerInv

LEMMA CommitPurgeKeeps ==
    ASSUME Inv, CommitPurge
    PROVE  Inv' /\ \E xid, written : Commits(xid, written)
<1> PICK written : written = [m \in Here |-> Absent]
  OBVIOUS
<1>1. /\ tx["org"] # Absent /\ tx["org"].work.op = "purge" /\ WriteAndPublish(tx["org"].xid, written)
      /\ org' = [org EXCEPT !.status = "PURGED"] /\ tx' = [tx EXCEPT !["org"] = Absent]
      /\ lastXid' = lastXid /\ cursor' = cursor /\ invites' = [m \in Members |-> Absent] /\ UNCHANGED stream
  BY DEF CommitPurge
<1>2. DOMAIN written = Here /\ DOMAIN written \subseteq Members /\ \A m \in DOMAIN written : written[m] = Absent
  BY DEF Here
<1>3. "org" \in Open
  BY <1>1 DEF Open, Kinds
<1>4. /\ org' \in [status : {"ACTIVE", "DELETED", "PURGED"}, owner : Members, deletedIn : Nat]
      /\ org'.status = "PURGED"
  BY <1>1 DEF Inv, TypeInv, TablesTyped
<1>5. \A m \in Members \ DOMAIN written : rows[m] = Absent
  BY <1>2 DEF Here
<1>6. /\ TypeInv' /\ ProfileTx' /\ Commits(tx["org"].xid, written) /\ tx'["org"] = Absent
  <2>1. Ends("org", written)
    <3>1. invites' \in [Members -> (Roles \ {"OWNER"}) \cup {Absent}]
      BY <1>1
    <3> QED BY <3>1, <1>1, <1>2, <1>4, <1>5 DEF Ends
  <2> QED BY <2>1, <1>3, EndDoes
<1>7. OneOwner' /\ OrgTx'
  BY <1>4, <1>6 DEF OneOwner, OrgTx
<1> QED BY <1>6, <1>7 DEF Inv, OwnerInv

LEMMA CommitSweepKeeps ==
    ASSUME Inv, NEW old \in SUBSET LongRemoved, CommitSweep(old)
    PROVE  Inv' /\ \E xid, written : Commits(xid, written)
<1> PICK written : written = [m \in old |-> Absent]
  OBVIOUS
<1>1. /\ tx["sweep"] # Absent /\ WriteAndPublish(tx["sweep"].xid, written) /\ tx' = [tx EXCEPT !["sweep"] = Absent]
      /\ lastXid' = lastXid /\ cursor' = cursor /\ invites' = invites /\ org' = org /\ UNCHANGED stream
  BY DEF CommitSweep
<1>2. /\ DOMAIN written = old /\ DOMAIN written \subseteq Members
      /\ \A m \in DOMAIN written : written[m] = Absent /\ m \notin Active
  BY DEF LongRemoved, Removed, Here
<1>3. "sweep" \in Open
  BY <1>1 DEF Open, Kinds
<1>4. tx["profile"] # Absent => \A m \in DOMAIN written : m \notin DOMAIN tx["profile"].work
  BY <1>2 DEF LongRemoved
<1>5. /\ org' \in [status : {"ACTIVE", "DELETED", "PURGED"}, owner : Members, deletedIn : Nat]
      /\ invites' \in [Members -> (Roles \ {"OWNER"}) \cup {Absent}]
  BY <1>1 DEF Inv, TypeInv, TablesTyped
<1>6. \A m \in Members : Status(m) = IF org'.status = "ACTIVE" THEN rows[m].status ELSE "REMOVED"
  BY <1>1 DEF Status
<1>7. /\ TypeInv' /\ ProfileTx' /\ Commits(tx["sweep"].xid, written)
      /\ \A k \in Kinds : k # "sweep" => tx'[k] = tx[k]
      /\ \A m \in Members : rows'[m] = IF m \in DOMAIN written THEN written[m] ELSE rows[m]
  <2>1. Ends("sweep", written)
    BY <1>1, <1>2, <1>4, <1>5, <1>6 DEF Ends
  <2> QED BY <2>1, <1>3, EndDoes
<1>8. OneOwner'
  <2>1. \A m \in Members : m \in Active' <=> m \in Active
    BY <1>2, <1>7 DEF Active, Here
  <2>2. \A m \in Active : rows'[m] = rows[m]
    BY <1>2, <1>7 DEF Active, Here
  <2>3. Active' = Active
    BY <2>1 DEF Active, Here
  <2> QED BY <1>1, <2>2, <2>3 DEF OneOwner, Inv, OwnerInv
<1>9. OrgTx'
  <2>1. tx'["org"] = tx["org"]
    BY <1>7 DEF Kinds
  <2> QED BY <2>1, <1>1 DEF OrgTx, OrgWork, Inv, OwnerInv
<1> QED BY <1>7, <1>8, <1>9 DEF Inv, OwnerInv

LEMMA AcceptKeeps ==
    ASSUME Inv, NEW m \in Members, Accept(m)
    PROVE  Inv' /\ \E xid, written : Commits(xid, written)
<1> PICK row : row = [role |-> invites[m], status |-> "ACTIVE", version |-> 0]
  OBVIOUS
<1> PICK written : written = [n \in {m} |-> row]
  OBVIOUS
<1> PICK xid : xid = lastXid'
  OBVIOUS
<1>1. /\ org.status = "ACTIVE" /\ tx["org"] = Absent /\ invites[m] # Absent /\ rows[m] = Absent
      /\ xid = lastXid + 1 /\ WriteAndPublish(xid, written) /\ invites' = [invites EXCEPT ![m] = Absent]
      /\ org' = org /\ cursor' = cursor /\ tx' = tx /\ UNCHANGED stream
  BY DEF Accept, OrgFree, WriteAndPublish, Write, Publish, Younger
<1>2. /\ row \in Row /\ row.role # "OWNER" /\ row # Absent
      /\ DOMAIN written = {m} /\ \A n \in DOMAIN written : written[n] = row
  <2>1. invites[m] \in Roles \ {"OWNER"}
    BY <1>1 DEF Inv, TypeInv, TablesTyped
  <2> QED BY <2>1, MembershipAssumption DEF Row
<1>3. /\ rows' \in [Members -> Row \cup {Absent}]
      /\ \A n \in Members : rows'[n] = IF n \in DOMAIN written THEN written[n] ELSE rows[n]
  BY <1>1, <1>2, WriteDoes DEF WriteAndPublish, Inv, TypeInv
<1>4. \A n \in Members : n # m => rows'[n] = rows[n]
  BY <1>2, <1>3
<1>5. rows'[m] = row
  BY <1>2, <1>3
<1>6. \A n \in Members \ DOMAIN written : SamePublished(n)
  BY <1>1, <1>2, <1>4 DEF SamePublished, Status
<1>7. xid \in 1..lastXid' /\ xid \notin DOMAIN outbox /\ lastXid' \in Nat /\ lastXid <= lastXid' /\ lastXid \in Nat
  BY <1>1 DEF Inv, TypeInv, OutboxTyped
<1>8. Commits(xid, written)
  BY <1>1, <1>2, <1>6, <1>7 DEF Commits
<1>9. OutboxTyped' /\ DOMAIN outbox' = DOMAIN outbox \cup {xid}
  <2> PICK records : records = [n \in DOMAIN written |-> IF written[n] = Absent THEN Tombstone ELSE written[n]]
    OBVIOUS
  <2>1. DOMAIN records \subseteq Members /\ (\A n \in DOMAIN records : records[n] \in Record) /\ Publish(xid, records)
    BY <1>1, <1>2 DEF WriteAndPublish, Record
  <2> QED BY <1>7, <2>1, PublishTyped DEF Inv, TypeInv
<1>10. XidsApart'
  <2>1. Open' = Open
    BY <1>1 DEF Open
  <2>2. \A k \in Open : tx[k].xid \in 1..lastXid /\ tx[k].xid \notin DOMAIN outbox
    BY DEF Inv, TypeInv, XidsApart
  <2>3. \A k \in Open : tx[k].xid \in 1..lastXid' /\ tx[k].xid \notin DOMAIN outbox'
    BY <1>1, <1>7, <1>9, <2>2
  <2> QED BY <1>1, <2>1, <2>3 DEF Inv, TypeInv, XidsApart
<1>11. TablesTyped'
  <2>1. invites' \in [Members -> (Roles \ {"OWNER"}) \cup {Absent}]
    BY <1>1 DEF Inv, TypeInv, TablesTyped
  <2> QED BY <1>1, <1>3, <2>1 DEF Inv, TypeInv, TablesTyped
<1>12. StreamTyped'
  BY <1>1 DEF Inv, TypeInv, StreamTyped, stream
<1>13. BatchTx'
  <2>1. \A n \in Shared : SamePublished(n)
    BY <1>1, <1>2, <1>6 DEF Inv, TypeInv, BatchTx, Shared, Here
  <2> QED BY <1>1, <2>1, BatchKept DEF Inv, TypeInv
<1>14. OneOwner'
  <2>1. org.owner \in Active /\ \A n \in Active : rows[n].role = "OWNER" <=> n = org.owner
    BY <1>1, OwnersAre
  <2>2. \A n \in Members : n # m => (n \in Active' <=> n \in Active)
    BY <1>4 DEF Active, Here
  <2>3. m \notin Active
    BY <1>1 DEF Active, Here
  <2>4. \A n \in Members : n \in Active' /\ rows'[n].role = "OWNER" <=> n = org.owner
    <3> TAKE n \in Members
    <3>1. CASE n = m
      BY <3>1, <1>2, <1>5, <2>1, <2>3
    <3>2. CASE n # m
      BY <3>2, <1>4, <2>1, <2>2
    <3> QED BY <3>1, <3>2
  <2>5. Active' \subseteq Members /\ org.owner \in Members
    BY <2>1 DEF Active, Here
  <2>6. {n \in Active' : rows'[n].role = "OWNER"} = {org.owner}
    BY <2>4, <2>5
  <2> QED BY <1>1, <2>6 DEF OneOwner
<1>15. OrgTx'
  BY <1>1 DEF OrgTx
<1>16. ProfileTx'
  <2>1. ASSUME tx["profile"] # Absent, NEW n \in DOMAIN tx["profile"].work PROVE RowKept(n)
    <3>1. n \in Members /\ rows[n] # Absent
      BY <1>1, <2>1 DEF Inv, OwnerInv, ProfileTx, StillRead, Written
    <3> QED BY <3>1, <1>1, <1>4 DEF RowKept
  <2> QED BY <1>1, <1>3, <2>1, ProfileKept DEF Inv, TypeInv, OwnerInv
<1> QED BY <1>8, <1>9, <1>10, <1>11, <1>12, <1>13, <1>14, <1>15, <1>16 DEF Inv, TypeInv, OwnerInv

\* A profile update: the row of one version later, without a record.
Raises(m) ==
    \/ rows'[m] = rows[m]
    \/ rows[m] \in Row /\ rows'[m] = NextVersion(rows[m])

LEMMA CommitProfileKeeps ==
    ASSUME Inv, CommitProfile
    PROVE  Inv' /\ \A m \in Members : Raises(m)
<1> PICK read : read = tx["profile"].work
  OBVIOUS
<1> PICK written : written = [m \in DOMAIN read |-> NextVersion(read[m])]
  OBVIOUS
<1>1. /\ tx["profile"] # Absent /\ AsRead(read) /\ Write(written) /\ tx' = [tx EXCEPT !["profile"] = Absent]
      /\ UNCHANGED <<org, invites, cursor, lastXid, outbox, stream, overtaken>>
  BY DEF CommitProfile
<1>2. DOMAIN written = DOMAIN read /\ StillRead(read)
  BY <1>1 DEF Inv, OwnerInv, ProfileTx
<1>3. \A m \in DOMAIN read : /\ m \in Members /\ rows[m] = read[m] /\ rows[m] \in Row
                             /\ rows[m] # Absent /\ written[m] = NextVersion(rows[m])
  BY <1>1, <1>2 DEF AsRead, StillRead, Written
<1>4. \A m \in DOMAIN read : /\ written[m] \in Row /\ written[m].version > rows[m].version /\ written[m] # Absent
                             /\ written[m].role = rows[m].role /\ written[m].status = rows[m].status
  BY <1>3, RowsAre, MembershipAssumption DEF Inv
<1>5. /\ rows' \in [Members -> Row \cup {Absent}]
      /\ \A m \in Members : rows'[m] = IF m \in DOMAIN written THEN written[m] ELSE rows[m]
      /\ \A m \in Shared : m \notin DOMAIN written
  BY <1>1, <1>2, <1>4, WriteDoes DEF Inv, TypeInv
<1>6. \A m \in Members : Raises(m)
  BY <1>2, <1>3, <1>5 DEF Raises
<1>7. /\ XidsApart' /\ tx'["profile"] = Absent
      /\ \A k \in Kinds : k # "profile" => tx'[k] = tx[k]
  <2>1. "profile" \in Open
    BY <1>1 DEF Open, Kinds
  <2>2. XidsApart
    BY DEF Inv, TypeInv
  <2> QED BY <1>1, <2>1, <2>2, CloseDoes
<1>8. TablesTyped' /\ OutboxTyped' /\ StreamTyped'
  BY <1>1, <1>5 DEF Inv, TypeInv, TablesTyped, OutboxTyped, StreamTyped, stream
<1>9. BatchTx'
  <2>1. \A n \in Shared : n \in Members
    BY DEF Inv, TypeInv, BatchTx, Shared, Here
  <2>2. \A n \in Shared : SamePublished(n)
    BY <2>1, <1>1, <1>5 DEF SamePublished, Status
  <2>3. tx'["backfill"] = tx["backfill"]
    BY <1>7 DEF Kinds
  <2> QED BY <2>2, <2>3, BatchKept DEF Inv, TypeInv
<1>10. OneOwner'
  <2>1. \A n \in Members : /\ n \in Active' <=> n \in Active
                           /\ n \in Active => rows'[n].role = rows[n].role
    <3> TAKE n \in Members
    <3>1. CASE n \in DOMAIN read
      <4>1. rows'[n] = written[n]
        BY <3>1, <1>2, <1>5
      <4> QED BY <4>1, <3>1, <1>3, <1>4 DEF Active, Here
    <3>2. CASE n \notin DOMAIN read
      BY <3>2, <1>2, <1>5 DEF Active, Here
    <3> QED BY <3>1, <3>2
  <2>2. Active' \subseteq Members /\ Active \subseteq Members
    BY DEF Active, Here
  <2>3. {n \in Active' : rows'[n].role = "OWNER"} = {n \in Active : rows[n].role = "OWNER"}
    BY <2>1, <2>2
  <2> QED BY <1>1, <2>3 DEF OneOwner, Inv, OwnerInv
<1>11. OrgTx'
  <2>1. tx'["org"] = tx["org"]
    BY <1>7 DEF Kinds
  <2> QED BY <2>1, <1>1 DEF OrgTx, OrgWork, Inv, OwnerInv
<1>12. ProfileTx'
  BY <1>7 DEF ProfileTx
<1> QED BY <1>6, <1>7, <1>8, <1>9, <1>10, <1>11, <1>12 DEF Inv, TypeInv, OwnerInv

\* The steps that write no row.
LEMMA RollbackKeeps ==
    ASSUME Inv, NEW kind \in Kinds, Rollback(kind)
    PROVE  Inv' /\ tx'[kind] = Absent /\ \A k \in Kinds : k # kind => tx'[k] = tx[k]
<1>1. /\ tx[kind] # Absent /\ tx' = [tx EXCEPT ![kind] = Absent]
      /\ UNCHANGED <<org, rows, invites, cursor, lastXid, outbox, topic, reader, overtaken>>
  BY DEF Rollback, tables, stream
<1>2. XidsApart' /\ tx'[kind] = Absent /\ \A k \in Kinds : k # kind => tx'[k] = tx[k]
  <2>1. kind \in Open
    BY <1>1 DEF Open
  <2>2. XidsApart
    BY DEF Inv, TypeInv
  <2> QED BY <1>1, <2>1, <2>2, CloseDoes
<1>3. TablesTyped' /\ OutboxTyped' /\ StreamTyped'
  BY <1>1 DEF Inv, TypeInv, TablesTyped, OutboxTyped, StreamTyped
<1>4. BatchTx'
  <2>1. \A m \in Shared : SamePublished(m)
    BY <1>1 DEF SamePublished, Status
  <2>2. tx'["backfill"] = tx["backfill"] \/ tx'["backfill"] = Absent
    BY <1>2 DEF Kinds
  <2> QED BY <2>1, <2>2, BatchKept DEF Inv, TypeInv
<1>5. OwnerInv'
  <2>1. /\ tx'["org"] = tx["org"] \/ tx'["org"] = Absent
        /\ tx'["profile"] = tx["profile"] \/ tx'["profile"] = Absent
    BY <1>2 DEF Kinds
  <2> QED BY <1>1, <2>1, OwnerKept DEF Inv
<1> QED BY <1>2, <1>3, <1>4, <1>5 DEF Inv, TypeInv

\* An invite, its end, and another run of the backfill.
LEMMA TableStepKeeps ==
    ASSUME Inv, UNCHANGED <<org, rows, tx, lastXid, outbox, stream, overtaken>>, TablesTyped'
    PROVE  Inv'
<1>1. OutboxTyped' /\ StreamTyped' /\ XidsApart'
  BY DEF Inv, TypeInv, OutboxTyped, StreamTyped, XidsApart, Open, stream
<1>2. BatchTx'
  <2>1. \A m \in Shared : SamePublished(m)
    BY DEF SamePublished, Status
  <2> QED BY <2>1, BatchKept DEF Inv, TypeInv
<1>3. OwnerInv'
  BY OwnerKept DEF Inv
<1> QED BY <1>1, <1>2, <1>3 DEF Inv, TypeInv

LEMMA InvitesKeep ==
    ASSUME Inv, NEW m \in Members, (\E role \in Roles : Invite(m, role)) \/ EndInvite(m)
    PROVE  Inv'
<1>1. UNCHANGED <<org, rows, cursor, tx, lastXid, outbox, stream, overtaken>>
  BY DEF Invite, EndInvite
<1>2. invites' \in [Members -> (Roles \ {"OWNER"}) \cup {Absent}]
  <2>1. invites \in [Members -> (Roles \ {"OWNER"}) \cup {Absent}]
    BY DEF Inv, TypeInv, TablesTyped
  <2>2. \E to \in (Roles \ {"OWNER"}) \cup {Absent} : invites' = [invites EXCEPT ![m] = to]
    <3>1. ASSUME NEW role \in Roles, Invite(m, role) PROVE role # "OWNER"
      BY <3>1 DEF Invite, MayInvite
    <3> QED BY <3>1 DEF Invite, EndInvite
  <2> QED BY <2>1, <2>2
<1>3. TablesTyped'
  BY <1>1, <1>2 DEF Inv, TypeInv, TablesTyped
<1> QED BY <1>1, <1>3, TableStepKeeps

LEMMA RunAgainKeeps ==
    ASSUME Inv, RunAgain
    PROVE  Inv'
<1>1. UNCHANGED <<org, rows, invites, tx, lastXid, outbox, stream, overtaken>> /\ cursor' = 0
  BY DEF RunAgain
<1>2. TablesTyped'
  BY <1>1 DEF Inv, TypeInv, TablesTyped
<1> QED BY <1>1, <1>2, TableStepKeeps

\* What a batch holds and what it will publish.
LEMMA BatchHolds ==
    ASSUME TypeInv, tx["backfill"] # Absent
    PROVE  /\ Shared = DOMAIN tx["backfill"].work /\ Shared \subseteq Here /\ Shared \subseteq Members
           /\ \A m \in Shared : tx["backfill"].work[m] = AsPublished(m) /\ AsPublished(m) \in Row
<1>1. Shared = DOMAIN tx["backfill"].work /\ Shared \subseteq Here
  BY DEF TypeInv, BatchTx, Shared
<1>2. ASSUME NEW m \in Shared PROVE tx["backfill"].work[m] = AsPublished(m) /\ AsPublished(m) \in Row
  <2>1. tx["backfill"].work[m] = AsPublished(m)
    BY <1>2 DEF TypeInv, BatchTx
  <2>2. rows[m] \in Row
    BY <1>1, <1>2, RowsAre
  <2>3. Status(m) \in {"ACTIVE", "REMOVED"}
    BY <2>2 DEF Status, Row
  <2> QED BY <2>1, <2>2, <2>3 DEF AsPublished, Row
<1> QED BY <1>1, <1>2 DEF Here

LEMMA ReadBatchKeeps ==
    ASSUME Inv, ReadBatch
    PROVE  Inv' /\ Shared' \in {{}, Page}
<1> PICK work : work = [m \in Page |->
                  IF org.status = "ACTIVE" THEN rows[m] ELSE [rows[m] EXCEPT !.status = "REMOVED"]]
  OBVIOUS
<1>1. /\ tx["backfill"] # Absent /\ tx' = [tx EXCEPT !["backfill"].work = work]
      /\ UNCHANGED <<org, rows, invites, cursor, lastXid, outbox, topic, reader, overtaken>>
  BY DEF ReadBatch, tables, stream
<1>2. DOMAIN tx = Kinds /\ tx["backfill"] = [xid |-> tx["backfill"].xid, work |-> tx["backfill"].work]
  BY <1>1 DEF Inv, TypeInv, XidsApart, BatchTx
<1>3. /\ DOMAIN tx' = Kinds /\ tx'["backfill"] = [xid |-> tx["backfill"].xid, work |-> work]
      /\ \A k \in Kinds : k # "backfill" => tx'[k] = tx[k]
  <2>1. tx'["backfill"] = [tx["backfill"] EXCEPT !.work = work]
    BY <1>1, <1>2 DEF Kinds
  <2>2. tx'["backfill"] = [xid |-> tx["backfill"].xid, work |-> work]
    BY <1>2, <2>1
  <2>3. DOMAIN tx' = Kinds /\ \A k \in Kinds : k # "backfill" => tx'[k] = tx[k]
    BY <1>1, <1>2
  <2> QED BY <2>2, <2>3
<1>4. tx'["backfill"].xid = tx["backfill"].xid /\ tx'["backfill"].work = work /\ DOMAIN work = Page
  BY <1>3
<1>5. XidsApart'
  <2>1. \A k \in Kinds : tx'[k].xid = tx[k].xid
    BY <1>3, <1>4
  <2>2. "backfill" \in Open
    BY <1>1 DEF Open, Kinds
  <2>3. \A k \in Open' : k \in Open /\ k \in Kinds
    BY <1>3, <2>2 DEF Open
  <2>4. \A k \in Open' : tx'[k].xid \in 1..lastXid' /\ tx'[k].xid \notin DOMAIN outbox'
    BY <1>1, <2>1, <2>3 DEF Inv, TypeInv, XidsApart
  <2>5. \A k, l \in Open' : tx'[k].xid = tx'[l].xid => k = l
    BY <2>1, <2>3 DEF Inv, TypeInv, XidsApart
  <2> QED BY <1>3, <2>4, <2>5 DEF XidsApart
<1>6. TablesTyped' /\ OutboxTyped' /\ StreamTyped'
  BY <1>1 DEF Inv, TypeInv, TablesTyped, OutboxTyped, StreamTyped
<1>7. ASSUME NEW m \in Page PROVE m \in Here /\ work[m] = AsPublished(m)
  <2>1. m \in Here
    BY <1>7 DEF Page, Unread
  <2>2. rows[m] \in Row
    BY <2>1, RowsAre DEF Inv
  <2>3. work[m] = IF org.status = "ACTIVE" THEN rows[m] ELSE [rows[m] EXCEPT !.status = "REMOVED"]
    BY <1>7
  <2>4. rows[m] = [rows[m] EXCEPT !.status = rows[m].status]
    BY <2>2 DEF Row
  <2> QED BY <2>1, <2>3, <2>4 DEF AsPublished, Status
<1>8. (tx'["backfill"] # Absent => Shared' = Page) /\ Shared' \in {{}, Page}
  BY <1>4 DEF Shared
<1>9. BatchTx'
  <2> SUFFICES ASSUME tx'["backfill"] # Absent
               PROVE  /\ tx'["backfill"] = [xid |-> tx'["backfill"].xid, work |-> tx'["backfill"].work]
                      /\ Shared' \subseteq Here'
                      /\ \A m \in Shared' : tx'["backfill"].work[m] = AsPublished(m)'
    BY DEF BatchTx
  <2>1. tx'["backfill"] = [xid |-> tx'["backfill"].xid, work |-> tx'["backfill"].work]
    BY <1>3, <1>4
  <2>2. \A m \in Page : AsPublished(m)' = AsPublished(m) /\ m \in Here'
    BY <1>1, <1>7 DEF AsPublished, Status, Here
  <2> QED BY <1>4, <1>7, <1>8, <2>1, <2>2
<1>10. OwnerInv'
  <2>1. tx'["org"] = tx["org"] /\ tx'["profile"] = tx["profile"]
    BY <1>3 DEF Kinds
  <2> QED BY <1>1, <2>1, OwnerKept DEF Inv
<1> QED BY <1>5, <1>6, <1>8, <1>9, <1>10 DEF Inv, TypeInv

LEMMA CommitBatchKeeps ==
    ASSUME Inv, CommitBatch
    PROVE  Inv' /\ Shared' = {}
<1> PICK work : work = tx["backfill"].work
  OBVIOUS
<1> PICK xid : xid = tx["backfill"].xid
  OBVIOUS
<1>1. /\ tx["backfill"] # Absent /\ Publish(xid, work) /\ tx' = [tx EXCEPT !["backfill"] = Absent]
      /\ cursor' = IF Cardinality(Shared) < BatchSize THEN Completed ELSE Max(Shared)
      /\ UNCHANGED <<org, rows, invites, lastXid, topic, reader>>
  BY DEF CommitBatch, stream
<1>2. Shared = DOMAIN work /\ Shared \subseteq Members /\ \A m \in Shared : work[m] \in Row
  BY <1>1, BatchHolds DEF Inv
<1>3. "backfill" \in Open
  BY <1>1 DEF Open, Kinds
<1>4. OutboxTyped' /\ DOMAIN outbox' = DOMAIN outbox \cup {xid}
  <2>1. \A m \in DOMAIN work : work[m] \in Record
    BY <1>2 DEF Record
  <2>2. xid \in 1..lastXid' /\ lastXid' \in Nat /\ lastXid <= lastXid'
    BY <1>1, <1>3 DEF Inv, TypeInv, OutboxTyped, XidsApart
  <2> QED BY <1>1, <1>2, <2>1, <2>2, PublishTyped DEF Inv, TypeInv
<1>5. XidsApart' /\ tx'["backfill"] = Absent /\ \A k \in Kinds : k # "backfill" => tx'[k] = tx[k]
  BY <1>1, <1>3, <1>4, CloseDoes DEF Inv, TypeInv
<1>6. cursor' \in Members \cup {0, Completed}
  <2>1. CASE Cardinality(Shared) < BatchSize
    BY <2>1, <1>1
  <2>2. CASE ~(Cardinality(Shared) < BatchSize)
    <3>1. Shared # {}
      BY <2>2, FS_EmptySet, MembershipAssumption
    <3> QED BY <3>1, <2>2, <1>1, <1>2, LastOfMembers
  <2> QED BY <2>1, <2>2
<1>7. TablesTyped' /\ StreamTyped'
  BY <1>1, <1>6 DEF Inv, TypeInv, TablesTyped, StreamTyped
<1>8. BatchTx' /\ Shared' = {}
  BY <1>5 DEF BatchTx, Shared
<1>9. OwnerInv'
  <2>1. tx'["org"] = tx["org"] /\ tx'["profile"] = tx["profile"]
    BY <1>5 DEF Kinds
  <2> QED BY <1>1, <2>1, OwnerKept DEF Inv
<1> QED BY <1>4, <1>5, <1>7, <1>8, <1>9 DEF Inv, TypeInv

\* The steps of the relay, the broker and the reader.
LEMMA StreamStepKeeps ==
    ASSUME Inv, UNCHANGED <<org, rows, invites, cursor, tx, lastXid, overtaken>>, StreamTyped', OutboxTyped',
           DOMAIN outbox' \subseteq DOMAIN outbox
    PROVE  Inv'
<1>1. TablesTyped'
  BY DEF Inv, TypeInv, TablesTyped
<1>2. XidsApart'
  BY DEF Inv, TypeInv, XidsApart, Open
<1>3. BatchTx'
  <2>1. \A m \in Shared : SamePublished(m)
    BY DEF SamePublished, Status
  <2> QED BY <2>1, BatchKept DEF Inv, TypeInv
<1>4. OwnerInv'
  BY OwnerKept DEF Inv
<1> QED BY <1>1, <1>2, <1>3, <1>4 DEF Inv, TypeInv

LEMMA RelayKeeps ==
    ASSUME Inv, Relay
    PROVE  Inv'
<1>1. OutboxTyped /\ StreamTyped /\ DOMAIN outbox \subseteq Nat /\ DOMAIN outbox # {}
  BY DEF Inv, TypeInv, OutboxTyped, Relay
<1>2. PICK xid \in DOMAIN outbox : xid = Min(DOMAIN outbox)
  <2> PICK S : S = DOMAIN outbox
    OBVIOUS
  <2>1. Min(S) \in S
    BY <1>1, MinIs
  <2> QED BY <2>1
<1>3. /\ topic' = [m \in Members |-> IF m \in DOMAIN outbox[xid]
                                     THEN Append(topic[m], outbox[xid][m]) ELSE topic[m]]
      /\ outbox' = Restrict(outbox, DOMAIN outbox \ {xid})
      /\ UNCHANGED <<org, rows, invites, cursor, tx, lastXid, reader, overtaken>>
  BY <1>2 DEF Relay, tables
<1>4. outbox' = [x \in DOMAIN outbox \ {xid} |-> outbox[x]]
  BY <1>3 DEF Restrict
<1>5. OutboxTyped' /\ DOMAIN outbox' \subseteq DOMAIN outbox
  <2>1. DOMAIN outbox' = DOMAIN outbox \ {xid} /\ \A x \in DOMAIN outbox' : outbox'[x] = outbox[x]
    BY <1>4
  <2> QED BY <1>1, <1>3, <2>1 DEF OutboxTyped
<1>6. StreamTyped'
  <2>1. \A m \in Members : /\ topic'[m] \in Seq(Record)
                           /\ Len(topic'[m]) \in Nat /\ Len(topic'[m]) >= Len(topic[m])
    <3> TAKE m \in Members
    <3>1. topic[m] \in Seq(Record)
      BY <1>1 DEF StreamTyped
    <3>2. CASE m \in DOMAIN outbox[xid]
      <4>1. outbox[xid][m] \in Record
        BY <1>1, <1>2, <3>2 DEF OutboxTyped
      <4>2. topic'[m] = Append(topic[m], outbox[xid][m])
        BY <1>3, <3>2
      <4> QED BY <3>1, <4>1, <4>2
    <3>3. CASE m \notin DOMAIN outbox[xid]
      <4>1. topic'[m] = topic[m]
        BY <1>3, <3>3
      <4> QED BY <3>1, <4>1
    <3> QED BY <3>2, <3>3
  <2>2. topic' \in [Members -> Seq(Record)]
    BY <1>3, <2>1
  <2>3. \A m \in Members : reader.pos[m] <= Len(topic'[m])
    <3> TAKE m \in Members
    <3>1. reader.pos[m] \in Nat /\ Len(topic[m]) \in Nat /\ reader.pos[m] <= Len(topic[m])
      BY <1>1 DEF StreamTyped
    <3> QED BY <3>1, <2>1
  <2> QED BY <1>1, <1>3, <2>2, <2>3 DEF StreamTyped
<1> QED BY <1>3, <1>5, <1>6, StreamStepKeeps

LEMMA CompactKeeps ==
    ASSUME Inv, NEW m \in Members, Compact(m)
    PROVE  Inv'
<1>1. /\ Len(topic[m]) > 1 /\ reader.pos[m] + 1 >= Len(topic[m])
      /\ topic' = [topic EXCEPT ![m] = <<topic[m][Len(topic[m])]>>]
      /\ reader' = [reader EXCEPT !.pos[m] = reader.pos[m] - (Len(topic[m]) - 1)]
      /\ UNCHANGED <<org, rows, invites, cursor, tx, lastXid, outbox, overtaken>>
  <2>1. topic' = [topic EXCEPT ![m] = <<@[Len(@)]>>]
    BY DEF Compact
  <2> QED BY <2>1 DEF Compact, tables, StreamTyped, Inv, TypeInv
<1>2. /\ topic \in [Members -> Seq(Record)]
      /\ reader \in [table : [Members -> Row \cup {Absent}], pos : [Members -> Nat], orgDeleted : BOOLEAN]
      /\ \A n \in Members : reader.pos[n] <= Len(topic[n])
  BY DEF Inv, TypeInv, StreamTyped
<1>3. Len(topic[m]) \in Nat /\ reader.pos[m] \in Nat /\ reader.pos[m] <= Len(topic[m]) /\ topic[m][Len(topic[m])] \in Record
  BY <1>1, <1>2
<1>4. topic' \in [Members -> Seq(Record)] /\ Len(topic'[m]) = 1
  BY <1>1, <1>2, <1>3
<1>5. reader.pos[m] - (Len(topic[m]) - 1) \in {0, 1}
  BY <1>1, <1>3
<1>6. /\ reader' \in [table : [Members -> Row \cup {Absent}], pos : [Members -> Nat], orgDeleted : BOOLEAN]
      /\ reader'.pos[m] \in {0, 1}
      /\ \A n \in Members : n # m => reader'.pos[n] = reader.pos[n]
  <2> PICK to : to = reader.pos[m] - (Len(topic[m]) - 1)
    OBVIOUS
  <2>1. to \in Nat /\ to \in {0, 1}
    BY <1>5
  <2>2. reader' = [reader EXCEPT !.pos = [reader.pos EXCEPT ![m] = to]]
    BY <1>1
  <2> QED BY <1>2, <2>1, <2>2
<1>7. \A n \in Members : reader'.pos[n] <= Len(topic'[n])
  <2> TAKE n \in Members
  <2>1. CASE n = m
    BY <2>1, <1>4, <1>6
  <2>2. CASE n # m
    BY <2>2, <1>1, <1>2, <1>6
  <2> QED BY <2>1, <2>2
<1>8. StreamTyped'
  BY <1>4, <1>6, <1>7 DEF StreamTyped
<1> QED BY <1>1, <1>8, StreamStepKeeps DEF Inv, TypeInv, OutboxTyped

\* The reader's own steps.
LEMMA ReadersKeep ==
    ASSUME Inv, OnlyTheReader,
           reader' \in [table : [Members -> Row \cup {Absent}], pos : [Members -> Nat], orgDeleted : BOOLEAN],
           \A m \in Members : reader'.pos[m] <= Len(topic[m])
    PROVE  Inv'
<1>1. UNCHANGED <<org, rows, invites, cursor, tx, lastXid, outbox, topic, overtaken>>
  BY DEF OnlyTheReader, tables
<1>2. StreamTyped' /\ OutboxTyped'
  BY <1>1 DEF Inv, TypeInv, StreamTyped, OutboxTyped
<1> QED BY <1>1, <1>2, StreamStepKeeps

LEMMA ReaderIs ==
    ASSUME TypeInv
    PROVE  /\ topic \in [Members -> Seq(Record)]
           /\ reader \in [table : [Members -> Row \cup {Absent}], pos : [Members -> Nat], orgDeleted : BOOLEAN]
           /\ \A m \in Members : /\ reader.pos[m] \in Nat /\ Len(topic[m]) \in Nat
                                 /\ reader.pos[m] <= Len(topic[m]) /\ topic[m] \in Seq(Record)
                                 /\ reader.table[m] \in Row \cup {Absent}
                                 /\ \A i \in 1..Len(topic[m]) : topic[m][i] \in Record
BY DEF TypeInv, StreamTyped

LEMMA ConsumeKeeps ==
    ASSUME Inv, NEW m \in Members, Consume(m)
    PROVE  /\ Inv' /\ \A n \in Members : n # m => reader'.pos[n] = reader.pos[n] /\ reader'.table[n] = reader.table[n]
           /\ reader'.pos[m] = reader.pos[m] + 1
           /\ reader'.table[m] = Applied(reader.table[m], topic[m][reader.pos[m] + 1])
<1> PICK pos : pos = [reader.pos EXCEPT ![m] = reader.pos[m] + 1]
  OBVIOUS
<1> PICK held : held = Applied(reader.table[m], topic[m][reader.pos[m] + 1])
  OBVIOUS
<1> PICK table : table = [reader.table EXCEPT ![m] = held]
  OBVIOUS
<1>1. TypeInv
  BY DEF Inv
<1>2. reader.pos[m] < Len(topic[m]) /\ OnlyTheReader /\ reader' = [reader EXCEPT !.pos = pos, !.table = table]
  <2>1. reader' = [reader EXCEPT !.pos = [reader.pos EXCEPT ![m] = reader.pos[m] + 1],
                                 !.table = [reader.table EXCEPT ![m] = held]]
    BY <1>1, ReaderIs DEF Consume
  <2> QED BY <2>1 DEF Consume
<1>3. /\ reader.pos[m] \in Nat /\ Len(topic[m]) \in Nat /\ topic[m] \in Seq(Record)
      /\ reader.pos \in [Members -> Nat] /\ reader.table \in [Members -> Row \cup {Absent}]
      /\ \A n \in Members : reader.pos[n] <= Len(topic[n])
  BY <1>1, ReaderIs
<1>4. topic[m][reader.pos[m] + 1] \in Record
  BY <1>2, <1>3
<1>5. held \in Row \cup {Absent}
  BY <1>3, <1>4 DEF Applied, Record
<1>6. pos \in [Members -> Nat] /\ table \in [Members -> Row \cup {Absent}]
  BY <1>3, <1>5
<1>7. \A n \in Members : pos[n] <= Len(topic[n])
  BY <1>2, <1>3
<1>8. /\ reader' \in [table : [Members -> Row \cup {Absent}], pos : [Members -> Nat], orgDeleted : BOOLEAN]
      /\ reader'.pos = pos /\ reader'.table = table
  BY <1>1, <1>2, <1>6, ReaderIs
<1>9. Inv'
  BY <1>2, <1>7, <1>8, ReadersKeep
<1> QED BY <1>3, <1>8, <1>9

LEMMA RedeliverKeeps ==
    ASSUME Inv, NEW m \in Members, Redeliver(m)
    PROVE  /\ Inv' /\ reader'.table = reader.table
           /\ \A n \in Members : n # m => reader'.pos[n] = reader.pos[n]
           /\ reader'.pos[m] = reader.pos[m] - 1 /\ reader.pos[m] > 0
<1> PICK pos : pos = [reader.pos EXCEPT ![m] = reader.pos[m] - 1]
  OBVIOUS
<1>1. TypeInv
  BY DEF Inv
<1>2. reader.pos[m] > 0 /\ OnlyTheReader /\ reader' = [reader EXCEPT !.pos = pos]
  <2>1. reader' = [reader EXCEPT !.pos = [reader.pos EXCEPT ![m] = reader.pos[m] - 1]]
    BY <1>1, ReaderIs DEF Redeliver
  <2> QED BY <2>1 DEF Redeliver
<1>3. /\ reader.pos[m] \in Nat /\ reader.pos \in [Members -> Nat]
      /\ \A n \in Members : reader.pos[n] <= Len(topic[n]) /\ Len(topic[n]) \in Nat
  BY <1>1, ReaderIs
<1>4. pos \in [Members -> Nat] /\ \A n \in Members : pos[n] <= Len(topic[n])
  BY <1>2, <1>3
<1>5. /\ reader' \in [table : [Members -> Row \cup {Absent}], pos : [Members -> Nat], orgDeleted : BOOLEAN]
      /\ reader'.pos = pos /\ reader'.table = reader.table
  BY <1>1, <1>2, <1>4, ReaderIs
<1>6. Inv'
  BY <1>2, <1>4, <1>5, ReadersKeep
<1> QED BY <1>2, <1>3, <1>5, <1>6

LEMMA RebuildKeeps ==
    ASSUME Inv, Rebuild
    PROVE  /\ Inv' /\ \A m \in Members : reader'.table[m] = Absent /\ reader'.pos[m] = 0
<1>1. TypeInv
  BY DEF Inv
<1>2. /\ reader' \in [table : [Members -> Row \cup {Absent}], pos : [Members -> Nat], orgDeleted : BOOLEAN]
      /\ \A m \in Members : reader'.table[m] = Absent /\ reader'.pos[m] = 0
  BY <1>1, ReaderIs DEF Rebuild
<1>3. \A m \in Members : reader'.pos[m] <= Len(topic[m])
  BY <1>1, <1>2, ReaderIs
<1>4. Inv'
  BY <1>2, <1>3, ReadersKeep DEF Rebuild
<1> QED BY <1>2, <1>4

LEMMA OrgDeletedKeeps ==
    ASSUME Inv, OrgDeleted
    PROVE  /\ Inv' /\ reader'.pos = reader.pos
           /\ \A m \in Members : reader'.table[m] = IF reader.table[m] = Absent THEN Absent
                                                    ELSE [reader.table[m] EXCEPT !.status = "REMOVED"]
<1> PICK table : table = [m \in Members |-> IF reader.table[m] = Absent THEN Absent
                                            ELSE [reader.table[m] EXCEPT !.status = "REMOVED"]]
  OBVIOUS
<1>1. TypeInv
  BY DEF Inv
<1>2. OnlyTheReader /\ reader' = [reader EXCEPT !.orgDeleted = TRUE, !.table = table]
  <2>1. reader' = [reader EXCEPT !.orgDeleted = TRUE,
                       !.table = [m \in Members |-> IF reader.table[m] = Absent THEN Absent
                                                    ELSE [reader.table[m] EXCEPT !.status = "REMOVED"]]]
    BY <1>1, ReaderIs DEF OrgDeleted
  <2> QED BY <2>1 DEF OrgDeleted
<1>3. \A m \in Members : reader.table[m] \in Row \cup {Absent} /\ reader.pos[m] <= Len(topic[m])
  BY <1>1, ReaderIs
<1>4. \A m \in Members : table[m] \in Row \cup {Absent}
  <2> TAKE m \in Members
  <2>1. table[m] = IF reader.table[m] = Absent THEN Absent ELSE [reader.table[m] EXCEPT !.status = "REMOVED"]
    OBVIOUS
  <2> QED BY <2>1, <1>3 DEF Row
<1>5. table \in [Members -> Row \cup {Absent}]
  BY <1>4
<1>6. /\ reader' \in [table : [Members -> Row \cup {Absent}], pos : [Members -> Nat], orgDeleted : BOOLEAN]
      /\ reader'.pos = reader.pos /\ reader'.table = table
  BY <1>1, <1>2, <1>5, ReaderIs
<1>7. Inv'
  BY <1>2, <1>3, <1>6, ReadersKeep
<1> QED BY <1>6, <1>7

LEMMA InvKept ==
    ASSUME Inv, [Next]_vars
    PROVE  Inv'
<1>1. ASSUME OrgStep PROVE Inv'
  <2>1. ASSUME NEW actor \in Members, NEW target \in Members, NEW role \in Roles, ChangeRole(actor, target, role)
        PROVE  Inv'
    BY <2>1, ChangeRoleKeeps
  <2>2. ASSUME NEW actor \in Members, NEW target \in Members, Remove(actor, target)
        PROVE  Inv'
    BY <2>2, RemoveKeeps
  <2>3. ASSUME NEW actor \in Members, NEW target \in Members, TransferOwnership(actor, target)
        PROVE  Inv'
    BY <2>3, TransferKeeps
  <2> QED BY <1>1, <2>1, <2>2, <2>3, CommitChangeKeeps, CommitDeleteKeeps, CommitPurgeKeeps, BeginsKeep DEF OrgStep
<1>2. ASSUME MemberStep PROVE Inv'
  <2>1. ASSUME NEW m \in Members, Accept(m) PROVE Inv'
    BY <2>1, AcceptKeeps
  <2>2. ASSUME NEW m \in Members, (\E role \in Roles : Invite(m, role)) \/ EndInvite(m) PROVE Inv'
    BY <2>2, InvitesKeep
  <2>3. ASSUME NEW m \in Members, ReadProfile(m) PROVE Inv'
    BY <2>3, BeginsKeep
  <2> QED BY <1>2, <2>1, <2>2, <2>3 DEF MemberStep
<1>3. ASSUME UpkeepStep PROVE Inv'
  <2>1. ASSUME NEW old \in SUBSET LongRemoved, CommitSweep(old) PROVE Inv'
    BY <2>1, CommitSweepKeeps
  <2>2. ASSUME NEW kind \in Kinds, Rollback(kind) PROVE Inv'
    BY <2>2, RollbackKeeps
  <2> QED BY <1>3, <2>1, <2>2, CommitProfileKeeps, BeginsKeep, ReadBatchKeeps, CommitBatchKeeps, RunAgainKeeps DEF UpkeepStep
<1>4. ASSUME StreamStep PROVE Inv'
  <2>1. ASSUME NEW m \in Members, Compact(m) PROVE Inv'
    BY <2>1, CompactKeeps
  <2>2. ASSUME NEW m \in Members, Consume(m) PROVE Inv'
    BY <2>2, ConsumeKeeps
  <2>3. ASSUME NEW m \in Members, Redeliver(m) PROVE Inv'
    BY <2>3, RedeliverKeeps
  <2> QED BY <1>4, <2>1, <2>2, <2>3, RelayKeeps, RebuildKeeps, OrgDeletedKeeps DEF StreamStep
<1>5. ASSUME UNCHANGED vars PROVE Inv'
  <2>1. UNCHANGED <<org, rows, invites, cursor, tx, lastXid, outbox, topic, reader, overtaken>>
    BY <1>5 DEF vars, tables, stream
  <2>2. TablesTyped'
    BY <2>1 DEF Inv, TypeInv, TablesTyped
  <2> QED BY <2>1, <2>2, TableStepKeeps DEF stream
<1> QED BY <1>1, <1>2, <1>3, <1>4, <1>5 DEF Next

LEMMA InitHasInv ==
    ASSUME Init
    PROVE  Inv
<1>1. /\ org \in [status : {"ACTIVE", "DELETED", "PURGED"}, owner : Members, deletedIn : Nat] /\ org.owner = Founder
      /\ org.status # "PURGED"
  BY MembershipAssumption DEF Init
<1>2. \A m \in Members : rows[m] = IF m \in Legacy
          THEN [role |-> IF m = Founder THEN "OWNER" ELSE "DEVELOPER", status |-> "ACTIVE", version |-> 0]
          ELSE Absent
  BY DEF Init
<1>3. \A m \in Members : rows[m] \in Row \cup {Absent}
  <2> TAKE m \in Members
  <2>1. CASE m \in Legacy
    <3> PICK role : role = IF m = Founder THEN "OWNER" ELSE "DEVELOPER"
      OBVIOUS
    <3>1. rows[m] = [role |-> role, status |-> "ACTIVE", version |-> 0] /\ role \in Roles
      BY <1>2, <2>1 DEF Roles
    <3> QED BY <3>1 DEF Row
  <2>2. CASE m \notin Legacy
    BY <1>2, <2>2
  <2> QED BY <2>1, <2>2
<1>4. TablesTyped
  <2>1. rows \in [Members -> Row \cup {Absent}]
    BY <1>3 DEF Init
  <2> QED BY <1>1, <2>1 DEF Init, TablesTyped
<1>5. OutboxTyped
  BY DEF Init, OutboxTyped
<1>6. StreamTyped
  <2>1. topic = [m \in Members |-> <<>>] /\ <<>> \in Seq(Record) /\ Len(<<>>) = 0
    BY DEF Init
  <2> QED BY <2>1 DEF Init, StreamTyped
<1>7. XidsApart /\ BatchTx /\ OrgTx /\ ProfileTx
  BY DEF Init, XidsApart, BatchTx, OrgTx, ProfileTx, Open, Kinds
<1>8. OneOwner
  <2>1. \A m \in Members : /\ m \in Active <=> m \in Legacy
                           /\ m \in Active => (rows[m].role = "OWNER" <=> m = Founder)
    <3> TAKE m \in Members
    <3>1. CASE m \in Legacy
      <4> PICK role : role = IF m = Founder THEN "OWNER" ELSE "DEVELOPER"
        OBVIOUS
      <4>1. rows[m] = [role |-> role, status |-> "ACTIVE", version |-> 0]
        BY <1>2, <3>1
      <4>2. rows[m] # Absent
        <5>1. rows[m] \in Row
          BY <4>1 DEF Row, Roles
        <5> QED BY <5>1, MembershipAssumption
      <4> QED BY <4>1, <4>2, <3>1 DEF Active, Here
    <3>2. CASE m \notin Legacy
      BY <1>2, <3>2 DEF Active, Here
    <3> QED BY <3>1, <3>2
  <2>2. \A m \in Active : rows[m].role = "OWNER" <=> m = Founder
    BY <2>1 DEF Active, Here
  <2>3. Founder \in Active
    BY <2>1, MembershipAssumption
  <2>4. {m \in Active : rows[m].role = "OWNER"} = {Founder}
    BY <2>2, <2>3
  <2> QED BY <1>1, <2>4 DEF OneOwner
<1> QED BY <1>4, <1>5, <1>6, <1>7, <1>8 DEF Inv, TypeInv, OwnerInv

LEMMA InvHolds == Spec => []Inv
<1>1. Init => Inv
  BY InitHasInv
<1>2. Inv /\ [Next]_vars => Inv'
  BY InvKept
<1> QED BY <1>1, <1>2, PTL DEF Spec

(* Every table, transaction, published record and reader's position is what *)
(* the schema and the types of org-team-service allow.                      *)
THEOREM MembersTyped == Spec => []TypeOK
<1>1. Inv => TypeOK
  <2> SUFFICES ASSUME Inv PROVE TypeOK
    OBVIOUS
  <2>1. \A m \in Members : reader.pos[m] \in 0..Len(topic[m])
    BY ReaderIs DEF Inv
  <2> QED BY <2>1 DEF Inv, TypeInv, TablesTyped, OutboxTyped, XidsApart, TypeOK
<1> QED BY <1>1, InvHolds, PTL

(* An org that is there has one owner, the one its row names, whatever      *)
(* transfers of ownership, changes of roles, removals, invites, profile     *)
(* updates, sweeps and backfills run beside each other (MemberService,      *)
(* ProfileProjectionService).                                               *)
THEOREM OneOwnerHolds == Spec => []OneOwner
<1>1. Inv => OneOwner
  BY DEF Inv, OwnerInv
<1> QED BY <1>1, InvHolds, PTL

-----------------------------------------------------------------------------
(* The read model.  What has been published of a member and not yet         *)
(* relayed, and the last of all their records                               *)

Pending(m) == {x \in DOMAIN outbox : m \in DOMAIN outbox[x]}

Told(m) == Pending(m) # {} \/ topic[m] # <<>>

Last(m) == IF Pending(m) # {} THEN outbox[Max(Pending(m))][m] ELSE topic[m][Len(topic[m])]

\* A record that is right about the rows.
Right(m, record) ==
    IF rows[m] = Absent THEN record = Tombstone
    ELSE /\ record # Tombstone /\ record.role = rows[m].role /\ record.status = Status(m)
         /\ record.version <= rows[m].version

OlderOrSame(r, s) == r.version < s.version \/ r = s

NoTombPending(m) == \A x \in Pending(m) : outbox[x][m] # Tombstone

NoTombFrom(m, i) == \A j \in i..Len(topic[m]) : topic[m][j] # Tombstone

\* The last record is right; between two deletions of the row no record is younger than it.
Truth(m) == Told(m) => Right(m, Last(m))

TopicInOrder(m) ==
    \A i \in 1..Len(topic[m]) : NoTombPending(m) /\ NoTombFrom(m, i) => OlderOrSame(topic[m][i], Last(m))

OutboxInOrder(m) ==
    \A x \in Pending(m) :
        (\A y \in Pending(m) : y >= x => outbox[y][m] # Tombstone) => OlderOrSame(outbox[x][m], Last(m))

\* What the reader holds comes from a record of the member's that it has read, the last one when it has
\* read them all.
HoldsNothing(m) == ~Told(m) => reader.table[m] = Absent

HoldsOlder(m) ==
    Told(m) /\ NoTombPending(m) /\ NoTombFrom(m, reader.pos[m] + 1) =>
        reader.table[m] = Absent \/ (Last(m) # Tombstone /\ OlderOrSame(reader.table[m], Last(m)))

HoldsLast(m) ==
    Told(m) /\ Pending(m) = {} /\ reader.pos[m] = Len(topic[m]) =>
        reader.table[m] = IF Last(m) = Tombstone THEN Absent ELSE Last(m)

MemberInv(m) ==
    Truth(m) /\ TopicInOrder(m) /\ OutboxInOrder(m) /\ HoldsNothing(m) /\ HoldsOlder(m) /\ HoldsLast(m)

\* How far the backfill has come.
Reached(m) == cursor = Completed \/ m <= cursor

BackfillInv ==
    /\ \A m \in Here : Reached(m) => Told(m)
    /\ Shared # {} => \A m \in Here \ Shared :
         ~Told(m) => Cardinality(Shared) >= BatchSize /\ \A s \in Shared : s < m

ReadInv == (\A m \in Members \ overtaken : MemberInv(m)) /\ BackfillInv

LEMMA MaxOf ==
    ASSUME NEW S, S \subseteq Nat, NEW x \in S, \A y \in S : y <= x
    PROVE  Max(S) = x
<1>1. \A z \in S : (\A y \in S : y <= z) => z = x
  <2> TAKE z \in S
  <2> HAVE \A y \in S : y <= z
  <2>1. x <= z /\ z <= x /\ x \in Nat /\ z \in Nat
    OBVIOUS
  <2> QED BY <2>1
<1> QED BY <1>1 DEF Max

LEMMA PendingIs ==
    ASSUME OutboxTyped, NEW m \in Members
    PROVE  /\ Pending(m) \subseteq 1..lastXid /\ Pending(m) \subseteq Nat /\ lastXid \in Nat
           /\ \A x \in Pending(m) : x \in DOMAIN outbox /\ m \in DOMAIN outbox[x] /\ outbox[x][m] \in Record
           /\ Pending(m) # {} => Max(Pending(m)) \in Pending(m) /\ \A x \in Pending(m) : x <= Max(Pending(m))
<1>1. Pending(m) \subseteq 0..lastXid /\ lastXid \in Nat
  BY DEF Pending, OutboxTyped
<1>2. Pending(m) # {} => Max(Pending(m)) \in Pending(m) /\ \A x \in Pending(m) : x <= Max(Pending(m))
  <2> PICK S : S = Pending(m)
    OBVIOUS
  <2> QED BY <1>1, MaxIs
<1>3. \A x \in Pending(m) : x \in DOMAIN outbox /\ m \in DOMAIN outbox[x] /\ outbox[x][m] \in Record
  BY DEF Pending, OutboxTyped
<1>4. Pending(m) \subseteq 1..lastXid
  BY DEF Pending, OutboxTyped
<1> QED BY <1>1, <1>2, <1>3, <1>4

LEMMA LastIs ==
    ASSUME TypeInv, NEW m \in Members
    PROVE  /\ Told(m) => Last(m) \in Record
           /\ Told(m) /\ NoTombPending(m) /\ (Pending(m) = {} => \E i \in 1..Len(topic[m]) : NoTombFrom(m, i)) => Last(m) # Tombstone
<1>1. /\ \A x \in Pending(m) : outbox[x][m] \in Record
      /\ Pending(m) # {} => Max(Pending(m)) \in Pending(m)
  BY PendingIs DEF TypeInv
<1>2. topic[m] \in Seq(Record) /\ Len(topic[m]) \in Nat /\ \A i \in 1..Len(topic[m]) : topic[m][i] \in Record
  BY ReaderIs
<1>3. topic[m] # <<>> => Len(topic[m]) \in 1..Len(topic[m])
  BY <1>2
<1>4. CASE Pending(m) # {}
  BY <1>1, <1>4 DEF Last, NoTombPending
<1>5. CASE Pending(m) = {}
  <2>1. Last(m) = topic[m][Len(topic[m])]
    BY <1>5 DEF Last
  <2>2. Told(m) => Last(m) \in Record
    BY <1>2, <1>3, <1>5, <2>1 DEF Told
  <2>3. ASSUME NEW i \in 1..Len(topic[m]), NoTombFrom(m, i) PROVE Last(m) # Tombstone
    <3>1. Len(topic[m]) \in i..Len(topic[m])
      BY <1>2
    <3> QED BY <3>1, <2>1, <2>3 DEF NoTombFrom
  <2> QED BY <1>5, <2>2, <2>3
<1> QED BY <1>4, <1>5

LEMMA OlderIs ==
    /\ \A r, s, t \in Row : OlderOrSame(r, s) /\ OlderOrSame(s, t) => OlderOrSame(r, t)
    /\ \A r \in Row : OlderOrSame(r, r)
<1>1. ASSUME NEW r \in Row, NEW s \in Row, NEW t \in Row, OlderOrSame(r, s), OlderOrSame(s, t)
      PROVE  OlderOrSame(r, t)
  <2>1. r.version \in Nat /\ s.version \in Nat /\ t.version \in Nat
    BY DEF Row
  <2> QED BY <1>1, <2>1 DEF OlderOrSame
<1> QED BY <1>1 DEF OlderOrSame

\* Nothing is published of the member, and their row still matches its records.
LEMMA UnpublishedKeeps ==
    ASSUME TypeInv, NEW m \in Members, MemberInv(m), UNCHANGED stream, Pending(m)' = Pending(m),
           \A x \in Pending(m) : outbox'[x][m] = outbox[x][m],
           rows[m] = Absent => rows'[m] = Absent, rows[m] # Absent => rows'[m] # Absent,
           rows[m] # Absent => /\ rows'[m].role = rows[m].role /\ Status(m)' = Status(m)
                               /\ rows[m] \in Row /\ rows'[m].version \in Nat /\ rows'[m].version >= rows[m].version
    PROVE  MemberInv(m)'
<1>1. topic' = topic /\ reader' = reader
  BY DEF stream
<1>2. Told(m)' = Told(m) /\ NoTombPending(m)' = NoTombPending(m) /\ \A i : NoTombFrom(m, i)' = NoTombFrom(m, i)
  BY <1>1 DEF Told, NoTombPending, NoTombFrom
<1>3. Last(m)' = Last(m)
  <2>1. Pending(m) # {} => Max(Pending(m)) \in Pending(m)
    BY PendingIs DEF TypeInv
  <2>2. CASE Pending(m) # {}
    BY <2>1, <2>2 DEF Last
  <2>3. CASE Pending(m) = {}
    BY <1>1, <2>3 DEF Last
  <2> QED BY <2>2, <2>3
<1>4. Truth(m)'
  <2> SUFFICES ASSUME Told(m) PROVE Right(m, Last(m))'
    BY <1>2 DEF Truth
  <2>1. Right(m, Last(m)) /\ Last(m) \in Record
    BY LastIs DEF MemberInv, Truth
  <2>2. rows[m] # Absent => Last(m) \in Row /\ Last(m).version \in Nat /\ rows[m].version \in Nat
    BY <2>1 DEF Right, Record, Row
  <2> QED BY <1>3, <2>1, <2>2 DEF Right
<1>5. TopicInOrder(m)'
  BY <1>1, <1>2, <1>3 DEF MemberInv, TopicInOrder
<1>6. OutboxInOrder(m)'
  BY <1>3 DEF MemberInv, OutboxInOrder
<1>7. HoldsNothing(m)' /\ HoldsLast(m)'
  BY <1>1, <1>2, <1>3 DEF MemberInv, HoldsNothing, HoldsLast
<1>8. HoldsOlder(m)'
  BY <1>1, <1>2, <1>3 DEF MemberInv, HoldsOlder
<1> QED BY <1>4, <1>5, <1>6, <1>7, <1>8 DEF MemberInv

\* A record of the member's is published: it follows on the last one, and is the last one now, unless a
\* younger one is the same.
LEMMA PublishedKeeps ==
    ASSUME TypeInv, NEW m \in Members, MemberInv(m), UNCHANGED stream, NEW xid \in Nat, xid \notin DOMAIN outbox,
           NEW records, Publish(xid, records), m \in DOMAIN records, records[m] \in Record, m \notin overtaken',
           Right(m, records[m])',
           rows[m] # Absent /\ records[m] # Tombstone =>
              rows[m] \in Row /\ (records[m].version > rows[m].version \/ records[m] = AsPublished(m))
    PROVE  MemberInv(m)'
<1> PICK r : r = records[m]
  OBVIOUS
<1>1. topic' = topic /\ reader' = reader /\ \A i : NoTombFrom(m, i)' = NoTombFrom(m, i)
  BY DEF stream, NoTombFrom
<1>2. /\ Pending(m)' = Pending(m) \cup {xid} /\ xid \notin Pending(m)
      /\ outbox'[xid][m] = r /\ \A x \in Pending(m) : outbox'[x][m] = outbox[x][m]
  <2>1. DOMAIN outbox' = DOMAIN outbox \cup {xid}
    BY DEF Publish
  <2>2. outbox'[xid] = records /\ \A x \in DOMAIN outbox : outbox'[x] = outbox[x]
    BY DEF Publish
  <2> QED BY <2>1, <2>2 DEF Pending
<1>3. /\ Pending(m) \subseteq Nat /\ \A x \in Pending(m) : outbox[x][m] \in Record
      /\ Pending(m) # {} => Max(Pending(m)) \in Pending(m) /\ \A x \in Pending(m) : x <= Max(Pending(m))
  BY PendingIs DEF TypeInv
<1>4. Younger(m, xid) = {x \in Pending(m) : x > xid}
  BY DEF Younger, Pending
<1>5. Last(m)' = r /\ (\A x \in Pending(m) : x > xid => Last(m) = r)
  <2>1. Last(m)' = outbox'[Max(Pending(m)')][m]
    BY <1>2 DEF Last
  <2>2. CASE \A x \in Pending(m) : ~(x > xid)
    <3>1. \A x \in Pending(m)' : x <= xid /\ x \in Nat
      BY <1>2, <1>3, <2>2
    <3>2. Max(Pending(m)') = xid
      <4> PICK S : S = Pending(m)'
        OBVIOUS
      <4> QED BY <1>2, <3>1, MaxOf
    <3> QED BY <1>2, <2>1, <2>2, <3>2
  <2>3. CASE \E x \in Pending(m) : x > xid
    <3>1. PICK top \in Pending(m) : top = Max(Pending(m))
      BY <1>3, <2>3
    <3>2. top > xid /\ \A x \in Pending(m) : x <= top
      BY <1>3, <2>3, <3>1
    <3>3. Max(Younger(m, xid)) = top
      <4> PICK S : S = Younger(m, xid)
        OBVIOUS
      <4> QED BY <1>3, <1>4, <3>2, MaxOf
    <3>4. Max(Pending(m)') = top
      <4> PICK S : S = Pending(m)'
        OBVIOUS
      <4> QED BY <1>2, <1>3, <3>2, MaxOf
    <3>5. outbox[top][m] = r
      <4>1. Younger(m, xid) # {}
        BY <1>4, <3>2
      <4> QED BY <3>3, <4>1 DEF Publish
    <3>6. Last(m) = r
      BY <3>1, <3>5 DEF Last
    <3> QED BY <1>2, <2>1, <3>4, <3>5, <3>6
  <2> QED BY <2>2, <2>3
<1>6. Told(m)'
  BY <1>2 DEF Told
<1>7. ASSUME Told(m), Last(m) # Tombstone, r # Tombstone PROVE Last(m) \in Row /\ r \in Row /\ OlderOrSame(Last(m), r)
  <2>1. Right(m, Last(m)) /\ Last(m) \in Record /\ Last(m) \in Row /\ r \in Row
    BY <1>7, LastIs DEF MemberInv, Truth, Record
  <2>2. rows[m] # Absent /\ Last(m).role = rows[m].role /\ Last(m).status = Status(m) /\ Last(m).version <= rows[m].version
    BY <1>7, <2>1 DEF Right
  <2>3. rows[m] \in Row /\ (r.version > rows[m].version \/ r = AsPublished(m))
    BY <1>7, <2>2
  <2>4. Last(m).version \in Nat /\ rows[m].version \in Nat /\ r.version \in Nat
    BY <2>1, <2>3 DEF Row
  <2>5. CASE r.version > rows[m].version
    BY <2>1, <2>2, <2>4, <2>5 DEF OlderOrSame
  <2>6. CASE r = AsPublished(m)
    <3>1. r.role = rows[m].role /\ r.status = Status(m) /\ r.version = rows[m].version
      BY <2>3, <2>6 DEF AsPublished, Row
    <3>2. Last(m).version = r.version => Last(m) = r
      BY <2>1, <2>2, <3>1 DEF Row
    <3> QED BY <2>1, <2>2, <2>4, <3>1, <3>2 DEF OlderOrSame
  <2> QED BY <2>1, <2>3, <2>5, <2>6
<1>8. NoTombPending(m)' => r # Tombstone /\ NoTombPending(m)
  BY <1>2 DEF NoTombPending
<1>9. ASSUME NEW s \in Row, Told(m), Last(m) # Tombstone, r # Tombstone, OlderOrSame(s, Last(m)) PROVE OlderOrSame(s, r)
  BY <1>7, <1>9, OlderIs
<1>10. Truth(m)'
  BY <1>5 DEF Truth
<1>11. TopicInOrder(m)'
  <2> SUFFICES ASSUME NEW i \in 1..Len(topic[m]), NoTombPending(m)', NoTombFrom(m, i) PROVE OlderOrSame(topic[m][i], r)
    BY <1>1, <1>5 DEF TopicInOrder
  <2>1. NoTombPending(m) /\ r # Tombstone
    BY <1>8
  <2>2. topic[m] \in Seq(Record) /\ Len(topic[m]) \in Nat /\ topic[m][i] \in Record
    BY ReaderIs
  <2>3. topic[m][i] # Tombstone /\ Told(m)
    BY <2>2 DEF NoTombFrom, Told
  <2>4. Last(m) # Tombstone
    BY <2>1, <2>3, LastIs
  <2>5. OlderOrSame(topic[m][i], Last(m))
    BY <2>1 DEF MemberInv, TopicInOrder
  <2> QED BY <1>9, <2>1, <2>2, <2>3, <2>4, <2>5 DEF Record
<1>12. OutboxInOrder(m)'
  <2> SUFFICES ASSUME NEW x \in Pending(m)', \A y \in Pending(m)' : y >= x => outbox'[y][m] # Tombstone
               PROVE  OlderOrSame(outbox'[x][m], r)
    BY <1>5 DEF OutboxInOrder
  <2>1. CASE x = xid
    BY <1>2, <2>1 DEF OlderOrSame
  <2>2. CASE x # xid
    <3>1. x \in Pending(m) /\ outbox'[x][m] = outbox[x][m]
      BY <1>2, <2>2
    <3>2. \A y \in Pending(m) : y >= x => outbox[y][m] # Tombstone
      BY <1>2
    <3>3. OlderOrSame(outbox[x][m], Last(m))
      BY <3>1, <3>2 DEF MemberInv, OutboxInOrder
    <3>4. Last(m) # Tombstone /\ Told(m)
      BY <1>3, <3>1, <3>2 DEF Last, Told
    <3>5. outbox[x][m] \in Row
      <4>1. x >= x
        BY <1>3, <3>1
      <4> QED BY <1>3, <3>1, <3>2, <4>1 DEF Record
    <3>6. r # Tombstone
      <4>1. CASE xid >= x
        BY <1>2, <4>1
      <4>2. CASE ~(xid >= x)
        <5>1. x > xid
          BY <1>3, <3>1, <4>2
        <5> QED BY <1>5, <3>1, <3>4, <5>1
      <4> QED BY <4>1, <4>2
    <3> QED BY <1>9, <3>1, <3>3, <3>4, <3>5, <3>6
  <2> QED BY <2>1, <2>2
<1>13. HoldsNothing(m)' /\ HoldsLast(m)'
  BY <1>2, <1>6 DEF HoldsNothing, HoldsLast
<1>14. HoldsOlder(m)'
  <2> SUFFICES ASSUME NoTombPending(m)', NoTombFrom(m, reader.pos[m] + 1), reader.table[m] # Absent
               PROVE  r # Tombstone /\ OlderOrSame(reader.table[m], r)
    BY <1>1, <1>5 DEF HoldsOlder
  <2>1. r # Tombstone /\ NoTombPending(m)
    BY <1>8
  <2>2. Told(m)
    BY DEF MemberInv, HoldsNothing
  <2>3. Last(m) # Tombstone /\ OlderOrSame(reader.table[m], Last(m))
    BY <2>1, <2>2 DEF MemberInv, HoldsOlder
  <2>4. reader.table[m] \in Row
    BY ReaderIs
  <2> QED BY <1>9, <2>1, <2>2, <2>3, <2>4
<1> QED BY <1>10, <1>11, <1>12, <1>13, <1>14 DEF MemberInv

\* The relay moves the first pending record to the end of the topic.
LEMMA RelayKeepsMember ==
    ASSUME TypeInv, Relay, NEW m \in Members, MemberInv(m)
    PROVE  MemberInv(m)'
<1>1. OutboxTyped /\ DOMAIN outbox \subseteq Nat /\ DOMAIN outbox # {}
  BY DEF TypeInv, OutboxTyped, Relay
<1>2. PICK xid \in DOMAIN outbox : xid = Min(DOMAIN outbox) /\ \A x \in DOMAIN outbox : xid <= x
  <2> PICK S : S = DOMAIN outbox
    OBVIOUS
  <2>1. Min(S) \in S /\ \A x \in S : Min(S) <= x
    BY <1>1, MinIs
  <2> QED BY <2>1
<1>3. /\ topic'[m] = IF m \in DOMAIN outbox[xid] THEN Append(topic[m], outbox[xid][m]) ELSE topic[m]
      /\ outbox' = [x \in DOMAIN outbox \ {xid} |-> outbox[x]]
      /\ UNCHANGED <<org, rows, reader>>
  BY <1>2 DEF Relay, tables, Restrict
<1>4. Pending(m)' = Pending(m) \ {xid} /\ \A x \in Pending(m)' : outbox'[x][m] = outbox[x][m]
  BY <1>3 DEF Pending
<1>5. Status(m)' = Status(m) /\ (\A record : Right(m, record)' = Right(m, record))
  BY <1>3 DEF Status, Right
<1>6. /\ Pending(m) \subseteq Nat
      /\ Pending(m) # {} => Max(Pending(m)) \in Pending(m) /\ \A x \in Pending(m) : x <= Max(Pending(m))
  BY <1>1, PendingIs
<1>7. topic[m] \in Seq(Record) /\ Len(topic[m]) \in Nat /\ reader.pos[m] \in Nat /\ reader.pos[m] <= Len(topic[m])
  BY ReaderIs
<1>8. CASE m \notin DOMAIN outbox[xid]
  <2>1. Pending(m)' = Pending(m) /\ topic'[m] = topic[m]
    BY <1>3, <1>4, <1>8 DEF Pending
  <2>2. Last(m)' = Last(m)
    <3>1. CASE Pending(m) = {}
      BY <2>1, <3>1 DEF Last
    <3>2. CASE Pending(m) # {}
      BY <1>4, <1>6, <2>1, <3>2 DEF Last
    <3> QED BY <3>1, <3>2
  <2>3. Told(m)' = Told(m) /\ NoTombPending(m)' = NoTombPending(m) /\ \A i : NoTombFrom(m, i)' = NoTombFrom(m, i)
    BY <1>4, <2>1 DEF Told, NoTombPending, NoTombFrom
  <2>4. Truth(m)'
    BY <1>5, <2>2, <2>3 DEF MemberInv, Truth
  <2>5. TopicInOrder(m)'
    BY <2>1, <2>2, <2>3 DEF MemberInv, TopicInOrder
  <2>6. OutboxInOrder(m)'
    BY <1>4, <2>1, <2>2 DEF MemberInv, OutboxInOrder
  <2>7. HoldsNothing(m)' /\ HoldsLast(m)'
    BY <1>3, <2>1, <2>2, <2>3 DEF MemberInv, HoldsNothing, HoldsLast
  <2>8. HoldsOlder(m)'
    BY <1>3, <2>2, <2>3 DEF MemberInv, HoldsOlder
  <2> QED BY <2>3, <2>4, <2>5, <2>6, <2>7, <2>8 DEF MemberInv
<1>9. CASE m \in DOMAIN outbox[xid]
  <2> PICK r : r = outbox[xid][m]
    OBVIOUS
  <2> PICK n \in Nat : n = Len(topic[m])
    BY <1>7
  <2>1. xid \in Pending(m) /\ r \in Record /\ \A x \in Pending(m) : xid <= x
    BY <1>1, <1>2, <1>9, PendingIs DEF Pending
  <2>2. topic'[m] = Append(topic[m], r)
    BY <1>3, <1>9
  <2>3. /\ Len(topic'[m]) = n + 1 /\ topic'[m] # <<>> /\ topic'[m][n + 1] = r
        /\ \A i \in 1..n : topic'[m][i] = topic[m][i]
    BY <1>7, <2>1, <2>2
  <2>4. Told(m) /\ Told(m)'
    BY <2>1, <2>3 DEF Told
  <2>5. Last(m)' = Last(m)
    <3>1. CASE Pending(m)' = {}
      <4>1. \A x \in Pending(m) : x <= xid
        BY <1>4, <1>6, <2>1, <3>1
      <4>2. Max(Pending(m)) = xid
        <5> PICK S : S = Pending(m)
          OBVIOUS
        <5> QED BY <1>6, <2>1, <4>1, MaxOf
      <4>3. Last(m) = r
        BY <2>1, <4>2 DEF Last
      <4> QED BY <2>3, <3>1, <4>3 DEF Last
    <3>2. CASE Pending(m)' # {}
      <4>1. PICK top \in Pending(m) : top = Max(Pending(m))
        BY <1>6, <2>1
      <4>2. top # xid
        <5> SUFFICES ASSUME top = xid PROVE FALSE
          OBVIOUS
        <5>1. \A x \in Pending(m) : x <= xid /\ xid <= x /\ x \in Nat
          BY <1>6, <2>1, <4>1
        <5> QED BY <1>4, <3>2, <5>1
      <4>3. top \in Pending(m)' /\ Pending(m)' \subseteq Nat /\ \A x \in Pending(m)' : x <= top
        BY <1>4, <1>6, <4>1, <4>2
      <4>4. Max(Pending(m)') = top
        <5> PICK S : S = Pending(m)'
          OBVIOUS
        <5> QED BY <4>3, MaxOf
      <4> QED BY <1>4, <2>1, <3>2, <4>1, <4>3, <4>4 DEF Last
    <3> QED BY <3>1, <3>2
  <2>6. Truth(m)'
    BY <1>5, <2>4, <2>5 DEF MemberInv, Truth
  <2>7. ASSUME NEW i \in 1..n + 1, NoTombFrom(m, i)' PROVE r # Tombstone /\ NoTombFrom(m, i)
    <3>1. n + 1 \in i..Len(topic'[m])
      BY <2>3
    <3>2. \A j \in i..n : j \in 1..n /\ j \in i..Len(topic'[m])
      BY <2>3
    <3> QED BY <2>3, <2>7, <3>1, <3>2 DEF NoTombFrom
  <2>8. NoTombPending(m)' /\ r # Tombstone => NoTombPending(m)
    BY <1>4 DEF NoTombPending
  <2>9. TopicInOrder(m)'
    <3> SUFFICES ASSUME NEW i \in 1..n + 1, NoTombPending(m)', NoTombFrom(m, i)' PROVE OlderOrSame(topic'[m][i], Last(m))
      BY <2>3, <2>5 DEF TopicInOrder
    <3>1. NoTombPending(m) /\ NoTombFrom(m, i)
      BY <2>7, <2>8
    <3>2. CASE i = n + 1
      <4>1. OlderOrSame(outbox[xid][m], Last(m))
        BY <2>1, <3>1 DEF MemberInv, OutboxInOrder, NoTombPending
      <4> QED BY <2>3, <3>2, <4>1
    <3>3. CASE i # n + 1
      <4>1. i \in 1..Len(topic[m])
        BY <3>3
      <4> QED BY <2>3, <3>1, <4>1 DEF MemberInv, TopicInOrder
    <3> QED BY <3>2, <3>3
  <2>10. OutboxInOrder(m)'
    <3> SUFFICES ASSUME NEW x \in Pending(m)', \A y \in Pending(m)' : y >= x => outbox'[y][m] # Tombstone
                 PROVE  OlderOrSame(outbox'[x][m], Last(m))
      BY <2>5 DEF OutboxInOrder
    <3>1. x \in Pending(m) /\ outbox'[x][m] = outbox[x][m] /\ ~(xid >= x)
      BY <1>4, <1>6, <2>1
    <3>2. \A y \in Pending(m) : y >= x => outbox[y][m] # Tombstone
      BY <1>4, <3>1
    <3> QED BY <3>1, <3>2 DEF MemberInv, OutboxInOrder
  <2>11. HoldsNothing(m)' /\ HoldsLast(m)'
    <3>1. reader'.pos[m] # Len(topic'[m])
      BY <1>3, <1>7, <2>3
    <3> QED BY <2>4, <3>1 DEF HoldsNothing, HoldsLast
  <2>12. HoldsOlder(m)'
    <3> SUFFICES ASSUME NoTombPending(m)', (NoTombFrom(m, reader.pos[m] + 1))'
                 PROVE  reader.table[m] = Absent \/ (Last(m) # Tombstone /\ OlderOrSame(reader.table[m], Last(m)))
      BY <1>3, <2>5 DEF HoldsOlder
    <3> PICK i : i = reader.pos[m] + 1
      OBVIOUS
    <3>1. i \in 1..n + 1
      BY <1>7
    <3>2. NoTombFrom(m, i)'
      BY <1>3
    <3>3. NoTombPending(m) /\ NoTombFrom(m, i)
      BY <2>7, <2>8, <3>1, <3>2
    <3> QED BY <2>4, <3>3 DEF MemberInv, HoldsOlder
  <2> QED BY <2>4, <2>6, <2>9, <2>10, <2>11, <2>12 DEF MemberInv
<1> QED BY <1>8, <1>9

\* Compaction leaves the last record, and no reader behind.
LEMMA CompactKeepsMember ==
    ASSUME TypeInv, NEW k \in Members, Compact(k), NEW m \in Members, MemberInv(m)
    PROVE  MemberInv(m)'
<1>1. /\ Len(topic[k]) > 1 /\ reader.pos[k] + 1 >= Len(topic[k])
      /\ topic' = [topic EXCEPT ![k] = <<topic[k][Len(topic[k])]>>]
      /\ reader' = [reader EXCEPT !.pos = [reader.pos EXCEPT ![k] = reader.pos[k] - (Len(topic[k]) - 1)]]
      /\ UNCHANGED <<org, rows, outbox>>
  <2>1. topic' = [topic EXCEPT ![k] = <<@[Len(@)]>>]
    BY DEF Compact
  <2> QED BY <2>1, ReaderIs DEF Compact, tables
<1>2. /\ topic \in [Members -> Seq(Record)]
      /\ reader \in [table : [Members -> Row \cup {Absent}], pos : [Members -> Nat], orgDeleted : BOOLEAN]
      /\ topic[m] \in Seq(Record) /\ Len(topic[m]) \in Nat /\ reader.pos[m] \in Nat /\ reader.pos[m] <= Len(topic[m])
  BY ReaderIs
<1>3. reader'.table = reader.table /\ reader'.pos = [reader.pos EXCEPT ![k] = reader.pos[k] - (Len(topic[k]) - 1)]
  BY <1>1, <1>2
<1>4. Pending(m)' = Pending(m) /\ NoTombPending(m)' = NoTombPending(m)
  BY <1>1 DEF Pending, NoTombPending
<1>5. \A record : Right(m, record)' = Right(m, record)
  BY <1>1 DEF Status, Right
<1>6. CASE m # k
  <2>1. topic'[m] = topic[m] /\ reader'.pos[m] = reader.pos[m]
    BY <1>1, <1>2, <1>3, <1>6
  <2>2. Told(m)' = Told(m) /\ Last(m)' = Last(m) /\ \A i : NoTombFrom(m, i)' = NoTombFrom(m, i)
    BY <1>1, <1>4, <2>1 DEF Told, Last, NoTombFrom
  <2>3. Truth(m)'
    BY <1>5, <2>2 DEF MemberInv, Truth
  <2>4. TopicInOrder(m)'
    BY <1>4, <2>1, <2>2 DEF MemberInv, TopicInOrder
  <2>5. OutboxInOrder(m)'
    BY <1>1, <1>4, <2>2 DEF MemberInv, OutboxInOrder
  <2>6. HoldsNothing(m)' /\ HoldsLast(m)'
    BY <1>3, <1>4, <2>1, <2>2 DEF MemberInv, HoldsNothing, HoldsLast
  <2>7. HoldsOlder(m)'
    BY <1>3, <1>4, <2>1, <2>2 DEF MemberInv, HoldsOlder
  <2> QED BY <2>2, <2>3, <2>4, <2>5, <2>6, <2>7 DEF MemberInv
<1>7. CASE m = k
  <2> PICK n \in Nat : n = Len(topic[m])
    BY <1>2
  <2>1. topic'[m] = <<topic[m][n]>> /\ reader'.pos[m] = reader.pos[m] - (n - 1) /\ n > 1 /\ reader.pos[m] + 1 >= n
    BY <1>1, <1>2, <1>3, <1>7
  <2>2. Len(topic'[m]) = 1 /\ topic'[m][1] = topic[m][n] /\ topic'[m] # <<>> /\ topic[m] # <<>>
    BY <2>1
  <2>3. Told(m) /\ Told(m)' /\ Last(m)' = Last(m)
    BY <1>1, <1>4, <2>2 DEF Told, Last
  <2>4. NoTombFrom(m, 1)' => NoTombFrom(m, n)
    <3>1. 1 \in 1..Len(topic'[m]) /\ \A j \in n..n : j = n
      BY <2>2
    <3> QED BY <2>2, <3>1 DEF NoTombFrom
  <2>5. Truth(m)'
    BY <1>5, <2>3 DEF MemberInv, Truth
  <2>6. TopicInOrder(m)'
    <3> SUFFICES ASSUME NEW i \in 1..1, NoTombPending(m)', NoTombFrom(m, i)' PROVE OlderOrSame(topic'[m][i], Last(m))
      BY <2>2, <2>3 DEF TopicInOrder
    <3>1. i = 1
      OBVIOUS
    <3>2. NoTombFrom(m, n) /\ n \in 1..Len(topic[m])
      BY <2>1, <2>4, <3>1
    <3>3. OlderOrSame(topic[m][n], Last(m))
      BY <1>4, <3>2 DEF MemberInv, TopicInOrder
    <3> QED BY <2>2, <3>1, <3>3
  <2>7. OutboxInOrder(m)'
    BY <1>1, <1>4, <2>3 DEF MemberInv, OutboxInOrder
  <2>8. HoldsNothing(m)' /\ HoldsLast(m)'
    <3>1. reader'.pos[m] = Len(topic'[m]) => reader.pos[m] = Len(topic[m])
      BY <1>2, <2>1, <2>2
    <3> QED BY <1>3, <1>4, <2>3, <3>1 DEF MemberInv, HoldsNothing, HoldsLast
  <2>9. HoldsOlder(m)'
    <3> SUFFICES ASSUME NoTombPending(m)', (NoTombFrom(m, reader.pos[m] + 1))'
                 PROVE  reader.table[m] = Absent \/ (Last(m) # Tombstone /\ OlderOrSame(reader.table[m], Last(m)))
      BY <1>3, <2>3 DEF HoldsOlder
    <3>1. NoTombFrom(m, reader.pos[m] + 1)
      <4>1. CASE reader.pos[m] = n
        <5>1. \A j \in (reader.pos[m] + 1)..Len(topic[m]) : FALSE
          BY <4>1
        <5> QED BY <5>1 DEF NoTombFrom
      <4>2. CASE reader.pos[m] = n - 1
        <5>1. reader'.pos[m] + 1 = 1 /\ reader.pos[m] + 1 = n
          BY <2>1, <4>2
        <5>2. NoTombFrom(m, 1)'
          BY <5>1
        <5> QED BY <2>4, <5>1, <5>2
      <4> QED BY <1>2, <2>1, <4>1, <4>2
    <3> QED BY <1>4, <2>3, <3>1 DEF MemberInv, HoldsOlder
  <2> QED BY <2>3, <2>5, <2>6, <2>7, <2>8, <2>9 DEF MemberInv
<1> QED BY <1>6, <1>7

\* What the reader's steps leave alone.
LEMMA ReaderStepLeaves ==
    ASSUME OnlyTheReader, NEW m \in Members
    PROVE  /\ topic' = topic /\ Told(m)' = Told(m) /\ Last(m)' = Last(m) /\ Pending(m)' = Pending(m)
           /\ NoTombPending(m)' = NoTombPending(m) /\ \A i : NoTombFrom(m, i)' = NoTombFrom(m, i)
           /\ Truth(m) => Truth(m)'
           /\ TopicInOrder(m) => TopicInOrder(m)'
           /\ OutboxInOrder(m) => OutboxInOrder(m)'
<1>1. org' = org /\ rows' = rows /\ outbox' = outbox /\ topic' = topic
  BY DEF OnlyTheReader, tables
<1>2. Pending(m)' = Pending(m) /\ Told(m)' = Told(m) /\ Last(m)' = Last(m)
  BY <1>1 DEF Pending, Told, Last
<1>3. NoTombPending(m)' = NoTombPending(m) /\ \A i : NoTombFrom(m, i)' = NoTombFrom(m, i)
  BY <1>1, <1>2 DEF NoTombPending, NoTombFrom
<1>4. Truth(m) => Truth(m)'
  BY <1>1, <1>2 DEF Truth, Right, Status
<1>5. TopicInOrder(m) => TopicInOrder(m)'
  BY <1>1, <1>2, <1>3 DEF TopicInOrder
<1>6. OutboxInOrder(m) => OutboxInOrder(m)'
  BY <1>1, <1>2 DEF OutboxInOrder
<1> QED BY <1>1, <1>2, <1>3, <1>4, <1>5, <1>6

LEMMA ConsumeKeepsMember ==
    ASSUME Inv, NEW k \in Members, Consume(k), NEW m \in Members, MemberInv(m)
    PROVE  MemberInv(m)'
<1>1. TypeInv /\ OnlyTheReader /\ reader.pos[k] < Len(topic[k])
  BY DEF Inv, Consume
<1>2. /\ topic' = topic /\ Told(m)' = Told(m) /\ Last(m)' = Last(m) /\ Pending(m)' = Pending(m)
      /\ NoTombPending(m)' = NoTombPending(m) /\ \A i : NoTombFrom(m, i)' = NoTombFrom(m, i)
      /\ Truth(m)' /\ TopicInOrder(m)' /\ OutboxInOrder(m)'
  BY <1>1, ReaderStepLeaves DEF MemberInv
<1>3. CASE m # k
  <2>1. reader'.pos[m] = reader.pos[m] /\ reader'.table[m] = reader.table[m]
    BY <1>3, ConsumeKeeps
  <2> QED BY <1>2, <2>1 DEF MemberInv, HoldsNothing, HoldsLast, HoldsOlder
<1>4. CASE m = k
  <2> PICK p \in Nat : p = reader.pos[m]
    BY <1>1, ReaderIs
  <2> PICK n \in Nat : n = Len(topic[m])
    BY <1>1, ReaderIs
  <2> PICK r : r = topic[m][p + 1]
    OBVIOUS
  <2>1. reader'.pos[m] = p + 1 /\ reader'.table[m] = Applied(reader.table[m], r) /\ p < n
    BY <1>1, <1>4, ConsumeKeeps
  <2>2. topic[m] \in Seq(Record) /\ r \in Record /\ reader.table[m] \in Row \cup {Absent} /\ Told(m)
    <3>1. topic[m] \in Seq(Record) /\ reader.table[m] \in Row \cup {Absent}
      BY <1>1, ReaderIs
    <3>2. p + 1 \in 1..Len(topic[m])
      BY <2>1
    <3> QED BY <3>1, <3>2 DEF Told
  <2>3. ASSUME r # Tombstone, NoTombPending(m), NoTombFrom(m, p + 2)
        PROVE  /\ Last(m) \in Row /\ OlderOrSame(r, Last(m)) /\ r \in Row
               /\ reader.table[m] = Absent \/ OlderOrSame(reader.table[m], Last(m))
    <3>1. NoTombFrom(m, p + 1)
      <4> SUFFICES ASSUME NEW j \in (p + 1)..Len(topic[m]) PROVE topic[m][j] # Tombstone
        BY DEF NoTombFrom
      <4>1. CASE j = p + 1
        BY <2>3, <4>1
      <4>2. CASE j # p + 1
        <5>1. j \in (p + 2)..Len(topic[m])
          BY <4>2
        <5> QED BY <2>3, <5>1 DEF NoTombFrom
      <4> QED BY <4>1, <4>2
    <3>2. p + 1 \in 1..Len(topic[m])
      BY <2>1
    <3>3. OlderOrSame(r, Last(m))
      BY <2>3, <3>1, <3>2 DEF MemberInv, TopicInOrder
    <3>4. Last(m) \in Record /\ Last(m) # Tombstone
      BY <1>1, <2>2, <2>3, <3>1, <3>2, LastIs
    <3>5. reader.table[m] = Absent \/ OlderOrSame(reader.table[m], Last(m))
      BY <2>2, <2>3, <3>1 DEF MemberInv, HoldsOlder
    <3> QED BY <2>2, <2>3, <3>3, <3>4, <3>5 DEF Record
  <2>4. r = Tombstone => reader'.table[m] = Absent
    BY <2>1 DEF Applied
  <2>5. r # Tombstone => reader'.table[m] = r \/ (reader'.table[m] = reader.table[m] /\ reader.table[m] # Absent
                                                  /\ ~(reader.table[m].version < r.version))
    BY <2>1 DEF Applied, Newer
  <2>6. HoldsNothing(m)'
    BY <1>2, <2>2 DEF HoldsNothing
  <2>7. HoldsOlder(m)'
    <3> SUFFICES ASSUME NoTombPending(m), (NoTombFrom(m, reader.pos[m] + 1))'
                 PROVE  reader'.table[m] = Absent \/ (Last(m) # Tombstone /\ OlderOrSame(reader'.table[m], Last(m)))
      BY <1>2 DEF HoldsOlder
    <3>1. NoTombFrom(m, p + 2)
      <4>1. reader'.pos[m] + 1 = p + 2
        BY <2>1
      <4>2. NoTombFrom(m, p + 2)'
        BY <4>1
      <4> QED BY <1>2, <4>2
    <3>2. Last(m) \in Row => Last(m) # Tombstone
      BY MembershipAssumption
    <3> QED BY <2>3, <2>4, <2>5, <3>1, <3>2
  <2>8. HoldsLast(m)'
    <3> SUFFICES ASSUME Pending(m) = {}, p + 1 = n
                 PROVE  reader'.table[m] = IF Last(m) = Tombstone THEN Absent ELSE Last(m)
      BY <1>2, <2>1 DEF HoldsLast
    <3>1. Last(m) = r
      BY DEF Last
    <3>2. NoTombPending(m) /\ NoTombFrom(m, p + 2)
      <4>1. \A j \in (p + 2)..Len(topic[m]) : FALSE
        OBVIOUS
      <4> QED BY <4>1 DEF NoTombPending, NoTombFrom
    <3>3. CASE r = Tombstone
      BY <2>4, <3>1, <3>3
    <3>4. CASE r # Tombstone
      <4>1. reader.table[m] # Absent => reader.table[m].version < r.version \/ reader.table[m] = r
        BY <2>3, <3>1, <3>2, <3>4 DEF OlderOrSame
      <4> QED BY <2>5, <3>1, <3>4, <4>1
    <3> QED BY <3>3, <3>4
  <2> QED BY <1>2, <2>6, <2>7, <2>8 DEF MemberInv
<1> QED BY <1>3, <1>4

LEMMA RedeliverKeepsMember ==
    ASSUME Inv, NEW k \in Members, Redeliver(k), NEW m \in Members, MemberInv(m)
    PROVE  MemberInv(m)'
<1>1. TypeInv /\ OnlyTheReader
  BY DEF Inv, Redeliver
<1>2. /\ topic' = topic /\ Told(m)' = Told(m) /\ Last(m)' = Last(m) /\ Pending(m)' = Pending(m)
      /\ NoTombPending(m)' = NoTombPending(m) /\ \A i : NoTombFrom(m, i)' = NoTombFrom(m, i)
      /\ Truth(m)' /\ TopicInOrder(m)' /\ OutboxInOrder(m)'
  BY <1>1, ReaderStepLeaves DEF MemberInv
<1>3. reader'.table = reader.table
  BY RedeliverKeeps
<1>4. CASE m # k
  <2>1. reader'.pos[m] = reader.pos[m]
    BY <1>4, RedeliverKeeps
  <2> QED BY <1>2, <1>3, <2>1 DEF MemberInv, HoldsNothing, HoldsLast, HoldsOlder
<1>5. CASE m = k
  <2> PICK p \in Nat : p = reader.pos[m]
    BY <1>1, ReaderIs
  <2>1. reader'.pos[m] = p - 1 /\ p > 0 /\ p <= Len(topic[m]) /\ Len(topic[m]) \in Nat
    BY <1>1, <1>5, RedeliverKeeps, ReaderIs
  <2>2. HoldsNothing(m)'
    BY <1>2, <1>3 DEF MemberInv, HoldsNothing
  <2>3. HoldsLast(m)'
    <3>1. reader'.pos[m] # Len(topic[m])
      BY <2>1
    <3> QED BY <1>2, <3>1 DEF HoldsLast
  <2>4. HoldsOlder(m)'
    <3> SUFFICES ASSUME Told(m), NoTombPending(m), (NoTombFrom(m, reader.pos[m] + 1))'
                 PROVE  reader.table[m] = Absent \/ (Last(m) # Tombstone /\ OlderOrSame(reader.table[m], Last(m)))
      BY <1>2, <1>3 DEF HoldsOlder
    <3>1. NoTombFrom(m, p)
      <4>1. reader'.pos[m] + 1 = p
        BY <2>1
      <4>2. NoTombFrom(m, p)'
        BY <4>1
      <4> QED BY <1>2, <4>2
    <3>2. NoTombFrom(m, p + 1)
      <4>1. \A j \in (p + 1)..Len(topic[m]) : j \in p..Len(topic[m])
        OBVIOUS
      <4> QED BY <3>1, <4>1 DEF NoTombFrom
    <3> QED BY <3>2 DEF MemberInv, HoldsOlder
  <2> QED BY <1>2, <2>2, <2>3, <2>4 DEF MemberInv
<1> QED BY <1>4, <1>5

LEMMA RebuildKeepsMember ==
    ASSUME Inv, Rebuild, NEW m \in Members, MemberInv(m)
    PROVE  MemberInv(m)'
<1>1. OnlyTheReader /\ TypeInv
  BY DEF Rebuild, Inv
<1>2. /\ topic' = topic /\ Told(m)' = Told(m) /\ Last(m)' = Last(m) /\ Pending(m)' = Pending(m)
      /\ Truth(m)' /\ TopicInOrder(m)' /\ OutboxInOrder(m)'
  BY <1>1, ReaderStepLeaves DEF MemberInv
<1>3. reader'.table[m] = Absent /\ reader'.pos[m] = 0
  BY RebuildKeeps
<1>4. HoldsNothing(m)' /\ HoldsOlder(m)'
  BY <1>3 DEF HoldsNothing, HoldsOlder
<1>5. HoldsLast(m)'
  <2>1. 0 = Len(topic[m]) => topic[m] = <<>>
    <3>1. topic[m] \in Seq(Record)
      BY <1>1, ReaderIs
    <3> QED BY <3>1
  <2> QED BY <1>2, <1>3, <2>1 DEF HoldsLast, Told
<1> QED BY <1>2, <1>4, <1>5 DEF MemberInv

\* The last record already says that a member of an org that is gone is out of it.
LEMMA OrgDeletedKeepsMember ==
    ASSUME Inv, OrgDeleted, NEW m \in Members, MemberInv(m)
    PROVE  MemberInv(m)'
<1>1. TypeInv /\ OnlyTheReader /\ org.status # "ACTIVE"
  BY DEF Inv, OrgDeleted
<1>2. /\ topic' = topic /\ Told(m)' = Told(m) /\ Last(m)' = Last(m) /\ Pending(m)' = Pending(m)
      /\ NoTombPending(m)' = NoTombPending(m) /\ \A i : NoTombFrom(m, i)' = NoTombFrom(m, i)
      /\ Truth(m)' /\ TopicInOrder(m)' /\ OutboxInOrder(m)'
  BY <1>1, ReaderStepLeaves DEF MemberInv
<1>3. /\ reader'.pos = reader.pos /\ reader.table[m] \in Row \cup {Absent}
      /\ reader'.table[m] = IF reader.table[m] = Absent THEN Absent ELSE [reader.table[m] EXCEPT !.status = "REMOVED"]
  BY <1>1, OrgDeletedKeeps, ReaderIs
<1>4. ASSUME Told(m), Last(m) # Tombstone PROVE Last(m) \in Row /\ [Last(m) EXCEPT !.status = "REMOVED"] = Last(m)
  <2>1. Last(m) \in Row
    BY <1>1, <1>4, LastIs DEF Record
  <2>2. Last(m).status = "REMOVED"
    BY <1>1, <1>4 DEF MemberInv, Truth, Right, Status
  <2> QED BY <2>1, <2>2 DEF Row
<1>5. reader.table[m] # Absent => reader'.table[m].version = reader.table[m].version
  BY <1>3 DEF Row
<1>6. HoldsNothing(m)'
  BY <1>2, <1>3 DEF MemberInv, HoldsNothing
<1>7. HoldsOlder(m)'
  <2> SUFFICES ASSUME Told(m), NoTombPending(m), NoTombFrom(m, reader.pos[m] + 1), reader'.table[m] # Absent
               PROVE  Last(m) # Tombstone /\ OlderOrSame(reader'.table[m], Last(m))
    BY <1>2, <1>3 DEF HoldsOlder
  <2>1. reader.table[m] # Absent
    BY <1>3
  <2>2. Last(m) # Tombstone /\ OlderOrSame(reader.table[m], Last(m))
    BY <2>1 DEF MemberInv, HoldsOlder
  <2>3. CASE reader.table[m] = Last(m)
    <3>1. reader'.table[m] = Last(m)
      BY <1>3, <1>4, <2>1, <2>2, <2>3
    <3> QED BY <2>2, <3>1 DEF OlderOrSame
  <2>4. CASE reader.table[m].version < Last(m).version
    BY <1>5, <2>1, <2>2, <2>4 DEF OlderOrSame
  <2> QED BY <2>2, <2>3, <2>4 DEF OlderOrSame
<1>8. HoldsLast(m)'
  <2> SUFFICES ASSUME Told(m), Pending(m) = {}, reader.pos[m] = Len(topic[m])
               PROVE  reader'.table[m] = IF Last(m) = Tombstone THEN Absent ELSE Last(m)
    BY <1>2, <1>3 DEF HoldsLast
  <2>1. reader.table[m] = IF Last(m) = Tombstone THEN Absent ELSE Last(m)
    BY DEF MemberInv, HoldsLast
  <2>2. CASE Last(m) = Tombstone
    BY <1>3, <2>1, <2>2
  <2>3. CASE Last(m) # Tombstone
    <3>1. Last(m) # Absent
      BY <1>4, <2>3, MembershipAssumption
    <3> QED BY <1>3, <1>4, <2>1, <2>3, <3>1
  <2> QED BY <2>2, <2>3
<1> QED BY <1>2, <1>6, <1>7, <1>8 DEF MemberInv

\* Steps that neither change a row nor publish or move a record.
LEMMA QuietKeepsMember ==
    ASSUME TypeInv, NEW m \in Members, MemberInv(m), UNCHANGED <<org, rows, outbox, stream>>
    PROVE  MemberInv(m)'
<1>1. Pending(m)' = Pending(m) /\ Status(m)' = Status(m)
  BY DEF Pending, Status
<1>2. rows[m] # Absent => rows[m] \in Row /\ rows[m].version \in Nat /\ rows[m].version >= rows[m].version
  <2>1. rows[m] # Absent => rows[m] \in Row
    BY DEF TypeInv, TablesTyped
  <2> QED BY <2>1 DEF Row
<1> QED BY <1>1, <1>2, UnpublishedKeeps

LEMMA ProfileKeepsMember ==
    ASSUME Inv, CommitProfile, NEW m \in Members, MemberInv(m)
    PROVE  MemberInv(m)'
<1>1. TypeInv /\ UNCHANGED <<org, outbox, stream>> /\ Raises(m)
  BY CommitProfileKeeps DEF Inv, CommitProfile
<1>2. rows[m] \in Row \cup {Absent}
  BY <1>1 DEF TypeInv, TablesTyped
<1>3. CASE rows'[m] = rows[m]
  <2>1. rows[m] # Absent => rows[m] \in Row /\ rows[m].version \in Nat /\ rows[m].version >= rows[m].version
    BY <1>2 DEF Row
  <2>2. Pending(m)' = Pending(m) /\ Status(m)' = Status(m)
    BY <1>1, <1>3 DEF Pending, Status
  <2> QED BY <1>1, <1>3, <2>1, <2>2, UnpublishedKeeps
<1>4. CASE rows[m] \in Row /\ rows'[m] = NextVersion(rows[m])
  <2>1. /\ rows'[m] \in Row /\ rows'[m].version > rows[m].version
        /\ rows'[m].role = rows[m].role /\ rows'[m].status = rows[m].status
    BY <1>1, <1>4, RowsAre
  <2>2. rows[m] # Absent /\ rows'[m] # Absent /\ rows[m].version \in Nat /\ rows'[m].version \in Nat
    BY <1>4, <2>1, MembershipAssumption DEF Row
  <2>3. Pending(m)' = Pending(m) /\ Status(m)' = Status(m)
    BY <1>1, <2>1 DEF Pending, Status
  <2> QED BY <1>1, <1>4, <2>1, <2>2, <2>3, UnpublishedKeeps
<1> QED BY <1>1, <1>3, <1>4 DEF Raises

LEMMA CommitsKeepMember ==
    ASSUME TypeInv, NEW xid, NEW written, Commits(xid, written), OutboxTyped',
           NEW m \in Members, m \notin overtaken', m \notin overtaken => MemberInv(m)
    PROVE  MemberInv(m)'
<1> PICK records : records = [n \in DOMAIN written |-> IF written[n] = Absent THEN Tombstone ELSE written[n]]
  OBVIOUS
<1>1. /\ Publish(xid, records) /\ xid \notin DOMAIN outbox /\ xid \in Nat /\ UNCHANGED stream
      /\ DOMAIN records = DOMAIN written
  BY DEF Commits, WriteAndPublish
<1>2. \A n \in Members : rows'[n] = IF n \in DOMAIN written THEN written[n] ELSE rows[n]
  BY WriteDoes DEF Commits, WriteAndPublish, TypeInv
<1>3. m \notin overtaken /\ MemberInv(m)
  <2>1. overtaken \subseteq overtaken'
    BY <1>1 DEF Publish
  <2> QED BY <2>1
<1>4. CASE m \in DOMAIN written
  <2>1. rows'[m] = written[m] /\ written[m] \in Row \cup {Absent}
    BY <1>2, <1>4 DEF Commits
  <2>2. records[m] = IF written[m] = Absent THEN Tombstone ELSE written[m]
    BY <1>4
  <2>3. written[m] # Absent => /\ written[m] \in Row /\ written[m].version \in Nat /\ written[m] # Tombstone
                               /\ rows[m] # Absent => written[m].version > rows[m].version
                               /\ org'.status = "ACTIVE" \/ written[m].status = "REMOVED"
    BY <1>4, <2>1, MembershipAssumption DEF Commits, Row
  <2>4. Right(m, records[m])'
    BY <2>1, <2>2, <2>3 DEF Right, Status
  <2>5. rows[m] \in Row \cup {Absent}
    BY DEF TypeInv, TablesTyped
  <2>6. records[m] \in Record /\ m \in DOMAIN records
    BY <1>1, <1>4, <2>1, <2>2 DEF Record
  <2>7. rows[m] # Absent /\ records[m] # Tombstone =>
              rows[m] \in Row /\ (records[m].version > rows[m].version \/ records[m] = AsPublished(m))
    BY <2>2, <2>3, <2>5
  <2> QED BY <1>1, <1>3, <2>4, <2>6, <2>7, PublishedKeeps
<1>5. CASE m \notin DOMAIN written
  <2>1. rows'[m] = rows[m] /\ (rows[m] # Absent => Status(m)' = Status(m))
    BY <1>5 DEF Commits, SamePublished
  <2>2. Pending(m)' = Pending(m) /\ \A x \in Pending(m) : outbox'[x][m] = outbox[x][m]
    BY <1>1, <1>5 DEF Publish, Pending
  <2>3. rows[m] # Absent => rows[m] \in Row /\ rows[m].version \in Nat /\ rows[m].version >= rows[m].version
    <3>1. rows[m] # Absent => rows[m] \in Row
      BY DEF TypeInv, TablesTyped
    <3> QED BY <3>1 DEF Row
  <2> QED BY <1>1, <1>3, <2>1, <2>2, <2>3, UnpublishedKeeps
<1> QED BY <1>4, <1>5

LEMMA PublishTells ==
    ASSUME NEW xid, xid \notin DOMAIN outbox, NEW records, Publish(xid, records), UNCHANGED stream, NEW m
    PROVE  /\ Told(m) => Told(m)'
           /\ m \in DOMAIN records => Told(m)'
<1>1. topic' = topic
  BY DEF stream
<1>2. DOMAIN outbox' = DOMAIN outbox \cup {xid} /\ outbox'[xid] = records /\ \A x \in DOMAIN outbox : outbox'[x] = outbox[x]
  BY DEF Publish
<1>3. Pending(m) \subseteq Pending(m)' /\ (m \in DOMAIN records => xid \in Pending(m)')
  BY <1>2 DEF Pending
<1> QED BY <1>1, <1>3 DEF Told

LEMMA BackfillKept ==
    ASSUME BackfillInv, cursor' = cursor, \A m \in Members : Told(m) => Told(m)',
           \A m \in Here' : m \in Here \/ Told(m)', Shared' = Shared \/ Shared' = {}
    PROVE  BackfillInv'
<1>1. \A m \in Here' : Reached(m)' => Told(m)'
  BY DEF BackfillInv, Reached, Here
<1>2. ASSUME Shared' # {}, NEW m \in Here' \ Shared', ~Told(m)'
      PROVE  Cardinality(Shared') >= BatchSize /\ \A s \in Shared' : s < m
  <2>1. Shared' = Shared /\ m \in Here \ Shared /\ m \in Members
    BY <1>2 DEF Here
  <2> QED BY <1>2, <2>1 DEF BackfillInv
<1> QED BY <1>1, <1>2 DEF BackfillInv

\* A page is the first members of those left.
LEMMA PageIs ==
    /\ Unread # {} => Page # {}
    /\ \A m \in Unread \ Page : Cardinality(Page) >= BatchSize /\ \A s \in Page : s < m
<1> PICK U : U = Unread
  OBVIOUS
<1> DEFINE below(m) == {n \in U : n < m}
<1>1. U \subseteq Members /\ U \subseteq Nat /\ IsFiniteSet(U) /\ BatchSize \in Nat /\ BatchSize > 0
  <2>1. U \subseteq Members
    BY DEF Unread, Here
  <2>2. IsFiniteSet(Members) /\ Members \subseteq Nat /\ BatchSize \in Nat /\ BatchSize > 0
    BY MembershipAssumption
  <2>3. IsFiniteSet(U)
    BY <2>1, <2>2, FS_Subset
  <2> QED BY <2>1, <2>2, <2>3
<1>2. Page \subseteq U /\ \A m \in U : m \in Page <=> Cardinality(below(m)) < BatchSize
  BY DEF Page
<1>3. \A m : IsFiniteSet(below(m)) /\ Cardinality(below(m)) \in Nat
  <2> TAKE m
  <2>1. below(m) \subseteq U
    OBVIOUS
  <2> HIDE DEF below
  <2> QED BY <1>1, <2>1, FS_Subset, FS_CardinalityType
<1>4. ASSUME NEW T, T \subseteq U, T # {} PROVE \E x \in T : \A y \in T : x <= y
  <2>1. T \subseteq Nat
    BY <1>1, <1>4
  <2> QED BY <1>4, <2>1, LeastExists
<1>5. U # {} => Page # {}
  <2> SUFFICES ASSUME U # {} PROVE Page # {}
    OBVIOUS
  <2>1. PICK x \in U : \A y \in U : x <= y
    BY <1>4
  <2>2. below(x) = {}
    <3>1. \A n \in U : ~(n < x)
      BY <1>1, <2>1
    <3> QED BY <3>1
  <2> HIDE DEF below
  <2> QED BY <1>1, <1>2, <2>2, FS_EmptySet
<1>6. ASSUME NEW m \in U \ Page, NEW s \in Page PROVE s < m
  <2> SUFFICES ASSUME ~(s < m) PROVE FALSE
    OBVIOUS
  <2>1. s \in U /\ m \in U /\ Cardinality(below(s)) < BatchSize /\ ~(Cardinality(below(m)) < BatchSize)
    BY <1>2, <1>6
  <2>2. below(m) \subseteq below(s)
    <3>1. \A n \in U : n < m => n < s
      BY <1>1, <2>1
    <3> QED BY <3>1
  <2> HIDE DEF below
  <2>3. Cardinality(below(m)) <= Cardinality(below(s))
    BY <1>3, <2>2, FS_Subset
  <2> QED BY <1>1, <1>3, <2>1, <2>3
<1>7. ASSUME NEW m \in U \ Page PROVE Cardinality(Page) >= BatchSize
  <2>1. PICK x \in U \ Page : \A y \in U \ Page : x <= y
    BY <1>4
  <2>2. below(x) \subseteq Page
    <3>1. \A n \in U : n < x => n \in Page
      BY <1>1, <2>1
    <3> QED BY <3>1
  <2>3. ~(Cardinality(below(x)) < BatchSize)
    BY <1>2, <2>1
  <2> HIDE DEF below
  <2>4. IsFiniteSet(Page) /\ Cardinality(Page) \in Nat
    BY <1>1, <1>2, FS_Subset, FS_CardinalityType
  <2>5. Cardinality(below(x)) <= Cardinality(Page)
    BY <2>2, <2>4, FS_Subset
  <2> QED BY <1>1, <1>3, <2>3, <2>4, <2>5
<1> QED BY <1>5, <1>6, <1>7

LEMMA ReadBatchBackfills ==
    ASSUME Inv, BackfillInv, ReadBatch
    PROVE  BackfillInv'
<1>1. UNCHANGED <<rows, cursor, outbox, topic>> /\ Shared' \in {{}, Page}
  BY ReadBatchKeeps DEF ReadBatch, tables, stream
<1>2. \A m : Told(m)' = Told(m) /\ Reached(m)' = Reached(m)
  BY <1>1 DEF Told, Pending, Reached
<1>3. Here' = Here
  BY <1>1 DEF Here
<1>4. ASSUME NEW m \in Here \ Page, ~Told(m) PROVE Cardinality(Page) >= BatchSize /\ \A s \in Page : s < m
  <2>1. ~Reached(m)
    BY <1>4 DEF BackfillInv
  <2>2. cursor \in Nat /\ m \in Nat /\ ~(m <= cursor)
    <3>1. cursor \in Members \cup {0, Completed} /\ m \in Members
      BY <1>4 DEF Here, Inv, TypeInv, TablesTyped
    <3> QED BY <2>1, <3>1, MembershipAssumption DEF Reached
  <2>3. m \in Unread
    BY <2>2, <1>4 DEF Unread
  <2> QED BY <1>4, <2>3, PageIs
<1>5. \A m \in Here' : Reached(m)' => Told(m)'
  BY <1>2, <1>3 DEF BackfillInv
<1>6. Shared' # {} => \A m \in Here' \ Shared' :
         ~Told(m)' => Cardinality(Shared') >= BatchSize /\ \A s \in Shared' : s < m
  BY <1>1, <1>2, <1>3, <1>4
<1> QED BY <1>5, <1>6 DEF BackfillInv

LEMMA RunAgainBackfills ==
    ASSUME Inv, BackfillInv, RunAgain
    PROVE  BackfillInv'
<1>1. UNCHANGED <<rows, tx, outbox, topic>> /\ cursor' = 0
  BY DEF RunAgain, stream
<1>2. \A m \in Members : ~Reached(m)'
  BY <1>1, MembershipAssumption DEF Reached
<1>3. (\A m : Told(m)' = Told(m)) /\ Here' = Here /\ Shared' = Shared
  BY <1>1 DEF Told, Pending, Here, Shared
<1>4. \A m \in Here' : Reached(m)' => Told(m)'
  BY <1>2 DEF Here
<1> QED BY <1>3, <1>4 DEF BackfillInv

LEMMA CommitBatchBackfills ==
    ASSUME Inv, BackfillInv, CommitBatch
    PROVE  BackfillInv'
<1> PICK work : work = tx["backfill"].work
  OBVIOUS
<1> PICK xid : xid = tx["backfill"].xid
  OBVIOUS
<1>1. /\ tx["backfill"] # Absent /\ Publish(xid, work) /\ UNCHANGED <<rows, stream>>
      /\ cursor' = IF Cardinality(Shared) < BatchSize THEN Completed ELSE Max(Shared)
      /\ Shared = {} => Page = {}
  BY DEF CommitBatch
<1>2. Shared = DOMAIN work /\ Shared \subseteq Members /\ Shared' = {} /\ Here' = Here
  BY <1>1, BatchHolds, CommitBatchKeeps DEF Inv, Here
<1>3. xid \notin DOMAIN outbox
  <2>1. "backfill" \in Open
    BY <1>1 DEF Open, Kinds
  <2> QED BY <2>1 DEF Inv, TypeInv, XidsApart
<1>4. \A m : (Told(m) => Told(m)') /\ (m \in Shared => Told(m)')
  BY <1>1, <1>2, <1>3, PublishTells
<1>5. ASSUME NEW m \in Here, Reached(m)' PROVE Told(m)'
  <2> SUFFICES ASSUME ~Told(m), m \notin Shared PROVE FALSE
    BY <1>4
  <2>1. m \in Members /\ ~Reached(m)
    BY DEF BackfillInv, Here
  <2>2. CASE Shared = {}
    <3>1. cursor \in Nat /\ m \in Nat /\ ~(m <= cursor)
      <4>1. cursor \in Members \cup {0, Completed}
        BY DEF Inv, TypeInv, TablesTyped
      <4> QED BY <2>1, <4>1, MembershipAssumption DEF Reached
    <3>2. m \in Unread
      BY <3>1, <1>5 DEF Unread
    <3> QED BY <1>1, <2>2, <3>2, PageIs
  <2>3. CASE Shared # {}
    <3>1. Cardinality(Shared) >= BatchSize /\ \A s \in Shared : s < m
      BY <1>5, <2>3 DEF BackfillInv
    <3>2. IsFiniteSet(Shared) /\ Cardinality(Shared) \in Nat
      BY <1>2, MembershipAssumption, FS_Subset, FS_CardinalityType
    <3>3. cursor' = Max(Shared)
      BY <1>1, <3>1, <3>2, MembershipAssumption
    <3>4. Max(Shared) \in Shared
      BY <1>2, <2>3, LastOfMembers
    <3>5. cursor' \in Nat /\ cursor' # Completed /\ m \in Nat /\ cursor' < m
      BY <1>2, <2>1, <3>1, <3>3, <3>4, MembershipAssumption
    <3> QED BY <1>5, <3>5 DEF Reached
  <2> QED BY <2>2, <2>3
<1> QED BY <1>2, <1>5 DEF BackfillInv

\* Steps by what they do to the members' records and to the backfill's progress.
LEMMA QuietKeeps ==
    ASSUME TypeInv, ReadInv, UNCHANGED <<org, rows, outbox, stream, overtaken>>,
           BackfillInv' \/ (cursor' = cursor /\ (Shared' = Shared \/ Shared' = {}))
    PROVE  ReadInv'
<1>1. \A m \in Members \ overtaken' : MemberInv(m)'
  BY QuietKeepsMember DEF ReadInv
<1>2. Here' = Here /\ \A m : Told(m)' = Told(m)
  BY DEF Here, Told, Pending, stream
<1>3. BackfillInv'
  BY <1>2, BackfillKept DEF ReadInv
<1> QED BY <1>1, <1>3 DEF ReadInv

LEMMA CommitsKeepRead ==
    ASSUME TypeInv, ReadInv, OutboxTyped', NEW xid, NEW written, Commits(xid, written)
    PROVE  ReadInv'
<1> PICK records : records = [n \in DOMAIN written |-> IF written[n] = Absent THEN Tombstone ELSE written[n]]
  OBVIOUS
<1>1. Publish(xid, records) /\ xid \notin DOMAIN outbox /\ UNCHANGED stream /\ DOMAIN records = DOMAIN written
      /\ cursor' = cursor /\ tx'["backfill"] = tx["backfill"]
  BY DEF Commits, WriteAndPublish
<1>2. \A m \in Members \ overtaken' : MemberInv(m)'
  BY CommitsKeepMember DEF ReadInv
<1>3. \A m : (Told(m) => Told(m)') /\ (m \in DOMAIN written => Told(m)')
  BY <1>1, PublishTells
<1>4. \A m \in Here' : m \in Here \/ Told(m)'
  <2>1. \A m \in Members : m \notin DOMAIN written => rows'[m] = rows[m]
    BY DEF Commits, SamePublished
  <2> QED BY <1>3, <2>1 DEF Here
<1>5. Shared' = Shared
  BY <1>1 DEF Shared
<1>6. BackfillInv'
  BY <1>1, <1>3, <1>4, <1>5, BackfillKept DEF ReadInv
<1> QED BY <1>2, <1>6 DEF ReadInv

\* A record that a batch publishes says what the row still says.
LEMMA CommitBatchKeepsRead ==
    ASSUME Inv, ReadInv, CommitBatch
    PROVE  ReadInv'
<1> PICK work : work = tx["backfill"].work
  OBVIOUS
<1> PICK xid : xid = tx["backfill"].xid
  OBVIOUS
<1>1. tx["backfill"] # Absent /\ Publish(xid, work) /\ UNCHANGED <<org, rows, stream>> /\ TypeInv
  BY DEF CommitBatch, Inv
<1>2. /\ Shared = DOMAIN work /\ Shared \subseteq Here
      /\ \A m \in Shared : work[m] = AsPublished(m) /\ AsPublished(m) \in Row
  BY <1>1, BatchHolds
<1>3. xid \notin DOMAIN outbox /\ xid \in Nat
  <2>1. "backfill" \in Open
    BY <1>1 DEF Open, Kinds
  <2> QED BY <2>1 DEF Inv, TypeInv, XidsApart
<1>4. ASSUME NEW m \in Members, m \notin overtaken' PROVE MemberInv(m)'
  <2>1. m \notin overtaken /\ MemberInv(m)
    <3>1. overtaken \subseteq overtaken'
      BY <1>1 DEF Publish
    <3> QED BY <1>4, <3>1 DEF ReadInv
  <2>2. rows[m] # Absent => rows[m] \in Row /\ rows[m].version \in Nat /\ rows[m].version >= rows[m].version
    <3>1. rows[m] # Absent => rows[m] \in Row
      BY <1>1 DEF TypeInv, TablesTyped
    <3> QED BY <3>1 DEF Row
  <2>3. Status(m)' = Status(m)
    BY <1>1 DEF Status
  <2>4. CASE m \in Shared
    <3>1. rows[m] # Absent /\ work[m] = AsPublished(m) /\ work[m] \in Row /\ work[m] # Tombstone
      BY <1>2, <2>4, MembershipAssumption DEF Here
    <3>2. work[m].role = rows[m].role /\ work[m].status = Status(m) /\ work[m].version = rows[m].version
      BY <2>2, <3>1 DEF AsPublished, Row
    <3>3. Right(m, work[m])'
      BY <1>1, <2>2, <2>3, <3>1, <3>2 DEF Right
    <3>4. work[m] \in Record /\ m \in DOMAIN work
      BY <1>2, <2>4, <3>1 DEF Record
    <3> QED BY <1>1, <1>3, <1>4, <2>1, <2>2, <3>1, <3>3, <3>4, PublishedKeeps
  <2>5. CASE m \notin Shared
    <3>1. Pending(m)' = Pending(m) /\ \A x \in Pending(m) : outbox'[x][m] = outbox[x][m]
      BY <1>1, <1>2, <1>3, <2>5 DEF Publish, Pending
    <3> QED BY <1>1, <2>1, <2>2, <2>3, <3>1, UnpublishedKeeps
  <2> QED BY <2>4, <2>5
<1>5. BackfillInv'
  BY CommitBatchBackfills DEF ReadInv
<1> QED BY <1>4, <1>5 DEF ReadInv

\* The relay's, the broker's and the reader's steps.
LEMMA MovedKeeps ==
    ASSUME ReadInv, UNCHANGED <<rows, cursor, tx, overtaken>>,
           \A m \in Members : (MemberInv(m) => MemberInv(m)'),
           \A m \in Members : Told(m) => Told(m)'
    PROVE  ReadInv'
<1>1. Here' = Here /\ Shared' = Shared
  BY DEF Here, Shared
<1>2. BackfillInv'
  BY <1>1, BackfillKept DEF ReadInv
<1> QED BY <1>2 DEF ReadInv

LEMMA RelayTells ==
    ASSUME TypeInv, Relay, NEW m \in Members, Told(m)
    PROVE  Told(m)'
<1>1. PICK xid : xid = Min(DOMAIN outbox)
  OBVIOUS
<1>2. /\ topic'[m] = IF m \in DOMAIN outbox[xid] THEN Append(topic[m], outbox[xid][m]) ELSE topic[m]
      /\ outbox' = [x \in DOMAIN outbox \ {xid} |-> outbox[x]]
  BY <1>1 DEF Relay, Restrict
<1>3. xid \in DOMAIN outbox
  <2> PICK S : S = DOMAIN outbox
    OBVIOUS
  <2>1. S \subseteq Nat /\ S # {}
    BY DEF TypeInv, OutboxTyped, Relay
  <2> QED BY <1>1, <2>1, MinIs
<1>4. topic[m] \in Seq(Record)
  BY ReaderIs
<1>5. CASE m \in DOMAIN outbox[xid]
  <2>1. outbox[xid][m] \in Record
    BY <1>3, <1>5 DEF TypeInv, OutboxTyped
  <2>2. topic'[m] # <<>>
    BY <1>2, <1>4, <1>5, <2>1
  <2> QED BY <2>2 DEF Told
<1>6. CASE m \notin DOMAIN outbox[xid]
  <2>1. Pending(m)' = Pending(m) /\ topic'[m] = topic[m]
    BY <1>2, <1>6 DEF Pending
  <2> QED BY <2>1 DEF Told
<1> QED BY <1>5, <1>6

LEMMA CompactTells ==
    ASSUME TypeInv, NEW k \in Members, Compact(k), NEW m \in Members, Told(m)
    PROVE  Told(m)'
<1>1. Pending(m)' = Pending(m)
  BY DEF Compact, Pending
<1>2. topic[m] # <<>> => topic'[m] # <<>>
  <2>1. topic' = [topic EXCEPT ![k] = <<@[Len(@)]>>] /\ DOMAIN topic = Members
    BY ReaderIs DEF Compact
  <2> QED BY <2>1
<1> QED BY <1>1, <1>2 DEF Told

LEMMA StreamStepKeepsRead ==
    ASSUME Inv, ReadInv, StreamStep
    PROVE  ReadInv'
<1>1. TypeInv
  BY DEF Inv
<1>2. ASSUME Relay PROVE ReadInv'
  <2>1. UNCHANGED <<rows, cursor, tx, overtaken>>
    BY <1>2 DEF Relay, tables
  <2>2. \A m \in Members : (MemberInv(m) => MemberInv(m)')
    BY <1>1, <1>2, RelayKeepsMember
  <2>3. \A m \in Members : Told(m) => Told(m)'
    BY <1>1, <1>2, RelayTells
  <2> QED BY <2>1, <2>2, <2>3, MovedKeeps
<1>3. ASSUME NEW k \in Members, Compact(k) PROVE ReadInv'
  <2>1. UNCHANGED <<rows, cursor, tx, overtaken>>
    BY <1>3 DEF Compact, tables
  <2>2. \A m \in Members : (MemberInv(m) => MemberInv(m)')
    BY <1>1, <1>3, CompactKeepsMember
  <2>3. \A m \in Members : Told(m) => Told(m)'
    BY <1>1, <1>3, CompactTells
  <2> QED BY <2>1, <2>2, <2>3, MovedKeeps
<1>4. ASSUME OnlyTheReader, \A m \in Members : (MemberInv(m) => MemberInv(m)') PROVE ReadInv'
  <2>1. UNCHANGED <<rows, cursor, tx, overtaken>>
    BY <1>4 DEF OnlyTheReader, tables
  <2>2. \A m \in Members : Told(m) => Told(m)'
    BY <1>4, ReaderStepLeaves
  <2> QED BY <1>4, <2>1, <2>2, MovedKeeps
<1>5. ASSUME NEW k \in Members, Consume(k) PROVE ReadInv'
  <2>1. \A m \in Members : (MemberInv(m) => MemberInv(m)')
    BY <1>5, ConsumeKeepsMember
  <2> QED BY <1>4, <1>5, <2>1 DEF Consume
<1>6. ASSUME NEW k \in Members, Redeliver(k) PROVE ReadInv'
  <2>1. \A m \in Members : (MemberInv(m) => MemberInv(m)')
    BY <1>6, RedeliverKeepsMember
  <2> QED BY <1>4, <1>6, <2>1 DEF Redeliver
<1>7. ASSUME Rebuild PROVE ReadInv'
  <2>1. \A m \in Members : (MemberInv(m) => MemberInv(m)')
    BY <1>7, RebuildKeepsMember
  <2> QED BY <1>4, <1>7, <2>1 DEF Rebuild
<1>8. ASSUME OrgDeleted PROVE ReadInv'
  <2>1. \A m \in Members : (MemberInv(m) => MemberInv(m)')
    BY <1>8, OrgDeletedKeepsMember
  <2> QED BY <1>4, <1>8, <2>1 DEF OrgDeleted
<1> QED BY <1>2, <1>3, <1>5, <1>6, <1>7, <1>8 DEF StreamStep

\* Begins, but for the backfill's, leave its batch alone.
LEMMA BeginKeepsRead ==
    ASSUME Inv, ReadInv, NEW kind \in Kinds, NEW work, Begin(kind, work), kind = "backfill" => work = <<>>
    PROVE  ReadInv'
<1>1. TypeInv /\ UNCHANGED <<org, rows, cursor, outbox, stream, overtaken>>
  BY DEF Begin, tables, Inv
<1>2. Shared' = Shared \/ Shared' = {}
  <2>1. tx'[kind].work = work /\ \A k \in Kinds : k # kind => tx'[k] = tx[k]
    BY <1>1, BeginDoes
  <2>2. CASE kind = "backfill"
    BY <2>1, <2>2 DEF Shared
  <2>3. CASE kind # "backfill"
    BY <2>1, <2>3 DEF Shared, Kinds
  <2> QED BY <2>2, <2>3
<1> QED BY <1>1, <1>2, QuietKeeps

LEMMA RestKeepsRead ==
    ASSUME Inv, ReadInv,
           UNCHANGED vars \/ RunAgain \/ ReadBatch \/ CommitProfile
              \/ (\E m \in Members : (\E role \in Roles : Invite(m, role)) \/ EndInvite(m))
              \/ (\E kind \in Kinds : Rollback(kind))
    PROVE  ReadInv'
<1>1. TypeInv /\ BackfillInv
  BY DEF Inv, ReadInv
<1>2. ASSUME UNCHANGED vars \/ (\E m \in Members : (\E role \in Roles : Invite(m, role)) \/ EndInvite(m)) PROVE ReadInv'
  <2>1. UNCHANGED <<org, rows, cursor, tx, outbox, stream, overtaken>>
    BY <1>2 DEF vars, tables, stream, Invite, EndInvite
  <2>2. Shared' = Shared
    BY <2>1 DEF Shared
  <2> QED BY <1>1, <2>1, <2>2, QuietKeeps
<1>3. ASSUME RunAgain PROVE ReadInv'
  BY <1>1, <1>3, RunAgainBackfills, QuietKeeps DEF RunAgain
<1>4. ASSUME ReadBatch PROVE ReadInv'
  BY <1>1, <1>4, ReadBatchBackfills, QuietKeeps DEF ReadBatch, tables
<1>5. ASSUME NEW kind \in Kinds, Rollback(kind) PROVE ReadInv'
  <2>1. UNCHANGED <<org, rows, cursor, outbox, stream, overtaken>>
    BY <1>5 DEF Rollback, tables
  <2>2. Shared' = Shared \/ Shared' = {}
    <3>1. tx'[kind] = Absent /\ \A k \in Kinds : k # kind => tx'[k] = tx[k]
      BY <1>5, RollbackKeeps
    <3> QED BY <3>1 DEF Shared, Kinds
  <2> QED BY <1>1, <2>1, <2>2, QuietKeeps
<1>6. ASSUME CommitProfile PROVE ReadInv'
  <2>1. UNCHANGED <<org, cursor, outbox, stream, overtaken>> /\ tx' = [tx EXCEPT !["profile"] = Absent]
        /\ \A m \in Members : Raises(m)
    BY <1>6, CommitProfileKeeps DEF CommitProfile
  <2>2. \A m \in Members \ overtaken' : MemberInv(m)'
    BY <1>6, <2>1, ProfileKeepsMember DEF ReadInv
  <2>3. Here' \subseteq Here
    BY <2>1, MembershipAssumption DEF Here, Raises
  <2>4. Shared' = Shared
    BY <2>1 DEF Shared, TypeInv, XidsApart, Inv, Kinds
  <2>5. \A m : Told(m)' = Told(m)
    BY <2>1 DEF Told, Pending, stream
  <2>6. BackfillInv'
    BY <1>1, <2>1, <2>3, <2>4, <2>5, BackfillKept
  <2> QED BY <2>2, <2>6 DEF ReadInv
<1> QED BY <1>2, <1>3, <1>4, <1>5, <1>6

\* Every begin is one of its kind, the backfill's with nothing read.
LEMMA Begins ==
    ASSUME \/ \E actor, target \in Members : \/ \E role \in Roles : ChangeRole(actor, target, role)
                                             \/ Remove(actor, target)
                                             \/ TransferOwnership(actor, target)
           \/ \E actor \in Members : Delete(actor)
           \/ Purge \/ Sweep \/ OpenBatch
           \/ \E m \in Members : ReadProfile(m)
    PROVE  \E kind \in Kinds : \E work : Begin(kind, work) /\ (kind = "backfill" => work = <<>>)
<1> SUFFICES (\E work : Begin("org", work) \/ Begin("profile", work) \/ Begin("sweep", work)) \/ Begin("backfill", <<>>)
  BY DEF Kinds
<1>1. ASSUME NEW actor \in Members, NEW target \in Members,
             (\E role \in Roles : ChangeRole(actor, target, role)) \/ Remove(actor, target) \/ TransferOwnership(actor, target)
      PROVE  \E work : Begin("org", work)
  BY <1>1 DEF ChangeRole, Remove, TransferOwnership, Change
<1> QED BY <1>1 DEF Delete, Purge, Sweep, OpenBatch, ReadProfile

LEMMA ReadKept ==
    ASSUME Inv, Inv', ReadInv, [Next]_vars
    PROVE  ReadInv'
<1>1. TypeInv /\ OutboxTyped'
  BY DEF Inv, TypeInv
<1>2. ASSUME NEW kind \in Kinds, NEW work, Begin(kind, work), kind = "backfill" => work = <<>> PROVE ReadInv'
  BY <1>2, BeginKeepsRead
<1>3. ASSUME NEW xid, NEW written, Commits(xid, written) PROVE ReadInv'
  BY <1>1, <1>3, CommitsKeepRead
<1>4. ASSUME OrgStep PROVE ReadInv'
  <2>1. (CommitChange \/ CommitDelete \/ CommitPurge) => \E xid, written : Commits(xid, written)
    BY CommitChangeKeeps, CommitDeleteKeeps, CommitPurgeKeeps
  <2>2. ~(CommitChange \/ CommitDelete \/ CommitPurge) =>
           \E kind \in Kinds : \E work : Begin(kind, work) /\ (kind = "backfill" => work = <<>>)
    BY <1>4, Begins DEF OrgStep
  <2> QED BY <1>2, <1>3, <2>1, <2>2
<1>5. ASSUME MemberStep PROVE ReadInv'
  <2>1. ASSUME NEW m \in Members, Accept(m) PROVE ReadInv'
    <3>1. \E xid, written : Commits(xid, written)
      BY <2>1, AcceptKeeps
    <3> QED BY <1>3, <3>1
  <2>2. ASSUME NEW m \in Members, ReadProfile(m) PROVE ReadInv'
    <3>1. \E kind \in Kinds : \E work : Begin(kind, work) /\ (kind = "backfill" => work = <<>>)
      BY <2>2, Begins
    <3> QED BY <1>2, <3>1
  <2>3. ASSUME NEW m \in Members, (\E role \in Roles : Invite(m, role)) \/ EndInvite(m) PROVE ReadInv'
    BY <2>3, RestKeepsRead
  <2> QED BY <1>5, <2>1, <2>2, <2>3 DEF MemberStep
<1>6. ASSUME UpkeepStep PROVE ReadInv'
  <2>1. ASSUME NEW old \in SUBSET LongRemoved, CommitSweep(old) PROVE ReadInv'
    <3>1. \E xid, written : Commits(xid, written)
      BY <2>1, CommitSweepKeeps
    <3> QED BY <1>3, <3>1
  <2>2. ASSUME Sweep \/ OpenBatch PROVE ReadInv'
    <3>1. \E kind \in Kinds : \E work : Begin(kind, work) /\ (kind = "backfill" => work = <<>>)
      BY <2>2, Begins
    <3> QED BY <1>2, <3>1
  <2>3. ASSUME RunAgain \/ ReadBatch \/ CommitProfile \/ (\E kind \in Kinds : Rollback(kind)) PROVE ReadInv'
    BY <2>3, RestKeepsRead
  <2> QED BY <1>6, <2>1, <2>2, <2>3, CommitBatchKeepsRead DEF UpkeepStep
<1>7. ASSUME UNCHANGED vars PROVE ReadInv'
  BY <1>7, RestKeepsRead
<1> QED BY <1>4, <1>5, <1>6, <1>7, StreamStepKeepsRead DEF Next

LEMMA InitHasRead ==
    ASSUME Init
    PROVE  ReadInv
<1>1. \A m \in Members : Pending(m) = {} /\ topic[m] = <<>> /\ ~Told(m) /\ reader.table[m] = Absent
  <2> TAKE m \in Members
  <2>1. Pending(m) = {} /\ topic[m] = <<>> /\ reader.table[m] = Absent
    BY DEF Init, Pending
  <2> QED BY <2>1 DEF Told
<1>2. ASSUME NEW m \in Members PROVE MemberInv(m)
  <2>1. Truth(m) /\ OutboxInOrder(m) /\ HoldsNothing(m) /\ HoldsOlder(m) /\ HoldsLast(m)
    BY <1>1 DEF Truth, OutboxInOrder, HoldsNothing, HoldsOlder, HoldsLast
  <2>2. TopicInOrder(m)
    <3>1. \A i \in 1..Len(topic[m]) : FALSE
      BY <1>1
    <3> QED BY <3>1 DEF TopicInOrder
  <2> QED BY <2>1, <2>2 DEF MemberInv
<1>3. BackfillInv
  <2>1. Shared = {} /\ cursor = 0
    BY DEF Init, Shared, Kinds
  <2>2. \A m \in Members : ~Reached(m)
    BY <2>1, MembershipAssumption DEF Reached
  <2> QED BY <2>1, <2>2 DEF BackfillInv, Here
<1> QED BY <1>2, <1>3 DEF ReadInv

LEMMA ReadInvHolds == Spec => []ReadInv
<1>1. Init => ReadInv
  BY InitHasRead
<1>2. Inv /\ Inv' /\ ReadInv /\ [Next]_vars => ReadInv'
  BY ReadKept
<1> QED BY <1>1, <1>2, InvHolds, PTL DEF Spec

(* A read model of another service that has read everything published is   *)
(* right about every member none of whose records was published out of     *)
(* order: whatever of the topic was compacted, delivered again, read from   *)
(* the start into an empty table, or came before or after org.deleted       *)
(* (MembershipStateListener, MembershipStatePublisher).                     *)
THEOREM ReadersComeRight == Spec => []ReadModelRight
<1>1. Inv /\ ReadInv => ReadModelRight
  <2> SUFFICES ASSUME Inv, ReadInv, Settled, NEW m \in Members \ overtaken, Published(m)
               PROVE  IF rows[m] = Absent THEN reader.table[m] = Absent
                      ELSE /\ reader.table[m] # Absent /\ reader.table[m].role = rows[m].role
                           /\ reader.table[m].status = Status(m)
    BY DEF ReadModelRight
  <2>1. Pending(m) = {} /\ reader.pos[m] = Len(topic[m]) /\ MemberInv(m)
    <3>1. DOMAIN outbox = {}
      BY DEF Settled
    <3> QED BY <3>1 DEF Settled, Pending, ReadInv
  <2>2. CASE ~Told(m)
    <3>1. reader.table[m] = Absent
      BY <2>1, <2>2 DEF MemberInv, HoldsNothing
    <3>2. rows[m] = Absent
      BY <2>2 DEF Published, Told, ReadInv, BackfillInv, Reached, Here
    <3> QED BY <3>1, <3>2
  <2>3. CASE Told(m)
    <3>1. reader.table[m] = (IF Last(m) = Tombstone THEN Absent ELSE Last(m)) /\ Right(m, Last(m))
      BY <2>1, <2>3 DEF MemberInv, HoldsLast, Truth
    <3>2. Last(m) \in Record
      BY <2>3, LastIs DEF Inv
    <3>3. Last(m) # Tombstone => Last(m) # Absent
      BY <3>2, MembershipAssumption DEF Record
    <3> QED BY <3>1, <3>3 DEF Right
  <2> QED BY <2>2, <2>3
<1> QED BY <1>1, InvHolds, ReadInvHolds, PTL
=============================================================================
