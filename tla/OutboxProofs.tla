---------------------------- MODULE OutboxProofs ----------------------------
(* Proofs about Outbox: its relays, which may crash, lose their lock and     *)
(* work on one batch at once, make a feed of the rows, and its consumers     *)
(* apply every event once and in order; for any number of orgs,              *)
(* transactions, rows, relays and faults.                                    *)
EXTENDS Outbox, FiniteSetTheorems, SequenceTheorems, WellFoundedInduction, TLAPS

-----------------------------------------------------------------------------
(* The invariant                                                             *)

RowType == [tx : Txs, status : {"PENDING", "PUBLISHED", "PARKED"}, attempts : Nat, due : BOOLEAN]

WritersTyped ==
    /\ tx \in [Txs -> {"NEW", "OPEN", "COMMITTED", "ROLLED_BACK"}]
    /\ xid \in [Txs -> Nat]
    /\ holder \in [Orgs -> Txs \cup {Nobody}]
    /\ rows \in Seq(RowType)

RelaysTyped ==
    /\ leader \in Relays \cup {Nobody}
    /\ batch \in [Relays -> Seq(Nat)]
    /\ sent \in [Relays -> BOOLEAN]
    /\ blocked \in [Relays -> SUBSET Orgs]
    /\ faults \in Nat /\ faults <= MaxFaults
    /\ log \in [Orgs -> Seq(Nat)]

ConsumersTyped ==
    /\ acked \in [Orgs -> Nat]
    /\ handled \in [Orgs -> BOOLEAN]
    /\ tries \in [Orgs -> Nat]
    /\ claimed \in SUBSET Nat
    /\ applied \in [Orgs -> Seq(Nat)]
    /\ dead \in SUBSET Nat

TypeOK == WritersTyped /\ RelaysTyped /\ ConsumersTyped

\* Ids are taken once, in the order of the first writes, and only who has one writes rows.
IdsTaken ==
    /\ IsFiniteSet(Begun)
    /\ \A t \in Txs : (xid[t] = 0 <=> tx[t] = "NEW") /\ xid[t] <= Cardinality(Begun)
    /\ \A t, u \in Begun : xid[t] = xid[u] => t = u
    /\ \A r \in DOMAIN rows : tx[rows[r].tx] # "NEW"

\* The rows of r's org that come before it and that no transaction can add to any more.
Ahead(r) == {q \in Settled : OrgOf(q) = OrgOf(r) /\ Precedes(q, r)}

\* A partition holds settled rows of its org, each behind everything ahead of it.
LogInOrder ==
    \A o \in Orgs : \A k \in DOMAIN log[o] :
        /\ log[o][k] \in Settled /\ OrgOf(log[o][k]) = o
        /\ \A q \in Ahead(log[o][k]) : \E j \in 1..(k - 1) : log[o][j] = q

Logged(r) == \E k \in DOMAIN log[OrgOf(r)] : log[OrgOf(r)][k] = r

\* What a relay has left to send can be sent row by row: everything ahead of a row is in the
\* partition or earlier in the batch, unless the row's org is passed over.
BatchInOrder ==
    \A i \in Relays : \A n \in DOMAIN batch[i] :
        /\ batch[i][n] \in Settled
        /\ OrgOf(batch[i][n]) \notin blocked[i] =>
             \A q \in Ahead(batch[i][n]) : Logged(q) \/ \E m \in 1..(n - 1) : batch[i][m] = q

\* What is or will be marked as published is in its partition.
PublishedLogged ==
    /\ \A r \in DOMAIN rows : rows[r].status = "PUBLISHED" => r \in Settled /\ Logged(r)
    /\ \A i \in Relays : sent[i] => batch[i] # <<>> /\ Logged(Current(i))

RelayInv == TypeOK /\ IdsTaken /\ LogInOrder /\ BatchInOrder /\ PublishedLogged

-----------------------------------------------------------------------------
(* Ranks: a finite set in a strict total order R has one element of each     *)
(* rank.                                                                     *)

Under(S, R, x) == {q \in S : <<q, x>> \in R}

Orders(S, R) ==
    /\ \A x \in S : <<x, x>> \notin R
    /\ \A x, y, z \in S : <<x, y>> \in R /\ <<y, z>> \in R => <<x, z>> \in R
    /\ \A x, y \in S : x # y => <<x, y>> \in R \/ <<y, x>> \in R

\* Who comes later has more before it.
LEMMA LaterHasMore ==
    ASSUME NEW S, IsFiniteSet(S), NEW R, Orders(S, R), NEW x \in S, NEW y \in S, <<x, y>> \in R
    PROVE  Cardinality(Under(S, R, x)) < Cardinality(Under(S, R, y))
<1>1. Under(S, R, x) \subseteq Under(S, R, y) /\ x \in Under(S, R, y) /\ x \notin Under(S, R, x)
  BY DEF Under, Orders
<1>2. IsFiniteSet(Under(S, R, y)) /\ IsFiniteSet(Under(S, R, x))
  BY FS_Subset DEF Under
<1>3. /\ Cardinality(Under(S, R, x)) <= Cardinality(Under(S, R, y))
      /\ Cardinality(Under(S, R, x)) = Cardinality(Under(S, R, y)) => Under(S, R, x) = Under(S, R, y)
  BY <1>1, <1>2, FS_Subset
<1> QED BY <1>1, <1>2, <1>3, FS_CardinalityType

LEMMA RankBounds ==
    ASSUME NEW S, IsFiniteSet(S), NEW R, Orders(S, R), NEW x \in S
    PROVE  Cardinality(Under(S, R, x)) \in 0..(Cardinality(S) - 1)
<1>1. Under(S, R, x) \subseteq S /\ x \notin Under(S, R, x)
  BY DEF Under, Orders
<1>2. IsFiniteSet(Under(S, R, x)) /\ Cardinality(Under(S, R, x)) \in Nat /\ Cardinality(S) \in Nat
  BY <1>1, FS_Subset, FS_CardinalityType
<1>3. Cardinality(Under(S, R, x)) <= Cardinality(S) /\ Cardinality(Under(S, R, x)) # Cardinality(S)
  BY <1>1, FS_Subset
<1> QED BY <1>2, <1>3

LEMMA SameRankSame ==
    ASSUME NEW S, IsFiniteSet(S), NEW R, Orders(S, R), NEW x \in S, NEW y \in S,
           Cardinality(Under(S, R, x)) = Cardinality(Under(S, R, y))
    PROVE  x = y
<1>1. Cardinality(Under(S, R, x)) \in Nat
  BY RankBounds, FS_CardinalityType
<1>2. ~(<<x, y>> \in R) /\ ~(<<y, x>> \in R)
  BY <1>1, LaterHasMore
<1> QED BY <1>2 DEF Orders

LEMMA EveryRankTaken ==
    ASSUME NEW S, IsFiniteSet(S), NEW R, Orders(S, R), NEW n \in 1..Cardinality(S)
    PROVE  \E x \in S : Cardinality(Under(S, R, x)) = n - 1
<1> DEFINE T == 0..(Cardinality(S) - 1)
           f == [x \in S |-> Cardinality(Under(S, R, x))]
<1>1. Cardinality(S) \in Nat
  BY FS_CardinalityType
<1>2. IsFiniteSet(T) /\ Cardinality(T) = Cardinality(S)
  <2>1. 0 \in Int /\ Cardinality(S) - 1 \in Int
    BY <1>1
  <2> QED BY <1>1, <2>1, FS_Interval
<1>3. f \in [S -> T]
  BY RankBounds
<1>4. \A x, y \in S : f[x] = f[y] => x = y
  BY SameRankSame
<1>5. f \in Injection(S, T)
  BY <1>3, <1>4 DEF Injection, IsInjective
<1>6. f \in Surjection(S, T)
  BY <1>2, <1>5, FS_Injection
<1>7. n - 1 \in T
  BY <1>1
<1> QED BY <1>6, <1>7 DEF Surjection

\* S in the order R.
Listed(S, R) == [n \in 1..Cardinality(S) |-> CHOOSE x \in S : Cardinality(Under(S, R, x)) = n - 1]

\* Every element stands once in the list, behind as many as come before it.
LEMMA ListedAt ==
    ASSUME NEW S, IsFiniteSet(S), NEW R, Orders(S, R)
    PROVE  /\ Listed(S, R) \in Seq(S) /\ Len(Listed(S, R)) = Cardinality(S)
           /\ \A n \in 1..Cardinality(S) : Cardinality(Under(S, R, Listed(S, R)[n])) = n - 1
           /\ \A x \in S : Cardinality(Under(S, R, x)) + 1 \in 1..Cardinality(S)
           /\ \A x \in S : Listed(S, R)[Cardinality(Under(S, R, x)) + 1] = x
<1> DEFINE at(n) == CHOOSE x \in S : Cardinality(Under(S, R, x)) = n - 1
<1>1. Cardinality(S) \in Nat
  BY FS_CardinalityType
<1>2. ASSUME NEW n \in 1..Cardinality(S)
      PROVE  at(n) \in S /\ Cardinality(Under(S, R, at(n))) = n - 1
  BY EveryRankTaken
<1>3. Listed(S, R) = [n \in 1..Cardinality(S) |-> at(n)]
  BY DEF Listed
<1> HIDE DEF at
<1>4. ASSUME NEW x \in S
      PROVE  /\ Cardinality(Under(S, R, x)) + 1 \in 1..Cardinality(S)
             /\ at(Cardinality(Under(S, R, x)) + 1) = x
  <2> DEFINE n == Cardinality(Under(S, R, x)) + 1
  <2>1. n \in 1..Cardinality(S) /\ n - 1 = Cardinality(Under(S, R, x))
    BY <1>1, RankBounds
  <2>2. at(n) \in S /\ Cardinality(Under(S, R, at(n))) = Cardinality(Under(S, R, x))
    BY <1>2, <2>1
  <2>3. at(n) = x
    BY <2>2, SameRankSame
  <2> QED BY <2>1, <2>3
<1> QED BY <1>1, <1>2, <1>3, <1>4

\* A set that grows only behind its elements keeps its list as the beginning of the new one.
LEMMA ListGrows ==
    ASSUME NEW S, NEW T, IsFiniteSet(T), S \subseteq T, NEW R, NEW Q, Orders(S, R), Orders(T, Q),
           \A x \in S : Under(T, Q, x) = Under(S, R, x), NEW n \in 1..Cardinality(S)
    PROVE  n \in 1..Cardinality(T) /\ Listed(T, Q)[n] = Listed(S, R)[n]
<1>1. IsFiniteSet(S) /\ Cardinality(S) <= Cardinality(T) /\ Cardinality(S) \in Nat /\ Cardinality(T) \in Nat
  BY FS_Subset, FS_CardinalityType
<1>2. Listed(S, R)[n] \in S /\ Cardinality(Under(S, R, Listed(S, R)[n])) = n - 1
  BY <1>1, ListedAt
<1>3. Cardinality(Under(T, Q, Listed(S, R)[n])) + 1 = n
  BY <1>1, <1>2
<1>4. n \in 1..Cardinality(T)
  BY <1>1
<1>5. Listed(T, Q)[Cardinality(Under(T, Q, Listed(S, R)[n])) + 1] = Listed(S, R)[n]
  BY <1>2, ListedAt
<1> QED BY <1>3, <1>4, <1>5, Zenon

-----------------------------------------------------------------------------
(* A sequence without its repetitions.                                       *)

Values(s) == {s[k] : k \in DOMAIN s}
Fresh(s) == {k \in DOMAIN s : \A j \in 1..(k - 1) : s[j] # s[k]}
Smaller == {e \in Nat \X Nat : e[1] < e[2]}

LEMMA FreshOrdered ==
    ASSUME NEW s \in Seq(Nat)
    PROVE  IsFiniteSet(Fresh(s)) /\ Fresh(s) \subseteq 1..Len(s) /\ Orders(Fresh(s), Smaller)
<1>1. Fresh(s) \subseteq 1..Len(s)
  BY DEF Fresh
<1>2. IsFiniteSet(1..Len(s))
  BY FS_Interval
<1>3. Orders(Fresh(s), Smaller)
  BY <1>1 DEF Orders, Smaller
<1> QED BY <1>1, <1>2, <1>3, FS_Subset

LEMMA FirstsListed ==
    ASSUME NEW s \in Seq(Nat)
    PROVE  Firsts(s) = [n \in 1..Cardinality(Fresh(s)) |-> s[Listed(Fresh(s), Smaller)[n]]]
<1> DEFINE new == {k \in DOMAIN s : \A j \in 1..(k - 1) : s[j] # s[k]}
<1>1. Fresh(s) = new /\ new \subseteq Nat
  BY DEF Fresh
<1>2. \A k \in new : {j \in new : j < k} = Under(new, Smaller, k)
  BY <1>1 DEF Under, Smaller
<1>3. \A n \in 1..Cardinality(new) :
        (CHOOSE k \in new : Cardinality({j \in new : j < k}) = n - 1)
          = CHOOSE k \in new : Cardinality(Under(new, Smaller, k)) = n - 1
  BY <1>2
<1>4. Firsts(s) = [n \in 1..Cardinality(new) |->
                     s[CHOOSE k \in new : Cardinality({j \in new : j < k}) = n - 1]]
  BY DEF Firsts
<1> HIDE DEF new
<1>5. Firsts(s) = [n \in 1..Cardinality(new) |->
                     s[CHOOSE k \in new : Cardinality(Under(new, Smaller, k)) = n - 1]]
  BY <1>3, <1>4
<1> QED BY <1>1, <1>5 DEF Listed

LEMMA FreshOfAppend ==
    ASSUME NEW s \in Seq(Nat), NEW r \in Nat
    PROVE  Fresh(Append(s, r)) = IF r \in Values(s) THEN Fresh(s) ELSE Fresh(s) \cup {Len(s) + 1}
<1>1. /\ DOMAIN Append(s, r) = DOMAIN s \cup {Len(s) + 1} /\ DOMAIN s = 1..Len(s)
      /\ \A k \in DOMAIN s : Append(s, r)[k] = s[k]
      /\ Append(s, r)[Len(s) + 1] = r
  OBVIOUS
<1>2. \A k \in DOMAIN s : k \in Fresh(Append(s, r)) <=> k \in Fresh(s)
  BY <1>1 DEF Fresh
<1>3. Len(s) + 1 \in Fresh(Append(s, r)) <=> r \notin Values(s)
  BY <1>1 DEF Fresh, Values
<1> QED BY <1>1, <1>2, <1>3 DEF Fresh

\* There are as many of them as there are values.
LEMMA AsManyAsValues ==
    ASSUME NEW s \in Seq(Nat)
    PROVE  Cardinality(Fresh(s)) = Cardinality(Values(s)) /\ IsFiniteSet(Values(s))
<1> DEFINE f == [k \in Fresh(s) |-> s[k]]
<1>1. f \in [Fresh(s) -> Values(s)]
  BY DEF Fresh, Values
<1>2. \A j, k \in Fresh(s) : f[j] = f[k] => j = k
  BY FreshOrdered DEF Fresh
<1>3. ASSUME NEW v \in Values(s) PROVE \E k \in Fresh(s) : f[k] = v
  <2> DEFINE at == {k \in DOMAIN s : s[k] = v}
  <2>1. at # {} /\ at \subseteq Nat
    BY DEF Values
  <2>2. PICK k \in at : \A j \in at : <<j, k>> \notin OpToRel(<, Nat)
    BY <2>1, NatLessThanWellFounded, WFMin
  <2>3. \A j \in at : ~(j < k)
    BY <2>1, <2>2 DEF OpToRel
  <2>4. k \in Fresh(s)
    BY <2>3 DEF Fresh
  <2> QED BY <2>4
<1>4. f \in Bijection(Fresh(s), Values(s))
  BY <1>1, <1>2, <1>3 DEF Bijection, Injection, IsInjective, Surjection
<1>5. ExistsBijection(Fresh(s), Values(s))
  BY <1>4 DEF ExistsBijection
<1> QED BY <1>5, FreshOrdered, FS_Bijection, FS_CardinalityType

LEMMA FirstsOfAppend ==
    ASSUME NEW s \in Seq(Nat), NEW r \in Nat
    PROVE  /\ Firsts(s) \in Seq(Nat) /\ Len(Firsts(s)) = Cardinality(Values(s))
           /\ Firsts(Append(s, r)) = IF r \in Values(s) THEN Firsts(s) ELSE Append(Firsts(s), r)
<1> DEFINE t == Append(s, r)
<1>1. t \in Seq(Nat) /\ (\A k \in 1..Len(s) : t[k] = s[k]) /\ t[Len(s) + 1] = r
  OBVIOUS
<1>2. /\ IsFiniteSet(Fresh(s)) /\ Fresh(s) \subseteq 1..Len(s) /\ Orders(Fresh(s), Smaller)
      /\ Cardinality(Fresh(s)) \in Nat
  BY FreshOrdered, FS_CardinalityType
<1>3. \A n \in 1..Cardinality(Fresh(s)) : Listed(Fresh(s), Smaller)[n] \in Fresh(s)
  BY <1>2, ListedAt
<1>4. Firsts(s) \in Seq(Nat) /\ Len(Firsts(s)) = Cardinality(Values(s))
  BY <1>2, <1>3, FirstsListed, AsManyAsValues
<1> HIDE DEF t
<1>5. CASE r \in Values(s)
  <2>1. Fresh(t) = Fresh(s)
    BY <1>5, FreshOfAppend DEF t
  <2>2. \A n \in 1..Cardinality(Fresh(s)) :
          t[Listed(Fresh(s), Smaller)[n]] = s[Listed(Fresh(s), Smaller)[n]]
    BY <1>1, <1>2, <1>3
  <2>3. Firsts(t) = [n \in 1..Cardinality(Fresh(s)) |-> t[Listed(Fresh(s), Smaller)[n]]]
    BY <1>1, <2>1, FirstsListed
  <2> QED BY <1>4, <1>5, <2>2, <2>3, FirstsListed DEF t
<1>6. CASE r \notin Values(s)
  <2> DEFINE c == Cardinality(Fresh(s))
  <2>1. Fresh(t) = Fresh(s) \cup {Len(s) + 1}
    BY <1>6, FreshOfAppend DEF t
  <2>2. IsFiniteSet(Fresh(t)) /\ Orders(Fresh(t), Smaller)
    BY <1>1, FreshOrdered
  <2>3. Len(s) + 1 \notin Fresh(s)
    BY <1>2
  <2>4. Cardinality(Fresh(t)) = c + 1
    BY <1>2, <2>1, <2>3, FS_AddElement
  <2>5. \A k \in Fresh(s) : Under(Fresh(t), Smaller, k) = Under(Fresh(s), Smaller, k)
    BY <1>2, <2>1 DEF Under, Smaller
  <2>6. Under(Fresh(t), Smaller, Len(s) + 1) = Fresh(s)
    BY <1>2, <2>1 DEF Under, Smaller
  <2>7. \A n \in 1..c : Listed(Fresh(t), Smaller)[n] = Listed(Fresh(s), Smaller)[n]
    <3>1. Fresh(s) \subseteq Fresh(t)
      BY <2>1
    <3> HIDE DEF c
    <3>2. \A n \in 1..Cardinality(Fresh(s)) : Listed(Fresh(t), Smaller)[n] = Listed(Fresh(s), Smaller)[n]
      <4> DEFINE S == Fresh(s)
                 T == Fresh(t)
      <4> HIDE DEF S, T
      <4>1. IsFiniteSet(T) /\ S \subseteq T /\ Orders(S, Smaller) /\ Orders(T, Smaller)
        BY <1>2, <2>2, <3>1 DEF S, T
      <4>2. \A k \in S : Under(T, Smaller, k) = Under(S, Smaller, k)
        BY <2>5 DEF S, T
      <4>3. \A n \in 1..Cardinality(S) : Listed(T, Smaller)[n] = Listed(S, Smaller)[n]
        BY <4>1, <4>2, ListGrows
      <4> QED BY <4>3 DEF S, T
    <3> QED BY <3>2 DEF c
  <2>8. Listed(Fresh(t), Smaller)[c + 1] = Len(s) + 1
    BY <2>1, <2>2, <2>6, ListedAt
  <2>9. Firsts(t) = [n \in 1..(c + 1) |-> t[Listed(Fresh(t), Smaller)[n]]]
    BY <1>1, <2>4, FirstsListed
  <2>10. \A n \in 1..c : t[Listed(Fresh(t), Smaller)[n]] = Firsts(s)[n]
    BY <1>1, <1>2, <1>3, <2>7, FirstsListed
  <2>11. Len(Firsts(s)) = c
    BY <1>4, AsManyAsValues
  <2> HIDE DEF c
  <2>12. c \in Nat
    BY <1>2 DEF c
  <2>13. /\ Firsts(t) = [n \in 1..(c + 1) |-> t[Listed(Fresh(t), Smaller)[n]]]
         /\ \A n \in 1..c : Firsts(s)[n] \in Nat
    BY <1>4, <2>9, <2>11, <2>12
  <2>14. /\ Firsts(t) \in Seq(Nat) /\ Len(Firsts(t)) = c + 1
         /\ (\A n \in 1..c : Firsts(t)[n] = Firsts(s)[n]) /\ Firsts(t)[c + 1] = r
    <3>1. \A n \in 1..(c + 1) : Firsts(t)[n] = t[Listed(Fresh(t), Smaller)[n]]
      BY <2>13
    <3>2. (\A n \in 1..c : Firsts(t)[n] = Firsts(s)[n]) /\ Firsts(t)[c + 1] = r
      BY <1>1, <2>8, <2>10, <2>12, <3>1
    <3>3. \A n \in 1..(c + 1) : Firsts(t)[n] \in Nat
      <4>1. \A n \in 1..(c + 1) : n \in 1..c \/ n = c + 1
        BY <2>12
      <4>2. \A n \in 1..c : Firsts(t)[n] \in Nat
        BY <2>13, <3>2
      <4> QED BY <3>2, <4>1, <4>2
    <3>4. DOMAIN Firsts(t) = 1..(c + 1) /\ Firsts(t) \in [1..(c + 1) -> Nat]
      BY <2>13, <3>1, <3>3
    <3> QED BY <2>12, <3>2, <3>4
  <2>15. Firsts(t) = Append(Firsts(s), r)
    <3>1. /\ Append(Firsts(s), r) \in Seq(Nat) /\ Len(Append(Firsts(s), r)) = c + 1
          /\ (\A n \in 1..c : Append(Firsts(s), r)[n] = Firsts(s)[n])
          /\ Append(Firsts(s), r)[c + 1] = r
      BY <1>4, <2>11, AppendProperties
    <3>2. \A n \in 1..(c + 1) : Firsts(t)[n] = Append(Firsts(s), r)[n]
      BY <2>12, <2>14, <3>1
    <3> QED BY <2>14, <3>1, <3>2, SeqEqual
  <2>16. Firsts(Append(s, r)) = Append(Firsts(s), r)
    BY <2>15 DEF t
  <2> QED BY <1>4, <1>6, <2>16, Zenon
<1> QED BY <1>5, <1>6
-----------------------------------------------------------------------------
(* The order of the rows.                                                    *)

Before == {e \in (DOMAIN rows) \X (DOMAIN rows) : Precedes(e[1], e[2])}

LEMMA RowsAre ==
    ASSUME WritersTyped
    PROVE  /\ DOMAIN rows = 1..Len(rows) /\ Len(rows) \in Nat /\ rows \in [1..Len(rows) -> RowType]
           /\ \A r \in DOMAIN rows : r \in Nat /\ rows[r] \in RowType /\ rows[r].tx \in Txs
<1>1. rows \in Seq(RowType) /\ \A x \in RowType : x.tx \in Txs
  BY DEF WritersTyped, RowType
<1>2. DOMAIN rows = 1..Len(rows) /\ Len(rows) \in Nat /\ rows \in [1..Len(rows) -> RowType]
  BY <1>1, LenProperties
<1>3. \A r \in DOMAIN rows : rows[r] \in RowType
  BY <1>2
<1> QED BY <1>1, <1>2, <1>3

LEMMA RowsOrdered ==
    ASSUME WritersTyped, IdsTaken, NEW S \in SUBSET DOMAIN rows
    PROVE  IsFiniteSet(S) /\ Orders(S, Before) /\ InOrder(S) = Listed(S, Before)
<1>1. DOMAIN rows = 1..Len(rows) /\ Len(rows) \in Nat /\ \A r \in DOMAIN rows : rows[r].tx \in Txs
  BY RowsAre
<1>2. IsFiniteSet(S)
  <2>1. IsFiniteSet(1..Len(rows))
    BY <1>1, FS_Interval
  <2>2. S \in SUBSET (1..Len(rows))
    BY <1>1
  <2> QED BY <2>1, <2>2, FS_Subset
<1>3. \A r \in DOMAIN rows : rows[r].tx \in Begun /\ xid[rows[r].tx] \in Nat
  <2>1. \A t \in Txs : xid[t] \in Nat /\ (tx[t] # "NEW" => t \in Begun)
    <3>1. xid \in [Txs -> Nat] /\ \A t \in Txs : xid[t] = 0 <=> tx[t] = "NEW"
      BY DEF WritersTyped, IdsTaken
    <3> QED BY <3>1 DEF Begun
  <2> QED BY <1>1, <2>1 DEF IdsTaken
<1>4. \A q, r \in S : <<q, r>> \in Before <=> Precedes(q, r)
  BY DEF Before
<1>5. Orders(S, Before)
  <2> DEFINE id(r) == xid[rows[r].tx]
             of(r) == rows[r].tx
  <2>1. \A r \in S : r \in Nat /\ of(r) \in Begun /\ id(r) \in Nat
    BY <1>1, <1>3
  <2>2. \A q, r \in S : Precedes(q, r) <=> id(q) < id(r) \/ (of(q) = of(r) /\ q < r)
    BY DEF Precedes
  <2>3. \A q, r \in S : of(q) = of(r) => id(q) = id(r)
    OBVIOUS
  <2>4. \A q, r \in S : id(q) = id(r) => of(q) = of(r)
    BY <2>1 DEF IdsTaken
  <2> HIDE DEF id, of
  <2>5. \A q \in S : ~Precedes(q, q)
    BY <2>1, <2>2
  <2>6. \A q, r, u \in S : Precedes(q, r) /\ Precedes(r, u) => Precedes(q, u)
    BY <2>1, <2>2, <2>3
  <2>7. \A q, r \in S : q # r => Precedes(q, r) \/ Precedes(r, q)
    BY <2>1, <2>2, <2>4
  <2> QED BY <1>4, <2>5, <2>6, <2>7 DEF Orders
<1>6. \A r \in S : {q \in S : Precedes(q, r)} = Under(S, Before, r)
  <2>1. ASSUME NEW r \in S PROVE \A q \in S : <<q, r>> \in Before <=> Precedes(q, r)
    BY <1>4
  <2> QED BY <2>1, Zenon DEF Under
<1>7. InOrder(S) = Listed(S, Before)
  <2>1. \A n \in 1..Cardinality(S) :
          (CHOOSE r \in S : Cardinality({q \in S : Precedes(q, r)}) = n - 1)
            = CHOOSE r \in S : Cardinality(Under(S, Before, r)) = n - 1
    BY <1>6
  <2> DEFINE a(n) == CHOOSE r \in S : Cardinality({q \in S : Precedes(q, r)}) = n - 1
             b(n) == CHOOSE r \in S : Cardinality(Under(S, Before, r)) = n - 1
  <2>2. InOrder(S) = [n \in 1..Cardinality(S) |-> a(n)] /\ Listed(S, Before) = [n \in 1..Cardinality(S) |-> b(n)]
    BY DEF InOrder, Listed
  <2>3. \A n \in 1..Cardinality(S) : a(n) = b(n)
    BY <2>1
  <2> HIDE DEF a, b
  <2> QED BY <2>2, <2>3
<1> QED BY <1>2, <1>5, <1>7

LEMMA SettledRows == Settled \subseteq DOMAIN rows /\ Visible \subseteq DOMAIN rows /\ Ready \subseteq Settled
BY DEF Settled, Visible, Ready

-----------------------------------------------------------------------------
(* What no step changes: rows keep their transaction, transactions their id, *)
(* and nothing new comes before a settled row.                               *)

SameRows ==
    /\ UNCHANGED <<tx, xid>> /\ DOMAIN rows' = DOMAIN rows
    /\ \A r \in DOMAIN rows : rows'[r].tx = rows[r].tx

\* A row that changes stays a row of its transaction.
RowSet(r, row) ==
    /\ rows' = [rows EXCEPT ![r] = row]
    /\ r \in DOMAIN rows => row \in RowType /\ row.tx = rows[r].tx

LEMMA RowChanges ==
    ASSUME WritersTyped, NEW r, NEW row, RowSet(r, row)
    PROVE  /\ rows' \in Seq(RowType) /\ DOMAIN rows' = DOMAIN rows
           /\ \A q \in DOMAIN rows : rows'[q] = IF q = r THEN row ELSE rows[q]
           /\ \A q \in DOMAIN rows : rows'[q].tx = rows[q].tx
<1>1. DOMAIN rows = 1..Len(rows) /\ Len(rows) \in Nat /\ rows \in [1..Len(rows) -> RowType]
  BY RowsAre
<1>2. rows' \in [1..Len(rows) -> RowType]
  BY <1>1 DEF RowSet
<1>3. rows' \in Seq(RowType)
  BY <1>1, <1>2, SeqDef
<1> QED BY <1>1, <1>2, <1>3 DEF RowSet

LEMMA WriterSteps ==
    ASSUME TypeOK, IdsTaken, [Next]_vars
    PROVE  /\ WritersTyped'
           /\ \/ \E t \in Txs : Begin(t) \/ AppendRow(t) \/ Commit(t) \/ Rollback(t)
              \/ SameRows
<1>1. WritersTyped /\ batch \in [Relays -> Seq(Nat)]
  BY DEF TypeOK, RelaysTyped
<1>2. CASE \E t \in Txs : Begin(t)
  <2>1. PICK t \in Txs : Begin(t)
    BY <1>2
  <2>2. Cardinality(Begun) + 1 \in Nat
    BY FS_CardinalityType DEF IdsTaken
  <2> QED BY <1>1, <2>1, <2>2 DEF Begin, WritersTyped
<1>3. CASE \E t \in Txs : AppendRow(t)
  <2>1. PICK t \in Txs : AppendRow(t)
    BY <1>3
  <2>2. NewRow(t) \in RowType
    BY DEF NewRow, RowType
  <2>3. rows' \in Seq(RowType)
    BY <1>1, <2>1, <2>2 DEF AppendRow, WritersTyped
  <2> QED BY <1>1, <2>1, <2>3 DEF AppendRow, WritersTyped, txVars
<1>4. CASE \E t \in Txs : Commit(t) \/ Rollback(t)
  <2>1. PICK t \in Txs : Commit(t) \/ Rollback(t)
    BY <1>4
  <2> QED BY <1>1, <2>1 DEF Commit, Rollback, Released, WritersTyped
<1>5. CASE \E t \in Txs : LockOrg(t)
  <2>1. PICK t \in Txs : LockOrg(t)
    BY <1>5
  <2> QED BY <1>1, <2>1 DEF LockOrg, WritersTyped, SameRows
<1>6. CASE UNCHANGED <<txVars, rows>>
  BY <1>1, <1>6 DEF WritersTyped, SameRows, txVars
<1>7. CASE /\ UNCHANGED txVars
           /\ \E r, row : RowSet(r, row)
  <2>1. PICK r, row : RowSet(r, row)
    BY <1>7
  <2>2. /\ rows' \in Seq(RowType) /\ DOMAIN rows' = DOMAIN rows
        /\ \A q \in DOMAIN rows : rows'[q].tx = rows[q].tx
    BY <1>1, <2>1, RowChanges
  <2>3. UNCHANGED <<tx, xid, holder>>
    BY <1>7 DEF txVars
  <2>4. WritersTyped'
    BY <1>1, <2>2, <2>3 DEF WritersTyped
  <2> QED BY <2>2, <2>3, <2>4 DEF SameRows
<1>8. CASE \E i \in Relays : MarkPublished(i) \/ FailRow(i)
  <2>1. PICK i \in Relays : MarkPublished(i) \/ FailRow(i)
    BY <1>8
  <2> DEFINE x == rows[Current(i)]
  <2>2. CASE MarkPublished(i)
    <3>1. rows' = [rows EXCEPT ![Current(i)] = [x EXCEPT !.status = "PUBLISHED"]]
      BY <2>2 DEF MarkPublished
    <3>2. Current(i) \in DOMAIN rows => /\ [x EXCEPT !.status = "PUBLISHED"] \in RowType
                                       /\ [x EXCEPT !.status = "PUBLISHED"].tx = x.tx
      BY <1>1, RowsAre DEF RowType
    <3> QED BY <1>7, <2>2, <3>1, <3>2 DEF MarkPublished, RowSet
  <2>3. CASE FailRow(i)
    <3> DEFINE n == x.attempts + 1
               row == [x EXCEPT !.attempts = n, !.due = FALSE,
                                !.status = IF Parked(n) THEN "PARKED" ELSE @]
    <3>1. rows' = [rows EXCEPT ![Current(i)] = row]
      BY <2>3 DEF FailRow
    <3>2. Current(i) \in DOMAIN rows => row \in RowType /\ row.tx = x.tx
      <4>1. ASSUME NEW y \in RowType, NEW a \in Nat, NEW s \in {"PENDING", "PUBLISHED", "PARKED"}
            PROVE  /\ [y EXCEPT !.attempts = a, !.due = FALSE, !.status = s] \in RowType
                   /\ [y EXCEPT !.attempts = a, !.due = FALSE, !.status = s].tx = y.tx
        BY DEF RowType
      <4>2. Current(i) \in DOMAIN rows => x \in RowType
        BY <1>1, RowsAre
      <4>3. x \in RowType => n \in Nat /\ (IF Parked(n) THEN "PARKED" ELSE x.status)
                                            \in {"PENDING", "PUBLISHED", "PARKED"}
        BY DEF RowType
      <4> HIDE DEF n, x
      <4> QED BY <4>1, <4>2, <4>3
    <3> HIDE DEF row
    <3> QED BY <1>7, <2>3, <3>1, <3>2 DEF FailRow, RowSet
  <2> QED BY <2>1, <2>2, <2>3
<1>9. CASE \E r \in DOMAIN rows : RowDue(r)
  <2>1. PICK r \in DOMAIN rows : RowDue(r)
    BY <1>9
  <2>2. rows[r] \in RowType
    BY <1>1, RowsAre
  <2>3. rows' = [rows EXCEPT ![r] = [@ EXCEPT !.due = TRUE]]
    BY <2>1 DEF RowDue
  <2> QED BY <1>7, <2>1, <2>2, <2>3 DEF RowDue, RowType, RowSet, txVars
<1>10. CASE \E i \in Relays : \/ RelayOpen(i) \/ Skip(i) \/ Send(i) \/ BrokerFails(i)
                              \/ RelayDies(i) \/ LoseLock(i)
  BY <1>6, <1>10 DEF RelayOpen, Skip, Send, BrokerFails, RelayDies, LoseLock
<1>11. CASE \E o \in Consumed : Consumer(o)
  BY <1>6, <1>11 DEF Consumer, Handle, Ack, Redeliver, HandleFails, DeadLetter
<1>12. CASE UNCHANGED vars
  BY <1>6, <1>12 DEF vars, txVars
<1> QED BY <1>2, <1>3, <1>4, <1>5, <1>8, <1>9, <1>10, <1>11, <1>12 DEF Next, Writer, Relay

\* What an id says: rows are of transactions that have one, and no two share it.
LEMMA IdsAre ==
    ASSUME WritersTyped, IdsTaken
    PROVE  /\ \A t \in Txs : xid[t] \in Nat
           /\ \A t \in Txs : (t \in Begun <=> tx[t] # "NEW") /\ (t \in Begun <=> xid[t] > 0)
           /\ Cardinality(Begun) \in Nat
           /\ \A r \in DOMAIN rows : rows[r].tx \in Txs /\ rows[r].tx \in Begun
<1>1. xid \in [Txs -> Nat] /\ (\A t \in Txs : xid[t] = 0 <=> tx[t] = "NEW") /\ IsFiniteSet(Begun)
  BY DEF WritersTyped, IdsTaken
<1>2. \A t \in Txs : xid[t] \in Nat /\ (t \in Begun <=> tx[t] # "NEW") /\ (t \in Begun <=> xid[t] > 0)
  BY <1>1 DEF Begun
<1>3. \A r \in DOMAIN rows : rows[r].tx \in Txs /\ tx[rows[r].tx] # "NEW"
  BY RowsAre DEF IdsTaken
<1> QED BY <1>1, <1>2, <1>3, FS_CardinalityType

LEMMA Growth ==
    ASSUME TypeOK, IdsTaken, [Next]_vars
    PROVE  /\ IdsTaken'
           /\ DOMAIN rows \subseteq DOMAIN rows'
           /\ \A r \in DOMAIN rows : rows'[r].tx = rows[r].tx
           /\ \A q, r \in DOMAIN rows : Precedes(q, r)' <=> Precedes(q, r)
           /\ Settled \subseteq Settled'
           /\ \A r \in Settled : \A q \in Settled' : Precedes(q, r)' => q \in Settled
<1>1. WritersTyped /\ WritersTyped'
  BY WriterSteps DEF TypeOK
<1>2. /\ \A t \in Txs : xid[t] \in Nat /\ (t \in Begun <=> tx[t] # "NEW") /\ (t \in Begun <=> xid[t] > 0)
      /\ Cardinality(Begun) \in Nat
      /\ \A r \in DOMAIN rows : r \in Nat /\ rows[r].tx \in Txs /\ rows[r].tx \in Begun
  BY <1>1, IdsAre, RowsAre
<1>3. CASE SameRows
  <2>1. Begun' = Begun /\ Visible' = Visible /\ Settled' = Settled
    BY <1>3 DEF SameRows, Begun, Visible, Settled, Older
  <2>2. \A q, r \in DOMAIN rows : Precedes(q, r)' <=> Precedes(q, r)
    BY <1>3 DEF SameRows, Precedes
  <2>3. IdsTaken'
    BY <1>3, <2>1 DEF SameRows, IdsTaken
  <2> QED BY <1>3, <2>1, <2>2, <2>3 DEF SameRows
<1>4. CASE \E t \in Txs : Begin(t)
  <2>1. PICK t \in Txs : Begin(t)
    BY <1>4
  <2>2. /\ t \notin Begun /\ xid'[t] = Cardinality(Begun) + 1 /\ tx'[t] = "OPEN" /\ rows' = rows
        /\ \A u \in Txs : u # t => xid'[u] = xid[u] /\ tx'[u] = tx[u]
    BY <1>1, <1>2, <2>1 DEF Begin, WritersTyped
  <2>3. Begun' = Begun \cup {t}
    BY <1>2, <2>2 DEF Begun
  <2>4. IsFiniteSet(Begun') /\ Cardinality(Begun') = Cardinality(Begun) + 1
    BY <2>2, <2>3, FS_AddElement DEF IdsTaken
  <2>5. \A u \in Begun : xid'[u] = xid[u] /\ xid[u] <= Cardinality(Begun)
    BY <2>2 DEF IdsTaken, Begun
  <2>6. IdsTaken'
    <3>1. \A u \in Txs : (xid'[u] = 0 <=> tx'[u] = "NEW") /\ xid'[u] <= Cardinality(Begun')
      BY <1>2, <2>2, <2>4 DEF IdsTaken
    <3>2. \A u, v \in Begun' : xid'[u] = xid'[v] => u = v
      BY <1>2, <2>2, <2>3, <2>5 DEF IdsTaken
    <3>3. \A r \in DOMAIN rows : tx'[rows[r].tx] # "NEW"
      BY <1>2, <2>2
    <3> QED BY <2>2, <2>4, <3>1, <3>2, <3>3 DEF IdsTaken
  <2>7. \A r \in DOMAIN rows : xid'[rows[r].tx] = xid[rows[r].tx] /\ tx'[rows[r].tx] = tx[rows[r].tx]
    BY <1>2, <2>2
  <2>8. Visible' = Visible
    BY <2>2, <2>7 DEF Visible
  <2>9. \A r \in DOMAIN rows : Older(xid[rows[r].tx])' <=> Older(xid[rows[r].tx])
    <3> SUFFICES ASSUME NEW r \in DOMAIN rows
                 PROVE  (\A u \in Txs : tx'[u] = "OPEN" => xid'[rows'[r].tx] < xid'[u])
                          <=> \A u \in Txs : tx[u] = "OPEN" => xid[rows[r].tx] < xid[u]
      BY DEF Older
    <3>1. xid'[rows'[r].tx] = xid[rows[r].tx] /\ xid[rows[r].tx] < xid'[t] /\ tx[t] = "NEW"
      BY <1>2, <2>2, <2>5, <2>7
    <3> QED BY <2>2, <3>1
  <2>10. Settled' = Settled
    BY <2>2, <2>7, <2>8, <2>9 DEF Settled, Older, Visible
  <2>11. \A q, r \in DOMAIN rows : Precedes(q, r)' <=> Precedes(q, r)
    BY <2>2, <2>7 DEF Precedes
  <2> QED BY <2>2, <2>6, <2>10, <2>11
<1>5. CASE \E t \in Txs : AppendRow(t)
  <2>1. PICK t \in Txs : AppendRow(t)
    BY <1>5
  <2>2. /\ tx' = tx /\ xid' = xid /\ tx[t] = "OPEN"
        /\ DOMAIN rows' = DOMAIN rows \cup {Len(rows) + 1} /\ Len(rows) + 1 \notin DOMAIN rows
        /\ (\A r \in DOMAIN rows : rows'[r] = rows[r]) /\ rows'[Len(rows) + 1].tx = t
    BY <1>1, <2>1, RowsAre DEF AppendRow, txVars, NewRow, WritersTyped
  <2>3. Begun' = Begun
    BY <2>2 DEF Begun
  <2>4. IdsTaken'
    BY <2>2, <2>3 DEF IdsTaken
  <2>5. Visible' = Visible
    BY <2>2 DEF Visible
  <2>6. Settled' = Settled
    BY <2>2, <2>5 DEF Settled, Older, Visible
  <2>7. \A q, r \in DOMAIN rows : Precedes(q, r)' <=> Precedes(q, r)
    BY <2>2 DEF Precedes
  <2> QED BY <2>2, <2>4, <2>6, <2>7
<1>6. CASE \E t \in Txs : Commit(t) \/ Rollback(t)
  <2>1. PICK t \in Txs : Commit(t) \/ Rollback(t)
    BY <1>6
  <2>2. /\ rows' = rows /\ xid' = xid /\ tx[t] = "OPEN" /\ tx'[t] \in {"COMMITTED", "ROLLED_BACK"}
        /\ \A u \in Txs : u # t => tx'[u] = tx[u]
    BY <1>1, <2>1 DEF Commit, Rollback, WritersTyped
  <2>3. Begun' = Begun
    BY <2>2 DEF Begun
  <2>4. IdsTaken'
    BY <1>2, <2>2, <2>3 DEF IdsTaken
  <2>5. Settled \subseteq Settled'
    BY <1>2, <2>2 DEF Settled, Visible, Older
  <2>6. \A q, r \in DOMAIN rows : Precedes(q, r)' <=> Precedes(q, r)
    BY <2>2 DEF Precedes
  <2>7. ASSUME NEW r \in Settled, NEW q \in Settled', Precedes(q, r)
        PROVE  q \in Settled
    <3>1. r \in DOMAIN rows /\ q \in DOMAIN rows /\ tx[rows[r].tx] = "COMMITTED" /\ tx'[rows[q].tx] = "COMMITTED"
      BY <2>2 DEF Settled, Visible
    <3>2. xid[rows[q].tx] <= xid[rows[r].tx]
      BY <1>2, <2>7, <3>1 DEF Precedes
    <3>3. rows[q].tx # t
      BY <1>2, <2>2, <3>1, <3>2 DEF Settled, Older
    <3>4. q \in Visible
      BY <1>2, <2>2, <3>1, <3>3 DEF Visible
    <3>5. Older(xid[rows[q].tx])
      BY <1>2, <3>1, <3>2 DEF Settled, Older
    <3> QED BY <3>4, <3>5 DEF Settled
  <2>8. Settled' \subseteq DOMAIN rows
    BY <2>2 DEF Settled, Visible
  <2> QED BY <2>2, <2>4, <2>5, <2>6, <2>7, <2>8, SettledRows
<1> QED BY <1>3, <1>4, <1>5, <1>6, WriterSteps
-----------------------------------------------------------------------------
(* Logs and batches.                                                         *)

\* What is ahead of a settled row stays the same, and what is logged stays logged.
LEMMA StillAhead ==
    ASSUME TypeOK, IdsTaken, [Next]_vars
    PROVE  /\ \A r \in DOMAIN rows : OrgOf(r)' = OrgOf(r)
           /\ \A r \in Settled : Ahead(r)' = Ahead(r)
<1>1. \A r \in DOMAIN rows : OrgOf(r)' = OrgOf(r)
  BY Growth DEF OrgOf
<1>2. ASSUME NEW r \in Settled PROVE Ahead(r)' = Ahead(r)
  <2>1. r \in DOMAIN rows /\ Settled \subseteq DOMAIN rows
    BY SettledRows
  <2>2. ASSUME NEW q \in Settled' PROVE q \in Ahead(r)' => q \in Ahead(r)
    BY <1>1, <2>1, <2>2, Growth DEF Ahead
  <2>3. ASSUME NEW q \in Settled PROVE q \in Ahead(r) => q \in Ahead(r)'
    BY <1>1, <2>1, <2>3, Growth DEF Ahead
  <2> QED BY <2>2, <2>3 DEF Ahead
<1> QED BY <1>1, <1>2

\* The first row of a batch.
LEMMA CurrentIs ==
    ASSUME RelayInv, NEW i \in Relays, batch[i] # <<>>
    PROVE  /\ Current(i) \in Settled /\ Current(i) \in DOMAIN rows /\ Current(i) \in Nat
           /\ OrgOf(Current(i)) \in Orgs
           /\ batch[i] \in Seq(Nat) /\ DOMAIN batch[i] = 1..Len(batch[i]) /\ Len(batch[i]) \in Nat \ {0}
           /\ Current(i) = batch[i][1]
           /\ Tail(batch[i]) \in Seq(Nat) /\ DOMAIN Tail(batch[i]) = 1..(Len(batch[i]) - 1)
           /\ \A n \in 1..(Len(batch[i]) - 1) : Tail(batch[i])[n] = batch[i][n + 1]
           /\ OrgOf(Current(i)) \notin blocked[i] => \A q \in Ahead(Current(i)) : Logged(q)
<1>1. batch[i] \in Seq(Nat) /\ WritersTyped
  BY DEF RelayInv, TypeOK, RelaysTyped
<1>2. DOMAIN batch[i] = 1..Len(batch[i]) /\ Len(batch[i]) \in Nat \ {0} /\ Current(i) = batch[i][1]
  BY <1>1 DEF Current
<1>3. /\ Tail(batch[i]) \in Seq(Nat) /\ DOMAIN Tail(batch[i]) = 1..(Len(batch[i]) - 1)
      /\ \A n \in 1..(Len(batch[i]) - 1) : Tail(batch[i])[n] = batch[i][n + 1]
  BY <1>1, HeadTailProperties, LenProperties
<1>4. 1 \in DOMAIN batch[i]
  BY <1>2
<1>5. /\ Current(i) \in Settled
      /\ OrgOf(Current(i)) \notin blocked[i] =>
           \A q \in Ahead(Current(i)) : Logged(q) \/ \E m \in 1..(1 - 1) : batch[i][m] = q
  BY <1>2, <1>4 DEF RelayInv, BatchInOrder
<1>6. Current(i) \in DOMAIN rows /\ Current(i) \in Nat /\ rows[Current(i)].tx \in Txs
  BY <1>1, <1>5, SettledRows, RowsAre
<1>7. OrgOf(Current(i)) \in Orgs
  BY <1>6, OutboxAssumption DEF OrgOf
<1> QED BY <1>1, <1>2, <1>3, <1>5, <1>6, <1>7

\* How a step may extend the partitions: by nothing, or by a row whose turn has come.
Extends ==
    \/ log' = log
    \/ \E r \in Settled : /\ log' = Recorded(r)
                         /\ \A q \in Ahead(r) : Logged(q)

LEMMA LogStep ==
    ASSUME RelayInv, [Next]_vars, Extends
    PROVE  /\ LogInOrder' /\ log' \in [Orgs -> Seq(Nat)]
           /\ \A r \in DOMAIN rows : Logged(r) => Logged(r)'
<1>1. /\ WritersTyped /\ log \in [Orgs -> Seq(Nat)] /\ TypeOK /\ IdsTaken /\ LogInOrder
  BY DEF RelayInv, TypeOK, RelaysTyped
<1>2. /\ Settled \subseteq Settled' /\ Settled \subseteq DOMAIN rows /\ (\A r \in Settled : Ahead(r)' = Ahead(r))
      /\ \A r \in DOMAIN rows : OrgOf(r)' = OrgOf(r) /\ OrgOf(r) \in Orgs /\ r \in Nat
  <2>1. \A r \in DOMAIN rows : OrgOf(r) \in Orgs /\ r \in Nat
    BY <1>1, RowsAre, OutboxAssumption DEF OrgOf
  <2> QED BY <1>1, <2>1, StillAhead, Growth, SettledRows
<1>3. CASE log' = log
  <2>1. \A r \in DOMAIN rows : Logged(r) => Logged(r)'
    BY <1>2, <1>3 DEF Logged
  <2>2. LogInOrder'
    BY <1>1, <1>2, <1>3 DEF LogInOrder
  <2> QED BY <1>1, <1>3, <2>1, <2>2
<1>4. CASE \E r \in Settled : log' = Recorded(r) /\ \A q \in Ahead(r) : Logged(q)
  <2>1. PICK r \in Settled : log' = Recorded(r) /\ \A q \in Ahead(r) : Logged(q)
    BY <1>4
  <2> DEFINE a == OrgOf(r)
  <2>2. a \in Orgs /\ r \in Nat /\ log[a] \in Seq(Nat)
    BY <1>1, <1>2
  <2>3. /\ log' \in [Orgs -> Seq(Nat)] /\ (\A o \in Orgs \ {a} : log'[o] = log[o])
        /\ Len(log'[a]) = Len(log[a]) + 1 /\ DOMAIN log'[a] = 1..(Len(log[a]) + 1) /\ Len(log[a]) \in Nat
        /\ DOMAIN log[a] = 1..Len(log[a])
        /\ (\A k \in DOMAIN log[a] : log'[a][k] = log[a][k]) /\ log'[a][Len(log[a]) + 1] = r
    BY <1>1, <2>1, <2>2 DEF Recorded
  <2> HIDE DEF a
  <2>4. ASSUME NEW o \in Orgs, NEW k \in DOMAIN log[o]
        PROVE  /\ k \in DOMAIN log'[o] /\ log'[o][k] = log[o][k]
               /\ \A j \in 1..(k - 1) : j \in DOMAIN log[o] /\ log'[o][j] = log[o][j]
    <3>1. DOMAIN log[o] = 1..Len(log[o]) /\ Len(log[o]) \in Nat
      BY <1>1
    <3>2. CASE o = a
      <4>1. k \in DOMAIN log[a] /\ \A j \in 1..(k - 1) : j \in DOMAIN log[a]
        BY <2>4, <3>1, <3>2
      <4>2. k \in DOMAIN log'[a]
        BY <2>3, <4>1
      <4> QED BY <2>3, <3>2, <4>1, <4>2
    <3>3. CASE o # a
      BY <2>3, <2>4, <3>1, <3>3
    <3> QED BY <3>2, <3>3
  <2>5. ASSUME NEW q \in DOMAIN rows, Logged(q) PROVE Logged(q)'
    BY <1>2, <2>4, <2>5 DEF Logged
  <2>6. ASSUME NEW o \in Orgs, NEW k \in DOMAIN log'[o], NEW x, x = log'[o][k]
        PROVE  x \in Settled' /\ OrgOf(x)' = o /\ \A q \in Ahead(x)' : \E j \in 1..(k - 1) : log'[o][j] = q
    <3>1. CASE k \in DOMAIN log[o]
      <4>1. x = log[o][k] /\ \A j \in 1..(k - 1) : log'[o][j] = log[o][j]
        BY <2>4, <2>6, <3>1
      <4>2. x \in Settled /\ OrgOf(x) = o /\ \A q \in Ahead(x) : \E j \in 1..(k - 1) : log[o][j] = q
        BY <1>1, <3>1, <4>1 DEF LogInOrder
      <4> QED BY <1>2, <4>1, <4>2
    <3>2. CASE k \notin DOMAIN log[o]
      <4>1. o = a /\ k = Len(log[a]) + 1 /\ x = r
        BY <2>3, <2>6, <3>2
      <4>2. OrgOf(r)' = o /\ r \in Settled' /\ Ahead(r)' = Ahead(r)
        BY <1>2, <4>1 DEF a
      <4>3. ASSUME NEW q \in Ahead(r) PROVE \E j \in 1..(k - 1) : log'[o][j] = q
        <5>1. Logged(q) /\ OrgOf(q) = a
          BY <2>1, <4>3 DEF Ahead, a
        <5>2. PICK j \in DOMAIN log[a] : log[a][j] = q
          BY <5>1 DEF Logged
        <5> QED BY <2>3, <4>1, <5>2
      <4> QED BY <4>1, <4>2, <4>3
    <3> QED BY <3>1, <3>2
  <2>7. LogInOrder'
    BY <2>6 DEF LogInOrder
  <2> QED BY <2>3, <2>5, <2>7
<1> QED BY <1>3, <1>4 DEF Extends
\* What a step may do to the batch of a relay: leave it, drop it, take its first row off once
\* that is logged or its org is passed over, or read it anew.
BatchMoves(j) ==
    \/ batch'[j] = batch[j] /\ blocked'[j] = blocked[j]
    \/ batch'[j] = <<>>
    \/ /\ batch[j] # <<>> /\ batch'[j] = Tail(batch[j])
       /\ Len(batch[j]) = 1 \/ blocked[j] \subseteq blocked'[j]
       /\ OrgOf(Current(j)) \in blocked'[j] \/ Logged(Current(j))
    \/ batch'[j] = FirstOf(InOrder(Ready))

\* A batch is read with everything that is ahead of its rows and not published.
LEMMA BatchRead ==
    ASSUME RelayInv, NEW b, b = FirstOf(InOrder(Ready))
    PROVE  /\ b \in Seq(Nat)
           /\ \A n \in DOMAIN b : /\ b[n] \in Settled
                                 /\ \A q \in Ahead(b[n]) : Logged(q) \/ \E m \in 1..(n - 1) : b[m] = q
<1> DEFINE s == InOrder(Ready)
<1>1. WritersTyped /\ IdsTaken /\ Ready \in SUBSET DOMAIN rows /\ Ready \subseteq Settled
  BY SettledRows DEF RelayInv, TypeOK
<1>2. IsFiniteSet(Ready) /\ Orders(Ready, Before) /\ s = Listed(Ready, Before)
  BY <1>1, RowsOrdered
<1>3. /\ s \in Seq(Ready) /\ Len(s) = Cardinality(Ready) /\ Cardinality(Ready) \in Nat
      /\ \A n \in 1..Cardinality(Ready) : Cardinality(Under(Ready, Before, s[n])) = n - 1
      /\ \A r \in Ready : Cardinality(Under(Ready, Before, r)) + 1 \in 1..Cardinality(Ready)
      /\ \A r \in Ready : s[Cardinality(Under(Ready, Before, r)) + 1] = r
  BY <1>2, ListedAt, FS_CardinalityType
<1> HIDE DEF s
<1>4. PICK c \in Nat : c <= Len(s) /\ b = SubSeq(s, 1, c)
  BY <1>3, OutboxAssumption DEF FirstOf, s
<1>5. /\ b \in Seq(Ready) /\ DOMAIN b = 1..c
      /\ \A n \in 1..c : b[n] = s[n] /\ s[n] \in Ready
  BY <1>3, <1>4
<1>6. b \in Seq(Nat)
  <2>1. Ready \subseteq Nat
    BY <1>1, RowsAre
  <2> QED BY <1>5, <2>1, SeqMonotonic
<1>7. ASSUME NEW n \in 1..c, NEW q \in Ahead(b[n])
      PROVE  Logged(q) \/ \E m \in 1..(n - 1) : b[m] = q
  <2>1. /\ b[n] \in Ready /\ b[n] \in DOMAIN rows /\ q \in Settled /\ q \in DOMAIN rows /\ q \in Visible
        /\ OrgOf(q) = OrgOf(b[n]) /\ Precedes(q, b[n])
    BY <1>1, <1>5, <1>7, SettledRows DEF Ahead, Settled
  <2>2. CASE rows[q].status = "PUBLISHED"
    BY <2>1, <2>2 DEF RelayInv, PublishedLogged
  <2>3. CASE rows[q].status # "PUBLISHED"
    <3>1. ~HeldBack(b[n])
      BY <2>1 DEF Ready
    <3>2. rows[q].status = "PENDING" /\ rows[q].due
      <4>1. rows[q].status \in {"PENDING", "PUBLISHED", "PARKED"}
        BY <1>1, <2>1, RowsAre DEF RowType
      <4> QED BY <2>1, <2>3, <3>1, <4>1 DEF HeldBack
    <3>3. ~HeldBack(q)
      <4> SUFFICES ASSUME NEW p \in Visible, OrgOf(p) = OrgOf(q), Precedes(p, q),
                          rows[p].status = "PARKED" \/ (rows[p].status = "PENDING" /\ ~rows[p].due)
                   PROVE  FALSE
        BY DEF HeldBack
      <4>1. p \in DOMAIN rows
        BY SettledRows
      <4>2. Orders(DOMAIN rows, Before) /\ <<p, q>> \in Before /\ <<q, b[n]>> \in Before
        BY <1>1, <2>1, <4>1, RowsOrdered DEF Before
      <4>3. Precedes(p, b[n])
        BY <2>1, <4>1, <4>2 DEF Orders, Before
      <4> QED BY <2>1, <3>1, <4>3 DEF HeldBack
    <3>4. q \in Ready
      BY <2>1, <3>2, <3>3 DEF Ready
    <3>5. <<q, b[n]>> \in Before
      BY <2>1 DEF Before
    <3>6. Cardinality(Under(Ready, Before, q)) < Cardinality(Under(Ready, Before, b[n]))
      BY <1>2, <2>1, <3>4, <3>5, LaterHasMore
    <3> DEFINE u == Cardinality(Under(Ready, Before, q))
               m == u + 1
    <3>7. /\ m \in 1..Cardinality(Ready) /\ s[m] = q /\ Cardinality(Under(Ready, Before, b[n])) = n - 1
          /\ u \in Nat /\ n \in Nat
      <4>1. Under(Ready, Before, q) \in SUBSET Ready
        BY DEF Under
      <4>2. IsFiniteSet(Under(Ready, Before, q))
        BY <1>2, <4>1, FS_Subset
      <4>3. u \in Nat
        BY <4>2, FS_CardinalityType
      <4> QED BY <1>3, <1>4, <1>5, <3>4, <4>3
    <3>8. u < n - 1
      BY <3>6, <3>7
    <3> HIDE DEF u
    <3>9. m \in 1..(n - 1)
      BY <3>7, <3>8
    <3>10. b[m] = s[m]
      BY <1>4, <1>5, <3>9
    <3> HIDE DEF m
    <3> QED BY <3>7, <3>9, <3>10
  <2> QED BY <2>2, <2>3
<1> QED BY <1>1, <1>5, <1>6, <1>7

-----------------------------------------------------------------------------
(* What the steps do to the relays and the partitions.                       *)

\* What a step may make of the record a relay has sent: nothing new but what it logs.
SentSound(j) ==
    sent'[j] => /\ batch'[j] = batch[j] /\ batch[j] # <<>>
                /\ sent[j] \/ log' = Recorded(Current(j))

RelaysMove ==
    /\ \A j \in Relays : BatchMoves(j) /\ SentSound(j)
    /\ batch' = [j \in Relays |-> batch'[j]] /\ DOMAIN log' = Orgs
    /\ leader' \in Relays \cup {Nobody}
    /\ sent' \in [Relays -> BOOLEAN]
    /\ blocked' \in [Relays -> SUBSET Orgs]
    /\ faults' \in Nat /\ faults' <= MaxFaults

LEMMA Advances ==
    ASSUME RelayInv, NEW i \in Relays, batch[i] # <<>>, NEW skipped \in SUBSET Orgs,
           Advance(i, skipped), blocked[i] \subseteq skipped,
           OrgOf(Current(i)) \in skipped \/ Logged(Current(i)), UNCHANGED <<log, faults>>
    PROVE  RelaysMove
<1>1. /\ leader \in Relays \cup {Nobody} /\ batch \in [Relays -> Seq(Nat)] /\ sent \in [Relays -> BOOLEAN]
      /\ blocked \in [Relays -> SUBSET Orgs] /\ faults \in Nat /\ faults <= MaxFaults /\ log \in [Orgs -> Seq(Nat)]
      /\ \A j \in Relays : sent[j] => batch[j] # <<>>
  BY DEF RelayInv, TypeOK, RelaysTyped, PublishedLogged
<1>2. /\ batch' = [j \in Relays |-> batch'[j]] /\ leader' \in Relays \cup {Nobody} /\ sent' \in [Relays -> BOOLEAN]
      /\ blocked' \in [Relays -> SUBSET Orgs]
  BY <1>1 DEF Advance
<1>3. ASSUME NEW j \in Relays PROVE BatchMoves(j) /\ SentSound(j)
  <2>1. CASE j # i
    BY <1>1, <2>1 DEF Advance, BatchMoves, SentSound
  <2>2. CASE j = i
    <3>1. /\ batch'[i] = Tail(batch[i]) /\ ~sent'[i] /\ Tail(batch[i]) \in Seq(Nat)
          /\ blocked'[i] = IF Len(batch[i]) = 1 THEN {} ELSE skipped
      BY <1>1, CurrentIs DEF Advance
    <3>2. CASE Len(batch[i]) = 1
      <4>1. Tail(batch[i]) = <<>>
        <5>1. batch[i] \in Seq(Nat) /\ batch[i] # <<>>
          BY <1>1
        <5>2. Len(Tail(batch[i])) = 0
          BY <3>2, <5>1, HeadTailProperties
        <5> QED BY <3>1, <5>2, EmptySeq
      <4> QED BY <2>2, <3>1, <4>1 DEF BatchMoves, SentSound
    <3>3. CASE Len(batch[i]) # 1
      BY <2>2, <3>1, <3>3 DEF BatchMoves, SentSound
    <3> QED BY <3>2, <3>3
  <2> QED BY <2>1, <2>2
<1> QED BY <1>1, <1>2, <1>3 DEF RelaysMove

LEMMA GivesUp ==
    ASSUME RelayInv, NEW i \in Relays, GiveUp(i), DOMAIN log' = Orgs, faults' \in Nat, faults' <= MaxFaults
    PROVE  RelaysMove
<1>1. /\ leader \in Relays \cup {Nobody} /\ batch \in [Relays -> Seq(Nat)] /\ sent \in [Relays -> BOOLEAN]
      /\ blocked \in [Relays -> SUBSET Orgs]
      /\ \A j \in Relays : sent[j] => batch[j] # <<>>
  BY DEF RelayInv, TypeOK, RelaysTyped, PublishedLogged
<1>2. /\ batch' = [j \in Relays |-> batch'[j]] /\ leader' \in Relays \cup {Nobody} /\ sent' \in [Relays -> BOOLEAN]
      /\ blocked' \in [Relays -> SUBSET Orgs]
  BY <1>1 DEF GiveUp
<1>3. ASSUME NEW j \in Relays PROVE BatchMoves(j) /\ SentSound(j)
  <2>1. CASE j # i
    BY <1>1, <2>1 DEF GiveUp, BatchMoves, SentSound
  <2>2. CASE j = i
    BY <1>1, <2>2 DEF GiveUp, BatchMoves, SentSound
  <2> QED BY <2>1, <2>2
<1> QED BY <1>2, <1>3 DEF RelaysMove

LEMMA RelaySteps ==
    ASSUME RelayInv, [Next]_vars
    PROVE  Extends /\ RelaysMove
<1>1. /\ leader \in Relays \cup {Nobody} /\ batch \in [Relays -> Seq(Nat)] /\ sent \in [Relays -> BOOLEAN]
      /\ blocked \in [Relays -> SUBSET Orgs] /\ faults \in Nat /\ faults <= MaxFaults /\ log \in [Orgs -> Seq(Nat)]
      /\ \A j \in Relays : sent[j] => batch[j] # <<>> /\ Logged(Current(j))
  BY DEF RelayInv, TypeOK, RelaysTyped, PublishedLogged
<1>2. CASE UNCHANGED <<relayVars, log>>
  BY <1>1, <1>2 DEF relayVars, Extends, RelaysMove, BatchMoves, SentSound
<1>3. ASSUME NEW t \in Txs, Writer(t) PROVE Extends /\ RelaysMove
  BY <1>2, <1>3 DEF Writer, Begin, LockOrg, AppendRow, Commit, Rollback
<1>4. ASSUME NEW o \in Consumed, Consumer(o) PROVE Extends /\ RelaysMove
  BY <1>2, <1>4 DEF Consumer, Handle, Ack, Redeliver, HandleFails, DeadLetter
<1>5. ASSUME NEW r \in DOMAIN rows, RowDue(r) PROVE Extends /\ RelaysMove
  BY <1>2, <1>5 DEF RowDue
<1>6. CASE UNCHANGED vars
  BY <1>2, <1>6 DEF vars, relayVars
<1>7. ASSUME NEW i \in Relays, RelayOpen(i) PROVE Extends /\ RelaysMove
  <2>1. ASSUME NEW j \in Relays PROVE BatchMoves(j) /\ SentSound(j)
    <3>1. CASE j = i
      <4>1. batch'[i] = FirstOf(InOrder(Ready)) /\ sent' = sent /\ batch[i] = <<>> /\ ~sent[i]
        BY <1>1, <1>7 DEF RelayOpen
      <4> QED BY <3>1, <4>1 DEF BatchMoves, SentSound
    <3>2. CASE j # i
      <4>1. batch'[j] = batch[j] /\ sent' = sent /\ blocked' = blocked
        BY <1>1, <1>7, <3>2 DEF RelayOpen
      <4> QED BY <1>1, <4>1 DEF BatchMoves, SentSound
    <3> QED BY <3>1, <3>2
  <2>2. batch' = [j \in Relays |-> batch'[j]] /\ UNCHANGED <<sent, blocked, faults, log>> /\ leader' = i
    BY <1>1, <1>7 DEF RelayOpen
  <2> QED BY <1>1, <2>1, <2>2 DEF Extends, RelaysMove
<1>8. ASSUME NEW i \in Relays, Skip(i) PROVE Extends /\ RelaysMove
  <2>1. /\ batch[i] # <<>> /\ Advance(i, blocked[i]) /\ OrgOf(Current(i)) \in blocked[i]
        /\ UNCHANGED <<log, faults>> /\ blocked[i] \in SUBSET Orgs
    BY <1>1, <1>8 DEF Skip
  <2> QED BY <2>1, Advances DEF Extends
<1>9. ASSUME NEW i \in Relays, MarkPublished(i) PROVE Extends /\ RelaysMove
  <2>1. /\ batch[i] # <<>> /\ Advance(i, blocked[i]) /\ Logged(Current(i))
        /\ UNCHANGED <<log, faults>> /\ blocked[i] \in SUBSET Orgs
    BY <1>1, <1>9 DEF MarkPublished
  <2> QED BY <2>1, Advances DEF Extends
<1>10. ASSUME NEW i \in Relays, FailRow(i) PROVE Extends /\ RelaysMove
  <2> DEFINE skipped == blocked[i] \cup {OrgOf(Current(i))}
  <2>1. batch[i] # <<>> /\ Advance(i, skipped) /\ UNCHANGED <<log, faults>>
    BY <1>10 DEF FailRow, Sending
  <2>2. skipped \in SUBSET Orgs /\ blocked[i] \subseteq skipped /\ OrgOf(Current(i)) \in skipped
    BY <1>1, <2>1, CurrentIs
  <2> HIDE DEF skipped
  <2> QED BY <2>1, <2>2, Advances DEF Extends
<1>11. ASSUME NEW i \in Relays, Sending(i), log' = Recorded(Current(i))
       PROVE  Extends /\ DOMAIN log' = Orgs
  <2>1. /\ Current(i) \in Settled /\ \A q \in Ahead(Current(i)) : Logged(q)
    BY <1>11, CurrentIs DEF Sending
  <2> QED BY <1>1, <1>11, <2>1 DEF Extends, Recorded
<1>12. ASSUME NEW i \in Relays, Send(i) PROVE Extends /\ RelaysMove
  <2>1. /\ Sending(i) /\ log' = Recorded(Current(i)) /\ UNCHANGED <<leader, batch, blocked, faults>>
        /\ sent' = [sent EXCEPT ![i] = TRUE]
    BY <1>12 DEF Send
  <2>2. \A j \in Relays : BatchMoves(j) /\ SentSound(j)
    BY <1>1, <2>1 DEF Sending, BatchMoves, SentSound
  <2> QED BY <1>1, <1>11, <2>1, <2>2 DEF RelaysMove
<1>13. ASSUME NEW i \in Relays, BrokerFails(i) PROVE Extends /\ RelaysMove
  <2>1. GiveUp(i) /\ Sending(i)
    BY <1>13 DEF BrokerFails
  <2>2. CASE UNCHANGED <<log, faults>>
    BY <1>1, <2>1, <2>2, GivesUp DEF Extends
  <2>3. CASE faults < MaxFaults /\ faults' = faults + 1 /\ log' = Recorded(Current(i))
    <3>1. faults' \in Nat /\ faults' <= MaxFaults
      BY <1>1, <2>3, OutboxAssumption
    <3> QED BY <1>11, <2>1, <2>3, <3>1, GivesUp
  <2> QED BY <1>13, <2>2, <2>3 DEF BrokerFails
<1>14. ASSUME NEW i \in Relays, RelayDies(i) PROVE Extends /\ RelaysMove
  <2>1. GiveUp(i) /\ log' = log /\ faults' \in Nat /\ faults' <= MaxFaults
    BY <1>1, <1>14, OutboxAssumption DEF RelayDies
  <2> QED BY <1>1, <2>1, GivesUp DEF Extends
<1>15. ASSUME NEW i \in Relays, LoseLock(i) PROVE Extends /\ RelaysMove
  <2>1. UNCHANGED <<batch, sent, blocked, log>> /\ leader' = Nobody /\ faults' \in Nat /\ faults' <= MaxFaults
    BY <1>1, <1>15, OutboxAssumption DEF LoseLock
  <2> QED BY <1>1, <2>1 DEF Extends, RelaysMove, BatchMoves, SentSound
<1> QED BY <1>3, <1>4, <1>5, <1>6, <1>7, <1>8, <1>9, <1>10, <1>12, <1>13, <1>14, <1>15 DEF Next, Relay

LEMMA BatchStep ==
    ASSUME RelayInv, [Next]_vars
    PROVE  BatchInOrder' /\ batch' \in [Relays -> Seq(Nat)]
<1>1. TypeOK /\ IdsTaken /\ BatchInOrder /\ batch \in [Relays -> Seq(Nat)]
  BY DEF RelayInv, TypeOK, RelaysTyped
<1>2. /\ Settled \subseteq Settled' /\ Settled \subseteq DOMAIN rows /\ (\A r \in Settled : Ahead(r)' = Ahead(r))
      /\ (\A r \in DOMAIN rows : OrgOf(r)' = OrgOf(r)) /\ (\A r \in DOMAIN rows : Logged(r) => Logged(r)')
      /\ \A r \in Settled : Ahead(r) \subseteq Settled
  <2>1. \A r \in Settled : Ahead(r) \subseteq Settled
    BY DEF Ahead
  <2> QED BY <1>1, <2>1, StillAhead, Growth, SettledRows, RelaySteps, LogStep
<1>3. ASSUME NEW j \in Relays
      PROVE  /\ batch'[j] \in Seq(Nat)
             /\ \A n \in DOMAIN batch'[j] :
                  /\ batch'[j][n] \in Settled
                  /\ OrgOf(batch'[j][n]) \notin blocked'[j] =>
                       \A q \in Ahead(batch'[j][n]) : Logged(q) \/ \E m \in 1..(n - 1) : batch'[j][m] = q
  <2>1. BatchMoves(j)
    BY RelaySteps DEF RelaysMove
  <2>2. CASE batch'[j] = batch[j] /\ blocked'[j] = blocked[j]
    BY <1>1, <2>2 DEF BatchInOrder
  <2>3. CASE batch'[j] = <<>>
    BY <2>3
  <2>4. CASE /\ batch[j] # <<>> /\ batch'[j] = Tail(batch[j])
             /\ Len(batch[j]) = 1 \/ blocked[j] \subseteq blocked'[j]
             /\ OrgOf(Current(j)) \in blocked'[j] \/ Logged(Current(j))
    <3>1. /\ DOMAIN batch[j] = 1..Len(batch[j]) /\ Len(batch[j]) \in Nat \ {0} /\ Current(j) = batch[j][1]
          /\ batch'[j] \in Seq(Nat) /\ DOMAIN batch'[j] = 1..(Len(batch[j]) - 1)
          /\ \A n \in 1..(Len(batch[j]) - 1) : batch'[j][n] = batch[j][n + 1]
      BY <2>4, CurrentIs
    <3>2. ASSUME NEW n \in 1..(Len(batch[j]) - 1)
          PROVE  /\ batch'[j][n] \in Settled
                 /\ OrgOf(batch'[j][n]) \notin blocked'[j] =>
                      \A q \in Ahead(batch'[j][n]) : Logged(q) \/ \E m \in 1..(n - 1) : batch'[j][m] = q
      <4> DEFINE x == batch[j][n + 1]
      <4>1. n + 1 \in DOMAIN batch[j] /\ x = batch'[j][n] /\ blocked[j] \subseteq blocked'[j] /\ n \in Nat
        BY <2>4, <3>1
      <4>2. /\ x \in Settled
            /\ OrgOf(x) \notin blocked[j] =>
                 \A q \in Ahead(x) : Logged(q) \/ \E m \in 1..((n + 1) - 1) : batch[j][m] = q
        BY <1>1, <4>1 DEF BatchInOrder
      <4> HIDE DEF x
      <4>3. ASSUME OrgOf(x) \notin blocked'[j], NEW q \in Ahead(x), ~Logged(q)
            PROVE  \E m \in 1..(n - 1) : batch'[j][m] = q
        <5>1. PICK m \in 1..n : batch[j][m] = q
          BY <4>1, <4>2, <4>3
        <5>2. OrgOf(q) = OrgOf(x)
          BY <4>3 DEF Ahead
        <5>3. m # 1
          BY <2>4, <3>1, <4>3, <5>1, <5>2
        <5>4. m - 1 \in 1..(n - 1) /\ m - 1 \in 1..(Len(batch[j]) - 1) /\ (m - 1) + 1 = m
          BY <3>1, <4>1, <5>3
        <5> QED BY <3>1, <5>1, <5>4
      <4> QED BY <4>1, <4>2, <4>3
    <3> QED BY <3>1, <3>2
  <2>5. CASE batch'[j] = FirstOf(InOrder(Ready))
    BY <2>5, BatchRead
  <2> QED BY <2>1, <2>2, <2>3, <2>4, <2>5 DEF BatchMoves
<1>4. batch' = [j \in Relays |-> batch'[j]]
  BY RelaySteps DEF RelaysMove
<1>5. batch' \in [Relays -> Seq(Nat)]
  BY <1>3, <1>4
<1>6. ASSUME NEW j \in Relays, NEW n \in DOMAIN batch'[j], NEW x, x = batch'[j][n]
      PROVE  /\ x \in Settled'
             /\ OrgOf(x)' \notin blocked'[j] =>
                  \A q \in Ahead(x)' : Logged(q)' \/ \E m \in 1..(n - 1) : batch'[j][m] = q
  <2>1. /\ x \in Settled
        /\ OrgOf(x) \notin blocked'[j] => \A q \in Ahead(x) : Logged(q) \/ \E m \in 1..(n - 1) : batch'[j][m] = q
    BY <1>3, <1>6
  <2>2. x \in DOMAIN rows /\ OrgOf(x)' = OrgOf(x) /\ Ahead(x)' = Ahead(x) /\ Ahead(x) \subseteq DOMAIN rows
    BY <1>2, <2>1
  <2> QED BY <1>2, <2>1, <2>2
<1> QED BY <1>5, <1>6 DEF BatchInOrder

LEMMA LogGrows ==
    ASSUME RelayInv, [Next]_vars, NEW o \in Orgs
    PROVE  /\ log[o] \in Seq(Nat) /\ log'[o] \in Seq(Nat) /\ Len(log[o]) <= Len(log'[o])
           /\ \A k \in 1..Len(log[o]) : log'[o][k] = log[o][k]
<1>1. log \in [Orgs -> Seq(Nat)] /\ log' \in [Orgs -> Seq(Nat)] /\ WritersTyped
  BY RelaySteps, LogStep DEF RelayInv, TypeOK, RelaysTyped
<1>2. log[o] \in Seq(Nat) /\ log'[o] \in Seq(Nat) /\ Len(log[o]) \in Nat
  BY <1>1
<1>3. CASE log' = log
  BY <1>2, <1>3
<1>4. CASE \E r \in Settled : log' = Recorded(r)
  <2>1. PICK r \in Settled : log' = Recorded(r)
    BY <1>4
  <2>2. OrgOf(r) = o \/ log'[o] = log[o]
    BY <1>1, <2>1 DEF Recorded
  <2>3. OrgOf(r) = o => log'[o] = Append(log[o], r)
    BY <1>1, <2>1 DEF Recorded
  <2>4. r \in Nat
    BY <1>1, SettledRows, RowsAre
  <2>5. CASE OrgOf(r) = o
    <3> DEFINE u == log[o]
    <3>1. u \in Seq(Nat) /\ log'[o] = Append(u, r)
      BY <1>2, <2>3, <2>5
    <3> HIDE DEF u
    <3>2. Len(Append(u, r)) = Len(u) + 1 /\ \A k \in 1..Len(u) : Append(u, r)[k] = u[k]
      BY <2>4, <3>1
    <3> QED BY <1>2, <3>1, <3>2 DEF u
  <2> QED BY <1>2, <2>2, <2>5
<1> QED BY <1>3, <1>4, RelaySteps DEF Extends

\* A row is marked as published once it is in its partition, and never otherwise.
LEMMA NewlyPublished ==
    ASSUME RelayInv, [Next]_vars, NEW r \in DOMAIN rows', rows'[r].status = "PUBLISHED"
    PROVE  r \in DOMAIN rows /\ r \in Settled /\ Logged(r)
<1>1. WritersTyped /\ PublishedLogged
  BY DEF RelayInv, TypeOK
<1>2. DOMAIN rows = 1..Len(rows) /\ Len(rows) \in Nat /\ rows \in [1..Len(rows) -> RowType]
  BY <1>1, RowsAre
<1>3. CASE rows' = rows
  BY <1>1, <1>3 DEF PublishedLogged
<1>4. ASSUME NEW t \in Txs, AppendRow(t) PROVE r \in DOMAIN rows /\ rows[r].status = "PUBLISHED"
  <2>1. rows' = Append(rows, NewRow(t)) /\ rows \in Seq(RowType)
    BY <1>1, <1>4 DEF AppendRow, WritersTyped
  <2>2. NewRow(t).status = "PENDING"
    BY DEF NewRow
  <2>3. (r \in DOMAIN rows /\ rows'[r] = rows[r]) \/ rows'[r] = NewRow(t)
    BY <1>2, <2>1
  <2> QED BY <2>2, <2>3
<1>5. ASSUME NEW q \in DOMAIN rows, RowDue(q) PROVE r \in DOMAIN rows /\ rows[r].status = "PUBLISHED"
  <2>1. rows' = [rows EXCEPT ![q] = [@ EXCEPT !.due = TRUE]]
    BY <1>5 DEF RowDue
  <2> QED BY <1>2, <2>1 DEF RowType
<1>6. ASSUME NEW i \in Relays, MarkPublished(i)
      PROVE  r \in DOMAIN rows /\ (rows[r].status = "PUBLISHED" \/ r = Current(i))
  <2>1. rows' = [rows EXCEPT ![Current(i)] = [@ EXCEPT !.status = "PUBLISHED"]]
    BY <1>6 DEF MarkPublished
  <2> QED BY <1>2, <2>1
<1>7. ASSUME NEW i \in Relays, FailRow(i) PROVE r \in DOMAIN rows /\ rows[r].status = "PUBLISHED"
  <2> DEFINE x == rows[Current(i)]
             s == IF Parked(x.attempts + 1) THEN "PARKED" ELSE x.status
             row == [x EXCEPT !.attempts = x.attempts + 1, !.due = FALSE, !.status = s]
  <2>1. rows' = [rows EXCEPT ![Current(i)] = row]
    BY <1>7 DEF FailRow
  <2>2. x \in RowType => (row.status = s) /\ (s = "PARKED" \/ s = x.status)
    BY DEF RowType
  <2> HIDE DEF row, s
  <2> QED BY <1>2, <2>1, <2>2
<1>8. ASSUME NEW i \in Relays, MarkPublished(i) PROVE Current(i) \in Settled /\ Logged(Current(i))
  BY <1>1, <1>8, CurrentIs DEF MarkPublished, PublishedLogged
<1>9. rows[r].status = "PUBLISHED" /\ r \in DOMAIN rows => r \in Settled /\ Logged(r)
  BY <1>1 DEF PublishedLogged
<1>10. ASSUME NEW i \in Relays, Relay(i), ~MarkPublished(i), ~FailRow(i) PROVE rows' = rows
  BY <1>10 DEF Relay, RelayOpen, Skip, Send, BrokerFails, RelayDies, LoseLock
<1>11. ASSUME NEW t \in Txs, Writer(t), ~AppendRow(t) PROVE rows' = rows
  BY <1>11 DEF Writer, Begin, LockOrg, Commit, Rollback
<1>12. ASSUME NEW o \in Consumed, Consumer(o) PROVE rows' = rows
  BY <1>12 DEF Consumer, Handle, Ack, Redeliver, HandleFails, DeadLetter
<1>13. UNCHANGED vars => rows' = rows
  BY DEF vars
<1> QED BY <1>3, <1>4, <1>5, <1>6, <1>7, <1>8, <1>9, <1>10, <1>11, <1>12, <1>13 DEF Next

LEMMA PublishedStep ==
    ASSUME RelayInv, [Next]_vars
    PROVE  PublishedLogged'
<1>1. /\ WritersTyped /\ TypeOK /\ IdsTaken /\ log \in [Orgs -> Seq(Nat)] /\ Settled \subseteq DOMAIN rows
      /\ \A i \in Relays : sent[i] => batch[i] # <<>> /\ Logged(Current(i))
  BY SettledRows DEF RelayInv, TypeOK, RelaysTyped, PublishedLogged
<1>2. Settled \subseteq Settled' /\ \A r \in DOMAIN rows : Logged(r) => Logged(r)'
  BY <1>1, Growth, RelaySteps, LogStep
<1>3. ASSUME NEW r \in DOMAIN rows', rows'[r].status = "PUBLISHED" PROVE r \in Settled' /\ Logged(r)'
  BY <1>2, <1>3, NewlyPublished
<1>4. ASSUME NEW i \in Relays, sent'[i] PROVE batch'[i] # <<>> /\ Logged(Current(i))'
  <2>1. batch'[i] = batch[i] /\ batch[i] # <<>> /\ (sent[i] \/ log' = Recorded(Current(i)))
    BY <1>4, RelaySteps DEF RelaysMove, SentSound
  <2>2. PICK r \in DOMAIN rows : r \in Nat /\ OrgOf(r) \in Orgs /\ Head(batch[i]) = r /\ Head(batch'[i]) = r
    BY <2>1, CurrentIs DEF Current
  <2>3. CASE sent[i]
    <3>1. Logged(r)'
      BY <1>1, <1>2, <2>2, <2>3 DEF Current
    <3> QED BY <2>1, <2>2, <3>1 DEF Logged, OrgOf, Current
  <2>4. CASE log' = Recorded(Current(i))
    <3>1. PICK a \in Orgs : a = OrgOf(r) /\ OrgOf(r)' = a
      BY <1>1, <2>2, StillAhead
    <3>2. log'[a] = Append(log[a], r)
      BY <1>1, <2>2, <2>4, <3>1 DEF Recorded, Current
    <3>3. Len(log[a]) + 1 \in DOMAIN log'[a] /\ log'[a][Len(log[a]) + 1] = r
      BY <1>1, <2>2, <3>2
    <3>4. Logged(r)'
      BY <3>1, <3>3 DEF Logged
    <3> QED BY <2>1, <2>2, <3>4 DEF Logged, OrgOf, Current
  <2> QED BY <2>1, <2>3, <2>4
<1> QED BY <1>3, <1>4 DEF PublishedLogged

LEMMA RelayInvInit == Init => RelayInv
<1> SUFFICES ASSUME Init PROVE RelayInv
  OBVIOUS
<1>1. rows = <<>> /\ Begun = {} /\ DOMAIN rows = {}
  BY DEF Init, Begun
<1>2. WritersTyped
  BY <1>1 DEF Init, WritersTyped
<1>3. RelaysTyped
  BY OutboxAssumption DEF Init, RelaysTyped
<1>4. ConsumersTyped
  BY DEF Init, ConsumersTyped
<1>5. IdsTaken
  BY <1>1, FS_EmptySet DEF Init, IdsTaken
<1>6. LogInOrder /\ BatchInOrder /\ PublishedLogged
  BY <1>1 DEF Init, LogInOrder, BatchInOrder, PublishedLogged
<1> QED BY <1>2, <1>3, <1>4, <1>5, <1>6 DEF RelayInv, TypeOK

-----------------------------------------------------------------------------
(* The consumers.                                                            *)

\* What a consumer has acknowledged it has handled or dead-lettered, and what it has applied
\* it has claimed and received.
ConsumedLogged ==
    \A o \in Orgs :
        /\ acked[o] <= Len(log[o])
        /\ handled[o] => acked[o] < Len(log[o]) /\ Record(o) \in claimed
        /\ \A k \in 1..acked[o] : log[o][k] \in claimed \cup dead
        /\ \A j \in DOMAIN applied[o] :
             /\ applied[o][j] \in claimed
             /\ \E k \in DOMAIN log[o] : k <= acked[o] + 1 /\ log[o][k] = applied[o][j]

OutboxInv == RelayInv /\ ConsumedLogged /\ AppliedOnceInOrder

LEMMA OutboxInvInit == Init => OutboxInv
<1> SUFFICES ASSUME Init PROVE OutboxInv
  OBVIOUS
<1>1. ConsumedLogged /\ AppliedOnceInOrder
  BY DEF Init, ConsumedLogged, AppliedOnceInOrder
<1> QED BY <1>1, RelayInvInit DEF OutboxInv

\* The rows a partition or a consumer knows keep their order.
LEMMA AppliedSettled ==
    ASSUME OutboxInv, NEW o \in Orgs
    PROVE  /\ acked[o] \in Nat /\ Len(log[o]) \in Nat /\ DOMAIN log[o] = 1..Len(log[o])
           /\ applied[o] \in Seq(Nat) /\ DOMAIN applied[o] = 1..Len(applied[o])
           /\ \A k \in DOMAIN log[o] : log[o][k] \in Settled /\ log[o][k] \in DOMAIN rows /\ OrgOf(log[o][k]) = o
           /\ \A j \in DOMAIN applied[o] : /\ applied[o][j] \in DOMAIN rows /\ applied[o][j] \in claimed
                                          /\ applied[o][j] \in Settled
<1>1. /\ acked \in [Orgs -> Nat] /\ applied \in [Orgs -> Seq(Nat)] /\ log \in [Orgs -> Seq(Nat)]
      /\ LogInOrder /\ ConsumedLogged
  BY DEF OutboxInv, RelayInv, TypeOK, ConsumersTyped, RelaysTyped
<1>2. /\ \A k \in DOMAIN log[o] : log[o][k] \in Settled /\ log[o][k] \in DOMAIN rows /\ OrgOf(log[o][k]) = o
  BY <1>1, SettledRows DEF LogInOrder
<1>3. ASSUME NEW j \in DOMAIN applied[o]
      PROVE  applied[o][j] \in claimed /\ applied[o][j] \in DOMAIN rows /\ applied[o][j] \in Settled
  <2>1. PICK k \in DOMAIN log[o] : log[o][k] = applied[o][j]
    BY <1>1, <1>3 DEF ConsumedLogged
  <2> QED BY <1>1, <1>2, <1>3, <2>1 DEF ConsumedLogged
<1> QED BY <1>1, <1>2, <1>3

\* Nothing a consumer holds back is disturbed by the writers and the relays.
LEMMA OthersKeepConsumed ==
    ASSUME OutboxInv, [Next]_vars, UNCHANGED consumerVars
    PROVE  ConsumersTyped' /\ ConsumedLogged' /\ AppliedOnceInOrder'
<1>1. RelayInv /\ ConsumedLogged /\ AppliedOnceInOrder /\ ConsumersTyped /\ TypeOK /\ IdsTaken
  BY DEF OutboxInv, RelayInv, TypeOK
<1>2. UNCHANGED <<acked, handled, tries, claimed, applied, dead>>
  BY DEF consumerVars
<1>3. ConsumersTyped'
  BY <1>1, <1>2 DEF ConsumersTyped
<1>4. ASSUME NEW o \in Orgs
      PROVE  /\ acked[o] <= Len(log'[o])
             /\ handled[o] => acked[o] < Len(log'[o]) /\ log'[o][acked[o] + 1] \in claimed
             /\ \A k \in 1..acked[o] : log'[o][k] \in claimed \cup dead
             /\ \A j \in DOMAIN applied[o] :
                  /\ applied[o][j] \in claimed
                  /\ \E k \in DOMAIN log'[o] : k <= acked[o] + 1 /\ log'[o][k] = applied[o][j]
  <2>1. acked[o] \in Nat /\ Len(log[o]) \in Nat /\ DOMAIN log[o] = 1..Len(log[o])
    BY AppliedSettled
  <2>2. /\ Len(log[o]) <= Len(log'[o]) /\ Len(log'[o]) \in Nat /\ DOMAIN log'[o] = 1..Len(log'[o])
        /\ \A k \in 1..Len(log[o]) : log'[o][k] = log[o][k]
    BY <1>1, LogGrows
  <2>3. /\ acked[o] <= Len(log[o])
        /\ handled[o] => acked[o] < Len(log[o]) /\ log[o][acked[o] + 1] \in claimed
        /\ \A k \in 1..acked[o] : log[o][k] \in claimed \cup dead
    BY <1>1 DEF ConsumedLogged, Record
  <2>4. ASSUME NEW j \in DOMAIN applied[o]
        PROVE  /\ applied[o][j] \in claimed
               /\ \E k \in DOMAIN log'[o] : k <= acked[o] + 1 /\ log'[o][k] = applied[o][j]
    <3>1. applied[o][j] \in claimed /\ \E k \in DOMAIN log[o] : k <= acked[o] + 1 /\ log[o][k] = applied[o][j]
      BY <1>1, <2>4 DEF ConsumedLogged
    <3> QED BY <2>1, <2>2, <3>1
  <2>5. handled[o] => acked[o] < Len(log'[o]) /\ log'[o][acked[o] + 1] \in claimed
    BY <2>1, <2>2, <2>3
  <2>6. acked[o] <= Len(log'[o]) /\ \A k \in 1..acked[o] : log'[o][k] \in claimed \cup dead
    BY <2>1, <2>2, <2>3
  <2> QED BY <2>4, <2>5, <2>6
<1>5. ConsumedLogged'
  BY <1>2, <1>4 DEF ConsumedLogged, Record
<1>6. ASSUME NEW o \in Orgs, NEW j \in DOMAIN applied[o], NEW k \in DOMAIN applied[o], j < k,
             NEW x, x = applied[o][j], NEW y, y = applied[o][k]
      PROVE  x # y /\ (Precedes(x, y)' \/ y \in dead)
  <2>1. x \in DOMAIN rows /\ y \in DOMAIN rows
    BY <1>6, AppliedSettled
  <2>2. x # y /\ (Precedes(x, y) \/ y \in dead)
    BY <1>1, <1>6 DEF AppliedOnceInOrder
  <2> QED BY <1>1, <2>1, <2>2, Growth
<1>7. AppliedOnceInOrder'
  BY <1>2, <1>6 DEF AppliedOnceInOrder
<1> QED BY <1>3, <1>5, <1>7

\* What comes before an applied event and is claimed later was dead-lettered.
LEMMA LateOnlyFromDead ==
    ASSUME OutboxInv, NEW o \in Orgs, Pending(o), Record(o) \notin claimed, NEW j \in DOMAIN applied[o]
    PROVE  /\ applied[o][j] # Record(o)
           /\ Precedes(applied[o][j], Record(o)) \/ Record(o) \in dead
<1>1. /\ acked[o] \in Nat /\ Len(log[o]) \in Nat /\ DOMAIN log[o] = 1..Len(log[o])
      /\ \A k \in DOMAIN log[o] : log[o][k] \in Settled /\ log[o][k] \in DOMAIN rows /\ OrgOf(log[o][k]) = o
      /\ applied[o][j] \in DOMAIN rows /\ applied[o][j] \in claimed
  BY AppliedSettled
<1>2. LogInOrder /\ ConsumedLogged /\ WritersTyped /\ IdsTaken
  BY DEF OutboxInv, RelayInv, TypeOK
<1>3. PICK k \in DOMAIN log[o] : k <= acked[o] + 1 /\ log[o][k] = applied[o][j]
  BY <1>2 DEF ConsumedLogged
<1>4. acked[o] + 1 \in DOMAIN log[o]
  BY <1>1 DEF Pending
<1> DEFINE a == applied[o][j]
           r == Record(o)
<1>5. r = log[o][acked[o] + 1] /\ r \in Settled /\ OrgOf(r) = o /\ r \in DOMAIN rows /\ r \notin claimed
  BY <1>1, <1>4 DEF Record
<1>6. a # r /\ a \in DOMAIN rows /\ a = log[o][k] /\ OrgOf(a) = o
  BY <1>1, <1>3, <1>5
<1> HIDE DEF a, r
<1>7. k <= acked[o] /\ k \in Nat
  BY <1>1, <1>3, <1>5, <1>6
<1>8. Precedes(a, r) \/ Precedes(r, a)
  <2>1. Orders(DOMAIN rows, Before)
    BY <1>2, RowsOrdered
  <2>2. <<a, r>> \in Before \/ <<r, a>> \in Before
    BY <1>5, <1>6, <2>1 DEF Orders
  <2> QED BY <2>2 DEF Before
<1>9. CASE Precedes(r, a)
  <2>1. r \in Ahead(a)
    BY <1>5, <1>6, <1>9 DEF Ahead
  <2>2. PICK n \in 1..(k - 1) : log[o][n] = r
    BY <1>2, <1>3, <1>6, <2>1 DEF LogInOrder
  <2>3. n \in 1..acked[o]
    BY <1>1, <1>7, <2>2
  <2>4. r \in claimed \cup dead
    BY <1>2, <2>2, <2>3 DEF ConsumedLogged
  <2> QED BY <1>5, <1>6, <2>4 DEF a, r
<1> QED BY <1>6, <1>8, <1>9 DEF a, r

LEMMA ConsumersKeepConsumed ==
    ASSUME OutboxInv, NEW o \in Consumed, Consumer(o)
    PROVE  ConsumersTyped' /\ ConsumedLogged' /\ AppliedOnceInOrder'
<1>1. /\ RelayInv /\ ConsumedLogged /\ AppliedOnceInOrder /\ LogInOrder /\ o \in Orgs
      /\ acked \in [Orgs -> Nat] /\ handled \in [Orgs -> BOOLEAN] /\ tries \in [Orgs -> Nat]
      /\ claimed \in SUBSET Nat /\ applied \in [Orgs -> Seq(Nat)] /\ dead \in SUBSET Nat
      /\ log \in [Orgs -> Seq(Nat)] /\ WritersTyped
  BY OutboxAssumption DEF OutboxInv, RelayInv, TypeOK, ConsumersTyped, RelaysTyped
<1>2. UNCHANGED <<tx, xid, rows, log>>
  BY DEF Consumer, Handle, Ack, Redeliver, HandleFails, DeadLetter, txVars
<1>3. \A q, r : Precedes(q, r)' <=> Precedes(q, r)
  BY <1>2 DEF Precedes
<1>4. /\ \A u \in Orgs : /\ acked[u] <= Len(log[u])
                         /\ handled[u] => acked[u] < Len(log[u]) /\ log[u][acked[u] + 1] \in claimed
                         /\ \A k \in 1..acked[u] : log[u][k] \in claimed \cup dead
      /\ \A u \in Orgs : \A j \in DOMAIN applied[u] :
             /\ applied[u][j] \in claimed
             /\ \E k \in DOMAIN log[u] : k <= acked[u] + 1 /\ log[u][k] = applied[u][j]
  BY <1>1 DEF ConsumedLogged, Record
<1>5. /\ \A u \in Orgs : acked[u] \in Nat /\ Len(log[u]) \in Nat /\ DOMAIN log[u] = 1..Len(log[u])
      /\ \A u \in Orgs : \A k \in DOMAIN log[u] : log[u][k] \in Nat
  BY <1>1
<1>6. CASE Handle(o)
  <2> DEFINE r == Record(o)
  <2>1. /\ Pending(o) /\ acked[o] < Len(log[o]) /\ r = log[o][acked[o] + 1] /\ r \in Nat
        /\ UNCHANGED <<acked, tries, dead>> /\ claimed' = claimed \cup {r}
        /\ handled' = [handled EXCEPT ![o] = TRUE] /\ acked[o] + 1 \in DOMAIN log[o]
    BY <1>1, <1>5, <1>6 DEF Handle, Pending, Record
  <2>2. \/ r \in claimed /\ applied' = applied
        \/ r \notin claimed /\ applied' = [applied EXCEPT ![o] = Append(@, r)]
    BY <1>6 DEF Handle, FirstDelivery
  <2>3. ASSUME NEW j \in DOMAIN applied[o], r \notin claimed
        PROVE  applied[o][j] # r /\ (Precedes(applied[o][j], r) \/ r \in dead)
    BY <1>1, <2>1, <2>3, LateOnlyFromDead
  <2> HIDE DEF r
  <2>10. /\ applied' \in [Orgs -> Seq(Nat)] /\ \A u \in Orgs \ {o} : applied'[u] = applied[u]
         /\ \/ applied'[o] = applied[o]
            \/ r \notin claimed /\ applied'[o] = Append(applied[o], r)
    <3>1. applied[o] \in Seq(Nat)
      BY <1>1
    <3>2. Append(applied[o], r) \in Seq(Nat)
      BY <2>1, <3>1, AppendProperties
    <3> QED BY <1>1, <2>2, <3>2
  <2>4. ConsumersTyped'
    <3>1. /\ acked' \in [Orgs -> Nat] /\ handled' \in [Orgs -> BOOLEAN] /\ tries' \in [Orgs -> Nat]
          /\ dead' \in SUBSET Nat
      BY <1>1, <2>1
    <3>2. claimed' \in SUBSET Nat
      BY <1>1, <2>1
    <3> QED BY <2>10, <3>1, <3>2 DEF ConsumersTyped
  <2>5. ASSUME NEW u \in Orgs, NEW j \in DOMAIN applied'[u]
        PROVE  \/ j \in DOMAIN applied[u] /\ applied'[u][j] = applied[u][j]
               \/ /\ u = o /\ r \notin claimed /\ j = Len(applied[o]) + 1 /\ applied'[u][j] = r
    <3>1. CASE applied'[u] = applied[u]
      BY <2>5, <3>1
    <3>2. CASE u = o /\ r \notin claimed /\ applied'[o] = Append(applied[o], r)
      <4> DEFINE v == applied[o]
      <4>1. v \in Seq(Nat) /\ j \in DOMAIN Append(v, r) /\ applied'[u] = Append(v, r)
        BY <1>1, <2>5, <3>2
      <4> HIDE DEF v
      <4>2. j \in 1..(Len(v) + 1) /\ Len(v) \in Nat /\ DOMAIN v = 1..Len(v)
        BY <2>1, <4>1, AppendProperties, LenProperties
      <4>3. Append(v, r)[j] = IF j <= Len(v) THEN v[j] ELSE r
        BY <2>1, <4>1, <4>2, AppendProperties
      <4> QED BY <3>2, <4>1, <4>2, <4>3 DEF v
    <3> QED BY <2>10, <3>1, <3>2
  <2>6. ASSUME NEW u \in Orgs, NEW j \in DOMAIN applied'[u]
        PROVE  /\ applied'[u][j] \in claimed'
               /\ \E k \in DOMAIN log[u] : k <= acked[u] + 1 /\ log[u][k] = applied'[u][j]
    BY <1>4, <1>5, <2>1, <2>5, <2>6
  <2>7. ConsumedLogged'
    <3>1. ASSUME NEW u \in Orgs, handled'[u] PROVE acked[u] < Len(log[u]) /\ log[u][acked[u] + 1] \in claimed'
      BY <1>1, <1>4, <2>1, <3>1
    <3>2. \A u \in Orgs : \A k \in 1..acked[u] : log[u][k] \in claimed' \cup dead
      BY <1>4, <2>1
    <3> QED BY <1>2, <1>4, <2>1, <2>6, <3>1, <3>2 DEF ConsumedLogged, Record
  <2>8. ASSUME NEW u \in Orgs, NEW j \in DOMAIN applied'[u], NEW k \in DOMAIN applied'[u], j < k,
               NEW x, x = applied'[u][j], NEW y, y = applied'[u][k]
        PROVE  x # y /\ (Precedes(x, y) \/ y \in dead)
    <3>1. j \in Nat /\ k \in Nat /\ Len(applied[u]) \in Nat /\ DOMAIN applied[u] = 1..Len(applied[u])
      <4>1. applied[u] \in Seq(Nat) /\ applied'[u] \in Seq(Nat)
        BY <1>1, <2>10
      <4> QED BY <2>8, <4>1, LenProperties
    <3>2. j \in DOMAIN applied[u] /\ x = applied[u][j]
      BY <2>5, <2>8, <3>1
    <3>3. CASE k \in DOMAIN applied[u] /\ y = applied[u][k]
      BY <1>1, <2>8, <3>2, <3>3 DEF AppliedOnceInOrder
    <3>4. CASE u = o /\ r \notin claimed /\ y = r
      BY <2>3, <3>2, <3>4
    <3> QED BY <2>5, <2>8, <3>3, <3>4
  <2>9. AppliedOnceInOrder'
    BY <1>3, <2>1, <2>8 DEF AppliedOnceInOrder
  <2> QED BY <2>4, <2>7, <2>9
<1>7. ASSUME UNCHANGED <<claimed, applied>>, dead \subseteq dead' PROVE AppliedOnceInOrder'
  BY <1>1, <1>3, <1>7 DEF AppliedOnceInOrder
<1>8. ASSUME UNCHANGED <<claimed, applied>>, dead \subseteq dead', acked' = [acked EXCEPT ![o] = @ + 1],
             ~handled'[o], \A u \in Orgs \ {o} : handled'[u] = handled[u],
             acked[o] < Len(log[o]), log[o][acked[o] + 1] \in claimed' \cup dead'
      PROVE  ConsumedLogged'
  <2>1. ASSUME NEW u \in Orgs
        PROVE  /\ acked'[u] <= Len(log[u])
               /\ handled'[u] => acked'[u] < Len(log[u]) /\ log[u][acked'[u] + 1] \in claimed'
               /\ \A k \in 1..acked'[u] : log[u][k] \in claimed' \cup dead'
               /\ \A j \in DOMAIN applied'[u] :
                    /\ applied'[u][j] \in claimed'
                    /\ \E k \in DOMAIN log[u] : k <= acked'[u] + 1 /\ log[u][k] = applied'[u][j]
    <3>1. CASE u # o
      BY <1>1, <1>4, <1>8, <3>1
    <3>2. CASE u = o
      <4>1. acked'[o] = acked[o] + 1 /\ acked[o] \in Nat /\ Len(log[o]) \in Nat
        BY <1>1, <1>5, <1>8
      <4>2. \A k \in 1..acked'[o] : k \in 1..acked[o] \/ k = acked[o] + 1
        BY <4>1
      <4>3. \A k \in 1..acked'[o] : log[o][k] \in claimed' \cup dead'
        BY <1>1, <1>4, <1>8, <4>2
      <4>4. ASSUME NEW j \in DOMAIN applied[o]
            PROVE  applied[o][j] \in claimed /\ \E k \in DOMAIN log[o] : k <= acked'[o] + 1 /\ log[o][k] = applied[o][j]
        BY <1>1, <1>4, <1>5, <4>1, <4>4
      <4> QED BY <1>8, <3>2, <4>1, <4>3, <4>4
    <3> QED BY <3>1, <3>2
  <2> QED BY <1>2, <2>1 DEF ConsumedLogged, Record
<1>9. CASE Ack(o)
  <2>1. /\ UNCHANGED <<claimed, applied, dead>> /\ acked' = [acked EXCEPT ![o] = @ + 1] /\ handled[o]
        /\ handled' = [handled EXCEPT ![o] = FALSE] /\ tries' = [tries EXCEPT ![o] = 0]
    BY <1>9 DEF Ack
  <2>2. ConsumersTyped'
    BY <1>1, <2>1 DEF ConsumersTyped
  <2>3. ConsumedLogged'
    BY <1>1, <1>4, <1>8, <2>1
  <2> QED BY <1>7, <2>1, <2>2, <2>3
<1>10. CASE DeadLetter(o)
  <2>1. /\ UNCHANGED <<claimed, applied, handled>> /\ acked' = [acked EXCEPT ![o] = @ + 1] /\ ~handled[o]
        /\ acked[o] < Len(log[o]) /\ dead' = dead \cup {log[o][acked[o] + 1]}
        /\ tries' = [tries EXCEPT ![o] = 0]
    BY <1>10 DEF DeadLetter, Pending, Record
  <2>2. log[o][acked[o] + 1] \in Nat
    BY <1>1, <1>5, <2>1
  <2>3. ConsumersTyped'
    <3>1. acked' \in [Orgs -> Nat] /\ tries' \in [Orgs -> Nat]
      BY <1>1, <2>1
    <3>2. dead' \in SUBSET Nat
      BY <1>1, <2>1, <2>2
    <3> QED BY <1>1, <2>1, <3>1, <3>2 DEF ConsumersTyped
  <2>4. ConsumedLogged'
    BY <1>1, <1>8, <2>1
  <2> QED BY <1>7, <2>1, <2>3, <2>4
<1>11. CASE Redeliver(o) \/ HandleFails(o)
  <2>1. /\ UNCHANGED <<claimed, applied, dead, acked>> /\ \A u \in Orgs : handled'[u] => handled[u]
    BY <1>1, <1>11 DEF Redeliver, HandleFails
  <2>2. ConsumersTyped'
    <3>1. handled' \in [Orgs -> BOOLEAN] /\ tries' \in [Orgs -> Nat]
      <4>1. tries[o] + 1 \in Nat
        BY <1>1
      <4>2. CASE Redeliver(o)
        BY <1>1, <4>2 DEF Redeliver
      <4>3. CASE HandleFails(o)
        BY <1>1, <4>1, <4>3 DEF HandleFails
      <4> QED BY <1>11, <4>2, <4>3
    <3> QED BY <1>1, <2>1, <3>1 DEF ConsumersTyped
  <2>3. ConsumedLogged'
    BY <1>2, <1>4, <2>1 DEF ConsumedLogged, Record
  <2> QED BY <1>7, <2>1, <2>2, <2>3
<1> QED BY <1>6, <1>9, <1>10, <1>11 DEF Consumer

LEMMA OutboxInvStep ==
    ASSUME OutboxInv, [Next]_vars
    PROVE  OutboxInv'
<1>1. RelayInv /\ TypeOK /\ IdsTaken
  BY DEF OutboxInv, RelayInv
<1>2. WritersTyped' /\ IdsTaken'
  BY <1>1, WriterSteps, Growth
<1>3. RelaysTyped' /\ LogInOrder' /\ BatchInOrder' /\ PublishedLogged'
  <2>1. /\ leader' \in Relays \cup {Nobody} /\ sent' \in [Relays -> BOOLEAN]
        /\ blocked' \in [Relays -> SUBSET Orgs] /\ faults' \in Nat /\ faults' <= MaxFaults
    BY <1>1, RelaySteps DEF RelaysMove
  <2>2. LogInOrder' /\ log' \in [Orgs -> Seq(Nat)]
    BY <1>1, RelaySteps, LogStep
  <2>3. BatchInOrder' /\ batch' \in [Relays -> Seq(Nat)]
    BY <1>1, BatchStep
  <2> QED BY <1>1, <2>1, <2>2, <2>3, PublishedStep DEF RelaysTyped
<1>4. ConsumersTyped' /\ ConsumedLogged' /\ AppliedOnceInOrder'
  <2>1. CASE \E o \in Consumed : Consumer(o)
    BY <2>1, ConsumersKeepConsumed
  <2>2. CASE ~\E o \in Consumed : Consumer(o)
    <3>1. ASSUME NEW t \in Txs, Writer(t) PROVE UNCHANGED consumerVars
      BY <3>1 DEF Writer, Begin, LockOrg, AppendRow, Commit, Rollback
    <3>2. ASSUME NEW i \in Relays, Relay(i) PROVE UNCHANGED consumerVars
      BY <3>2 DEF Relay, RelayOpen, Skip, Send, MarkPublished, FailRow, BrokerFails, RelayDies, LoseLock
    <3>3. ASSUME NEW r \in DOMAIN rows, RowDue(r) PROVE UNCHANGED consumerVars
      BY <3>3 DEF RowDue
    <3>4. UNCHANGED vars => UNCHANGED consumerVars
      BY DEF vars, consumerVars
    <3>5. UNCHANGED consumerVars
      BY <2>2, <3>1, <3>2, <3>3, <3>4 DEF Next
    <3> QED BY <3>5, OthersKeepConsumed
  <2> QED BY <2>1, <2>2
<1> QED BY <1>2, <1>3, <1>4 DEF OutboxInv, RelayInv, TypeOK

\* Every reachable state: the types, the order of ids and rows, and what the partitions,
\* batches and consumers hold of it.
THEOREM OutboxInvariant == Spec => []OutboxInv
<1>1. Init => OutboxInv
  BY OutboxInvInit
<1>2. OutboxInv /\ [Next]_vars => OutboxInv'
  BY OutboxInvStep
<1> QED BY <1>1, <1>2, PTL DEF Spec

\* The inbox makes of a log with copies, crashes and dead letters a handling that applies each
\* event once, and none after a later one unless it had been dead-lettered.
THEOREM OutboxAppliesOnceInOrder == Spec => []AppliedOnceInOrder
<1>1. OutboxInv => AppliedOnceInOrder
  BY DEF OutboxInv
<1> QED BY <1>1, OutboxInvariant, PTL

-----------------------------------------------------------------------------
(* The outbox implements the feed.                                           *)

Waiting(o) == {r \in Settled : OrgOf(r) = o}

Lines ==
    \A o \in Orgs : /\ IsFiniteSet(Waiting(o)) /\ Orders(Waiting(o), Before)
                    /\ Line(o) = Listed(Waiting(o), Before)

LEMMA LinesAre == WritersTyped /\ IdsTaken => Lines
<1> SUFFICES ASSUME WritersTyped, IdsTaken, NEW o \in Orgs
             PROVE  /\ IsFiniteSet(Waiting(o)) /\ Orders(Waiting(o), Before)
                    /\ Line(o) = Listed(Waiting(o), Before)
  BY DEF Lines
<1>1. Waiting(o) \in SUBSET DOMAIN rows
  BY SettledRows DEF Waiting
<1>2. Line(o) = InOrder(Waiting(o))
  BY DEF Line, Waiting
<1> HIDE DEF Waiting
<1> QED BY <1>1, <1>2, RowsOrdered

LEMMA LinesNext == WritersTyped' /\ IdsTaken' => Lines'
BY LinesAre, PTL

\* Nothing joins an org's line but at its end.
LEMMA LineGrows ==
    ASSUME TypeOK, IdsTaken, [Next]_vars, NEW o \in Orgs
    PROVE  Feed!IsPrefix(Line(o), Line(o)')
<1>1. Lines /\ Lines' /\ WritersTyped
  BY LinesAre, LinesNext, WriterSteps, Growth DEF TypeOK
<1> DEFINE S == Waiting(o)
           T == Waiting(o)'
           Q == Before'
<1>2. IsFiniteSet(S) /\ Orders(S, Before) /\ Line(o) = Listed(S, Before)
  BY <1>1 DEF Lines
<1>3. IsFiniteSet(T) /\ Orders(T, Q) /\ Line(o)' = Listed(T, Q)
  BY <1>1 DEF Lines
<1>4. S \subseteq T /\ S \subseteq Settled /\ T \subseteq Settled' /\ Settled \subseteq DOMAIN rows
  BY Growth, StillAhead, SettledRows DEF Waiting
<1>5. ASSUME NEW x \in S PROVE Under(T, Q, x) = Under(S, Before, x)
  <2>1. x \in Settled /\ x \in DOMAIN rows /\ x \in DOMAIN rows' /\ x \in T
    BY <1>4, <1>5, Growth
  <2>2. ASSUME NEW q \in T, <<q, x>> \in Q PROVE q \in S /\ <<q, x>> \in Before
    <3>1. Precedes(q, x)'
      BY <2>2 DEF Before
    <3>2. q \in Settled /\ q \in DOMAIN rows
      BY <1>4, <2>1, <2>2, <3>1, Growth
    <3>3. OrgOf(q) = o
      BY <2>2, <3>2, StillAhead DEF Waiting
    <3> QED BY <2>1, <3>1, <3>2, <3>3, Growth DEF Waiting, Before
  <2>3. ASSUME NEW q \in S, <<q, x>> \in Before PROVE q \in T /\ <<q, x>> \in Q
    <3>1. Precedes(q, x) /\ q \in DOMAIN rows
      BY <2>3 DEF Before
    <3>2. Precedes(q, x)' /\ q \in DOMAIN rows'
      BY <2>1, <3>1, Growth
    <3> QED BY <1>4, <2>1, <2>3, <3>2 DEF Before
  <2> HIDE DEF S, T, Q
  <2> QED BY <2>2, <2>3 DEF Under
<1> HIDE DEF S, T, Q
<1>6. Len(Listed(S, Before)) = Cardinality(S) /\ Listed(S, Before) \in Seq(S)
  BY <1>2, ListedAt
<1>7. Len(Listed(T, Q)) = Cardinality(T) /\ Listed(T, Q) \in Seq(T)
  BY <1>3, ListedAt
<1>8. Cardinality(S) \in Nat /\ Cardinality(T) \in Nat /\ Cardinality(S) <= Cardinality(T)
  BY <1>2, <1>3, <1>4, FS_Subset, FS_CardinalityType
<1>9. \A n \in 1..Cardinality(S) : Listed(T, Q)[n] = Listed(S, Before)[n]
  BY <1>2, <1>3, <1>4, <1>5, ListGrows
<1> DEFINE s == Listed(S, Before)
           t == Listed(T, Q)
           c == Cardinality(S)
<1>10. /\ s \in Seq(S) /\ t \in Seq(T) /\ Len(s) = c /\ c \in Nat /\ c <= Len(t)
       /\ \A n \in 1..c : t[n] = s[n]
  BY <1>6, <1>7, <1>8, <1>9
<1> HIDE DEF s, t, c
<1>11. SubSeq(s, 1, c) = SubSeq(t, 1, c)
  BY <1>10
<1> QED BY <1>2, <1>3, <1>10, <1>11 DEF Feed!IsPrefix, s, t, c

\* A record changes nothing but its partition.
LEMMA RecordingLeavesRows ==
    ASSUME [Next]_vars, log' # log
    PROVE  UNCHANGED <<tx, xid, rows>>
<1>1. ASSUME NEW i \in Relays, Relay(i), log' # log PROVE UNCHANGED <<tx, xid, rows>>
  BY <1>1 DEF Relay, RelayOpen, Skip, Send, MarkPublished, FailRow, BrokerFails, RelayDies, LoseLock, txVars
<1>2. ASSUME NEW t \in Txs, Writer(t) PROVE log' = log
  BY <1>2 DEF Writer, Begin, LockOrg, AppendRow, Commit, Rollback
<1>3. ASSUME NEW r \in DOMAIN rows, RowDue(r) PROVE log' = log
  BY <1>3 DEF RowDue
<1>4. ASSUME NEW o \in Consumed, Consumer(o) PROVE log' = log
  BY <1>4 DEF Consumer, Handle, Ack, Redeliver, HandleFails, DeadLetter
<1>5. UNCHANGED vars => log' = log
  BY DEF vars
<1> QED BY <1>1, <1>2, <1>3, <1>4, <1>5 DEF Next

\* A row whose turn has come, and that its partition does not hold yet, is the next of its line.
LEMMA NextOfLine ==
    ASSUME RelayInv, NEW r \in Settled, NEW a \in Orgs, a = OrgOf(r), \A q \in Ahead(r) : Logged(q),
           r \notin Values(log[a])
    PROVE  /\ Len(Firsts(log[a])) < Len(Line(a))
           /\ Line(a)[Len(Firsts(log[a])) + 1] = r
<1>1. /\ WritersTyped /\ IdsTaken /\ LogInOrder /\ log[a] \in Seq(Nat) /\ Settled \subseteq DOMAIN rows
      /\ \A q \in DOMAIN rows : q \in Nat
  BY SettledRows, RowsAre DEF RelayInv, TypeOK, RelaysTyped
<1>2. Values(log[a]) = Ahead(r)
  <2>1. ASSUME NEW v \in Values(log[a]) PROVE v \in Ahead(r)
    <3>1. PICK k \in DOMAIN log[a] : log[a][k] = v
      BY <2>1 DEF Values
    <3>2. v \in Settled /\ OrgOf(v) = a /\ \A q \in Ahead(v) : \E j \in 1..(k - 1) : log[a][j] = q
      BY <1>1, <3>1 DEF LogInOrder
    <3>3. r \notin Ahead(v)
      <4>1. DOMAIN log[a] = 1..Len(log[a]) /\ Len(log[a]) \in Nat
        BY <1>1
      <4>2. \A j \in 1..(k - 1) : j \in DOMAIN log[a]
        BY <3>1, <4>1
      <4> QED BY <3>2, <4>2 DEF Values
    <3>4. ~Precedes(r, v) /\ v # r
      BY <2>1, <3>2, <3>3 DEF Ahead
    <3>5. Precedes(v, r)
      <4>1. Orders(DOMAIN rows, Before) /\ v \in DOMAIN rows /\ r \in DOMAIN rows
        BY <1>1, <3>2, RowsOrdered
      <4>2. <<v, r>> \in Before \/ <<r, v>> \in Before
        BY <3>4, <4>1 DEF Orders
      <4> QED BY <3>4, <4>2 DEF Before
    <3> QED BY <3>2, <3>5 DEF Ahead
  <2>2. ASSUME NEW q \in Ahead(r) PROVE q \in Values(log[a])
    BY <2>2 DEF Ahead, Logged, Values
  <2> QED BY <2>1, <2>2
<1>3. Ahead(r) = Under(Waiting(a), Before, r)
  <2>1. \A q \in Waiting(a) : <<q, r>> \in Before <=> Precedes(q, r)
    BY <1>1 DEF Waiting, Before
  <2>2. Ahead(r) = {q \in Waiting(a) : Precedes(q, r)}
    BY DEF Ahead, Waiting
  <2> QED BY <2>1, <2>2 DEF Under
<1>4. r \in Waiting(a)
  BY DEF Waiting
<1>5. IsFiniteSet(Waiting(a)) /\ Orders(Waiting(a), Before) /\ Line(a) = Listed(Waiting(a), Before)
  BY <1>1, LinesAre DEF Lines
<1> DEFINE S == Waiting(a)
           c == Cardinality(Under(S, Before, r))
<1> HIDE DEF S
<1>6. Len(Listed(S, Before)) = Cardinality(S) /\ c + 1 \in 1..Cardinality(S) /\ Listed(S, Before)[c + 1] = r
  BY <1>4, <1>5, ListedAt DEF S
<1>7. Len(Firsts(log[a])) = c
  BY <1>1, <1>2, <1>3, FirstsOfAppend, AsManyAsValues DEF S
<1>8. c \in Nat /\ Cardinality(S) \in Nat
  BY <1>4, <1>5, RankBounds, FS_CardinalityType DEF S
<1> HIDE DEF c
<1> QED BY <1>5, <1>6, <1>7, <1>8 DEF S

LEMMA FeedStep == RelayInv /\ [Next]_vars => [Feed!Next]_(Feed!feedVars)
<1> SUFFICES ASSUME RelayInv, [Next]_vars PROVE [Feed!Next]_(Feed!feedVars)
  OBVIOUS
<1> DEFINE line == [o \in Orgs |-> Line(o)]
           told == [o \in Orgs |-> Firsts(log[o])]
<1>1. TypeOK /\ IdsTaken /\ WritersTyped /\ log \in [Orgs -> Seq(Nat)]
  BY DEF RelayInv, TypeOK, RelaysTyped
<1>2. CASE log' = log
  <2>1. \A o \in Orgs : Feed!IsPrefix(line[o], line'[o])
    BY <1>1, LineGrows
  <2>2. told' = told /\ DOMAIN line' = Orgs
    BY <1>2
  <2> QED BY <2>1, <2>2 DEF Feed!Next, Feed!Grow
<1>3. CASE log' # log
  <2>1. PICK r \in Settled : log' = Recorded(r) /\ \A q \in Ahead(r) : Logged(q)
    BY <1>3, RelaySteps DEF Extends
  <2>2. PICK a \in Orgs : a = OrgOf(r)
    BY <1>1, SettledRows, RowsAre, OutboxAssumption DEF OrgOf
  <2>3. r \in Nat /\ log[a] \in Seq(Nat)
    BY <1>1, SettledRows, RowsAre
  <2>4. UNCHANGED <<tx, xid, rows>>
    BY <1>3, RecordingLeavesRows
  <2>5. line' = line
    BY <2>4 DEF Line, InOrder, Settled, Visible, Older, OrgOf, Precedes
  <2>6. log'[a] = Append(log[a], r) /\ \A o \in Orgs \ {a} : log'[o] = log[o]
    BY <1>1, <2>1, <2>2 DEF Recorded
  <2>7. CASE r \in Values(log[a])
    <3>1. Firsts(log'[a]) = Firsts(log[a])
      BY <2>3, <2>6, <2>7, FirstsOfAppend
    <3>2. told' = told
      BY <2>6, <3>1
    <3> QED BY <2>5, <3>2 DEF Feed!feedVars
  <2>8. CASE r \notin Values(log[a])
    <3>1. Firsts(log'[a]) = Append(Firsts(log[a]), r)
      BY <2>3, <2>6, <2>8, FirstsOfAppend
    <3>2. Len(Firsts(log[a])) < Len(Line(a)) /\ Line(a)[Len(Firsts(log[a])) + 1] = r
      BY <2>1, <2>2, <2>8, NextOfLine
    <3>3. told' = [told EXCEPT ![a] = Append(@, r)]
      BY <2>6, <3>1
    <3>4. told[a] = Firsts(log[a]) /\ line[a] = Line(a)
      OBVIOUS
    <3> HIDE DEF line, told
    <3>5. Len(told[a]) < Len(line[a]) /\ told' = [told EXCEPT ![a] = Append(@, line[a][Len(@) + 1])]
      BY <3>2, <3>3, <3>4
    <3>6. Feed!Tell(a)
      BY <2>5, <3>5 DEF Feed!Tell, line, told
    <3> QED BY <3>6 DEF Feed!Next
  <2> QED BY <2>7, <2>8
<1> QED BY <1>2, <1>3

LEMMA FeedInit == Init => Feed!Init
<1> SUFFICES ASSUME Init PROVE Feed!Init
  OBVIOUS
<1>1. \A o \in Orgs : Waiting(o) = {} /\ Line(o) = InOrder(Waiting(o))
  BY DEF Init, Waiting, Line, Settled, Visible
<1>2. Cardinality({}) = 0
  BY FS_EmptySet
<1>3. InOrder({}) = <<>>
  BY <1>2 DEF InOrder
<1>4. \A o \in Orgs : log[o] = <<>>
  BY DEF Init
<1>5. Firsts(<<>>) = <<>>
  <2>1. Fresh(<<>>) = {}
    BY DEF Fresh
  <2>2. <<>> \in Seq(Nat)
    OBVIOUS
  <2>3. Firsts(<<>>) = [n \in 1..0 |-> <<>>[Listed(Fresh(<<>>), Smaller)[n]]]
    BY <1>2, <2>1, <2>2, FirstsListed
  <2> QED BY <2>3
<1> QED BY <1>1, <1>3, <1>4, <1>5 DEF Feed!Init

\* The outbox is a feed: whatever relays, crashes, lost locks, doubtful sends and parked rows
\* do, an org's committed events form one line that grows only at its end, and its partition
\* holds, copies aside, a prefix of that line.
THEOREM OutboxIsAFeed == Spec => FeedSpec
<1>1. OutboxInv => RelayInv
  BY DEF OutboxInv
<1> QED BY <1>1, FeedInit, FeedStep, OutboxInvariant, PTL DEF Spec, FeedSpec, Feed!Spec
=============================================================================
