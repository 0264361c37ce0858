----------------------------- MODULE SidebarProofs -----------------------------
(***************************************************************************)
(* Proofs about the sidebar: what Update leaves (SidebarModel), for every  *)
(* set of agent ids and themes and every bound on the time and on the      *)
(* ticks, and what View draws (SidebarLayout), for every terminal and any  *)
(* number of agents.                                                       *)
(***************************************************************************)
EXTENDS SidebarModel, SidebarLayout, TLAPS, FiniteSetTheorems, SequenceTheorems

-----------------------------------------------------------------------------
(* The operations on rows.                                                  *)

RowType == [id : Nat, created : Nat, working : BOOLEAN]

\* No two rows of a set have the same id.
OneRowEach(S) == \A x, y \in S : x.id = y.id => x = y

\* Rows with different ids are strictly and totally ordered.
LEMMA BeforeOrders ==
  ASSUME NEW S \in SUBSET RowType, OneRowEach(S)
  PROVE  /\ \A x, y \in S : x # y => Before(x, y) \/ Before(y, x)
         /\ \A x, y \in S : Before(x, y) => ~Before(y, x)
         /\ \A x, y, z \in S : Before(x, y) /\ Before(y, z) => Before(x, z)
<1>1. \A x \in S : x.id \in Nat /\ x.created \in Nat
  BY DEF RowType
<1> QED BY <1>1 DEF OneRowEach, Before

\* How many rows of S come before x.
Place(S, x) == Cardinality({y \in S : Before(y, x)})

\* The places of n rows are the numbers below n, one each, and in their order.
LEMMA Places ==
  ASSUME NEW S \in SUBSET RowType, OneRowEach(S), IsFiniteSet(S)
  PROVE  /\ Cardinality(S) \in Nat
         /\ \A x \in S : Place(S, x) \in 0 .. Cardinality(S) - 1
         /\ \A x, y \in S : Before(x, y) => Place(S, x) < Place(S, y)
         /\ \A k \in 0 .. Cardinality(S) - 1 : \E x \in S : Place(S, x) = k
<1> DEFINE n == Cardinality(S)
           B(x) == {y \in S : Before(y, x)}
           f == [x \in S |-> Place(S, x)]
<1>1. n \in Nat
  BY FS_CardinalityType
<1>2. ASSUME NEW x \in S
      PROVE  IsFiniteSet(B(x)) /\ Cardinality(B(x)) \in 0 .. n - 1
  <2>1. IsFiniteSet(S \ {x}) /\ Cardinality(S \ {x}) = n - 1
    BY FS_RemoveElement
  <2>2. B(x) \in SUBSET (S \ {x})
    BY BeforeOrders
  <2>3. IsFiniteSet(B(x)) /\ Cardinality(B(x)) <= n - 1
    <3> HIDE DEF B
    <3> QED BY <2>1, <2>2, FS_Subset
  <2>4. Cardinality(B(x)) \in Nat
    <3> HIDE DEF B
    <3> QED BY <2>3, FS_CardinalityType
  <2> HIDE DEF B, n
  <2> QED BY <1>1, <2>3, <2>4
<1>3. ASSUME NEW x \in S, NEW y \in S, Before(x, y)
      PROVE  Cardinality(B(x)) < Cardinality(B(y))
  <2>1. B(x) \in SUBSET B(y) /\ x \in B(y) /\ x \notin B(x)
    BY <1>3, BeforeOrders
  <2>2. /\ IsFiniteSet(B(y))
        /\ Cardinality(B(x)) \in 0 .. n - 1 /\ Cardinality(B(y)) \in 0 .. n - 1
    BY <1>2
  <2> HIDE DEF B, n
  <2>3. Cardinality(B(x)) <= Cardinality(B(y))
        /\ (Cardinality(B(y)) = Cardinality(B(x)) => B(y) = B(x))
    BY <2>1, <2>2, FS_Subset
  <2> QED BY <1>1, <2>1, <2>2, <2>3
<1>4. /\ \A x \in S : Place(S, x) \in 0 .. n - 1
      /\ \A x, y \in S : Before(x, y) => Place(S, x) < Place(S, y)
  BY <1>2, <1>3 DEF Place
<1>5. f \in Injection(S, 0 .. n - 1)
  <2>1. f \in [S -> 0 .. n - 1]
    BY <1>4
  <2>2. ASSUME NEW x \in S, NEW y \in S, x # y PROVE f[x] # f[y]
    <3>1. Before(x, y) \/ Before(y, x)
      BY <2>2, BeforeOrders
    <3>2. \A z \in S : f[z] \in Int
      BY <1>1, <2>1
    <3>3. f[x] < f[y] \/ f[y] < f[x]
      BY <1>4, <3>1
    <3> QED BY <3>2, <3>3
  <2> HIDE DEF f
  <2> QED BY <2>1, <2>2 DEF Injection, IsInjective
<1>6. f \in Surjection(S, 0 .. n - 1)
  <2>1. IsFiniteSet(0 .. n - 1) /\ Cardinality(0 .. n - 1) = n
    <3> HIDE DEF n
    <3> QED BY <1>1, FS_Interval
  <2> HIDE DEF f
  <2> QED BY <1>5, <2>1, FS_Injection
<1>7. \A k \in 0 .. n - 1 : \E x \in S : Place(S, x) = k
  BY <1>6 DEF Surjection
<1> QED BY <1>1, <1>4, <1>7

\* InOrder(S) has every row of S once, in the order of Before.
LEMMA Sorted ==
  ASSUME NEW S \in SUBSET RowType, OneRowEach(S), IsFiniteSet(S)
  PROVE  /\ InOrder(S) \in Seq(S)
         /\ Len(InOrder(S)) = Cardinality(S)
         /\ \A x \in S : \E i \in 1 .. Len(InOrder(S)) : InOrder(S)[i] = x
         /\ \A i, j \in 1 .. Len(InOrder(S)) : i < j => Before(InOrder(S)[i], InOrder(S)[j])
<1> DEFINE n == Cardinality(S)
           s == InOrder(S)
<1>1. /\ n \in Nat
      /\ \A x \in S : Place(S, x) \in 0 .. n - 1
      /\ \A x, y \in S : Before(x, y) => Place(S, x) < Place(S, y)
      /\ \A k \in 0 .. n - 1 : \E x \in S : Place(S, x) = k
  BY Places
<1> HIDE DEF n
<1>2. s = [k \in 1 .. n |-> CHOOSE x \in S : Place(S, x) = k - 1]
  BY DEF InOrder, Place, n
<1> HIDE DEF s
<1>3. ASSUME NEW k \in 1 .. n PROVE s[k] \in S /\ Place(S, s[k]) = k - 1
  <2>1. \E x \in S : Place(S, x) = k - 1
    BY <1>1
  <2> QED BY <1>2, <2>1
<1>4. s \in Seq(S) /\ Len(s) = n
  <2>1. s = [k \in 1 .. n |-> s[k]]
    BY <1>2
  <2> QED BY <1>1, <1>3, <2>1
<1>5. ASSUME NEW x \in S PROVE \E i \in 1 .. n : s[i] = x
  <2> DEFINE i == Place(S, x) + 1
  <2>1. i \in 1 .. n /\ i - 1 = Place(S, x)
    BY <1>1
  <2>2. s[i] \in S /\ Place(S, s[i]) = Place(S, x)
    BY <1>3, <2>1
  <2>3. s[i] = x
    <3>1. s[i] # x => Before(s[i], x) \/ Before(x, s[i])
      BY <2>2, BeforeOrders
    <3>2. Place(S, x) \in Int
      BY <1>1
    <3> QED BY <1>1, <2>2, <3>1, <3>2
  <2> QED BY <2>1, <2>3
<1>6. ASSUME NEW i \in 1 .. n, NEW j \in 1 .. n, i < j PROVE Before(s[i], s[j])
  <2>1. /\ s[i] \in S /\ s[j] \in S /\ Place(S, s[i]) = i - 1 /\ Place(S, s[j]) = j - 1
    BY <1>3
  <2>2. i \in Int /\ j \in Int
    BY <1>1
  <2>3. s[i] # s[j]
    BY <1>6, <2>1, <2>2
  <2>4. ~Before(s[j], s[i])
    BY <1>1, <1>6, <2>1, <2>2
  <2> QED BY <2>1, <2>3, <2>4, BeforeOrders
<1>7. Len(s) = Cardinality(S)
  BY <1>4 DEF n
<1> QED BY <1>4, <1>5, <1>6, <1>7 DEF s

\* Properties of a list of rows.
Distinct(rs) == \A i, j \in 1 .. Len(rs) : rs[i].id = rs[j].id => i = j

Ordered(rs) == \A i, j \in 1 .. Len(rs) : i < j => Before(rs[i], rs[j])

\* x is a row of the list.
Holds(rs, x) == \E i \in 1 .. Len(rs) : rs[i] = x

\* new is the list rs without its p-th row, which is a's.
Without(new, rs, p, a) ==
  /\ rs[p].id = a
  /\ Len(new) = Len(rs) - 1
  /\ \A i \in 1 .. Len(new) : new[i] = rs[IF i < p THEN i ELSE i + 1]

LEMMA RowsAreRows == Row \subseteq RowType
<1> SUFFICES ASSUME NEW x \in Row PROVE x \in RowType
  OBVIOUS
<1>1. x.id \in AgentId /\ x.created \in 0 .. MaxClock /\ x.working \in BOOLEAN
      /\ x = [id |-> x.id, created |-> x.created, working |-> x.working]
  BY DEF Row
<1>2. x.id \in Nat /\ x.created \in Nat
  BY <1>1, AgentIdAssumption
<1> QED BY <1>1, <1>2 DEF RowType

\* The rows of a list are a finite set.
LEMMA RangeFinite ==
  ASSUME NEW rs \in Seq(Row), Distinct(rs)
  PROVE  /\ Range(rs) \in SUBSET Row
         /\ IsFiniteSet(Range(rs))
         /\ OneRowEach(Range(rs))
         /\ \A x : x \in Range(rs) <=> \E i \in 1 .. Len(rs) : rs[i] = x
<1>1. /\ Len(rs) \in Nat /\ DOMAIN rs = 1 .. Len(rs)
      /\ \A i \in 1 .. Len(rs) : rs[i] \in Row
  OBVIOUS
<1>2. \A x : x \in Range(rs) <=> \E i \in 1 .. Len(rs) : rs[i] = x
  BY <1>1 DEF Range
<1>3. Range(rs) \in SUBSET Row
  BY <1>1, <1>2
<1>4. OneRowEach(Range(rs))
  <2> SUFFICES ASSUME NEW x \in Range(rs), NEW y \in Range(rs), x.id = y.id PROVE x = y
    BY DEF OneRowEach
  <2>1. PICK i \in 1 .. Len(rs) : rs[i] = x
    BY <1>2
  <2>2. PICK j \in 1 .. Len(rs) : rs[j] = y
    BY <1>2
  <2>3. i = j
    BY <2>1, <2>2 DEF Distinct
  <2> QED BY <2>1, <2>2, <2>3
<1>5. IsFiniteSet(Range(rs))
  <2> DEFINE D == 1 .. Len(rs)
  <2>1. IsFiniteSet(D)
    BY <1>1, FS_Interval
  <2>2. rs \in Surjection(D, Range(rs))
    <3>1. rs \in [D -> Range(rs)]
      BY <1>1, <1>2
    <3> QED BY <1>2, <3>1 DEF Surjection
  <2> HIDE DEF D
  <2> QED BY <2>1, <2>2, FS_Surjection
<1> QED BY <1>2, <1>3, <1>4, <1>5

\* A list made by sorting a set with one row for each agent.
LEMMA InOrderShape ==
  ASSUME NEW S \in SUBSET Row, IsFiniteSet(S), OneRowEach(S)
  PROVE  /\ InOrder(S) \in Seq(Row)
         /\ Distinct(InOrder(S)) /\ Ordered(InOrder(S))
         /\ \A x : x \in S <=> \E i \in 1 .. Len(InOrder(S)) : InOrder(S)[i] = x
<1> DEFINE s == InOrder(S)
<1>1. S \in SUBSET RowType
  BY RowsAreRows
<1>2. /\ s \in Seq(S) /\ Len(s) \in Nat /\ \A i \in 1 .. Len(s) : s[i] \in S
      /\ \A x \in S : \E i \in 1 .. Len(s) : s[i] = x
      /\ \A i, j \in 1 .. Len(s) : i < j => Before(s[i], s[j])
  <2>1. s \in Seq(S)
    BY <1>1, Sorted
  <2>2. Len(s) \in Nat /\ \A i \in 1 .. Len(s) : s[i] \in S
    <3> HIDE DEF s
    <3> QED BY <2>1
  <2> QED BY <1>1, <2>1, <2>2, Sorted
<1> HIDE DEF s
<1>3. s \in Seq(Row)
  BY <1>2
<1>4. ASSUME NEW i \in 1 .. Len(s), NEW j \in 1 .. Len(s), s[i].id = s[j].id PROVE i = j
  <2>1. s[i] = s[j] /\ s[i] \in S
    BY <1>2, <1>4 DEF OneRowEach
  <2>2. ~Before(s[i], s[i])
    BY <1>1, <2>1, BeforeOrders
  <2>3. ~(i < j) /\ ~(j < i)
    BY <1>2, <2>1, <2>2
  <2> QED BY <1>2, <2>3
<1>5. Distinct(s) /\ Ordered(s)
  BY <1>2, <1>4 DEF Distinct, Ordered
<1> QED BY <1>2, <1>3, <1>5 DEF s

\* upsert puts r in the place of the row with its id, or into a sorted list.
LEMMA UpsertReplaces ==
  ASSUME NEW rs \in Seq(Row), Distinct(rs), NEW r \in Row, Has(rs, r.id),
         NEW new, new = upsert(rs, r)
  PROVE  /\ new \in Seq(Row) /\ Distinct(new)
         /\ Len(new) = Len(rs)
         /\ \A i \in 1 .. Len(rs) : new[i] = IF rs[i].id = r.id THEN r ELSE rs[i]
<1>1. /\ Len(rs) \in Nat /\ DOMAIN rs = 1 .. Len(rs)
      /\ \A i \in 1 .. Len(rs) : rs[i] \in Row
  OBVIOUS
<1>2. new = [i \in 1 .. Len(rs) |-> IF rs[i].id = r.id THEN r ELSE rs[i]]
  BY <1>1 DEF upsert
<1>3. /\ Len(new) = Len(rs) /\ new \in Seq(Row)
      /\ \A i \in 1 .. Len(rs) : new[i] = IF rs[i].id = r.id THEN r ELSE rs[i]
  BY <1>1, <1>2
<1>4. \A i \in 1 .. Len(rs) : new[i].id = rs[i].id
  BY <1>3
<1> QED BY <1>3, <1>4 DEF Distinct

LEMMA UpsertSorts ==
  ASSUME NEW rs \in Seq(Row), Distinct(rs), NEW r \in Row, ~Has(rs, r.id),
         NEW new, new = upsert(rs, r)
  PROVE  /\ new \in Seq(Row) /\ Distinct(new) /\ Ordered(new)
         /\ \A x : Holds(new, x) <=> x = r \/ Holds(rs, x)
<1> DEFINE l == Append(rs, r)
<1>1. /\ Len(rs) \in Nat /\ DOMAIN rs = 1 .. Len(rs)
      /\ \A i \in 1 .. Len(rs) : rs[i] \in Row
  OBVIOUS
<1>2. /\ l \in Seq(Row) /\ Len(l) = Len(rs) + 1 /\ l[Len(rs) + 1] = r
      /\ \A i \in 1 .. Len(rs) : l[i] = rs[i]
  OBVIOUS
<1>3. new = InOrder(Range(l))
  BY DEF upsert, sortAgents
<1> HIDE DEF l
<1>4. \A i \in 1 .. Len(rs) : l[i].id # r.id
  BY <1>1, <1>2 DEF Has
<1>5. Distinct(l)
  <2> SUFFICES ASSUME NEW i \in 1 .. Len(l), NEW j \in 1 .. Len(l), l[i].id = l[j].id
               PROVE  i = j
    BY DEF Distinct
  <2>1. CASE i \in 1 .. Len(rs) /\ j \in 1 .. Len(rs)
    BY <1>2, <2>1 DEF Distinct
  <2>2. CASE i = Len(rs) + 1 \/ j = Len(rs) + 1
    BY <1>1, <1>2, <1>4, <2>2
  <2> QED BY <1>1, <1>2, <2>1, <2>2
<1>6. \A x : x \in Range(l) <=> x = r \/ \E i \in 1 .. Len(rs) : rs[i] = x
  <2>1. \A x : x \in Range(l) <=> \E i \in 1 .. Len(l) : l[i] = x
    BY <1>2, <1>5, RangeFinite
  <2>2. \A x : (\E i \in 1 .. Len(l) : l[i] = x) <=>
               x = r \/ \E i \in 1 .. Len(rs) : rs[i] = x
    <3> SUFFICES ASSUME NEW x
                 PROVE  (\E i \in 1 .. Len(l) : l[i] = x) <=>
                          x = r \/ \E i \in 1 .. Len(rs) : rs[i] = x
      OBVIOUS
    <3>1. ASSUME NEW i \in 1 .. Len(l), l[i] = x
          PROVE  x = r \/ \E k \in 1 .. Len(rs) : rs[k] = x
      <4>1. i = Len(rs) + 1 \/ i \in 1 .. Len(rs)
        BY <1>1, <1>2
      <4> QED BY <1>2, <3>1, <4>1
    <3>2. x = r => \E i \in 1 .. Len(l) : l[i] = x
      <4>1. Len(rs) + 1 \in 1 .. Len(l)
        BY <1>1, <1>2
      <4> QED BY <1>2, <4>1
    <3>3. ASSUME NEW i \in 1 .. Len(rs), rs[i] = x PROVE \E k \in 1 .. Len(l) : l[k] = x
      <4>1. i \in 1 .. Len(l)
        BY <1>1, <1>2
      <4> QED BY <1>2, <3>3, <4>1
    <3> QED BY <3>1, <3>2, <3>3
  <2> QED BY <2>1, <2>2
<1>7. Range(l) \in SUBSET Row /\ IsFiniteSet(Range(l)) /\ OneRowEach(Range(l))
  BY <1>2, <1>5, RangeFinite
<1>8. /\ new \in Seq(Row) /\ Distinct(new) /\ Ordered(new)
      /\ \A x : x \in Range(l) <=> \E i \in 1 .. Len(new) : new[i] = x
  BY <1>3, <1>7, InOrderShape
<1> QED BY <1>6, <1>8 DEF Holds

\* remove takes out the row with that id, if there is one.
LEMMA RemoveShape ==
  ASSUME NEW rs \in Seq(Row), Distinct(rs), NEW a, NEW new, new = remove(rs, a)
  PROVE  /\ ~Has(rs, a) => new = rs
         /\ new \in Seq(Row)
         /\ Has(rs, a) => \E p \in 1 .. Len(rs) : Without(new, rs, p, a)
<1>1. /\ Len(rs) \in Nat /\ DOMAIN rs = 1 .. Len(rs)
      /\ \A i \in 1 .. Len(rs) : rs[i] \in Row
  OBVIOUS
<1>2. CASE ~Has(rs, a)
  BY <1>1, <1>2 DEF Has, remove, RemoveFirstMatch
<1>3. CASE Has(rs, a)
  <2>1. PICK p \in 1 .. Len(rs) : rs[p].id = a
    BY <1>1, <1>3 DEF Has
  <2> DEFINE I == {i \in 1 .. Len(rs) : rs[i].id = a}
  <2>2. I = {p}
    BY <2>1 DEF Distinct
  <2>3. Min(I) = p
    BY <2>1, <2>2 DEF Min
  <2>4. new = RemoveAt(rs, p)
    <3>1. \E i \in 1 .. Len(rs) : rs[i].id = a
      BY <2>1
    <3>2. I # {}
      BY <2>2
    <3>3. new = RemoveAt(rs, IF I # {} THEN Min(I) ELSE 0)
      BY <3>1 DEF remove, RemoveFirstMatch, SelectInSeq
    <3> HIDE DEF I
    <3> QED BY <2>3, <3>2, <3>3
  <2> DEFINE x == SubSeq(rs, 1, p - 1)
             y == SubSeq(rs, p + 1, Len(rs))
  <2>5. new = x \o y
    BY <2>4 DEF RemoveAt
  <2>6. /\ x \in Seq(Row) /\ Len(x) = p - 1
        /\ \A i \in 1 .. p - 1 : x[i] = rs[i]
    BY <1>1
  <2>7. /\ y \in Seq(Row) /\ Len(y) = Len(rs) - p
        /\ \A i \in 1 .. Len(rs) - p : y[i] = rs[p + i]
    <3>1. p + 1 \in Int /\ Len(rs) \in Int
      BY <1>1
    <3>2. \A i \in p + 1 .. Len(rs) : rs[i] \in Row
      BY <1>1
    <3>3. /\ y \in Seq(Row)
          /\ Len(y) = IF p + 1 <= Len(rs) THEN Len(rs) - (p + 1) + 1 ELSE 0
          /\ \A i \in 1 .. Len(rs) - (p + 1) + 1 : y[i] = rs[(p + 1) + i - 1]
      BY <3>1, <3>2, SubSeqProperties
    <3> HIDE DEF y
    <3>4. Len(rs) - (p + 1) + 1 = Len(rs) - p /\ \A i \in Int : (p + 1) + i - 1 = p + i
      BY <1>1
    <3>5. p <= Len(rs)
      BY <1>1
    <3>6. Len(y) = Len(rs) - p
      <4>1. CASE p + 1 <= Len(rs)
        BY <3>3, <3>4, <4>1
      <4>2. CASE ~(p + 1 <= Len(rs))
        <5>1. Len(y) = 0
          BY <3>3, <4>2
        <5>2. Len(rs) - p = 0
          <6> DEFINE n == Len(rs)
          <6>1. n \in Nat /\ p \in Nat /\ p <= n /\ ~(p + 1 <= n)
            BY <1>1, <3>5, <4>2
          <6> HIDE DEF n
          <6>2. n - p = 0
            BY <6>1
          <6> QED BY <6>2 DEF n
        <5> QED BY <5>1, <5>2
      <4> QED BY <4>1, <4>2
    <3>7. ASSUME NEW i \in 1 .. Len(rs) - p PROVE y[i] = rs[p + i]
      <4>1. i \in 1 .. Len(rs) - (p + 1) + 1 /\ (p + 1) + i - 1 = p + i
        BY <1>1, <3>4
      <4>2. y[i] = rs[(p + 1) + i - 1]
        BY <3>3, <4>1
      <4> QED BY <4>1, <4>2
    <3> QED BY <3>3, <3>6, <3>7
  <2> HIDE DEF x, y
  <2>8. /\ new \in Seq(Row) /\ Len(new) = (p - 1) + (Len(rs) - p)
        /\ \A i \in 1 .. (p - 1) + (Len(rs) - p) :
             new[i] = IF i <= p - 1 THEN x[i] ELSE y[i - (p - 1)]
    <3>1. /\ x \o y \in Seq(Row)
          /\ Len(x \o y) = Len(x) + Len(y)
          /\ \A i \in 1 .. Len(x) + Len(y) :
               (x \o y)[i] = IF i <= Len(x) THEN x[i] ELSE y[i - Len(x)]
      BY <2>6, <2>7, ConcatProperties
    <3> QED BY <2>5, <2>6, <2>7, <3>1
  <2>9. Len(new) = Len(rs) - 1
    BY <1>1, <2>8
  <2>10. ASSUME NEW i \in 1 .. Len(new)
         PROVE  new[i] = rs[IF i < p THEN i ELSE i + 1]
    <3>1. CASE i < p
      <4>1. i \in 1 .. p - 1 /\ i <= p - 1
        BY <1>1, <2>9, <3>1
      <4> QED BY <1>1, <2>6, <2>8, <2>9, <3>1, <4>1
    <3>2. CASE ~(i < p)
      <4>1. i - (p - 1) \in 1 .. Len(rs) - p /\ ~(i <= p - 1)
            /\ p + (i - (p - 1)) = i + 1
        BY <1>1, <2>9, <3>2
      <4>2. new[i] = y[i - (p - 1)]
        BY <2>8, <4>1
      <4>3. y[i - (p - 1)] = rs[p + (i - (p - 1))]
        BY <2>7, <4>1
      <4> QED BY <3>2, <4>1, <4>2, <4>3
    <3> QED BY <3>1, <3>2
  <2> QED BY <1>3, <2>1, <2>8, <2>9, <2>10 DEF Without
<1> QED BY <1>2, <1>3

-----------------------------------------------------------------------------
(* The inductive invariant.                                                 *)

\* At any time there are finitely many agents.
FiniteInv == IsFiniteSet({a \in AgentId : Listed(a)})

\* The rows while they follow the roster, subscribed or just before it.
ShowInv ==
  feed \in {"roster", "updates"} =>
    \A a \in AgentId \ missed :
      IF Listed(a) THEN \E i \in 1 .. Len(rows) : rows[i] = RowOf(a, roster[a])
                   ELSE ~Has(rows, a)

OrderInv == missed = {} => Ordered(rows)

IInv ==
  /\ TypeOK
  /\ FiniteInv
  /\ Distinct(rows)
  /\ OrderInv
  /\ ShowInv

-----------------------------------------------------------------------------
(* The steps of the roster.                                                 *)

LEMMA AgentsAreAgents == NoAgent \notin Agent
<1>1. Agent \subseteq [created : Nat, working : BOOLEAN]
  BY BoundAssumption DEF Agent
<1> QED BY <1>1, NoAgentAssumption

\* An agent that comes or changes: the others stay as they are.
LEMMA SpokenShape ==
  ASSUME TypeOK, NEW a \in AgentId,
         (\E t \in 0 .. MaxClock : Comes(a, t)) \/ Changes(a)
  PROVE  /\ roster' \in [AgentId -> Agent \cup {NoAgent}] /\ clock' \in 0 .. MaxClock
         /\ roster'[a] \in Agent /\ roster'[a] # NoAgent
         /\ \A b \in AgentId \ {a} : roster'[b] = roster[b]
         /\ Listed(a) => roster[a] \in Agent /\ roster'[a].created = roster[a].created
<1>1. CASE \E t \in 0 .. MaxClock : Comes(a, t)
  <2>1. PICK t \in 0 .. MaxClock : Comes(a, t)
    BY <1>1
  <2>2. PICK w \in BOOLEAN :
          roster' = [roster EXCEPT ![a] = [created |-> t, working |-> w]]
    BY <2>1 DEF Comes
  <2>3. [created |-> t, working |-> w] \in Agent
    BY DEF Agent
  <2>4. clock' = t /\ ~Listed(a)
    BY <2>1 DEF Comes
  <2>5. roster'[a] = [created |-> t, working |-> w]
    BY <2>2 DEF TypeOK
  <2>6. roster' \in [AgentId -> Agent \cup {NoAgent}]
        /\ \A b \in AgentId \ {a} : roster'[b] = roster[b]
    BY <2>2, <2>3 DEF TypeOK
  <2> QED BY <2>3, <2>4, <2>5, <2>6, AgentsAreAgents
<1>2. CASE Changes(a)
  <2>1. /\ roster[a] # NoAgent
        /\ roster' = [roster EXCEPT ![a].working = ~@] /\ clock' = clock
    BY <1>2 DEF Changes, Listed
  <2>2. roster[a] \in Agent
    BY <2>1 DEF TypeOK
  <2>3. roster'[a] = [roster[a] EXCEPT !.working = ~@]
    BY <2>1 DEF TypeOK
  <2>4. roster'[a] \in Agent /\ roster'[a].created = roster[a].created
    BY <2>2, <2>3 DEF Agent
  <2>5. roster' \in [AgentId -> Agent \cup {NoAgent}]
        /\ \A b \in AgentId \ {a} : roster'[b] = roster[b]
    <3>1. roster' = [roster EXCEPT ![a] = roster'[a]]
      BY <2>1, <2>3 DEF TypeOK
    <3> QED BY <2>4, <3>1 DEF TypeOK
  <2> QED BY <2>1, <2>2, <2>4, <2>5, AgentsAreAgents DEF TypeOK
<1> QED BY <1>1, <1>2

\* An agent that goes.
LEMMA GoneShape ==
  ASSUME TypeOK, NEW a \in AgentId, Goes(a)
  PROVE  /\ roster' \in [AgentId -> Agent \cup {NoAgent}] /\ clock' \in 0 .. MaxClock
         /\ roster'[a] = NoAgent
         /\ \A b \in AgentId \ {a} : roster'[b] = roster[b]
BY DEF Goes, TypeOK

\* A frame: what applyFrame does with a list of rows.
LEMMA FrameType ==
  ASSUME TypeOK, NEW rs \in Seq(Row), applyFrame(rs)
  PROVE  /\ rows' = rs /\ rows' \in Seq(Row)
         /\ selected' \in Nat /\ ticks' \in 0 .. MaxTicks /\ overlap' \in BOOLEAN
         /\ UNCHANGED <<picker, chosen, input, quit>>
<1>1. /\ rows' = rs /\ selected' = clampSelection(selected, Len(rs))
      /\ spinner(rows, rs) /\ ticks' <= MaxTicks
      /\ UNCHANGED <<picker, chosen, input, quit>>
  BY DEF applyFrame, modes
<1>2. selected' \in Nat
  <2>1. Len(rs) \in Nat /\ selected \in Nat
    BY DEF TypeOK
  <2> QED BY <1>1, <2>1 DEF clampSelection
<1>3. ticks' \in 0 .. MaxTicks
  BY <1>1, BoundAssumption DEF spinner, spin, TypeOK
<1>4. overlap' \in BOOLEAN
  <2>1. CASE ~anyWorking(rows) /\ anyWorking(rs)
    BY <1>1, <2>1 DEF spinner
  <2>2. CASE ~(~anyWorking(rows) /\ anyWorking(rs))
    BY <1>1, <2>2 DEF spinner, spin, TypeOK
  <2> QED BY <2>1, <2>2
<1> QED BY <1>1, <1>2, <1>3, <1>4

\* The row of an agent.
LEMMA RowOfType ==
  ASSUME NEW a \in AgentId, NEW x \in Agent
  PROVE  /\ RowOf(a, x) \in Row /\ RowOf(a, x).id = a
         /\ RowOf(a, x).created = x.created
BY DEF RowOf, Row, Agent

\* The rows of a roster frame.
RosterRows == {RowOf(a, roster[a]) : a \in {b \in AgentId : Listed(b)}}

LEMMA RosterFrame ==
  ASSUME TypeOK, FiniteInv
  PROVE  /\ InOrder(RosterRows) \in Seq(Row)
         /\ Distinct(InOrder(RosterRows)) /\ Ordered(InOrder(RosterRows))
         /\ \A x : x \in RosterRows <=>
              \E i \in 1 .. Len(InOrder(RosterRows)) : InOrder(RosterRows)[i] = x
<1> DEFINE L == {b \in AgentId : Listed(b)}
           f == [a \in L |-> RowOf(a, roster[a])]
<1>1. ASSUME NEW a \in L PROVE roster[a] \in Agent /\ RowOf(a, roster[a]) \in Row
                               /\ RowOf(a, roster[a]).id = a
  <2>1. roster[a] \in Agent /\ a \in AgentId
    BY DEF TypeOK, Listed
  <2> QED BY <2>1, RowOfType
<1>2. RosterRows \in SUBSET Row
  BY <1>1 DEF RosterRows
<1>3. OneRowEach(RosterRows)
  <2> SUFFICES ASSUME NEW a \in L, NEW b \in L, RowOf(a, roster[a]).id = RowOf(b, roster[b]).id
               PROVE  RowOf(a, roster[a]) = RowOf(b, roster[b])
    BY DEF OneRowEach, RosterRows
  <2> QED BY <1>1
<1>4. IsFiniteSet(RosterRows)
  <2>1. IsFiniteSet(L)
    BY DEF FiniteInv
  <2>2. RosterRows = {RowOf(a, roster[a]) : a \in L}
    BY DEF RosterRows
  <2>3. f \in Surjection(L, RosterRows)
    BY <2>2 DEF Surjection
  <2> HIDE DEF L, f
  <2> QED BY <2>1, <2>3, FS_Surjection
<1> QED BY <1>2, <1>3, <1>4, InOrderShape

-----------------------------------------------------------------------------
(* One step.                                                                *)

\* What a frame makes of the rows: the lists of the three kinds of frame.
LEMMA FrameRows ==
  ASSUME TypeOK, FiniteInv, Distinct(rows)
  PROVE  /\ \A a \in AgentId : Update(a) =>
              upsert(rows, RowOf(a, roster'[a])) \in Seq(Row)
         /\ \A a \in AgentId : remove(rows, a) \in Seq(Row)
         /\ InOrder(RosterRows) \in Seq(Row)
<1>1. rows \in Seq(Row)
  BY DEF TypeOK
<1>2. ASSUME NEW a \in AgentId, Update(a)
      PROVE  upsert(rows, RowOf(a, roster'[a])) \in Seq(Row)
  <2>1. (\E t \in 0 .. MaxClock : Comes(a, t)) \/ Changes(a)
    BY <1>2 DEF Update
  <2>2. RowOf(a, roster'[a]) \in Row
    BY <2>1, SpokenShape, RowOfType
  <2> QED BY <1>1, <2>2, UpsertReplaces, UpsertSorts
<1>3. ASSUME NEW a \in AgentId PROVE remove(rows, a) \in Seq(Row)
  BY <1>1, RemoveShape
<1> QED BY <1>2, <1>3, RosterFrame

\* Types are kept by each step.
LEMMA TypeStep ==
  ASSUME TypeOK, FiniteInv, Distinct(rows), [Next]_vars
  PROVE  TypeOK'
<1>1. ASSUME NEW a \in AgentId, Silently(a) PROVE TypeOK'
  <2>1. roster' \in [AgentId -> Agent \cup {NoAgent}] /\ clock' \in 0 .. MaxClock
    BY <1>1, SpokenShape, GoneShape DEF Silently
  <2>2. /\ missed' = (IF feed = "roster" THEN missed \cup {a} ELSE missed)
        /\ UNCHANGED <<feed, rows, selected, ticks, overlap, picker, chosen, input, quit>>
    BY <1>1 DEF Silently, Unheard, list, spin, modes
  <2>3. missed' \in SUBSET AgentId
    BY <2>2 DEF TypeOK
  <2> QED BY <2>1, <2>2, <2>3 DEF TypeOK
<1>2. ASSUME NEW a \in AgentId, Update(a) PROVE TypeOK'
  <2>1. (\E t \in 0 .. MaxClock : Comes(a, t)) \/ Changes(a)
    BY <1>2 DEF Update
  <2>2. roster' \in [AgentId -> Agent \cup {NoAgent}] /\ clock' \in 0 .. MaxClock
    BY <2>1, SpokenShape
  <2>3. applyFrame(upsert(rows, RowOf(a, roster'[a]))) /\ UNCHANGED <<feed, missed>>
    BY <1>2 DEF Update
  <2>4. upsert(rows, RowOf(a, roster'[a])) \in Seq(Row)
    BY <1>2, FrameRows
  <2>5. /\ rows' \in Seq(Row)
        /\ selected' \in Nat /\ ticks' \in 0 .. MaxTicks /\ overlap' \in BOOLEAN
        /\ UNCHANGED <<picker, chosen, input, quit>>
    BY <2>3, <2>4, FrameType
  <2> QED BY <2>2, <2>3, <2>5 DEF TypeOK
<1>3. ASSUME NEW a \in AgentId, Deleted(a) PROVE TypeOK'
  <2>1. roster' \in [AgentId -> Agent \cup {NoAgent}] /\ clock' \in 0 .. MaxClock
    BY <1>3, GoneShape DEF Deleted
  <2>2. applyFrame(remove(rows, a)) /\ UNCHANGED <<feed, missed>>
    BY <1>3 DEF Deleted
  <2>3. remove(rows, a) \in Seq(Row)
    BY FrameRows
  <2>4. /\ rows' \in Seq(Row)
        /\ selected' \in Nat /\ ticks' \in 0 .. MaxTicks /\ overlap' \in BOOLEAN
        /\ UNCHANGED <<picker, chosen, input, quit>>
    BY <2>2, <2>3, FrameType
  <2> QED BY <2>1, <2>2, <2>4 DEF TypeOK
<1>4. CASE Roster
  <2>1. /\ applyFrame(InOrder(RosterRows))
        /\ feed' = "roster" /\ missed' = {} /\ UNCHANGED <<roster, clock>>
    BY <1>4 DEF Roster, RosterRows
  <2>2. InOrder(RosterRows) \in Seq(Row)
    BY FrameRows
  <2>3. /\ rows' \in Seq(Row)
        /\ selected' \in Nat /\ ticks' \in 0 .. MaxTicks /\ overlap' \in BOOLEAN
        /\ UNCHANGED <<picker, chosen, input, quit>>
    BY <2>1, <2>2, FrameType
  <2> QED BY <2>1, <2>3 DEF TypeOK
<1>5. CASE Feed
  BY <1>5 DEF Feed, TypeOK, list, spin, modes
<1>6. CASE FramesEnd \/ Quit
  BY <1>6 DEF FramesEnd, Quit, TypeOK, world, list, spin, modes
<1>7. CASE Tick
  <2>1. ticks' \in 0 .. MaxTicks
    BY <1>7, BoundAssumption DEF Tick, TypeOK
  <2>2. overlap' \in BOOLEAN
    BY <1>7 DEF Tick, TypeOK
  <2> QED BY <1>7, <2>1, <2>2 DEF Tick, TypeOK, world, list, modes
<1>8. CASE Select
  <2>1. selected' \in Nat
    BY <1>8 DEF Select, TypeOK
  <2> QED BY <1>8, <2>1 DEF Select, TypeOK, world, spin, modes
<1>9. CASE OpenInput \/ handleInputKey
  <2>1. input' \in [on : BOOLEAN, text : BOOLEAN]
    <3>1. input \in [on : BOOLEAN, text : BOOLEAN]
      BY DEF TypeOK
    <3>2. /\ [input EXCEPT !.text = TRUE] \in [on : BOOLEAN, text : BOOLEAN]
          /\ [input EXCEPT !.text = FALSE] \in [on : BOOLEAN, text : BOOLEAN]
          /\ [on |-> TRUE, text |-> FALSE] \in [on : BOOLEAN, text : BOOLEAN]
          /\ [on |-> FALSE, text |-> FALSE] \in [on : BOOLEAN, text : BOOLEAN]
      BY <3>1
    <3>3. \/ input' = [on |-> TRUE, text |-> FALSE] \/ input' = [on |-> FALSE, text |-> FALSE]
          \/ input' = [input EXCEPT !.text = TRUE] \/ input' = [input EXCEPT !.text = FALSE]
      BY <1>9 DEF OpenInput, handleInputKey
    <3> QED BY <3>2, <3>3
  <2> QED BY <1>9, <2>1 DEF OpenInput, handleInputKey, TypeOK, world, list, spin
<1>10. CASE OpenPicker \/ handleThemeKey
  <2>1. picker' \in [open : BOOLEAN, idx : Theme, prev : Theme, palette : Theme]
    BY <1>10 DEF OpenPicker, handleThemeKey, Preview, Confirm, Escape, TypeOK
  <2>2. chosen' \in Theme
    BY <1>10 DEF OpenPicker, handleThemeKey, Preview, Confirm, Escape, TypeOK
  <2> QED BY <1>10, <2>1, <2>2
          DEF OpenPicker, handleThemeKey, Preview, Confirm, Escape, TypeOK, world, list, spin
<1>11. CASE UNCHANGED vars
  BY <1>11 DEF vars, TypeOK
<1> QED BY <1>1, <1>2, <1>3, <1>4, <1>5, <1>6, <1>7, <1>8, <1>9, <1>10, <1>11
        DEF Next, Frames, handleKey

\* There stay finitely many agents.
LEMMA FiniteStep ==
  ASSUME TypeOK, FiniteInv, [Next]_vars
  PROVE  FiniteInv'
<1> DEFINE L == {b \in AgentId : Listed(b)}
<1>1. IsFiniteSet(L)
  BY DEF FiniteInv
<1>2. ASSUME NEW a \in AgentId, \A b \in AgentId \ {a} : roster'[b] = roster[b]
      PROVE  FiniteInv'
  <2>1. L' \in SUBSET (L \cup {a})
    BY <1>2 DEF Listed
  <2>2. IsFiniteSet(L')
    <3> DEFINE M == L'
    <3>1. M \in SUBSET (L \cup {a})
      BY <2>1
    <3> HIDE DEF L, M
    <3>2. IsFiniteSet(M)
      BY <1>1, <3>1, FS_AddElement, FS_Subset
    <3> QED BY <3>2 DEF M
  <2> QED BY <2>2 DEF FiniteInv
<1>3. ASSUME NEW a \in AgentId, Silently(a) \/ Update(a) \/ Deleted(a)
      PROVE  FiniteInv'
  <2>1. (\E t \in 0 .. MaxClock : Comes(a, t)) \/ Changes(a) \/ Goes(a)
    BY <1>3 DEF Silently, Update, Deleted
  <2>2. \A b \in AgentId \ {a} : roster'[b] = roster[b]
    BY <2>1, SpokenShape, GoneShape
  <2> QED BY <1>2, <2>2
<1>4. CASE UNCHANGED roster
  <2>1. L' = L
    BY <1>4 DEF Listed
  <2> QED BY <1>1, <2>1 DEF FiniteInv
<1>5. Roster \/ Feed \/ FramesEnd \/ Tick \/ handleKey \/ handleInputKey \/ handleThemeKey
        \/ UNCHANGED vars => UNCHANGED roster
  BY DEF Roster, Feed, FramesEnd, Tick, handleKey, handleInputKey, handleThemeKey, Select,
         OpenInput, OpenPicker, Quit, Preview, Confirm, Escape, vars, world
<1> QED BY <1>3, <1>4, <1>5 DEF Next, Frames

\* The rows stay distinct, in order, and those of the roster.
RowsInv == Distinct(rows) /\ OrderInv /\ ShowInv

\* An agent came or changed, and its frame was applied.
LEMMA UpdateShows ==
  ASSUME TypeOK, FiniteInv, RowsInv, NEW a \in AgentId, Update(a)
  PROVE  RowsInv'
<1> DEFINE r == RowOf(a, roster'[a])
           new == upsert(rows, r)
<1>1. (\E t \in 0 .. MaxClock : Comes(a, t)) \/ Changes(a)
  BY DEF Update
<1>2. /\ roster'[a] \in Agent /\ roster'[a] # NoAgent
      /\ \A b \in AgentId \ {a} : roster'[b] = roster[b]
      /\ Listed(a) => roster[a] \in Agent /\ roster'[a].created = roster[a].created
  BY <1>1, SpokenShape
<1>3. r \in Row /\ r.id = a /\ r.created = roster'[a].created
  BY <1>2, RowOfType
<1>4. /\ rows \in Seq(Row) /\ Distinct(rows) /\ Len(rows) \in Nat
      /\ DOMAIN rows = 1 .. Len(rows)
      /\ \A i \in 1 .. Len(rows) : rows[i] \in Row
  BY DEF TypeOK, RowsInv
<1>5. feed = "updates" /\ UNCHANGED <<feed, missed>>
  BY DEF Update
<1>6. rows' = new
  BY DEF Update, applyFrame
<1>7. \A b \in AgentId \ missed :
        IF Listed(b) THEN \E i \in 1 .. Len(rows) : rows[i] = RowOf(b, roster[b])
                     ELSE ~Has(rows, b)
  BY <1>5 DEF RowsInv, ShowInv
<1>8. \A b \in AgentId : Listed(b) => RowOf(b, roster[b]).id = b
  BY DEF RowOf
<1>9. CASE Has(rows, a)
  <2> HIDE DEF r
  <2> USE DEF new
  <2>1. Has(rows, r.id)
    BY <1>3, <1>9
  <2>2. /\ new \in Seq(Row) /\ Distinct(new) /\ Len(new) = Len(rows)
        /\ \A i \in 1 .. Len(rows) : new[i] = IF rows[i].id = a THEN r ELSE rows[i]
    BY <1>3, <1>4, <2>1, UpsertReplaces
  <2> HIDE DEF new
  <2>3. ASSUME missed = {} PROVE Ordered(new)
    <3>1. PICK k \in 1 .. Len(rows) : rows[k].id = a
      BY <1>4, <1>9 DEF Has
    <3>2. Listed(a)
      BY <1>7, <1>9, <2>3
    <3>3. PICK i \in 1 .. Len(rows) : rows[i] = RowOf(a, roster[a])
      BY <1>7, <2>3, <3>2
    <3>4. i = k
      BY <1>4, <3>1, <3>2, <3>3, <1>8 DEF Distinct
    <3>5. rows[k].created = roster[a].created
      BY <3>3, <3>4, <3>2, <1>2, RowOfType
    <3>6. r.created = rows[k].created
      BY <1>2, <1>3, <3>2, <3>5
    <3>7. ASSUME NEW j \in 1 .. Len(rows)
          PROVE  new[j].id = rows[j].id /\ new[j].created = rows[j].created
      <4>1. CASE rows[j].id = a
        <5>1. j = k
          BY <1>4, <3>1, <4>1 DEF Distinct
        <5> QED BY <1>3, <2>2, <3>1, <3>6, <4>1, <5>1
      <4>2. CASE rows[j].id # a
        BY <2>2, <4>2
      <4> QED BY <4>1, <4>2
    <3>8. Ordered(rows)
      BY <2>3 DEF RowsInv, OrderInv
    <3> QED BY <2>2, <3>7, <3>8 DEF Ordered, Before
  <2>4. \E i \in 1 .. Len(new) : new[i] = r
    BY <1>4, <1>9, <2>2 DEF Has
  <2>5. ASSUME NEW b \in AgentId \ missed, b # a
        PROVE  IF Listed(b) THEN \E i \in 1 .. Len(new) : new[i] = RowOf(b, roster[b])
                            ELSE \A i \in 1 .. Len(new) : new[i].id # b
    <3>1. CASE Listed(b)
      <4>1. PICK i \in 1 .. Len(rows) : rows[i] = RowOf(b, roster[b])
        BY <1>7, <3>1
      <4>2. rows[i].id = b
        BY <1>8, <3>1, <4>1
      <4> QED BY <2>2, <2>5, <3>1, <4>1, <4>2
    <3>2. CASE ~Listed(b)
      <4>1. ~Has(rows, b)
        BY <1>7, <3>2
      <4> QED BY <1>3, <1>4, <2>2, <2>5, <3>2, <4>1 DEF Has
    <3> QED BY <3>1, <3>2
  <2>6. DOMAIN new = 1 .. Len(new)
    BY <2>2
  <2>7. ShowInv'
    <3> SUFFICES ASSUME NEW b \in AgentId \ missed
                 PROVE  IF roster'[b] # NoAgent
                          THEN \E i \in 1 .. Len(new) : new[i] = RowOf(b, roster'[b])
                          ELSE \A i \in 1 .. Len(new) : new[i].id # b
      BY <1>5, <1>6, <2>6 DEF ShowInv, Listed, Has
    <3>1. CASE b = a
      BY <1>2, <2>4, <3>1 DEF r
    <3>2. CASE b # a
      BY <1>2, <2>5, <3>2 DEF Listed
    <3> QED BY <3>1, <3>2
  <2>8. OrderInv'
    BY <1>5, <1>6, <2>3 DEF OrderInv
  <2> QED BY <1>6, <2>2, <2>7, <2>8 DEF RowsInv
<1>10. CASE ~Has(rows, a)
  <2> HIDE DEF r
  <2> USE DEF new
  <2>1. ~Has(rows, r.id)
    BY <1>3, <1>10
  <2>2. /\ new \in Seq(Row) /\ Distinct(new) /\ Ordered(new)
        /\ \A x : (\E i \in 1 .. Len(new) : new[i] = x) <=>
                   x = r \/ \E i \in 1 .. Len(rows) : rows[i] = x
    <3>1. new = upsert(rows, r)
      OBVIOUS
    <3> HIDE DEF new
    <3>2. new \in Seq(Row) /\ Distinct(new) /\ Ordered(new)
      BY <1>3, <1>4, <2>1, <3>1, UpsertSorts
    <3>3. \A x : Holds(new, x) <=> x = r \/ Holds(rows, x)
      BY <1>3, <1>4, <2>1, <3>1, UpsertSorts
    <3> QED BY <3>2, <3>3 DEF Holds
  <2> HIDE DEF new
  <2>3. DOMAIN new = 1 .. Len(new)
    BY <2>2
  <2>4. ShowInv'
    <3> SUFFICES ASSUME NEW b \in AgentId \ missed
                 PROVE  IF roster'[b] # NoAgent
                          THEN \E i \in 1 .. Len(new) : new[i] = RowOf(b, roster'[b])
                          ELSE \A i \in 1 .. Len(new) : new[i].id # b
      BY <1>5, <1>6, <2>3 DEF ShowInv, Listed, Has
    <3>1. CASE b = a
      BY <1>2, <2>2, <3>1 DEF r
    <3>2. CASE b # a /\ Listed(b)
      BY <1>2, <1>7, <2>2, <3>2 DEF Listed
    <3>3. CASE b # a /\ ~Listed(b)
      <4>1. ~Has(rows, b)
        BY <1>7, <3>3
      <4>2. ASSUME NEW i \in 1 .. Len(new) PROVE new[i].id # b
        <5>1. new[i] = r \/ \E k \in 1 .. Len(rows) : rows[k] = new[i]
          BY <2>2
        <5> QED BY <1>3, <1>4, <3>3, <4>1, <5>1 DEF Has
      <4> QED BY <1>2, <3>3, <4>2 DEF Listed
    <3> QED BY <3>1, <3>2, <3>3
  <2>5. OrderInv'
    BY <1>6, <2>2 DEF OrderInv
  <2> QED BY <1>6, <2>2, <2>4, <2>5 DEF RowsInv
<1> QED BY <1>9, <1>10

\* An agent went, and its frame was applied.
LEMMA DeletedShows ==
  ASSUME TypeOK, FiniteInv, RowsInv, NEW a \in AgentId, Deleted(a)
  PROVE  RowsInv'
<1> DEFINE new == remove(rows, a)
<1>1. /\ roster'[a] = NoAgent
      /\ \A b \in AgentId \ {a} : roster'[b] = roster[b]
  BY GoneShape DEF Deleted
<1>2. /\ rows \in Seq(Row) /\ Distinct(rows) /\ Len(rows) \in Nat
      /\ DOMAIN rows = 1 .. Len(rows)
  BY DEF TypeOK, RowsInv
<1>3. feed = "updates" /\ UNCHANGED <<feed, missed>>
  BY DEF Deleted
<1>4. rows' = new
  BY DEF Deleted, applyFrame
<1>5. \A b \in AgentId \ missed :
        IF Listed(b) THEN \E i \in 1 .. Len(rows) : rows[i] = RowOf(b, roster[b])
                     ELSE ~Has(rows, b)
  BY <1>3 DEF RowsInv, ShowInv
<1>6. new \in Seq(Row) /\ (~Has(rows, a) => new = rows)
  BY <1>2, RemoveShape
<1>7. Has(rows, a) => \E p \in 1 .. Len(rows) : Without(new, rows, p, a)
  BY <1>2, RemoveShape
<1> HIDE DEF new
<1>8. Len(new) \in Nat /\ DOMAIN new = 1 .. Len(new)
  BY <1>6
<1>9. SUFFICES /\ Distinct(new)
               /\ Ordered(rows) => Ordered(new)
               /\ \A i \in 1 .. Len(new) : new[i].id # a
               /\ \A i \in 1 .. Len(new) : \E k \in 1 .. Len(rows) : new[i] = rows[k]
               /\ \A k \in 1 .. Len(rows) : rows[k].id # a =>
                    \E i \in 1 .. Len(new) : new[i] = rows[k]
  <2>1. Distinct(rows')
    BY <1>4, <1>9
  <2>2. OrderInv'
    BY <1>3, <1>4, <1>9 DEF OrderInv, RowsInv
  <2>3. ShowInv'
    <3> SUFFICES ASSUME NEW b \in AgentId \ missed
                 PROVE  IF roster'[b] # NoAgent
                          THEN \E i \in 1 .. Len(new) : new[i] = RowOf(b, roster'[b])
                          ELSE \A i \in 1 .. Len(new) : new[i].id # b
      BY <1>3, <1>4, <1>8 DEF ShowInv, Listed, Has
    <3>1. CASE b = a
      BY <1>1, <1>9, <3>1
    <3>2. CASE b # a /\ Listed(b)
      <4>1. PICK k \in 1 .. Len(rows) : rows[k] = RowOf(b, roster[b])
        BY <1>5, <3>2
      <4>2. rows[k].id # a
        BY <3>2, <4>1 DEF RowOf
      <4> QED BY <1>1, <1>9, <3>2, <4>1, <4>2 DEF Listed
    <3>3. CASE b # a /\ ~Listed(b)
      <4>1. \A k \in 1 .. Len(rows) : rows[k].id # b
        BY <1>2, <1>5, <3>3 DEF Has
      <4> QED BY <1>1, <1>9, <3>3, <4>1 DEF Listed
    <3> QED BY <3>1, <3>2, <3>3
  <2> QED BY <2>1, <2>2, <2>3 DEF RowsInv
<1>10. CASE ~Has(rows, a)
  BY <1>2, <1>6, <1>10 DEF Has
<1>11. CASE Has(rows, a)
  <2>1. PICK p \in 1 .. Len(rows) :
          /\ rows[p].id = a
          /\ Len(new) = Len(rows) - 1
          /\ \A i \in 1 .. Len(new) : new[i] = rows[IF i < p THEN i ELSE i + 1]
    BY <1>7, <1>11 DEF Without
  <2> DEFINE n == Len(rows)
             at(i) == IF i < p THEN i ELSE i + 1
  <2>2. /\ n \in Nat /\ p \in 1 .. n /\ Len(new) = n - 1
        /\ \A i \in 1 .. n - 1 : new[i] = rows[at(i)]
    BY <1>2, <2>1
  <2>3. /\ \A i \in 1 .. n - 1 : at(i) \in 1 .. n /\ at(i) # p
        /\ \A i, j \in 1 .. n - 1 : i < j => at(i) < at(j)
        /\ \A i, j \in 1 .. n - 1 : at(i) = at(j) => i = j
    <3> HIDE DEF n
    <3> QED BY <2>2
  <2>4. \A k \in 1 .. n : k # p => \E i \in 1 .. n - 1 : at(i) = k
    <3> HIDE DEF n
    <3> SUFFICES ASSUME NEW k \in 1 .. n, k # p PROVE \E i \in 1 .. n - 1 : at(i) = k
      OBVIOUS
    <3>1. CASE k < p
      <4>1. k \in 1 .. n - 1 /\ at(k) = k
        BY <2>2, <3>1
      <4> QED BY <4>1
    <3>2. CASE ~(k < p)
      <4>1. k - 1 \in 1 .. n - 1 /\ at(k - 1) = k
        BY <2>2, <3>2
      <4> QED BY <4>1
    <3> QED BY <3>1, <3>2
  <2>5. \A i, j \in 1 .. n : rows[i].id = rows[j].id => i = j
    BY <1>2 DEF Distinct
  <2> HIDE DEF at, n
  <2>6. Distinct(new)
    <3>1. \A i, j \in 1 .. n - 1 : new[i].id = new[j].id => at(i) = at(j)
      BY <2>2, <2>3, <2>5
    <3> QED BY <2>2, <2>3, <3>1 DEF Distinct
  <2>7. Ordered(rows) => Ordered(new)
    <3>1. Ordered(rows) => \A i, j \in 1 .. n : i < j => Before(rows[i], rows[j])
      BY DEF Ordered, n
    <3> QED BY <2>2, <2>3, <3>1 DEF Ordered
  <2>8. \A i \in 1 .. n - 1 : new[i].id # a
    BY <2>1, <2>2, <2>3, <2>5
  <2>9. \A i \in 1 .. n - 1 : \E k \in 1 .. n : new[i] = rows[k]
    BY <2>2, <2>3
  <2>10. \A k \in 1 .. n : rows[k].id # a => \E i \in 1 .. n - 1 : new[i] = rows[k]
    BY <2>1, <2>2, <2>4
  <2> QED BY <2>2, <2>6, <2>7, <2>8, <2>9, <2>10 DEF n
<1> QED BY <1>10, <1>11

\* The other steps leave the rows alone.
LEMMA RowsStep ==
  ASSUME TypeOK, FiniteInv, RowsInv, [Next]_vars
  PROVE  RowsInv'
<1>1. ASSUME NEW a \in AgentId, Silently(a) PROVE RowsInv'
  <2>1. \A b \in AgentId \ {a} : roster'[b] = roster[b]
    BY <1>1, SpokenShape, GoneShape DEF Silently
  <2>2. /\ feed # "updates" /\ UNCHANGED <<feed, rows>>
        /\ missed' = IF feed = "roster" THEN missed \cup {a} ELSE missed
    BY <1>1 DEF Silently, Unheard, list
  <2>3. ShowInv'
    <3> SUFFICES ASSUME feed = "roster", NEW b \in AgentId, b \notin missed, b # a
                 PROVE  IF Listed(b)' THEN \E i \in 1 .. Len(rows) : rows[i] = RowOf(b, roster'[b])
                                      ELSE ~Has(rows, b)
      BY <2>2 DEF ShowInv
    <3> QED BY <2>1 DEF RowsInv, ShowInv, Listed
  <2>4. OrderInv'
    BY <2>2 DEF RowsInv, OrderInv
  <2>5. Distinct(rows')
    BY <2>2 DEF RowsInv
  <2> QED BY <2>3, <2>4, <2>5 DEF RowsInv
<1>2. CASE Roster
  <2>1. /\ rows' = InOrder(RosterRows) /\ missed' = {} /\ UNCHANGED roster
    BY <1>2 DEF Roster, applyFrame, RosterRows
  <2>2. /\ rows' \in Seq(Row) /\ Distinct(rows') /\ Ordered(rows')
        /\ \A x : x \in RosterRows <=> \E i \in 1 .. Len(rows') : rows'[i] = x
    BY <2>1, RosterFrame
  <2>3. \A b \in AgentId : RowOf(b, roster[b]).id = b
    BY DEF RowOf
  <2>4. ASSUME NEW b \in AgentId, Listed(b)
        PROVE  \E i \in 1 .. Len(rows') : rows'[i] = RowOf(b, roster[b])
    <3>1. RowOf(b, roster[b]) \in RosterRows
      BY <2>4 DEF RosterRows
    <3> QED BY <2>2, <3>1
  <2>5. ASSUME NEW b \in AgentId, ~Listed(b) PROVE ~Has(rows, b)'
    <3>1. ASSUME NEW i \in 1 .. Len(rows') PROVE rows'[i].id # b
      <4>1. rows'[i] \in RosterRows
        BY <2>2
      <4> QED BY <2>3, <2>5, <4>1 DEF RosterRows
    <3>2. DOMAIN rows' = 1 .. Len(rows')
      BY <2>2
    <3> QED BY <3>1, <3>2 DEF Has
  <2>6. ShowInv'
    BY <2>1, <2>4, <2>5 DEF ShowInv, Listed
  <2> QED BY <2>2, <2>6 DEF RowsInv, OrderInv
<1>3. CASE Feed
  <2>1. /\ UNCHANGED <<roster, rows, missed>>
        /\ feed' \in {"roster", "updates"} => feed \in {"roster", "updates"}
    BY <1>3 DEF Feed, list
  <2> QED BY <2>1 DEF RowsInv, OrderInv, ShowInv, Distinct, Listed, Has
<1>4. CASE UNCHANGED <<roster, feed, missed, rows>>
  BY <1>4 DEF RowsInv, OrderInv, ShowInv, Distinct, Listed, Has
<1>5. FramesEnd \/ Tick \/ handleKey \/ handleInputKey \/ handleThemeKey \/ UNCHANGED vars
        => UNCHANGED <<roster, feed, missed, rows>>
  BY DEF FramesEnd, Tick, handleKey, handleInputKey, handleThemeKey, Select, OpenInput,
         OpenPicker, Quit, Preview, Confirm, Escape, vars, world, list
<1> QED BY <1>1, <1>2, <1>3, <1>4, <1>5, UpdateShows, DeletedShows DEF Next, Frames

LEMMA InitInv == Init => IInv
<1> SUFFICES ASSUME Init PROVE IInv
  OBVIOUS
<1>1. TypeOK
  <2>1. /\ clock \in 0 .. MaxClock /\ ticks \in 0 .. MaxTicks
        /\ rows \in Seq(Row) /\ selected \in Nat
    BY BoundAssumption DEF Init
  <2>2. picker \in [open : BOOLEAN, idx : Theme, prev : Theme, palette : Theme]
    BY ThemeAssumption DEF Init
  <2>3. input \in [on : BOOLEAN, text : BOOLEAN]
    BY DEF Init
  <2> QED BY <2>1, <2>2, <2>3, ThemeAssumption DEF Init, TypeOK
<1>2. {a \in AgentId : Listed(a)} = {}
  BY DEF Init, Listed
<1>3. FiniteInv
  BY <1>2, FS_EmptySet DEF FiniteInv
<1>4. Distinct(rows) /\ OrderInv /\ ShowInv
  BY DEF Init, Distinct, OrderInv, Ordered, ShowInv
<1> QED BY <1>1, <1>3, <1>4 DEF IInv

LEMMA Invariant == Spec => []IInv
<1>1. IInv /\ [Next]_vars => IInv'
  BY TypeStep, FiniteStep, RowsStep DEF IInv, RowsInv
<1> QED BY InitInv, <1>1, PTL DEF Spec

-----------------------------------------------------------------------------
(* The properties.                                                          *)

\* Every variable has its type: the rows are rows, with one for an agent.
THEOREM Typing == Spec => []TypeOK
<1>1. IInv => TypeOK
  BY DEF IInv
<1> QED BY Invariant, <1>1, PTL

\* While the sidebar is subscribed, and as far as it did not miss a change between
\* roster and subscription, each agent has its one row, and the rows are in the
\* order of creation: Update's cases for frames, sortAgents.
THEOREM RowsShow == Spec => []RowsShowRoster
<1>1. IInv => RowsShowRoster
  <2> SUFFICES ASSUME IInv PROVE RowsShowRoster
    OBVIOUS
  <2>1. DOMAIN rows = 1 .. Len(rows)
    BY DEF IInv, TypeOK
  <2> QED BY <2>1 DEF IInv, RowsShowRoster, Distinct, OrderInv, Ordered, ShowInv
<1> QED BY Invariant, <1>1, PTL

\* A selection clamped to the new length is on a row if there is one.
LEMMA Clamped ==
  ASSUME NEW n \in Nat, NEW s \in Nat
  PROVE  n # 0 => clampSelection(s, n) < n
BY DEF clampSelection

\* The selection is on a row as long as there is one: Update and handleKey.
THEOREM SelectionListed == Spec => []SelectionOnRow
<1>1. Init => SelectionOnRow
  BY DEF Init, SelectionOnRow
<1>2. ASSUME IInv, SelectionOnRow, [Next]_vars PROVE SelectionOnRow'
  <2>1. TypeOK /\ FiniteInv /\ Distinct(rows)
    BY <1>2 DEF IInv
  <2>2. ASSUME NEW rs \in Seq(Row), applyFrame(rs) PROVE SelectionOnRow'
    <3>1. rows' = rs /\ selected' = clampSelection(selected, Len(rs))
      BY <2>2 DEF applyFrame
    <3>2. selected \in Nat /\ Len(rs) \in Nat
      BY <2>1 DEF TypeOK
    <3>3. rs # <<>> => Len(rs) # 0
      OBVIOUS
    <3>4. Len(rs) # 0 => clampSelection(selected, Len(rs)) < Len(rs)
      BY <3>2, Clamped
    <3> QED BY <3>1, <3>3, <3>4 DEF SelectionOnRow
  <2>3. ASSUME NEW a \in AgentId, Update(a) \/ Deleted(a) PROVE SelectionOnRow'
    <3>1. CASE Update(a)
      <4>1. upsert(rows, RowOf(a, roster'[a])) \in Seq(Row)
        BY <2>1, <3>1, FrameRows
      <4>2. applyFrame(upsert(rows, RowOf(a, roster'[a])))
        BY <3>1 DEF Update
      <4> QED BY <2>2, <4>1, <4>2
    <3>2. CASE Deleted(a)
      <4>1. remove(rows, a) \in Seq(Row)
        BY <2>1, FrameRows
      <4>2. applyFrame(remove(rows, a))
        BY <3>2 DEF Deleted
      <4> QED BY <2>2, <4>1, <4>2
    <3> QED BY <2>3, <3>1, <3>2
  <2>4. CASE Roster
    <3>1. InOrder(RosterRows) \in Seq(Row)
      BY <2>1, FrameRows
    <3>2. applyFrame(InOrder(RosterRows))
      BY <2>4 DEF Roster, RosterRows
    <3> QED BY <2>2, <3>1, <3>2
  <2>5. CASE Select
    <3>1. selected \in Nat /\ Len(rows) \in Nat
      BY <2>1 DEF TypeOK
    <3>2. rows' = rows
      BY <2>5 DEF Select
    <3>3. CASE selected + 1 < Len(rows) /\ selected' = selected + 1
      BY <3>1, <3>2, <3>3 DEF SelectionOnRow
    <3>4. CASE selected > 0 /\ selected' = selected - 1
      BY <1>2, <3>1, <3>2, <3>4 DEF SelectionOnRow
    <3> QED BY <2>5, <3>3, <3>4 DEF Select
  <2>6. CASE UNCHANGED <<rows, selected>>
    BY <1>2, <2>6 DEF SelectionOnRow
  <2>7. ASSUME NEW a \in AgentId, Silently(a) PROVE UNCHANGED <<rows, selected>>
    BY <2>7 DEF Silently, Unheard, list
  <2>8. Feed \/ FramesEnd \/ Tick \/ OpenInput \/ OpenPicker \/ Quit \/ handleInputKey
          \/ handleThemeKey \/ UNCHANGED vars => UNCHANGED <<rows, selected>>
    BY DEF Feed, FramesEnd, Tick, OpenInput, OpenPicker, Quit, handleInputKey,
           handleThemeKey, Preview, Confirm, Escape, vars, list
  <2> QED BY <1>2, <2>3, <2>4, <2>5, <2>6, <2>7, <2>8 DEF Next, Frames, handleKey
<1> QED BY Invariant, <1>1, <1>2, PTL DEF Spec

\* A step that changes the rows is a frame: the selection is clamped, and the
\* program runs on.
LEMMA FrameStep ==
  ASSUME TypeOK, FiniteInv, Distinct(rows), Next
  PROVE  \/ /\ rows' \in Seq(Row) /\ ~quit /\ quit' = quit
            /\ selected' = clampSelection(selected, Len(rows')) /\ spinner(rows, rows')
            /\ UNCHANGED modes
         \/ rows' = rows
<1>1. ASSUME NEW rs \in Seq(Row), applyFrame(rs)
      PROVE  /\ rows' \in Seq(Row) /\ ~quit /\ quit' = quit
             /\ selected' = clampSelection(selected, Len(rows')) /\ spinner(rows, rows')
             /\ UNCHANGED modes
  BY <1>1 DEF applyFrame
<1>2. ASSUME NEW a \in AgentId, Update(a)
      PROVE  /\ applyFrame(upsert(rows, RowOf(a, roster'[a])))
             /\ upsert(rows, RowOf(a, roster'[a])) \in Seq(Row)
  BY <1>2, FrameRows DEF Update
<1>3. ASSUME NEW a \in AgentId, Deleted(a)
      PROVE  applyFrame(remove(rows, a)) /\ remove(rows, a) \in Seq(Row)
  BY <1>3, FrameRows DEF Deleted
<1>4. ASSUME Roster
      PROVE  applyFrame(InOrder(RosterRows)) /\ InOrder(RosterRows) \in Seq(Row)
  BY <1>4, FrameRows DEF Roster, RosterRows
<1>5. ASSUME NEW a \in AgentId, Silently(a) PROVE rows' = rows
  BY <1>5 DEF Silently, Unheard, list
<1>6. Feed \/ FramesEnd \/ Tick \/ handleKey \/ handleInputKey \/ handleThemeKey
        => rows' = rows
  BY DEF Feed, FramesEnd, Tick, handleKey, handleInputKey, handleThemeKey, Select,
         OpenInput, OpenPicker, Quit, Preview, Confirm, Escape, list
<1> QED BY <1>1, <1>2, <1>3, <1>4, <1>5, <1>6 DEF Next, Frames

\* A frame that leaves the agents where they are leaves the selection on its agent:
\* Update calls clampSelection after each frame, which moves nothing that fits.
THEOREM SelectionKept == Spec => SelectionStays
<1> DEFINE Stays == /\ Len(rows') = Len(rows) /\ rows # <<>>
                    /\ \A i \in DOMAIN rows : rows'[i].id = rows[i].id
                    /\ rows' # rows
                    => rows'[selected' + 1].id = rows[selected + 1].id
<1>1. ASSUME IInv, SelectionOnRow, Next PROVE Stays
  <2> SUFFICES ASSUME Len(rows') = Len(rows), rows # <<>>, rows' # rows,
                      \A i \in DOMAIN rows : rows'[i].id = rows[i].id
               PROVE  rows'[selected' + 1].id = rows[selected + 1].id
    OBVIOUS
  <2>1. TypeOK /\ FiniteInv /\ Distinct(rows)
    BY <1>1 DEF IInv
  <2>2. selected' = clampSelection(selected, Len(rows))
    BY <1>1, <2>1, FrameStep
  <2>3. selected \in Nat /\ Len(rows) \in Nat /\ DOMAIN rows = 1 .. Len(rows)
    BY <2>1 DEF TypeOK
  <2>4. selected < Len(rows)
    BY <1>1 DEF SelectionOnRow
  <2>5. selected' = selected
    BY <2>2, <2>3, <2>4 DEF clampSelection
  <2>6. selected + 1 \in DOMAIN rows
    BY <2>3, <2>4
  <2> QED BY <2>5, <2>6
<1>2. IInv /\ SelectionOnRow /\ [Next]_vars => [Stays]_vars
  <2> HIDE DEF Stays
  <2> QED BY <1>1
<1>3. Spec => [][Stays]_vars
  <2> HIDE DEF Stays
  <2> QED BY Invariant, SelectionListed, <1>2, PTL DEF Spec
<1> QED BY <1>3 DEF SelectionStays

\* While somebody works a tick is under way, and there is only one unless work began
\* anew under a tick that was still to come: spinner and the case of tickMsg.
THEOREM SpinnerPaced == Spec => []SpinnerRuns
<1>1. Init => SpinnerRuns
  BY DEF Init, SpinnerRuns, anyWorking
<1>2. ASSUME IInv, SpinnerRuns, [Next]_vars PROVE SpinnerRuns'
  <2>1. TypeOK /\ FiniteInv /\ Distinct(rows)
    BY <1>2 DEF IInv
  <2>2. ticks \in Nat /\ ticks' \in Nat
    <3>1. TypeOK'
      BY <1>2, <2>1, TypeStep
    <3> QED BY <2>1, <3>1, BoundAssumption DEF TypeOK
  <2>3. CASE ~quit /\ quit' = quit /\ spinner(rows, rows')
    <3>1. anyWorking(rows) => ticks > 0
      BY <1>2, <2>3 DEF SpinnerRuns
    <3>2. ~overlap => ticks <= 1
      BY <1>2 DEF SpinnerRuns
    <3>3. CASE ~anyWorking(rows) /\ anyWorking(rows')
      <4>1. ticks' = ticks + 1 /\ overlap' = (overlap \/ ticks > 0)
        BY <2>3, <3>3 DEF spinner
      <4>2. ticks' > 0
        BY <2>2, <4>1
      <4>3. ~overlap' => ticks' <= 1
        <5>1. ticks > 0 => overlap'
          BY <4>1
        <5>2. ~(ticks > 0) => ticks' <= 1
          BY <2>2, <4>1
        <5> QED BY <5>1, <5>2
      <4> QED BY <4>2, <4>3 DEF SpinnerRuns
    <3>4. CASE ~(~anyWorking(rows) /\ anyWorking(rows'))
      <4>1. ticks' = ticks /\ overlap' = overlap
        BY <2>3, <3>4 DEF spinner, spin
      <4> QED BY <3>1, <3>2, <3>4, <4>1 DEF SpinnerRuns
    <3> QED BY <3>3, <3>4
  <2>4. CASE Tick
    <3>1. /\ ~quit /\ ticks > 0 /\ rows' = rows
          /\ ticks' = IF anyWorking(rows) THEN ticks ELSE ticks - 1
          /\ overlap' = (overlap /\ ticks' > 1)
      BY <2>4 DEF Tick, list
    <3>2. anyWorking(rows') => ticks' > 0
      BY <3>1
    <3>3. ~overlap' => ticks' <= 1
      <4>1. CASE overlap
        <5>1. ticks' > 1 => overlap'
          BY <3>1, <4>1
        <5>2. ~(ticks' > 1) => ticks' <= 1
          BY <2>2
        <5> QED BY <5>1, <5>2
      <4>2. CASE ~overlap
        <5>1. ticks <= 1
          BY <1>2, <4>2 DEF SpinnerRuns
        <5> QED BY <2>2, <3>1, <5>1
      <4> QED BY <4>1, <4>2
    <3> QED BY <3>2, <3>3 DEF SpinnerRuns
  <2>5. CASE UNCHANGED <<rows, ticks, overlap>> /\ (quit => quit')
    BY <1>2, <2>5 DEF SpinnerRuns
  <2>6. ASSUME NEW a \in AgentId, Silently(a)
        PROVE  UNCHANGED <<rows, ticks, overlap, quit>>
    BY <2>6 DEF Silently, Unheard, list, spin
  <2>7. Feed \/ FramesEnd \/ handleKey \/ handleInputKey \/ handleThemeKey \/ UNCHANGED vars
          => UNCHANGED <<rows, ticks, overlap>> /\ (quit => quit')
    <3>1. FramesEnd \/ Quit => UNCHANGED <<rows, ticks, overlap>> /\ quit'
      BY DEF FramesEnd, Quit, list, spin
    <3>2. Feed \/ Select \/ OpenInput \/ OpenPicker \/ handleInputKey \/ handleThemeKey
            \/ UNCHANGED vars => UNCHANGED <<rows, ticks, overlap, quit>>
      BY DEF Feed, Select, OpenInput, OpenPicker, handleInputKey, handleThemeKey, Preview,
             Confirm, Escape, list, spin, vars
    <3> QED BY <3>1, <3>2 DEF handleKey
  <2>8. ASSUME NEW a \in AgentId, Update(a) \/ Deleted(a)
        PROVE  ~quit /\ quit' = quit /\ spinner(rows, rows')
    BY <2>8 DEF Update, Deleted, applyFrame
  <2>9. Roster => ~quit /\ quit' = quit /\ spinner(rows, rows')
    BY DEF Roster, applyFrame
  <2> QED BY <1>2, <2>3, <2>4, <2>5, <2>6, <2>7, <2>8, <2>9 DEF Next, Frames
<1> QED BY Invariant, <1>1, <1>2, PTL DEF Spec

\* Outside the picker the theme is the one confirmed last, and index and palette
\* agree: handleThemeKey's esc undoes every preview.
THEOREM EscLeavesNoTrace == Spec => []EscRestores
<1>1. Init => EscRestores
  BY DEF Init, EscRestores
<1>2. ASSUME IInv, EscRestores, [Next]_vars PROVE EscRestores'
  <2>1. picker \in [open : BOOLEAN, idx : Theme, prev : Theme, palette : Theme]
    BY <1>2 DEF IInv, TypeOK
  <2>2. picker.palette = picker.idx
        /\ (IF picker.open THEN picker.prev ELSE picker.idx) = chosen
    BY <1>2 DEF EscRestores
  <2>3. CASE OpenPicker
    <3>1. /\ ~picker.open /\ UNCHANGED chosen
          /\ picker' = [picker EXCEPT !.open = TRUE, !.prev = picker.idx]
      BY <2>3 DEF OpenPicker, InList
    <3> QED BY <2>1, <2>2, <3>1 DEF EscRestores
  <2>4. CASE Preview
    <3>1. PICK i \in Theme : picker' = [picker EXCEPT !.idx = i, !.palette = i]
      BY <2>4 DEF Preview
    <3>2. picker.open /\ UNCHANGED chosen
      BY <2>4 DEF Preview, InPicker
    <3> QED BY <2>1, <2>2, <3>1, <3>2 DEF EscRestores
  <2>5. CASE Confirm
    BY <2>1, <2>2, <2>5 DEF Confirm, EscRestores
  <2>6. CASE Escape
    BY <2>1, <2>2, <2>6 DEF Escape, InPicker, EscRestores
  <2>7. CASE UNCHANGED <<picker, chosen>>
    BY <1>2, <2>7 DEF EscRestores
  <2>8. ASSUME NEW a \in AgentId, Silently(a) \/ Update(a) \/ Deleted(a)
        PROVE  UNCHANGED <<picker, chosen>>
    BY <2>8 DEF Silently, Unheard, Update, Deleted, applyFrame, modes
  <2>9. Roster \/ Feed \/ FramesEnd \/ Tick \/ Select \/ OpenInput \/ Quit \/ handleInputKey
          \/ UNCHANGED vars => UNCHANGED <<picker, chosen>>
    BY DEF Roster, applyFrame, Feed, FramesEnd, Tick, Select, OpenInput, Quit,
           handleInputKey, modes, vars
  <2> QED BY <1>2, <2>3, <2>4, <2>5, <2>6, <2>7, <2>8, <2>9
          DEF Next, Frames, handleKey, handleThemeKey
<1> QED BY Invariant, <1>1, <1>2, PTL DEF Spec

-----------------------------------------------------------------------------
(* The layout.                                                             *)

Screen == [width : Nat, height : Nat, agents : Nat, selected : Nat, expanded : BOOLEAN,
           mode : {"list", "input", "theme"}, themeIdx : Nat,
           connected : BOOLEAN, dir : BOOLEAN]

\* The cursor is on an agent if there is one.
ScreenInv ==
  /\ screen \in Screen
  /\ screen.agents > 0 => screen.selected < screen.agents

-----------------------------------------------------------------------------
(* Bounds.                                                                 *)

LEMMA MaxOf ==
  ASSUME NEW a \in Int, NEW b \in Int
  PROVE  Max({a, b}) = IF a >= b THEN a ELSE b
BY DEF Max

LEMMA MinOf ==
  ASSUME NEW a \in Int, NEW b \in Int
  PROVE  Min({a, b}) = IF a <= b THEN a ELSE b
BY DEF Min

LEMMA ClampOf ==
  ASSUME NEW sel \in Int, NEW n \in Nat
  PROVE  Clamp(sel, n) \in Nat /\ (n > 0 => Clamp(sel, n) < n)
<1>1. Min({n - 1, sel}) = IF n - 1 <= sel THEN n - 1 ELSE sel
  BY MinOf
<1>2. Max({0, Min({n - 1, sel})})
        = IF 0 >= Min({n - 1, sel}) THEN 0 ELSE Min({n - 1, sel})
  <2>1. Min({n - 1, sel}) \in Int
    BY <1>1
  <2> QED BY <2>1, MaxOf
<1> QED BY <1>1, <1>2 DEF Clamp

LEMMA ScreenStep ==
  ASSUME ScreenInv, LayoutNext
  PROVE  ScreenInv'
<1>1. /\ screen.width \in Nat /\ screen.height \in Nat /\ screen.agents \in Nat
      /\ screen.selected \in Nat /\ screen.themeIdx \in Nat
  BY DEF ScreenInv, Screen
<1>2. CASE WindowSize
  <2>1. PICK w \in Width, h \in Height : screen' = [screen EXCEPT !.width = w, !.height = h]
    BY <1>2 DEF WindowSize, Set
  <2>2. w \in Nat /\ h \in Nat
    BY SizeAssumption, CountAssumption
  <2>3. screen' \in Screen
    BY <2>1, <2>2 DEF ScreenInv, Screen
  <2>4. screen'.agents = screen.agents /\ screen'.selected = screen.selected
    BY <2>1 DEF ScreenInv, Screen
  <2> QED BY <2>3, <2>4 DEF ScreenInv
<1>3. CASE Frame
  <2>1. ASSUME NEW n \in 0 .. MaxAgents
        PROVE  /\ n \in Nat /\ Clamp(screen.selected, n) \in Nat
               /\ n > 0 => Clamp(screen.selected, n) < n
    <3>1. n \in Nat
      BY SizeAssumption, CountAssumption
    <3>2. screen.selected \in Int
      BY <1>1
    <3>3. /\ Clamp(screen.selected, n) \in Nat
          /\ (n > 0 => Clamp(screen.selected, n) < n)
      BY <3>1, <3>2, ClampOf
    <3> QED BY <3>1, <3>3
  <2>2. CASE \E n \in 0 .. MaxAgents, d \in {screen.dir, TRUE} :
               screen' = [screen EXCEPT !.agents = n, !.selected = Clamp(screen.selected, n),
                                        !.connected = TRUE, !.dir = d]
    <3>1. PICK n \in 0 .. MaxAgents, d \in {screen.dir, TRUE} :
               screen' = [screen EXCEPT !.agents = n, !.selected = Clamp(screen.selected, n),
                                        !.connected = TRUE, !.dir = d]
      BY <2>2
    <3> DEFINE c == Clamp(screen.selected, n)
    <3>2. n \in Nat /\ c \in Nat /\ (n > 0 => c < n)
      BY <2>1
    <3>3. d \in BOOLEAN
      BY DEF ScreenInv, Screen
    <3> HIDE DEF c
    <3>4. screen' = [screen EXCEPT !.agents = n, !.selected = c, !.connected = TRUE, !.dir = d]
      BY <3>1 DEF c
    <3>5. screen' \in Screen
      BY <3>2, <3>3, <3>4 DEF ScreenInv, Screen
    <3>6. screen'.agents = n /\ screen'.selected = c
      BY <3>4 DEF ScreenInv, Screen
    <3> QED BY <3>2, <3>5, <3>6 DEF ScreenInv
  <2>3. CASE \E n \in {screen.agents - 1, screen.agents + 1} \cap 0 .. MaxAgents :
               screen' = [screen EXCEPT !.agents = n, !.selected = Clamp(screen.selected, n)]
    <3>1. PICK n \in 0 .. MaxAgents :
               screen' = [screen EXCEPT !.agents = n, !.selected = Clamp(screen.selected, n)]
      BY <2>3
    <3> DEFINE c == Clamp(screen.selected, n)
    <3>2. n \in Nat /\ c \in Nat /\ (n > 0 => c < n)
      BY <2>1
    <3> HIDE DEF c
    <3>3. screen' = [screen EXCEPT !.agents = n, !.selected = c]
      BY <3>1 DEF c
    <3>4. screen' \in Screen
      BY <3>2, <3>3 DEF ScreenInv, Screen
    <3>5. screen'.agents = n /\ screen'.selected = c
      BY <3>3 DEF ScreenInv, Screen
    <3> QED BY <3>2, <3>4, <3>5 DEF ScreenInv
  <2>4. CASE \E c \in BOOLEAN : screen' = [screen EXCEPT !.connected = c]
    BY <2>4 DEF ScreenInv, Screen
  <2> QED BY <1>3, <2>2, <2>3, <2>4 DEF Frame, Set
<1>4. CASE LayoutKey
  <2>1. CASE \E i \in {screen.selected - 1, screen.selected + 1} \cap 0 .. screen.agents - 1 :
               screen' = [screen EXCEPT !.selected = i]
    <3>1. PICK i \in 0 .. screen.agents - 1 : screen' = [screen EXCEPT !.selected = i]
      BY <2>1
    <3>2. i \in Nat /\ i < screen.agents
      BY <1>1
    <3> QED BY <3>1, <3>2 DEF ScreenInv, Screen
  <2>2. CASE screen' = [screen EXCEPT !.expanded = ~screen.expanded]
    <3>1. screen' \in Screen
      BY <2>2 DEF ScreenInv, Screen
    <3>2. screen'.agents = screen.agents /\ screen'.selected = screen.selected
      BY <2>2 DEF ScreenInv, Screen
    <3> QED BY <3>1, <3>2 DEF ScreenInv
  <2>3. CASE screen' = [screen EXCEPT !.mode = "input"]
    BY <2>3 DEF ScreenInv, Screen
  <2>4. CASE \E i \in 0 .. Themes - 1 : screen' = [screen EXCEPT !.mode = "theme", !.themeIdx = i]
    <3>1. PICK i \in 0 .. Themes - 1 : screen' = [screen EXCEPT !.mode = "theme", !.themeIdx = i]
      BY <2>4
    <3>2. i \in Nat
      OBVIOUS
    <3>3. screen' \in Screen
      BY <3>1, <3>2 DEF ScreenInv, Screen
    <3>4. screen'.agents = screen.agents /\ screen'.selected = screen.selected
      BY <3>1 DEF ScreenInv, Screen
    <3> QED BY <3>3, <3>4 DEF ScreenInv
  <2> QED BY <1>4, <2>1, <2>2, <2>3, <2>4 DEF LayoutKey, Set
<1>5. CASE handleModalKey
  <2>1. CASE screen' = [screen EXCEPT !.mode = "list", !.themeIdx = 0]
    BY <2>1 DEF ScreenInv, Screen
  <2>2. CASE \E i \in {screen.themeIdx - 1, screen.themeIdx + 1} \cap 0 .. Themes - 1 :
               screen' = [screen EXCEPT !.themeIdx = i]
    BY <2>2 DEF ScreenInv, Screen
  <2> QED BY <1>5, <2>1, <2>2 DEF handleModalKey, Set
<1> QED BY <1>2, <1>3, <1>4, <1>5 DEF LayoutNext

-----------------------------------------------------------------------------
(* The parts of a view are sequences of lines.                             *)

Kind == {"blank", "logo", "mark", "dir", "count", "disc", "div", "foot", "prompt",
         "agent", "title", "theme", "hint", "detail", "filler"}

Line == Kind \X Nat

LEMMA LinesOf ==
  ASSUME NEW kind \in Kind, NEW n \in Nat
  PROVE  /\ lines(kind, n) \in Seq(Line) /\ Len(lines(kind, n)) = n
         /\ DOMAIN lines(kind, n) = 1 .. n
         /\ \A i \in 1 .. n : lines(kind, n)[i] = <<kind, i>>
<1>1. \A i \in 1 .. n : <<kind, i>> \in Line
  BY DEF Line
<1>2. lines(kind, n) = [i \in 1 .. n |-> <<kind, i>>]
  BY DEF lines
<1> QED BY <1>1, <1>2

LEMMA FooterOf ==
  ASSUME NEW inner \in Nat
  PROVE  \E n \in Nat : buildFooter(inner) = lines("foot", n)
<1> DEFINE new == {i \in 1 .. 7 : curW(inner)[i] = hints[i]}
<1>1. buildFooter(inner) = lines("foot", Cardinality(new))
  BY DEF buildFooter, Cardinality, Cardinality
<1>2. IsFiniteSet(1 .. 7)
  <2> HIDE DEF new
  <2>1. 1 \in Int /\ 7 \in Int
    OBVIOUS
  <2> QED BY <2>1, FS_Interval
<1>3. Cardinality(new) \in Nat
  <2>1. new \subseteq 1 .. 7
    OBVIOUS
  <2> HIDE DEF new
  <2> QED BY <1>2, <2>1, FS_Subset, FS_CardinalityType
<1> QED BY <1>1, <1>3

Names == {"top", "header", "dir", "count", "disc", "topDiv", "botDiv", "foot"}

\* What is known of the parts before any is dropped.
LEMMA PartsOf ==
  ASSUME NEW s \in Screen
  PROVE  /\ DOMAIN Parts(s) = Names
         /\ Parts(s).top = lines("blank", 2)
         /\ Parts(s).header = Logo \/ Parts(s).header = Wordmark
         /\ Parts(s).dir = lines("dir", 1) \/ Parts(s).dir = <<>>
         /\ Parts(s).count = lines("count", 1)
         /\ Parts(s).disc = lines("disc", 1) \/ Parts(s).disc = <<>>
         /\ Parts(s).topDiv = lines("div", 1)
         /\ Parts(s).botDiv = lines("div", 1)
         /\ \/ Parts(s).foot = lines("prompt", 1)
            \/ \E n \in Nat : Parts(s).foot = lines("foot", n)
<1>1. DOMAIN Parts(s) = Names
  BY DEF Parts, Names
<1>2. s.width \in Nat
  BY DEF Screen
<1>3. \/ Parts(s).foot = lines("prompt", 1)
      \/ \E n \in Nat : Parts(s).foot = lines("foot", n)
  <2>1. Parts(s).foot
          = IF s.mode = "input" THEN lines("prompt", 1) ELSE buildFooter(s.width)
    BY DEF Parts
  <2> QED BY <1>2, <2>1, FooterOf
<1> QED BY <1>1, <1>3 DEF Parts, when

\* A part is a sequence of lines, none of which is that of an agent.
Agentless(a) == a \in Seq(Line) /\ \A i \in DOMAIN a : a[i][1] # "agent"

LEMMA AgentlessOf ==
  ASSUME NEW kind \in Kind, NEW n \in Nat, kind # "agent"
  PROVE  Agentless(lines(kind, n))
<1>1. \A i \in DOMAIN lines(kind, n) : lines(kind, n)[i] = <<kind, i>>
  BY LinesOf
<1> QED BY <1>1, LinesOf DEF Agentless

LEMMA AgentlessCat ==
  ASSUME NEW a, NEW b, Agentless(a), Agentless(b)
  PROVE  Agentless(a \o b)
<1>1. a \in Seq(Line) /\ b \in Seq(Line)
  BY DEF Agentless
<1>2. a \o b \in Seq(Line) /\ DOMAIN (a \o b) = 1 .. Len(a) + Len(b)
  BY <1>1
<1>3. ASSUME NEW i \in DOMAIN (a \o b) PROVE (a \o b)[i][1] # "agent"
  <2>1. CASE i <= Len(a)
    BY <1>1, <1>2, <2>1 DEF Agentless
  <2>2. CASE i > Len(a)
    <3>1. (a \o b)[i] = b[i - Len(a)] /\ i - Len(a) \in DOMAIN b
      BY <1>1, <1>2, <2>2
    <3> QED BY <3>1 DEF Agentless
  <2> QED BY <1>1, <1>2, <2>1, <2>2
<1> QED BY <1>2, <1>3 DEF Agentless

LEMMA LenCat ==
  ASSUME NEW a \in Seq(Line), NEW b \in Seq(Line)
  PROVE  a \o b \in Seq(Line) /\ Len(a \o b) = Len(a) + Len(b)
OBVIOUS

LEMMA EmptyAgentless == Agentless(<<>>)
BY DEF Agentless

LEMMA HeaderOf ==
  /\ Agentless(Logo) /\ Len(Logo) = 4
  /\ Agentless(Wordmark) /\ Len(Wordmark) = 1
<1>1. /\ Agentless(lines("logo", 3)) /\ Agentless(lines("blank", 1))
      /\ Agentless(lines("mark", 1))
  BY AgentlessOf DEF Kind
<1> "logo" \in Kind /\ "blank" \in Kind /\ "mark" \in Kind
  BY DEF Kind
<1>2. /\ Len(lines("logo", 3)) = 3 /\ Len(lines("blank", 1)) = 1
      /\ Len(lines("mark", 1)) = 1
  <2>1. Len(lines("logo", 3)) = 3
    BY LinesOf
  <2>2. Len(lines("blank", 1)) = 1
    BY LinesOf
  <2>3. Len(lines("mark", 1)) = 1
    BY LinesOf
  <2> QED BY <2>1, <2>2, <2>3
<1>3. Agentless(Logo)
  BY <1>1, AgentlessCat DEF Logo
<1>4. Len(Logo) = 4
  <2>1. lines("logo", 3) \in Seq(Line) /\ lines("blank", 1) \in Seq(Line)
    BY <1>1 DEF Agentless
  <2>2. Len(lines("logo", 3) \o lines("blank", 1)) = 3 + 1
    BY <1>2, <2>1, LenCat
  <2> QED BY <2>2 DEF Logo
<1> QED BY <1>1, <1>2, <1>3, <1>4 DEF Wordmark

-----------------------------------------------------------------------------
(* What is left of the parts after k steps.                                *)

LEMMA PartsAgentless ==
  ASSUME NEW s \in Screen, NEW p \in Names
  PROVE  Agentless(Parts(s)[p])
<1>1. /\ Agentless(lines("blank", 2)) /\ Agentless(lines("dir", 1))
      /\ Agentless(lines("count", 1))
      /\ Agentless(lines("disc", 1)) /\ Agentless(lines("div", 1))
      /\ Agentless(lines("prompt", 1))
      /\ \A n \in Nat : Agentless(lines("foot", n))
  BY AgentlessOf DEF Kind
<1>2. /\ Agentless(Parts(s).header) /\ Agentless(Parts(s).top)
      /\ Agentless(Parts(s).dir)
  BY <1>1, PartsOf, HeaderOf, EmptyAgentless
<1>3. /\ Agentless(Parts(s).count) /\ Agentless(Parts(s).disc)
      /\ Agentless(Parts(s).topDiv)
  BY <1>1, PartsOf, EmptyAgentless
<1>4. Agentless(Parts(s).botDiv) /\ Agentless(Parts(s).foot)
  BY <1>1, PartsOf
<1> QED BY <1>2, <1>3, <1>4 DEF Names

LEMMA LeftAgentless ==
  ASSUME NEW s \in Screen, NEW k \in 0 .. 7
  PROVE  /\ DOMAIN Left(Parts(s), k) = Names
         /\ \A p \in Names : Agentless(Left(Parts(s), k)[p])
<1>1. DOMAIN Parts(s) = Names
  BY PartsOf
<1>2. DOMAIN Left(Parts(s), k) = Names
  BY <1>1 DEF Left
<1>3. ASSUME NEW p \in Names PROVE Agentless(Left(Parts(s), k)[p])
  <2>1. \/ Left(Parts(s), k)[p] = <<>>
        \/ Left(Parts(s), k)[p] = Wordmark
        \/ Left(Parts(s), k)[p] = Parts(s)[p]
    BY <1>1 DEF Left
  <2> QED BY <2>1, EmptyAgentless, HeaderOf, PartsAgentless
<1> QED BY <1>2, <1>3

\* The lower bounds of what the steps take away: after the sixth there is the
\* directory and the divider, after the seventh the divider.
LEMMA LeftLast ==
  ASSUME NEW s \in Screen, NEW k \in {6, 7}
  PROVE  /\ Left(Parts(s), k).topDiv = lines("div", 1)
         /\ \A p \in Names \ {"topDiv", "dir"} : Left(Parts(s), k)[p] = <<>>
         /\ Left(Parts(s), 6).dir = Parts(s).dir
         /\ Left(Parts(s), 7).dir = <<>>
<1>1. DOMAIN Parts(s) = Names /\ Parts(s).topDiv = lines("div", 1)
  BY PartsOf
<1>2. /\ Order[1] = {"top"} /\ Order[2] = {"foot"}
      /\ Order[3] = {"botDiv"} /\ Order[4] = {}
      /\ Order[5] = {"header"} /\ Order[6] = {"count", "disc"}
      /\ Order[7] = {"dir"}
  BY DEF Order
<1>3. \A i \in 1 .. 7 : i \in {1, 2, 3, 4, 5, 6, 7}
  OBVIOUS
<1>4. \A i \in 1 .. 7 : "topDiv" \notin Order[i]
  BY <1>2, <1>3
<1>5. \A p \in Names \ {"topDiv", "dir"} : \E i \in 1 .. 6 : p \in Order[i]
  BY <1>2 DEF Names
<1>6. \A i \in 1 .. 6 : "dir" \notin Order[i]
  BY <1>2, <1>3
<1>7. "dir" \in Order[7]
  BY <1>2
<1>8. "topDiv" \in Names /\ "dir" \in Names
  BY DEF Names
<1>9. Left(Parts(s), k).topDiv = lines("div", 1)
  BY <1>1, <1>4, <1>8 DEF Left
<1>10. ASSUME NEW p \in Names \ {"topDiv", "dir"} PROVE Left(Parts(s), k)[p] = <<>>
  BY <1>1, <1>5 DEF Left
<1>11. Left(Parts(s), 6).dir = Parts(s).dir
  BY <1>1, <1>6, <1>8 DEF Left
<1>12. Left(Parts(s), 7).dir = <<>>
  BY <1>1, <1>7, <1>8 DEF Left
<1> QED BY <1>9, <1>10, <1>11, <1>12

\* The sizes of parts are the sum of their lengths.
LEMMA SizesOf ==
  ASSUME NEW r, \A p \in Names : Agentless(r[p])
  PROVE  /\ Sizes(r, Names) \in Nat
         /\ Sizes(r, Names) = Len(r.top) + Len(r.header) + Len(r.dir) + Len(r.count)
                                + Len(r.disc) + Len(r.topDiv) + Len(r.botDiv) + Len(r.foot)
<1>1. \A p \in Names : Len(r[p]) \in Nat
  BY DEF Agentless
<1>2. Sizes(r, Names) = Len(r.top) + Len(r.header) + Len(r.dir) + Len(r.count)
                          + Len(r.disc) + Len(r.topDiv) + Len(r.botDiv) + Len(r.foot)
  BY <1>1 DEF Sizes, Names
<1>3. /\ Len(r.top) \in Nat /\ Len(r.header) \in Nat /\ Len(r.dir) \in Nat
      /\ Len(r.count) \in Nat /\ Len(r.disc) \in Nat /\ Len(r.topDiv) \in Nat
      /\ Len(r.botDiv) \in Nat /\ Len(r.foot) \in Nat
  BY <1>1 DEF Names
<1> DEFINE n1 == Len(r.top)
           n2 == Len(r.header)
           n3 == Len(r.dir)
           n4 == Len(r.count)
           n5 == Len(r.disc)
           n6 == Len(r.topDiv)
           n7 == Len(r.botDiv)
           n8 == Len(r.foot)
<1>4. /\ n1 \in Nat /\ n2 \in Nat /\ n3 \in Nat /\ n4 \in Nat
      /\ n5 \in Nat /\ n6 \in Nat /\ n7 \in Nat /\ n8 \in Nat
  BY <1>3
<1> HIDE DEF n1, n2, n3, n4, n5, n6, n7, n8
<1>5. n1 + n2 + n3 + n4 + n5 + n6 + n7 + n8 \in Nat
  BY <1>4
<1>6. Sizes(r, Names) = n1 + n2 + n3 + n4 + n5 + n6 + n7 + n8
  BY <1>2 DEF n1, n2, n3, n4, n5, n6, n7, n8
<1>7. Sizes(r, Names) \in Nat
  BY <1>5, <1>6
<1> QED BY <1>2, <1>7

LEMMA LeftSizes ==
  ASSUME NEW s \in Screen
  PROVE  /\ Sizes(Left(Parts(s), 7), Names) = 1
         /\ Sizes(Left(Parts(s), 6), Names) <= 2
<1>1. Len(lines("div", 1)) = 1 /\ Len(lines("dir", 1)) = 1 /\ Len(<<>>) = 0
  BY LinesOf DEF Kind
<1>2. ASSUME NEW k \in {6, 7}
      PROVE  Sizes(Left(Parts(s), k), Names)
                 = 1 + Len(Left(Parts(s), k).dir)
  <2> DEFINE r == Left(Parts(s), k)
  <2>1. \A p \in Names : Agentless(r[p])
    BY LeftAgentless
  <2>2. /\ r.topDiv = lines("div", 1) /\ r.top = <<>> /\ r.header = <<>> /\ r.count = <<>>
        /\ r.disc = <<>> /\ r.botDiv = <<>> /\ r.foot = <<>>
    BY LeftLast DEF Names
  <2>3. Len(r.dir) \in Nat
    BY <2>1 DEF Agentless, Names
  <2>4. /\ Len(r.topDiv) = 1 /\ Len(r.top) = 0 /\ Len(r.header) = 0 /\ Len(r.count) = 0
        /\ Len(r.disc) = 0 /\ Len(r.botDiv) = 0 /\ Len(r.foot) = 0
    BY <1>1, <2>2
  <2> HIDE DEF r
  <2>5. Sizes(r, Names) = Len(r.top) + Len(r.header) + Len(r.dir) + Len(r.count)
                            + Len(r.disc) + Len(r.topDiv) + Len(r.botDiv) + Len(r.foot)
    BY <2>1, SizesOf
  <2>6. Sizes(r, Names) = 1 + Len(r.dir)
    BY <2>3, <2>4, <2>5
  <2> QED BY <2>6 DEF r
<1>3. Len(Left(Parts(s), 7).dir) = 0
  BY <1>1, LeftLast
<1>4. Len(Left(Parts(s), 6).dir) <= 1
  <2>0. \A x : x = 0 \/ x = 1 => x <= 1
    OBVIOUS
  <2>1. \/ Left(Parts(s), 6).dir = lines("dir", 1)
        \/ Left(Parts(s), 6).dir = <<>>
    BY LeftLast, PartsOf
  <2>2. CASE Left(Parts(s), 6).dir = lines("dir", 1)
    <3>1. Len(Left(Parts(s), 6).dir) = 1
      BY <1>1, <2>2
    <3> QED BY <2>0, <3>1, Zenon
  <2>3. CASE Left(Parts(s), 6).dir = <<>>
    <3>1. Len(Left(Parts(s), 6).dir) = 0
      BY <1>1, <2>3
    <3> QED BY <2>0, <3>1, Zenon
  <2> QED BY <2>1, <2>2, <2>3
<1> QED BY <1>2, <1>3, <1>4

-----------------------------------------------------------------------------
(* The rows, and those of them that are drawn.                             *)

AgentRow(a) == <<"agent", a>>

\* Without the picker the rows are per lines for each agent, in order.
LEMMA RowsOf ==
  ASSUME NEW s \in Screen, Themes \in Nat
  PROVE  /\ Rows(s).per \in {1, 3} /\ Rows(s).rows \in Seq(Line)
         /\ s.mode # "theme" =>
              /\ Len(Rows(s).rows) = Rows(s).per * s.agents
              /\ \A i \in 1 .. Len(Rows(s).rows) :
                   Rows(s).rows[i] = AgentRow((i - 1) \div Rows(s).per)
<1>1. s.agents \in Nat
  BY DEF Screen
<1>2. /\ shortRows(s) \in Seq(Line) /\ Len(shortRows(s)) = s.agents
      /\ \A i \in 1 .. s.agents : shortRows(s)[i] = AgentRow(i - 1)
  <2>1. \A i \in 1 .. s.agents : <<"agent", i - 1>> \in Line
    BY <1>1 DEF Line, Kind
  <2> QED BY <1>1, <2>1 DEF shortRows, AgentRow
<1>3. /\ tallRows(s) \in Seq(Line) /\ Len(tallRows(s)) = 3 * s.agents
      /\ \A i \in 1 .. 3 * s.agents : tallRows(s)[i] = AgentRow((i - 1) \div 3)
  <2>1. \A i \in 1 .. 3 * s.agents : (i - 1) \div 3 \in Nat
    BY <1>1
  <2>2. \A i \in 1 .. 3 * s.agents : <<"agent", (i - 1) \div 3>> \in Line
    BY <2>1 DEF Line, Kind
  <2>3. 3 * s.agents \in Nat
    BY <1>1
  <2> QED BY <2>2, <2>3 DEF tallRows, AgentRow
<1>4. renderThemePicker(s) \in Seq(Line)
  <2>1. lines("title", 1) \in Seq(Line) /\ lines("hint", 1) \in Seq(Line)
    BY LinesOf DEF Kind
  <2>2. [i \in 1 .. Themes |-> <<"theme", i - 1>>] \in Seq(Line)
    <3>1. \A i \in 1 .. Themes : <<"theme", i - 1>> \in Line
      BY DEF Line, Kind
    <3> QED BY <3>1
  <2> QED BY <2>1, <2>2, LenCat DEF renderThemePicker
<1>5. CASE Short(s)
  <2>1. Rows(s).rows = shortRows(s) /\ Rows(s).per = 1
    BY <1>5 DEF Rows
  <2>2. 1 * s.agents = s.agents /\ \A i \in 1 .. s.agents : (i - 1) \div 1 = i - 1
    BY <1>1
  <2> QED BY <1>2, <2>1, <2>2
<1>6. CASE ~Short(s) /\ s.mode = "theme"
  <2>1. Rows(s).rows = renderThemePicker(s) /\ Rows(s).per = 1
    BY <1>6 DEF Rows
  <2> QED BY <1>4, <1>6, <2>1
<1>7. CASE ~Short(s) /\ s.mode # "theme"
  <2>1. Rows(s).rows = tallRows(s) /\ Rows(s).per = 3
    BY <1>7 DEF Rows
  <2> QED BY <1>3, <2>1
<1> QED BY <1>5, <1>6, <1>7

LEMMA DetailOf ==
  ASSUME NEW s \in Screen
  PROVE  /\ detail(s) \in Seq(Line) /\ Agentless(detail(s))
         /\ Chosen(s) => detail(s)[1] = <<"detail", 1>> /\ Len(detail(s)) = 6
         /\ ~Chosen(s) => Len(detail(s)) = 0
<1>1. "detail" \in Kind /\ "detail" # "agent"
  BY DEF Kind
<1>2. /\ lines("detail", 6) \in Seq(Line) /\ Len(lines("detail", 6)) = 6
      /\ lines("detail", 6)[1] = <<"detail", 1>>
  <2>1. lines("detail", 6) \in Seq(Line) /\ Len(lines("detail", 6)) = 6
    BY <1>1, LinesOf
  <2>2. \A i \in 1 .. 6 : lines("detail", 6)[i] = <<"detail", i>>
    BY <1>1, LinesOf
  <2>3. 1 \in 1 .. 6
    OBVIOUS
  <2> QED BY <2>1, <2>2, <2>3
<1>3. Agentless(lines("detail", 6))
  BY <1>1, AgentlessOf
<1>4. CASE Chosen(s)
  BY <1>2, <1>3, <1>4 DEF detail, when
<1>5. CASE ~Chosen(s)
  BY <1>5, EmptyAgentless DEF detail, when
<1> QED BY <1>4, <1>5

\* What per groups of lines are: n of them, of which the first q \div per fit into q.
LEMMA Groups ==
  ASSUME NEW per \in {1, 3}, NEW q \in Nat
  PROVE  /\ q \div per \in Nat /\ (q \div per) * per <= q
         /\ q >= per => q \div per >= 1
         /\ \A n \in Nat : (per * n) \div per = n
<1>1. CASE per = 1
  BY <1>1
<1>2. CASE per = 3
  BY <1>2
<1> QED BY <1>1, <1>2

\* How many of n groups of per lines are clipped to target lines, and which is first.
Fitting(n, target, per) == Min({Max({0, target}) \div per, n})

StartAt(n, cursor, t) == IF t = 0 \/ t = n THEN 0 ELSE clipStart(n, cursor, t)

LEMMA FittingOf ==
  ASSUME NEW n \in Nat, NEW target \in Int, NEW per \in {1, 3}
  PROVE  LET q == IF target >= 0 THEN target ELSE 0
         IN  /\ Max({0, target}) = q
             /\ q \div per \in Nat /\ (q \div per) * per <= q
             /\ Fitting(n, target, per) = IF q \div per <= n THEN q \div per ELSE n
<1> DEFINE q == IF target >= 0 THEN target ELSE 0
           g == q \div per
<1>1. q \in Nat /\ Max({0, target}) = q
  BY MaxOf
<1> HIDE DEF q
<1>2. g \in Nat /\ g * per <= q
  BY <1>1, Groups
<1>3. Fitting(n, target, per) = Min({g, n})
  BY <1>1 DEF Fitting
<1> HIDE DEF g
<1>4. Fitting(n, target, per) = IF g <= n THEN g ELSE n
  BY <1>2, <1>3, MinOf
<1> QED BY <1>1, <1>2, <1>4 DEF q, g

LEMMA StartOf ==
  ASSUME NEW n \in Nat, NEW cursor \in Nat, NEW t \in Nat, t <= n
  PROVE  /\ clipStart(n, cursor, t) \in Nat
         /\ clipStart(n, cursor, t)
              = IF cursor < t THEN 0
                ELSE IF cursor < n THEN cursor - t + 1 ELSE n - t
<1>1. n - t \in Int /\ cursor - t + 1 \in Int
  OBVIOUS
<1> DEFINE m == Min({n - t, cursor - t + 1})
<1>2. m = IF n - t <= cursor - t + 1 THEN n - t ELSE cursor - t + 1
  BY <1>1, MinOf
<1> HIDE DEF m
<1>3. m \in Int
  BY <1>1, <1>2
<1>4. Max({0, m}) = IF 0 >= m THEN 0 ELSE m
  BY <1>3, MaxOf
<1>5. clipStart(n, cursor, t) = IF 0 >= m THEN 0 ELSE m
  BY <1>4 DEF clipStart, m
<1> QED BY <1>2, <1>3, <1>5

\* The clipped rows are t whole groups of n, from the start-th on: as many as the
\* target has room for, and the selected one.
IsWindow(c, ls, cursor, target, per, t, start) ==
  /\ c.start = start
  /\ c.rows = SubSeq(ls, start * per + 1, (start + t) * per)
  /\ t = Fitting(Len(ls) \div per, target, per)
  /\ start = StartAt(Len(ls) \div per, cursor, t)
  /\ start + t <= Len(ls) \div per
  /\ t * per <= Max({0, target})
  /\ Len(ls) \div per > 0 /\ target >= per => t >= 1
  /\ t >= 1 /\ cursor < Len(ls) \div per => start <= cursor /\ cursor < start + t

LEMMA ClipOf ==
  ASSUME NEW ls \in Seq(Line), NEW cursor \in Nat, NEW target \in Int, NEW per \in {1, 3}
  PROVE  \E t \in Nat, start \in Nat :
           IsWindow(clipAgents(ls, cursor, target, per), ls, cursor, target, per, t, start)
<1> DEFINE n == Len(ls) \div per
           q == IF target >= 0 THEN target ELSE 0
           t == Fitting(n, target, per)
           start == StartAt(n, cursor, t)
<1>1. n \in Nat
  BY Groups
<1> HIDE DEF n
<1>2. /\ Max({0, target}) = q /\ q \div per \in Nat /\ (q \div per) * per <= q
      /\ t = IF q \div per <= n THEN q \div per ELSE n
  BY <1>1, FittingOf
<1>3. q \in Nat /\ (target >= per => q = target)
  OBVIOUS
<1> HIDE DEF q, t
<1>4. q >= per => q \div per >= 1
  BY <1>3, Groups
<1>5. t \in Nat /\ t <= n /\ t <= q \div per
  BY <1>1, <1>2
<1>6. t * per <= q
  <2>1. CASE per = 1
    BY <1>2, <1>3, <1>5, <2>1
  <2>2. CASE per = 3
    BY <1>2, <1>3, <1>5, <2>2
  <2> QED BY <2>1, <2>2
<1>7. n > 0 /\ target >= per => t >= 1
  BY <1>1, <1>2, <1>3, <1>4
<1> DEFINE clipped == clipStart(n, cursor, t)
<1>8. /\ clipped \in Nat
      /\ clipped = IF cursor < t THEN 0 ELSE IF cursor < n THEN cursor - t + 1 ELSE n - t
  BY <1>1, <1>5, StartOf
<1>9. /\ start \in Nat /\ start + t <= n
      /\ t >= 1 /\ cursor < n => start <= cursor /\ cursor < start + t
  <2>1. start = IF t = 0 \/ t = n THEN 0 ELSE clipped
    BY DEF StartAt
  <2> HIDE DEF start, clipped
  <2> QED BY <1>1, <1>5, <1>8, <2>1
<1> DEFINE clip == clipAgents(ls, cursor, target, per)
<1>10. clip.start = start /\ clip.rows = SubSeq(ls, start * per + 1, (start + t) * per)
  <2>1. clipAgents(ls, cursor, target, per) =
          IF t = 0 THEN [rows |-> <<>>, start |-> 0]
          ELSE [rows |-> SubSeq(ls, (IF t = n THEN 0 ELSE clipStart(n, cursor, t)) * per + 1,
                                ((IF t = n THEN 0 ELSE clipStart(n, cursor, t)) + t) * per),
                start |-> IF t = n THEN 0 ELSE clipStart(n, cursor, t)]
    BY DEF clipAgents, Fitting, n, t
  <2>2. CASE t = 0
    <3>1. start = 0 /\ clipAgents(ls, cursor, target, per) = [rows |-> <<>>, start |-> 0]
      BY <2>1, <2>2 DEF StartAt
    <3>2. start * per + 1 = 1 /\ (start + t) * per = 0
      BY <2>2, <3>1
    <3>3. SubSeq(ls, 1, 0) = <<>>
      OBVIOUS
    <3> QED BY <3>1, <3>2, <3>3
  <2>3. CASE t # 0
    <3>1. start = IF t = n THEN 0 ELSE clipStart(n, cursor, t)
      BY <2>3 DEF StartAt
    <3>2. clipAgents(ls, cursor, target, per) =
            [rows |-> SubSeq(ls, start * per + 1, (start + t) * per), start |-> start]
      BY <2>1, <2>3, <3>1, Zenon
    <3> HIDE DEF start
    <3> DEFINE sub == SubSeq(ls, start * per + 1, (start + t) * per)
               c == clipAgents(ls, cursor, target, per)
    <3>3. c = [rows |-> sub, start |-> start]
      BY <3>2
    <3> HIDE DEF sub, c
    <3>4. c.start = start /\ c.rows = sub
      BY <3>3
    <3> QED BY <3>4 DEF sub, c
  <2> QED BY <2>2, <2>3
<1> HIDE DEF start, clip
<1>11. IsWindow(clip, ls, cursor, target, per, t, start)
  BY <1>2, <1>6, <1>7, <1>9, <1>10 DEF IsWindow, n, t, start
<1> QED BY <1>5, <1>9, <1>11 DEF clip

-----------------------------------------------------------------------------
(* The steps of layoutDrop.                                                *)

LEMMA MinStep ==
  ASSUME NEW S, S \subseteq 0 .. 7, 7 \in S
  PROVE  Min(S) \in S /\ \A y \in S : Min(S) <= y
<1>1. \E x \in S : \A y \in S : x <= y
  <2>1. \A y \in S : y \in {0, 1, 2, 3, 4, 5, 6, 7}
    OBVIOUS
  <2>2. CASE 0 \in S
    BY <2>1, <2>2
  <2>3. CASE 0 \notin S /\ 1 \in S
    BY <2>1, <2>3
  <2>4. CASE 0 \notin S /\ 1 \notin S /\ 2 \in S
    BY <2>1, <2>4
  <2>5. CASE 0 \notin S /\ 1 \notin S /\ 2 \notin S /\ 3 \in S
    BY <2>1, <2>5
  <2>6. CASE 0 \notin S /\ 1 \notin S /\ 2 \notin S /\ 3 \notin S /\ 4 \in S
    BY <2>1, <2>6
  <2>7. CASE 0 \notin S /\ 1 \notin S /\ 2 \notin S /\ 3 \notin S /\ 4 \notin S /\ 5 \in S
    BY <2>1, <2>7
  <2>8. CASE /\ 0 \notin S /\ 1 \notin S /\ 2 \notin S /\ 3 \notin S /\ 4 \notin S
             /\ 5 \notin S /\ 6 \in S
    BY <2>1, <2>8
  <2>9. CASE /\ 0 \notin S /\ 1 \notin S /\ 2 \notin S /\ 3 \notin S /\ 4 \notin S
             /\ 5 \notin S /\ 6 \notin S
    BY <2>1, <2>9
  <2> QED BY <2>2, <2>3, <2>4, <2>5, <2>6, <2>7, <2>8, <2>9
<1> QED BY <1>1 DEF Min

\* The lines that are drawn after k steps.
Total(s, k) ==
  Sizes(Left(Parts(s), k), Names)
    + Len(Rows(s).rows) + Len(detail(s))

Taken(s) == Steps(s, Parts(s), Rows(s).rows)

\* The first step after which all fits; the seventh, if nothing else does.
LEMMA StepsOf ==
  ASSUME NEW s \in Screen, s.height > 0
  PROVE  /\ Taken(s) \in 0 .. 7
         /\ Taken(s) # 7 => Total(s, Taken(s)) <= s.height
         /\ \A k \in 0 .. 6 : Total(s, k) <= s.height => Taken(s) <= k
<1> DEFINE S == {7} \cup {k \in 0 .. 6 : Total(s, k) <= s.height}
<1>1. Taken(s) = Min(S)
  <2>1. DOMAIN Parts(s) = Names
    BY PartsOf
  <2>2. s.height # 0
    BY DEF Screen
  <2>3. S = {7} \cup {k \in 0 .. 6 :
                        Sizes(Left(Parts(s), k), DOMAIN Parts(s))
                          + Len(Rows(s).rows) + Len(detail(s)) <= s.height}
    BY <2>1 DEF Total
  <2> QED BY <2>2, <2>3 DEF Taken, Steps
<1>2. S \subseteq 0 .. 7 /\ 7 \in S
  OBVIOUS
<1>3. Min(S) \in S /\ \A y \in S : Min(S) <= y
  <2> HIDE DEF S
  <2> QED BY <1>2, MinStep
<1> QED BY <1>1, <1>2, <1>3

-----------------------------------------------------------------------------
(* Sequences of lines that show an agent.                                  *)

\* In a the last line of agent x, and the details right below if e.
Shows(a, x, e) ==
  /\ a \in Seq(Line)
  /\ \E m \in 1 .. Len(a) :
       /\ a[m] = AgentRow(x)
       /\ \A j \in 1 .. Len(a) : a[j] = AgentRow(x) => j <= m
       /\ e => m + 1 <= Len(a) /\ a[m + 1] = <<"detail", 1>>

LEMMA ShowsAfter ==
  ASSUME NEW a, NEW b, NEW x, NEW e \in BOOLEAN, Agentless(a), Shows(b, x, e)
  PROVE  Shows(a \o b, x, e)
<1>1. a \in Seq(Line) /\ b \in Seq(Line)
  BY DEF Agentless, Shows
<1>2. PICK m \in 1 .. Len(b) :
        /\ b[m] = AgentRow(x)
        /\ \A j \in 1 .. Len(b) : b[j] = AgentRow(x) => j <= m
        /\ e => m + 1 <= Len(b) /\ b[m + 1] = <<"detail", 1>>
  BY DEF Shows
<1> DEFINE p == Len(a) + m
<1>3. a \o b \in Seq(Line) /\ Len(a \o b) = Len(a) + Len(b)
  BY <1>1
<1>4. p \in 1 .. Len(a \o b) /\ (a \o b)[p] = AgentRow(x)
  BY <1>1, <1>2, <1>3
<1>5. ASSUME NEW j \in 1 .. Len(a \o b), (a \o b)[j] = AgentRow(x) PROVE j <= p
  <2>1. CASE j <= Len(a)
    BY <1>1, <1>2, <2>1
  <2>2. CASE j > Len(a)
    BY <1>1, <1>2, <1>3, <1>5, <2>2
  <2> QED BY <1>1, <1>3, <2>1, <2>2
<1>6. e => p + 1 <= Len(a \o b) /\ (a \o b)[p + 1] = <<"detail", 1>>
  BY <1>1, <1>2, <1>3
<1> HIDE DEF p
<1> QED BY <1>3, <1>4, <1>5, <1>6 DEF Shows

LEMMA ShowsBefore ==
  ASSUME NEW a, NEW b, NEW x, NEW e \in BOOLEAN, Shows(a, x, e), Agentless(b)
  PROVE  Shows(a \o b, x, e)
<1>1. a \in Seq(Line) /\ b \in Seq(Line)
  BY DEF Agentless, Shows
<1>2. PICK m \in 1 .. Len(a) :
        /\ a[m] = AgentRow(x)
        /\ \A j \in 1 .. Len(a) : a[j] = AgentRow(x) => j <= m
        /\ e => m + 1 <= Len(a) /\ a[m + 1] = <<"detail", 1>>
  BY DEF Shows
<1>3. a \o b \in Seq(Line) /\ Len(a \o b) = Len(a) + Len(b)
  BY <1>1
<1>4. m \in 1 .. Len(a \o b) /\ (a \o b)[m] = AgentRow(x)
  BY <1>1, <1>2, <1>3
<1>5. ASSUME NEW j \in 1 .. Len(a \o b), (a \o b)[j] = AgentRow(x) PROVE j <= m
  <2>1. CASE j <= Len(a)
    BY <1>1, <1>2, <1>3, <1>5, <2>1
  <2>2. CASE j > Len(a)
    <3>1. j - Len(a) \in DOMAIN b /\ (a \o b)[j] = b[j - Len(a)]
      BY <1>1, <1>3, <2>2
    <3>2. b[j - Len(a)][1] # "agent"
      BY <3>1 DEF Agentless
    <3>3. AgentRow(x)[1] = "agent"
      BY DEF AgentRow
    <3> QED BY <1>5, <3>1, <3>2, <3>3
  <2> QED BY <1>1, <1>3, <2>1, <2>2
<1>6. e => m + 1 <= Len(a \o b) /\ (a \o b)[m + 1] = <<"detail", 1>>
  BY <1>1, <1>2, <1>3
<1> QED BY <1>3, <1>4, <1>5, <1>6 DEF Shows

LEMMA InsertOf ==
  ASSUME NEW ls \in Seq(Line), NEW d \in Seq(Line), NEW at \in Int
  PROVE  LET b == insertDetails(ls, d, at)
         IN  /\ b \in Seq(Line) /\ Len(b) = Len(ls) + Len(d)
             /\ at \in 0 .. Len(ls) =>
                  /\ \A j \in 1 .. at : b[j] = ls[j]
                  /\ \A j \in 1 .. Len(d) : b[at + j] = d[j]
                  /\ \A j \in at + 1 .. Len(ls) : b[Len(d) + j] = ls[j]
<1> DEFINE i == Max({0, Min({Len(ls), at})})
           u == SubSeq(ls, 1, i)
           v == SubSeq(ls, i + 1, Len(ls))
<1>1. i \in 0 .. Len(ls) /\ (at \in 0 .. Len(ls) => i = at)
  <2>1. Len(ls) \in Nat
    OBVIOUS
  <2>2. Min({Len(ls), at}) = IF Len(ls) <= at THEN Len(ls) ELSE at
    BY <2>1, MinOf
  <2> DEFINE n == Min({Len(ls), at})
  <2>3. n \in Int
    BY <2>1, <2>2
  <2>4. n = IF Len(ls) <= at THEN Len(ls) ELSE at
    BY <2>2
  <2> HIDE DEF n
  <2>5. Max({0, n}) = IF 0 >= n THEN 0 ELSE n
    BY <2>3, MaxOf
  <2>6. Max({0, n}) \in 0 .. Len(ls) /\ (at \in 0 .. Len(ls) => Max({0, n}) = at)
    BY <2>1, <2>3, <2>4, <2>5
  <2> QED BY <2>6 DEF n
<1>2. insertDetails(ls, d, at) = (u \o d) \o v
  BY DEF insertDetails
<1> HIDE DEF i
<1>3. u \in Seq(Line) /\ Len(u) = i /\ \A j \in 1 .. i : u[j] = ls[j]
  BY <1>1
<1>4. /\ v \in Seq(Line) /\ Len(v) = Len(ls) - i
      /\ \A j \in 1 .. Len(ls) - i : v[j] = ls[i + j]
  BY <1>1
<1> HIDE DEF u, v
<1>5. u \o d \in Seq(Line) /\ Len(u \o d) = i + Len(d)
  <2>1. u \o d \in Seq(Line) /\ Len(u \o d) = Len(u) + Len(d)
    BY <1>3, LenCat
  <2> QED BY <1>3, <2>1
<1> DEFINE b == (u \o d) \o v
<1>6. b \in Seq(Line) /\ Len(b) = Len(ls) + Len(d)
  <2>1. b \in Seq(Line) /\ Len(b) = Len(u \o d) + Len(v)
    BY <1>4, <1>5, LenCat
  <2> HIDE DEF b
  <2>2. Len(b) = (i + Len(d)) + (Len(ls) - i)
    BY <1>4, <1>5, <2>1
  <2>3. i \in Nat /\ Len(d) \in Nat /\ Len(ls) \in Nat
    BY <1>1
  <2> QED BY <2>1, <2>2, <2>3
<1>7. ASSUME at \in 0 .. Len(ls)
      PROVE  /\ \A j \in 1 .. at : b[j] = ls[j]
             /\ \A j \in 1 .. Len(d) : b[at + j] = d[j]
             /\ \A j \in at + 1 .. Len(ls) : b[Len(d) + j] = ls[j]
  <2>1. i = at /\ at \in Nat /\ Len(d) \in Nat
    BY <1>1, <1>7
  <2>2. \A j \in 1 .. at + Len(d) : b[j] = (u \o d)[j]
    BY <1>4, <1>5, <2>1
  <2>3. \A j \in 1 .. at : b[j] = ls[j]
    BY <1>3, <2>1, <2>2
  <2>4. \A j \in 1 .. Len(d) : b[at + j] = d[j]
    BY <1>3, <2>1, <2>2
  <2>5. ASSUME NEW j \in at + 1 .. Len(ls) PROVE b[Len(d) + j] = ls[j]
    <3>1. Len(d) + j \in Len(u \o d) + 1 .. Len(u \o d) + Len(v)
      BY <1>4, <1>5, <2>1
    <3>2. b[Len(d) + j] = v[j - at]
      BY <1>4, <1>5, <2>1, <3>1
    <3>3. j - at \in 1 .. Len(ls) - i /\ i + (j - at) = j
      BY <2>1
    <3> QED BY <1>4, <3>2, <3>3
  <2> QED BY <2>3, <2>4, <2>5
<1> HIDE DEF b
<1> QED BY <1>2, <1>6, <1>7 DEF b

\* What stands above and below the body shows no agent.
LEMMA AssembleOf ==
  ASSUME NEW s \in Screen, NEW r, NEW body \in Seq(Line),
         DOMAIN r = Names, \A p \in Names : Agentless(r[p])
  PROVE  /\ Len(Assemble(s, r, body))
              = Sizes(r, Names) + Len(body)
                  + Max({0, s.height - Sizes(r, Names) - Len(body)})
         /\ \A x : \A e \in BOOLEAN : Shows(body, x, e) => Shows(Assemble(s, r, body), x, e)
<1> DEFINE f == Max({0, s.height - Sizes(r, Names) - Len(body)})
           filler == lines("filler", f)
           h1 == r.top \o r.header
           h2 == h1 \o r.dir
           h3 == h2 \o r.count
           h4 == h3 \o r.disc
           pre == h4 \o r.topDiv
           v1 == pre \o body
           v2 == v1 \o filler
           v3 == v2 \o r.botDiv
           v4 == v3 \o r.foot
<1>1. /\ Agentless(r.top) /\ Agentless(r.header) /\ Agentless(r.dir) /\ Agentless(r.count)
      /\ Agentless(r.disc) /\ Agentless(r.topDiv) /\ Agentless(r.botDiv) /\ Agentless(r.foot)
  BY DEF Names
<1>2. Sizes(r, Names) \in Nat
  BY SizesOf
<1>3. f \in Nat
  <2> DEFINE m == s.height - Sizes(r, Names) - Len(body)
  <2>1. m \in Int
    BY <1>2 DEF Screen
  <2> HIDE DEF m
  <2>2. Max({0, m}) \in Nat
    BY <2>1, MaxOf
  <2> QED BY <2>2 DEF m
<1>4. Agentless(filler) /\ Len(filler) = f
  <2>1. "filler" \in Kind /\ "filler" # "agent"
    BY DEF Kind
  <2> HIDE DEF f
  <2> QED BY <1>3, <2>1, AgentlessOf, LinesOf
<1>5. Assemble(s, r, body) = v4
  BY DEF Assemble
<1> HIDE DEF f, filler
<1>6. /\ Agentless(h1) /\ Len(h1) = Len(r.top) + Len(r.header)
  BY <1>1, AgentlessCat, LenCat DEF Agentless
<1> HIDE DEF h1
<1>7. /\ Agentless(h2) /\ Len(h2) = Len(h1) + Len(r.dir)
  BY <1>1, <1>6, AgentlessCat, LenCat DEF Agentless
<1> HIDE DEF h2
<1>8. /\ Agentless(h3) /\ Len(h3) = Len(h2) + Len(r.count)
  BY <1>1, <1>7, AgentlessCat, LenCat DEF Agentless
<1> HIDE DEF h3
<1>9. /\ Agentless(h4) /\ Len(h4) = Len(h3) + Len(r.disc)
  BY <1>1, <1>8, AgentlessCat, LenCat DEF Agentless
<1> HIDE DEF h4
<1>10. /\ Agentless(pre) /\ Len(pre) = Len(h4) + Len(r.topDiv)
  BY <1>1, <1>9, AgentlessCat, LenCat DEF Agentless
<1> HIDE DEF pre
<1>11. v1 \in Seq(Line) /\ Len(v1) = Len(pre) + Len(body)
  BY <1>10, LenCat DEF Agentless
<1>12. v2 \in Seq(Line) /\ Len(v2) = Len(v1) + f
  <2> HIDE DEF v1
  <2> QED BY <1>4, <1>11, LenCat DEF Agentless
<1>13. v3 \in Seq(Line) /\ Len(v3) = Len(v2) + Len(r.botDiv)
  <2> HIDE DEF v2
  <2> QED BY <1>1, <1>12, LenCat DEF Agentless
<1>14. v4 \in Seq(Line) /\ Len(v4) = Len(v3) + Len(r.foot)
  <2> HIDE DEF v3
  <2> QED BY <1>1, <1>13, LenCat DEF Agentless
<1>15. Len(v4) = Sizes(r, Names) + Len(body) + f
  <2> DEFINE n1 == Len(r.top)
             n2 == Len(r.header)
             n3 == Len(r.dir)
             n4 == Len(r.count)
             n5 == Len(r.disc)
             n6 == Len(r.topDiv)
             n7 == Len(r.botDiv)
             n8 == Len(r.foot)
             n9 == Len(body)
             total == Len(v4)
  <2>1. /\ n1 \in Nat /\ n2 \in Nat /\ n3 \in Nat /\ n4 \in Nat /\ n5 \in Nat /\ n6 \in Nat
        /\ n7 \in Nat /\ n8 \in Nat /\ n9 \in Nat
    BY <1>1, SMTT(20) DEF Agentless
  <2>2. Sizes(r, Names) = n1 + n2 + n3 + n4 + n5 + n6 + n7 + n8
    BY SizesOf
  <2>3. total = ((((((((n1 + n2) + n3) + n4) + n5) + n6) + n9) + f) + n7) + n8
    <3> HIDE DEF v1, v2, v3, v4
    <3> QED BY <1>6, <1>7, <1>8, <1>9, <1>10, <1>11, <1>12, <1>13, <1>14
  <2> HIDE DEF n1, n2, n3, n4, n5, n6, n7, n8, n9, total
  <2>4. total = Sizes(r, Names) + n9 + f
    BY <1>3, <2>1, <2>2, <2>3
  <2> QED BY <2>4 DEF total, n9
<1>16. ASSUME NEW x, NEW e \in BOOLEAN, Shows(body, x, e) PROVE Shows(v4, x, e)
  <2>1. Shows(v1, x, e)
    BY <1>10, <1>16, ShowsAfter
  <2> HIDE DEF v1
  <2>2. Shows(v2, x, e)
    BY <1>4, <2>1, ShowsBefore
  <2> HIDE DEF v2
  <2>3. Shows(v3, x, e)
    BY <1>1, <2>2, ShowsBefore
  <2> HIDE DEF v3
  <2> QED BY <1>1, <2>3, ShowsBefore
<1> HIDE DEF v4
<1> QED BY <1>5, <1>15, <1>16 DEF f

-----------------------------------------------------------------------------
(* The view of a screen of known height.                                   *)

Rest(s) == Left(Parts(s), Taken(s))

\* The clipped rows are a window of whole agents that takes no more than the room
\* there is, and the body has the details besides.
LEMMA BodyOf ==
  ASSUME NEW s \in Screen, s.height > 0, NEW r, r = Rows(s),
         NEW c, c = Clipped(s, Rest(s), r)
  PROVE  \E t \in Nat, start \in Nat :
           /\ IsWindow(c, r.rows, s.selected, Room(s, Rest(s)), r.per, t, start)
           /\ Body(s, c, r.per)
                = insertDetails(c.rows, detail(s), (s.selected - start + 1) * r.per)
<1> DEFINE room == Room(s, Rest(s))
<1>1. r.rows \in Seq(Line) /\ r.per \in {1, 3}
  BY RowsOf, CountAssumption
<1>2. s.selected \in Nat /\ s.height \in Nat
  BY DEF Screen
<1>3. room \in Int
  <2>1. Taken(s) \in 0 .. 7
    BY StepsOf
  <2>2. DOMAIN Rest(s) = Names /\ \A p \in Names : Agentless(Rest(s)[p])
    BY <2>1, LeftAgentless DEF Rest
  <2>3. Sizes(Rest(s), Names) \in Nat
    BY <2>2, SizesOf
  <2>4. Len(detail(s)) \in Nat
    BY DetailOf
  <2> QED BY <1>2, <2>2, <2>3, <2>4 DEF Room
<1>4. c = clipAgents(r.rows, s.selected, room, r.per)
  BY <1>2 DEF Clipped
<1> HIDE DEF room
<1>5. PICK t \in Nat, start \in Nat :
        IsWindow(c, r.rows, s.selected, room, r.per, t, start)
  <2> DEFINE ls == r.rows
             per == r.per
             sel == s.selected
             clip == clipAgents(ls, sel, room, per)
  <2>1. ls \in Seq(Line) /\ per \in {1, 3} /\ sel \in Nat
    BY <1>1, <1>2
  <2> HIDE DEF ls, per, sel
  <2>2. \E t \in Nat, start \in Nat : IsWindow(clip, ls, sel, room, per, t, start)
    BY <1>3, <2>1, ClipOf
  <2> QED BY <1>4, <2>2 DEF ls, per, sel
<1>6. c.start = start
  BY <1>5 DEF IsWindow
<1>7. Body(s, c, r.per)
          = insertDetails(c.rows, detail(s), (s.selected - start + 1) * r.per)
  BY <1>6 DEF Body
<1> QED BY <1>5, <1>7 DEF room

\* The lines of t whole groups of rows, from the start-th on.
IsSlice(w, ls, per, t, start) ==
  /\ start + t <= Len(ls) \div per
  /\ w = SubSeq(ls, start * per + 1, (start + t) * per)

Sliced(w, ls, per, t, start) ==
  /\ w \in Seq(Line) /\ Len(w) = t * per
  /\ \A j \in 1 .. t * per :
       start * per + j \in 1 .. Len(ls) /\ w[j] = ls[start * per + j]

LEMMA SliceOf ==
  ASSUME NEW ls \in Seq(Line), NEW per \in {1, 3}, NEW t \in Nat, NEW start \in Nat,
         NEW w, IsSlice(w, ls, per, t, start)
  PROVE  Sliced(w, ls, per, t, start)
<1> USE DEF IsSlice
<1> DEFINE from == start * per
           to == (start + t) * per
<1>1. from \in Nat /\ to \in Nat /\ to <= Len(ls) /\ to - from = t * per /\ t * per \in Nat
  <2>1. Len(ls) \in Nat
    OBVIOUS
  <2> DEFINE n == Len(ls)
  <2>2. n \in Nat /\ start + t <= n \div per
    BY <2>1
  <2> HIDE DEF n
  <2>3. CASE per = 1
    <3>1. from \in Nat /\ to \in Nat /\ to <= n /\ to - from = t * per /\ t * per \in Nat
      BY <2>2, <2>3
    <3> QED BY <3>1 DEF n
  <2>4. CASE per = 3
    <3>1. from \in Nat /\ to \in Nat /\ to <= n /\ to - from = t * per /\ t * per \in Nat
      BY <2>2, <2>4
    <3> QED BY <3>1 DEF n
  <2> QED BY <2>3, <2>4
<1>0. w = SubSeq(ls, from + 1, to)
  OBVIOUS
<1> HIDE DEF from, to
<1>2. \A i \in from + 1 .. to : ls[i] \in Line
  BY <1>1
<1>3. /\ w \in Seq(Line)
      /\ Len(w) = IF from + 1 <= to THEN to - (from + 1) + 1 ELSE 0
      /\ \A i \in 1 .. to - (from + 1) + 1 : w[i] = ls[from + 1 + i - 1]
  <2>1. w \in Seq(Line)
    BY <1>0, <1>1, <1>2
  <2>2. Len(w) = IF from + 1 <= to THEN to - (from + 1) + 1 ELSE 0
    BY <1>0, <1>1
  <2>3. \A i \in 1 .. to - (from + 1) + 1 : w[i] = ls[from + 1 + i - 1]
    BY <1>0, <1>1
  <2> QED BY <2>1, <2>2, <2>3
<1>4. Len(w) = t * per
  BY <1>1, <1>3
<1>5. \A j \in 1 .. t * per : from + j \in 1 .. Len(ls) /\ w[j] = ls[from + j]
  BY <1>1, <1>3
<1> QED BY <1>3, <1>4, <1>5 DEF from, to, Sliced

LEMMA FitsView ==
  ASSUME NEW s \in Screen, ~Panics(s), s.height >= 1 + Len(detail(s))
  PROVE  Len(View(s)) = s.height
<1> DEFINE r == Rows(s)
           c == Clipped(s, Rest(s), r)
           h == s.height
           size == Sizes(Rest(s), Names)
           details == Len(detail(s))
           room == Room(s, Rest(s))
           body == Body(s, c, r.per)
<1>1. h \in Nat /\ details \in Nat /\ h >= 1 + details
  BY DetailOf DEF Screen
<1>2. s.height > 0 /\ Taken(s) \in 0 .. 7
  BY <1>1, StepsOf
<1>3. /\ DOMAIN Rest(s) = Names /\ \A p \in Names : Agentless(Rest(s)[p])
      /\ size \in Nat
  BY <1>2, LeftAgentless, SizesOf DEF Rest
<1>4. r.rows \in Seq(Line) /\ r.per \in {1, 3}
  BY RowsOf, CountAssumption
<1>5. room = h - size - details
  BY <1>3 DEF Room
<1>6. room >= 0
  <2>1. CASE Taken(s) # 7
    <3>1. size + Len(r.rows) + details <= h
      BY <1>2, <2>1, StepsOf DEF Total, Rest
    <3> HIDE DEF h, size, details, room, r
    <3> QED BY <1>1, <1>3, <1>4, <1>5, <3>1
  <2>2. CASE Taken(s) = 7
    <3>1. size = 1
      BY <2>2, LeftSizes DEF Rest
    <3> HIDE DEF h, size, details, room
    <3> QED BY <1>1, <1>5, <3>1
  <2> QED BY <2>1, <2>2
<1>7. PICK t \in Nat, start \in Nat :
        /\ IsWindow(c, r.rows, s.selected, room, r.per, t, start)
        /\ body = insertDetails(c.rows, detail(s), (s.selected - start + 1) * r.per)
  BY <1>2, BodyOf
<1>8. View(s) = Assemble(s, Rest(s), body)
  BY DEF View, Drawn, Rest, Taken
<1> HIDE DEF h, size, details, room, r, c, body
<1>9. c.rows \in Seq(Line) /\ Len(c.rows) = t * r.per /\ Len(c.rows) \in Nat
  <2>1. /\ start + t <= Len(r.rows) \div r.per
        /\ c.rows = SubSeq(r.rows, start * r.per + 1, (start + t) * r.per)
    BY <1>7 DEF IsWindow
  <2>2. c.rows \in Seq(Line) /\ Len(c.rows) = t * r.per
    <3> DEFINE ls == r.rows
               per == r.per
               w == c.rows
    <3>1. ls \in Seq(Line) /\ per \in {1, 3} /\ IsSlice(w, ls, per, t, start)
      BY <1>4, <2>1 DEF IsSlice
    <3> HIDE DEF ls, per, w
    <3>2. w \in Seq(Line) /\ Len(w) = t * per
      BY <3>1, SliceOf DEF Sliced
    <3> QED BY <3>2 DEF per, w
  <2> QED BY <2>2
<1>10. Len(c.rows) <= room
  <2>1. room \in Int /\ Max({0, room}) = room
    BY <1>1, <1>3, <1>5, <1>6, MaxOf
  <2>2. t * r.per <= Max({0, room})
    BY <1>7 DEF IsWindow
  <2> QED BY <1>9, <2>1, <2>2
<1>11. body \in Seq(Line) /\ Len(body) = Len(c.rows) + details
  <2>1. (s.selected - start + 1) * r.per \in Int
    BY <1>4 DEF Screen
  <2> DEFINE d == detail(s)
             at == (s.selected - start + 1) * r.per
             w == c.rows
  <2>2. d \in Seq(Line)
    BY DetailOf
  <2>3. body = insertDetails(w, d, at) /\ details = Len(d)
    BY <1>7 DEF details
  <2>4. w \in Seq(Line) /\ at \in Int
    BY <1>9, <2>1
  <2> HIDE DEF d, at, w
  <2>5. body \in Seq(Line) /\ Len(body) = Len(w) + Len(d)
    BY <2>2, <2>3, <2>4, InsertOf
  <2> QED BY <2>3, <2>5 DEF w
<1>12. Len(View(s)) = size + Len(body) + Max({0, h - size - Len(body)})
  BY <1>3, <1>8, <1>11, AssembleOf DEF h, size
<1> DEFINE n == Len(c.rows)
           m == Len(body)
           total == Len(View(s))
<1>13. n \in Nat /\ n <= room /\ m = n + details /\ total = size + m + Max({0, h - size - m})
  BY <1>9, <1>10, <1>11, <1>12
<1> HIDE DEF n, m, total
<1>14. m \in Nat /\ h - size - m \in Nat
  BY <1>1, <1>3, <1>5, <1>13
<1>15. Max({0, h - size - m}) = h - size - m
  BY <1>14, MaxOf
<1>16. total = h
  BY <1>1, <1>3, <1>13, <1>14, <1>15
<1> QED BY <1>16 DEF total, h

\* The view is as high as the terminal that has a line for the divider and the
\* details, whatever else there is no room for.
THEOREM ViewFits == LayoutSpec => []FitsHeight
<1>1. LayoutInit => ScreenInv
  BY DEF LayoutInit, ScreenInv, Screen
<1>2. ScreenInv /\ [LayoutNext]_layoutVars => ScreenInv'
  <2> SUFFICES ASSUME ScreenInv, [LayoutNext]_layoutVars PROVE ScreenInv'
    OBVIOUS
  <2>1. CASE LayoutNext
    BY <2>1, ScreenStep
  <2>2. CASE UNCHANGED layoutVars
    BY <2>2 DEF layoutVars, ScreenInv
  <2> QED BY <2>1, <2>2
<1>3. ScreenInv => FitsHeight
  BY FitsView DEF ScreenInv, FitsHeight
<1> QED BY <1>1, <1>2, <1>3, PTL DEF LayoutSpec

-----------------------------------------------------------------------------
(* The selected agent.                                                     *)

\* Details that go in below the selected agent of a window of rows stand below
\* its last line.
LEMMA BodyShows ==
  ASSUME NEW w \in Seq(Line), NEW d \in Seq(Line), NEW per \in {1, 3}, NEW e \in BOOLEAN,
         NEW t \in Nat, NEW start \in Nat, NEW sel \in Nat,
         start <= sel, sel < start + t, Len(w) = t * per,
         \A j \in 1 .. t * per : w[j] = AgentRow((start * per + j - 1) \div per),
         Agentless(d), e => Len(d) = 6 /\ d[1] = <<"detail", 1>>
  PROVE  Shows(insertDetails(w, d, (sel - start + 1) * per), sel, e)
<1> DEFINE at == (sel - start + 1) * per
           b == insertDetails(w, d, at)
           row(j) == (start * per + j - 1) \div per
           long == t * per
<1>1. /\ at \in Nat /\ long \in Nat /\ 1 <= at /\ at <= long /\ row(at) = sel
      /\ \A j \in at + 1 .. long : row(j) > sel
  <2>1. CASE per = 1
    BY <2>1
  <2>2. CASE per = 3
    BY <2>2
  <2> QED BY <2>1, <2>2
<1>2. Len(w) = long /\ \A j \in 1 .. long : w[j] = AgentRow(row(j))
  OBVIOUS
<1> HIDE DEF at, long, row
<1>3. at \in Int /\ at \in 0 .. Len(w)
  BY <1>1, <1>2
<1>4. /\ b \in Seq(Line) /\ Len(b) = Len(w) + Len(d)
      /\ \A j \in 1 .. at : b[j] = w[j]
      /\ \A j \in 1 .. Len(d) : b[at + j] = d[j]
      /\ \A j \in at + 1 .. Len(w) : b[Len(d) + j] = w[j]
  BY <1>3, InsertOf
<1> HIDE DEF b
<1> DEFINE n == Len(d)
<1>5. n \in Nat
  OBVIOUS
<1>6. Len(b) = long + n
  BY <1>2, <1>4
<1>7. at \in 1 .. Len(b) /\ b[at] = AgentRow(sel)
  <2>1. at \in 1 .. at /\ at \in 1 .. long
    BY <1>1
  <2>2. b[at] = AgentRow(row(at))
    BY <1>2, <1>4, <2>1
  <2>3. at \in 1 .. Len(b)
    <3> HIDE DEF n
    <3> QED BY <1>1, <1>5, <1>6
  <2> QED BY <1>1, <2>2, <2>3
<1>8. ASSUME NEW j \in 1 .. Len(b), b[j] = AgentRow(sel), j > at PROVE FALSE
  <2>1. CASE j <= at + n
    <3>1. j - at \in 1 .. Len(d) /\ at + (j - at) = j
      BY <1>1, <1>8, <2>1
    <3>2. b[j] = d[j - at]
      BY <1>4, <3>1
    <3>3. d[j - at][1] # "agent"
      BY <3>1 DEF Agentless
    <3> QED BY <1>8, <3>2, <3>3 DEF AgentRow
  <2>2. CASE j > at + n
    <3>1. j - n \in at + 1 .. long /\ n + (j - n) = j
      <4> HIDE DEF n
      <4> QED BY <1>1, <1>5, <1>6, <1>8, <2>2
    <3>2. b[j] = w[j - n] /\ j - n \in 1 .. long
      BY <1>1, <1>2, <1>4, <3>1
    <3>3. b[j] = AgentRow(row(j - n)) /\ row(j - n) > sel
      BY <1>1, <1>2, <3>1, <3>2
    <3>4. row(j - n) = sel
      BY <1>8, <3>3 DEF AgentRow
    <3> QED BY <3>3, <3>4
  <2>3. at + n \in Int /\ j \in Int
    BY <1>1, <1>5
  <2> HIDE DEF n
  <2> QED BY <2>1, <2>2, <2>3
<1>9. ASSUME NEW j \in 1 .. Len(b), b[j] = AgentRow(sel) PROVE j <= at
  BY <1>1, <1>8, <1>9
<1>10. ASSUME e PROVE at + 1 <= Len(b) /\ b[at + 1] = <<"detail", 1>>
  <2>1. n = 6 /\ d[1] = <<"detail", 1>> /\ 1 \in 1 .. Len(d)
    <3>1. Len(d) = 6 /\ d[1] = <<"detail", 1>>
      BY <1>10, Zenon
    <3>2. Len(d) = 6
      BY <3>1, Zenon
    <3>3. 1 \in 1 .. Len(d)
      BY <3>2
    <3> QED BY <3>1, <3>3, Zenon
  <2>2. b[at + 1] = d[1]
    BY <1>4, <2>1
  <2>3. at + 1 <= Len(b)
    BY <1>1, <1>6, <2>1
  <2> QED BY <2>1, <2>2, <2>3
<1>11. Shows(b, sel, e)
  BY <1>4, <1>7, <1>9, <1>10 DEF Shows
<1> QED BY <1>11 DEF b, at

\* With cards, all that View counts is there besides; the two blanks among it make
\* up for the directory, so that the sixth step is enough.
LEMMA CardsFit ==
  ASSUME NEW s \in Screen, s.height > 0, ~s.expanded, ~Short(s), s.mode # "theme"
  PROVE  Taken(s) # 7
<1> DEFINE P == Parts(s)
           cards == Len(tallRows(s))
           fixed == Sizes(P, Fixed)
           left == Sizes(Left(P, 6), Names)
<1>1. Rows(s).rows = tallRows(s)
  BY DEF Rows
<1>2. cards \in Nat /\ s.height \in Nat
  <2>1. tallRows(s) \in Seq(Line)
    BY <1>1, RowsOf, CountAssumption
  <2> QED BY <2>1 DEF Screen
<1>3. fixed \in Nat /\ fixed >= 2
  <2> DEFINE n1 == Len(P.top)
             n2 == Len(P.header)
             n4 == Len(P.count)
             n5 == Len(P.disc)
             n6 == Len(P.topDiv)
             n7 == Len(P.botDiv)
             n8 == Len(P.foot)
  <2>1. /\ Agentless(P.top) /\ Agentless(P.header) /\ Agentless(P.count) /\ Agentless(P.disc)
        /\ Agentless(P.topDiv) /\ Agentless(P.botDiv) /\ Agentless(P.foot)
    BY PartsAgentless DEF Names
  <2>2. /\ n1 \in Nat /\ n2 \in Nat /\ n4 \in Nat /\ n5 \in Nat /\ n6 \in Nat
        /\ n7 \in Nat /\ n8 \in Nat
    BY <2>1 DEF Agentless
  <2>3. n1 = 2
    <3>1. Len(lines("blank", 2)) = 2
      BY LinesOf DEF Kind
    <3>2. P.top = lines("blank", 2)
      BY PartsOf
    <3> QED BY <3>1, <3>2
  <2>4. fixed = n1 + n2 + 0 + n4 + n5 + n6 + n7 + n8
    BY DEF Sizes, Fixed
  <2> HIDE DEF n1, n2, n4, n5, n6, n7, n8, fixed
  <2> QED BY <2>2, <2>3, <2>4
<1>4. left \in Nat /\ left <= 2
  <2>1. left \in Nat
    <3>1. \A p \in Names : Agentless(Left(P, 6)[p])
      BY LeftAgentless
    <3> QED BY <3>1, SizesOf
  <2> QED BY <2>1, LeftSizes
<1>5. fixed + cards <= s.height
  <2>1. ~(fixed + cards > s.height)
    BY DEF Short
  <2> HIDE DEF fixed, cards
  <2> QED BY <1>2, <1>3, <2>1
<1>6. Len(detail(s)) = 0
  BY DetailOf DEF Chosen
<1>7. Total(s, 6) <= s.height
  <2>1. Total(s, 6) = left + cards + 0
    BY <1>1, <1>6 DEF Total
  <2> DEFINE total == Total(s, 6)
  <2>2. total = left + cards + 0
    BY <2>1
  <2> HIDE DEF left, cards, fixed, total
  <2>3. total <= s.height
    BY <1>2, <1>3, <1>4, <1>5, <2>2
  <2> QED BY <2>3 DEF total
<1>8. Taken(s) <= 6
  BY <1>7, StepsOf
<1> QED BY <1>8

LEMMA RoomForOne ==
  ASSUME NEW s \in Screen, s.mode # "theme", s.agents > 0, s.selected < s.agents,
         s.height >= IF s.expanded THEN 1 + 3 + 6 ELSE 1 + 1
  PROVE  Room(s, Rest(s)) >= Rows(s).per
<1> DEFINE h == s.height
           size == Sizes(Rest(s), Names)
           details == Len(detail(s))
           room == Room(s, Rest(s))
           per == Rows(s).per
           long == Len(Rows(s).rows)
           n == s.agents
<1>1. h \in Nat /\ n \in Nat /\ n > 0 /\ details \in Nat
  BY DetailOf DEF Screen
<1>2. s.height > 0 /\ Taken(s) \in 0 .. 7
  <2>1. s.height > 0
    BY DEF Screen
  <2> QED BY <2>1, StepsOf
<1>3. DOMAIN Rest(s) = Names /\ size \in Nat
  BY <1>2, LeftAgentless, SizesOf DEF Rest
<1>4. per \in {1, 3} /\ long = per * n
  BY RowsOf, CountAssumption
<1>5. room = h - size - details
  BY <1>3 DEF Room
<1>6. CASE Taken(s) # 7
  <2>1. size + long + details <= h
    BY <1>2, <1>6, StepsOf DEF Total, Rest
  <2>2. long \in Nat /\ long >= per
    <3> HIDE DEF long, per, n
    <3>1. CASE per = 1
      BY <1>1, <1>4, <3>1
    <3>2. CASE per = 3
      BY <1>1, <1>4, <3>2
    <3> QED BY <1>4, <3>1, <3>2
  <2>3. room >= per
    <3> HIDE DEF h, size, details, room, per, long, n
    <3> QED BY <1>1, <1>3, <1>4, <1>5, <2>1, <2>2
  <2> QED BY <2>3
<1>7. CASE Taken(s) = 7
  <2>1. size = 1
    BY <1>7, LeftSizes DEF Rest
  <2>2. CASE s.expanded
    <3>1. details = 6
      BY <2>2, DetailOf DEF Chosen
    <3>2. h >= 10
      BY <2>2
    <3>3. room >= per
      <4> HIDE DEF h, size, details, room, per
      <4> QED BY <1>1, <1>4, <1>5, <2>1, <3>1, <3>2
    <3> QED BY <3>3
  <2>3. CASE ~s.expanded
    <3>1. details = 0
      BY <2>3, DetailOf DEF Chosen
    <3>2. Short(s)
      BY <1>2, <1>7, <2>3, CardsFit
    <3>3. per = 1
      BY <3>2 DEF Rows
    <3>4. h >= 2
      BY <2>3
    <3>5. room >= per
      <4> HIDE DEF h, size, details, room, per
      <4> QED BY <1>1, <1>5, <2>1, <3>1, <3>3, <3>4
    <3> QED BY <3>5
  <2> QED BY <2>2, <2>3
<1> QED BY <1>6, <1>7

LEMMA SelectedView ==
  ASSUME NEW s \in Screen, ~Panics(s), s.mode # "theme", s.agents > 0,
         s.selected < s.agents, s.height >= IF s.expanded THEN 1 + 3 + 6 ELSE 1 + 1
  PROVE  Shows(View(s), s.selected, s.expanded)
<1> DEFINE r == Rows(s)
           ls == r.rows
           per == r.per
           n == s.agents
           sel == s.selected
           d == detail(s)
           c == Clipped(s, Rest(s), r)
           w == c.rows
           room == Room(s, Rest(s))
           body == Body(s, c, per)
<1>1. /\ n \in Nat /\ n > 0 /\ sel \in Nat /\ sel < n /\ s.expanded \in BOOLEAN
      /\ s.height > 0
  BY DEF Screen
<1>2. Taken(s) \in 0 .. 7
  BY <1>1, StepsOf
<1>3. DOMAIN Rest(s) = Names /\ \A p \in Names : Agentless(Rest(s)[p])
  BY <1>2, LeftAgentless DEF Rest
<1>4. /\ ls \in Seq(Line) /\ per \in {1, 3} /\ Len(ls) = per * n
      /\ \A i \in 1 .. Len(ls) : ls[i] = AgentRow((i - 1) \div per)
  BY RowsOf, CountAssumption
<1>5. room >= per
  BY RoomForOne
<1>6. PICK t \in Nat, start \in Nat :
        /\ IsWindow(c, ls, sel, room, per, t, start)
        /\ body = insertDetails(w, d, (sel - start + 1) * per)
  BY <1>1, BodyOf
<1>7. View(s) = Assemble(s, Rest(s), body)
  BY DEF View, Drawn, Rest, Taken
<1>8. /\ d \in Seq(Line) /\ Agentless(d)
      /\ s.expanded => Len(d) = 6 /\ d[1] = <<"detail", 1>>
  BY DetailOf DEF Chosen
<1> HIDE DEF r, ls, per, n, sel, d, c, w, room, body
<1>9. Len(ls) \div per = n
  <2>1. (per * n) \div per = n
    BY <1>1, <1>4, Groups
  <2> QED BY <1>4, <2>1
<1>10. /\ start + t <= n /\ w = SubSeq(ls, start * per + 1, (start + t) * per)
       /\ t >= 1 /\ start <= sel /\ sel < start + t
  BY <1>1, <1>5, <1>6, <1>9 DEF IsWindow, w
<1>11. /\ w \in Seq(Line) /\ Len(w) = t * per
       /\ \A j \in 1 .. t * per :
            start * per + j \in 1 .. Len(ls) /\ w[j] = ls[start * per + j]
  <2>1. ls \in Seq(Line) /\ per \in {1, 3} /\ IsSlice(w, ls, per, t, start)
    BY <1>4, <1>9, <1>10 DEF IsSlice
  <2>2. Sliced(w, ls, per, t, start)
    BY <2>1, SliceOf
  <2> QED BY <2>2 DEF Sliced
<1>12. \A j \in 1 .. t * per : w[j] = AgentRow((start * per + j - 1) \div per)
  BY <1>4, <1>11
<1>13. Shows(body, sel, s.expanded)
  <2> DEFINE e == s.expanded
  <2>1. e \in BOOLEAN /\ (e => Len(d) = 6 /\ d[1] = <<"detail", 1>>)
    BY <1>1, <1>8
  <2> HIDE DEF e
  <2>2. Shows(insertDetails(w, d, (sel - start + 1) * per), sel, e)
    <3>1. w \in Seq(Line) /\ d \in Seq(Line) /\ per \in {1, 3} /\ Agentless(d) /\ sel \in Nat
      BY <1>1, <1>4, <1>8, <1>11
    <3>2. start <= sel /\ sel < start + t /\ Len(w) = t * per
      BY <1>10, <1>11
    <3> QED BY <1>12, <2>1, <3>1, <3>2, BodyShows, Zenon
  <2> QED BY <1>6, <2>2 DEF e
<1>14. body \in Seq(Line)
  BY <1>13 DEF Shows
<1>15. Shows(Assemble(s, Rest(s), body), sel, s.expanded)
  <2> DEFINE r0 == Rest(s)
  <2>1. DOMAIN r0 = Names /\ \A p \in Names : Agentless(r0[p])
    BY <1>3
  <2> HIDE DEF r0
  <2>2. \A x : \A e \in BOOLEAN : Shows(body, x, e) => Shows(Assemble(s, r0, body), x, e)
    BY <1>14, <2>1, AssembleOf, Zenon
  <2> QED BY <1>1, <1>13, <2>2, Zenon DEF r0
<1> QED BY <1>7, <1>15 DEF sel

LEMMA MaxIs ==
  ASSUME NEW S \in SUBSET Int, NEW m \in S, \A j \in S : j <= m
  PROVE  Max(S) = m
<1>1. \E x \in S : \A y \in S : x >= y
  OBVIOUS
<1>2. Max(S) \in S /\ \A y \in S : Max(S) >= y
  BY <1>1 DEF Max
<1> DEFINE x == Max(S)
<1>3. x \in S /\ m >= x /\ x >= m
  BY <1>2
<1>4. x \in Int /\ m \in Int
  BY <1>3
<1> HIDE DEF x
<1>5. x = m
  BY <1>3, <1>4
<1> QED BY <1>5 DEF x

\* On a terminal with a line for it, the selected agent is on the screen, and its
\* details are right below it, whatever was dropped and however far the list was
\* scrolled.
THEOREM SelectionShown == LayoutSpec => []SelectedVisible
<1>1. ScreenInv => SelectedVisible
  <2> SUFFICES ASSUME ScreenInv, screen.mode # "theme", screen.agents > 0, ~Panics(screen),
                      screen.height >= IF screen.expanded THEN 1 + 3 + 6 ELSE 1 + 1
               PROVE  LET v == View(screen)
                          own == {i \in DOMAIN v : v[i] = <<"agent", screen.selected>>}
                      IN  own # {} /\ (screen.expanded => v[Max(own) + 1] = <<"detail", 1>>)
    BY DEF SelectedVisible
  <2> DEFINE v == View(screen)
             own == {i \in DOMAIN v : v[i] = <<"agent", screen.selected>>}
  <2>1. Shows(v, screen.selected, screen.expanded)
    BY SelectedView DEF ScreenInv
  <2> HIDE DEF v
  <2>2. PICK m \in 1 .. Len(v) :
          /\ v[m] = AgentRow(screen.selected)
          /\ \A j \in 1 .. Len(v) : v[j] = AgentRow(screen.selected) => j <= m
          /\ screen.expanded => v[m + 1] = <<"detail", 1>>
    BY <2>1 DEF Shows
  <2>3. DOMAIN v = 1 .. Len(v)
    BY <2>1 DEF Shows
  <2>4. own \in SUBSET Int /\ m \in own /\ \A j \in own : j <= m
    BY <2>2, <2>3 DEF AgentRow
  <2> HIDE DEF own
  <2>5. Max(own) = m
    BY <2>4, MaxIs
  <2> QED BY <2>2, <2>4, <2>5 DEF v, own
<1>2. LayoutInit => ScreenInv
  BY DEF LayoutInit, ScreenInv, Screen
<1>3. ScreenInv /\ [LayoutNext]_layoutVars => ScreenInv'
  <2> SUFFICES ASSUME ScreenInv, [LayoutNext]_layoutVars PROVE ScreenInv'
    OBVIOUS
  <2>1. CASE LayoutNext
    BY <2>1, ScreenStep
  <2>2. CASE UNCHANGED layoutVars
    BY <2>2 DEF layoutVars, ScreenInv
  <2> QED BY <2>1, <2>2
<1> QED BY <1>1, <1>2, <1>3, PTL DEF LayoutSpec

-----------------------------------------------------------------------------
(* What a view shows.                                                      *)

Blank == {"blank", "filler"}

Plain(l) == IF l[1] \in {"logo", "mark"} THEN <<"header", 1>> ELSE l

Items(a) == {Plain(a[i]) : i \in {j \in DOMAIN a : a[j][1] \notin Blank}}

LEMMA ItemsIn ==
  ASSUME NEW a \in Seq(Line), NEW x
  PROVE  x \in Items(a) <=> \E i \in 1 .. Len(a) : a[i][1] \notin Blank /\ x = Plain(a[i])
<1>1. DOMAIN a = 1 .. Len(a)
  OBVIOUS
<1> QED BY <1>1 DEF Items

LEMMA ItemsCat ==
  ASSUME NEW a \in Seq(Line), NEW b \in Seq(Line)
  PROVE  Items(a \o b) = Items(a) \cup Items(b)
<1> DEFINE c == a \o b
<1>1. c \in Seq(Line) /\ Len(c) = Len(a) + Len(b)
  BY LenCat
<1>2. \A i \in 1 .. Len(a) : i \in 1 .. Len(c) /\ c[i] = a[i]
  OBVIOUS
<1>3. \A i \in 1 .. Len(b) : Len(a) + i \in 1 .. Len(c) /\ c[Len(a) + i] = b[i]
  OBVIOUS
<1>4. \A i \in 1 .. Len(c) : \/ i \in 1 .. Len(a)
                             \/ i - Len(a) \in 1 .. Len(b) /\ Len(a) + (i - Len(a)) = i
  BY <1>1
<1> HIDE DEF c
<1>5. ASSUME NEW x \in Items(c) PROVE x \in Items(a) \cup Items(b)
  <2>1. PICK i \in 1 .. Len(c) : c[i][1] \notin Blank /\ x = Plain(c[i])
    BY <1>1, ItemsIn
  <2>2. CASE i \in 1 .. Len(a)
    BY <1>2, <2>1, <2>2, ItemsIn
  <2>3. CASE i - Len(a) \in 1 .. Len(b) /\ Len(a) + (i - Len(a)) = i
    <3>1. c[i] = b[i - Len(a)]
      BY <1>3, <2>3
    <3> QED BY <2>1, <2>3, <3>1, ItemsIn
  <2> QED BY <1>4, <2>2, <2>3
<1>6. ASSUME NEW x \in Items(a) PROVE x \in Items(c)
  <2>1. PICK i \in 1 .. Len(a) : a[i][1] \notin Blank /\ x = Plain(a[i])
    BY ItemsIn
  <2> QED BY <1>1, <1>2, <2>1, ItemsIn
<1>7. ASSUME NEW x \in Items(b) PROVE x \in Items(c)
  <2>1. PICK i \in 1 .. Len(b) : b[i][1] \notin Blank /\ x = Plain(b[i])
    BY ItemsIn
  <2>2. Len(a) + i \in 1 .. Len(c) /\ c[Len(a) + i] = b[i]
    BY <1>3
  <2>3. c[Len(a) + i][1] \notin Blank /\ x = Plain(c[Len(a) + i])
    BY <2>1, <2>2
  <2> QED BY <1>1, <2>2, <2>3, ItemsIn
<1> QED BY <1>5, <1>6, <1>7 DEF c

LEMMA ItemsNone ==
  /\ Items(<<>>) = {}
  /\ \A n \in Nat : Items(lines("blank", n)) = {} /\ Items(lines("filler", n)) = {}
<1>1. Items(<<>>) = {}
  BY DEF Items
<1>2. ASSUME NEW n \in Nat, NEW k \in Blank PROVE Items(lines(k, n)) = {}
  <2>1. /\ DOMAIN lines(k, n) = 1 .. n
        /\ \A i \in 1 .. n : lines(k, n)[i] = <<k, i>>
    BY <1>2, LinesOf DEF Blank, Kind
  <2>2. \A i \in DOMAIN lines(k, n) : lines(k, n)[i][1] \in Blank
    BY <1>2, <2>1
  <2> QED BY <2>2 DEF Items
<1> QED BY <1>1, <1>2 DEF Blank

\* The logo and the wordmark are the same header.
LEMMA ItemsHeader ==
  Items(Logo) = {<<"header", 1>>} /\ Items(Wordmark) = {<<"header", 1>>}
<1>1. ASSUME NEW k \in {"logo", "mark"}, NEW n \in Nat \ {0}
      PROVE  Items(lines(k, n)) = {<<"header", 1>>}
  <2>1. /\ DOMAIN lines(k, n) = 1 .. n
        /\ \A i \in 1 .. n : lines(k, n)[i] = <<k, i>>
    BY <1>1, LinesOf DEF Kind
  <2>2. \A i \in DOMAIN lines(k, n) :
          /\ lines(k, n)[i][1] \notin Blank
          /\ Plain(lines(k, n)[i]) = <<"header", 1>>
    BY <1>1, <2>1 DEF Blank, Plain
  <2>3. 1 \in DOMAIN lines(k, n)
    BY <2>1
  <2> DEFINE a == lines(k, n)
  <2> HIDE DEF a
  <2>4. Items(a) = {<<"header", 1>>}
    BY <2>2, <2>3 DEF Items, a
  <2> QED BY <2>4 DEF a
<1>2. Items(Logo) = Items(lines("logo", 3)) \cup Items(lines("blank", 1))
  <2>1. lines("logo", 3) \in Seq(Line) /\ lines("blank", 1) \in Seq(Line)
    BY LinesOf DEF Kind
  <2> QED BY <2>1, ItemsCat DEF Logo
<1>3. Items(lines("blank", 1)) = {}
  BY ItemsNone
<1> QED BY <1>1, <1>2, <1>3 DEF Wordmark

LEMMA ItemsInsert ==
  ASSUME NEW w \in Seq(Line), NEW d \in Seq(Line), NEW at \in Int
  PROVE  Items(insertDetails(w, d, at)) = Items(w) \cup Items(d)
<1> DEFINE b == insertDetails(w, d, at)
           i == Max({0, Min({Len(w), at})})
           u == SubSeq(w, 1, i)
           v == SubSeq(w, i + 1, Len(w))
<1>1. i \in 0 .. Len(w)
  <2> DEFINE n == Min({Len(w), at})
             k == Len(w)
  <2>1. k \in Nat
    OBVIOUS
  <2>2. n = IF k <= at THEN k ELSE at
    BY <2>1, MinOf
  <2> HIDE DEF n, k
  <2>3. n \in Int /\ n <= k
    BY <2>1, <2>2
  <2>4. Max({0, n}) = IF 0 >= n THEN 0 ELSE n
    BY <2>3, MaxOf
  <2>5. Max({0, n}) \in 0 .. k
    BY <2>1, <2>3, <2>4
  <2> QED BY <2>5 DEF n, k
<1>2. b = (u \o d) \o v
  BY DEF insertDetails
<1> HIDE DEF i
<1>3. u \in Seq(Line) /\ v \in Seq(Line) /\ u \o v = w
  <2>1. u \in Seq(Line)
    BY <1>1
  <2>2. v \in Seq(Line)
    BY <1>1
  <2> DEFINE k == Len(w)
             full == SubSeq(w, 1, k)
  <2>3. k \in Nat /\ i \in 0 .. k
    BY <1>1
  <2>4. full = w
    BY SubSeqFull
  <2>5. u \o v = full
    <3>1. 1 \in 1 .. k + 1 /\ i \in 1 - 1 .. k /\ k \in i .. k
      <4> HIDE DEF k
      <4> QED BY <2>3
    <3> QED BY <3>1, ConcatAdjacentSubSeq
  <2> HIDE DEF u, v, full
  <2> QED BY <2>1, <2>2, <2>4, <2>5
<1> HIDE DEF u, v
<1>4. Items(w) = Items(u) \cup Items(v)
  BY <1>3, ItemsCat
<1>5. Items((u \o d) \o v) = (Items(u) \cup Items(d)) \cup Items(v)
  <2>1. u \o d \in Seq(Line)
    BY <1>3, LenCat
  <2>2. Items(u \o d) = Items(u) \cup Items(d)
    BY <1>3, ItemsCat
  <2> DEFINE ud == u \o d
  <2> HIDE DEF ud
  <2>3. Items(ud \o v) = Items(ud) \cup Items(v)
    BY <1>3, <2>1, ItemsCat DEF ud
  <2> QED BY <2>2, <2>3 DEF ud
<1> HIDE DEF b
<1> QED BY <1>2, <1>4, <1>5 DEF b

LEMMA ItemsAssemble ==
  ASSUME NEW s \in Screen, NEW r, NEW body \in Seq(Line),
         DOMAIN r = Names, \A p \in Names : Agentless(r[p])
  PROVE  Items(Assemble(s, r, body)) = (UNION {Items(r[p]) : p \in Names}) \cup Items(body)
<1> DEFINE f == Max({0, s.height - Sizes(r, Names) - Len(body)})
           filler == lines("filler", f)
           h1 == r.top \o r.header
           h2 == h1 \o r.dir
           h3 == h2 \o r.count
           h4 == h3 \o r.disc
           pre == h4 \o r.topDiv
           v1 == pre \o body
           v2 == v1 \o filler
           v3 == v2 \o r.botDiv
           v4 == v3 \o r.foot
<1>1. /\ r.top \in Seq(Line) /\ r.header \in Seq(Line) /\ r.dir \in Seq(Line)
      /\ r.count \in Seq(Line) /\ r.disc \in Seq(Line) /\ r.topDiv \in Seq(Line)
      /\ r.botDiv \in Seq(Line) /\ r.foot \in Seq(Line)
  BY DEF Agentless, Names
<1>2. f \in Nat
  <2> DEFINE m == s.height - Sizes(r, Names) - Len(body)
  <2>0. Sizes(r, Names) \in Nat
    BY SizesOf
  <2>1. m \in Int
    BY <2>0 DEF Screen
  <2> HIDE DEF m
  <2>2. Max({0, m}) \in Nat
    BY <2>1, MaxOf
  <2> QED BY <2>2 DEF m
<1>3. Assemble(s, r, body) = v4
  BY DEF Assemble
<1> HIDE DEF f
<1>4. filler \in Seq(Line) /\ Items(filler) = {}
  BY <1>2, LinesOf, ItemsNone DEF Kind
<1> HIDE DEF filler
<1>5. h1 \in Seq(Line) /\ Items(h1) = Items(r.top) \cup Items(r.header)
  BY <1>1, LenCat, ItemsCat
<1> HIDE DEF h1
<1>6. h2 \in Seq(Line) /\ Items(h2) = Items(h1) \cup Items(r.dir)
  BY <1>1, <1>5, LenCat, ItemsCat
<1> HIDE DEF h2
<1>7. h3 \in Seq(Line) /\ Items(h3) = Items(h2) \cup Items(r.count)
  BY <1>1, <1>6, LenCat, ItemsCat
<1> HIDE DEF h3
<1>8. h4 \in Seq(Line) /\ Items(h4) = Items(h3) \cup Items(r.disc)
  BY <1>1, <1>7, LenCat, ItemsCat
<1> HIDE DEF h4
<1>9. pre \in Seq(Line) /\ Items(pre) = Items(h4) \cup Items(r.topDiv)
  BY <1>1, <1>8, LenCat, ItemsCat
<1> HIDE DEF pre
<1>10. v1 \in Seq(Line) /\ Items(v1) = Items(pre) \cup Items(body)
  BY <1>9, LenCat, ItemsCat
<1> HIDE DEF v1
<1>11. v2 \in Seq(Line) /\ Items(v2) = Items(v1) \cup Items(filler)
  BY <1>4, <1>10, LenCat, ItemsCat
<1> HIDE DEF v2
<1>12. v3 \in Seq(Line) /\ Items(v3) = Items(v2) \cup Items(r.botDiv)
  BY <1>1, <1>11, LenCat, ItemsCat
<1> HIDE DEF v3
<1>13. v4 \in Seq(Line) /\ Items(v4) = Items(v3) \cup Items(r.foot)
  BY <1>1, <1>12, LenCat, ItemsCat
<1> HIDE DEF v4
<1>14. UNION {Items(r[p]) : p \in Names}
         = Items(r.top) \cup Items(r.header) \cup Items(r.dir) \cup Items(r.count)
             \cup Items(r.disc) \cup Items(r.topDiv) \cup Items(r.botDiv) \cup Items(r.foot)
  BY DEF Names
<1> QED BY <1>3, <1>4, <1>5, <1>6, <1>7, <1>8, <1>9, <1>10, <1>11, <1>12, <1>13, <1>14

\* The later step leaves less.
LEMMA LeftItems ==
  ASSUME NEW s \in Screen, NEW k \in 0 .. 7, NEW j \in 0 .. 7, j <= k, NEW p \in Names
  PROVE  Items(Left(Parts(s), k)[p])
             \subseteq Items(Left(Parts(s), j)[p])
<1> DEFINE P == Parts(s)
           gone(n) == \E i \in 1 .. n : p \in Order[i]
<1>1. /\ Left(P, k)[p] = IF gone(k) THEN <<>>
                                ELSE IF p = "header" /\ k >= 4 THEN Wordmark ELSE P[p]
      /\ Left(P, j)[p] = IF gone(j) THEN <<>>
                                ELSE IF p = "header" /\ j >= 4 THEN Wordmark ELSE P[p]
  BY PartsOf DEF Left
<1>2. gone(j) => gone(k)
  OBVIOUS
<1>3. Items(<<>>) = {}
  BY ItemsNone
<1> HIDE DEF gone
<1>4. CASE gone(k)
  BY <1>1, <1>3, <1>4
<1>5. CASE ~gone(k) /\ p = "header"
  <2>1. P[p] = Logo \/ P[p] = Wordmark
    BY <1>5, PartsOf
  <2>2. /\ Left(P, k)[p] = Logo \/ Left(P, k)[p] = Wordmark
        /\ Left(P, j)[p] = Logo \/ Left(P, j)[p] = Wordmark
    BY <1>1, <1>2, <1>5, <2>1
  <2> HIDE DEF P
  <2> QED BY <2>2, ItemsHeader DEF P
<1>6. CASE ~gone(k) /\ p # "header"
  BY <1>1, <1>2, <1>6
<1> QED BY <1>4, <1>5, <1>6

\* The first step takes two blank lines, and nothing else.
LEMMA FirstStep ==
  ASSUME NEW s \in Screen
  PROVE  /\ \A p \in Names : Items(Left(Parts(s), 0)[p])
                \subseteq Items(Left(Parts(s), 1)[p])
         /\ Sizes(Left(Parts(s), 1), Names)
                <= Sizes(Parts(s), Fixed) - 1
         /\ Sizes(Parts(s), Fixed) \in Nat
<1> DEFINE P == Parts(s)
           L == Left(P, 1)
<1>1. /\ DOMAIN P = Names /\ P.top = lines("blank", 2)
      /\ (P.dir = lines("dir", 1) \/ P.dir = <<>>)
  BY PartsOf
<1>2. Order[1] = {"top"}
  BY DEF Order
<1>3. /\ \A i \in 1 .. 1 : i = 1
      /\ \A i \in 1 .. 0 : FALSE
      /\ 1 \in 1 .. 1
  OBVIOUS
<1>4. L.top = <<>> /\ \A p \in Names \ {"top"} : L[p] = P[p]
  BY <1>1, <1>2, <1>3 DEF Left, Names
<1>5. \A p \in Names : Left(P, 0)[p] = P[p]
  BY <1>1, <1>3 DEF Left
<1>6. ASSUME NEW p \in Names PROVE Items(Left(P, 0)[p]) \subseteq Items(L[p])
  <2>1. Items(lines("blank", 2)) = {}
    BY ItemsNone
  <2>2. CASE p = "top"
    BY <1>1, <1>5, <2>1, <2>2
  <2>3. CASE p # "top"
    BY <1>4, <1>5, <2>3
  <2> QED BY <2>2, <2>3
<1>7. /\ Sizes(L, Names) <= Sizes(P, Fixed) - 1
      /\ Sizes(P, Fixed) \in Nat
  <2> DEFINE n1 == Len(P.top)
             n2 == Len(P.header)
             n3 == Len(P.dir)
             n4 == Len(P.count)
             n5 == Len(P.disc)
             n6 == Len(P.topDiv)
             n7 == Len(P.botDiv)
             n8 == Len(P.foot)
             left == Sizes(L, Names)
             fixed == Sizes(P, Fixed)
  <2>1. /\ Agentless(P.header) /\ Agentless(P.dir) /\ Agentless(P.count) /\ Agentless(P.disc)
        /\ Agentless(P.topDiv) /\ Agentless(P.botDiv) /\ Agentless(P.foot)
    BY PartsAgentless DEF Names
  <2>2. /\ n2 \in Nat /\ n3 \in Nat /\ n4 \in Nat /\ n5 \in Nat /\ n6 \in Nat
        /\ n7 \in Nat /\ n8 \in Nat
    BY <2>1 DEF Agentless
  <2>3. n1 = 2
    <3>1. Len(lines("blank", 2)) = 2
      BY LinesOf DEF Kind
    <3> QED BY <1>1, <3>1
  <2>4. n3 = 1 \/ n3 = 0
    <3>1. Len(lines("dir", 1)) = 1
      BY LinesOf DEF Kind
    <3>2. CASE P.dir = lines("dir", 1)
      BY <3>1, <3>2
    <3>3. CASE P.dir = <<>>
      BY <3>3
    <3> QED BY <1>1, <3>2, <3>3
  <2>5. fixed = n1 + n2 + 0 + n4 + n5 + n6 + n7 + n8
    BY DEF Sizes, Fixed
  <2>6. left = 0 + n2 + n3 + n4 + n5 + n6 + n7 + n8
    <3>1. \A p \in Names : Agentless(L[p])
      BY LeftAgentless
    <3>2. left = Len(L.top) + Len(L.header) + Len(L.dir) + Len(L.count)
                   + Len(L.disc) + Len(L.topDiv) + Len(L.botDiv) + Len(L.foot)
      BY <3>1, SizesOf
    <3>3. /\ L.top = <<>> /\ L.header = P.header /\ L.dir = P.dir /\ L.count = P.count
          /\ L.disc = P.disc /\ L.topDiv = P.topDiv /\ L.botDiv = P.botDiv /\ L.foot = P.foot
      BY <1>4 DEF Names
    <3>4. Len(L.top) = 0
      BY <3>3
    <3> HIDE DEF L, P
    <3> QED BY <3>2, <3>3, <3>4
  <2> HIDE DEF n1, n2, n3, n4, n5, n6, n7, n8, left, fixed
  <2>7. left <= fixed - 1 /\ fixed \in Nat
    BY <2>2, <2>3, <2>4, <2>5, <2>6
  <2> QED BY <2>7 DEF left, fixed
<1> QED BY <1>6, <1>7

\* More room for the same rows: a window around the former one.
LEMMA Widen ==
  ASSUME NEW n \in Nat, NEW sel \in Nat, NEW per \in {1, 3}, NEW a \in Int, NEW b \in Int, a <= b,
         NEW t, t = Fitting(n, a, per), NEW u, u = Fitting(n, b, per)
  PROVE  t > 0 => /\ StartAt(n, sel, u) <= StartAt(n, sel, t)
                  /\ StartAt(n, sel, t) + t <= StartAt(n, sel, u) + u
<1> DEFINE qa == IF a >= 0 THEN a ELSE 0
           qb == IF b >= 0 THEN b ELSE 0
           ga == qa \div per
           gb == qb \div per
<1>1. /\ ga \in Nat /\ t = IF ga <= n THEN ga ELSE n
      /\ gb \in Nat /\ u = IF gb <= n THEN gb ELSE n
  BY FittingOf
<1>2. ga <= gb
  <2>1. qa \in Nat /\ qb \in Nat /\ qa <= qb
    OBVIOUS
  <2> HIDE DEF qa, qb
  <2>2. CASE per = 1
    BY <2>1, <2>2
  <2>3. CASE per = 3
    BY <2>1, <2>3
  <2> QED BY <2>2, <2>3
<1> HIDE DEF ga, gb
<1>3. t \in Nat /\ u \in Nat /\ t <= u /\ u <= n
  BY <1>1, <1>2
<1> DEFINE ct == clipStart(n, sel, t)
           cu == clipStart(n, sel, u)
<1>4. /\ ct = IF sel < t THEN 0 ELSE IF sel < n THEN sel - t + 1 ELSE n - t
      /\ cu = IF sel < u THEN 0 ELSE IF sel < n THEN sel - u + 1 ELSE n - u
  <2>1. t <= n
    BY <1>3
  <2>2. ct = IF sel < t THEN 0 ELSE IF sel < n THEN sel - t + 1 ELSE n - t
    BY <1>3, <2>1, StartOf
  <2>3. cu = IF sel < u THEN 0 ELSE IF sel < n THEN sel - u + 1 ELSE n - u
    BY <1>3, StartOf
  <2> QED BY <2>2, <2>3
<1>5. /\ StartAt(n, sel, t) = IF t = 0 \/ t = n THEN 0 ELSE ct
      /\ StartAt(n, sel, u) = IF u = 0 \/ u = n THEN 0 ELSE cu
  BY DEF StartAt
<1> HIDE DEF ct, cu
<1> DEFINE st == StartAt(n, sel, t)
           su == StartAt(n, sel, u)
<1>6. /\ st = IF t = 0 \/ t = n THEN 0 ELSE ct
      /\ su = IF u = 0 \/ u = n THEN 0 ELSE cu
  BY <1>5
<1> HIDE DEF st, su
<1>7. t > 0 => su <= st /\ st + t <= su + u
  BY <1>3, <1>4, <1>6
<1> QED BY <1>7 DEF st, su

LEMMA WindowIn ==
  ASSUME NEW n \in Nat, NEW sel \in Nat, NEW target \in Int, NEW per \in {1, 3},
         NEW t, t = Fitting(n, target, per)
  PROVE  /\ t \in Nat /\ t <= n
         /\ StartAt(n, sel, t) \in Nat /\ StartAt(n, sel, t) + t <= n
<1> DEFINE q == IF target >= 0 THEN target ELSE 0
           g == q \div per
           c == clipStart(n, sel, t)
           st == StartAt(n, sel, t)
<1>1. g \in Nat /\ t = IF g <= n THEN g ELSE n
  BY FittingOf
<1> HIDE DEF g
<1>3. t \in Nat /\ t <= n
  BY <1>1
<1>4. c \in Nat /\ c = IF sel < t THEN 0 ELSE IF sel < n THEN sel - t + 1 ELSE n - t
  <2>1. clipStart(n, sel, t) \in Nat
    BY <1>3, StartOf
  <2>2. clipStart(n, sel, t)
          = IF sel < t THEN 0 ELSE IF sel < n THEN sel - t + 1 ELSE n - t
    BY <1>3, StartOf
  <2> QED BY <2>1, <2>2
<1>5. st = IF t = 0 \/ t = n THEN 0 ELSE c
  BY DEF StartAt
<1> HIDE DEF c, st
<1>6. st \in Nat /\ st + t <= n
  BY <1>3, <1>4, <1>5
<1> QED BY <1>3, <1>6 DEF st

LEMMA WindowAll ==
  ASSUME NEW n \in Nat, NEW target \in Int, NEW per \in {1, 3}, NEW long, long = per * n,
         target >= long
  PROVE  Fitting(n, target, per) = n
<1> DEFINE q == IF target >= 0 THEN target ELSE 0
           g == q \div per
           t == Fitting(n, target, per)
<1>1. g \in Nat /\ t = IF g <= n THEN g ELSE n
  BY FittingOf
<1>2. g >= n
  <2>1. CASE per = 1
    BY <2>1
  <2>2. CASE per = 3
    BY <2>2
  <2> QED BY <2>1, <2>2
<1> HIDE DEF g, t
<1>3. t = n
  BY <1>1, <1>2
<1> QED BY <1>3 DEF t

\* The window of agents that is drawn.
Drawable(s) == Fitting(s.agents, Room(s, Rest(s)), Rows(s).per)
First(s) == StartAt(s.agents, s.selected, Drawable(s))

LEMMA RoomOf ==
  ASSUME NEW s \in Screen, s.height > 0
  PROVE  /\ Room(s, Rest(s)) \in Int
         /\ Room(s, Rest(s))
                = s.height - Sizes(Rest(s), Names) - Len(detail(s))
         /\ Taken(s) # 7 => Room(s, Rest(s)) >= Len(Rows(s).rows)
<1> DEFINE h == s.height
           size == Sizes(Rest(s), Names)
           details == Len(detail(s))
           room == Room(s, Rest(s))
           long == Len(Rows(s).rows)
<1>1. h \in Nat /\ details \in Nat /\ long \in Nat
  BY DetailOf, RowsOf, CountAssumption DEF Screen
<1>2. Taken(s) \in 0 .. 7
  BY StepsOf
<1>3. DOMAIN Rest(s) = Names /\ size \in Nat
  BY <1>2, LeftAgentless, SizesOf DEF Rest
<1>4. room = h - size - details
  BY <1>3 DEF Room
<1>5. Taken(s) # 7 => size + long + details <= h
  BY StepsOf DEF Total, Rest
<1> DEFINE taken == Taken(s)
<1> HIDE DEF h, size, details, room, long, taken
<1>6. room \in Int /\ (taken # 7 => room >= long)
  BY <1>1, <1>3, <1>4, <1>5 DEF taken
<1> QED BY <1>4, <1>6 DEF h, size, details, room, long, taken

LEMMA ShownOf ==
  ASSUME NEW s \in Screen, ~Panics(s), s.height > 0, s.mode # "theme"
  PROVE  Shown(s) = (UNION {Items(Rest(s)[p]) : p \in Names})
                      \cup {AgentRow(x) : x \in First(s) .. First(s) + Drawable(s) - 1}
                      \cup Items(detail(s))
<1> DEFINE r == Rows(s)
           ls == r.rows
           per == r.per
           n == s.agents
           sel == s.selected
           d == detail(s)
           c == Clipped(s, Rest(s), r)
           w == c.rows
           room == Room(s, Rest(s))
           body == Body(s, c, per)
<1>1. Shown(s) = Items(View(s))
  BY DEF Shown, Items, Plain, Blank
<1>2. n \in Nat /\ sel \in Nat
  BY DEF Screen
<1>3. Taken(s) \in 0 .. 7
  BY StepsOf
<1>4. DOMAIN Rest(s) = Names /\ \A p \in Names : Agentless(Rest(s)[p])
  BY <1>3, LeftAgentless DEF Rest
<1>5. /\ ls \in Seq(Line) /\ per \in {1, 3} /\ Len(ls) = per * n
      /\ \A i \in 1 .. Len(ls) : ls[i] = AgentRow((i - 1) \div per)
  BY RowsOf, CountAssumption
<1>6. PICK t \in Nat, start \in Nat :
        /\ IsWindow(c, ls, sel, room, per, t, start)
        /\ body = insertDetails(w, d, (sel - start + 1) * per)
  BY BodyOf
<1>7. View(s) = Assemble(s, Rest(s), body)
  BY DEF View, Drawn, Rest, Taken
<1>8. d \in Seq(Line)
  BY DetailOf
<1>9. Drawable(s) = Fitting(n, room, per) /\ First(s) = StartAt(n, sel, Drawable(s))
  BY DEF Drawable, First
<1> HIDE DEF r, ls, per, n, sel, d, c, w, room, body
<1>10. Len(ls) \div per = n
  <2>1. (per * n) \div per = n
    BY <1>2, <1>5, Groups
  <2> QED BY <1>5, <2>1
<1>11. /\ start + t <= n /\ w = SubSeq(ls, start * per + 1, (start + t) * per)
       /\ t = Drawable(s) /\ start = First(s)
  BY <1>6, <1>9, <1>10 DEF IsWindow, w
<1>12. /\ w \in Seq(Line) /\ Len(w) = t * per
       /\ \A j \in 1 .. t * per :
            start * per + j \in 1 .. Len(ls) /\ w[j] = ls[start * per + j]
  <2>1. ls \in Seq(Line) /\ per \in {1, 3} /\ IsSlice(w, ls, per, t, start)
    BY <1>5, <1>10, <1>11 DEF IsSlice
  <2>2. Sliced(w, ls, per, t, start)
    BY <2>1, SliceOf
  <2> QED BY <2>2 DEF Sliced
<1> DEFINE row(j) == (start * per + j - 1) \div per
           long == t * per
<1>13. \A j \in 1 .. long : w[j] = AgentRow(row(j))
  BY <1>5, <1>12
<1>14. /\ \A j \in 1 .. long : row(j) \in start .. start + t - 1
       /\ \A x \in start .. start + t - 1 : \E j \in 1 .. long : row(j) = x
  <2>1. CASE per = 1
    <3>1. \A j \in 1 .. long : row(j) \in start .. start + t - 1
      BY <2>1
    <3>2. \A x \in start .. start + t - 1 : x - start + 1 \in 1 .. long /\ row(x - start + 1) = x
      BY <2>1
    <3> QED BY <3>1, <3>2
  <2>2. CASE per = 3
    <3>1. \A j \in 1 .. long : row(j) \in start .. start + t - 1
      BY <2>2
    <3>2. \A x \in start .. start + t - 1 :
            (x - start) * 3 + 1 \in 1 .. long /\ row((x - start) * 3 + 1) = x
      BY <2>2
    <3> QED BY <3>1, <3>2
  <2> QED BY <1>5, <2>1, <2>2
<1>15. Len(w) = long
  BY <1>12
<1>16. \A x : AgentRow(x)[1] \notin Blank /\ Plain(AgentRow(x)) = AgentRow(x)
  BY DEF AgentRow, Blank, Plain
<1> HIDE DEF row, long
<1>17. Items(w) = {AgentRow(x) : x \in start .. start + t - 1}
  <2>1. ASSUME NEW y \in Items(w) PROVE \E x \in start .. start + t - 1 : y = AgentRow(x)
    <3>1. PICK j \in 1 .. long : w[j][1] \notin Blank /\ y = Plain(w[j])
      BY <1>12, <1>15, ItemsIn
    <3> QED BY <1>13, <1>14, <1>16, <3>1
  <2>2. ASSUME NEW x \in start .. start + t - 1 PROVE AgentRow(x) \in Items(w)
    <3>1. PICK j \in 1 .. long : row(j) = x
      BY <1>14
    <3>2. w[j][1] \notin Blank /\ AgentRow(x) = Plain(w[j])
      BY <1>13, <1>16, <3>1
    <3> QED BY <1>12, <1>15, <3>2, ItemsIn
  <2> QED BY <2>1, <2>2
<1>18. (sel - start + 1) * per \in Int
  BY <1>2, <1>5
<1>19. Items(body) = Items(w) \cup Items(d)
  BY <1>6, <1>8, <1>12, <1>18, ItemsInsert
<1>20. body \in Seq(Line)
  BY <1>6, <1>8, <1>12, <1>18, InsertOf
<1>21. Items(Assemble(s, Rest(s), body))
           = (UNION {Items(Rest(s)[p]) : p \in Names}) \cup Items(body)
  <2> DEFINE rest == Rest(s)
  <2>1. DOMAIN rest = Names /\ \A p \in Names : Agentless(rest[p])
    BY <1>4
  <2> HIDE DEF rest
  <2>2. Items(Assemble(s, rest, body)) = (UNION {Items(rest[p]) : p \in Names})
            \cup Items(body)
    BY <1>20, <2>1, ItemsAssemble
  <2> QED BY <2>2 DEF rest
<1>22. Items(body) = {AgentRow(x) : x \in First(s) .. First(s) + Drawable(s) - 1}
           \cup Items(detail(s))
  BY <1>11, <1>17, <1>19 DEF d
<1> QED BY <1>1, <1>7, <1>21, <1>22, Zenon

-----------------------------------------------------------------------------
(* One line more.                                                          *)

Taller(s) == [s EXCEPT !.height = @ + 1]

LEMMA TallerOf ==
  ASSUME NEW s \in Screen
  PROVE  /\ Taller(s) \in Screen /\ Taller(s).height = s.height + 1
         /\ Taller(s).agents = s.agents /\ Taller(s).selected = s.selected
         /\ Taller(s).expanded = s.expanded /\ Taller(s).mode = s.mode
         /\ Parts(Taller(s)) = Parts(s) /\ detail(Taller(s)) = detail(s)
         /\ tallRows(Taller(s)) = tallRows(s)
         /\ shortRows(Taller(s)) = shortRows(s)
         /\ Panics(Taller(s)) <=> Panics(s)
<1> DEFINE u == Taller(s)
<1>1. /\ u \in Screen /\ u.height = s.height + 1 /\ u.width = s.width /\ u.agents = s.agents
      /\ u.selected = s.selected /\ u.expanded = s.expanded /\ u.mode = s.mode
      /\ u.connected = s.connected /\ u.dir = s.dir
  BY DEF Taller, Screen
<1> HIDE DEF u
<1>2. Chosen(u) <=> Chosen(s)
  BY <1>1 DEF Chosen
<1>3. detail(u) = detail(s)
  BY <1>2 DEF detail, when
<1>4. tallRows(u) = tallRows(s) /\ shortRows(u) = shortRows(s)
  BY <1>1 DEF tallRows, shortRows
<1>5. Panics(u) <=> Panics(s)
  BY <1>1, <1>2 DEF Panics
<1>6. useLogo(u) <=> useLogo(s)
  BY <1>1 DEF useLogo
<1>7. Parts(u) = Parts(s)
  BY <1>1, <1>6, Zenon DEF Parts, when
<1> QED BY <1>1, <1>3, <1>4, <1>5, <1>7 DEF u

\* Either the rows are the same, or there are cards for lines; the cards then fit
\* after the first step at the latest.
LEMMA TallerRows ==
  ASSUME NEW s \in Screen, s.height > 0, s.mode # "theme"
  PROVE  \/ Rows(Taller(s)) = Rows(s)
         \/ Short(s) /\ ~Short(Taller(s)) /\ ~s.expanded /\ Taken(Taller(s)) <= 1
<1> DEFINE u == Taller(s)
           fixed == Sizes(Parts(s), Fixed)
           cards == Len(tallRows(s))
           h == s.height
<1>1. /\ u \in Screen /\ u.height = h + 1 /\ u.mode = s.mode /\ u.expanded = s.expanded
      /\ Parts(u) = Parts(s) /\ detail(u) = detail(s)
      /\ tallRows(u) = tallRows(s)
      /\ shortRows(u) = shortRows(s) /\ h \in Nat /\ u.agents = s.agents
  BY TallerOf DEF Screen
<1>2. /\ Short(s) <=> h > 0 /\ ~s.expanded /\ fixed + cards > h
      /\ Short(u) <=> h + 1 > 0 /\ ~s.expanded /\ fixed + cards > h + 1
  BY <1>1 DEF Short
<1>3. fixed \in Nat
  BY FirstStep
<1>4. cards \in Nat
  <2>1. s.agents \in Nat
    BY DEF Screen
  <2>2. 3 * s.agents \in Nat
    BY <2>1
  <2> QED BY <2>2 DEF tallRows
<1>5. CASE Short(u) <=> Short(s)
  <2>1. Rows(u) = Rows(s)
    <3>1. CASE Short(s)
      <4>1. Rows(s) = [rows |-> shortRows(s), per |-> 1]
        BY <3>1, Zenon DEF Rows
      <4>2. Rows(u) = [rows |-> shortRows(u), per |-> 1]
        BY <1>5, <3>1, Zenon DEF Rows
      <4> QED BY <1>1, <4>1, <4>2, Zenon
    <3>2. CASE ~Short(s)
      <4>1. Rows(s) = [rows |-> tallRows(s), per |-> 3]
        BY <3>2, Zenon DEF Rows
      <4>2. Rows(u) = [rows |-> tallRows(u), per |-> 3]
        BY <1>1, <1>5, <3>2, Zenon DEF Rows
      <4> QED BY <1>1, <4>1, <4>2, Zenon
    <3> QED BY <3>1, <3>2
  <2> QED BY <2>1
<1>6. CASE ~(Short(u) <=> Short(s))
  <2>1. Short(s) /\ ~Short(u) /\ ~s.expanded /\ fixed + cards <= h + 1
    <3>0. h > 0
      OBVIOUS
    <3> HIDE DEF fixed, cards, h
    <3>1. h + 1 > 0
      BY <1>1
    <3>2. fixed + cards > h + 1 => fixed + cards > h
      BY <1>1, <1>3, <1>4
    <3>3. ~(fixed + cards > h + 1) => fixed + cards <= h + 1
      BY <1>1, <1>3, <1>4
    <3>4. Short(s) /\ ~Short(u) /\ ~s.expanded /\ ~(fixed + cards > h + 1)
      BY <1>2, <1>6, <3>0, <3>1, <3>2, Zenon
    <3> QED BY <3>3, <3>4
  <2>2. Rows(u).rows = tallRows(s)
    BY <1>1, <2>1 DEF Rows
  <2>3. Len(detail(u)) = 0
    BY <1>1, <2>1, DetailOf DEF Chosen
  <2> DEFINE left == Sizes(Left(Parts(s), 1), Names)
             total == Total(u, 1)
  <2>4. total = left + cards + 0
    BY <1>1, <2>2, <2>3 DEF Total
  <2>5. left \in Nat /\ left <= fixed - 1
    <3>1. \A p \in Names : Agentless(Left(Parts(s), 1)[p])
      BY LeftAgentless
    <3> QED BY <3>1, FirstStep, SizesOf
  <2>6. total <= u.height
    <3> HIDE DEF left, fixed, cards, total, h
    <3> QED BY <1>1, <1>3, <1>4, <2>1, <2>4, <2>5
  <2>7. Taken(u) <= 1
    <3>1. u.height > 0
      BY <1>1
    <3>2. 1 \in 0 .. 6
      OBVIOUS
    <3> HIDE DEF u
    <3> QED BY <1>1, <2>6, <3>1, <3>2, StepsOf
  <2> QED BY <2>1, <2>7
<1> QED BY <1>5, <1>6

LEMMA TallerParts ==
  ASSUME NEW s \in Screen, s.height > 0, s.mode # "theme", NEW p \in Names
  PROVE  Items(Rest(s)[p]) \subseteq Items(Rest(Taller(s))[p])
<1> DEFINE u == Taller(s)
           k == Taken(s)
           j == Taken(u)
<1>1. /\ u \in Screen /\ u.height = s.height + 1 /\ Parts(u) = Parts(s)
      /\ detail(u) = detail(s)
      /\ s.height \in Nat /\ u.height > 0
  BY TallerOf DEF Screen
<1>2. k \in 0 .. 7 /\ j \in 0 .. 7
  BY <1>1, StepsOf
<1>3. Rest(s) = Left(Parts(s), k) /\ Rest(u) = Left(Parts(s), j)
  BY <1>1 DEF Rest
<1>4. CASE Rows(u) = Rows(s)
  <2>1. ASSUME k # 7 PROVE j <= k
    <3>1. Total(s, k) <= s.height
      BY <1>2, <2>1, StepsOf
    <3>2. Total(u, k) = Total(s, k)
      BY <1>1, <1>4 DEF Total
    <3>3. Total(u, k) <= u.height
      <4> DEFINE total == Total(s, k)
                 left == Sizes(Left(Parts(s), k), Names)
                 long == Len(Rows(s).rows)
                 details == Len(detail(s))
      <4>1. total = left + long + details
        BY DEF Total
      <4>2. left \in Nat /\ long \in Nat /\ details \in Nat
        <5>1. \A q \in Names : Agentless(Left(Parts(s), k)[q])
          BY <1>2, LeftAgentless
        <5>2. left \in Nat
          BY <5>1, SizesOf
        <5>3. Rows(s).rows \in Seq(Line) /\ detail(s) \in Seq(Line)
          BY RowsOf, DetailOf, CountAssumption
        <5> QED BY <5>2, <5>3
      <4>3. total <= s.height
        BY <3>1
      <4> HIDE DEF total, left, long, details
      <4>4. total <= u.height
        BY <1>1, <4>1, <4>2, <4>3
      <4> QED BY <3>2, <4>4 DEF total
    <3>4. k \in 0 .. 6
      BY <1>2, <2>1
    <3> HIDE DEF u, k
    <3> QED BY <1>1, <3>3, <3>4, StepsOf DEF j
  <2>2. j <= k
    <3> HIDE DEF j, k
    <3> QED BY <1>2, <2>1
  <2> HIDE DEF j, k
  <2> QED BY <1>2, <1>3, <2>2, LeftItems
<1>5. CASE j <= 1
  <2> HIDE DEF j, k
  <2>1. Items(Left(Parts(s), k)[p])
            \subseteq Items(Left(Parts(s), 0)[p])
    BY <1>2, LeftItems
  <2>2. Items(Left(Parts(s), 0)[p])
            \subseteq Items(Left(Parts(s), 1)[p])
    BY FirstStep
  <2>3. Items(Left(Parts(s), 1)[p])
            \subseteq Items(Left(Parts(s), j)[p])
    BY <1>2, <1>5, LeftItems
  <2> QED BY <1>3, <2>1, <2>2, <2>3
<1> QED BY <1>4, <1>5, TallerRows

LEMMA TallerWindow ==
  ASSUME NEW s \in Screen, s.height > 0, s.mode # "theme"
  PROVE  First(s) .. First(s) + Drawable(s) - 1
           \subseteq First(Taller(s)) .. First(Taller(s)) + Drawable(Taller(s)) - 1
<1> DEFINE u == Taller(s)
           n == s.agents
           sel == s.selected
           per == Rows(u).per
           a == Room(s, Rest(s))
           b == Room(u, Rest(u))
           long == Len(Rows(u).rows)
<1>1. /\ u \in Screen /\ u.height = s.height + 1 /\ Parts(u) = Parts(s)
      /\ detail(u) = detail(s)
      /\ u.mode = s.mode /\ u.agents = n /\ u.selected = sel /\ u.expanded = s.expanded
      /\ s.height \in Nat /\ u.height > 0 /\ n \in Nat /\ sel \in Nat
  BY TallerOf DEF Screen
<1>2. a \in Int /\ b \in Int /\ (Taken(u) # 7 => b >= long)
  BY <1>1, RoomOf
<1>3. per \in {1, 3} /\ long = per * n
  BY <1>1, RowsOf, CountAssumption
<1>4. Rows(s).per \in {1, 3}
  BY RowsOf, CountAssumption
<1> DEFINE t == Drawable(s)
           f == First(s)
           tu == Drawable(u)
           fu == First(u)
<1>5. /\ t = Fitting(n, a, Rows(s).per) /\ f = StartAt(n, sel, t)
      /\ tu = Fitting(n, b, per) /\ fu = StartAt(n, sel, tu)
  BY <1>1 DEF Drawable, First
<1> DEFINE per0 == Rows(s).per
<1>6. n \in Nat /\ sel \in Nat /\ per0 \in {1, 3} /\ t = Fitting(n, a, per0)
  BY <1>1, <1>4, <1>5
<1>7. CASE Taken(u) # 7
  <2> HIDE DEF a, b, per, per0, t, f, tu, fu, n, sel
  <2>2. t \in Nat /\ f \in Nat /\ f + t <= n
    <3>1. a \in Int /\ t = Fitting(n, a, per0) /\ f = StartAt(n, sel, t)
      BY <1>2, <1>5, <1>6
    <3>2. t \in Nat /\ StartAt(n, sel, t) \in Nat /\ StartAt(n, sel, t) + t <= n
      BY <1>6, <3>1, WindowIn
    <3> QED BY <3>1, <3>2
  <2>3. tu = n /\ fu = 0
    <3>1. b \in Int /\ tu = Fitting(n, b, per) /\ fu = StartAt(n, sel, tu) /\ per \in {1, 3}
      BY <1>2, <1>3, <1>5
    <3>2. tu = n
      <4> HIDE DEF long
      <4>1. Fitting(n, b, per) = n
        BY <1>2, <1>3, <1>6, <1>7, WindowAll
      <4> QED BY <3>1, <4>1
    <3>3. StartAt(n, sel, tu) = 0
      BY <3>2 DEF StartAt
    <3> QED BY <3>1, <3>2, <3>3
  <2>4. f .. f + t - 1 \subseteq fu .. fu + tu - 1
    BY <1>6, <2>2, <2>3
  <2> QED BY <2>4 DEF t, f, tu, fu
<1>8. CASE Taken(u) = 7
  <2>1. Rows(u) = Rows(s)
    BY <1>8, TallerRows
  <2>2. Taken(s) = 7
    <3>1. ASSUME Taken(s) # 7 PROVE FALSE
      <4> DEFINE k == Taken(s)
                 total == Total(s, k)
      <4>1. k \in 0 .. 6 /\ total <= s.height
        <5>1. k \in 0 .. 7 /\ total <= s.height
          BY <3>1, StepsOf
        <5> HIDE DEF k
        <5>2. k # 7
          BY <3>1 DEF k
        <5> QED BY <5>1, <5>2
      <4>2. Total(u, k) = total
        BY <1>1, <2>1 DEF Total
      <4>3. total \in Nat
        <5> DEFINE left == Sizes(Left(Parts(s), k), Names)
                   size == Len(Rows(s).rows)
                   details == Len(detail(s))
        <5>1. total = left + size + details
          BY DEF Total
        <5>2. \A q \in Names : Agentless(Left(Parts(s), k)[q])
          BY <4>1, LeftAgentless
        <5>3. left \in Nat
          BY <5>2, SizesOf
        <5>4. Rows(s).rows \in Seq(Line) /\ detail(s) \in Seq(Line)
          BY RowsOf, DetailOf, CountAssumption
        <5>5. size \in Nat /\ details \in Nat
          BY <5>4
        <5> HIDE DEF left, size, details, total
        <5> QED BY <5>1, <5>3, <5>5
      <4>4. total <= u.height
        <5> HIDE DEF total
        <5> QED BY <1>1, <4>1, <4>3
      <4>5. Taken(u) <= k
        <5> HIDE DEF u, k
        <5>1. Total(u, k) <= u.height
          BY <4>2, <4>4
        <5> QED BY <1>1, <4>1, <5>1, StepsOf
      <4> HIDE DEF k
      <4> QED BY <1>8, <4>1, <4>5
    <3> QED BY <3>1
  <2>3. a <= b
    <3> DEFINE details == Len(detail(s))
    <3>1. a = s.height - 1 - details /\ b = u.height - 1 - details
      <4>1. Sizes(Rest(s), Names) = 1
        BY <2>2, LeftSizes DEF Rest
      <4>2. Sizes(Rest(u), Names) = 1
        BY <1>1, <1>8, LeftSizes DEF Rest
      <4> QED BY <1>1, <4>1, <4>2, RoomOf
    <3>2. details \in Nat
      BY DetailOf
    <3> HIDE DEF details, a, b
    <3> QED BY <1>1, <3>1, <3>2
  <2>4. t > 0 => fu <= f /\ f + t <= fu + tu
    <3>1. t = Fitting(n, a, per) /\ f = StartAt(n, sel, t)
      BY <1>5, <2>1
    <3> HIDE DEF a, b, per, t, f, tu, fu, n, sel
    <3>2. tu = Fitting(n, b, per) /\ fu = StartAt(n, sel, tu)
      BY <1>5
    <3> QED BY <1>2, <1>3, <1>6, <2>3, <3>1, <3>2, Widen
  <2> HIDE DEF a, b, per, per0, n, sel, t, f, tu, fu
  <2>6. t \in Nat /\ f \in Nat
    <3>1. a \in Int /\ t = Fitting(n, a, per0) /\ f = StartAt(n, sel, t)
      BY <1>2, <1>5, <1>6
    <3>2. t \in Nat /\ StartAt(n, sel, t) \in Nat /\ StartAt(n, sel, t) + t <= n
      BY <1>6, <3>1, WindowIn
    <3> QED BY <3>1, <3>2
  <2>7. tu \in Nat /\ fu \in Nat
    <3>1. b \in Int /\ tu = Fitting(n, b, per) /\ fu = StartAt(n, sel, tu) /\ per \in {1, 3}
      BY <1>2, <1>3, <1>5
    <3>2. tu \in Nat /\ StartAt(n, sel, tu) \in Nat /\ StartAt(n, sel, tu) + tu <= n
      BY <1>6, <3>1, WindowIn
    <3> QED BY <3>1, <3>2
  <2>5. f .. f + t - 1 \subseteq fu .. fu + tu - 1
    <3>1. CASE t = 0
      BY <2>6, <2>7, <3>1
    <3>2. CASE t > 0
      BY <2>4, <2>6, <2>7, <3>2
    <3> QED BY <2>6, <3>1, <3>2
  <2> QED BY <2>5 DEF t, f, tu, fu
<1> QED BY <1>7, <1>8

\* A terminal that is one line taller shows what it showed before, although parts
\* come back that take more than that line, and cards take the place of lines.
THEOREM TallerShowsMore == LayoutSpec => []MoreRoomShowsMore
<1>1. ScreenInv => MoreRoomShowsMore
  <2> SUFFICES ASSUME ScreenInv, screen.height > 0, screen.mode # "theme"
               PROVE  Shown(screen) \subseteq Shown(Taller(screen))
    BY DEF MoreRoomShowsMore, Taller
  <2> DEFINE s == screen
             u == Taller(s)
  <2>1. /\ s \in Screen /\ u \in Screen /\ u.height = s.height + 1 /\ u.mode = s.mode
        /\ detail(u) = detail(s) /\ s.height \in Nat
        /\ (Panics(u) <=> Panics(s))
    BY TallerOf DEF ScreenInv, Screen
  <2>2. u.height > 0
    BY <2>1
  <2>3. CASE Panics(s)
    <3>1. View(s) = <<>>
      BY <2>3 DEF View
    <3>2. Shown(s) = Items(View(s))
      BY DEF Shown, Items, Plain, Blank
    <3> QED BY <3>1, <3>2, ItemsNone
  <2>4. CASE ~Panics(s)
    <3> DEFINE agents(x) == {AgentRow(i) : i \in First(x) .. First(x) + Drawable(x) - 1}
               parts(x) == UNION {Items(Rest(x)[p]) : p \in Names}
    <3>1. /\ Shown(s) = parts(s) \cup agents(s) \cup Items(detail(s))
          /\ Shown(u) = parts(u) \cup agents(u) \cup Items(detail(u))
      BY <2>1, <2>2, <2>4, ShownOf
    <3>2. parts(s) \subseteq parts(u)
      <4>1. \A p \in Names : Items(Rest(s)[p]) \subseteq Items(Rest(u)[p])
        BY <2>1, TallerParts
      <4> QED BY <4>1
    <3>3. agents(s) \subseteq agents(u)
      <4>1. First(s) .. First(s) + Drawable(s) - 1 \subseteq First(u) .. First(u) + Drawable(u) - 1
        BY <2>1, TallerWindow
      <4> QED BY <4>1
    <3> HIDE DEF agents, parts
    <3> QED BY <2>1, <3>1, <3>2, <3>3
  <2> QED BY <2>3, <2>4
<1>2. LayoutInit => ScreenInv
  BY DEF LayoutInit, ScreenInv, Screen
<1>3. ScreenInv /\ [LayoutNext]_layoutVars => ScreenInv'
  <2> SUFFICES ASSUME ScreenInv, [LayoutNext]_layoutVars PROVE ScreenInv'
    OBVIOUS
  <2>1. CASE LayoutNext
    BY <2>1, ScreenStep
  <2>2. CASE UNCHANGED layoutVars
    BY <2>2 DEF layoutVars, ScreenInv
  <2> QED BY <2>1, <2>2
<1> QED BY <1>1, <1>2, <1>3, PTL DEF LayoutSpec
=============================================================================
