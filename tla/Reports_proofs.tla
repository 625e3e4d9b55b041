--------------------------- MODULE Reports_proofs ---------------------------
(***************************************************************************)
(* Proofs about what the reports answer from any tables of legal rows:     *)
(* that the parts of an answer fit each other, and the answers of          *)
(* statements that ran on the same tables.                                 *)
(***************************************************************************)
EXTENDS Reports, Folds_proofs

(* The rows a report may meet: amounts are numbers, no more is paid back   *)
(* than was charged, and the stage of the canceled is that of no other.    *)
LegalRow(t, o) ==
    /\ Created(t, o) \in Nat /\ t.orders[o].updated \in Nat
    /\ Content(t, o).total \in Nat /\ Content(t, o).refund \in 0..Content(t, o).total
    /\ Content(t, o).deliveryCost \in Nat
    /\ Content(t, o).canceled <=> Content(t, o).stage = "canceled"

Legal(t) ==
    /\ IsFiniteSet(Stored(t))
    /\ \A o \in Stored(t) :
          /\ LegalRow(t, o)
          /\ IsFiniteSet(DOMAIN t.items[o])
          /\ \A k \in DOMAIN t.items[o] :
                Position(t, <<o, k>>).qty \in Nat /\ Position(t, <<o, k>>).sum \in Nat
    /\ IsFiniteSet(t.days) /\ IsFiniteSet(t.shop)
    /\ \A d \in t.days : d.sessions \in Nat /\ d.users \in Nat
    /\ \A d \in t.days \cup t.shop : d.day \in Nat \ {NoDay}

Amounts == {"total", "refund", "deliveryCost"}
Weight(t, column) == [o \in Stored(t) |-> Content(t, o)[column]]
Pieces(t) == [p \in Positions(t, Stored(t)) |-> Position(t, p).qty]
Sums2(t) == [p \in Positions(t, Stored(t)) |-> Position(t, p).sum]

LEMMA TotalIs ==
    ASSUME NEW t, Legal(t), NEW S \in SUBSET Stored(t), NEW column \in Amounts
    PROVE  /\ IsFiniteSet(S) /\ \A o \in Stored(t) : Weight(t, column)[o] \in Nat
           /\ Total(t, S, column) = Sum(Weight(t, column), S)
<1>1. IsFiniteSet(S)
  BY FS_Subset DEF Legal
<1>2. \A o \in Stored(t) : Weight(t, column)[o] \in Nat /\ Weight(t, column)[o] = Content(t, o)[column]
  BY DEF Legal, LegalRow, Weight, Amounts
<1>3. PICK v : v = [o \in S |-> Content(t, o)[column]]
  OBVIOUS
<1>4. DOMAIN v = S /\ \A o \in S : v[o] = Weight(t, column)[o] /\ Weight(t, column)[o] \in Int
  BY <1>2, <1>3
<1>5. SumFunction(v) = Sum(Weight(t, column), S)
  BY <1>1, <1>4, SumOfRow
<1> QED
  BY <1>1, <1>2, <1>3, <1>5 DEF Total

LEMMA PositionsFinite ==
    ASSUME NEW t, Legal(t), NEW B \in SUBSET Stored(t), NEW A \in SUBSET B
    PROVE  /\ IsFiniteSet(Positions(t, B)) /\ Positions(t, A) \in SUBSET Positions(t, B)
           /\ A = {} => Positions(t, A) = {}
           /\ \A p \in Positions(t, B) : Position(t, p).qty \in Nat /\ Position(t, p).sum \in Nat
<1>1. IsFiniteSet(B)
  BY TotalIs DEF Amounts
<1>2. PICK of : of = [o \in B |-> {o} \X DOMAIN t.items[o]]
  OBVIOUS
<1>3. \A o \in B : IsFiniteSet(of[o])
  <2> SUFFICES ASSUME NEW o \in B PROVE IsFiniteSet({o} \X DOMAIN t.items[o])
    BY <1>2
  <2>1. IsFiniteSet({o}) /\ IsFiniteSet(DOMAIN t.items[o])
    BY FS_Singleton DEF Legal
  <2> QED
    BY <2>1, FS_Product
<1>4. IsFiniteSet({of[o] : o \in B})
  BY <1>1, ImageIsFinite
<1>5. Positions(t, B) = UNION {of[o] : o \in B}
  BY <1>2 DEF Positions
<1>6. IsFiniteSet(UNION {of[o] : o \in B})
  <2>1. \A T \in {of[o] : o \in B} : IsFiniteSet(T)
    BY <1>3
  <2> QED
    BY <1>4, <2>1, FS_UNION
<1>7. \A p \in Positions(t, B) : Position(t, p).qty \in Nat /\ Position(t, p).sum \in Nat
  <2> SUFFICES ASSUME NEW p \in Positions(t, B)
               PROVE  Position(t, p).qty \in Nat /\ Position(t, p).sum \in Nat
    OBVIOUS
  <2>1. PICK o \in B : p \in {o} \X DOMAIN t.items[o]
    BY DEF Positions
  <2>2. PICK k \in DOMAIN t.items[o] : p = <<o, k>>
    BY <2>1
  <2> QED
    BY <2>2 DEF Legal
<1>8. Positions(t, A) \in SUBSET Positions(t, B) /\ (A = {} => Positions(t, A) = {})
  BY DEF Positions
<1> QED
  BY <1>5, <1>6, <1>7, <1>8

LEMMA UnitsAre ==
    ASSUME NEW t, Legal(t), NEW S \in SUBSET Stored(t)
    PROVE  /\ \A p \in Positions(t, Stored(t)) : Pieces(t)[p] \in Nat /\ Sums2(t)[p] \in Nat
           /\ Units(t, S) = Sum(Pieces(t), Positions(t, S))
           /\ LineSum(t, S) = Sum(Sums2(t), Positions(t, S))
<1>1. /\ IsFiniteSet(Positions(t, S)) /\ Positions(t, S) \in SUBSET Positions(t, Stored(t))
      /\ \A p \in Positions(t, Stored(t)) : Position(t, p).qty \in Nat /\ Position(t, p).sum \in Nat
  <2>1. Stored(t) \in SUBSET Stored(t)
    OBVIOUS
  <2> QED
    BY <2>1, PositionsFinite
<1>2. \A p \in Positions(t, Stored(t)) : /\ Pieces(t)[p] = Position(t, p).qty /\ Pieces(t)[p] \in Nat
                                         /\ Sums2(t)[p] = Position(t, p).sum /\ Sums2(t)[p] \in Nat
  BY <1>1 DEF Pieces, Sums2
<1>3. PICK v, u : /\ v = [p \in Positions(t, S) |-> Position(t, p).qty]
                  /\ u = [p \in Positions(t, S) |-> Position(t, p).sum]
  OBVIOUS
<1>4. /\ DOMAIN v = Positions(t, S)
      /\ \A p \in Positions(t, S) : v[p] = Pieces(t)[p] /\ Pieces(t)[p] \in Int
      /\ DOMAIN u = Positions(t, S)
      /\ \A p \in Positions(t, S) : u[p] = Sums2(t)[p] /\ Sums2(t)[p] \in Int
  BY <1>1, <1>2, <1>3
<1>5. SumFunction(v) = Sum(Pieces(t), Positions(t, S)) /\ SumFunction(u) = Sum(Sums2(t), Positions(t, S))
  BY <1>1, <1>4, SumOfRow
<1> QED
  BY <1>2, <1>3, <1>5 DEF Units, LineSum

(* A part of a set of orders has at most what the set has. *)
LEMMA PartOf ==
    ASSUME NEW t, Legal(t), NEW B \in SUBSET Stored(t), NEW A \in SUBSET B
    PROVE  /\ IsFiniteSet(A) /\ IsFiniteSet(B)
           /\ Cardinality(A) \in Nat /\ Cardinality(B) \in Nat /\ Cardinality(A) <= Cardinality(B)
           /\ \A column \in Amounts : /\ Total(t, A, column) \in Nat /\ Total(t, B, column) \in Nat
                                      /\ Total(t, A, column) <= Total(t, B, column)
           /\ Total(t, A, "refund") <= Total(t, B, "total")
           /\ Units(t, A) \in Nat /\ Units(t, B) \in Nat /\ Units(t, A) <= Units(t, B)
           /\ Cardinality(A) = 0 => Units(t, A) = 0
<1>1. /\ IsFiniteSet(A) /\ IsFiniteSet(B)
      /\ Cardinality(A) \in Nat /\ Cardinality(B) \in Nat /\ Cardinality(A) <= Cardinality(B)
  BY FS_Subset, FS_CardinalityType DEF Legal
<1>2. ASSUME NEW column \in Amounts
      PROVE  /\ Total(t, A, column) \in Nat /\ Total(t, B, column) \in Nat
             /\ Total(t, A, column) <= Total(t, B, column)
  <2>1. PICK w : w = Weight(t, column)
    OBVIOUS
  <2>2. /\ \A o \in B : w[o] \in Nat
        /\ Total(t, A, column) = Sum(w, A) /\ Total(t, B, column) = Sum(w, B)
    BY <2>1, TotalIs
  <2> QED
    BY <1>1, <2>2, SumOfNaturals, SumOfPart
<1>3. Total(t, A, "refund") <= Total(t, B, "total")
  <2>1. PICK w, v : w = Weight(t, "refund") /\ v = Weight(t, "total")
    OBVIOUS
  <2>2. /\ \A o \in B : w[o] \in Int /\ v[o] \in Int
        /\ Total(t, B, "refund") = Sum(w, B) /\ Total(t, B, "total") = Sum(v, B)
    BY <2>1, TotalIs DEF Amounts
  <2>3. \A o \in B : w[o] <= v[o]
    BY <2>1 DEF Weight, Legal, LegalRow
  <2>4. Sum(w, B) <= Sum(v, B)
    BY <1>1, <2>2, <2>3, SumGrows
  <2> QED
    BY <1>2, <2>2, <2>4 DEF Amounts
<1>4. /\ Units(t, A) \in Nat /\ Units(t, B) \in Nat /\ Units(t, A) <= Units(t, B)
      /\ Cardinality(A) = 0 => Units(t, A) = 0
  <2>1. /\ IsFiniteSet(Positions(t, B)) /\ Positions(t, A) \in SUBSET Positions(t, B)
        /\ A = {} => Positions(t, A) = {}
    BY PositionsFinite
  <2>2. Positions(t, B) \subseteq Positions(t, Stored(t))
    BY DEF Positions
  <2>3. PICK w : w = Pieces(t)
    OBVIOUS
  <2>4. /\ \A p \in Positions(t, B) : w[p] \in Nat
        /\ Units(t, A) = Sum(w, Positions(t, A)) /\ Units(t, B) = Sum(w, Positions(t, B))
    BY <2>2, <2>3, UnitsAre
  <2>5. IsFiniteSet(Positions(t, A))
    BY <2>1, FS_Subset
  <2>6. Cardinality(A) = 0 => A = {}
    BY <1>1, FS_EmptySet
  <2> QED
    BY <2>1, <2>4, <2>5, <2>6, SumOfNaturals, SumOfPart, SumOfNone
<1> QED
  BY <1>1, <1>2, <1>3, <1>4

(* Two parts without an order in common make up the whole.                 *)
LEMMA SizesAdd ==
    ASSUME NEW A, NEW B, IsFiniteSet(A), IsFiniteSet(B), A \cap B = {}
    PROVE  Cardinality(A \cup B) = Cardinality(A) + Cardinality(B)
<1>1. Cardinality(A \cap B) = 0
  BY FS_EmptySet
<1>2. Cardinality(A) \in Nat /\ Cardinality(B) \in Nat
  BY FS_CardinalityType
<1>3. PICK n, a, b, none : /\ n = Cardinality(A \cup B) /\ a = Cardinality(A)
                           /\ b = Cardinality(B) /\ none = Cardinality(A \cap B)
  OBVIOUS
<1>4. n = a + b - none
  BY <1>3, FS_Union
<1>5. n = a + b
  BY <1>1, <1>2, <1>3, <1>4
<1> QED
  BY <1>3, <1>5

LEMMA TwoParts ==
    ASSUME NEW t, Legal(t), NEW S \in SUBSET Stored(t),
           NEW A \in SUBSET S, NEW B \in SUBSET S, A \cap B = {}, A \cup B = S
    PROVE  Cardinality(A) + Cardinality(B) = Cardinality(S)
<1>1. IsFiniteSet(A) /\ IsFiniteSet(B)
  BY PartOf
<1>2. Cardinality(A \cup B) = Cardinality(A) + Cardinality(B)
  BY <1>1, SizesAdd
<1> QED
  BY <1>2, Zenon
-----------------------------------------------------------------------------
(* The orders of a set that a report counts apart. *)
Has(c, k) ==
    CASE k = "all"           -> TRUE
      [] k = "paid"          -> c.paid
      [] k = "net"           -> ~c.canceled
      [] k = "canceled"      -> c.canceled
      [] k = "problem"       -> c.problem
      [] k = "returned"      -> Returned(c)
      [] k = "fullyReturned" -> FullyReturned(c)
      [] k = "completed"     -> Completed(c)
      [] k = "terminal"      -> Terminal(c)
      [] k = "inTransit"     -> InTransit(c)
      [] k = "redeemed"      -> RedeemedGross(c)
      [] k = "free"          -> c.deliveryCost = 0
      [] k = "processed"     -> c.stage \in {"processing", "shipped", "in_pvz", "completed", "returned"}
      [] k = "shipped"       -> c.stage \in {"shipped", "in_pvz", "completed", "returned"}
      [] k = "waits"         -> c.stage = "processing"
Having(t, S, k) == {o \in S : Has(Content(t, o), k)}

LEMMA HavingIs ==
    ASSUME NEW t, NEW S
    PROVE  \A o :
        /\ o \in Having(t, S, "all") <=> o \in S
        /\ o \in Having(t, S, "paid") <=> o \in S /\ Content(t, o).paid
        /\ o \in Having(t, S, "net") <=> o \in S /\ ~Content(t, o).canceled
        /\ o \in Having(t, S, "canceled") <=> o \in S /\ Content(t, o).canceled
        /\ o \in Having(t, S, "problem") <=> o \in S /\ Content(t, o).problem
        /\ o \in Having(t, S, "returned") <=> o \in S /\ Returned(Content(t, o))
        /\ o \in Having(t, S, "fullyReturned") <=> o \in S /\ FullyReturned(Content(t, o))
        /\ o \in Having(t, S, "completed") <=> o \in S /\ Completed(Content(t, o))
        /\ o \in Having(t, S, "terminal") <=> o \in S /\ Terminal(Content(t, o))
        /\ o \in Having(t, S, "inTransit") <=> o \in S /\ InTransit(Content(t, o))
        /\ o \in Having(t, S, "redeemed") <=> o \in S /\ RedeemedGross(Content(t, o))
        /\ o \in Having(t, S, "free") <=> o \in S /\ Content(t, o).deliveryCost = 0
        /\ o \in Having(t, S, "processed") <=> o \in S /\ Content(t, o).stage \in
               {"processing", "shipped", "in_pvz", "completed", "returned"}
        /\ o \in Having(t, S, "shipped") <=> o \in S /\ Content(t, o).stage \in
               {"shipped", "in_pvz", "completed", "returned"}
        /\ o \in Having(t, S, "waits") <=> o \in S /\ Content(t, o).stage = "processing"
  BY DEF Having, Has

LEMMA HavingPart ==
    ASSUME NEW t, NEW S, NEW T \in SUBSET S, NEW k
    PROVE  /\ Having(t, T, k) = T \cap Having(t, S, k)
           /\ Having(t, S, k) \in SUBSET S /\ Having(t, T, k) \in SUBSET T
           /\ Having(t, S, "all") = S
<1>1. Having(t, S, "all") = S
  BY DEF Having, Has
<1> QED
  BY <1>1 DEF Having

-----------------------------------------------------------------------------
(* Rows of groups: all of them make up the whole, some of them a part.     *)
Labels(t, S, column) == [o \in S |-> Label(Content(t, o)[column])]

GroupedBy(group, S, key) ==
    /\ IsFiniteSet(DOMAIN group)
    /\ \A o \in S : key[o] \in DOMAIN group
    /\ \A l \in DOMAIN group : group[l] = {o \in S : key[o] = l}

LEMMA GroupsAre ==
    ASSUME NEW t, Legal(t), NEW S \in SUBSET Stored(t), NEW column
    PROVE  GroupedBy(Groups(t, S, column), S, Labels(t, S, column))
<1>0. PICK group, key : group = Groups(t, S, column) /\ key = Labels(t, S, column)
  OBVIOUS
<1>1. key = [o \in S |-> Label(Content(t, o)[column])]
  BY <1>0 DEF Labels
<1>2. group = [l \in {key[o] : o \in S} |-> {o \in S : key[o] = l}]
  BY <1>0, <1>1 DEF Groups
<1>3. IsFiniteSet({key[o] : o \in S})
  <2>1. IsFiniteSet(S)
    BY FS_Subset DEF Legal
  <2> QED
    BY <2>1, ImageIsFinite
<1>4. DOMAIN group = {key[o] : o \in S} /\ \A l \in DOMAIN group : group[l] = {o \in S : key[o] = l}
  BY <1>2
<1>5. \A o \in S : key[o] \in DOMAIN group
  BY <1>4
<1> QED
  BY <1>0, <1>3, <1>4, <1>5 DEF GroupedBy

LEMMA GroupsCount ==
    ASSUME NEW t, Legal(t), NEW S \in SUBSET Stored(t), NEW column, NEW A \in SUBSET S,
           NEW group, group = Groups(t, S, column),
           NEW v, DOMAIN v = DOMAIN group, \A l \in DOMAIN v : v[l] = Cardinality(group[l] \cap A)
    PROVE  SumFunction(v) = Cardinality(A)
<1>0. PICK key : key = Labels(t, S, column)
  OBVIOUS
<1>1. /\ IsFiniteSet(DOMAIN group) /\ \A o \in S : key[o] \in DOMAIN group
      /\ \A l \in DOMAIN group : group[l] = {o \in S : key[o] = l}
  <2>1. GroupedBy(group, S, key)
    BY <1>0, GroupsAre
  <2> QED
    BY <2>1 DEF GroupedBy
<1>2. PICK part : part = [l \in DOMAIN group |-> {o \in A : key[o] = l}]
  OBVIOUS
<1>3. \A l \in DOMAIN group : group[l] \cap A = part[l] /\ part[l] = {o \in A : key[o] = l}
  BY <1>1, <1>2
<1>4. IsFiniteSet(A) /\ \A o \in A : key[o] \in DOMAIN group
  BY <1>1, PartOf
<1> QED
  BY <1>1, <1>3, <1>4, RowsCountAll

LEMMA GroupsSum ==
    ASSUME NEW t, Legal(t), NEW S \in SUBSET Stored(t), NEW column, NEW A \in SUBSET S,
           NEW amount \in Amounts, NEW group, group = Groups(t, S, column),
           NEW v, DOMAIN v \subseteq DOMAIN group,
           \A l \in DOMAIN v : v[l] = Total(t, group[l] \cap A, amount)
    PROVE  /\ SumFunction(v) <= Total(t, A, amount) /\ SumFunction(v) \in Nat
           /\ DOMAIN v = DOMAIN group => SumFunction(v) = Total(t, A, amount)
<1>0. PICK key : key = Labels(t, S, column)
  OBVIOUS
<1>1. /\ IsFiniteSet(DOMAIN group) /\ \A o \in S : key[o] \in DOMAIN group
      /\ \A l \in DOMAIN group : group[l] = {o \in S : key[o] = l}
  <2>1. GroupedBy(group, S, key)
    BY <1>0, GroupsAre
  <2> QED
    BY <2>1 DEF GroupedBy
<1>2. PICK w, part : w = Weight(t, amount) /\ part = [l \in DOMAIN v |-> {o \in A : key[o] = l}]
  OBVIOUS
<1>3. \A l \in DOMAIN v : group[l] \cap A = part[l] /\ part[l] = {o \in A : key[o] = l}
  BY <1>1, <1>2
<1>4. /\ IsFiniteSet(A) /\ \A o \in A : key[o] \in DOMAIN group /\ w[o] \in Nat /\ w[o] \in Int
      /\ Total(t, A, amount) = Sum(w, A)
  <2>1. A \in SUBSET Stored(t)
    OBVIOUS
  <2>2. IsFiniteSet(A) /\ Total(t, A, amount) = Sum(w, A) /\ \A o \in Stored(t) : w[o] \in Nat
    BY <1>2, <2>1, TotalIs
  <2> QED
    BY <1>1, <2>2
<1>5. \A l \in DOMAIN v : v[l] = Sum(w, part[l])
  <2> SUFFICES ASSUME NEW l \in DOMAIN v PROVE v[l] = Sum(w, part[l])
    OBVIOUS
  <2>1. part[l] \in SUBSET Stored(t) /\ v[l] = Total(t, part[l], amount)
    BY <1>3
  <2> QED
    BY <1>2, <2>1, TotalIs
<1>6. IsFiniteSet(DOMAIN v)
  BY <1>1, FS_Subset
<1>7. SumFunction(v) <= Sum(w, A) /\ SumFunction(v) \in Nat
  BY <1>3, <1>4, <1>5, <1>6, RowsSumKept
<1>8. DOMAIN v = DOMAIN group => SumFunction(v) = Sum(w, A)
  <2> SUFFICES ASSUME DOMAIN v = DOMAIN group PROVE SumFunction(v) = Sum(w, A)
    OBVIOUS
  <2>1. \A o \in A : key[o] \in DOMAIN v
    BY <1>4
  <2> QED
    BY <1>3, <1>4, <1>5, <1>6, <2>1, RowsSumAll
<1> QED
  BY <1>4, <1>7, <1>8

-----------------------------------------------------------------------------

(* The same of a field of the rows of a report: it counts the orders of a  *)
(* kind in each group, or it sums an amount of theirs.                     *)
FieldSum(rows, field) == SumFunction([l \in DOMAIN rows |-> rows[l][field]])

RowsCount(rows, field, t, S, column, k) ==
    \A l \in DOMAIN rows : rows[l][field] = Cardinality(Having(t, Groups(t, S, column)[l], k))

RowsSum(rows, field, t, S, column, k, amount) ==
    \A l \in DOMAIN rows : rows[l][field] = Total(t, Having(t, Groups(t, S, column)[l], k), amount)

LEMMA FieldCounts ==
    ASSUME NEW t, Legal(t), NEW S \in SUBSET Stored(t), NEW column, NEW k, NEW rows, NEW field,
           DOMAIN rows = DOMAIN Groups(t, S, column), RowsCount(rows, field, t, S, column, k)
    PROVE  FieldSum(rows, field) = Cardinality(Having(t, S, k))
<1>0. PICK group, v : group = Groups(t, S, column) /\ v = [l \in DOMAIN rows |-> rows[l][field]]
  OBVIOUS
<1>1. \A l \in DOMAIN group : group[l] \in SUBSET S
  <2>1. PICK key : GroupedBy(group, S, key)
    BY <1>0, GroupsAre
  <2> QED
    BY <2>1 DEF GroupedBy
<1>2. PICK A : A = Having(t, S, k)
  OBVIOUS
<1>3. A \in SUBSET S
  BY <1>2, HavingPart
<1>4. DOMAIN v = DOMAIN group
  BY <1>0
<1>5. \A l \in DOMAIN v : v[l] = Cardinality(group[l] \cap A)
  <2> SUFFICES ASSUME NEW l \in DOMAIN v PROVE v[l] = Cardinality(group[l] \cap A)
    OBVIOUS
  <2>1. Having(t, group[l], k) = group[l] \cap A
    BY <1>1, <1>2, <1>4, HavingPart
  <2> QED
    BY <1>0, <2>1 DEF RowsCount
<1>6. SumFunction(v) = Cardinality(A)
  BY <1>0, <1>3, <1>4, <1>5, GroupsCount
<1> QED
  BY <1>0, <1>2, <1>6 DEF FieldSum

LEMMA FieldSums ==
    ASSUME NEW t, Legal(t), NEW S \in SUBSET Stored(t), NEW column, NEW k, NEW amount \in Amounts,
           NEW rows, NEW field, DOMAIN rows \subseteq DOMAIN Groups(t, S, column),
           RowsSum(rows, field, t, S, column, k, amount)
    PROVE  /\ FieldSum(rows, field) <= Total(t, Having(t, S, k), amount)
           /\ FieldSum(rows, field) \in Nat
           /\ DOMAIN rows = DOMAIN Groups(t, S, column) =>
                 FieldSum(rows, field) = Total(t, Having(t, S, k), amount)
<1>0. PICK group, v : group = Groups(t, S, column) /\ v = [l \in DOMAIN rows |-> rows[l][field]]
  OBVIOUS
<1>1. \A l \in DOMAIN group : group[l] \in SUBSET S
  <2>1. PICK key : GroupedBy(group, S, key)
    BY <1>0, GroupsAre
  <2> QED
    BY <2>1 DEF GroupedBy
<1>2. PICK A : A = Having(t, S, k)
  OBVIOUS
<1>3. A \in SUBSET S
  BY <1>2, HavingPart
<1>4. DOMAIN v \subseteq DOMAIN group /\ DOMAIN v = DOMAIN rows
  BY <1>0
<1>5. \A l \in DOMAIN v : v[l] = Total(t, group[l] \cap A, amount)
  <2> SUFFICES ASSUME NEW l \in DOMAIN v PROVE v[l] = Total(t, group[l] \cap A, amount)
    OBVIOUS
  <2>1. Having(t, group[l], k) = group[l] \cap A
    BY <1>1, <1>2, <1>4, HavingPart
  <2> QED
    BY <1>0, <2>1 DEF RowsSum
<1>6. /\ SumFunction(v) <= Total(t, A, amount) /\ SumFunction(v) \in Nat
      /\ DOMAIN v = DOMAIN group => SumFunction(v) = Total(t, A, amount)
  <2>1. DOMAIN v \subseteq DOMAIN group /\ A \in SUBSET S /\ group = Groups(t, S, column)
    BY <1>0, <1>3, <1>4
  <2> QED
    BY <1>5, <2>1, GroupsSum
<1> QED
  BY <1>0, <1>2, <1>4, <1>6 DEF FieldSum

(* The reports select the same orders and sum them alike: the instances of *)
(* OrderRows do not differ where they read orders.                         *)
LEMMA SameScope ==
    ASSUME NEW t, NEW r, NEW f
    PROVE  /\ Metrics!Scope(t, r, f) = Scope(t, r, f)
           /\ Funnel!Scope(t, r, f) = Scope(t, r, f)
           /\ Logistics!Scope(t, r, f) = Scope(t, r, f)
           /\ Customers!Scope(t, r, f) = Scope(t, r, f)
<1>1. Metrics!Scope(t, r, f) = Scope(t, r, f)
  BY DEF Metrics!Scope, Metrics!Stored, Metrics!Within, Metrics!Created, Metrics!GeoCond,
         Metrics!Values, Metrics!Content, Metrics!NoDay,
         Scope, Stored, Within, Created, GeoCond, Values, Content, NoDay
<1>2. Funnel!Scope(t, r, f) = Scope(t, r, f)
  BY DEF Funnel!Scope, Funnel!Stored, Funnel!Within, Funnel!Created, Funnel!GeoCond,
         Funnel!Values, Funnel!Content, Funnel!NoDay,
         Scope, Stored, Within, Created, GeoCond, Values, Content, NoDay
<1>3. Logistics!Scope(t, r, f) = Scope(t, r, f)
  BY DEF Logistics!Scope, Logistics!Stored, Logistics!Within, Logistics!Created, Logistics!GeoCond,
         Logistics!Values, Logistics!Content, Logistics!NoDay,
         Scope, Stored, Within, Created, GeoCond, Values, Content, NoDay
<1>4. Customers!Scope(t, r, f) = Scope(t, r, f)
  BY DEF Customers!Scope, Customers!Stored, Customers!Within, Customers!Created, Customers!GeoCond,
         Customers!Values, Customers!Content, Customers!NoDay,
         Scope, Stored, Within, Created, GeoCond, Values, Content, NoDay
<1> QED
  BY <1>1, <1>2, <1>3, <1>4

(* The orders of a range of days, whatever is filtered. *)
Dated(t, r) == {o \in Stored(t) : Within(Created(t, o), r)}

LEMMA SameDated ==
    ASSUME NEW t, NEW r
    PROVE  /\ {o \in Goal!Stored(t) : Goal!Within(Goal!Created(t, o), r)} = Dated(t, r)
           /\ {o \in Acquired!Stored(t) : Acquired!Within(Acquired!Created(t, o), r)} = Dated(t, r)
<1>1. {o \in Goal!Stored(t) : Goal!Within(Goal!Created(t, o), r)} = Dated(t, r)
  BY DEF Goal!Stored, Goal!Within, Goal!Created, Goal!NoDay, Dated, Stored, Within, Created, NoDay
<1>2. {o \in Acquired!Stored(t) : Acquired!Within(Acquired!Created(t, o), r)} = Dated(t, r)
  BY DEF Acquired!Stored, Acquired!Within, Acquired!Created, Acquired!NoDay,
         Dated, Stored, Within, Created, NoDay
<1> QED
  BY <1>1, <1>2

LEMMA SameSums ==
    ASSUME NEW w
    PROVE  /\ Funnel!SumFunction(w) = SumFunction(w)
           /\ Metrics!SumFunction(w) = SumFunction(w)
           /\ Logistics!SumFunction(w) = SumFunction(w)
           /\ Goal!SumFunction(w) = SumFunction(w)
           /\ Acquired!SumFunction(w) = SumFunction(w)
           /\ Customers!SumFunction(w) = SumFunction(w)
<1>1. Funnel!SumFunction(w) = SumFunction(w)
  BY Zenon DEF Funnel!SumFunction, Funnel!SumFunctionOnSet, Funnel!FoldFunctionOnSet, Funnel!MapThenFoldSet,
               SumFunction, SumFunctionOnSet, FoldFunctionOnSet, MapThenFoldSet
<1>2. Metrics!SumFunction(w) = SumFunction(w)
  BY Zenon DEF Metrics!SumFunction, Metrics!SumFunctionOnSet, Metrics!FoldFunctionOnSet, Metrics!MapThenFoldSet,
               SumFunction, SumFunctionOnSet, FoldFunctionOnSet, MapThenFoldSet
<1>3. Logistics!SumFunction(w) = SumFunction(w)
  BY Zenon DEF Logistics!SumFunction, Logistics!SumFunctionOnSet, Logistics!FoldFunctionOnSet, Logistics!MapThenFoldSet,
               SumFunction, SumFunctionOnSet, FoldFunctionOnSet, MapThenFoldSet
<1>4. Goal!SumFunction(w) = SumFunction(w)
  BY Zenon DEF Goal!SumFunction, Goal!SumFunctionOnSet, Goal!FoldFunctionOnSet, Goal!MapThenFoldSet,
               SumFunction, SumFunctionOnSet, FoldFunctionOnSet, MapThenFoldSet
<1>5. Acquired!SumFunction(w) = SumFunction(w)
  BY Zenon DEF Acquired!SumFunction, Acquired!SumFunctionOnSet, Acquired!FoldFunctionOnSet, Acquired!MapThenFoldSet,
               SumFunction, SumFunctionOnSet, FoldFunctionOnSet, MapThenFoldSet
<1>6. Customers!SumFunction(w) = SumFunction(w)
  BY Zenon DEF Customers!SumFunction, Customers!SumFunctionOnSet, Customers!FoldFunctionOnSet, Customers!MapThenFoldSet,
               SumFunction, SumFunctionOnSet, FoldFunctionOnSet, MapThenFoldSet
<1> QED
  BY <1>1, <1>2, <1>3, <1>4, <1>5, <1>6

LEMMA SameFields ==
    ASSUME NEW rows, NEW field
    PROVE  /\ Funnel!SumOf(rows, field) = FieldSum(rows, field)
           /\ Metrics!SumOf(rows, field) = FieldSum(rows, field)
           /\ Logistics!SumOf(rows, field) = FieldSum(rows, field)
  BY SameSums, Zenon DEF Funnel!SumOf, Metrics!SumOf, Logistics!SumOf, FieldSum

LEMMA SameTotal ==
    ASSUME NEW t, NEW S, NEW column
    PROVE  /\ Metrics!Total(t, S, column) = Total(t, S, column)
           /\ Funnel!Total(t, S, column) = Total(t, S, column)
           /\ Logistics!Total(t, S, column) = Total(t, S, column)
           /\ Goal!Total(t, S, column) = Total(t, S, column)
<1>1. Metrics!Total(t, S, column) = Total(t, S, column)
  BY SameSums, Zenon DEF Metrics!Total, Metrics!Content, Total, Content
<1>2. Funnel!Total(t, S, column) = Total(t, S, column)
  BY SameSums, Zenon DEF Funnel!Total, Funnel!Content, Total, Content
<1>3. Logistics!Total(t, S, column) = Total(t, S, column)
  BY SameSums, Zenon DEF Logistics!Total, Logistics!Content, Total, Content
<1>4. Goal!Total(t, S, column) = Total(t, S, column)
  BY SameSums, Zenon DEF Goal!Total, Goal!Content, Total, Content
<1> QED
  BY <1>1, <1>2, <1>3, <1>4

LEMMA SameSize ==
    ASSUME NEW S
    PROVE  /\ Metrics!Cardinality(S) = Cardinality(S)
           /\ Funnel!Cardinality(S) = Cardinality(S)
           /\ Logistics!Cardinality(S) = Cardinality(S)
           /\ Goal!Cardinality(S) = Cardinality(S)
           /\ Acquired!Cardinality(S) = Cardinality(S)
  BY Zenon DEF Metrics!Cardinality, Funnel!Cardinality, Logistics!Cardinality, Goal!Cardinality,
               Acquired!Cardinality, Cardinality

LEMMA SameMin ==
    ASSUME NEW S
    PROVE  /\ Funnel!Min(S) = Min(S) /\ Metrics!Min(S) = Min(S) /\ Logistics!Min(S) = Min(S)
           /\ Goal!Min(S) = Min(S) /\ Goal!Max(S) = Max(S)
           /\ Acquired!Min(S) = Min(S) /\ Acquired!Max(S) = Max(S)
           /\ Customers!Min(S) = Min(S)
  BY Zenon DEF Funnel!Min, Metrics!Min, Logistics!Min, Goal!Min, Goal!Max, Acquired!Min,
               Acquired!Max, Customers!Min, Min, Max

LEMMA SameUnits ==
    ASSUME NEW t, NEW S
    PROVE  /\ Metrics!Units(t, S) = Units(t, S) /\ Metrics!LineSum(t, S) = LineSum(t, S)
           /\ Funnel!Units(t, S) = Units(t, S)
           /\ Logistics!Units(t, S) = Units(t, S)
<1>1. /\ Metrics!Positions(t, S) = Positions(t, S) /\ Funnel!Positions(t, S) = Positions(t, S)
      /\ Logistics!Positions(t, S) = Positions(t, S)
  BY Zenon DEF Metrics!Positions, Funnel!Positions, Logistics!Positions, Positions
<1>2. Metrics!Units(t, S) = Units(t, S) /\ Metrics!LineSum(t, S) = LineSum(t, S)
  BY <1>1, SameSums, Zenon DEF Metrics!Units, Metrics!LineSum, Units, LineSum,
                               Metrics!Position, Position
<1>3. Funnel!Units(t, S) = Units(t, S)
  BY <1>1, SameSums, Zenon DEF Funnel!Units, Units, Funnel!Position, Position
<1>4. Logistics!Units(t, S) = Units(t, S)
  BY <1>1, SameSums, Zenon DEF Logistics!Units, Units, Logistics!Position, Position
<1> QED
  BY <1>2, <1>3, <1>4

LEMMA SameGroups ==
    ASSUME NEW t, NEW S, NEW column
    PROVE  /\ Metrics!Groups(t, S, column) = Groups(t, S, column)
           /\ Funnel!Groups(t, S, column) = Groups(t, S, column)
           /\ Logistics!Groups(t, S, column) = Groups(t, S, column)
  BY Zenon DEF Metrics!Groups, Metrics!Label, Metrics!Content, Funnel!Groups, Funnel!Label,
               Funnel!Content, Logistics!Groups, Logistics!Label, Logistics!Content,
               Groups, Label, Content

(* What was charged for the orders of S that are not canceled, and what was*)
(* paid back of them.                                                      *)
LEMMA SameRevenue ==
    ASSUME NEW t, NEW S
    PROVE  /\ Metrics!Revenue(t, S) = Revenue(t, S) /\ Metrics!Refunded(t, S) = Refunded(t, S)
           /\ Funnel!Revenue(t, S) = Revenue(t, S) /\ Funnel!Refunded(t, S) = Refunded(t, S)
           /\ Logistics!Revenue(t, S) = Revenue(t, S)
           /\ Goal!Revenue(t, S) = Revenue(t, S) /\ Goal!Refunded(t, S) = Refunded(t, S)
           /\ Revenue(t, S) = Total(t, Having(t, S, "net"), "total")
           /\ Refunded(t, S) = Total(t, Having(t, S, "returned"), "refund")
<1>1. Metrics!Revenue(t, S) = Revenue(t, S) /\ Metrics!Refunded(t, S) = Refunded(t, S)
  BY SameTotal, Zenon DEF Metrics!Revenue, Metrics!Refunded, Metrics!Those, Metrics!Net,
     Metrics!Returned, Metrics!Content, Revenue, Refunded, Those, Net, Returned, Content
<1>2. Funnel!Revenue(t, S) = Revenue(t, S) /\ Funnel!Refunded(t, S) = Refunded(t, S)
  BY SameTotal, Zenon DEF Funnel!Revenue, Funnel!Refunded, Funnel!Those, Funnel!Net,
     Funnel!Returned, Funnel!Content, Revenue, Refunded, Those, Net, Returned, Content
<1>3. Logistics!Revenue(t, S) = Revenue(t, S)
  BY SameTotal, Zenon DEF Logistics!Revenue, Logistics!Those, Logistics!Net, Logistics!Content,
     Revenue, Those, Net, Content
<1>4. Goal!Revenue(t, S) = Revenue(t, S) /\ Goal!Refunded(t, S) = Refunded(t, S)
  BY SameTotal, Zenon DEF Goal!Revenue, Goal!Refunded, Goal!Those, Goal!Net,
     Goal!Returned, Goal!Content, Revenue, Refunded, Those, Net, Returned, Content
<1>5. /\ {o \in S : Net(Content(t, o))} = Having(t, S, "net")
      /\ {o \in S : Returned(Content(t, o))} = Having(t, S, "returned")
  BY HavingIs DEF Net
<1>6. /\ Revenue(t, S) = Total(t, Having(t, S, "net"), "total")
      /\ Refunded(t, S) = Total(t, Having(t, S, "returned"), "refund")
  BY <1>5 DEF Revenue, Refunded, Those
<1> QED
  BY <1>1, <1>2, <1>3, <1>4, <1>6

-----------------------------------------------------------------------------
(* The funnel: what it counts as having reached a stage is what the others *)
(* ask of an order.                                                        *)
FunnelStages == {"created", "paid", "processing", "shipped", "delivered", "completed"}
Reaching(t, S, k) == {o \in S : Funnel!Reached(Content(t, o), k)}

LEMMA FunnelReached ==
    ASSUME NEW c
    PROVE  /\ Funnel!Reached(c, "created")
           /\ Funnel!Reached(c, "paid") <=> PaidReach(c)
           /\ Funnel!Reached(c, "processing") <=>
                  c.stage \in {"processing", "shipped", "in_pvz", "completed", "returned"}
           /\ Funnel!Reached(c, "shipped") <=> c.stage \in {"shipped", "in_pvz", "completed", "returned"}
           /\ Funnel!Reached(c, "delivered") <=> c.stage \in {"in_pvz", "completed", "returned"}
           /\ Funnel!Reached(c, "completed") <=> RedeemedGross(c)
<1>1. Funnel!Reached(c, "created") /\ (Funnel!Reached(c, "paid") <=> PaidReach(c))
  BY DEF Funnel!Reached, Funnel!PaidReach, PaidReach, Funnel!Advanced, Advanced
<1>2. /\ Funnel!Past["completed"] = {"completed", "returned"}
      /\ Funnel!Past["delivered"] = {"in_pvz", "completed", "returned"}
      /\ Funnel!Past["processing"] = {"processing", "shipped", "in_pvz", "completed", "returned"}
      /\ Funnel!Past["shipped"] = {"shipped", "in_pvz", "completed", "returned"}
  BY DEF Funnel!Past
<1>3. \A k \in {"completed", "delivered", "processing", "shipped"} :
          Funnel!Reached(c, k) <=> c.stage \in Funnel!Past[k]
  BY DEF Funnel!Reached
<1> QED
  BY <1>1, <1>2, <1>3 DEF RedeemedGross

(* The six stages in their order. *)
LEMMA FunnelOrder ==
    /\ Funnel!Range(Funnel!Stages) = FunnelStages
    /\ Funnel!Stages[1] = "created" /\ Funnel!Stages[2] = "paid" /\ Funnel!Stages[3] = "processing"
    /\ Funnel!Stages[4] = "shipped" /\ Funnel!Stages[5] = "delivered" /\ Funnel!Stages[6] = "completed"
  BY DEF Funnel!Range, Funnel!Stages, FunnelStages

LEMMA FunnelOrders ==
    ASSUME NEW t, NEW r, NEW f, NEW S, S = Scope(t, r, f)
    PROVE  LET c == Funnel!reachOrders(t, r, f) IN
           /\ \A k \in FunnelStages : /\ c.orders[k] = Cardinality(Reaching(t, S, k))
                                      /\ c.revenue[k] = Total(t, Reaching(t, S, k), "total")
           /\ c.canceled = Cardinality(Having(t, S, "canceled"))
           /\ c.returns = Cardinality(Having(t, S, "returned"))
           /\ c.fullyReturned = Cardinality(Having(t, S, "fullyReturned"))
           /\ c.problems = Cardinality(Having(t, S, "problem"))
           /\ c.refund = Refunded(t, S)
<1>1. PICK c : c = Funnel!reachOrders(t, r, f)
  OBVIOUS
<1>2. /\ c.orders = Funnel!PerStage(t, S, Funnel!Cardinality)
      /\ c.revenue = Funnel!PerStage(t, S, LAMBDA T : Funnel!Total(t, T, "total"))
      /\ c.canceled = Funnel!Cardinality(Funnel!Those(t, S, Funnel!Canceled))
      /\ c.returns = Funnel!Cardinality(Funnel!Those(t, S, Funnel!Returned))
      /\ c.fullyReturned = Funnel!Cardinality(Funnel!Those(t, S, Funnel!FullyReturned))
      /\ c.problems = Funnel!Cardinality({o \in S : Funnel!Content(t, o).problem})
      /\ c.refund = Funnel!Refunded(t, S)
  BY <1>1, SameScope DEF Funnel!reachOrders, Funnel!Count, Funnel!Those
<1>3. /\ Funnel!Those(t, S, Funnel!Canceled) = Having(t, S, "canceled")
      /\ Funnel!Those(t, S, Funnel!Returned) = Having(t, S, "returned")
      /\ Funnel!Those(t, S, Funnel!FullyReturned) = Having(t, S, "fullyReturned")
      /\ {o \in S : Funnel!Content(t, o).problem} = Having(t, S, "problem")
  BY HavingIs DEF Funnel!Those, Funnel!Canceled, Funnel!Returned, Funnel!FullyReturned,
                  Funnel!Content, Returned, FullyReturned, Content
<1>4. ASSUME NEW k \in FunnelStages
      PROVE  /\ c.orders[k] = Cardinality(Reaching(t, S, k))
             /\ c.revenue[k] = Total(t, Reaching(t, S, k), "total")
  <2>1. PICK T : T = Reaching(t, S, k)
    OBVIOUS
  <2>2. {o \in S : Funnel!Reached(Funnel!Content(t, o), k)} = T
    BY <2>1 DEF Reaching, Funnel!Content, Content
  <2>3. c.orders[k] = Funnel!Cardinality(T) /\ c.revenue[k] = Funnel!Total(t, T, "total")
    BY <1>2, <2>2, FunnelOrder DEF Funnel!PerStage, Funnel!Those
  <2> QED
    BY <2>1, <2>3, SameSize, SameTotal
<1> QED
  BY <1>1, <1>2, <1>3, <1>4, SameSize, SameRevenue

LEMMA FunnelUnits ==
    ASSUME NEW t, NEW r, NEW f, NEW S, S = Scope(t, r, f), NEW k \in FunnelStages
    PROVE  Funnel!reachUnits(t, r, f)[k] = Units(t, Reaching(t, S, k))
<1>1. PICK T : T = Reaching(t, S, k)
  OBVIOUS
<1>2. {o \in S : Funnel!Reached(Funnel!Content(t, o), k)} = T
  BY <1>1 DEF Reaching, Funnel!Content, Content
<1>3. Funnel!reachUnits(t, r, f)[k] = Funnel!Units(t, T)
  BY <1>2, FunnelOrder, SameScope DEF Funnel!reachUnits, Funnel!PerStage, Funnel!Those
<1> QED
  BY <1>1, <1>3, SameUnits

(* A later stage holds orders of the earlier only. *)
LEMMA FunnelNests ==
    ASSUME NEW t, NEW S
    PROVE  /\ Reaching(t, S, "created") = S
           /\ \A k \in 1..5 : Reaching(t, S, Funnel!Stages[k + 1]) \subseteq Reaching(t, S, Funnel!Stages[k])
           /\ Having(t, S, "returned") \subseteq Reaching(t, S, "completed")
           /\ Having(t, S, "fullyReturned") \subseteq Having(t, S, "returned")
           /\ Reaching(t, S, "completed") = Having(t, S, "redeemed")
<1>1. \A o \in S : LET c == Content(t, o) IN
          /\ Funnel!Reached(c, "created")
          /\ Funnel!Reached(c, "processing") => Funnel!Reached(c, "paid")
          /\ Funnel!Reached(c, "shipped") => Funnel!Reached(c, "processing")
          /\ Funnel!Reached(c, "delivered") => Funnel!Reached(c, "shipped")
          /\ Funnel!Reached(c, "completed") => Funnel!Reached(c, "delivered")
          /\ Returned(c) => Funnel!Reached(c, "completed")
  BY FunnelReached DEF PaidReach, Advanced, RedeemedGross, Returned
<1>2. /\ Reaching(t, S, "created") = S /\ Reaching(t, S, "paid") \subseteq S
      /\ Reaching(t, S, "processing") \subseteq Reaching(t, S, "paid")
      /\ Reaching(t, S, "shipped") \subseteq Reaching(t, S, "processing")
      /\ Reaching(t, S, "delivered") \subseteq Reaching(t, S, "shipped")
      /\ Reaching(t, S, "completed") \subseteq Reaching(t, S, "delivered")
      /\ Having(t, S, "returned") \subseteq Reaching(t, S, "completed")
      /\ Having(t, S, "fullyReturned") \subseteq Having(t, S, "returned")
      /\ Reaching(t, S, "completed") = Having(t, S, "redeemed")
  BY <1>1, HavingIs, FunnelReached DEF Reaching, FullyReturned
<1>3. ASSUME NEW k \in 1..5
      PROVE  Reaching(t, S, Funnel!Stages[k + 1]) \subseteq Reaching(t, S, Funnel!Stages[k])
  <2>1. k = 1 \/ k = 2 \/ k = 3 \/ k = 4 \/ k = 5
    OBVIOUS
  <2> QED
    BY <1>2, <2>1, FunnelOrder
<1> QED
  BY <1>2, <1>3

FunnelAsks == {"payment", "delivery", "channel", "region"}

LEMMA FunnelColumns == Funnel!Range(Funnel!Columns) = FunnelAsks
  BY DEF Funnel!Range, Funnel!Columns, FunnelAsks

LEMMA FunnelRow ==
    ASSUME NEW t, NEW T
    PROVE  LET row == Funnel!SegmentRow(t, T) IN
           /\ row.orders = Cardinality(T)
           /\ row.paid = Cardinality(Having(t, T, "paid"))
           /\ row.completed = Cardinality(Having(t, T, "completed"))
           /\ row.canceled = Cardinality(Having(t, T, "canceled"))
           /\ row.problems = Cardinality(Having(t, T, "problem"))
<1>1. PICK row : row = Funnel!SegmentRow(t, T)
  OBVIOUS
<1>2. /\ row.orders = Funnel!Cardinality(T)
      /\ row.paid = Funnel!Cardinality(Funnel!Those(t, T, Funnel!Paid))
      /\ row.completed = Funnel!Cardinality(Funnel!Those(t, T, Funnel!Completed))
      /\ row.canceled = Funnel!Cardinality(Funnel!Those(t, T, Funnel!Canceled))
      /\ row.problems = Funnel!Cardinality({o \in T : Funnel!Content(t, o).problem})
  BY <1>1 DEF Funnel!SegmentRow, Funnel!Count, Funnel!Those
<1>3. /\ Funnel!Those(t, T, Funnel!Paid) = Having(t, T, "paid")
      /\ Funnel!Those(t, T, Funnel!Completed) = Having(t, T, "completed")
      /\ Funnel!Those(t, T, Funnel!Canceled) = Having(t, T, "canceled")
      /\ {o \in T : Funnel!Content(t, o).problem} = Having(t, T, "problem")
  BY HavingIs DEF Funnel!Those, Funnel!Paid, Funnel!Completed, Funnel!Canceled, Funnel!Content,
                  Completed, Content
<1> QED
  BY <1>1, <1>2, <1>3, SameSize

(* The segments that are kept, as the groups of the orders.                *)
LEMMA SegmentsKept ==
    ASSUME NEW t, NEW r, NEW f, NEW S, S = Scope(t, r, f), NEW column,
           NEW rows, rows \in Funnel!segment(t, column, r, f)
    PROVE  LET group == Groups(t, S, column) IN
           /\ DOMAIN rows \subseteq DOMAIN group
           /\ Cardinality(DOMAIN rows) = Min({Limits.segment, Cardinality(DOMAIN group)})
           /\ \A l \in DOMAIN rows : rows[l] = Funnel!SegmentRow(t, group[l])
<1>1. PICK group : group = Groups(t, S, column)
  OBVIOUS
<1>2. PICK all : all = [l \in DOMAIN group |-> Funnel!SegmentRow(t, group[l])]
  OBVIOUS
<1>3. Funnel!segment(t, column, r, f) = Funnel!Top(all, Limits.segment, Funnel!MoreOrders)
  BY <1>1, <1>2, SameScope, SameGroups DEF Funnel!segment
<1>4. PICK K \in SUBSET DOMAIN all :
          /\ Funnel!Cardinality(K) = Funnel!Min({Limits.segment, Funnel!Cardinality(DOMAIN all)})
          /\ rows = [l \in K |-> all[l]]
  BY <1>3 DEF Funnel!Top
<1>5. DOMAIN rows = K /\ DOMAIN all = DOMAIN group
  BY <1>2, <1>4
<1>6. Cardinality(K) = Min({Limits.segment, Cardinality(DOMAIN all)})
  BY <1>4, SameSize, SameMin
<1>7. \A l \in DOMAIN rows : rows[l] = Funnel!SegmentRow(t, group[l])
  BY <1>2, <1>4
<1> QED
  BY <1>1, <1>5, <1>6, <1>7

(* Segments that are not cut make up the whole.                            *)
LEMMA SegmentsAddUp ==
    ASSUME NEW t, Legal(t), NEW r, NEW f, NEW S, S = Scope(t, r, f), NEW column,
           NEW rows, rows \in Funnel!segment(t, column, r, f),
           Funnel!Cardinality(DOMAIN rows) < Limits.segment
    PROVE  /\ Funnel!SumOf(rows, "orders") = Cardinality(S)
           /\ Funnel!SumOf(rows, "canceled") = Cardinality(Having(t, S, "canceled"))
           /\ Funnel!SumOf(rows, "problems") = Cardinality(Having(t, S, "problem"))
           /\ Funnel!SumOf(rows, "paid") = Cardinality(Having(t, S, "paid"))
           /\ Funnel!SumOf(rows, "completed") = Cardinality(Having(t, S, "completed"))
<1>1. PICK group : group = Groups(t, S, column)
  OBVIOUS
<1>2. S \in SUBSET Stored(t)
  BY DEF Scope
<1>3. IsFiniteSet(DOMAIN group) /\ Limits.segment \in Nat /\ \A l \in DOMAIN group : group[l] \subseteq S
  <2>1. PICK key : GroupedBy(group, S, key)
    BY <1>1, <1>2, GroupsAre
  <2> QED
    BY <2>1, LimitsAssumption DEF GroupedBy
<1>4. DOMAIN rows = DOMAIN group /\ \A l \in DOMAIN rows : rows[l] = Funnel!SegmentRow(t, group[l])
  <2>1. /\ DOMAIN rows \subseteq DOMAIN group
        /\ Cardinality(DOMAIN rows) = Min({Limits.segment, Cardinality(DOMAIN group)})
        /\ \A l \in DOMAIN rows : rows[l] = Funnel!SegmentRow(t, group[l])
    BY <1>1, SegmentsKept
  <2>2. Cardinality(DOMAIN rows) < Limits.segment
    BY SameSize
  <2>3. DOMAIN rows = DOMAIN group
    BY <1>3, <2>1, <2>2, KeptAll
  <2> QED
    BY <2>1, <2>3
<1>5. \A l \in DOMAIN rows :
          /\ rows[l]["orders"] = Cardinality(Having(t, group[l], "all"))
          /\ rows[l]["paid"] = Cardinality(Having(t, group[l], "paid"))
          /\ rows[l]["completed"] = Cardinality(Having(t, group[l], "completed"))
          /\ rows[l]["canceled"] = Cardinality(Having(t, group[l], "canceled"))
          /\ rows[l]["problems"] = Cardinality(Having(t, group[l], "problem"))
  BY <1>4, FunnelRow, HavingPart
<1>6. /\ RowsCount(rows, "orders", t, S, column, "all")
      /\ RowsCount(rows, "paid", t, S, column, "paid")
      /\ RowsCount(rows, "completed", t, S, column, "completed")
      /\ RowsCount(rows, "canceled", t, S, column, "canceled")
      /\ RowsCount(rows, "problems", t, S, column, "problem")
  BY <1>1, <1>5 DEF RowsCount
<1>7. DOMAIN rows = DOMAIN Groups(t, S, column)
  BY <1>1, <1>4
<1>8. /\ FieldSum(rows, "orders") = Cardinality(Having(t, S, "all"))
      /\ FieldSum(rows, "paid") = Cardinality(Having(t, S, "paid"))
      /\ FieldSum(rows, "completed") = Cardinality(Having(t, S, "completed"))
      /\ FieldSum(rows, "canceled") = Cardinality(Having(t, S, "canceled"))
      /\ FieldSum(rows, "problems") = Cardinality(Having(t, S, "problem"))
  BY <1>2, <1>6, <1>7, FieldCounts
<1> QED
  BY <1>8, SameFields, HavingPart
(* What the statements of the funnel answer. *)
LEMMA FunnelSays ==
    ASSUME NEW t, NEW a, NEW got, NEW p \in {"cur", "prev"}
    PROVE  /\ Funnel!Execute(t, <<"reachOrders", p>>, a, got) =
                  {Funnel!reachOrders(t, Funnel!Ranges(a, got)[p], a.filters)}
           /\ Funnel!Execute(t, <<"reachUnits", p>>, a, got) =
                  {Funnel!reachUnits(t, Funnel!Ranges(a, got)[p], a.filters)}
  BY DEF Funnel!Execute

LEMMA FunnelSegments ==
    ASSUME NEW t, NEW a, NEW got, NEW col
    PROVE  Funnel!Execute(t, <<"segment", col>>, a, got) =
               Funnel!segment(t, col, Funnel!Ranges(a, got).cur, a.filters)
  BY DEF Funnel!Execute

(* Whenever the two statements ran, what they tell is nested. *)
LEMMA FunnelNested ==
    ASSUME NEW t, Legal(t), NEW r, NEW f, NEW c, c = Funnel!reachOrders(t, r, f)
    PROVE  /\ \A k \in 1..5 : /\ c.orders[Funnel!Stages[k + 1]] <= c.orders[Funnel!Stages[k]]
                              /\ c.revenue[Funnel!Stages[k + 1]] <= c.revenue[Funnel!Stages[k]]
           /\ c.fullyReturned <= c.returns /\ c.returns <= c.orders["completed"]
           /\ c.refund <= c.revenue["completed"]
           /\ c.orders["completed"] - c.fullyReturned >= 0
<1>1. PICK S : S = Scope(t, r, f) /\ S \in SUBSET Stored(t)
  BY DEF Scope
<1>2. ASSUME NEW k \in FunnelStages
      PROVE  /\ c.orders[k] = Cardinality(Reaching(t, S, k))
             /\ c.revenue[k] = Total(t, Reaching(t, S, k), "total")
             /\ Reaching(t, S, k) \in SUBSET Stored(t)
  BY <1>1, FunnelOrders DEF Reaching
<1>3. /\ c.returns = Cardinality(Having(t, S, "returned"))
      /\ c.fullyReturned = Cardinality(Having(t, S, "fullyReturned"))
      /\ c.refund = Total(t, Having(t, S, "returned"), "refund")
  BY <1>1, FunnelOrders, SameRevenue
<1>4. ASSUME NEW k \in 1..5
      PROVE  /\ c.orders[Funnel!Stages[k + 1]] <= c.orders[Funnel!Stages[k]]
             /\ c.revenue[Funnel!Stages[k + 1]] <= c.revenue[Funnel!Stages[k]]
  <2>1. Funnel!Stages[k + 1] \in FunnelStages /\ Funnel!Stages[k] \in FunnelStages
    <3>1. k = 1 \/ k = 2 \/ k = 3 \/ k = 4 \/ k = 5
      OBVIOUS
    <3> QED
      BY <3>1, FunnelOrder DEF FunnelStages
  <2>2. PICK A, B : A = Reaching(t, S, Funnel!Stages[k + 1]) /\ B = Reaching(t, S, Funnel!Stages[k])
    OBVIOUS
  <2>3. A \in SUBSET B /\ B \in SUBSET Stored(t)
    BY <1>2, <2>1, <2>2, FunnelNests
  <2> QED
    BY <1>2, <2>1, <2>2, <2>3, PartOf DEF Amounts
<1>5. PICK A, B, C : /\ A = Having(t, S, "fullyReturned") /\ B = Having(t, S, "returned")
                     /\ C = Reaching(t, S, "completed")
  OBVIOUS
<1>6. A \in SUBSET B /\ B \in SUBSET C /\ C \in SUBSET Stored(t) /\ B \in SUBSET Stored(t)
  BY <1>2, <1>5, FunnelNests DEF FunnelStages
<1>7. /\ Cardinality(A) \in Nat /\ Cardinality(B) \in Nat /\ Cardinality(C) \in Nat
      /\ Cardinality(A) <= Cardinality(B) /\ Cardinality(B) <= Cardinality(C)
      /\ Total(t, B, "refund") <= Total(t, C, "total")
  BY <1>6, PartOf
<1>8. c.orders["completed"] = Cardinality(C) /\ c.revenue["completed"] = Total(t, C, "total")
  BY <1>2, <1>5 DEF FunnelStages
<1> QED
  BY <1>3, <1>4, <1>5, <1>7, <1>8

LEMMA FunnelUnitsNested ==
    ASSUME NEW t, Legal(t), NEW r, NEW f, NEW u, u = Funnel!reachUnits(t, r, f), NEW k \in 1..5
    PROVE  u[Funnel!Stages[k + 1]] <= u[Funnel!Stages[k]]
<1>1. PICK S : S = Scope(t, r, f) /\ S \in SUBSET Stored(t)
  BY DEF Scope
<1>2. Funnel!Stages[k + 1] \in FunnelStages /\ Funnel!Stages[k] \in FunnelStages
  <2>1. k = 1 \/ k = 2 \/ k = 3 \/ k = 4 \/ k = 5
    OBVIOUS
  <2> QED
    BY <2>1, FunnelOrder DEF FunnelStages
<1>3. PICK A, B : A = Reaching(t, S, Funnel!Stages[k + 1]) /\ B = Reaching(t, S, Funnel!Stages[k])
  OBVIOUS
<1>4. A \in SUBSET B /\ B \in SUBSET Stored(t)
  BY <1>1, <1>3, FunnelNests DEF Reaching
<1>5. u[Funnel!Stages[k + 1]] = Units(t, A) /\ u[Funnel!Stages[k]] = Units(t, B)
  BY <1>1, <1>2, <1>3, FunnelUnits
<1> QED
  BY <1>4, <1>5, PartOf

(* A segment by a column that is filtered. *)
LEMMA SegmentsFiltered ==
    ASSUME NEW t, NEW r, NEW f, NEW column \in DOMAIN f, Values(f[column]) # {},
           NEW rows, rows \in Funnel!segment(t, column, r, f)
    PROVE  DOMAIN rows \subseteq Values(f[column])
<1>1. PICK S, group : S = Scope(t, r, f) /\ group = Groups(t, S, column)
  OBVIOUS
<1>2. DOMAIN rows \subseteq DOMAIN group
  BY <1>1, SegmentsKept
<1>3. \A l \in DOMAIN group : \E o \in S : l = Label(Content(t, o)[column])
  BY <1>1 DEF Groups
<1>4. \A o \in S : Content(t, o)[column] \in Values(f[column])
  BY <1>1 DEF Scope, GeoCond
<1>5. \A o \in S : Label(Content(t, o)[column]) = Content(t, o)[column]
  BY <1>4 DEF Values, Label
<1> QED
  BY <1>2, <1>3, <1>4, <1>5

FunnelAsked == ({"reachOrders", "reachUnits"} \X {"cur", "prev"}) \cup ({"segment"} \X FunnelAsks)

(* Statements that ran on legal tables, each on its own. *)
LEMMA FunnelStatementsAddUp ==
    ASSUME NEW a, FunnelAsks \subseteq DOMAIN a.filters, NEW got,
           \A st \in FunnelAsked : \E t : Legal(t) /\ got[st] \in Funnel!Execute(t, st, a, got)
    PROVE  /\ Funnel!StatementsAddUp(got) /\ Funnel!FiltersHold(a, got)
           /\ Funnel!Report(got).redeemedNet >= 0
<1>1. ASSUME NEW p \in {"cur", "prev"}
      PROVE  /\ \E t, r : Legal(t) /\ got[<<"reachOrders", p>>] = Funnel!reachOrders(t, r, a.filters)
             /\ \E t, r : Legal(t) /\ got[<<"reachUnits", p>>] = Funnel!reachUnits(t, r, a.filters)
  <2>1. <<"reachOrders", p>> \in FunnelAsked /\ <<"reachUnits", p>> \in FunnelAsked
    BY DEF FunnelAsked
  <2>2. PICK t : Legal(t) /\ got[<<"reachOrders", p>>] \in Funnel!Execute(t, <<"reachOrders", p>>, a, got)
    BY <2>1
  <2>3. PICK u : Legal(u) /\ got[<<"reachUnits", p>>] \in Funnel!Execute(u, <<"reachUnits", p>>, a, got)
    BY <2>1
  <2> QED
    BY <2>2, <2>3, FunnelSays
<1>2. ASSUME NEW p \in {"cur", "prev"}, NEW c, c = got[<<"reachOrders", p>>]
      PROVE  /\ \A k \in 1..5 : /\ c.orders[Funnel!Stages[k + 1]] <= c.orders[Funnel!Stages[k]]
                                /\ c.revenue[Funnel!Stages[k + 1]] <= c.revenue[Funnel!Stages[k]]
             /\ c.fullyReturned <= c.returns /\ c.returns <= c.orders["completed"]
             /\ c.refund <= c.revenue["completed"]
             /\ c.orders["completed"] - c.fullyReturned >= 0
  <2>1. PICK t, r : Legal(t) /\ c = Funnel!reachOrders(t, r, a.filters)
    BY <1>1, <1>2
  <2> QED
    BY <2>1, FunnelNested
<1>3. ASSUME NEW p \in {"cur", "prev"}, NEW k \in 1..5
      PROVE  got[<<"reachUnits", p>>][Funnel!Stages[k + 1]] <= got[<<"reachUnits", p>>][Funnel!Stages[k]]
  <2>1. PICK t, r : Legal(t) /\ got[<<"reachUnits", p>>] = Funnel!reachUnits(t, r, a.filters)
    BY <1>1
  <2> QED
    BY <2>1, FunnelUnitsNested
<1>4. Funnel!StatementsAddUp(got)
  BY <1>2, <1>3 DEF Funnel!StatementsAddUp
<1>5. Funnel!FiltersHold(a, got)
  <2> SUFFICES ASSUME NEW col \in FunnelAsks, Values(a.filters[col]) # {}
               PROVE  DOMAIN got[<<"segment", col>>] \subseteq Values(a.filters[col])
    BY FunnelColumns DEF Funnel!FiltersHold, Funnel!Values, Values
  <2>1. <<"segment", col>> \in FunnelAsked
    BY DEF FunnelAsked
  <2>2. PICK t : got[<<"segment", col>>] \in Funnel!Execute(t, <<"segment", col>>, a, got)
    BY <2>1
  <2>3. Funnel!Execute(t, <<"segment", col>>, a, got) =
            Funnel!segment(t, col, Funnel!Ranges(a, got).cur, a.filters)
    BY FunnelSegments
  <2> QED
    BY <2>2, <2>3, SegmentsFiltered
<1>6. Funnel!Report(got).redeemedNet >= 0
  BY <1>2 DEF Funnel!Report, Funnel!RedeemedNet
<1> QED
  BY <1>4, <1>5, <1>6

(* Statements that ran on the same tables. *)
LEMMA FunnelReportAddsUp ==
    ASSUME NEW t, Legal(t), NEW a, NEW got,
           \A st \in FunnelAsked : got[st] \in Funnel!Execute(t, st, a, got)
    PROVE  Funnel!ReportAddsUp(got)
<1>1. PICK r, f, S : r = Funnel!Ranges(a, got).cur /\ f = a.filters /\ S = Scope(t, r, f)
  OBVIOUS
<1>2. S \in SUBSET Stored(t)
  BY <1>1 DEF Scope
<1>3. PICK c, u : c = got[<<"reachOrders", "cur">>] /\ u = got[<<"reachUnits", "cur">>]
  OBVIOUS
<1>4. c = Funnel!reachOrders(t, r, f) /\ u = Funnel!reachUnits(t, r, f)
  <2>1. <<"reachOrders", "cur">> \in FunnelAsked /\ <<"reachUnits", "cur">> \in FunnelAsked
    BY DEF FunnelAsked
  <2> QED
    BY <1>1, <1>3, <2>1, FunnelSays
<1>5. ASSUME NEW col \in FunnelAsks
      PROVE  got[<<"segment", col>>] \in Funnel!segment(t, col, r, f)
  <2>1. <<"segment", col>> \in FunnelAsked
    BY DEF FunnelAsked
  <2>2. Funnel!Execute(t, <<"segment", col>>, a, got) = Funnel!segment(t, col, r, f)
    BY <1>1, FunnelSegments
  <2> QED
    BY <2>1, <2>2
<1>6. ASSUME NEW k \in FunnelStages, c.orders[k] = 0 PROVE u[k] = 0
  <2>1. PICK T : T = Reaching(t, S, k)
    OBVIOUS
  <2>2. T \in SUBSET T /\ T \in SUBSET Stored(t)
    BY <1>2, <2>1 DEF Reaching
  <2>3. Cardinality(T) = 0 /\ u[k] = Units(t, T)
    BY <1>1, <1>4, <1>6, <2>1, FunnelOrders, FunnelUnits
  <2> QED
    BY <2>2, <2>3, PartOf
<1>7. PICK A, B, C, P, Q : /\ A = Having(t, S, "completed") /\ B = Having(t, S, "returned")
                           /\ C = Reaching(t, S, "completed")
                           /\ P = Having(t, S, "paid") /\ Q = Reaching(t, S, "paid")
  OBVIOUS
<1>8. Cardinality(A) + Cardinality(B) = Cardinality(C)
  <2>1. A \in SUBSET C /\ B \in SUBSET C /\ A \cap B = {} /\ A \cup B = C /\ C \in SUBSET Stored(t)
    BY <1>2, <1>7, HavingIs, FunnelNests DEF RedeemedGross, Completed, Returned
  <2> QED
    BY <2>1, TwoParts
<1>9. Cardinality(P) <= Cardinality(Q)
  <2>1. P \in SUBSET Q /\ Q \in SUBSET Stored(t)
    BY <1>2, <1>7, HavingIs, FunnelReached DEF Reaching, PaidReach
  <2> QED
    BY <2>1, PartOf
<1>10. /\ c.orders["created"] = Cardinality(S) /\ c.canceled = Cardinality(Having(t, S, "canceled"))
       /\ c.problems = Cardinality(Having(t, S, "problem"))
       /\ c.returns = Cardinality(B) /\ c.orders["completed"] = Cardinality(C)
       /\ c.orders["paid"] = Cardinality(Q)
  BY <1>1, <1>4, <1>7, FunnelOrders, FunnelNests DEF FunnelStages
<1>11. ASSUME NEW col \in FunnelAsks, NEW rows, rows = got[<<"segment", col>>],
              Funnel!Cardinality(DOMAIN rows) < Limits.segment
       PROVE  /\ Funnel!SumOf(rows, "orders") = c.orders["created"]
              /\ Funnel!SumOf(rows, "canceled") = c.canceled
              /\ Funnel!SumOf(rows, "problems") = c.problems
              /\ Funnel!SumOf(rows, "paid") <= c.orders["paid"]
              /\ Funnel!SumOf(rows, "completed") + c.returns = c.orders["completed"]
  <2>1. /\ Funnel!SumOf(rows, "orders") = Cardinality(S)
        /\ Funnel!SumOf(rows, "canceled") = Cardinality(Having(t, S, "canceled"))
        /\ Funnel!SumOf(rows, "problems") = Cardinality(Having(t, S, "problem"))
        /\ Funnel!SumOf(rows, "paid") = Cardinality(P)
        /\ Funnel!SumOf(rows, "completed") = Cardinality(A)
    BY <1>1, <1>5, <1>7, <1>11, SegmentsAddUp
  <2> QED
    BY <1>8, <1>9, <1>10, <2>1
<1> QED
  BY <1>3, <1>6, <1>11, FunnelOrder, FunnelColumns DEF Funnel!ReportAddsUp

-----------------------------------------------------------------------------
(* The key figures. *)
MetricsStages == {"Created", "Paid", "InTransit", "Completed", "RedeemedGross",
                  "RedeemedNet", "Terminal", "PaidTerminal"}

LEMMA MetricsStaged ==
    ASSUME NEW t, NEW S
    PROVE  \A o :
        /\ o \in Metrics!InStage(t, S, "Created") <=> o \in S
        /\ o \in Metrics!InStage(t, S, "Paid") <=> o \in S /\ PaidReach(Content(t, o))
        /\ o \in Metrics!InStage(t, S, "Completed") <=> o \in S /\ Completed(Content(t, o))
        /\ o \in Metrics!InStage(t, S, "RedeemedGross") <=> o \in S /\ RedeemedGross(Content(t, o))
        /\ o \in Metrics!InStage(t, S, "RedeemedNet") <=>
               o \in S /\ RedeemedGross(Content(t, o)) /\ ~FullyReturned(Content(t, o))
        /\ o \in Metrics!InStage(t, S, "Terminal") <=> o \in S /\ Terminal(Content(t, o))
        /\ o \in Metrics!InStage(t, S, "PaidTerminal") <=>
               o \in S /\ Content(t, o).paid /\ Terminal(Content(t, o))
<1>1. ASSUME NEW o
      PROVE  LET c == Content(t, o) IN
             /\ Metrics!Conditions(c)["Created"]
             /\ Metrics!Conditions(c)["Paid"] <=> PaidReach(c)
             /\ Metrics!Conditions(c)["Completed"] <=> Completed(c)
             /\ Metrics!Conditions(c)["RedeemedGross"] <=> RedeemedGross(c)
             /\ Metrics!Conditions(c)["RedeemedNet"] <=> RedeemedGross(c) /\ ~FullyReturned(c)
             /\ Metrics!Conditions(c)["Terminal"] <=> Terminal(c)
             /\ Metrics!Conditions(c)["PaidTerminal"] <=> c.paid /\ Terminal(c)
  <2>1. PICK c : c = Content(t, o)
    OBVIOUS
  <2>2. /\ Metrics!PaidReach(c) <=> PaidReach(c)
        /\ Metrics!Completed(c) <=> Completed(c)
        /\ Metrics!RedeemedGross(c) <=> RedeemedGross(c)
        /\ Metrics!NotFullyReturned(c) <=> RedeemedGross(c) /\ ~FullyReturned(c)
        /\ Metrics!Terminal(c) <=> Terminal(c)
        /\ Metrics!PaidTerminal(c) <=> c.paid /\ Terminal(c)
    BY DEF Metrics!PaidReach, Metrics!Advanced, Metrics!Completed, Metrics!RedeemedGross,
           Metrics!NotFullyReturned, Metrics!FullyReturned, Metrics!Returned, Metrics!Terminal,
           Metrics!PaidTerminal, PaidReach, Advanced, Completed, RedeemedGross, FullyReturned,
           Returned, Terminal
  <2>3. PICK y : y = Metrics!Conditions(c)
    OBVIOUS
  <2>4. /\ y["Created"]
        /\ y["Paid"] <=> Metrics!PaidReach(c)
        /\ y["Completed"] <=> Metrics!Completed(c)
        /\ y["RedeemedGross"] <=> Metrics!RedeemedGross(c)
        /\ y["RedeemedNet"] <=> Metrics!NotFullyReturned(c)
        /\ y["Terminal"] <=> Metrics!Terminal(c)
        /\ y["PaidTerminal"] <=> Metrics!PaidTerminal(c)
    BY <2>3 DEF Metrics!Conditions
  <2> QED
    BY <2>1, <2>2, <2>3, <2>4
<1>2. \A o : Metrics!Content(t, o) = Content(t, o)
  BY DEF Metrics!Content, Content
<1> QED
  BY <1>1, <1>2 DEF Metrics!InStage

(* Which stage holds orders of another only. *)
LEMMA MetricsNests ==
    ASSUME NEW t, NEW S \in SUBSET Stored(t)
    PROVE  LET In(k) == Metrics!InStage(t, S, k) IN
           /\ \A k : In(k) \in SUBSET Stored(t)
           /\ In("Created") = S /\ In("Paid") \in SUBSET In("Created")
           /\ In("RedeemedNet") \in SUBSET In("RedeemedGross")
           /\ In("Completed") \in SUBSET In("RedeemedGross")
           /\ In("RedeemedGross") \in SUBSET In("Paid")
           /\ In("PaidTerminal") \in SUBSET In("Paid")
           /\ In("PaidTerminal") \in SUBSET In("Terminal")
           /\ Having(t, S, "returned") \in SUBSET In("RedeemedGross")
           /\ Having(t, S, "paid") \in SUBSET In("Paid")
           /\ Having(t, S, "redeemed") = In("RedeemedGross")
<1>1. \A k : Metrics!InStage(t, S, k) \in SUBSET Stored(t)
  BY DEF Metrics!InStage
<1>2. \A o : LET c == Content(t, o) IN
          /\ Completed(c) => RedeemedGross(c)
          /\ RedeemedGross(c) => PaidReach(c)
          /\ c.paid => PaidReach(c)
          /\ Returned(c) => RedeemedGross(c)
  BY DEF Completed, RedeemedGross, PaidReach, Advanced, Returned
<1>3. PICK made, paid, done, gross, net, end, both :
          /\ made = Metrics!InStage(t, S, "Created") /\ paid = Metrics!InStage(t, S, "Paid")
          /\ done = Metrics!InStage(t, S, "Completed") /\ gross = Metrics!InStage(t, S, "RedeemedGross")
          /\ net = Metrics!InStage(t, S, "RedeemedNet") /\ end = Metrics!InStage(t, S, "Terminal")
          /\ both = Metrics!InStage(t, S, "PaidTerminal")
  OBVIOUS
<1>4. \A o : LET c == Content(t, o) IN
          /\ o \in made <=> o \in S
          /\ o \in paid <=> o \in S /\ PaidReach(c)
          /\ o \in done <=> o \in S /\ Completed(c)
          /\ o \in gross <=> o \in S /\ RedeemedGross(c)
          /\ o \in net <=> o \in S /\ RedeemedGross(c) /\ ~FullyReturned(c)
          /\ o \in end <=> o \in S /\ Terminal(c)
          /\ o \in both <=> o \in S /\ c.paid /\ Terminal(c)
  BY <1>3, MetricsStaged, Zenon
<1>5. /\ made = S /\ paid \subseteq made /\ net \subseteq gross /\ done \subseteq gross
      /\ gross \subseteq paid /\ both \subseteq paid /\ both \subseteq end
  BY <1>2, <1>4
<1>6. \A o : LET c == Content(t, o) IN
          /\ o \in Having(t, S, "returned") <=> o \in S /\ Returned(c)
          /\ o \in Having(t, S, "paid") <=> o \in S /\ c.paid
          /\ o \in Having(t, S, "redeemed") <=> o \in S /\ RedeemedGross(c)
  BY HavingIs, Zenon
<1>7. /\ Having(t, S, "returned") \subseteq gross /\ Having(t, S, "paid") \subseteq paid
      /\ Having(t, S, "redeemed") = gross
  BY <1>2, <1>4, <1>6
<1> QED
  BY <1>1, <1>3, <1>5, <1>7

LEMMA MetricsCounts ==
    ASSUME NEW t, NEW r, NEW f, NEW S, S = Scope(t, r, f)
    PROVE  LET k == Metrics!counts(t, r, f) IN
           /\ DOMAIN k = {"orders", "netOrders", "revenue", "paidOrders", "canceledOrders",
                          "customers", "completed", "terminal", "inTransit", "redeemedGross",
                          "returnedOrders", "fullyReturned", "refundAmount"}
           /\ k.orders = Cardinality(S) /\ k.revenue = Revenue(t, S)
           /\ k.netOrders = Cardinality(Having(t, S, "net"))
           /\ k.paidOrders = Cardinality(Having(t, S, "paid"))
           /\ k.canceledOrders = Cardinality(Having(t, S, "canceled"))
           /\ k.completed = Cardinality(Having(t, S, "completed"))
           /\ k.redeemedGross = Cardinality(Having(t, S, "redeemed"))
           /\ k.returnedOrders = Cardinality(Having(t, S, "returned"))
           /\ k.fullyReturned = Cardinality(Having(t, S, "fullyReturned"))
<1>1. PICK k : k = Metrics!counts(t, r, f)
  OBVIOUS
<1>2. /\ k.orders = Metrics!Cardinality(S) /\ k.revenue = Metrics!Revenue(t, S)
      /\ k.netOrders = Metrics!Cardinality(Metrics!Those(t, S, Metrics!Net))
      /\ k.paidOrders = Metrics!Cardinality(Metrics!Those(t, S, Metrics!Paid))
      /\ k.canceledOrders = Metrics!Cardinality(Metrics!Those(t, S, Metrics!Canceled))
      /\ k.completed = Metrics!Cardinality(Metrics!Those(t, S, Metrics!Completed))
      /\ k.redeemedGross = Metrics!Cardinality(Metrics!Those(t, S, Metrics!RedeemedGross))
      /\ k.returnedOrders = Metrics!Cardinality(Metrics!Those(t, S, Metrics!Returned))
      /\ k.fullyReturned = Metrics!Cardinality(Metrics!Those(t, S, Metrics!FullyReturned))
  BY <1>1, SameScope DEF Metrics!counts, Metrics!Count
<1>3. /\ Metrics!Those(t, S, Metrics!Net) = Having(t, S, "net")
      /\ Metrics!Those(t, S, Metrics!Paid) = Having(t, S, "paid")
      /\ Metrics!Those(t, S, Metrics!Canceled) = Having(t, S, "canceled")
      /\ Metrics!Those(t, S, Metrics!Completed) = Having(t, S, "completed")
      /\ Metrics!Those(t, S, Metrics!RedeemedGross) = Having(t, S, "redeemed")
      /\ Metrics!Those(t, S, Metrics!Returned) = Having(t, S, "returned")
      /\ Metrics!Those(t, S, Metrics!FullyReturned) = Having(t, S, "fullyReturned")
  BY HavingIs
     DEF Metrics!Those, Metrics!Content, Content, Metrics!Net, Metrics!Paid, Metrics!Canceled,
         Metrics!Completed, Metrics!RedeemedGross, Metrics!Returned, Metrics!FullyReturned,
         Completed, RedeemedGross, Returned, FullyReturned
<1>4. DOMAIN k = {"orders", "netOrders", "revenue", "paidOrders", "canceledOrders",
                  "customers", "completed", "terminal", "inTransit", "redeemedGross",
                  "returnedOrders", "fullyReturned", "refundAmount"}
  BY <1>1 DEF Metrics!counts
<1> QED
  BY <1>1, <1>2, <1>3, <1>4, SameSize, SameRevenue

(* The names of customers. *)
NamesOf(t, S) == {Content(t, o).customer : o \in S}
Known(t, S) == {o \in S : Content(t, o).customer # ""}
PaidOrKnown(t, S) ==
    {o \in S : Content(t, o).paid \/ (Content(t, o).stage \in Advanced /\ Content(t, o).customer # "")}

LEMMA NamesGrow ==
    ASSUME NEW t, Legal(t), NEW B \in SUBSET Stored(t), NEW A \in SUBSET B
    PROVE  /\ IsFiniteSet(NamesOf(t, B)) /\ NamesOf(t, A) \subseteq NamesOf(t, B)
           /\ Cardinality(NamesOf(t, A)) \in Nat /\ Cardinality(NamesOf(t, B)) \in Nat
           /\ Cardinality(NamesOf(t, A)) <= Cardinality(NamesOf(t, B))
           /\ Known(t, A) \in SUBSET Known(t, B) /\ Known(t, B) \in SUBSET Stored(t)
<1>1. PICK name : name = [o \in B |-> Content(t, o).customer]
  OBVIOUS
<1>2. NamesOf(t, A) = {name[o] : o \in A} /\ NamesOf(t, B) = {name[o] : o \in B}
  BY <1>1 DEF NamesOf
<1>3. IsFiniteSet(B)
  BY PartOf
<1>4. IsFiniteSet(NamesOf(t, B))
  BY <1>2, <1>3, ImageIsFinite
<1>5. NamesOf(t, A) \subseteq NamesOf(t, B)
  BY DEF NamesOf
<1>6. IsFiniteSet(NamesOf(t, A)) /\ Cardinality(NamesOf(t, A)) <= Cardinality(NamesOf(t, B))
  BY <1>4, <1>5, FS_Subset
<1> QED
  BY <1>4, <1>5, <1>6, FS_CardinalityType DEF Known

LEMMA MetricsCustomers ==
    ASSUME NEW t, NEW S
    PROVE  /\ Metrics!NamedCustomers(t, S) = Cardinality(NamesOf(t, Known(t, S)))
           /\ Metrics!PaidCustomers(t, S) = Cardinality(NamesOf(t, PaidOrKnown(t, S)))
<1>1. \A T : Metrics!Customers(t, T) = Cardinality(NamesOf(t, T))
  BY SameSize DEF Metrics!Customers, NamesOf, Metrics!Content, Content
<1>2. Metrics!Those(t, S, Metrics!Named) = Known(t, S)
  BY DEF Metrics!Those, Metrics!Named, Metrics!Content, Known, Content
<1>3. {o \in S : Metrics!Content(t, o).paid \/
                 (Metrics!Content(t, o).stage \in Metrics!Advanced /\ Metrics!Named(Metrics!Content(t, o)))} =
          PaidOrKnown(t, S)
  BY DEF Metrics!Named, Metrics!Content, PaidOrKnown, Content, Metrics!Advanced, Advanced
<1>4. Metrics!NamedCustomers(t, S) = Cardinality(NamesOf(t, Known(t, S)))
  BY <1>1, <1>2 DEF Metrics!NamedCustomers
<1>5. Metrics!PaidCustomers(t, S) = Cardinality(NamesOf(t, PaidOrKnown(t, S)))
  BY <1>1, <1>3 DEF Metrics!PaidCustomers, Metrics!Those
<1> QED
  BY <1>4, <1>5

LEMMA MetricsSums ==
    ASSUME NEW t, NEW r, NEW f, NEW S, S = Scope(t, r, f)
    PROVE  LET s == Metrics!stages(t, r, f) IN
           /\ \A k \in MetricsStages : s.revenue[k] = Total(t, Metrics!InStage(t, S, k), "total")
           /\ \A k \in MetricsStages \ {"Paid"} :
                 s.customers[k] = Cardinality(NamesOf(t, Known(t, Metrics!InStage(t, S, k))))
           /\ s.customers["Paid"] = Cardinality(NamesOf(t, PaidOrKnown(t, S)))
           /\ s.refund = Refunded(t, S)
           /\ s.orders["Paid"] = Cardinality(Metrics!InStage(t, S, "Paid"))
           /\ \A k \in MetricsStages :
                 Metrics!stageUnits(t, r, f)[k] = Units(t, Metrics!InStage(t, S, k))
<1>1. PICK s, u : s = Metrics!stages(t, r, f) /\ u = Metrics!stageUnits(t, r, f)
  OBVIOUS
<1>2. Metrics!StageNames = MetricsStages
  BY DEF Metrics!StageNames, MetricsStages
<1>3. Metrics!Scope(t, r, f) = S
  BY SameScope
<1>4. /\ \A k \in MetricsStages : s.revenue[k] = Metrics!Total(t, Metrics!InStage(t, S, k), "total")
      /\ s.refund = Metrics!Refunded(t, S)
      /\ s.orders["Paid"] = Metrics!Cardinality(Metrics!InStage(t, S, "Paid"))
      /\ \A k \in MetricsStages \ {"Paid"} :
            s.customers[k] = Metrics!NamedCustomers(t, Metrics!InStage(t, S, k))
      /\ s.customers["Paid"] = Metrics!PaidCustomers(t, S)
  BY <1>1, <1>2, <1>3 DEF Metrics!stages, MetricsStages
<1>5. \A k \in MetricsStages : u[k] = Metrics!Units(t, Metrics!InStage(t, S, k))
  BY <1>1, <1>2, <1>3 DEF Metrics!stageUnits
<1> QED
  BY <1>1, <1>4, <1>5, SameTotal, SameRevenue, SameSize, SameUnits, MetricsCustomers

LEMMA MetricsFit ==
    ASSUME NEW t, Legal(t), NEW r, NEW f, NEW k, k = Metrics!counts(t, r, f)
    PROVE  /\ k.netOrders + k.canceledOrders = k.orders
           /\ k.redeemedGross = k.completed + k.returnedOrders
           /\ k.fullyReturned <= k.returnedOrders
<1>1. PICK S : S = Scope(t, r, f) /\ S \in SUBSET Stored(t)
  BY DEF Scope
<1>2. PICK net, lost, done, back, all, gross :
          /\ net = Having(t, S, "net") /\ lost = Having(t, S, "canceled")
          /\ done = Having(t, S, "completed") /\ back = Having(t, S, "returned")
          /\ all = Having(t, S, "fullyReturned") /\ gross = Having(t, S, "redeemed")
  OBVIOUS
<1>3. \A o : LET c == Content(t, o) IN
          /\ o \in net <=> o \in S /\ ~c.canceled
          /\ o \in lost <=> o \in S /\ c.canceled
          /\ o \in done <=> o \in S /\ Completed(c)
          /\ o \in back <=> o \in S /\ Returned(c)
          /\ o \in all <=> o \in S /\ FullyReturned(c)
          /\ o \in gross <=> o \in S /\ RedeemedGross(c)
  BY <1>2, HavingIs, Zenon
<1>4. /\ net \in SUBSET S /\ lost \in SUBSET S /\ net \cap lost = {} /\ net \cup lost = S
      /\ done \in SUBSET gross /\ back \in SUBSET gross /\ done \cap back = {} /\ done \cup back = gross
      /\ all \in SUBSET back /\ gross \in SUBSET Stored(t) /\ back \in SUBSET Stored(t)
  BY <1>1, <1>3 DEF Completed, Returned, FullyReturned, RedeemedGross
<1>5. /\ Cardinality(net) + Cardinality(lost) = Cardinality(S)
      /\ Cardinality(done) + Cardinality(back) = Cardinality(gross)
      /\ Cardinality(all) <= Cardinality(back)
  BY <1>1, <1>4, TwoParts, PartOf
<1> QED
  BY <1>1, <1>2, <1>5, MetricsCounts

LEMMA MetricsSumsFit ==
    ASSUME NEW t, Legal(t), NEW r, NEW f, NEW s, s = Metrics!stages(t, r, f)
    PROVE  /\ s.revenue["RedeemedNet"] <= s.revenue["RedeemedGross"]
           /\ s.revenue["Completed"] <= s.revenue["RedeemedGross"]
           /\ s.revenue["RedeemedGross"] <= s.revenue["Paid"]
           /\ s.revenue["PaidTerminal"] <= s.revenue["Paid"]
           /\ s.revenue["PaidTerminal"] <= s.revenue["Terminal"]
           /\ s.revenue["Paid"] <= s.revenue["Created"]
           /\ s.refund <= s.revenue["RedeemedGross"]
           /\ s.revenue["RedeemedGross"] - s.refund >= 0
<1>1. PICK S : S = Scope(t, r, f) /\ S \in SUBSET Stored(t)
  BY DEF Scope
<1>2. PICK in : in = [k \in MetricsStages |-> Metrics!InStage(t, S, k)]
  OBVIOUS
<1>3. /\ in["Paid"] \in SUBSET in["Created"] /\ in["RedeemedNet"] \in SUBSET in["RedeemedGross"]
      /\ in["Completed"] \in SUBSET in["RedeemedGross"] /\ in["RedeemedGross"] \in SUBSET in["Paid"]
      /\ in["PaidTerminal"] \in SUBSET in["Paid"] /\ in["PaidTerminal"] \in SUBSET in["Terminal"]
      /\ Having(t, S, "returned") \in SUBSET in["RedeemedGross"]
      /\ \A k \in MetricsStages : in[k] \in SUBSET Stored(t)
  BY <1>1, <1>2, MetricsNests DEF MetricsStages
<1>4. /\ \A k \in MetricsStages : s.revenue[k] = Total(t, in[k], "total")
      /\ s.refund = Total(t, Having(t, S, "returned"), "refund")
  BY <1>1, <1>2, MetricsSums, SameRevenue
<1>5. ASSUME NEW k \in MetricsStages, NEW l \in MetricsStages, in[k] \in SUBSET in[l]
      PROVE  s.revenue[k] <= s.revenue[l]
  <2>1. in[l] \in SUBSET Stored(t)
    BY <1>3
  <2> QED
    BY <1>4, <1>5, <2>1, PartOf DEF Amounts
<1>6. s.refund <= s.revenue["RedeemedGross"] /\ s.refund \in Nat /\ s.revenue["RedeemedGross"] \in Nat
  <2>1. PICK A, B : A = Having(t, S, "returned") /\ B = in["RedeemedGross"]
    OBVIOUS
  <2>2. A \in SUBSET B /\ B \in SUBSET Stored(t)
    BY <1>3, <2>1 DEF MetricsStages
  <2>3. s.refund = Total(t, A, "refund") /\ s.revenue["RedeemedGross"] = Total(t, B, "total")
    BY <1>4, <2>1 DEF MetricsStages
  <2> QED
    BY <2>2, <2>3, PartOf DEF Amounts
<1>7. {"Created", "Paid", "Completed", "RedeemedGross", "RedeemedNet", "Terminal", "PaidTerminal"}
          \subseteq MetricsStages
  BY DEF MetricsStages
<1>8. /\ s.revenue["RedeemedNet"] <= s.revenue["RedeemedGross"]
      /\ s.revenue["Completed"] <= s.revenue["RedeemedGross"]
      /\ s.revenue["RedeemedGross"] <= s.revenue["Paid"]
      /\ s.revenue["PaidTerminal"] <= s.revenue["Paid"]
      /\ s.revenue["PaidTerminal"] <= s.revenue["Terminal"]
      /\ s.revenue["Paid"] <= s.revenue["Created"]
  BY <1>3, <1>5, <1>7
<1>9. s.revenue["RedeemedGross"] - s.refund >= 0
  BY <1>6
<1> QED
  BY <1>6, <1>8, <1>9

LEMMA MetricsCustomersFit ==
    ASSUME NEW t, Legal(t), NEW r, NEW f, NEW c, c = Metrics!stages(t, r, f).customers
    PROVE  /\ c["RedeemedNet"] <= c["RedeemedGross"] /\ c["Completed"] <= c["RedeemedGross"]
           /\ c["RedeemedGross"] <= c["Paid"] /\ c["PaidTerminal"] <= c["Paid"]
           /\ c["PaidTerminal"] <= c["Terminal"] /\ c["Paid"] <= c["Created"] + 1
<1>1. PICK S : S = Scope(t, r, f) /\ S \in SUBSET Stored(t)
  BY DEF Scope
<1>2. PICK in : in = [k \in MetricsStages |-> Metrics!InStage(t, S, k)]
  OBVIOUS
<1>3. /\ in["Created"] = S /\ in["RedeemedNet"] \in SUBSET in["RedeemedGross"]
      /\ in["Completed"] \in SUBSET in["RedeemedGross"]
      /\ in["PaidTerminal"] \in SUBSET in["Terminal"]
      /\ \A k \in MetricsStages : in[k] \in SUBSET Stored(t)
  BY <1>1, <1>2, MetricsNests DEF MetricsStages
<1>4. /\ \A k \in MetricsStages \ {"Paid"} : c[k] = Cardinality(NamesOf(t, Known(t, in[k])))
      /\ c["Paid"] = Cardinality(NamesOf(t, PaidOrKnown(t, S)))
  BY <1>1, <1>2, MetricsSums
<1>5. {"Created", "Completed", "RedeemedGross", "RedeemedNet", "Terminal", "PaidTerminal"}
          \subseteq MetricsStages \ {"Paid"}
  BY DEF MetricsStages
<1>6. ASSUME NEW k \in MetricsStages \ {"Paid"}, NEW l \in MetricsStages \ {"Paid"}, in[k] \in SUBSET in[l]
      PROVE  c[k] <= c[l]
  <2>1. PICK A, B : A = Known(t, in[k]) /\ B = Known(t, in[l])
    OBVIOUS
  <2>2. A \in SUBSET B /\ B \in SUBSET Stored(t)
    BY <1>3, <1>6, <2>1, NamesGrow
  <2> QED
    BY <1>4, <2>1, <2>2, NamesGrow
<1>7. PICK few : few = PaidOrKnown(t, S) /\ few \in SUBSET Stored(t)
  BY <1>1 DEF PaidOrKnown
<1>8. ASSUME NEW k \in {"RedeemedGross", "PaidTerminal"} PROVE c[k] <= c["Paid"]
  <2>1. PICK A : A = Known(t, in[k])
    OBVIOUS
  <2>2. A \in SUBSET few
    <3>1. \A o \in in[k] : /\ o \in S
                           /\ RedeemedGross(Content(t, o)) \/ Content(t, o).paid
      BY <1>2, <1>5, MetricsStaged
    <3>2. \A o \in A : o \in in[k] /\ Content(t, o).customer # ""
      BY <2>1 DEF Known
    <3> QED
      BY <1>7, <3>1, <3>2 DEF PaidOrKnown, RedeemedGross, Advanced
  <2>3. c[k] = Cardinality(NamesOf(t, A)) /\ c["Paid"] = Cardinality(NamesOf(t, few))
    BY <1>4, <1>5, <1>7, <2>1
  <2> QED
    BY <1>7, <2>2, <2>3, NamesGrow
<1>9. c["Paid"] <= c["Created"] + 1
  <2>1. PICK A, B : A = NamesOf(t, few) /\ B = NamesOf(t, Known(t, S))
    OBVIOUS
  <2>2. A \subseteq B \cup {""}
    <3> SUFFICES ASSUME NEW o \in few, Content(t, o).customer # ""
                 PROVE  Content(t, o).customer \in B
      BY <2>1 DEF NamesOf
    <3>1. o \in Known(t, S)
      BY <1>7 DEF Known, PaidOrKnown
    <3> QED
      BY <2>1, <3>1 DEF NamesOf
  <2>3. IsFiniteSet(B) /\ Cardinality(B) \in Nat
    <3>1. Known(t, S) \in SUBSET Known(t, S) /\ Known(t, S) \in SUBSET Stored(t)
      BY <1>1 DEF Known
    <3> QED
      BY <2>1, <3>1, NamesGrow
  <2>4. PICK C : A \subseteq C /\ IsFiniteSet(C) /\ Cardinality(C) <= Cardinality(B) + 1
    <3>1. PICK e, C : C = B \cup {e} /\ e = "" /\ A \subseteq C
      BY <2>2
    <3>2. /\ IsFiniteSet(C)
          /\ Cardinality(C) = IF e \in B THEN Cardinality(B) ELSE Cardinality(B) + 1
      BY <2>3, <3>1, FS_AddElement
    <3>3. Cardinality(C) = Cardinality(B) \/ Cardinality(C) = Cardinality(B) + 1
      BY <3>2
    <3>4. Cardinality(C) <= Cardinality(B) + 1
      BY <2>3, <3>3
    <3> QED
      BY <3>1, <3>2, <3>4
  <2>5. Cardinality(A) <= Cardinality(C) /\ Cardinality(A) \in Nat /\ Cardinality(C) \in Nat
    BY <2>4, FS_Subset, FS_CardinalityType
  <2>6. c["Paid"] = Cardinality(A) /\ c["Created"] = Cardinality(B)
    BY <1>3, <1>4, <1>5, <1>7, <2>1
  <2>7. Cardinality(A) <= Cardinality(B) + 1
    BY <2>3, <2>4, <2>5
  <2> QED
    BY <2>6, <2>7
<1> QED
  BY <1>3, <1>5, <1>6, <1>8, <1>9

LEMMA MetricsUnitsFit ==
    ASSUME NEW t, Legal(t), NEW r, NEW f, NEW u, u = Metrics!stageUnits(t, r, f)
    PROVE  /\ u["RedeemedNet"] <= u["RedeemedGross"] /\ u["Completed"] <= u["RedeemedGross"]
           /\ u["RedeemedGross"] <= u["Paid"] /\ u["PaidTerminal"] <= u["Paid"]
           /\ u["PaidTerminal"] <= u["Terminal"]
<1>1. PICK S : S = Scope(t, r, f) /\ S \in SUBSET Stored(t)
  BY DEF Scope
<1>2. PICK in : in = [k \in MetricsStages |-> Metrics!InStage(t, S, k)]
  OBVIOUS
<1>3. /\ in["RedeemedNet"] \in SUBSET in["RedeemedGross"]
      /\ in["Completed"] \in SUBSET in["RedeemedGross"] /\ in["RedeemedGross"] \in SUBSET in["Paid"]
      /\ in["PaidTerminal"] \in SUBSET in["Paid"] /\ in["PaidTerminal"] \in SUBSET in["Terminal"]
      /\ \A k \in MetricsStages : in[k] \in SUBSET Stored(t)
  BY <1>1, <1>2, MetricsNests DEF MetricsStages
<1>4. \A k \in MetricsStages : u[k] = Units(t, in[k])
  BY <1>1, <1>2, MetricsSums
<1>5. ASSUME NEW k \in MetricsStages, NEW l \in MetricsStages, in[k] \in SUBSET in[l]
      PROVE  u[k] <= u[l]
  <2>1. in[l] \in SUBSET Stored(t)
    BY <1>3
  <2> QED
    BY <1>4, <1>5, <2>1, PartOf
<1>6. {"Paid", "Completed", "RedeemedGross", "RedeemedNet", "Terminal", "PaidTerminal"}
          \subseteq MetricsStages
  BY DEF MetricsStages
<1> QED
  BY <1>3, <1>5, <1>6

(* What the statements answer. *)
LEMMA MetricsSays ==
    ASSUME NEW t, NEW a, NEW got, NEW p
    PROVE  /\ Metrics!Execute(t, <<"counts", p>>, a, got) =
                  {Metrics!counts(t, Metrics!Ranges(a, got)[p], a.filters)}
           /\ Metrics!Execute(t, <<"netUnits", p>>, a, got) =
                  {Metrics!netUnits(t, Metrics!Ranges(a, got)[p], a.filters)}
           /\ Metrics!Execute(t, <<"stages", p>>, a, got) =
                  {Metrics!stages(t, Metrics!Ranges(a, got)[p], a.filters)}
           /\ Metrics!Execute(t, <<"repeatCustomers", p>>, a, got) =
                  {Metrics!repeatCustomers(t, Metrics!Ranges(a, got)[p], a.filters)}
           /\ Metrics!Execute(t, <<"canceledCustomers", p>>, a, got) =
                  {Metrics!canceledCustomers(t, Metrics!Ranges(a, got)[p], a.filters)}
           /\ Metrics!Execute(t, <<"stageUnits", p>>, a, got) =
                  {Metrics!stageUnits(t, Metrics!Ranges(a, got)[p], a.filters)}
           /\ Metrics!Execute(t, <<"funnel", p>>, a, got) =
                  {Metrics!funnel(t, Metrics!Ranges(a, got)[p], a.filters)}
  BY DEF Metrics!Execute

LEMMA MetricsRows ==
    ASSUME NEW t, NEW a, NEW got, NEW p, NEW k
    PROVE  /\ Metrics!Execute(t, <<"groupOrders", p, k>>, a, got) =
                  Metrics!groupOrders(t, k, Metrics!Ranges(a, got)[p], a.filters)
           /\ Metrics!Execute(t, <<"groupProducts", p, k>>, a, got) =
                  Metrics!groupProducts(t, k, Metrics!Ranges(a, got)[p], a.filters)
           /\ Metrics!Execute(t, <<"topCustomers", p, k>>, a, got) =
                  Metrics!topCustomersQuery(t, Metrics!Ranges(a, got)[p], a.filters, k)
  BY DEF Metrics!Execute

MetricsAsked ==
    ({"counts", "netUnits", "stages", "repeatCustomers", "canceledCustomers", "stageUnits", "funnel"}
        \X {"cur", "prev"})
    \cup ({"groupOrders"} \X {"cur", "prev"} \X {"channel", "payment", "delivery", "region"})
    \cup ({"groupProducts"} \X {"cur", "prev"} \X {"name", "category", "gender", "brand"})
    \cup ({"topCustomers"} \X {"cur", "prev"} \X {"revenue", "orders"})

(* The figures that are not columns of the two first statements. *)
KpiOwn(k, s, repeated, lost, u) ==
    LET Stage(name, orders) == Metrics!makeStage(orders, s.revenue[name], u[name], s.customers[name])
    IN  [repeatCustomers |-> repeated, canceledCustomers |-> lost,
         stages |->
            [Created       |-> Stage("Created", k.orders),
             Paid          |-> Stage("Paid", s.orders["Paid"]),
             InTransit     |-> Stage("InTransit", k.inTransit),
             Completed     |-> Stage("Completed", k.completed),
             RedeemedGross |-> Stage("RedeemedGross", k.redeemedGross),
             Returns       |-> Metrics!makeStage(k.returnedOrders, s.refund, 0, s.returned),
             RedeemedNet   |-> Metrics!RedeemedNetStage(k, s, u),
             Terminal      |-> Stage("Terminal", k.terminal),
             PaidTerminal  |-> Stage("PaidTerminal", s.orders["PaidTerminal"])]]

LEMMA MetricsStatementsAddUp ==
    ASSUME NEW a, NEW got,
           \A st \in MetricsAsked : \E t : Legal(t) /\ got[st] \in Metrics!Execute(t, st, a, got)
    PROVE  /\ Metrics!StatementsAddUp(got)
           /\ Metrics!Report(got).cur.kpi.stages.RedeemedNet.revenue >= 0
<1>1. ASSUME NEW p \in {"cur", "prev"}
      PROVE  /\ \E t, r : Legal(t) /\ got[<<"counts", p>>] = Metrics!counts(t, r, a.filters)
             /\ \E t, r : Legal(t) /\ got[<<"netUnits", p>>] = Metrics!netUnits(t, r, a.filters)
             /\ \E t, r : Legal(t) /\ got[<<"stages", p>>] = Metrics!stages(t, r, a.filters)
             /\ \E t, r : Legal(t) /\ got[<<"stageUnits", p>>] = Metrics!stageUnits(t, r, a.filters)
  <2>1. <<"counts", p>> \in MetricsAsked /\ <<"stages", p>> \in MetricsAsked
        /\ <<"stageUnits", p>> \in MetricsAsked /\ <<"netUnits", p>> \in MetricsAsked
    BY DEF MetricsAsked
  <2>2. PICK t : Legal(t) /\ got[<<"counts", p>>] \in Metrics!Execute(t, <<"counts", p>>, a, got)
    BY <2>1
  <2>3. PICK u : Legal(u) /\ got[<<"stages", p>>] \in Metrics!Execute(u, <<"stages", p>>, a, got)
    BY <2>1
  <2>4. PICK v : Legal(v) /\ got[<<"stageUnits", p>>] \in Metrics!Execute(v, <<"stageUnits", p>>, a, got)
    BY <2>1
  <2>5. PICK w : Legal(w) /\ got[<<"netUnits", p>>] \in Metrics!Execute(w, <<"netUnits", p>>, a, got)
    BY <2>1
  <2>6. PICK r : r = Metrics!Ranges(a, got)[p]
    OBVIOUS
  <2>7. Metrics!Execute(t, <<"counts", p>>, a, got) =
              {Metrics!counts(t, Metrics!Ranges(a, got)[p], a.filters)}
    BY DEF Metrics!Execute
  <2>8. Metrics!Execute(u, <<"stages", p>>, a, got) =
              {Metrics!stages(u, Metrics!Ranges(a, got)[p], a.filters)}
    BY DEF Metrics!Execute
  <2>9. Metrics!Execute(v, <<"stageUnits", p>>, a, got) =
              {Metrics!stageUnits(v, Metrics!Ranges(a, got)[p], a.filters)}
    BY DEF Metrics!Execute
  <2>10. Metrics!Execute(w, <<"netUnits", p>>, a, got) =
              {Metrics!netUnits(w, Metrics!Ranges(a, got)[p], a.filters)}
    BY DEF Metrics!Execute
  <2>11. /\ got[<<"counts", p>>] = Metrics!counts(t, r, a.filters)
        /\ got[<<"stages", p>>] = Metrics!stages(u, r, a.filters)
        /\ got[<<"stageUnits", p>>] = Metrics!stageUnits(v, r, a.filters)
        /\ got[<<"netUnits", p>>] = Metrics!netUnits(w, r, a.filters)
    BY <2>2, <2>3, <2>4, <2>5, <2>6, <2>7, <2>8, <2>9, <2>10
  <2> QED
    BY <2>2, <2>3, <2>4, <2>5, <2>11, Zenon
<1>2. ASSUME NEW p \in {"cur", "prev"}, NEW k, k = got[<<"counts", p>>]
      PROVE  /\ k.netOrders + k.canceledOrders = k.orders
             /\ k.redeemedGross = k.completed + k.returnedOrders
             /\ k.fullyReturned <= k.returnedOrders
  <2>1. PICK t, r : Legal(t) /\ k = Metrics!counts(t, r, a.filters)
    BY <1>1, <1>2
  <2> QED
    BY <2>1, MetricsFit
<1>3. ASSUME NEW p \in {"cur", "prev"}, NEW s, s = got[<<"stages", p>>]
      PROVE  /\ s.revenue["RedeemedNet"] <= s.revenue["RedeemedGross"]
             /\ s.revenue["Completed"] <= s.revenue["RedeemedGross"]
             /\ s.revenue["RedeemedGross"] <= s.revenue["Paid"]
             /\ s.revenue["PaidTerminal"] <= s.revenue["Paid"]
             /\ s.revenue["PaidTerminal"] <= s.revenue["Terminal"]
             /\ s.revenue["Paid"] <= s.revenue["Created"]
             /\ s.refund <= s.revenue["RedeemedGross"]
             /\ s.revenue["RedeemedGross"] - s.refund >= 0
             /\ s.customers["RedeemedNet"] <= s.customers["RedeemedGross"]
             /\ s.customers["Completed"] <= s.customers["RedeemedGross"]
             /\ s.customers["RedeemedGross"] <= s.customers["Paid"]
             /\ s.customers["PaidTerminal"] <= s.customers["Paid"]
             /\ s.customers["PaidTerminal"] <= s.customers["Terminal"]
             /\ s.customers["Paid"] <= s.customers["Created"] + 1
  <2>1. PICK t, r : Legal(t) /\ s = Metrics!stages(t, r, a.filters)
    BY <1>1, <1>3
  <2>2. PICK c : c = s.customers
    OBVIOUS
  <2> QED
    BY <2>1, <2>2, MetricsSumsFit, MetricsCustomersFit
<1>4. ASSUME NEW p \in {"cur", "prev"}, NEW u, u = got[<<"stageUnits", p>>]
      PROVE  /\ u["RedeemedNet"] <= u["RedeemedGross"] /\ u["Completed"] <= u["RedeemedGross"]
             /\ u["RedeemedGross"] <= u["Paid"] /\ u["PaidTerminal"] <= u["Paid"]
             /\ u["PaidTerminal"] <= u["Terminal"]
  <2>1. PICK t, r : Legal(t) /\ u = Metrics!stageUnits(t, r, a.filters)
    BY <1>1, <1>4
  <2> QED
    BY <2>1, MetricsUnitsFit
<1>5. Metrics!StatementsAddUp(got)
  BY <1>2, <1>3, <1>4 DEF Metrics!StatementsAddUp
<1>6. Metrics!Report(got).cur.kpi.stages.RedeemedNet.revenue >= 0
  <2>1. PICK k, n, s, x, y, u : /\ k = got[<<"counts", "cur">>] /\ n = got[<<"netUnits", "cur">>]
                                /\ s = got[<<"stages", "cur">>] /\ u = got[<<"stageUnits", "cur">>]
                                /\ x = got[<<"repeatCustomers", "cur">>]
                                /\ y = got[<<"canceledCustomers", "cur">>]
    OBVIOUS
  <2>2. Metrics!Report(got).cur.kpi = Metrics!kpi(k, n, s, x, y, u)
    BY <2>1 DEF Metrics!Report, Metrics!period
  <2>3. "stages" \notin DOMAIN k /\ "stages" \notin DOMAIN n
    <3>1. PICK t, r : k = Metrics!counts(t, r, a.filters)
      BY <1>1, <2>1
    <3>2. PICK u1, r1 : n = Metrics!netUnits(u1, r1, a.filters)
      BY <1>1, <2>1
    <3> QED
      BY <3>1, <3>2, MetricsCounts DEF Metrics!netUnits
  <2>4. PICK z : /\ Metrics!kpi(k, n, s, x, y, u) = Metrics!++(Metrics!++(k, n), z)
                 /\ DOMAIN z = {"repeatCustomers", "canceledCustomers", "stages"}
                 /\ z.stages.RedeemedNet = Metrics!RedeemedNetStage(k, s, u)
    <3>1. PICK z : z = KpiOwn(k, s, x, y, u)
      OBVIOUS
    <3>2. Metrics!kpi(k, n, s, x, y, u) = Metrics!++(Metrics!++(k, n), z)
      BY <3>1, Zenon DEF Metrics!kpi, KpiOwn
    <3>3. /\ DOMAIN z = {"repeatCustomers", "canceledCustomers", "stages"}
          /\ z.stages.RedeemedNet = Metrics!RedeemedNetStage(k, s, u)
      BY <3>1 DEF KpiOwn
    <3> QED
      BY <3>2, <3>3
  <2>5. "stages" \notin DOMAIN Metrics!++(k, n)
    BY <2>3 DEF Metrics!++
  <2>6. Metrics!++(Metrics!++(k, n), z).stages = z.stages
    BY <2>4, <2>5 DEF Metrics!++
  <2>7. Metrics!RedeemedNetStage(k, s, u).revenue = s.revenue["RedeemedGross"] - s.refund
    BY DEF Metrics!RedeemedNetStage, Metrics!makeStage
  <2> QED
    BY <1>3, <2>1, <2>2, <2>4, <2>6, <2>7
<1> QED
  BY <1>5, <1>6


(* The orders by stage. *)
LEMMA MetricsFunnel ==
    ASSUME NEW t, Legal(t), NEW r, NEW f, NEW S, S = Scope(t, r, f),
           NEW rows, rows = Metrics!funnel(t, r, f)
    PROVE  /\ SumFunction(rows) <= Cardinality(S)
           /\ \A k \in {"completed", "returned", "canceled"} :
                 (IF k \in DOMAIN rows THEN rows[k] ELSE 0) = Cardinality(Having(t, S, k))
<1>1. PICK group, key : group = Groups(t, S, "stage") /\ key = Labels(t, S, "stage")
  OBVIOUS
<1>2. S \in SUBSET Stored(t) /\ IsFiniteSet(S)
  BY PartOf DEF Scope
<1>3. GroupedBy(group, S, key)
  BY <1>1, <1>2, GroupsAre
<1>4. PICK L : L = DOMAIN group \cap Metrics!funnelOrder
  OBVIOUS
<1>5. DOMAIN rows = L /\ \A l \in L : rows[l] = Cardinality(group[l])
  BY <1>1, <1>4, SameScope, SameGroups, SameSize DEF Metrics!funnel
<1>6. SumFunction(rows) <= Cardinality(S)
  <2>1. IsFiniteSet(L) /\ \A l \in L : group[l] = {o \in S : key[o] = l}
    BY <1>3, <1>4, FS_Subset DEF GroupedBy
  <2> QED
    BY <1>2, <1>5, <2>1, RowsCountKept
<1>7. ASSUME NEW k \in {"completed", "returned", "canceled"}
      PROVE  (IF k \in DOMAIN rows THEN rows[k] ELSE 0) = Cardinality(Having(t, S, k))
  <2>1. k \in Metrics!funnelOrder
    BY DEF Metrics!funnelOrder
  <2>2. \A o \in S : o \in Having(t, S, k) <=> key[o] = k
    <3>1. \A o \in S : Content(t, o).canceled <=> Content(t, o).stage = "canceled"
      BY <1>2 DEF Legal, LegalRow
    <3>2. \A o \in S : key[o] = IF Content(t, o).stage = "" THEN "-" ELSE Content(t, o).stage
      BY <1>1 DEF Labels, Label
    <3>3. \A o : /\ o \in Having(t, S, "canceled") <=> o \in S /\ Content(t, o).canceled
                 /\ o \in Having(t, S, "completed") <=> o \in S /\ Completed(Content(t, o))
                 /\ o \in Having(t, S, "returned") <=> o \in S /\ Returned(Content(t, o))
      BY HavingIs, Zenon
    <3> QED
      BY <3>1, <3>2, <3>3 DEF Completed, Returned
  <2>3. Having(t, S, k) \subseteq S
    BY HavingPart
  <2>4. CASE k \in L
    <3>1. group[k] = Having(t, S, k)
      BY <1>3, <1>4, <2>2, <2>3, <2>4 DEF GroupedBy
    <3> QED
      BY <1>5, <2>4, <3>1
  <2>5. CASE k \notin L
    <3>1. \A o \in S : key[o] # k
      BY <1>3, <1>4, <2>1, <2>5 DEF GroupedBy
    <3>2. Having(t, S, k) = {}
      BY <2>2, <2>3, <3>1
    <3> QED
      BY <1>5, <2>5, <3>2, FS_EmptySet
  <2> QED
    BY <2>4, <2>5
<1> QED
  BY <1>6, <1>7

(* Who ordered again, or canceled, is one of the customers. *)
LEMMA MetricsRepeated ==
    ASSUME NEW t, Legal(t), NEW r, NEW f, NEW n, n = Metrics!stages(t, r, f).customers["Created"]
    PROVE  /\ Metrics!repeatCustomers(t, r, f) <= n
           /\ Metrics!canceledCustomers(t, r, f) <= n
<1>1. PICK S : S = Scope(t, r, f) /\ S \in SUBSET Stored(t)
  BY DEF Scope
<1>2. n = Cardinality(NamesOf(t, Known(t, S)))
  BY <1>1, MetricsSums, MetricsNests DEF MetricsStages
<1>3. PICK K, N : K = Known(t, S) /\ N = NamesOf(t, K)
  OBVIOUS
<1>4. IsFiniteSet(N) /\ n = Cardinality(N)
  <2>1. K \in SUBSET K /\ K \in SUBSET Stored(t)
    BY <1>1, <1>3 DEF Known
  <2> QED
    BY <1>2, <1>3, <2>1, NamesGrow
<1>5. Metrics!repeatCustomers(t, r, f) <= n
  <2>1. PICK group : group = Groups(t, K, "customer")
    OBVIOUS
  <2>2. Metrics!Those(t, Metrics!Scope(t, r, f), Metrics!Named) = K
    <3>1. Metrics!Scope(t, r, f) = S
      BY <1>1, SameScope
    <3> QED
      BY <1>3, <3>1 DEF Metrics!Those, Metrics!Named, Metrics!Content, Known, Content
  <2>3. PICK A : /\ A = {m \in DOMAIN group : Metrics!Cardinality(group[m]) > 1}
                 /\ Metrics!repeatCustomers(t, r, f) = Metrics!Cardinality(A)
    BY <2>1, <2>2, SameGroups DEF Metrics!repeatCustomers
  <2>4. DOMAIN group \subseteq N
    <3>1. DOMAIN group = {Label(Content(t, o)["customer"]) : o \in K}
      BY <2>1 DEF Groups
    <3>2. \A o \in K : Label(Content(t, o)["customer"]) = Content(t, o).customer
      BY <1>3 DEF Known, Label
    <3> QED
      BY <1>3, <3>1, <3>2 DEF NamesOf
  <2>5. A \in SUBSET N
    BY <2>3, <2>4
  <2>6. Cardinality(A) <= Cardinality(N)
    BY <1>4, <2>5, FS_Subset
  <2> QED
    BY <1>4, <2>3, <2>6, SameSize
<1>6. Metrics!canceledCustomers(t, r, f) <= n
  <2>1. PICK C : C = Having(t, S, "canceled") /\ C \in SUBSET S
    BY <1>1, HavingPart
  <2>2. Metrics!canceledCustomers(t, r, f) = Metrics!NamedCustomers(t, C)
    <3>1. Metrics!Scope(t, r, f) = S
      BY <1>1, SameScope
    <3>2. Metrics!Those(t, S, Metrics!Canceled) = C
      BY <2>1, HavingIs DEF Metrics!Those, Metrics!Content, Content, Metrics!Canceled
    <3> QED
      BY <3>1, <3>2 DEF Metrics!canceledCustomers
  <2>3. PICK J : J = Known(t, C)
    OBVIOUS
  <2>4. J \in SUBSET K /\ K \in SUBSET Stored(t)
    BY <1>1, <1>3, <2>1, <2>3 DEF Known
  <2>5. Cardinality(NamesOf(t, J)) <= Cardinality(N)
    BY <1>3, <2>4, NamesGrow
  <2>6. Metrics!NamedCustomers(t, C) = Cardinality(NamesOf(t, J))
    BY <2>3, MetricsCustomers
  <2> QED
    BY <1>4, <2>2, <2>5, <2>6
<1> QED
  BY <1>5, <1>6

(* Groups of orders that are not cut make up the whole. *)
LEMMA MetricsGroups ==
    ASSUME NEW t, Legal(t), NEW r, NEW f, NEW S, S = Scope(t, r, f), NEW column,
           NEW rows, rows \in Metrics!groupOrders(t, column, r, f),
           Cardinality(DOMAIN rows) < Limits.group
    PROVE  /\ FieldSum(rows, "orders") = Cardinality(S)
           /\ FieldSum(rows, "revenue") = Revenue(t, S)
<1>1. PICK group, key : group = Groups(t, S, column) /\ key = Labels(t, S, column)
  OBVIOUS
<1>2. S \in SUBSET Stored(t)
  BY DEF Scope
<1>3. IsFiniteSet(DOMAIN group) /\ Limits.group \in Nat
  <2>1. GroupedBy(group, S, key)
    BY <1>1, <1>2, GroupsAre
  <2> QED
    BY <2>1, LimitsAssumption DEF GroupedBy
<1>4. PICK all : all = [l \in DOMAIN group |-> [orders  |-> Metrics!Cardinality(group[l]),
                                                revenue |-> Metrics!Revenue(t, group[l])]]
  OBVIOUS
<1>5. Metrics!groupOrders(t, column, r, f) = Metrics!Top(all, Limits.group, Metrics!MoreOrders)
  BY <1>1, <1>4, SameScope, SameGroups DEF Metrics!groupOrders
<1>6. PICK K \in SUBSET DOMAIN all :
          /\ Metrics!Cardinality(K) = Metrics!Min({Limits.group, Metrics!Cardinality(DOMAIN all)})
          /\ rows = [l \in K |-> all[l]]
  BY <1>5 DEF Metrics!Top
<1>7. DOMAIN rows = K /\ DOMAIN all = DOMAIN group
  BY <1>4, <1>6
<1>8. Cardinality(K) = Min({Limits.group, Cardinality(DOMAIN group)})
  BY <1>6, <1>7, SameSize, SameMin
<1>9. K = DOMAIN group
  BY <1>3, <1>7, <1>8, KeptAll
<1>10. \A l \in DOMAIN rows :
          /\ rows[l]["orders"] = Cardinality(Having(t, group[l], "all"))
          /\ rows[l]["revenue"] = Total(t, Having(t, group[l], "net"), "total")
  <2>1. \A l \in DOMAIN rows : /\ rows[l]["orders"] = Metrics!Cardinality(group[l])
                               /\ rows[l]["revenue"] = Metrics!Revenue(t, group[l])
    BY <1>4, <1>6, <1>7
  <2>2. \A T : Having(t, T, "all") = T
    BY DEF Having, Has
  <2> QED
    BY <2>1, <2>2, SameSize, SameRevenue
<1>11. /\ RowsCount(rows, "orders", t, S, column, "all")
       /\ RowsSum(rows, "revenue", t, S, column, "net", "total")
  BY <1>1, <1>10 DEF RowsCount, RowsSum
<1>12. DOMAIN rows = DOMAIN Groups(t, S, column) /\ DOMAIN rows \subseteq DOMAIN Groups(t, S, column)
  BY <1>1, <1>7, <1>9
<1>13. "total" \in Amounts
  BY DEF Amounts
<1>14. FieldSum(rows, "orders") = Cardinality(Having(t, S, "all"))
  BY <1>2, <1>11, <1>12, FieldCounts
<1>15. FieldSum(rows, "revenue") = Total(t, Having(t, S, "net"), "total")
  BY <1>2, <1>11, <1>12, <1>13, FieldSums
<1> QED
  BY <1>14, <1>15, HavingPart, SameRevenue

(* The leading customers spent no more than all of them. *)
LEMMA MetricsBest ==
    ASSUME NEW t, Legal(t), NEW r, NEW f, NEW S, S = Scope(t, r, f),
           NEW rows, rows \in Metrics!topCustomersQuery(t, r, f, "revenue")
    PROVE  FieldSum(rows, "revenue") <= Revenue(t, S)
<1>1. PICK K, group : K = Known(t, S) /\ group = Groups(t, K, "customer")
  OBVIOUS
<1>2. S \in SUBSET Stored(t) /\ K \in SUBSET S /\ K \in SUBSET Stored(t)
  BY <1>1 DEF Scope, Known
<1>3. Metrics!Those(t, Metrics!Scope(t, r, f), Metrics!Named) = K
  <2>1. Metrics!Scope(t, r, f) = S
    BY SameScope
  <2> QED
    BY <1>1, <2>1 DEF Metrics!Those, Metrics!Named, Metrics!Content, Known, Content
<1>4. PICK all : all = [n \in DOMAIN group |-> Metrics!CustomerRow(t, group[n])]
  OBVIOUS
<1>5. Metrics!topCustomersQuery(t, r, f, "revenue") = Metrics!Top(all, Limits.customers, Metrics!ByRevenue)
  BY <1>1, <1>3, <1>4, SameGroups DEF Metrics!topCustomersQuery
<1>6. PICK kept \in SUBSET DOMAIN all : rows = [n \in kept |-> all[n]]
  BY <1>5 DEF Metrics!Top
<1>7. \A n \in DOMAIN rows : rows[n]["revenue"] = Total(t, Having(t, group[n], "net"), "total")
  <2>1. \A n \in DOMAIN rows : rows[n]["revenue"] = Metrics!Revenue(t, group[n])
    BY <1>4, <1>6 DEF Metrics!CustomerRow
  <2> QED
    BY <2>1, SameRevenue
<1>8. RowsSum(rows, "revenue", t, K, "customer", "net", "total")
  BY <1>1, <1>7 DEF RowsSum
<1>9. DOMAIN rows \subseteq DOMAIN Groups(t, K, "customer") /\ "total" \in Amounts
  BY <1>1, <1>4, <1>6 DEF Amounts
<1>10. FieldSum(rows, "revenue") <= Total(t, Having(t, K, "net"), "total")
       /\ FieldSum(rows, "revenue") \in Nat
  BY <1>2, <1>8, <1>9, FieldSums
<1>11. PICK A, B : A = Having(t, K, "net") /\ B = Having(t, S, "net")
  OBVIOUS
<1>12. A \in SUBSET B /\ B \in SUBSET Stored(t)
  BY <1>2, <1>11, HavingPart
<1>13. Total(t, A, "total") <= Total(t, B, "total") /\ Total(t, B, "total") \in Nat
       /\ Total(t, A, "total") \in Nat
  BY <1>9, <1>12, PartOf
<1> QED
  BY <1>10, <1>11, <1>13, SameRevenue

(* Products that are not cut make up what was sold. *)
LEMMA MetricsProducts ==
    ASSUME NEW t, Legal(t), NEW r, NEW f, NEW S, S = Scope(t, r, f),
           NEW column, Limits[column] \in Nat,
           NEW rows, rows \in Metrics!groupProducts(t, column, r, f),
           Cardinality(DOMAIN rows) < Limits[column]
    PROVE  /\ FieldSum(rows, "units") = Units(t, Having(t, S, "net"))
           /\ FieldSum(rows, "revenue") = LineSum(t, Having(t, S, "net"))
<1>1. PICK N : N = Having(t, S, "net") /\ N \in SUBSET Stored(t)
  BY HavingPart DEF Scope
<1>2. PICK P, key, L : /\ P = Positions(t, N) /\ key = [p \in P |-> Label(Position(t, p)[column])]
                       /\ L = {key[p] : p \in P}
  OBVIOUS
<1>3. IsFiniteSet(P) /\ P \in SUBSET Positions(t, Stored(t)) /\ IsFiniteSet(L)
  <2>1. IsFiniteSet(P) /\ P \in SUBSET Positions(t, Stored(t))
    <3>1. N \in SUBSET N /\ Stored(t) \in SUBSET Stored(t)
      BY <1>1
    <3> QED
      BY <1>1, <1>2, <3>1, PositionsFinite
  <2> QED
    BY <1>2, <2>1, ImageIsFinite
<1>4. PICK part : part = [l \in L |-> {p \in P : key[p] = l}]
  OBVIOUS
<1>5. PICK all : all = [l \in L |->
          [units   |-> Metrics!SumFunction([p \in part[l] |-> Metrics!Position(t, p).qty]),
           orders  |-> Metrics!Cardinality({p[1] : p \in part[l]}),
           revenue |-> Metrics!SumFunction([p \in part[l] |-> Metrics!Position(t, p).sum])]]
  OBVIOUS
<1>6. Metrics!groupProducts(t, column, r, f) = Metrics!Top(all, Limits[column], Metrics!MoreRevenue)
  <2>1. Metrics!Positions(t, Metrics!Those(t, Metrics!Scope(t, r, f), Metrics!Net)) = P
    <3>1. Metrics!Scope(t, r, f) = S
      BY SameScope
    <3>2. Metrics!Those(t, S, Metrics!Net) = N
      BY <1>1, HavingIs DEF Metrics!Those, Metrics!Content, Content, Metrics!Net
    <3> QED
      BY <1>2, <3>1, <3>2 DEF Metrics!Positions, Positions
  <2>2. \A p \in P : Metrics!Label(Metrics!Position(t, p)[column]) = key[p]
    BY <1>2 DEF Metrics!Label, Label, Metrics!Position, Position
  <2>3. {Metrics!Label(Metrics!Position(t, p)[column]) : p \in P} = L
    BY <1>2, <2>2
  <2>4. \A l \in L : {p \in P : Metrics!Label(Metrics!Position(t, p)[column]) = l} = part[l]
    BY <1>4, <2>2
  <2>5. all = [l \in {Metrics!Label(Metrics!Position(t, p)[column]) : p \in P} |->
          [units   |-> Metrics!SumFunction([p \in {p \in P : Metrics!Label(Metrics!Position(t, p)[column]) = l}
                                               |-> Metrics!Position(t, p).qty]),
           orders  |-> Metrics!Cardinality({p[1] : p \in {p \in P :
                                               Metrics!Label(Metrics!Position(t, p)[column]) = l}}),
           revenue |-> Metrics!SumFunction([p \in {p \in P : Metrics!Label(Metrics!Position(t, p)[column]) = l}
                                               |-> Metrics!Position(t, p).sum])]]
    BY <1>5, <2>3, <2>4
  <2> QED
    BY <2>1, <2>5, Zenon DEF Metrics!groupProducts
<1>7. PICK K \in SUBSET DOMAIN all :
          /\ Metrics!Cardinality(K) = Metrics!Min({Limits[column], Metrics!Cardinality(DOMAIN all)})
          /\ rows = [l \in K |-> all[l]]
  BY <1>6 DEF Metrics!Top
<1>8. DOMAIN rows = K /\ DOMAIN all = L
  BY <1>5, <1>7
<1>9. Cardinality(K) = Min({Limits[column], Cardinality(L)})
  BY <1>7, <1>8, SameSize, SameMin
<1>10. K = L
  BY <1>3, <1>7, <1>8, <1>9, KeptAll
<1>11. \A p \in P : key[p] \in L
  BY <1>2
<1>12. \A p \in P : /\ Pieces(t)[p] = Metrics!Position(t, p).qty /\ Sums2(t)[p] = Metrics!Position(t, p).sum
                    /\ Pieces(t)[p] \in Int /\ Sums2(t)[p] \in Int
  <2>1. Stored(t) \in SUBSET Stored(t)
    OBVIOUS
  <2>2. \A p \in Positions(t, Stored(t)) : Pieces(t)[p] \in Nat /\ Sums2(t)[p] \in Nat
    BY <2>1, UnitsAre
  <2>3. \A p \in Positions(t, Stored(t)) : /\ Pieces(t)[p] = Position(t, p).qty
                                            /\ Sums2(t)[p] = Position(t, p).sum
    BY DEF Pieces, Sums2
  <2>4. \A p : Metrics!Position(t, p) = Position(t, p)
    BY DEF Metrics!Position, Position
  <2> QED
    BY <1>3, <2>2, <2>3, <2>4
<1>13. ASSUME NEW l \in L
       PROVE  /\ all[l].units = Sum(Pieces(t), part[l])
              /\ all[l].revenue = Sum(Sums2(t), part[l])
  <2>1. PICK Q, u, s : /\ Q = part[l] /\ u = [p \in Q |-> Metrics!Position(t, p).qty]
                       /\ s = [p \in Q |-> Metrics!Position(t, p).sum]
    OBVIOUS
  <2>2. Q \in SUBSET P /\ IsFiniteSet(Q)
    BY <1>3, <1>4, <2>1, FS_Subset
  <2>3. PICK x, y : x = Pieces(t) /\ y = Sums2(t)
    OBVIOUS
  <2>4. \A p \in Q : u[p] = x[p] /\ x[p] \in Int /\ s[p] = y[p] /\ y[p] \in Int
    BY <1>12, <2>1, <2>2, <2>3
  <2>5. SumFunction(u) = Sum(x, Q) /\ SumFunction(s) = Sum(y, Q)
    <3>1. DOMAIN u = Q /\ DOMAIN s = Q
      BY <2>1
    <3>2. SumFunction(u) = Sum(x, Q)
      BY <2>2, <2>4, <3>1, SumOfRow
    <3>3. SumFunction(s) = Sum(y, Q)
      BY <2>2, <2>4, <3>1, SumOfRow
    <3> QED
      BY <3>2, <3>3
  <2>6. all[l].units = Metrics!SumFunction(u) /\ all[l].revenue = Metrics!SumFunction(s)
    BY <1>5, <2>1
  <2> QED
    BY <2>1, <2>3, <2>5, <2>6, SameSums
<1>14. PICK u, s : u = [l \in DOMAIN rows |-> rows[l]["units"]] /\ s = [l \in DOMAIN rows |-> rows[l]["revenue"]]
  OBVIOUS
<1>15. DOMAIN u = L /\ DOMAIN s = L /\ \A l \in L : u[l] = Sum(Pieces(t), part[l]) /\ s[l] = Sum(Sums2(t), part[l])
  BY <1>7, <1>8, <1>10, <1>13, <1>14
<1>16. \A l \in L : part[l] = {p \in P : key[p] = l}
  BY <1>4
<1>17. SumFunction(u) = Sum(Pieces(t), P)
  <2>1. PICK x : x = Pieces(t)
    OBVIOUS
  <2> QED
    BY <1>3, <1>11, <1>12, <1>15, <1>16, <2>1, RowsSumAll
<1>18. SumFunction(s) = Sum(Sums2(t), P)
  <2>1. PICK x : x = Sums2(t)
    OBVIOUS
  <2> QED
    BY <1>3, <1>11, <1>12, <1>15, <1>16, <2>1, RowsSumAll
<1>19. Units(t, N) = Sum(Pieces(t), P) /\ LineSum(t, N) = Sum(Sums2(t), P)
  BY <1>1, <1>2, UnitsAre
<1> QED
  BY <1>1, <1>14, <1>17, <1>18, <1>19 DEF FieldSum

LEMMA MetricsColumns ==
    /\ Metrics!Range(Metrics!Columns) = {"channel", "payment", "delivery", "region"}
    /\ Metrics!Range(Metrics!Products) = {"name", "category", "gender", "brand"}
  BY DEF Metrics!Range, Metrics!Columns, Metrics!Products

(* Statements that ran on the same tables. *)
LEMMA MetricsReportAddsUp ==
    ASSUME NEW t, Legal(t), NEW a, NEW got,
           \A st \in MetricsAsked : got[st] \in Metrics!Execute(t, st, a, got)
    PROVE  Metrics!ReportAddsUp(got)
<1>0. SUFFICES ASSUME NEW p \in {"cur", "prev"}
               PROVE  /\ Metrics!SumFunction(got[<<"funnel", p>>]) <= got[<<"counts", p>>].orders
                      /\ (IF "completed" \in DOMAIN got[<<"funnel", p>>]
                             THEN got[<<"funnel", p>>]["completed"] ELSE 0) = got[<<"counts", p>>].completed
                      /\ (IF "returned" \in DOMAIN got[<<"funnel", p>>]
                             THEN got[<<"funnel", p>>]["returned"] ELSE 0) = got[<<"counts", p>>].returnedOrders
                      /\ (IF "canceled" \in DOMAIN got[<<"funnel", p>>]
                             THEN got[<<"funnel", p>>]["canceled"] ELSE 0) = got[<<"counts", p>>].canceledOrders
                      /\ got[<<"stages", p>>].orders["Paid"] >= got[<<"counts", p>>].paidOrders
                      /\ got[<<"repeatCustomers", p>>] <= got[<<"stages", p>>].customers["Created"]
                      /\ got[<<"canceledCustomers", p>>] <= got[<<"stages", p>>].customers["Created"]
                      /\ got[<<"stageUnits", p>>]["Created"] >= got[<<"netUnits", p>>].units
                      /\ \A c \in {"channel", "payment", "delivery", "region"} :
                            LET g1 == got[<<"groupOrders", p, c>>]
                            IN  Metrics!Uncut(g1, Limits.group) =>
                                    /\ Metrics!SumOf(g1, "orders") = got[<<"counts", p>>].orders
                                    /\ Metrics!SumOf(g1, "revenue") = got[<<"counts", p>>].revenue
                      /\ \A c \in {"name", "category", "gender", "brand"} :
                            LET g2 == got[<<"groupProducts", p, c>>]
                            IN  Metrics!Uncut(g2, Limits[c]) =>
                                    /\ Metrics!SumOf(g2, "units") = got[<<"netUnits", p>>].units
                                    /\ Metrics!SumOf(g2, "revenue") = got[<<"netUnits", p>>].itemRevenue
                      /\ Metrics!SumOf(got[<<"topCustomers", p, "revenue">>], "revenue") <= got[<<"counts", p>>].revenue
  BY MetricsColumns DEF Metrics!ReportAddsUp
<1>1. PICK k, n, s, u, rows, best :
          /\ k = got[<<"counts", p>>] /\ n = got[<<"netUnits", p>>] /\ s = got[<<"stages", p>>]
          /\ u = got[<<"stageUnits", p>>] /\ rows = got[<<"funnel", p>>]
          /\ best = got[<<"topCustomers", p, "revenue">>]
  OBVIOUS
<1>2. PICK r, f, S : r = Metrics!Ranges(a, got)[p] /\ f = a.filters /\ S = Scope(t, r, f)
  OBVIOUS
<1>3. S \in SUBSET Stored(t)
  BY <1>2 DEF Scope
<1>4. /\ k = Metrics!counts(t, r, f) /\ s = Metrics!stages(t, r, f) /\ n = Metrics!netUnits(t, r, f)
      /\ rows = Metrics!funnel(t, r, f) /\ u = Metrics!stageUnits(t, r, f)
      /\ got[<<"repeatCustomers", p>>] = Metrics!repeatCustomers(t, r, f)
      /\ got[<<"canceledCustomers", p>>] = Metrics!canceledCustomers(t, r, f)
      /\ best \in Metrics!topCustomersQuery(t, r, f, "revenue")
      /\ \A c \in {"channel", "payment", "delivery", "region"} :
            got[<<"groupOrders", p, c>>] \in Metrics!groupOrders(t, c, r, f)
      /\ \A c \in {"name", "category", "gender", "brand"} :
            got[<<"groupProducts", p, c>>] \in Metrics!groupProducts(t, c, r, f)
  <2>1. /\ \A m \in {"counts", "netUnits", "stages", "repeatCustomers", "canceledCustomers", "stageUnits",
                     "funnel"} : <<m, p>> \in MetricsAsked
        /\ <<"topCustomers", p, "revenue">> \in MetricsAsked
        /\ \A c \in {"channel", "payment", "delivery", "region"} : <<"groupOrders", p, c>> \in MetricsAsked
        /\ \A c \in {"name", "category", "gender", "brand"} : <<"groupProducts", p, c>> \in MetricsAsked
    BY DEF MetricsAsked
  <2>2. /\ Metrics!Execute(t, <<"counts", p>>, a, got) = {Metrics!counts(t, r, f)}
        /\ Metrics!Execute(t, <<"netUnits", p>>, a, got) = {Metrics!netUnits(t, r, f)}
        /\ Metrics!Execute(t, <<"stages", p>>, a, got) = {Metrics!stages(t, r, f)}
        /\ Metrics!Execute(t, <<"repeatCustomers", p>>, a, got) = {Metrics!repeatCustomers(t, r, f)}
        /\ Metrics!Execute(t, <<"canceledCustomers", p>>, a, got) = {Metrics!canceledCustomers(t, r, f)}
        /\ Metrics!Execute(t, <<"stageUnits", p>>, a, got) = {Metrics!stageUnits(t, r, f)}
        /\ Metrics!Execute(t, <<"funnel", p>>, a, got) = {Metrics!funnel(t, r, f)}
    BY <1>2 DEF Metrics!Execute
  <2>3. /\ Metrics!Execute(t, <<"topCustomers", p, "revenue">>, a, got) =
               Metrics!topCustomersQuery(t, r, f, "revenue")
        /\ \A c : Metrics!Execute(t, <<"groupOrders", p, c>>, a, got) = Metrics!groupOrders(t, c, r, f)
        /\ \A c : Metrics!Execute(t, <<"groupProducts", p, c>>, a, got) = Metrics!groupProducts(t, c, r, f)
    BY <1>2 DEF Metrics!Execute
  <2> QED
    BY <1>0, <1>1, <1>2, <2>1, <2>2, <2>3
<1>5. PICK N, P, Q : /\ N = Having(t, S, "net") /\ P = Having(t, S, "paid")
                     /\ Q = Metrics!InStage(t, S, "Paid")
  OBVIOUS
<1>6. /\ k.orders = Cardinality(S) /\ k.revenue = Revenue(t, S) /\ k.paidOrders = Cardinality(P)
      /\ k.canceledOrders = Cardinality(Having(t, S, "canceled"))
      /\ k.completed = Cardinality(Having(t, S, "completed"))
      /\ k.returnedOrders = Cardinality(Having(t, S, "returned"))
  BY <1>2, <1>4, <1>5, MetricsCounts
<1>7. n.units = Units(t, N) /\ n.itemRevenue = LineSum(t, N)
  <2>1. Metrics!Scope(t, r, f) = S
    BY <1>2, SameScope
  <2>2. Metrics!Those(t, S, Metrics!Net) = N
    BY <1>5, HavingIs DEF Metrics!Those, Metrics!Content, Content, Metrics!Net
  <2>3. n.units = Metrics!Units(t, N) /\ n.itemRevenue = Metrics!LineSum(t, N)
    BY <1>4, <2>1, <2>2 DEF Metrics!netUnits
  <2> QED
    BY <2>3, SameUnits
<1>8. /\ Metrics!SumFunction(rows) <= k.orders
      /\ (IF "completed" \in DOMAIN rows THEN rows["completed"] ELSE 0) = k.completed
      /\ (IF "returned" \in DOMAIN rows THEN rows["returned"] ELSE 0) = k.returnedOrders
      /\ (IF "canceled" \in DOMAIN rows THEN rows["canceled"] ELSE 0) = k.canceledOrders
  BY <1>2, <1>4, <1>6, MetricsFunnel, SameSums
<1>9. s.orders["Paid"] >= k.paidOrders
  <2>1. s.orders["Paid"] = Cardinality(Q)
    BY <1>2, <1>4, <1>5, MetricsSums
  <2>2. P \in SUBSET Q /\ Q \in SUBSET Stored(t)
    BY <1>3, <1>5, MetricsNests
  <2>3. Cardinality(P) \in Nat /\ Cardinality(Q) \in Nat /\ Cardinality(P) <= Cardinality(Q)
    BY <2>2, PartOf
  <2> QED
    BY <1>6, <2>1, <2>3
<1>10. /\ got[<<"repeatCustomers", p>>] <= s.customers["Created"]
       /\ got[<<"canceledCustomers", p>>] <= s.customers["Created"]
  <2>1. PICK m : m = s.customers["Created"]
    OBVIOUS
  <2> QED
    BY <1>4, <2>1, MetricsRepeated
<1>11. u["Created"] >= n.units
  <2>1. u["Created"] = Units(t, Metrics!InStage(t, S, "Created"))
    BY <1>2, <1>4, MetricsSums DEF MetricsStages
  <2>2. Metrics!InStage(t, S, "Created") = S /\ N \in SUBSET S
    BY <1>3, <1>5, MetricsNests, HavingPart
  <2>3. Units(t, N) \in Nat /\ Units(t, S) \in Nat /\ Units(t, N) <= Units(t, S)
    BY <1>3, <2>2, PartOf
  <2> QED
    BY <1>7, <2>1, <2>2, <2>3
<1>12. ASSUME NEW c \in {"channel", "payment", "delivery", "region"}, NEW g, g = got[<<"groupOrders", p, c>>],
              Metrics!Uncut(g, Limits.group)
       PROVE  Metrics!SumOf(g, "orders") = k.orders /\ Metrics!SumOf(g, "revenue") = k.revenue
  <2>1. Cardinality(DOMAIN g) < Limits.group
    BY <1>12, SameSize DEF Metrics!Uncut
  <2>2. FieldSum(g, "orders") = Cardinality(S) /\ FieldSum(g, "revenue") = Revenue(t, S)
    BY <1>2, <1>4, <1>12, <2>1, MetricsGroups
  <2> QED
    BY <1>6, <2>2, SameFields
<1>13. ASSUME NEW c \in {"name", "category", "gender", "brand"}, NEW g, g = got[<<"groupProducts", p, c>>],
              Metrics!Uncut(g, Limits[c])
       PROVE  Metrics!SumOf(g, "units") = n.units /\ Metrics!SumOf(g, "revenue") = n.itemRevenue
  <2>1. Cardinality(DOMAIN g) < Limits[c] /\ Limits[c] \in Nat
    BY <1>13, SameSize, LimitsAssumption DEF Metrics!Uncut
  <2>2. FieldSum(g, "units") = Units(t, N) /\ FieldSum(g, "revenue") = LineSum(t, N)
    BY <1>2, <1>4, <1>5, <1>13, <2>1, MetricsProducts
  <2> QED
    BY <1>7, <2>2, SameFields
<1>14. Metrics!SumOf(best, "revenue") <= k.revenue
  BY <1>2, <1>4, <1>6, MetricsBest, SameFields
<1> QED
  BY <1>1, <1>8, <1>9, <1>10, <1>11, <1>12, <1>13, <1>14

-----------------------------------------------------------------------------
(* The ranges of days. *)
LEMMA SameBounds ==
    ASSUME NEW t
    PROVE  /\ Funnel!DataBounds(t) = DataBounds(t) /\ Metrics!DataBounds(t) = DataBounds(t)
           /\ Logistics!DataBounds(t) = DataBounds(t) /\ Goal!DataBounds(t) = DataBounds(t)
           /\ Acquired!DataBounds(t) = DataBounds(t) /\ Customers!DataBounds(t) = DataBounds(t)
<1>1. /\ Funnel!DataBounds(t) = DataBounds(t) /\ Metrics!DataBounds(t) = DataBounds(t)
      /\ Logistics!DataBounds(t) = DataBounds(t)
  BY Zenon
     DEF DataBounds, Stored, Created, Min, Max, NoDay,
         Funnel!DataBounds, Funnel!Stored, Funnel!Created, Funnel!Min, Funnel!Max, Funnel!NoDay,
         Metrics!DataBounds, Metrics!Stored, Metrics!Created, Metrics!Min, Metrics!Max, Metrics!NoDay,
         Logistics!DataBounds, Logistics!Stored, Logistics!Created, Logistics!Min, Logistics!Max,
         Logistics!NoDay
<1>2. /\ Goal!DataBounds(t) = DataBounds(t) /\ Acquired!DataBounds(t) = DataBounds(t)
      /\ Customers!DataBounds(t) = DataBounds(t)
  BY Zenon
     DEF DataBounds, Stored, Created, Min, Max, NoDay,
         Goal!DataBounds, Goal!Stored, Goal!Created, Goal!Min, Goal!Max, Goal!NoDay,
         Acquired!DataBounds, Acquired!Stored, Acquired!Created, Acquired!Min, Acquired!Max,
         Acquired!NoDay, Customers!DataBounds, Customers!Stored, Customers!Created, Customers!Min,
         Customers!Max, Customers!NoDay
<1> QED
  BY <1>1, <1>2

LEMMA SameRanges ==
    ASSUME NEW a, NEW got
    PROVE  /\ Logistics!Ranges(a, got) = Ranges(a, got)
           /\ Acquired!Ranges(a, got) = Ranges(a, got)
<1>1. Logistics!Ranges(a, got) = Ranges(a, got)
  BY Zenon
     DEF Ranges, Ordered, ResolveRange, ResolvePrevRange, Length, Min, Max, NoDay,
         Logistics!Ranges, Logistics!Ordered, Logistics!ResolveRange, Logistics!ResolvePrevRange,
         Logistics!Length, Logistics!Min, Logistics!Max, Logistics!NoDay
<1>2. Acquired!Ranges(a, got) = Ranges(a, got)
  BY Zenon
     DEF Ranges, Ordered, ResolveRange, ResolvePrevRange, Length, Min, Max, NoDay,
         Acquired!Ranges, Acquired!Ordered, Acquired!ResolveRange, Acquired!ResolvePrevRange,
         Acquired!Length, Acquired!Min, Acquired!Max, Acquired!NoDay
<1> QED
  BY <1>1, <1>2

(* Days of the tables: both bounds are none, or neither. *)
IsBounds(b) ==
    /\ b.start \in Nat /\ b.end \in Nat /\ b.start <= b.end
    /\ b.start = NoDay <=> b.end = NoDay

LEMMA BoundsAre ==
    ASSUME NEW t, Legal(t)
    PROVE  IsBounds(DataBounds(t))
<1>1. PICK D : D = {Created(t, o) : o \in Stored(t)} \ {NoDay}
  OBVIOUS
<1>2. D \in SUBSET Nat /\ NoDay \notin D /\ IsFiniteSet(D)
  <2>1. PICK day : day = [o \in Stored(t) |-> Created(t, o)]
    OBVIOUS
  <2>2. PICK A : A = {day[o] : o \in Stored(t)}
    OBVIOUS
  <2>3. IsFiniteSet(A)
    BY <2>2, ImageIsFinite DEF Legal
  <2>4. A = {Created(t, o) : o \in Stored(t)}
    BY <2>1, <2>2
  <2>5. D \subseteq A /\ D \in SUBSET Nat
    BY <1>1, <2>4 DEF Legal, LegalRow
  <2> QED
    BY <1>1, <2>3, <2>5, FS_Subset
<1>3. CASE D = {}
  <2>1. DataBounds(t) = [start |-> NoDay, end |-> NoDay]
    BY <1>1, <1>3 DEF DataBounds
  <2> QED
    BY <2>1 DEF IsBounds, NoDay
<1>4. CASE D # {}
  <2>1. DataBounds(t) = [start |-> Min(D), end |-> Max(D)]
    BY <1>1, <1>4 DEF DataBounds
  <2>2. D \in SUBSET Int
    BY <1>2
  <2>3. Min(D) \in D /\ Max(D) \in D /\ Max(D) >= Min(D)
    BY <1>2, <1>4, <2>2, MinMaxOf
  <2>4. Min(D) \in Nat /\ Max(D) \in Nat /\ Min(D) # NoDay /\ Max(D) # NoDay
    BY <1>2, <2>3
  <2> QED
    BY <2>1, <2>3, <2>4 DEF IsBounds
<1> QED
  BY <1>3, <1>4

IsRange(r) == r.start \in Int /\ r.end \in Int /\ r.start <= r.end

LEMMA OrderedIs ==
    ASSUME NEW r, r.start \in Int, r.end \in Int
    PROVE  IsRange(Ordered(r))
<1>1. PICK x \in Int : x = r.start
  OBVIOUS
<1>2. PICK y \in Int : y = r.end
  OBVIOUS
<1>3. /\ Min({x, y}) = IF x <= y THEN x ELSE y
      /\ Max({x, y}) = IF x >= y THEN x ELSE y
  BY OfTwo
<1> QED
  BY <1>1, <1>2, <1>3 DEF Ordered, IsRange

(* The days a report is asked of. *)
AsksDays(a) == a.start \in Int /\ a.end \in Int /\ a.cmpStart \in Int /\ a.cmpEnd \in Int

LEMMA RangesAre ==
    ASSUME NEW a, AsksDays(a), NEW got,
           <<"dataBounds">> \in DOMAIN got => IsBounds(got[<<"dataBounds">>])
    PROVE  LET r == Ranges(a, got) IN
           /\ DOMAIN r = {"cur", "prev"} /\ IsRange(r.cur) /\ IsRange(r.prev)
           /\ a.cmpStart = NoDay => r.prev.end = r.cur.start - 1 /\ Length(r.prev) = Length(r.cur)
<1>0. PICK b : b = IF <<"dataBounds">> \in DOMAIN got THEN got[<<"dataBounds">>]
                   ELSE [start |-> NoDay, end |-> NoDay]
  OBVIOUS
<1>1. b.start \in Nat /\ b.end \in Nat
  <2>1. CASE <<"dataBounds">> \in DOMAIN got
    BY <1>0, <2>1 DEF IsBounds
  <2>2. CASE <<"dataBounds">> \notin DOMAIN got
    BY <1>0, <2>2 DEF NoDay
  <2> QED
    BY <2>1, <2>2
<1>2. PICK q : q = ResolveRange(b, a.start, a.end)
  OBVIOUS
<1>3. q.start \in Int /\ q.end \in Int
  <2>1. PICK e \in Int : e = IF a.end = NoDay THEN b.end ELSE a.end
    BY <1>1 DEF AsksDays
  <2>2. PICK x \in Int : x = b.start
    BY <1>1
  <2>3. e - 6 \in Int
    BY <2>1
  <2>4. Max({e - 6, x}) \in Int
    BY <2>2, <2>3, OfTwo
  <2>5. Today \in Int
    BY CalendarAssumption
  <2> QED
    BY <1>1, <1>2, <2>1, <2>2, <2>4, <2>5 DEF ResolveRange, AsksDays
<1>4. PICK c : c = Ordered(q)
  OBVIOUS
<1>5. IsRange(c)
  BY <1>3, <1>4, OrderedIs
<1>6. PICK p : p = ResolvePrevRange(c, a.cmpStart, a.cmpEnd)
  OBVIOUS
<1>7. Ranges(a, got) = [cur |-> c, prev |-> p]
  BY <1>0, <1>2, <1>4, <1>6 DEF Ranges
<1>8. CASE a.cmpStart = NoDay \/ a.cmpEnd = NoDay
  <2>1. p = [start |-> c.start - Length(c), end |-> c.start - 1]
    BY <1>6, <1>8 DEF ResolvePrevRange
  <2>2. IsRange(p) /\ p.end = c.start - 1 /\ Length(p) = Length(c)
    BY <1>5, <2>1 DEF IsRange, Length
  <2> QED
    BY <1>5, <1>7, <2>2
<1>9. CASE ~(a.cmpStart = NoDay \/ a.cmpEnd = NoDay)
  <2>1. PICK o : o = [start |-> a.cmpStart, end |-> a.cmpEnd] /\ p = Ordered(o)
    BY <1>6, <1>9 DEF ResolvePrevRange
  <2>2. o.start \in Int /\ o.end \in Int
    BY <2>1 DEF AsksDays
  <2>3. IsRange(p)
    BY <2>1, <2>2, OrderedIs
  <2> QED
    BY <1>5, <1>7, <1>9, <2>3
<1> QED
  BY <1>8, <1>9

-----------------------------------------------------------------------------
(* Rows of a report by any key: what a column counts, and what it sums.    *)
LEMMA KeyedCount ==
    ASSUME NEW t, NEW S, IsFiniteSet(S), NEW group, NEW key, GroupedBy(group, S, key), NEW k,
           NEW rows, DOMAIN rows \subseteq DOMAIN group, NEW field,
           \A l \in DOMAIN rows : rows[l][field] = Cardinality(Having(t, group[l], k)),
           \A o \in Having(t, S, k) : key[o] \in DOMAIN rows
    PROVE  FieldSum(rows, field) = Cardinality(Having(t, S, k))
<1>1. PICK A, L, v, part : /\ A = Having(t, S, k) /\ L = DOMAIN rows
                           /\ v = [l \in L |-> rows[l][field]]
                           /\ part = [l \in L |-> Having(t, group[l], k)]
  OBVIOUS
<1>2. A \in SUBSET S /\ IsFiniteSet(A)
  <2>1. A \in SUBSET S
    BY <1>1, HavingPart
  <2> QED
    BY <2>1, FS_Subset
<1>3. IsFiniteSet(L)
  BY <1>1, FS_Subset DEF GroupedBy
<1>4. \A l \in L : part[l] = {o \in A : key[o] = l}
  <2> SUFFICES ASSUME NEW l \in L PROVE part[l] = {o \in A : key[o] = l}
    OBVIOUS
  <2>1. group[l] = {o \in S : key[o] = l} /\ group[l] \in SUBSET S
    BY <1>1 DEF GroupedBy
  <2>2. part[l] = group[l] \cap A
    BY <1>1, <2>1, HavingPart
  <2> QED
    BY <1>2, <2>1, <2>2
<1>5. DOMAIN v = L /\ (\A l \in L : v[l] = Cardinality(part[l])) /\ \A o \in A : key[o] \in L
  BY <1>1
<1>6. SumFunction(v) = Cardinality(A)
  BY <1>2, <1>3, <1>4, <1>5, RowsCountAll
<1> QED
  BY <1>1, <1>6 DEF FieldSum

LEMMA KeyedSum ==
    ASSUME NEW t, Legal(t), NEW S \in SUBSET Stored(t), NEW group, NEW key, GroupedBy(group, S, key),
           NEW k, NEW amount \in Amounts, NEW rows, DOMAIN rows = DOMAIN group, NEW field,
           \A l \in DOMAIN rows : rows[l][field] = Total(t, Having(t, group[l], k), amount)
    PROVE  FieldSum(rows, field) = Total(t, Having(t, S, k), amount)
<1>1. PICK A, L, v, part, w :
          /\ A = Having(t, S, k) /\ L = DOMAIN rows /\ v = [l \in L |-> rows[l][field]]
          /\ part = [l \in L |-> Having(t, group[l], k)] /\ w = Weight(t, amount)
  OBVIOUS
<1>2. A \in SUBSET S /\ A \in SUBSET Stored(t)
  <2>1. A \in SUBSET S
    BY <1>1, HavingPart
  <2> QED
    BY <2>1
<1>3. /\ IsFiniteSet(A) /\ Total(t, A, amount) = Sum(w, A) /\ \A o \in Stored(t) : w[o] \in Nat
  BY <1>1, <1>2, TotalIs
<1>4. \A l \in L : part[l] = {o \in A : key[o] = l} /\ part[l] \in SUBSET Stored(t)
  <2> SUFFICES ASSUME NEW l \in L
               PROVE  part[l] = {o \in A : key[o] = l} /\ part[l] \in SUBSET Stored(t)
    OBVIOUS
  <2>1. group[l] = {o \in S : key[o] = l} /\ group[l] \in SUBSET S
    BY <1>1 DEF GroupedBy
  <2>2. part[l] = group[l] \cap A
    BY <1>1, <2>1, HavingPart
  <2> QED
    BY <1>2, <2>1, <2>2
<1>5. ASSUME NEW l \in L PROVE v[l] = Sum(w, part[l])
  <2>1. v[l] = Total(t, part[l], amount)
    BY <1>1
  <2>2. PICK T : T = part[l] /\ T \in SUBSET Stored(t)
    BY <1>4
  <2>3. Total(t, T, amount) = Sum(Weight(t, amount), T)
    BY <2>2, TotalIs
  <2> QED
    BY <1>1, <2>1, <2>2, <2>3
<1>6. /\ IsFiniteSet(L) /\ DOMAIN v = L /\ \A o \in A : w[o] \in Int /\ key[o] \in L
  BY <1>1, <1>2, <1>3 DEF GroupedBy
<1>7. SumFunction(v) = Sum(w, A)
  <2>1. \A l \in L : part[l] = {o \in A : key[o] = l}
    BY <1>4
  <2> QED
    BY <1>3, <1>5, <1>6, <2>1, RowsSumAll
<1> QED
  BY <1>1, <1>3, <1>7 DEF FieldSum

(* The columns of delivery, and of the orders that wait. *)
DeliveryIs(row, t, T) ==
    /\ row["orders"] = Cardinality(Having(t, T, "all"))
    /\ row["revenue"] = Total(t, Having(t, T, "net"), "total")
    /\ row["paid"] = Cardinality(Having(t, T, "paid"))
    /\ row["delivery"] = Total(t, Having(t, T, "all"), "deliveryCost")
    /\ row["free"] = Cardinality(Having(t, T, "free"))

DeliveryFields == {"orders", "revenue", "paid", "delivery", "free"}

LEMMA DeliveryRow ==
    ASSUME NEW t, NEW T
    PROVE  DOMAIN Logistics!Delivery(t, T) = DeliveryFields /\ DeliveryIs(Logistics!Delivery(t, T), t, T)
<1>1. PICK row : row = Logistics!Delivery(t, T)
  OBVIOUS
<1>2. /\ DOMAIN row = DeliveryFields
      /\ row["orders"] = Logistics!Cardinality(T) /\ row["revenue"] = Logistics!Revenue(t, T)
      /\ row["paid"] = Logistics!Cardinality(Logistics!Those(t, T, Logistics!Paid))
      /\ row["delivery"] = Logistics!Total(t, T, "deliveryCost")
      /\ row["free"] = Logistics!Cardinality({o \in T : Logistics!Content(t, o).deliveryCost = 0})
  BY <1>1 DEF Logistics!Delivery, Logistics!Count, Logistics!Those, DeliveryFields
<1>3. /\ Logistics!Those(t, T, Logistics!Paid) = Having(t, T, "paid")
      /\ {o \in T : Logistics!Content(t, o).deliveryCost = 0} = Having(t, T, "free")
      /\ Having(t, T, "all") = T
  <2>1. Having(t, T, "all") = T
    BY DEF Having, Has
  <2> QED
    BY <2>1, HavingIs DEF Logistics!Those, Logistics!Paid, Logistics!Content, Content
<1> QED
  BY <1>1, <1>2, <1>3, SameSize, SameTotal, SameRevenue DEF DeliveryIs

(* Rows of all groups make up the whole. *)
DeliveryRows(rows, t, group) ==
    DOMAIN rows = DOMAIN group /\ \A l \in DOMAIN rows : DeliveryIs(rows[l], t, group[l])

LEMMA DeliverySums ==
    ASSUME NEW t, Legal(t), NEW S \in SUBSET Stored(t), NEW group, NEW key, GroupedBy(group, S, key),
           NEW rows, DeliveryRows(rows, t, group),
           NEW whole, DeliveryIs(whole, t, S)
    PROVE  \A field \in DeliveryFields : FieldSum(rows, field) = whole[field]
<1>1. IsFiniteSet(S) /\ \A o \in S : key[o] \in DOMAIN rows
  <2>1. S \in SUBSET S
    OBVIOUS
  <2> QED
    BY <2>1, PartOf DEF GroupedBy, DeliveryRows
<1>2. "total" \in Amounts /\ "deliveryCost" \in Amounts
  BY DEF Amounts
<1>3. DOMAIN rows = DOMAIN group /\ DOMAIN rows \subseteq DOMAIN group
  BY DEF DeliveryRows
<1>4. \A k : \A o \in Having(t, S, k) : key[o] \in DOMAIN rows
  BY <1>1 DEF Having
<1>5. \A l \in DOMAIN rows :
          /\ rows[l]["orders"] = Cardinality(Having(t, group[l], "all"))
          /\ rows[l]["revenue"] = Total(t, Having(t, group[l], "net"), "total")
          /\ rows[l]["paid"] = Cardinality(Having(t, group[l], "paid"))
          /\ rows[l]["delivery"] = Total(t, Having(t, group[l], "all"), "deliveryCost")
          /\ rows[l]["free"] = Cardinality(Having(t, group[l], "free"))
  BY DEF DeliveryIs, DeliveryRows
<1>6. FieldSum(rows, "orders") = Cardinality(Having(t, S, "all"))
  BY <1>1, <1>3, <1>4, <1>5, KeyedCount
<1>7. FieldSum(rows, "paid") = Cardinality(Having(t, S, "paid"))
  BY <1>1, <1>3, <1>4, <1>5, KeyedCount
<1>8. FieldSum(rows, "free") = Cardinality(Having(t, S, "free"))
  BY <1>1, <1>3, <1>4, <1>5, KeyedCount
<1>9. FieldSum(rows, "revenue") = Total(t, Having(t, S, "net"), "total")
  BY <1>2, <1>3, <1>5, KeyedSum
<1>10. FieldSum(rows, "delivery") = Total(t, Having(t, S, "all"), "deliveryCost")
  BY <1>2, <1>3, <1>5, KeyedSum
<1> QED
  BY <1>6, <1>7, <1>8, <1>9, <1>10 DEF DeliveryIs, DeliveryFields

(* Of orders that were to be shipped some are, and the others wait, each   *)
(* of one age.                                                             *)
WaitingIs(row, t, T) ==
    /\ row["processed"] = Cardinality(Having(t, T, "processed"))
    /\ row["shipped"] = Cardinality(Having(t, T, "shipped"))
    /\ row["pending"] = Cardinality(Having(t, T, "waits"))

LEMMA Shipped ==
    ASSUME NEW t, Legal(t), NEW T \in SUBSET Stored(t)
    PROVE  /\ Cardinality(Having(t, T, "processed")) - Cardinality(Having(t, T, "shipped"))
                  = Cardinality(Having(t, T, "waits"))
           /\ Having(t, T, "shipped") \in SUBSET Having(t, T, "processed")
           /\ Having(t, T, "waits") \in SUBSET Having(t, T, "processed")
<1>1. PICK A, B, C : /\ A = Having(t, T, "processed") /\ B = Having(t, T, "shipped")
                     /\ C = Having(t, T, "waits")
  OBVIOUS
<1>2. \A o : /\ o \in A <=> o \in T /\ Content(t, o).stage \in
                 {"processing", "shipped", "in_pvz", "completed", "returned"}
             /\ o \in B <=> o \in T /\ Content(t, o).stage \in
                 {"shipped", "in_pvz", "completed", "returned"}
             /\ o \in C <=> o \in T /\ Content(t, o).stage = "processing"
  BY <1>1, HavingIs, Zenon
<1>3. /\ A \in SUBSET Stored(t) /\ B \in SUBSET A /\ C \in SUBSET A
      /\ B \cap C = {} /\ B \cup C = A
  BY <1>2
<1>4. Cardinality(B) + Cardinality(C) = Cardinality(A)
  BY <1>3, TwoParts
<1>5. Cardinality(A) \in Nat /\ Cardinality(B) \in Nat /\ Cardinality(C) \in Nat
  BY <1>3, PartOf
<1> QED
  BY <1>1, <1>3, <1>4, <1>5

AgeParts(t, C, asOf, X, Y, Z) ==
    /\ X = {o \in C : Logistics!ageDays(t, o, asOf) \in 0..1}
    /\ Y = {o \in C : Logistics!ageDays(t, o, asOf) \in 2..3}
    /\ Z = {o \in C : Logistics!ageDays(t, o, asOf) >= 4}

(* What the columns are before they are finished. *)
LEMMA OperationalIs ==
    ASSUME NEW t, NEW T, NEW asOf, NEW row, row = Logistics!Operational(t, T, asOf),
           NEW C, C = Having(t, T, "waits"), NEW X, NEW Y, NEW Z, AgeParts(t, C, asOf, X, Y, Z)
    PROVE  /\ DeliveryIs(row, t, T) /\ WaitingIs(row, t, T)
           /\ row["pending01"] = Cardinality(X) /\ row["pending23"] = Cardinality(Y)
           /\ row["pending4"] = Cardinality(Z)
           /\ DOMAIN row = DeliveryFields \cup
                 {"processed", "shipped", "pending", "pending01", "pending23", "pending4", "avgAge"}
<1>1. PICK part : part = Logistics!Delivery(t, T)
  OBVIOUS
<1>2. PICK W : W = Logistics!SumFunction([o \in C |-> Logistics!ageDays(t, o, asOf)])
  OBVIOUS
<1>3. /\ Logistics!Those(t, T, Logistics!pendingShipment) = C
      /\ Logistics!Those(t, T, Logistics!reachedProcessing) = Having(t, T, "processed")
      /\ Logistics!Those(t, T, Logistics!reachedShipment) = Having(t, T, "shipped")
  BY HavingIs DEF Logistics!Those, Logistics!Content, Content, Logistics!pendingShipment,
                  Logistics!reachedProcessing, Logistics!reachedShipment
<1>4. PICK rest : rest = [processed |-> Logistics!Cardinality(Having(t, T, "processed")),
                          shipped   |-> Logistics!Cardinality(Having(t, T, "shipped")),
                          pending   |-> Logistics!Cardinality(C),
                          pending01 |-> Logistics!Cardinality(X),
                          pending23 |-> Logistics!Cardinality(Y),
                          pending4  |-> Logistics!Cardinality(Z),
                          avgAge    |-> W]
  OBVIOUS
<1>5. row = Logistics!++(part, rest)
  BY <1>1, <1>2, <1>3, <1>4, Zenon DEF Logistics!Operational, Logistics!Count, AgeParts
<1>6. DOMAIN part = DeliveryFields /\ DeliveryIs(part, t, T)
  BY <1>1, DeliveryRow
<1>7. /\ DOMAIN rest = {"processed", "shipped", "pending", "pending01", "pending23", "pending4", "avgAge"}
      /\ rest["processed"] = Cardinality(Having(t, T, "processed"))
      /\ rest["shipped"] = Cardinality(Having(t, T, "shipped"))
      /\ rest["pending"] = Cardinality(C) /\ rest["pending01"] = Cardinality(X)
      /\ rest["pending23"] = Cardinality(Y) /\ rest["pending4"] = Cardinality(Z)
  BY <1>4, SameSize
<1>8. /\ DOMAIN row = DOMAIN part \cup DOMAIN rest
      /\ \A x \in DOMAIN part : row[x] = part[x]
      /\ \A x \in DOMAIN rest \ DOMAIN part : row[x] = rest[x]
  BY <1>5 DEF Logistics!++
<1>9. DeliveryIs(row, t, T)
  BY <1>6, <1>8 DEF DeliveryIs, DeliveryFields
<1>10. /\ row["processed"] = rest["processed"] /\ row["shipped"] = rest["shipped"]
       /\ row["pending"] = rest["pending"] /\ row["pending01"] = rest["pending01"]
       /\ row["pending23"] = rest["pending23"] /\ row["pending4"] = rest["pending4"]
  BY <1>6, <1>7, <1>8 DEF DeliveryFields
<1> QED
  BY <1>6, <1>7, <1>8, <1>9, <1>10 DEF WaitingIs

LEMMA AgesMakeUp ==
    ASSUME NEW t, Legal(t), NEW C \in SUBSET Stored(t), NEW asOf \in Int, NEW X, NEW Y, NEW Z,
           AgeParts(t, C, asOf, X, Y, Z)
    PROVE  Cardinality(X) + Cardinality(Y) + Cardinality(Z) = Cardinality(C)
<1>1. ASSUME NEW o \in C PROVE Logistics!ageDays(t, o, asOf) \in Nat
  <2>1. PICK n \in Int : n = asOf - Logistics!Created(t, o)
    BY DEF Legal, LegalRow, Created, Logistics!Created
  <2>2. Max({0, n}) = IF 0 >= n THEN 0 ELSE n
    BY OfTwo
  <2>3. Logistics!Max({0, n}) = Max({0, n})
    BY Zenon DEF Logistics!Max, Max
  <2>4. Logistics!ageDays(t, o, asOf) = Logistics!Max({0, n})
    BY <2>1 DEF Logistics!ageDays
  <2> QED
    BY <2>2, <2>3, <2>4
<1>2. PICK age : age = [o \in C |-> Logistics!ageDays(t, o, asOf)]
  OBVIOUS
<1>3. /\ \A o \in C : age[o] \in Nat
      /\ X = {o \in C : age[o] \in 0..1} /\ Y = {o \in C : age[o] \in 2..3}
      /\ Z = {o \in C : age[o] >= 4}
  BY <1>1, <1>2 DEF AgeParts
<1>4. PICK V : V = Y \cup Z
  OBVIOUS
<1>5. /\ X \in SUBSET C /\ V \in SUBSET C /\ X \cap V = {} /\ X \cup V = C
      /\ Y \in SUBSET V /\ Z \in SUBSET V /\ Y \cap Z = {} /\ Y \cup Z = V /\ V \in SUBSET Stored(t)
  BY <1>3, <1>4
<1>6. Cardinality(X) + Cardinality(V) = Cardinality(C)
  BY <1>5, TwoParts
<1>7. Cardinality(Y) + Cardinality(Z) = Cardinality(V)
  BY <1>5, TwoParts
<1>8. Cardinality(X) \in Nat /\ Cardinality(Y) \in Nat /\ Cardinality(Z) \in Nat
  BY <1>5, PartOf
<1> QED
  BY <1>6, <1>7, <1>8

LEMMA OperationalRow ==
    ASSUME NEW t, Legal(t), NEW T \in SUBSET Stored(t), NEW asOf \in Int, NEW row,
           row = Logistics!finalizeOperational(Logistics!Operational(t, T, asOf))
    PROVE  DeliveryIs(row, t, T) /\ WaitingIs(row, t, T) /\ Logistics!AgesAddUp(row)
<1>1. PICK o, C : o = Logistics!Operational(t, T, asOf) /\ C = Having(t, T, "waits")
  OBVIOUS
<1>2. PICK X, Y, Z : AgeParts(t, C, asOf, X, Y, Z)
  BY DEF AgeParts
<1>3. /\ DeliveryIs(o, t, T) /\ WaitingIs(o, t, T)
      /\ o["pending01"] = Cardinality(X) /\ o["pending23"] = Cardinality(Y)
      /\ o["pending4"] = Cardinality(Z)
      /\ DOMAIN o = DeliveryFields \cup
            {"processed", "shipped", "pending", "pending01", "pending23", "pending4", "avgAge"}
  BY <1>1, <1>2, OperationalIs
<1>4. PICK R : R = DOMAIN o
  OBVIOUS
<1>5. /\ \A x \in R \ {"pending", "avgAge"} : row[x] = o[x]
      /\ row["pending"] = o["processed"] - o["shipped"]
  <2>1. row = [o EXCEPT !["pending"] = o.processed - o.shipped,
                        !["avgAge"] = IF o.pending = 0 THEN 0 ELSE o.avgAge \div o.pending]
    BY <1>1 DEF Logistics!finalizeOperational
  <2>2. "pending" \in R
    BY <1>3, <1>4
  <2> QED
    BY <1>4, <2>1, <2>2
<1>6. {"orders", "revenue", "paid", "delivery", "free", "processed", "shipped", "pending01",
       "pending23", "pending4"} \subseteq R \ {"pending", "avgAge"}
  BY <1>3, <1>4 DEF DeliveryFields
<1>7. DeliveryIs(row, t, T)
  BY <1>3, <1>5, <1>6 DEF DeliveryIs
<1>8. WaitingIs(row, t, T)
  BY <1>3, <1>5, <1>6, Shipped DEF WaitingIs
<1>9. Logistics!AgesAddUp(row)
  <2>1. C \in SUBSET Stored(t)
    <3>1. C \in SUBSET T
      BY <1>1, HavingPart
    <3> QED
      BY <3>1
  <2>2. Cardinality(X) + Cardinality(Y) + Cardinality(Z) = Cardinality(C)
    BY <1>2, <2>1, AgesMakeUp
  <2>3. /\ row["pending01"] = Cardinality(X) /\ row["pending23"] = Cardinality(Y)
        /\ row["pending4"] = Cardinality(Z) /\ row["pending"] = Cardinality(C)
    BY <1>1, <1>3, <1>5, <1>6, <1>8 DEF WaitingIs
  <2> QED
    BY <2>2, <2>3 DEF Logistics!AgesAddUp
<1> QED
  BY <1>7, <1>8, <1>9

(* The services that are kept, before they are cut the ones that were to   *)
(* ship anything.                                                          *)
ServicesBefore(a, b) ==
    \/ a.pending > b.pending
    \/ a.pending = b.pending /\ a.processed > b.processed
    \/ a.pending = b.pending /\ a.processed = b.processed /\ a.orders > b.orders

KeptServices(rows, t, S, asOf) ==
    LET group == Groups(t, S, "delivery") IN
    \E F \in SUBSET DOMAIN group :
        /\ \A l \in DOMAIN group : l \in F <=> Logistics!Operational(t, group[l], asOf).processed > 0
        /\ DOMAIN rows \subseteq F
        /\ Cardinality(DOMAIN rows) = Min({Limits.services, Cardinality(F)})
        /\ \A l \in DOMAIN rows : rows[l] =
               Logistics!finalizeOperational(Logistics!Operational(t, group[l], asOf))

LEMMA ServicesKept ==
    ASSUME NEW t, NEW r, NEW f, NEW asOf, NEW rows, rows \in Logistics!byService(t, r, asOf, f)
    PROVE  KeptServices(rows, t, Scope(t, r, f), asOf)
<1>0. PICK group : group = Groups(t, Scope(t, r, f), "delivery")
  OBVIOUS
<1> DEFINE G == Logistics!Groups(t, Logistics!Scope(t, r, f), "delivery")
           H == [l \in DOMAIN G |-> Logistics!Operational(t, G[l], asOf)]
           J == Logistics!RestrictDomain(H, LAMBDA l : H[l].processed > 0)
<1>1. rows \in {[l \in DOMAIN kept |-> Logistics!finalizeOperational(kept[l])] :
          kept \in {[l \in K |-> J[l]] : K \in
              {K \in SUBSET DOMAIN J :
                  /\ Logistics!Cardinality(K) = Logistics!Min({Limits.services, Logistics!Cardinality(DOMAIN J)})
                  /\ \A l \in K, m \in DOMAIN J \ K : ~ServicesBefore(J[m], J[l])}}}
  BY Zenon DEF Logistics!byService, Logistics!Top, ServicesBefore
<1>2. PICK all : all = H
  OBVIOUS
<1>3. all = [l \in DOMAIN group |-> Logistics!Operational(t, group[l], asOf)]
  BY <1>0, <1>2, SameScope, SameGroups
<1>4. PICK F : F = {l \in DOMAIN all : all[l].processed > 0}
  OBVIOUS
<1>5. J = [l \in F |-> all[l]]
  <2>1. J = Logistics!RestrictDomain(all, LAMBDA l : all[l].processed > 0)
    BY <1>2
  <2>2. Logistics!RestrictDomain(all, LAMBDA l : all[l].processed > 0) = [l \in F |-> all[l]]
    BY <1>4 DEF Logistics!RestrictDomain, Logistics!Restrict
  <2> QED
    BY <2>1, <2>2, Zenon
<1> HIDE DEF G, H, J
<1>6. PICK K \in SUBSET DOMAIN J :
          /\ Logistics!Cardinality(K) = Logistics!Min({Limits.services, Logistics!Cardinality(DOMAIN J)})
          /\ rows = [l \in K |-> Logistics!finalizeOperational(J[l])]
  BY <1>1
<1>7. DOMAIN J = F /\ DOMAIN rows = K
  BY <1>5, <1>6
<1>8. Cardinality(K) = Min({Limits.services, Cardinality(F)})
  BY <1>6, <1>7, SameSize, SameMin
<1>9. F \in SUBSET DOMAIN group
      /\ \A l \in DOMAIN group : l \in F <=> Logistics!Operational(t, group[l], asOf).processed > 0
  BY <1>3, <1>4
<1>10. \A l \in DOMAIN rows : rows[l] =
           Logistics!finalizeOperational(Logistics!Operational(t, group[l], asOf))
  BY <1>3, <1>5, <1>6, <1>7, <1>9
<1> QED
  BY <1>0, <1>6, <1>7, <1>8, <1>9, <1>10 DEF KeptServices

LEMMA ServicesAge ==
    ASSUME NEW t, Legal(t), NEW r, NEW f, NEW S, S = Scope(t, r, f), NEW asOf \in Int,
           NEW rows, rows \in Logistics!byService(t, r, asOf, f), NEW l \in DOMAIN rows
    PROVE  /\ Logistics!AgesAddUp(rows[l])
           /\ WaitingIs(rows[l], t, Groups(t, S, "delivery")[l])
<1>1. PICK group, key : group = Groups(t, S, "delivery") /\ key = Labels(t, S, "delivery")
  OBVIOUS
<1>2. S \in SUBSET Stored(t)
  BY DEF Scope
<1>3. GroupedBy(group, S, key)
  BY <1>1, <1>2, GroupsAre
<1>4. PICK F \in SUBSET DOMAIN group :
          /\ DOMAIN rows \subseteq F
          /\ \A m \in DOMAIN rows : rows[m] =
                 Logistics!finalizeOperational(Logistics!Operational(t, group[m], asOf))
  <2>1. KeptServices(rows, t, S, asOf)
    BY ServicesKept
  <2> QED
    BY <1>1, <2>1 DEF KeptServices
<1>5. PICK T, row : T = group[l] /\ row = rows[l]
  OBVIOUS
<1>6. T \in SUBSET Stored(t)
  BY <1>2, <1>3, <1>4, <1>5 DEF GroupedBy
<1>7. row = Logistics!finalizeOperational(Logistics!Operational(t, T, asOf))
  BY <1>4, <1>5
<1>8. Logistics!AgesAddUp(row) /\ WaitingIs(row, t, T)
  BY <1>6, <1>7, OperationalRow
<1> QED
  BY <1>1, <1>5, <1>8

LEMMA ServicesAddUp ==
    ASSUME NEW t, Legal(t), NEW r, NEW f, NEW S, S = Scope(t, r, f), NEW asOf \in Int,
           NEW rows, rows \in Logistics!byService(t, r, asOf, f),
           Cardinality(DOMAIN rows) < Limits.services
    PROVE  /\ FieldSum(rows, "processed") = Cardinality(Having(t, S, "processed"))
           /\ FieldSum(rows, "shipped") = Cardinality(Having(t, S, "shipped"))
           /\ FieldSum(rows, "pending") = Cardinality(Having(t, S, "waits"))
<1>1. PICK group, key : group = Groups(t, S, "delivery") /\ key = Labels(t, S, "delivery")
  OBVIOUS
<1>2. S \in SUBSET Stored(t) /\ S \in SUBSET S
  BY DEF Scope
<1>3. GroupedBy(group, S, key) /\ IsFiniteSet(DOMAIN group) /\ IsFiniteSet(S)
  <2>1. GroupedBy(group, S, key)
    BY <1>1, <1>2, GroupsAre
  <2> QED
    BY <1>2, <2>1, PartOf DEF GroupedBy
<1>4. PICK F \in SUBSET DOMAIN group :
          /\ \A l \in DOMAIN group : l \in F <=> Logistics!Operational(t, group[l], asOf).processed > 0
          /\ DOMAIN rows \subseteq F
          /\ Cardinality(DOMAIN rows) = Min({Limits.services, Cardinality(F)})
  <2>1. KeptServices(rows, t, S, asOf)
    BY ServicesKept
  <2> QED
    BY <1>1, <2>1 DEF KeptServices
<1>5. DOMAIN rows = F
  <2>1. IsFiniteSet(F) /\ Limits.services \in Nat
    BY <1>3, <1>4, FS_Subset, LimitsAssumption
  <2> QED
    BY <1>4, <2>1, KeptAll
<1>6. PICK A : A = Having(t, S, "processed")
  OBVIOUS
<1>7. ASSUME NEW o \in A PROVE key[o] \in DOMAIN rows
  <2>1. o \in S
    BY <1>6, HavingPart
  <2>2. PICK l, T : l = key[o] /\ T = group[l]
    OBVIOUS
  <2>3. l \in DOMAIN group /\ T = {x \in S : key[x] = l} /\ o \in T
    BY <1>3, <2>1, <2>2 DEF GroupedBy
  <2>4. T \in SUBSET S
    BY <2>3
  <2>5. PICK B : B = Having(t, T, "processed")
    OBVIOUS
  <2>6. o \in B /\ B \in SUBSET Stored(t)
    <3>1. B = T \cap A
      BY <1>6, <2>4, <2>5, HavingPart
    <3> QED
      BY <1>2, <2>3, <2>4, <3>1
  <2>7. Cardinality(B) # 0 /\ Cardinality(B) \in Nat
    <3>1. B \in SUBSET B
      OBVIOUS
    <3>2. IsFiniteSet(B) /\ Cardinality(B) \in Nat
      BY <2>6, <3>1, PartOf
    <3> QED
      BY <2>6, <3>2, FS_EmptySet
  <2>8. Logistics!Operational(t, T, asOf)["processed"] = Cardinality(B)
    <3>1. PICK C, X, Y, Z : C = Having(t, T, "waits") /\ AgeParts(t, C, asOf, X, Y, Z)
      BY DEF AgeParts
    <3>2. PICK row : row = Logistics!Operational(t, T, asOf)
      OBVIOUS
    <3>3. WaitingIs(row, t, T)
      BY <3>1, <3>2, OperationalIs
    <3> QED
      BY <2>5, <3>2, <3>3 DEF WaitingIs
  <2>9. Logistics!Operational(t, T, asOf).processed > 0
    BY <2>7, <2>8
  <2> QED
    BY <1>4, <1>5, <2>2, <2>3, <2>9
<1>8. \A l \in DOMAIN rows :
          /\ rows[l]["processed"] = Cardinality(Having(t, group[l], "processed"))
          /\ rows[l]["shipped"] = Cardinality(Having(t, group[l], "shipped"))
          /\ rows[l]["pending"] = Cardinality(Having(t, group[l], "waits"))
  <2> SUFFICES ASSUME NEW l \in DOMAIN rows
               PROVE  /\ rows[l]["processed"] = Cardinality(Having(t, group[l], "processed"))
                      /\ rows[l]["shipped"] = Cardinality(Having(t, group[l], "shipped"))
                      /\ rows[l]["pending"] = Cardinality(Having(t, group[l], "waits"))
    OBVIOUS
  <2>1. WaitingIs(rows[l], t, group[l])
    BY <1>1, ServicesAge
  <2> QED
    BY <2>1 DEF WaitingIs
<1>9. DOMAIN rows \subseteq DOMAIN group
  BY <1>5
<1>10. Having(t, S, "shipped") \subseteq A /\ Having(t, S, "waits") \subseteq A
  BY <1>2, <1>6, Shipped
<1>11. FieldSum(rows, "processed") = Cardinality(Having(t, S, "processed"))
  BY <1>3, <1>6, <1>7, <1>8, <1>9, KeyedCount
<1>12. FieldSum(rows, "shipped") = Cardinality(Having(t, S, "shipped"))
  <2>1. \A o \in Having(t, S, "shipped") : key[o] \in DOMAIN rows
    BY <1>7, <1>10
  <2> QED
    BY <1>3, <1>8, <1>9, <2>1, KeyedCount
<1>13. FieldSum(rows, "pending") = Cardinality(Having(t, S, "waits"))
  <2>1. \A o \in Having(t, S, "waits") : key[o] \in DOMAIN rows
    BY <1>7, <1>10
  <2> QED
    BY <1>3, <1>8, <1>9, <2>1, KeyedCount
<1> QED
  BY <1>11, <1>12, <1>13

(* The cities. *)
LEMMA CitiesAddUp ==
    ASSUME NEW t, Legal(t), NEW r, NEW f, NEW S, S = Scope(t, r, f),
           NEW rows, rows \in Logistics!byCity(t, r, f),
           Cardinality(DOMAIN rows) < Limits.cities, NEW whole, DeliveryIs(whole, t, S)
    PROVE  /\ DOMAIN rows = DOMAIN Groups(t, S, "city")
           /\ \A field \in DeliveryFields : FieldSum(rows, field) = whole[field]
<1>1. PICK group, key : group = Groups(t, S, "city") /\ key = Labels(t, S, "city")
  OBVIOUS
<1>2. S \in SUBSET Stored(t)
  BY DEF Scope
<1>3. GroupedBy(group, S, key) /\ IsFiniteSet(DOMAIN group) /\ Limits.cities \in Nat
  <2>1. GroupedBy(group, S, key)
    BY <1>1, <1>2, GroupsAre
  <2> QED
    BY <2>1, LimitsAssumption DEF GroupedBy
<1>4. PICK all : all = [l \in DOMAIN group |->
          Logistics!++([isPilot |-> l \in PilotCities], Logistics!Delivery(t, group[l]))]
  OBVIOUS
<1>5. Logistics!byCity(t, r, f) = Logistics!Top(all, Limits.cities, Logistics!MoreOrders)
  BY <1>1, <1>4, SameScope, SameGroups DEF Logistics!byCity
<1>6. PICK K \in SUBSET DOMAIN all :
          /\ Logistics!Cardinality(K) = Logistics!Min({Limits.cities, Logistics!Cardinality(DOMAIN all)})
          /\ rows = [l \in K |-> all[l]]
  BY <1>5 DEF Logistics!Top
<1>7. DOMAIN rows = K /\ DOMAIN all = DOMAIN group
  BY <1>4, <1>6
<1>8. Cardinality(K) = Min({Limits.cities, Cardinality(DOMAIN group)})
  BY <1>6, <1>7, SameSize, SameMin
<1>9. K = DOMAIN group
  BY <1>3, <1>7, <1>8, KeptAll
<1>10. ASSUME NEW l \in DOMAIN rows PROVE DeliveryIs(rows[l], t, group[l])
  <2>1. PICK d, x, row : /\ d = Logistics!Delivery(t, group[l]) /\ x = [isPilot |-> l \in PilotCities]
                         /\ row = rows[l] /\ row = Logistics!++(x, d)
    BY <1>4, <1>6, <1>7
  <2>2. DOMAIN d = DeliveryFields /\ DeliveryIs(d, t, group[l])
    BY <2>1, DeliveryRow
  <2>3. \A y \in DeliveryFields : row[y] = d[y]
    BY <2>1, <2>2 DEF Logistics!++, DeliveryFields
  <2> QED
    BY <2>1, <2>2, <2>3 DEF DeliveryIs, DeliveryFields
<1>11. DOMAIN rows = DOMAIN group
  BY <1>7, <1>9
<1>12. \A field \in DeliveryFields : FieldSum(rows, field) = whole[field]
  <2>1. DeliveryRows(rows, t, group)
    BY <1>10, <1>11 DEF DeliveryRows
  <2> QED
    BY <1>2, <1>3, <2>1, DeliverySums
<1> QED
  BY <1>1, <1>11, <1>12

(* The cells of the series. *)
CellKey(t, column, g, o) ==
    <<Logistics!GroupOf(t, o, column), Logistics!periodExpr(Logistics!Created(t, o), g)>>
CellKeys(t, S, column, g) == [o \in S |-> CellKey(t, column, g, o)]
Cells(t, S, column, g) ==
    [k \in {CellKey(t, column, g, o) : o \in S} |-> {o \in S : CellKey(t, column, g, o) = k}]

LEMMA CellsAre ==
    ASSUME NEW t, NEW S, IsFiniteSet(S), NEW column, NEW g
    PROVE  /\ GroupedBy(Cells(t, S, column, g), S, CellKeys(t, S, column, g))
           /\ \A k \in DOMAIN Cells(t, S, column, g) : Cells(t, S, column, g)[k] # {}
<1>1. PICK key, cell, K : /\ key = CellKeys(t, S, column, g) /\ cell = Cells(t, S, column, g)
                          /\ K = {key[o] : o \in S}
  OBVIOUS
<1>2. IsFiniteSet(K)
  BY <1>1, ImageIsFinite
<1>3. \A o \in S : key[o] = CellKey(t, column, g, o)
  BY <1>1 DEF CellKeys
<1>4. DOMAIN cell = K /\ \A k \in K : cell[k] = {o \in S : key[o] = k}
  BY <1>1, <1>3 DEF Cells
<1>5. \A k \in K : \E o \in S : key[o] = k
  BY <1>1
<1>6. GroupedBy(cell, S, key)
  BY <1>1, <1>2, <1>4 DEF GroupedBy
<1> QED
  BY <1>1, <1>4, <1>5, <1>6

SeriesIs(points, t, S, column, g) ==
    LET cell == Cells(t, S, column, g) IN
    /\ DOMAIN points = DOMAIN cell
    /\ \A k \in DOMAIN points :
          /\ DOMAIN points[k] = DeliveryFields \cup {"net"}
          /\ DeliveryIs(points[k], t, cell[k])
          /\ points[k]["net"] = Cardinality(Having(t, cell[k], "net"))

LEMMA SeriesOrders ==
    ASSUME NEW t, NEW r, NEW f, NEW column, NEW g
    PROVE  SeriesIs(Logistics!seriesOrders(t, r, f, column, g), t, Scope(t, r, f), column, g)
<1>1. PICK S, cell, points : /\ S = Scope(t, r, f) /\ cell = Cells(t, S, column, g)
                             /\ points = Logistics!seriesOrders(t, r, f, column, g)
  OBVIOUS
<1>2. PICK Row : Row = [k \in DOMAIN cell |->
          Logistics!++([net |-> Logistics!Count(t, cell[k], Logistics!Net)], Logistics!Delivery(t, cell[k]))]
  OBVIOUS
<1>3. points = Row
  <2>1. Logistics!Scope(t, r, f) = S
    BY <1>1, SameScope
  <2>2. points = [k \in {CellKey(t, column, g, o) : o \in S} |->
          Logistics!++([net |-> Logistics!Count(t, {o \in S : CellKey(t, column, g, o) = k}, Logistics!Net)],
                       Logistics!Delivery(t, {o \in S : CellKey(t, column, g, o) = k}))]
    BY <1>1, <2>1, Zenon DEF Logistics!seriesOrders, Logistics!Cells, CellKey
  <2> QED
    BY <1>1, <1>2, <2>2 DEF Cells
<1>4. ASSUME NEW k \in DOMAIN points
      PROVE  /\ DOMAIN points[k] = DeliveryFields \cup {"net"}
             /\ DeliveryIs(points[k], t, cell[k])
             /\ points[k]["net"] = Cardinality(Having(t, cell[k], "net"))
  <2>1. PICK T, x, d, row : /\ T = cell[k] /\ x = [net |-> Logistics!Count(t, T, Logistics!Net)]
                            /\ d = Logistics!Delivery(t, T) /\ row = points[k]
                            /\ row = Logistics!++(x, d)
    BY <1>2, <1>3
  <2>2. DOMAIN d = DeliveryFields /\ DeliveryIs(d, t, T)
    BY <2>1, DeliveryRow
  <2>3. /\ DOMAIN row = DeliveryFields \cup {"net"}
        /\ \A y \in DeliveryFields : row[y] = d[y]
        /\ row["net"] = Logistics!Count(t, T, Logistics!Net)
    BY <2>1, <2>2 DEF Logistics!++, DeliveryFields
  <2>4. Logistics!Count(t, T, Logistics!Net) = Cardinality(Having(t, T, "net"))
    <3>1. Logistics!Those(t, T, Logistics!Net) = Having(t, T, "net")
      BY HavingIs DEF Logistics!Those, Logistics!Content, Content, Logistics!Net
    <3> QED
      BY <3>1, SameSize DEF Logistics!Count
  <2> QED
    BY <2>1, <2>2, <2>3, <2>4 DEF DeliveryIs, DeliveryFields
<1>5. DOMAIN points = DOMAIN cell
  BY <1>2, <1>3
<1> QED
  BY <1>1, <1>4, <1>5 DEF SeriesIs

LEMMA SeriesItems ==
    ASSUME NEW t, NEW r, NEW f, NEW column, NEW g, NEW S, S = Scope(t, r, f),
           NEW k \in DOMAIN Logistics!seriesItems(t, r, f, column, g)
    PROVE  \E o \in S : o \in Having(t, S, "net") /\ CellKey(t, column, g, o) = k
<1>1. Logistics!Scope(t, r, f) = S
  BY SameScope
<1>2. Logistics!Those(t, S, Logistics!Net) = Having(t, S, "net")
  BY HavingIs DEF Logistics!Those, Logistics!Content, Content, Logistics!Net
<1>3. PICK sold : /\ sold \subseteq Having(t, S, "net")
                  /\ DOMAIN Logistics!seriesItems(t, r, f, column, g) =
                         {CellKey(t, column, g, o) : o \in sold}
  <2>1. PICK sold : sold = {o \in Having(t, S, "net") : DOMAIN t.items[o] # {}}
    OBVIOUS
  <2>2. DOMAIN Logistics!seriesItems(t, r, f, column, g) = {CellKey(t, column, g, o) : o \in sold}
    BY <1>1, <1>2, <2>1 DEF Logistics!seriesItems, Logistics!Cells, CellKey
  <2> QED
    BY <2>1, <2>2
<1> QED
  BY <1>3, HavingPart

(* Points have the columns of the orders, and pieces where any were sold.  *)
LEMMA PointsDomain ==
    ASSUME NEW points, NEW sold
    PROVE  DOMAIN Logistics!Points(points, sold) = DOMAIN points
BY DEF Logistics!Points

PointIs(point, row, k, sold) ==
    /\ \A x \in DeliveryFields \cup {"net"} : point[x] = row[x]
    /\ point["units"] = IF k \in DOMAIN sold THEN sold[k].units ELSE 0

LEMMA PointsAre ==
    ASSUME NEW points, NEW sold, NEW k \in DOMAIN points, NEW filled,
           filled = Logistics!Points(points, sold), DOMAIN points[k] = DeliveryFields \cup {"net"}
    PROVE  PointIs(filled[k], points[k], k, sold)
<1>1. PICK m, row : /\ m = (IF k \in DOMAIN sold THEN sold[k] ELSE Logistics!NoItems)
                    /\ row = points[k]
  OBVIOUS
<1>2. PICK own : own = [aov   |-> Logistics!Over(row.revenue, row.net), units |-> m.units,
                        asp   |-> Logistics!Over(m.itemRevenue, m.units)]
  OBVIOUS
<1>3. filled[k] = Logistics!++(own, row)
  BY <1>1, <1>2 DEF Logistics!Points
<1>4. /\ \A x \in DOMAIN row : filled[k][x] = row[x]
      /\ filled[k]["units"] = m.units
  <2>1. DOMAIN own = {"aov", "units", "asp"} /\ own["units"] = m.units
    BY <1>2
  <2> QED
    BY <1>1, <1>3, <2>1 DEF Logistics!++, DeliveryFields
<1>5. Logistics!NoItems.units = 0
  BY DEF Logistics!NoItems
<1> QED
  BY <1>1, <1>4, <1>5 DEF PointIs

(* A point of the series has orders, whatever the pieces are of. *)
LEMMA PointsHaveOrders ==
    ASSUME NEW t, Legal(t), NEW S \in SUBSET Stored(t), NEW column, NEW g, NEW points, NEW sold,
           SeriesIs(points, t, S, column, g), NEW filled, filled = Logistics!Points(points, sold)
    PROVE  \A k \in DOMAIN filled : filled[k].orders > 0
<1>1. SUFFICES ASSUME NEW k \in DOMAIN filled PROVE filled[k]["orders"] > 0
  OBVIOUS
<1>2. PICK cell, T : cell = Cells(t, S, column, g) /\ T = cell[k]
  OBVIOUS
<1>3. IsFiniteSet(S)
  <2>1. S \in SUBSET S
    OBVIOUS
  <2> QED
    BY <2>1, PartOf
<1>4. k \in DOMAIN points /\ k \in DOMAIN cell /\ DeliveryIs(points[k], t, T)
      /\ DOMAIN points[k] = DeliveryFields \cup {"net"}
  <2>1. DOMAIN filled = DOMAIN points
    BY PointsDomain
  <2> QED
    BY <1>2, <2>1 DEF SeriesIs
<1>5. filled[k]["orders"] = Cardinality(Having(t, T, "all"))
  <2>1. filled[k]["orders"] = points[k]["orders"]
    BY <1>4, PointsAre DEF PointIs, DeliveryFields
  <2> QED
    BY <1>4, <2>1 DEF DeliveryIs
<1>6. T # {} /\ T \in SUBSET Stored(t)
  <2>1. PICK key : GroupedBy(cell, S, key) /\ cell[k] # {}
    BY <1>2, <1>3, <1>4, CellsAre
  <2> QED
    BY <1>2, <1>4, <2>1 DEF GroupedBy
<1>7. Having(t, T, "all") = T
  BY HavingPart
<1>8. IsFiniteSet(T) /\ Cardinality(T) \in Nat /\ Cardinality(T) # 0
  <2>1. T \in SUBSET T
    OBVIOUS
  <2>2. IsFiniteSet(T) /\ Cardinality(T) \in Nat
    BY <1>6, <2>1, PartOf
  <2> QED
    BY <1>6, <2>2, FS_EmptySet
<1> QED
  BY <1>5, <1>7, <1>8

(* The points make up the whole, and where nothing is left of the orders   *)
(* nothing was sold.                                                       *)
LEMMA PointsAddUp ==
    ASSUME NEW t, Legal(t), NEW r, NEW f, NEW S, S = Scope(t, r, f), NEW column, NEW g,
           NEW points, points = Logistics!seriesOrders(t, r, f, column, g),
           NEW sold, sold = Logistics!seriesItems(t, r, f, column, g),
           NEW filled, filled = Logistics!Points(points, sold), NEW whole, DeliveryIs(whole, t, S)
    PROVE  /\ \A field \in DeliveryFields : FieldSum(filled, field) = whole[field]
           /\ \A k \in DOMAIN filled : filled[k].net = 0 => filled[k].units = 0
<1>1. PICK cell, key : cell = Cells(t, S, column, g) /\ key = CellKeys(t, S, column, g)
  OBVIOUS
<1>2. S \in SUBSET Stored(t) /\ S \in SUBSET S
  BY DEF Scope
<1>3. IsFiniteSet(S)
  BY <1>2, PartOf
<1>4. GroupedBy(cell, S, key)
  BY <1>1, <1>3, CellsAre
<1>5. SeriesIs(points, t, S, column, g)
  BY SeriesOrders
<1>6. /\ DOMAIN filled = DOMAIN points /\ DOMAIN points = DOMAIN cell
      /\ \A k \in DOMAIN points :
            /\ DOMAIN points[k] = DeliveryFields \cup {"net"}
            /\ DeliveryIs(points[k], t, cell[k])
            /\ points[k]["net"] = Cardinality(Having(t, cell[k], "net"))
  BY <1>1, <1>5, PointsDomain DEF SeriesIs
<1>7. \A k \in DOMAIN points : PointIs(filled[k], points[k], k, sold)
  BY <1>6, PointsAre
<1>8. DeliveryRows(filled, t, cell)
  <2> SUFFICES ASSUME NEW k \in DOMAIN filled PROVE DeliveryIs(filled[k], t, cell[k])
    BY <1>6 DEF DeliveryRows
  <2>1. DeliveryIs(points[k], t, cell[k]) /\ \A x \in DeliveryFields : filled[k][x] = points[k][x]
    BY <1>6, <1>7 DEF PointIs
  <2> QED
    BY <2>1 DEF DeliveryIs, DeliveryFields
<1>9. \A field \in DeliveryFields : FieldSum(filled, field) = whole[field]
  BY <1>2, <1>4, <1>8, DeliverySums
<1>10. ASSUME NEW k \in DOMAIN filled, filled[k]["net"] = 0 PROVE filled[k]["units"] = 0
  <2>1. PICK N : N = Having(t, cell[k], "net") /\ cell[k] \in SUBSET S
    BY <1>4, <1>6 DEF GroupedBy
  <2>2. Cardinality(N) = 0
    BY <1>6, <1>7, <1>10, <2>1 DEF PointIs
  <2>3. N = {}
    <3>1. N \in SUBSET cell[k]
      BY <2>1, HavingPart
    <3>2. IsFiniteSet(N)
      BY <1>3, <2>1, <3>1, FS_Subset
    <3> QED
      BY <2>2, <3>2, FS_EmptySet
  <2>4. k \notin DOMAIN sold
    <3> SUFFICES ASSUME k \in DOMAIN sold PROVE FALSE
      OBVIOUS
    <3>1. PICK o \in S : o \in Having(t, S, "net") /\ CellKey(t, column, g, o) = k
      BY SeriesItems
    <3>2. o \in cell[k]
      BY <1>1, <3>1 DEF Cells
    <3>3. o \in N
      BY <2>1, <3>1, <3>2, HavingPart
    <3> QED
      BY <2>3, <3>3
  <2> QED
    BY <1>6, <1>7, <2>4 DEF PointIs
<1> QED
  BY <1>9, <1>10

(* The pilot cities and the others. *)
InCohort(t, S, isPilot) ==
    {o \in S : Content(t, o).city # "" /\ (Content(t, o).city \in PilotCities <=> isPilot)}

LEMMA CohortRow ==
    ASSUME NEW t, Legal(t), NEW r, NEW f, NEW asOf \in Int, NEW isPilot, NEW row,
           row = Logistics!cohortSummary(t, r, asOf, f, isPilot),
           NEW S, S = Scope(t, r, [f EXCEPT !.city = {}])
    PROVE  /\ Logistics!AgesAddUp(row)
           /\ row.orders = Cardinality(InCohort(t, S, isPilot))
<1>1. PICK T : T = InCohort(t, S, isPilot) /\ T \in SUBSET Stored(t)
  BY DEF InCohort, Scope
<1>2. {o \in Logistics!Scope(t, r, [f EXCEPT !.city = {}]) :
           /\ Logistics!Content(t, o).city # ""
           /\ Logistics!Content(t, o).city \in PilotCities <=> isPilot} = T
  BY <1>1, SameScope DEF InCohort, Logistics!Content, Content
<1>3. row = Logistics!finalizeOperational(Logistics!Operational(t, T, asOf))
  BY <1>2 DEF Logistics!cohortSummary
<1>4. Logistics!AgesAddUp(row) /\ DeliveryIs(row, t, T)
  BY <1>1, <1>3, OperationalRow
<1>5. Having(t, T, "all") = T
  BY HavingPart
<1> QED
  BY <1>1, <1>4, <1>5 DEF DeliveryIs

(* Without a filter on the city a cohort is of the orders of the report.   *)
LEMMA NoCityFilter ==
    ASSUME NEW t, NEW r, NEW f, Values(f.city) = {}
    PROVE  Scope(t, r, [f EXCEPT !.city = {}]) = Scope(t, r, f)
<1>1. PICK g : g = [f EXCEPT !.city = {}]
  OBVIOUS
<1>2. ASSUME NEW c PROVE GeoCond(c, g) <=> GeoCond(c, f)
  <2>1. DOMAIN g = DOMAIN f
    BY <1>1
  <2>2. \A d \in DOMAIN f : d # "city" => g[d] = f[d]
    BY <1>1
  <2>3. "city" \in DOMAIN f => Values(g["city"]) = {}
    BY <1>1 DEF Values
  <2> QED
    BY <2>1, <2>2, <2>3 DEF GeoCond
<1> QED
  BY <1>1, <1>2 DEF Scope

LEMMA CohortsMakeUp ==
    ASSUME NEW t, Legal(t), NEW S \in SUBSET Stored(t)
    PROVE  /\ Cardinality(InCohort(t, S, TRUE)) + Cardinality(InCohort(t, S, FALSE)) <= Cardinality(S)
           /\ "-" \notin DOMAIN Groups(t, S, "city") =>
                  Cardinality(InCohort(t, S, TRUE)) + Cardinality(InCohort(t, S, FALSE)) = Cardinality(S)
<1>1. PICK A, B, C : /\ A = InCohort(t, S, TRUE) /\ B = InCohort(t, S, FALSE)
                     /\ C = {o \in S : Content(t, o).city # ""}
  OBVIOUS
<1>2. A \in SUBSET C /\ B \in SUBSET C /\ A \cap B = {} /\ A \cup B = C /\ C \in SUBSET S
      /\ C \in SUBSET Stored(t)
  BY <1>1 DEF InCohort
<1>3. Cardinality(A) + Cardinality(B) = Cardinality(C)
  BY <1>2, TwoParts
<1>4. Cardinality(C) <= Cardinality(S)
  BY <1>2, PartOf
<1>5. ASSUME "-" \notin DOMAIN Groups(t, S, "city") PROVE C = S
  <2>1. \A o \in S : Label(Content(t, o)["city"]) # "-"
    BY <1>5 DEF Groups
  <2> QED
    BY <1>1, <2>1 DEF Label
<1> QED
  BY <1>1, <1>3, <1>4, <1>5

(* The day that ages are counted to. *)
LEMMA AsOfIs ==
    ASSUME NEW t, Legal(t)
    PROVE  Logistics!dataAsOf(t) \in Nat
<1> DEFINE day == [o \in Stored(t) |-> Created(t, o)]
           last == [o \in Stored(t) |-> t.orders[o].updated]
           D == {day[o] : o \in Stored(t)}
           E == {last[o] : o \in Stored(t)}
           A == {NoDay} \cup D \cup E
<1>1. IsFiniteSet(Stored(t))
  BY DEF Legal
<1>2. IsFiniteSet(D) /\ IsFiniteSet(E)
  <2>1. IsFiniteSet(D)
    BY <1>1, ImageIsFinite
  <2>2. IsFiniteSet(E)
    BY <1>1, ImageIsFinite
  <2> QED
    BY <2>1, <2>2
<1>3. D \subseteq Nat /\ E \subseteq Nat
  BY DEF Legal, LegalRow
<1>4. IsFiniteSet(A) /\ A \subseteq Nat /\ A # {}
  <2>1. PICK z, Z : z = NoDay /\ Z = {z} /\ IsFiniteSet(Z)
    BY FS_Singleton
  <2>2. PICK Y : Y = Z \cup D /\ IsFiniteSet(Y)
    BY <1>2, <2>1, FS_Union
  <2>3. IsFiniteSet(Y \cup E)
    BY <1>2, <2>2, FS_Union
  <2>4. A = Y \cup E
    BY <2>1, <2>2
  <2> QED
    BY <1>3, <2>1, <2>2, <2>3, <2>4 DEF NoDay
<1>5. Max(A) \in A
  <2>1. A \in SUBSET Int
    BY <1>4
  <2> QED
    BY <1>4, <2>1, MinMaxOf
<1>6. {NoDay} \cup {Created(t, o) : o \in Stored(t)} \cup {t.orders[o].updated : o \in Stored(t)} = A
  OBVIOUS
<1>7. Logistics!dataAsOf(t) = Max({NoDay} \cup {Created(t, o) : o \in Stored(t)}
                                           \cup {t.orders[o].updated : o \in Stored(t)})
  BY Zenon DEF Logistics!dataAsOf, Logistics!Max, Max, Logistics!NoDay, NoDay, Logistics!Created, Created,
               Logistics!Stored, Stored
<1> QED
  BY <1>4, <1>5, <1>6, <1>7

(* What the report of a period asks, the cohorts when there are pilots.    *)
Periods == {"cur", "prev"}
LogisticsAsked ==
    ({"summary", "byService", "byCity", "seriesOrders", "seriesItems"} \X Periods)
    \cup {<<"cohort", p, isPilot>> : p \in IF PilotCities = {} THEN {} ELSE Periods, isPilot \in BOOLEAN}

LEMMA AsOfInt ==
    ASSUME NEW a, AsksDays(a), NEW got,
           <<"dataBounds">> \in DOMAIN got => IsBounds(got[<<"dataBounds">>]),
           got[<<"dataAsOf">>] \in Nat
    PROVE  Logistics!asOf(a, got) \in Int
<1>1. PICK r : r = Ranges(a, got) /\ r = Logistics!Ranges(a, got)
  BY SameRanges
<1>2. IsRange(r.cur)
  BY <1>1, RangesAre
<1> QED
  BY <1>1, <1>2 DEF Logistics!asOf, IsRange

LEMMA SummaryIs ==
    ASSUME NEW t, Legal(t), NEW r, NEW f, NEW asOf \in Int, NEW row, row = Logistics!summary(t, r, asOf, f)
    PROVE  /\ Logistics!AgesAddUp(row) /\ DeliveryIs(row, t, Scope(t, r, f))
           /\ WaitingIs(row, t, Scope(t, r, f))
<1>1. PICK S : S = Scope(t, r, f) /\ S = Logistics!Scope(t, r, f) /\ S \in SUBSET Stored(t)
  BY SameScope DEF Scope
<1>2. row = Logistics!finalizeOperational(Logistics!Operational(t, S, asOf))
  BY <1>1 DEF Logistics!summary
<1> QED
  BY <1>1, <1>2, OperationalRow

(* Statements that ran on legal tables, each on its own. *)
LEMMA LogisticsStatementsAddUp ==
    ASSUME NEW a, AsksDays(a), NEW got,
           <<"dataBounds">> \in DOMAIN got => IsBounds(got[<<"dataBounds">>]),
           got[<<"dataAsOf">>] \in Nat,
           \A st \in LogisticsAsked : \E t : Legal(t) /\ got[st] \in Logistics!Execute(t, st, a, got)
    PROVE  Logistics!StatementsAddUp(got)
<1>1. PICK asOf \in Int : asOf = Logistics!asOf(a, got)
  BY AsOfInt
<1> SUFFICES ASSUME NEW p \in Periods
             PROVE  /\ Logistics!AgesAddUp(got[<<"summary", p>>])
                    /\ \A l \in DOMAIN got[<<"byService", p>>] :
                          Logistics!AgesAddUp(got[<<"byService", p>>][l])
                    /\ PilotCities # {} =>
                          \A isPilot \in BOOLEAN : Logistics!AgesAddUp(got[<<"cohort", p, isPilot>>])
                    /\ LET points == Logistics!Points(got[<<"seriesOrders", p>>], got[<<"seriesItems", p>>])
                       IN  \A k \in DOMAIN points : points[k].orders > 0
  BY DEF Logistics!StatementsAddUp, Periods
<1>2. PICK r, f : r = Logistics!Ranges(a, got)[p] /\ f = a.filters
  OBVIOUS
<1>3. Logistics!AgesAddUp(got[<<"summary", p>>])
  <2>1. <<"summary", p>> \in LogisticsAsked
    BY DEF LogisticsAsked
  <2>2. PICK t : Legal(t) /\ got[<<"summary", p>>] \in Logistics!Execute(t, <<"summary", p>>, a, got)
    BY <2>1
  <2>3. got[<<"summary", p>>] = Logistics!summary(t, r, asOf, f)
    BY <1>1, <1>2, <2>2 DEF Logistics!Execute
  <2> QED
    BY <2>2, <2>3, SummaryIs
<1>4. ASSUME NEW rows, rows = got[<<"byService", p>>], NEW l \in DOMAIN rows
      PROVE  Logistics!AgesAddUp(rows[l])
  <2>1. <<"byService", p>> \in LogisticsAsked
    BY DEF LogisticsAsked
  <2>2. PICK t : Legal(t) /\ got[<<"byService", p>>] \in Logistics!Execute(t, <<"byService", p>>, a, got)
    BY <2>1
  <2>3. rows \in Logistics!byService(t, r, asOf, f)
    BY <1>1, <1>2, <1>4, <2>2 DEF Logistics!Execute
  <2> QED
    BY <1>4, <2>2, <2>3, ServicesAge
<1>5. ASSUME PilotCities # {}, NEW isPilot \in BOOLEAN
      PROVE  Logistics!AgesAddUp(got[<<"cohort", p, isPilot>>])
  <2>1. <<"cohort", p, isPilot>> \in LogisticsAsked
    BY <1>5 DEF LogisticsAsked
  <2>2. PICK t : Legal(t) /\ got[<<"cohort", p, isPilot>>]
                                 \in Logistics!Execute(t, <<"cohort", p, isPilot>>, a, got)
    BY <2>1
  <2>3. got[<<"cohort", p, isPilot>>] = Logistics!cohortSummary(t, r, asOf, f, isPilot)
    BY <1>1, <1>2, <2>2 DEF Logistics!Execute
  <2>4. PICK S : S = Scope(t, r, [f EXCEPT !.city = {}])
    OBVIOUS
  <2> QED
    BY <2>2, <2>3, <2>4, CohortRow
<1>6. ASSUME NEW points, points = Logistics!Points(got[<<"seriesOrders", p>>], got[<<"seriesItems", p>>])
      PROVE  \A k \in DOMAIN points : points[k].orders > 0
  <2>1. <<"seriesOrders", p>> \in LogisticsAsked
    BY DEF LogisticsAsked
  <2>2. PICK t : Legal(t) /\ got[<<"seriesOrders", p>>]
                                 \in Logistics!Execute(t, <<"seriesOrders", p>>, a, got)
    BY <2>1
  <2>3. PICK g : got[<<"seriesOrders", p>>] = Logistics!seriesOrders(t, r, f, a.group, g)
    BY <1>2, <2>2 DEF Logistics!Execute
  <2>4. Scope(t, r, f) \in SUBSET Stored(t)
    BY DEF Scope
  <2>5. SeriesIs(got[<<"seriesOrders", p>>], t, Scope(t, r, f), a.group, g)
    BY <2>3, SeriesOrders
  <2> QED
    BY <1>6, <2>2, <2>4, <2>5, PointsHaveOrders
<1> QED
  BY <1>3, <1>4, <1>5, <1>6

(* The answers of one period, all from the same tables. *)
LEMMA LogisticsReportAddsUp ==
    ASSUME NEW t, Legal(t), NEW a, AsksDays(a), NEW got,
           <<"dataBounds">> \in DOMAIN got => IsBounds(got[<<"dataBounds">>]),
           got[<<"dataAsOf">>] \in Nat,
           \A st \in LogisticsAsked : got[st] \in Logistics!Execute(t, st, a, got)
    PROVE  Logistics!ReportAddsUp(a, got)
<1>1. PICK asOf \in Int : asOf = Logistics!asOf(a, got)
  BY AsOfInt
<1> SUFFICES ASSUME NEW p \in Periods
             PROVE  LET s == got[<<"summary", p>>]
                        weeks == Logistics!Points(got[<<"seriesOrders", p>>], got[<<"seriesItems", p>>])
                        cities == got[<<"byCity", p>>]
                        services == got[<<"byService", p>>]
                    IN  /\ \A field \in {"orders", "revenue", "paid", "delivery", "free"} :
                              /\ Logistics!SumOf(weeks, field) = s[field]
                              /\ Logistics!Cardinality(DOMAIN cities) < Limits.cities =>
                                     Logistics!SumOf(cities, field) = s[field]
                        /\ \A w \in DOMAIN weeks : weeks[w].net = 0 => weeks[w].units = 0
                        /\ Logistics!Cardinality(DOMAIN services) < Limits.services =>
                              \A field \in {"processed", "shipped", "pending"} :
                                  Logistics!SumOf(services, field) = s[field]
                        /\ (PilotCities # {} /\ Logistics!Values(a.filters.city) = {}) =>
                              LET pilot == got[<<"cohort", p, TRUE>>]
                                  others == got[<<"cohort", p, FALSE>>]
                              IN  /\ pilot.orders + others.orders <= s.orders
                                  /\ Logistics!Cardinality(DOMAIN cities) < Limits.cities
                                     /\ "-" \notin DOMAIN cities
                                        => pilot.orders + others.orders = s.orders
  BY DEF Logistics!ReportAddsUp, Periods
<1>0. PICK s, weeks, cities, services, pilot, others :
          /\ s = got[<<"summary", p>>] /\ cities = got[<<"byCity", p>>]
          /\ weeks = Logistics!Points(got[<<"seriesOrders", p>>], got[<<"seriesItems", p>>])
          /\ services = got[<<"byService", p>>]
          /\ pilot = got[<<"cohort", p, TRUE>>] /\ others = got[<<"cohort", p, FALSE>>]
  OBVIOUS
<1>2. PICK r, f, S : r = Logistics!Ranges(a, got)[p] /\ f = a.filters /\ S = Scope(t, r, f)
  OBVIOUS
<1>3. S \in SUBSET Stored(t)
  BY <1>2 DEF Scope
<1>4. /\ got[<<"summary", p>>] \in Logistics!Execute(t, <<"summary", p>>, a, got)
      /\ got[<<"byService", p>>] \in Logistics!Execute(t, <<"byService", p>>, a, got)
      /\ got[<<"byCity", p>>] \in Logistics!Execute(t, <<"byCity", p>>, a, got)
      /\ got[<<"seriesOrders", p>>] \in Logistics!Execute(t, <<"seriesOrders", p>>, a, got)
      /\ got[<<"seriesItems", p>>] \in Logistics!Execute(t, <<"seriesItems", p>>, a, got)
  BY DEF LogisticsAsked
<1>5. s = Logistics!summary(t, r, asOf, f)
  BY <1>0, <1>1, <1>2, <1>4 DEF Logistics!Execute
<1>6. services \in Logistics!byService(t, r, asOf, f) /\ cities \in Logistics!byCity(t, r, f)
  BY <1>0, <1>1, <1>2, <1>4 DEF Logistics!Execute
<1>7. PICK g : /\ got[<<"seriesOrders", p>>] = Logistics!seriesOrders(t, r, f, a.group, g)
               /\ got[<<"seriesItems", p>>] = Logistics!seriesItems(t, r, f, a.group, g)
  BY <1>2, <1>4 DEF Logistics!Execute
<1>8. DeliveryIs(s, t, S) /\ WaitingIs(s, t, S)
  BY <1>2, <1>5, SummaryIs
<1>9. /\ \A field \in DeliveryFields : FieldSum(weeks, field) = s[field]
      /\ \A w \in DOMAIN weeks : weeks[w].net = 0 => weeks[w].units = 0
  <2>1. PICK points, sold : /\ points = got[<<"seriesOrders", p>>] /\ sold = got[<<"seriesItems", p>>]
                            /\ weeks = Logistics!Points(points, sold)
    BY <1>0
  <2> QED
    BY <1>2, <1>7, <1>8, <2>1, PointsAddUp
<1>10. ASSUME Cardinality(DOMAIN cities) < Limits.cities
       PROVE  /\ \A field \in DeliveryFields : FieldSum(cities, field) = s[field]
              /\ DOMAIN cities = DOMAIN Groups(t, S, "city")
  BY <1>2, <1>6, <1>8, <1>10, CitiesAddUp
<1>11. ASSUME Cardinality(DOMAIN services) < Limits.services
       PROVE  /\ FieldSum(services, "processed") = s["processed"]
              /\ FieldSum(services, "shipped") = s["shipped"]
              /\ FieldSum(services, "pending") = s["pending"]
  <2>1. /\ FieldSum(services, "processed") = Cardinality(Having(t, S, "processed"))
        /\ FieldSum(services, "shipped") = Cardinality(Having(t, S, "shipped"))
        /\ FieldSum(services, "pending") = Cardinality(Having(t, S, "waits"))
    BY <1>2, <1>6, <1>11, ServicesAddUp
  <2> QED
    BY <1>8, <2>1 DEF WaitingIs
<1>12. ASSUME PilotCities # {}, Values(f.city) = {}
       PROVE  /\ pilot["orders"] + others["orders"] <= s["orders"]
              /\ Cardinality(DOMAIN cities) < Limits.cities /\ "-" \notin DOMAIN cities
                     => pilot["orders"] + others["orders"] = s["orders"]
  <2>1. ASSUME NEW isPilot \in BOOLEAN, NEW row, row = got[<<"cohort", p, isPilot>>]
        PROVE  row["orders"] = Cardinality(InCohort(t, S, isPilot))
    <3>1. <<"cohort", p, isPilot>> \in LogisticsAsked
      BY <1>12 DEF LogisticsAsked
    <3>2. row = Logistics!cohortSummary(t, r, asOf, f, isPilot)
      BY <1>1, <1>2, <2>1, <3>1 DEF Logistics!Execute
    <3>3. PICK U : U = Scope(t, r, [f EXCEPT !.city = {}])
      OBVIOUS
    <3>4. U = S
      BY <1>2, <1>12, <3>3, NoCityFilter
    <3>5. row["orders"] = Cardinality(InCohort(t, U, isPilot))
      BY <1>1, <2>1, <3>2, <3>3, CohortRow
    <3> QED
      BY <3>4, <3>5
  <2>5. /\ pilot["orders"] = Cardinality(InCohort(t, S, TRUE))
        /\ others["orders"] = Cardinality(InCohort(t, S, FALSE))
    BY <1>0, <2>1
  <2>6. s["orders"] = Cardinality(S)
    <3>1. Having(t, S, "all") = S
      BY HavingPart
    <3> QED
      BY <1>8, <3>1 DEF DeliveryIs
  <2>7. /\ Cardinality(InCohort(t, S, TRUE)) + Cardinality(InCohort(t, S, FALSE)) <= Cardinality(S)
        /\ "-" \notin DOMAIN Groups(t, S, "city") =>
               Cardinality(InCohort(t, S, TRUE)) + Cardinality(InCohort(t, S, FALSE)) = Cardinality(S)
    BY <1>3, CohortsMakeUp
  <2> QED
    BY <1>10, <2>5, <2>6, <2>7
<1>13. /\ Logistics!Values(a.filters.city) = Values(f.city)
       /\ Logistics!Cardinality(DOMAIN cities) = Cardinality(DOMAIN cities)
       /\ Logistics!Cardinality(DOMAIN services) = Cardinality(DOMAIN services)
       /\ \A rows, field : Logistics!SumOf(rows, field) = FieldSum(rows, field)
  BY <1>2, SameSize, SameFields DEF Logistics!Values, Values
<1> QED
  BY <1>0, <1>2, <1>9, <1>10, <1>11, <1>12, <1>13 DEF DeliveryFields

-----------------------------------------------------------------------------
(* The dynamics: groups and weeks of the points. *)
Names(filled) == {k[1] : k \in DOMAIN filled}
Weeks(filled) == {k[2] : k \in DOMAIN filled}
WeekOf(filled, n, w) == IF <<n, w>> \in DOMAIN filled THEN filled[<<n, w>>] ELSE Logistics!ZeroPoint

LEMMA BreakdownRows ==
    ASSUME NEW points, NEW sold, NEW filled, filled = Logistics!Points(points, sold),
           NEW report, report = Logistics!seriesBreakdown(points, sold)
    PROVE  \A n \in DOMAIN report :
               /\ DOMAIN report[n] = Weeks(filled)
               /\ \A w \in Weeks(filled) : report[n][w] = WeekOf(filled, n, w)
<1> DEFINE totals == [n \in {k[1] : k \in DOMAIN filled} |->
                         [orders |-> Logistics!SumFunction([k \in {k \in DOMAIN filled : k[1] = n} |->
                                                                filled[k].orders])]]
           named == CHOOSE kept \in Logistics!Top(totals, Limits.breakdown, Logistics!MoreOrders) : TRUE
<1>1. report = [n \in DOMAIN named |-> [w \in Weeks(filled) |-> WeekOf(filled, n, w)]]
  BY Zenon DEF Logistics!seriesBreakdown, Weeks, WeekOf
<1> HIDE DEF named
<1> QED
  BY <1>1

(* The total of a group, and the groups with most orders. *)
LEMMA BreakdownNames ==
    ASSUME NEW points, NEW sold, NEW filled, filled = Logistics!Points(points, sold),
           NEW report, report = Logistics!seriesBreakdown(points, sold),
           IsFiniteSet(DOMAIN filled), \A k \in DOMAIN filled : filled[k].orders \in Nat
    PROVE  /\ DOMAIN report \subseteq Names(filled)
           /\ Cardinality(DOMAIN report) = Min({Limits.breakdown, Cardinality(Names(filled))})
<1> DEFINE totals == [n \in {k[1] : k \in DOMAIN filled} |->
                         [orders |-> Logistics!SumFunction([k \in {k \in DOMAIN filled : k[1] = n} |->
                                                                filled[k].orders])]]
           named == CHOOSE kept \in Logistics!Top(totals, Limits.breakdown, Logistics!MoreOrders) : TRUE
           Kept(all, limit) ==
               {[l \in K |-> all[l]] : K \in
                   {K \in SUBSET DOMAIN all :
                       /\ Logistics!Cardinality(K) = Logistics!Min({limit, Logistics!Cardinality(DOMAIN all)})
                       /\ \A l \in K, m \in DOMAIN all \ K : ~(all[m].orders > all[l].orders)}}
<1>1. named = CHOOSE kept \in Kept(totals, Limits.breakdown) : TRUE
  BY Zenon DEF Logistics!Top, Logistics!MoreOrders
<1>2. report = [n \in DOMAIN named |-> [w \in Weeks(filled) |-> WeekOf(filled, n, w)]]
  BY Zenon DEF Logistics!seriesBreakdown, Weeks, WeekOf
<1>3. PICK all, v : all = totals /\ v = [n \in Names(filled) |-> all[n].orders]
  OBVIOUS
<1>4. DOMAIN all = Names(filled) /\ \A n \in Names(filled) : all[n].orders \in Nat
  <2>1. DOMAIN all = Names(filled)
    BY <1>3 DEF Names
  <2>2. ASSUME NEW n \in Names(filled) PROVE all[n].orders \in Nat
    <3>1. PICK T, x, w : /\ T = {k \in DOMAIN filled : k[1] = n} /\ x = [k \in T |-> filled[k].orders]
                         /\ w = [k \in DOMAIN filled |-> filled[k].orders]
      OBVIOUS
    <3>2. IsFiniteSet(T) /\ DOMAIN x = T
      BY <3>1, FS_Subset
    <3>3. \A k \in T : w[k] \in Nat /\ w[k] \in Int /\ x[k] = w[k]
      BY <3>1
    <3>4. SumFunction(x) = Sum(w, T) /\ Sum(w, T) \in Nat
      <4>1. SumFunction(x) = Sum(w, T)
        BY <3>2, <3>3, SumOfRow
      <4> QED
        BY <3>2, <3>3, <4>1, SumOfNaturals
    <3>5. all[n].orders = Logistics!SumFunction(x)
      BY <1>3, <3>1 DEF Names
    <3> QED
      BY <3>4, <3>5, SameSums
  <2> QED
    BY <2>1, <2>2
<1>5. IsFiniteSet(Names(filled)) /\ Cardinality(Names(filled)) \in Nat
  <2>1. PICK f : f = [k \in DOMAIN filled |-> k[1]]
    OBVIOUS
  <2>2. IsFiniteSet({f[k] : k \in DOMAIN filled})
    BY ImageIsFinite
  <2>3. Names(filled) = {f[k] : k \in DOMAIN filled}
    BY <2>1 DEF Names
  <2> QED
    BY <2>2, <2>3, FS_CardinalityType
<1>6. PICK c \in Nat : /\ c = Cardinality(Names(filled)) /\ Limits.breakdown \in Nat
                       /\ Min({Limits.breakdown, c}) = IF Limits.breakdown <= c THEN Limits.breakdown ELSE c
  <2>1. PICK b, c : b = Limits.breakdown /\ c = Cardinality(Names(filled))
    OBVIOUS
  <2>2. b \in Nat /\ c \in Nat /\ b \in Int /\ c \in Int
    BY <1>5, <2>1, LimitsAssumption
  <2>3. Min({b, c}) = IF b <= c THEN b ELSE c
    BY <2>2, OfTwo
  <2> QED
    BY <2>1, <2>2, <2>3
<1>7. PICK K \in SUBSET Names(filled) :
          /\ Cardinality(K) = Min({Limits.breakdown, c})
          /\ \A l \in K, m \in Names(filled) \ K : ~(v[m] > v[l])
  <2>1. Min({Limits.breakdown, c}) \in 0..c
    BY <1>6
  <2>2. \A n \in Names(filled) : v[n] \in Nat
    BY <1>3, <1>4
  <2> QED
    BY <1>5, <1>6, <2>1, <2>2, LeadersExist
<1>8. [l \in K |-> all[l]] \in Kept(all, Limits.breakdown)
  <2>1. /\ Logistics!Cardinality(K) = Logistics!Min({Limits.breakdown, Logistics!Cardinality(DOMAIN all)})
        /\ K \in SUBSET DOMAIN all
    BY <1>4, <1>6, <1>7, SameSize, SameMin
  <2>2. \A l \in K, m \in DOMAIN all \ K : ~(all[m].orders > all[l].orders)
    BY <1>3, <1>4, <1>7
  <2> QED
    BY <2>1, <2>2
<1>9. named \in Kept(all, Limits.breakdown)
  <2>1. named = CHOOSE kept \in Kept(all, Limits.breakdown) : TRUE
    <3> HIDE DEF Kept, named, totals
    <3> QED
      BY <1>1, <1>3
  <2> HIDE DEF Kept, named, totals
  <2> QED
    BY <1>8, <2>1
<1>10. PICK J \in SUBSET DOMAIN all :
           /\ Logistics!Cardinality(J) = Logistics!Min({Limits.breakdown, Logistics!Cardinality(DOMAIN all)})
           /\ DOMAIN named = J
  <2> HIDE DEF named
  <2> QED
    BY <1>9
<1>11. DOMAIN report = J
  <2> HIDE DEF named
  <2> QED
    BY <1>2, <1>10
<1> HIDE DEF Kept, named, totals
<1>12. Cardinality(J) = Min({Limits.breakdown, Cardinality(DOMAIN all)})
  BY <1>10, SameSize, SameMin
<1> QED
  BY <1>4, <1>10, <1>11, <1>12

DynamicsAsked == {<<"seriesOrders", "cur">>, <<"seriesItems", "cur">>}

LEMMA DynamicsSameWeeks ==
    ASSUME NEW got
    PROVE  Logistics!SameWeeks(got)
<1>1. PICK points, sold, filled, report :
          /\ points = got[<<"seriesOrders", "cur">>] /\ sold = got[<<"seriesItems", "cur">>]
          /\ filled = Logistics!Points(points, sold) /\ report = Logistics!seriesBreakdown(points, sold)
  OBVIOUS
<1>2. \A n \in DOMAIN report : DOMAIN report[n] = Weeks(filled)
  BY <1>1, BreakdownRows
<1> QED
  BY <1>1, <1>2 DEF Logistics!SameWeeks, Logistics!BreakdownReport

(* The sums of the groups, when none is cut. *)
LEMMA BreakdownSums ==
    ASSUME NEW points, NEW sold, NEW filled, filled = Logistics!Points(points, sold),
           NEW report, report = Logistics!seriesBreakdown(points, sold),
           IsFiniteSet(DOMAIN filled), \A k \in DOMAIN filled : filled[k].orders \in Nat,
           \A k \in DOMAIN filled : k = <<k[1], k[2]>>,
           Cardinality(DOMAIN report) < Limits.breakdown,
           NEW rows, \A n \in DOMAIN report : DOMAIN rows[n] = DOMAIN report[n],
           \A n \in DOMAIN report : \A w \in DOMAIN report[n] : rows[n][w] = report[n][w].orders,
           NEW v, DOMAIN v = DOMAIN report, \A n \in DOMAIN report : v[n] = SumFunction(rows[n])
    PROVE  SumFunction(v) = FieldSum(filled, "orders")
<1>1. PICK D, N, W, z : /\ D = DOMAIN filled /\ N = Names(filled) /\ W = Weeks(filled)
                        /\ z = [k \in D |-> filled[k].orders]
  OBVIOUS
<1>2. IsFiniteSet(N) /\ IsFiniteSet(W)
  <2>1. PICK f, g : f = [k \in D |-> k[1]] /\ g = [k \in D |-> k[2]]
    OBVIOUS
  <2>2. IsFiniteSet({f[k] : k \in D})
    BY <1>1, ImageIsFinite
  <2>4. IsFiniteSet({g[k] : k \in D})
    BY <1>1, ImageIsFinite
  <2>3. N = {f[k] : k \in D} /\ W = {g[k] : k \in D}
    BY <1>1, <2>1 DEF Names, Weeks
  <2> QED
    BY <2>2, <2>3, <2>4
<1>3. DOMAIN report = N
  <2>1. DOMAIN report \in SUBSET N /\ Cardinality(DOMAIN report) = Min({Limits.breakdown, Cardinality(N)})
    BY <1>1, BreakdownNames
  <2>2. Limits.breakdown \in Nat
    BY LimitsAssumption
  <2> QED
    BY <1>2, <2>1, <2>2, KeptAll
<1>4. D \subseteq N \X W /\ \A k \in D : z[k] \in Int
  <2>1. ASSUME NEW k \in D PROVE k \in N \X W
    <3>1. k[1] \in N /\ k[2] \in W /\ k = <<k[1], k[2]>>
      BY <1>1 DEF Names, Weeks
    <3> QED
      BY <3>1
  <2> QED
    BY <1>1, <2>1
<1>5. ASSUME NEW n \in N
      PROVE  /\ DOMAIN rows[n] = W
             /\ \A w \in W : rows[n][w] = IF <<n, w>> \in D THEN z[<<n, w>>] ELSE 0
  <2>1. DOMAIN report[n] = W /\ \A w \in W : report[n][w] = WeekOf(filled, n, w)
    BY <1>1, <1>3, BreakdownRows
  <2>2. DOMAIN rows[n] = W /\ \A w \in W : rows[n][w] = WeekOf(filled, n, w).orders
    BY <1>3, <2>1
  <2>3. Logistics!ZeroPoint.orders = 0
    BY DEF Logistics!ZeroPoint
  <2>4. ASSUME NEW w \in W PROVE WeekOf(filled, n, w).orders = IF <<n, w>> \in D THEN z[<<n, w>>] ELSE 0
    BY <1>1, <2>3 DEF WeekOf
  <2> QED
    BY <2>2, <2>4
<1>6. SumFunction(v) = Sum(z, D)
  <2>1. /\ \A n \in N : DOMAIN rows[n] = W
        /\ \A n \in N : \A w \in W : rows[n][w] = IF <<n, w>> \in D THEN z[<<n, w>>] ELSE 0
    BY <1>5
  <2>2. DOMAIN v = N /\ \A n \in N : v[n] = SumFunction(rows[n])
    BY <1>3
  <2> QED
    BY <1>2, <1>4, <2>1, <2>2, SumOfCells
<1>7. FieldSum(filled, "orders") = Sum(z, D)
  <2>1. PICK x : x = [k \in D |-> filled[k]["orders"]]
    OBVIOUS
  <2>2. SumFunction(x) = Sum(z, D)
    <3>1. DOMAIN x = D /\ \A k \in D : x[k] = z[k] /\ z[k] \in Int
      BY <1>1, <1>4, <2>1
    <3> QED
      BY <1>1, <3>1, SumOfRow
  <2> QED
    BY <1>1, <2>1, <2>2 DEF FieldSum
<1> QED
  BY <1>6, <1>7

(* Both statements on the same tables. *)
LEMMA DynamicsReportAddsUp ==
    ASSUME NEW t, Legal(t), NEW a, NEW got,
           \A st \in DynamicsAsked : got[st] \in Logistics!Execute(t, st, a, got)
    PROVE  Logistics!BreakdownAddsUp(t, a, got)
<1>1. PICK points, sold, filled, report :
          /\ points = got[<<"seriesOrders", "cur">>] /\ sold = got[<<"seriesItems", "cur">>]
          /\ filled = Logistics!Points(points, sold) /\ report = Logistics!seriesBreakdown(points, sold)
  OBVIOUS
<1>2. PICK r, f, S : r = Logistics!Ranges(a, got).cur /\ f = a.filters /\ S = Scope(t, r, f)
  OBVIOUS
<1>3. PICK g : /\ points = Logistics!seriesOrders(t, r, f, a.group, g)
               /\ sold = Logistics!seriesItems(t, r, f, a.group, g)
  <2>1. /\ points \in Logistics!Execute(t, <<"seriesOrders", "cur">>, a, got)
        /\ sold \in Logistics!Execute(t, <<"seriesItems", "cur">>, a, got)
    BY <1>1 DEF DynamicsAsked
  <2>2. PICK g : g = Logistics!parseGranularity(a.granularity)
    OBVIOUS
  <2>3. points = Logistics!seriesOrders(t, r, f, a.group, g)
    BY <1>2, <2>1, <2>2 DEF Logistics!Execute
  <2>4. sold = Logistics!seriesItems(t, r, f, a.group, g)
    BY <1>2, <2>1, <2>2 DEF Logistics!Execute
  <2> QED
    BY <2>3, <2>4
<1>4. S \in SUBSET Stored(t) /\ S \in SUBSET S
  BY <1>2 DEF Scope
<1>5. IsFiniteSet(S)
  BY <1>4, PartOf
<1>6. PICK whole : DeliveryIs(whole, t, S) /\ whole["orders"] = Cardinality(S)
  <2>1. PICK whole : whole = Logistics!Delivery(t, S) /\ DeliveryIs(whole, t, S)
    BY DeliveryRow
  <2>2. Having(t, S, "all") = S
    BY HavingPart
  <2> QED
    BY <2>1, <2>2 DEF DeliveryIs
<1>7. /\ \A field \in DeliveryFields : FieldSum(filled, field) = whole[field]
      /\ \A k \in DOMAIN filled : filled[k].net = 0 => filled[k].units = 0
  BY <1>1, <1>2, <1>3, <1>6, PointsAddUp
<1>8. PICK cell, key : cell = Cells(t, S, a.group, g) /\ key = CellKeys(t, S, a.group, g)
  OBVIOUS
<1>9. /\ DOMAIN filled = DOMAIN cell /\ SeriesIs(points, t, S, a.group, g)
  <2>1. SeriesIs(points, t, S, a.group, g)
    BY <1>2, <1>3, SeriesOrders
  <2>2. DOMAIN filled = DOMAIN points
    BY <1>1, PointsDomain
  <2> QED
    BY <1>8, <2>1, <2>2 DEF SeriesIs
<1>10. IsFiniteSet(DOMAIN filled) /\ \A k \in DOMAIN filled : k = <<k[1], k[2]>>
  <2>1. GroupedBy(cell, S, key)
    BY <1>5, <1>8, CellsAre
  <2>2. \A k \in DOMAIN cell : \E o \in S : k = CellKey(t, a.group, g, o)
    BY <1>8 DEF Cells
  <2>3. \A o \in S : LET k == CellKey(t, a.group, g, o) IN k = <<k[1], k[2]>>
    BY DEF CellKey
  <2> QED
    BY <1>9, <2>1, <2>2, <2>3 DEF GroupedBy
<1>11. \A k \in DOMAIN filled : filled[k].orders \in Nat
  <2> SUFFICES ASSUME NEW k \in DOMAIN filled PROVE filled[k]["orders"] \in Nat
    OBVIOUS
  <2>1. /\ k \in DOMAIN points /\ DOMAIN points[k] = DeliveryFields \cup {"net"}
        /\ DeliveryIs(points[k], t, cell[k])
    BY <1>1, <1>8, <1>9, PointsDomain DEF SeriesIs
  <2>2. PointIs(filled[k], points[k], k, sold)
    BY <1>1, <2>1, PointsAre
  <2>3. filled[k]["orders"] = Cardinality(Having(t, cell[k], "all"))
    BY <2>1, <2>2 DEF PointIs, DeliveryFields, DeliveryIs
  <2>4. cell[k] \in SUBSET S /\ Having(t, cell[k], "all") = cell[k]
    <3>1. cell[k] \in SUBSET S
      BY <1>8, <1>9 DEF Cells
    <3> QED
      BY <3>1, HavingPart
  <2> QED
    BY <1>5, <2>3, <2>4, FS_Subset, FS_CardinalityType
<1>12. ASSUME NEW n \in DOMAIN report
       PROVE  \A w \in DOMAIN report[n] : report[n][w].net = 0 => report[n][w].units = 0
  <2>1. DOMAIN report[n] = Weeks(filled) /\ \A w \in Weeks(filled) : report[n][w] = WeekOf(filled, n, w)
    BY <1>1, BreakdownRows
  <2>2. Logistics!ZeroPoint.units = 0
    BY DEF Logistics!ZeroPoint
  <2> QED
    BY <1>7, <2>1, <2>2 DEF WeekOf
<1>13. ASSUME Cardinality(DOMAIN report) < Limits.breakdown,
              NEW rows, rows = [n \in DOMAIN report |-> [w \in DOMAIN report[n] |-> report[n][w].orders]],
              NEW v, v = [n \in DOMAIN report |->
                             Logistics!SumFunction([w \in DOMAIN report[n] |-> report[n][w].orders])]
       PROVE  Logistics!SumFunction(v) = Cardinality(S)
  <2>1. DOMAIN rows = DOMAIN report /\ DOMAIN v = DOMAIN report
    BY <1>13
  <2>2. \A n \in DOMAIN report : rows[n] = [w \in DOMAIN report[n] |-> report[n][w].orders]
    BY <1>13
  <2>5. /\ \A n \in DOMAIN report : DOMAIN rows[n] = DOMAIN report[n]
        /\ \A n \in DOMAIN report : \A w \in DOMAIN report[n] : rows[n][w] = report[n][w].orders
    BY <2>2
  <2>3. \A n \in DOMAIN report : v[n] = SumFunction(rows[n])
    BY <1>13, <2>2, SameSums
  <2>6. Cardinality(DOMAIN report) < Limits.breakdown
    BY <1>13
  <2>4. SumFunction(v) = FieldSum(filled, "orders")
    BY <1>1, <1>10, <1>11, <2>1, <2>3, <2>5, <2>6, BreakdownSums
  <2> QED
    BY <1>6, <1>7, <2>4, SameSums DEF DeliveryFields
<1>14. Logistics!BreakdownReport(got) = report
  BY <1>1 DEF Logistics!BreakdownReport
<1>15. /\ Logistics!Cardinality(Logistics!Scope(t, Logistics!Ranges(a, got).cur, a.filters)) = Cardinality(S)
       /\ Logistics!Cardinality(DOMAIN report) = Cardinality(DOMAIN report)
  BY <1>2, SameScope, SameSize
<1> QED
  BY <1>12, <1>13, <1>14, <1>15 DEF Logistics!BreakdownAddsUp

-----------------------------------------------------------------------------
(* The goal. *)
OfChannel(t, S, ch) == {o \in S : normalizeOrderChannel(Content(t, o).channel) = ch}

LEMMA SameChannel ==
    ASSUME NEW raw
    PROVE  /\ Goal!normalizeOrderChannel(raw) = normalizeOrderChannel(raw)
           /\ Acquired!normalizeOrderChannel(raw) = normalizeOrderChannel(raw)
  BY DEF Goal!normalizeOrderChannel, Acquired!normalizeOrderChannel, normalizeOrderChannel

AggregateIs(row, t, S) ==
    /\ row["net"] = Cardinality(Having(t, S, "net"))
    /\ row["revenue"] = Total(t, Having(t, S, "net"), "total")
    /\ row["redeemed"] = Total(t, Having(t, S, "redeemed"), "total")
    /\ row["refund"] = Total(t, Having(t, S, "returned"), "refund")

LEMMA GoalAggregate ==
    ASSUME NEW t, NEW S
    PROVE  AggregateIs(Goal!Aggregate(t, S), t, S)
<1>1. PICK row : row = Goal!Aggregate(t, S)
  OBVIOUS
<1>2. /\ row["net"] = Goal!Cardinality(Goal!Those(t, S, Goal!Net)) /\ row["revenue"] = Goal!Revenue(t, S)
      /\ row["redeemed"] = Goal!Total(t, Goal!Those(t, S, Goal!RedeemedGross), "total")
      /\ row["refund"] = Goal!Refunded(t, S)
  BY <1>1 DEF Goal!Aggregate, Goal!Count
<1>3. Goal!Those(t, S, Goal!Net) = Having(t, S, "net")
  BY HavingIs DEF Goal!Those, Goal!Content, Content, Goal!Net
<1>4. Goal!Those(t, S, Goal!RedeemedGross) = Having(t, S, "redeemed")
  BY HavingIs DEF Goal!Those, Goal!Content, Content, Goal!RedeemedGross, RedeemedGross
<1>5. row["net"] = Cardinality(Having(t, S, "net"))
  BY <1>2, <1>3, SameSize
<1>6. row["redeemed"] = Total(t, Having(t, S, "redeemed"), "total")
  BY <1>2, <1>4, SameTotal
<1>7. /\ Goal!Revenue(t, S) = Total(t, Having(t, S, "net"), "total")
      /\ Goal!Refunded(t, S) = Total(t, Having(t, S, "returned"), "refund")
  BY SameRevenue
<1> QED
  BY <1>1, <1>2, <1>5, <1>6, <1>7 DEF AggregateIs

LEMMA GoalOrders ==
    ASSUME NEW t, NEW r, NEW g, g = Goal!orders(t, r)
    PROVE  /\ AggregateIs(g.all, t, Dated(t, r))
           /\ AggregateIs(g.site, t, OfChannel(t, Dated(t, r), "site"))
           /\ AggregateIs(g.app, t, OfChannel(t, Dated(t, r), "app"))
<1>1. PICK S, A, B : /\ S = Dated(t, r) /\ A = OfChannel(t, S, "site") /\ B = OfChannel(t, S, "app")
  OBVIOUS
<1>2. {o \in Goal!Stored(t) : Goal!Within(Goal!Created(t, o), r)} = S
  BY <1>1, SameDated
<1>3. \A ch : {o \in S : Goal!normalizeOrderChannel(Goal!Content(t, o).channel) = ch} =
                  OfChannel(t, S, ch)
  BY SameChannel DEF Goal!Content, Content, OfChannel
<1>4. g.all = Goal!Aggregate(t, S) /\ g.site = Goal!Aggregate(t, A) /\ g.app = Goal!Aggregate(t, B)
  BY <1>1, <1>2, <1>3 DEF Goal!orders
<1> QED
  BY <1>1, <1>4, GoalAggregate

(* Two parts that do not overlap have at most what the whole has, and pay  *)
(* back no more of it.                                                     *)
LEMMA PartsOfTotal ==
    ASSUME NEW t, Legal(t), NEW S \in SUBSET Stored(t), NEW A \in SUBSET S, NEW B \in SUBSET S,
           A \cap B = {}, NEW C, C = S \ (A \cup B), NEW k, NEW column \in Amounts
    PROVE  Total(t, Having(t, S, k), column) =
               Total(t, Having(t, A, k), column) + Total(t, Having(t, B, k), column)
                   + Total(t, Having(t, C, k), column)
<1>1. PICK w, X, Y, Z, V : /\ w = Weight(t, column) /\ X = Having(t, A, k) /\ Y = Having(t, B, k)
                           /\ Z = Having(t, C, k) /\ V = Having(t, S, k)
  OBVIOUS
<1>2. C \in SUBSET S
  OBVIOUS
<1>3. X = A \cap V /\ Y = B \cap V /\ Z = C \cap V /\ V \in SUBSET S
  <2>1. X = A \cap V /\ V \in SUBSET S
    BY <1>1, HavingPart
  <2>2. Y = B \cap V
    BY <1>1, HavingPart
  <2>3. Z = C \cap V
    BY <1>1, <1>2, HavingPart
  <2> QED
    BY <2>1, <2>2, <2>3
<1>4. X \cap Y = {} /\ (X \cup Y) \cap Z = {} /\ (X \cup Y) \cup Z = V
  BY <1>3
<1>5. V \in SUBSET Stored(t) /\ X \in SUBSET Stored(t) /\ Y \in SUBSET Stored(t) /\ Z \in SUBSET Stored(t)
  BY <1>3
<1>6. /\ IsFiniteSet(X) /\ IsFiniteSet(Y) /\ IsFiniteSet(Z) /\ \A o \in Stored(t) : w[o] \in Int
      /\ Total(t, X, column) = Sum(w, X) /\ Total(t, Y, column) = Sum(w, Y)
      /\ Total(t, Z, column) = Sum(w, Z) /\ Total(t, V, column) = Sum(w, V)
  <2>1. /\ IsFiniteSet(X) /\ \A o \in Stored(t) : w[o] \in Nat
        /\ Total(t, X, column) = Sum(w, X)
    BY <1>1, <1>5, TotalIs
  <2>2. IsFiniteSet(Y) /\ Total(t, Y, column) = Sum(w, Y)
    BY <1>1, <1>5, TotalIs
  <2>3. IsFiniteSet(Z) /\ Total(t, Z, column) = Sum(w, Z)
    BY <1>1, <1>5, TotalIs
  <2>4. Total(t, V, column) = Sum(w, V)
    BY <1>1, <1>5, TotalIs
  <2> QED
    BY <2>1, <2>2, <2>3, <2>4
<1>7. Sum(w, X \cup Y) = Sum(w, X) + Sum(w, Y)
  <2>1. \A o \in X \cup Y : w[o] \in Int
    BY <1>5, <1>6
  <2> QED
    BY <1>4, <1>6, <2>1, SumOfUnion
<1>8. Sum(w, (X \cup Y) \cup Z) = Sum(w, X \cup Y) + Sum(w, Z)
  <2>1. \A o \in (X \cup Y) \cup Z : w[o] \in Int
    BY <1>5, <1>6
  <2>2. IsFiniteSet(X \cup Y)
    BY <1>6, FS_Union
  <2> QED
    BY <1>4, <1>6, <2>1, <2>2, SumOfUnion
<1>9. Sum(w, V) = Sum(w, X) + Sum(w, Y) + Sum(w, Z)
  BY <1>4, <1>7, <1>8
<1> QED
  BY <1>1, <1>6, <1>9

LEMMA ChannelsWithin ==
    ASSUME NEW t, Legal(t), NEW S \in SUBSET Stored(t), NEW A \in SUBSET S, NEW B \in SUBSET S,
           A \cap B = {}, NEW all, AggregateIs(all, t, S), NEW site, AggregateIs(site, t, A),
           NEW app, AggregateIs(app, t, B)
    PROVE  /\ site["revenue"] + app["revenue"] <= all["revenue"]
           /\ (site["redeemed"] - site["refund"]) + (app["redeemed"] - app["refund"])
                  <= all["redeemed"] - all["refund"]
<1>1. PICK C : C = S \ (A \cup B) /\ C \in SUBSET S /\ C \in SUBSET Stored(t)
  OBVIOUS
<1>2. /\ Total(t, Having(t, S, "net"), "total") = Total(t, Having(t, A, "net"), "total")
             + Total(t, Having(t, B, "net"), "total") + Total(t, Having(t, C, "net"), "total")
      /\ Total(t, Having(t, S, "redeemed"), "total") = Total(t, Having(t, A, "redeemed"), "total")
             + Total(t, Having(t, B, "redeemed"), "total") + Total(t, Having(t, C, "redeemed"), "total")
      /\ Total(t, Having(t, S, "returned"), "refund") = Total(t, Having(t, A, "returned"), "refund")
             + Total(t, Having(t, B, "returned"), "refund") + Total(t, Having(t, C, "returned"), "refund")
  <2>1. ASSUME NEW k, NEW column \in Amounts
        PROVE  Total(t, Having(t, S, k), column) = Total(t, Having(t, A, k), column)
                   + Total(t, Having(t, B, k), column) + Total(t, Having(t, C, k), column)
    BY <1>1, PartsOfTotal
  <2> QED
    BY <2>1 DEF Amounts
<1>3. ASSUME NEW T \in SUBSET Stored(t), NEW k, NEW column \in Amounts
      PROVE  Total(t, Having(t, T, k), column) \in Nat
  <2>1. PICK X : X = Having(t, T, k) /\ X \in SUBSET T /\ X \in SUBSET Stored(t)
    BY DEF Having
  <2> QED
    BY <2>1, PartOf
<1>4. Total(t, Having(t, C, "returned"), "refund") <= Total(t, Having(t, C, "redeemed"), "total")
  <2>1. /\ Having(t, C, "returned") \in SUBSET Having(t, C, "redeemed")
        /\ Having(t, C, "redeemed") \in SUBSET Stored(t)
    BY <1>1, HavingIs DEF RedeemedGross, Returned
  <2> QED
    BY <2>1, PartOf
<1>5. A \in SUBSET Stored(t) /\ B \in SUBSET Stored(t) /\ {"total", "refund"} \subseteq Amounts
  BY DEF Amounts
<1>6. PICK x \in Nat, y \in Nat, z \in Nat :
          /\ x = site["revenue"] /\ y = app["revenue"] /\ z = Total(t, Having(t, C, "net"), "total")
  BY <1>1, <1>3, <1>5 DEF AggregateIs
<1>7. PICK a1 \in Nat, b1 \in Nat, c1 \in Nat, a2 \in Nat, b2 \in Nat, c2 \in Nat :
          /\ a1 = site["redeemed"] /\ b1 = app["redeemed"]
          /\ c1 = Total(t, Having(t, C, "redeemed"), "total")
          /\ a2 = site["refund"] /\ b2 = app["refund"]
          /\ c2 = Total(t, Having(t, C, "returned"), "refund")
  BY <1>1, <1>3, <1>5 DEF AggregateIs
<1>8. /\ all["revenue"] = x + y + z /\ all["redeemed"] = a1 + b1 + c1 /\ all["refund"] = a2 + b2 + c2
      /\ c2 <= c1
  BY <1>2, <1>4, <1>6, <1>7 DEF AggregateIs
<1> QED
  BY <1>6, <1>7, <1>8

GoalAsked(a, got) == {"orders"} \X (IF Goal!HasHistory(a, got) THEN {"current", "history"} ELSE {"current"})

WholeIs(p) ==
    /\ p.site.revenue + p.app.revenue <= p.all.revenue
    /\ p.site.netRevenue + p.app.netRevenue <= p.all.netRevenue
    /\ p.site.sessions + p.app.sessions = p.all.sessions

LEMMA GoalPeriod ==
    ASSUME NEW t, Legal(t), NEW r, NEW visits
    PROVE  WholeIs(Goal!period(Goal!orders(t, r), visits))
<1>1. PICK g, p, S : /\ g = Goal!orders(t, r) /\ p = Goal!period(g, visits) /\ S = Dated(t, r)
  OBVIOUS
<1>2. PICK A, B : A = OfChannel(t, S, "site") /\ B = OfChannel(t, S, "app")
  OBVIOUS
<1>3. AggregateIs(g.all, t, S) /\ AggregateIs(g.site, t, A) /\ AggregateIs(g.app, t, B)
  BY <1>1, <1>2, GoalOrders
<1>4. S \in SUBSET Stored(t) /\ A \in SUBSET S /\ B \in SUBSET S /\ A \cap B = {}
  BY <1>1, <1>2 DEF Dated, OfChannel
<1>5. /\ g.site["revenue"] + g.app["revenue"] <= g.all["revenue"]
      /\ (g.site["redeemed"] - g.site["refund"]) + (g.app["redeemed"] - g.app["refund"])
             <= g.all["redeemed"] - g.all["refund"]
  BY <1>3, <1>4, ChannelsWithin
<1>6. \A ch \in {"all", "site", "app"} :
          p[ch].revenue = g[ch].revenue /\ p[ch].netRevenue = g[ch].redeemed - g[ch].refund
  BY <1>1 DEF Goal!period, Goal!makeChannel
<1>7. p.site.sessions = visits["site"] /\ p.app.sessions = visits["app"]
      /\ p.all.sessions = visits["site"] + visits["app"]
  BY <1>1 DEF Goal!period, Goal!makeChannel
<1> QED
  BY <1>1, <1>5, <1>6, <1>7 DEF WholeIs

(* The days before the month. *)
LEMMA HistoryIs ==
    ASSUME NEW m, m.start \in Int, NEW b, IsBounds(b), NEW past, past = Goal!historyRange(m, b),
           past # Goal!NoRange
    PROVE  past.end < m.start /\ Length(past) \in 1..HistoryDays
<1>1. PICK x \in Int : x = m.start - 1
  OBVIOUS
<1>2. PICK y \in Nat : y = b.end
  BY DEF IsBounds
<1>9. PICK s \in Nat : s = b.start
  BY DEF IsBounds
<1>3. PICK e : e = Min({x, y}) /\ e = IF x <= y THEN x ELSE y
  BY <1>1, <1>2, OfTwo
<1>4. e \in Int /\ e <= x
  BY <1>1, <1>2, <1>3
<1>5. HistoryDays \in Nat \ {0}
  BY LimitsAssumption
<1>6. PICK z \in Int : z = e - HistoryDays + 1
  BY <1>4, <1>5
<1>7. Max({z, s}) = IF z >= s THEN z ELSE s
  <2>1. s \in Int
    BY <1>9
  <2> QED
    BY <1>6, <2>1, OfTwo
<1>8. past = [start |-> Max({z, s}), end |-> e] /\ s <= e
  <2>1. Goal!Min({m.start - 1, b.end}) = e
    BY <1>1, <1>2, <1>3, SameMin
  <2>2. Goal!Max({e - HistoryDays + 1, b.start}) = Max({z, s})
    BY <1>6, <1>9, SameMin
  <2>3. ~(b.end = Goal!NoDay \/ e < b.start)
    BY <2>1 DEF Goal!historyRange
  <2>4. past = [start |-> Max({z, s}), end |-> e]
    BY <2>1, <2>2, <2>3 DEF Goal!historyRange
  <2> QED
    BY <1>4, <1>9, <2>3, <2>4
<1> QED
  BY <1>1, <1>4, <1>5, <1>6, <1>7, <1>8, <1>9 DEF Length

(* Statements that ran on legal tables, each on its own. *)
LEMMA GoalStatementsAddUp ==
    ASSUME NEW a, a.year \in Int, a.month \in Int, NEW got,
           <<"bounds">> \in DOMAIN got => IsBounds(got[<<"bounds">>]),
           \A st \in GoalAsked(a, got) : \E t : Legal(t) /\ got[st] \in Goal!Execute(t, st, a, got)
    PROVE  Goal!StatementsAddUp(a, got)
<1>1. PICK report : report = Goal!Report(a, got)
  OBVIOUS
<1>2. ASSUME NEW p \in {"current", "history"}, p = "history" => Goal!HasHistory(a, got)
      PROVE  WholeIs(Goal!period(got[<<"orders", p>>], got[<<"sessions", p>>]))
  <2>1. <<"orders", p>> \in GoalAsked(a, got)
    BY <1>2 DEF GoalAsked
  <2>2. PICK t : Legal(t) /\ got[<<"orders", p>>] \in Goal!Execute(t, <<"orders", p>>, a, got)
    BY <2>1
  <2>3. PICK r : got[<<"orders", p>>] = Goal!orders(t, r)
    BY <2>2 DEF Goal!Execute
  <2> QED
    BY <2>2, <2>3, GoalPeriod
<1>3. WholeIs(report.current)
  BY <1>1, <1>2 DEF Goal!Report
<1>4. ASSUME Goal!HasHistory(a, got) PROVE WholeIs(report.history)
  BY <1>1, <1>2, <1>4 DEF Goal!Report
<1>5. ASSUME Goal!HasHistory(a, got), NEW past, past = Goal!GoalRange(a, got, "history")
      PROVE  /\ past.end < Goal!MonthRange(a.year, a.month).start
             /\ Goal!Length(past) \in 1..HistoryDays
  <2>1. PICK m, b : m = Goal!MonthRange(a.year, a.month) /\ b = got[<<"bounds">>]
    OBVIOUS
  <2>2. m.start \in Int
    <3>1. PICK n \in Int : n = Goal!MonthNumber(a.year, a.month)
      BY CalendarAssumption DEF Goal!MonthNumber
    <3>2. n * DaysPerMonth + 1 \in Int
      BY <3>1, CalendarAssumption
    <3> QED
      BY <2>1, <3>1, <3>2 DEF Goal!MonthRange
  <2>3. IsBounds(b) /\ past = Goal!historyRange(m, b) /\ past # Goal!NoRange
    BY <1>5, <2>1 DEF Goal!HasHistory, Goal!GoalRange
  <2>4. past.end < m.start /\ Length(past) \in 1..HistoryDays
    BY <2>2, <2>3, HistoryIs
  <2> QED
    BY <2>1, <2>4 DEF Goal!Length, Length
<1> QED
  BY <1>1, <1>3, <1>4, <1>5 DEF Goal!StatementsAddUp, WholeIs

-----------------------------------------------------------------------------
(* The acquisition: what the days of a period have makes up the period.    *)
VisitsOn(t, ch, r) == {d \in t.days : d.channel = ch /\ Within(d.day, r)}
StepsOn(t, ch, r)  == {d \in t.shop : d.channel = ch /\ Within(d.day, r)}
OrdersOn(t, ch, r) == OfChannel(t, Dated(t, r), ch)
DayRange(day)      == [start |-> day, end |-> day]
DaysOf(r)          == r.start..r.end
ColumnSum(T, field) == SumFunction([d \in T |-> d[field]])
Column(t, field)    == [d \in t.days |-> d[field]]
VisitsSum(t, ch, r, field) == ColumnSum(VisitsOn(t, ch, r), field)

LEMMA SameVisits ==
    ASSUME NEW t, NEW ch, NEW r
    PROVE  /\ Acquired!Visits(t, ch, r) = VisitsOn(t, ch, r)
           /\ {d \in t.shop : d.channel = ch /\ Acquired!Within(d.day, r)} = StepsOn(t, ch, r)
           /\ Acquired!OrdersIn(t, ch, r) = OrdersOn(t, ch, r)
           /\ \A field : Acquired!SumOf(Acquired!Visits(t, ch, r), field) = VisitsSum(t, ch, r, field)
           /\ \A day : Acquired!OneDay(day) = DayRange(day)
<1>1. /\ Acquired!Visits(t, ch, r) = VisitsOn(t, ch, r)
      /\ {d \in t.shop : d.channel = ch /\ Acquired!Within(d.day, r)} = StepsOn(t, ch, r)
  BY DEF Acquired!Visits, VisitsOn, StepsOn, Acquired!Within, Within, Acquired!NoDay, NoDay
<1>2. Acquired!OrdersIn(t, ch, r) = OrdersOn(t, ch, r)
  BY SameChannel DEF Acquired!OrdersIn, Acquired!Stored, Acquired!Within, Acquired!Created,
     Acquired!NoDay, Acquired!Content, OrdersOn, OfChannel, Dated, Stored, Within, Created, Content, NoDay
<1>3. ASSUME NEW field
      PROVE  Acquired!SumOf(Acquired!Visits(t, ch, r), field) = VisitsSum(t, ch, r, field)
  <2>1. PICK T : T = VisitsOn(t, ch, r) /\ T = Acquired!Visits(t, ch, r)
    BY <1>1
  <2>2. Acquired!SumOf(T, field) = ColumnSum(T, field)
    BY SameSums DEF Acquired!SumOf, ColumnSum
  <2> QED
    BY <2>1, <2>2 DEF VisitsSum
<1> QED
  BY <1>1, <1>2, <1>3 DEF Acquired!OneDay, DayRange

(* The visits of one day of a period. *)
LEMMA VisitsOfDay ==
    ASSUME NEW t, Legal(t), NEW ch, NEW r, IsRange(r), NEW day \in DaysOf(r)
    PROVE  /\ VisitsOn(t, ch, DayRange(day)) = {d \in VisitsOn(t, ch, r) : d.day = day}
           /\ OrdersOn(t, ch, DayRange(day)) = {o \in OrdersOn(t, ch, r) : Created(t, o) = day}
<1>1. ASSUME NEW n \in Nat PROVE Within(n, DayRange(day)) <=> Within(n, r) /\ n = day
  BY <1>1 DEF IsRange, Within, DayRange, DaysOf
<1>2. \A d \in t.days : d.day \in Nat
  BY DEF Legal
<1>3. \A o \in Stored(t) : Created(t, o) \in Nat
  BY DEF Legal, LegalRow
<1> QED
  BY <1>1, <1>2, <1>3 DEF VisitsOn, OrdersOn, OfChannel, Dated

LEMMA VisitsSumIs ==
    ASSUME NEW t, Legal(t), NEW field \in {"sessions", "users"}, NEW T \in SUBSET t.days,
           NEW w, w = Column(t, field)
    PROVE  /\ IsFiniteSet(T) /\ \A d \in T : w[d] \in Nat
           /\ ColumnSum(T, field) = Sum(w, T)
           /\ Sum(w, T) \in Nat /\ \A e \in T : w[e] <= Sum(w, T)
<1>1. IsFiniteSet(T) /\ \A d \in t.days : w[d] \in Nat /\ w[d] = d[field]
  BY FS_Subset DEF Legal, Column
<1>2. PICK v : v = [d \in T |-> d[field]]
  OBVIOUS
<1>3. DOMAIN v = T /\ \A d \in T : v[d] = w[d] /\ w[d] \in Int
  BY <1>1, <1>2
<1>4. SumFunction(v) = Sum(w, T)
  BY <1>1, <1>3, SumOfRow
<1>5. \A d \in T : w[d] \in Nat
  BY <1>1
<1>6. Sum(w, T) \in Nat /\ \A e \in T : w[e] <= Sum(w, T)
  BY <1>1, <1>5, SumOfNaturals
<1> QED
  BY <1>1, <1>2, <1>4, <1>5, <1>6 DEF ColumnSum

LEMMA KeyedTotals ==
    ASSUME NEW S, IsFiniteSet(S), NEW group, NEW key, GroupedBy(group, S, key),
           NEW w, \A x \in S : w[x] \in Int,
           NEW v, DOMAIN v = DOMAIN group, \A l \in DOMAIN v : v[l] = Sum(w, group[l])
    PROVE  SumFunction(v) = Sum(w, S)
<1>1. PICK L : L = DOMAIN group /\ IsFiniteSet(L) /\ (\A x \in S : key[x] \in L)
               /\ (\A l \in L : group[l] = {x \in S : key[x] = l})
  BY DEF GroupedBy
<1> QED
  BY <1>1, RowsSumAll

LEMMA KeyedSizes ==
    ASSUME NEW S, IsFiniteSet(S), NEW group, NEW key, GroupedBy(group, S, key),
           NEW v, DOMAIN v = DOMAIN group, \A l \in DOMAIN v : v[l] = Cardinality(group[l])
    PROVE  SumFunction(v) = Cardinality(S)
<1>1. PICK L : L = DOMAIN group /\ IsFiniteSet(L) /\ (\A x \in S : key[x] \in L)
               /\ (\A l \in L : group[l] = {x \in S : key[x] = l})
  BY DEF GroupedBy
<1> QED
  BY <1>1, RowsCountAll

LEMMA VisitsOfDays ==
    ASSUME NEW t, Legal(t), NEW ch, NEW r, IsRange(r), NEW field \in {"sessions", "users"},
           NEW v, DOMAIN v = DaysOf(r),
           \A day \in DaysOf(r) : v[day] = VisitsSum(t, ch, DayRange(day), field)
    PROVE  /\ SumFunction(v) = VisitsSum(t, ch, r, field)
           /\ \A day \in DaysOf(r) : v[day] \in Nat
<1>1. PICK w, T, L : w = Column(t, field) /\ T = VisitsOn(t, ch, r) /\ L = DaysOf(r)
  OBVIOUS
<1>2. PICK key : key = [d \in T |-> d.day]
  OBVIOUS
<1>3. PICK group : group = [l \in L |-> {d \in T : key[d] = l}]
  OBVIOUS
<1>4. T \in SUBSET t.days /\ IsFiniteSet(L)
  BY <1>1, FS_Interval DEF VisitsOn, IsRange, DaysOf
<1>5. IsFiniteSet(T) /\ (\A d \in T : w[d] \in Nat) /\ VisitsSum(t, ch, r, field) = Sum(w, T)
  <2>1. IsFiniteSet(T) /\ (\A d \in T : w[d] \in Nat) /\ ColumnSum(T, field) = Sum(w, T)
    BY <1>1, <1>4, VisitsSumIs
  <2> QED
    BY <1>1, <2>1 DEF VisitsSum
<1>6. \A d \in T : key[d] \in L /\ w[d] \in Int
  <2> SUFFICES ASSUME NEW d \in T PROVE key[d] \in L /\ w[d] \in Int
    OBVIOUS
  <2>1. d.day \in Nat /\ key[d] = d.day /\ w[d] \in Nat
    BY <1>2, <1>4, <1>5 DEF Legal
  <2>2. r.start <= d.day /\ d.day <= r.end
    BY <1>1 DEF VisitsOn, Within
  <2> QED
    BY <1>1, <2>1, <2>2 DEF IsRange, DaysOf
<1>7. \A l \in L : group[l] = {d \in T : key[d] = l}
  BY <1>3
<1>8. ASSUME NEW l \in L PROVE v[l] = Sum(w, group[l]) /\ v[l] \in Nat
  <2>1. PICK G : G = VisitsOn(t, ch, DayRange(l)) /\ G \in SUBSET t.days
    BY DEF VisitsOn
  <2>2. G = {d \in T : d.day = l}
    BY <1>1, <2>1, VisitsOfDay
  <2>3. G = group[l]
    BY <1>2, <1>7, <2>2
  <2>4. v[l] = ColumnSum(G, field)
    BY <1>1, <2>1 DEF VisitsSum
  <2>5. ColumnSum(G, field) = Sum(w, G) /\ Sum(w, G) \in Nat
    BY <1>1, <2>1, VisitsSumIs
  <2> QED
    BY <2>3, <2>4, <2>5
<1>9. SumFunction(v) = Sum(w, T)
  <2>1. GroupedBy(group, T, key)
    BY <1>3, <1>4, <1>6 DEF GroupedBy
  <2>2. DOMAIN v = DOMAIN group /\ (\A l \in DOMAIN v : v[l] = Sum(w, group[l]))
    BY <1>1, <1>3, <1>8
  <2> QED
    BY <1>5, <1>6, <2>1, <2>2, KeyedTotals
<1> QED
  BY <1>1, <1>5, <1>8, <1>9

LEMMA OrdersOfDays ==
    ASSUME NEW t, Legal(t), NEW ch, NEW r, IsRange(r), NEW k, NEW v, DOMAIN v = DaysOf(r),
           \A day \in DaysOf(r) : v[day] = Cardinality(Having(t, OrdersOn(t, ch, DayRange(day)), k))
    PROVE  SumFunction(v) = Cardinality(Having(t, OrdersOn(t, ch, r), k))
<1>1. PICK S, T, L : S = OrdersOn(t, ch, r) /\ T = Having(t, S, k) /\ L = DaysOf(r)
  OBVIOUS
<1>2. PICK key : key = [o \in T |-> Created(t, o)]
  OBVIOUS
<1>3. PICK group : group = [l \in L |-> {o \in T : key[o] = l}]
  OBVIOUS
<1>4. T \in SUBSET S /\ S \in SUBSET Stored(t) /\ IsFiniteSet(L)
  BY <1>1, FS_Interval DEF Having, OrdersOn, OfChannel, Dated, IsRange, DaysOf
<1>5. IsFiniteSet(T)
  BY <1>4, PartOf
<1>6. ASSUME NEW o \in T PROVE key[o] \in L
  <2>1. Created(t, o) \in Nat /\ key[o] = Created(t, o)
    BY <1>2, <1>4 DEF Legal, LegalRow
  <2>2. r.start <= Created(t, o) /\ Created(t, o) <= r.end
    BY <1>1, <1>4 DEF OrdersOn, OfChannel, Dated, Within
  <2> QED
    BY <1>1, <2>1, <2>2 DEF IsRange, DaysOf
<1>7. \A l \in L : group[l] = {o \in T : key[o] = l}
  BY <1>3
<1>8. ASSUME NEW l \in L PROVE v[l] = Cardinality(group[l])
  <2>1. OrdersOn(t, ch, DayRange(l)) = {o \in S : Created(t, o) = l}
    BY <1>1, VisitsOfDay
  <2>2. Having(t, OrdersOn(t, ch, DayRange(l)), k) = {o \in T : key[o] = l}
    BY <1>1, <1>2, <2>1 DEF Having
  <2> QED
    BY <1>1, <1>7, <2>2
<1>9. SumFunction(v) = Cardinality(T)
  <2>1. GroupedBy(group, T, key)
    BY <1>3, <1>4, <1>6 DEF GroupedBy
  <2>2. DOMAIN v = DOMAIN group /\ (\A l \in DOMAIN v : v[l] = Cardinality(group[l]))
    BY <1>1, <1>3, <1>8
  <2> QED
    BY <1>5, <2>1, <2>2, KeyedSizes
<1> QED
  BY <1>1, <1>9

-----------------------------------------------------------------------------
(* What the statements of the acquisition tell of a channel. *)
TrafficFields == {"sessions", "users"}

LEMMA VisitsAre ==
    ASSUME NEW t, NEW r, NEW ch \in Acquired!Channels, NEW field \in TrafficFields
    PROVE  /\ Acquired!trafficTotals(t, r)[ch][field] = VisitsSum(t, ch, r, field)
           /\ DOMAIN Acquired!trafficTotals(t, r)[ch] = TrafficFields \cup {"sampled"}
<1>1. /\ Acquired!trafficTotals(t, r)[ch].sessions = Acquired!SumOf(Acquired!Visits(t, ch, r), "sessions")
      /\ Acquired!trafficTotals(t, r)[ch].users = Acquired!SumOf(Acquired!Visits(t, ch, r), "users")
      /\ DOMAIN Acquired!trafficTotals(t, r)[ch] = TrafficFields \cup {"sampled"}
  BY DEF Acquired!trafficTotals, TrafficFields
<1>3. ASSUME NEW range
      PROVE  Acquired!SumOf(Acquired!Visits(t, ch, range), field) = VisitsSum(t, ch, range, field)
  BY SameVisits
<1> QED
  BY <1>1, <1>3 DEF TrafficFields

LEMMA VisitsDaily ==
    ASSUME NEW t, NEW r, NEW ch \in Acquired!Channels, NEW field \in TrafficFields,
           NEW day \in DOMAIN Acquired!dailyTraffic(t, r)
    PROVE  Acquired!dailyTraffic(t, r)[day][ch][field] = VisitsSum(t, ch, DayRange(day), field)
<1>1. /\ Acquired!dailyTraffic(t, r)[day][ch].sessions
             = Acquired!SumOf(Acquired!Visits(t, ch, Acquired!OneDay(day)), "sessions")
      /\ Acquired!dailyTraffic(t, r)[day][ch].users
             = Acquired!SumOf(Acquired!Visits(t, ch, Acquired!OneDay(day)), "users")
  BY DEF Acquired!dailyTraffic
<1>2. Acquired!SumOf(Acquired!Visits(t, ch, DayRange(day)), field) = VisitsSum(t, ch, DayRange(day), field)
  BY SameVisits
<1>3. Acquired!OneDay(day) = DayRange(day)
  BY DEF Acquired!OneDay, DayRange
<1> QED
  BY <1>1, <1>2, <1>3 DEF TrafficFields

(* A day without visits is not in the answer. *)
LEMMA NoVisits ==
    ASSUME NEW t, Legal(t), NEW r, IsRange(r), NEW day \in DaysOf(r), NEW ch, NEW field,
           day \notin DOMAIN Acquired!dailyTraffic(t, r)
    PROVE  VisitsSum(t, ch, DayRange(day), field) = 0
<1>1. DOMAIN Acquired!dailyTraffic(t, r) = {d.day : d \in {e \in t.days : Acquired!Within(e.day, r)}}
  BY DEF Acquired!dailyTraffic
<1>2. VisitsOn(t, ch, DayRange(day)) = {}
  <2> SUFFICES ASSUME NEW d \in VisitsOn(t, ch, DayRange(day)) PROVE FALSE
    OBVIOUS
  <2>1. d \in t.days /\ d.day = day /\ Within(d.day, r)
    BY VisitsOfDay DEF VisitsOn
  <2> QED
    BY <1>1, <2>1 DEF Within, Acquired!Within, NoDay, Acquired!NoDay
<1>3. PICK v : v = [d \in VisitsOn(t, ch, DayRange(day)) |-> d[field]]
  OBVIOUS
<1>4. SumFunction(v) = 0
  <2>1. SumFunction(v) = Sum(v, {})
    BY <1>2, <1>3, SumFunctionIs
  <2> QED
    BY <2>1, SumOfNone
<1> QED
  BY <1>3, <1>4 DEF VisitsSum, ColumnSum

OrderFields == {"orders", "paid"}
Kind(field) == IF field = "paid" THEN "paid" ELSE "all"
OrdersCount(t, ch, r, field) == Cardinality(Having(t, OrdersOn(t, ch, r), Kind(field)))

LEMMA CountsAre ==
    ASSUME NEW t, NEW ch, NEW r
    PROVE  /\ Acquired!Cardinality(Acquired!OrdersIn(t, ch, r)) = OrdersCount(t, ch, r, "orders")
           /\ Acquired!Count(t, Acquired!OrdersIn(t, ch, r), Acquired!Paid)
                  = OrdersCount(t, ch, r, "paid")
<1>1. PICK S : S = OrdersOn(t, ch, r) /\ S = Acquired!OrdersIn(t, ch, r)
  BY SameVisits
<1>2. Having(t, S, "all") = S
  BY HavingPart
<1>3. Acquired!Those(t, S, Acquired!Paid) = Having(t, S, "paid")
  BY HavingIs DEF Acquired!Those, Acquired!Paid, Acquired!Content, Content, Having, Has
<1> QED
  BY <1>1, <1>2, <1>3, SameSize DEF OrdersCount, Kind, Acquired!Count

LEMMA SoldAre ==
    ASSUME NEW t, NEW r, NEW ch \in Acquired!Channels, NEW field \in OrderFields
    PROVE  /\ Acquired!orderTotals(t, r)[ch][field] = OrdersCount(t, ch, r, field)
           /\ DOMAIN Acquired!orderTotals(t, r)[ch] = OrderFields \cup {"net"}
<1>1. /\ Acquired!orderTotals(t, r)[ch].orders = Acquired!Cardinality(Acquired!OrdersIn(t, ch, r))
      /\ Acquired!orderTotals(t, r)[ch].paid = Acquired!Count(t, Acquired!OrdersIn(t, ch, r), Acquired!Paid)
      /\ DOMAIN Acquired!orderTotals(t, r)[ch] = OrderFields \cup {"net"}
  BY DEF Acquired!orderTotals, OrderFields
<1> QED
  BY <1>1, CountsAre DEF OrderFields

LEMMA SoldDaily ==
    ASSUME NEW t, NEW r, NEW ch \in Acquired!Channels, NEW field \in OrderFields,
           NEW day \in DOMAIN Acquired!dailyOrders(t, r)
    PROVE  Acquired!dailyOrders(t, r)[day][ch][field] = OrdersCount(t, ch, DayRange(day), field)
<1>1. /\ Acquired!dailyOrders(t, r)[day][ch].orders
             = Acquired!Cardinality(Acquired!OrdersIn(t, ch, Acquired!OneDay(day)))
      /\ Acquired!dailyOrders(t, r)[day][ch].paid
             = Acquired!Count(t, Acquired!OrdersIn(t, ch, Acquired!OneDay(day)), Acquired!Paid)
  BY DEF Acquired!dailyOrders
<1>2. Acquired!OneDay(day) = DayRange(day)
  BY DEF Acquired!OneDay, DayRange
<1> QED
  BY <1>1, <1>2, CountsAre DEF OrderFields

LEMMA NoneSold ==
    ASSUME NEW t, Legal(t), NEW r, IsRange(r), NEW day \in DaysOf(r),
           NEW ch \in Acquired!Channels, NEW field,
           day \notin DOMAIN Acquired!dailyOrders(t, r)
    PROVE  OrdersCount(t, ch, DayRange(day), field) = 0
<1>1. DOMAIN Acquired!dailyOrders(t, r)
          = {Acquired!Created(t, o) : o \in UNION {Acquired!OrdersIn(t, c, r) : c \in Acquired!Channels}}
  BY DEF Acquired!dailyOrders
<1>2. Having(t, OrdersOn(t, ch, DayRange(day)), Kind(field)) = {}
  <2> SUFFICES ASSUME NEW o \in Having(t, OrdersOn(t, ch, DayRange(day)), Kind(field)) PROVE FALSE
    OBVIOUS
  <2>1. o \in OrdersOn(t, ch, r) /\ Created(t, o) = day
    BY VisitsOfDay DEF Having
  <2>2. o \in Acquired!OrdersIn(t, ch, r)
    BY <2>1, SameVisits
  <2>3. Acquired!Created(t, o) \in DOMAIN Acquired!dailyOrders(t, r)
    BY <1>1, <2>2
  <2> QED
    BY <2>1, <2>3 DEF Acquired!Created, Created
<1> QED
  BY <1>2, FS_EmptySet DEF OrdersCount

AcquiredAsked ==
    {"trafficTotals", "orderTotals", "ecommerceTotals", "dailyTraffic", "dailyOrders"} \X Periods

(* What the visits, the orders and the steps of a channel have together.   *)
LEMMA AllAre ==
    ASSUME NEW totals, NEW field \in TrafficFields \cup OrderFields
    PROVE  Acquired!AllChannels(totals)[field] = totals["site"][field] + totals["app"][field]
<1>1. PICK sums : sums = [f \in {"sessions", "users", "orders", "paid", "net", "views", "carts",
                                 "purchases", "rows"} |-> totals["site"][f] + totals["app"][f]]
  OBVIOUS
<1>2. PICK rest : rest = [checkouts |-> 0, sampled |-> totals["site"].sampled \/ totals["app"].sampled]
  OBVIOUS
<1>3. Acquired!AllChannels(totals) = Acquired!++(sums, rest)
  BY <1>1, <1>2 DEF Acquired!AllChannels
<1>4. field \in DOMAIN sums /\ sums[field] = totals["site"][field] + totals["app"][field]
  BY <1>1 DEF TrafficFields, OrderFields
<1> QED
  BY <1>3, <1>4 DEF Acquired!++

LEMMA ThreeParts ==
    ASSUME NEW x, NEW y, NEW z,
           DOMAIN x = TrafficFields \cup {"sampled"}, DOMAIN y = OrderFields \cup {"net"}
    PROVE  /\ \A field \in TrafficFields : Acquired!++(Acquired!++(x, y), z)[field] = x[field]
           /\ \A field \in OrderFields : Acquired!++(Acquired!++(x, y), z)[field] = y[field]
<1>1. PICK m : m = Acquired!++(x, y)
  OBVIOUS
<1>2. /\ \A field \in TrafficFields : field \in DOMAIN m /\ m[field] = x[field]
      /\ \A field \in OrderFields : field \in DOMAIN m /\ m[field] = y[field]
  BY <1>1 DEF Acquired!++, TrafficFields, OrderFields
<1>3. \A field \in DOMAIN m : Acquired!++(m, z)[field] = m[field]
  BY DEF Acquired!++
<1> QED
  BY <1>1, <1>2, <1>3

(* A period of the report that was asked of one and the same tables. *)
PeriodIs(report, t, r) ==
    /\ \A ch \in Acquired!Channels :
          /\ \A field \in TrafficFields :
                /\ report.channels[ch][field] = VisitsSum(t, ch, r, field)
                /\ \A day \in DaysOf(r) :
                      report.daily[day][ch][field] = VisitsSum(t, ch, DayRange(day), field)
          /\ \A field \in OrderFields :
                /\ report.channels[ch][field] = OrdersCount(t, ch, r, field)
                /\ \A day \in DaysOf(r) :
                      report.daily[day][ch][field] = OrdersCount(t, ch, DayRange(day), field)
    /\ \A field \in TrafficFields \cup OrderFields :
          report.channels["all"][field]
              = report.channels["site"][field] + report.channels["app"][field]
    /\ report.hasTraffic <=> report.channels["all"]["sessions"] > 0

LEMMA AcquiredPeriod ==
    ASSUME NEW t, Legal(t), NEW a, NEW got, NEW p \in Periods, NEW r,
           r = Acquired!Ranges(a, got)[p], IsRange(r),
           \A st \in AcquiredAsked : got[st] \in Acquired!Execute(t, st, a, got)
    PROVE  PeriodIs(Acquired!period(a, got, p), t, r)
<1>1. PICK visits, sold : /\ visits = Acquired!trafficTotals(t, r) /\ sold = Acquired!orderTotals(t, r)
  OBVIOUS
<1>2. PICK byDay, soldByDay : /\ byDay = Acquired!dailyTraffic(t, r)
                              /\ soldByDay = Acquired!dailyOrders(t, r)
  OBVIOUS
<1>3. /\ got[<<"trafficTotals", p>>] = visits /\ got[<<"orderTotals", p>>] = sold
      /\ got[<<"dailyTraffic", p>>] = byDay /\ got[<<"dailyOrders", p>>] = soldByDay
  <2>1. /\ got[<<"trafficTotals", p>>] \in Acquired!Execute(t, <<"trafficTotals", p>>, a, got)
        /\ got[<<"orderTotals", p>>] \in Acquired!Execute(t, <<"orderTotals", p>>, a, got)
        /\ got[<<"dailyTraffic", p>>] \in Acquired!Execute(t, <<"dailyTraffic", p>>, a, got)
        /\ got[<<"dailyOrders", p>>] \in Acquired!Execute(t, <<"dailyOrders", p>>, a, got)
    BY DEF AcquiredAsked
  <2> QED
    BY <1>1, <1>2, <2>1 DEF Acquired!Execute
<1>4. PICK totals : totals = [ch \in Acquired!Channels |->
          Acquired!++(Acquired!++(visits[ch], sold[ch]), got[<<"ecommerceTotals", p>>][ch])]
  OBVIOUS
<1>5. PICK channels : channels = [ch \in Acquired!Channels |-> Acquired!makeChannel(ch, totals[ch])]
  OBVIOUS
<1>6. PICK all, both : all = Acquired!AllChannels(totals) /\ both = [all |-> Acquired!makeChannel("all", all)]
  OBVIOUS
<1>7. PICK daily : daily = [day \in DaysOf(r) |-> [ch \in Acquired!Channels |->
          Acquired!++(IF day \in DOMAIN byDay THEN byDay[day][ch] ELSE [sessions |-> 0, users |-> 0],
                      IF day \in DOMAIN soldByDay THEN soldByDay[day][ch] ELSE [orders |-> 0, paid |-> 0])]]
  OBVIOUS
<1>8. Acquired!period(a, got, p) = [channels |-> Acquired!++(channels, both), daily |-> daily,
                                    hasTraffic |-> all.sessions > 0, sampled |-> all.sampled]
  BY <1>3, <1>4, <1>5, <1>6, <1>7 DEF Acquired!period, DaysOf
<1>9. PICK report : report = Acquired!period(a, got, p)
  OBVIOUS
<1>10. /\ report.channels = Acquired!++(channels, both) /\ report.daily = daily
       /\ report.hasTraffic = (all.sessions > 0)
  BY <1>8, <1>9
<1>11. ASSUME NEW ch \in Acquired!Channels
       PROVE  /\ \A field \in TrafficFields :
                     totals[ch][field] = visits[ch][field]
              /\ \A field \in OrderFields : totals[ch][field] = sold[ch][field]
  <2>1. DOMAIN visits[ch] = TrafficFields \cup {"sampled"}
    BY <1>1, VisitsAre DEF TrafficFields
  <2>2. DOMAIN sold[ch] = OrderFields \cup {"net"}
    BY <1>1, SoldAre DEF OrderFields
  <2>3. totals[ch] = Acquired!++(Acquired!++(visits[ch], sold[ch]), got[<<"ecommerceTotals", p>>][ch])
    BY <1>4
  <2>4. PICK x, y, z : x = visits[ch] /\ y = sold[ch] /\ z = got[<<"ecommerceTotals", p>>][ch]
    OBVIOUS
  <2>5. /\ \A field \in TrafficFields : Acquired!++(Acquired!++(x, y), z)[field] = x[field]
        /\ \A field \in OrderFields : Acquired!++(Acquired!++(x, y), z)[field] = y[field]
    <3>1. DOMAIN x = TrafficFields \cup {"sampled"} /\ DOMAIN y = OrderFields \cup {"net"}
      BY <2>1, <2>2, <2>4
    <3> QED
      BY <3>1, ThreeParts
  <2> QED
    BY <2>3, <2>4, <2>5
<1>12. \A ch, row : \A field \in TrafficFields \cup OrderFields :
           Acquired!makeChannel(ch, row)[field] = row[field]
  BY DEF Acquired!makeChannel, TrafficFields, OrderFields
<1>13. /\ \A ch \in Acquired!Channels : report.channels[ch] = Acquired!makeChannel(ch, totals[ch])
       /\ report.channels["all"] = Acquired!makeChannel("all", all)
  <2>1. DOMAIN channels = Acquired!Channels /\ "all" \notin Acquired!Channels
    BY <1>5 DEF Acquired!Channels
  <2>2. DOMAIN both = {"all"} /\ both["all"] = Acquired!makeChannel("all", all)
    BY <1>6
  <2>3. /\ \A ch \in Acquired!Channels : Acquired!++(channels, both)[ch] = channels[ch]
        /\ Acquired!++(channels, both)["all"] = both["all"]
    BY <2>1, <2>2 DEF Acquired!++
  <2> QED
    BY <1>5, <1>10, <2>2, <2>3
<1>14. \A field \in TrafficFields \cup OrderFields :
           report.channels["all"][field] = report.channels["site"][field] + report.channels["app"][field]
  <2>1. \A field \in TrafficFields \cup OrderFields : all[field] = totals["site"][field] + totals["app"][field]
    BY <1>6, AllAre
  <2> QED
    BY <1>12, <1>13, <2>1 DEF Acquired!Channels
<1>15. ASSUME NEW ch \in Acquired!Channels, NEW day \in DaysOf(r)
       PROVE  /\ \A field \in TrafficFields :
                     report.daily[day][ch][field] = VisitsSum(t, ch, DayRange(day), field)
              /\ \A field \in OrderFields :
                     report.daily[day][ch][field] = OrdersCount(t, ch, DayRange(day), field)
  <2>1. PICK x : x = IF day \in DOMAIN byDay THEN byDay[day][ch] ELSE [sessions |-> 0, users |-> 0]
    OBVIOUS
  <2>2. PICK y : y = IF day \in DOMAIN soldByDay THEN soldByDay[day][ch] ELSE [orders |-> 0, paid |-> 0]
    OBVIOUS
  <2>3. DOMAIN x = TrafficFields
        /\ \A field \in TrafficFields : x[field] = VisitsSum(t, ch, DayRange(day), field)
    <3>1. CASE day \in DOMAIN byDay
      <4>1. x = byDay[day][ch]
        BY <2>1, <3>1
      <4>2. DOMAIN byDay[day][ch] = TrafficFields
        BY <1>2, <3>1 DEF Acquired!dailyTraffic, TrafficFields
      <4>3. ASSUME NEW field \in TrafficFields
            PROVE  byDay[day][ch][field] = VisitsSum(t, ch, DayRange(day), field)
        BY <1>2, <3>1, VisitsDaily
      <4> QED
        BY <4>1, <4>2, <4>3
    <3>2. CASE day \notin DOMAIN byDay
      <4>1. x = [sessions |-> 0, users |-> 0]
        BY <2>1, <3>2
      <4>2. \A field \in TrafficFields : VisitsSum(t, ch, DayRange(day), field) = 0
        BY <1>2, <3>2, NoVisits
      <4> QED
        BY <4>1, <4>2 DEF TrafficFields
    <3> QED
      BY <3>1, <3>2
  <2>4. DOMAIN y = OrderFields
        /\ \A field \in OrderFields : y[field] = OrdersCount(t, ch, DayRange(day), field)
    <3>1. CASE day \in DOMAIN soldByDay
      <4>1. y = soldByDay[day][ch]
        BY <2>2, <3>1
      <4>2. DOMAIN soldByDay[day][ch] = OrderFields
        BY <1>2, <3>1 DEF Acquired!dailyOrders, OrderFields
      <4>3. ASSUME NEW field \in OrderFields
            PROVE  soldByDay[day][ch][field] = OrdersCount(t, ch, DayRange(day), field)
        BY <1>2, <3>1, SoldDaily
      <4> QED
        BY <4>1, <4>2, <4>3
    <3>2. CASE day \notin DOMAIN soldByDay
      <4>1. y = [orders |-> 0, paid |-> 0]
        BY <2>2, <3>2
      <4>2. \A field \in OrderFields : OrdersCount(t, ch, DayRange(day), field) = 0
        BY <1>2, <3>2, NoneSold
      <4> QED
        BY <4>1, <4>2 DEF OrderFields
    <3> QED
      BY <3>1, <3>2
  <2>5. report.daily[day][ch] = Acquired!++(x, y)
    BY <1>7, <1>10, <2>1, <2>2
  <2>6. /\ \A field \in TrafficFields : Acquired!++(x, y)[field] = x[field]
        /\ \A field \in OrderFields : Acquired!++(x, y)[field] = y[field]
    BY <2>3, <2>4 DEF Acquired!++, TrafficFields, OrderFields
  <2> QED
    BY <2>3, <2>4, <2>5, <2>6
<1>16. ASSUME NEW ch \in Acquired!Channels
       PROVE  /\ \A field \in TrafficFields : report.channels[ch][field] = VisitsSum(t, ch, r, field)
              /\ \A field \in OrderFields : report.channels[ch][field] = OrdersCount(t, ch, r, field)
  <2>1. \A field \in TrafficFields : visits[ch][field] = VisitsSum(t, ch, r, field)
    BY <1>1, VisitsAre
  <2>2. \A field \in OrderFields : sold[ch][field] = OrdersCount(t, ch, r, field)
    BY <1>1, SoldAre
  <2> QED
    BY <1>11, <1>12, <1>13, <2>1, <2>2
<1>17. report.hasTraffic <=> report.channels["all"]["sessions"] > 0
  <2>1. report.channels["all"]["sessions"] = all.sessions
    BY <1>13 DEF Acquired!makeChannel
  <2> QED
    BY <1>10, <2>1
<1> QED
  BY <1>9, <1>14, <1>15, <1>16, <1>17 DEF PeriodIs

(* A day that a successful run covers has a row of steps. *)
ShopKept(t) ==
    \A k \in DOMAIN t.runs :
        (t.runs[k].status = "success" /\ t.runs[k].source \in Range(EcomSources)) =>
            \A d \in t.runs[k].from..t.runs[k].to :
                \E row \in t.shop : row.day = d /\ row.channel = ChannelOf[t.runs[k].source]

CoveredDays(t, s, r) ==
    {d \in r.start..r.end : \E k \in DOMAIN t.runs :
        /\ t.runs[k].status = "success" /\ t.runs[k].source = s
        /\ t.runs[k].from <= d /\ d <= t.runs[k].to}

LEMMA StepsCover ==
    ASSUME NEW t, Legal(t), ShopKept(t), \A k \in DOMAIN t.runs : t.runs[k].from \in Int /\ t.runs[k].to \in Int,
           NEW s \in Range(EcomSources), NEW r, IsRange(r)
    PROVE  Cardinality(CoveredDays(t, s, r)) <= Cardinality(StepsOn(t, ChannelOf[s], r))
<1>1. PICK T, day : T = StepsOn(t, ChannelOf[s], r) /\ day = [d \in t.shop |-> d.day]
  OBVIOUS
<1>2. IsFiniteSet(T) /\ T \subseteq t.shop
  BY <1>1, FS_Subset DEF StepsOn, Legal
<1>3. PICK D : D = {day[d] : d \in T}
  OBVIOUS
<1>4. IsFiniteSet(D) /\ Cardinality(D) <= Cardinality(T)
  BY <1>2, <1>3, ImageIsFinite
<1>5. CoveredDays(t, s, r) \subseteq D
  <2> SUFFICES ASSUME NEW d \in CoveredDays(t, s, r) PROVE d \in D
    OBVIOUS
  <2>1. d \in Int /\ r.start <= d /\ d <= r.end
    BY DEF CoveredDays, IsRange
  <2>2. PICK k \in DOMAIN t.runs : /\ t.runs[k].status = "success" /\ t.runs[k].source = s
                                   /\ t.runs[k].from <= d /\ d <= t.runs[k].to
    BY DEF CoveredDays
  <2>3. d \in t.runs[k].from..t.runs[k].to
    BY <2>1, <2>2
  <2>4. PICK row \in t.shop : row.day = d /\ row.channel = ChannelOf[s]
    BY <2>2, <2>3 DEF ShopKept
  <2>5. Within(row.day, r)
    BY <2>1, <2>4 DEF Within, Legal
  <2>6. row \in T /\ day[row] = d
    BY <1>1, <2>4, <2>5 DEF StepsOn
  <2> QED
    BY <1>3, <2>6
<1>6. /\ Cardinality(CoveredDays(t, s, r)) \in Nat /\ Cardinality(D) \in Nat /\ Cardinality(T) \in Nat
      /\ Cardinality(CoveredDays(t, s, r)) <= Cardinality(D)
  BY <1>2, <1>4, <1>5, FS_Subset, FS_CardinalityType
<1> QED
  BY <1>1, <1>4, <1>6

(* A total is there when one of its days has something. *)
LEMMA SomeDay ==
    ASSUME NEW v, IsFiniteSet(DOMAIN v), \A x \in DOMAIN v : v[x] \in Nat
    PROVE  SumFunction(v) \in Nat /\ (SumFunction(v) > 0 <=> \E x \in DOMAIN v : v[x] > 0)
<1>1. PICK S : S = DOMAIN v
  OBVIOUS
<1>2. Sum(v, S) \in Nat /\ \A e \in S : v[e] <= Sum(v, S)
  BY <1>1, SumOfNaturals
<1>3. ASSUME \A x \in S : ~(v[x] > 0) PROVE Sum(v, S) = 0
  <2>1. \A x \in S : v[x] = 0
    BY <1>1, <1>3
  <2> QED
    BY <1>1, <2>1, SumOfZeros
<1>4. SumFunction(v) = Sum(v, S)
  BY <1>1, SumFunctionIs
<1> QED
  BY <1>1, <1>2, <1>3, <1>4

LEMMA DaysAddUp ==
    ASSUME NEW t, Legal(t), NEW r, IsRange(r), NEW report, PeriodIs(report, t, r),
           NEW ch \in Acquired!Channels, NEW field \in TrafficFields \cup OrderFields, NEW v,
           DOMAIN v = DaysOf(r), \A day \in DaysOf(r) : v[day] = report.daily[day][ch][field]
    PROVE  /\ SumFunction(v) = report.channels[ch][field]
           /\ field = "sessions" => \A day \in DaysOf(r) : v[day] \in Nat
<1>1. CASE field \in TrafficFields
  <2>1. \A day \in DaysOf(r) : v[day] = VisitsSum(t, ch, DayRange(day), field)
    BY <1>1 DEF PeriodIs
  <2>2. SumFunction(v) = VisitsSum(t, ch, r, field) /\ \A day \in DaysOf(r) : v[day] \in Nat
    BY <1>1, <2>1, VisitsOfDays DEF TrafficFields
  <2> QED
    BY <1>1, <2>2 DEF PeriodIs
<1>2. CASE field \in OrderFields
  <2>1. PICK k : k = Kind(field)
    OBVIOUS
  <2>2. \A day \in DaysOf(r) : v[day] = Cardinality(Having(t, OrdersOn(t, ch, DayRange(day)), k))
    BY <1>2, <2>1 DEF PeriodIs, OrdersCount
  <2>3. SumFunction(v) = Cardinality(Having(t, OrdersOn(t, ch, r), k))
    BY <2>2, OrdersOfDays
  <2> QED
    BY <1>2, <2>1, <2>3 DEF PeriodIs, OrdersCount, OrderFields
<1> QED
  BY <1>1, <1>2

(* The answers of a request, all from the same tables. *)
LEMMA AcquiredReportAddsUp ==
    ASSUME NEW t, Legal(t), ShopKept(t), \A k \in DOMAIN t.runs : t.runs[k].from \in Int /\ t.runs[k].to \in Int,
           \A s \in Range(EcomSources) : ChannelOf[s] \in Acquired!Channels,
           NEW a, AsksDays(a), NEW got,
           <<"dataBounds">> \in DOMAIN got => IsBounds(got[<<"dataBounds">>]),
           \A st \in AcquiredAsked : got[st] \in Acquired!Execute(t, st, a, got)
    PROVE  Acquired!ReportAddsUp(t, a, got)
<1> SUFFICES ASSUME NEW p \in Periods
             PROVE  LET r == Acquired!Ranges(a, got)[p]
                        report == Acquired!period(a, got, p)
                        OfDays(ch, field) ==
                            Acquired!SumFunction([day \in r.start..r.end |-> report.daily[day][ch][field]])
                        Covered(s) == {d \in r.start..r.end : \E k \in DOMAIN t.runs :
                                           /\ t.runs[k].status = "success" /\ t.runs[k].source = s
                                           /\ t.runs[k].from <= d /\ d <= t.runs[k].to}
                    IN  /\ \A field \in {"sessions", "users", "orders", "paid"} :
                              /\ \A ch \in Acquired!Channels : OfDays(ch, field) = report.channels[ch][field]
                              /\ OfDays("site", field) + OfDays("app", field) = report.channels.all[field]
                        /\ \A s \in Acquired!Range(EcomSources) :
                              got[<<"ecommerceTotals", p>>][ChannelOf[s]].rows
                                  >= Acquired!Cardinality(Covered(s))
                        /\ report.hasTraffic <=> \E day \in r.start..r.end, ch \in Acquired!Channels :
                                                     report.daily[day][ch].sessions > 0
  BY DEF Acquired!ReportAddsUp, Periods
<1> DEFINE r == Acquired!Ranges(a, got)[p]
           report == Acquired!period(a, got, p)
<1>1. r = Acquired!Ranges(a, got)[p] /\ report = Acquired!period(a, got, p)
  OBVIOUS
<1> HIDE DEF r, report
<1>2. IsRange(r)
  BY <1>1, RangesAre, SameRanges DEF Periods
<1>3. PeriodIs(report, t, r)
  BY <1>1, <1>2, AcquiredPeriod
<1>4. ASSUME NEW ch \in Acquired!Channels, NEW field \in TrafficFields \cup OrderFields
      PROVE  Acquired!SumFunction([day \in r.start..r.end |-> report.daily[day][ch][field]])
                 = report.channels[ch][field]
  <2>1. PICK v : v = [day \in r.start..r.end |-> report.daily[day][ch][field]]
    OBVIOUS
  <2>2. DOMAIN v = DaysOf(r) /\ \A day \in DaysOf(r) : v[day] = report.daily[day][ch][field]
    BY <2>1 DEF DaysOf
  <2>3. SumFunction(v) = report.channels[ch][field]
    BY <1>2, <1>3, <2>2, DaysAddUp
  <2> QED
    BY <2>1, <2>3, SameSums
<1>5. \A field \in TrafficFields \cup OrderFields :
          report.channels["all"][field] = report.channels["site"][field] + report.channels["app"][field]
  BY <1>3 DEF PeriodIs
<1>6. ASSUME NEW s \in Range(EcomSources)
      PROVE  Cardinality(CoveredDays(t, s, r)) <= got[<<"ecommerceTotals", p>>][ChannelOf[s]].rows
  <2>1. got[<<"ecommerceTotals", p>>] \in Acquired!Execute(t, <<"ecommerceTotals", p>>, a, got)
    BY DEF AcquiredAsked
  <2>2. got[<<"ecommerceTotals", p>>] = Acquired!ecommerceTotals(t, r)
    BY <1>1, <2>1 DEF Acquired!Execute
  <2>3. PICK ch \in Acquired!Channels : ch = ChannelOf[s]
    OBVIOUS
  <2>4. PICK T : T = StepsOn(t, ch, r) /\ T = {d \in t.shop : d.channel = ch /\ Acquired!Within(d.day, r)}
    BY SameVisits
  <2>5. Acquired!ecommerceTotals(t, r)[ch].rows = Acquired!Cardinality(T)
    BY <2>4 DEF Acquired!ecommerceTotals
  <2>6. Cardinality(CoveredDays(t, s, r)) <= Cardinality(T)
    BY <1>2, <2>3, <2>4, StepsCover
  <2>7. Acquired!Cardinality(T) = Cardinality(T)
    BY SameSize
  <2> QED
    BY <2>2, <2>3, <2>5, <2>6, <2>7
<1>7. report.hasTraffic <=> \E day \in r.start..r.end, ch \in Acquired!Channels :
                                report.daily[day][ch].sessions > 0
  <2>1. ASSUME NEW ch \in Acquired!Channels
        PROVE  /\ report.channels[ch]["sessions"] \in Nat
               /\ report.channels[ch]["sessions"] > 0 <=>
                      \E day \in DaysOf(r) : report.daily[day][ch].sessions > 0
    <3>1. PICK v : v = [day \in DaysOf(r) |-> report.daily[day][ch]["sessions"]]
      OBVIOUS
    <3>2. DOMAIN v = DaysOf(r) /\ \A day \in DaysOf(r) : v[day] = report.daily[day][ch]["sessions"]
      BY <3>1
    <3>3. SumFunction(v) = report.channels[ch]["sessions"] /\ \A day \in DaysOf(r) : v[day] \in Nat
      <4>1. "sessions" \in TrafficFields \cup OrderFields
        BY DEF TrafficFields
      <4> QED
        BY <1>2, <1>3, <3>2, <4>1, DaysAddUp
    <3>4. IsFiniteSet(DOMAIN v)
      BY <1>2, <3>2, FS_Interval DEF DaysOf, IsRange
    <3>5. SumFunction(v) \in Nat /\ (SumFunction(v) > 0 <=> \E x \in DOMAIN v : v[x] > 0)
      BY <3>2, <3>3, <3>4, SomeDay
    <3> QED
      BY <3>2, <3>3, <3>5
  <2>2. report.channels["all"]["sessions"]
            = report.channels["site"]["sessions"] + report.channels["app"]["sessions"]
    BY <1>5 DEF TrafficFields
  <2>3. report.hasTraffic <=> report.channels["all"]["sessions"] > 0
    BY <1>3 DEF PeriodIs
  <2>4. Acquired!Channels = {"site", "app"}
    BY DEF Acquired!Channels
  <2> QED
    BY <2>1, <2>2, <2>3, <2>4 DEF DaysOf
<1>8. /\ Acquired!Range(EcomSources) = Range(EcomSources)
      /\ \A s : Acquired!Cardinality(CoveredDays(t, s, r)) = Cardinality(CoveredDays(t, s, r))
  BY SameSize DEF Acquired!Range, Range
<1>9. \A s : CoveredDays(t, s, r) = {d \in r.start..r.end : \E k \in DOMAIN t.runs :
                                        /\ t.runs[k].status = "success" /\ t.runs[k].source = s
                                        /\ t.runs[k].from <= d /\ d <= t.runs[k].to}
  BY DEF CoveredDays
<1>10. \A s \in Acquired!Range(EcomSources) :
           got[<<"ecommerceTotals", p>>][ChannelOf[s]].rows >= Acquired!Cardinality(CoveredDays(t, s, r))
  BY <1>6, <1>8
<1>11. \A field \in {"sessions", "users", "orders", "paid"} :
           /\ \A ch \in Acquired!Channels :
                 Acquired!SumFunction([day \in r.start..r.end |-> report.daily[day][ch][field]])
                     = report.channels[ch][field]
           /\ Acquired!SumFunction([day \in r.start..r.end |-> report.daily[day]["site"][field]])
                  + Acquired!SumFunction([day \in r.start..r.end |-> report.daily[day]["app"][field]])
                  = report.channels.all[field]
  BY <1>4, <1>5 DEF TrafficFields, OrderFields, Acquired!Channels
<1> QED
  BY <1>7, <1>10, <1>11 DEF CoveredDays, r, report

-----------------------------------------------------------------------------
(* The customers: the periods each of them ordered in. *)
PeopleForm(people) ==
    /\ IsFiniteSet(DOMAIN people)
    /\ \A c \in DOMAIN people :
          people[c] \in SUBSET Nat /\ people[c] # {} /\ IsFiniteSet(people[c])

Here(people, p)    == {c \in DOMAIN people : p \in people[c]}
Members(people, p) == {c \in DOMAIN people : Min(people[c]) = p}
Cohort(people, first, last) == {p \in first..last : Members(people, p) # {}}
Later(people, p, n) == {c \in Members(people, p) : n \in people[c]}
Newest(people, p)  == {c \in Here(people, p) : Min(people[c]) = p}

LEMMA PeopleAre ==
    ASSUME NEW people, PeopleForm(people)
    PROVE  /\ \A c \in DOMAIN people : Min(people[c]) \in people[c] /\ Min(people[c]) \in Nat
                                       /\ \A n \in people[c] : Min(people[c]) <= n
           /\ \A p : Newest(people, p) = Members(people, p)
           /\ \A p : IsFiniteSet(Here(people, p)) /\ IsFiniteSet(Members(people, p))
           /\ \A p : Later(people, p, p) = Members(people, p)
<1>1. ASSUME NEW c \in DOMAIN people
      PROVE  Min(people[c]) \in people[c] /\ \A n \in people[c] : Min(people[c]) <= n
  <2>1. people[c] \in SUBSET Int /\ people[c] # {} /\ IsFiniteSet(people[c])
    BY DEF PeopleForm
  <2> QED
    BY <2>1, MinMaxOf
<1>2. \A c \in DOMAIN people : Min(people[c]) \in Nat
  BY <1>1 DEF PeopleForm
<1>3. \A p : IsFiniteSet(Here(people, p)) /\ IsFiniteSet(Members(people, p))
  <2>1. \A p : Here(people, p) \in SUBSET DOMAIN people /\ Members(people, p) \in SUBSET DOMAIN people
    BY DEF Here, Members
  <2> QED
    BY <2>1, FS_Subset DEF PeopleForm
<1>4. \A p : Newest(people, p) = Members(people, p) /\ Later(people, p, p) = Members(people, p)
  BY <1>1 DEF Newest, Members, Here, Later
<1> QED
  BY <1>1, <1>2, <1>3, <1>4

Numbers(a, b) == a..b
Sizes(people, C) == [p \in C |-> Cardinality(Members(people, p))]
Comebacks(people, C, k, last) ==
    [p \in C |-> IF p + k <= last THEN Cardinality(Later(people, p, p + k)) ELSE 0]

(* What the report makes of them. *)
ViewOf(view, people, first, last) ==
    /\ DOMAIN view.composition = Numbers(first, last)
    /\ \A p \in Numbers(first, last) :
          /\ view.composition[p].customers = Cardinality(Here(people, p))
          /\ view.composition[p].new = Cardinality(Newest(people, p))
          /\ \E active \in SUBSET Here(people, p - 1) :
                view.composition[p].active = Cardinality(active)
    /\ DOMAIN view.cohorts = Cohort(people, first, last)
    /\ \A p \in Cohort(people, first, last) :
          /\ view.cohorts[p].customers = Cardinality(Members(people, p))
          /\ DOMAIN view.cohorts[p].cells = Numbers(0, last - first)
          /\ \A k \in Numbers(0, last - first) :
                view.cohorts[p].cells[k].customers =
                    IF p + k <= last THEN Cardinality(Later(people, p, p + k)) ELSE 0
    /\ view.customers = SumFunction(Sizes(people, Cohort(people, first, last)))
    /\ \E again \in SUBSET {c \in DOMAIN people : Min(people[c]) \in Cohort(people, first, last)} :
          view.repeat = Cardinality(again)
    /\ DOMAIN view.retention = Numbers(0, last - first)
    /\ \A k \in Numbers(0, last - first) : \E C \in SUBSET Cohort(people, first, last) :
          /\ view.retention[k].customers = SumFunction(Comebacks(people, C, k, last))
          /\ view.retention[k].eligible = SumFunction(Sizes(people, C))

LEMMA CohortFinite ==
    ASSUME NEW people, NEW first \in Int, NEW last \in Int
    PROVE  /\ IsFiniteSet(Cohort(people, first, last))
           /\ \A p \in Cohort(people, first, last) :
                 p \in Int /\ first <= p /\ p <= last /\ Members(people, p) # {}
<1>1. IsFiniteSet(first..last) /\ Cohort(people, first, last) \subseteq first..last
  BY FS_Interval DEF Cohort
<1> QED
  BY <1>1, FS_Subset DEF Cohort

LEMMA LaterFits ==
    ASSUME NEW people, PeopleForm(people), NEW c, NEW n
    PROVE  /\ Cardinality(Later(people, c, n)) \in Nat /\ Cardinality(Members(people, c)) \in Nat
           /\ Cardinality(Later(people, c, n)) <= Cardinality(Members(people, c))
           /\ Later(people, c, n) = {x \in Here(people, n) : Min(people[x]) = c}
<1>1. IsFiniteSet(Members(people, c)) /\ Later(people, c, n) \subseteq Members(people, c)
  BY PeopleAre DEF Later
<1> QED
  BY <1>1, FS_Subset, FS_CardinalityType DEF Later, Here, Members

(* A customer of a cohort was not there before. *)
LEMMA NotBefore ==
    ASSUME NEW people, PeopleForm(people), NEW c \in Int, NEW n \in Int, n < c
    PROVE  Cardinality(Later(people, c, n)) = 0
<1>1. Later(people, c, n) = {}
  <2> SUFFICES ASSUME NEW x \in Later(people, c, n) PROVE FALSE
    OBVIOUS
  <2>1. x \in DOMAIN people /\ Min(people[x]) = c /\ n \in people[x]
    BY DEF Later, Members
  <2>2. c <= n
    BY <2>1, PeopleAre
  <2> QED
    BY <2>2
<1> QED
  BY <1>1, FS_EmptySet

(* Who is there in a period is of one cohort at most. *)
LEMMA OfOneCohort ==
    ASSUME NEW people, PeopleForm(people), NEW C, IsFiniteSet(C), NEW p, NEW v, DOMAIN v = C,
           \A c \in C : v[c] = Cardinality(Later(people, c, p))
    PROVE  SumFunction(v) <= Cardinality(Here(people, p))
<1>1. PICK S : S = Here(people, p)
  OBVIOUS
<1>2. PICK key : key = [x \in S |-> Min(people[x])]
  OBVIOUS
<1>3. PICK group : group = [c \in C |-> {x \in S : key[x] = c}]
  OBVIOUS
<1>4. \A c \in C : group[c] = {x \in S : key[x] = c}
  BY <1>3
<1>5. \A c \in C : group[c] = Later(people, c, p)
  BY <1>1, <1>2, <1>3, LaterFits
<1>6. IsFiniteSet(S)
  BY <1>1, PeopleAre
<1>7. \A c \in C : v[c] = Cardinality(group[c])
  BY <1>5
<1>8. SumFunction(v) <= Cardinality(S)
  BY <1>4, <1>6, <1>7, RowsCountKept
<1> QED
  BY <1>1, <1>8

LEMMA AllCohorts ==
    ASSUME NEW people, PeopleForm(people), NEW C, IsFiniteSet(C),
           NEW S, S = {x \in DOMAIN people : Min(people[x]) \in C}
    PROVE  IsFiniteSet(S) /\ SumFunction(Sizes(people, C)) = Cardinality(S)
<1>2. PICK key : key = [x \in S |-> Min(people[x])]
  OBVIOUS
<1>3. PICK group : group = [c \in C |-> {x \in S : key[x] = c}]
  OBVIOUS
<1>4. \A c \in C : group[c] = {x \in S : key[x] = c}
  BY <1>3
<1>5. \A c \in C : group[c] = Members(people, c)
  BY <1>2, <1>3 DEF Members
<1>6. IsFiniteSet(S) /\ \A x \in S : key[x] \in C
  <2>1. S \subseteq DOMAIN people /\ IsFiniteSet(DOMAIN people)
    BY DEF PeopleForm
  <2> QED
    BY <1>2, <2>1, FS_Subset
<1>7. PICK v : v = Sizes(people, C)
  OBVIOUS
<1>8. DOMAIN v = C /\ \A c \in C : v[c] = Cardinality(group[c])
  BY <1>5, <1>7 DEF Sizes
<1>9. SumFunction(v) = Cardinality(S)
  BY <1>4, <1>6, <1>8, RowsCountAll
<1> QED
  BY <1>6, <1>7, <1>9

(* Those of some cohorts that came back are no more than those cohorts.    *)
LEMMA CellsFit ==
    ASSUME NEW people, PeopleForm(people), NEW C, IsFiniteSet(C), NEW k, NEW last
    PROVE  SumFunction(Comebacks(people, C, k, last)) <= SumFunction(Sizes(people, C))
<1>1. PICK w, v : w = Comebacks(people, C, k, last) /\ v = Sizes(people, C)
  OBVIOUS
<1>2. DOMAIN w = C /\ DOMAIN v = C
  BY <1>1 DEF Comebacks, Sizes
<1>3. \A p \in C : w[p] \in Int /\ v[p] \in Int /\ w[p] <= v[p]
  <2> SUFFICES ASSUME NEW p \in C PROVE w[p] \in Int /\ v[p] \in Int /\ w[p] <= v[p]
    OBVIOUS
  <2>1. /\ Cardinality(Later(people, p, p + k)) \in Nat /\ Cardinality(Members(people, p)) \in Nat
        /\ Cardinality(Later(people, p, p + k)) <= Cardinality(Members(people, p))
    BY LaterFits
  <2> QED
    BY <1>1, <2>1 DEF Comebacks, Sizes
<1>4. Sum(w, C) <= Sum(v, C)
  BY <1>2, <1>3, SumGrows
<1>5. SumFunction(w) = Sum(w, C) /\ SumFunction(v) = Sum(v, C)
  BY <1>2, SumFunctionIs
<1> QED
  BY <1>1, <1>4, <1>5

(* Whatever the customers ordered, the parts of a view fit. *)
LEMMA ViewFits ==
    ASSUME NEW people, PeopleForm(people), NEW first \in Int, NEW last \in Int, NEW view,
           ViewOf(view, people, first, last)
    PROVE  Customers!CohortsFit(view)
<1> DEFINE Size(p) == IF p \in DOMAIN view.cohorts THEN view.cohorts[p].customers ELSE 0
           Came(c, p) == IF p - c \in DOMAIN view.cohorts[c].cells
                         THEN view.cohorts[c].cells[p - c].customers ELSE 0
<1>1. PICK C : C = Cohort(people, first, last)
  OBVIOUS
<1>2. IsFiniteSet(C) /\ (\A p \in C : p \in Int /\ first <= p /\ p <= last) /\ DOMAIN view.cohorts = C
  BY <1>1, CohortFinite DEF ViewOf
<1>3. \A p \in C : view.cohorts[p].customers = Cardinality(Members(people, p))
  BY <1>1 DEF ViewOf
<1>4. ASSUME NEW p \in C, NEW k \in Numbers(0, last - first)
      PROVE  view.cohorts[p].cells[k].customers =
                 IF p + k <= last THEN Cardinality(Later(people, p, p + k)) ELSE 0
  BY <1>1 DEF ViewOf
<1>5. \A p \in C : DOMAIN view.cohorts[p].cells = Numbers(0, last - first)
  BY <1>1 DEF ViewOf
<1>6. DOMAIN view.composition = Numbers(first, last)
  BY DEF ViewOf
<1>7. ASSUME NEW p \in DOMAIN view.composition PROVE view.composition[p].new = Size(p)
  <2>1. p \in first..last
    BY <1>6 DEF Numbers
  <2>2. view.composition[p].new = Cardinality(Members(people, p))
    BY <1>6, PeopleAre DEF ViewOf
  <2>3. p \notin C => Members(people, p) = {}
    BY <1>1, <2>1 DEF Cohort
  <2> QED
    BY <1>2, <1>3, <2>2, <2>3, FS_EmptySet
<1>8. ASSUME NEW p \in DOMAIN view.composition, p - 1 \in DOMAIN view.composition
      PROVE  view.composition[p].active <= view.composition[p - 1].customers
  <2>1. PICK active \in SUBSET Here(people, p - 1) :
            view.composition[p].active = Cardinality(active)
    BY <1>6 DEF ViewOf
  <2>2. view.composition[p - 1].customers = Cardinality(Here(people, p - 1))
    BY <1>6, <1>8 DEF ViewOf
  <2>3. IsFiniteSet(Here(people, p - 1))
    BY PeopleAre
  <2> QED
    BY <2>1, <2>2, <2>3, FS_Subset
<1>9. ASSUME NEW p \in DOMAIN view.composition
      PROVE  SumFunction([c \in DOMAIN view.cohorts |-> Came(c, p)]) <= view.composition[p].customers
  <2>1. PICK v : v = [c \in DOMAIN view.cohorts |-> Came(c, p)]
    OBVIOUS
  <2>2. p \in Int /\ first <= p /\ p <= last
    BY <1>6 DEF Numbers
  <2>3. ASSUME NEW c \in C PROVE v[c] = Cardinality(Later(people, c, p))
    <3>1. c \in Int /\ first <= c /\ c <= last
      BY <1>2
    <3>2. v[c] = Came(c, p)
      BY <1>2, <2>1
    <3>3. CASE c <= p
      <4>1. p - c \in Numbers(0, last - first) /\ c + (p - c) = p /\ c + (p - c) <= last
        BY <2>2, <3>1, <3>3 DEF Numbers
      <4>2. view.cohorts[c].cells[p - c].customers = Cardinality(Later(people, c, c + (p - c)))
        BY <1>4, <4>1
      <4>3. DOMAIN view.cohorts[c].cells = Numbers(0, last - first)
        BY <1>5
      <4> QED
        BY <3>2, <4>1, <4>2, <4>3
    <3>4. CASE p < c
      <4>1. p - c \notin Numbers(0, last - first)
        BY <2>2, <3>1, <3>4 DEF Numbers
      <4>2. DOMAIN view.cohorts[c].cells = Numbers(0, last - first)
        BY <1>5
      <4>3. Cardinality(Later(people, c, p)) = 0
        BY <2>2, <3>1, <3>4, NotBefore
      <4> QED
        BY <3>2, <4>1, <4>2, <4>3
    <3> QED
      BY <2>2, <3>1, <3>3, <3>4
  <2>4. DOMAIN v = C
    BY <1>2, <2>1
  <2>5. SumFunction(v) <= Cardinality(Here(people, p))
    BY <1>2, <2>3, <2>4, OfOneCohort
  <2>6. view.composition[p].customers = Cardinality(Here(people, p))
    BY <1>6 DEF ViewOf
  <2> QED
    BY <2>1, <2>5, <2>6
<1>10. ASSUME NEW p \in DOMAIN view.cohorts
       PROVE  /\ view.cohorts[p].cells[0].customers = Size(p)
              /\ \A k \in DOMAIN view.cohorts[p].cells : view.cohorts[p].cells[k].customers <= Size(p)
  <2>1. p \in C /\ p \in Int /\ first <= p /\ p <= last
    BY <1>2
  <2>2. Size(p) = Cardinality(Members(people, p)) /\ Cardinality(Members(people, p)) \in Nat
    BY <1>2, <1>3, <2>1, LaterFits
  <2>3. 0 \in Numbers(0, last - first) /\ p + 0 = p
    BY <2>1 DEF Numbers
  <2>4. Later(people, p, p) = Members(people, p)
    BY PeopleAre
  <2>5. view.cohorts[p].cells[0].customers = Size(p)
    BY <1>4, <2>1, <2>2, <2>3, <2>4
  <2>6. ASSUME NEW k \in DOMAIN view.cohorts[p].cells
        PROVE  view.cohorts[p].cells[k].customers <= Size(p)
    <3>1. k \in Numbers(0, last - first)
      BY <1>5, <2>1
    <3>2. view.cohorts[p].cells[k].customers =
              IF p + k <= last THEN Cardinality(Later(people, p, p + k)) ELSE 0
      BY <1>4, <2>1, <3>1
    <3>3. Cardinality(Later(people, p, p + k)) <= Cardinality(Members(people, p))
      BY LaterFits
    <3> QED
      BY <2>2, <3>2, <3>3
  <2> QED
    BY <2>5, <2>6
<1>11. SumFunction([p \in DOMAIN view.cohorts |-> Size(p)]) = SumFunction(Sizes(people, C))
  <2>1. PICK v, w : v = [p \in DOMAIN view.cohorts |-> Size(p)] /\ w = Sizes(people, C)
    OBVIOUS
  <2>2. DOMAIN v = C /\ DOMAIN w = C /\ w = [p \in C |-> Cardinality(Members(people, p))]
    BY <1>2, <2>1 DEF Sizes
  <2>3. \A p \in C : v[p] = w[p] /\ w[p] \in Int
    <3> SUFFICES ASSUME NEW p \in C PROVE v[p] = w[p] /\ w[p] \in Int
      OBVIOUS
    <3>1. w[p] = Cardinality(Members(people, p)) /\ Cardinality(Members(people, p)) \in Nat
      BY <2>2, LaterFits
    <3>2. v[p] = view.cohorts[p].customers
      BY <1>2, <2>1
    <3> QED
      BY <1>3, <3>1, <3>2
  <2>4. Sum(v, C) = Sum(w, C)
    BY <1>2, <2>3, SumSame
  <2>5. SumFunction(v) = Sum(v, C) /\ SumFunction(w) = Sum(w, C)
    BY <2>2, SumFunctionIs
  <2> QED
    BY <2>1, <2>4, <2>5
<1>12. view.customers = SumFunction(Sizes(people, C))
  BY <1>1 DEF ViewOf
<1>13. view.repeat <= view.customers
  <2>1. PICK S : S = {c \in DOMAIN people : Min(people[c]) \in C}
    OBVIOUS
  <2>2. PICK again \in SUBSET S : view.repeat = Cardinality(again)
    BY <1>1, <2>1 DEF ViewOf
  <2>3. IsFiniteSet(S) /\ SumFunction(Sizes(people, C)) = Cardinality(S)
    BY <1>2, <2>1, AllCohorts
  <2>4. Cardinality(again) <= Cardinality(S)
    BY <2>2, <2>3, FS_Subset
  <2> QED
    BY <1>12, <2>2, <2>3, <2>4
<1>14. ASSUME NEW k \in DOMAIN view.retention
       PROVE  view.retention[k].customers <= view.retention[k].eligible
  <2>1. PICK D \in SUBSET C : /\ view.retention[k].customers = SumFunction(Comebacks(people, D, k, last))
                              /\ view.retention[k].eligible = SumFunction(Sizes(people, D))
    BY <1>1 DEF ViewOf
  <2>2. IsFiniteSet(D)
    BY <1>2, FS_Subset
  <2>3. SumFunction(Comebacks(people, D, k, last)) <= SumFunction(Sizes(people, D))
    BY <2>2, CellsFit
  <2> QED
    BY <2>1, <2>3
<1> DEFINE sizes == [p \in DOMAIN view.cohorts |-> Size(p)]
           came(p) == [c \in DOMAIN view.cohorts |-> Came(c, p)]
<1>15. /\ Customers!SumFunction(sizes) = SumFunction(sizes)
       /\ \A p : Customers!SumFunction(came(p)) = SumFunction(came(p))
  BY SameSums
<1>16. /\ view.customers = Customers!SumFunction(sizes)
       /\ \A p \in DOMAIN view.composition : Customers!SumFunction(came(p)) <= view.composition[p].customers
  BY <1>9, <1>11, <1>12, <1>15
<1> QED
  BY <1>7, <1>8, <1>10, <1>13, <1>14, <1>16 DEF Customers!CohortsFit

(* The events of a report, and what becomes of them. *)
EventsForm(all) ==
    IsFiniteSet(DOMAIN all) /\ \A o \in DOMAIN all : all[o].created \in Nat \ {NoDay}

Periodic(g) == [n \in Int |-> Customers!periodStart(n, g)]
PeopleOf(mode, all, g) == Customers!Activities(mode, all, g)
CountedOf(mode, all) == {o \in DOMAIN all : /\ mode = "paid" => all[o].paid
                                           /\ Customers!customerIdentity(all[o]) # Customers!NoIdentity}
Whose(all) == [o \in DOMAIN all |-> Customers!customerIdentity(all[o])]
When(all, g) == [o \in DOMAIN all |-> Customers!periodStart(all[o].created, g)]

LEMMA PeriodStart ==
    ASSUME NEW g, NEW n \in Int
    PROVE  /\ Customers!periodStart(n, g) \in Int
           /\ n > 0 => Customers!periodStart(n, g) \in Nat
<1>1. PICK span : span = Customers!Span(g) /\ span \in Nat \ {0}
  BY LimitsAssumption DEF Customers!Span
<1>2. ASSUME NEW x \in Int, NEW d \in Nat \ {0}
      PROVE  x \div d \in Int /\ (x >= 0 => x \div d >= 0)
  BY <1>2
<1>3. DaysPerMonth \in Nat \ {0}
  BY CalendarAssumption
<1>4. PICK m : m = (n - 1) \div DaysPerMonth
  OBVIOUS
<1>5. m \in Int /\ (n > 0 => m >= 0)
  BY <1>2, <1>3, <1>4
<1>6. m \div span \in Int /\ (m >= 0 => m \div span >= 0)
  BY <1>1, <1>2, <1>5
<1>7. Customers!periodStart(n, g) = m \div span
  BY <1>1, <1>4 DEF Customers!periodStart, Customers!MonthOf
<1> QED
  BY <1>5, <1>6, <1>7

PeopleBy(people, counted, whose, on) ==
    /\ DOMAIN people = {whose[o] : o \in counted}
    /\ \A c \in DOMAIN people : people[c] = {on[o] : o \in {x \in counted : whose[x] = c}}

LEMMA ActivitiesAre ==
    ASSUME NEW mode, NEW all, NEW g
    PROVE  PeopleBy(PeopleOf(mode, all, g), CountedOf(mode, all), Whose(all), When(all, g))
<1>1. PICK counted : counted = CountedOf(mode, all) /\ counted \subseteq DOMAIN all
  BY DEF CountedOf
<1>2. PeopleOf(mode, all, g) =
          [c \in {Customers!customerIdentity(all[o]) : o \in CountedOf(mode, all)} |->
              {Customers!periodStart(all[o].created, g) :
                  o \in {x \in CountedOf(mode, all) : Customers!customerIdentity(all[x]) = c}}]
  BY DEF PeopleOf, Customers!Activities, CountedOf
<1>3. \A o \in counted : /\ Whose(all)[o] = Customers!customerIdentity(all[o])
                         /\ When(all, g)[o] = Customers!periodStart(all[o].created, g)
  BY <1>1 DEF Whose, When
<1>4. DOMAIN PeopleOf(mode, all, g) = {Whose(all)[o] : o \in counted}
  <2>1. DOMAIN PeopleOf(mode, all, g) = {Customers!customerIdentity(all[o]) : o \in counted}
    BY <1>1, <1>2
  <2> QED
    BY <1>3, <2>1
<1>5. ASSUME NEW c \in DOMAIN PeopleOf(mode, all, g)
      PROVE  PeopleOf(mode, all, g)[c] = {When(all, g)[o] : o \in {x \in counted : Whose(all)[x] = c}}
  <2>1. PeopleOf(mode, all, g)[c] = {Customers!periodStart(all[o].created, g) :
            o \in {x \in counted : Customers!customerIdentity(all[x]) = c}}
    BY <1>1, <1>2
  <2> QED
    BY <1>3, <2>1
<1> QED
  BY <1>1, <1>4, <1>5 DEF PeopleBy

LEMMA PeopleFit ==
    ASSUME NEW mode, NEW all, EventsForm(all), NEW g
    PROVE  PeopleForm(PeopleOf(mode, all, g))
<1>1. PICK people, counted, whose, on :
          /\ people = PeopleOf(mode, all, g) /\ counted = CountedOf(mode, all)
          /\ whose = Whose(all) /\ on = When(all, g)
  OBVIOUS
<1>2. /\ DOMAIN people = {whose[o] : o \in counted}
      /\ \A c \in DOMAIN people : people[c] = {on[o] : o \in {x \in counted : whose[x] = c}}
  <2>1. PeopleBy(people, counted, whose, on)
    BY <1>1, ActivitiesAre
  <2> QED
    BY <2>1 DEF PeopleBy
<1>3. counted \subseteq DOMAIN all /\ IsFiniteSet(counted)
  BY <1>1, FS_Subset DEF EventsForm, CountedOf
<1>4. IsFiniteSet(DOMAIN people)
  BY <1>2, <1>3, ImageIsFinite
<1>5. \A o \in counted : on[o] \in Nat
  <2> SUFFICES ASSUME NEW o \in counted PROVE on[o] \in Nat
    OBVIOUS
  <2>1. all[o].created \in Int /\ all[o].created > 0
    BY <1>3 DEF EventsForm, NoDay
  <2> QED
    BY <1>1, <1>3, <2>1, PeriodStart DEF When
<1>6. ASSUME NEW c \in DOMAIN people
      PROVE  people[c] \in SUBSET Nat /\ people[c] # {} /\ IsFiniteSet(people[c])
  <2>1. PICK own : own = {x \in counted : whose[x] = c}
    OBVIOUS
  <2>2. people[c] = {on[o] : o \in own} /\ own \subseteq counted
    BY <1>2, <2>1
  <2>3. own # {}
    BY <1>2, <2>1
  <2>4. IsFiniteSet(own)
    BY <1>3, <2>2, FS_Subset
  <2>5. IsFiniteSet(people[c])
    BY <2>2, <2>4, ImageIsFinite
  <2> QED
    BY <1>5, <2>2, <2>3, <2>5
<1> QED
  BY <1>1, <1>4, <1>6 DEF PeopleForm

(* Who paid ordered. *)
LEMMA PayersOrdered ==
    ASSUME NEW all, NEW g, NEW p
    PROVE  Here(PeopleOf("paid", all, g), p) \subseteq Here(PeopleOf("gross", all, g), p)
<1>1. PICK paid, gross, whose, on :
          /\ paid = PeopleOf("paid", all, g) /\ gross = PeopleOf("gross", all, g)
          /\ whose = Whose(all) /\ on = When(all, g)
  OBVIOUS
<1>2. PICK A, B : A = CountedOf("paid", all) /\ B = CountedOf("gross", all)
  OBVIOUS
<1>3. A \subseteq B
  BY <1>2 DEF CountedOf
<1>4. /\ DOMAIN paid = {whose[o] : o \in A}
      /\ \A c \in DOMAIN paid : paid[c] = {on[o] : o \in {x \in A : whose[x] = c}}
  <2>1. PeopleBy(paid, A, whose, on)
    BY <1>1, <1>2, ActivitiesAre
  <2> QED
    BY <2>1 DEF PeopleBy
<1>5. /\ DOMAIN gross = {whose[o] : o \in B}
      /\ \A c \in DOMAIN gross : gross[c] = {on[o] : o \in {x \in B : whose[x] = c}}
  <2>1. PeopleBy(gross, B, whose, on)
    BY <1>1, <1>2, ActivitiesAre
  <2> QED
    BY <2>1 DEF PeopleBy
<1>6. ASSUME NEW c \in Here(paid, p) PROVE c \in Here(gross, p)
  <2>1. c \in DOMAIN paid /\ p \in paid[c]
    BY DEF Here
  <2>2. PICK o \in A : whose[o] = c /\ p = on[o]
    BY <1>4, <2>1
  <2>3. c \in DOMAIN gross /\ p \in gross[c]
    BY <1>3, <1>5, <2>2
  <2> QED
    BY <2>3 DEF Here
<1> QED
  BY <1>1, <1>6

LEMMA CompositionIs ==
    ASSUME NEW people, NEW r, NEW g, NEW first, first = Customers!periodStart(r.start, g),
           NEW last, last = Customers!periodStart(r.end, g),
           NEW composition, composition = Customers!buildComposition(people, r, g)
    PROVE  /\ DOMAIN composition = Numbers(first, last)
           /\ \A p \in Numbers(first, last) :
                 /\ composition[p].customers = Cardinality(Here(people, p))
                 /\ composition[p].new = Cardinality(Newest(people, p))
                 /\ \E active \in SUBSET Here(people, p - 1) :
                       composition[p].active = Cardinality(active)
<1> DEFINE here(p) == {c \in DOMAIN people : p \in people[c]}
           new(p) == {c \in here(p) : Customers!New(people[c], p)}
           active(p) == {c \in here(p) : Customers!Active(people[c], p)}
           Row(p) == [customers |-> Customers!Cardinality(here(p)), new |-> Customers!Cardinality(new(p)),
                      active    |-> Customers!Cardinality(active(p)),
                      returned  |-> Customers!Cardinality(here(p) \ (new(p) \cup active(p))),
                      complete  |-> /\ p # Customers!periodStart(r.start, g)
                                       \/ r.start = Customers!FirstDay(Customers!periodStart(r.start, g), g)
                                    /\ p < Customers!periodStart(r.end, g) \/ Customers!isPeriodEnd(r.end, g)]
<1>1. composition = [p \in Customers!periodStart(r.start, g)..Customers!periodStart(r.end, g) |-> Row(p)]
  BY DEF Customers!buildComposition
<1>2. \A p : here(p) = Here(people, p) /\ new(p) = Newest(people, p)
  BY SameMin DEF Here, Newest, Customers!New, Customers!Since
<1>3. \A p : active(p) \subseteq Here(people, p - 1)
  BY DEF Here, Customers!Active
<1>4. \A S : Customers!Cardinality(S) = Cardinality(S)
  BY Zenon DEF Customers!Cardinality, Cardinality
<1>5. /\ \A p : Row(p).customers = Customers!Cardinality(here(p))
      /\ \A p : Row(p).new = Customers!Cardinality(new(p))
      /\ \A p : Row(p).active = Customers!Cardinality(active(p))
  OBVIOUS
<1> HIDE DEF here, new, active, Row
<1>6. DOMAIN composition = Numbers(first, last)
      /\ \A p \in Numbers(first, last) : composition[p] = Row(p)
  BY <1>1 DEF Numbers
<1>7. ASSUME NEW p \in Numbers(first, last)
      PROVE  /\ composition[p].customers = Cardinality(Here(people, p))
             /\ composition[p].new = Cardinality(Newest(people, p))
             /\ \E part \in SUBSET Here(people, p - 1) : composition[p].active = Cardinality(part)
  <2>1. composition[p].active = Cardinality(active(p))
    BY <1>4, <1>5, <1>6
  <2>2. composition[p].customers = Cardinality(Here(people, p))
    BY <1>2, <1>4, <1>5, <1>6
  <2>3. composition[p].new = Cardinality(Newest(people, p))
    BY <1>2, <1>4, <1>5, <1>6
  <2> QED
    BY <1>3, <2>1, <2>2, <2>3
<1> QED
  BY <1>6, <1>7

LEMMA BuiltView ==
    ASSUME NEW mode, NEW all, NEW r, NEW g,
           NEW first, first = Customers!periodStart(r.start, g),
           NEW last, last = Customers!periodStart(r.end, g)
    PROVE  ViewOf(Customers!buildView(mode, all, r, g), PeopleOf(mode, all, g), first, last)
<1> DEFINE people  == Customers!Activities(mode, all, g)
           start   == Customers!periodStart(r.start, g)
           end     == Customers!periodStart(r.end, g)
           offsets == 0..(end - start)
           members(p) == {c \in DOMAIN people : Customers!Since(people[c]) = p}
           cohorts == {p \in start..end : members(p) # {}}
           whole(p) == p # start \/ r.start = Customers!FirstDay(start, g)
           came(p, k) == {c \in members(p) : p + k \in people[c]}
           cell(p, k) ==
               [customers |-> IF p + k <= end THEN Customers!Cardinality(came(p, k)) ELSE 0,
                available |-> p + k <= end,
                complete  |-> /\ p + k <= end
                              /\ whole(p)
                              /\ p + k < end \/ Customers!isPeriodEnd(r.end, g)]
           counted(k) == {p \in cohorts : cell(p, k).complete \/ (k = 0 /\ whole(p))}
           again == {c \in DOMAIN people : /\ Customers!Since(people[c]) \in cohorts
                                           /\ \E p \in people[c] : p > Customers!Since(people[c])}
           newest == [p \in cohorts |-> Customers!Cardinality(members(p))]
           kept(k) == [p \in counted(k) |-> cell(p, k).customers]
           eligible(k) == [p \in counted(k) |-> Customers!Cardinality(members(p))]
           retention == [k \in offsets |-> [customers |-> Customers!SumFunction(kept(k)),
                                            eligible  |-> Customers!SumFunction(eligible(k))]]
           rows == [p \in cohorts |->
               [customers |-> Customers!Cardinality(members(p)), cells |-> [k \in offsets |-> cell(p, k)]]]
           composition == Customers!buildComposition(people, r, g)
           view == Customers!buildView(mode, all, r, g)
<1>1. view = [customers |-> Customers!SumFunction(newest), repeat |-> Customers!Cardinality(again),
              retention |-> retention, cohorts |-> rows, composition |-> composition]
  BY DEF Customers!buildView
<1>2. \A S : Customers!Cardinality(S) = Cardinality(S)
  BY Zenon DEF Customers!Cardinality, Cardinality
<1>3. \A p : members(p) = Members(people, p)
  BY SameMin DEF Members, Customers!Since
<1>4. \A p, k : came(p, k) = {c \in members(p) : p + k \in people[c]}
  OBVIOUS
<1>5. \A p, k : cell(p, k).customers = IF p + k <= end THEN Customers!Cardinality(came(p, k)) ELSE 0
  OBVIOUS
<1>6. /\ cohorts = {p \in start..end : members(p) # {}}
      /\ \A k : counted(k) \subseteq cohorts
      /\ again \subseteq {c \in DOMAIN people : Customers!Since(people[c]) \in cohorts}
  OBVIOUS
<1>7. /\ newest = [p \in cohorts |-> Customers!Cardinality(members(p))]
      /\ \A k : kept(k) = [p \in counted(k) |-> cell(p, k).customers]
      /\ \A k : eligible(k) = [p \in counted(k) |-> Customers!Cardinality(members(p))]
  OBVIOUS
<1> HIDE DEF cell, came, counted, again, newest, kept, eligible
<1>8. /\ DOMAIN retention = offsets
      /\ \A k \in offsets : retention[k].customers = Customers!SumFunction(kept(k))
      /\ \A k \in offsets : retention[k].eligible = Customers!SumFunction(eligible(k))
  OBVIOUS
<1>9. /\ DOMAIN rows = cohorts
      /\ \A p \in cohorts : rows[p].customers = Customers!Cardinality(members(p))
      /\ \A p \in cohorts : DOMAIN rows[p].cells = offsets
      /\ \A p \in cohorts : \A k \in offsets : rows[p].cells[k] = cell(p, k)
  OBVIOUS
<1>10. offsets = Numbers(0, last - first) /\ start = first /\ end = last
  BY DEF Numbers
<1>11. people = PeopleOf(mode, all, g)
  BY DEF PeopleOf
<1> HIDE DEF people, members, cohorts, retention, rows, offsets, start, end, composition, view
<1>12. cohorts = Cohort(people, first, last)
  BY <1>3, <1>6, <1>10 DEF Cohort
<1>13. \A p, k : cell(p, k).customers = IF p + k <= last THEN Cardinality(Later(people, p, p + k)) ELSE 0
  BY <1>2, <1>3, <1>4, <1>5, <1>10 DEF Later
<1>14. newest = Sizes(people, cohorts) /\ \A k : eligible(k) = Sizes(people, counted(k))
  BY <1>2, <1>3, <1>7 DEF Sizes
<1>15. \A k : kept(k) = Comebacks(people, counted(k), k, last)
  BY <1>7, <1>13 DEF Comebacks
<1>16. \A w : Customers!SumFunction(w) = SumFunction(w)
  BY SameSums
<1>17. view.customers = SumFunction(Sizes(people, cohorts))
  BY <1>1, <1>14, <1>16
<1>18. view.repeat = Cardinality(again)
       /\ again \in SUBSET {c \in DOMAIN people : Min(people[c]) \in cohorts}
  <2>1. again \in SUBSET {c \in DOMAIN people : Min(people[c]) \in cohorts}
    BY <1>6, SameMin DEF Customers!Since
  <2> QED
    BY <1>1, <1>2, <2>1
<1>19. /\ DOMAIN view.retention = offsets
       /\ \A k \in offsets : \E C \in SUBSET cohorts :
             /\ view.retention[k].customers = SumFunction(Comebacks(people, C, k, last))
             /\ view.retention[k].eligible = SumFunction(Sizes(people, C))
  <2>1. view.retention = retention
    BY <1>1
  <2>2. ASSUME NEW k \in offsets
        PROVE  /\ view.retention[k].customers = SumFunction(Comebacks(people, counted(k), k, last))
               /\ view.retention[k].eligible = SumFunction(Sizes(people, counted(k)))
    BY <1>8, <1>14, <1>15, <1>16, <2>1
  <2> QED
    BY <1>6, <1>8, <2>1, <2>2
<1>20. /\ DOMAIN view.cohorts = cohorts
       /\ \A p \in cohorts :
             /\ view.cohorts[p].customers = Cardinality(Members(people, p))
             /\ DOMAIN view.cohorts[p].cells = offsets
             /\ \A k \in offsets : view.cohorts[p].cells[k].customers =
                    IF p + k <= last THEN Cardinality(Later(people, p, p + k)) ELSE 0
  <2>1. view.cohorts = rows
    BY <1>1
  <2> QED
    BY <1>2, <1>3, <1>9, <1>13, <2>1
<1>21. /\ DOMAIN view.composition = Numbers(first, last)
       /\ \A p \in Numbers(first, last) :
             /\ view.composition[p].customers = Cardinality(Here(people, p))
             /\ view.composition[p].new = Cardinality(Newest(people, p))
             /\ \E active \in SUBSET Here(people, p - 1) :
                   view.composition[p].active = Cardinality(active)
  <2>1. view.composition = Customers!buildComposition(people, r, g)
    BY <1>1 DEF composition
  <2> QED
    BY <2>1, CompositionIs
<1>22. ViewOf(view, people, first, last)
  BY <1>10, <1>12, <1>17, <1>18, <1>19, <1>20, <1>21 DEF ViewOf
<1> QED
  BY <1>11, <1>22 DEF view

LEMMA EventsAre ==
    ASSUME NEW t, Legal(t), NEW end, NEW f
    PROVE  EventsForm(Customers!events(t, end, f))
<1>1. PICK S : S = Customers!Scope(t, [start |-> 1, end |-> end], f)
  OBVIOUS
<1>2. S \subseteq Stored(t) /\ \A o \in S : Created(t, o) # NoDay
  BY <1>1 DEF Customers!Scope, Customers!Stored, Stored, Customers!Within, Customers!Created, Created,
     Customers!NoDay, NoDay
<1>3. IsFiniteSet(S) /\ \A o \in S : Created(t, o) \in Nat \ {NoDay}
  BY <1>2, FS_Subset DEF Legal, LegalRow
<1>4. PICK all : all = Customers!events(t, end, f)
  OBVIOUS
<1>5. DOMAIN all = S /\ \A o \in S : all[o].created = Created(t, o)
  BY <1>1, <1>4 DEF Customers!events, Customers!Created, Created
<1> QED
  BY <1>3, <1>4, <1>5 DEF EventsForm

LEMMA NothingFits == Customers!CohortsFit(Customers!Empty) /\ Customers!PaidOrdered(Customers!Empty, Customers!Empty)
<1>1. PICK view : view = Customers!Empty
  OBVIOUS
<1>2. /\ view.customers = 0 /\ view.repeat = 0 /\ DOMAIN view.retention = {} /\ DOMAIN view.cohorts = {}
      /\ DOMAIN view.composition = {}
  BY <1>1 DEF Customers!Empty
<1>3. ASSUME NEW w, DOMAIN w = {} PROVE Customers!SumFunction(w) = 0
  BY <1>3, SameSums, SumFunctionIs, SumOfNone
<1>4. Customers!CohortsFit(view)
  BY <1>2, <1>3 DEF Customers!CohortsFit
<1>5. Customers!PaidOrdered(view, view)
  BY <1>2 DEF Customers!PaidOrdered
<1> QED
  BY <1>1, <1>4, <1>5

(* The customers of a report, whatever the tables hold when it is asked.   *)
LEMMA CustomersAddUp ==
    ASSUME NEW a, a.start \in Int, a.end \in Int, NEW got,
           <<"bounds">> \in DOMAIN got => IsBounds(got[<<"bounds">>]),
           Customers!HasData(got) =>
               \E t : Legal(t) /\ got[<<"events">>] \in Customers!Execute(t, <<"events">>, a, got)
    PROVE  LET report == Customers!Report(a, got)
           IN  /\ \A mode \in DOMAIN report : Customers!CohortsFit(report[mode])
               /\ Customers!PaidOrdered(report.gross, report.paid)
<1>1. PICK report : report = Customers!Report(a, got)
  OBVIOUS
<1> SUFFICES /\ \A mode \in DOMAIN report : Customers!CohortsFit(report[mode])
             /\ Customers!PaidOrdered(report["gross"], report["paid"])
  BY <1>1
<1>2. DOMAIN report = {"gross", "paid"}
  BY <1>1 DEF Customers!Report
<1>3. CASE ~Customers!HasData(got)
  <2>1. report["gross"] = Customers!Empty /\ report["paid"] = Customers!Empty
    BY <1>1, <1>3 DEF Customers!Report
  <2> QED
    BY <1>2, <2>1, NothingFits
<1>4. CASE Customers!HasData(got)
  <2>1. PICK all, r, g : all = got[<<"events">>] /\ r = Customers!Period(a, got) /\ g = a.granularity
    OBVIOUS
  <2>2. report["gross"] = Customers!buildView("gross", all, r, g)
        /\ report["paid"] = Customers!buildView("paid", all, r, g)
    BY <1>1, <1>4, <2>1 DEF Customers!Report
  <2>3. EventsForm(all)
    <3>1. PICK t : Legal(t) /\ all \in Customers!Execute(t, <<"events">>, a, got)
      BY <1>4, <2>1
    <3>2. all = Customers!events(t, r.end, a.filters)
      BY <2>1, <3>1 DEF Customers!Execute
    <3> QED
      BY <3>1, <3>2, EventsAre
  <2>4. r.start \in Int /\ r.end \in Int
    <3>1. PICK b : b = got[<<"bounds">>] /\ IsBounds(b)
      BY <1>4 DEF Customers!HasData
    <3>2. PICK x, y : x = (IF a.start = NoDay THEN b.start ELSE a.start)
                      /\ y = (IF a.end = NoDay THEN b.end ELSE a.end)
      OBVIOUS
    <3>3. x \in Int /\ y \in Int
      BY <3>1, <3>2 DEF IsBounds
    <3>4. r = [start |-> Min({x, y}), end |-> Max({x, y})]
      <4>1. r = Customers!Ordered([start |-> x, end |-> y])
        BY <2>1, <3>1, <3>2 DEF Customers!Period, Customers!NoDay, NoDay
      <4>2. \A S : Customers!Max(S) = Max(S)
        BY Zenon DEF Customers!Max, Max
      <4> QED
        BY <4>1, <4>2, SameMin DEF Customers!Ordered
    <3> QED
      BY <3>3, <3>4, OfTwo
  <2>5. PICK first, last : first = Customers!periodStart(r.start, g) /\ last = Customers!periodStart(r.end, g)
    OBVIOUS
  <2>6. first \in Int /\ last \in Int
    BY <2>4, <2>5, PeriodStart
  <2>7. ASSUME NEW mode, NEW view, view = Customers!buildView(mode, all, r, g)
        PROVE  ViewOf(view, PeopleOf(mode, all, g), first, last) /\ Customers!CohortsFit(view)
    <3>1. ViewOf(view, PeopleOf(mode, all, g), first, last)
      BY <2>5, <2>7, BuiltView
    <3>2. PeopleForm(PeopleOf(mode, all, g))
      BY <2>3, PeopleFit
    <3> QED
      BY <2>6, <3>1, <3>2, ViewFits
  <2>8. \A mode \in DOMAIN report : Customers!CohortsFit(report[mode])
    BY <1>2, <2>2, <2>7
  <2>9. Customers!PaidOrdered(report["gross"], report["paid"])
    <3>1. PICK gross, paid : gross = report["gross"] /\ paid = report["paid"]
      OBVIOUS
    <3>2. /\ ViewOf(gross, PeopleOf("gross", all, g), first, last)
          /\ ViewOf(paid, PeopleOf("paid", all, g), first, last)
      BY <2>2, <2>7, <3>1
    <3>3. DOMAIN gross.composition = Numbers(first, last) /\ DOMAIN paid.composition = Numbers(first, last)
      BY <3>2 DEF ViewOf
    <3>4. ASSUME NEW p \in Numbers(first, last)
          PROVE  paid.composition[p].customers <= gross.composition[p].customers
      <4>1. PICK A, B : A = Here(PeopleOf("paid", all, g), p) /\ B = Here(PeopleOf("gross", all, g), p)
        OBVIOUS
      <4>2. paid.composition[p].customers = Cardinality(A)
        BY <3>2, <4>1 DEF ViewOf
      <4>3. gross.composition[p].customers = Cardinality(B)
        BY <3>2, <4>1 DEF ViewOf
      <4>4. A \subseteq B
        BY <4>1, PayersOrdered
      <4>5. IsFiniteSet(B)
        BY <2>3, <4>1, PeopleFit, PeopleAre
      <4> QED
        BY <4>2, <4>3, <4>4, <4>5, FS_Subset
    <3> QED
      BY <3>1, <3>3, <3>4 DEF Customers!PaidOrdered
  <2> QED
    BY <2>8, <2>9
<1> QED
  BY <1>3, <1>4
=============================================================================
