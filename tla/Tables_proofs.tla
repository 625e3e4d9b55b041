---------------------------- MODULE Tables_proofs ----------------------------
(***************************************************************************)
(* Proofs about what the tables of Dashboard hold, whatever exports are    *)
(* uploaded: types, that the migration leaves the rows of an earlier       *)
(* version as an import of today would store them, and that what a report  *)
(* tells of them adds up.                                                  *)
(***************************************************************************)
EXTENDS Dashboard_proofs

(* A number that is read from digits is one. *)
LEMMA MoneyType ==
    ASSUME NEW cell \in Seq(0..Reader!Gap)
    PROVE  Reader!Money(cell) \in Nat
<1> DEFINE D == DOMAIN cell
           Read(g) == g = [s \in SUBSET D |->
                              IF s = {} THEN 0
                              ELSE IF cell[Reader!Max(s)] = Reader!Gap THEN g[s \ {Reader!Max(s)}]
                              ELSE g[s \ {Reader!Max(s)}] * 10 + cell[Reader!Max(s)]]
<1>1. Reader!Money(cell) = (CHOOSE g : Read(g))[D]
  BY DEF Reader!Money, Reader!FoldLeft, Reader!MapThenFoldSet
<1>2. IsFiniteSet(D) /\ D \subseteq Nat /\ \A k \in D : cell[k] \in Nat
  <2>1. Len(cell) \in Nat /\ D = 1..Len(cell)
    OBVIOUS
  <2>2. \A k \in D : cell[k] \in 0..10
    BY <2>1 DEF Reader!Gap
  <2>3. IsFiniteSet(1..Len(cell))
    BY <2>1, FS_Interval
  <2> HIDE DEF D
  <2> QED
    BY <2>1, <2>2, <2>3
<1>3. ASSUME NEW s \in SUBSET D, s # {}
      PROVE  Reader!Max(s) \in s
  <2>1. \E n \in s : \A m \in s : n >= m
    BY <1>2, <1>3, FS_Subset, GreatestNumber
  <2> QED
    BY <2>1 DEF Reader!Max
<1>4. PICK pick : pick = [s \in SUBSET D |-> Reader!Max(s)]
  OBVIOUS
<1>5. PICK comb : comb = [p \in D \X Nat |-> IF cell[p[1]] = Reader!Gap THEN p[2]
                                            ELSE p[2] * 10 + cell[p[1]]]
  OBVIOUS
<1> HIDE DEF D
<1>6. \A s \in SUBSET D : s # {} => pick[s] \in s
  BY <1>3, <1>4
<1>7. \E g : Read(g)
  <2>1. comb \in [D \X Nat -> Nat]
    <3>1. \A n \in D, v \in Nat : cell[n] \in Nat /\ v * 10 + cell[n] \in Nat
      BY <1>2
    <3> QED
      BY <1>5, <3>1
  <2>2. PICK g \in [SUBSET D -> Nat] : Folds(g, SUBSET D, 0, pick, comb)
    BY <1>2, <1>6, <2>1, FoldDefined, Zenon
  <2>3. ASSUME NEW s \in SUBSET D, s # {}
        PROVE  g[s] = IF cell[Reader!Max(s)] = Reader!Gap THEN g[s \ {Reader!Max(s)}]
                      ELSE g[s \ {Reader!Max(s)}] * 10 + cell[Reader!Max(s)]
    <3>1. PICK x \in D : x = Reader!Max(s) /\ x = pick[s]
      BY <1>3, <1>4, <2>3
    <3>2. g[s] = comb[<<x, g[s \ {x}]>>] /\ g[s \ {x}] \in Nat
      BY <2>2, <2>3, <3>1 DEF Folds
    <3>3. comb[<<x, g[s \ {x}]>>] = IF cell[x] = Reader!Gap THEN g[s \ {x}]
                                    ELSE g[s \ {x}] * 10 + cell[x]
      BY <1>5, <3>2
    <3> QED
      BY <3>1, <3>2, <3>3
  <2>4. g[{}] = 0
    BY <2>2 DEF Folds
  <2> QED
    BY <2>3, <2>4
<1>8. PICK h : Read(h) /\ Reader!Money(cell) = h[D]
  BY <1>1, <1>7
<1>9. \A s \in SUBSET D : s \in {t \in SUBSET D : h[t] \in Nat}
  <2> DEFINE C == {t \in SUBSET D : h[t] \in Nat}
  <2>1. {} \in C
    BY <1>8
  <2>2. ASSUME NEW s \in SUBSET D, s # {}, s \ {pick[s]} \in C
        PROVE  s \in C
    <3>1. PICK x \in D : x = Reader!Max(s) /\ x = pick[s]
      BY <1>3, <1>4, <2>2
    <3>2. h[s] = IF cell[x] = Reader!Gap THEN h[s \ {x}] ELSE h[s \ {x}] * 10 + cell[x]
      BY <1>8, <2>2, <3>1
    <3>3. h[s \ {x}] \in Nat /\ cell[x] \in Nat
      BY <1>2, <2>2, <3>1
    <3> QED
      BY <3>2, <3>3
  <2>3. Reaches(C, D, pick)
    BY <1>6, <2>1, <2>2 DEF Reaches
  <2>4. \A s \in SUBSET D : s \in C
    <3> HIDE DEF C
    <3> QED
      BY <1>2, <2>3, AllSubsets
  <2> QED
    BY <2>4
<1> QED
  BY <1>8, <1>9

-----------------------------------------------------------------------------
(* What the reader makes of a row of an export.                            *)
SnapshotForm(s) ==
    /\ s.created \in Nat /\ s.updated \in Nat /\ s.lines \in Nat
    /\ ContentForm(s.content) /\ AsImported(s.content) /\ PiecesOf(s.content, s.lines)

LEMMA RefundBounds ==
    ASSUME NEW status, NEW total \in Nat, NEW payments \in Seq(Seq(0..Reader!Gap))
    PROVE  Reader!refundAmount(status, total, payments) \in 0..total
<1>1. ASSUME NEW n \in Nat
      PROVE  Reader!Min({total, n}) \in 0..total
  <2>1. \E x \in {total, n} : \A y \in {total, n} : x <= y
    OBVIOUS
  <2>2. /\ Reader!Min({total, n}) \in {total, n}
        /\ \A y \in {total, n} : Reader!Min({total, n}) <= y
    BY <2>1 DEF Reader!Min
  <2> QED
    BY <2>2
<1>2. CASE Len(payments) >= 2
  <2>1. payments[Len(payments)] \in Seq(0..Reader!Gap)
    BY <1>2
  <2>2. Reader!Money(payments[Len(payments)]) \in Nat
    BY <2>1, MoneyType
  <2>3. Reader!Min({total, Reader!Money(payments[Len(payments)])}) \in 0..total
    BY <1>1, <2>2
  <2>4. ~(Len(payments) < 2) /\ 0 \in 0..total /\ total \in 0..total
    BY <1>2
  <2> QED
    BY <2>3, <2>4, Zenon DEF Reader!refundAmount
<1>3. CASE ~(Len(payments) >= 2)
  BY <1>3 DEF Reader!refundAmount
<1> QED
  BY <1>2, <1>3

LEMMA PositionsRead ==
    ASSUME NEW positions \in Seq([name: Seq(STRING), qty: Seq(0..Reader!Gap)]),
           NEW prices \in Seq(Seq(0..Reader!Gap))
    PROVE  LET lines == Reader!parseItems(positions, prices)
           IN  /\ Len(lines) \in Nat
               /\ \A k \in 1..Len(lines) : lines[k].qty \in Nat \ {0} /\ lines[k].sum \in Nat
<1> DEFINE list == Reader!splitPrices(prices)
           price(k) == IF k \in DOMAIN list THEN list[k] ELSE 0
           qty(k) == Reader!atoi(positions[k].qty)
           first(k) == [name |-> Reader!Words(positions[k].name), qty |-> qty(k), sum |-> price(k) * qty(k)]
           lines == Reader!parseItems(positions, prices)
<1>1. lines = [k \in DOMAIN positions |-> Reader!++(first(k), Reader!Product(positions[k].name))]
  BY DEF Reader!parseItems
<1>2. Len(positions) \in Nat /\ DOMAIN positions = 1..Len(positions) /\ Len(lines) = Len(positions)
  <2>1. lines = [k \in 1..Len(positions) |-> Reader!++(first(k), Reader!Product(positions[k].name))]
    BY <1>1
  <2> QED
    BY <2>1
<1>3. ASSUME NEW k \in 1..Len(positions)
      PROVE  lines[k].qty = qty(k) /\ lines[k].sum = price(k) * qty(k)
  <2>1. DOMAIN first(k) = {"name", "qty", "sum"}
    OBVIOUS
  <2>2. lines[k] = [x \in DOMAIN first(k) \cup DOMAIN Reader!Product(positions[k].name) |->
                       IF x \in DOMAIN first(k) THEN first(k)[x]
                       ELSE Reader!Product(positions[k].name)[x]]
    BY <1>1, <1>2 DEF Reader!++
  <2> HIDE DEF first, lines
  <2>3. lines[k].qty = first(k).qty /\ lines[k].sum = first(k).sum
    BY <2>1, <2>2
  <2> QED
    BY <2>3 DEF first
<1>4. ASSUME NEW k \in 1..Len(positions)
      PROVE  qty(k) \in Nat \ {0} /\ price(k) \in Nat
  <2>1. positions[k].qty \in Seq(0..Reader!Gap)
    <3>1. positions[k] \in [name: Seq(STRING), qty: Seq(0..Reader!Gap)]
      <4> HIDE DEF list, price, qty, first, lines
      <4> QED
        BY ElementOfSeq, Zenon
    <3> QED
      BY <3>1
  <2>2. Reader!Money(positions[k].qty) \in Nat
    BY <2>1, MoneyType
  <2>3. qty(k) \in Nat \ {0}
    BY <2>2 DEF Reader!atoi
  <2>4. \A j \in DOMAIN prices : prices[j] \in Seq(0..Reader!Gap)
    OBVIOUS
  <2>5. \A j \in DOMAIN prices : Reader!Money(prices[j]) \in Nat
    BY <2>4, MoneyType
  <2>6. price(k) \in Nat
    BY <2>5 DEF Reader!splitPrices
  <2> QED
    BY <2>3, <2>6
<1> HIDE DEF lines, qty, price
<1>5. \A k \in 1..Len(positions) : price(k) * qty(k) \in Nat
  BY <1>4
<1> QED
  BY <1>2, <1>3, <1>4, <1>5 DEF lines

(* What is fully returned was paid back as a whole, unless it is canceled. *)
LEMMA ReturnPaidBack ==
    ASSUME NEW status, NEW total \in Nat, NEW payments, NEW canceled,
           Reader!Words(status) \in Migrating!FullReturn =>
               "vozvrat" \in Range(status) /\ "chastichnyy" \notin Range(status),
           Reader!StatusStage(Reader!Words(status), canceled) = "returned",
           Reader!Words(status) \in Migrating!FullReturn
    PROVE  Reader!refundAmount(status, total, payments) = total
<1>1. "vozvrat" \in Reader!Range(status) /\ "chastichnyy" \notin Reader!Range(status)
  BY DEF Range, Reader!Range
<1>2. CASE total > 0
  BY <1>1, <1>2 DEF Reader!refundAmount
<1>3. CASE total = 0
  BY <1>3 DEF Reader!refundAmount
<1> QED
  BY <1>2, <1>3

LEMMA SnapshotRead ==
    ASSUME NEW rec, Legible(rec)
    PROVE  SnapshotForm(Reader!MapOrder(rec, Longer, NoOrder))
<1> DEFINE Cell(h) == Reader!get(rec, h, Longer)
           s == Reader!MapOrder(rec, Longer, NoOrder)
           c == s.content
           lines == Reader!parseItems(Cell("positions"), Cell("prices"))
           total == Reader!Money(Cell("total"))
           status == Cell("status")
           canceled == Reader!Bool(Cell("canceled"))
           refund == Reader!refundAmount(status, total, Cell("payments"))
<1>1. /\ s.created = Reader!Time(Cell("created")) /\ s.updated = Reader!Time(Cell("updated"))
      /\ s.lines = Len(lines)
  BY DEF Reader!MapOrder
<1>2. /\ {"stage", "refund", "total", "deliveryCost", "statusRaw", "canceled", "items"}
            \subseteq DOMAIN c
      /\ c.total = total /\ c.items = lines /\ c.refund = refund
      /\ c.deliveryCost = Reader!Money(Cell("deliveryCost"))
      /\ c.statusRaw = Reader!Words(status) /\ c.canceled = canceled
      /\ c.stage = Reader!StatusStage(Reader!Words(status), canceled)
  BY DEF Reader!MapOrder
<1>3. /\ Cell("total") \in Seq(0..Reader!Gap) /\ Cell("deliveryCost") \in Seq(0..Reader!Gap)
      /\ Cell("payments") \in Seq(Seq(0..Reader!Gap)) /\ Cell("prices") \in Seq(Seq(0..Reader!Gap))
      /\ Cell("positions") \in Seq([name: Seq(STRING), qty: Seq(0..Reader!Gap)])
      /\ Reader!Time(Cell("created")) \in Nat /\ Reader!Time(Cell("updated")) \in Nat
      /\ Reader!Words(status) \in Migrating!FullReturn =>
             "vozvrat" \in Range(status) /\ "chastichnyy" \notin Range(status)
  BY DEF Legible
<1> HIDE DEF Cell, s, lines, total, status, canceled, refund
<1>4. total \in Nat /\ c.deliveryCost \in Nat
  <2>1. Reader!Money(Cell("total")) \in Nat /\ Reader!Money(Cell("deliveryCost")) \in Nat
    BY <1>3, MoneyType
  <2> QED
    BY <1>2, <2>1 DEF total
<1>5. refund \in 0..total
  BY <1>3, <1>4, RefundBounds DEF refund
<1>6. /\ Len(lines) \in Nat
      /\ \A k \in 1..Len(lines) : lines[k].qty \in Nat \ {0} /\ lines[k].sum \in Nat
  BY <1>3, PositionsRead DEF lines
<1>7. c.stage = "returned" /\ c.statusRaw \in Migrating!FullReturn => refund = total
  <2>1. SUFFICES ASSUME c.stage = "returned", c.statusRaw \in Migrating!FullReturn
                 PROVE  refund = total
    OBVIOUS
  <2>2. /\ Reader!StatusStage(Reader!Words(status), canceled) = "returned"
        /\ Reader!Words(status) \in Migrating!FullReturn
    BY <1>2, <2>1
  <2>3. "vozvrat" \in Range(status) /\ "chastichnyy" \notin Range(status)
    BY <1>3, <2>2
  <2> QED
    BY <1>4, <2>2, <2>3, ReturnPaidBack DEF refund
<1>8. SnapshotForm(s)
  BY <1>1, <1>2, <1>3, <1>4, <1>5, <1>6, <1>7 DEF SnapshotForm, ContentForm, AsImported, PiecesOf
<1> QED
  BY <1>8 DEF s
-----------------------------------------------------------------------------
(* A file of an export holds such snapshots. *)
FileForm(f) == Len(f) \in Nat /\ \A k \in 1..Len(f) : SnapshotForm(f[k])

LEMMA ExportForm ==
    ASSUME NEW d \in DOMAIN Documents
    PROVE  FileForm(Mapped[d])
<1> DEFINE records == Parsed[d].records
           f == Mapped[d]
<1>1. records \in Seq(Range(records)) /\ \A rec \in Range(records) : Legible(rec)
  BY ExportAssumption
<1>2. f = [k \in DOMAIN records |-> Reader!MapOrder(records[k], Longer, NoOrder)]
  BY DEF Mapped
<1> HIDE DEF records, f
<1>3. Len(records) \in Nat /\ DOMAIN records = 1..Len(records)
  BY <1>1
<1>4. f = [k \in 1..Len(records) |-> Reader!MapOrder(records[k], Longer, NoOrder)]
  BY <1>2, <1>3
<1>5. Len(f) = Len(records)
  BY <1>3, <1>4
<1>6. ASSUME NEW k \in 1..Len(records)
      PROVE  SnapshotForm(f[k])
  <2>1. records[k] \in Range(records)
    BY <1>1
  <2>2. Legible(records[k])
    BY <1>1, <2>1
  <2>3. f[k] = Reader!MapOrder(records[k], Longer, NoOrder)
    BY <1>4
  <2> QED
    BY <2>2, <2>3, SnapshotRead
<1>7. FileForm(f)
  BY <1>3, <1>5, <1>6 DEF FileForm
<1> QED
  BY <1>7 DEF f

-----------------------------------------------------------------------------
(* Tables with what imports of today store. *)
TablesForm(t) ==
    /\ DOMAIN t = {"orders", "items", "counts"}
    /\ DOMAIN t.orders = Orders /\ DOMAIN t.items = Orders
    /\ \A o \in Orders : t.orders[o] # NoRow =>
           /\ RowForm(t.orders[o]) /\ ItemsForm(t.items[o], t.orders[o].lines)
           /\ AsImported(t.orders[o].content)

LEMMA ItemsRead ==
    ASSUME NEW s, SnapshotForm(s), NEW i
    PROVE  ItemsForm(Store!InsertedItems(s, i), s.lines)
<1>1. s.lines \in Nat /\ PiecesOf(s.content, s.lines)
  BY DEF SnapshotForm
<1>2. PICK n, its : n = s.lines /\ its = Store!InsertedItems(s, i)
  OBVIOUS
<1>3. its = [k \in 1..n |-> [content |-> s.content, line |-> k, import |-> i]]
  BY <1>2 DEF Store!InsertedItems
<1>4. DOMAIN its = 1..n /\ Len(its) = n
  BY <1>1, <1>2, <1>3
<1>5. \A k \in 1..n : its[k].line = k /\ its[k].content = s.content
  BY <1>3
<1> QED
  BY <1>1, <1>2, <1>4, <1>5 DEF ItemsForm

LEMMA RowRead ==
    ASSUME NEW s, SnapshotForm(s), NEW i, NEW old, old # NoRow => RowForm(old)
    PROVE  LET new == IF old = NoRow THEN Store!InsertedRow(s, i) ELSE Store!UpdatedRow(old, s, i)
           IN  RowForm(new) /\ new.lines = s.lines /\ new.content = s.content
<1>1. s.created \in Nat /\ s.updated \in Nat /\ s.lines \in Nat /\ ContentForm(s.content)
  BY DEF SnapshotForm
<1>2. CASE old = NoRow
  BY <1>1, <1>2 DEF Store!InsertedRow, RowForm
<1>3. CASE old # NoRow
  <2>1. old.created \in Nat /\ old.updated \in Nat
    BY <1>3 DEF RowForm
  <2>2. Store!Coalesce(s.created, old.created) \in Nat /\ Store!Coalesce(s.updated, old.updated) \in Nat
    BY <1>1, <2>1 DEF Store!Coalesce
  <2> QED
    BY <1>1, <1>3, <2>2 DEF Store!UpdatedRow, RowForm
<1> QED
  BY <1>2, <1>3

LEMMA ApplyForm ==
    ASSUME NEW t, TablesForm(t), NEW s, SnapshotForm(s), NEW i
    PROVE  TablesForm(Store!ApplySnapshot(t, s, i))
<1> DEFINE o   == s.order
           old == t.orders[o]
           new == IF old = NoRow THEN Store!InsertedRow(s, i) ELSE Store!UpdatedRow(old, s, i)
           its == Store!InsertedItems(s, i)
           after == Store!ApplySnapshot(t, s, i)
<1>1. CASE old # NoRow /\ ~Store!Accepts(old, s)
  <2>1. after = [t EXCEPT !.counts.skipped = @ + 1]
    BY <1>1 DEF Store!ApplySnapshot
  <2>2. DOMAIN after = DOMAIN t /\ after.orders = t.orders /\ after.items = t.items
    BY <2>1 DEF TablesForm
  <2> HIDE DEF after
  <2>3. TablesForm(after)
    BY <2>2 DEF TablesForm
  <2> QED
    BY <2>3 DEF after
<1>2. CASE ~(old # NoRow /\ ~Store!Accepts(old, s))
  <2>1. /\ DOMAIN after = {"orders", "items", "counts"}
        /\ after.orders = [t.orders EXCEPT ![o] = new]
        /\ after.items = [t.items EXCEPT ![o] = its]
    BY <1>2 DEF Store!ApplySnapshot, Store!ReplaceItems
  <2>2. o \in Orders => RowForm(new) /\ new.lines = s.lines /\ new.content = s.content
    <3>1. o \in Orders /\ old # NoRow => RowForm(old)
      BY DEF TablesForm
    <3> QED
      BY <3>1, RowRead
  <2>3. ItemsForm(its, s.lines) /\ AsImported(s.content)
    BY ItemsRead DEF SnapshotForm
  <2> HIDE DEF after, new, its
  <2>4. ASSUME NEW p \in Orders, after.orders[p] # NoRow
        PROVE  /\ RowForm(after.orders[p]) /\ ItemsForm(after.items[p], after.orders[p].lines)
               /\ AsImported(after.orders[p].content)
    <3>1. CASE p = o
      <4>1. after.orders[p] = new /\ after.items[p] = its
        BY <2>1, <3>1 DEF TablesForm
      <4> QED
        BY <2>2, <2>3, <3>1, <4>1
    <3>2. CASE p # o
      <4>1. after.orders[p] = t.orders[p] /\ after.items[p] = t.items[p]
        BY <2>1, <3>2 DEF TablesForm
      <4> QED
        BY <2>4, <4>1 DEF TablesForm
    <3> QED
      BY <3>1, <3>2
  <2>5. DOMAIN after.orders = Orders /\ DOMAIN after.items = Orders
    BY <2>1 DEF TablesForm
  <2>6. TablesForm(after)
    BY <2>1, <2>4, <2>5 DEF TablesForm
  <2> QED
    BY <2>6 DEF after
<1> QED
  BY <1>1, <1>2

-----------------------------------------------------------------------------
(* One step of ApplyFile, and the tables before a file and after each of   *)
(* its records.                                                            *)
Merged(t, f, i, k) ==
    IF f[k].order = NoOrder THEN t ELSE Store!ApplySnapshot(t, f[k], i)

IsRun(run, t, f, i, d) ==
    run = [k \in 0..d |-> IF k = 0 THEN t ELSE Merged(run[k - 1], f, i, k)]

LEMMA RunExists ==
    ASSUME NEW t, TablesForm(t), NEW f, FileForm(f), NEW i
    PROVE  \E run : IsRun(run, t, f, i, Len(f)) /\ \A k \in 0..Len(f) : TablesForm(run[k])
<1> DEFINE RunTo(m) == \E run : IsRun(run, t, f, i, m) /\ \A k \in 0..m : TablesForm(run[k])
           N == {m \in Nat : m <= Len(f) => RunTo(m)}
<1>1. 0 \in N
  <2>1. PICK run : run = [k \in 0..0 |-> t]
    OBVIOUS
  <2>2. IsRun(run, t, f, i, 0)
    <3>1. run = [k \in 0..0 |-> IF k = 0 THEN t ELSE Merged(run[k - 1], f, i, k)]
      BY <2>1
    <3> QED
      BY <3>1 DEF IsRun
  <2>3. \A k \in 0..0 : TablesForm(run[k])
    BY <2>1
  <2> QED
    BY <2>2, <2>3
<1>2. ASSUME NEW m \in Nat, m \in N
      PROVE  m + 1 \in N
  <2> SUFFICES ASSUME m + 1 <= Len(f) PROVE RunTo(m + 1)
    OBVIOUS
  <2>1. PICK run : IsRun(run, t, f, i, m) /\ \A k \in 0..m : TablesForm(run[k])
    BY <1>2 DEF FileForm
  <2>2. PICK more : more = [k \in 0..(m + 1) |-> IF k \in 0..m THEN run[k] ELSE Merged(run[m], f, i, m + 1)]
    OBVIOUS
  <2>3. more[m + 1] = Merged(run[m], f, i, m + 1) /\ \A k \in 0..m : more[k] = run[k]
    BY <2>2
  <2>4. ASSUME NEW k \in 0..(m + 1)
        PROVE  more[k] = IF k = 0 THEN t ELSE Merged(more[k - 1], f, i, k)
    <3>1. CASE k = m + 1
      BY <2>3, <3>1
    <3>2. CASE k = 0
      <4>1. run[0] = t
        BY <2>1 DEF IsRun
      <4> QED
        BY <2>3, <3>2, <4>1
    <3>3. CASE k # 0 /\ k # m + 1
      <4>1. k \in 0..m /\ k - 1 \in 0..m
        BY <3>3
      <4>2. run[k] = Merged(run[k - 1], f, i, k)
        BY <2>1, <3>3, <4>1 DEF IsRun
      <4> QED
        BY <2>3, <3>3, <4>1, <4>2
    <3> QED
      BY <3>1, <3>2, <3>3
  <2>5. IsRun(more, t, f, i, m + 1)
    <3>1. more = [k \in 0..(m + 1) |-> more[k]]
      BY <2>2
    <3>2. more = [k \in 0..(m + 1) |-> IF k = 0 THEN t ELSE Merged(more[k - 1], f, i, k)]
      BY <2>4, <3>1, Zenon
    <3> QED
      BY <3>2 DEF IsRun
  <2>6. TablesForm(more[m + 1])
    <3>1. SnapshotForm(f[m + 1])
      BY DEF FileForm
    <3>2. TablesForm(run[m])
      BY <2>1
    <3>3. TablesForm(Store!ApplySnapshot(run[m], f[m + 1], i))
      BY <3>1, <3>2, ApplyForm
    <3>4. TablesForm(Merged(run[m], f, i, m + 1))
      BY <3>2, <3>3 DEF Merged
    <3> QED
      BY <2>3, <3>4
  <2>7. \A k \in 0..(m + 1) : TablesForm(more[k])
    BY <2>1, <2>3, <2>6
  <2> QED
    BY <2>5, <2>7
<1>3. Len(f) \in N
  <2>1. Len(f) \in Nat
    BY DEF FileForm
  <2> HIDE DEF N
  <2> QED
    BY <1>1, <1>2, <2>1, AllNumbers
<1>4. RunTo(Len(f))
  BY <1>3
<1> QED
  BY <1>4

LEMMA SameRun ==
    ASSUME NEW t, NEW f, Len(f) \in Nat, NEW i, NEW run, NEW after,
           IsRun(run, t, f, i, Len(f)), IsRun(after, t, f, i, Len(f))
    PROVE  after[Len(f)] = run[Len(f)]
<1> DEFINE N == {k \in Nat : k <= Len(f) => after[k] = run[k]}
<1>1. 0 \in N
  BY DEF IsRun
<1>2. ASSUME NEW k \in Nat, k \in N
      PROVE  k + 1 \in N
  <2> SUFFICES ASSUME k + 1 <= Len(f) PROVE after[k + 1] = run[k + 1]
    OBVIOUS
  <2>1. after[k] = run[k] /\ k + 1 \in 0..Len(f) /\ k + 1 # 0 /\ (k + 1) - 1 = k
    BY <1>2
  <2>2. /\ after[k + 1] = Merged(after[k], f, i, k + 1)
        /\ run[k + 1] = Merged(run[k], f, i, k + 1)
    BY <2>1 DEF IsRun
  <2> QED
    BY <2>1, <2>2
<1>3. Len(f) \in N
  <2> HIDE DEF N
  <2> QED
    BY <1>1, <1>2, AllNumbers
<1> QED
  BY <1>3

(* A file that is applied to such tables leaves such tables. *)
LEMMA FileApplied ==
    ASSUME NEW t, TablesForm(t), NEW f, FileForm(f), NEW i
    PROVE  TablesForm(Store!ApplyFile(t, f, i))
<1> DEFINE after == CHOOSE g : IsRun(g, t, f, i, Len(f))
           end == Store!ApplyFile(t, f, i)
<1>1. PICK run : IsRun(run, t, f, i, Len(f)) /\ \A k \in 0..Len(f) : TablesForm(run[k])
  BY RunExists
<1>2. IsRun(after, t, f, i, Len(f))
  BY <1>1
<1>3. end = [after[Len(f)] EXCEPT !.counts.rows = Len(f)]
  BY DEF Store!ApplyFile, IsRun, Merged
<1> HIDE DEF after, end
<1>4. Len(f) \in Nat
  BY DEF FileForm
<1>5. TablesForm(after[Len(f)])
  BY <1>1, <1>2, <1>4, SameRun
<1>6. PICK last : last = after[Len(f)]
  OBVIOUS
<1>7. DOMAIN end = DOMAIN last /\ end.orders = last.orders /\ end.items = last.items
  BY <1>3, <1>5, <1>6 DEF TablesForm
<1>8. TablesForm(end)
  BY <1>5, <1>6, <1>7 DEF TablesForm
<1> QED
  BY <1>8 DEF end

-----------------------------------------------------------------------------
(* The statements of the migration. *)
LEMMA StatementsOfRows ==
    /\ Len(Steps) = 12 /\ Steps[11] = <<"paid">> /\ Steps[12] = <<"refund">>
    /\ \A k \in 1..10 : Steps[k][1] \notin {"paid", "refund"}
<1> DEFINE first == << <<"create">> >>
           alter == [k \in DOMAIN Migrating!Added |-> <<"alter", Migrating!Added[k]>>]
           last  == << <<"index">>, <<"paid">>, <<"refund">> >>
           S == {first[1], last[1], last[2], last[3]} \cup {alter[k] : k \in 1..8}
<1>1. Steps = first \o alter \o last
  BY DEF Steps, Migrating!MigrationSteps
<1>2. DOMAIN Migrating!Added = 1..8
  BY DEF Migrating!Added
<1>3. alter = [k \in 1..8 |-> alter[k]] /\ \A k \in 1..8 : alter[k][1] = "alter"
  BY <1>2
<1>4. first \in Seq(S) /\ last \in Seq(S) /\ Len(first) = 1 /\ Len(last) = 3
  OBVIOUS
<1>5. alter \in Seq(S) /\ Len(alter) = 8
  <2> HIDE DEF first, last
  <2>1. \A k \in 1..8 : alter[k] \in S
    OBVIOUS
  <2> HIDE DEF S, alter
  <2>2. alter \in [1..8 -> S]
    BY <1>3, <2>1
  <2>3. alter = [k \in 1..8 |-> alter[k]]
    BY <2>2
  <2> QED
    BY <2>1, <2>3
<1>6. last[2] = <<"paid">> /\ last[3] = <<"refund">> /\ first[1][1] = "create" /\ last[1][1] = "index"
  OBVIOUS
<1> HIDE DEF first, alter, last, S
<1>7. PICK long : long = first \o alter
  OBVIOUS
<1>8. /\ long \in Seq(S) /\ Len(long) = 9 /\ long[1] = first[1]
      /\ \A k \in 2..9 : long[k] = alter[k - 1]
  <2>1. /\ first \o alter \in Seq(S) /\ Len(first \o alter) = Len(first) + Len(alter)
        /\ \A k \in 1..Len(first) + Len(alter) :
               (first \o alter)[k] = IF k <= Len(first) THEN first[k] ELSE alter[k - Len(first)]
    BY <1>4, <1>5, ConcatProperties, Zenon
  <2>2. Len(first) + Len(alter) = 9
    BY <1>4, <1>5
  <2>3. /\ long \in Seq(S) /\ Len(long) = 9
        /\ \A k \in 1..9 : long[k] = IF k <= 1 THEN first[k] ELSE alter[k - 1]
    BY <1>4, <1>7, <2>1, <2>2, Zenon
  <2> QED
    BY <2>3
<1>9. PICK all : all = long \o last
  OBVIOUS
<1>10. /\ Len(all) = 12 /\ \A k \in 1..9 : all[k] = long[k]
       /\ all[10] = last[1] /\ all[11] = last[2] /\ all[12] = last[3]
  <2>1. /\ Len(long \o last) = Len(long) + Len(last)
        /\ \A k \in 1..Len(long) + Len(last) :
               (long \o last)[k] = IF k <= Len(long) THEN long[k] ELSE last[k - Len(long)]
    BY <1>4, <1>8, ConcatProperties, Zenon
  <2>2. Len(long) + Len(last) = 12
    BY <1>4, <1>8
  <2>3. /\ Len(all) = 12
        /\ \A k \in 1..12 : all[k] = IF k <= 9 THEN long[k] ELSE last[k - 9]
    BY <1>8, <1>9, <2>1, <2>2, Zenon
  <2> QED
    BY <2>3
<1>11. Steps = all
  BY <1>1, <1>7, <1>9
<1>12. ASSUME NEW k \in 1..10
       PROVE  all[k][1] \notin {"paid", "refund"}
  <2>1. CASE k = 1
    BY <1>6, <1>8, <1>10, <2>1
  <2>2. CASE k = 10
    BY <1>6, <1>10, <2>2
  <2>3. CASE k # 1 /\ k # 10
    <3>1. k \in 2..9 /\ k \in 1..9 /\ k - 1 \in 1..8
      BY <2>3
    <3>2. all[k] = alter[k - 1]
      BY <1>8, <1>10, <3>1
    <3> QED
      BY <1>3, <3>1, <3>2
  <2> QED
    BY <2>1, <2>2, <2>3
<1> QED
  BY <1>6, <1>10, <1>11, <1>12

(* What the words of a status map to.                                      *)
LEMMA MappedStatuses ==
    /\ \A x \in DOMAIN Reader!statusMap :
          Reader!statusMap[x] \in Metrics!funnelOrder /\ Reader!statusMap[x] # "canceled"
    /\ "oplachen" \in DOMAIN Reader!statusMap /\ Reader!statusMap["oplachen"] = "paid"
<1> DEFINE Staged(f) == \A x \in DOMAIN f : f[x] \in Metrics!funnelOrder \ {"canceled"}
           Pays(f) == "oplachen" \in DOMAIN f /\ f["oplachen"] = "paid"
           m == Reader!statusMap
<1>1. ASSUME NEW f, NEW g, Staged(f), Staged(g)
      PROVE  Staged(Reader!++(f, g))
  BY <1>1 DEF Reader!++
<1>2. ASSUME NEW f, NEW g, Pays(f)
      PROVE  Pays(Reader!++(f, g))
  BY <1>2 DEF Reader!++
<1>3. PICK a, b, c, d, e, f, g, h :
          /\ a = [s \in {"ne podtverzhden"} |-> "new"] /\ b = [s \in {"oplachen"} |-> "paid"]
          /\ c = [s \in {"prinyat", "obrabotan", "ozhidaet otpravku", "sobiraetsya"} |-> "processing"]
          /\ d = [s \in {"otpravlen"} |-> "shipped"] /\ e = [s \in {"pribyl v pvz"} |-> "in_pvz"]
          /\ f = [s \in {"vypolnen"} |-> "completed"] /\ g = [s \in {"zakryt"} |-> "closed"]
          /\ h = [s \in {"vozvrat zakaza", "sovershyon chastichnyy vozvrat sredstv",
                         "sovershen chastichnyy vozvrat sredstv", "sovershyon vozvrat sredstv",
                         "sovershen vozvrat sredstv"} |-> "returned"]
  BY Zenon
<1>4. /\ Staged(a) /\ Staged(b) /\ Staged(c) /\ Staged(d)
      /\ Staged(e) /\ Staged(f) /\ Staged(g) /\ Staged(h)
  BY <1>3 DEF Metrics!funnelOrder
<1>5. PICK p, q, r, s, t, u, v :
          /\ p = Reader!++(a, b) /\ q = Reader!++(p, c) /\ r = Reader!++(q, d) /\ s = Reader!++(r, e)
          /\ t = Reader!++(s, f) /\ u = Reader!++(t, g) /\ v = Reader!++(u, h)
  OBVIOUS
<1>6. m = v
  BY <1>3, <1>5, Zenon DEF Reader!statusMap
<1>7. Pays(p)
  BY <1>3, <1>5 DEF Reader!++
<1> HIDE DEF Staged, Pays, m
<1>8. Staged(p) /\ Staged(q) /\ Staged(r) /\ Staged(s) /\ Staged(t) /\ Staged(u) /\ Staged(v)
  BY <1>1, <1>4, <1>5, Zenon
<1>9. Pays(q) /\ Pays(r) /\ Pays(s) /\ Pays(t) /\ Pays(u) /\ Pays(v)
  BY <1>2, <1>5, <1>7, Zenon
<1>10. Staged(m) /\ Pays(m)
  BY <1>6, <1>8, <1>9
<1> QED
  BY <1>10 DEF Staged, Pays, m

(* All statuses have a stage of the funnel, "oplachen" is "paid", and what *)
(* is canceled is in the stage of that name alone.                         *)
LEMMA OnlyCanceled ==
    ASSUME NEW raw, NEW canceled
    PROVE  canceled <=> Reader!StatusStage(raw, canceled) = "canceled"
<1>1. CASE canceled
  BY <1>1, Zenon DEF Reader!StatusStage
<1>2. CASE ~canceled
  <2>1. Reader!StatusStage(raw, canceled)
           = IF raw \in DOMAIN Reader!statusMap THEN Reader!statusMap[raw] ELSE "other"
    BY <1>2, Zenon DEF Reader!StatusStage
  <2> QED
    BY <1>2, <2>1, MappedStatuses
<1> QED
  BY <1>1, <1>2

LEMMA StagesOfStatuses ==
    /\ \A canceled : ~canceled => Reader!StatusStage("oplachen", canceled) = "paid"
    /\ \A s, canceled : Reader!StatusStage(s, canceled) \in Metrics!funnelOrder \cup {"other"}
  BY MappedStatuses DEF Reader!StatusStage, Metrics!funnelOrder

-----------------------------------------------------------------------------
(* A server that serves has only rows as imports of today store them.      *)
LEMMA ServedAsImported ==
    ASSUME NEW c, Awaits(c, boot), Serving, boot \in 1..Len(Steps) + 1
    PROVE  AsImported(c)
<1>1. ~(boot < Len(Steps)) /\ ~(boot <= Len(Steps))
  BY StatementsOfRows DEF Serving
<1> QED
  BY <1>1 DEF AsImported, Awaits

(* What an earlier version stored of the same row. *)
LEMMA OldForm ==
    ASSUME NEW c, ContentForm(c), AsImported(c)
    PROVE  LET old == OldContent(c)
           IN  /\ ContentForm(old)
               /\ \/ old.stage = Reader!StatusStage(old.statusRaw, old.canceled)
                  \/ old.statusRaw = "oplachen" /\ ~old.canceled /\ old.stage = "processing"
               /\ old.refund = 0
<1> DEFINE old == OldContent(c)
<1>1. /\ DOMAIN old = DOMAIN c /\ old.statusRaw = c.statusRaw /\ old.canceled = c.canceled
      /\ old.total = c.total /\ old.refund = 0 /\ old.deliveryCost = c.deliveryCost
      /\ old.stage = IF c.statusRaw = "oplachen" /\ ~c.canceled THEN "processing" ELSE c.stage
  BY DEF OldContent, ContentForm
<1> HIDE DEF old
<1>2. ContentForm(old)
  BY <1>1 DEF ContentForm
<1>3. \/ old.stage = Reader!StatusStage(old.statusRaw, old.canceled)
      \/ old.statusRaw = "oplachen" /\ ~old.canceled /\ old.stage = "processing"
  BY <1>1 DEF AsImported
<1>4. /\ ContentForm(old)
      /\ \/ old.stage = Reader!StatusStage(old.statusRaw, old.canceled)
         \/ old.statusRaw = "oplachen" /\ ~old.canceled /\ old.stage = "processing"
      /\ old.refund = 0
  BY <1>1, <1>2, <1>3
<1> QED
  BY <1>4 DEF old

LEMMA RowsStart == Init => RowsInv
<1> SUFFICES ASSUME Init PROVE RowsInv
  OBVIOUS
<1>1. PICK legacy \in Legacies : orders = OldTables(legacy).orders /\ items = OldTables(legacy).items
  BY DEF Init
<1>2. boot = 1 /\ Len(Steps) = 12 /\ boot < Len(Steps) /\ boot <= Len(Steps) /\ boot \in 1..Len(Steps) + 1
  BY StatementsOfRows DEF Init
<1>3. TablesForm(NoTables)
  BY DEF NoTables, TablesForm
<1>4. CASE legacy = "none"
  <2>1. orders = NoTables.orders /\ items = NoTables.items
    BY <1>1, <1>4 DEF OldTables
  <2>2. DOMAIN orders = Orders /\ DOMAIN items = Orders /\ \A o \in Orders : orders[o] = NoRow
    BY <2>1 DEF NoTables
  <2> QED
    BY <1>2, <2>2 DEF RowsInv
<1>5. CASE legacy # "none"
  <2> DEFINE t == Store!ApplyFile(NoTables, Mapped[legacy], LegacyImport)
  <2>1. legacy \in DOMAIN Documents
    BY <1>5, DashboardAssumption
  <2>2. FileForm(Mapped[legacy])
    BY <2>1, ExportForm
  <2>3. TablesForm(t)
    BY <1>3, <2>2, FileApplied
  <2>4. OldTables(legacy) =
            [t EXCEPT !.orders = [o \in Orders |->
                IF t.orders[o] = NoRow THEN NoRow
                ELSE [t.orders[o] EXCEPT !.content = OldContent(t.orders[o].content)]]]
    BY <1>5 DEF OldTables
  <2> HIDE DEF t
  <2>5. /\ items = t.items
        /\ orders = [o \in Orders |->
              IF t.orders[o] = NoRow THEN NoRow
              ELSE [t.orders[o] EXCEPT !.content = OldContent(t.orders[o].content)]]
    BY <1>1, <2>3, <2>4 DEF TablesForm
  <2>6. ASSUME NEW o \in Orders, orders[o] # NoRow
        PROVE  /\ RowForm(orders[o]) /\ ItemsForm(items[o], orders[o].lines)
               /\ Awaits(orders[o].content, boot)
    <3>1. PICK row, old : row = t.orders[o] /\ old = OldContent(row.content)
      OBVIOUS
    <3>2. row # NoRow /\ orders[o] = [row EXCEPT !.content = old]
      BY <2>5, <2>6, <3>1
    <3>3. RowForm(row) /\ AsImported(row.content) /\ ItemsForm(t.items[o], row.lines)
      BY <2>3, <3>1, <3>2 DEF TablesForm
    <3>4. /\ ContentForm(old) /\ old.refund = 0
          /\ \/ old.stage = Reader!StatusStage(old.statusRaw, old.canceled)
             \/ old.statusRaw = "oplachen" /\ ~old.canceled /\ old.stage = "processing"
      BY <3>1, <3>3, OldForm DEF RowForm
    <3>5. RowForm(orders[o]) /\ orders[o].lines = row.lines /\ orders[o].content = old
      BY <3>2, <3>3, <3>4 DEF RowForm
    <3>6. Awaits(old, boot)
      BY <1>2, <3>4 DEF Awaits
    <3> QED
      BY <2>5, <3>3, <3>5, <3>6
  <2>7. DOMAIN orders = Orders /\ DOMAIN items = Orders
    BY <2>3, <2>5 DEF TablesForm
  <2> QED
    BY <1>2, <2>6, <2>7 DEF RowsInv
<1> QED
  BY <1>4, <1>5

-----------------------------------------------------------------------------
(* One statement of the migration. *)
LEMMA RowsMigrate ==
    ASSUME RowsInv, MigrationStep
    PROVE  RowsInv'
<1>1. /\ orders' = Migrating!RowsAfter(Steps[boot], orders) /\ items' = items
      /\ boot' = boot + 1 /\ boot \in 1..Len(Steps)
  BY DEF MigrationStep, RowsInv, Serving
<1>2. Len(Steps) = 12 /\ Steps[11] = <<"paid">> /\ Steps[12] = <<"refund">>
      /\ \A k \in 1..10 : Steps[k][1] \notin {"paid", "refund"}
  BY StatementsOfRows
<1>3. boot \in 1..12 /\ boot' \in 2..13 /\ DOMAIN orders = Orders /\ DOMAIN items = Orders
  BY <1>1, <1>2 DEF RowsInv
<1>4. /\ boot' < Len(Steps) <=> boot < 11
      /\ boot' <= Len(Steps) <=> boot < 12
      /\ boot < Len(Steps) <=> boot < 12
      /\ boot <= Len(Steps)
  BY <1>1, <1>2, <1>3
<1>5. ASSUME NEW o \in Orders, orders[o] = NoRow
      PROVE  orders'[o] = NoRow
  <2>1. Migrating!PaidStatus(orders)[o] = NoRow /\ Migrating!FullRefund(orders)[o] = NoRow
    BY <1>3, <1>5 DEF Migrating!PaidStatus, Migrating!FullRefund, Migrating!Updated
  <2> QED
    BY <1>1, <1>5, <2>1 DEF Migrating!RowsAfter
<1>6. DOMAIN orders' = Orders
  <2>1. DOMAIN Migrating!PaidStatus(orders) = Orders /\ DOMAIN Migrating!FullRefund(orders) = Orders
    BY <1>3 DEF Migrating!PaidStatus, Migrating!FullRefund, Migrating!Updated
  <2> QED
    BY <1>1, <1>3, <2>1 DEF Migrating!RowsAfter
<1>7. ASSUME NEW o \in Orders, orders[o] # NoRow
      PROVE  /\ RowForm(orders'[o]) /\ orders'[o].lines = orders[o].lines
             /\ Awaits(orders'[o].content, boot')
  <2>1. PICK row, c : row = orders[o] /\ c = row.content
    OBVIOUS
  <2>2. RowForm(row) /\ ContentForm(c) /\ Awaits(c, boot)
    BY <1>7, <2>1 DEF RowsInv, RowForm
  <2>3. CASE boot < 11
    <3>1. orders' = orders
      BY <1>1, <1>2, <1>3, <2>3 DEF Migrating!RowsAfter
    <3>2. Awaits(c, boot')
      BY <1>3, <1>4, <2>2, <2>3 DEF Awaits
    <3> QED
      BY <2>1, <2>2, <3>1, <3>2
  <2>4. CASE boot = 11
    <3>1. orders' = Migrating!PaidStatus(orders)
      BY <1>1, <1>2, <2>4 DEF Migrating!RowsAfter
    <3>2. CASE c.statusRaw = "oplachen" /\ ~c.canceled
      <4>1. PICK new : new = [c EXCEPT !.stage = "paid"]
        OBVIOUS
      <4>2. orders'[o] = [row EXCEPT !.content = new]
        BY <1>3, <1>7, <2>1, <3>1, <3>2, <4>1 DEF Migrating!PaidStatus, Migrating!Updated
      <4>3. /\ DOMAIN new = DOMAIN c /\ new.deliveryCost = c.deliveryCost
            /\ new.stage = "paid" /\ new.total = c.total
            /\ new.refund = c.refund /\ new.statusRaw = c.statusRaw /\ new.canceled = c.canceled
        BY <2>2, <4>1 DEF ContentForm
      <4>4. ContentForm(new) /\ Awaits(new, boot')
        BY <1>4, <2>2, <3>2, <4>3, StagesOfStatuses DEF ContentForm, Awaits
      <4>5. DOMAIN row = {"created", "updated", "content", "lines", "import"}
        BY <2>2 DEF RowForm
      <4>6. orders'[o].content = new /\ orders'[o].lines = row.lines
        BY <4>2, <4>5
      <4>7. RowForm(orders'[o])
        BY <2>2, <4>2, <4>4 DEF RowForm
      <4> QED
        BY <2>1, <4>4, <4>6, <4>7
    <3>3. CASE ~(c.statusRaw = "oplachen" /\ ~c.canceled)
      <4>1. orders'[o] = row
        BY <1>3, <1>7, <2>1, <3>1, <3>3 DEF Migrating!PaidStatus, Migrating!Updated
      <4>2. Awaits(c, boot')
        BY <1>4, <2>2, <2>4, <3>3 DEF Awaits
      <4> QED
        BY <2>1, <2>2, <4>1, <4>2
    <3> QED
      BY <3>2, <3>3
  <2>5. CASE boot = 12
    <3>1. orders' = Migrating!FullRefund(orders)
      BY <1>1, <1>2, <2>5 DEF Migrating!RowsAfter
    <3>2. c.stage = Reader!StatusStage(c.statusRaw, c.canceled)
      BY <1>4, <2>2, <2>5 DEF Awaits
    <3>3. CASE c.stage = "returned" /\ c.statusRaw \in Migrating!FullReturn /\ c.refund = 0
      <4>1. PICK new : new = [c EXCEPT !.refund = c.total]
        OBVIOUS
      <4>2. orders'[o] = [row EXCEPT !.content = new]
        BY <1>3, <1>7, <2>1, <3>1, <3>3, <4>1 DEF Migrating!FullRefund, Migrating!Updated
      <4>3. /\ DOMAIN new = DOMAIN c /\ new.deliveryCost = c.deliveryCost
            /\ new.stage = c.stage /\ new.total = c.total
            /\ new.refund = c.total /\ new.statusRaw = c.statusRaw /\ new.canceled = c.canceled
        BY <2>2, <4>1 DEF ContentForm
      <4>4. ContentForm(new) /\ Awaits(new, boot')
        BY <1>4, <2>2, <3>2, <4>3 DEF ContentForm, Awaits
      <4>5. DOMAIN row = {"created", "updated", "content", "lines", "import"}
        BY <2>2 DEF RowForm
      <4>6. orders'[o].content = new /\ orders'[o].lines = row.lines
        BY <4>2, <4>5
      <4>7. RowForm(orders'[o])
        BY <2>2, <4>2, <4>4 DEF RowForm
      <4> QED
        BY <2>1, <4>4, <4>6, <4>7
    <3>4. CASE ~(c.stage = "returned" /\ c.statusRaw \in Migrating!FullReturn /\ c.refund = 0)
      <4>1. orders'[o] = row
        BY <1>3, <1>7, <2>1, <3>1, <3>4 DEF Migrating!FullRefund, Migrating!Updated
      <4>2. Awaits(c, boot')
        BY <1>4, <2>2, <3>2, <3>4 DEF Awaits
      <4> QED
        BY <2>1, <2>2, <4>1, <4>2
    <3> QED
      BY <3>3, <3>4
  <2> QED
    BY <1>3, <2>3, <2>4, <2>5
<1>8. ASSUME NEW o \in Orders, orders'[o] # NoRow
      PROVE  /\ RowForm(orders'[o]) /\ ItemsForm(items'[o], orders'[o].lines)
             /\ Awaits(orders'[o].content, boot')
  BY <1>1, <1>5, <1>7, <1>8 DEF RowsInv
<1> QED
  BY <1>1, <1>3, <1>4, <1>6, <1>8 DEF RowsInv

(* One import, as a server that serves accepts them. *)
LEMMA RowsImport ==
    ASSUME RowsInv, NEW i, NEW d \in DOMAIN Documents, ImportDocument(i, d)
    PROVE  RowsInv'
<1>1. PICK t, after : t = Store!Tables /\ after = Store!ApplyFile(t, Mapped[d], i)
  OBVIOUS
<1>2. Serving /\ orders' = after.orders /\ items' = after.items /\ boot' = boot
  BY <1>1 DEF ImportDocument, Store!ImportFile, bootVars
<1>3. DOMAIN t = {"orders", "items", "counts"} /\ t.orders = orders /\ t.items = items
  BY <1>1 DEF Store!Tables
<1>4. ASSUME NEW o \in Orders, orders[o] # NoRow
      PROVE  AsImported(orders[o].content)
  BY <1>2, <1>4, ServedAsImported DEF RowsInv
<1>5. TablesForm(t)
  BY <1>3, <1>4 DEF TablesForm, RowsInv
<1>6. TablesForm(after)
  BY <1>1, <1>5, ExportForm, FileApplied
<1>7. ASSUME NEW o \in Orders, orders'[o] # NoRow
      PROVE  /\ RowForm(orders'[o]) /\ ItemsForm(items'[o], orders'[o].lines)
             /\ Awaits(orders'[o].content, boot')
  <2>1. /\ RowForm(orders'[o]) /\ ItemsForm(items'[o], orders'[o].lines)
        /\ AsImported(orders'[o].content)
    BY <1>2, <1>6, <1>7 DEF TablesForm
  <2>2. Awaits(orders'[o].content, boot')
    BY <2>1 DEF AsImported, Awaits
  <2> QED
    BY <2>1, <2>2
<1> QED
  BY <1>2, <1>6, <1>7 DEF RowsInv, TablesForm, Steps

(* No other step changes a row or serves before the migration is done.     *)
LEMMA RowsStay ==
    ASSUME RowsInv, UNCHANGED <<orders, items, boot>>
    PROVE  RowsInv'
  BY DEF RowsInv

LEMMA RowsRestart ==
    ASSUME RowsInv, Stop
    PROVE  RowsInv'
<1>1. boot' = 1 /\ orders' = orders /\ items' = items /\ Len(Steps) = 12
  BY StatementsOfRows DEF Stop, tables
<1>2. ASSUME NEW c, Awaits(c, boot)
      PROVE  Awaits(c, boot')
  BY <1>1, <1>2 DEF Awaits, RowsInv
<1> QED
  BY <1>1, <1>2 DEF RowsInv

LEMMA RowsNext == RowsInv /\ [Next]_vars => RowsInv'
<1> SUFFICES ASSUME RowsInv, [Next]_vars PROVE RowsInv'
  OBVIOUS
<1>1. CASE MigrationStep
  BY <1>1, RowsMigrate
<1>2. CASE Stop
  BY <1>2, RowsRestart
<1>3. ASSUME NEW i \in Imports, NEW d \in DOMAIN Documents, ImportDocument(i, d)
      PROVE  RowsInv'
  BY <1>3, RowsImport
<1>4. CASE UNCHANGED <<orders, items, boot>>
  BY <1>4, RowsStay
<1>5. /\ \A b \in Batches : SyncTraffic(b) => UNCHANGED <<orders, items, boot>>
      /\ EcomStep => UNCHANGED <<orders, items, boot>>
      /\ \A edit \in PlanEdits : PutPlan(edit) => UNCHANGED <<orders, items, boot>>
      /\ \A edit \in TrafficEdits : PutTraffic(edit) => UNCHANGED <<orders, items, boot>>
  BY DEF SyncTraffic, EcomStep, PutPlan, PutTraffic, tables, bootVars
<1>6. Open \/ Query \/ Respond \/ QueryFails => UNCHANGED <<orders, items, boot>>
  BY DEF Open, Query, Respond, QueryFails, Frame, tables, bootVars
<1>7. /\ \A year, month : PageLoads(year, month) => UNCHANGED <<orders, items, boot>>
      /\ \A total : PageSaves(total) => UNCHANGED <<orders, items, boot>>
      /\ SaveCommits \/ LostCommits \/ SaveReads \/ SaveAnswers \/ SaveFails =>
             UNCHANGED <<orders, items, boot>>
  BY DEF PageLoads, PageSaves, SaveCommits, LostCommits, SaveReads, SaveAnswers,
     SaveFails, Frame, tables, bootVars
<1>8. CASE UNCHANGED vars
  BY <1>4, <1>8 DEF vars, tables, bootVars
<1> QED
  BY <1>1, <1>2, <1>3, <1>4, <1>5, <1>6, <1>7, <1>8 DEF Next

LEMMA RowsMigrated == RowsInv => MigratedLikeImported
<1> SUFFICES ASSUME RowsInv, Serving, NEW o \in Stored(db) PROVE AsImported(Content(db, o))
  BY DEF MigratedLikeImported, AsImported
<1>1. o \in Orders /\ orders[o] # NoRow /\ Content(db, o) = orders[o].content
  BY DEF Stored, Content, db, RowsInv
<1> QED
  BY <1>1, ServedAsImported DEF RowsInv

(* Once it serves, the rows of an earlier version are as an import of      *)
(* today would store them, whatever exports it had and however often the   *)
(* migration was broken off (migrate.go).                                  *)
THEOREM RowsAreMigrated == Spec => []MigratedLikeImported
<1>1. Spec => []RowsInv
  BY RowsStart, RowsNext, PTL DEF Spec
<1> QED
  BY <1>1, RowsMigrated, PTL

-----------------------------------------------------------------------------
(* What the syncs and the editors store. *)
LEMMA SyncStart == Init => SyncInv
<1> SUFFICES ASSUME Init PROVE SyncInv
  OBVIOUS
<1>1. /\ restarts = 0 /\ clock = 1 /\ days = {} /\ shop = {} /\ runs = <<>> /\ ecom = Ecom!Idle
      /\ plan = <<>> /\ manual = <<>> /\ request = Closed
  BY Zenon DEF Init, Ecom!EcomInit
<1>2. restarts \in 0..MaxRestarts
  BY <1>1, SyncAssumption
<1>3. EcomForm
  BY <1>1 DEF EcomForm, Ecom!Idle
<1>4. runs \in Seq(Run)
  BY <1>1
<1>5. request.torn \in BOOLEAN
  BY <1>1 DEF Closed
<1>6. DOMAIN plan = {} /\ DOMAIN manual = {}
  BY <1>1
<1> QED
  BY <1>1, <1>2, <1>3, <1>4, <1>5, <1>6 DEF SyncInv

(* The step leaves what is stored beside the import alone. *)
SyncIdle == UNCHANGED <<days, shop, runs, ecom, plan, manual, clock>>

LEMMA SyncStays ==
    ASSUME SyncInv, SyncIdle, restarts' \in 0..MaxRestarts, request'.torn \in BOOLEAN
    PROVE  SyncInv'
<1>1. EcomForm'
  BY DEF SyncInv, SyncIdle, EcomForm
<1> QED
  BY <1>1 DEF SyncInv, SyncIdle

LEMMA WrittenForm ==
    ASSUME PageForm, SyncInv, NEW written, Written(written)
    PROVE  request'.torn \in BOOLEAN
<1>1. PICK more : more = (Reading(written) /\ DOMAIN request.got # {})
  OBVIOUS
<1>2. request' = [request EXCEPT !.torn = request.torn \/ more]
  BY <1>1, Zenon DEF Written
<1>3. request'.torn = (request.torn \/ more)
  BY <1>2 DEF PageForm
<1> QED
  BY <1>3, Zenon DEF SyncInv

LEMMA SyncedForm ==
    ASSUME NEW b \in Batches, NEW x \in SyncedRows(b)
    PROVE  x.day \in Nat \ {NoDay} /\ x.channel \in Goal!Channels
<1>1. \E d \in b.from..b.to : \E more :
          x = [day |-> d, channel |-> b.channel, source |-> b.source, synced |-> clock] ++ more
  BY DEF SyncedRows
<1>2. PICK d \in b.from..b.to : \E row, more :
          /\ row = [day |-> d, channel |-> b.channel, source |-> b.source, synced |-> clock]
          /\ x = row ++ more
  BY <1>1
<1>3. PICK row, more :
          /\ row = [day |-> d, channel |-> b.channel, source |-> b.source, synced |-> clock]
          /\ x = row ++ more
  BY <1>2
<1>4. {"day", "channel"} \subseteq DOMAIN row /\ row.day = d /\ row.channel = b.channel
  BY <1>3
<1>5. x.day = d /\ x.channel = b.channel
  BY <1>4, <1>3 DEF ++
<1>6. b.from \in Nat \ {NoDay} /\ b.to \in Nat /\ b.channel \in {"site", "app"}
  BY SyncAssumption
<1> QED
  BY <1>5, <1>6 DEF NoDay, Goal!Channels

LEMMA SyncTrafficForm ==
    ASSUME PageForm, SyncInv, NEW b \in Batches, SyncTraffic(b)
    PROVE  SyncInv'
<1>1. /\ days' \subseteq days \cup SyncedRows(b)
      /\ clock' = clock + 1 /\ UNCHANGED <<shop, ecom, plan, manual, restarts>>
  BY DEF SyncTraffic, ecomVars, pageVars, bootVars
<1>2. request'.torn \in BOOLEAN
  BY WrittenForm DEF SyncTraffic
<1>3. \A d \in days' \cup shop' : d.day \in Nat \ {NoDay} /\ d.channel \in Goal!Channels
  BY <1>1, SyncedForm DEF SyncInv
<1>4. runs' \in Seq(Run)
  <2>1. PICK row : row = [source |-> b.source, from |-> b.from, to |-> b.to, status |-> "success"]
    OBVIOUS
  <2>2. row \in Run
    BY <2>1, DashboardAssumption, SyncAssumption DEF Run
  <2>3. runs' = Append(runs, row) /\ runs \in Seq(Run)
    BY <2>1 DEF SyncTraffic, SyncInv
  <2> QED
    BY <2>2, <2>3
<1>5. EcomForm'
  BY <1>1 DEF SyncInv, EcomForm
<1>6. \A k \in DOMAIN manual' : k[1] \in Years /\ manual'[k].updated \in 0..clock' - 1
  BY <1>1 DEF SyncInv
<1> QED
  BY <1>1, <1>2, <1>3, <1>4, <1>5, <1>6 DEF SyncInv

(* A sync of e-commerce steps. *)
LEMMA FirstDayForm ==
    ASSUME NEW s
    PROVE  Ecom!FirstDay(s) \in Nat \ {NoDay} /\ Ecom!Yesterday \in Int
<1>1. /\ Today \in Nat /\ Lookback \in Nat /\ Backfill \in Nat
      /\ Lookback < Today /\ Backfill < Today
  BY SyncAssumption, CalendarAssumption
<1>2. /\ Ecom!Yesterday - (Lookback - 1) \in Nat \ {0}
      /\ Ecom!Yesterday - (Backfill - 1) \in Nat \ {0}
      /\ Ecom!Yesterday \in Int
  BY <1>1 DEF Ecom!Yesterday
<1> QED
  BY <1>2, Zenon DEF Ecom!FirstDay, NoDay

LEMMA CompleteForm ==
    ASSUME NEW s \in Range(EcomSources), NEW from \in Nat \ {NoDay}, NEW x \in Ecom!completeDays(s, from)
    PROVE  x.day \in Nat \ {NoDay} /\ x.channel \in Goal!Channels
<1>1. \E d \in from..Ecom!Yesterday : \E more :
          x = Ecom!++([day |-> d, channel |-> ChannelOf[s], source |-> s], more)
  BY DEF Ecom!completeDays
<1>2. PICK d \in from..Ecom!Yesterday : \E row, more :
          row = [day |-> d, channel |-> ChannelOf[s], source |-> s] /\ x = Ecom!++(row, more)
  BY <1>1
<1>3. PICK row, more :
          row = [day |-> d, channel |-> ChannelOf[s], source |-> s] /\ x = Ecom!++(row, more)
  BY <1>2
<1>4. {"day", "channel"} \subseteq DOMAIN row /\ row.day = d /\ row.channel = ChannelOf[s]
  BY <1>3
<1>5. x.day = d /\ x.channel = ChannelOf[s]
  BY <1>3, <1>4 DEF Ecom!++
<1>6. ChannelOf[s] \in {"site", "app"} /\ Ecom!Yesterday \in Int
  BY SyncAssumption, FirstDayForm
<1> QED
  BY <1>5, <1>6 DEF NoDay, Goal!Channels

(* Where a sync goes on. *)
LEMMA NextSourceForm ==
    ASSUME EcomForm, ecom.todo # <<>>, Ecom!NextSource
    PROVE  EcomForm'
<1>1. ecom' = [ecom EXCEPT !.pc = "start", !.todo = Tail(ecom.todo), !.failed = FALSE]
  BY DEF Ecom!NextSource
<1>2. DOMAIN ecom' = DOMAIN ecom /\ ecom'.pc = "start" /\ ecom'.todo = Tail(ecom.todo)
  BY <1>1 DEF EcomForm
<1>3. Tail(ecom.todo) \in Seq(Range(EcomSources))
  BY DEF EcomForm
<1> QED
  BY <1>2, <1>3 DEF EcomForm

LEMMA EcomSyncForm ==
    ASSUME SyncInv, Ecom!Sync
    PROVE  /\ \A d \in shop' : d.day \in Nat \ {NoDay} /\ d.channel \in Goal!Channels
           /\ runs' \in Seq(Run) /\ EcomForm'
<1> DEFINE Good == /\ \A d \in shop' : d.day \in Nat \ {NoDay} /\ d.channel \in Goal!Channels
                   /\ runs' \in Seq(Run) /\ EcomForm'
<1>1. /\ \A d \in shop : d.day \in Nat \ {NoDay} /\ d.channel \in Goal!Channels
      /\ runs \in Seq(Run) /\ EcomForm
  BY DEF SyncInv
<1>2. CASE Ecom!BeginSync
  <2>1. ecom' = [ecom EXCEPT !.pc = "start", !.todo = EcomSources] /\ UNCHANGED <<shop, runs>>
    BY <1>2 DEF Ecom!BeginSync
  <2>2. EcomForm'
    BY <1>1, <2>1, SyncAssumption DEF EcomForm
  <2> QED
    BY <1>1, <2>1, <2>2
<1>3. CASE Ecom!StartRun
  <2>1. PICK s, row, first :
          /\ s = Head(ecom.todo) /\ first = Ecom!FirstDay(s)
          /\ row = [source |-> s, from |-> first, to |-> Ecom!Yesterday, status |-> "running"]
    OBVIOUS
  <2>2. /\ runs' = Append(runs, row) /\ shop' = shop /\ ecom.todo # <<>>
        /\ ecom' = [ecom EXCEPT !.pc = "fetch", !.from = first, !.run = Len(runs) + 1]
    BY <1>3, <2>1 DEF Ecom!StartRun, Ecom!Source, Ecom!Working
  <2>3. s \in Range(EcomSources) /\ first \in Nat \ {NoDay} /\ first \in Int /\ Ecom!Yesterday \in Int
    BY <1>1, <2>1, <2>2, FirstDayForm DEF EcomForm
  <2>4. row \in Run
    BY <2>1, <2>3 DEF Run
  <2>5. runs' \in Seq(Run)
    BY <1>1, <2>2, <2>4
  <2>6. EcomForm'
    BY <1>1, <2>2, <2>3 DEF EcomForm
  <2> QED
    BY <1>1, <2>2, <2>5, <2>6
<1>4. CASE Ecom!SkipSource
  <2>1. UNCHANGED <<shop, runs>> /\ ecom.todo # <<>> /\ Ecom!NextSource
    BY <1>4 DEF Ecom!SkipSource, Ecom!Working
  <2> QED
    BY <1>1, <2>1, NextSourceForm
<1>5. CASE Ecom!Store
  <2>1. ecom.todo # <<>> /\ ecom.from \in Nat \ {NoDay} /\ Head(ecom.todo) \in Range(EcomSources)
    <3>1. ecom.pc = "fetch"
      BY <1>5, Zenon DEF Ecom!Store
    <3>2. ecom.todo # <<>> /\ ecom.from \in Nat \ {NoDay} /\ ecom.todo \in Seq(Range(EcomSources))
      BY <1>1, <3>1 DEF EcomForm
    <3> QED
      BY <3>2
  <2>2. PICK pc \in {"revision", "finish"} : ecom' = [ecom EXCEPT !.pc = pc]
    BY <1>5, Zenon DEF Ecom!Store
  <2>3. EcomForm'
    BY <1>1, <2>1, <2>2 DEF EcomForm
  <2>4. runs' = runs /\ shop' \subseteq shop \cup Ecom!completeDays(Head(ecom.todo), ecom.from)
    BY <1>5, Zenon DEF Ecom!Store, Ecom!Source
  <2>5. \A d \in shop' : d.day \in Nat \ {NoDay} /\ d.channel \in Goal!Channels
    BY <1>1, <2>1, <2>4, CompleteForm
  <2> QED
    BY <1>1, <2>3, <2>4, <2>5
<1>6. CASE Ecom!setSourceRevision \/ Ecom!SourceFails
  <2>1. /\ UNCHANGED <<shop, runs>> /\ ecom.pc \in {"fetch", "revision"}
        /\ ecom' = [ecom EXCEPT !.pc = "finish"] \/ ecom' = [ecom EXCEPT !.pc = "finish", !.failed = TRUE]
    BY <1>6 DEF Ecom!setSourceRevision, Ecom!SourceFails
  <2>2. EcomForm'
    BY <1>1, <2>1 DEF EcomForm
  <2> QED
    BY <1>1, <2>1, <2>2
<1>7. CASE Ecom!finishRun
  <2>1. ecom.todo # <<>> /\ shop' = shop /\ Ecom!NextSource
    BY <1>1, <1>7 DEF Ecom!finishRun, EcomForm
  <2> DEFINE r == ecom.run
  <2>2. PICK status \in {"error", "success"} : runs' = [runs EXCEPT ![r].status = status]
    BY <1>7, Zenon DEF Ecom!finishRun
  <2>3. runs' \in Seq(Run)
    <3>1. CASE r \in DOMAIN runs
      <4>1. runs[r] \in Run
        BY <1>1, <3>1
      <4>2. [runs[r] EXCEPT !.status = status] \in Run
        BY <4>1 DEF Run
      <4> QED
        BY <1>1, <2>2, <3>1, <4>2
    <3>2. CASE r \notin DOMAIN runs
      <4>1. runs' = runs
        BY <1>1, <2>2, <3>2
      <4> QED
        BY <1>1, <4>1
    <3> QED
      BY <3>1, <3>2
  <2> QED
    BY <1>1, <2>1, <2>3, NextSourceForm
<1>8. CASE Ecom!FinishFails
  <2>1. UNCHANGED <<shop, runs>> /\ ecom.todo # <<>> /\ Ecom!NextSource
    BY <1>1, <1>8 DEF Ecom!FinishFails, EcomForm
  <2> QED
    BY <1>1, <2>1, NextSourceForm
<1>9. CASE Ecom!EndSync
  <2>1. ecom' = Ecom!Idle /\ UNCHANGED <<shop, runs>>
    BY <1>9 DEF Ecom!EndSync
  <2>2. EcomForm'
    BY <2>1 DEF EcomForm, Ecom!Idle
  <2> QED
    BY <1>1, <2>1, <2>2
<1> QED
  BY <1>2, <1>3, <1>4, <1>5, <1>6, <1>7, <1>8, <1>9 DEF Ecom!Sync

LEMMA EcomStepForm ==
    ASSUME PageForm, SyncInv, EcomStep
    PROVE  SyncInv'
<1>1. Ecom!Sync /\ UNCHANGED <<days, manual, clock, plan, restarts>>
  BY DEF EcomStep, pageVars, bootVars
<1>2. PICK written : Written(written)
  BY Zenon DEF EcomStep
<1>3. request'.torn \in BOOLEAN
  BY <1>2, WrittenForm DEF SyncInv
<1>4. /\ \A d \in shop' : d.day \in Nat \ {NoDay} /\ d.channel \in Goal!Channels
      /\ runs' \in Seq(Run) /\ EcomForm'
  BY <1>1, EcomSyncForm
<1> QED
  BY <1>1, <1>3, <1>4 DEF SyncInv

(* The target that is set, on the page or elsewhere. *)
LEMMA PlanForm ==
    ASSUME SyncInv, NEW year, NEW its, Target!PlanSavable(year, its),
           plan' = Target!upsertPlan(plan, year, its)
    PROVE  \A k \in DOMAIN plan' : k \in Years \X Target!Months \X Target!PlanChannels
<1>1. PICK new : /\ DOMAIN new = {<<year, it.month, it.channel>> : it \in its}
                 /\ plan' = Target!++(new, plan)
  <2>1. PICK new : /\ new = [k \in {<<year, it.month, it.channel>> : it \in its} |->
                                (CHOOSE it \in its : k = <<year, it.month, it.channel>>).target]
                   /\ plan' = Target!++(new, plan)
    BY Zenon DEF Target!upsertPlan
  <2> QED
    BY <2>1
<1>2. DOMAIN plan' = DOMAIN new \cup DOMAIN plan
  BY <1>1 DEF Target!++
<1>3. year \in Years /\ \A it \in its : it.month \in Target!Months /\ it.channel \in Target!PlanChannels
  BY DEF Target!PlanSavable, Target!validatePlanItem
<1>4. \A k \in DOMAIN new : k \in Years \X Target!Months \X Target!PlanChannels
  BY <1>1, <1>3
<1> QED
  BY <1>2, <1>4 DEF SyncInv

LEMMA PutPlanForm ==
    ASSUME PageForm, SyncInv, NEW edit, PutPlan(edit)
    PROVE  SyncInv'
<1>1. UNCHANGED <<days, shop, runs, ecom, manual, clock, restarts>>
  BY DEF PutPlan, ecomVars, bootVars
<1>2. \A k \in DOMAIN plan' : k \in Years \X Target!Months \X Target!PlanChannels
  BY PlanForm DEF PutPlan
<1>3. request'.torn \in BOOLEAN
  BY WrittenForm DEF PutPlan
<1>4. EcomForm'
  BY <1>1 DEF SyncInv, EcomForm
<1> QED
  BY <1>1, <1>2, <1>3, <1>4 DEF SyncInv

LEMMA SaveCommitsForm ==
    ASSUME PageForm, SyncInv, SaveCommits \/ LostCommits
    PROVE  SyncInv'
<1>1. UNCHANGED <<days, shop, runs, ecom, manual, clock, restarts>>
  BY DEF SaveCommits, LostCommits, Frame, ecomVars, bootVars
<1>2. PICK put : /\ Page!PlanSavable(put.year, put.its)
                 /\ plan' = Page!upsertPlan(plan, put.year, put.its)
  BY DEF SaveCommits, LostCommits, Page!SaveCommits, Page!LostCommits
<1>s. /\ Target!PlanSavable(put.year, put.its)
      /\ plan' = Target!upsertPlan(plan, put.year, put.its)
  BY <1>2 DEF Page!PlanSavable, Target!PlanSavable, Page!validatePlanItem,
     Target!validatePlanItem, Page!Months, Target!Months, Page!PlanChannels, Target!PlanChannels,
     Page!upsertPlan, Target!upsertPlan, Page!++, Target!++
<1>3. \A k \in DOMAIN plan' : k \in Years \X Target!Months \X Target!PlanChannels
  BY <1>s, PlanForm
<1>4. request'.torn \in BOOLEAN
  BY WrittenForm DEF SaveCommits, LostCommits
<1>5. EcomForm'
  BY <1>1 DEF SyncInv, EcomForm
<1> QED
  BY <1>1, <1>3, <1>4, <1>5 DEF SyncInv

(* What is entered by hand is stamped with the present. *)
LEMMA PutTrafficForm ==
    ASSUME PageForm, SyncInv, NEW edit, PutTraffic(edit)
    PROVE  SyncInv'
<1> DEFINE Source(it) == IF it.source = "" THEN "manual" ELSE it.source
           Key(it) == <<edit.year, it.month, it.channel, Source(it)>>
<1>1. UNCHANGED <<days, shop, runs, ecom, plan, restarts>> /\ clock' = clock + 1 /\ clock \in Nat
  BY DEF PutTraffic, ecomVars, bootVars, pageVars, SyncInv
<1>2. PICK new : /\ DOMAIN new = {Key(it) : it \in edit.its}
                 /\ \A k \in DOMAIN new : new[k].updated = clock
                 /\ manual' = new ++ manual
  <2>1. PICK new : /\ new = [k \in {Key(it) : it \in edit.its} |->
                          [visits |-> (CHOOSE it \in edit.its : Key(it) = k).visits,
                           updated |-> clock]]
                   /\ manual' = new ++ manual
    BY Zenon DEF PutTraffic, Target!upsert, Target!++, ++
  <2> HIDE DEF Key
  <2> QED
    BY <2>1
<1>3. /\ DOMAIN manual' = DOMAIN new \cup DOMAIN manual
      /\ \A k \in DOMAIN manual' : manual'[k] = IF k \in DOMAIN new THEN new[k] ELSE manual[k]
  BY <1>2, Zenon DEF ++
<1>4. ASSUME NEW k \in DOMAIN new
      PROVE  k[1] = edit.year
  <2>1. PICK it \in edit.its : k = Key(it)
    BY <1>2, Zenon
  <2> QED
    BY <2>1, Zenon
<1>5. edit.year \in Years
  BY DEF PutTraffic, Target!TrafficSavable
<1>6. \A k \in DOMAIN manual : k[1] \in Years /\ manual[k].updated \in 0..clock - 1
  BY DEF SyncInv
<1> HIDE DEF Key
<1>7. \A k \in DOMAIN manual' : k[1] \in Years /\ manual'[k].updated \in 0..clock' - 1
  BY <1>1, <1>2, <1>3, <1>4, <1>5, <1>6
<1>8. request'.torn \in BOOLEAN
  BY WrittenForm DEF PutTraffic
<1>9. EcomForm'
  BY <1>1 DEF SyncInv, EcomForm
<1> QED
  BY <1>1, <1>7, <1>8, <1>9 DEF SyncInv

LEMMA SyncNext == PageForm /\ SyncInv /\ [Next]_vars => SyncInv'
<1> SUFFICES ASSUME PageForm, SyncInv, [Next]_vars PROVE SyncInv'
  OBVIOUS
<1>1. ASSUME SyncIdle, restarts' = restarts, request'.torn \in BOOLEAN
      PROVE  SyncInv'
  BY <1>1, SyncStays DEF SyncInv
<1>2. CASE MigrationStep
  <2>1. SyncIdle /\ restarts' = restarts /\ request' = request
    BY <1>2 DEF MigrationStep, SyncIdle, ecomVars, pageVars
  <2> QED
    BY <1>1, <2>1 DEF SyncInv
<1>3. CASE Stop
  <2>1. /\ UNCHANGED <<days, shop, runs, plan, manual, clock>> /\ ecom' = Ecom!Idle
        /\ restarts' = restarts + 1 /\ restarts < MaxRestarts /\ request' = Closed
    BY <1>3 DEF Stop, Page!ServerGone
  <2>2. EcomForm'
    BY <2>1 DEF EcomForm, Ecom!Idle
  <2>3. request'.torn \in BOOLEAN
    BY <2>1 DEF Closed
  <2>4. restarts' \in 0..MaxRestarts
    BY <2>1, SyncAssumption DEF SyncInv
  <2> QED
    BY <2>1, <2>2, <2>3, <2>4 DEF SyncInv
<1>4. ASSUME NEW i \in Imports, NEW d \in DOMAIN Documents, ImportDocument(i, d)
      PROVE  SyncInv'
  <2>1. SyncIdle /\ restarts' = restarts /\ Written({"orders"})
    BY <1>4 DEF ImportDocument, SyncIdle, ecomVars, pageVars, bootVars
  <2> QED
    BY <1>1, <2>1, WrittenForm
<1>5. ASSUME NEW b \in Batches, SyncTraffic(b)
      PROVE  SyncInv'
  BY <1>5, SyncTrafficForm
<1>6. CASE EcomStep
  BY <1>6, EcomStepForm
<1>7. ASSUME NEW edit \in PlanEdits, PutPlan(edit)
      PROVE  SyncInv'
  BY <1>7, PutPlanForm
<1>8. ASSUME NEW edit \in TrafficEdits, PutTraffic(edit)
      PROVE  SyncInv'
  BY <1>8, PutTrafficForm
<1>9. CASE Open \/ Respond \/ QueryFails
  <2>1. request' = Opened \/ request' = Closed
    BY <1>9 DEF Open, Respond, QueryFails
  <2>2. request'.torn \in BOOLEAN
    <3>1. CASE request' = Opened
      BY <3>1 DEF Opened, Closed
    <3>2. CASE request' = Closed
      BY <3>2 DEF Closed
    <3> QED
      BY <2>1, <3>1, <3>2
  <2>3. SyncIdle /\ restarts' = restarts
    BY <1>9 DEF Open, Respond, QueryFails, Frame, SyncIdle, ecomVars, pageVars, bootVars,
       Page!Loaded, Page!LoadFails
  <2> QED
    BY <1>1, <2>2, <2>3
<1>10. CASE Query
  <2>1. SyncIdle /\ restarts' = restarts
    BY <1>10 DEF Query, Frame, SyncIdle, ecomVars, pageVars, bootVars
  <2>2. PICK got : request' = [request EXCEPT !.got = got]
    BY <1>10 DEF Query
  <2>3. request'.torn = request.torn
    BY <2>2 DEF PageForm
  <2> QED
    BY <1>1, <2>1, <2>3 DEF SyncInv
<1>11. ASSUME NEW year \in Years, NEW month \in Target!Months, PageLoads(year, month)
       PROVE  SyncInv'
  <2>1. SyncIdle /\ restarts' = restarts /\ request' = Opened
    BY <1>11 DEF PageLoads, Frame, SyncIdle, ecomVars, bootVars, Page!Load
  <2>2. request'.torn \in BOOLEAN
    BY <2>1 DEF Opened, Closed
  <2> QED
    BY <1>1, <2>1, <2>2
<1>12. ASSUME NEW total \in Totals, PageSaves(total)
       PROVE  SyncInv'
  <2>1. SyncIdle /\ restarts' = restarts /\ request' = request
    BY <1>12 DEF PageSaves, Frame, SyncIdle, ecomVars, bootVars, Page!SaveTarget
  <2> QED
    BY <1>1, <2>1 DEF SyncInv
<1>13. CASE SaveCommits \/ LostCommits
  BY <1>13, SaveCommitsForm
<1>14. CASE SaveReads \/ SaveAnswers \/ SaveFails
  <2>1. SyncIdle /\ restarts' = restarts /\ request' = request
    BY <1>14 DEF SaveReads, SaveAnswers, SaveFails, Frame, SyncIdle, ecomVars, bootVars,
       Page!SaveReads, Page!SaveAnswers, Page!SaveFails
  <2> QED
    BY <1>1, <2>1 DEF SyncInv
<1>15. CASE UNCHANGED vars
  <2>1. SyncIdle /\ restarts' = restarts /\ request' = request
    BY <1>15 DEF vars, SyncIdle, ecomVars, pageVars, bootVars
  <2> QED
    BY <1>1, <2>1 DEF SyncInv
<1> QED
  BY <1>2, <1>3, <1>4, <1>5, <1>6, <1>7, <1>8, <1>9, <1>10, <1>11, <1>12, <1>13, <1>14, <1>15
     DEF Next

-----------------------------------------------------------------------------
LEMMA AllTyped == RowsInv /\ PageInv /\ SyncInv => TypeOK
<1> SUFFICES ASSUME RowsInv, PageInv, SyncInv PROVE TypeOK
  OBVIOUS
<1>1. boot \in 1..Len(Steps) + 1 /\ DOMAIN orders = Orders /\ DOMAIN items = Orders
  BY DEF RowsInv
<1>2. Stored(db) = {o \in Orders : orders[o] # NoRow}
  BY <1>1 DEF Stored, db
<1>3. ASSUME NEW o \in Stored(db)
      PROVE  /\ RowForm(orders[o]) /\ ItemsForm(items[o], orders[o].lines)
             /\ Awaits(orders[o].content, boot)
  BY <1>2 DEF RowsInv
<1>4. ASSUME NEW o \in Stored(db)
      PROVE  /\ Created(db, o) \in Nat /\ orders[o].updated \in Nat
             /\ Content(db, o).stage \in Metrics!funnelOrder \cup {"other"}
             /\ Content(db, o).total \in Nat
             /\ Content(db, o).refund \in 0..Content(db, o).total
             /\ Len(items[o]) = orders[o].lines
  <2>1. Content(db, o) = orders[o].content /\ Created(db, o) = orders[o].created
    BY DEF Content, Created, db
  <2>2. PICK c : c = orders[o].content
    OBVIOUS
  <2>3. c.stage \in Metrics!funnelOrder \cup {"other"}
    BY <1>3, <2>2, StagesOfStatuses DEF Awaits, Metrics!funnelOrder
  <2>4. c.total \in Nat /\ c.refund \in 0..c.total
    BY <1>3, <2>2 DEF RowForm, ContentForm
  <2>5. orders[o].created \in Nat /\ orders[o].updated \in Nat /\ Len(items[o]) = orders[o].lines
    BY <1>3 DEF RowForm, ItemsForm
  <2> QED
    BY <2>1, <2>2, <2>3, <2>4, <2>5
<1>5. ASSUME NEW p \in Positions(db, Stored(db))
      PROVE  Position(db, p).qty \in Nat \ {0} /\ Position(db, p).sum \in Nat
  <2>1. PICK o \in Stored(db) : p \in {o} \X DOMAIN items[o]
    BY DEF Positions, db
  <2>2. p[1] = o /\ p[2] \in DOMAIN items[o]
    BY <2>1
  <2>3. PICK n, row : n = orders[o].lines /\ row = items[o][p[2]]
    OBVIOUS
  <2>4. p[2] \in 1..n /\ row.line = p[2] /\ PiecesOf(row.content, n)
    BY <1>3, <2>2, <2>3 DEF ItemsForm
  <2>5. Position(db, p) = row.content.items[row.line]
    BY <2>2, <2>3 DEF Position, db
  <2> QED
    BY <2>4, <2>5 DEF PiecesOf
<1>6. \A k \in DOMAIN runs : runs[k].status \in {"running", "success", "error"}
  <2>1. runs \in Seq(Run)
    BY DEF SyncInv
  <2>2. \A k \in DOMAIN runs : runs[k] \in Run
    BY <2>1
  <2> QED
    BY <2>2 DEF Run
<1>7. /\ restarts \in 0..MaxRestarts
      /\ \A d \in days \cup shop : d.day \in Nat \ {NoDay} /\ d.channel \in Goal!Channels
      /\ \A k \in DOMAIN plan : k \in Years \X Target!Months \X Target!PlanChannels
      /\ request.torn \in BOOLEAN
  BY DEF SyncInv
<1>8. \A k \in DOMAIN manual : k[1] \in Years /\ manual[k].updated < clock
  BY DEF SyncInv
<1>9. request.open \in BOOLEAN /\ (page.loading => request.open)
  BY DEF PageInv, PageForm, PageAsks
<1> QED
  BY <1>1, <1>4, <1>5, <1>6, <1>7, <1>8, <1>9 DEF TypeOK

(* Type correctness of the whole server: whatever is imported, migrated,   *)
(* synced and entered, every row has a stage of the funnel, no refund is   *)
(* above its sum, no position is without a piece, no day without a date,   *)
(* and nothing is stamped with the future.                                 *)
THEOREM TypesAreKept == Spec => []TypeOK
<1>1. Init => RowsInv /\ PageInv /\ ShownTargetIsStored /\ SyncInv
  BY RowsStart, PageStart, SyncStart
<1>2. RowsInv /\ PageInv /\ ShownTargetIsStored /\ SyncInv /\ [Next]_vars
          => (RowsInv /\ PageInv /\ ShownTargetIsStored /\ SyncInv)'
  BY RowsNext, PageNext, SyncNext DEF PageInv
<1>3. RowsInv /\ PageInv /\ SyncInv => TypeOK
  BY AllTyped
<1> QED
  BY <1>1, <1>2, <1>3, PTL DEF Spec

-----------------------------------------------------------------------------
(* The tables the server serves are what the reports count on.             *)
LEMMA TablesLegal ==
    ASSUME RowsInv, SyncInv, DaysInv, Serving
    PROVE  Legal(db)
<1>1. DOMAIN orders = Orders /\ boot > Len(Steps)
  BY DEF RowsInv, Serving
<1>2. Stored(db) = {o \in Orders : orders[o] # NoRow}
  BY <1>1 DEF Stored, db
<1>3. IsFiniteSet(Stored(db))
  BY <1>2, ReportAssumption, FS_Subset
<1>4. ASSUME NEW o \in Stored(db)
      PROVE  /\ RowForm(orders[o]) /\ ItemsForm(items[o], orders[o].lines)
             /\ Awaits(orders[o].content, boot)
  BY <1>2 DEF RowsInv
<1>5. ASSUME NEW o \in Stored(db)
      PROVE  LegalRow(db, o)
  <2>1. Content(db, o) = orders[o].content /\ Created(db, o) = orders[o].created
        /\ db.orders[o].updated = orders[o].updated
    BY DEF Content, Created, db
  <2>2. PICK c : c = orders[o].content
    OBVIOUS
  <2>3. c.total \in Nat /\ c.refund \in 0..c.total /\ c.deliveryCost \in Nat
    BY <1>4, <2>2 DEF RowForm, ContentForm
  <2>4. orders[o].created \in Nat /\ orders[o].updated \in Nat
    BY <1>4 DEF RowForm
  <2>5. c.stage = Reader!StatusStage(c.statusRaw, c.canceled)
    <3>1. Awaits(c, boot)
      BY <1>4, <2>2
    <3>2. ~(boot < Len(Steps))
      BY <1>1 DEF RowsInv
    <3> QED
      BY <3>1, <3>2, Zenon DEF Awaits
  <2>6. c.canceled <=> c.stage = "canceled"
    BY <2>5, OnlyCanceled
  <2> QED
    BY <2>1, <2>2, <2>3, <2>4, <2>6 DEF LegalRow
<1>6. ASSUME NEW o \in Stored(db)
      PROVE  /\ IsFiniteSet(DOMAIN db.items[o])
             /\ \A k \in DOMAIN db.items[o] :
                   Position(db, <<o, k>>).qty \in Nat /\ Position(db, <<o, k>>).sum \in Nat
  <2>1. PICK n, its : n = orders[o].lines /\ its = items[o] /\ its = db.items[o]
    BY DEF db
  <2>2. n \in Nat /\ DOMAIN its = 1..n /\ \A k \in 1..n : its[k].line = k /\ PiecesOf(its[k].content, n)
    BY <1>4, <2>1 DEF ItemsForm, RowForm
  <2>3. IsFiniteSet(DOMAIN its)
    BY <2>2, FS_Interval
  <2>4. ASSUME NEW k \in DOMAIN its
        PROVE  Position(db, <<o, k>>).qty \in Nat /\ Position(db, <<o, k>>).sum \in Nat
    <3>1. Position(db, <<o, k>>) = its[k].content.items[k]
      BY <2>1, <2>2 DEF Position
    <3> QED
      BY <2>2, <3>1 DEF PiecesOf
  <2> QED
    BY <2>1, <2>3, <2>4
<1>7. /\ IsFiniteSet(db.days) /\ IsFiniteSet(db.shop)
      /\ \A d \in db.days : d.sessions \in Nat /\ d.users \in Nat
      /\ \A d \in db.days \cup db.shop : d.day \in Nat \ {NoDay}
  BY DEF db, DaysInv, SyncInv
<1> QED
  BY <1>3, <1>5, <1>6, <1>7 DEF Legal

-----------------------------------------------------------------------------
(* What the syncs store stays finite and counts visits.                    *)
LEMMA SyncedCounts ==
    ASSUME NEW b \in Batches
    PROVE  /\ IsFiniteSet(SyncedRows(b))
           /\ \A d \in SyncedRows(b) : /\ {"day", "channel", "sessions", "users"} \subseteq DOMAIN d
                                       /\ d.sessions \in Nat /\ d.users \in Nat
<1> DEFINE key(d) == [day |-> d, channel |-> b.channel, source |-> b.source, synced |-> clock]
           told(d) == IF d \in DOMAIN b.visits THEN b.visits[d]
                      ELSE [sessions |-> 0, users |-> 0, sampled |-> FALSE]
<1>1. /\ b.from \in Int /\ b.to \in Int
      /\ \A d \in DOMAIN b.visits : b.visits[d] \in [sessions: Nat, users: Nat, sampled: BOOLEAN]
  BY SyncAssumption
<1>2. SyncedRows(b) = {key(d) ++ told(d) : d \in b.from..b.to}
  BY DEF SyncedRows
<1>3. IsFiniteSet(SyncedRows(b))
  <2>1. PICK f : f = [d \in b.from..b.to |-> key(d) ++ told(d)]
    BY Zenon
  <2>2. IsFiniteSet({f[d] : d \in b.from..b.to})
    BY <1>1, FS_Interval, ImageIsFinite, Zenon
  <2>3. {f[d] : d \in b.from..b.to} = SyncedRows(b)
    BY <1>2, <2>1, Zenon
  <2> QED
    BY <2>2, <2>3
<1>4. ASSUME NEW x \in SyncedRows(b)
      PROVE  /\ {"day", "channel", "sessions", "users"} \subseteq DOMAIN x
             /\ x.sessions \in Nat /\ x.users \in Nat
  <2>1. PICK d \in b.from..b.to : x = key(d) ++ told(d)
    BY <1>2
  <2>2. PICK k, v : k = key(d) /\ v = told(d)
    BY Zenon
  <2>3. DOMAIN k = {"day", "channel", "source", "synced"}
    BY <2>2
  <2>4. {"sessions", "users"} \subseteq DOMAIN v /\ v.sessions \in Nat /\ v.users \in Nat
    <3>1. CASE d \in DOMAIN b.visits
      BY <1>1, <2>2, <3>1
    <3>2. CASE d \notin DOMAIN b.visits
      BY <2>2, <3>2
    <3> QED
      BY <3>1, <3>2
  <2>5. x = k ++ v
    BY <2>1, <2>2
  <2> HIDE DEF key, told
  <2>6. DOMAIN x = DOMAIN k \cup DOMAIN v /\ x.sessions = v.sessions /\ x.users = v.users
    BY <2>3, <2>4, <2>5 DEF ++
  <2> QED
    BY <2>3, <2>4, <2>6
<1> QED
  BY <1>3, <1>4

LEMMA CompleteIsFinite ==
    ASSUME NEW s, NEW from \in Int
    PROVE  IsFiniteSet(Ecom!completeDays(s, from))
<1> DEFINE row(d) == Ecom!++([day |-> d, channel |-> ChannelOf[s], source |-> s],
                             IF d \in DOMAIN Reported[s] THEN Reported[s][d] ELSE Ecom!NoSteps)
<1>1. Ecom!completeDays(s, from) = {row(d) : d \in from..Ecom!Yesterday}
  BY DEF Ecom!completeDays
<1> HIDE DEF row
<1>2. PICK f : f = [d \in from..Ecom!Yesterday |-> row(d)]
  BY Zenon
<1>3. IsFiniteSet({f[d] : d \in from..Ecom!Yesterday})
  BY FirstDayForm, FS_Interval, ImageIsFinite, Zenon
<1>4. {f[d] : d \in from..Ecom!Yesterday} = Ecom!completeDays(s, from)
  BY <1>1, <1>2
<1> QED
  BY <1>3, <1>4

(* What a step may write of the days and the shop.                         *)
LEMMA DaysWritten ==
    ASSUME [Next]_vars
    PROVE  \/ UNCHANGED <<days, shop, runs, ecom>>
           \/ \E b \in Batches : SyncTraffic(b)
           \/ EcomStep
           \/ UNCHANGED <<days, shop, runs>> /\ ecom' = Ecom!Idle
<1>1. CASE UNCHANGED vars
  BY <1>1 DEF vars, ecomVars
<1>2. CASE MigrationStep
  BY <1>2 DEF MigrationStep, ecomVars
<1>3. CASE Stop
  BY <1>3 DEF Stop
<1>4. ASSUME NEW i, NEW d, ImportDocument(i, d)
      PROVE  UNCHANGED <<days, shop, runs, ecom>>
  BY <1>4 DEF ImportDocument, ecomVars
<1>5. ASSUME NEW edit, PutPlan(edit) \/ PutTraffic(edit)
      PROVE  UNCHANGED <<days, shop, runs, ecom>>
  BY <1>5 DEF PutPlan, PutTraffic, ecomVars
<1>6. CASE Open \/ Query \/ Respond \/ QueryFails
  BY <1>6 DEF Open, Query, Respond, QueryFails, Frame, ecomVars
<1>7. ASSUME NEW year, NEW month, NEW total, PageLoads(year, month) \/ PageSaves(total)
      PROVE  UNCHANGED <<days, shop, runs, ecom>>
  BY <1>7 DEF PageLoads, PageSaves, Frame, ecomVars
<1>8. CASE SaveCommits \/ LostCommits \/ SaveReads \/ SaveAnswers \/ SaveFails
  BY <1>8 DEF SaveCommits, LostCommits, SaveReads, SaveAnswers, SaveFails, Frame, ecomVars
<1> QED
  BY <1>1, <1>2, <1>3, <1>4, <1>5, <1>6, <1>7, <1>8 DEF Next

LEMMA DaysNext == SyncInv /\ DaysInv /\ [Next]_vars => DaysInv'
<1> SUFFICES ASSUME SyncInv, DaysInv, [Next]_vars PROVE DaysInv'
  OBVIOUS
<1>1. CASE UNCHANGED <<days, shop>>
  BY <1>1 DEF DaysInv
<1>2. ASSUME NEW b \in Batches, SyncTraffic(b)
      PROVE  DaysInv'
  <2>1. shop' = shop /\ days' \subseteq days \cup SyncedRows(b)
    BY <1>2 DEF SyncTraffic, ecomVars
  <2>2. IsFiniteSet(days')
    BY <2>1, SyncedCounts, FS_Union, FS_Subset, Zenon DEF DaysInv
  <2> QED
    BY <2>1, <2>2, SyncedCounts DEF DaysInv
<1>3. CASE EcomStep
  <2>1. Ecom!Sync /\ days' = days
    BY <1>3 DEF EcomStep
  <2>2. CASE Ecom!Store
    <3>1. shop' \subseteq shop \cup Ecom!completeDays(Ecom!Source, ecom.from)
      BY <2>2, Zenon DEF Ecom!Store
    <3>2. ecom.from \in Int
      <4>1. ecom.pc = "fetch" /\ EcomForm
        BY <2>2, Zenon DEF Ecom!Store, SyncInv
      <4> QED
        BY <4>1 DEF EcomForm
    <3>3. IsFiniteSet(shop')
      BY <3>1, <3>2, CompleteIsFinite, FS_Union, FS_Subset, Zenon DEF DaysInv
    <3> QED
      BY <2>1, <3>3 DEF DaysInv
  <2>3. CASE ~Ecom!Store
    <3>1. shop' = shop
      BY <2>1, <2>3 DEF Ecom!Sync, Ecom!BeginSync, Ecom!StartRun, Ecom!SkipSource,
         Ecom!setSourceRevision, Ecom!SourceFails, Ecom!finishRun, Ecom!FinishFails, Ecom!EndSync
    <3> QED
      BY <1>1, <2>1, <3>1
  <2> QED
    BY <2>2, <2>3
<1> QED
  BY <1>1, <1>2, <1>3, DaysWritten

-----------------------------------------------------------------------------
(* A run that succeeded stays in the shop.                                 *)
SameKeys ==
    \A row \in shop : \E new \in shop' :
        new.day = row.day /\ new.channel = row.channel /\ new.source = row.source

LEMMA ShopStays ==
    ASSUME SameKeys, NEW s, NEW from, NEW to, InShop(shop, s, from, to)
    PROVE  InShop(shop', s, from, to)
  BY DEF SameKeys, InShop

RunsInShop ==
    \A k \in DOMAIN runs :
        (runs[k].status = "success" /\ runs[k].source \in Range(EcomSources)) =>
            InShop(shop, runs[k].source, runs[k].from, runs[k].to)

(* The sync under way. *)
SyncUnderWay ==
    /\ ecom.pc \in {"fetch", "revision", "finish"} =>
          /\ ecom.run \in DOMAIN runs
          /\ runs[ecom.run].source = Ecom!Source
          /\ runs[ecom.run].from = ecom.from /\ runs[ecom.run].to = Ecom!Yesterday
          /\ (ecom.pc \in {"revision", "finish"} /\ ~ecom.failed) =>
                 InShop(shop, Ecom!Source, ecom.from, Ecom!Yesterday)
    /\ ecom.pc \in {"idle", "start", "fetch"} => ~ecom.failed

LEMMA ShopParts == ShopInv <=> RunsInShop /\ SyncUnderWay
  BY DEF ShopInv, RunsInShop, SyncUnderWay

LEMMA RunsStay ==
    ASSUME RunsInShop, SameKeys, runs' = runs
    PROVE  RunsInShop'
<1>1. ASSUME NEW k \in DOMAIN runs, runs[k].status = "success", runs[k].source \in Range(EcomSources)
      PROVE  InShop(shop', runs[k].source, runs[k].from, runs[k].to)
  <2>1. PICK s, from, to : s = runs[k].source /\ from = runs[k].from /\ to = runs[k].to
    OBVIOUS
  <2>2. InShop(shop, s, from, to)
    BY <1>1, <2>1 DEF RunsInShop
  <2>3. InShop(shop', s, from, to)
    BY <2>2, ShopStays
  <2> QED
    BY <2>1, <2>3
<1> QED
  BY <1>1 DEF RunsInShop

(* A run is added that has not succeeded, or is none of these sources.     *)
LEMMA RunsGrow ==
    ASSUME RunsInShop, runs \in Seq(Run), shop' = shop, NEW row \in Run, runs' = Append(runs, row),
           row.status # "success" \/ row.source \notin Range(EcomSources)
    PROVE  RunsInShop'
<1>1. ASSUME NEW k \in DOMAIN runs', runs'[k].status = "success",
             runs'[k].source \in Range(EcomSources)
      PROVE  InShop(shop', runs'[k].source, runs'[k].from, runs'[k].to)
  <2>1. k \in 1..Len(runs) + 1 /\ (k = Len(runs) + 1 => runs'[k] = row)
        /\ (k # Len(runs) + 1 => k \in DOMAIN runs /\ runs'[k] = runs[k])
    OBVIOUS
  <2>2. k \in DOMAIN runs /\ runs'[k] = runs[k]
    BY <1>1, <2>1
  <2> QED
    BY <1>1, <2>2 DEF RunsInShop
<1> QED
  BY <1>1 DEF RunsInShop, InShop

LEMMA NextSourceStarts ==
    ASSUME EcomForm, Ecom!NextSource
    PROVE  SyncUnderWay'
<1>1. ecom'.pc = "start" /\ ecom'.failed = FALSE
  BY DEF Ecom!NextSource, EcomForm
<1> QED
  BY <1>1 DEF SyncUnderWay

LEMMA CompleteInShop ==
    ASSUME NEW s, NEW from, NEW d \in from..Ecom!Yesterday
    PROVE  \E row \in Ecom!completeDays(s, from) :
               row.day = d /\ row.channel = ChannelOf[s] /\ row.source = s
<1>1. PICK key, told : /\ key = [day |-> d, channel |-> ChannelOf[s], source |-> s]
                       /\ told = IF d \in DOMAIN Reported[s] THEN Reported[s][d] ELSE Ecom!NoSteps
  OBVIOUS
<1>2. Ecom!++(key, told) \in Ecom!completeDays(s, from)
  BY <1>1 DEF Ecom!completeDays
<1>3. DOMAIN key = {"day", "channel", "source"} /\ key.day = d
      /\ key.channel = ChannelOf[s] /\ key.source = s
  BY <1>1
<1>4. PICK row : row = Ecom!++(key, told)
  OBVIOUS
<1>5. row.day = d /\ row.channel = ChannelOf[s] /\ row.source = s
  BY <1>3, <1>4 DEF Ecom!++
<1> QED
  BY <1>2, <1>4, <1>5

(* What is stored covers the days it was asked for. *)
LEMMA StoreCovers ==
    ASSUME Ecom!Store
    PROVE  SameKeys /\ InShop(shop', Ecom!Source, ecom.from, Ecom!Yesterday)
<1>1. PICK s, from, rows : s = Ecom!Source /\ from = ecom.from /\ rows = Ecom!completeDays(s, from)
  OBVIOUS
<1>2. shop' = {old \in shop : ~\E r \in rows :
                  old.day = r.day /\ old.channel = r.channel /\ old.source = r.source} \cup rows
  BY <1>1, Zenon DEF Ecom!Store
<1>3. SameKeys
  BY <1>2 DEF SameKeys
<1>4. \A d \in from..Ecom!Yesterday : \E row \in rows :
          row.day = d /\ row.channel = ChannelOf[s] /\ row.source = s
  BY <1>1, CompleteInShop
<1>5. InShop(shop', s, from, Ecom!Yesterday)
  BY <1>2, <1>4 DEF InShop, Ecom!Yesterday
<1> QED
  BY <1>1, <1>3, <1>5

LEMMA EcomKeepsShop ==
    ASSUME SyncInv, ShopInv, Ecom!Sync
    PROVE  ShopInv'
<1> DEFINE Good == RunsInShop' /\ SyncUnderWay'
<1> SUFFICES Good
  BY DEF ShopInv, RunsInShop, SyncUnderWay
<1>1. RunsInShop /\ SyncUnderWay /\ EcomForm /\ runs \in Seq(Run)
  BY ShopParts DEF SyncInv
<1>2. shop' = shop => SameKeys
  BY DEF SameKeys
<1>3. shop' = shop /\ runs' = runs => RunsInShop'
  BY <1>1, <1>2, RunsStay
<1>4. CASE Ecom!BeginSync
  <2>1. shop' = shop /\ runs' = runs /\ ecom.pc = "idle"
        /\ ecom' = [ecom EXCEPT !.pc = "start", !.todo = EcomSources]
    BY <1>4 DEF Ecom!BeginSync
  <2>2. ecom'.pc = "start" /\ ecom'.failed = ecom.failed /\ ~ecom.failed
    BY <1>1, <2>1 DEF EcomForm, SyncUnderWay
  <2> QED
    BY <1>3, <2>1, <2>2 DEF SyncUnderWay
<1>5. CASE Ecom!StartRun
  <2>1. PICK s, row, first :
          /\ s = Ecom!Source /\ first = Ecom!FirstDay(s)
          /\ row = [source |-> s, from |-> first, to |-> Ecom!Yesterday, status |-> "running"]
    OBVIOUS
  <2>2. /\ runs' = Append(runs, row) /\ shop' = shop /\ ecom.todo # <<>> /\ ecom.pc = "start"
        /\ ecom' = [ecom EXCEPT !.pc = "fetch", !.from = first, !.run = Len(runs) + 1]
    BY <1>5, <2>1 DEF Ecom!StartRun, Ecom!Working
  <2>3. row \in Run /\ row.status # "success"
    <3>1. s \in Range(EcomSources)
      BY <1>1, <2>1, <2>2 DEF EcomForm, Ecom!Source
    <3>2. first \in Int /\ Ecom!Yesterday \in Int
      BY <2>1, FirstDayForm
    <3> QED
      BY <2>1, <3>1, <3>2 DEF Run
  <2>4. RunsInShop'
    BY <1>1, <2>2, <2>3, RunsGrow
  <2>5. /\ ecom'.pc = "fetch" /\ ecom'.from = first /\ ecom'.run = Len(runs) + 1
        /\ ecom'.todo = ecom.todo /\ ecom'.failed = ecom.failed /\ ~ecom.failed
    BY <1>1, <2>2 DEF EcomForm, SyncUnderWay
  <2>6. Len(runs) + 1 \in DOMAIN runs' /\ runs'[Len(runs) + 1] = row
    BY <1>1, <2>2, <2>3
  <2>7. row.source = Ecom!Source' /\ row.from = first /\ row.to = Ecom!Yesterday
    BY <2>1, <2>5 DEF Ecom!Source
  <2>8. SyncUnderWay'
    BY <2>5, <2>6, <2>7 DEF SyncUnderWay, Ecom!Yesterday
  <2> QED
    BY <2>4, <2>8
<1>6. CASE Ecom!SkipSource
  <2>1. shop' = shop /\ runs' = runs /\ Ecom!NextSource
    BY <1>6 DEF Ecom!SkipSource
  <2> QED
    BY <1>1, <1>3, <2>1, NextSourceStarts
<1>7. CASE Ecom!Store
  <2>1. runs' = runs /\ ecom.pc = "fetch"
    BY <1>7, Zenon DEF Ecom!Store
  <2>2. RunsInShop'
    BY <1>1, <1>7, <2>1, RunsStay, StoreCovers
  <2>3. PICK pc \in {"revision", "finish"} : ecom' = [ecom EXCEPT !.pc = pc]
    BY <1>7, Zenon DEF Ecom!Store
  <2>4. /\ ecom'.pc = pc /\ ecom'.from = ecom.from /\ ecom'.run = ecom.run
        /\ ecom'.todo = ecom.todo /\ ecom'.failed = ecom.failed
    BY <1>1, <2>3 DEF EcomForm
  <2>5. PICK s, from : s = Ecom!Source /\ from = ecom.from
    OBVIOUS
  <2>6. InShop(shop', s, from, Ecom!Yesterday)
    BY <1>7, <2>5, StoreCovers
  <2>7. Ecom!Source' = s /\ ecom'.from = from
    BY <2>4, <2>5 DEF Ecom!Source
  <2>8. SyncUnderWay'
    BY <1>1, <2>1, <2>4, <2>5, <2>6, <2>7 DEF SyncUnderWay, InShop, Ecom!Yesterday
  <2> QED
    BY <2>2, <2>8
<1>8. CASE Ecom!setSourceRevision \/ Ecom!SourceFails
  <2>1. PICK failed : /\ shop' = shop /\ runs' = runs /\ ecom.pc \in {"fetch", "revision"}
                      /\ ecom' = [ecom EXCEPT !.pc = "finish", !.failed = failed]
                      /\ failed = TRUE \/ (ecom.pc = "revision" /\ failed = ecom.failed)
    <3>1. CASE Ecom!setSourceRevision
      <4>1. ecom.pc = "revision" /\ UNCHANGED <<shop, runs>> /\ ecom' = [ecom EXCEPT !.pc = "finish"]
        BY <3>1 DEF Ecom!setSourceRevision
      <4>2. ecom' = [ecom EXCEPT !.pc = "finish", !.failed = ecom.failed]
        BY <1>1, <4>1, Zenon DEF EcomForm
      <4> QED
        BY <4>1, <4>2, Zenon
    <3>2. CASE Ecom!SourceFails
      BY <3>2, Zenon DEF Ecom!SourceFails
    <3> QED
      BY <1>8, <3>1, <3>2, Zenon
  <2>2. /\ ecom'.pc = "finish" /\ ecom'.from = ecom.from /\ ecom'.run = ecom.run
        /\ ecom'.todo = ecom.todo /\ ecom'.failed = failed
    BY <1>1, <2>1 DEF EcomForm
  <2>3. Ecom!Source' = Ecom!Source
    BY <2>2 DEF Ecom!Source
  <2>4. ecom.pc = "revision" /\ ~ecom.failed => InShop(shop, Ecom!Source, ecom.from, Ecom!Yesterday)
    BY <1>1 DEF SyncUnderWay
  <2>5. ~failed => InShop(shop', Ecom!Source', ecom'.from, Ecom!Yesterday)
    BY <2>1, <2>2, <2>3, <2>4
  <2>6. SyncUnderWay'
    BY <1>1, <2>1, <2>2, <2>3, <2>5 DEF SyncUnderWay, InShop, Ecom!Yesterday
  <2> QED
    BY <1>3, <2>1, <2>6
<1>9. CASE Ecom!finishRun
  <2>1. shop' = shop /\ Ecom!NextSource /\ ecom.pc = "finish"
    BY <1>9 DEF Ecom!finishRun
  <2>2. PICK r, status : /\ r = ecom.run /\ runs' = [runs EXCEPT ![r].status = status]
                         /\ status = "error" \/ (status = "success" /\ ~ecom.failed)
    BY <1>9, Zenon DEF Ecom!finishRun
  <2>3. r \in DOMAIN runs /\ runs[r] \in Run
    BY <1>1, <2>1, <2>2 DEF SyncUnderWay
  <2>4. /\ DOMAIN runs' = DOMAIN runs /\ \A k \in DOMAIN runs : k # r => runs'[k] = runs[k]
        /\ runs'[r] = [runs[r] EXCEPT !.status = status]
    BY <1>1, <2>2, <2>3
  <2>5. /\ runs'[r].source = runs[r].source /\ runs'[r].from = runs[r].from
        /\ runs'[r].to = runs[r].to /\ runs'[r].status = status
    BY <2>3, <2>4 DEF Run
  <2>6. status = "success" => InShop(shop, runs[r].source, runs[r].from, runs[r].to)
    BY <1>1, <2>1, <2>2 DEF SyncUnderWay
  <2>7. ASSUME NEW k \in DOMAIN runs', runs'[k].status = "success",
               runs'[k].source \in Range(EcomSources)
        PROVE  InShop(shop', runs'[k].source, runs'[k].from, runs'[k].to)
    <3>1. CASE k = r
      BY <2>1, <2>5, <2>6, <2>7, <3>1
    <3>2. CASE k # r
      BY <1>1, <2>1, <2>4, <2>7, <3>2 DEF RunsInShop
    <3> QED
      BY <3>1, <3>2
  <2>8. RunsInShop'
    BY <2>1, <2>7 DEF RunsInShop, InShop
  <2> QED
    BY <1>1, <2>1, <2>8, NextSourceStarts
<1>10. CASE Ecom!FinishFails
  <2>1. shop' = shop /\ runs' = runs /\ Ecom!NextSource
    BY <1>10 DEF Ecom!FinishFails
  <2> QED
    BY <1>1, <1>3, <2>1, NextSourceStarts
<1>11. CASE Ecom!EndSync
  <2>1. shop' = shop /\ runs' = runs /\ ecom' = Ecom!Idle
    BY <1>11 DEF Ecom!EndSync
  <2> QED
    BY <1>3, <2>1 DEF SyncUnderWay, Ecom!Idle
<1> QED
  BY <1>4, <1>5, <1>6, <1>7, <1>8, <1>9, <1>10, <1>11 DEF Ecom!Sync

LEMMA ShopNext == SyncInv /\ ShopInv /\ [Next]_vars => ShopInv'
<1> SUFFICES ASSUME SyncInv, ShopInv, [Next]_vars PROVE ShopInv'
  OBVIOUS
<1>1. CASE UNCHANGED <<shop, runs, ecom>>
  BY <1>1 DEF ShopInv, InShop, Ecom!Source, Ecom!Yesterday
<1>2. ASSUME NEW b \in Batches, SyncTraffic(b)
      PROVE  ShopInv'
  <2>1. PICK row : row = [source |-> b.source, from |-> b.from, to |-> b.to, status |-> "success"]
    BY Zenon
  <2>2. UNCHANGED <<shop, ecom>> /\ runs' = Append(runs, row)
    BY <1>2, <2>1 DEF SyncTraffic
  <2>3. row \in Run /\ row.source \notin Range(EcomSources)
    BY <2>1, DashboardAssumption, SyncAssumption DEF Run
  <2>4. runs \in Seq(Run) /\ RunsInShop /\ SyncUnderWay
    BY ShopParts DEF SyncInv
  <2>5. RunsInShop'
    BY <2>2, <2>3, <2>4, RunsGrow
  <2>6. \A k \in DOMAIN runs : k \in DOMAIN runs' /\ runs'[k] = runs[k]
    BY <2>2, <2>3, <2>4
  <2>7. SyncUnderWay'
    BY <2>2, <2>4, <2>6 DEF SyncUnderWay, InShop, Ecom!Source, Ecom!Yesterday
  <2> QED
    BY <2>5, <2>7 DEF ShopInv, RunsInShop, SyncUnderWay
<1>3. CASE EcomStep
  BY <1>3, EcomKeepsShop DEF EcomStep
<1>4. CASE UNCHANGED <<shop, runs>> /\ ecom' = Ecom!Idle
  <2>1. RunsInShop'
    BY <1>4, ShopParts DEF RunsInShop, InShop
  <2>2. SyncUnderWay'
    BY <1>4 DEF SyncUnderWay, Ecom!Idle
  <2> QED
    BY <2>1, <2>2 DEF ShopInv, RunsInShop, SyncUnderWay
<1> QED
  BY <1>1, <1>2, <1>3, <1>4, DaysWritten

LEMMA ShopStart == Init => ShopInv /\ DaysInv
<1> SUFFICES ASSUME Init PROVE ShopInv /\ DaysInv
  OBVIOUS
<1>1. days = {} /\ shop = {} /\ runs = <<>> /\ ecom = Ecom!Idle
  BY Zenon DEF Init, Ecom!EcomInit
<1>2. ShopInv
  BY <1>1 DEF ShopInv, Ecom!Idle
<1>3. DaysInv
  BY <1>1, FS_EmptySet DEF DaysInv
<1> QED
  BY <1>2, <1>3

-----------------------------------------------------------------------------
(* Every answer is that of legal tables, and depends on what was read      *)
(* before it only.                                                         *)
Answered ==
    \A st \in DOMAIN request.got :
        \E t : Legal(t) /\ request.got[st] \in Answers(t, st, Asked, request.got)

DynamicsRead ==
    Asked.report = "dynamics" =>
        DOMAIN request.got \subseteq DynamicsAsked \cup {<<"dataBounds">>}

BasesRead == DOMAIN request.got \subseteq BasesOf(Asked) \/ BasesOf(Asked) \subseteq DOMAIN request.got

AnswersInv == ask \in Asks /\ RequestInv /\ Answered /\ DynamicsRead

LEMMA QueryKeeps ==
    ASSUME PageForm, AnswersInv, Legal(db), Runs
    PROVE  /\ request'.open /\ request.open /\ request'.torn = request.torn
           /\ BasesRead' /\ Answered' /\ DynamicsRead'
           /\ ~request'.torn => \A st \in DOMAIN request'.got : request'.got[st] \in Results(st)'
<1>1. PICK a, B, got, new, s :
          /\ a = Asked /\ B = BasesOf(a) /\ got = request.got /\ new = request'.got
          /\ s = Statements
  BY Zenon
<1>2. a.report \in KnownReports /\ Headed(B, s)
  BY <1>1, AskedIsKnown, BasesFirst DEF AnswersInv
<1>3. IsList(s)
  BY <1>2 DEF Headed
<1>4. PICK k \in DOMAIN s : \E result \in Results(s[k]) :
          /\ request.open /\ s[k] \notin DOMAIN got
          /\ \A j \in DOMAIN s : j < k => s[j] \in DOMAIN got
          /\ request'.open = request.open /\ request'.torn = request.torn
          /\ DOMAIN new = DOMAIN got \cup {s[k]}
          /\ new[s[k]] = result
          /\ \A st \in DOMAIN got : new[st] = got[st]
  BY <1>1, <1>3, QueryRuns, Zenon DEF Runs
<1>5. PICK st0 : st0 = s[k]
  OBVIOUS
<1>6. /\ request.open /\ st0 \notin DOMAIN got
      /\ request'.open = request.open /\ request'.torn = request.torn
      /\ DOMAIN new = DOMAIN got \cup {st0}
      /\ new[st0] \in Answers(db, st0, a, got)
      /\ \A st \in DOMAIN got : new[st] = got[st]
  BY <1>1, <1>4, <1>5, Zenon DEF Results
<1>7. Asked' = a /\ db' = db
  BY <1>1, TablesStay DEF Runs
<1>8. DOMAIN got \subseteq B \/ B \subseteq DOMAIN got
  BY <1>1 DEF AnswersInv, RequestInv
<1>9. \/ st0 \in B /\ DOMAIN got \subseteq B
      \/ st0 \notin B /\ B \subseteq DOMAIN got
  <2>1. CASE st0 \in B
    BY <1>6, <1>8, <2>1
  <2>2. CASE st0 \notin B
    <3>1. ASSUME NEW b \in B
          PROVE  b \in DOMAIN got
      <4>1. PICK j \in DOMAIN s : j < k /\ s[j] = b
        BY <1>2, <1>5, <2>2, Zenon DEF Headed
      <4> QED
        BY <1>4, <4>1, Zenon
    <3> QED
      BY <2>2, <3>1
  <2> QED
    BY <2>1, <2>2
<1>10. DOMAIN new \subseteq B \/ B \subseteq DOMAIN new
  BY <1>6, <1>9, Zenon
<1>11. a.report = "dynamics" => DOMAIN new \subseteq DynamicsAsked \cup {<<"dataBounds">>}
  <2>1. SUFFICES ASSUME a.report = "dynamics" PROVE DOMAIN new \subseteq DynamicsAsked \cup {<<"dataBounds">>}
    OBVIOUS
  <2>2. s = Logistics!BreakdownStatements(a, got)
    BY <1>1, <2>1 DEF Statements
  <2>3. Occurs(st0, s)
    BY <1>5, Zenon DEF Occurs
  <2>4. st0 \in DynamicsAsked \cup {<<"dataBounds">>}
    BY <2>2, <2>3, DynamicsList, Zenon
  <2>5. DOMAIN got \subseteq DynamicsAsked \cup {<<"dataBounds">>}
    BY <1>1, <2>1, Zenon DEF AnswersInv, DynamicsRead
  <2> QED
    BY <1>6, <2>4, <2>5, Zenon
<1>12. ASSUME NEW st \in DOMAIN new, NEW t
       PROVE  Answers(t, st, a, new) = Answers(t, st, a, got)
  <2>1. CASE st0 \in B /\ DOMAIN got \subseteq B
    <3>1. st \in B
      BY <1>6, <1>12, <2>1, Zenon
    <3> QED
      BY <1>1, <1>2, <3>1, BasesAnswers, Zenon
  <2>2. CASE st0 \notin B /\ B \subseteq DOMAIN got
    <3>1. Alike(B, got, new)
      BY <1>6, <2>2, Zenon DEF Alike
    <3>2. OfDynamics(a, st)
      BY <1>11, <1>12, Zenon DEF OfDynamics
    <3>3. Alike(BasesOf(a), got, new)
      BY <1>1, <3>1, Zenon
    <3> QED
      BY <1>2, <3>2, <3>3, AnswersKept, SMT
  <2> QED
    BY <1>9, <2>1, <2>2
<1>13. ASSUME NEW st \in DOMAIN new
       PROVE  /\ \E t : Legal(t) /\ new[st] \in Answers(t, st, a, new)
              /\ ~request.torn => new[st] \in Answers(db, st, a, new)
  <2>1. CASE st = st0
    <3>1. new[st] \in Answers(db, st, a, new)
      BY <1>6, <1>12, <2>1, Zenon
    <3> QED
      BY <3>1, Zenon
  <2>2. CASE st \in DOMAIN got
    <3>1. new[st] = got[st]
      BY <1>6, <2>2, Zenon
    <3>2. PICK t : Legal(t) /\ got[st] \in Answers(t, st, a, got)
      BY <1>1, <2>2, Zenon DEF AnswersInv, Answered
    <3>3. ~request.torn => got[st] \in Answers(db, st, a, got)
      BY <1>1, <2>2, Zenon DEF AnswersInv, RequestInv, Results
    <3> QED
      BY <1>12, <3>1, <3>2, <3>3, Zenon
  <2> QED
    BY <1>6, <1>13, <2>1, <2>2, Zenon
<1>14. BasesRead'
  BY <1>1, <1>7, <1>10 DEF BasesRead
<1>15. DynamicsRead'
  BY <1>1, <1>7, <1>11 DEF DynamicsRead
<1>16. Answered'
  BY <1>1, <1>7, <1>13 DEF Answered
<1>17. ~request'.torn => \A st \in DOMAIN request'.got : request'.got[st] \in Results(st)'
  BY <1>1, <1>6, <1>7, <1>13 DEF Results
<1> QED
  BY <1>6, <1>14, <1>15, <1>16, <1>17

LEMMA AnswersEmpty ==
    ASSUME request'.got = <<>>, ask' \in Asks, request'.open => Serving' /\ Valid(Asked')
    PROVE  AnswersInv'
<1>1. DOMAIN request'.got = {}
  BY SMT
<1>2. RequestInv'
  BY <1>1, Zenon DEF RequestInv
<1>3. Answered' /\ DynamicsRead'
  BY <1>1, Zenon DEF Answered, DynamicsRead
<1> QED
  BY <1>2, <1>3, Zenon DEF AnswersInv

LEMMA AnswersStay ==
    ASSUME AnswersInv, UNCHANGED ask, Asked' = Asked,
           request'.open = request.open, request'.got = request.got,
           request.open => Serving',
           request'.torn \/ DOMAIN request.got = {} \/ (~request.torn /\ AnswersSame)
    PROVE  AnswersInv'
<1>1. PICK a, got : a = Asked /\ got = request.got
  BY Zenon
<1>2. Answered'
  BY Zenon DEF AnswersInv, Answered
<1>3. DynamicsRead'
  BY Zenon DEF AnswersInv, DynamicsRead
<1>4. RequestInv'
  <2>1. request'.open => Serving' /\ Valid(Asked')
    <3>1. request.open => Valid(Asked)
      BY Zenon DEF AnswersInv, RequestInv
    <3>2. request.open => Valid(Asked')
      BY <3>1, Zenon
    <3> QED
      BY <3>2, Zenon
  <2>2. ~request'.open => request'.got = <<>>
    BY Zenon DEF AnswersInv, RequestInv
  <2>3. DOMAIN request'.got \subseteq BasesOf(Asked') \/ BasesOf(Asked') \subseteq DOMAIN request'.got
    BY Zenon DEF AnswersInv, RequestInv
  <2>4. ASSUME ~request'.torn, NEW st \in DOMAIN request'.got
        PROVE  request'.got[st] \in Answers(db', st, Asked', request'.got)
    <3>1. ~request.torn /\ AnswersSame /\ st \in DOMAIN request.got
      BY <2>4, Zenon
    <3>2. request.got[st] \in Answers(db, st, Asked, request.got)
      BY <3>1, Zenon DEF AnswersInv, RequestInv, Results
    <3> QED
      BY <3>1, <3>2, Zenon DEF AnswersSame
  <2> QED
    BY <2>1, <2>2, <2>3, <2>4, Zenon DEF RequestInv, Results
<1> QED
  BY <1>2, <1>3, <1>4, Zenon DEF AnswersInv

LEMMA AnswersNext ==
    ASSUME PageForm, RowsInv, SyncInv, DaysInv, AnswersInv, [Next]_vars
    PROVE  AnswersInv'
<1>1. ask' = ask /\ ask' \in Asks
  BY AskStays DEF AnswersInv
<1>2. CASE Ends
  <2>1. request'.got = <<>> /\ request'.open = FALSE
    BY <1>2 DEF Ends, Closed
  <2> QED
    BY <1>1, <2>1, AnswersEmpty, Zenon
<1>3. CASE Begins
  <2>1. request'.got = <<>>
    BY <1>3 DEF Begins, Opened, Closed
  <2> QED
    BY <1>1, <1>3, <2>1, AnswersEmpty, Zenon DEF Begins
<1>4. request.open => Serving /\ Legal(db)
  <2>1. request.open => Serving
    BY Zenon DEF AnswersInv, RequestInv
  <2> QED
    BY <2>1, TablesLegal
<1>5. CASE Runs
  <2>1. request.open
    BY <1>5 DEF Runs, Query, Unanswered
  <2>2. /\ request'.open /\ request'.torn = request.torn
        /\ BasesRead' /\ Answered' /\ DynamicsRead'
        /\ ~request'.torn => \A st \in DOMAIN request'.got : request'.got[st] \in Results(st)'
    BY <1>4, <1>5, <2>1, QueryKeeps
  <2>3. Serving' /\ Valid(Asked')
    <3>1. Serving'
      BY <1>4, <1>5, <2>1 DEF Runs, Serving
    <3>2. Valid(Asked) /\ Asked' = Asked
      BY <1>5, <2>1 DEF Runs, AnswersInv, RequestInv
    <3> QED
      BY <3>1, <3>2, Zenon
  <2>4. RequestInv'
    BY <2>2, <2>3, Zenon DEF RequestInv, BasesRead
  <2> QED
    BY <1>1, <2>2, <2>4, Zenon DEF AnswersInv
<1>6. CASE Spares
  <2>1. Asked' = Asked /\ request' = request /\ AnswersSame /\ (request.open => Serving')
    BY <1>4, <1>6, UnreadAnswers DEF Spares, Serving, Unread
  <2>2. request'.torn \/ ~request.torn
    BY <2>1
  <2> QED
    BY <1>1, <2>1, <2>2, AnswersStay, Zenon
<1>7. CASE Writes
  <2>0. PICK written : Written(written) /\ (Reading(written) \/ AnswersSame)
    BY <1>7, UnreadAnswers, Zenon DEF Writes
  <2>1. /\ request'.open = request.open /\ request'.got = request.got
        /\ request'.torn = (request.torn \/ (Reading(written) /\ DOMAIN request.got # {}))
    BY <2>0, Zenon DEF Written, PageForm
  <2>3. request'.torn \/ DOMAIN request.got = {} \/ (~request.torn /\ AnswersSame)
    BY <2>0, <2>1, Zenon
  <2>2. Asked' = Asked /\ (request.open => Serving')
    BY <1>4, <1>7 DEF Writes, Serving
  <2> QED
    BY <1>1, <2>1, <2>2, <2>3, AnswersStay, Zenon
<1>8. CASE Migrates
  <2>1. ~request.open /\ request' = request /\ Asked' = Asked
    BY <1>4, <1>8, Zenon DEF Migrates
  <2>2. request'.got = <<>>
    BY <2>1 DEF AnswersInv, RequestInv
  <2> QED
    BY <1>1, <2>1, <2>2, AnswersEmpty, Zenon
<1> QED
  BY <1>2, <1>3, <1>5, <1>6, <1>7, <1>8, StepKinds DEF AnswersInv

(* What holds of the server at any time.                                   *)
ServerInv == RowsInv /\ SyncInv /\ DaysInv /\ ShopInv /\ PageInv /\ ShownTargetIsStored /\ AnswersInv

LEMMA ServerStart == Init => ServerInv
<1> SUFFICES ASSUME Init PROVE ServerInv
  OBVIOUS
<1>1. request = Closed /\ ask \in Asks
  BY DEF Init
<1>2. DOMAIN request.got = {} /\ request.got = <<>> /\ ~request.open
  BY <1>1 DEF Closed
<1>3. RequestInv
  BY <1>2, Zenon DEF RequestInv
<1>4. Answered /\ DynamicsRead
  BY <1>2, Zenon DEF Answered, DynamicsRead
<1>5. AnswersInv
  BY <1>1, <1>3, <1>4, Zenon DEF AnswersInv
<1> QED
  BY <1>5, RowsStart, SyncStart, ShopStart, PageStart DEF ServerInv

LEMMA ServerNext == ServerInv /\ [Next]_vars => ServerInv'
<1> SUFFICES ASSUME ServerInv, [Next]_vars PROVE ServerInv'
  OBVIOUS
<1>1. PageForm
  BY DEF ServerInv, PageInv
<1> QED
  BY <1>1, RowsNext, SyncNext, DaysNext, ShopNext, PageNext, AnswersNext DEF ServerInv

-----------------------------------------------------------------------------
(* The answers of a request that is complete.                              *)
LEMMA BoundsAnswers ==
    ASSUME NEW t, NEW a, NEW got
    PROVE  /\ a.report \in PeriodReports \ {"customers"} =>
                  Answers(t, <<"dataBounds">>, a, got) = {DataBounds(t)}
           /\ a.report \in {"goal", "customers"} =>
                  Answers(t, <<"bounds">>, a, got) = {DataBounds(t)}
           /\ a.report = "logistics" => Answers(t, <<"dataAsOf">>, a, got) = {Logistics!dataAsOf(t)}
<1>1. PICK st : st = <<"dataBounds">>
  OBVIOUS
<1>2. st[1] = "dataBounds"
  BY <1>1
<1>3. /\ a.report = "funnel" => Answers(t, st, a, got) = {DataBounds(t)}
      /\ a.report = "metrics" => Answers(t, st, a, got) = {DataBounds(t)}
  BY <1>2, SameBounds DEF Answers, Funnel!Execute, Metrics!Execute
<1>4. /\ a.report \in {"logistics", "dynamics"} => Answers(t, st, a, got) = {DataBounds(t)}
      /\ a.report = "acquisition" => Answers(t, st, a, got) = {DataBounds(t)}
  BY <1>2, SameBounds DEF Answers, Logistics!Execute, Acquired!Execute
<1>5. PICK b : b = <<"bounds">>
  BY Zenon
<1>6. b[1] = "bounds"
  BY <1>5
<1>7. /\ a.report = "goal" => Answers(t, b, a, got) = {DataBounds(t)}
      /\ a.report = "customers" => Answers(t, b, a, got) = {DataBounds(t)}
  BY <1>6, SameBounds DEF Answers, Goal!Execute, Customers!Execute
<1>8. PICK d : d = <<"dataAsOf">>
  BY Zenon
<1>9. d[1] = "dataAsOf"
  BY <1>8
<1>10. a.report = "logistics" => Answers(t, d, a, got) = {Logistics!dataAsOf(t)}
  BY <1>9 DEF Answers, Logistics!Execute
<1> QED
  BY <1>1, <1>3, <1>4, <1>5, <1>7, <1>8, <1>10 DEF PeriodReports

LEMMA BoundsRead ==
    ASSUME AnswersInv
    PROVE  /\ (Asked.report \in PeriodReports \ {"customers"} /\ <<"dataBounds">> \in DOMAIN request.got) =>
                  IsBounds(request.got[<<"dataBounds">>])
           /\ (Asked.report \in {"goal", "customers"} /\ <<"bounds">> \in DOMAIN request.got) =>
                  IsBounds(request.got[<<"bounds">>])
           /\ (Asked.report = "logistics" /\ <<"dataAsOf">> \in DOMAIN request.got) =>
                  request.got[<<"dataAsOf">>] \in Nat
<1>1. PICK a, got : a = Asked /\ got = request.got
  OBVIOUS
<1>2. ASSUME NEW st \in DOMAIN got
      PROVE  \E t : Legal(t) /\ got[st] \in Answers(t, st, a, got)
  BY <1>1, <1>2, Zenon DEF AnswersInv, Answered
<1>3. ASSUME a.report \in PeriodReports \ {"customers"}, <<"dataBounds">> \in DOMAIN got
      PROVE  IsBounds(got[<<"dataBounds">>])
  <2>1. PICK t : Legal(t) /\ got[<<"dataBounds">>] \in Answers(t, <<"dataBounds">>, a, got)
    BY <1>2, <1>3, Zenon
  <2>2. Answers(t, <<"dataBounds">>, a, got) = {DataBounds(t)}
    BY <1>3, BoundsAnswers, Zenon
  <2>3. got[<<"dataBounds">>] = DataBounds(t)
    BY <2>1, <2>2, Zenon
  <2> QED
    BY <2>1, <2>3, BoundsAre
<1>4. ASSUME a.report \in {"goal", "customers"}, <<"bounds">> \in DOMAIN got
      PROVE  IsBounds(got[<<"bounds">>])
  <2>1. PICK t : Legal(t) /\ got[<<"bounds">>] \in Answers(t, <<"bounds">>, a, got)
    BY <1>2, <1>4, Zenon
  <2>2. Answers(t, <<"bounds">>, a, got) = {DataBounds(t)}
    BY <1>4, BoundsAnswers, Zenon
  <2>3. got[<<"bounds">>] = DataBounds(t)
    BY <2>1, <2>2, Zenon
  <2> QED
    BY <2>1, <2>3, BoundsAre
<1>5. ASSUME a.report = "logistics", <<"dataAsOf">> \in DOMAIN got
      PROVE  got[<<"dataAsOf">>] \in Nat
  <2>1. PICK t : Legal(t) /\ got[<<"dataAsOf">>] \in Answers(t, <<"dataAsOf">>, a, got)
    BY <1>2, <1>5, Zenon
  <2>2. Answers(t, <<"dataAsOf">>, a, got) = {Logistics!dataAsOf(t)}
    BY <1>5, BoundsAnswers, Zenon
  <2>3. got[<<"dataAsOf">>] = Logistics!dataAsOf(t)
    BY <2>1, <2>2, Zenon
  <2> QED
    BY <2>1, <2>3, AsOfIs
<1> QED
  BY <1>1, <1>3, <1>4, <1>5, Zenon

LEMMA CompleteHas ==
    ASSUME Complete, NEW st, Occurs(st, Statements)
    PROVE  st \in DOMAIN request.got
<1>1. PICK s : s = Statements
  OBVIOUS
<1>2. {k \in DOMAIN s : s[k] \notin DOMAIN request.got} = {}
  BY <1>1, Zenon DEF Complete, Pending
<1>3. PICK k \in DOMAIN s : s[k] = st
  BY <1>1, Zenon DEF Occurs
<1> QED
  BY <1>2, <1>3, Zenon

(* Each answer is that of some tables the server served, and of those it   *)
(* serves when nothing was written meanwhile.                              *)
Told(X) ==
    \A st \in X :
        /\ st \in DOMAIN request.got
        /\ \E t : Legal(t) /\ request.got[st] \in Answers(t, st, Asked, request.got)
        /\ ~request.torn => request.got[st] \in Answers(db, st, Asked, request.got)

LEMMA CompleteTold ==
    ASSUME AnswersInv, Complete, NEW X, \A st \in X : Occurs(st, Statements)
    PROVE  Told(X)
<1>1. \A st \in X : st \in DOMAIN request.got
  BY CompleteHas
<1>2. \A st \in DOMAIN request.got :
          \E t : Legal(t) /\ request.got[st] \in Answers(t, st, Asked, request.got)
  BY Zenon DEF AnswersInv, Answered
<1>3. ~request.torn => \A st \in DOMAIN request.got :
          request.got[st] \in Answers(db, st, Asked, request.got)
  BY Zenon DEF AnswersInv, RequestInv, Results
<1> QED
  BY <1>1, <1>2, <1>3, Zenon DEF Told

LEMMA CohortsTold == ServerInv => CohortsAddUp
<1> SUFFICES ASSUME ServerInv, Complete, ask.report = "customers"
             PROVE  LET report == Customers!Report(Asked, request.got)
                    IN  /\ \A mode \in DOMAIN report : Customers!CohortsFit(report[mode])
                        /\ Customers!PaidOrdered(report.gross, report.paid)
  BY Zenon DEF CohortsAddUp
<1>1. PageForm /\ AnswersInv /\ ask \in Asks
  BY DEF ServerInv, PageInv, AnswersInv
<1>2. PICK a, got : a = Asked /\ got = request.got
  OBVIOUS
<1>3. a.report = "customers"
  BY <1>1, <1>2 DEF Asked, PageForm
<1>4. a.start \in Int /\ a.end \in Int
  BY <1>1, <1>2, <1>3, AskedPeriod DEF AsksDays, PeriodReports
<1>5. <<"bounds">> \in DOMAIN got => IsBounds(got[<<"bounds">>])
  BY <1>1, <1>2, <1>3, BoundsRead
<1>6. ASSUME Customers!HasData(got)
      PROVE  \E t : Legal(t) /\ got[<<"events">>] \in Customers!Execute(t, <<"events">>, a, got)
  <2>1. Statements = Customers!Statements(a, got)
    BY <1>2, <1>3 DEF Statements
  <2>2. Occurs(<<"events">>, Statements)
    BY <1>6, <2>1, CustomersList, Zenon
  <2>3. Told({<<"events">>})
    BY <1>1, <2>2, CompleteTold, Zenon
  <2>4. PICK t : Legal(t) /\ got[<<"events">>] \in Answers(t, <<"events">>, a, got)
    BY <1>2, <2>3, Zenon DEF Told
  <2>5. Answers(t, <<"events">>, a, got) = Customers!Execute(t, <<"events">>, a, got)
    BY <1>3 DEF Answers
  <2> QED
    BY <2>4, <2>5, Zenon
<1> HIDE DEF ServerInv
<1>7. LET report == Customers!Report(a, got)
      IN  /\ \A mode \in DOMAIN report : Customers!CohortsFit(report[mode])
          /\ Customers!PaidOrdered(report.gross, report.paid)
  BY <1>4, <1>5, <1>6, CustomersAddUp, Zenon
<1> QED
  BY <1>2, <1>7, Zenon

(* Who is new is new once: the cohorts of the customers, those that came   *)
(* back and the composition of the periods fit (customeranalytics/         *)
(* service.go, buildView), whatever is imported between the two            *)
(* statements of the report.                                               *)
THEOREM CustomersAreNewOnce == Spec => []CohortsAddUp
<1> QED
  BY ServerStart, ServerNext, CohortsTold, PTL DEF Spec

-----------------------------------------------------------------------------
(* Every report adds up.                                                   *)
LEMMA FunnelTold ==
    ASSUME ServerInv, Complete, Asked.report = "funnel"
    PROVE  /\ Funnel!StatementsAddUp(request.got) /\ Funnel!FiltersHold(Asked, request.got)
           /\ Funnel!Report(request.got).redeemedNet >= 0
           /\ ~request.torn => Funnel!ReportAddsUp(request.got)
<1>1. PageForm /\ AnswersInv /\ ask \in Asks
  BY DEF ServerInv, PageInv, AnswersInv
<1>2. PICK a, got : a = Asked /\ got = request.got
  OBVIOUS
<1>3. FunnelAsks \subseteq DOMAIN a.filters
  <2>1. DOMAIN a.filters = DOMAIN NoFilters
    BY <1>1, <1>2, AskedPeriod DEF PeriodReports
  <2> QED
    BY <2>1 DEF NoFilters, FunnelAsks
<1>4. Told(FunnelAsked)
  <2>1. Statements = Funnel!Statements(a, got)
    BY <1>2 DEF Statements
  <2>2. Holds(Statements, FunnelAsked)
    BY <2>1, FunnelList, Zenon
  <2> QED
    BY <1>1, <2>2, CompleteTold, Zenon DEF Holds
<1>5. \A t, st : Answers(t, st, a, got) = Funnel!Execute(t, st, a, got)
  BY <1>2 DEF Answers
<1>6. \A st \in FunnelAsked : \E t : Legal(t) /\ got[st] \in Funnel!Execute(t, st, a, got)
  BY <1>2, <1>4, <1>5, Zenon DEF Told
<1>7. ~request.torn => \A st \in FunnelAsked : got[st] \in Funnel!Execute(db, st, a, got)
  BY <1>2, <1>4, <1>5, Zenon DEF Told
<1>8. request.open => Legal(db)
  BY TablesLegal, <1>1 DEF ServerInv, AnswersInv, RequestInv
<1>9. Legal(db)
  BY <1>8 DEF Complete
<1>10. Funnel!StatementsAddUp(got) /\ Funnel!FiltersHold(a, got) /\ Funnel!Report(got).redeemedNet >= 0
  BY <1>3, <1>6, FunnelStatementsAddUp, Zenon
<1>11. ~request.torn => Funnel!ReportAddsUp(got)
  BY <1>7, <1>9, FunnelReportAddsUp, Zenon
<1> QED
  BY <1>2, <1>10, <1>11, Zenon

LEMMA ServesLegal ==
    ASSUME ServerInv, Complete
    PROVE  PageForm /\ AnswersInv /\ ask \in Asks /\ Legal(db)
<1>1. PageForm /\ AnswersInv /\ ask \in Asks
  BY DEF ServerInv, PageInv, AnswersInv
<1>2. request.open => Legal(db)
  BY TablesLegal, <1>1 DEF ServerInv, AnswersInv, RequestInv
<1> QED
  BY <1>1, <1>2 DEF Complete

LEMMA MetricsTold ==
    ASSUME ServerInv, Complete, Asked.report = "metrics"
    PROVE  /\ Metrics!StatementsAddUp(request.got) /\ Compared(Asked, request.got)
           /\ Metrics!Report(request.got).cur.kpi.stages.RedeemedNet.revenue >= 0
           /\ ~request.torn => Metrics!ReportAddsUp(request.got)
<1>1. PageForm /\ AnswersInv /\ ask \in Asks /\ Legal(db)
  BY ServesLegal
<1>2. PICK a, got : a = Asked /\ got = request.got
  OBVIOUS
<1>3. Told(MetricsAsked)
  <2>1. Statements = Metrics!Statements(a, got)
    BY <1>2 DEF Statements
  <2>2. Holds(Statements, MetricsAsked)
    BY <2>1, MetricsList, Zenon
  <2> QED
    BY <1>1, <2>2, CompleteTold, Zenon DEF Holds
<1>4. \A t, st : Answers(t, st, a, got) = Metrics!Execute(t, st, a, got)
  BY <1>2 DEF Answers
<1>5. \A st \in MetricsAsked : \E t : Legal(t) /\ got[st] \in Metrics!Execute(t, st, a, got)
  BY <1>2, <1>3, <1>4, Zenon DEF Told
<1>6. ~request.torn => \A st \in MetricsAsked : got[st] \in Metrics!Execute(db, st, a, got)
  BY <1>2, <1>3, <1>4, Zenon DEF Told
<1>7. Compared(a, got)
  <2>1. AsksDays(a) /\ (<<"dataBounds">> \in DOMAIN got => IsBounds(got[<<"dataBounds">>]))
    BY <1>1, <1>2, AskedPeriod, BoundsRead DEF PeriodReports
  <2> QED
    BY <2>1, RangesAre, Zenon DEF Compared
<1>8. /\ Metrics!StatementsAddUp(got)
      /\ Metrics!Report(got).cur.kpi.stages.RedeemedNet.revenue >= 0
  BY <1>5, MetricsStatementsAddUp, Zenon
<1>9. ~request.torn => Metrics!ReportAddsUp(got)
  BY <1>1, <1>6, MetricsReportAddsUp, Zenon
<1> QED
  BY <1>2, <1>7, <1>8, <1>9, Zenon

LEMMA LogisticsTold ==
    ASSUME ServerInv, Complete, Asked.report = "logistics"
    PROVE  /\ Logistics!StatementsAddUp(request.got)
           /\ ~request.torn => Logistics!ReportAddsUp(Asked, request.got)
<1>1. PageForm /\ AnswersInv /\ ask \in Asks /\ Legal(db)
  BY ServesLegal
<1>2. PICK a, got : a = Asked /\ got = request.got
  OBVIOUS
<1>3. Told(LogisticsAsked) /\ Told({<<"dataAsOf">>})
  <2>1. Statements = Logistics!Statements(a, got)
    BY <1>2 DEF Statements
  <2>2. Holds(Statements, LogisticsAsked) /\ Occurs(<<"dataAsOf">>, Statements)
    <3>1. Headed(Range(RangeStatements(a)) \cup {<<"dataAsOf">>}, Statements)
          /\ Holds(Statements, LogisticsAsked)
      BY <2>1, LogisticsList, Zenon
    <3> QED
      BY <3>1, Zenon DEF Headed
  <2> QED
    BY <1>1, <2>2, CompleteTold, Zenon DEF Holds
<1>4. \A t, st : Answers(t, st, a, got) = Logistics!Execute(t, st, a, got)
  BY <1>2 DEF Answers
<1>5. \A st \in LogisticsAsked : \E t : Legal(t) /\ got[st] \in Logistics!Execute(t, st, a, got)
  BY <1>2, <1>3, <1>4, Zenon DEF Told
<1>6. ~request.torn => \A st \in LogisticsAsked : got[st] \in Logistics!Execute(db, st, a, got)
  BY <1>2, <1>3, <1>4, Zenon DEF Told
<1>7. <<"dataAsOf">> \in DOMAIN got
  BY <1>2, <1>3, Zenon DEF Told
<1>8. /\ AsksDays(a) /\ (<<"dataBounds">> \in DOMAIN got => IsBounds(got[<<"dataBounds">>]))
      /\ got[<<"dataAsOf">>] \in Nat
  BY <1>1, <1>2, <1>7, AskedPeriod, BoundsRead DEF PeriodReports
<1>9. Logistics!StatementsAddUp(got)
  BY <1>5, <1>8, LogisticsStatementsAddUp, Zenon
<1>10. ~request.torn => Logistics!ReportAddsUp(a, got)
  BY <1>1, <1>6, <1>8, LogisticsReportAddsUp, Zenon
<1> QED
  BY <1>2, <1>9, <1>10, Zenon

LEMMA DynamicsTold ==
    ASSUME ServerInv, Complete, Asked.report = "dynamics"
    PROVE  /\ Logistics!SameWeeks(request.got)
           /\ ~request.torn => Logistics!BreakdownAddsUp(db, Asked, request.got)
<1>1. PageForm /\ AnswersInv /\ ask \in Asks /\ Legal(db)
  BY ServesLegal
<1>2. PICK a, got : a = Asked /\ got = request.got
  OBVIOUS
<1>3. Told(DynamicsAsked)
  <2>1. Statements = Logistics!BreakdownStatements(a, got)
    BY <1>2 DEF Statements
  <2>2. Holds(Statements, DynamicsAsked)
    BY <2>1, DynamicsList, Zenon
  <2> QED
    BY <1>1, <2>2, CompleteTold, Zenon DEF Holds
<1>4. \A t, st : Answers(t, st, a, got) = Logistics!Execute(t, st, a, got)
  BY <1>2 DEF Answers
<1>5. ~request.torn => \A st \in DynamicsAsked : got[st] \in Logistics!Execute(db, st, a, got)
  BY <1>2, <1>3, <1>4, Zenon DEF Told
<1>6. ~request.torn => Logistics!BreakdownAddsUp(db, a, got)
  BY <1>1, <1>5, DynamicsReportAddsUp, Zenon
<1> QED
  BY <1>2, <1>6, DynamicsSameWeeks, Zenon

LEMMA GoalTold ==
    ASSUME ServerInv, Complete, Asked.report = "goal"
    PROVE  Goal!StatementsAddUp(Asked, request.got)
<1>1. PageForm /\ AnswersInv /\ ask \in Asks /\ Legal(db)
  BY ServesLegal
<1>2. PICK a, got, X : a = Asked /\ got = request.got /\ X = GoalAsked(a, got)
  OBVIOUS
<1>3. Told(X)
  <2>1. Statements = Goal!Statements(a, got)
    BY <1>2 DEF Statements
  <2>2. \A st \in X : Occurs(st, Statements)
    BY <1>2, <2>1, GoalList, Zenon
  <2> QED
    BY <1>1, <2>2, CompleteTold, Zenon
<1>4. \A t, st : Answers(t, st, a, got) = Goal!Execute(t, st, a, got)
  BY <1>2 DEF Answers
<1>5. ASSUME NEW st \in X
      PROVE  \E t : Legal(t) /\ got[st] \in Goal!Execute(t, st, a, got)
  <2>1. PICK t : Legal(t) /\ request.got[st] \in Answers(t, st, Asked, request.got)
    BY <1>3, Zenon DEF Told
  <2>2. got[st] \in Answers(t, st, a, got)
    BY <1>2, <2>1, Zenon
  <2> QED
    BY <1>4, <2>1, <2>2, Zenon
<1>6. <<"bounds">> \in DOMAIN got => IsBounds(got[<<"bounds">>])
  BY <1>1, <1>2, BoundsRead
<1>7. a.year \in Int /\ a.month \in Int
  <2>1. Valid(a)
    BY <1>1, <1>2 DEF Complete, AnswersInv, RequestInv
  <2>2. a.year \in Years /\ a.month \in 1..MonthsPerYear
    BY <1>2, <2>1 DEF Valid, Target!Months
  <2>3. Years \subseteq Nat
    BY ReportAssumption, Zenon
  <2>4. MonthsPerYear \in Nat
    BY CalendarAssumption
  <2>5. ASSUME NEW y \in Years
        PROVE  y \in Int
    BY <2>3
  <2>6. ASSUME NEW m \in 1..MonthsPerYear
        PROVE  m \in Int
    BY <2>4
  <2> QED
    BY <2>2, <2>5, <2>6, Zenon
<1> QED
  BY <1>2, <1>5, <1>6, <1>7, GoalStatementsAddUp, Zenon

LEMMA AcquisitionTold ==
    ASSUME ServerInv, Complete, Asked.report = "acquisition", ~request.torn
    PROVE  Acquired!ReportAddsUp(db, Asked, request.got)
<1>1. PageForm /\ AnswersInv /\ ask \in Asks /\ Legal(db)
  BY ServesLegal
<1>2. PICK a, got : a = Asked /\ got = request.got
  OBVIOUS
<1>3. Told(AcquiredAsked)
  <2>1. Statements = Acquired!Statements(a, got)
    BY <1>2 DEF Statements
  <2>2. Holds(Statements, AcquiredAsked)
    BY <2>1, AcquiredList, Zenon
  <2> QED
    BY <1>1, <2>2, CompleteTold, Zenon DEF Holds
<1>4. \A t, st : Answers(t, st, a, got) = Acquired!Execute(t, st, a, got)
  BY <1>2 DEF Answers
<1>5. \A st \in AcquiredAsked : got[st] \in Acquired!Execute(db, st, a, got)
  BY <1>2, <1>3, <1>4, Zenon DEF Told
<1>6. AsksDays(a) /\ (<<"dataBounds">> \in DOMAIN got => IsBounds(got[<<"dataBounds">>]))
  BY <1>1, <1>2, AskedPeriod, BoundsRead DEF PeriodReports
<1>7. db.runs = runs /\ db.shop = shop
  BY DEF db
<1>8. ShopKept(db)
  <2>1. ASSUME NEW k \in DOMAIN runs, runs[k].status = "success",
               runs[k].source \in Range(EcomSources), NEW d \in runs[k].from..runs[k].to
        PROVE  \E row \in shop : row.day = d /\ row.channel = ChannelOf[runs[k].source]
    <3>1. InShop(shop, runs[k].source, runs[k].from, runs[k].to)
      BY <2>1 DEF ServerInv, ShopInv
    <3> QED
      BY <3>1 DEF InShop
  <2> QED
    BY <1>7, <2>1, Zenon DEF ShopKept
<1>9. \A k \in DOMAIN db.runs : db.runs[k].from \in Int /\ db.runs[k].to \in Int
  <2>1. runs \in Seq(Run)
    BY DEF ServerInv, SyncInv
  <2>2. \A k \in DOMAIN runs : runs[k] \in Run
    BY <2>1
  <2> QED
    BY <1>7, <2>2 DEF Run
<1>10. \A s \in Range(EcomSources) : ChannelOf[s] \in Acquired!Channels
  BY SyncAssumption DEF Acquired!Channels
<1> QED
  BY <1>1, <1>2, <1>5, <1>6, <1>8, <1>9, <1>10, AcquiredReportAddsUp, Zenon

LEMMA AnswersTold == ServerInv => AnswersAddUp
<1> SUFFICES ASSUME ServerInv, Complete
             PROVE  AnswersAddUp
  BY Zenon DEF AnswersAddUp
<1> USE Complete
<1>1. PICK r : r = Asked.report
  OBVIOUS
<1>2. CASE r = "funnel"
  BY <1>1, <1>2, FunnelTold DEF AnswersAddUp
<1>3. CASE r = "metrics"
  BY <1>1, <1>3, MetricsTold DEF AnswersAddUp
<1>4. CASE r = "logistics"
  BY <1>1, <1>4, LogisticsTold DEF AnswersAddUp
<1>5. CASE r = "dynamics"
  BY <1>1, <1>5, DynamicsTold DEF AnswersAddUp
<1>6. CASE r = "goal"
  BY <1>1, <1>6, GoalTold DEF AnswersAddUp
<1>7. CASE r = "acquisition"
  BY <1>1, <1>7, AcquisitionTold DEF AnswersAddUp
<1>8. CASE r \notin {"funnel", "metrics", "logistics", "dynamics", "goal", "acquisition"}
  BY <1>1, <1>8 DEF AnswersAddUp
<1> QED
  BY <1>2, <1>3, <1>4, <1>5, <1>6, <1>7, <1>8

(* Every report adds up (the Report methods of the services): within the   *)
(* answer of a statement whatever is imported meanwhile, and between its   *)
(* statements when nothing is.                                             *)
THEOREM ReportsAddUp == Spec => []AnswersAddUp
<1> QED
  BY ServerStart, ServerNext, AnswersTold, PTL DEF Spec

(* A report is answered from the tables the server serves, the statements  *)
(* others depend on first, and as long as nothing is written between two   *)
(* of them every answer is what the tables hold (handlers.go).             *)
THEOREM RequestsAreServed == Spec => []RequestInv
<1>1. ServerInv => RequestInv
  BY DEF ServerInv, AnswersInv
<1> QED
  BY <1>1, ServerStart, ServerNext, PTL DEF Spec

(* Every day of a sync that succeeded is stored (ecomsync/service.go): it  *)
(* stores before it says so, and what is stored stays.                     *)
THEOREM SyncedDaysAreStored == Spec => []ShopInv
<1>1. ServerInv => ShopInv
  BY DEF ServerInv
<1> QED
  BY <1>1, ServerStart, ServerNext, PTL DEF Spec
=============================================================================
