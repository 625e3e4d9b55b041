------------------------- MODULE OrderMerge_proofs -------------------------
(***************************************************************************)
(* Theorems about OrderMerge, for every pool size, batch size, start date, *)
(* set of orders, imports and files: its tables and its imports, and that  *)
(* its merges implement the atomic imports of OrderStore.                  *)
(***************************************************************************)
EXTENDS OrderMerge, SequenceTheorems, FiniteSetTheorems, Folds_proofs, TLAPS

(* What one snapshot makes of a row and of its items (repository.go,       *)
(* SaveBatch) has the types of the tables.                                 *)
LEMMA ApplyTypes ==
    ASSUME NEW s \in Snapshot, NEW i \in Imports
    PROVE  /\ InsertedRow(s, i) \in OrderRow
           /\ \A row \in OrderRow : UpdatedRow(row, s, i) \in OrderRow
           /\ \A old : ReplaceItems(old, s, i) = InsertedItems(s, i)
           /\ InsertedItems(s, i) \in Seq(ItemRow)
           /\ Len(InsertedItems(s, i)) = s.lines
<1>1. InsertedRow(s, i) \in OrderRow
  BY DEF InsertedRow, OrderRow, Snapshot
<1>2. \A row \in OrderRow : UpdatedRow(row, s, i) \in OrderRow
  BY DEF UpdatedRow, OrderRow, Snapshot, Coalesce, NoTime, Time
<1>3. /\ InsertedItems(s, i) \in Seq(ItemRow)
      /\ Len(InsertedItems(s, i)) = s.lines
  <2>1. s.lines \in Nat /\ s.content \in Contents
    BY DEF Snapshot
  <2>2. \A k \in 1..s.lines :
            [content |-> s.content, line |-> k, import |-> i] \in ItemRow
    BY <2>1 DEF ItemRow
  <2> QED
    BY <2>1, <2>2 DEF InsertedItems
<1>4. \A old : ReplaceItems(old, s, i) = InsertedItems(s, i)
  BY <1>3 DEF ReplaceItems
<1> QED
  BY <1>1, <1>2, <1>3, <1>4

(* rowsTotal goes up by one with every row that Stream yields.             *)
LEMMA OneMoreRow ==
    ASSUME TypeOK, NEW i \in Imports
    PROVE  [counts EXCEPT ![i].rows = @ + 1] \in [Imports -> Counters]
<1>1. counts[i] \in Counters
  BY DEF TypeOK
<1>2. [counts[i] EXCEPT !.rows = counts[i].rows + 1] \in Counters
  BY <1>1 DEF Counters
<1> QED
  BY <1>2 DEF TypeOK

(* The counters of a Merge stay counters when an order is saved.           *)
LEMMA MoreCounts ==
    ASSUME NEW n \in Counters, NEW a \in Nat, NEW u \in Nat, NEW t \in Nat
    PROVE  [n EXCEPT !.added = a, !.updated = u, !.items = t] \in Counters
BY DEF Counters

(* SaveBatch takes the first order of a batch and leaves the others in     *)
(* their order.                                                            *)
LEMMA HeadOfBatch ==
    ASSUME TypeOK, NEW i \in Imports, Saving(i)
    PROVE  /\ Head(batch[i]) \in Snapshot
           /\ Tail(batch[i]) \in Seq(Snapshot)
           /\ Len(batch[i]) \in Nat
           /\ Len(Tail(batch[i])) = Len(batch[i]) - 1
           /\ \A k \in 1..Len(Tail(batch[i])) : Tail(batch[i])[k] = batch[i][k + 1]
BY HeadTailProperties, LenProperties DEF TypeOK, Saving

(* A call of Import that returns leaves its locals with their types.       *)
LEMMA ReturnTypes ==
    ASSUME TypeOK, NEW S \in SUBSET Imports,
           NEW outcome \in {"committed", "failed"}, Return(S, outcome)
    PROVE  /\ pc' \in [Imports -> {"idle", "waiting", "parsing", "saving",
                                   "committed", "failed"}]
           /\ pos' \in [Imports -> Nat]
           /\ batch' \in [Imports -> Seq(Snapshot)]
           /\ counts' \in [Imports -> Counters]
           /\ txOrders' \in [Imports -> [Orders -> OrderRow \cup {NoRow}]]
           /\ txItems' \in [Imports -> [Orders -> Seq(ItemRow)]]
<1>1. ZeroCounts \in Counters
  BY DEF ZeroCounts, Counters
<1>2. NoWrites \in [Orders -> OrderRow \cup {NoRow}]
  BY DEF NoWrites
<1>3. NoItems \in [Orders -> Seq(ItemRow)]
  BY DEF NoItems
<1> QED
  BY <1>1, <1>2, <1>3 DEF TypeOK, Return

(* The empty database and the idle requests have the types.                *)
LEMMA TypeInit == Init => TypeOK
BY DEF Init, TypeOK, NoWrites, NoItems, ZeroCounts, Counters

(* Every step of an import keeps the types.                                *)
LEMMA TypeNext == TypeOK /\ [Next]_vars => TypeOK'
<1> SUFFICES ASSUME TypeOK, [Next]_vars PROVE TypeOK'
  OBVIOUS
<1> USE SnapshotsAssumption, MergeAssumption
<1>1. ASSUME NEW i \in Imports, NEW f \in Files, Receive(i, f)
      PROVE  TypeOK'
  BY <1>1 DEF Receive, TypeOK, tables, tx
<1>2. ASSUME NEW i \in Imports, Begin(i)
      PROVE  TypeOK'
  BY <1>2 DEF Begin, TypeOK, tables, tx
<1>3. ASSUME NEW i \in Imports, YieldOther(i)
      PROVE  TypeOK'
  <2>1. counts' \in [Imports -> Counters]
    BY <1>3, OneMoreRow DEF YieldOther
  <2>2. pos' \in [Imports -> Nat]
    BY <1>3 DEF YieldOther, TypeOK
  <2> QED
    BY <1>3, <2>1, <2>2 DEF YieldOther, TypeOK, tables, tx
<1>4. ASSUME NEW i \in Imports, YieldOrder(i)
      PROVE  TypeOK'
  <2>1. NextRecord(i) \in Snapshot
    <3>1. pos[i] + 1 \in 1..Len(file[i]) /\ file[i] \in Seq(Record)
      BY <1>4 DEF YieldOrder, TypeOK
    <3>2. NextRecord(i) \in Record
      BY <3>1, ElementOfSeq DEF NextRecord
    <3> QED
      BY <1>4, <3>2 DEF YieldOrder, Record, Snapshot
  <2>2. batch' \in [Imports -> Seq(Snapshot)]
    BY <1>4, <2>1 DEF YieldOrder, TypeOK
  <2>3. counts' \in [Imports -> Counters]
    BY <1>4, OneMoreRow DEF YieldOrder
  <2>4. pos' \in [Imports -> Nat]
    BY <1>4 DEF YieldOrder, TypeOK
  <2>5. pc' \in [Imports -> {"idle", "waiting", "parsing", "saving",
                             "committed", "failed"}]
    BY <1>4 DEF YieldOrder, TypeOK
  <2> QED
    BY <1>4, <2>2, <2>3, <2>4, <2>5 DEF YieldOrder, TypeOK, tables, tx
<1>5. ASSUME NEW S \in SUBSET Imports, Abort(S)
      PROVE  TypeOK'
  BY <1>5, ReturnTypes DEF Abort, TypeOK, tables
<1>6. ASSUME NEW i \in Imports, Saving(i), NextOfBatch(i)
      PROVE  /\ batch' \in [Imports -> Seq(Snapshot)]
             /\ pc' \in [Imports -> {"idle", "waiting", "parsing", "saving",
                                     "committed", "failed"}]
  BY <1>6, HeadOfBatch DEF NextOfBatch, TypeOK
<1>7. ASSUME NEW i \in Imports, SaveOrder(i)
      PROVE  TypeOK'
  <2> DEFINE s == Head(batch[i])
             old == Row(i, s.order)
             new == IF old = NoRow THEN InsertedRow(s, i) ELSE UpdatedRow(old, s, i)
  <2>1. s \in Snapshot /\ s.order \in Orders /\ s.lines \in Nat
    BY <1>7, HeadOfBatch DEF SaveOrder, Snapshot
  <2>2. old \in OrderRow \cup {NoRow}
    BY <2>1 DEF Row, TypeOK
  <2>3. new \in OrderRow
    BY <2>1, <2>2, ApplyTypes
  <2>4. txOrders' \in [Imports -> [Orders -> OrderRow \cup {NoRow}]]
    BY <1>7, <2>1, <2>3 DEF SaveOrder, TypeOK
  <2>5. txItems' \in [Imports -> [Orders -> Seq(ItemRow)]]
    <3>1. ReplaceItems(Items(i, s.order), s, i) \in Seq(ItemRow)
      BY <2>1, ApplyTypes
    <3> QED
      BY <1>7, <2>1, <3>1 DEF SaveOrder, TypeOK
  <2>6. counts' \in [Imports -> Counters]
    <3> DEFINE n == counts[i]
               a == IF old = NoRow THEN n.added + 1 ELSE n.added
               u == IF old = NoRow THEN n.updated ELSE n.updated + 1
    <3>1. n \in Counters
      BY DEF TypeOK
    <3>2. a \in Nat /\ u \in Nat /\ n.items + s.lines \in Nat
      <4>1. n.added \in Nat /\ n.updated \in Nat /\ n.items \in Nat
        BY <3>1 DEF Counters
      <4> HIDE DEF s, old, n
      <4>2. CASE old = NoRow
        BY <2>1, <4>1, <4>2
      <4>3. CASE old # NoRow
        BY <2>1, <4>1, <4>3
      <4> QED
        BY <4>2, <4>3
    <3>3. [n EXCEPT !.added = a, !.updated = u, !.items = n.items + s.lines]
             \in Counters
      BY <3>1, <3>2, MoreCounts
    <3>4. counts' = [counts EXCEPT ![i] =
             [n EXCEPT !.added = a, !.updated = u, !.items = n.items + s.lines]]
      BY <1>7 DEF SaveOrder, TypeOK
    <3> QED
      BY <3>3, <3>4 DEF TypeOK
  <2> QED
    BY <1>6, <1>7, <2>4, <2>5, <2>6 DEF SaveOrder, TypeOK, tables
<1>8. ASSUME NEW i \in Imports, SkipOrder(i)
      PROVE  TypeOK'
  <2>1. counts' \in [Imports -> Counters]
    <3>1. counts[i] \in Counters
      BY DEF TypeOK
    <3>2. [counts[i] EXCEPT !.skipped = counts[i].skipped + 1] \in Counters
      BY <3>1 DEF Counters
    <3> QED
      BY <1>8, <3>2 DEF SkipOrder, TypeOK
  <2> QED
    BY <1>6, <1>8, <2>1 DEF SkipOrder, TypeOK, tables, tx
<1>9. ASSUME NEW i \in Imports, FlushRest(i)
      PROVE  TypeOK'
  BY <1>9 DEF FlushRest, TypeOK, tables, tx
<1>10. ASSUME NEW i \in Imports, Complete(i)
       PROVE  TypeOK'
  <2>1. /\ orders' \in [Orders -> OrderRow \cup {NoRow}]
        /\ items' \in [Orders -> Seq(ItemRow)]
        /\ rawImport' \in [Imports -> Counters \cup {NoRow}]
    BY <1>10 DEF Complete, TypeOK, Row, Items
  <2> QED
    BY <1>10, <2>1, ReturnTypes DEF Complete, TypeOK
<1>11. CASE UNCHANGED vars
  BY <1>11 DEF TypeOK, vars, tables, tx
<1>12. ASSUME NEW i \in Imports, RejectOld(i) \/ RejectEmpty(i) \/ Fail(i) \/ DeadlockAbort(i)
       PROVE  TypeOK'
  BY <1>5, <1>12 DEF RejectOld, RejectEmpty, Fail, DeadlockAbort
<1>13. CASE Crash
  BY <1>5, <1>13 DEF Crash, InFlight
<1> QED
  BY <1>1, <1>2, <1>3, <1>4, <1>7, <1>8, <1>9, <1>10, <1>11, <1>12, <1>13
     DEF Next, Step

(* The variables keep their types in every behaviour.                      *)
THEOREM TypeCorrect == Spec => []TypeOK
BY TypeInit, TypeNext, PTL DEF Spec

-----------------------------------------------------------------------------
(* Steps that change neither the tables nor what a transaction wrote.      *)
LEMMA QuietSteps ==
    ASSUME NEW i \in Imports,
           \/ \E f \in Files : Receive(i, f)
           \/ Begin(i) \/ YieldOther(i) \/ YieldOrder(i)
           \/ SkipOrder(i) \/ FlushRest(i)
    PROVE  UNCHANGED <<tables, tx>>
BY DEF Receive, Begin, YieldOther, YieldOrder, SkipOrder, FlushRest

(* Every step is quiet, writes one order, aborts, or commits one import.   *)
LEMMA StepKinds ==
    ASSUME [Next]_vars
    PROVE  \/ UNCHANGED <<tables, tx>>
           \/ \E i \in Imports : SaveOrder(i)
           \/ \E S \in SUBSET Imports : Abort(S)
           \/ \E i \in Imports : Complete(i)
<1>1. ASSUME NEW i \in Imports, Step(i)
      PROVE  \/ UNCHANGED <<tables, tx>>
             \/ SaveOrder(i)
             \/ Abort({i})
             \/ Complete(i)
  BY <1>1, QuietSteps DEF Step, RejectOld, RejectEmpty
<1>2. ASSUME NEW i \in Imports, Fail(i) \/ DeadlockAbort(i)
      PROVE  Abort({i})
  BY <1>2 DEF Fail, DeadlockAbort
<1>3. Crash => Abort(InFlight) /\ InFlight \in SUBSET Imports
  BY DEF Crash, InFlight
<1>4. UNCHANGED vars => UNCHANGED <<tables, tx>>
  BY DEF vars
<1> QED
  BY <1>1, <1>2, <1>3, <1>4, QuietSteps DEF Next

(* The rows written by an aborted or committed transaction are dropped.    *)
LEMMA WritesAfterReturn ==
    ASSUME NEW S \in SUBSET Imports, NEW outcome, Return(S, outcome),
           NEW j \in Imports, NEW o \in Orders
    PROVE  /\ Wrote(j, o)' => Wrote(j, o) /\ j \notin S
           /\ Wrote(j, o)' => /\ txOrders'[j][o] = txOrders[j][o]
                              /\ txItems'[j][o] = txItems[j][o]
BY DEF Return, Wrote, NoWrites

-----------------------------------------------------------------------------
(* An order and its positions always come from the same snapshot, in the   *)
(* tables and in every open transaction.                                   *)
THEOREM ItemsFollowOrders == Spec => [](ItemsMatchOrder /\ WritesMatch)
<1> DEFINE Inv == ItemsMatchOrder /\ WritesMatch
<1>1. Init => Inv
  BY DEF Init, ItemsMatchOrder, WritesMatch, SameSnapshot, NoWrites, NoItems, Wrote
<1>2. TypeOK /\ Inv /\ [Next]_vars => Inv'
  <2> SUFFICES ASSUME TypeOK, Inv, [Next]_vars PROVE Inv'
    OBVIOUS
  <2> USE SnapshotsAssumption
  <2>1. CASE UNCHANGED <<tables, tx>>
    BY <2>1 DEF ItemsMatchOrder, WritesMatch, SameSnapshot, Wrote, tables, tx
  <2>2. ASSUME NEW i \in Imports, SaveOrder(i) PROVE Inv'
    <3> DEFINE s == Head(batch[i])
               old == Row(i, s.order)
               new == IF old = NoRow THEN InsertedRow(s, i) ELSE UpdatedRow(old, s, i)
    <3>1. s \in Snapshot /\ s.order \in Orders
      BY <2>2, HeadOfBatch DEF SaveOrder, Snapshot
    <3>2. SameSnapshot(new, InsertedItems(s, i))
      <4>1. new \in OrderRow /\ new # NoRow
        BY <3>1, ApplyTypes DEF Row, TypeOK
      <4>2. new.lines = s.lines /\ new.content = s.content /\ new.import = i
        BY DEF InsertedRow, UpdatedRow
      <4>3. s.lines \in Nat
        BY <3>1 DEF Snapshot
      <4> QED
        BY <3>1, <4>1, <4>2, <4>3, ApplyTypes DEF SameSnapshot, InsertedItems
    <3>3. /\ txOrders' = [txOrders EXCEPT ![i][s.order] = new]
          /\ txItems' = [txItems EXCEPT ![i][s.order] = InsertedItems(s, i)]
      BY <2>2, <3>1, ApplyTypes DEF SaveOrder
    <3>4. WritesMatch'
      BY <3>1, <3>2, <3>3 DEF WritesMatch, Wrote, TypeOK
    <3>5. ItemsMatchOrder'
      BY <2>2 DEF SaveOrder, tables, ItemsMatchOrder, SameSnapshot
    <3> QED
      BY <3>4, <3>5
  <2>3. ASSUME NEW S \in SUBSET Imports, Abort(S) PROVE Inv'
    BY <2>3, WritesAfterReturn
       DEF Abort, ItemsMatchOrder, WritesMatch, SameSnapshot, tables
  <2>4. ASSUME NEW i \in Imports, Complete(i) PROVE Inv'
    <3>1. ItemsMatchOrder'
      BY <2>4 DEF Complete, Row, Items, ItemsMatchOrder, WritesMatch
    <3>2. WritesMatch'
      BY <2>4, WritesAfterReturn DEF Complete, WritesMatch, SameSnapshot
    <3> QED
      BY <3>1, <3>2
  <2> QED
    BY <2>1, <2>2, <2>3, <2>4, StepKinds
<1> QED
  BY <1>1, <1>2, TypeCorrect, PTL DEF Spec

-----------------------------------------------------------------------------
(* The inductive invariant: what the tables say of committed files, and    *)
(* what the open transactions have read, hold in their batch and have      *)
(* written.                                                                *)
IInv == TypeOK /\ MergeInv /\ NewestSnapshotWins

(* The snapshots of an order are the records of committed files that name  *)
(* it.                                                                     *)
LEMMA InSnapshots ==
    ASSUME NEW o, NEW s
    PROVE  s \in SnapshotsOf(o) <=>
             \E i \in Committed : \E k \in DOMAIN file[i] : s = file[i][k] /\ s.order = o
BY DEF SnapshotsOf

(* What is read from a file and waits in a batch is a record with its      *)
(* times.                                                                  *)
LEMMA FileRecords ==
    ASSUME TypeOK, NEW i \in Imports, NEW k \in 1..Len(file[i])
    PROVE  /\ file[i][k] \in Record
           /\ file[i][k].updated \in Nat
           /\ file[i][k].order \in Orders \cup {NoOrder}
           /\ DOMAIN file[i] = 1..Len(file[i])
           /\ Len(file[i]) \in Nat
<1>1. file[i] \in Seq(Record)
  BY DEF TypeOK
<1>2. file[i][k] \in Record
  BY <1>1, ElementOfSeq
<1> QED
  BY <1>1, <1>2, LenProperties DEF Record, Time

(* The row that a transaction sees, its own or the committed one, has the  *)
(* type of a row.                                                          *)
LEMMA RowTypes ==
    ASSUME TypeOK, NEW i \in Imports, NEW o \in Orders
    PROVE  /\ Row(i, o) \in OrderRow \cup {NoRow}
           /\ Row(i, o) # NoRow => /\ Row(i, o) \in OrderRow
                                   /\ Row(i, o).updated \in Nat
                                   /\ Row(i, o).created \in Nat
           /\ orders[o] # NoRow => /\ orders[o] \in OrderRow
                                   /\ orders[o].updated \in Nat
                                   /\ orders[o].created \in Nat
           /\ Wrote(i, o) => Row(i, o) = txOrders[i][o]
           /\ ~Wrote(i, o) => Row(i, o) = orders[o]
<1>1. orders[o] \in OrderRow \cup {NoRow}
  BY DEF TypeOK
<1>2. txOrders[i][o] \in OrderRow \cup {NoRow}
  BY DEF TypeOK
<1>3. \A r \in OrderRow : r.updated \in Nat /\ r.created \in Nat
  BY DEF OrderRow, Time
<1> QED
  BY <1>1, <1>2, <1>3 DEF Row, Wrote

(* The row a transaction sees is never older than the committed one.       *)
LEMMA RowGrows ==
    ASSUME TypeOK, WritesNewer, NEW i \in Imports, NEW o \in Orders, orders[o] # NoRow
    PROVE  /\ Row(i, o) # NoRow
           /\ Row(i, o).updated >= orders[o].updated
           /\ orders[o].created # NoTime => Row(i, o).created # NoTime
BY RowTypes DEF WritesNewer, Wrote

(* What SaveOrder makes of a row: it keeps up with the snapshot and with   *)
(* the row, and it repeats the snapshot.                                   *)
LEMMA AcceptedRow ==
    ASSUME NEW s \in Snapshot, NEW i \in Imports, NEW row \in OrderRow \cup {NoRow},
           row # NoRow => Accepts(row, s),
           NEW new, new = IF row = NoRow THEN InsertedRow(s, i) ELSE UpdatedRow(row, s, i)
    PROVE  /\ new \in OrderRow
           /\ new # NoRow
           /\ s.updated <= new.updated
           /\ SaidBy(s, new)
           /\ row # NoRow => /\ row.updated <= new.updated
                             /\ row.created # NoTime => new.created # NoTime
<1> USE SnapshotsAssumption
<1>1. new \in OrderRow
  BY ApplyTypes
<1>2. CASE row = NoRow
  BY <1>1, <1>2 DEF InsertedRow, SaidBy, Snapshot, Time
<1>3. CASE row # NoRow
  <2>1. row \in OrderRow
    BY <1>3
  <2> QED
    BY <1>1, <1>3, <2>1
       DEF UpdatedRow, SaidBy, Snapshot, OrderRow, Time, NoTime, Accepts, Coalesce
<1> QED
  BY <1>2, <1>3

(* NewestSnapshotWins only looks at the tables and at the committed files. *)
LEMMA TablesKept ==
    ASSUME NewestSnapshotWins, UNCHANGED tables,
           \A j \in Committed : file'[j] = file[j]
    PROVE  NewestSnapshotWins'
<1>1. Committed' = Committed
  BY DEF Committed, tables
<1>2. \A o : SnapshotsOf(o)' = SnapshotsOf(o)
  BY <1>1 DEF SnapshotsOf
<1> QED
  BY <1>2 DEF NewestSnapshotWins, SaidBy, tables

(* A new request has read and written nothing yet.                         *)
LEMMA ReceiveKeeps ==
    ASSUME IInv, NEW i \in Imports, NEW f \in Files, Receive(i, f)
    PROVE  MergeInv' /\ NewestSnapshotWins'
<1> USE SnapshotsAssumption
<1>1. /\ pos[i] = 0 /\ txOrders[i] = NoWrites /\ rawImport[i] = NoRow
      /\ UNCHANGED <<tables, pos, batch, counts, tx>>
      /\ file' = [file EXCEPT ![i] = f]
      /\ pc' = [pc EXCEPT ![i] = "waiting"]
  BY DEF Receive, IInv, MergeInv, FreshRequests
<1>2. \A j \in Imports : j # i => file'[j] = file[j]
  BY <1>1 DEF IInv, TypeOK
<1>3. NewestSnapshotWins'
  BY <1>1, <1>2, TablesKept DEF IInv, Committed
<1>4. /\ \A j \in Imports, o \in Orders :
             Row(j, o)' = Row(j, o) /\ (Wrote(j, o)' <=> Wrote(j, o))
      /\ \A o \in Orders : ~Wrote(i, o)
  BY <1>1 DEF Row, Wrote, tables, tx, NoWrites
<1>5. OneWriter' /\ WritesNewer'
  BY <1>1, <1>4 DEF IInv, MergeInv, OneWriter, WritesNewer, tables, tx
<1>6. AllAccounted'
  <2> SUFFICES ASSUME NEW j \in Imports PROVE ReadAccounted(j)'
    BY DEF AllAccounted
  <2>1. CASE j = i
    <3>1. pos'[j] = 0 /\ f \in Seq(Record) /\ file'[j] = f
      BY <1>1, <2>1 DEF IInv, TypeOK
    <3>2. Len(f) \in Nat
      BY <3>1, LenProperties
    <3> QED
      BY <3>1, <3>2 DEF ReadAccounted
  <2>2. CASE j # i
    BY <1>1, <1>2, <2>2
       DEF IInv, MergeInv, AllAccounted, ReadAccounted, Accounted, Row, Wrote, tables, tx
  <2> QED
    BY <2>1, <2>2
<1>7. BatchFromFile'
  <2> SUFFICES ASSUME NEW j \in Imports, NEW b \in 1..Len(batch'[j])
               PROVE  \E k \in 1..pos'[j] : file'[j][k] = batch'[j][b]
    BY DEF BatchFromFile
  <2>1. \E k \in 1..pos[j] : file[j][k] = batch[j][b]
    BY <1>1 DEF IInv, MergeInv, BatchFromFile
  <2> QED
    BY <1>1, <1>2, <2>1
<1>8. WritesFromFile'
  BY <1>1, <1>2, <1>4 DEF IInv, MergeInv, WritesFromFile, SaidBy, tx
<1>9. FreshRequests'
  BY <1>1 DEF IInv, MergeInv, FreshRequests, tables, tx, TypeOK
<1> QED
  BY <1>3, <1>5, <1>6, <1>7, <1>8, <1>9 DEF MergeInv

(* A record is read: it is no order, or it joins the batch.                *)
LEMMA YieldKeeps ==
    ASSUME IInv, NEW i \in Imports, YieldOther(i) \/ YieldOrder(i)
    PROVE  MergeInv' /\ NewestSnapshotWins'
<1>1. /\ UNCHANGED <<tables, tx, file>>
      /\ pos' = [pos EXCEPT ![i] = @ + 1]
      /\ pos[i] < Len(file[i])
      /\ \A j \in Imports : pc'[j] = "idle" => pc[j] = "idle" /\ j # i
  BY DEF YieldOther, YieldOrder, IInv, TypeOK
<1>2. pos[i] \in Nat /\ pos'[i] = pos[i] + 1 /\ pos'[i] <= Len(file[i])
  BY <1>1, LenProperties DEF IInv, TypeOK
<1>3. \A j \in Imports \ {i} : pos'[j] = pos[j] /\ batch'[j] = batch[j]
  BY <1>1 DEF YieldOther, YieldOrder, IInv, TypeOK
<1>4. /\ Len(batch[i]) \in Nat
      /\ Len(batch'[i]) \in Nat
      /\ Len(batch'[i]) >= Len(batch[i])
      /\ \A b \in 1..Len(batch[i]) : batch'[i][b] = batch[i][b]
      /\ \A b \in 1..Len(batch'[i]) :
            b \in 1..Len(batch[i]) \/ batch'[i][b] = NextRecord(i)
      /\ NextRecord(i).order # NoOrder =>
            \E b \in 1..Len(batch'[i]) : batch'[i][b] = NextRecord(i)
  <2>1. batch[i] \in Seq(Snapshot) /\ Len(batch[i]) \in Nat
    BY LenProperties DEF IInv, TypeOK
  <2>2. CASE YieldOther(i)
    BY <2>1, <2>2 DEF YieldOther
  <2>3. CASE YieldOrder(i)
    <3>1. batch'[i] = Append(batch[i], NextRecord(i))
      BY <2>3 DEF YieldOrder, IInv, TypeOK
    <3>2. /\ Len(batch'[i]) = Len(batch[i]) + 1
          /\ batch'[i][Len(batch[i]) + 1] = NextRecord(i)
          /\ \A b \in 1..Len(batch[i]) : batch'[i][b] = batch[i][b]
      BY <2>1, <3>1
    <3> QED
      BY <2>1, <3>2
  <2> QED
    BY <2>2, <2>3
<1>5. NewestSnapshotWins'
  BY <1>1, TablesKept DEF IInv
<1>6. OneWriter' /\ WritesNewer'
  BY <1>1 DEF IInv, MergeInv, OneWriter, WritesNewer, Wrote, tables, tx
<1>7. \A j \in Imports : \A o : Row(j, o)' = Row(j, o)
  BY <1>1 DEF Row, Wrote, tables, tx
<1>8. AllAccounted'
  <2> SUFFICES ASSUME NEW j \in Imports PROVE ReadAccounted(j)'
    BY DEF AllAccounted
  <2>1. CASE j = i
    <3>1. ASSUME NEW k \in 1..pos'[i], file[i][k].order # NoOrder
          PROVE  \/ \E b \in 1..Len(batch'[i]) : batch'[i][b] = file[i][k]
                 \/ /\ Row(i, file[i][k].order) # NoRow
                    /\ file[i][k].updated <= Row(i, file[i][k].order).updated
      <4>1. CASE k \in 1..pos[i]
        <5>1. Accounted(i, file[i][k])
          BY <3>1, <4>1 DEF IInv, MergeInv, AllAccounted, ReadAccounted
        <5> QED
          BY <1>4, <5>1 DEF Accounted
      <4>2. CASE k = pos[i] + 1
        BY <1>4, <3>1, <4>2 DEF NextRecord
      <4> QED
        BY <1>2, <4>1, <4>2
    <3> QED
      BY <1>1, <1>2, <1>7, <2>1, <3>1 DEF ReadAccounted, Accounted
  <2>2. CASE j # i
    BY <1>1, <1>3, <1>7, <2>2
       DEF IInv, MergeInv, AllAccounted, ReadAccounted, Accounted
  <2> QED
    BY <2>1, <2>2
<1>9. BatchFromFile'
  <2> SUFFICES ASSUME NEW j \in Imports, NEW b \in 1..Len(batch'[j])
               PROVE  \E k \in 1..pos'[j] : file[j][k] = batch'[j][b]
    BY <1>1 DEF BatchFromFile
  <2>1. CASE j = i /\ b \notin 1..Len(batch[i])
    BY <1>2, <1>4, <2>1 DEF NextRecord
  <2>2. CASE j # i \/ b \in 1..Len(batch[i])
    <3>1. batch'[j][b] = batch[j][b] /\ b \in 1..Len(batch[j])
      BY <1>3, <1>4, <2>2
    <3>2. PICK k \in 1..pos[j] : file[j][k] = batch[j][b]
      BY <3>1 DEF IInv, MergeInv, BatchFromFile
    <3>3. k \in 1..pos'[j]
      BY <1>2, <1>3
    <3> QED
      BY <3>1, <3>2, <3>3
  <2> QED
    BY <2>1, <2>2
<1>10. WritesFromFile'
  <2> SUFFICES ASSUME NEW j \in Imports, NEW o \in Orders, Wrote(j, o)
               PROVE  \E k \in 1..pos'[j] :
                         file[j][k].order = o /\ SaidBy(file[j][k], txOrders[j][o])
    BY <1>1 DEF WritesFromFile, Wrote, SaidBy, tx
  <2>1. PICK k \in 1..pos[j] :
               file[j][k].order = o /\ SaidBy(file[j][k], txOrders[j][o])
    BY DEF IInv, MergeInv, WritesFromFile
  <2>2. k \in 1..pos'[j]
    BY <1>2, <1>3
  <2> QED
    BY <2>1, <2>2
<1>11. FreshRequests'
  BY <1>1, <1>3 DEF IInv, MergeInv, FreshRequests, tables, tx
<1> QED
  BY <1>5, <1>6, <1>8, <1>9, <1>10, <1>11 DEF MergeInv

(* Steps that only move the program counter.                               *)
LEMMA MoveKeeps ==
    ASSUME IInv, UNCHANGED <<tables, tx, file, pos, batch>>,
           \A j \in Imports : pc'[j] = "idle" => pc[j] = "idle"
    PROVE  MergeInv' /\ NewestSnapshotWins'
<1>1. NewestSnapshotWins'
  BY TablesKept DEF IInv
<1>2. OneWriter' /\ WritesNewer' /\ BatchFromFile' /\ WritesFromFile'
  BY DEF IInv, MergeInv, OneWriter, WritesNewer, BatchFromFile, WritesFromFile,
         Wrote, SaidBy, tables, tx
<1>3. AllAccounted'
  BY DEF IInv, MergeInv, AllAccounted, ReadAccounted, Accounted, Row, Wrote, tables, tx
<1>4. FreshRequests'
  BY DEF IInv, MergeInv, FreshRequests, tables, tx
<1> QED
  BY <1>1, <1>2, <1>3, <1>4 DEF MergeInv

(* Rolled-back transactions only lose what they wrote.                     *)
LEMMA AbortKeeps ==
    ASSUME IInv, NEW S \in SUBSET Imports, Abort(S)
    PROVE  MergeInv' /\ NewestSnapshotWins'
<1>1. /\ UNCHANGED <<tables, file>>
      /\ \A j \in S : pos'[j] = 0 /\ batch'[j] = <<>> /\ pc'[j] = "failed"
      /\ \A j \in Imports \ S :
            /\ pos'[j] = pos[j] /\ batch'[j] = batch[j] /\ pc'[j] = pc[j]
            /\ txOrders'[j] = txOrders[j]
  BY DEF Abort, Return
<1>2. \A j \in Imports, o \in Orders :
         Wrote(j, o)' => Wrote(j, o) /\ j \notin S /\ txOrders'[j][o] = txOrders[j][o]
  BY WritesAfterReturn DEF Abort
<1>3. NewestSnapshotWins'
  BY <1>1, TablesKept DEF IInv
<1>4. OneWriter' /\ WritesNewer'
  BY <1>1, <1>2 DEF IInv, MergeInv, OneWriter, WritesNewer, tables
<1>5. AllAccounted'
  <2> SUFFICES ASSUME NEW j \in Imports PROVE ReadAccounted(j)'
    BY DEF AllAccounted
  <2>1. CASE j \in S
    <3>1. Len(file[j]) \in Nat
      BY LenProperties DEF IInv, TypeOK
    <3> QED
      BY <1>1, <2>1, <3>1 DEF ReadAccounted
  <2>2. CASE j \notin S
    BY <1>1, <2>2 DEF IInv, MergeInv, AllAccounted, ReadAccounted, Accounted,
                      Row, Wrote, tables
  <2> QED
    BY <2>1, <2>2
<1>6. BatchFromFile'
  <2>1. \A j \in S : Len(batch'[j]) = 0
    BY <1>1
  <2> QED
    BY <1>1, <2>1 DEF IInv, MergeInv, BatchFromFile
<1>7. WritesFromFile'
  BY <1>1, <1>2 DEF IInv, MergeInv, WritesFromFile, SaidBy
<1>8. FreshRequests'
  BY <1>1 DEF IInv, MergeInv, FreshRequests, tables
<1> QED
  BY <1>3, <1>4, <1>5, <1>6, <1>7, <1>8 DEF MergeInv

(* The head of the batch is dealt with: afterwards the row that the        *)
(* transaction sees is as new as it, and no row it sees has become older.  *)
LEMMA BatchStepKeeps ==
    ASSUME IInv, NEW i \in Imports, Saving(i), NextOfBatch(i),
           UNCHANGED <<tables, file, pos>>,
           \A j \in Imports, o \in Orders :
              Row(j, o) # NoRow =>
                 Row(j, o)' # NoRow /\ Row(j, o).updated <= Row(j, o)'.updated,
           \A j \in Imports, o \in Orders : Row(j, o)' # NoRow => Row(j, o)'.updated \in Nat,
           NEW s, s = Head(batch[i]),
           Row(i, s.order)' # NoRow,
           s.updated <= Row(i, s.order)'.updated
    PROVE  AllAccounted' /\ BatchFromFile'
<1>1. /\ batch'[i] = Tail(batch[i])
      /\ \A j \in Imports \ {i} : batch'[j] = batch[j]
  BY DEF NextOfBatch, IInv, TypeOK
<1>2. /\ Len(batch[i]) \in Nat
      /\ Len(batch'[i]) = Len(batch[i]) - 1
      /\ \A b \in 1..Len(batch'[i]) : batch'[i][b] = batch[i][b + 1]
      /\ batch[i][1] = s
  BY <1>1, HeadOfBatch DEF IInv
<1>3. AllAccounted'
  <2> SUFFICES ASSUME NEW j \in Imports PROVE ReadAccounted(j)'
    BY DEF AllAccounted
  <2>1. ASSUME NEW k \in 1..pos[j], file[j][k].order # NoOrder
        PROVE  \/ \E b \in 1..Len(batch'[j]) : batch'[j][b] = file[j][k]
               \/ /\ Row(j, file[j][k].order)' # NoRow
                  /\ file[j][k].updated <= Row(j, file[j][k].order)'.updated
    <3>1. Accounted(j, file[j][k]) /\ pos[j] <= Len(file[j]) /\ pos[j] \in Nat
      BY <2>1 DEF IInv, MergeInv, AllAccounted, ReadAccounted, TypeOK
    <3>2. /\ file[j][k].order \in Orders
          /\ file[j][k].updated \in Nat
      <4>1. Len(file[j]) \in Nat
        BY LenProperties DEF IInv, TypeOK
      <4>2. k \in 1..Len(file[j])
        BY <3>1, <4>1
      <4> QED
        BY <2>1, <4>2, FileRecords DEF IInv
    <3>3. CASE \E b \in 1..Len(batch[j]) : batch[j][b] = file[j][k]
      <4>1. PICK b \in 1..Len(batch[j]) : batch[j][b] = file[j][k]
        BY <3>3
      <4>2. CASE j # i
        BY <1>1, <4>1, <4>2
      <4>3. CASE j = i /\ b = 1
        <5>1. file[j][k] = s
          BY <1>2, <4>1, <4>3
        <5> QED
          BY <4>3, <5>1
      <4>4. CASE j = i /\ b # 1
        <5>1. b \in 1..Len(batch[i])
          BY <4>1, <4>4
        <5>2. b - 1 \in 1..Len(batch'[i])
          BY <1>2, <4>4, <5>1
        <5>3. batch'[i][b - 1] = batch[i][(b - 1) + 1]
          BY <1>2, <5>2
        <5>4. (b - 1) + 1 = b
          BY <5>1
        <5> QED
          BY <4>1, <4>4, <5>2, <5>3, <5>4
      <4> QED
        BY <4>2, <4>3, <4>4
    <3>4. CASE /\ Row(j, file[j][k].order) # NoRow
               /\ file[j][k].updated <= Row(j, file[j][k].order).updated
      <4>1. Row(j, file[j][k].order).updated \in Nat
        BY <3>2, <3>4, RowTypes DEF IInv
      <4> QED
        BY <3>2, <3>4, <4>1
    <3> QED
      BY <3>1, <3>3, <3>4 DEF Accounted
  <2> QED
    BY <2>1 DEF IInv, MergeInv, AllAccounted, ReadAccounted, Accounted
<1>4. BatchFromFile'
  <2> SUFFICES ASSUME NEW j \in Imports, NEW b \in 1..Len(batch'[j])
               PROVE  \E k \in 1..pos[j] : file[j][k] = batch'[j][b]
    BY DEF BatchFromFile
  <2>1. CASE j # i
    BY <1>1, <2>1 DEF IInv, MergeInv, BatchFromFile
  <2>2. CASE j = i
    <3>1. b + 1 \in 1..Len(batch[i]) /\ batch'[i][b] = batch[i][b + 1]
      BY <1>2, <2>2
    <3> QED
      BY <2>2, <3>1 DEF IInv, MergeInv, BatchFromFile
  <2> QED
    BY <2>1, <2>2
<1> QED
  BY <1>3, <1>4

(* The stored row is newer: what the transaction sees of the order is      *)
(* already as new as the snapshot it skips.                                *)
LEMMA SkipKeeps ==
    ASSUME IInv, NEW i \in Imports, SkipOrder(i)
    PROVE  MergeInv' /\ NewestSnapshotWins'
<1>0. PICK s : s = Head(batch[i])
  OBVIOUS
<1>1. /\ UNCHANGED <<tables, file, pos, tx>>
      /\ Saving(i) /\ NextOfBatch(i)
      /\ Row(i, s.order) # NoRow /\ ~Accepts(Row(i, s.order), s)
  BY <1>0 DEF SkipOrder
<1>2. \A j \in Imports, o \in Orders : Row(j, o)' = Row(j, o)
  BY <1>1 DEF Row, Wrote, tables, tx
<1>3. s \in Snapshot /\ s.order \in Orders /\ s.updated \in Nat
  BY <1>0, <1>1, HeadOfBatch DEF IInv, Snapshot, Time
<1>4. s.updated <= Row(i, s.order).updated
  BY <1>1, <1>3, RowTypes DEF IInv, Accepts, Coalesce, NoTime
<1>5. AllAccounted' /\ BatchFromFile'
  <2>1. \A j \in Imports, o \in Orders :
           Row(j, o) # NoRow =>
              Row(j, o)' # NoRow /\ Row(j, o).updated <= Row(j, o)'.updated
    BY <1>2, RowTypes DEF IInv
  <2>2. \A j \in Imports, o \in Orders : Row(j, o)' # NoRow => Row(j, o)'.updated \in Nat
    BY <1>2, RowTypes DEF IInv
  <2>3. Row(i, s.order)' # NoRow /\ s.updated <= Row(i, s.order)'.updated
    BY <1>1, <1>2, <1>3, <1>4
  <2> QED
    BY <1>0, <1>1, <2>1, <2>2, <2>3, BatchStepKeeps
<1>6. NewestSnapshotWins'
  BY <1>1, TablesKept DEF IInv
<1>7. OneWriter' /\ WritesNewer' /\ WritesFromFile'
  BY <1>1 DEF IInv, MergeInv, OneWriter, WritesNewer, WritesFromFile,
              Wrote, SaidBy, tables, tx
<1>8. FreshRequests'
  BY <1>1 DEF IInv, MergeInv, FreshRequests, tables, tx, NextOfBatch, Saving, TypeOK
<1> QED
  BY <1>5, <1>6, <1>7, <1>8 DEF MergeInv

(* The row written is as new as the snapshot and as the row before it, and *)
(* no other open transaction has written that order.                       *)
LEMMA SaveKeeps ==
    ASSUME IInv, NEW i \in Imports, SaveOrder(i)
    PROVE  MergeInv' /\ NewestSnapshotWins'
<1>0. PICK s : s = Head(batch[i])
  OBVIOUS
<1>1. PICK new : new = IF Row(i, s.order) = NoRow THEN InsertedRow(s, i)
                       ELSE UpdatedRow(Row(i, s.order), s, i)
  OBVIOUS
<1>2. /\ UNCHANGED <<tables, file, pos>>
      /\ Saving(i) /\ NextOfBatch(i) /\ Free(i, s.order)
      /\ Row(i, s.order) # NoRow => Accepts(Row(i, s.order), s)
      /\ txOrders' = [txOrders EXCEPT ![i][s.order] = new]
  BY <1>0, <1>1 DEF SaveOrder
<1>3. s \in Snapshot /\ s.order \in Orders /\ s.updated \in Nat
  BY <1>0, <1>2, HeadOfBatch DEF IInv, Snapshot, Time
<1>4. /\ new \in OrderRow /\ new.updated \in Nat
      /\ new # NoRow
      /\ s.updated <= new.updated
      /\ SaidBy(s, new)
      /\ Row(i, s.order) # NoRow =>
            /\ Row(i, s.order).updated <= new.updated
            /\ Row(i, s.order).created # NoTime => new.created # NoTime
  <2>1. Row(i, s.order) \in OrderRow \cup {NoRow}
    BY <1>3, RowTypes DEF IInv
  <2> QED
    BY <1>1, <1>2, <1>3, <2>1, AcceptedRow DEF OrderRow, Time
<1>5. /\ txOrders'[i][s.order] = new
      /\ \A j \in Imports, o \in Orders :
            j # i \/ o # s.order => txOrders'[j][o] = txOrders[j][o]
  BY <1>2, <1>3 DEF IInv, TypeOK
<1>6. /\ Wrote(i, s.order)'
      /\ \A j \in Imports, o \in Orders :
            j # i \/ o # s.order => (Wrote(j, o)' <=> Wrote(j, o))
  <2>1. Wrote(i, s.order)'
    BY <1>4, <1>5 DEF Wrote
  <2> QED
    BY <1>5, <2>1 DEF Wrote
<1>7. /\ Row(i, s.order)' = new
      /\ \A j \in Imports, o \in Orders : j # i \/ o # s.order => Row(j, o)' = Row(j, o)
  BY <1>2, <1>5, <1>6 DEF Row, tables
<1>8. AllAccounted' /\ BatchFromFile'
  <2>1. \A j \in Imports, o \in Orders :
           Row(j, o) # NoRow =>
              Row(j, o)' # NoRow /\ Row(j, o).updated <= Row(j, o)'.updated
    BY <1>4, <1>7, RowTypes DEF IInv
  <2>2. \A j \in Imports, o \in Orders : Row(j, o)' # NoRow => Row(j, o)'.updated \in Nat
    BY <1>4, <1>7, RowTypes DEF IInv
  <2>3. Row(i, s.order)' # NoRow /\ s.updated <= Row(i, s.order)'.updated
    BY <1>4, <1>7
  <2> QED
    BY <1>0, <1>2, <2>1, <2>2, <2>3, BatchStepKeeps
<1>9. NewestSnapshotWins'
  BY <1>2, TablesKept DEF IInv
<1>10. OneWriter'
  BY <1>2, <1>6 DEF IInv, MergeInv, OneWriter, Free, HeldBy
<1>11. WritesNewer'
  <2> SUFFICES ASSUME NEW j \in Imports, NEW o \in Orders, Wrote(j, o)', orders[o] # NoRow
               PROVE  /\ txOrders'[j][o].updated >= orders[o].updated
                      /\ orders[o].created # NoTime => txOrders'[j][o].created # NoTime
    BY <1>2 DEF WritesNewer, tables
  <2>1. CASE j = i /\ o = s.order
    <3>1. /\ Row(i, o) # NoRow
          /\ Row(i, o).updated >= orders[o].updated
          /\ orders[o].created # NoTime => Row(i, o).created # NoTime
      BY RowGrows DEF IInv, MergeInv
    <3>2. Row(i, o).updated \in Nat /\ orders[o].updated \in Nat
      BY <3>1, RowTypes DEF IInv
    <3> QED
      BY <1>4, <1>5, <2>1, <3>1, <3>2
  <2>2. CASE j # i \/ o # s.order
    BY <1>5, <1>6, <2>2 DEF IInv, MergeInv, WritesNewer
  <2> QED
    BY <2>1, <2>2
<1>12. WritesFromFile'
  <2> SUFFICES ASSUME NEW j \in Imports, NEW o \in Orders, Wrote(j, o)'
               PROVE  \E k \in 1..pos[j] :
                         file[j][k].order = o /\ SaidBy(file[j][k], txOrders'[j][o])
    BY <1>2 DEF WritesFromFile, SaidBy
  <2>1. CASE j = i /\ o = s.order
    <3>1. batch[i][1] = s /\ 1 \in 1..Len(batch[i])
      BY <1>0, <1>2, LenProperties, EmptySeq DEF IInv, TypeOK, Saving
    <3>2. PICK k \in 1..pos[i] : file[i][k] = s
      BY <3>1 DEF IInv, MergeInv, BatchFromFile
    <3> QED
      BY <1>4, <1>5, <2>1, <3>2
  <2>2. CASE j # i \/ o # s.order
    BY <1>5, <1>6, <2>2 DEF IInv, MergeInv, WritesFromFile
  <2> QED
    BY <2>1, <2>2
<1>13. FreshRequests'
  <2>1. \A j \in Imports : pc'[j] = "idle" => j # i /\ pc[j] = "idle"
    BY <1>2 DEF NextOfBatch, Saving, IInv, TypeOK
  <2>2. \A j \in Imports : j # i => txOrders'[j] = txOrders[j]
    BY <1>2 DEF IInv, TypeOK
  <2> QED
    BY <1>2, <2>1, <2>2 DEF IInv, MergeInv, FreshRequests, tables
<1> QED
  BY <1>8, <1>9, <1>10, <1>11, <1>12, <1>13 DEF MergeInv

(* The tables become what the transaction saw: that covers the snapshots   *)
(* committed before and, the batch being empty, every record of the file.  *)
LEMMA CompleteKeeps ==
    ASSUME IInv, NEW i \in Imports, Complete(i)
    PROVE  MergeInv' /\ NewestSnapshotWins'
<1> USE SnapshotsAssumption
<1>1. /\ orders' = [o \in Orders |-> Row(i, o)]
      /\ rawImport' = [rawImport EXCEPT ![i] = counts[i]]
      /\ Return({i}, "committed")
      /\ file' = file
      /\ batch[i] = <<>> /\ pos[i] = Len(file[i]) /\ pc[i] = "parsing"
  BY DEF Complete, AtEnd
<1>2. /\ pos'[i] = 0 /\ batch'[i] = <<>> /\ pc'[i] = "committed"
      /\ \A j \in Imports \ {i} :
            pos'[j] = pos[j] /\ batch'[j] = batch[j] /\ pc'[j] = pc[j]
            /\ txOrders'[j] = txOrders[j]
  BY <1>1 DEF Return
<1>3. \A j \in Imports, o \in Orders :
         Wrote(j, o)' => Wrote(j, o) /\ j # i /\ txOrders'[j][o] = txOrders[j][o]
  BY <1>1, WritesAfterReturn
<1>4. Committed' = Committed \cup {i}
  <2>1. rawImport'[i] # NoRow
    BY <1>1 DEF IInv, TypeOK
  <2>2. \A j \in Imports : j # i => rawImport'[j] = rawImport[j]
    BY <1>1 DEF IInv, TypeOK
  <2> QED
    BY <2>1, <2>2 DEF Committed
<1>5. /\ DOMAIN file[i] = 1..pos[i]
      /\ \A k \in 1..pos[i] :
            file[i][k].order # NoOrder =>
               /\ file[i][k].order \in Orders
               /\ Row(i, file[i][k].order) # NoRow
               /\ file[i][k].updated <= Row(i, file[i][k].order).updated
  <2>1. file[i] \in Seq(Record) /\ Len(file[i]) \in Nat /\ DOMAIN file[i] = 1..Len(file[i])
    BY LenProperties DEF IInv, TypeOK
  <2>2. Len(batch[i]) = 0
    BY <1>1
  <2>3. ASSUME NEW k \in 1..pos[i], file[i][k].order # NoOrder
        PROVE  /\ file[i][k].order \in Orders
               /\ Row(i, file[i][k].order) # NoRow
               /\ file[i][k].updated <= Row(i, file[i][k].order).updated
    <3>1. file[i][k].order \in Orders
      BY <1>1, <2>3, FileRecords DEF IInv
    <3> QED
      BY <2>2, <2>3, <3>1 DEF IInv, MergeInv, AllAccounted, ReadAccounted, Accounted
  <2> QED
    BY <1>1, <2>1, <2>3
<1>6. \A o : \A s : s \in SnapshotsOf(o)' <=>
         \/ s \in SnapshotsOf(o)
         \/ \E k \in 1..pos[i] : s = file[i][k] /\ s.order = o
  BY <1>1, <1>4, <1>5 DEF SnapshotsOf
<1>7. NewestSnapshotWins'
  <2> SUFFICES ASSUME NEW o \in Orders
               PROVE  /\ Row(i, o) = NoRow <=> SnapshotsOf(o)' = {}
                      /\ Row(i, o) # NoRow =>
                            /\ \A s \in SnapshotsOf(o)' : s.updated <= Row(i, o).updated
                            /\ \E s \in SnapshotsOf(o)' : SaidBy(s, Row(i, o))
    BY <1>1 DEF NewestSnapshotWins, SaidBy
  <2>1. orders[o] # NoRow => /\ Row(i, o) # NoRow
                             /\ Row(i, o).updated >= orders[o].updated
    BY RowGrows DEF IInv, MergeInv
  <2>2. ASSUME Wrote(i, o)
        PROVE  \E s \in SnapshotsOf(o)' : SaidBy(s, Row(i, o))
    <3>1. PICK k \in 1..pos[i] :
                 file[i][k].order = o /\ SaidBy(file[i][k], txOrders[i][o])
      BY <2>2 DEF IInv, MergeInv, WritesFromFile
    <3>2. Row(i, o) = txOrders[i][o]
      BY <2>2 DEF Row
    <3> QED
      BY <1>6, <3>1, <3>2
  <2>3. ASSUME ~Wrote(i, o)
        PROVE  Row(i, o) = orders[o]
    BY <2>3 DEF Row
  <2>4. ASSUME NEW s \in SnapshotsOf(o)'
        PROVE  Row(i, o) # NoRow /\ s.updated <= Row(i, o).updated
    <3>1. CASE s \in SnapshotsOf(o)
      <4>1. orders[o] # NoRow /\ s.updated <= orders[o].updated
        BY <3>1 DEF IInv, NewestSnapshotWins
      <4>2. PICK j \in Imports : \E k \in DOMAIN file[j] : s = file[j][k]
        BY <3>1, InSnapshots DEF Committed
      <4>3. s.updated \in Nat
        <5>1. DOMAIN file[j] = 1..Len(file[j])
          BY LenProperties DEF IInv, TypeOK
        <5> QED
          BY <4>2, <5>1, FileRecords DEF IInv
      <4>4. orders[o].updated \in Nat /\ Row(i, o).updated \in Nat
        BY <2>1, <4>1, RowTypes DEF IInv
      <4> QED
        BY <2>1, <4>1, <4>3, <4>4
    <3>2. CASE \E k \in 1..pos[i] : s = file[i][k] /\ s.order = o
      BY <1>5, <3>2
    <3> QED
      BY <1>6, <2>4, <3>1, <3>2
  <2>5. ASSUME Row(i, o) # NoRow
        PROVE  \E s \in SnapshotsOf(o)' : SaidBy(s, Row(i, o))
    <3>1. CASE Wrote(i, o)
      BY <2>2, <3>1
    <3>2. CASE ~Wrote(i, o)
      BY <1>6, <2>3, <2>5, <3>2 DEF IInv, NewestSnapshotWins
    <3> QED
      BY <3>1, <3>2
  <2> QED
    BY <2>4, <2>5
<1>8. OneWriter'
  BY <1>3 DEF IInv, MergeInv, OneWriter
<1>9. \A j \in Imports, o \in Orders : Wrote(j, o) /\ j # i => Row(i, o) = orders[o]
  BY DEF IInv, MergeInv, OneWriter, Row
<1>10. WritesNewer'
  BY <1>1, <1>3, <1>9 DEF IInv, MergeInv, WritesNewer
<1>11. AllAccounted'
  <2> SUFFICES ASSUME NEW j \in Imports PROVE ReadAccounted(j)'
    BY DEF AllAccounted
  <2>1. CASE j = i
    <3>1. Len(file[j]) \in Nat
      BY LenProperties DEF IInv, TypeOK
    <3> QED
      BY <1>1, <1>2, <2>1, <3>1 DEF ReadAccounted
  <2>2. CASE j # i
    <3>1. \A o \in Orders :
             Row(j, o) # NoRow =>
                /\ Row(j, o)' # NoRow /\ Row(j, o)'.updated \in Nat
                /\ Row(j, o).updated <= Row(j, o)'.updated
      <4> SUFFICES ASSUME NEW o \in Orders, Row(j, o) # NoRow
                   PROVE  /\ Row(j, o)' # NoRow /\ Row(j, o)'.updated \in Nat
                          /\ Row(j, o).updated <= Row(j, o)'.updated
        OBVIOUS
      <4>1. Row(j, o).updated \in Nat
        BY RowTypes DEF IInv
      <4>2. CASE Wrote(j, o)
        <5>1. Row(j, o)' = Row(j, o)
          BY <1>2, <2>2, <4>2 DEF Row, Wrote
        <5> QED
          BY <4>1, <5>1
      <4>3. CASE ~Wrote(j, o)
        <5>1. Row(j, o) = orders[o] /\ Row(j, o)' = Row(i, o)
          BY <1>1, <1>2, <2>2, <4>3 DEF Row, Wrote
        <5> QED
          BY <4>1, <5>1, RowGrows, RowTypes DEF IInv, MergeInv
      <4> QED
        BY <4>2, <4>3
    <3>2. ASSUME NEW k \in 1..pos[j], file[j][k].order # NoOrder
          PROVE  \/ \E b \in 1..Len(batch'[j]) : batch'[j][b] = file[j][k]
                 \/ /\ Row(j, file[j][k].order)' # NoRow
                    /\ file[j][k].updated <= Row(j, file[j][k].order)'.updated
      <4>1. Accounted(j, file[j][k]) /\ pos[j] <= Len(file[j]) /\ pos[j] \in Nat
        BY <3>2 DEF IInv, MergeInv, AllAccounted, ReadAccounted, TypeOK
      <4>2. Len(file[j]) \in Nat
        BY LenProperties DEF IInv, TypeOK
      <4>3. file[j][k].order \in Orders /\ file[j][k].updated \in Nat
        <5>1. k \in 1..Len(file[j])
          BY <4>1, <4>2
        <5> QED
          BY <3>2, <5>1, FileRecords DEF IInv
      <4>4. CASE \E b \in 1..Len(batch[j]) : batch[j][b] = file[j][k]
        BY <1>2, <2>2, <4>4
      <4>5. CASE /\ Row(j, file[j][k].order) # NoRow
                 /\ file[j][k].updated <= Row(j, file[j][k].order).updated
        <5>1. Row(j, file[j][k].order).updated \in Nat
          BY <4>3, <4>5, RowTypes DEF IInv
        <5>2. /\ Row(j, file[j][k].order)' # NoRow
              /\ Row(j, file[j][k].order)'.updated \in Nat
              /\ Row(j, file[j][k].order).updated <= Row(j, file[j][k].order)'.updated
          <6>1. PICK o \in Orders : o = file[j][k].order
            BY <4>3
          <6>2. /\ Row(j, o)' # NoRow /\ Row(j, o)'.updated \in Nat
                /\ Row(j, o).updated <= Row(j, o)'.updated
            BY <3>1, <4>5, <6>1
          <6>3. Row(j, file[j][k].order)' = Row(j, o)'
            BY <1>1, <6>1
          <6> QED
            BY <6>1, <6>2, <6>3
        <5> QED
          BY <4>3, <4>5, <5>1, <5>2
      <4> QED
        BY <4>1, <4>4, <4>5 DEF Accounted
    <3> QED
      BY <1>1, <1>2, <2>2, <3>2
         DEF IInv, MergeInv, AllAccounted, ReadAccounted, Accounted
  <2> QED
    BY <2>1, <2>2
<1>12. BatchFromFile'
  <2>1. Len(batch'[i]) = 0
    BY <1>2
  <2> QED
    BY <1>1, <1>2, <2>1 DEF IInv, MergeInv, BatchFromFile
<1>13. WritesFromFile'
  BY <1>1, <1>2, <1>3 DEF IInv, MergeInv, WritesFromFile, SaidBy
<1>14. FreshRequests'
  <2>1. \A j \in Imports : j # i => rawImport'[j] = rawImport[j]
    BY <1>1 DEF IInv, TypeOK
  <2> QED
    BY <1>2, <2>1 DEF IInv, MergeInv, FreshRequests
<1> QED
  BY <1>7, <1>8, <1>10, <1>11, <1>12, <1>13, <1>14 DEF MergeInv

(* An empty database has no snapshots to account for.                      *)
LEMMA InvInit == Init => IInv
<1> SUFFICES ASSUME Init PROVE IInv
  OBVIOUS
<1>1. TypeOK
  BY TypeInit
<1>2. Committed = {} /\ \A i \in Imports, o \in Orders : ~Wrote(i, o)
  BY DEF Init, Committed, Wrote, NoWrites
<1>3. \A o : SnapshotsOf(o) = {}
  BY <1>2 DEF SnapshotsOf
<1>4. NewestSnapshotWins
  BY <1>3 DEF NewestSnapshotWins, Init, NoWrites
<1>5. OneWriter /\ WritesNewer /\ WritesFromFile
  BY <1>2 DEF OneWriter, WritesNewer, WritesFromFile
<1>6. AllAccounted /\ BatchFromFile
  <2>1. \A i \in Imports : pos[i] = 0 /\ Len(batch[i]) = 0 /\ Len(file[i]) = 0
    BY DEF Init
  <2> QED
    BY <2>1 DEF AllAccounted, ReadAccounted, BatchFromFile
<1>7. FreshRequests
  BY DEF Init, FreshRequests
<1> QED
  BY <1>1, <1>4, <1>5, <1>6, <1>7 DEF IInv, MergeInv

(* Every step keeps the invariant: one lemma above for each kind of step.  *)
LEMMA InvNext == IInv /\ [Next]_vars => IInv'
<1> SUFFICES ASSUME IInv, [Next]_vars PROVE IInv'
  OBVIOUS
<1>1. TypeOK'
  BY TypeNext DEF IInv
<1>2. ASSUME NEW i \in Imports, NEW f \in Files, Receive(i, f)
      PROVE  MergeInv' /\ NewestSnapshotWins'
  BY <1>2, ReceiveKeeps
<1>3. ASSUME NEW i \in Imports, Step(i)
      PROVE  MergeInv' /\ NewestSnapshotWins'
  <2>1. CASE Begin(i)
    BY <2>1, MoveKeeps DEF Begin, IInv, TypeOK, tables, tx
  <2>2. CASE YieldOther(i) \/ YieldOrder(i)
    BY <2>2, YieldKeeps
  <2>3. CASE RejectOld(i) \/ RejectEmpty(i)
    BY <2>3, AbortKeeps DEF RejectOld, RejectEmpty
  <2>4. CASE SaveOrder(i)
    BY <2>4, SaveKeeps
  <2>5. CASE SkipOrder(i)
    BY <2>5, SkipKeeps
  <2>6. CASE FlushRest(i)
    BY <2>6, MoveKeeps DEF FlushRest, IInv, TypeOK, tables, tx
  <2>7. CASE Complete(i)
    BY <2>7, CompleteKeeps
  <2> QED
    BY <1>3, <2>1, <2>2, <2>3, <2>4, <2>5, <2>6, <2>7 DEF Step
<1>4. ASSUME NEW i \in Imports, Fail(i) \/ DeadlockAbort(i)
      PROVE  MergeInv' /\ NewestSnapshotWins'
  BY <1>4, AbortKeeps DEF Fail, DeadlockAbort
<1>5. ASSUME Crash
      PROVE  MergeInv' /\ NewestSnapshotWins'
  <2>1. InFlight \in SUBSET Imports
    BY DEF InFlight
  <2> QED
    BY <1>5, <2>1, AbortKeeps DEF Crash
<1>6. ASSUME UNCHANGED vars
      PROVE  MergeInv' /\ NewestSnapshotWins'
  BY <1>6, MoveKeeps DEF vars
<1> QED
  BY <1>1, <1>2, <1>3, <1>4, <1>5, <1>6 DEF Next, IInv

(* Whatever requests are made, however their statements interleave and     *)
(* wherever they fail, the tables hold for every order a row as new as the *)
(* newest snapshot that a committed import has brought.                    *)
THEOREM NewestWins == Spec => [](MergeInv /\ NewestSnapshotWins)
<1>1. IInv => MergeInv /\ NewestSnapshotWins
  BY DEF IInv
<1> QED
  BY <1>1, InvInit, InvNext, PTL DEF Spec

(* No step of any import takes a stored order away, makes it older or      *)
(* forgets its creation time.                                              *)
THEOREM OrdersNeverRegress == Spec => NeverRegress
<1> DEFINE Kept == \A o \in Orders :
         orders[o] # NoRow =>
             /\ orders'[o] # NoRow
             /\ orders'[o].updated >= orders[o].updated
             /\ orders[o].created # NoTime => orders'[o].created # NoTime
<1>1. ASSUME IInv, [Next]_vars
      PROVE  Kept
  <2> SUFFICES ASSUME NEW o \in Orders, orders[o] # NoRow
               PROVE  /\ orders'[o] # NoRow
                      /\ orders'[o].updated >= orders[o].updated
                      /\ orders[o].created # NoTime => orders'[o].created # NoTime
    OBVIOUS
  <2>1. CASE orders' = orders
    <3>1. orders[o].updated \in Nat
      BY <1>1 DEF IInv, TypeOK, OrderRow, Time
    <3> QED
      BY <2>1, <3>1
  <2>2. CASE \E i \in Imports : Complete(i)
    <3>1. PICK i \in Imports : Complete(i)
      BY <2>2
    <3>2. orders'[o] = Row(i, o)
      BY <3>1 DEF Complete
    <3> QED
      BY <1>1, <3>2, RowGrows DEF IInv, MergeInv
  <2> QED
    BY <1>1, <2>1, <2>2, StepKinds DEF tables, SaveOrder, Abort
<1>2. Kept => [Kept]_vars
  OBVIOUS
<1> QED
  BY <1>1, <1>2, InvInit, InvNext, PTL DEF Spec, NeverRegress

(* A request has its row in the journal only when it has committed.        *)
Journalled == \A i \in Imports : pc[i] # "committed" => rawImport[i] = NoRow

(* Only Complete writes the journal, and nothing is taken back.            *)
LEMMA JournalKept == TypeOK /\ Journalled /\ [Next]_vars => Journalled'
<1> SUFFICES ASSUME TypeOK, Journalled, [Next]_vars, NEW j \in Imports,
                    pc'[j] # "committed"
             PROVE  rawImport'[j] = NoRow
  BY DEF Journalled
<1> USE DEF Journalled, TypeOK, InFlight, Abort, Return, tables
<1>1. ASSUME NEW i \in Imports, NEW f \in Files, Receive(i, f)
      PROVE  rawImport'[j] = NoRow
  BY <1>1 DEF Receive
<1>2. ASSUME NEW i \in Imports, Step(i)
      PROVE  rawImport'[j] = NoRow
  <2>1. CASE Complete(i)
    BY <2>1 DEF Complete, AtEnd
  <2>2. CASE ~Complete(i)
    BY <1>2, <2>2 DEF Step, Begin, YieldOther, YieldOrder, RejectOld, SaveOrder, SkipOrder,
       NextOfBatch, Saving, AtEnd, RejectEmpty, FlushRest
  <2> QED
    BY <2>1, <2>2
<1>3. ASSUME NEW i \in Imports, Fail(i) \/ DeadlockAbort(i)
      PROVE  rawImport'[j] = NoRow
  <2>1. pc[i] \in {"waiting", "parsing", "saving"}
    BY <1>3 DEF Fail, DeadlockAbort, Deadlocked, WaitsFor, Saving
  <2>2. rawImport' = rawImport /\ (j # i => pc'[j] = pc[j])
    BY <1>3 DEF Fail, DeadlockAbort
  <2> QED
    BY <2>1, <2>2
<1>4. CASE Crash
  BY <1>4 DEF Crash
<1>5. CASE UNCHANGED vars
  BY <1>5 DEF vars
<1> QED
  BY <1>1, <1>2, <1>3, <1>4, <1>5 DEF Next

(* An order changes only when an import commits, and only if its file has  *)
(* a snapshot of that order.                                               *)
THEOREM AbsentOrdersStay == Spec => AbsentOrdersUntouched
<1> DEFINE Named == \A o \in Orders :
         (orders'[o] # orders[o] \/ items'[o] # items[o]) =>
             \E i \in Imports :
                 /\ rawImport[i] = NoRow
                 /\ rawImport'[i] # NoRow
                 /\ \E k \in DOMAIN file[i] : file[i][k].order = o
<1>1. ASSUME IInv, Journalled, [Next]_vars
      PROVE  Named
  <2> SUFFICES ASSUME NEW o \in Orders, orders'[o] # orders[o] \/ items'[o] # items[o]
               PROVE  \E i \in Imports :
                          /\ rawImport[i] = NoRow
                          /\ rawImport'[i] # NoRow
                          /\ \E k \in DOMAIN file[i] : file[i][k].order = o
    OBVIOUS
  <2>1. PICK i \in Imports : Complete(i)
    BY <1>1, StepKinds DEF tables, SaveOrder, Abort
  <2>2. Wrote(i, o)
    BY <2>1 DEF Complete, Row, Items
  <2>3. \E k \in 1..pos[i] : file[i][k].order = o
    BY <1>1, <2>2 DEF IInv, MergeInv, WritesFromFile
  <2>4. 1..pos[i] \subseteq DOMAIN file[i]
    <3>1. pos[i] \in Nat /\ pos[i] <= Len(file[i]) /\ file[i] \in Seq(Record)
      BY <1>1 DEF IInv, TypeOK, MergeInv, AllAccounted, ReadAccounted
    <3> QED
      BY <3>1, LenProperties
  <2>5. rawImport[i] = NoRow
    BY <1>1, <2>1 DEF Journalled, Complete, AtEnd
  <2>6. rawImport'[i] # NoRow
    BY <1>1, <2>1, SnapshotsAssumption DEF IInv, TypeOK, Complete
  <2> QED
    BY <2>3, <2>4, <2>5, <2>6
<1>2. Named => [Named]_vars
  OBVIOUS
<1>3. Init => Journalled
  BY DEF Init, Journalled
<1>4. IInv /\ Journalled /\ [Next]_vars => Journalled'
  BY JournalKept DEF IInv
<1> QED
  BY <1>1, <1>2, <1>3, <1>4, InvInit, InvNext, PTL DEF Spec, AbsentOrdersUntouched

-----------------------------------------------------------------------------
(* What the counters say is about numbers of orders and of records.        *)
LEMMA CountsTypes ==
    ASSUME TypeOK, NEW i \in Imports
    PROVE  /\ counts[i].added \in Nat /\ counts[i].updated \in Nat /\ counts[i].skipped \in Nat
           /\ counts[i].rows \in Nat /\ counts[i].items \in Nat
           /\ counts[i] \in Counters
           /\ Len(batch[i]) \in Nat /\ pos[i] \in Nat
           /\ IsFiniteSet(OrdersYielded(i)) /\ Cardinality(OrdersYielded(i)) \in Nat
<1>1. /\ counts[i].added \in Nat /\ counts[i].updated \in Nat /\ counts[i].skipped \in Nat
      /\ counts[i].rows \in Nat /\ counts[i].items \in Nat
      /\ counts[i] \in Counters
  BY DEF TypeOK, Counters
<1>2. Len(batch[i]) \in Nat /\ pos[i] \in Nat
  BY LenProperties DEF TypeOK
<1>3. IsFiniteSet(1..pos[i])
  BY <1>2, FS_Interval
<1>4. IsFiniteSet(OrdersYielded(i)) /\ Cardinality(OrdersYielded(i)) \in Nat
  BY <1>3, FS_Subset, FS_CardinalityType DEF OrdersYielded
<1> QED
  BY <1>1, <1>2, <1>4

(* A call of Import that has done nothing, or has returned.                *)
LEMMA CountsFresh ==
    ASSUME NEW i \in Imports, pos'[i] = 0, batch'[i] = <<>>, counts'[i] = ZeroCounts,
           txOrders'[i] = NoWrites
    PROVE  CountsAddUp(i)'
<1>1. Inserts(i)' = {}
  BY DEF Inserts, Wrote, NoWrites
<1>2. OrdersYielded(i)' = {}
  BY DEF OrdersYielded
<1>3. IsFiniteSet({}) /\ Cardinality({}) = 0
  BY FS_EmptySet
<1>4. Len(batch'[i]) = 0 /\ counts'[i].added = 0 /\ counts'[i].updated = 0
      /\ counts'[i].skipped = 0 /\ counts'[i].rows = 0
  BY DEF ZeroCounts
<1> QED
  BY <1>1, <1>2, <1>3, <1>4 DEF CountsAddUp

(* A step that is not of this import, and changes no row it has to insert. *)
LEMMA CountsIdle ==
    ASSUME NEW i \in Imports, CountsAddUp(i),
           UNCHANGED <<pos[i], batch[i], counts[i], txOrders[i]>>,
           file'[i] = file[i] \/ pos[i] = 0,
           \A o \in Orders : Wrote(i, o) => orders'[o] = orders[o]
    PROVE  CountsAddUp(i)'
<1>1. Inserts(i)' = Inserts(i)
  BY DEF Inserts, Wrote
<1>2. OrdersYielded(i)' = OrdersYielded(i)
  <2>1. CASE file'[i] = file[i]
    BY <2>1 DEF OrdersYielded
  <2>2. CASE pos[i] = 0
    BY <2>2 DEF OrdersYielded
  <2> QED
    BY <2>1, <2>2
<1> QED
  BY <1>1, <1>2 DEF CountsAddUp

(* One more record is read: an order joins the batch.                      *)
LEMMA CountsYield ==
    ASSUME TypeOK, NEW i \in Imports, CountsAddUp(i), YieldOther(i) \/ YieldOrder(i)
    PROVE  CountsAddUp(i)'
<1> DEFINE k == pos[i] + 1
           n == counts[i]
<1>1. /\ UNCHANGED <<orders, txOrders, file>>
      /\ pos'[i] = k /\ counts'[i] = [n EXCEPT !.rows = n.rows + 1]
  BY DEF YieldOther, YieldOrder, tables, tx, TypeOK
<1>2. Inserts(i)' = Inserts(i)
  BY <1>1 DEF Inserts, Wrote
<1>3. /\ counts'[i].rows = n.rows + 1 /\ counts'[i].added = n.added
      /\ counts'[i].updated = n.updated /\ counts'[i].skipped = n.skipped
  BY <1>1, CountsTypes DEF Counters
<1>4. OrdersYielded(i)' = {m \in 1..k : file[i][m].order # NoOrder}
  BY <1>1 DEF OrdersYielded
<1>5. k \notin OrdersYielded(i) /\ \A m : m \in 1..k <=> m \in 1..pos[i] \/ m = k
  <2>1. pos[i] \in Nat
    BY CountsTypes
  <2> QED
    BY <2>1 DEF OrdersYielded
<1>t. /\ n.rows \in Nat /\ n.added \in Nat /\ n.updated \in Nat /\ n.skipped \in Nat
      /\ Len(batch[i]) \in Nat /\ Cardinality(OrdersYielded(i)) \in Nat
      /\ IsFiniteSet(Inserts(i)) /\ n.added = Cardinality(Inserts(i)) /\ n.rows = pos[i]
      /\ n.added + n.updated + n.skipped + Len(batch[i]) = Cardinality(OrdersYielded(i))
  BY CountsTypes DEF CountsAddUp
<1>p. PICK added \in Nat, updated \in Nat, skipped \in Nat, left \in Nat, yielded \in Nat :
        /\ added = n.added /\ updated = n.updated /\ skipped = n.skipped
        /\ left = Len(batch[i]) /\ yielded = Cardinality(OrdersYielded(i))
        /\ added + updated + skipped + left = yielded
  BY <1>t
<1>q. added + updated + skipped + left = yielded
  BY <1>p
<1>6. CASE YieldOther(i)
  <2>1. batch' = batch /\ file[i][k].order = NoOrder
    BY <1>6 DEF YieldOther, NextRecord
  <2>2. OrdersYielded(i)' = OrdersYielded(i)
    BY <1>4, <1>5, <2>1 DEF OrdersYielded
  <2> QED
    BY <1>1, <1>2, <1>3, <2>1, <2>2 DEF CountsAddUp
<1>7. CASE YieldOrder(i)
  <2>1. batch'[i] = Append(batch[i], file[i][k]) /\ file[i][k].order # NoOrder
    BY <1>7 DEF YieldOrder, NextRecord, TypeOK
  <2>2. Len(batch'[i]) = Len(batch[i]) + 1
    BY <2>1, AppendProperties DEF TypeOK
  <2>3. OrdersYielded(i)' = OrdersYielded(i) \cup {k}
    BY <1>4, <1>5, <2>1 DEF OrdersYielded
  <2>4. Cardinality(OrdersYielded(i)') = Cardinality(OrdersYielded(i)) + 1
    <3>1. Cardinality(OrdersYielded(i) \cup {k}) = Cardinality(OrdersYielded(i)) + 1
      <4> HIDE DEF k
      <4> QED
        BY <1>5, CountsTypes, FS_AddElement
    <3> QED
      BY <2>3, <3>1
  <2>5. counts'[i].added + counts'[i].updated + counts'[i].skipped + Len(batch'[i])
            = Cardinality(OrdersYielded(i)')
    <3>1. /\ counts'[i].added = added /\ counts'[i].updated = updated
          /\ counts'[i].skipped = skipped /\ Len(batch'[i]) = left + 1
          /\ Cardinality(OrdersYielded(i)') = yielded + 1
      BY <1>p, <1>3, <2>2, <2>4
    <3>2. added + updated + skipped + (left + 1) = yielded + 1
      BY <1>q
    <3> QED
      BY <3>1, <3>2
  <2>6. counts'[i].rows = pos'[i]
    BY <1>t, <1>1, <1>3
  <2> QED
    BY <1>t, <1>2, <1>3, <2>5, <2>6 DEF CountsAddUp
<1> QED
  BY <1>6, <1>7

(* The first order of the batch is counted, as added when its row is to be *)
(* inserted.                                                               *)
LEMMA CountsSave ==
    ASSUME TypeOK, TypeOK', NEW i \in Imports, CountsAddUp(i), SaveOrder(i) \/ SkipOrder(i)
    PROVE  CountsAddUp(i)'
<1>1. PICK s : s = Head(batch[i])
  OBVIOUS
<1> DEFINE o == s.order
           old == Row(i, o)
           n == counts[i]
<1>2. /\ UNCHANGED <<orders, file, pos>>
      /\ Saving(i) /\ NextOfBatch(i)
  BY DEF SaveOrder, SkipOrder, tables
<1>3. OrdersYielded(i)' = OrdersYielded(i)
  BY <1>2 DEF OrdersYielded
<1>4. Len(batch'[i]) = Len(batch[i]) - 1 /\ o \in Orders /\ s \in Snapshot
  BY <1>1, <1>2, HeadOfBatch DEF NextOfBatch, TypeOK, Snapshot
<1>t. /\ n.rows \in Nat /\ n.added \in Nat /\ n.updated \in Nat /\ n.skipped \in Nat
      /\ Len(batch[i]) \in Nat /\ Cardinality(OrdersYielded(i)) \in Nat
      /\ IsFiniteSet(Inserts(i)) /\ n.added = Cardinality(Inserts(i)) /\ n.rows = pos[i]
      /\ n.added + n.updated + n.skipped + Len(batch[i]) = Cardinality(OrdersYielded(i))
  BY CountsTypes DEF CountsAddUp
<1>p. PICK added \in Nat, updated \in Nat, skipped \in Nat, left \in Nat, yielded \in Nat :
        /\ added = n.added /\ updated = n.updated /\ skipped = n.skipped
        /\ left = Len(batch[i]) /\ yielded = Cardinality(OrdersYielded(i))
        /\ added + updated + skipped + left = yielded
  BY <1>t
<1>q. added + updated + skipped + left = yielded
  BY <1>p
<1>5. CASE SkipOrder(i)
  <2>1. txOrders' = txOrders /\ counts'[i] = [n EXCEPT !.skipped = n.skipped + 1]
    BY <1>5 DEF SkipOrder, tx, TypeOK
  <2>2. Inserts(i)' = Inserts(i)
    BY <1>2, <2>1 DEF Inserts, Wrote
  <2>3. /\ counts'[i].rows = n.rows /\ counts'[i].added = n.added
        /\ counts'[i].updated = n.updated /\ counts'[i].skipped = n.skipped + 1
    BY <2>1, CountsTypes DEF Counters
  <2> QED
    <3>1. counts'[i].added + counts'[i].updated + counts'[i].skipped + Len(batch'[i])
              = Cardinality(OrdersYielded(i))
      <4>1. /\ counts'[i].added = added /\ counts'[i].updated = updated
            /\ counts'[i].skipped = skipped + 1 /\ Len(batch'[i]) = left - 1
            /\ Cardinality(OrdersYielded(i)) = yielded
        BY <1>p, <1>4, <2>3
      <4>2. added + updated + (skipped + 1) + (left - 1) = yielded
        BY <1>q
      <4> QED
        BY <4>1, <4>2
    <3> QED
      BY <1>t, <1>2, <1>3, <2>2, <2>3, <3>1 DEF CountsAddUp
<1>6. CASE SaveOrder(i)
  <2> DEFINE row == IF old = NoRow THEN InsertedRow(s, i) ELSE UpdatedRow(old, s, i)
             a == IF old = NoRow THEN n.added + 1 ELSE n.added
             u == IF old = NoRow THEN n.updated ELSE n.updated + 1
             t == n.items + s.lines
  <2>1. txOrders' = [txOrders EXCEPT ![i][o] = row]
    BY <1>1, <1>6 DEF SaveOrder
  <2>2. counts' = [counts EXCEPT ![i] = [n EXCEPT !.added = a, !.updated = u, !.items = t]]
    BY <1>1, <1>6 DEF SaveOrder, TypeOK
  <2>3. row # NoRow
    BY <1>4, ApplyTypes, RowTypes, SnapshotsAssumption
  <2>4. \A p \in Orders : txOrders'[i][p] = IF p = o THEN row ELSE txOrders[i][p]
    <3> HIDE DEF row, o
    <3> QED
      BY <1>4, <2>1 DEF TypeOK
  <2>5. /\ counts'[i].rows = n.rows /\ counts'[i].added = a
        /\ counts'[i].updated = u /\ counts'[i].skipped = n.skipped
    <3> HIDE DEF a, u, t
    <3> QED
      BY <2>2, CountsTypes DEF Counters, TypeOK
  <2>6. CASE old = NoRow
    <3>1. orders[o] = NoRow /\ ~Wrote(i, o)
      BY <2>6 DEF Row, Wrote
    <3>2. Inserts(i)' = Inserts(i) \cup {o} /\ o \notin Inserts(i)
      <4> HIDE DEF row, o
      <4> QED
        BY <1>2, <1>4, <2>3, <2>4, <3>1 DEF Inserts, Wrote
    <3>3. IsFiniteSet(Inserts(i))
      BY DEF CountsAddUp
    <3>4. /\ IsFiniteSet(Inserts(i) \cup {o})
          /\ Cardinality(Inserts(i) \cup {o}) = Cardinality(Inserts(i)) + 1
      <4> HIDE DEF o
      <4> QED
        BY <3>2, <3>3, FS_AddElement
    <3>5. a = n.added + 1 /\ u = n.updated
      BY <2>6
    <3> HIDE DEF a, u, o
    <3>6. counts'[i].added + counts'[i].updated + counts'[i].skipped + Len(batch'[i])
              = Cardinality(OrdersYielded(i))
      <4>1. /\ counts'[i].added = added + 1 /\ counts'[i].updated = updated
            /\ counts'[i].skipped = skipped /\ Len(batch'[i]) = left - 1
            /\ Cardinality(OrdersYielded(i)) = yielded
        BY <1>p, <1>4, <2>5, <3>5
      <4>2. (added + 1) + updated + skipped + (left - 1) = yielded
        BY <1>q
      <4> QED
        BY <4>1, <4>2
    <3>7. IsFiniteSet(Inserts(i)') /\ counts'[i].added = Cardinality(Inserts(i)')
      BY <1>t, <2>5, <3>2, <3>4, <3>5
    <3> QED
      BY <1>t, <1>2, <1>3, <2>5, <3>6, <3>7 DEF CountsAddUp
  <2>7. CASE old # NoRow
    <3>1. Wrote(i, o) \/ orders[o] # NoRow
      BY <2>7 DEF Row
    <3>2. Inserts(i)' = Inserts(i)
      <4> HIDE DEF row, o
      <4> QED
        BY <1>2, <1>4, <2>3, <2>4, <3>1 DEF Inserts, Wrote
    <3>3. a = n.added /\ u = n.updated + 1
      BY <2>7
    <3> HIDE DEF a, u, o
    <3>4. counts'[i].added + counts'[i].updated + counts'[i].skipped + Len(batch'[i])
              = Cardinality(OrdersYielded(i))
      <4>1. /\ counts'[i].added = added /\ counts'[i].updated = updated + 1
            /\ counts'[i].skipped = skipped /\ Len(batch'[i]) = left - 1
            /\ Cardinality(OrdersYielded(i)) = yielded
        BY <1>p, <1>4, <2>5, <3>3
      <4>2. added + (updated + 1) + skipped + (left - 1) = yielded
        BY <1>q
      <4> QED
        BY <4>1, <4>2
    <3>5. IsFiniteSet(Inserts(i)') /\ counts'[i].added = Cardinality(Inserts(i)')
      BY <1>t, <2>5, <3>2, <3>3
    <3> QED
      BY <1>t, <1>2, <1>3, <2>5, <3>4, <3>5 DEF CountsAddUp
  <2> QED
    BY <2>6, <2>7
<1> QED
  BY <1>5, <1>6

(* A commit adds the orders that its transaction would insert, and takes   *)
(* none from what another one would.                                       *)
LEMMA CommitStores ==
    ASSUME IInv, CountsInv, NEW i \in Imports, Complete(i)
    PROVE  /\ IsFiniteSet(Stored')
           /\ Cardinality(Stored') = Cardinality(Stored) + counts[i].added
           /\ \A j \in Imports \ {i} : \A o \in Orders : Wrote(j, o) => orders'[o] = orders[o]
<1>1. orders' = [o \in Orders |-> Row(i, o)]
  BY DEF Complete
<1>2. Stored' = Stored \cup Inserts(i) /\ Stored \cap Inserts(i) = {}
  BY <1>1 DEF Stored, Inserts, Row, Wrote
<1>3. /\ IsFiniteSet(Stored) /\ IsFiniteSet(Inserts(i))
      /\ Cardinality(Inserts(i)) = counts[i].added
  BY DEF CountsInv, CountsAddUp
<1>4. /\ IsFiniteSet(Stored \cup Inserts(i))
      /\ Cardinality(Stored \cup Inserts(i))
             = Cardinality(Stored) + Cardinality(Inserts(i)) - Cardinality({})
  BY <1>2, <1>3, FS_Union
<1>5. Cardinality({}) = 0 /\ Cardinality(Stored) \in Nat /\ Cardinality(Inserts(i)) \in Nat
  BY <1>3, FS_EmptySet, FS_CardinalityType
<1>6. Cardinality(Stored') = Cardinality(Stored) + counts[i].added
  BY <1>2, <1>3, <1>4, <1>5
<1>7. \A j \in Imports \ {i} : \A o \in Orders : Wrote(j, o) => orders'[o] = orders[o]
  BY <1>1 DEF IInv, MergeInv, OneWriter, Row
<1> QED
  BY <1>2, <1>4, <1>6, <1>7

LEMMA CountsInit == Init => CountsInv
<1> SUFFICES ASSUME Init PROVE CountsInv
  OBVIOUS
<1>1. IsFiniteSet({}) /\ Cardinality({}) = 0
  BY FS_EmptySet
<1>2. Stored = {}
  BY DEF Init, Stored, NoWrites
<1>3. ASSUME NEW i \in Imports PROVE CountsAddUp(i)
  <2>1. Inserts(i) = {} /\ OrdersYielded(i) = {}
    BY DEF Init, Inserts, Wrote, NoWrites, OrdersYielded
  <2>2. Len(batch[i]) = 0 /\ counts[i].added = 0 /\ counts[i].updated = 0
        /\ counts[i].skipped = 0 /\ counts[i].rows = 0 /\ pos[i] = 0
    BY DEF Init, ZeroCounts
  <2> QED
    BY <1>1, <2>1, <2>2 DEF CountsAddUp
<1> QED
  BY <1>1, <1>2, <1>3 DEF CountsInv

LEMMA CountsNext == IInv /\ IInv' /\ CountsInv /\ [Next]_vars => CountsInv'
<1> SUFFICES ASSUME IInv, IInv', CountsInv, [Next]_vars PROVE CountsInv'
  OBVIOUS
<1>1. TypeOK /\ TypeOK' /\ IsFiniteSet(Stored) /\ \A j \in Imports : CountsAddUp(j)
  BY DEF IInv, CountsInv
<1>2. ASSUME NEW j \in Imports PROVE CountsAddUp(j)'
  <2>1. ASSUME NEW i \in Imports, NEW f \in Files, Receive(i, f) PROVE CountsAddUp(j)'
    <3>1. /\ UNCHANGED <<orders, pos, batch, counts, txOrders>>
          /\ file'[j] = file[j] \/ j = i
          /\ pos[i] = 0
      BY <1>1, <2>1 DEF Receive, TypeOK, tables, tx, IInv, MergeInv, FreshRequests
    <3> QED
      BY <1>1, <3>1, CountsIdle
  <2>2. ASSUME NEW S \in SUBSET Imports, Abort(S) PROVE CountsAddUp(j)'
    <3>1. UNCHANGED <<orders, file>>
      BY <2>2 DEF Abort, tables
    <3>2. CASE j \in S
      BY <2>2, <3>2, CountsFresh DEF Abort, Return
    <3>3. CASE j \notin S
      BY <1>1, <2>2, <3>1, <3>3, CountsIdle DEF Abort, Return
    <3> QED
      BY <3>2, <3>3
  <2>3. ASSUME NEW i \in Imports, Begin(i) \/ FlushRest(i) PROVE CountsAddUp(j)'
    BY <1>1, <2>3, CountsIdle DEF Begin, FlushRest, tables, tx
  <2>4. ASSUME NEW i \in Imports, YieldOther(i) \/ YieldOrder(i) PROVE CountsAddUp(j)'
    <3>1. CASE j = i
      BY <1>1, <2>4, <3>1, CountsYield
    <3>2. CASE j # i
      <4>1. UNCHANGED <<orders, file, pos[j], batch[j], counts[j], txOrders[j]>>
        BY <1>1, <2>4, <3>2 DEF YieldOther, YieldOrder, TypeOK, tables, tx
      <4> QED
        BY <1>1, <4>1, CountsIdle
    <3> QED
      BY <3>1, <3>2
  <2>5. ASSUME NEW i \in Imports, SaveOrder(i) \/ SkipOrder(i) PROVE CountsAddUp(j)'
    <3>1. CASE j = i
      BY <1>1, <2>5, <3>1, CountsSave
    <3>2. CASE j # i
      <4>1. UNCHANGED <<orders, file, pos[j], batch[j], counts[j], txOrders[j]>>
        BY <1>1, <2>5, <3>2 DEF SaveOrder, SkipOrder, NextOfBatch, TypeOK, tables, tx
      <4> QED
        BY <1>1, <4>1, CountsIdle
    <3> QED
      BY <3>1, <3>2
  <2>6. ASSUME NEW i \in Imports, Complete(i) PROVE CountsAddUp(j)'
    <3>1. CASE j = i
      BY <2>6, <3>1, CountsFresh DEF Complete, Return
    <3>2. CASE j # i
      <4>1. UNCHANGED <<file[j], pos[j], batch[j], counts[j], txOrders[j]>>
        BY <2>6, <3>2 DEF Complete, Return
      <4>2. \A o \in Orders : Wrote(j, o) => orders'[o] = orders[o]
        BY <2>6, <3>2, CommitStores
      <4> QED
        BY <1>1, <4>1, <4>2, CountsIdle
    <3> QED
      BY <3>1, <3>2
  <2>7. CASE UNCHANGED vars
    BY <1>1, <2>7, CountsIdle DEF vars, tables, tx
  <2>8. ASSUME NEW i \in Imports, RejectOld(i) \/ RejectEmpty(i) \/ Fail(i) \/ DeadlockAbort(i)
        PROVE  CountsAddUp(j)'
    BY <2>2, <2>8 DEF RejectOld, RejectEmpty, Fail, DeadlockAbort
  <2>9. CASE Crash
    BY <2>2, <2>9 DEF Crash, InFlight
  <2> QED
    BY <2>1, <2>3, <2>4, <2>5, <2>6, <2>7, <2>8, <2>9 DEF Next, Step
<1>3. IsFiniteSet(Stored')
  <2>1. CASE orders' = orders
    BY <1>1, <2>1 DEF Stored
  <2>2. ASSUME NEW i \in Imports, Complete(i) PROVE IsFiniteSet(Stored')
    BY <2>2, CommitStores
  <2> QED
    BY <2>1, <2>2, StepKinds DEF tables, SaveOrder, Abort
<1> QED
  BY <1>2, <1>3 DEF CountsInv

(* The journal row of every import counts its rows and its orders, and the *)
(* table has grown by as many orders as the row says were added.           *)
THEOREM JournalIsExact == Spec => JournalAddsUp
<1> DEFINE Exact == \A i \in Imports :
         rawImport'[i] # rawImport[i] =>
             LET n == rawImport'[i]
             IN  /\ n.rows = Len(file[i])
                 /\ n.added + n.updated + n.skipped
                        = Cardinality({k \in 1..Len(file[i]) : file[i][k].order # NoOrder})
                 /\ Cardinality(Stored') = Cardinality(Stored) + n.added
<1>1. ASSUME IInv, CountsInv, [Next]_vars PROVE Exact
  <2>1. CASE rawImport' = rawImport
    BY <2>1
  <2>2. ASSUME NEW i \in Imports, Complete(i) PROVE Exact
    <3>1. /\ rawImport' = [rawImport EXCEPT ![i] = counts[i]] /\ TypeOK
          /\ pos[i] = Len(file[i]) /\ batch[i] = <<>>
      BY <1>1, <2>2 DEF Complete, AtEnd, IInv
    <3>2. CountsAddUp(i) /\ Len(batch[i]) = 0
      BY <1>1, <3>1 DEF CountsInv
    <3>3. /\ counts[i].rows = Len(file[i])
          /\ counts[i].added + counts[i].updated + counts[i].skipped = Cardinality(OrdersYielded(i))
      BY <3>1, <3>2, CountsTypes DEF CountsAddUp
    <3>4. OrdersYielded(i) = {k \in 1..Len(file[i]) : file[i][k].order # NoOrder}
      BY <3>1 DEF OrdersYielded
    <3>5. Cardinality(Stored') = Cardinality(Stored) + counts[i].added
      BY <1>1, <2>2, CommitStores
    <3>6. \A j \in Imports : rawImport'[j] # rawImport[j] => j = i /\ rawImport'[j] = counts[i]
      BY <3>1 DEF TypeOK
    <3> QED
      BY <3>3, <3>4, <3>5, <3>6
  <2> QED
    BY <1>1, <2>1, <2>2, StepKinds DEF tables, SaveOrder, Abort
<1>2. Exact => [Exact]_vars
  OBVIOUS
<1>3. IInv /\ CountsInv /\ [Next]_vars => CountsInv'
  BY InvNext, CountsNext
<1> QED
  BY <1>1, <1>2, <1>3, InvInit, InvNext, CountsInit, PTL DEF Spec, JournalAddsUp
-----------------------------------------------------------------------------
(* One step of ApplyFile.                                                  *)
Merged(t, f, i, k) ==
    IF f[k].order = NoOrder THEN t ELSE Store!ApplySnapshot(t, f[k], i)

(* A run of a file: the tables before it and after each of its records.    *)
IsRun(run, t, f, i, d) ==
    run = [k \in 0..d |-> IF k = 0 THEN t ELSE Merged(run[k - 1], f, i, k)]

Counted(t, n) == [t EXCEPT !.counts.rows = n]

LEMMA RunIsApplied ==
    ASSUME NEW t, NEW f, Len(f) \in Nat, NEW i, NEW run, IsRun(run, t, f, i, Len(f))
    PROVE  Store!ApplyFile(t, f, i) = Counted(run[Len(f)], Len(f))
<1> DEFINE after == CHOOSE g : IsRun(g, t, f, i, Len(f))
<1>1. IsRun(after, t, f, i, Len(f))
  OBVIOUS
<1>2. Store!ApplyFile(t, f, i) = Counted(after[Len(f)], Len(f))
  BY DEF Store!ApplyFile, IsRun, Merged, Counted
<1> HIDE DEF after
<1>3. \A k \in 0..Len(f) : after[k] = run[k]
  <2> SUFFICES ASSUME NEW j \in 0..Len(f), after[j] # run[j] PROVE FALSE
    OBVIOUS
  <2> DEFINE S == {k \in 0..Len(f) : after[k] # run[k]}
  <2>1. PICK k \in S : \A m \in S : k <= m
    <3>1. S \in SUBSET Nat /\ S # {}
      OBVIOUS
    <3> HIDE DEF S
    <3> QED
      BY <3>1, LeastNumber
  <2>2. k # 0
    BY <1>1 DEF IsRun
  <2>3. k - 1 \in 0..Len(f) /\ k - 1 \notin S
    BY <2>1, <2>2
  <2>4. after[k - 1] = run[k - 1]
    BY <2>3
  <2>5. after[k] = Merged(after[k - 1], f, i, k) /\ run[k] = Merged(run[k - 1], f, i, k)
    BY <1>1, <2>2 DEF IsRun
  <2> QED
    BY <2>4, <2>5
<1> QED
  BY <1>2, <1>3
-----------------------------------------------------------------------------
(* What the tables hold while a file is applied.                           *)
TableState == [orders: [Orders -> OrderRow \cup {NoRow}], items: [Orders -> Seq(ItemRow)],
               counts: Counters]

(* The row that the snapshot meets is newer.                               *)
Overtaken(t, s) == t.orders[s.order] # NoRow /\ ~Accepts(t.orders[s.order], s)

(* The row that the snapshot leaves.                                       *)
NewRow(t, s, i) ==
    IF t.orders[s.order] = NoRow THEN InsertedRow(s, i) ELSE UpdatedRow(t.orders[s.order], s, i)

(* What a skipped snapshot and a written one leave.                        *)
Skipped(t) == [t EXCEPT !.counts.skipped = @ + 1]

Written(t, s, i) ==
    [orders |-> [t.orders EXCEPT ![s.order] = NewRow(t, s, i)],
     items  |-> [t.items EXCEPT ![s.order] = InsertedItems(s, i)],
     counts |-> [t.counts EXCEPT
         !.added   = IF t.orders[s.order] = NoRow THEN @ + 1 ELSE @,
         !.updated = IF t.orders[s.order] = NoRow THEN @ ELSE @ + 1,
         !.items   = @ + s.lines]]

LEMMA SkippedParts ==
    ASSUME NEW t \in TableState
    PROVE  Skipped(t) = [orders |-> t.orders, items |-> t.items,
                         counts |-> [t.counts EXCEPT !.skipped = @ + 1]]
<1>1. PICK p, q, n : t = [orders |-> p, items |-> q, counts |-> n]
  BY DEF TableState
<1> QED
  BY <1>1 DEF Skipped

(* A snapshot is skipped and only counted, or it is written.               *)
LEMMA ApplyCases ==
    ASSUME NEW t \in TableState, NEW s \in Snapshot, NEW i \in Imports
    PROVE  /\ Store!ApplySnapshot(t, s, i) \in TableState
           /\ Overtaken(t, s) => Store!ApplySnapshot(t, s, i) = Skipped(t)
           /\ ~Overtaken(t, s) => Store!ApplySnapshot(t, s, i) = Written(t, s, i)
<1> DEFINE o   == s.order
           old == t.orders[o]
           new == Store!ApplySnapshot(t, s, i)
           n   == t.counts
           add == IF old = NoRow THEN n.added + 1 ELSE n.added
           upd == IF old = NoRow THEN n.updated ELSE n.updated + 1
<1>1. /\ o \in Orders /\ s.lines \in Nat /\ old \in OrderRow \cup {NoRow}
      /\ n \in Counters /\ n.added \in Nat /\ n.updated \in Nat /\ n.items \in Nat
      /\ n.skipped \in Nat
  BY DEF Snapshot, TableState, Counters
<1>2. NewRow(t, s, i) \in OrderRow /\ InsertedItems(s, i) \in Seq(ItemRow)
      /\ \A x : ReplaceItems(x, s, i) = InsertedItems(s, i)
  BY <1>1, ApplyTypes DEF NewRow
<1>3. CASE Overtaken(t, s)
  <2>1. new = Skipped(t)
    BY <1>3 DEF Store!ApplySnapshot, Store!Accepts, Store!Coalesce, Store!NoTime, Accepts,
       Coalesce, NoTime, Overtaken, Skipped
  <2>2. [n EXCEPT !.skipped = n.skipped + 1] \in Counters
    BY <1>1 DEF Counters
  <2>3. new \in TableState
    BY <2>1, <2>2 DEF TableState, Skipped
  <2> QED
    BY <1>3, <2>1, <2>3
<1>4. CASE ~Overtaken(t, s)
  <2>1. new = Written(t, s, i)
    <3>1. \A x : Store!ReplaceItems(x, s, i) = InsertedItems(s, i)
      BY <1>2 DEF Store!ReplaceItems, Store!InsertedItems, ReplaceItems, InsertedItems
    <3>2. /\ Store!InsertedRow(s, i) = InsertedRow(s, i)
          /\ Store!UpdatedRow(old, s, i) = UpdatedRow(old, s, i)
          /\ Store!Accepts(old, s) = Accepts(old, s)
      BY DEF Store!InsertedRow, InsertedRow, Store!UpdatedRow, UpdatedRow, Store!Coalesce,
         Coalesce, Store!NoTime, NoTime, Store!Accepts, Accepts
    <3> QED
      BY <1>4, <3>1, <3>2 DEF Store!ApplySnapshot, Overtaken, Written, NewRow
  <2>2. [n EXCEPT !.added = add, !.updated = upd, !.items = n.items + s.lines] \in Counters
    <3>1. add \in Nat /\ upd \in Nat /\ n.items + s.lines \in Nat
      <4> HIDE DEF old, n
      <4> QED
        BY <1>1 DEF n
    <3> QED
      BY <1>1, <3>1, MoreCounts
  <2>3. Written(t, s, i) =
            [orders |-> [t.orders EXCEPT ![o] = NewRow(t, s, i)],
             items |-> [t.items EXCEPT ![o] = InsertedItems(s, i)],
             counts |-> [n EXCEPT !.added = add, !.updated = upd, !.items = n.items + s.lines]]
    BY DEF Written
  <2>4. new \in TableState
    <3> HIDE DEF add, upd, n, new
    <3> QED
      BY <1>1, <1>2, <2>1, <2>2, <2>3 DEF TableState
  <2> QED
    BY <1>4, <2>1, <2>4
<1> QED
  BY <1>3, <1>4

-----------------------------------------------------------------------------
(* The tables as the open transaction of i sees them, with what its Merge  *)
(* has counted.                                                            *)
Seen(i) == [orders |-> [o \in Orders |-> Row(i, o)],
            items  |-> [o \in Orders |-> Items(i, o)],
            counts |-> [counts[i] EXCEPT !.rows = 0]]

(* What i has merged so far is a run of the first d records of its file    *)
(* over the tables as they are now.  Orders that it has not written were   *)
(* not in these records, or were newer than they say.                      *)
Replays(i, d, run) ==
    /\ run \in [0..d -> TableState]
    /\ IsRun(run, Store!Tables, file[i], i, d)
    /\ run[d] = Seen(i)
    /\ \A o \in Orders : ~Wrote(i, o) =>
           /\ \A k \in 0..d : run[k].orders[o] = orders[o] /\ run[k].items[o] = items[o]
           /\ \A k \in 1..d : file[i][k].order = o =>
                  orders[o] # NoRow /\ ~Accepts(orders[o], file[i][k])

(* The batch holds, in their order, the snapshots among the records after  *)
(* the first d that have been read.                                        *)
Waits(i, d, at) ==
    /\ d \in 0..pos[i]
    /\ at \in [1..Len(batch[i]) -> (d + 1)..pos[i]]
    /\ \A b \in 1..Len(batch[i]) : batch[i][b] = file[i][at[b]]
    /\ \A b, c \in 1..Len(batch[i]) : b < c => at[b] < at[c]
    /\ \A k \in (d + 1)..pos[i] : file[i][k].order # NoOrder =>
           \E b \in 1..Len(batch[i]) : at[b] = k

Replayed(i) == \E d \in Nat : \E run, at : Replays(i, d, run) /\ Waits(i, d, at)

(* What the invariant of OrderMerge does not say yet of the requests.      *)
FromFiles ==
    \A i \in Imports :
        /\ pc[i] # "idle" => file[i] \in Files
        /\ counts[i].rows = pos[i]
        /\ \A k \in 1..pos[i] : file[i][k].order # NoOrder => ~TooOld(file[i][k])

SInv == IInv /\ Journalled /\ FromFiles /\ \A i \in Imports : Replayed(i)

(* A request whose transaction has done nothing yet, or has gone.          *)
LEMMA FreshReplayed ==
    ASSUME TypeOK', NEW i \in Imports, pos'[i] = 0, batch'[i] = <<>>, counts'[i] = ZeroCounts,
           txOrders'[i] = NoWrites
    PROVE  Replayed(i)'
<1> DEFINE t == [orders |-> orders', items |-> items', counts |-> ZeroCounts]
           at == [b \in 1..0 |-> 1]
<1>1. t \in TableState
  <2>1. ZeroCounts \in Counters
    BY DEF ZeroCounts, Counters
  <2> QED
    BY <2>1 DEF TypeOK, TableState
<1>2. t = (Store!Tables)'
  BY DEF Store!Tables, ZeroCounts, Store!ZeroCounts
<1>3. \A o \in Orders : ~Wrote(i, o)' /\ Row(i, o)' = orders'[o] /\ Items(i, o)' = items'[o]
  BY DEF Wrote, Row, Items, NoWrites
<1>4. t = Seen(i)'
  <2>1. orders' = [o \in Orders |-> Row(i, o)'] /\ items' = [o \in Orders |-> Items(i, o)']
    BY <1>3 DEF TypeOK
  <2>2. [counts'[i] EXCEPT !.rows = 0] = ZeroCounts
    BY DEF ZeroCounts
  <2> QED
    BY <2>1, <2>2 DEF Seen
<1>5. PICK run : run = [k \in 0..0 |-> t]
  OBVIOUS
<1>6. run[0] = t /\ run \in [0..0 -> TableState] /\ 1..0 = {}
  <2> HIDE DEF t
  <2> QED
    BY <1>1, <1>5
<1>7. IsRun(run, (Store!Tables)', file'[i], i, 0)
  BY <1>2, <1>5 DEF IsRun
<1>8. \A o \in Orders : \A k \in 0..0 : run[k].orders[o] = orders'[o] /\ run[k].items[o] = items'[o]
  BY <1>6
<1>9. Replays(i, 0, run)'
  <2> HIDE DEF t
  <2> QED
    BY <1>4, <1>6, <1>7, <1>8 DEF Replays
<1>10. Waits(i, 0, at)'
  BY DEF Waits
<1> QED
  BY <1>9, <1>10 DEF Replayed

(* A step that changes neither the tables nor what i has.                  *)
LEMMA IdleReplayed ==
    ASSUME NEW i \in Imports, Replayed(i),
           UNCHANGED <<orders, items, pos[i], batch[i], counts[i], txOrders[i], txItems[i]>>,
           file'[i] = file[i] \/ pos[i] = 0
    PROVE  Replayed(i)'
<1>1. PICK d \in Nat : \E run, at : Replays(i, d, run) /\ Waits(i, d, at)
  BY DEF Replayed
<1>2. PICK run, at : Replays(i, d, run) /\ Waits(i, d, at)
  BY <1>1
<1>3. Seen(i)' = Seen(i) /\ \A o \in Orders : Wrote(i, o)' <=> Wrote(i, o)
  BY DEF Seen, Row, Items, Wrote
<1>4. Store!Tables' = Store!Tables
  BY DEF Store!Tables
<1>5. CASE file'[i] = file[i]
  <2>1. IsRun(run, Store!Tables', file'[i], i, d)
    BY <1>2, <1>4, <1>5 DEF Replays
  <2>2. Replays(i, d, run)'
    BY <1>2, <1>3, <1>5, <2>1 DEF Replays
  <2>3. Waits(i, d, at)'
    BY <1>2, <1>5 DEF Waits
  <2> QED
    BY <2>2, <2>3 DEF Replayed
<1>6. CASE pos[i] = 0
  <2>1. d = 0 /\ 1..Len(batch[i]) = {}
    <3>1. d = 0
      BY <1>2, <1>6 DEF Waits
    <3>2. \A b \in 1..Len(batch[i]) : at[b] \in 1..0
      BY <1>2, <1>6, <3>1 DEF Waits
    <3> QED
      BY <3>1, <3>2
  <2>2. Replays(i, d, run)'
    BY <1>2, <1>3, <1>4, <2>1 DEF Replays, IsRun
  <2>3. Waits(i, d, at)'
    BY <1>2, <1>6, <2>1 DEF Waits
  <2> QED
    BY <2>2, <2>3 DEF Replayed
<1> QED
  BY <1>5, <1>6

(* A record that is not an order leaves the tables as they are, so that a  *)
(* run goes on over any number of them to the next record that counts.     *)
NoOrders(f, d, m) == \A k \in (d + 1)..(m - 1) : f[k].order = NoOrder

GoesOn(r, run, t, f, i, d, m) ==
    /\ r \in [0..m -> TableState]
    /\ IsRun(r, t, f, i, m)
    /\ \A k \in 0..d : r[k] = run[k]
    /\ \A k \in (d + 1)..(m - 1) : r[k] = run[d]
    /\ r[m] = Merged(run[d], f, i, m)

LEMMA RunGrows ==
    ASSUME NEW t, NEW f, NEW i, NEW d \in Nat, NEW m \in Nat, d < m,
           NEW run, run \in [0..d -> TableState], IsRun(run, t, f, i, d),
           NoOrders(f, d, m),
           Merged(run[d], f, i, m) \in TableState
    PROVE  \E r : GoesOn(r, run, t, f, i, d, m)
<1> USE DEF NoOrders
<1> DEFINE new == Merged(run[d], f, i, m)
<1>1. PICK r : r = [k \in 0..m |-> IF k <= d THEN run[k] ELSE IF k < m THEN run[d] ELSE new]
  OBVIOUS
<1> HIDE DEF new
<1>2. /\ \A k \in 0..d : r[k] = run[k]
      /\ \A k \in (d + 1)..(m - 1) : r[k] = run[d]
      /\ r[m] = new
  BY <1>1
<1>3. r \in [0..m -> TableState]
  <2>1. new \in TableState /\ run[d] \in TableState
    BY DEF new
  <2> QED
    BY <1>1, <2>1
<1>4. IsRun(r, t, f, i, m)
  <2> SUFFICES ASSUME NEW k \in 0..m
               PROVE  r[k] = IF k = 0 THEN t ELSE Merged(r[k - 1], f, i, k)
    <3>1. r = [k \in 0..m |-> r[k]]
      BY <1>3
    <3> QED
      BY <3>1 DEF IsRun
  <2>1. CASE k <= d
    <3>1. run[k] = IF k = 0 THEN t ELSE Merged(run[k - 1], f, i, k)
      BY <2>1 DEF IsRun
    <3>2. k # 0 => k - 1 \in 0..d
      BY <2>1
    <3> QED
      BY <1>2, <2>1, <3>1, <3>2
  <2>2. CASE d < k /\ k < m
    <3>1. r[k] = run[d] /\ r[k - 1] = run[d]
      <4>1. k - 1 = d \/ k - 1 \in (d + 1)..(m - 1)
        BY <2>2
      <4> QED
        BY <1>2, <2>2, <4>1
    <3>2. f[k].order = NoOrder
      BY <2>2
    <3> QED
      BY <2>2, <3>1, <3>2 DEF Merged
  <2>3. CASE k = m
    <3>1. r[m - 1] = run[d]
      <4>1. m - 1 = d \/ m - 1 \in (d + 1)..(m - 1)
        OBVIOUS
      <4> QED
        BY <1>2, <4>1
    <3> QED
      BY <1>2, <2>3, <3>1 DEF new
  <2> QED
    BY <2>1, <2>2, <2>3
<1> QED
  BY <1>2, <1>3, <1>4 DEF new, GoesOn

(* A record read from the file waits in the batch when it is an order.     *)
LEMMA YieldReplayed ==
    ASSUME TypeOK, NEW i \in Imports, Replayed(i), YieldOther(i) \/ YieldOrder(i)
    PROVE  \A j \in Imports : Replayed(j) => Replayed(j)'
<1>1. PICK d \in Nat : \E run, at : Replays(i, d, run) /\ Waits(i, d, at)
  BY DEF Replayed
<1>2. PICK run, at : Replays(i, d, run) /\ Waits(i, d, at)
  BY <1>1
<1>3. /\ UNCHANGED <<orders, items, file, txOrders, txItems>>
      /\ pos'[i] = pos[i] + 1 /\ pos[i] \in Nat
      /\ counts'[i] = [counts[i] EXCEPT !.rows = @ + 1]
      /\ \A j \in Imports \ {i} : pos'[j] = pos[j] /\ batch'[j] = batch[j] /\ counts'[j] = counts[j]
  BY DEF YieldOther, YieldOrder, TypeOK, tables, tx
<1>4. Replays(i, d, run)'
  <2>1. Seen(i)' = Seen(i) /\ \A o \in Orders : Wrote(i, o)' <=> Wrote(i, o)
    <3>1. [counts'[i] EXCEPT !.rows = 0] = [counts[i] EXCEPT !.rows = 0]
      <4>1. counts[i] \in Counters
        BY DEF TypeOK
      <4> QED
        BY <1>3, <4>1 DEF Counters
    <3> QED
      BY <1>3, <3>1 DEF Seen, Row, Items, Wrote
  <2>2. Store!Tables' = Store!Tables
    BY <1>3 DEF Store!Tables
  <2>3. IsRun(run, Store!Tables', file'[i], i, d)
    BY <1>2, <1>3, <2>2 DEF Replays
  <2> QED
    BY <1>2, <1>3, <2>1, <2>3 DEF Replays
<1> DEFINE n == Len(batch[i])
<1>5. batch[i] \in Seq(Snapshot) /\ n \in Nat
  BY LenProperties DEF TypeOK
<1>w. /\ at \in [1..n -> (d + 1)..pos[i]] /\ d \in 0..pos[i]
      /\ \A b \in 1..n : batch[i][b] = file[i][at[b]]
      /\ \A b, c \in 1..n : b < c => at[b] < at[c]
      /\ \A k \in (d + 1)..pos[i] : file[i][k].order # NoOrder => \E b \in 1..n : at[b] = k
  BY <1>2 DEF Waits
<1>6. ASSUME YieldOther(i) PROVE Replayed(i)'
  <2>1. batch' = batch /\ file[i][pos[i] + 1].order = NoOrder
    BY <1>6 DEF YieldOther, NextRecord
  <2>2. Waits(i, d, at)'
    <3>1. \A k \in (d + 1)..(pos[i] + 1) : k \in (d + 1)..pos[i] \/ k = pos[i] + 1
      BY <1>3
    <3>2. at \in [1..n -> (d + 1)..(pos[i] + 1)] /\ d \in 0..(pos[i] + 1)
      BY <1>2, <1>3, <1>5 DEF Waits
    <3> QED
      BY <1>2, <1>3, <2>1, <3>1, <3>2 DEF Waits
  <2> QED
    BY <1>4, <2>2 DEF Replayed
<1>7. ASSUME YieldOrder(i) PROVE Replayed(i)'
  <2>1. batch'[i] = Append(batch[i], file[i][pos[i] + 1])
    BY <1>7 DEF YieldOrder, NextRecord, TypeOK
  <2>2. /\ Len(batch'[i]) = n + 1
        /\ \A b \in 1..n : batch'[i][b] = batch[i][b]
        /\ batch'[i][n + 1] = file[i][pos[i] + 1]
    BY <1>5, <2>1, AppendProperties
  <2>3. PICK more : more = [b \in 1..(n + 1) |-> IF b <= n THEN at[b] ELSE pos[i] + 1]
    OBVIOUS
  <2> HIDE DEF n
  <2>4. \A b \in 1..n : more[b] = at[b] /\ at[b] \in (d + 1)..pos[i]
    BY <1>w, <1>5, <2>3
  <2>5. more[n + 1] = pos[i] + 1 /\ d \in 0..pos[i]
    BY <1>w, <1>5, <2>3
  <2>6. Waits(i, d, more)'
    <3>1. more \in [1..(n + 1) -> (d + 1)..(pos[i] + 1)]
      <4>1. \A b \in 1..(n + 1) : b \in 1..n \/ b = n + 1
        BY <1>5
      <4>2. \A b \in 1..(n + 1) : more[b] \in (d + 1)..(pos[i] + 1)
        BY <1>3, <2>4, <2>5, <4>1
      <4> QED
        BY <2>3, <4>2
    <3>2. \A b \in 1..(n + 1) : batch'[i][b] = file[i][more[b]]
      <4> SUFFICES ASSUME NEW b \in 1..(n + 1) PROVE batch'[i][b] = file[i][more[b]]
        OBVIOUS
      <4>1. CASE b = n + 1
        BY <2>2, <2>5, <4>1
      <4>2. CASE b # n + 1
        <5>1. b \in 1..n
          BY <1>5, <4>2
        <5> QED
          BY <1>w, <2>2, <2>4, <5>1
      <4> QED
        BY <4>1, <4>2
    <3>3. \A b, c \in 1..(n + 1) : b < c => more[b] < more[c]
      <4> SUFFICES ASSUME NEW b \in 1..(n + 1), NEW c \in 1..(n + 1), b < c
                   PROVE  more[b] < more[c]
        OBVIOUS
      <4>1. b \in 1..n /\ (c = n + 1 \/ c \in 1..n)
        BY <1>5
      <4>2. CASE c = n + 1
        <5>1. at[b] \in (d + 1)..pos[i] /\ more[b] = at[b]
          BY <2>4, <4>1
        <5> QED
          BY <1>3, <2>5, <4>2, <5>1
      <4>3. CASE c \in 1..n
        BY <1>w, <2>4, <4>1, <4>3
      <4> QED
        BY <4>1, <4>2, <4>3
    <3>4. \A k \in (d + 1)..(pos[i] + 1) : file[i][k].order # NoOrder =>
              \E b \in 1..(n + 1) : more[b] = k
      <4> SUFFICES ASSUME NEW k \in (d + 1)..(pos[i] + 1), file[i][k].order # NoOrder
                   PROVE  \E b \in 1..(n + 1) : more[b] = k
        OBVIOUS
      <4>1. CASE k = pos[i] + 1
        BY <1>5, <2>5, <4>1
      <4>2. CASE k # pos[i] + 1
        <5>1. PICK b \in 1..n : at[b] = k
          <6>1. k \in (d + 1)..pos[i]
            BY <1>3, <4>2
          <6> QED
            BY <1>w, <6>1
        <5> QED
          BY <1>5, <2>4, <5>1
      <4> QED
        BY <4>1, <4>2
    <3> QED
      BY <1>3, <2>2, <2>5, <3>1, <3>2, <3>3, <3>4 DEF Waits
  <2> QED
    BY <1>4, <2>6 DEF Replayed
<1>8. ASSUME NEW j \in Imports, Replayed(j), j # i PROVE Replayed(j)'
  BY <1>3, <1>8, IdleReplayed
<1> QED
  BY <1>6, <1>7, <1>8

(* The first snapshot of the batch is merged, or skipped: the run goes on  *)
(* to its record, and the rest of the batch still waits.                   *)
LEMMA NextReplayed ==
    ASSUME IInv, IInv', NEW i \in Imports, Replayed(i), SaveOrder(i) \/ SkipOrder(i)
    PROVE  Replayed(i)'
<1> USE SnapshotsAssumption
<1>1. PICK d \in Nat : \E run, at : Replays(i, d, run) /\ Waits(i, d, at)
  BY DEF Replayed
<1>2. PICK run, at : Replays(i, d, run) /\ Waits(i, d, at)
  BY <1>1
<1>s. PICK s : s = Head(batch[i])
  OBVIOUS
<1> DEFINE o == s.order
           n == Len(batch[i])
           m == at[1]
           rest == Tail(batch[i])
<1>3. /\ Saving(i) /\ NextOfBatch(i) /\ TypeOK
      /\ UNCHANGED <<orders, items, file, pos>>
  BY <1>s DEF SaveOrder, SkipOrder, tables, IInv
<1>4. /\ s \in Snapshot /\ s = batch[i][1] /\ n \in Nat \ {0}
      /\ batch'[i] = rest /\ Len(rest) = n - 1
      /\ \A b \in 1..(n - 1) : rest[b] = batch[i][b + 1]
      /\ pos[i] \in Nat
  <2>1. batch[i] \in Seq(Snapshot) /\ batch[i] # <<>>
    BY <1>3 DEF TypeOK, Saving
  <2>2. s = batch[i][1] /\ n # 0 /\ n \in Nat
    BY <1>s, <2>1, HeadTailProperties, EmptySeq, LenProperties
  <2> QED
    BY <1>s, <1>3, <2>2, HeadOfBatch DEF NextOfBatch, TypeOK
<1>5. /\ d \in 0..pos[i] /\ at \in [1..n -> (d + 1)..pos[i]]
      /\ \A b \in 1..n : batch[i][b] = file[i][at[b]]
      /\ \A b, c \in 1..n : b < c => at[b] < at[c]
      /\ \A k \in (d + 1)..pos[i] : file[i][k].order # NoOrder => \E b \in 1..n : at[b] = k
  BY <1>2 DEF Waits
<1>6. 1 \in 1..n /\ m \in (d + 1)..pos[i] /\ m \in Nat /\ d < m /\ file[i][m] = s /\ o \in Orders
  <2>1. 1 \in 1..n
    BY <1>4
  <2> QED
    BY <1>4, <1>5, <2>1 DEF Snapshot
<1>7. \A k \in (d + 1)..(m - 1) : file[i][k].order = NoOrder
  <2> SUFFICES ASSUME NEW k \in (d + 1)..(m - 1), file[i][k].order # NoOrder PROVE FALSE
    OBVIOUS
  <2>1. k \in (d + 1)..pos[i] /\ k < m
    BY <1>4, <1>6
  <2>2. PICK b \in 1..n : at[b] = k
    BY <1>5, <2>1
  <2>3. b = 1 \/ 1 < b
    BY <1>4
  <2> QED
    BY <1>5, <1>6, <2>1, <2>2, <2>3
<1>8. PICK later : later = [b \in 1..(n - 1) |-> at[b + 1]]
  OBVIOUS
<1>9. Waits(i, m, later)'
  <2> HIDE DEF n, m, rest
  <2>1. \A b \in 1..(n - 1) : /\ b + 1 \in 1..n /\ later[b] = at[b + 1]
                              /\ at[b + 1] \in (m + 1)..pos[i]
    <3> SUFFICES ASSUME NEW b \in 1..(n - 1)
                 PROVE  /\ b + 1 \in 1..n /\ later[b] = at[b + 1]
                        /\ at[b + 1] \in (m + 1)..pos[i]
      OBVIOUS
    <3>1. b + 1 \in 1..n /\ 1 < b + 1
      BY <1>4
    <3>2. at[1] < at[b + 1] /\ at[b + 1] \in (d + 1)..pos[i]
      BY <1>5, <1>6, <3>1
    <3>3. m < at[b + 1]
      BY <3>2 DEF m
    <3> QED
      BY <1>4, <1>6, <1>8, <3>1, <3>2, <3>3
  <2>2. later \in [1..(n - 1) -> (m + 1)..pos[i]]
    BY <1>8, <2>1
  <2>3. \A b \in 1..(n - 1) : rest[b] = file[i][later[b]]
    <3> SUFFICES ASSUME NEW b \in 1..(n - 1) PROVE rest[b] = file[i][later[b]]
      OBVIOUS
    <3>1. rest[b] = batch[i][b + 1] /\ b + 1 \in 1..n /\ later[b] = at[b + 1]
      BY <1>4, <2>1
    <3>2. batch[i][b + 1] = file[i][at[b + 1]]
      BY <1>5, <3>1
    <3> QED
      BY <3>1, <3>2
  <2>4. \A b, c \in 1..(n - 1) : b < c => later[b] < later[c]
    <3> SUFFICES ASSUME NEW b \in 1..(n - 1), NEW c \in 1..(n - 1), b < c
                 PROVE  later[b] < later[c]
      OBVIOUS
    <3>1. b + 1 \in 1..n /\ c + 1 \in 1..n /\ b + 1 < c + 1
      BY <1>4
    <3> QED
      BY <1>5, <2>1, <3>1
  <2>5. \A k \in (m + 1)..pos[i] : file[i][k].order # NoOrder =>
            \E b \in 1..(n - 1) : later[b] = k
    <3> SUFFICES ASSUME NEW k \in (m + 1)..pos[i], file[i][k].order # NoOrder
                 PROVE  \E b \in 1..(n - 1) : later[b] = k
      OBVIOUS
    <3>1. k \in (d + 1)..pos[i] /\ k # m
      BY <1>6
    <3>2. PICK b \in 1..n : at[b] = k
      BY <1>5, <3>1
    <3>3. b # 1
      BY <3>1, <3>2 DEF m
    <3>4. b - 1 \in 1..(n - 1) /\ b - 1 + 1 = b
      BY <1>4, <3>3
    <3> QED
      BY <2>1, <3>2, <3>4
  <2>6. m \in 0..pos[i]
    BY <1>6
  <2> QED
    BY <1>3, <1>4, <2>2, <2>3, <2>4, <2>5, <2>6 DEF Waits
<1>10. /\ run \in [0..d -> TableState]
       /\ IsRun(run, Store!Tables, file[i], i, d)
       /\ run[d] = Seen(i) /\ Seen(i) \in TableState
       /\ \A p \in Orders : ~Wrote(i, p) =>
              /\ \A k \in 0..d : run[k].orders[p] = orders[p] /\ run[k].items[p] = items[p]
              /\ \A k \in 1..d : file[i][k].order = p =>
                     orders[p] # NoRow /\ ~Accepts(orders[p], file[i][k])
  BY <1>2 DEF Replays
<1>11. Merged(run[d], file[i], i, m) = Store!ApplySnapshot(Seen(i), s, i)
  BY <1>6, <1>10 DEF Merged
<1> DEFINE new == Store!ApplySnapshot(Seen(i), s, i)
<1>12. /\ new \in TableState
       /\ Overtaken(Seen(i), s) => new = Skipped(Seen(i))
       /\ ~Overtaken(Seen(i), s) => new = Written(Seen(i), s, i)
  <2>1. Seen(i) \in TableState /\ s \in Snapshot
    BY <1>4, <1>10
  <2> QED
    BY <2>1, ApplyCases
<1>13. PICK r : GoesOn(r, run, Store!Tables, file[i], i, d, m)
  <2>1. run \in [0..d -> TableState] /\ IsRun(run, Store!Tables, file[i], i, d)
    BY <1>10
  <2>2. m \in Nat /\ d < m
    BY <1>6
  <2>3. Merged(run[d], file[i], i, m) \in TableState
    BY <1>11, <1>12
  <2>4. NoOrders(file[i], d, m)
    BY <1>7 DEF NoOrders
  <2> HIDE DEF m, new
  <2> QED
    BY <2>1, <2>2, <2>3, <2>4, RunGrows
<1>n. /\ r \in [0..m -> TableState]
      /\ IsRun(r, Store!Tables, file[i], i, m)
      /\ \A k \in 0..d : r[k] = run[k]
      /\ \A k \in (d + 1)..(m - 1) : r[k] = run[d]
      /\ r[m] = new
  BY <1>11, <1>13 DEF GoesOn
<1>14. IsRun(r, Store!Tables', file'[i], i, m)
  BY <1>3, <1>n DEF Store!Tables
<1>15. Seen(i).orders[o] = Row(i, o) /\ Seen(i).items[o] = Items(i, o)
  BY <1>6 DEF Seen
<1>16. \A k \in 0..m : k \in 0..d \/ k \in (d + 1)..(m - 1) \/ k = m
  BY <1>6
<1>17. CASE SkipOrder(i)
  <2>1. new = Skipped(Seen(i))
    <3>1. Row(i, o) # NoRow /\ ~Accepts(Row(i, o), s)
      BY <1>s, <1>17 DEF SkipOrder
    <3> HIDE DEF new
    <3> QED
      BY <1>12, <1>15, <3>1 DEF Overtaken
  <2>2. new = Seen(i)'
    <3>1. counts'[i] = [counts[i] EXCEPT !.skipped = @ + 1] /\ counts[i] \in Counters
      BY <1>s, <1>3, <1>17 DEF SkipOrder, TypeOK
    <3>2. [counts'[i] EXCEPT !.rows = 0] = [[counts[i] EXCEPT !.rows = 0] EXCEPT !.skipped = @ + 1]
      BY <3>1 DEF Counters
    <3>3. \A p \in Orders : Row(i, p)' = Row(i, p) /\ Items(i, p)' = Items(i, p)
      BY <1>s, <1>3, <1>17 DEF SkipOrder, tx, Row, Items, Wrote
    <3>4. /\ Seen(i)' = [orders |-> Seen(i).orders, items |-> Seen(i).items,
                         counts |-> [counts'[i] EXCEPT !.rows = 0]]
          /\ Seen(i).counts = [counts[i] EXCEPT !.rows = 0]
      BY <3>3 DEF Seen
    <3>5. Skipped(Seen(i)) = [orders |-> Seen(i).orders, items |-> Seen(i).items,
                              counts |-> [Seen(i).counts EXCEPT !.skipped = @ + 1]]
      BY <1>10, SkippedParts
    <3> HIDE DEF new
    <3> QED
      BY <2>1, <3>2, <3>4, <3>5
  <2>3. \A p \in Orders : Wrote(i, p)' <=> Wrote(i, p)
    BY <1>s, <1>17 DEF SkipOrder, tx, Wrote
  <2>4. ASSUME NEW p \in Orders, ~Wrote(i, p)
        PROVE  /\ \A k \in 0..m : r[k].orders[p] = orders[p] /\ r[k].items[p] = items[p]
               /\ \A k \in 1..m : file[i][k].order = p =>
                      orders[p] # NoRow /\ ~Accepts(orders[p], file[i][k])
    <3>1. r[m].orders[p] = orders[p] /\ r[m].items[p] = items[p]
      <4>1. new.orders = Seen(i).orders /\ new.items = Seen(i).items
        BY <1>10, <2>1, SkippedParts
      <4> QED
        BY <1>n, <2>4, <4>1 DEF Seen, Row, Items
    <3>2. \A k \in 0..m : r[k].orders[p] = orders[p] /\ r[k].items[p] = items[p]
      BY <1>10, <1>n, <1>16, <2>4, <3>1
    <3>3. ASSUME NEW k \in 1..m, file[i][k].order = p
          PROVE  orders[p] # NoRow /\ ~Accepts(orders[p], file[i][k])
      <4>1. CASE k \in 1..d
        BY <1>10, <2>4, <3>3, <4>1
      <4>2. CASE k \in (d + 1)..(m - 1)
        BY <1>7, <3>3, <4>2
      <4>3. CASE k = m
        BY <1>s, <1>6, <1>17, <2>4, <3>3, <4>3 DEF SkipOrder, Row
      <4> QED
        BY <1>6, <4>1, <4>2, <4>3
    <3> QED
      BY <3>2, <3>3
  <2>5. Replays(i, m, r)'
    <3> HIDE DEF m, new
    <3> QED
      BY <1>3, <1>n, <1>14, <2>2, <2>3, <2>4 DEF Replays
  <2> QED
    <3> HIDE DEF m
    <3> QED
      BY <1>6, <1>9, <2>5 DEF Replayed
<1>18. CASE SaveOrder(i)
  <2> DEFINE old == Row(i, o)
             row == IF old = NoRow THEN InsertedRow(s, i) ELSE UpdatedRow(old, s, i)
  <2>1. ~(old # NoRow /\ ~Accepts(old, s))
    BY <1>s, <1>18 DEF SaveOrder
  <2>2. /\ new.orders = [Seen(i).orders EXCEPT ![o] = row]
        /\ new.items = [Seen(i).items EXCEPT ![o] = InsertedItems(s, i)]
        /\ new.counts = [Seen(i).counts EXCEPT
                             !.added   = IF old = NoRow THEN @ + 1 ELSE @,
                             !.updated = IF old = NoRow THEN @ ELSE @ + 1,
                             !.items   = @ + s.lines]
    <3>1. new = Written(Seen(i), s, i)
      <4> HIDE DEF new
      <4> QED
        BY <1>12, <1>15, <2>1 DEF Overtaken
    <3>2. NewRow(Seen(i), s, i) = row
      BY <1>15 DEF NewRow
    <3> HIDE DEF new, row
    <3> QED
      BY <1>15, <3>1, <3>2 DEF Written
  <2>3. /\ txOrders' = [txOrders EXCEPT ![i][o] = row]
        /\ txItems' = [txItems EXCEPT ![i][o] = InsertedItems(s, i)]
    <3>1. ReplaceItems(Items(i, o), s, i) = InsertedItems(s, i)
      BY <1>4, ApplyTypes
    <3> QED
      BY <1>s, <1>18, <3>1 DEF SaveOrder
  <2>4. row # NoRow
    BY <1>3, <1>4, <1>6, ApplyTypes, RowTypes
  <2>5. /\ Wrote(i, o)' /\ txOrders'[i][o] = row /\ txItems'[i][o] = InsertedItems(s, i)
        /\ \A p \in Orders \ {o} : /\ Wrote(i, p)' <=> Wrote(i, p)
                                   /\ txOrders'[i][p] = txOrders[i][p]
                                   /\ txItems'[i][p] = txItems[i][p]
    <3> HIDE DEF row, o
    <3>1. txOrders'[i] = [txOrders[i] EXCEPT ![o] = row] /\ txItems'[i] = [txItems[i] EXCEPT ![o] = InsertedItems(s, i)]
      BY <1>3, <2>3 DEF TypeOK
    <3>2. txOrders'[i][o] = row /\ txItems'[i][o] = InsertedItems(s, i)
      BY <1>3, <1>6, <3>1 DEF TypeOK
    <3>3. \A p \in Orders \ {o} : txOrders'[i][p] = txOrders[i][p] /\ txItems'[i][p] = txItems[i][p]
      BY <1>3, <1>6, <3>1 DEF TypeOK
    <3> QED
      BY <2>4, <3>2, <3>3 DEF Wrote
  <2>6. Seen(i)'.counts = new.counts
    <3> DEFINE c == counts[i]
               a == IF old = NoRow THEN c.added + 1 ELSE c.added
               u == IF old = NoRow THEN c.updated ELSE c.updated + 1
    <3>1. c \in Counters
      BY <1>3 DEF TypeOK
    <3>2. counts'[i] = [c EXCEPT !.added = a, !.updated = u, !.items = c.items + s.lines]
      BY <1>s, <1>3, <1>18 DEF SaveOrder, TypeOK
    <3>3. new.counts = [[c EXCEPT !.rows = 0] EXCEPT !.added = a, !.updated = u, !.items = c.items + s.lines]
      BY <2>2, <3>1 DEF Seen, Counters
    <3> HIDE DEF a, u
    <3>4. [counts'[i] EXCEPT !.rows = 0] = [[c EXCEPT !.rows = 0] EXCEPT !.added = a, !.updated = u, !.items = c.items + s.lines]
      BY <3>1, <3>2 DEF Counters
    <3> QED
      BY <3>3, <3>4 DEF Seen
  <2>7. Seen(i)'.orders = new.orders /\ Seen(i)'.items = new.items
    <3>1. \A p \in Orders : /\ Row(i, p)' = IF p = o THEN row ELSE Row(i, p)
                            /\ Items(i, p)' = IF p = o THEN InsertedItems(s, i) ELSE Items(i, p)
      <4> HIDE DEF row, o
      <4> SUFFICES ASSUME NEW p \in Orders
                   PROVE  /\ Row(i, p)' = IF p = o THEN row ELSE Row(i, p)
                          /\ Items(i, p)' = IF p = o THEN InsertedItems(s, i) ELSE Items(i, p)
        OBVIOUS
      <4>1. CASE p = o
        BY <2>5, <4>1 DEF Row, Items, Wrote
      <4>2. CASE p # o
        BY <1>3, <2>5, <4>2 DEF Row, Items, Wrote
      <4> QED
        BY <4>1, <4>2
    <3>2. Seen(i)'.orders = [p \in Orders |-> Row(i, p)'] /\ Seen(i)'.items = [p \in Orders |-> Items(i, p)']
      BY DEF Seen
    <3>3. Seen(i).orders = [p \in Orders |-> Row(i, p)] /\ Seen(i).items = [p \in Orders |-> Items(i, p)]
      BY DEF Seen
    <3> HIDE DEF row, o, new
    <3>4. [Seen(i).orders EXCEPT ![o] = row] = [p \in Orders |-> Row(i, p)']
      BY <1>6, <3>1, <3>3
    <3>5. [Seen(i).items EXCEPT ![o] = InsertedItems(s, i)] = [p \in Orders |-> Items(i, p)']
      BY <1>6, <3>1, <3>3
    <3> QED
      BY <2>2, <3>2, <3>4, <3>5
  <2>8. new = Seen(i)'
    <3>1. Seen(i)' \in TableState
      <4>1. counts'[i] \in Counters /\ TypeOK'
        BY DEF IInv, TypeOK
      <4>2. [counts'[i] EXCEPT !.rows = 0] \in Counters
        BY <4>1 DEF Counters
      <4>3. \A p \in Orders : Row(i, p)' \in OrderRow \cup {NoRow} /\ Items(i, p)' \in Seq(ItemRow)
        BY <4>1 DEF TypeOK, Row, Items
      <4> QED
        BY <4>2, <4>3 DEF Seen, TableState
    <3>2. \A a, b \in TableState :
              a.orders = b.orders /\ a.items = b.items /\ a.counts = b.counts => a = b
      BY DEF TableState
    <3> HIDE DEF new
    <3> QED
      BY <1>12, <2>6, <2>7, <3>1, <3>2
  <2>9. ASSUME NEW p \in Orders, ~Wrote(i, p)'
        PROVE  /\ \A k \in 0..m : r[k].orders[p] = orders[p] /\ r[k].items[p] = items[p]
               /\ \A k \in 1..m : file[i][k].order = p =>
                      orders[p] # NoRow /\ ~Accepts(orders[p], file[i][k])
    <3>1. p # o /\ ~Wrote(i, p)
      BY <2>5, <2>9 DEF Wrote
    <3>2. r[m].orders[p] = orders[p] /\ r[m].items[p] = items[p]
      <4>1. new.orders[p] = Seen(i).orders[p] /\ new.items[p] = Seen(i).items[p]
        BY <2>2, <3>1 DEF Seen
      <4> QED
        BY <1>n, <3>1, <4>1 DEF Seen, Row, Items
    <3>3. \A k \in 0..m : r[k].orders[p] = orders[p] /\ r[k].items[p] = items[p]
      BY <1>10, <1>n, <1>16, <3>1, <3>2
    <3>4. ASSUME NEW k \in 1..m, file[i][k].order = p
          PROVE  orders[p] # NoRow /\ ~Accepts(orders[p], file[i][k])
      <4>1. CASE k \in 1..d
        BY <1>10, <3>1, <3>4, <4>1
      <4>2. CASE k \in (d + 1)..(m - 1)
        BY <1>7, <3>4, <4>2
      <4>3. CASE k = m
        BY <1>6, <3>1, <3>4, <4>3
      <4> QED
        BY <1>6, <4>1, <4>2, <4>3
    <3> QED
      BY <3>3, <3>4
  <2>10. Replays(i, m, r)'
    <3> HIDE DEF m, new
    <3> QED
      BY <1>3, <1>n, <1>14, <2>8, <2>9 DEF Replays
  <2> QED
    <3> HIDE DEF m
    <3> QED
      BY <1>6, <1>9, <2>10 DEF Replayed
<1> QED
  BY <1>17, <1>18

(* A row that is newer than a snapshot stays so.                           *)
LEMMA StillOvertaken ==
    ASSUME NEW s \in Snapshot, NEW row \in OrderRow, NEW newer \in OrderRow,
           row.updated <= newer.updated, ~Accepts(row, s)
    PROVE  ~Accepts(newer, s)
BY DEF Accepts, Coalesce, NoTime, Snapshot, OrderRow, Time

(* The tables that a run went through, had the orders outside W been as    *)
(* they are in p and q.                                                    *)
Renewed(t, W, p, q) ==
    [orders |-> [o \in Orders |-> IF o \in W THEN t.orders[o] ELSE p[o]],
     items  |-> [o \in Orders |-> IF o \in W THEN t.items[o] ELSE q[o]],
     counts |-> t.counts]

(* A merge of an order of W does the same to the renewed tables, and so    *)
(* does a merge that is skipped.                                           *)
LEMMA RenewedMerge ==
    ASSUME NEW t \in TableState, NEW W \in SUBSET Orders, NEW s \in Snapshot, NEW i \in Imports,
           NEW p \in [Orders -> OrderRow \cup {NoRow}], NEW q \in [Orders -> Seq(ItemRow)],
           s.order \in W \/ (Overtaken(t, s) /\ p[s.order] # NoRow /\ ~Accepts(p[s.order], s))
    PROVE  Renewed(Store!ApplySnapshot(t, s, i), W, p, q)
               = Store!ApplySnapshot(Renewed(t, W, p, q), s, i)
<1>u. PICK u : u = Renewed(t, W, p, q)
  OBVIOUS
<1>1. u \in TableState /\ s.order \in Orders
  BY <1>u DEF Renewed, TableState, Snapshot
<1>2. /\ u.orders = [o \in Orders |-> IF o \in W THEN t.orders[o] ELSE p[o]]
      /\ u.items = [o \in Orders |-> IF o \in W THEN t.items[o] ELSE q[o]]
      /\ u.counts = t.counts
      /\ u.orders[s.order] = IF s.order \in W THEN t.orders[s.order] ELSE p[s.order]
  BY <1>u, <1>1 DEF Renewed
<1>3. Overtaken(u, s) <=> Overtaken(t, s)
  BY <1>1, <1>2 DEF Overtaken
<1>4. CASE Overtaken(t, s)
  <2>1. PICK x : x = Skipped(t)
    OBVIOUS
  <2>2. /\ x.orders = t.orders /\ x.items = t.items
        /\ x.counts = [t.counts EXCEPT !.skipped = @ + 1]
    BY <2>1, SkippedParts
  <2>3. Renewed(x, W, p, q) = Skipped(u)
    <3>1. Skipped(u) = [orders |-> u.orders, items |-> u.items,
                        counts |-> [u.counts EXCEPT !.skipped = @ + 1]]
      BY <1>1, SkippedParts
    <3>2. Renewed(x, W, p, q) = [orders |-> u.orders, items |-> u.items, counts |-> x.counts]
      BY <1>2, <2>2 DEF Renewed
    <3> QED
      BY <1>2, <2>2, <3>1, <3>2
  <2> QED
    BY <1>u, <1>1, <1>3, <1>4, <2>1, <2>3, ApplyCases
<1>5. CASE ~Overtaken(t, s)
  <2>1. s.order \in W /\ u.orders[s.order] = t.orders[s.order]
    BY <1>2, <1>5
  <2>2. NewRow(u, s, i) = NewRow(t, s, i)
    BY <2>1 DEF NewRow
  <2>3. PICK x, y : x = Written(t, s, i) /\ y = Written(u, s, i)
    OBVIOUS
  <2>4. /\ x.orders = [t.orders EXCEPT ![s.order] = NewRow(t, s, i)]
        /\ x.items = [t.items EXCEPT ![s.order] = InsertedItems(s, i)]
        /\ y.orders = [u.orders EXCEPT ![s.order] = NewRow(t, s, i)]
        /\ y.items = [u.items EXCEPT ![s.order] = InsertedItems(s, i)]
        /\ y = [orders |-> y.orders, items |-> y.items, counts |-> y.counts]
    BY <2>2, <2>3 DEF Written
  <2>5. x.counts = y.counts
    BY <1>2, <2>1, <2>3 DEF Written
  <2>6. /\ y.orders = [o \in Orders |-> IF o \in W THEN x.orders[o] ELSE p[o]]
        /\ y.items = [o \in Orders |-> IF o \in W THEN x.items[o] ELSE q[o]]
    <3>1. t.orders \in [Orders -> OrderRow \cup {NoRow}] /\ t.items \in [Orders -> Seq(ItemRow)]
      BY DEF TableState
    <3>2. /\ \A o \in Orders : /\ x.orders[o] = IF o = s.order THEN NewRow(t, s, i) ELSE t.orders[o]
                               /\ x.items[o] = IF o = s.order THEN InsertedItems(s, i) ELSE t.items[o]
      BY <1>1, <2>4, <3>1
    <3>3. /\ y.orders = [o \in Orders |-> IF o = s.order THEN NewRow(t, s, i) ELSE u.orders[o]]
          /\ y.items = [o \in Orders |-> IF o = s.order THEN InsertedItems(s, i) ELSE u.items[o]]
      BY <1>1, <2>4 DEF TableState
    <3>4. \A o \in Orders : /\ u.orders[o] = IF o \in W THEN t.orders[o] ELSE p[o]
                            /\ u.items[o] = IF o \in W THEN t.items[o] ELSE q[o]
      BY <1>2
    <3>5. \A o \in Orders :
              /\ (IF o = s.order THEN NewRow(t, s, i) ELSE u.orders[o])
                     = (IF o \in W THEN x.orders[o] ELSE p[o])
              /\ (IF o = s.order THEN InsertedItems(s, i) ELSE u.items[o])
                     = (IF o \in W THEN x.items[o] ELSE q[o])
      BY <2>1, <3>2, <3>4
    <3> QED
      BY <3>3, <3>5
  <2>7. Renewed(x, W, p, q) = y
    BY <2>4, <2>5, <2>6 DEF Renewed
  <2> QED
    BY <1>u, <1>1, <1>3, <1>5, <2>3, <2>7, ApplyCases
<1> QED
  BY <1>4, <1>5

(* Another import commits: what i has merged so far could have been merged *)
(* after it.                                                               *)
LEMMA CommitReplayed ==
    ASSUME IInv, IInv', NEW i \in Imports, NEW j \in Imports, i # j, Replayed(i), Complete(j)
    PROVE  Replayed(i)'
<1> USE SnapshotsAssumption
<1>1. PICK d \in Nat : \E run, at : Replays(i, d, run) /\ Waits(i, d, at)
  BY DEF Replayed
<1>2. PICK run, at : Replays(i, d, run) /\ Waits(i, d, at)
  BY <1>1
<1>3. /\ TypeOK /\ TypeOK' /\ file' = file
      /\ pos'[i] = pos[i] /\ batch'[i] = batch[i] /\ counts'[i] = counts[i]
      /\ txOrders'[i] = txOrders[i] /\ txItems'[i] = txItems[i]
      /\ orders' = [o \in Orders |-> Row(j, o)]
      /\ items' = [o \in Orders |-> Items(j, o)]
  BY DEF Complete, Return, IInv
<1>4. \A o \in Orders : Wrote(i, o)' <=> Wrote(i, o)
  BY <1>3 DEF Wrote
<1>5. \A o \in Orders : Wrote(i, o) => orders'[o] = orders[o] /\ items'[o] = items[o]
  BY <1>3 DEF IInv, MergeInv, OneWriter, Row, Items
<1>6. /\ run \in [0..d -> TableState]
      /\ IsRun(run, Store!Tables, file[i], i, d)
      /\ run[d] = Seen(i)
      /\ \A o \in Orders : ~Wrote(i, o) =>
             /\ \A k \in 0..d : run[k].orders[o] = orders[o] /\ run[k].items[o] = items[o]
             /\ \A k \in 1..d : file[i][k].order = o =>
                    orders[o] # NoRow /\ ~Accepts(orders[o], file[i][k])
  BY <1>2 DEF Replays
<1>7. PICK W : W = {o \in Orders : Wrote(i, o)}
  OBVIOUS
<1>8. PICK p, q : p = orders' /\ q = items'
  OBVIOUS
<1>9. W \in SUBSET Orders /\ p \in [Orders -> OrderRow \cup {NoRow}] /\ q \in [Orders -> Seq(ItemRow)]
  BY <1>3, <1>7, <1>8 DEF TypeOK
<1>10. \A k \in 1..d : k \in 1..Len(file[i]) /\ file[i][k] \in Record
  <2> SUFFICES ASSUME NEW k \in 1..d PROVE k \in 1..Len(file[i]) /\ file[i][k] \in Record
    OBVIOUS
  <2>1. d <= pos[i] /\ pos[i] \in Nat /\ pos[i] <= Len(file[i]) /\ Len(file[i]) \in Nat
    BY <1>2, <1>3, LenProperties DEF Waits, IInv, MergeInv, AllAccounted, ReadAccounted, TypeOK
  <2>2. k \in 1..Len(file[i])
    BY <2>1
  <2> QED
    BY <1>3, <2>2, FileRecords
<1>11. PICK r : r = [k \in 0..d |-> Renewed(run[k], W, p, q)]
  OBVIOUS
<1>12. r \in [0..d -> TableState]
  BY <1>6, <1>9, <1>11 DEF Renewed, TableState
<1>13. \A o \in Orders : orders[o] # NoRow =>
           /\ orders[o] \in OrderRow /\ p[o] \in OrderRow /\ p[o] # NoRow
           /\ orders[o].updated <= p[o].updated
  <2> SUFFICES ASSUME NEW o \in Orders, orders[o] # NoRow
               PROVE  /\ orders[o] \in OrderRow /\ p[o] \in OrderRow /\ p[o] # NoRow
                      /\ orders[o].updated <= p[o].updated
    OBVIOUS
  <2>1. p[o] = Row(j, o)
    BY <1>3, <1>8
  <2>2. Row(j, o) # NoRow /\ Row(j, o).updated >= orders[o].updated
    BY RowGrows DEF IInv, MergeInv
  <2> QED
    BY <1>3, <2>1, <2>2, RowTypes
<1>14. \A k \in 1..d : file[i][k].order # NoOrder =>
           /\ file[i][k] \in Snapshot
           /\ \/ file[i][k].order \in W
              \/ /\ Overtaken(run[k - 1], file[i][k])
                 /\ p[file[i][k].order] # NoRow /\ ~Accepts(p[file[i][k].order], file[i][k])
  <2> SUFFICES ASSUME NEW k \in 1..d, file[i][k].order # NoOrder, file[i][k].order \notin W
               PROVE  /\ Overtaken(run[k - 1], file[i][k])
                      /\ p[file[i][k].order] # NoRow
                      /\ ~Accepts(p[file[i][k].order], file[i][k])
    BY <1>10 DEF Record, Snapshot
  <2>1. PICK o \in Orders : o = file[i][k].order
    BY <1>10 DEF Record
  <2>2. file[i][k] \in Snapshot /\ ~Wrote(i, o) /\ k - 1 \in 0..d
    BY <1>7, <1>10, <2>1 DEF Record, Snapshot
  <2>3. orders[o] # NoRow /\ ~Accepts(orders[o], file[i][k])
    BY <1>6, <2>1, <2>2
  <2>4. run[k - 1].orders[o] = orders[o]
    BY <1>6, <2>2
  <2>5. p[o] # NoRow /\ ~Accepts(p[o], file[i][k])
    BY <1>13, <2>2, <2>3, StillOvertaken
  <2> QED
    BY <2>1, <2>3, <2>4, <2>5 DEF Overtaken
<1>15. r[0] = (Store!Tables)'
  <2>1. run[0] = Store!Tables
    BY <1>6 DEF IsRun
  <2>2. r[0] = Renewed(Store!Tables, W, p, q)
    BY <1>11, <2>1
  <2>3. \A o \in Orders : o \in W => orders[o] = p[o] /\ items[o] = q[o]
    BY <1>5, <1>7, <1>8
  <2>4. /\ [o \in Orders |-> IF o \in W THEN orders[o] ELSE p[o]] = p
        /\ [o \in Orders |-> IF o \in W THEN items[o] ELSE q[o]] = q
    BY <1>9, <2>3
  <2> QED
    BY <1>8, <2>2, <2>4 DEF Renewed, Store!Tables
<1>16. \A k \in 1..d : r[k] = Merged(r[k - 1], file[i], i, k)
  <2> SUFFICES ASSUME NEW k \in 1..d PROVE r[k] = Merged(r[k - 1], file[i], i, k)
    OBVIOUS
  <2>1. k - 1 \in 0..d /\ k \in 0..d /\ k # 0
    OBVIOUS
  <2>2. run[k] = Merged(run[k - 1], file[i], i, k)
    BY <1>6, <2>1 DEF IsRun
  <2>3. r[k] = Renewed(run[k], W, p, q) /\ r[k - 1] = Renewed(run[k - 1], W, p, q)
    BY <1>11, <2>1
  <2>4. CASE file[i][k].order = NoOrder
    BY <2>2, <2>3, <2>4 DEF Merged
  <2>5. CASE file[i][k].order # NoOrder
    <3>1. run[k - 1] \in TableState
      BY <1>6, <2>1
    <3>2. Renewed(Store!ApplySnapshot(run[k - 1], file[i][k], i), W, p, q)
              = Store!ApplySnapshot(Renewed(run[k - 1], W, p, q), file[i][k], i)
      <4>1. PICK s : s = file[i][k]
        OBVIOUS
      <4>2. /\ s \in Snapshot
            /\ \/ s.order \in W
               \/ Overtaken(run[k - 1], s) /\ p[s.order] # NoRow /\ ~Accepts(p[s.order], s)
        BY <1>14, <2>5, <4>1
      <4>3. PICK t \in TableState : t = run[k - 1]
        BY <3>1
      <4>4. Renewed(Store!ApplySnapshot(t, s, i), W, p, q)
                = Store!ApplySnapshot(Renewed(t, W, p, q), s, i)
        BY <1>9, <4>2, <4>3, RenewedMerge
      <4> QED
        BY <4>1, <4>3, <4>4
    <3> QED
      BY <2>2, <2>3, <2>5, <3>2 DEF Merged
  <2> QED
    BY <2>4, <2>5
<1>17. IsRun(r, (Store!Tables)', file'[i], i, d)
  <2>1. r = [k \in 0..d |-> r[k]]
    BY <1>11
  <2> QED
    <3>1. \A k \in 0..d : r[k] = IF k = 0 THEN (Store!Tables)' ELSE Merged(r[k - 1], file'[i], i, k)
      <4> SUFFICES ASSUME NEW k \in 0..d
                   PROVE  r[k] = IF k = 0 THEN (Store!Tables)' ELSE Merged(r[k - 1], file'[i], i, k)
        OBVIOUS
      <4>1. CASE k = 0
        BY <1>15, <4>1
      <4>2. CASE k # 0
        BY <1>3, <1>16, <4>2
      <4> QED
        BY <4>1, <4>2
    <3> QED
      BY <2>1, <3>1 DEF IsRun
<1>18. r[d] = Seen(i)'
  <2>1. r[d] = Renewed(Seen(i), W, p, q)
    BY <1>6, <1>11
  <2>2. /\ \A o \in Orders : Row(i, o)' = IF o \in W THEN Row(i, o) ELSE p[o]
        /\ \A o \in Orders : Items(i, o)' = IF o \in W THEN Items(i, o) ELSE q[o]
    BY <1>3, <1>4, <1>7, <1>8 DEF Row, Items
  <2>3. /\ Seen(i)'.orders = [o \in Orders |-> Row(i, o)']
        /\ Seen(i)'.items = [o \in Orders |-> Items(i, o)']
    BY DEF Seen
  <2> QED
    BY <1>3, <2>1, <2>2 DEF Seen, Renewed
<1>19. ASSUME NEW o \in Orders, ~Wrote(i, o)
       PROVE  /\ \A k \in 0..d : r[k].orders[o] = p[o] /\ r[k].items[o] = q[o]
              /\ \A k \in 1..d : file[i][k].order = o =>
                     p[o] # NoRow /\ ~Accepts(p[o], file[i][k])
  <2>1. o \notin W
    BY <1>7, <1>19
  <2>2. \A k \in 0..d : r[k].orders[o] = p[o] /\ r[k].items[o] = q[o]
    BY <1>11, <2>1 DEF Renewed
  <2> QED
    BY <1>14, <2>1, <2>2
<1>20. Replays(i, d, r)'
  BY <1>3, <1>4, <1>8, <1>12, <1>17, <1>18, <1>19 DEF Replays
<1>21. Waits(i, d, at)'
  BY <1>2, <1>3 DEF Waits
<1> QED
  BY <1>20, <1>21 DEF Replayed

(* Every step of every import keeps what is merged replayable.             *)
LEMMA ReplayedNext ==
    ASSUME IInv, IInv', [Next]_vars, \A i \in Imports : Replayed(i)
    PROVE  \A i \in Imports : Replayed(i)'
<1> SUFFICES ASSUME NEW j \in Imports PROVE Replayed(j)'
  OBVIOUS
<1>1. TypeOK /\ TypeOK' /\ Replayed(j)
  BY DEF IInv
<1>2. ASSUME NEW i \in Imports, NEW f \in Files, Receive(i, f) PROVE Replayed(j)'
  <2>1. /\ UNCHANGED <<orders, items, pos, batch, counts, txOrders, txItems>>
        /\ file'[j] = file[j] \/ j = i
        /\ pos[i] = 0
    BY <1>1, <1>2 DEF Receive, TypeOK, tables, tx, IInv, MergeInv, FreshRequests
  <2> QED
    BY <1>1, <2>1, IdleReplayed
<1>3. ASSUME NEW S \in SUBSET Imports, Abort(S) PROVE Replayed(j)'
  <2>1. UNCHANGED <<orders, items, file>>
    BY <1>3 DEF Abort, tables
  <2>2. CASE j \in S
    BY <1>1, <1>3, <2>2, FreshReplayed DEF Abort, Return
  <2>3. CASE j \notin S
    <3>1. UNCHANGED <<pos[j], batch[j], counts[j], txOrders[j], txItems[j]>>
      BY <1>3, <2>3 DEF Abort, Return
    <3> QED
      BY <1>1, <2>1, <3>1, IdleReplayed
  <2> QED
    BY <2>2, <2>3
<1>4. ASSUME NEW i \in Imports, Begin(i) \/ FlushRest(i) PROVE Replayed(j)'
  BY <1>1, <1>4, IdleReplayed DEF Begin, FlushRest, tables, tx
<1>5. ASSUME NEW i \in Imports, YieldOther(i) \/ YieldOrder(i) PROVE Replayed(j)'
  BY <1>1, <1>5, YieldReplayed
<1>6. ASSUME NEW i \in Imports, SaveOrder(i) \/ SkipOrder(i) PROVE Replayed(j)'
  <2>1. CASE j = i
    BY <1>1, <1>6, <2>1, NextReplayed
  <2>2. CASE j # i
    <3>1. UNCHANGED <<orders, items, file, pos>>
      BY <1>6 DEF SaveOrder, SkipOrder, NextOfBatch, tables
    <3>2. UNCHANGED <<batch[j], counts[j]>>
      <4>1. CASE SaveOrder(i)
        BY <1>1, <2>2, <4>1 DEF SaveOrder, NextOfBatch, TypeOK
      <4>2. CASE SkipOrder(i)
        BY <1>1, <2>2, <4>2 DEF SkipOrder, NextOfBatch, TypeOK
      <4> QED
        BY <1>6, <4>1, <4>2
    <3>3. UNCHANGED <<txOrders[j], txItems[j]>>
      <4>1. CASE SaveOrder(i)
        BY <1>1, <2>2, <4>1 DEF SaveOrder, TypeOK
      <4>2. CASE SkipOrder(i)
        BY <4>2 DEF SkipOrder, tx
      <4> QED
        BY <1>6, <4>1, <4>2
    <3> QED
      BY <1>1, <3>1, <3>2, <3>3, IdleReplayed
  <2> QED
    BY <2>1, <2>2
<1>7. ASSUME NEW i \in Imports, Complete(i) PROVE Replayed(j)'
  <2>1. CASE j = i
    BY <1>1, <1>7, <2>1, FreshReplayed DEF Complete, Return
  <2>2. CASE j # i
    BY <1>1, <1>7, <2>2, CommitReplayed
  <2> QED
    BY <2>1, <2>2
<1>8. CASE UNCHANGED vars
  BY <1>1, <1>8, IdleReplayed DEF vars, tables, tx
<1>9. ASSUME NEW i \in Imports, RejectOld(i) \/ RejectEmpty(i) \/ Fail(i) \/ DeadlockAbort(i)
      PROVE  Replayed(j)'
  BY <1>3, <1>9 DEF RejectOld, RejectEmpty, Fail, DeadlockAbort
<1>10. CASE Crash
  BY <1>3, <1>10 DEF Crash, InFlight
<1> QED
  BY <1>2, <1>4, <1>5, <1>6, <1>7, <1>8, <1>9, <1>10 DEF Next, Step

(* The file of a request is an export, its rows are counted as they are    *)
(* read, and an order from before the configured start is never passed.    *)
LEMMA FromFilesNext == IInv /\ IInv' /\ FromFiles /\ [Next]_vars => FromFiles'
<1> SUFFICES ASSUME IInv, IInv', FromFiles, [Next]_vars, NEW j \in Imports
             PROVE  /\ pc'[j] # "idle" => file'[j] \in Files
                    /\ counts'[j].rows = pos'[j]
                    /\ \A k \in 1..pos'[j] :
                           file'[j][k].order # NoOrder => ~TooOld(file'[j][k])
  BY DEF FromFiles, TooOld
<1>1. /\ TypeOK /\ TypeOK'
      /\ pc[j] # "idle" => file[j] \in Files
      /\ counts[j] \in Counters /\ counts[j].rows = pos[j] /\ pos[j] \in Nat
      /\ \A k \in 1..pos[j] : file[j][k].order # NoOrder => ~TooOld(file[j][k])
  BY DEF FromFiles, IInv, TypeOK
<1> DEFINE Goal == /\ pc'[j] # "idle" => file'[j] \in Files
                   /\ counts'[j].rows = pos'[j]
                   /\ \A k \in 1..pos'[j] :
                          file'[j][k].order # NoOrder => ~TooOld(file'[j][k])
<1>k. ASSUME UNCHANGED <<pos[j], counts[j], file[j]>>, pc'[j] = "idle" => pc[j] = "idle",
             pc[j] = "idle" => pc'[j] = "idle"
      PROVE  Goal
  BY <1>1, <1>k
<1>2. ASSUME NEW i \in Imports, NEW f \in Files, Receive(i, f) PROVE Goal
  <2>1. CASE j = i
    <3>1. file'[j] = f /\ pos'[j] = pos[j] /\ counts'[j] = counts[j] /\ pos[j] = 0
      BY <1>1, <1>2, <2>1 DEF Receive, TypeOK, IInv, MergeInv, FreshRequests
    <3>2. 1..pos'[j] = {}
      BY <3>1
    <3> QED
      BY <1>1, <3>1, <3>2
  <2>2. CASE j # i
    BY <1>k, <1>1, <1>2, <2>2 DEF Receive, TypeOK
  <2> QED
    BY <2>1, <2>2
<1>3. ASSUME NEW S \in SUBSET Imports, Abort(S), \A i \in S : pc[i] # "idle" PROVE Goal
  <2>1. CASE j \in S
    <3>1. pos'[j] = 0 /\ counts'[j] = ZeroCounts /\ file' = file /\ pc[j] # "idle"
      BY <1>3, <2>1 DEF Abort, Return
    <3>2. 1..pos'[j] = {}
      BY <3>1
    <3> QED
      BY <1>1, <3>1, <3>2 DEF ZeroCounts
  <2>2. CASE j \notin S
    BY <1>k, <1>3, <2>2 DEF Abort, Return
  <2> QED
    BY <2>1, <2>2
<1>4. ASSUME NEW i \in Imports, Begin(i) \/ FlushRest(i) PROVE Goal
  <2>1. UNCHANGED <<file, pos, counts>>
    BY <1>4 DEF Begin, FlushRest
  <2>2. pc[j] = "idle" => pc'[j] = "idle"
    BY <1>1, <1>4 DEF Begin, FlushRest, AtEnd, TypeOK
  <2> QED
    BY <1>k, <1>1, <2>1, <2>2
<1>5. ASSUME NEW i \in Imports, YieldOther(i) \/ YieldOrder(i) PROVE Goal
  <2>1. CASE j = i
    <3>1. /\ pos'[j] = pos[j] + 1 /\ counts'[j].rows = counts[j].rows + 1
          /\ file' = file /\ pc[j] = "parsing"
          /\ file[j][pos[j] + 1].order # NoOrder => ~TooOld(file[j][pos[j] + 1])
      BY <1>1, <1>5, <2>1 DEF YieldOther, YieldOrder, NextRecord, TypeOK, Counters
    <3>2. \A k \in 1..(pos[j] + 1) : k \in 1..pos[j] \/ k = pos[j] + 1
      BY <1>1
    <3> QED
      BY <1>1, <3>1, <3>2
  <2>2. CASE j # i
    BY <1>k, <1>1, <1>5, <2>2 DEF YieldOther, YieldOrder, TypeOK
  <2> QED
    BY <2>1, <2>2
<1>6. ASSUME NEW i \in Imports, SaveOrder(i) \/ SkipOrder(i) PROVE Goal
  <2>1. counts'[j].rows = counts[j].rows
    <3>1. CASE SkipOrder(i)
      BY <1>1, <3>1 DEF SkipOrder, TypeOK, Counters
    <3>2. CASE SaveOrder(i)
      <4> DEFINE old == Row(i, Head(batch[i]).order)
                 a == IF old = NoRow THEN counts[i].added + 1 ELSE counts[i].added
                 u == IF old = NoRow THEN counts[i].updated ELSE counts[i].updated + 1
                 t == counts[i].items + Head(batch[i]).lines
      <4>1. counts' = [counts EXCEPT ![i] =
                [counts[i] EXCEPT !.added = a, !.updated = u, !.items = t]]
        BY <1>1, <3>2 DEF SaveOrder, TypeOK
      <4> HIDE DEF a, u, t
      <4>2. counts \in [Imports -> Counters]
        BY <1>1 DEF TypeOK
      <4> QED
        BY <4>1, <4>2 DEF Counters
    <3> QED
      BY <1>6, <3>1, <3>2
  <2>t. pos' = pos /\ file' = file
    BY <1>6 DEF SaveOrder, SkipOrder
  <2>2. pc'[j] = "idle" <=> pc[j] = "idle"
    BY <1>1, <1>6 DEF SaveOrder, SkipOrder, NextOfBatch, Saving, TypeOK
  <2> QED
    BY <1>1, <2>1, <2>2, <2>t
<1>7. ASSUME NEW i \in Imports, Complete(i) PROVE Goal
  <2>1. CASE j = i
    <3>1. pos'[j] = 0 /\ counts'[j] = ZeroCounts /\ file' = file /\ pc[j] # "idle"
      BY <1>7, <2>1 DEF Complete, AtEnd, Return
    <3>2. 1..pos'[j] = {}
      BY <3>1
    <3> QED
      BY <1>1, <3>1, <3>2 DEF ZeroCounts
  <2>2. CASE j # i
    BY <1>k, <1>7, <2>2 DEF Complete, Return
  <2> QED
    BY <2>1, <2>2
<1>8. ASSUME UNCHANGED vars PROVE Goal
  BY <1>k, <1>8 DEF vars
<1>9. ASSUME NEW i \in Imports, RejectOld(i) \/ RejectEmpty(i) \/ Fail(i) \/ DeadlockAbort(i)
      PROVE  Goal
  <2>1. Abort({i})
    BY <1>9 DEF RejectOld, RejectEmpty, Fail, DeadlockAbort
  <2>2. pc[i] # "idle"
    BY <1>9 DEF RejectOld, RejectEmpty, AtEnd, Fail, InFlight, DeadlockAbort, Deadlocked, WaitsFor,
       Saving
  <2> QED
    BY <1>3, <2>1, <2>2
<1>10. ASSUME Crash PROVE Goal
  BY <1>3, <1>10 DEF Crash, InFlight
<1> HIDE DEF Goal
<1>11. Goal
  BY <1>2, <1>4, <1>5, <1>6, <1>7, <1>8, <1>9, <1>10 DEF Next, Step
<1> QED
  BY <1>11 DEF Goal

-----------------------------------------------------------------------------
(* The commit of an import applies its whole file to the tables as they    *)
(* are at that moment.                                                     *)
LEMMA CommitImports ==
    ASSUME IInv, Journalled, FromFiles, NEW i \in Imports, Replayed(i), Complete(i)
    PROVE  Store!ImportFile(i, file[i]) /\ file[i] \in Files
<1>1. PICK d \in Nat : \E run, at : Replays(i, d, run) /\ Waits(i, d, at)
  BY DEF Replayed
<1>2. PICK run, at : Replays(i, d, run) /\ Waits(i, d, at)
  BY <1>1
<1> DEFINE n == Len(file[i])
<1>3. /\ TypeOK /\ pos[i] = n /\ n \in Nat /\ DOMAIN file[i] = 1..n /\ d \in 0..n
      /\ counts[i] \in Counters /\ counts[i].rows = n
      /\ file[i] \in Files /\ rawImport[i] = NoRow
      /\ orders' = [o \in Orders |-> Row(i, o)]
      /\ items' = [o \in Orders |-> Items(i, o)]
      /\ rawImport' = [rawImport EXCEPT ![i] = counts[i]]
  BY <1>2, LenProperties DEF IInv, TypeOK, Complete, AtEnd, Journalled, FromFiles, Waits
<1>4. \A k \in (d + 1)..n : file[i][k].order = NoOrder
  <2>1. Len(batch[i]) = 0
    BY DEF Complete
  <2> QED
    BY <1>2, <1>3, <2>1 DEF Waits
<1>5. /\ run \in [0..d -> TableState] /\ run[d] = Seen(i)
      /\ IsRun(run, Store!Tables, file[i], i, d)
  BY <1>2 DEF Replays
<1>6. \E r : IsRun(r, Store!Tables, file[i], i, n) /\ r[n] = Seen(i)
  <2>1. CASE d = n
    BY <1>5, <2>1
  <2>2. CASE d < n
    <3>1. Merged(run[d], file[i], i, n) = run[d] /\ run[d] \in TableState
      BY <1>3, <1>4, <1>5, <2>2 DEF Merged
    <3>2. NoOrders(file[i], d, n)
      BY <1>3, <1>4 DEF NoOrders
    <3> HIDE DEF n
    <3>3. PICK r : GoesOn(r, run, Store!Tables, file[i], i, d, n)
      BY <1>3, <1>5, <2>2, <3>1, <3>2, RunGrows
    <3> QED
      BY <1>5, <3>1, <3>3 DEF GoesOn
  <2> QED
    BY <1>3, <2>1, <2>2
<1>7. Store!ApplyFile(Store!Tables, file[i], i) = Counted(Seen(i), n)
  BY <1>3, <1>6, RunIsApplied
<1>8. Store!ApplyFile(Store!Tables, file[i], i)
          = [orders |-> orders', items |-> items', counts |-> counts[i]]
  <2>1. [[counts[i] EXCEPT !.rows = 0] EXCEPT !.rows = n] = counts[i]
    BY <1>3 DEF Counters
  <2>2. Seen(i) = [orders |-> orders', items |-> items', counts |-> [counts[i] EXCEPT !.rows = 0]]
    BY <1>3 DEF Seen
  <2>3. \A x, y, z : [[orders |-> x, items |-> y, counts |-> z] EXCEPT !.counts.rows = n]
                         = [orders |-> x, items |-> y, counts |-> [z EXCEPT !.rows = n]]
    OBVIOUS
  <2> QED
    BY <1>7, <2>1, <2>2, <2>3 DEF Counted
<1>9. Store!Importable(file[i])
  <2>1. \E k \in DOMAIN file[i] : file[i][k].order # NoOrder
    BY <1>3 DEF Complete, OrdersYielded
  <2>2. \A k \in DOMAIN file[i] : file[i][k].order # NoOrder => ~TooOld(file[i][k])
    BY <1>3 DEF FromFiles
  <2> QED
    BY <2>1, <2>2 DEF Store!Importable, Store!TooOld, TooOld, Store!NoTime, NoTime
<1> QED
  BY <1>3, <1>8, <1>9 DEF Store!ImportFile

(* The merges implement the atomic imports of OrderStore, whatever the     *)
(* files, however the statements of the imports interleave, and wherever   *)
(* they fail: a committed file did to the tables what it does alone,       *)
(* applied at the moment of its commit.                                    *)
THEOREM MergesAreAtomic == Spec => ImplementsOrderStore
<1>1. Init => SInv /\ Store!Init
  <2> SUFFICES ASSUME Init PROVE SInv /\ Store!Init
    OBVIOUS
  <2>1. Store!Init
    BY DEF Init, Store!Init, NoWrites, NoItems
  <2>2. IInv /\ Journalled
    BY InvInit DEF Init, Journalled
  <2>3. FromFiles
    BY DEF Init, FromFiles, ZeroCounts
  <2>4. ASSUME NEW i \in Imports PROVE Replayed(i)
    <3>1. PICK t : t = Store!Tables
      OBVIOUS
    <3>2. t \in TableState /\ t = Seen(i) /\ \A o \in Orders : ~Wrote(i, o)
      <4>1. ZeroCounts \in Counters /\ [ZeroCounts EXCEPT !.rows = 0] = ZeroCounts
        BY DEF ZeroCounts, Counters
      <4>2. TypeOK /\ counts[i] = ZeroCounts /\ \A o \in Orders : ~Wrote(i, o)
        BY <2>2 DEF Init, Wrote, NoWrites, IInv
      <4>3. t = [orders |-> orders, items |-> items, counts |-> ZeroCounts]
        BY <3>1 DEF Store!Tables, ZeroCounts, Store!ZeroCounts
      <4>4. orders = [o \in Orders |-> Row(i, o)] /\ items = [o \in Orders |-> Items(i, o)]
        BY <4>2 DEF TypeOK, Row, Items
      <4>5. t = Seen(i)
        BY <4>1, <4>2, <4>3, <4>4 DEF Seen
      <4>6. t \in TableState
        BY <4>1, <4>2, <4>3 DEF TypeOK, TableState
      <4> QED
        BY <4>2, <4>5, <4>6
    <3>3. PICK run : run = [k \in 0..0 |-> t]
      OBVIOUS
    <3>4. Replays(i, 0, run)
      BY <3>1, <3>2, <3>3 DEF Replays, IsRun, Store!Tables
    <3>5. Waits(i, 0, [b \in 1..0 |-> 1])
      BY DEF Init, Waits
    <3> QED
      BY <3>4, <3>5 DEF Replayed
  <2> QED
    BY <2>1, <2>2, <2>3, <2>4 DEF SInv
<1>2. SInv /\ [Next]_vars => SInv' /\ [Store!Next]_(Store!vars)
  <2> SUFFICES ASSUME SInv, [Next]_vars PROVE SInv' /\ [Store!Next]_(Store!vars)
    OBVIOUS
  <2>1. IInv /\ IInv' /\ Journalled /\ Journalled'
    BY InvNext, JournalKept DEF SInv, IInv
  <2>2. SInv'
    BY <2>1, FromFilesNext, ReplayedNext DEF SInv
  <2>3. ASSUME NEW i \in Imports, Complete(i) PROVE Store!Next
    <3>1. Replayed(i) /\ FromFiles
      BY DEF SInv
    <3>2. Store!ImportFile(i, file[i]) /\ file[i] \in Files
      BY <2>1, <2>3, <3>1, CommitImports
    <3> QED
      BY <3>2 DEF Store!Next
  <2>4. ASSUME ~\E i \in Imports : Complete(i) PROVE UNCHANGED Store!vars
    <3>1. (\E i \in Imports : SaveOrder(i)) => UNCHANGED tables
      BY DEF SaveOrder
    <3>2. (\E S \in SUBSET Imports : Abort(S)) => UNCHANGED tables
      BY DEF Abort
    <3>3. UNCHANGED tables
      BY <2>4, <3>1, <3>2, StepKinds
    <3> QED
      BY <3>3 DEF tables, Store!vars
  <2> QED
    BY <2>2, <2>3, <2>4
<1> QED
  BY <1>1, <1>2, PTL DEF Spec, ImplementsOrderStore, Store!Spec

=============================================================================
