----------------------------- MODULE OrderMerge -----------------------------
(***************************************************************************)
(* Cumulative import of order exports: orders.Service.Import and           *)
(* orders.Merge of internal/services/orders.  Every request opens one      *)
(* database transaction, streams its file into batches, merges each batch  *)
(* into the tables orders and order_items, completes the journal row in    *)
(* raw_import and commits; any error rolls the whole transaction back.     *)
(*                                                                         *)
(* MaxConns is the size of the connection pool: 1 for SQLite (db.Open      *)
(* calls SetMaxOpenConns(1)), more than 1 for PostgreSQL, where the        *)
(* statements of several merges interleave at READ COMMITTED isolation:    *)
(* a statement sees committed rows and its own transaction's, and a write  *)
(* waits for the transaction that holds the row.                           *)
(***************************************************************************)
EXTENDS OrderSnapshots

CONSTANTS
    BatchSize,   \* importBatchSize
    MaxConns     \* connections the pool may open

ASSUME MergeAssumption ==
    /\ BatchSize \in Nat \ {0}
    /\ MaxConns \in Nat \ {0}

VARIABLES
    orders,      \* committed table orders, by order number
    items,       \* committed table order_items, by order number
    rawImport,   \* committed table raw_import, by import
    pc,          \* where each request's call of Import is
    file,        \* the file each request uploads
    pos,         \* the records ingestion.Stream has yielded so far
    batch,       \* Import's batch slice
    counts,      \* rowsTotal and the added/updated/skipped/items of its Merge
    txOrders,    \* rows of orders written by the open transaction
    txItems      \* the items of those orders, as written by it

tables == <<orders, items, rawImport>>
tx     == <<txOrders, txItems>>
vars   == <<tables, pc, file, pos, batch, counts, tx>>

(* Faulty variant: an error returns without the deferred Rollback.         *)
OpenLeaking == {i \in Imports : pc[i] \in {"parsing", "saving", "failed"}}

Open     == {i \in Imports : pc[i] \in {"parsing", "saving"}}
InFlight == {i \in Imports : pc[i] \in {"waiting", "parsing", "saving"}}
Ended    == {i \in Imports : pc[i] \in {"committed", "failed"}}

NoWrites   == [o \in Orders |-> NoRow]
NoItems    == [o \in Orders |-> <<>>]

Init ==
    /\ orders = NoWrites
    /\ items = NoItems
    /\ rawImport = [i \in Imports |-> NoRow]
    /\ pc = [i \in Imports |-> "idle"]
    /\ file = [i \in Imports |-> <<>>]
    /\ pos = [i \in Imports |-> 0]
    /\ batch = [i \in Imports |-> <<>>]
    /\ counts = [i \in Imports |-> ZeroCounts]
    /\ txOrders = [i \in Imports |-> NoWrites]
    /\ txItems = [i \in Imports |-> NoItems]

-----------------------------------------------------------------------------
(* Transactions. *)

Wrote(i, o)  == txOrders[i][o] # NoRow

(* Faulty variants: a statement that misses its transaction's own writes,  *)
(* and an import that replaces the table by its file.                      *)
RowCommitted(i, o) == orders[o]
RowOfFile(i, o)    == txOrders[i][o]

Row(i, o)    == IF Wrote(i, o) THEN txOrders[i][o] ELSE orders[o]
Items(i, o)  == IF Wrote(i, o) THEN txItems[i][o] ELSE items[o]

(* Faulty variant: the row is read first and then written unconditionally. *)
HeldByNobody(i, o, j) == FALSE

(* A write of o by i waits for j, whose open transaction has written o. *)
HeldBy(i, o, j) == j # i /\ Wrote(j, o)
Free(i, o)      == \A j \in Imports : ~HeldBy(i, o, j)

(* The calls of Import in S return: their transactions and locals are gone. *)
Return(S, outcome) ==
    /\ pc' = [i \in Imports |-> IF i \in S THEN outcome ELSE pc[i]]
    /\ pos' = [i \in Imports |-> IF i \in S THEN 0 ELSE pos[i]]
    /\ batch' = [i \in Imports |-> IF i \in S THEN <<>> ELSE batch[i]]
    /\ counts' = [i \in Imports |-> IF i \in S THEN ZeroCounts ELSE counts[i]]
    /\ txOrders' = [i \in Imports |-> IF i \in S THEN NoWrites ELSE txOrders[i]]
    /\ txItems' = [i \in Imports |-> IF i \in S THEN NoItems ELSE txItems[i]]

(* Import returns an error and its deferred Rollback undoes everything. *)
Abort(S) ==
    /\ Return(S, "failed")
    /\ UNCHANGED <<tables, file>>

-----------------------------------------------------------------------------
(* Import. *)

(* A request reaches Import and asks the pool for a connection. *)
Receive(i, f) ==
    /\ pc[i] = "idle"
    /\ pc' = [pc EXCEPT ![i] = "waiting"]
    /\ file' = [file EXCEPT ![i] = f]
    /\ UNCHANGED <<tables, pos, batch, counts, tx>>

(* beginMerge: a connection is free, the transaction opens with its journal *)
(* row; the statements are prepared.                                       *)
Begin(i) ==
    /\ pc[i] = "waiting"
    /\ Cardinality(Open) < MaxConns
    /\ pc' = [pc EXCEPT ![i] = "parsing"]
    /\ UNCHANGED <<tables, file, pos, batch, counts, tx>>

NextRecord(i) == file[i][pos[i] + 1]

(* Stream yields a row that MapOrder does not take for an order. *)
YieldOther(i) ==
    /\ pc[i] = "parsing"
    /\ pos[i] < Len(file[i])
    /\ NextRecord(i).order = NoOrder
    /\ pos' = [pos EXCEPT ![i] = @ + 1]
    /\ counts' = [counts EXCEPT ![i].rows = @ + 1]
    /\ UNCHANGED <<tables, pc, file, batch, tx>>

(* Stream yields an order: it joins the batch, and a full batch is flushed. *)
YieldOrder(i) ==
    /\ pc[i] = "parsing"
    /\ pos[i] < Len(file[i])
    /\ NextRecord(i).order # NoOrder
    /\ ~TooOld(NextRecord(i))
    /\ pos' = [pos EXCEPT ![i] = @ + 1]
    /\ counts' = [counts EXCEPT ![i].rows = @ + 1]
    /\ batch' = [batch EXCEPT ![i] = Append(@, NextRecord(i))]
    /\ pc' = [pc EXCEPT ![i] = IF Len(batch'[i]) = BatchSize THEN "saving" ELSE @]
    /\ UNCHANGED <<tables, file, tx>>

(* An order from before the configured start fails the whole import. *)
RejectOld(i) ==
    /\ pc[i] = "parsing"
    /\ pos[i] < Len(file[i])
    /\ NextRecord(i).order # NoOrder
    /\ TooOld(NextRecord(i))
    /\ Abort({i})

(* The loop of SaveBatch moves on to the next order, or the flush returns. *)
NextOfBatch(i) ==
    /\ batch' = [batch EXCEPT ![i] = Tail(@)]
    /\ pc' = [pc EXCEPT ![i] = IF Len(batch[i]) = 1 THEN "parsing" ELSE @]

(* SaveBatch has an order of its batch left. *)
Saving(i) == pc[i] = "saving" /\ batch[i] # <<>>

(* SaveBatch, the snapshot is accepted: the order is inserted, or updated  *)
(* when the version in the file is not older, and its items are replaced.  *)
SaveOrder(i) ==
    LET s == Head(batch[i])
        o == s.order
        old == Row(i, o)
    IN  /\ Saving(i)
        /\ Free(i, o)
        /\ old # NoRow => Accepts(old, s)
        /\ txOrders' = [txOrders EXCEPT ![i][o] =
               IF old = NoRow THEN InsertedRow(s, i) ELSE UpdatedRow(old, s, i)]
        /\ txItems' = [txItems EXCEPT ![i][o] = ReplaceItems(Items(i, o), s, i)]
        /\ counts' = [counts EXCEPT
               ![i].added   = IF old = NoRow THEN @ + 1 ELSE @,
               ![i].updated = IF old = NoRow THEN @ ELSE @ + 1,
               ![i].items   = @ + s.lines]
        /\ NextOfBatch(i)
        /\ UNCHANGED <<tables, file, pos>>

(* SaveBatch, the row is newer: the UPDATE selects nothing (so it waits for *)
(* nobody), the items stay, the order is counted as skipped.               *)
SkipOrder(i) ==
    LET s == Head(batch[i])
        old == Row(i, s.order)
    IN  /\ Saving(i)
        /\ old # NoRow
        /\ ~Accepts(old, s)
        /\ counts' = [counts EXCEPT ![i].skipped = @ + 1]
        /\ NextOfBatch(i)
        /\ UNCHANGED <<tables, file, pos, tx>>

AtEnd(i) == pc[i] = "parsing" /\ pos[i] = Len(file[i])

(* ordersTotal of Import, the orders yielded so far. *)
OrdersYielded(i) == {k \in 1..pos[i] : file[i][k].order # NoOrder}

RejectEmpty(i) ==
    /\ AtEnd(i)
    /\ OrdersYielded(i) = {}
    /\ Abort({i})

(* The last, incomplete batch. *)
FlushRest(i) ==
    /\ AtEnd(i)
    /\ batch[i] # <<>>
    /\ pc' = [pc EXCEPT ![i] = "saving"]
    /\ UNCHANGED <<tables, file, pos, batch, counts, tx>>

(* Merge.Complete: the counters go to the journal and the transaction commits. *)
Complete(i) ==
    /\ AtEnd(i)
    /\ OrdersYielded(i) # {}
    /\ batch[i] = <<>>
    /\ orders' = [o \in Orders |-> Row(i, o)]
    /\ items' = [o \in Orders |-> Items(i, o)]
    /\ rawImport' = [rawImport EXCEPT ![i] = counts[i]]
    /\ Return({i}, "committed")
    /\ UNCHANGED file

(* A parse, read, statement or commit error, or a lost connection. *)
Fail(i) == i \in InFlight /\ Abort({i})

(* The process stops: every request in flight is gone. *)
Crash ==
    /\ InFlight # {}
    /\ Abort(InFlight)

-----------------------------------------------------------------------------
(* PostgreSQL only: merges that wait for each other in a cycle. *)

WaitsFor(i, j) ==
    /\ Saving(i)
    /\ LET s == Head(batch[i])
           old == Row(i, s.order)
       IN  /\ old # NoRow => Accepts(old, s)
           /\ HeldBy(i, s.order, j)

Deadlocked(i) ==
    \E S \in SUBSET Imports :
        /\ i \in S
        /\ \A j \in S : \E k \in S : WaitsFor(j, k)
        /\ \A k \in S : \E j \in S : WaitsFor(j, k)

(* The server aborts one of them; its statement returns an error. *)
DeadlockAbort(i) == Deadlocked(i) /\ Abort({i})

-----------------------------------------------------------------------------
Step(i) ==
    \/ Begin(i)
    \/ YieldOther(i)
    \/ YieldOrder(i)
    \/ RejectOld(i)
    \/ SaveOrder(i)
    \/ SkipOrder(i)
    \/ RejectEmpty(i)
    \/ FlushRest(i)
    \/ Complete(i)

Next ==
    \/ \E i \in Imports :
           \/ \E f \in Files : Receive(i, f)
           \/ Step(i)
           \/ Fail(i)
           \/ DeadlockAbort(i)
    \/ Crash

Spec == Init /\ [][Next]_vars

(* A request that was received runs: Import has no wait of its own but for *)
(* the pool and for row locks, and the server breaks lock cycles.          *)
Fairness ==
    \A i \in Imports : WF_vars(Step(i)) /\ WF_vars(DeadlockAbort(i))

FairSpec == Spec /\ Fairness

-----------------------------------------------------------------------------
(* The variables have their types; a table row belongs to a known import.  *)
TypeOK ==
    /\ orders \in [Orders -> OrderRow \cup {NoRow}]
    /\ items \in [Orders -> Seq(ItemRow)]
    /\ rawImport \in [Imports -> Counters \cup {NoRow}]
    /\ pc \in [Imports -> {"idle", "waiting", "parsing", "saving",
                           "committed", "failed"}]
    /\ file \in [Imports -> Seq(Record)]
    /\ pos \in [Imports -> Nat]
    /\ batch \in [Imports -> Seq(Snapshot)]
    /\ counts \in [Imports -> Counters]
    /\ txOrders \in [Imports -> [Orders -> OrderRow \cup {NoRow}]]
    /\ txItems \in [Imports -> [Orders -> Seq(ItemRow)]]

(* An order and its positions come from the same accepted snapshot: as     *)
(* many positions as the row counts, each with the row's content and       *)
(* import, none left over from an earlier import, none without an order.   *)
SameSnapshot(row, its) ==
    IF row = NoRow THEN its = <<>>
    ELSE /\ Len(its) = row.lines
         /\ \A k \in DOMAIN its :
               its[k] = [content |-> row.content, line |-> k, import |-> row.import]

ItemsMatchOrder == \A o \in Orders : SameSnapshot(orders[o], items[o])

(* An import never takes an order away, never forgets when it was created, *)
(* and never puts an older version in the place of a newer one.            *)
NeverRegress ==
    [][\A o \in Orders :
         orders[o] # NoRow =>
             /\ orders'[o] # NoRow
             /\ orders'[o].updated >= orders[o].updated
             /\ orders[o].created # NoTime => orders'[o].created # NoTime]_vars

(* An order that no snapshot of the committing file names keeps its row    *)
(* and its positions (ADR 0009, decision 1).                               *)
AbsentOrdersUntouched ==
    [][\A o \in Orders :
         (orders'[o] # orders[o] \/ items'[o] # items[o]) =>
             \E i \in Imports :
                 /\ rawImport[i] = NoRow
                 /\ rawImport'[i] # NoRow
                 /\ \E k \in DOMAIN file[i] : file[i][k].order = o]_vars

Committed == {i \in Imports : rawImport[i] # NoRow}

SnapshotsOf(o) ==
    {s \in UNION {{file[i][k] : k \in DOMAIN file[i]} : i \in Committed} : s.order = o}

(* The row repeats a snapshot of that very time, or one without a time.    *)
SaidBy(s, row) ==
    /\ s.content = row.content
    /\ s.lines = row.lines
    /\ s.updated \in {row.updated, NoTime}

(* Whatever the order in which overlapping exports were imported, together *)
(* or one by one: an order is stored when some committed file names it, it *)
(* is as new as the newest snapshot imported, and what it says was said by *)
(* a snapshot of that very time, or by one that had no time of change.     *)
NewestSnapshotWins ==
    \A o \in Orders :
        /\ orders[o] = NoRow <=> SnapshotsOf(o) = {}
        /\ orders[o] # NoRow =>
              /\ \A s \in SnapshotsOf(o) : s.updated <= orders[o].updated
              /\ \E s \in SnapshotsOf(o) : SaidBy(s, orders[o])

(* Every request that reached the server gets an answer: it does not wait  *)
(* for the connection, or for other imports, for ever.                     *)
ImportsEnd == \A i \in Imports : i \in InFlight ~> i \in Ended

(* ADR 0009: files may be loaded in any order.  An order whose creation    *)
(* time some committed file gives has one.                                 *)
CreationTimeKept ==
    \A o \in Orders :
        (\E s \in SnapshotsOf(o) : s.created # NoTime) => orders[o].created # NoTime

Stored == {o \in Orders : orders[o] # NoRow}

(* The journal row that an import leaves adds up: it counts every row of   *)
(* the file, every order in the file once, as added, updated or skipped,   *)
(* and the table has grown by exactly the orders counted as added.         *)
JournalAddsUp ==
    [][\A i \in Imports :
         rawImport'[i] # rawImport[i] =>
             LET n == rawImport'[i]
             IN  /\ n.rows = Len(file[i])
                 /\ n.added + n.updated + n.skipped
                        = Cardinality({k \in 1..Len(file[i]) : file[i][k].order # NoOrder})
                 /\ Cardinality(Stored') = Cardinality(Stored) + n.added]_vars

-----------------------------------------------------------------------------
Store == INSTANCE OrderStore

(* The merges implement the atomic imports of OrderStore: what a committed *)
(* file did to orders, order_items and raw_import is what it does alone,   *)
(* applied at the moment of its commit.                                    *)
ImplementsOrderStore == Store!Spec

-----------------------------------------------------------------------------
(* The inductive invariant of the merges in flight. *)

(* Two open transactions never hold the same order. *)
OneWriter ==
    \A i, j \in Imports : \A o \in Orders : Wrote(i, o) /\ Wrote(j, o) => i = j

(* What a transaction wrote is at least as new as the row it will replace. *)
WritesNewer ==
    \A i \in Imports : \A o \in Orders :
        Wrote(i, o) /\ orders[o] # NoRow =>
            /\ txOrders[i][o].updated >= orders[o].updated
            /\ orders[o].created # NoTime => txOrders[i][o].created # NoTime

(* Every snapshot read so far waits in the batch, or the row that the      *)
(* transaction sees is as new.                                             *)
Accounted(i, s) ==
    \/ \E b \in 1..Len(batch[i]) : batch[i][b] = s
    \/ Row(i, s.order) # NoRow /\ s.updated <= Row(i, s.order).updated

ReadAccounted(i) ==
    /\ pos[i] <= Len(file[i])
    /\ \A k \in 1..pos[i] : file[i][k].order # NoOrder => Accounted(i, file[i][k])

AllAccounted == \A i \in Imports : ReadAccounted(i)

BatchFromFile ==
    \A i \in Imports : \A b \in 1..Len(batch[i]) :
        \E k \in 1..pos[i] : file[i][k] = batch[i][b]

(* What a transaction wrote stems from its file. *)
WritesFromFile ==
    \A i \in Imports : \A o \in Orders :
        Wrote(i, o) =>
            \E k \in 1..pos[i] : file[i][k].order = o /\ SaidBy(file[i][k], txOrders[i][o])

FreshRequests ==
    \A i \in Imports :
        pc[i] = "idle" => /\ pos[i] = 0
                          /\ txOrders[i] = NoWrites
                          /\ rawImport[i] = NoRow

(* What TLAPS proves by induction together with NewestSnapshotWins.        *)
MergeInv ==
    /\ OneWriter
    /\ WritesNewer
    /\ AllAccounted
    /\ BatchFromFile
    /\ WritesFromFile
    /\ FreshRequests

(* The counters of a Merge: an open transaction has counted as added the   *)
(* orders that it would insert, and counted each order read from its file, *)
(* but those that still wait in the batch.                                 *)
Inserts(i) == {o \in Orders : Wrote(i, o) /\ orders[o] = NoRow}

CountsAddUp(i) ==
    /\ IsFiniteSet(Inserts(i))
    /\ counts[i].added = Cardinality(Inserts(i))
    /\ counts[i].rows = pos[i]
    /\ counts[i].added + counts[i].updated + counts[i].skipped + Len(batch[i])
           = Cardinality(OrdersYielded(i))

CountsInv == IsFiniteSet(Stored) /\ \A i \in Imports : CountsAddUp(i)

(* The items of an order written by an open transaction match its row.     *)
WritesMatch ==
    \A i \in Imports : \A o \in Orders :
        Wrote(i, o) => SameSnapshot(txOrders[i][o], txItems[i][o])
=============================================================================
