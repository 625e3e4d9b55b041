---------------------------- MODULE OrderCleanup ----------------------------
(***************************************************************************)
(* The one-off purge of old orders: ordercleanup.PurgeBefore, which        *)
(* container.New runs before the service listens when                      *)
(* ORDERS_PURGE_EXPECTED is set.  It counts the old orders, copies the     *)
(* database with VACUUM INTO, checks the copy and deletes in one           *)
(* transaction, while another process may write to the same SQLite file    *)
(* and this one may stop at any step and be started again.                 *)
(*                                                                         *)
(* SQLite runs in WAL mode: a transaction reads the snapshot of its first  *)
(* statement, and its first write fails when another process has committed *)
(* since; from then on the other processes' writes wait.                   *)
(***************************************************************************)
EXTENDS Integers, FiniteSets

CONSTANTS
    Orders,      \* order numbers
    Versions,    \* what a snapshot says of an order, its positions included
    Expected,    \* ORDERS_PURGE_EXPECTED
    NoRow,       \* no such row
    MaxWrites,   \* bound: commits of the other process
    MaxStops     \* bound: failures and stops of this one

(* created_at is before the cutoff, or not before it, or NULL. *)
Rows == [created: {"old", "recent", "unknown"}, version: Versions]

ASSUME CleanupAssumption ==
    /\ IsFiniteSet(Orders)
    /\ Expected \in Nat \ {0}
    /\ NoRow \notin Rows
    /\ MaxWrites \in Nat /\ MaxStops \in Nat

VARIABLES
    orders,    \* table orders
    items,     \* table order_items, by order: the version they belong to
    writes,    \* commits of the other process, PRAGMA data_version
    backups,   \* the copies of the database on disk
    pc,        \* where PurgeBefore is
    before,    \* the old orders it found first
    version,   \* its dataVersion
    copy,      \* the copy it has made
    tx,        \* what its transaction sees and has written
    stops      \* how often it has failed or was stopped

tables == <<orders, items>>
locals == <<before, version, copy, tx>>
vars   == <<tables, writes, backups, pc, locals, stops>>

Database   == [orders |-> orders, items |-> items]
NoTables   == [orders |-> [o \in Orders |-> NoRow], items |-> [o \in Orders |-> NoRow]]
NoTx       == [db |-> NoTables, seen |-> 0]

Init ==
    /\ orders \in [Orders -> Rows \cup {NoRow}]
    /\ items = orders
    /\ writes = 0
    /\ backups = {}
    /\ pc = "down"
    /\ before = {}
    /\ version = 0
    /\ copy = NoTables
    /\ tx = NoTx
    /\ stops = 0

(* created_at < cutoff; NULL is never smaller. *)
Candidates(table) == {o \in Orders : table[o] # NoRow /\ table[o].created = "old"}

(* Faulty variant: the rows are cut out of the table's domain.             *)
DeleteKeys(table, S) == [o \in Orders \ S |-> table[o]]

Delete(table, S) == [o \in Orders |-> IF o \in S THEN NoRow ELSE table[o]]

-----------------------------------------------------------------------------
Start ==
    /\ pc = "down"
    /\ pc' = "count"
    /\ UNCHANGED <<tables, writes, backups, locals, stops>>

(* PurgeBefore returns. *)
Return(outcome) ==
    /\ pc' = outcome
    /\ before' = {}
    /\ version' = 0
    /\ copy' = NoTables
    /\ tx' = NoTx

(* log.Fatalf: the process ends, its transaction is rolled back. *)
Refuse == Return("down")
Listen == Return("serving")

(* Faulty variant: no old orders are no match for the expected number. *)
Unmatched(n) == FALSE

(* Faulty variant: fewer than expected means that a purge has run before.  *)
FewerLeft(n) == n < Expected

NothingLeft(n) == n = 0

CountOld ==
    LET found == Candidates(orders)
        n     == Cardinality(found)
    IN  /\ pc = "count"
        /\ \/ NothingLeft(n) /\ Listen
           \/ ~NothingLeft(n) /\ n # Expected /\ Refuse
           \/ /\ n = Expected
              /\ before' = found
              /\ pc' = "version"
              /\ UNCHANGED <<version, copy, tx>>
        /\ UNCHANGED <<tables, writes, backups, stops>>

ReadVersion ==
    /\ pc = "version"
    /\ version' = writes
    /\ pc' = "backup"
    /\ UNCHANGED <<tables, writes, backups, before, copy, tx, stops>>

VacuumInto ==
    /\ pc = "backup"
    /\ copy' = Database
    /\ backups' = backups \cup {Database}
    /\ pc' = "verify"
    /\ UNCHANGED <<tables, writes, before, version, tx, stops>>

(* The copy must hold the same old orders. *)
VerifyBackup ==
    /\ pc = "verify"
    /\ IF Candidates(copy.orders) = before
       THEN pc' = "begin" /\ UNCHANGED locals
       ELSE Refuse
    /\ UNCHANGED <<tables, writes, backups, stops>>

(* Faulty variant: only the list of old orders is compared again. *)
AnyVersion == TRUE

SameVersion == writes = version

(* The transaction's first statement reads data_version. *)
Begin ==
    /\ pc = "begin"
    /\ IF SameVersion
       THEN /\ tx' = [db |-> Database, seen |-> writes]
            /\ pc' = "relist"
            /\ UNCHANGED <<before, version, copy>>
       ELSE Refuse
    /\ UNCHANGED <<tables, writes, backups, stops>>

Relist ==
    /\ pc = "relist"
    /\ IF Candidates(tx.db.orders) = before
       THEN pc' = "items" /\ UNCHANGED locals
       ELSE Refuse
    /\ UNCHANGED <<tables, writes, backups, stops>>

(* Faulty variant: the positions of the orders are left behind. *)
KeepPositions(t) == t.items

WithoutOldItems(t) == Delete(t.items, Candidates(t.orders))

(* The first write: SQLITE_BUSY when the snapshot is not the latest. *)
DeleteItems ==
    /\ pc = "items"
    /\ IF tx.seen = writes
       THEN /\ tx' = [tx EXCEPT !.db.items = WithoutOldItems(tx.db)]
            /\ pc' = "orders"
            /\ UNCHANGED <<before, version, copy>>
       ELSE Refuse
    /\ UNCHANGED <<tables, writes, backups, stops>>

(* Faulty variant: a NULL is taken for an early time. *)
WithoutUndated(t) ==
    Delete(t.orders, {o \in Orders : t.orders[o] # NoRow /\ t.orders[o].created # "recent"})

WithoutOld(t) == Delete(t.orders, Candidates(t.orders))

DeleteOrders ==
    /\ pc = "orders"
    /\ IF Cardinality(Candidates(tx.db.orders)) = Expected
       THEN /\ tx' = [tx EXCEPT !.db.orders = WithoutOld(tx.db)]
            /\ pc' = "commit"
            /\ UNCHANGED <<before, version, copy>>
       ELSE Refuse
    /\ UNCHANGED <<tables, writes, backups, stops>>

Commit ==
    /\ pc = "commit"
    /\ orders' = tx.db.orders
    /\ items' = tx.db.items
    /\ Listen
    /\ UNCHANGED <<writes, backups, stops>>

(* Any statement or file operation fails, or the process stops. *)
Stop ==
    /\ pc # "down"
    /\ stops < MaxStops
    /\ stops' = stops + 1
    /\ Refuse
    /\ UNCHANGED <<tables, writes, backups>>

(* The transaction has written and holds the lock. *)
Locked == pc \in {"orders", "commit"}

(* Another process, such as the instance being replaced, commits a write   *)
(* of an order with its positions.                                         *)
WriteElsewhere(o, row) ==
    /\ ~Locked
    /\ writes < MaxWrites
    /\ writes' = writes + 1
    /\ orders' = [orders EXCEPT ![o] = row]
    /\ items' = [items EXCEPT ![o] = row]
    /\ UNCHANGED <<backups, pc, locals, stops>>

-----------------------------------------------------------------------------
Purge ==
    \/ CountOld
    \/ ReadVersion
    \/ VacuumInto
    \/ VerifyBackup
    \/ Begin
    \/ Relist
    \/ DeleteItems
    \/ DeleteOrders
    \/ Commit

Next ==
    \/ Start
    \/ Purge
    \/ Stop
    \/ \E o \in Orders, row \in Rows : WriteElsewhere(o, row)

Spec == Init /\ [][Next]_vars

(* The platform starts the process again, and it runs on.                  *)
FairSpec == Spec /\ WF_vars(Start) /\ WF_vars(Purge)

-----------------------------------------------------------------------------
Table  == [Orders -> Rows \cup {NoRow}]
Tables == [orders: Table, items: Table]

(* The variables have their types.                                         *)
TypeOK ==
    /\ orders \in Table
    /\ items \in Table
    /\ writes \in 0..MaxWrites
    /\ backups \subseteq Tables
    /\ pc \in {"down", "count", "version", "backup", "verify", "begin", "relist",
               "items", "orders", "commit", "serving"}
    /\ before \subseteq Orders
    /\ version \in 0..MaxWrites
    /\ copy \in Tables
    /\ tx \in [db: Tables, seen: 0..MaxWrites]
    /\ stops \in 0..MaxStops

(* Positions never outlive their order, and no order loses its own.        *)
ItemsFollow == items = orders

(* ADR 0011: a purge is preceded by a copy of what it removes.  The row    *)
(* and the positions that disappear are in a backup exactly as they were,  *)
(* also when another process wrote in the meantime.                        *)
PurgedIsBackedUp ==
    [][\A o \in Orders :
         (orders[o] # NoRow /\ orders'[o] = NoRow) =>
             \E b \in backups : b.orders[o] = orders[o] /\ b.items[o] = items[o]]_vars

Removed == {o \in Orders : orders[o] # NoRow /\ orders'[o] = NoRow}

(* ADR 0011: one step removes exactly the expected number of orders, all   *)
(* the old ones and no other, or none at all.                              *)
AllExpectedOrNone ==
    [][Removed # {} => /\ Removed = Candidates(orders)
                       /\ Cardinality(Removed) = Expected]_vars

(* The service begins to listen only over a history without old orders.    *)
StartsClean ==
    [][(pc # "serving" /\ pc' = "serving") => Candidates(orders') = {}]_vars

(* A purge that was interrupted, at whatever step, can be repeated, and    *)
(* the variable left in the environment does not keep the service down.    *)
ServesInTheEnd ==
    <>[](Cardinality(Candidates(orders)) \in {0, Expected}) => <>[](pc = "serving")

-----------------------------------------------------------------------------
(* The inductive invariant of a purge under way. *)

Copied   == {"verify", "begin", "relist", "items", "orders", "commit"}
Deleting == {"orders", "commit"}

(* Unless another process has written, the copy is the database.           *)
CopyInv ==
    /\ pc \in Copied \cup {"backup"} => version <= writes
    /\ pc \in Copied =>
          /\ copy \in backups
          /\ writes = version => copy = Database

(* The transaction began on the version that was copied, and once it has   *)
(* written, no other process has.                                          *)
TxInv ==
    /\ pc \in {"relist", "items"} =>
          /\ tx.seen = version
          /\ writes = version => tx.db = Database
    /\ pc \in Deleting => writes = version
    /\ pc = "orders" => tx.db = [orders |-> orders, items |-> WithoutOldItems(Database)]
    /\ pc = "commit" =>
          /\ tx.db = [orders |-> WithoutOld(Database), items |-> WithoutOldItems(Database)]
          /\ Cardinality(Candidates(orders)) = Expected

(* What holds between the statements of a purge, whatever other processes  *)
(* do (ordercleanup/service.go:44-96).                                     *)
PurgeInv == CopyInv /\ TxInv
=============================================================================
