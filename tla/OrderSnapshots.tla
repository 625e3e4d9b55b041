--------------------------- MODULE OrderSnapshots ---------------------------
(***************************************************************************)
(* What an export says of an order, and what the merge of one snapshot     *)
(* does to one row of orders and to its rows of order_items: the SQL of    *)
(* internal/services/orders/repository.go.                                 *)
(***************************************************************************)
EXTENDS Integers, Sequences, FiniteSets

CONSTANTS
    Orders,      \* order numbers, the primary key of the table orders
    NoOrder,     \* the number of an export row that carries none
    Contents,    \* everything else a snapshot of an order says
    Imports,     \* import requests, each with its raw_import id
    Files,       \* the exports that may be uploaded, sequences of records
    NoRow,       \* "no such row" in a table, or "not written" in a transaction
    MinCreated   \* ORDERS_MIN_CREATED_AT, 0 when it is not set

NoTime == 0      \* time.Time{} in Go, NULL in the tables
Time   == Nat    \* seconds, 0 is NoTime

(* A snapshot of an order, as MapOrder reads it from a row of an export;   *)
(* its positions all carry its content.                                    *)
Snapshot == [order: Orders, created: Time, updated: Time,
             content: Contents, lines: Nat]

(* A row of an export; a row without a number is not an order.             *)
Record == [order: Orders \cup {NoOrder}, created: Time, updated: Time,
           content: Contents, lines: Nat]

(* A row of orders, a row of order_items, a row of raw_import. *)
OrderRow  == [created: Time, updated: Time, content: Contents, lines: Nat,
              import: Imports]
ItemRow   == [content: Contents, line: Nat, import: Imports]
Counters  == [rows: Nat, added: Nat, updated: Nat, skipped: Nat, items: Nat]

ZeroCounts == [rows |-> 0, added |-> 0, updated |-> 0, skipped |-> 0, items |-> 0]

ASSUME SnapshotsAssumption ==
    /\ NoOrder \notin Orders
    /\ NoRow \notin OrderRow
    /\ NoRow \notin Counters
    /\ Files \subseteq Seq(Record)
    /\ MinCreated \in Time

-----------------------------------------------------------------------------
Coalesce(new, old) == IF new # NoTime THEN new ELSE old

(* Faulty variant: the UPDATE has no condition on updated_at. *)
AcceptsAny(row, s) == TRUE

(* The WHERE of the UPDATE: NULL >= anything is never true in SQL, but the *)
(* COALESCE makes an undated snapshot as new as the row it meets.          *)
Accepts(row, s) ==
    row.updated = NoTime \/ Coalesce(s.updated, row.updated) >= row.updated

InsertedRow(s, i) ==
    [created |-> s.created, updated |-> s.updated, content |-> s.content,
     lines |-> s.lines, import |-> i]

(* Faulty variant: created_at = ? without its COALESCE. *)
UpdatedRowForgets(row, s, i) ==
    [created |-> s.created,
     updated |-> Coalesce(s.updated, row.updated),
     content |-> s.content, lines |-> s.lines, import |-> i]

UpdatedRow(row, s, i) ==
    [created |-> Coalesce(s.created, row.created),
     updated |-> Coalesce(s.updated, row.updated),
     content |-> s.content, lines |-> s.lines, import |-> i]

(* Faulty variant: the item rows are inserted without an import id. *)
InsertedItemsUnowned(s, i) ==
    [k \in 1..s.lines |-> [content |-> s.content, line |-> k, import |-> NoRow]]

InsertedItems(s, i) ==
    [k \in 1..s.lines |-> [content |-> s.content, line |-> k, import |-> i]]

(* Faulty variant: the DELETE is missing. *)
KeepItems(old, s, i) == old \o InsertedItems(s, i)

(* DELETE ... WHERE order_number = ? leaves none of the old items behind.  *)
ReplaceItems(old, s, i) == InsertedItems(s, i)

(* An order created before the configured start, or at an unknown time.    *)
TooOld(s) ==
    MinCreated # NoTime /\ (s.created = NoTime \/ s.created < MinCreated)
=============================================================================
