----------------------------- MODULE OrderStore -----------------------------
(***************************************************************************)
(* What the cumulative import promises (ADR 0009): the tables change only  *)
(* by whole files, one after the other.  An import applies every snapshot  *)
(* of its file in turn and writes its journal row, all in one step; a      *)
(* failed or refused import leaves no trace.                               *)
(***************************************************************************)
EXTENDS OrderSnapshots

VARIABLES orders, items, rawImport

vars == <<orders, items, rawImport>>

Init ==
    /\ orders = [o \in Orders |-> NoRow]
    /\ items = [o \in Orders |-> <<>>]
    /\ rawImport = [i \in Imports |-> NoRow]

Tables == [orders |-> orders, items |-> items, counts |-> ZeroCounts]

(* One snapshot: inserted, merged into the row it meets, or skipped. *)
ApplySnapshot(t, s, i) ==
    LET o   == s.order
        old == t.orders[o]
    IN  IF old # NoRow /\ ~Accepts(old, s)
        THEN [t EXCEPT !.counts.skipped = @ + 1]
        ELSE [orders |-> [t.orders EXCEPT ![o] =
                  IF old = NoRow THEN InsertedRow(s, i) ELSE UpdatedRow(old, s, i)],
              items |-> [t.items EXCEPT ![o] = ReplaceItems(@, s, i)],
              counts |-> [t.counts EXCEPT
                  !.added   = IF old = NoRow THEN @ + 1 ELSE @,
                  !.updated = IF old = NoRow THEN @ ELSE @ + 1,
                  !.items   = @ + s.lines]]

(* The snapshots of a file are applied in turn; rows without an order are  *)
(* only counted.                                                           *)
ApplyFile(t, f, i) ==
    LET after[k \in 0..Len(f)] ==
            IF k = 0 THEN t
            ELSE IF f[k].order = NoOrder THEN after[k - 1]
            ELSE ApplySnapshot(after[k - 1], f[k], i)
    IN  [after[Len(f)] EXCEPT !.counts.rows = Len(f)]

(* A file with no order, or with one from before the configured start, is  *)
(* refused as a whole.                                                     *)
Importable(f) ==
    /\ \E k \in DOMAIN f : f[k].order # NoOrder
    /\ \A k \in DOMAIN f : f[k].order # NoOrder => ~TooOld(f[k])

ImportFile(i, f) ==
    LET after == ApplyFile(Tables, f, i)
    IN  /\ rawImport[i] = NoRow
        /\ Importable(f)
        /\ orders' = after.orders
        /\ items' = after.items
        /\ rawImport' = [rawImport EXCEPT ![i] = after.counts]

Next == \E i \in Imports, f \in Files : ImportFile(i, f)

Spec == Init /\ [][Next]_vars

-----------------------------------------------------------------------------
(* The tables without the import ids, which a repeated import does renew. *)
Content(t) ==
    [o \in Orders |->
        IF t.orders[o] = NoRow THEN NoRow
        ELSE [created |-> t.orders[o].created, updated |-> t.orders[o].updated,
              content |-> t.orders[o].content, lines |-> t.orders[o].lines,
              items |-> [k \in DOMAIN t.items[o] |-> t.items[o][k].content]]]

(* ADR 0009: importing the current export once more changes nothing but    *)
(* the import ids: no order moves and no item is doubled.                  *)
ReimportIsIdempotent ==
    [][rawImport' # rawImport =>
         \A i \in Imports, f \in Files :
             ImportFile(i, f) =>
                 Content(ApplyFile(Tables', f, i)) = Content(Tables')]_vars
=============================================================================
