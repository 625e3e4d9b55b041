------------------------------ MODULE Migration ------------------------------
(***************************************************************************)
(* What the server does to its database before it serves: the tables it    *)
(* creates, the columns later versions added, and the rows of an earlier   *)
(* version it corrects (internal/db/migrate.go).  Every statement commits  *)
(* by itself; a server that was stopped runs them all again.               *)
(***************************************************************************)
EXTENDS OrderRows

Added == <<"has_problem", "problem_desc", "cancel_reason", "coupon", "refund_amount",
           "orders_added", "orders_updated", "orders_skipped">>

(* CREATE TABLE IF NOT EXISTS makes a table with every column of today.    *)
NoTables == {"no tables"}

MigrationSteps ==
    << <<"create">> >>
    \o [k \in DOMAIN Added |-> <<"alter", Added[k]>>]
    \o << <<"index">>, <<"paid">>, <<"refund">> >>

(* The columns after a statement; "duplicate column" is no error.          *)
ColumnsAfter(step, columns) ==
    CASE step[1] = "create" -> IF columns = NoTables THEN Range(Added) ELSE columns
      [] step[1] = "alter"  -> columns \cup {step[2]}
      [] OTHER              -> columns

(* A statement about a column that is not there is an error. *)
StepFails(step, columns) ==
    \/ step[1] = "index" /\ "coupon" \notin columns
    \/ step[1] = "refund" /\ "refund_amount" \notin columns

FullReturn == {"vozvrat zakaza", "sovershyon vozvrat sredstv", "sovershen vozvrat sredstv"}

Updated(orders, Where(_), Set(_)) ==
    [o \in DOMAIN orders |->
        IF orders[o] # NoRow /\ Where(orders[o].content)
        THEN [orders[o] EXCEPT !.content = Set(@)] ELSE orders[o]]

(* Faulty variant: canceled orders become paid as well. *)
PaidStatusAll(orders) ==
    Updated(orders, LAMBDA c : c.statusRaw = "oplachen",
                    LAMBDA c : [c EXCEPT !.stage = "paid"])

(* "oplachen" was stored as processing before it had a stage of its own.   *)
PaidStatus(orders) ==
    Updated(orders, LAMBDA c : c.statusRaw = "oplachen" /\ ~c.canceled,
                    LAMBDA c : [c EXCEPT !.stage = "paid"])

(* Only full returns can be restored without the journal of payments. *)
FullRefund(orders) ==
    Updated(orders, LAMBDA c : /\ c.stage = "returned"
                               /\ c.statusRaw \in FullReturn
                               /\ c.refund = 0,
                    LAMBDA c : [c EXCEPT !.refund = c.total])

RowsAfter(step, orders) ==
    CASE step[1] = "paid"   -> PaidStatus(orders)
      [] step[1] = "refund" -> FullRefund(orders)
      [] OTHER              -> orders
=============================================================================
