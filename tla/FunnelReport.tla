---------------------------- MODULE FunnelReport ----------------------------
(***************************************************************************)
(* GET /api/funnel: how far the orders of a period went, per segment, and  *)
(* why they failed (package funnel).  A report is a sequence of statements *)
(* that run one after the other, each on the tables of its moment.         *)
(***************************************************************************)
EXTENDS OrderRows

Stages == <<"created", "paid", "processing", "shipped", "delivered", "completed">>

Past ==
    [processing |-> {"processing", "shipped", "in_pvz", "completed", "returned"},
     shipped    |-> {"shipped", "in_pvz", "completed", "returned"},
     delivered  |-> {"in_pvz", "completed", "returned"},
     completed  |-> {"completed", "returned"}]

Reached(c, stage) ==
    CASE stage = "created" -> TRUE
      [] stage = "paid"    -> PaidReach(c)
      [] OTHER             -> c.stage \in Past[stage]

PerStage(db, S, F(_)) ==
    [k \in Range(Stages) |-> F(Those(db, S, LAMBDA c : Reached(c, k)))]

reachOrders(db, r, f) ==
    LET S == Scope(db, r, f)
    IN  [orders        |-> PerStage(db, S, Cardinality),
         revenue       |-> PerStage(db, S, LAMBDA T : Total(db, T, "total")),
         canceled      |-> Count(db, S, Canceled),
         returns       |-> Count(db, S, Returned),
         fullyReturned |-> Count(db, S, FullyReturned),
         refund        |-> Refunded(db, S),
         problems      |-> Count(db, S, LAMBDA c : c.problem)]

reachUnits(db, r, f) == PerStage(db, Scope(db, r, f), LAMBDA T : Units(db, T))

SegmentRow(db, T) ==
    [orders    |-> Cardinality(T),
     paid      |-> Count(db, T, Paid),
     completed |-> Count(db, T, Completed),
     canceled  |-> Count(db, T, Canceled),
     problems  |-> Count(db, T, LAMBDA c : c.problem),
     revenue   |-> Revenue(db, T)]

segment(db, column, r, f) ==
    LET groups == Groups(db, Scope(db, r, f), column)
    IN  Top([l \in DOMAIN groups |-> SegmentRow(db, groups[l])],
            Limits.segment, MoreOrders)

(* Only rows that have a value; canceled or not. *)
topLabeled(db, column, r, f) ==
    LET named  == Those(db, Scope(db, r, f), LAMBDA c : c[column] # "")
        groups == Groups(db, named, column)
    IN  Top([l \in DOMAIN groups |-> [orders |-> Cardinality(groups[l])]],
            Limits.top, MoreOrders)

-----------------------------------------------------------------------------
(* A statement names a query and what it is about. *)
Columns == <<"payment", "delivery", "channel", "region">>

Statements(ask, got) ==
    RangeStatements(ask) \o
    << <<"reachOrders", "cur">>, <<"reachUnits", "cur">>,
       <<"reachOrders", "prev">>, <<"reachUnits", "prev">> >>
    \o [k \in 1..4 |-> <<"segment", Columns[k]>>]
    \o << <<"topLabeled", "problemDesc">>, <<"topLabeled", "cancelReason">> >>

(* The results a statement may have. *)
Execute(db, st, ask, got) ==
    LET req == Ranges(ask, got) IN
    CASE st[1] = "dataBounds"  -> {DataBounds(db)}
      [] st[1] = "reachOrders" -> {reachOrders(db, req[st[2]], ask.filters)}
      [] st[1] = "reachUnits"  -> {reachUnits(db, req[st[2]], ask.filters)}
      [] st[1] = "segment"     -> segment(db, st[2], req.cur, ask.filters)
      [] st[1] = "topLabeled"  -> topLabeled(db, st[2], req.cur, ask.filters)

buildStages(orders, units) ==
    [k \in Range(Stages) |->
        [orders |-> orders.orders[k], revenue |-> orders.revenue[k], units |-> units[k]]]

RedeemedNet(got) ==
    LET c == got[<<"reachOrders", "cur">>] IN c.orders["completed"] - c.fullyReturned

Report(got) ==
    LET c       == got[<<"reachOrders", "cur">>]
        reasons == got[<<"topLabeled", "cancelReason">>]
    IN  [stages             |-> buildStages(c, got[<<"reachUnits", "cur">>]),
         prevStages         |-> buildStages(got[<<"reachOrders", "prev">>],
                                            got[<<"reachUnits", "prev">>]),
         gross              |-> c.orders["created"],
         canceled           |-> c.canceled,
         returns            |-> c.returns,
         fullyReturned      |-> c.fullyReturned,
         refundAmount       |-> c.refund,
         redeemedGross      |-> c.orders["completed"],
         redeemedNet        |-> RedeemedNet(got),
         redeemedNetRevenue |-> c.revenue["completed"] - c.refund,
         problems           |-> c.problems,
         canceledNoReason   |-> c.canceled - SumFunction([l \in DOMAIN reasons |-> reasons[l].orders]),
         segments           |-> [k \in Range(Columns) |-> got[<<"segment", k>>]],
         topProblems        |-> got[<<"topLabeled", "problemDesc">>],
         topCancelReasons   |-> reasons]
-----------------------------------------------------------------------------
SumOf(rows, field) == SumFunction([l \in DOMAIN rows |-> rows[l][field]])

(* What one statement tells fits together whenever it ran: the stages are  *)
(* nested, and no more is paid back than was redeemed.                     *)
StatementsAddUp(got) ==
    \A p \in {"cur", "prev"} :
        LET c == got[<<"reachOrders", p>>]
            Nested(f) == \A k \in 1..5 : f[Stages[k + 1]] <= f[Stages[k]]
        IN  /\ Nested(c.orders)
            /\ Nested(c.revenue)
            /\ Nested(got[<<"reachUnits", p>>])
            /\ c.fullyReturned <= c.returns /\ c.returns <= c.orders["completed"]
            /\ c.refund <= c.revenue["completed"]

(* A segment by a column that is filtered has the values asked for only.   *)
FiltersHold(ask, got) ==
    \A col \in Range(Columns) :
        Values(ask.filters[col]) # {} =>
            DOMAIN got[<<"segment", col>>] \subseteq Values(ask.filters[col])

(* Statements of the same tables fit each other: segments that are not cut *)
(* make up the whole, and no position is of an order that is not counted.  *)
ReportAddsUp(got) ==
    LET c == got[<<"reachOrders", "cur">>]
        u == got[<<"reachUnits", "cur">>]
    IN  /\ \A k \in Range(Stages) : c.orders[k] = 0 => u[k] = 0
        /\ \A col \in Range(Columns) :
              LET rows == got[<<"segment", col>>]
              IN  Cardinality(DOMAIN rows) < Limits.segment =>
                    /\ SumOf(rows, "orders") = c.orders["created"]
                    /\ SumOf(rows, "canceled") = c.canceled
                    /\ SumOf(rows, "problems") = c.problems
                    /\ SumOf(rows, "paid") <= c.orders["paid"]
                    /\ SumOf(rows, "completed") + c.returns = c.orders["completed"]
=============================================================================
