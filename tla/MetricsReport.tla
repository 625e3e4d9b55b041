---------------------------- MODULE MetricsReport ----------------------------
(***************************************************************************)
(* GET /api/metrics: the key figures of a period and of the one it is      *)
(* compared with, stage by stage, and the leading channels, products and   *)
(* customers (package metrics).                                            *)
(***************************************************************************)
EXTENDS OrderRows

NotFullyReturned(c) == RedeemedGross(c) /\ ~FullyReturned(c)
PaidTerminal(c) == c.paid /\ Terminal(c)

(* COUNT(DISTINCT customer) counts the empty name too ...                  *)
Customers(db, S) == Cardinality({Content(db, o).customer : o \in S})
Named(c) == c.customer # ""
(* ... and with the filter on named customers it does not.                 *)
NamedCustomers(db, S) == Customers(db, Those(db, S, Named))

(* is_paid = true OR status_stage IN (...) AND customer <> '': the filter  *)
(* binds to the second alternative only, so an order with the flag counts  *)
(* with an empty name.                                                     *)
PaidCustomers(db, S) ==
    Customers(db, Those(db, S, LAMBDA c : c.paid \/ (c.stage \in Advanced /\ Named(c))))

counts(db, r, f) ==
    LET S == Scope(db, r, f)
    IN  [orders         |-> Cardinality(S),
         netOrders      |-> Count(db, S, Net),
         revenue        |-> Revenue(db, S),
         paidOrders     |-> Count(db, S, Paid),
         canceledOrders |-> Count(db, S, Canceled),
         customers      |-> Customers(db, S),
         completed      |-> Count(db, S, Completed),
         terminal       |-> Count(db, S, Terminal),
         inTransit      |-> Count(db, S, InTransit),
         redeemedGross  |-> Count(db, S, RedeemedGross),
         returnedOrders |-> Count(db, S, Returned),
         fullyReturned  |-> Count(db, S, FullyReturned),
         refundAmount   |-> Refunded(db, S)]

netUnits(db, r, f) ==
    LET S == Those(db, Scope(db, r, f), Net)
    IN  [units |-> Units(db, S), itemRevenue |-> LineSum(db, S)]

(* The stages whose amounts, customers and units are sums over a predicate.*)
Conditions(c) ==
    [Created |-> TRUE, Paid |-> PaidReach(c), InTransit |-> InTransit(c),
     Completed |-> Completed(c), RedeemedGross |-> RedeemedGross(c),
     RedeemedNet |-> NotFullyReturned(c), Terminal |-> Terminal(c),
     PaidTerminal |-> PaidTerminal(c)]
StageNames == {"Created", "Paid", "InTransit", "Completed", "RedeemedGross",
               "RedeemedNet", "Terminal", "PaidTerminal"}
InStage(db, S, k) == {o \in S : Conditions(Content(db, o))[k]}

stages(db, r, f) ==
    LET S == Scope(db, r, f)
    IN  [revenue   |-> [k \in StageNames |-> Total(db, InStage(db, S, k), "total")],
         refund    |-> Refunded(db, S),
         orders    |-> [k \in {"Paid", "PaidTerminal"} |-> Cardinality(InStage(db, S, k))],
         customers |-> [k \in StageNames |->
                           IF k = "Paid" THEN PaidCustomers(db, S)
                           ELSE NamedCustomers(db, InStage(db, S, k))],
         returned  |-> NamedCustomers(db, Those(db, S, Returned))]

repeatCustomers(db, r, f) ==
    LET S == Those(db, Scope(db, r, f), Named)
        groups == Groups(db, S, "customer")
    IN  Cardinality({n \in DOMAIN groups : Cardinality(groups[n]) > 1})

canceledCustomers(db, r, f) ==
    NamedCustomers(db, Those(db, Scope(db, r, f), Canceled))

stageUnits(db, r, f) ==
    LET S == Scope(db, r, f) IN [k \in StageNames |-> Units(db, InStage(db, S, k))]

makeStage(orders, revenue, units, customers) ==
    [orders |-> orders, revenue |-> revenue, units |-> units, customers |-> customers]

(* Faulty variant: the net redeemed orders of a stage keep the returned.   *)
StagesKeepReturned(k, s, u) ==
    makeStage(k.redeemedGross, s.revenue["RedeemedGross"],
              u["RedeemedNet"], s.customers["RedeemedNet"])

(* What is left of the redeemed orders after the returns. *)
RedeemedNetStage(k, s, u) ==
    makeStage(k.redeemedGross - k.fullyReturned, s.revenue["RedeemedGross"] - s.refund,
              u["RedeemedNet"], s.customers["RedeemedNet"])

kpi(k, n, s, repeated, lost, u) ==
    LET Stage(name, orders) == makeStage(orders, s.revenue[name], u[name], s.customers[name])
    IN  k ++ n ++
        [repeatCustomers |-> repeated, canceledCustomers |-> lost,
         stages |->
            [Created       |-> Stage("Created", k.orders),
             Paid          |-> Stage("Paid", s.orders["Paid"]),
             InTransit     |-> Stage("InTransit", k.inTransit),
             Completed     |-> Stage("Completed", k.completed),
             RedeemedGross |-> Stage("RedeemedGross", k.redeemedGross),
             Returns       |-> makeStage(k.returnedOrders, s.refund, 0, s.returned),
             RedeemedNet   |-> RedeemedNetStage(k, s, u),
             Terminal      |-> Stage("Terminal", k.terminal),
             PaidTerminal  |-> Stage("PaidTerminal", s.orders["PaidTerminal"])]]

-----------------------------------------------------------------------------
funnelOrder == {"new", "paid", "processing", "shipped", "in_pvz", "completed",
                "closed", "returned", "canceled"}

(* An order in no stage of funnelOrder is in none of the rows. *)
funnel(db, r, f) ==
    LET groups == Groups(db, Scope(db, r, f), "stage")
    IN  [k \in DOMAIN groups \cap funnelOrder |-> Cardinality(groups[k])]

groupOrders(db, column, r, f) ==
    LET groups == Groups(db, Scope(db, r, f), column)
    IN  Top([l \in DOMAIN groups |->
                [orders |-> Cardinality(groups[l]), revenue |-> Revenue(db, groups[l])]],
            Limits.group, MoreOrders)

MoreRevenue(a, b) == a.revenue > b.revenue

groupProducts(db, column, r, f) ==
    LET P == Positions(db, Those(db, Scope(db, r, f), Net))
        LabelOf(p) == Label(Position(db, p)[column])
        Row(l) == LET Q == {p \in P : LabelOf(p) = l}
                  IN  [units   |-> SumFunction([p \in Q |-> Position(db, p).qty]),
                       orders  |-> Cardinality({p[1] : p \in Q}),
                       revenue |-> SumFunction([p \in Q |-> Position(db, p).sum])]
    IN  Top([l \in {LabelOf(p) : p \in P} |-> Row(l)], Limits[column], MoreRevenue)

CustomerRow(db, T) ==
    [orders    |-> Cardinality(T),
     revenue   |-> Revenue(db, T),
     paid      |-> Count(db, T, Paid),
     inTransit |-> Count(db, T, InTransit),
     completed |-> Count(db, T, Completed),
     canceled  |-> Count(db, T, Canceled)]

ByRevenue(a, b) == a.revenue > b.revenue \/ (a.revenue = b.revenue /\ a.orders > b.orders)
ByOrders(a, b)  == a.orders > b.orders \/ (a.orders = b.orders /\ a.revenue > b.revenue)

topCustomersQuery(db, r, f, orderBy) ==
    LET groups == Groups(db, Those(db, Scope(db, r, f), Named), "customer")
        rows   == [n \in DOMAIN groups |-> CustomerRow(db, groups[n])]
    IN  IF orderBy = "revenue" THEN Top(rows, Limits.customers, ByRevenue)
        ELSE Top(rows, Limits.customers \div 2 + 5, ByOrders)

(* The leaders by revenue, filled up to the limit with leaders by orders   *)
(* that are not among them.                                                *)
mergeCustomerRows(primary, extra) ==
    LET free == Limits.customers - Cardinality(DOMAIN primary)
        more == {K \in SUBSET (DOMAIN extra \ DOMAIN primary) :
                    /\ Cardinality(K) = Min({free, Cardinality(DOMAIN extra \ DOMAIN primary)})
                    /\ \A n \in K, m \in (DOMAIN extra \ DOMAIN primary) \ K :
                          ~ByOrders(extra[m], extra[n])}
    IN  primary ++ Restrict(extra, CHOOSE K \in more : TRUE)

-----------------------------------------------------------------------------
Columns  == <<"channel", "payment", "delivery", "region">>
Products == <<"name", "category", "gender", "brand">>

PeriodStatements(p) ==
    << <<"counts", p>>, <<"netUnits", p>>, <<"stages", p>>, <<"repeatCustomers", p>>,
       <<"canceledCustomers", p>>, <<"stageUnits", p>>, <<"funnel", p>> >>
    \o [k \in 1..4 |-> <<"groupOrders", p, Columns[k]>>]
    \o [k \in 1..4 |-> <<"groupProducts", p, Products[k]>>]
    \o << <<"topCustomers", p, "revenue">>, <<"topCustomers", p, "orders">> >>

Statements(ask, got) ==
    RangeStatements(ask) \o PeriodStatements("cur") \o PeriodStatements("prev")

Execute(db, st, ask, got) ==
    LET r == Ranges(ask, got)[st[2]] f == ask.filters IN
    CASE st[1] = "dataBounds"        -> {DataBounds(db)}
      [] st[1] = "counts"            -> {counts(db, r, f)}
      [] st[1] = "netUnits"          -> {netUnits(db, r, f)}
      [] st[1] = "stages"            -> {stages(db, r, f)}
      [] st[1] = "repeatCustomers"   -> {repeatCustomers(db, r, f)}
      [] st[1] = "canceledCustomers" -> {canceledCustomers(db, r, f)}
      [] st[1] = "stageUnits"        -> {stageUnits(db, r, f)}
      [] st[1] = "funnel"            -> {funnel(db, r, f)}
      [] st[1] = "groupOrders"       -> groupOrders(db, st[3], r, f)
      [] st[1] = "groupProducts"     -> groupProducts(db, st[3], r, f)
      [] st[1] = "topCustomers"      -> topCustomersQuery(db, r, f, st[3])

period(got, p) ==
    [kpi |-> kpi(got[<<"counts", p>>], got[<<"netUnits", p>>], got[<<"stages", p>>],
                 got[<<"repeatCustomers", p>>], got[<<"canceledCustomers", p>>],
                 got[<<"stageUnits", p>>]),
     funnel       |-> got[<<"funnel", p>>],
     by           |-> [c \in Range(Columns) |-> got[<<"groupOrders", p, c>>]],
     products     |-> [c \in Range(Products) |-> got[<<"groupProducts", p, c>>]],
     topCustomers |-> mergeCustomerRows(got[<<"topCustomers", p, "revenue">>],
                                        got[<<"topCustomers", p, "orders">>])]

Report(got) == [cur |-> period(got, "cur"), prev |-> period(got, "prev")]

(* GET /api/bounds, /api/cities, ...: the values a filter may take. *)
geoValues(db, column) ==
    LET groups == Groups(db, Those(db, Stored(db), LAMBDA c : c[column] # ""), column)
    IN  [l \in DOMAIN groups |-> [orders |-> Cardinality(groups[l])]]
-----------------------------------------------------------------------------
SumOf(rows, field) == SumFunction([l \in DOMAIN rows |-> rows[l][field]])
Uncut(rows, limit) == Cardinality(DOMAIN rows) < limit

(* What one statement tells fits together whenever it ran.  The customers  *)
(* of the paid stage may count the empty name as one more.                 *)
StatementsAddUp(got) ==
    \A p \in {"cur", "prev"} :
        LET k == got[<<"counts", p>>]
            s == got[<<"stages", p>>]
            Nested(f) == /\ f["RedeemedNet"] <= f["RedeemedGross"]
                         /\ f["Completed"] <= f["RedeemedGross"]
                         /\ f["RedeemedGross"] <= f["Paid"]
                         /\ f["PaidTerminal"] <= f["Paid"]
                         /\ f["PaidTerminal"] <= f["Terminal"]
        IN  /\ k.netOrders + k.canceledOrders = k.orders
            /\ k.redeemedGross = k.completed + k.returnedOrders
            /\ k.fullyReturned <= k.returnedOrders
            /\ Nested(s.revenue) /\ s.revenue["Paid"] <= s.revenue["Created"]
            /\ Nested(s.customers) /\ s.customers["Paid"] <= s.customers["Created"] + 1
            /\ Nested(got[<<"stageUnits", p>>])
            /\ s.refund <= s.revenue["RedeemedGross"]

(* Statements of the same tables fit each other: parts that are not cut    *)
(* make up the whole, and so does the funnel, but for orders in stage      *)
(* "other", which has no row there.                                        *)
ReportAddsUp(got) ==
    \A p \in {"cur", "prev"} :
        LET k == got[<<"counts", p>>]
            n == got[<<"netUnits", p>>]
            s == got[<<"stages", p>>]
            rows == got[<<"funnel", p>>]
            RowOf(stage) == IF stage \in DOMAIN rows THEN rows[stage] ELSE 0
            best == got[<<"topCustomers", p, "revenue">>]
        IN  /\ SumFunction(rows) <= k.orders
            /\ RowOf("completed") = k.completed
            /\ RowOf("returned") = k.returnedOrders
            /\ RowOf("canceled") = k.canceledOrders
            /\ s.orders["Paid"] >= k.paidOrders
            /\ got[<<"repeatCustomers", p>>] <= s.customers["Created"]
            /\ got[<<"canceledCustomers", p>>] <= s.customers["Created"]
            /\ got[<<"stageUnits", p>>]["Created"] >= n.units
            /\ \A c \in Range(Columns) :
                  LET g == got[<<"groupOrders", p, c>>]
                  IN  Uncut(g, Limits.group) => /\ SumOf(g, "orders") = k.orders
                                                /\ SumOf(g, "revenue") = k.revenue
            /\ \A c \in Range(Products) :
                  LET g == got[<<"groupProducts", p, c>>]
                  IN  Uncut(g, Limits[c]) => /\ SumOf(g, "units") = n.units
                                             /\ SumOf(g, "revenue") = n.itemRevenue
            /\ SumOf(best, "revenue") <= k.revenue
=============================================================================
