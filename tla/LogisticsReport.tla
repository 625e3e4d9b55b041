--------------------------- MODULE LogisticsReport ---------------------------
(***************************************************************************)
(* GET /api/logistics and /api/logistics/dynamics: delivery, the orders    *)
(* that wait for shipment, the pilot cities against the others, and how    *)
(* the orders went week by week (package logistics).                       *)
(***************************************************************************)
EXTENDS OrderRows

CONSTANT PilotCities      \* DELIVERY_PILOT_CITIES

reachedProcessing(c) == c.stage \in {"processing", "shipped", "in_pvz", "completed", "returned"}
reachedShipment(c)   == c.stage \in {"shipped", "in_pvz", "completed", "returned"}
pendingShipment(c)   == c.stage = "processing"

(* MAX(created_at), MAX(updated_at): the last thing the data tells of. *)
dataAsOf(db) ==
    Max({NoDay} \cup {Created(db, o) : o \in Stored(db)}
                \cup {db.orders[o].updated : o \in Stored(db)})

(* An order that was imported after asOf was read is of the same day. *)
ageDays(db, o, asOf) == Max({0, asOf - Created(db, o)})

finalizeOperational(row) ==
    [row EXCEPT !.pending = row.processed - row.shipped,
                !.avgAge  = IF row.pending = 0 THEN 0 ELSE @ \div row.pending]

(* The columns of summary, byService and byCity over a set of orders. *)
Delivery(db, S) ==
    [orders   |-> Cardinality(S),
     revenue  |-> Revenue(db, S),
     paid     |-> Count(db, S, Paid),
     delivery |-> Total(db, S, "deliveryCost"),
     free     |-> Count(db, S, LAMBDA c : c.deliveryCost = 0)]

Operational(db, S, asOf) ==
    LET waiting == Those(db, S, pendingShipment)
        Aged(low, high) ==
            Cardinality({o \in waiting : ageDays(db, o, asOf) \in low..high})
    IN  Delivery(db, S) ++
        [processed |-> Count(db, S, reachedProcessing),
         shipped   |-> Count(db, S, reachedShipment),
         pending   |-> Cardinality(waiting),
         pending01 |-> Aged(0, 1),
         pending23 |-> Aged(2, 3),
         pending4  |-> Cardinality({o \in waiting : ageDays(db, o, asOf) >= 4}),
         avgAge    |-> SumFunction([o \in waiting |-> ageDays(db, o, asOf)])]

summary(db, r, asOf, f) == finalizeOperational(Operational(db, Scope(db, r, f), asOf))

(* The filter on the city is dropped, an order without a city is in neither. *)
cohortSummary(db, r, asOf, f, isPilot) ==
    LET S == {o \in Scope(db, r, [f EXCEPT !.city = {}]) :
                 /\ Content(db, o).city # ""
                 /\ Content(db, o).city \in PilotCities <=> isPilot}
    IN  finalizeOperational(Operational(db, S, asOf))

byService(db, r, asOf, f) ==
    LET groups == Groups(db, Scope(db, r, f), "delivery")
        rows   == [l \in DOMAIN groups |-> Operational(db, groups[l], asOf)]
        Before(a, b) ==
            \/ a.pending > b.pending
            \/ a.pending = b.pending /\ a.processed > b.processed
            \/ a.pending = b.pending /\ a.processed = b.processed /\ a.orders > b.orders
    IN  {[l \in DOMAIN kept |-> finalizeOperational(kept[l])] :
            kept \in Top(RestrictDomain(rows, LAMBDA l : rows[l].processed > 0),
                         Limits.services, Before)}

byCity(db, r, f) ==
    LET groups == Groups(db, Scope(db, r, f), "city")
    IN  Top([l \in DOMAIN groups |->
                [isPilot |-> l \in PilotCities] ++ Delivery(db, groups[l])],
            Limits.cities, MoreOrders)

-----------------------------------------------------------------------------
(* Series: points per group and period of the calendar. *)
periodExpr(day, g) ==
    CASE g = "day"   -> day
      [] g = "month" -> MonthOf(day)
      [] OTHER       -> (day - 1) \div DaysPerWeek

GroupOf(db, o, column) == IF column = "" THEN "" ELSE Label(Content(db, o)[column])

Cells(db, S, column, g, Row(_)) ==
    LET Key(o) == <<GroupOf(db, o, column), periodExpr(Created(db, o), g)>>
    IN  [k \in {Key(o) : o \in S} |-> Row({o \in S : Key(o) = k})]

seriesOrders(db, r, f, column, g) ==
    Cells(db, Scope(db, r, f), column, g, LAMBDA T :
        [net |-> Count(db, T, Net)] ++ Delivery(db, T))

seriesItems(db, r, f, column, g) ==
    LET sold == {o \in Those(db, Scope(db, r, f), Net) : DOMAIN db.items[o] # {}}
    IN  Cells(db, sold, column, g, LAMBDA T :
            [units |-> Units(db, T), itemRevenue |-> LineSum(db, T)])

NoItems == [units |-> 0, itemRevenue |-> 0]

(* Points come from the orders; items of no such point are left out.       *)
Points(points, sold) ==
    LET Items(k) == IF k \in DOMAIN sold THEN sold[k] ELSE NoItems
        p(k)     == points[k]
    IN  [k \in DOMAIN points |->
            [aov |-> Over(p(k).revenue, p(k).net), units |-> Items(k).units,
             asp |-> Over(Items(k).itemRevenue, Items(k).units)] ++ p(k)]

ZeroPoint ==
    [orders |-> 0, net |-> 0, paid |-> 0, revenue |-> 0, delivery |-> 0, free |-> 0,
     aov |-> 0, units |-> 0, asp |-> 0]

(* The groups with most orders, between equals in the order of the names   *)
(* (any fixed one here), each with a point for every week that occurs.     *)
seriesBreakdown(points, sold) ==
    LET filled == Points(points, sold)
        weeks  == {k[2] : k \in DOMAIN filled}
        totals == [n \in {k[1] : k \in DOMAIN filled} |->
                      [orders |-> SumFunction([k \in {k \in DOMAIN filled : k[1] = n} |->
                                                   filled[k].orders])]]
        named  == CHOOSE kept \in Top(totals, Limits.breakdown, MoreOrders) : TRUE
    IN  [n \in DOMAIN named |-> [w \in weeks |->
            IF <<n, w>> \in DOMAIN filled THEN filled[<<n, w>>] ELSE ZeroPoint]]

-----------------------------------------------------------------------------
groupColumn == {"city", "region", "delivery", "payment", "channel", "coupon"}

parseGranularity(g) == IF g \in {"day", "month"} THEN g ELSE "week"

(* The pilot cities are compared when there are any. *)
PeriodStatements(p) ==
    << <<"summary", p>>, <<"byService", p>>, <<"byCity", p>>,
       <<"seriesOrders", p>>, <<"seriesItems", p>> >>
    \o (IF PilotCities = {} THEN <<>>
        ELSE << <<"cohort", p, TRUE>>, <<"cohort", p, FALSE>> >>)

Statements(ask, got) ==
    RangeStatements(ask) \o << <<"dataAsOf">> >>
    \o PeriodStatements("cur") \o PeriodStatements("prev")

BreakdownStatements(ask, got) ==
    RangeStatements(ask) \o << <<"seriesOrders", "cur">>, <<"seriesItems", "cur">> >>

(* The day ages are counted to: read first, the end of the period else. *)
asOf(ask, got) ==
    IF got[<<"dataAsOf">>] = NoDay THEN Ranges(ask, got).cur.end ELSE got[<<"dataAsOf">>]

Execute(db, st, ask, got) ==
    LET r == Ranges(ask, got)[st[2]] f == ask.filters g == parseGranularity(ask.granularity) IN
    CASE st[1] = "dataBounds"   -> {DataBounds(db)}
      [] st[1] = "dataAsOf"     -> {dataAsOf(db)}
      [] st[1] = "summary"      -> {summary(db, r, asOf(ask, got), f)}
      [] st[1] = "byService"    -> byService(db, r, asOf(ask, got), f)
      [] st[1] = "byCity"       -> byCity(db, r, f)
      [] st[1] = "seriesOrders" -> {seriesOrders(db, r, f, ask.group, g)}
      [] st[1] = "seriesItems"  -> {seriesItems(db, r, f, ask.group, g)}
      [] st[1] = "cohort"       -> {cohortSummary(db, r, asOf(ask, got), f, st[3])}

period(got, p) ==
    LET cohort(isPilot) == got[<<"cohort", p, isPilot>>]
    IN  [summary   |-> got[<<"summary", p>>],
         byService |-> got[<<"byService", p>>],
         byCity    |-> got[<<"byCity", p>>],
         series    |-> Points(got[<<"seriesOrders", p>>], got[<<"seriesItems", p>>])]
        ++ (IF PilotCities = {} THEN <<>>
            ELSE [pilot |-> cohort(TRUE), control |-> cohort(FALSE)])

Report(got) == [cur |-> period(got, "cur"), prev |-> period(got, "prev")]

BreakdownReport(got) ==
    seriesBreakdown(got[<<"seriesOrders", "cur">>], got[<<"seriesItems", "cur">>])
-----------------------------------------------------------------------------
SumOf(rows, field) == SumFunction([l \in DOMAIN rows |-> rows[l][field]])

(* An order that waits has one age, and a point of the series has orders,  *)
(* whatever was imported between the statements.                           *)
AgesAddUp(row) == row.pending01 + row.pending23 + row.pending4 = row.pending

StatementsAddUp(got) ==
    \A p \in {"cur", "prev"} :
        /\ AgesAddUp(got[<<"summary", p>>])
        /\ \A l \in DOMAIN got[<<"byService", p>>] : AgesAddUp(got[<<"byService", p>>][l])
        /\ PilotCities # {} =>
              \A isPilot \in BOOLEAN : AgesAddUp(got[<<"cohort", p, isPilot>>])
        /\ LET points == Points(got[<<"seriesOrders", p>>], got[<<"seriesItems", p>>])
           IN  \A k \in DOMAIN points : points[k].orders > 0

(* Weeks, cities and services make up the whole, and so do the pilot and   *)
(* the other cities, but for orders without a city.                        *)
ReportAddsUp(ask, got) ==
    \A p \in {"cur", "prev"} :
        LET s == got[<<"summary", p>>]
            weeks == Points(got[<<"seriesOrders", p>>], got[<<"seriesItems", p>>])
            cities == got[<<"byCity", p>>]
            services == got[<<"byService", p>>]
        IN  /\ \A field \in {"orders", "revenue", "paid", "delivery", "free"} :
                  /\ SumOf(weeks, field) = s[field]
                  /\ Cardinality(DOMAIN cities) < Limits.cities => SumOf(cities, field) = s[field]
            /\ \A w \in DOMAIN weeks : weeks[w].net = 0 => weeks[w].units = 0
            /\ Cardinality(DOMAIN services) < Limits.services =>
                  \A field \in {"processed", "shipped", "pending"} :
                      SumOf(services, field) = s[field]
            /\ (PilotCities # {} /\ Values(ask.filters.city) = {}) =>
                  LET pilot == got[<<"cohort", p, TRUE>>]
                      others == got[<<"cohort", p, FALSE>>]
                  IN  /\ pilot.orders + others.orders <= s.orders
                      /\ Cardinality(DOMAIN cities) < Limits.cities /\ "-" \notin DOMAIN cities
                            => pilot.orders + others.orders = s.orders

(* The dynamics: a group has a point for every week, and groups that are   *)
(* not cut make up the whole.                                              *)
SameWeeks(got) ==
    LET report == BreakdownReport(got)
    IN  \A n, m \in DOMAIN report : DOMAIN report[n] = DOMAIN report[m]

BreakdownAddsUp(db, ask, got) ==
    LET report     == BreakdownReport(got)
        OfGroup(n) == SumFunction([w \in DOMAIN report[n] |-> report[n][w].orders])
    IN  /\ Cardinality(DOMAIN report) < Limits.breakdown =>
              SumFunction([n \in DOMAIN report |-> OfGroup(n)]) =
                  Cardinality(Scope(db, Ranges(ask, got).cur, ask.filters))
        /\ \A n \in DOMAIN report : \A w \in DOMAIN report[n] :
              report[n][w].net = 0 => report[n][w].units = 0
=============================================================================
