-------------------------- MODULE AcquisitionReport --------------------------
(***************************************************************************)
(* GET /api/acquisition: visits, the steps of the shop and orders by       *)
(* channel and by day (package acquisition).                               *)
(***************************************************************************)
EXTENDS OrderRows

CONSTANTS EcomSources, ChannelOf      \* see EcomSync

Channels == {"site", "app"}

SumOf(rows, field) == SumFunction([d \in rows |-> d[field]])
Visits(db, ch, r) == {d \in db.days : d.channel = ch /\ Within(d.day, r)}
OrdersIn(db, ch, r) ==
    {o \in Stored(db) : /\ Within(Created(db, o), r)
                        /\ normalizeOrderChannel(Content(db, o).channel) = ch}

trafficTotals(db, r) ==
    [ch \in Channels |->
        [sessions |-> SumOf(Visits(db, ch, r), "sessions"),
         users    |-> SumOf(Visits(db, ch, r), "users"),
         sampled  |-> \E d \in Visits(db, ch, r) : d.sampled]]

orderTotals(db, r) ==
    [ch \in Channels |->
        [orders |-> Cardinality(OrdersIn(db, ch, r)),
         paid   |-> Count(db, OrdersIn(db, ch, r), Paid),
         net    |-> Count(db, OrdersIn(db, ch, r), Net)]]

ecommerceTotals(db, r) ==
    LET Steps(ch) == {d \in db.shop : d.channel = ch /\ Within(d.day, r)}
    IN  [ch \in Channels |->
            [views     |-> SumOf(Steps(ch), "views"),
             carts     |-> SumOf(Steps(ch), "carts"),
             checkouts |-> SumOf(Steps(ch), "checkouts"),
             purchases |-> SumOf(Steps(ch), "purchases"),
             rows      |-> Cardinality(Steps(ch))]]

OneDay(day) == [start |-> day, end |-> day]

dailyTraffic(db, r) ==
    [day \in {d.day : d \in {e \in db.days : Within(e.day, r)}} |->
        [ch \in Channels |->
            [sessions |-> SumOf(Visits(db, ch, OneDay(day)), "sessions"),
             users    |-> SumOf(Visits(db, ch, OneDay(day)), "users")]]]

dailyOrders(db, r) ==
    [day \in {Created(db, o) : o \in UNION {OrdersIn(db, ch, r) : ch \in Channels}} |->
        [ch \in Channels |->
            [orders |-> Cardinality(OrdersIn(db, ch, OneDay(day))),
             paid   |-> Count(db, OrdersIn(db, ch, OneDay(day)), Paid)]]]

-----------------------------------------------------------------------------
(* The bounds of this report are MIN and MAX of created_at, NULL ignored. *)
PeriodStatements(p) ==
    << <<"trafficTotals", p>>, <<"orderTotals", p>>, <<"ecommerceTotals", p>>,
       <<"dailyTraffic", p>>, <<"dailyOrders", p>> >>

Statements(ask, got) ==
    RangeStatements(ask) \o PeriodStatements("cur") \o PeriodStatements("prev")

Execute(db, st, ask, got) ==
    LET r == Ranges(ask, got)[st[2]] IN
    CASE st[1] = "dataBounds"      -> {DataBounds(db)}
      [] st[1] = "trafficTotals"   -> {trafficTotals(db, r)}
      [] st[1] = "orderTotals"     -> {orderTotals(db, r)}
      [] st[1] = "ecommerceTotals" -> {ecommerceTotals(db, r)}
      [] st[1] = "dailyTraffic"    -> {dailyTraffic(db, r)}
      [] st[1] = "dailyOrders"     -> {dailyOrders(db, r)}

(* In hundredths of a percent. *)
conversion(value, base) == IF base <= 0 THEN 0 ELSE Rounded(10000 * value, base)

(* Of the app also who began to check out, when anybody did. *)
makeEcommerceFunnel(channel, t) ==
    LET begun    == channel = "app" /\ t.checkouts > 0
        previous == IF begun THEN t.checkouts ELSE t.carts
        stage(key, count, base) ==
            <<[key |-> key, count |-> count, fromPrevious |-> conversion(count, base)]>>
    IN  <<[key |-> "product_view", count |-> t.views, fromPrevious |-> 10000]>>
        \o stage("add_to_cart", t.carts, t.views)
        \o (IF begun THEN stage("begin_checkout", t.checkouts, t.carts) ELSE <<>>)
        \o stage("created", t.orders, previous) \o stage("paid", t.paid, t.orders)

makeChannel(channel, t) ==
    [sessions  |-> t.sessions, users |-> t.users, orders |-> t.orders,
     paid      |-> t.paid, net |-> t.net, purchases |-> t.purchases,
     ecommerce |-> t.rows > 0,
     orderCR   |-> conversion(t.orders, t.sessions),
     paidCR    |-> conversion(t.paid, t.sessions),
     netCR     |-> conversion(t.net, t.sessions),
     funnel    |-> makeEcommerceFunnel(channel, t)]

(* The total of the channels; who began to check out is not added up. *)
AllChannels(t) ==
    LET Both(field) == t["site"][field] + t["app"][field]
    IN  [field \in {"sessions", "users", "orders", "paid", "net", "views", "carts",
                    "purchases", "rows"} |-> Both(field)]
        ++ [checkouts |-> 0, sampled |-> t["site"].sampled \/ t["app"].sampled]

period(ask, got, p) ==
    LET totals == [ch \in Channels |-> got[<<"trafficTotals", p>>][ch]
                      ++ got[<<"orderTotals", p>>][ch] ++ got[<<"ecommerceTotals", p>>][ch]]
        all == AllChannels(totals)
        r   == Ranges(ask, got)[p]
        visits == got[<<"dailyTraffic", p>>]
        sold   == got[<<"dailyOrders", p>>]
    IN  [channels   |-> [ch \in Channels |-> makeChannel(ch, totals[ch])]
                        ++ [all |-> makeChannel("all", all)],
         daily      |-> [day \in r.start..r.end |-> [ch \in Channels |->
             (IF day \in DOMAIN visits THEN visits[day][ch] ELSE [sessions |-> 0, users |-> 0])
             ++ (IF day \in DOMAIN sold THEN sold[day][ch] ELSE [orders |-> 0, paid |-> 0])]],
         hasTraffic |-> all.sessions > 0,
         sampled    |-> all.sampled]

Report(ask, got) == [cur |-> period(ask, got, "cur"), prev |-> period(ask, got, "prev")]
-----------------------------------------------------------------------------
(* The days make up the period, the channels the total, and every day of   *)
(* the period that a successful run of a source covers is counted.         *)
ReportAddsUp(db, ask, got) ==
    \A p \in {"cur", "prev"} :
        LET r == Ranges(ask, got)[p]
            report == period(ask, got, p)
            OfDays(ch, field) ==
                SumFunction([day \in r.start..r.end |-> report.daily[day][ch][field]])
            Covered(s) == {d \in r.start..r.end : \E k \in DOMAIN db.runs :
                               /\ db.runs[k].status = "success" /\ db.runs[k].source = s
                               /\ db.runs[k].from <= d /\ d <= db.runs[k].to}
        IN  /\ \A field \in {"sessions", "users", "orders", "paid"} :
                  /\ \A ch \in Channels : OfDays(ch, field) = report.channels[ch][field]
                  /\ OfDays("site", field) + OfDays("app", field) = report.channels.all[field]
            /\ \A s \in Range(EcomSources) :
                  got[<<"ecommerceTotals", p>>][ChannelOf[s]].rows >= Cardinality(Covered(s))
            /\ report.hasTraffic <=> \E day \in r.start..r.end, ch \in Channels :
                                         report.daily[day][ch].sessions > 0
=============================================================================
