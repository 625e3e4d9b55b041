------------------------------ MODULE GoalReport ------------------------------
(***************************************************************************)
(* GET /api/goal: the plan of a year, what a month sold and what it was    *)
(* visited, the thirty days before it, and how the traffic syncs stand     *)
(* (package goal).                                                         *)
(***************************************************************************)
EXTENDS OrderRows

CONSTANTS Sources,       \* the traffic sources the server is configured with
          HistoryDays    \* 30 in the code

Channels == {"site", "app"}

(* The plan table: targets by year, month and channel. *)
planOf(db, year) == RestrictDomain(db.plan, LAMBDA k : k[1] = year)

Aggregate(db, S) ==
    [net      |-> Count(db, S, Net),
     revenue  |-> Revenue(db, S),
     redeemed |-> Total(db, Those(db, S, RedeemedGross), "total"),
     refund   |-> Refunded(db, S)]

(* "all" also holds the orders of channels that are neither site nor app. *)
orders(db, r) ==
    LET S == {o \in Stored(db) : Within(Created(db, o), r)}
        Of(ch) == {o \in S : normalizeOrderChannel(Content(db, o).channel) = ch}
    IN  [all |-> Aggregate(db, S), site |-> Aggregate(db, Of("site")),
         app |-> Aggregate(db, Of("app"))]

sessions(db, r) ==
    [ch \in Channels |-> SumFunction([d \in {d \in db.days : d.channel = ch /\ Within(d.day, r)} |->
                                d.sessions])]

(* The row with the greatest id per source, ids rising. *)
latestRuns(db) ==
    [s \in {db.runs[k].source : k \in DOMAIN db.runs} |->
        db.runs[Max({k \in DOMAIN db.runs : db.runs[k].source = s})]]

latestDataDays(db) ==
    [s \in {d.source : d \in db.days} |->
        Max({d.day : d \in {e \in db.days : e.source = s}})]

-----------------------------------------------------------------------------
NoRange == [start |-> NoDay, end |-> NoDay]

(* The last HistoryDays before the month that have data. *)
historyRange(month, bounds) ==
    LET end == Min({month.start - 1, bounds.end})
    IN  IF bounds.end = NoDay \/ end < bounds.start THEN NoRange
        ELSE [start |-> Max({end - HistoryDays + 1, bounds.start}), end |-> end]

GoalRange(ask, got, p) ==
    IF p = "current" THEN MonthRange(ask.year, ask.month)
    ELSE historyRange(MonthRange(ask.year, ask.month), got[<<"bounds">>])

HasHistory(ask, got) ==
    <<"bounds">> \in DOMAIN got /\ GoalRange(ask, got, "history") # NoRange

Statements(ask, got) ==
    << <<"bounds">>, <<"plan">>, <<"orders", "current">>, <<"sessions", "current">> >>
    \o (IF HasHistory(ask, got)
        THEN << <<"orders", "history">>, <<"sessions", "history">> >> ELSE <<>>)
    \o << <<"latestRuns">>, <<"latestDataDays">> >>

Execute(db, st, ask, got) ==
    CASE st[1] = "bounds"         -> {DataBounds(db)}
      [] st[1] = "plan"           -> {planOf(db, ask.year)}
      [] st[1] = "orders"         -> {orders(db, GoalRange(ask, got, st[2]))}
      [] st[1] = "sessions"       -> {sessions(db, GoalRange(ask, got, st[2]))}
      [] st[1] = "latestRuns"     -> {latestRuns(db)}
      [] st[1] = "latestDataDays" -> {latestDataDays(db)}

perDay(target, days) == IF days <= 0 THEN 0 ELSE Rounded(target, days)

(* Every month of the year, zero where the table has no row. *)
buildPlan(year, rows) ==
    LET Target(m, ch) == IF <<year, m, ch>> \in DOMAIN rows THEN rows[<<year, m, ch>>] ELSE 0
    IN  [m \in 1..MonthsPerYear |->
            [targets |-> [ch \in Channels \cup {"all"} |-> Target(m, ch)],
             perDay  |-> [ch \in Channels \cup {"all"} |-> perDay(Target(m, ch), DaysPerMonth)]]]

(* The conversion rate in hundredths of a percent. *)
makeChannel(aggregate, conversionOrders, visits) ==
    [revenue    |-> aggregate.revenue,
     netRevenue |-> aggregate.redeemed - aggregate.refund,
     sessions   |-> visits,
     aov        |-> Over(aggregate.revenue, aggregate.net),
     netCR      |-> IF visits > 0 THEN Rounded(10000 * conversionOrders, visits) ELSE 0]

(* Only orders of the two channels convert, whatever "all" sold. *)
period(sold, visits) ==
    [all  |-> makeChannel(sold.all, sold.site.net + sold.app.net,
                          visits["site"] + visits["app"]),
     site |-> makeChannel(sold.site, sold.site.net, visits["site"]),
     app  |-> makeChannel(sold.app, sold.app.net, visits["app"])]

(* One entry per configured source, also for one that never ran. *)
analyticsStatus(runs, days) ==
    [s \in Sources |->
        [status      |-> IF s \in DOMAIN runs THEN runs[s].status ELSE "never",
         lastDataDay |-> IF s \in DOMAIN days THEN days[s] ELSE NoDay]]

Report(ask, got) ==
    [plan    |-> buildPlan(ask.year, got[<<"plan">>]),
     bounds  |-> got[<<"bounds">>],
     current |-> period(got[<<"orders", "current">>], got[<<"sessions", "current">>]),
     history |-> IF HasHistory(ask, got)
                 THEN period(got[<<"orders", "history">>], got[<<"sessions", "history">>])
                 ELSE NoRange,
     status  |-> analyticsStatus(got[<<"latestRuns">>], got[<<"latestDataDays">>])]
-----------------------------------------------------------------------------
(* The channels are part of the whole, and the history ends before the     *)
(* month (goal/service.go).                                                *)
StatementsAddUp(ask, got) ==
    LET report == Report(ask, got)
        past   == GoalRange(ask, got, "history")
        Whole(p) == /\ p.site.revenue + p.app.revenue <= p.all.revenue
                    /\ p.site.netRevenue + p.app.netRevenue <= p.all.netRevenue
                    /\ p.site.sessions + p.app.sessions = p.all.sessions
    IN  /\ Whole(report.current)
        /\ HasHistory(ask, got) =>
              /\ Whole(report.history)
              /\ past.end < MonthRange(ask.year, ask.month).start
              /\ Length(past) \in 1..HistoryDays
=============================================================================
