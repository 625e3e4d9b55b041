------------------------------ MODULE Dashboard ------------------------------
(***************************************************************************)
(* The server as its users meet it: it migrates its database, imports      *)
(* exports, syncs traffic and e-commerce steps, stores targets, and        *)
(* answers reports.  A report runs its statements one after the other,     *)
(* each on the tables of its moment, so what is written between two of     *)
(* them is seen by the later ones only.  The server may stop at any point. *)
(***************************************************************************)
EXTENDS Reports

CONSTANTS
    Orders, NoOrder, Imports, MinCreated,             \* see OrderSnapshots
    Codes, Genders, ShortWords, DateLayouts, Longer,  \* see Ingestion
    Years, Reported, Revision, Lookback, Backfill, MaxRuns,
    Totals, MaxLoads, MaxSaves,                       \* see GoalPage
    LegacyImport,   \* the import id of the rows the server may find
    Documents,      \* the exports that are uploaded, by name
    Grids,          \* the orders a reader of each sees in it
    Legacies,       \* the databases the server may find, see Init
    Batches,        \* what a traffic sync stores: a source, days, their visits
    PlanEdits, TrafficEdits,    \* the items of PUT /api/plan and /api/traffic
    Asks,           \* the requests for a report
    MaxClock,       \* bound of the writes that are stamped
    MaxRestarts     \* bound of the restarts

(* A sync stores what one of the counters reports, a request says what     *)
(* report it wants and of when, and what an earlier version stored it had  *)
(* from an export as well.                                                 *)
ASSUME DashboardAssumption ==
    /\ \A b \in Batches : b.source \in {"metrika", "appmetrica"}
    /\ \A a \in Asks : {"report", "year", "month"} \subseteq DOMAIN a
    /\ Legacies \subseteq {"none"} \cup DOMAIN Documents

(* The channels of what is synced are the two of the shop, what counts     *)
(* visits is not what counts the steps in the shop, and days are counted   *)
(* from before the first a sync reaches back to.                           *)
ASSUME SyncAssumption ==
    /\ \A b \in Batches :
          /\ b.channel \in {"site", "app"} /\ b.from \in Nat \ {NoDay} /\ b.to \in Nat
          /\ \A d \in DOMAIN b.visits :
                b.visits[d] \in [sessions: Nat, users: Nat, sampled: BOOLEAN]
    /\ EcomSources \in Seq(Range(EcomSources))
    /\ \A s \in Range(EcomSources) :
          ChannelOf[s] \in {"site", "app"} /\ s \notin {"metrika", "appmetrica"}
    /\ {Lookback, Backfill} \subseteq Nat /\ Lookback < Today /\ Backfill < Today
    /\ MaxRestarts \in Nat

(* A request names days and has the filters there are, and years are       *)
(* numbers.                                                                *)
NoFilters == [city |-> {}, region |-> {}, channel |-> {}, payment |-> {},
              delivery |-> {}, coupon |-> {}]

PeriodReports == {"funnel", "metrics", "logistics", "dynamics", "acquisition", "customers"}

ASSUME ReportAssumption ==
    /\ IsFiniteSet(Orders) /\ Years \subseteq Nat
    /\ \A a \in Asks :
          /\ a.report \in PeriodReports \cup {"goal", "plan", "traffic", "values", "page"}
          /\ a.report \in PeriodReports =>
                /\ {"start", "end", "cmpStart", "cmpEnd", "filters"} \subseteq DOMAIN a
                /\ {a.start, a.end, a.cmpStart, a.cmpEnd} \subseteq Int
                /\ DOMAIN a.filters = DOMAIN NoFilters

VARIABLES
    orders, items, rawImport,    \* the tables of the import
    columns,                     \* the columns later versions added
    boot,                        \* the next statement of the migration
    restarts,
    days,                        \* analytics_traffic_daily
    shop, runs, revisions, ecom, \* see EcomSync
    manual,                      \* traffic
    clock,
    plan, page, save, lost, since,    \* see GoalPage
    ask,                         \* the request that is made, again and again
    request                      \* the request under way

tables    == <<orders, items, rawImport>>
ecomVars  == <<shop, runs, revisions, ecom>>
pageVars  == <<plan, page, save, lost, since>>
bootVars  == <<columns, boot, restarts>>
vars == <<tables, bootVars, days, ecomVars, manual, clock, pageVars, ask, request>>

Reader    == INSTANCE Ingestion
Migrating == INSTANCE Migration
Target    == INSTANCE Targets
Ecom      == INSTANCE EcomSync
Page      == INSTANCE GoalPage

(* What the reader makes of a document, and its orders.                    *)
Parsed == [d \in DOMAIN Documents |-> Reader!Stream(Documents[d])]
Mapped == [d \in DOMAIN Documents |->
    [k \in DOMAIN Parsed[d].records |->
        Reader!MapOrder(Parsed[d].records[k], Longer, NoOrder)]]

(* What the reader finds is written as Bitrix writes it: a number in       *)
(* digits, a date as a day, and in words whether all was paid back.        *)
Legible(rec) ==
    LET Cell(h) == Reader!get(rec, h, Longer)
        Numbers == Seq(0..Reader!Gap)
    IN  /\ {Cell("total"), Cell("deliveryCost")} \subseteq Numbers
        /\ Cell("payments") \in Seq(Numbers) /\ Cell("prices") \in Seq(Numbers)
        /\ Cell("positions") \in Seq([name: Seq(STRING), qty: Numbers])
        /\ {Reader!Time(Cell("created")), Reader!Time(Cell("updated"))} \subseteq Nat
        /\ Reader!Words(Cell("status")) \in Migrating!FullReturn =>
               "vozvrat" \in Range(Cell("status")) /\ "chastichnyy" \notin Range(Cell("status"))

ASSUME ExportAssumption ==
    \A d \in DOMAIN Documents :
        LET records == Parsed[d].records
        IN  records \in Seq(Range(records)) /\ \A rec \in Range(records) : Legible(rec)

(* ImportDocument names the files, so Store needs no set of them. *)
Store == INSTANCE OrderStore
    WITH orders <- orders, items <- items, rawImport <- rawImport, Files <- {}, Contents <- {}

db == [orders |-> orders, items |-> items, days |-> days, shop |-> shop, runs |-> runs,
       plan |-> plan, manual |-> manual]

-----------------------------------------------------------------------------
(* Requests. *)
Closed == [open |-> FALSE, got |-> <<>>, torn |-> FALSE]
Opened == [Closed EXCEPT !.open = TRUE]

(* The tables a request reads.  What is written to the others only does   *)
(* not change its answer and is left out while it is asked.                *)
Reads ==
    [r \in {"funnel", "metrics", "logistics", "dynamics", "customers", "values"} |-> {"orders"}]
    ++ [r \in {"goal", "page"} |-> {"orders", "days", "plan", "runs"}]
    ++ [acquisition |-> {"orders", "days", "shop"},
        plan        |-> {"plan"},
        traffic     |-> {"days", "manual"}]

Reading(written) == written \cap Reads[ask.report] # {}

Written(written) ==
    request' = [request EXCEPT !.torn = @ \/ (Reading(written) /\ DOMAIN request.got # {})]

(* A request without a year or a month is about the present one. *)
parseYearQuery(raw)  == IF raw = 0 THEN MonthOf(Today) \div MonthsPerYear + 1 ELSE raw
parseMonthQuery(raw) == IF raw = 0 THEN (MonthOf(Today) % MonthsPerYear) + 1 ELSE raw

Asked ==
    IF ask.report = "page" THEN [ask EXCEPT !.report = "goal", !.year = page.year, !.month = page.month]
    ELSE [ask EXCEPT !.year = parseYearQuery(@), !.month = parseMonthQuery(@)]

Valid(a) ==
    /\ a.report \in {"goal", "plan", "traffic"} => a.year \in Years
    /\ a.report = "goal" => a.month \in Target!Months
    /\ a.report = "dynamics" => a.group \in Logistics!groupColumn
    /\ a.report = "customers" => Customers!parseGranularity(a.granularity)

(* /api/bounds, /api/cities, /api/regions, ...: one statement each. *)
ValueStatements(a) == << <<"values", a.column>> >>
Value(t, st) == IF st[2] = "bounds" THEN DataBounds(t) ELSE Metrics!geoValues(t, st[2])

Statements ==
    LET a == Asked got == request.got IN
    CASE a.report = "funnel"      -> Funnel!Statements(a, got)
      [] a.report = "metrics"     -> Metrics!Statements(a, got)
      [] a.report = "logistics"   -> Logistics!Statements(a, got)
      [] a.report = "dynamics"    -> Logistics!BreakdownStatements(a, got)
      [] a.report = "goal"        -> Goal!Statements(a, got)
      [] a.report = "acquisition" -> Acquired!Statements(a, got)
      [] a.report = "customers"   -> Customers!Statements(a, got)
      [] a.report = "plan"        -> Target!PlanStatements(a, got)
      [] a.report = "traffic"     -> Target!TrafficStatements(a, got)
      [] a.report = "values"      -> ValueStatements(a)

(* What a statement may answer on the tables t, and on those of now. *)
Answers(t, st, a, got) ==
    CASE a.report = "funnel"      -> Funnel!Execute(t, st, a, got)
      [] a.report = "metrics"     -> Metrics!Execute(t, st, a, got)
      [] a.report \in {"logistics", "dynamics"} -> Logistics!Execute(t, st, a, got)
      [] a.report = "goal"        -> Goal!Execute(t, st, a, got)
      [] a.report = "acquisition" -> Acquired!Execute(t, st, a, got)
      [] a.report = "customers"   -> Customers!Execute(t, st, a, got)
      [] a.report \in {"plan", "traffic"} -> Target!Execute(t, st, a, got)
      [] a.report = "values"      -> {Value(t, st)}

Results(st) == Answers(db, st, Asked, request.got)

(* The statements still to run, by their place. *)
Pending ==
    LET sts == Statements IN {k \in DOMAIN sts : sts[k] \notin DOMAIN request.got}
Complete   == request.open /\ Pending = {}
Unanswered == request.open /\ Pending # {}
-----------------------------------------------------------------------------
(* The databases the server starts on: an empty file, or the tables of an  *)
(* earlier version.  It knew no stage "paid", no refunds and fewer columns.*)
OldContent(c) ==
    [c EXCEPT !.stage  = IF c.statusRaw = "oplachen" /\ ~c.canceled THEN "processing" ELSE @,
              !.refund = 0, !.coupon = "", !.problem = FALSE, !.problemDesc = "",
              !.cancelReason = ""]

NoTables == [orders |-> [o \in Orders |-> NoRow], items |-> [o \in Orders |-> <<>>],
             counts |-> Store!ZeroCounts]

OldTables(legacy) ==
    IF legacy = "none" THEN NoTables
    ELSE LET t == Store!ApplyFile(NoTables, Mapped[legacy], LegacyImport)
         IN  [t EXCEPT !.orders = [o \in Orders |-> IF t.orders[o] = NoRow THEN NoRow
                                      ELSE [t.orders[o] EXCEPT !.content = OldContent(@)]]]

Init ==
    /\ \E legacy \in Legacies :
          LET t == OldTables(legacy)
          IN  /\ orders = t.orders /\ items = t.items
              /\ rawImport = [i \in Imports |->
                     IF i = LegacyImport /\ legacy # "none" THEN t.counts ELSE NoRow]
              /\ columns = IF legacy = "none" THEN Migrating!NoTables ELSE {}
    /\ boot = 1 /\ restarts = 0
    /\ days = {} /\ runs = <<>> /\ Ecom!EcomInit
    /\ plan = <<>> /\ manual = <<>> /\ clock = 1
    /\ Page!PageInit
    /\ ask \in Asks
    /\ request = Closed

Steps   == Migrating!MigrationSteps
Serving == boot > Len(Steps)

MigrationStep ==
    /\ ~Serving
    /\ ~Migrating!StepFails(Steps[boot], columns)
    /\ columns' = Migrating!ColumnsAfter(Steps[boot], columns)
    /\ orders' = Migrating!RowsAfter(Steps[boot], orders)
    /\ boot' = boot + 1
    /\ UNCHANGED <<items, rawImport, restarts, days, ecomVars, manual, clock, pageVars, ask, request>>

(* The process ends; what is stored stays, and the migration runs again.   *)
Stop ==
    /\ restarts < MaxRestarts
    /\ restarts' = restarts + 1
    /\ boot' = 1
    /\ ecom' = Ecom!Idle
    /\ request' = Closed
    /\ Page!ServerGone
    /\ UNCHANGED <<tables, columns, days, shop, runs, revisions, manual, clock, ask>>

-----------------------------------------------------------------------------
(* What changes the tables.  OrderMerge and TrafficSync show how an import *)
(* and a sync come to be one step each.                                    *)
ImportDocument(i, d) ==
    /\ Serving /\ Parsed[d].ok /\ Reading({"orders"})
    /\ Store!ImportFile(i, Mapped[d])
    /\ Written({"orders"})
    /\ UNCHANGED <<bootVars, days, ecomVars, manual, clock, pageVars, ask>>

(* A day the source says nothing of is stored with zeros.                  *)
SyncedRows(b) ==
    {[day |-> d, channel |-> b.channel, source |-> b.source, synced |-> clock] ++
     (IF d \in DOMAIN b.visits THEN b.visits[d] ELSE [sessions |-> 0, users |-> 0, sampled |-> FALSE]) :
        d \in b.from..b.to}

SyncTraffic(b) ==
    LET SameKey(x, y) == x.day = y.day /\ x.channel = y.channel /\ x.source = y.source
    IN  /\ Serving /\ clock < MaxClock /\ Len(runs) < MaxRuns
        /\ Reading({"days", "runs"})
        /\ days' = {x \in days : ~\E y \in SyncedRows(b) : SameKey(x, y)} \cup SyncedRows(b)
        /\ runs' = Append(runs, [source |-> b.source, from |-> b.from, to |-> b.to,
                                 status |-> "success"])
        /\ clock' = clock + 1
        /\ Written({"days", "runs"})
        /\ UNCHANGED <<tables, bootVars, shop, revisions, ecom, manual, pageVars, ask>>

EcomStep ==
    /\ Serving /\ Reading({"shop", "runs"})
    /\ Ecom!Sync
    /\ Written((IF shop' = shop THEN {} ELSE {"shop"}) \cup (IF runs' = runs THEN {} ELSE {"runs"}))
    /\ UNCHANGED <<tables, bootVars, days, manual, clock, pageVars, ask>>

PutPlan(edit) ==
    /\ Serving /\ Reading({"plan"})
    /\ Target!PlanSavable(edit.year, edit.its)
    /\ plan' = Target!upsertPlan(plan, edit.year, edit.its)
    /\ Page!PlanWritten("other") /\ Written({"plan"})
    /\ UNCHANGED <<tables, bootVars, days, ecomVars, manual, clock, page, save, lost, ask>>

PutTraffic(edit) ==
    /\ Serving /\ clock < MaxClock /\ Reading({"manual"})
    /\ Target!TrafficSavable(edit.year, edit.its)
    /\ manual' = Target!upsert(manual, edit.year, edit.its, clock)
    /\ clock' = clock + 1
    /\ Written({"manual"})
    /\ UNCHANGED <<tables, bootVars, days, ecomVars, pageVars, ask>>

-----------------------------------------------------------------------------
(* A request for a report. *)
Frame == UNCHANGED <<tables, bootVars, days, ecomVars, manual, clock, ask>>
OnPage == ask.report = "page"

Open ==
    /\ Serving /\ ~OnPage /\ ~request.open
    /\ Valid(Asked)
    /\ request' = Opened
    /\ Frame /\ UNCHANGED pageVars

Query ==
    LET next == Statements[Min(Pending)]
    IN  /\ Unanswered
        /\ \E result \in Results(next) :
              request' = [request EXCEPT !.got = [st \in {next} |-> result] ++ @]
        /\ IF OnPage /\ next = <<"plan">> THEN Page!PlanRead("load") ELSE UNCHANGED since
        /\ Frame /\ UNCHANGED <<plan, page, save, lost>>

Respond ==
    /\ Complete
    /\ request' = Closed
    /\ IF OnPage THEN Page!Loaded(Goal!Report(Asked, request.got)) ELSE UNCHANGED pageVars
    /\ Frame

QueryFails ==
    /\ request.open
    /\ request' = Closed
    /\ IF OnPage THEN Page!LoadFails ELSE UNCHANGED pageVars
    /\ Frame

(* The page: loading asks for the goal, saving writes the plan. *)
PageLoads(year, month) ==
    /\ Serving /\ OnPage
    /\ Page!Load(year, month)
    /\ request' = Opened
    /\ Frame

PageSaves(total) ==
    /\ OnPage
    /\ Page!SaveTarget(total)
    /\ Frame /\ UNCHANGED request

SaveCommits == OnPage /\ Page!SaveCommits /\ Written({"plan"}) /\ Frame
LostCommits == OnPage /\ Page!LostCommits /\ Written({"plan"}) /\ Frame
SaveReads   == Page!SaveReads /\ Frame /\ UNCHANGED request
SaveAnswers == Page!SaveAnswers /\ Frame /\ UNCHANGED request
SaveFails   == Page!SaveFails /\ Frame /\ UNCHANGED request

Next ==
    \/ MigrationStep \/ Stop
    \/ \E i \in Imports \ {LegacyImport}, d \in DOMAIN Documents : ImportDocument(i, d)
    \/ \E b \in Batches : SyncTraffic(b)
    \/ EcomStep
    \/ \E edit \in PlanEdits : PutPlan(edit)
    \/ \E edit \in TrafficEdits : PutTraffic(edit)
    \/ Open \/ Query \/ Respond \/ QueryFails
    \/ \E year \in Years, month \in Target!Months : PageLoads(year, month)
    \/ \E total \in Totals : PageSaves(total)
    \/ SaveCommits \/ SaveReads \/ SaveAnswers \/ SaveFails \/ LostCommits

(* A server that runs gets on with what it began; the database answers.    *)
(* The last two are WF_vars(Query) and WF_vars(Respond), with what enables *)
(* the action written out.                                                 *)
Fairness ==
    /\ WF_vars(MigrationStep)
    /\ WF_vars(SaveCommits) /\ WF_vars(SaveReads) /\ WF_vars(SaveAnswers)
    /\ []<>(~Unanswered) \/ []<><<Query>>_vars
    /\ []<>(~Complete) \/ []<><<Respond>>_vars

Spec == Init /\ [][Next]_vars /\ Fairness
-----------------------------------------------------------------------------
(* Type correctness: what an import and the migration store of an order,   *)
(* no refund above its sum and no line without a piece.                    *)
TypeOK ==
    /\ boot \in 1..Len(Steps) + 1 /\ restarts \in 0..MaxRestarts
    /\ DOMAIN orders = Orders /\ DOMAIN items = Orders
    /\ \A o \in Stored(db) :
          /\ Created(db, o) \in Nat /\ orders[o].updated \in Nat
          /\ Content(db, o).stage \in Metrics!funnelOrder \cup {"other"}
          /\ Content(db, o).total \in Nat
          /\ Content(db, o).refund \in 0..Content(db, o).total
          /\ Len(items[o]) = orders[o].lines
    /\ \A p \in Positions(db, Stored(db)) :
          Position(db, p).qty \in Nat \ {0} /\ Position(db, p).sum \in Nat
    /\ \A d \in days \cup shop : d.day \in Nat \ {NoDay} /\ d.channel \in Goal!Channels
    /\ \A k \in DOMAIN runs : runs[k].status \in {"running", "success", "error"}
    /\ \A k \in DOMAIN plan : k \in Years \X Target!Months \X Target!PlanChannels
    /\ \A k \in DOMAIN manual : k[1] \in Years /\ manual[k].updated < clock
    /\ request.open \in BOOLEAN /\ request.torn \in BOOLEAN
    /\ page.loading => request.open

(* Unless asked otherwise a period is compared with as many days before it.*)
Compared(a, got) ==
    LET r == Ranges(a, got)
    IN  a.cmpStart = NoDay => r.prev.end = r.cur.start - 1 /\ Length(r.prev) = Length(r.cur)

(* A report adds up.  Within the answer of one statement this              *)
(* holds whatever is imported meanwhile; between statements when nothing   *)
(* is (every Report method of the services).                               *)
AnswersAddUp ==
    Complete =>
        LET a == Asked got == request.got whole == ~request.torn IN
        CASE a.report = "funnel" ->
                 /\ Funnel!StatementsAddUp(got) /\ Funnel!FiltersHold(a, got)
                 /\ Funnel!Report(got).redeemedNet >= 0
                 /\ whole => Funnel!ReportAddsUp(got)
          [] a.report = "metrics" ->
                 /\ Metrics!StatementsAddUp(got) /\ Compared(a, got)
                 /\ Metrics!Report(got).cur.kpi.stages.RedeemedNet.revenue >= 0
                 /\ whole => Metrics!ReportAddsUp(got)
          [] a.report = "logistics" ->
                 /\ Logistics!StatementsAddUp(got)
                 /\ whole => Logistics!ReportAddsUp(a, got)
          [] a.report = "dynamics" ->
                 /\ Logistics!SameWeeks(got)
                 /\ whole => Logistics!BreakdownAddsUp(db, a, got)
          [] a.report = "goal"        -> Goal!StatementsAddUp(a, got)
          [] a.report = "acquisition" -> whole => Acquired!ReportAddsUp(db, a, got)
          [] OTHER -> TRUE

(* ADR 0008: the reports share their rules.  Asked of the same month on    *)
(* the same tables the funnel, the key figures, the logistics, the goal    *)
(* and the acquisition tell the same of orders, sums and returns.          *)
AgreeOn(r) ==
    LET k == Metrics!counts(db, r, NoFilters)
        s == Metrics!stages(db, r, NoFilters)
        u == Metrics!stageUnits(db, r, NoFilters)
        c == Funnel!reachOrders(db, r, NoFilters)
        l == Logistics!summary(db, r, Today, NoFilters)
        g == Goal!orders(db, r)
        a == Acquired!orderTotals(db, r)
        net == Metrics!RedeemedNetStage(k, s, u)
    IN  /\ c.orders["created"] = k.orders /\ l.orders = k.orders
        /\ l.revenue = k.revenue /\ g.all.revenue = k.revenue
        /\ c.orders["paid"] = s.orders["Paid"] /\ c.revenue["paid"] = s.revenue["Paid"]
        /\ Funnel!reachUnits(db, r, NoFilters)["paid"] = u["Paid"]
        /\ l.processed = c.orders["processing"] /\ l.shipped = c.orders["shipped"]
        /\ k.redeemedGross = c.orders["completed"]
        /\ net.orders = Funnel!RedeemedNet([st \in {<<"reachOrders", "cur">>} |-> c])
        /\ net.revenue = c.revenue["completed"] - c.refund
        /\ net.revenue = g.all.redeemed - g.all.refund
        /\ \A ch \in Goal!Channels : a[ch].net = g[ch].net

ReportsAgree ==
    (Serving /\ ~request.open /\ "orders" \in Reads[ask.report]) =>
        \A year \in Years, month \in Target!Months : AgreeOn(MonthRange(year, month))

(* A customer is new once: cohorts, retention and the composition of the   *)
(* periods fit (customeranalytics/service.go, buildView).                  *)
CohortsAddUp ==
    (Complete /\ ask.report = "customers") =>
        LET report == Customers!Report(Asked, request.got)
        IN  /\ \A mode \in DOMAIN report : Customers!CohortsFit(report[mode])
            /\ Customers!PaidOrdered(report.gross, report.paid)

(* What a counter reports takes the place of what was entered by hand, in  *)
(* a month it reports any day of, and nothing else does (traffic/types.go).*)
(* Only a row that a client sent under the name of a counter competes with *)
(* it, and only until that counter syncs again (traffic/service.go).       *)
Counted(year, m, ch) == {d \in days : d.channel = ch /\ Within(d.day, MonthRange(year, m))}
Typed(year, m, ch)   == {k \in DOMAIN manual : k[1] = year /\ k[2] = m /\ k[3] = ch}
ByCounter(counted, s) == {d \in counted : d.source = s}

SumsOf(counted) ==
    {[visits |-> SumFunction([d \in ByCounter(counted, s) |-> d.sessions]), source |-> s] :
        s \in {d.source : d \in counted}}

Entered(k) == [visits |-> manual[k].visits, source |-> k[4]]

SyncedAfter(counted, k) ==
    /\ ByCounter(counted, k[4]) # {}
    /\ Max({d.synced : d \in ByCounter(counted, k[4])}) > manual[k].updated

KeptOf(counted, typed, kept) ==
    IF counted = {} THEN kept \in (IF typed = {} THEN {Target!NoTraffic}
                                   ELSE {Entered(k) : k \in typed})
    ELSE \/ kept \in SumsOf(counted)
         \/ \E k \in typed : kept = Entered(k) /\ k[4] # "manual" /\ ~SyncedAfter(counted, k)

CountersFirst(year, m, ch, kept) == KeptOf(Counted(year, m, ch), Typed(year, m, ch), kept)

WholeTraffic == Complete /\ ask.report = "traffic" /\ ~request.torn

TrafficPriority ==
    WholeTraffic =>
        \A shown \in Target!TrafficReports(Asked, request.got) :
            \A m \in Target!Months, ch \in Target!TrafficChannels :
                CountersFirst(Asked.year, m, ch, shown[<<m, ch>>])

(* docs/api.md: what is entered is stored as entered by hand and does not  *)
(* overwrite what the counters report.                                     *)
EnteredOverwritesNothing ==
    WholeTraffic =>
        \A shown \in Target!TrafficReports(Asked, request.got) :
            \A m \in Target!Months, ch \in Target!TrafficChannels :
                LET counted == Counted(Asked.year, m, ch)
                IN  counted # {} => shown[<<m, ch>>] \in SumsOf(counted)

(* See ShowsStored and ShowsSelected in GoalPage (useGoalPlan.ts).         *)
ShownTargetIsStored == Page!ShowsStored
PlanOfSelectedYear  == Page!ShowsSelected

(* Once it serves, the rows of an earlier version are as an import of      *)
(* today would store them: their stage follows from the status, and what   *)
(* came back as a whole was paid back as a whole (migrate.go).             *)
MigratedLikeImported ==
    Serving =>
        \A o \in Stored(db) :
            LET c == Content(db, o)
            IN  /\ c.stage = Reader!StatusStage(c.statusRaw, c.canceled)
                /\ (c.stage = "returned" /\ c.statusRaw \in Migrating!FullReturn) =>
                      c.refund = c.total

(* An import takes every order of the export and nothing else, also when a *)
(* cell holds a table of its own or the file is an HTML table in disguise  *)
(* (ingestion/parser.go, bitrix.go).                                       *)
ExportReadWhole ==
    [][rawImport' # rawImport =>
         \A i \in Imports, d \in DOMAIN Documents : ImportDocument(i, d) =>
             /\ rawImport'[i].rows = Len(Grids[d])
             /\ \A k \in DOMAIN Grids[d] :
                   LET seen == Grids[d][k]
                       row  == orders'[seen.order]
                   IN  /\ row # NoRow
                       /\ row.import = i =>
                             /\ row.content.total = seen.total
                             /\ row.content.city = seen.city
                             /\ row.lines = seen.lines
      ]_vars

(* Whoever asks is answered or told of an error: a request ends, and the   *)
(* page stops showing that it loads or saves (useGoalPlan.ts, handlers.go).*)
LoadingEnds ==
    /\ request.open ~> ~request.open
    /\ page.loading ~> ~page.loading
    /\ page.saving ~> ~page.saving

-----------------------------------------------------------------------------
(* The inductive invariant of the page: what is loaded and what a save     *)
(* answers is the stored plan, until somebody writes it.                   *)
PageForm ==
    /\ DOMAIN page = {"year", "month", "shown", "loading", "saving", "error", "mixed",
                      "loads", "saves"}
    /\ DOMAIN save = {"stage", "year", "its", "plan"}
    /\ DOMAIN since = {"load", "answer", "shown"}
    /\ request = [open |-> request.open, got |-> request.got, torn |-> request.torn]
    /\ {"report", "year", "month"} \subseteq DOMAIN ask
    /\ page.loading \in BOOLEAN /\ page.saving \in BOOLEAN /\ request.open \in BOOLEAN
    /\ \/ page.shown = <<>>
       \/ page.shown = <<Page!Shown>> /\ {"year", "plan"} \subseteq DOMAIN Page!Shown

(* The page asks and saves only when it is there, one load at a time.      *)
PageAsks ==
    /\ OnPage => page.loading = request.open
    /\ ~OnPage => page.shown = <<>> /\ ~page.loading /\ ~page.saving
    /\ page.saving = Page!Saving
    /\ page.loading => page.shown = <<>>
    /\ (page.loading /\ ~page.mixed) => ~page.saving

PlanIsFresh ==
    /\ (page.loading /\ <<"plan">> \in DOMAIN request.got) =>
           /\ since.load = {} => request.got[<<"plan">>] = Page!loadPlanYear(plan, page.year)
           /\ ~page.mixed => "save" \notin since.load
    /\ (Page!Saving /\ ~page.mixed) => save.year = page.year
    /\ save.stage = "read" =>
           /\ since.answer = {} => save.plan = Page!StoredPlan(save.year)
           /\ "save" \notin since.answer

PageInv == PageForm /\ PageAsks /\ PlanIsFresh

(* What a report of the traffic has read and nobody has written since is   *)
(* what the tables hold; they hold rows of sources that have a priority.   *)
TrafficInv ==
    /\ \A d \in days : d.source \in {"metrika", "appmetrica"}
    /\ \A k \in DOMAIN manual : k[4] \in DOMAIN Target!sourcePriority
    /\ (ask.report = "traffic" /\ request.open /\ ~request.torn) =>
           /\ <<"loadYear">> \in DOMAIN request.got =>
                 request.got[<<"loadYear">>] = Target!loadYear(manual, Asked.year)
           /\ <<"loadDailyYear">> \in DOMAIN request.got =>
                 request.got[<<"loadDailyYear">>] = Target!loadDailyYear(days, Asked.year)

(* What the tables hold of an order: an import stores the stage that       *)
(* follows from the status, the whole sum as paid back when all came back, *)
(* and positions with a piece at least.                                    *)
AsImported(c) ==
    /\ c.stage = Reader!StatusStage(c.statusRaw, c.canceled)
    /\ c.stage = "returned" /\ c.statusRaw \in Migrating!FullReturn => c.refund = c.total

ContentForm(c) ==
    /\ {"stage", "refund", "total", "deliveryCost", "statusRaw", "canceled", "items"}
          \subseteq DOMAIN c
    /\ c.total \in Nat /\ c.refund \in 0..c.total /\ c.deliveryCost \in Nat

PiecesOf(c, n) ==
    \A k \in 1..n : c.items[k].qty \in Nat \ {0} /\ c.items[k].sum \in Nat

RowForm(row) ==
    /\ DOMAIN row = {"created", "updated", "content", "lines", "import"}
    /\ row.created \in Nat /\ row.updated \in Nat /\ row.lines \in Nat
    /\ ContentForm(row.content)

ItemsForm(its, n) ==
    /\ DOMAIN its = 1..n /\ Len(its) = n
    /\ \A k \in 1..n : its[k].line = k /\ PiecesOf(its[k].content, n)

(* ... or what an earlier version stored and the migration has not reached *)
(* at step b: "paid" is the last but one of its statements, the refunds    *)
(* are the last.                                                           *)
Awaits(c, b) ==
    /\ \/ c.stage = Reader!StatusStage(c.statusRaw, c.canceled)
       \/ /\ b < Len(Steps)
          /\ c.statusRaw = "oplachen" /\ ~c.canceled /\ c.stage = "processing"
    /\ c.stage = "returned" /\ c.statusRaw \in Migrating!FullReturn =>
           c.refund = c.total \/ (b <= Len(Steps) /\ c.refund = 0)

RowsInv ==
    /\ boot \in 1..Len(Steps) + 1
    /\ DOMAIN orders = Orders /\ DOMAIN items = Orders
    /\ \A o \in Orders : orders[o] # NoRow =>
           /\ RowForm(orders[o]) /\ ItemsForm(items[o], orders[o].lines)
           /\ Awaits(orders[o].content, boot)

(* What the syncs and the editors store: a sync of e-commerce steps knows  *)
(* its source and its first day while it works, and what was entered by    *)
(* hand is older than now.                                                 *)
Run == [source: {"metrika", "appmetrica"} \cup Range(EcomSources), from: Int, to: Int,
        status: {"running", "success", "error"}]

EcomForm ==
    /\ DOMAIN ecom = {"pc", "todo", "from", "run", "failed"}
    /\ ecom.todo \in Seq(Range(EcomSources))
    /\ ecom.pc \in {"fetch", "revision", "finish"} => ecom.todo # <<>> /\ ecom.from \in Nat \ {NoDay}

SyncInv ==
    /\ restarts \in 0..MaxRestarts /\ clock \in Nat
    /\ \A d \in days \cup shop : d.day \in Nat \ {NoDay} /\ d.channel \in Goal!Channels
    /\ runs \in Seq(Run) /\ EcomForm
    /\ \A k \in DOMAIN plan : k \in Years \X Target!Months \X Target!PlanChannels
    /\ \A k \in DOMAIN manual : k[1] \in Years /\ manual[k].updated \in 0..clock - 1
    /\ request.torn \in BOOLEAN

(* Every day of a run that succeeded has a row, and so has every day of    *)
(* the run that is about to: the sync stores before it finishes.           *)
InShop(rows, s, from, to) ==
    \A d \in from..to : \E row \in rows :
        row.day = d /\ row.channel = ChannelOf[s] /\ row.source = s

ShopInv ==
    /\ \A k \in DOMAIN runs :
          (runs[k].status = "success" /\ runs[k].source \in Range(EcomSources)) =>
              InShop(shop, runs[k].source, runs[k].from, runs[k].to)
    /\ ecom.pc \in {"fetch", "revision", "finish"} =>
          /\ ecom.run \in DOMAIN runs
          /\ runs[ecom.run].source = Ecom!Source
          /\ runs[ecom.run].from = ecom.from /\ runs[ecom.run].to = Ecom!Yesterday
          /\ (ecom.pc \in {"revision", "finish"} /\ ~ecom.failed) =>
                 InShop(shop, Ecom!Source, ecom.from, Ecom!Yesterday)
    /\ ecom.pc \in {"idle", "start", "fetch"} => ~ecom.failed

(* What the counters reported. *)
DaysInv ==
    /\ IsFiniteSet(days) /\ IsFiniteSet(shop)
    /\ \A d \in days : {"day", "channel", "sessions", "users"} \subseteq DOMAIN d
                       /\ d.sessions \in Nat /\ d.users \in Nat

(* A report is answered from the tables the server serves.  The statements *)
(* that others depend on run before them, so what a statement was asked    *)
(* does not change, and as long as nothing is written between two of them  *)
(* every answer is what the tables hold.                                   *)
BasesOf(a) ==
    CASE a.report \in {"goal", "customers"}          -> {<<"bounds">>}
      [] a.report \in {"plan", "traffic", "values"}  -> {}
      [] a.report = "logistics" -> Range(RangeStatements(a)) \cup {<<"dataAsOf">>}
      [] OTHER                  -> Range(RangeStatements(a))

RequestInv ==
    /\ request.open => Serving /\ Valid(Asked)
    /\ ~request.open => request.got = <<>>
    /\ DOMAIN request.got \subseteq BasesOf(Asked) \/ BasesOf(Asked) \subseteq DOMAIN request.got
    /\ ~request.torn => \A st \in DOMAIN request.got : request.got[st] \in Results(st)
=============================================================================
