------------------------------- MODULE Targets -------------------------------
(***************************************************************************)
(* Sales targets and traffic by month (packages plan and traffic): the     *)
(* tables sales_plan and traffic, keyed by what their ON CONFLICT names,   *)
(* and the reports of a year.                                              *)
(***************************************************************************)
EXTENDS OrderRows

CONSTANT Years      \* 2000..2100 in the code

Months == 1..MonthsPerYear
PlanChannels    == {"all", "site", "app"}
TrafficChannels == {"site", "app"}

(* An automatic source goes before what was entered by hand. *)
sourcePriority == [manual |-> 0, metrika |-> 1, appmetrica |-> 1]

daysInMonth(year, month) == DaysPerMonth

-----------------------------------------------------------------------------
(* plan *)
validatePlanItem(it) ==
    it.month \in Months /\ it.channel \in PlanChannels /\ it.target >= 0

loadPlanYear(plan, year) == RestrictDomain(plan, LAMBDA k : k[1] = year)

(* All items in one transaction; INSERT ... ON CONFLICT DO UPDATE. *)
upsertPlan(plan, year, its) ==
    [k \in {<<year, it.month, it.channel>> : it \in its} |->
        (CHOOSE it \in its : k = <<year, it.month, it.channel>>).target] ++ plan

planPerDay(target, days) == IF days <= 0 THEN 0 ELSE Rounded(target, days)

buildPlanReport(year, rows) ==
    LET vals(m, ch) == IF <<year, m, ch>> \in DOMAIN rows THEN rows[<<year, m, ch>>] ELSE 0
    IN  [m \in Months |->
            [targets |-> [ch \in PlanChannels |-> vals(m, ch)],
             perDay  |-> [ch \in PlanChannels |->
                             planPerDay(vals(m, ch), daysInMonth(year, m))]]]

(* Save refuses the whole request for one bad item or year, before it      *)
(* writes anything.                                                        *)
PlanSavable(year, its) == year \in Years /\ \A it \in its : validatePlanItem(it)

-----------------------------------------------------------------------------
(* traffic: rows of [visits, updated] by year, month, channel and source.  *)
validateItem(it) ==
    /\ it.month \in Months
    /\ it.channel \in TrafficChannels
    /\ it.source \in DOMAIN sourcePriority \cup {""}
    /\ it.visits >= 0

TrafficSavable(year, its) == year \in Years /\ \A it \in its : validateItem(it)

upsert(manual, year, its, now) ==
    LET Source(it) == IF it.source = "" THEN "manual" ELSE it.source
        Key(it)    == <<year, it.month, it.channel, Source(it)>>
    IN  [k \in {Key(it) : it \in its} |->
            [visits |-> (CHOOSE it \in its : Key(it) = k).visits, updated |-> now]] ++ manual

loadYear(manual, year) ==
    {[month |-> k[2], channel |-> k[3], source |-> k[4],
      visits |-> manual[k].visits, updated |-> manual[k].updated] :
        k \in {k \in DOMAIN manual : k[1] = year}}

(* The days of the year summed by month, channel and source.  A month with *)
(* a day of zero visits has a row as well.                                 *)
loadDailyYear(days, year) ==
    LET Of(m) == {d \in days : Within(d.day, MonthRange(year, m))}
        Row(m, key) ==
            LET mine == {d \in Of(m) : <<d.channel, d.source>> = key}
            IN  [month |-> m, channel |-> key[1], source |-> key[2],
                 visits  |-> SumFunction([d \in mine |-> d.sessions]),
                 updated |-> Max({d.synced : d \in mine})]
    IN  UNION {{Row(m, key) : key \in {<<d.channel, d.source>> : d \in Of(m)}} : m \in Months}

(* Faulty variant: whichever was written last. *)
betterByTime(a, b) == a.updated > b.updated

better(a, b) ==
    IF sourcePriority[a.source] # sourcePriority[b.source]
    THEN sourcePriority[a.source] > sourcePriority[b.source]
    ELSE a.updated > b.updated

NoTraffic == [visits |-> 0, source |-> ""]

(* The reports of the year: the row kept is one no other is better than,   *)
(* which of several depends on the order of a Go map.                      *)
buildTrafficReports(year, rows) ==
    LET Best(m, ch) ==
            LET of == {rw \in rows : rw.month = m /\ rw.channel = ch}
                best == {rw \in of : \A other \in of : ~better(other, rw)}
            IN  IF of = {} THEN {NoTraffic}
                ELSE {[visits |-> rw.visits, source |-> rw.source] : rw \in best}
        values == UNION {Best(k[1], k[2]) : k \in Months \X TrafficChannels}
    IN  {shown \in [Months \X TrafficChannels -> values] :
            \A k \in Months \X TrafficChannels : shown[k] \in Best(k[1], k[2])}

PlanStatements(ask, got) == << <<"loadPlanYear">> >>

(* Get reads what was entered by hand and then what was synced. *)
TrafficStatements(ask, got) == << <<"loadYear">>, <<"loadDailyYear">> >>

Execute(db, st, ask, got) ==
    CASE st[1] = "loadPlanYear"  -> {loadPlanYear(db.plan, ask.year)}
      [] st[1] = "loadYear"      -> {loadYear(db.manual, ask.year)}
      [] st[1] = "loadDailyYear" -> {loadDailyYear(db.days, ask.year)}

TrafficReports(ask, got) ==
    buildTrafficReports(ask.year, got[<<"loadYear">>] \cup got[<<"loadDailyYear">>])
=============================================================================
