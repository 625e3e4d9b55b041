------------------------------ MODULE OrderRows ------------------------------
(***************************************************************************)
(* What the reports read: the rows of orders and order_items a statement   *)
(* selects, the predicates on a row, and the ranges of days a report asks  *)
(* for.  A statement sees the tables as they are when it runs, a record db *)
(* of all of them; the operators below are its WHERE, CASE, SUM, GROUP BY  *)
(* and LIMIT.  Days are numbered, 0 is NULL; all months have DaysPerMonth. *)
(***************************************************************************)
EXTENDS Integers, Sequences, FiniteSets, FiniteSetsExt, Functions

CONSTANTS
    NoRow,            \* no such row in a table
    Limits,           \* the LIMIT of each statement that has one
    Today,            \* the day the server answers on
    DaysPerWeek,      \* a week of the calendar, the first begins on day 1
    DaysPerMonth,     \* a month of the calendar
    MonthsPerYear     \* a year of the calendar

NoDay == 0

(* The columns of f, and of g those that f does not have. *)
f ++ g == [x \in DOMAIN f \cup DOMAIN g |-> IF x \in DOMAIN f THEN f[x] ELSE g[x]]

ASSUME CalendarAssumption ==
    /\ Today \in Nat \ {NoDay}
    /\ DaysPerWeek \in Nat \ {0}
    /\ DaysPerMonth \in Nat \ {0}
    /\ MonthsPerYear \in Nat \ {0}

-----------------------------------------------------------------------------
(* Rows.  An order is known by its number, its columns by the content the  *)
(* import stored; a position is a pair of an order and an item row of it.  *)
Stored(db) == {o \in DOMAIN db.orders : db.orders[o] # NoRow}
Created(db, o) == db.orders[o].created
Content(db, o) == db.orders[o].content

(* splitCSV: a filter without a value does not filter. *)
Values(raw) == raw \ {""}

(* Within a column any of the values, between the columns all of them. *)
GeoCond(c, f) == \A d \in DOMAIN f : Values(f[d]) = {} \/ c[d] \in Values(f[d])

(* created_at >= ? AND created_at <= ?, never true of NULL. *)
Within(day, r) == day # NoDay /\ r.start <= day /\ day <= r.end

Scope(db, r, f) ==
    {o \in Stored(db) : Within(Created(db, o), r) /\ GeoCond(Content(db, o), f)}

Those(db, S, P(_)) == {o \in S : P(Content(db, o))}
Count(db, S, P(_)) == Cardinality(Those(db, S, P))
Total(db, S, column) == SumFunction([o \in S |-> Content(db, o)[column]])

(* order_items JOIN orders *)
Positions(db, S) == UNION {{o} \X DOMAIN db.items[o] : o \in S}
Position(db, p) ==
    LET row == db.items[p[1]][p[2]] IN row.content.items[row.line]
Units(db, S) == SumFunction([p \in Positions(db, S) |-> Position(db, p).qty])
LineSum(db, S) == SumFunction([p \in Positions(db, S) |-> Position(db, p).sum])

(* COALESCE(NULLIF(column,''),'-'), and the groups it makes of a set. *)
Label(value) == IF value = "" THEN "-" ELSE value
Groups(db, S, column) ==
    LET LabelOf(o) == Label(Content(db, o)[column])
    IN  [l \in {LabelOf(o) : o \in S} |-> {o \in S : LabelOf(o) = l}]

(* ORDER BY ... LIMIT n: a group that is kept is not behind one that is    *)
(* cut; between equals the database may keep either.                       *)
Top(rows, n, Before(_, _)) ==
    {[l \in kept |-> rows[l]] : kept \in
        {K \in SUBSET DOMAIN rows :
            /\ Cardinality(K) = Min({n, Cardinality(DOMAIN rows)})
            /\ \A l \in K, m \in DOMAIN rows \ K : ~Before(rows[m], rows[l])}}

MoreOrders(a, b) == a.orders > b.orders

-----------------------------------------------------------------------------
(* The stages of an order: package orderstage. *)
Advanced == {"paid", "processing", "shipped", "in_pvz", "completed", "returned"}

PaidReach(c)     == c.paid \/ c.stage \in Advanced
InTransit(c)     == c.stage \in {"shipped", "in_pvz"}
Terminal(c)      == c.stage \in {"completed", "canceled", "closed", "returned"}
Completed(c)     == c.stage = "completed"
RedeemedGross(c) == c.stage \in {"completed", "returned"}
Returned(c)      == c.stage = "returned"
FullyReturned(c) == Returned(c) /\ c.total > 0 /\ c.refund >= c.total

Paid(c)     == c.paid
Canceled(c) == c.canceled
Net(c)      == ~c.canceled

(* SUM(CASE WHEN is_canceled = false THEN total_amount ELSE 0 END) *)
Revenue(db, S) == Total(db, Those(db, S, Net), "total")
Refunded(db, S) == Total(db, Those(db, S, Returned), "refund")

-----------------------------------------------------------------------------
(* Ranges. *)
Length(r) == r.end - r.start + 1

DataBounds(db) ==
    LET days == {Created(db, o) : o \in Stored(db)} \ {NoDay}
    IN  IF days = {} THEN [start |-> NoDay, end |-> NoDay]
        ELSE [start |-> Min(days), end |-> Max(days)]

(* A missing end is the last day of data, a missing start six days before  *)
(* the end but not before the data; without data the report is of today.   *)
ResolveRange(bounds, start, end) ==
    LET e == IF end = NoDay THEN bounds.end ELSE end
    IN  IF start # NoDay /\ end # NoDay THEN [start |-> start, end |-> end]
        ELSE IF bounds.end = NoDay THEN [start |-> Today, end |-> Today]
        ELSE [start |-> IF start = NoDay THEN Max({e - 6, bounds.start}) ELSE start,
              end |-> e]

Ordered(r) == [start |-> Min({r.start, r.end}), end |-> Max({r.start, r.end})]

(* The days to compare with: as asked, else as many just before. *)
ResolvePrevRange(r, start, end) ==
    IF start = NoDay \/ end = NoDay
    THEN [start |-> r.start - Length(r), end |-> r.start - 1]
    ELSE Ordered([start |-> start, end |-> end])

(* Without both days in the request the bounds of the data are read first. *)
RangeStatements(ask) ==
    IF ask.start # NoDay /\ ask.end # NoDay THEN <<>> ELSE << <<"dataBounds">> >>

Ranges(ask, got) ==
    LET bounds == IF <<"dataBounds">> \in DOMAIN got THEN got[<<"dataBounds">>]
                  ELSE [start |-> NoDay, end |-> NoDay]
        cur == Ordered(ResolveRange(bounds, ask.start, ask.end))
    IN  [cur |-> cur, prev |-> ResolvePrevRange(cur, ask.cmpStart, ask.cmpEnd)]

(* int(x + 0.5) of x = a / b, a division that truncates, and none by zero. *)
Rounded(a, b) == (2 * a + b) \div (2 * b)
Over(a, b) == IF b > 0 THEN a \div b ELSE 0

(* The channel of an order in a report by channel, "" for any other.       *)
normalizeOrderChannel(raw) ==
    CASE raw \in {"site", "web"}        -> "site"
      [] raw \in {"app", "application"} -> "app"
      [] OTHER                          -> ""

-----------------------------------------------------------------------------
(* The calendar: months are numbered through the years. *)
MonthOf(day) == (day - 1) \div DaysPerMonth
MonthNumber(year, month) == (year - 1) * MonthsPerYear + month - 1
MonthRange(year, month) ==
    LET before == MonthNumber(year, month) * DaysPerMonth
    IN  [start |-> before + 1, end |-> before + DaysPerMonth]
=============================================================================
