----------------------------- MODULE MCDashboard -----------------------------
(***************************************************************************)
(* An instance of Dashboard for TLC: a calendar of short months, four      *)
(* orders in four exports, and one request of every kind.                  *)
(***************************************************************************)
EXTENDS Dashboard, SequencesExt

MCLimits ==
    [segment |-> 3, top |-> 1, group |-> 3, customers |-> 1, services |-> 3, cities |-> 3,
     breakdown |-> 2, name |-> 3, category |-> 2, gender |-> 3, brand |-> 3]

MCGenders == [women |-> "female", men |-> "male"]

(* The columns of an export, "coupon" under its longer name.               *)
Headers == <<"number", "created", "updated", "customer", "email", "status", "canceled", "paid",
             "total", "payment", "delivery", "deliveryCost", "fromApp", "coupon (code)",
             "location", "problem", "problemDesc", "cancelReason", "positions", "prices", "payments">>

MCLonger == [h \in Range(Headers) \cup {"coupon", "phone"} |->
                IF h = "coupon" THEN {"coupon (code)"} ELSE {}]

(* What is on the screen of who opens an export: a row with its cells.     *)
Blank == [h \in Range(Headers) |-> <<>>]
On(day) == <<"iso", day>>
Line(name, qty) == [name |-> name, qty |-> qty]
Row(number, day, updated, cells) ==
    cells @@ [number |-> <<number>>, created |-> On(day), updated |-> On(updated)] @@ Blank

Dress == Line(<<"zara", "dress", "women", "m">>, <<2>>)
Socks == Line(<<"nike", "socks", "men">>, <<>>)

Site == [location |-> <<"russia", "moscow">>, delivery |-> <<"courier", "[s2]">>,
         payment |-> <<"card", "card">>, fromApp |-> <<"net">>, customer |-> <<"anna", "k">>,
         email |-> <<"anna@">>, deliveryCost |-> <<3>>]
App  == [location |-> <<"tver", "tver", "kimry">>, delivery |-> <<"pickup">>, payment |-> <<"cash">>,
         fromApp |-> <<"da">>, customer |-> <<"boris">>]

First == <<
    Row("n1", 10, 10, [status |-> <<"oplachen">>, paid |-> <<"da">>, total |-> <<1, 10, 2>>,
                       positions |-> <<Dress>>, prices |-> << <<6>> >>] @@ Site),
    Row("n2", 9, 10, [status |-> <<"oplachen">>, canceled |-> <<"da">>, total |-> <<2>>,
                      cancelReason |-> <<"late">>, positions |-> <<Socks>>, prices |-> << <<2>> >>] @@ App),
    Row("n3", 3, 5, [status |-> <<"vozvrat", "zakaza">>, paid |-> <<"da">>, total |-> <<4>>,
                     positions |-> <<Socks, Dress>>, prices |-> << <<4>> >>] @@ Site)>>

(* A later export: n1 is on its way, n2 was not canceled after all but     *)
(* paid back, and more than it cost, n3 was paid back in part, n4 is new.  *)
Second == <<
    Row("n1", 10, 12, [status |-> <<"otpravlen">>, paid |-> <<"da">>, total |-> <<1, 10, 2>>,
                       problem |-> <<"da">>, problemDesc |-> <<"damaged">>,
                       positions |-> <<Dress>>, prices |-> << <<6>> >>] @@ Site),
    Row("n2", 9, 11, [status |-> <<"sovershen", "chastichnyy", "vozvrat", "sredstv">>, total |-> <<2>>,
                      payments |-> << <<2>>, <<9>> >>, positions |-> <<Socks>>,
                      prices |-> << <<2>> >>] @@ App),
    Row("n3", 3, 6, [status |-> <<"sovershen", "chastichnyy", "vozvrat", "sredstv">>, total |-> <<4>>,
                     payments |-> << <<4>>, <<3>> >>, positions |-> <<Socks>>,
                     prices |-> << <<4>> >>] @@ Site),
    Row("n4", 13, 13, ("coupon (code)" :> <<"sale">>) @@
                      [status |-> <<"sobiraetsya">>, total |-> <<5>>, positions |-> <<Dress>>,
                       prices |-> << <<2>> >>] @@ [customer |-> <<>>] @@ App)>>

Seen(row) ==
    [order |-> Head(row.number), lines |-> Len(row.positions),
     total |-> IF row.total = <<1, 10, 2>> THEN 12 ELSE Head(row.total),
     city  |-> row.location[Len(row.location)]]

-----------------------------------------------------------------------------
(* Exports of a grid: an HTML table, with a table inside a cell, or CSV.   *)
Cells(row) == [k \in DOMAIN Headers |-> row[Headers[k]]]
HeaderCells == [k \in DOMAIN Headers |-> <<Headers[k]>>]

Nested == << <<"start", "table">>, <<"start", "tr">>, <<"start", "td">>, <<"text", <<"x">> >>,
             <<"end", "td">>, <<"end", "tr">>, <<"end", "table">> >>

HtmlRow(tag, cells, inside) ==
    << <<"start", "tr">> >>
    \o FlattenSeq([k \in DOMAIN cells |->
           << <<"start", tag>>, <<"text", cells[k]>> >>
           \o (IF k = 4 THEN inside ELSE <<>>) \o << <<"end", tag>> >>])
    \o << <<"end", "tr">> >>

Html(grid, inside) ==
    [kind |-> "html", tokens |->
        << <<"start", "table">> >> \o HtmlRow("th", HeaderCells, <<>>)
        \o FlattenSeq([k \in DOMAIN grid |-> HtmlRow("td", Cells(grid[k]), inside)])
        \o << <<"end", "table">> >>]

Csv(grid) ==
    [kind |-> "csv", rows |-> <<HeaderCells>> \o [k \in DOMAIN grid |-> Cells(grid[k])]]

(* What is left of an HTML table when the last of it is lost.              *)
CutShort(doc, n) == [doc EXCEPT !.tokens = SubSeq(@, 1, Len(@) - n)]

MCDocuments ==
    [first  |-> Html(First, Nested),
     second |-> Csv(Second),
     cut    |-> CutShort(Html(Second, <<>>), 3),
     early  |-> Csv(<<Row("n1", 1, 1, Site)>>),
     xlsx   |-> [kind |-> "xlsx"]]

MCGrids ==
    [first  |-> [k \in DOMAIN First |-> Seen(First[k])],
     second |-> [k \in DOMAIN Second |-> Seen(Second[k])],
     cut    |-> [k \in DOMAIN Second |-> Seen(Second[k])]]

-----------------------------------------------------------------------------
Visits(n, sampled) == [sessions |-> n, users |-> n, sampled |-> sampled]

MCBatches ==
    {[source |-> "metrika", channel |-> "site", from |-> 9, to |-> 10,
      visits |-> (10 :> Visits(7, FALSE))],
     [source |-> "appmetrica", channel |-> "app", from |-> 10, to |-> 10, visits |-> <<>>]}

MCEcomSources == <<"shop">>
MCChannelOf == [shop |-> "app"]
MCRevision  == [shop |-> "r2"]
MCReported  ==
    [shop |-> (12 :> [views |-> 4, carts |-> 3, checkouts |-> 2, purchases |-> 1])]

Targets3(all, site) ==
    {[month |-> 1, channel |-> "all", target |-> all],
     [month |-> 1, channel |-> "site", target |-> site],
     [month |-> 1, channel |-> "app", target |-> all - site]}

MCPlanEdits == {[year |-> 2, its |-> Targets3(8, 6)], [year |-> 2, its |-> Targets3(8, 9)]}

Hits(channel, source, n) == [month |-> 1, channel |-> channel, source |-> source, visits |-> n]
MCTrafficEdits ==
    {[year |-> 2, its |-> {Hits("site", "", 3), Hits("app", "manual", 2)}],
     [year |-> 2, its |-> {Hits("site", "metrika", 4)}]}

Plain == [report |-> "values", start |-> 0, end |-> 0, cmpStart |-> 0, cmpEnd |-> 0,
          filters |-> NoFilters, group |-> "", granularity |-> "", year |-> 0, month |-> 0,
          column |-> "city"]

AskFor(report, more) == more @@ [report |-> report] @@ Plain
FromTo(start, end) == [start |-> start, end |-> end]
Only(values) == [filters |-> values @@ NoFilters]

MCAsks ==
    {Plain,
     AskFor("funnel", Only(("region" :> {"moscow"}) @@ ("channel" :> {"", "site", "app"}))),
     AskFor("metrics", FromTo(13, 3)),
     AskFor("logistics", Only("region" :> {"moscow", "tver"}) @@ FromTo(3, 13)),
     AskFor("dynamics", [group |-> "city"] @@ FromTo(3, 13)),
     AskFor("customers", [granularity |-> "month"] @@ FromTo(1, 13)),
     AskFor("goal", [year |-> 2, month |-> 1]),
     AskFor("acquisition", FromTo(9, 12)),
     AskFor("plan", [year |-> 2]),
     AskFor("traffic", [year |-> 2])}

(* The page, with whoever else writes the plan.                            *)
PageAlone == {AskFor("page", <<>>)}
EveryAsk  == MCAsks \cup PageAlone
OnePlan   == {[year |-> 2, its |-> Targets3(8, 6)]}
NoBatches == {}
=============================================================================
