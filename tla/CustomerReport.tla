---------------------------- MODULE CustomerReport ----------------------------
(***************************************************************************)
(* GET /api/customer-analytics: customers by the period of their first     *)
(* order and how many of them came back (package customeranalytics).       *)
(* Periods are numbered, months or quarters; Quarter is 3 in the code.     *)
(***************************************************************************)
EXTENDS OrderRows

CONSTANT Quarter

parseGranularity(g) == g \in {"", "month", "quarter"}    \* else an error
Span(g) == IF g = "quarter" THEN Quarter ELSE 1

periodStart(day, g) == MonthOf(day) \div Span(g)
FirstDay(p, g)      == p * Span(g) * DaysPerMonth + 1
isPeriodEnd(day, g) == day = FirstDay(periodStart(day, g) + 1, g) - 1

(* Every dated order up to the end, the ones before the start too. *)
events(db, end, f) ==
    LET S == Scope(db, [start |-> 1, end |-> end], f)
    IN  [o \in S |-> [created |-> Created(db, o), email |-> Content(db, o).email,
                      phone |-> Content(db, o).phone, customer |-> Content(db, o).customer,
                      paid |-> Content(db, o).paid]]

NoIdentity == <<"", "">>

customerIdentity(e) ==
    CASE e.email # ""    -> <<"email", e.email>>
      [] e.phone # ""    -> <<"phone", e.phone>>
      [] e.customer # "" -> <<"name", e.customer>>
      [] OTHER           -> NoIdentity

-----------------------------------------------------------------------------
(* The periods each known customer ordered in. *)
Activities(mode, all, g) ==
    LET counted == {o \in DOMAIN all : /\ mode = "paid" => all[o].paid
                                       /\ customerIdentity(all[o]) # NoIdentity}
    IN  [c \in {customerIdentity(all[o]) : o \in counted} |->
            {periodStart(all[o].created, g) :
                o \in {o \in counted : customerIdentity(all[o]) = c}}]

Since(periods) == Min(periods)

(* Faulty variant: a customer who comes back after a pause is new again. *)
NewAgain(periods, p) == p \in periods /\ p - 1 \notin periods

New(periods, p)    == Since(periods) = p
Active(periods, p) == p \in periods /\ ~New(periods, p) /\ p - 1 \in periods

buildComposition(people, r, g) ==
    LET first == periodStart(r.start, g)
        last  == periodStart(r.end, g)
        Row(p) ==
            LET here == {c \in DOMAIN people : p \in people[c]}
                new  == {c \in here : New(people[c], p)}
                active == {c \in here : Active(people[c], p)}
            IN  [customers |-> Cardinality(here), new |-> Cardinality(new),
                 active    |-> Cardinality(active),
                 returned  |-> Cardinality(here \ (new \cup active)),
                 complete  |-> /\ p # first \/ r.start = FirstDay(first, g)
                               /\ p < last \/ isPeriodEnd(r.end, g)]
    IN  [p \in first..last |-> Row(p)]

(* Cohorts are of the customers that are new in the range; a cell is how   *)
(* many of a cohort ordered so many periods later.                         *)
buildView(mode, all, r, g) ==
    LET people  == Activities(mode, all, g)
        first   == periodStart(r.start, g)
        last    == periodStart(r.end, g)
        offsets == 0..(last - first)
        members(p) == {c \in DOMAIN people : Since(people[c]) = p}
        cohorts == {p \in first..last : members(p) # {}}
        whole(p) == p # first \/ r.start = FirstDay(first, g)
        cell(p, k) ==
            LET available == p + k <= last
            IN  [customers |-> IF available
                               THEN Cardinality({c \in members(p) : p + k \in people[c]}) ELSE 0,
                 available |-> available,
                 complete  |-> /\ available
                               /\ whole(p)
                               /\ p + k < last \/ isPeriodEnd(r.end, g)]
        counted(k) == {p \in cohorts : cell(p, k).complete \/ (k = 0 /\ whole(p))}
        again == {c \in DOMAIN people : /\ Since(people[c]) \in cohorts
                                        /\ \E p \in people[c] : p > Since(people[c])}
    IN  [customers   |-> SumFunction([p \in cohorts |-> Cardinality(members(p))]),
         repeat      |-> Cardinality(again),
         retention   |-> [k \in offsets |->
             [customers |-> SumFunction([p \in counted(k) |-> cell(p, k).customers]),
              eligible  |-> SumFunction([p \in counted(k) |-> Cardinality(members(p))])]],
         cohorts     |-> [p \in cohorts |->
             [customers |-> Cardinality(members(p)), cells |-> [k \in offsets |-> cell(p, k)]]],
         composition |-> buildComposition(people, r, g)]

-----------------------------------------------------------------------------
Empty == [customers |-> 0, repeat |-> 0, retention |-> <<>>, cohorts |-> <<>>,
          composition |-> <<>>]

HasData(got) == <<"bounds">> \in DOMAIN got /\ got[<<"bounds">>].start # NoDay

(* A missing end of the period is that of the data. *)
Period(ask, got) ==
    LET Or(day, bound) == IF day = NoDay THEN bound ELSE day
    IN  Ordered([start |-> Or(ask.start, got[<<"bounds">>].start),
                 end   |-> Or(ask.end, got[<<"bounds">>].end)])

Statements(ask, got) ==
    << <<"bounds">> >> \o (IF HasData(got) THEN << <<"events">> >> ELSE <<>>)

Execute(db, st, ask, got) ==
    CASE st[1] = "bounds" -> {DataBounds(db)}
      [] st[1] = "events" -> {events(db, Period(ask, got).end, ask.filters)}

Report(ask, got) ==
    [mode \in {"gross", "paid"} |->
        IF HasData(got)
        THEN buildView(mode, got[<<"events">>], Period(ask, got), ask.granularity)
        ELSE Empty]
-----------------------------------------------------------------------------
(* Every customer is new once: a cohort is who was new in its period, who  *)
(* orders again was there before, and who paid also ordered.               *)
CohortsFit(view) ==
    LET row(p) == view.composition[p]
        Size(p) == IF p \in DOMAIN view.cohorts THEN view.cohorts[p].customers ELSE 0
        Later(c, p) == IF p - c \in DOMAIN view.cohorts[c].cells
                       THEN view.cohorts[c].cells[p - c].customers ELSE 0
    IN  /\ \A p \in DOMAIN view.composition :
              /\ row(p).new = Size(p)
              /\ p - 1 \in DOMAIN view.composition => row(p).active <= row(p - 1).customers
              /\ SumFunction([c \in DOMAIN view.cohorts |-> Later(c, p)]) <= row(p).customers
        /\ \A p \in DOMAIN view.cohorts :
              /\ view.cohorts[p].cells[0].customers = Size(p)
              /\ \A k \in DOMAIN view.cohorts[p].cells :
                    view.cohorts[p].cells[k].customers <= Size(p)
        /\ view.customers = SumFunction([p \in DOMAIN view.cohorts |-> Size(p)])
        /\ view.repeat <= view.customers
        /\ \A k \in DOMAIN view.retention :
              view.retention[k].customers <= view.retention[k].eligible

PaidOrdered(gross, paid) ==
    /\ DOMAIN paid.composition \subseteq DOMAIN gross.composition
    /\ \A p \in DOMAIN paid.composition :
          paid.composition[p].customers <= gross.composition[p].customers
=============================================================================
