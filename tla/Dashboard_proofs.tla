-------------------------- MODULE Dashboard_proofs --------------------------
(***************************************************************************)
(* Proofs about Dashboard: the target that is shown is the stored one, the *)
(* counters come before what was entered by hand, the reports share their  *)
(* rules; and what a step does to a request, statement by statement.       *)
(***************************************************************************)
EXTENDS Dashboard, Reports_proofs, SequenceTheorems

(* What is read of a plan, and made of it, is the same on both ways.       *)
LEMMA PlanRead ==
    ASSUME NEW year
    PROVE  Goal!planOf(db, year) = Page!loadPlanYear(plan, year)
  BY Zenon DEF Goal!planOf, Page!loadPlanYear, Goal!RestrictDomain, Page!RestrictDomain,
               Goal!Restrict, Page!Restrict, db

LEMMA PlanBuilt ==
    ASSUME NEW year, NEW rows
    PROVE  Goal!buildPlan(year, rows) = Page!buildPlanReport(year, rows)
  BY DEF Goal!buildPlan, Page!buildPlanReport, Goal!Channels, Page!PlanChannels, Page!Months,
         Goal!perDay, Page!planPerDay, Page!daysInMonth, Goal!Rounded, Page!Rounded

(* What a statement of a report adds to what its request has got.          *)
LEMMA QueryAdds ==
    ASSUME PageForm, Query
    PROVE  \E next :
               /\ \E result \in Results(next) :
                      /\ request'.open = request.open
                      /\ DOMAIN request'.got = DOMAIN request.got \cup {next}
                      /\ request'.got[next] = result
                      /\ \A st \in DOMAIN request.got : st # next => request'.got[st] = request.got[st]
               /\ IF OnPage /\ next = <<"plan">> THEN Page!PlanRead("load") ELSE UNCHANGED since
<1>1. PICK next : /\ \E result \in Results(next) :
                         request' = [request EXCEPT !.got = [st \in {next} |-> result] ++ @]
                  /\ IF OnPage /\ next = <<"plan">> THEN Page!PlanRead("load") ELSE UNCHANGED since
  BY DEF Query
<1>2. PICK result \in Results(next) :
          request' = [request EXCEPT !.got = [st \in {next} |-> result] ++ @]
  BY <1>1
<1>3. PICK one : one = [st \in {next} |-> result]
  BY Zenon
<1>4. request'.open = request.open /\ request'.got = one ++ request.got
  BY <1>2, <1>3 DEF PageForm
<1>5. DOMAIN one = {next} /\ one[next] = result
  BY <1>3
<1>6. /\ DOMAIN (one ++ request.got) = DOMAIN request.got \cup {next}
      /\ (one ++ request.got)[next] = one[next]
      /\ \A st \in DOMAIN request.got : st # next => (one ++ request.got)[st] = request.got[st]
  BY <1>5 DEF ++
<1>7. \E r \in Results(next) :
          /\ request'.open = request.open
          /\ DOMAIN request'.got = DOMAIN request.got \cup {next}
          /\ request'.got[next] = r
          /\ \A st \in DOMAIN request.got : st # next => request'.got[st] = request.got[st]
  BY <1>4, <1>5, <1>6
<1> QED
  BY <1>1, <1>7

LEMMA SecondOfFour ==
    ASSUME NEW S, NEW a \in S, NEW b \in S, NEW c \in S, NEW d \in S,
           NEW more \in Seq(S), NEW last \in Seq(S)
    PROVE  LET s == (<<a, b, c, d>> \o more) \o last IN 2 \in DOMAIN s /\ s[2] = b
<1>1. PICK first : first = <<a, b, c, d>>
  OBVIOUS
<1>2. first \in Seq(S) /\ Len(first) = 4 /\ first[2] = b
  BY <1>1
<1>3. PICK long : long = first \o more
  BY Zenon
<1>4. long \in Seq(S) /\ Len(long) = 4 + Len(more) /\ Len(more) \in Nat
  <2>1. Len(more) \in Nat
    BY LenProperties
  <2>2. first \o more \in Seq(S) /\ Len(first \o more) = Len(first) + Len(more)
    BY <1>2, ConcatProperties, Zenon
  <2> QED
    BY <1>2, <1>3, <2>1, <2>2
<1>5. long[2] = b
  BY <1>2, <1>3, <1>4, ConcatProperties
<1>6. long \o last \in Seq(S) /\ Len(long \o last) = 4 + Len(more) + Len(last) /\ Len(last) \in Nat
  BY <1>4, ConcatProperties, LenProperties
<1>7. (long \o last)[2] = b
  BY <1>4, <1>5, <1>6, ConcatProperties
<1>8. 2 \in DOMAIN (long \o last)
  BY <1>4, <1>6, LenProperties
<1> QED
  BY <1>1, <1>3, <1>7, <1>8

(* The report of the goal reads the plan.                                  *)
LEMMA GoalReadsPlan ==
    ASSUME PageForm, OnPage
    PROVE  /\ Asked.report = "goal" /\ Asked.year = page.year
           /\ \A result \in Results(<<"plan">>) : result = Page!loadPlanYear(plan, page.year)
           /\ Complete => <<"plan">> \in DOMAIN request.got
<1>1. Asked.report = "goal" /\ Asked.year = page.year
  BY DEF Asked, OnPage, PageForm
<1>2. Results(<<"plan">>) = {Goal!planOf(db, page.year)}
  <2>1. Results(<<"plan">>) = Goal!Execute(db, <<"plan">>, Asked, request.got)
    BY <1>1 DEF Results, Answers
  <2> QED
    BY <1>1, <2>1 DEF Goal!Execute
<1>3. Statements = Goal!Statements(Asked, request.got)
  BY <1>1 DEF Statements
<1>4. 2 \in DOMAIN Statements /\ Statements[2] = <<"plan">>
  <2>1. PICK more, last : Statements = (<< <<"bounds">>, <<"plan">>, <<"orders", "current">>,
                                          <<"sessions", "current">> >> \o more) \o last
                          /\ (more = << <<"orders", "history">>, <<"sessions", "history">> >>
                              \/ more = <<>>)
                          /\ last = << <<"latestRuns">>, <<"latestDataDays">> >>
    BY <1>3 DEF Goal!Statements
  <2> DEFINE S == {<<"bounds">>, <<"plan">>, <<"orders", "current">>, <<"sessions", "current">>,
                   <<"orders", "history">>, <<"sessions", "history">>,
                   <<"latestRuns">>, <<"latestDataDays">>}
  <2>2. more \in Seq(S)
    <3>1. CASE more = <<>>
      BY <3>1
    <3>2. CASE more = << <<"orders", "history">>, <<"sessions", "history">> >>
      <4>1. <<"orders", "history">> \in S /\ <<"sessions", "history">> \in S
        OBVIOUS
      <4> HIDE DEF S
      <4> QED
        BY <3>2, <4>1
    <3> QED
      BY <2>1, <3>1, <3>2
  <2>3. last \in Seq(S)
    BY <2>1
  <2>4. /\ <<"bounds">> \in S /\ <<"plan">> \in S
        /\ <<"orders", "current">> \in S /\ <<"sessions", "current">> \in S
    OBVIOUS
  <2> HIDE DEF S
  <2> QED
    BY <2>1, <2>2, <2>3, <2>4, SecondOfFour
<1>5. Complete => <<"plan">> \in DOMAIN request.got
  BY <1>4 DEF Complete, Pending
<1> QED
  BY <1>1, <1>2, <1>5, PlanRead

-----------------------------------------------------------------------------
(* A step that leaves the page, its save and what it has got alone.        *)
LEMMA PageIdle ==
    ASSUME PageInv, UNCHANGED <<ask, page, save, plan, since>>,
           request'.open = request.open, request'.got = request.got,
           request' = [open |-> request'.open, got |-> request'.got, torn |-> request'.torn]
    PROVE  PageInv'
  BY DEF PageInv, PageForm, PageAsks, PlanIsFresh, Page!StoredPlan, OnPage, Page!Saving, Page!Shown

(* What is written does not change what has been got.                      *)
LEMMA GotIsKept ==
    ASSUME PageForm, NEW written, Written(written)
    PROVE  /\ request'.open = request.open /\ request'.got = request.got
           /\ request' = [open |-> request'.open, got |-> request'.got, torn |-> request'.torn]
  BY DEF Written, PageForm

LEMMA PageWritten ==
    ASSUME PageInv, UNCHANGED <<ask, page, save, plan, since>>, NEW written, Written(written)
    PROVE  PageInv'
<1>1. /\ request'.open = request.open /\ request'.got = request.got
      /\ request' = [open |-> request'.open, got |-> request'.got, torn |-> request'.torn]
  BY GotIsKept DEF PageInv
<1> QED
  BY <1>1, PageIdle

(* Where there is no page.                                                 *)
LEMMA PageElsewhere ==
    ASSUME PageInv, ~OnPage, UNCHANGED <<ask, page, save>>, DOMAIN since' = DOMAIN since,
           request' = [open |-> request'.open, got |-> request'.got, torn |-> request'.torn],
           request'.open \in BOOLEAN
    PROVE  PageInv'
  BY Zenon DEF PageInv, PageForm, PageAsks, PlanIsFresh, OnPage, Page!Saving, Page!Shown

(* Somebody else writes the plan.                                          *)
LEMMA PageOverwritten ==
    ASSUME PageInv, ShownTargetIsStored, UNCHANGED <<ask, page, save>>, Page!PlanWritten("other"),
           NEW written, Written(written)
    PROVE  PageInv' /\ ShownTargetIsStored'
<1>1. /\ request'.open = request.open /\ request'.got = request.got
      /\ request' = [open |-> request'.open, got |-> request'.got, torn |-> request'.torn]
  BY GotIsKept DEF PageInv
<1>2. /\ DOMAIN since' = DOMAIN since
      /\ since'.load = since.load \cup {"other"} /\ since'.answer = since.answer \cup {"other"}
      /\ since'.shown = since.shown \cup {"other"}
  BY DEF Page!PlanWritten, PageInv, PageForm
<1>3. /\ since'.load # {} /\ since'.answer # {} /\ since'.shown # {}
      /\ "save" \in since'.load => "save" \in since.load
      /\ "save" \in since'.answer => "save" \in since.answer
      /\ "save" \in since'.shown => "save" \in since.shown
  BY <1>2
<1>4. PageInv'
  BY <1>1, <1>2, <1>3, Zenon
     DEF PageInv, PageForm, PageAsks, PlanIsFresh, OnPage, Page!Saving, Page!Shown
<1>5. ShownTargetIsStored'
  BY <1>3, Zenon DEF ShownTargetIsStored, Page!ShowsStored, Page!Showing, Page!Shown, Page!Saving
<1> QED
  BY <1>4, <1>5

LEMMA PageNext ==
    ASSUME PageInv, ShownTargetIsStored, [Next]_vars
    PROVE  PageInv' /\ ShownTargetIsStored'
<1> DEFINE Good == PageInv' /\ ShownTargetIsStored'
<1>k. ASSUME UNCHANGED <<page, save, plan, since>> PROVE ShownTargetIsStored'
  BY <1>k DEF ShownTargetIsStored, Page!ShowsStored, Page!StoredPlan, Page!Showing, Page!Shown,
              Page!Saving
<1>1. CASE UNCHANGED vars
  <2>1. UNCHANGED <<ask, page, save, plan, since, request>>
    BY <1>1 DEF vars, pageVars
  <2>2. PageInv'
    BY <2>1, PageIdle DEF PageInv, PageForm
  <2> QED
    BY <1>k, <2>1, <2>2
<1>2. CASE MigrationStep
  <2>1. UNCHANGED <<ask, page, save, plan, since, request>>
    BY <1>2 DEF MigrationStep, pageVars
  <2>2. PageInv'
    BY <2>1, PageIdle DEF PageInv, PageForm
  <2> QED
    BY <1>k, <2>1, <2>2
<1>3. ASSUME NEW i, NEW d, ImportDocument(i, d) PROVE Good
  <2>1. UNCHANGED <<ask, page, save, plan, since>> /\ Written({"orders"})
    BY <1>3 DEF ImportDocument, pageVars
  <2> QED
    BY <1>k, <2>1, PageWritten
<1>4. ASSUME NEW b, SyncTraffic(b) PROVE Good
  <2>1. UNCHANGED <<ask, page, save, plan, since>> /\ Written({"days", "runs"})
    BY <1>4 DEF SyncTraffic, pageVars
  <2> QED
    BY <1>k, <2>1, PageWritten
<1>5. CASE EcomStep
  <2>1. UNCHANGED <<ask, page, save, plan, since>> /\ \E written : Written(written)
    BY <1>5, Zenon DEF EcomStep, pageVars
  <2> QED
    BY <1>k, <2>1, PageWritten
<1>6. ASSUME NEW edit, PutTraffic(edit) PROVE Good
  <2>1. UNCHANGED <<ask, page, save, plan, since>> /\ Written({"manual"})
    BY <1>6 DEF PutTraffic, pageVars
  <2> QED
    BY <1>k, <2>1, PageWritten
<1>7. ASSUME NEW edit, PutPlan(edit) PROVE Good
  <2>1. UNCHANGED <<ask, page, save>> /\ Page!PlanWritten("other") /\ Written({"plan"})
    BY <1>7 DEF PutPlan
  <2> QED
    BY <2>1, PageOverwritten
<1>l. CASE LostCommits
  <2>1. UNCHANGED <<ask, page, save>> /\ Page!PlanWritten("other") /\ Written({"plan"})
    BY <1>l DEF LostCommits, Page!LostCommits, Frame
  <2> QED
    BY <2>1, PageOverwritten
<1>8. CASE Open
  <2>1. UNCHANGED <<ask, page, save, plan, since>> /\ ~OnPage /\ request' = Opened
    BY <1>8 DEF Open, Frame, pageVars
  <2>2. PageInv'
    BY <2>1, PageElsewhere DEF Opened, Closed
  <2> QED
    BY <1>k, <2>1, <2>2
<1>9. CASE Query
  <2>1. UNCHANGED <<ask, page, save, plan>>
    BY <1>9 DEF Query, Frame
  <2>2. PICK next : /\ \E result \in Results(next) :
                           /\ request'.open = request.open
                           /\ DOMAIN request'.got = DOMAIN request.got \cup {next}
                           /\ request'.got[next] = result
                           /\ \A st \in DOMAIN request.got :
                                 st # next => request'.got[st] = request.got[st]
                    /\ IF OnPage /\ next = <<"plan">> THEN Page!PlanRead("load") ELSE UNCHANGED since
    BY <1>9, QueryAdds DEF PageInv
  <2>3. request' = [open |-> request'.open, got |-> request'.got, torn |-> request'.torn]
    BY <1>9 DEF Query, PageInv, PageForm
  <2>4. /\ DOMAIN since' = DOMAIN since /\ since'.answer = since.answer /\ since'.shown = since.shown
        /\ since'.load = IF OnPage /\ next = <<"plan">> THEN {} ELSE since.load
    BY <2>2 DEF Page!PlanRead, PageInv, PageForm
  <2>5. ASSUME page.loading, <<"plan">> \in DOMAIN request'.got
        PROVE  /\ since'.load = {} => request'.got[<<"plan">>] = Page!loadPlanYear(plan, page.year)
               /\ ~page.mixed => "save" \notin since'.load
    <3>1. OnPage /\ PageForm
      BY <2>5 DEF PageInv, PageAsks
    <3>2. CASE next = <<"plan">>
      BY <2>2, <2>4, <3>1, <3>2, GoalReadsPlan
    <3>3. CASE next # <<"plan">>
      BY <2>2, <2>4, <2>5, <3>3 DEF PageInv, PlanIsFresh
    <3> QED
      BY <3>2, <3>3
  <2>6. PageInv'
    BY <2>1, <2>2, <2>3, <2>4, <2>5
       DEF PageInv, PageForm, PageAsks, PlanIsFresh, Page!StoredPlan, OnPage, Page!Saving, Page!Shown
  <2>7. ShownTargetIsStored'
    BY <2>1, <2>4 DEF ShownTargetIsStored, Page!ShowsStored, Page!StoredPlan, Page!Showing,
                      Page!Shown, Page!Saving
  <2> QED
    BY <2>6, <2>7
<1>10. CASE Respond
  <2>1. UNCHANGED <<ask, plan, save>> /\ request' = Closed /\ Complete
    BY <1>10 DEF Respond, Frame, pageVars, Page!Loaded
  <2>2. CASE ~OnPage
    <3>1. UNCHANGED <<page, since>>
      BY <1>10, <2>2 DEF Respond, pageVars
    <3>2. PageInv'
      BY <2>1, <2>2, <3>1, PageElsewhere DEF Closed
    <3> QED
      BY <1>k, <2>1, <3>1, <3>2
  <2>3. CASE OnPage
    <3>1. PICK report : report = Goal!Report(Asked, request.got)
      OBVIOUS
    <3>2. PICK shown : shown = [year |-> page.year, plan |-> report.plan,
                                current |-> report.current, history |-> report.history]
      BY Zenon
    <3>3. page.loading /\ page' = [page EXCEPT !.loading = FALSE, !.shown = <<shown>>]
          /\ since' = [since EXCEPT !.shown = since.load]
      BY <1>10, <2>3, <3>1, <3>2 DEF Respond, Page!Loaded, Page!Taken
    <3>4. /\ DOMAIN page' = DOMAIN page /\ page'.loading = FALSE /\ page'.shown = <<shown>>
          /\ page'.saving = page.saving /\ page'.mixed = page.mixed /\ page'.year = page.year
          /\ DOMAIN since' = DOMAIN since /\ since'.shown = since.load
          /\ since'.answer = since.answer
      BY <3>3 DEF PageInv, PageForm
    <3>5. report.plan = Goal!buildPlan(page.year, request.got[<<"plan">>])
      BY <2>3, <3>1, GoalReadsPlan DEF Goal!Report, PageInv
    <3>6. /\ since.load = {} => report.plan = Page!StoredPlan(page.year)
          /\ ~page.mixed => "save" \notin since.load
      BY <2>1, <2>3, <3>3, <3>5, GoalReadsPlan, PlanBuilt DEF PageInv, PlanIsFresh, Page!StoredPlan
    <3>7. /\ Page!Shown' = shown /\ page'.shown # <<>> /\ page'.shown = <<Page!Shown'>>
          /\ {"year", "plan"} \subseteq DOMAIN Page!Shown'
          /\ Page!Shown'.year = page'.year /\ Page!Shown'.plan = report.plan
      BY <3>2, <3>4 DEF Page!Shown
    <3>8. PageInv'
      BY <2>1, <2>3, <3>4, <3>7, Zenon
         DEF PageInv, PageForm, PageAsks, PlanIsFresh, Page!StoredPlan, OnPage, Page!Saving, Closed
    <3>9. ShownTargetIsStored'
      BY <2>1, <3>4, <3>6, <3>7 DEF ShownTargetIsStored, Page!ShowsStored, Page!StoredPlan
    <3> QED
      BY <3>8, <3>9
  <2> QED
    BY <2>2, <2>3
<1>11. CASE QueryFails
  <2>1. UNCHANGED <<ask, plan, save, since>> /\ request' = Closed
    BY <1>11 DEF QueryFails, Frame, pageVars, Page!LoadFails
  <2>2. CASE ~OnPage
    <3>1. UNCHANGED page
      BY <1>11, <2>2 DEF QueryFails, pageVars
    <3>2. PageInv'
      BY <2>1, <2>2, <3>1, PageElsewhere DEF Closed
    <3> QED
      BY <1>k, <2>1, <3>1, <3>2
  <2>3. CASE OnPage
    <3>1. page.loading /\ page' = [page EXCEPT !.loading = FALSE, !.error = TRUE]
      BY <1>11, <2>3, Zenon DEF QueryFails, Page!LoadFails, Page!Failed
    <3>2. /\ DOMAIN page' = DOMAIN page /\ page'.loading = FALSE /\ page'.error = TRUE
          /\ page'.saving = page.saving /\ page'.mixed = page.mixed /\ page'.year = page.year
          /\ page'.shown = page.shown /\ page.shown = <<>>
      BY <3>1 DEF PageInv, PageForm, PageAsks
    <3> QED
      BY <2>1, <2>3, <3>2, Zenon
         DEF PageInv, PageForm, PageAsks, PlanIsFresh, Page!StoredPlan, OnPage, Page!Saving, Closed,
             ShownTargetIsStored, Page!ShowsStored, Page!Showing, Page!Shown
  <2> QED
    BY <2>2, <2>3
<1>12. CASE Stop
  <2>1. UNCHANGED <<ask, plan, since>> /\ request' = Closed /\ save' = Page!NoSave /\ Page!ServerGone
    BY <1>12 DEF Stop, Page!ServerGone
  <2>2. CASE ~page.loading /\ ~page.saving
    <3>1. UNCHANGED page /\ ~Page!Saving
      BY <2>1, <2>2 DEF Page!ServerGone, PageInv, PageAsks
    <3> QED
      BY <2>1, <2>2, <3>1, Zenon
         DEF PageInv, PageForm, PageAsks, PlanIsFresh, Page!StoredPlan, OnPage, Page!Saving, Closed,
             Page!NoSave, ShownTargetIsStored, Page!ShowsStored, Page!Shown, Page!Showing
  <2>3. CASE page.loading \/ page.saving
    <3>1. OnPage
      BY <2>3 DEF PageInv, PageAsks
    <3>2. /\ DOMAIN page' = DOMAIN page /\ page'.loading = FALSE /\ page'.saving = FALSE
          /\ page'.shown = page.shown /\ page'.error = TRUE /\ page'.year = page.year
          /\ page'.mixed = page.mixed
      BY <2>1, <2>3, Zenon DEF Page!ServerGone, Page!Failed, PageInv, PageForm
    <3>3. PageInv'
      BY <2>1, <3>1, <3>2, Zenon
         DEF PageInv, PageForm, PageAsks, PlanIsFresh, OnPage, Page!Saving, Closed,
             Page!NoSave, Page!Shown
    <3>4. ShownTargetIsStored'
      BY <2>1, <3>2, Zenon
         DEF ShownTargetIsStored, Page!ShowsStored, Page!StoredPlan, Page!Showing, Page!Shown
    <3> QED
      BY <3>3, <3>4
  <2> QED
    BY <2>2, <2>3
<1>13. ASSUME NEW year, NEW month, PageLoads(year, month) PROVE Good
  <2>1. /\ UNCHANGED <<ask, plan, save, since>> /\ request' = Opened /\ OnPage
        /\ page' = [page EXCEPT !.year = year, !.month = month, !.shown = <<>>,
                                !.loading = TRUE, !.error = FALSE,
                                !.mixed = Page!Saving, !.loads = @ + 1]
    BY <1>13 DEF PageLoads, Page!Load, Frame
  <2>2. /\ DOMAIN page' = DOMAIN page /\ page'.loading = TRUE /\ page'.saving = page.saving
        /\ page'.shown = <<>> /\ page'.mixed = Page!Saving
    BY <2>1 DEF PageInv, PageForm
  <2>3. request'.open = TRUE /\ DOMAIN request'.got = {}
        /\ request' = [open |-> request'.open, got |-> request'.got, torn |-> request'.torn]
    <3>1. request' = [open |-> TRUE, got |-> <<>>, torn |-> FALSE]
      BY <2>1 DEF Opened, Closed
    <3> QED
      BY <3>1
  <2>4. PageForm' /\ ShownTargetIsStored'
    BY <2>1, <2>2, <2>3, Zenon
       DEF PageInv, PageForm, ShownTargetIsStored, Page!ShowsStored, Page!Showing
  <2>5. PageAsks'
    BY <2>1, <2>2, <2>3, Zenon DEF PageInv, PageForm, PageAsks, OnPage, Page!Saving
  <2>6. PlanIsFresh'
    BY <2>1, <2>2, <2>3, Zenon DEF PageInv, PlanIsFresh, Page!StoredPlan, Page!Saving
  <2> QED
    BY <2>4, <2>5, <2>6 DEF PageInv
<1>14. ASSUME NEW total, PageSaves(total) PROVE Good
  <2>1. PICK its : save' = [Page!NoSave EXCEPT !.stage = "sent", !.year = page.year, !.its = its]
    BY <1>14, Zenon DEF PageSaves, Page!SaveTarget
  <2>2. /\ UNCHANGED <<ask, plan, since, request>> /\ OnPage /\ page.shown # <<>>
        /\ page' = [page EXCEPT !.saving = TRUE, !.error = FALSE, !.saves = @ + 1]
    BY <1>14 DEF PageSaves, Page!SaveTarget, Page!Showing, Frame
  <2>3. /\ DOMAIN page' = DOMAIN page /\ page'.loading = page.loading /\ page'.saving = TRUE
        /\ page'.shown = page.shown /\ page'.mixed = page.mixed /\ page'.year = page.year
    BY <2>2 DEF PageInv, PageForm
  <2>4. DOMAIN save' = DOMAIN save /\ save'.stage = "sent" /\ save'.year = page.year
    BY <2>1 DEF Page!NoSave, PageInv, PageForm
  <2>5. PageInv'
    BY <2>2, <2>3, <2>4, Zenon
       DEF PageInv, PageForm, PageAsks, PlanIsFresh, OnPage, Page!Saving, Page!Shown
  <2>6. ShownTargetIsStored'
    BY <2>2, <2>3, <2>4, Zenon DEF ShownTargetIsStored, Page!ShowsStored, Page!StoredPlan,
       Page!Showing, Page!Shown, Page!Saving
  <2> QED
    BY <2>5, <2>6
<1>15. CASE SaveCommits
  <2>1. /\ UNCHANGED <<ask, page>> /\ save.stage = "sent"
        /\ save' = [save EXCEPT !.stage = "committed"]
        /\ Page!PlanWritten("save") /\ Written({"plan"})
    BY <1>15 DEF SaveCommits, Page!SaveCommits, Frame
  <2>2. DOMAIN save' = DOMAIN save /\ save'.stage = "committed" /\ save'.year = save.year
    BY <2>1 DEF PageInv, PageForm
  <2>3. /\ request'.open = request.open /\ request'.got = request.got
        /\ request' = [open |-> request'.open, got |-> request'.got, torn |-> request'.torn]
    BY <2>1, GotIsKept DEF PageInv
  <2>4. DOMAIN since' = DOMAIN since /\ since'.load # {} /\ since'.shown # {}
    BY <2>1 DEF Page!PlanWritten, PageInv, PageForm
  <2>5. Page!Saving /\ Page!Saving' /\ page.saving
    BY <2>1, <2>2 DEF PageInv, PageAsks, Page!Saving
  <2>6. PageInv'
    BY <2>1, <2>2, <2>3, <2>4, <2>5, Zenon
       DEF PageInv, PageForm, PageAsks, PlanIsFresh, OnPage, Page!Saving, Page!Shown
  <2>7. ShownTargetIsStored'
    BY <2>1, <2>4, <2>5, Zenon DEF ShownTargetIsStored, Page!ShowsStored, Page!Showing, Page!Shown
  <2> QED
    BY <2>6, <2>7
<1>16. CASE SaveReads
  <2>1. /\ UNCHANGED <<ask, page, plan, request>> /\ save.stage = "committed"
        /\ save' = [save EXCEPT !.stage = "read", !.plan = Page!StoredPlan(save.year)]
        /\ since' = [since EXCEPT !.answer = {}]
    BY <1>16 DEF SaveReads, Page!SaveReads, Page!PlanRead, Frame, Page!StoredPlan
  <2>2. /\ DOMAIN save' = DOMAIN save /\ save'.stage = "read" /\ save'.year = save.year
        /\ save'.plan = Page!StoredPlan(save.year)
        /\ DOMAIN since' = DOMAIN since /\ since'.answer = {} /\ since'.load = since.load
        /\ since'.shown = since.shown
    BY <2>1 DEF PageInv, PageForm
  <2>3. PageForm' /\ PageAsks'
    BY <2>1, <2>2, Zenon DEF PageInv, PageForm, PageAsks, OnPage, Page!Saving, Page!Shown
  <2>4. PlanIsFresh'
    BY <2>1, <2>2 DEF PageInv, PlanIsFresh, Page!Saving, Page!StoredPlan
  <2>5. ShownTargetIsStored'
    BY <2>1, <2>2, Zenon DEF ShownTargetIsStored, Page!ShowsStored, Page!StoredPlan,
       Page!Showing, Page!Shown, Page!Saving
  <2> QED
    BY <2>3, <2>4, <2>5 DEF PageInv
<1>17. CASE SaveAnswers
  <2>1. /\ UNCHANGED <<ask, plan, request>> /\ save.stage = "read" /\ save' = Page!NoSave
        /\ since' = [since EXCEPT !.shown = since.answer]
        /\ page' = [page EXCEPT !.saving = FALSE,
                        !.shown = IF @ = <<>> THEN @
                                  ELSE <<[Head(@) EXCEPT !.year = save.year, !.plan = save.plan]>>]
    BY <1>17 DEF SaveAnswers, Page!SaveAnswers, Page!Taken, Frame
  <2>2. /\ DOMAIN page' = DOMAIN page /\ page'.loading = page.loading /\ page'.saving = FALSE
        /\ page'.mixed = page.mixed /\ page'.year = page.year /\ page'.error = page.error
        /\ page'.shown = IF page.shown = <<>> THEN <<>>
               ELSE <<[Page!Shown EXCEPT !.year = save.year, !.plan = save.plan]>>
        /\ DOMAIN since' = DOMAIN since /\ since'.shown = since.answer
        /\ since'.load = since.load
    BY <2>1 DEF PageInv, PageForm, Page!Shown
  <2>3. CASE page.shown = <<>>
    BY <2>1, <2>2, <2>3, Zenon
       DEF PageInv, PageForm, PageAsks, PlanIsFresh, OnPage, Page!Saving, Page!NoSave,
           ShownTargetIsStored, Page!ShowsStored, Page!Showing
  <2>4. CASE page.shown # <<>>
    <3>1. PICK new : new = [Page!Shown EXCEPT !.year = save.year, !.plan = save.plan]
      OBVIOUS
    <3>2. new.year = save.year /\ new.plan = save.plan /\ {"year", "plan"} \subseteq DOMAIN new
      BY <2>4, <3>1 DEF PageInv, PageForm
    <3>3. page'.shown = <<new>> /\ Page!Shown' = new
      BY <2>2, <2>4, <3>1 DEF Page!Shown
    <3>4. /\ since.answer = {} => new.plan = Page!StoredPlan(new.year)
          /\ ~page.mixed => new.year = page.year
          /\ "save" \notin since.answer
      BY <2>1, <3>2 DEF PageInv, PlanIsFresh, Page!Saving
    <3>5. PageInv'
      BY <2>1, <2>2, <2>4, <3>2, <3>3, Zenon
         DEF PageInv, PageForm, PageAsks, PlanIsFresh, OnPage, Page!Saving, Page!NoSave
    <3>6. ShownTargetIsStored'
      BY <2>1, <2>2, <3>3, <3>4 DEF ShownTargetIsStored, Page!ShowsStored, Page!StoredPlan
    <3> QED
      BY <3>5, <3>6
  <2> QED
    BY <2>3, <2>4
<1>18. CASE SaveFails
  <2>1. /\ UNCHANGED <<ask, plan, since, request>> /\ Page!Saving /\ save' = Page!NoSave
        /\ page' = [page EXCEPT !.saving = FALSE, !.error = TRUE]
    BY <1>18, Zenon DEF SaveFails, Page!SaveFails, Page!Failed, Frame
  <2>2. /\ DOMAIN page' = DOMAIN page /\ page'.loading = page.loading /\ page'.saving = FALSE
        /\ page'.shown = page.shown /\ page'.error = TRUE /\ page'.year = page.year
        /\ page'.mixed = page.mixed
    BY <2>1 DEF PageInv, PageForm
  <2>3. PageInv'
    BY <2>1, <2>2, Zenon
       DEF PageInv, PageForm, PageAsks, PlanIsFresh, OnPage, Page!Saving, Page!Shown, Page!NoSave
  <2>4. ShownTargetIsStored'
    BY <2>1, <2>2, Zenon
       DEF ShownTargetIsStored, Page!ShowsStored, Page!StoredPlan, Page!Showing, Page!Shown
  <2> QED
    BY <2>3, <2>4
<1> QED
  BY <1>1, <1>2, <1>3, <1>4, <1>5, <1>6, <1>7, <1>8, <1>9, <1>10, <1>11, <1>12, <1>13, <1>14,
     <1>15, <1>16, <1>17, <1>18, <1>l DEF Next

LEMMA PageStart == Init => PageInv /\ ShownTargetIsStored
<1> SUFFICES ASSUME Init PROVE PageInv /\ ShownTargetIsStored
  OBVIOUS
<1>1. /\ page = [year |-> 0, month |-> 0, shown |-> <<>>, loading |-> FALSE, saving |-> FALSE,
                 error |-> FALSE, mixed |-> FALSE, loads |-> 0, saves |-> 0]
      /\ save = Page!NoSave /\ request = Closed /\ ask \in Asks
      /\ since = [load |-> {}, answer |-> {}, shown |-> {}]
  BY DEF Init, Page!PageInit
<1>2. PageForm /\ ShownTargetIsStored
  BY <1>1, DashboardAssumption
     DEF PageForm, Page!NoSave, Closed, ShownTargetIsStored, Page!ShowsStored, Page!Showing
<1>3. PageAsks
  BY <1>1, Zenon DEF PageAsks, Page!NoSave, Page!Saving, Closed
<1>4. PlanIsFresh
  BY <1>1 DEF PlanIsFresh, Page!NoSave, Page!Saving
<1> QED
  BY <1>2, <1>3, <1>4 DEF PageInv

(* The page shows the stored plan of the year it says until somebody else  *)
(* writes, and the year selected with the targets it has saved unless a    *)
(* load met a save (useGoalPlan.ts): whatever loads, saves, failures, late *)
(* commits and writes of others came before.                               *)
THEOREM TargetIsStored == Spec => []ShownTargetIsStored
<1>1. Init => PageInv /\ ShownTargetIsStored
  BY PageStart
<1>2. PageInv /\ ShownTargetIsStored /\ [Next]_vars => (PageInv /\ ShownTargetIsStored)'
  BY PageNext
<1> QED
  BY <1>1, <1>2, PTL DEF Spec
-----------------------------------------------------------------------------
(* The rows of a year: what was entered by hand, and what was counted.     *)
LEMMA TypedRows ==
    ASSUME NEW year, NEW rw \in Target!loadYear(manual, year)
    PROVE  \E k \in DOMAIN manual :
               /\ k[1] = year /\ rw.month = k[2] /\ rw.channel = k[3] /\ rw.source = k[4]
               /\ rw.visits = manual[k].visits /\ rw.updated = manual[k].updated
  BY DEF Target!loadYear

LEMMA TypedRowsThere ==
    ASSUME NEW year, NEW k \in DOMAIN manual, k[1] = year
    PROVE  \E rw \in Target!loadYear(manual, year) : rw.month = k[2] /\ rw.channel = k[3]
<1>1. PICK rw : rw = [month |-> k[2], channel |-> k[3], source |-> k[4],
                      visits |-> manual[k].visits, updated |-> manual[k].updated]
  BY Zenon
<1>2. rw \in Target!loadYear(manual, year)
  BY <1>1, Zenon DEF Target!loadYear
<1> QED
  BY <1>1, <1>2

LEMMA SameDays ==
    ASSUME NEW day, NEW year, NEW m
    PROVE  Target!Within(day, Target!MonthRange(year, m)) <=> Within(day, MonthRange(year, m))
  BY DEF Target!Within, Target!MonthRange, Target!MonthNumber, Target!NoDay,
         Within, MonthRange, MonthNumber, NoDay

LEMMA SameInTargets ==
    ASSUME NEW w, NEW S
    PROVE  Target!SumFunction(w) = SumFunction(w) /\ Target!Max(S) = Max(S)
<1>1. Target!SumFunction(w) = SumFunction(w)
  BY Zenon DEF Target!SumFunction, Target!SumFunctionOnSet, Target!FoldFunctionOnSet,
               Target!MapThenFoldSet, SumFunction, SumFunctionOnSet, FoldFunctionOnSet, MapThenFoldSet
<1>2. Target!Max(S) = Max(S)
  BY Zenon DEF Target!Max, Max
<1> QED
  BY <1>1, <1>2

CountedRow(year, m, ch, s) ==
    [month |-> m, channel |-> ch, source |-> s,
     visits  |-> SumFunction([d \in ByCounter(Counted(year, m, ch), s) |-> d.sessions]),
     updated |-> Max({d.synced : d \in ByCounter(Counted(year, m, ch), s)})]

LEMMA RowIsCounted ==
    ASSUME NEW year, NEW m, NEW ch, NEW s, NEW key, key = <<ch, s>>, NEW mine,
           mine = {d \in {x \in days : Target!Within(x.day, Target!MonthRange(year, m))} :
                      <<d.channel, d.source>> = key}
    PROVE  [month |-> m, channel |-> key[1], source |-> key[2],
            visits  |-> Target!SumFunction([d \in mine |-> d.sessions]),
            updated |-> Target!Max({d.synced : d \in mine})] = CountedRow(year, m, ch, s)
<1>1. key[1] = ch /\ key[2] = s
  OBVIOUS
<1>2. mine = ByCounter(Counted(year, m, ch), s)
  BY SameDays DEF ByCounter, Counted
<1>3. PICK w, S : w = [d \in mine |-> d.sessions] /\ S = {d.synced : d \in mine}
  BY Zenon
<1>4. Target!SumFunction(w) = SumFunction(w) /\ Target!Max(S) = Max(S)
  BY SameInTargets
<1> QED
  BY <1>1, <1>2, <1>3, <1>4, Zenon DEF CountedRow

LEMMA CountedRows ==
    ASSUME NEW year, NEW rw \in Target!loadDailyYear(days, year)
    PROVE  \E d \in Counted(year, rw.month, rw.channel) :
               rw = CountedRow(year, rw.month, rw.channel, d.source)
<1> DEFINE Of(m) == {d \in days : Target!Within(d.day, Target!MonthRange(year, m))}
           Row(m, key) ==
               LET mine == {d \in Of(m) : <<d.channel, d.source>> = key}
               IN  [month |-> m, channel |-> key[1], source |-> key[2],
                    visits  |-> Target!SumFunction([d \in mine |-> d.sessions]),
                    updated |-> Target!Max({d.synced : d \in mine})]
           RowsOf(m) == {Row(m, key) : key \in {<<d.channel, d.source>> : d \in Of(m)}}
<1>1. Target!loadDailyYear(days, year) = UNION {RowsOf(m) : m \in Target!Months}
  BY DEF Target!loadDailyYear
<1>2. PICK m \in Target!Months : rw \in RowsOf(m)
  <2> HIDE DEF RowsOf
  <2> QED
    BY <1>1
<1>3. PICK key \in {<<d.channel, d.source>> : d \in Of(m)} : rw = Row(m, key)
  <2> HIDE DEF Row, Of
  <2> QED
    BY <1>2
<1>4. PICK d \in Of(m) : key = <<d.channel, d.source>>
  BY <1>3
<1>5. rw = CountedRow(year, m, d.channel, d.source)
  BY <1>3, <1>4, RowIsCounted
<1>6. rw.month = m /\ rw.channel = d.channel
  BY <1>5 DEF CountedRow
<1>7. d \in Counted(year, m, d.channel)
  BY <1>4, SameDays DEF Counted
<1> QED
  BY <1>5, <1>6, <1>7

LEMMA CountedRowsThere ==
    ASSUME NEW year, NEW m \in Target!Months, NEW ch, NEW d \in Counted(year, m, ch)
    PROVE  CountedRow(year, m, ch, d.source) \in Target!loadDailyYear(days, year)
<1> DEFINE Of(n) == {x \in days : Target!Within(x.day, Target!MonthRange(year, n))}
           Row(n, key) ==
               LET mine == {x \in Of(n) : <<x.channel, x.source>> = key}
               IN  [month |-> n, channel |-> key[1], source |-> key[2],
                    visits  |-> Target!SumFunction([x \in mine |-> x.sessions]),
                    updated |-> Target!Max({x.synced : x \in mine})]
           RowsOf(n) == {Row(n, key) : key \in {<<x.channel, x.source>> : x \in Of(n)}}
<1>1. Target!loadDailyYear(days, year) = UNION {RowsOf(n) : n \in Target!Months}
  BY DEF Target!loadDailyYear
<1>2. d \in Of(m) /\ d.channel = ch
  BY SameDays DEF Counted
<1>3. PICK key : key = <<d.channel, d.source>>
  OBVIOUS
<1>4. Row(m, key) \in RowsOf(m)
  <2>1. key \in {<<x.channel, x.source>> : x \in Of(m)}
    BY <1>2, <1>3
  <2> HIDE DEF Row, Of
  <2> QED
    BY <2>1
<1>5. Row(m, key) \in Target!loadDailyYear(days, year)
  <2> HIDE DEF RowsOf, Row
  <2> QED
    BY <1>1, <1>4
<1>6. Row(m, key) = CountedRow(year, m, ch, d.source)
  BY <1>2, <1>3, RowIsCounted
<1> HIDE DEF Row
<1> QED
  BY <1>5, <1>6

(* The row that is kept is one that no other is better than.               *)
LEMMA BestIsKept ==
    ASSUME NEW year, NEW rows, NEW shown \in Target!buildTrafficReports(year, rows),
           NEW m \in Target!Months, NEW ch \in Target!TrafficChannels
    PROVE  \/ /\ ~\E rw \in rows : rw.month = m /\ rw.channel = ch
              /\ shown[<<m, ch>>] = Target!NoTraffic
           \/ \E rw \in rows :
                 /\ rw.month = m /\ rw.channel = ch
                 /\ \A other \in rows :
                       (other.month = m /\ other.channel = ch) => ~Target!better(other, rw)
                 /\ shown[<<m, ch>>] = [visits |-> rw.visits, source |-> rw.source]
<1> DEFINE of(k) == {rw \in rows : rw.month = k[1] /\ rw.channel = k[2]}
           best(k) == {rw \in of(k) : \A other \in of(k) : ~Target!better(other, rw)}
           Best(k) == IF of(k) = {} THEN {Target!NoTraffic}
                      ELSE {[visits |-> rw.visits, source |-> rw.source] : rw \in best(k)}
<1>1. \A k \in Target!Months \X Target!TrafficChannels : shown[k] \in Best(k)
  BY DEF Target!buildTrafficReports
<1>2. PICK k \in Target!Months \X Target!TrafficChannels : k = <<m, ch>>
  OBVIOUS
<1>3. k[1] = m /\ k[2] = ch
  BY <1>2
<1>4. shown[k] \in Best(k)
  <2> HIDE DEF Best
  <2> QED
    BY <1>1
<1>5. CASE of(k) = {}
  <2>1. shown[k] = Target!NoTraffic
    BY <1>4, <1>5
  <2> QED
    BY <1>2, <1>3, <1>5, <2>1
<1>6. CASE of(k) # {}
  <2>1. PICK rw \in best(k) : shown[k] = [visits |-> rw.visits, source |-> rw.source]
    BY <1>4, <1>6
  <2>2. rw \in of(k) /\ \A other \in of(k) : ~Target!better(other, rw)
    BY <2>1
  <2> QED
    BY <1>2, <1>3, <2>1, <2>2
<1> QED
  BY <1>5, <1>6

(* Of the rows of a year the counted ones are kept, or one that was        *)
(* entered under the name of a counter since that counter was asked.       *)
LEMMA KeepsCounted ==
    ASSUME TrafficInv, NEW year, NEW m \in Target!Months, NEW ch \in Target!TrafficChannels,
           NEW rows, rows = Target!loadYear(manual, year) \cup Target!loadDailyYear(days, year),
           NEW shown \in Target!buildTrafficReports(year, rows)
    PROVE  CountersFirst(year, m, ch, shown[<<m, ch>>])
<1>a. PICK kept, counted, typed : /\ kept = shown[<<m, ch>>]
                                  /\ counted = Counted(year, m, ch)
                                  /\ typed = Typed(year, m, ch)
  BY Zenon
<1>1. \A rw \in rows : \/ rw \in Target!loadYear(manual, year)
                       \/ rw \in Target!loadDailyYear(days, year)
  OBVIOUS
<1>2. \/ /\ ~\E rw \in rows : rw.month = m /\ rw.channel = ch
         /\ kept = Target!NoTraffic
      \/ \E rw \in rows :
            /\ rw.month = m /\ rw.channel = ch
            /\ \A other \in rows :
                  (other.month = m /\ other.channel = ch) => ~Target!better(other, rw)
            /\ kept = [visits |-> rw.visits, source |-> rw.source]
  BY <1>a, BestIsKept
<1>3. ASSUME NEW rw \in Target!loadYear(manual, year), rw.month = m, rw.channel = ch
      PROVE  \E k \in typed : /\ rw.source = k[4] /\ rw.updated = manual[k].updated
                              /\ [visits |-> rw.visits, source |-> rw.source] = Entered(k)
                              /\ k[4] \in DOMAIN Target!sourcePriority
  <2>1. PICK k \in DOMAIN manual :
            /\ k[1] = year /\ rw.month = k[2] /\ rw.channel = k[3] /\ rw.source = k[4]
            /\ rw.visits = manual[k].visits /\ rw.updated = manual[k].updated
    BY TypedRows
  <2>2. k \in typed
    BY <1>a, <1>3, <2>1 DEF Typed
  <2> QED
    BY <2>1, <2>2, Zenon DEF Entered, TrafficInv
<1>4. ASSUME NEW d \in counted
      PROVE  /\ CountedRow(year, m, ch, d.source) \in rows
             /\ d.source \in {"metrika", "appmetrica"}
  BY <1>a, CountedRowsThere DEF TrafficInv, Counted
<1>5. ASSUME counted # {} PROVE KeptOf(counted, typed, kept)
  <2>1. PICK d \in counted : TRUE
    BY <1>5
  <2>2. PICK other \in rows : /\ other.month = m /\ other.channel = ch
                              /\ other.source \in {"metrika", "appmetrica"}
    BY <1>a, <1>4, <2>1 DEF CountedRow
  <2>3. PICK rw \in rows :
            /\ rw.month = m /\ rw.channel = ch
            /\ \A any \in rows :
                  (any.month = m /\ any.channel = ch) => ~Target!better(any, rw)
            /\ kept = [visits |-> rw.visits, source |-> rw.source]
    BY <1>2, <2>2
  <2>4. CASE rw \in Target!loadDailyYear(days, year)
    <3>1. PICK e \in counted : rw = CountedRow(year, m, ch, e.source)
      BY <1>a, <2>3, <2>4, CountedRows
    <3>2. kept = [visits |-> SumFunction([x \in ByCounter(counted, e.source) |-> x.sessions]),
                  source |-> e.source]
      BY <1>a, <2>3, <3>1 DEF CountedRow
    <3>3. kept \in SumsOf(counted)
      <4>1. e.source \in {x.source : x \in counted}
        OBVIOUS
      <4> QED
        BY <3>2, <4>1, Zenon DEF SumsOf
    <3> QED
      BY <1>5, <3>3, Zenon DEF KeptOf
  <2>5. CASE rw \in Target!loadYear(manual, year)
    <3>1. PICK k \in typed : /\ rw.source = k[4] /\ rw.updated = manual[k].updated
                             /\ kept = Entered(k) /\ k[4] \in DOMAIN Target!sourcePriority
      BY <1>3, <2>3, <2>5
    <3>2. k[4] # "manual"
      <4>1. ~Target!better(other, rw)
        BY <2>2, <2>3
      <4> QED
        BY <2>2, <3>1, <4>1 DEF Target!better, Target!sourcePriority
    <3>3. ~SyncedAfter(counted, k)
      <4>1. CASE ByCounter(counted, k[4]) = {}
        BY <4>1, Zenon DEF SyncedAfter
      <4>2. CASE ByCounter(counted, k[4]) # {}
        <5>1. PICK e \in counted : e.source = k[4]
          BY <4>2 DEF ByCounter
        <5>2. PICK any : any = CountedRow(year, m, ch, k[4])
          OBVIOUS
        <5>3. /\ any \in rows /\ any.month = m /\ any.channel = ch /\ any.source = k[4]
              /\ any.updated = Max({x.synced : x \in ByCounter(counted, k[4])})
          BY <1>a, <1>4, <5>1, <5>2 DEF CountedRow
        <5>4. ~Target!better(any, rw)
          BY <2>3, <5>3
        <5>5. ~(any.updated > rw.updated)
          BY <3>1, <5>3, <5>4 DEF Target!better
        <5> QED
          BY <3>1, <5>3, <5>5 DEF SyncedAfter
      <4> QED
        BY <4>1, <4>2
    <3> QED
      BY <1>5, <3>1, <3>2, <3>3, Zenon DEF KeptOf
  <2> QED
    BY <1>1, <2>4, <2>5
<1>6. ASSUME counted = {}, typed = {} PROVE KeptOf(counted, typed, kept)
  <2>1. ~\E rw \in rows : rw.month = m /\ rw.channel = ch
    <3> SUFFICES ASSUME NEW rw \in rows, rw.month = m, rw.channel = ch PROVE FALSE
      OBVIOUS
    <3>1. CASE rw \in Target!loadYear(manual, year)
      BY <1>3, <1>6, <3>1
    <3>2. CASE rw \in Target!loadDailyYear(days, year)
      BY <1>a, <1>6, <3>2, CountedRows
    <3> QED
      BY <1>1, <3>1, <3>2
  <2>2. kept = Target!NoTraffic
    BY <1>2, <2>1, Zenon
  <2> QED
    BY <1>6, <2>2, Zenon DEF KeptOf
<1>7. ASSUME counted = {}, typed # {} PROVE KeptOf(counted, typed, kept)
  <2>1. PICK k \in DOMAIN manual : k[1] = year /\ k[2] = m /\ k[3] = ch
    BY <1>a, <1>7 DEF Typed
  <2>2. \E rw \in rows : rw.month = m /\ rw.channel = ch
    BY <2>1, TypedRowsThere
  <2>3. PICK rw \in rows : /\ rw.month = m /\ rw.channel = ch
                           /\ kept = [visits |-> rw.visits, source |-> rw.source]
    BY <1>2, <2>2
  <2>4. rw \in Target!loadYear(manual, year)
    BY <1>a, <1>1, <1>7, <2>3, CountedRows
  <2>5. \E j \in typed : kept = Entered(j)
    BY <1>3, <2>3, <2>4
  <2> QED
    BY <1>7, <2>5, Zenon DEF KeptOf
<1>8. KeptOf(counted, typed, kept)
  BY <1>5, <1>6, <1>7
<1> QED
  BY <1>a, <1>8, Zenon DEF CountersFirst

(* A report of the traffic runs both statements, each on its table.        *)
LEMMA TrafficAsks ==
    ASSUME PageForm, ask.report = "traffic"
    PROVE  /\ Asked.report = "traffic"
           /\ \A result \in Results(<<"loadYear">>) :
                 result = Target!loadYear(manual, Asked.year)
           /\ \A result \in Results(<<"loadDailyYear">>) :
                 result = Target!loadDailyYear(days, Asked.year)
           /\ Complete => {<<"loadYear">>, <<"loadDailyYear">>} \subseteq DOMAIN request.got
<1>1. Asked.report = "traffic"
  BY DEF Asked, PageForm
<1>2. PICK a : a = Asked
  OBVIOUS
<1>3. ASSUME NEW st PROVE Results(st) = Target!Execute(db, st, a, request.got)
  BY <1>1, <1>2 DEF Results, Answers
<1>4. db.manual = manual /\ db.days = days
  BY DEF db
<1>5. PICK base : base = db
  OBVIOUS
<1>6. /\ Target!Execute(base, <<"loadYear">>, a, request.got)
            = {Target!loadYear(base.manual, a.year)}
      /\ Target!Execute(base, <<"loadDailyYear">>, a, request.got)
            = {Target!loadDailyYear(base.days, a.year)}
  BY DEF Target!Execute
<1>7. Statements = << <<"loadYear">>, <<"loadDailyYear">> >>
  BY <1>1 DEF Statements, Target!TrafficStatements
<1>8. Complete => {<<"loadYear">>, <<"loadDailyYear">>} \subseteq DOMAIN request.got
  BY <1>7 DEF Complete, Pending
<1> QED
  BY <1>1, <1>2, <1>3, <1>4, <1>5, <1>6, <1>8

(* Where the rows come from.                                               *)
TrafficSources ==
    /\ \A d \in days : d.source \in {"metrika", "appmetrica"}
    /\ \A k \in DOMAIN manual : k[4] \in DOMAIN Target!sourcePriority

LEMMA TrafficIdle ==
    ASSUME TrafficInv, UNCHANGED <<ask, request, days, manual>>
    PROVE  TrafficInv'
  BY DEF TrafficInv, Asked

LEMMA TrafficEmpty ==
    ASSUME TrafficInv, UNCHANGED <<days, manual>>, request' \in {Opened, Closed}
    PROVE  TrafficInv'
<1>1. PICK none : none = <<>> /\ DOMAIN none = {}
  OBVIOUS
<1>2. DOMAIN request'.got = {}
  BY <1>1 DEF Opened, Closed
<1> QED
  BY <1>2 DEF TrafficInv

(* After a write to what it reads a report of the traffic that has got     *)
(* something is torn.                                                      *)
LEMMA TrafficWritten ==
    ASSUME PageForm, NEW written, Written(written), Reading(written), UNCHANGED ask, TrafficSources'
    PROVE  TrafficInv'
<1>1. /\ request'.got = request.got
      /\ request'.torn = (request.torn \/ DOMAIN request.got # {})
  BY DEF Written, PageForm
<1>2. ~request'.torn => DOMAIN request'.got = {}
  BY <1>1, Zenon
<1> QED
  BY <1>2 DEF TrafficInv, TrafficSources

LEMMA TrafficElsewhere ==
    ASSUME PageForm, TrafficInv, NEW written, Written(written), UNCHANGED <<ask, page, days, manual>>
    PROVE  TrafficInv'
<1>1. /\ request'.got = request.got /\ request'.open = request.open
      /\ ~request'.torn => ~request.torn
  BY Zenon, GotIsKept DEF Written, PageForm
<1>2. Asked' = Asked
  BY DEF Asked
<1> QED
  BY <1>1, <1>2 DEF TrafficInv

(* The rows of a sync are of its source.                                   *)
LEMMA SyncedSource ==
    ASSUME NEW b \in Batches, NEW x \in SyncedRows(b)
    PROVE  x.source \in {"metrika", "appmetrica"}
<1>1. PICK d, more :
          x = [day |-> d, channel |-> b.channel, source |-> b.source, synced |-> clock] ++ more
  BY DEF SyncedRows
<1>2. PICK row : row = [day |-> d, channel |-> b.channel, source |-> b.source, synced |-> clock]
  BY Zenon
<1>3. "source" \in DOMAIN row /\ row.source = b.source
  BY <1>2
<1>4. x = row ++ more
  BY <1>1, <1>2
<1>5. x.source = b.source
  BY <1>3, <1>4 DEF ++
<1> QED
  BY <1>5, DashboardAssumption

LEMMA TypedSource ==
    ASSUME TrafficSources, NEW edit, PutTraffic(edit)
    PROVE  \A k \in DOMAIN manual' : k[4] \in DOMAIN Target!sourcePriority
<1> DEFINE Source(it) == IF it.source = "" THEN "manual" ELSE it.source
           Key(it) == <<edit.year, it.month, it.channel, Source(it)>>
<1>1. PICK new : /\ DOMAIN new = {Key(it) : it \in edit.its}
                 /\ manual' = new ++ manual
  <2>1. PICK new : /\ new = [k \in {Key(it) : it \in edit.its} |->
                          [visits |-> (CHOOSE it \in edit.its : Key(it) = k).visits,
                           updated |-> clock]]
                   /\ manual' = new ++ manual
    BY Zenon DEF PutTraffic, Target!upsert, Target!++, ++
  <2> QED
    BY <2>1, Zenon
<1>2. DOMAIN manual' = DOMAIN new \cup DOMAIN manual
  BY <1>1, Zenon DEF ++
<1>3. \A it \in edit.its : it.source \in DOMAIN Target!sourcePriority \cup {""}
  BY Zenon DEF PutTraffic, Target!TrafficSavable, Target!validateItem
<1>4. ASSUME NEW k \in DOMAIN new PROVE k[4] \in DOMAIN Target!sourcePriority
  <2>1. PICK it \in edit.its : k = Key(it)
    BY <1>1, Zenon
  <2> QED
    BY <1>3, <2>1, Zenon DEF Target!sourcePriority
<1> QED
  BY <1>2, <1>4 DEF TrafficSources

LEMMA TrafficNext ==
    ASSUME PageForm, TrafficInv, [Next]_vars
    PROVE  TrafficInv'
<1>0. TrafficSources
  BY DEF TrafficInv, TrafficSources
<1>1. CASE UNCHANGED vars
  BY <1>1, TrafficIdle DEF vars
<1>2. CASE MigrationStep
  BY <1>2, TrafficIdle DEF MigrationStep
<1>3. ASSUME NEW i, NEW d, ImportDocument(i, d) PROVE TrafficInv'
  BY <1>3, TrafficElsewhere DEF ImportDocument, pageVars
<1>4. ASSUME NEW b \in Batches, SyncTraffic(b) PROVE TrafficInv'
  <2>1. UNCHANGED <<manual, ask>> /\ Written({"days", "runs"}) /\ Reading({"days", "runs"})
    BY <1>4 DEF SyncTraffic
  <2>2. \A x \in days' : x \in days \/ x \in SyncedRows(b)
    BY <1>4 DEF SyncTraffic
  <2>3. TrafficSources'
    BY <1>0, <2>1, <2>2, SyncedSource DEF TrafficSources
  <2> QED
    BY <2>1, <2>3, TrafficWritten
<1>5. CASE EcomStep
  <2>1. UNCHANGED <<ask, page, days, manual>> /\ \E written : Written(written)
    BY <1>5, Zenon DEF EcomStep, pageVars
  <2> QED
    BY <2>1, TrafficElsewhere
<1>6. ASSUME NEW edit, PutTraffic(edit) PROVE TrafficInv'
  <2>1. UNCHANGED <<days, ask>> /\ Written({"manual"}) /\ Reading({"manual"})
    BY <1>6 DEF PutTraffic
  <2>2. TrafficSources'
    BY <1>0, <1>6, <2>1, TypedSource DEF TrafficSources
  <2> QED
    BY <2>1, <2>2, TrafficWritten
<1>7. ASSUME NEW edit, PutPlan(edit) PROVE TrafficInv'
  BY <1>7, TrafficElsewhere DEF PutPlan
<1>8. CASE Open
  BY <1>8, TrafficEmpty DEF Open, Frame
<1>9. CASE Query
  <2>1. UNCHANGED <<ask, page, days, manual>>
    BY <1>9 DEF Query, Frame
  <2>2. PICK next : \E result \in Results(next) :
            /\ request'.open = request.open
            /\ DOMAIN request'.got = DOMAIN request.got \cup {next}
            /\ request'.got[next] = result
            /\ \A st \in DOMAIN request.got : st # next => request'.got[st] = request.got[st]
    BY <1>9, QueryAdds
  <2>3. request'.torn = request.torn
    BY <1>9 DEF Query, PageForm
  <2>4. Asked' = Asked
    BY <2>1 DEF Asked
  <2>5. ASSUME ask.report = "traffic", request.open, ~request.torn
        PROVE  /\ <<"loadYear">> \in DOMAIN request'.got =>
                     request'.got[<<"loadYear">>] = Target!loadYear(manual, Asked.year)
               /\ <<"loadDailyYear">> \in DOMAIN request'.got =>
                     request'.got[<<"loadDailyYear">>] = Target!loadDailyYear(days, Asked.year)
    <3>1. /\ <<"loadYear">> \in DOMAIN request.got =>
                request.got[<<"loadYear">>] = Target!loadYear(manual, Asked.year)
          /\ <<"loadDailyYear">> \in DOMAIN request.got =>
                request.got[<<"loadDailyYear">>] = Target!loadDailyYear(days, Asked.year)
      BY <2>5 DEF TrafficInv
    <3>2. /\ \A result \in Results(<<"loadYear">>) :
                result = Target!loadYear(manual, Asked.year)
          /\ \A result \in Results(<<"loadDailyYear">>) :
                result = Target!loadDailyYear(days, Asked.year)
      BY <2>5, TrafficAsks
    <3>3. CASE next = <<"loadYear">>
      BY <2>2, <3>1, <3>2, <3>3
    <3>4. CASE next = <<"loadDailyYear">>
      BY <2>2, <3>1, <3>2, <3>4
    <3>5. CASE next # <<"loadYear">> /\ next # <<"loadDailyYear">>
      BY <2>2, <3>1, <3>5
    <3> QED
      BY <3>3, <3>4, <3>5
  <2> QED
    BY <1>0, <2>1, <2>2, <2>3, <2>4, <2>5 DEF TrafficInv, TrafficSources
<1>10. CASE Respond
  BY <1>10, TrafficEmpty DEF Respond, Frame
<1>11. CASE QueryFails
  BY <1>11, TrafficEmpty DEF QueryFails, Frame
<1>12. CASE Stop
  BY <1>12, TrafficEmpty DEF Stop
<1>13. ASSUME NEW year, NEW month, PageLoads(year, month) PROVE TrafficInv'
  BY <1>13, TrafficEmpty DEF PageLoads, Frame
<1>14. ASSUME NEW total, PageSaves(total) PROVE TrafficInv'
  BY <1>14, TrafficIdle DEF PageSaves, Frame
<1>15. CASE SaveCommits
  <2>1. UNCHANGED <<ask, page, days, manual>> /\ Written({"plan"})
    BY <1>15 DEF SaveCommits, Page!SaveCommits, Frame
  <2> QED
    BY <2>1, TrafficElsewhere
<1>l. CASE LostCommits
  <2>1. UNCHANGED <<ask, page, days, manual>> /\ Written({"plan"})
    BY <1>l DEF LostCommits, Page!LostCommits, Frame
  <2> QED
    BY <2>1, TrafficElsewhere
<1>16. CASE SaveReads
  BY <1>16, TrafficIdle DEF SaveReads, Frame
<1>17. CASE SaveAnswers
  <2>1. UNCHANGED <<ask, request, days, manual>>
    BY <1>17 DEF SaveAnswers, Frame
  <2> QED
    BY <2>1, TrafficIdle
<1>18. CASE SaveFails
  BY <1>18, TrafficIdle DEF SaveFails, Frame
<1> QED
  BY <1>1, <1>2, <1>3, <1>4, <1>5, <1>6, <1>7, <1>8, <1>9, <1>10, <1>11, <1>12, <1>13, <1>14,
     <1>15, <1>16, <1>17, <1>18, <1>l DEF Next

LEMMA TrafficStart == Init => TrafficInv
<1> SUFFICES ASSUME Init PROVE TrafficInv
  OBVIOUS
<1>1. days = {} /\ DOMAIN manual = {} /\ request.open = FALSE
  BY DEF Init, Closed
<1> QED
  BY <1>1 DEF TrafficInv

LEMMA TrafficShown == PageForm /\ TrafficInv => TrafficPriority
<1> SUFFICES ASSUME PageForm, TrafficInv, Complete, ask.report = "traffic", ~request.torn
             PROVE  \A shown \in Target!TrafficReports(Asked, request.got) :
                        \A m \in Target!Months, ch \in Target!TrafficChannels :
                            CountersFirst(Asked.year, m, ch, shown[<<m, ch>>])
  BY Zenon DEF TrafficPriority, WholeTraffic
<1>1. PICK year : year = Asked.year
  OBVIOUS
<1>2. PICK rows : rows = Target!loadYear(manual, year) \cup Target!loadDailyYear(days, year)
  OBVIOUS
<1>3. request.got[<<"loadYear">>] \cup request.got[<<"loadDailyYear">>] = rows
  <2>1. {<<"loadYear">>, <<"loadDailyYear">>} \subseteq DOMAIN request.got /\ request.open
    BY TrafficAsks DEF Complete
  <2> QED
    BY <1>1, <1>2, <2>1 DEF TrafficInv
<1>4. Target!TrafficReports(Asked, request.got) = Target!buildTrafficReports(year, rows)
  BY <1>1, <1>3, Zenon DEF Target!TrafficReports
<1> QED
  BY <1>1, <1>2, <1>4, KeepsCounted

(* In every answer that no write has torn a month shows what a counter     *)
(* summed up, if it reported any day of it, unless somebody entered visits *)
(* under the name of a counter and that counter was not asked since; else  *)
(* what was entered (traffic/types.go, traffic/service.go).                *)
THEOREM CountersComeFirst == Spec => []TrafficPriority
<1>1. Init => PageInv /\ ShownTargetIsStored /\ TrafficInv
  BY PageStart, TrafficStart
<1>2. PageInv /\ ShownTargetIsStored /\ TrafficInv /\ [Next]_vars
          => (PageInv /\ ShownTargetIsStored /\ TrafficInv)'
  BY PageNext, TrafficNext DEF PageInv
<1>3. PageInv /\ TrafficInv => TrafficPriority
  BY TrafficShown DEF PageInv
<1> QED
  BY <1>1, <1>2, <1>3, PTL DEF Spec
-----------------------------------------------------------------------------
(* What each report tells of the orders of a month, all of them.          *)
LEMMA EveryOrder ==
    ASSUME NEW r
    PROVE  {o \in Stored(db) : Within(Created(db, o), r)} = Scope(db, r, NoFilters)
<1>1. \A d \in DOMAIN NoFilters : NoFilters[d] = {}
  BY DEF NoFilters
<1>2. \A c : GeoCond(c, NoFilters)
  BY <1>1, Zenon DEF GeoCond, Values
<1> QED
  BY <1>2 DEF Scope

LEMMA GoalScope ==
    ASSUME NEW r
    PROVE  {o \in Goal!Stored(db) : Goal!Within(Goal!Created(db, o), r)} = Scope(db, r, NoFilters)
  BY EveryOrder DEF Goal!Stored, Goal!Within, Goal!Created, Goal!NoDay, Stored, Within, Created, NoDay

(* What each report tells of the orders S of a range.                      *)
LEMMA MetricsTells ==
    ASSUME NEW r, NEW f, NEW S, S = Scope(db, r, f)
    PROVE  LET k == Metrics!counts(db, r, f) IN
           /\ k.orders = Cardinality(S)
           /\ k.revenue = Total(db, {o \in S : Net(Content(db, o))}, "total")
           /\ k.redeemedGross = Cardinality({o \in S : RedeemedGross(Content(db, o))})
           /\ k.fullyReturned = Cardinality({o \in S : FullyReturned(Content(db, o))})
<1>1. PICK k : k = Metrics!counts(db, r, f)
  OBVIOUS
<1>2. /\ k.orders = Metrics!Cardinality(S)
      /\ k.revenue = Metrics!Revenue(db, S)
      /\ k.redeemedGross = Metrics!Cardinality(Metrics!Those(db, S, Metrics!RedeemedGross))
      /\ k.fullyReturned = Metrics!Cardinality(Metrics!Those(db, S, Metrics!FullyReturned))
  BY <1>1, SameScope DEF Metrics!counts, Metrics!Count
<1>3. Metrics!Those(db, S, Metrics!RedeemedGross) = {o \in S : RedeemedGross(Content(db, o))}
  BY DEF Metrics!Those, Metrics!Content, Content, Metrics!RedeemedGross, RedeemedGross
<1>4. Metrics!Those(db, S, Metrics!FullyReturned) = {o \in S : FullyReturned(Content(db, o))}
  BY DEF Metrics!Those, Metrics!Content, Content, Metrics!FullyReturned, FullyReturned,
         Metrics!Returned, Returned
<1>5. Metrics!Revenue(db, S) = Total(db, {o \in S : Net(Content(db, o))}, "total")
  <2>1. Metrics!Those(db, S, Metrics!Net) = {o \in S : Net(Content(db, o))}
    BY DEF Metrics!Those, Metrics!Content, Content, Metrics!Net, Net
  <2> QED
    BY <2>1, SameTotal DEF Metrics!Revenue
<1> QED
  BY <1>1, <1>2, <1>3, <1>4, <1>5, SameSize

LEMMA MetricsStagesTell ==
    ASSUME NEW r, NEW f, NEW S, S = Scope(db, r, f)
    PROVE  LET s == Metrics!stages(db, r, f) IN
           /\ s.orders["Paid"] = Cardinality({o \in S : PaidReach(Content(db, o))})
           /\ s.revenue["Paid"] = Total(db, {o \in S : PaidReach(Content(db, o))}, "total")
           /\ s.revenue["RedeemedGross"] =
                  Total(db, {o \in S : RedeemedGross(Content(db, o))}, "total")
           /\ s.refund = Total(db, {o \in S : Returned(Content(db, o))}, "refund")
<1>1. PICK s : s = Metrics!stages(db, r, f)
  OBVIOUS
<1>2. "Paid" \in Metrics!StageNames /\ "RedeemedGross" \in Metrics!StageNames
  BY DEF Metrics!StageNames
<1>3. /\ s.orders["Paid"] = Metrics!Cardinality(Metrics!InStage(db, S, "Paid"))
      /\ s.revenue["Paid"] = Metrics!Total(db, Metrics!InStage(db, S, "Paid"), "total")
      /\ s.revenue["RedeemedGross"] =
             Metrics!Total(db, Metrics!InStage(db, S, "RedeemedGross"), "total")
      /\ s.refund = Metrics!Total(db, Metrics!Those(db, S, Metrics!Returned), "refund")
  BY <1>1, <1>2, SameScope DEF Metrics!stages, Metrics!Refunded
<1>4. Metrics!InStage(db, S, "Paid") = {o \in S : PaidReach(Content(db, o))}
  BY DEF Metrics!InStage, Metrics!Conditions, Metrics!Content, Content,
         Metrics!PaidReach, PaidReach, Metrics!Advanced, Advanced
<1>5. Metrics!InStage(db, S, "RedeemedGross") = {o \in S : RedeemedGross(Content(db, o))}
  BY DEF Metrics!InStage, Metrics!Conditions, Metrics!Content, Content,
         Metrics!RedeemedGross, RedeemedGross
<1>6. Metrics!Those(db, S, Metrics!Returned) = {o \in S : Returned(Content(db, o))}
  BY DEF Metrics!Those, Metrics!Content, Content, Metrics!Returned, Returned
<1> QED
  BY <1>1, <1>3, <1>4, <1>5, <1>6, SameSize, SameTotal

LEMMA FunnelTells ==
    ASSUME NEW r, NEW f, NEW S, S = Scope(db, r, f)
    PROVE  LET c == Funnel!reachOrders(db, r, f) IN
           /\ \A k \in {"created", "paid", "processing", "shipped", "completed"} :
                 /\ c.orders[k] = Cardinality(Reaching(db, S, k))
                 /\ c.revenue[k] = Total(db, Reaching(db, S, k), "total")
                 /\ Funnel!reachUnits(db, r, f)[k] = Funnel!Units(db, Reaching(db, S, k))
           /\ c.fullyReturned = Cardinality({o \in S : FullyReturned(Content(db, o))})
           /\ c.refund = Total(db, {o \in S : Returned(Content(db, o))}, "refund")
<1>1. PICK c : c = Funnel!reachOrders(db, r, f)
  OBVIOUS
<1>2. {"created", "paid", "processing", "shipped", "completed"} \subseteq
          Funnel!Range(Funnel!Stages)
  BY DEF Funnel!Range, Funnel!Stages
<1>3. ASSUME NEW k \in {"created", "paid", "processing", "shipped", "completed"}
      PROVE  LET T == Reaching(db, S, k) IN
             /\ c.orders[k] = Cardinality(T)
             /\ c.revenue[k] = Total(db, T, "total")
             /\ Funnel!reachUnits(db, r, f)[k] = Funnel!Units(db, T)
  <2>1. PICK T : T = Reaching(db, S, k)
    OBVIOUS
  <2>2. {o \in S : Funnel!Reached(Funnel!Content(db, o), k)} = T
    BY <2>1 DEF Reaching, Funnel!Content, Content
  <2>3. /\ c.orders[k] = Funnel!Cardinality(T)
        /\ c.revenue[k] = Funnel!Total(db, T, "total")
        /\ Funnel!reachUnits(db, r, f)[k] = Funnel!Units(db, T)
    BY <1>1, <1>2, <2>2, SameScope, Zenon
       DEF Funnel!reachOrders, Funnel!reachUnits, Funnel!PerStage, Funnel!Those
  <2> QED
    BY <2>1, <2>3, SameSize, SameTotal
<1>4. c.fullyReturned = Cardinality({o \in S : FullyReturned(Content(db, o))})
  <2>1. Funnel!Those(db, S, Funnel!FullyReturned) = {o \in S : FullyReturned(Content(db, o))}
    BY DEF Funnel!Those, Funnel!Content, Content, Funnel!FullyReturned, FullyReturned,
           Funnel!Returned, Returned
  <2>2. c.fullyReturned = Funnel!Cardinality(Funnel!Those(db, S, Funnel!FullyReturned))
    BY <1>1, SameScope DEF Funnel!reachOrders, Funnel!Count
  <2> QED
    BY <2>1, <2>2, SameSize
<1>5. c.refund = Total(db, {o \in S : Returned(Content(db, o))}, "refund")
  <2>1. Funnel!Those(db, S, Funnel!Returned) = {o \in S : Returned(Content(db, o))}
    BY DEF Funnel!Those, Funnel!Content, Content, Funnel!Returned, Returned
  <2>2. c.refund = Funnel!Total(db, Funnel!Those(db, S, Funnel!Returned), "refund")
    BY <1>1, SameScope DEF Funnel!reachOrders, Funnel!Refunded
  <2> QED
    BY <2>1, <2>2, SameTotal
<1> QED
  BY <1>1, <1>3, <1>4, <1>5

LEMMA LogisticsTells ==
    ASSUME NEW r, NEW f, NEW S, S = Scope(db, r, f)
    PROVE  LET l == Logistics!summary(db, r, Today, f) IN
           /\ l.orders = Cardinality(S)
           /\ l.revenue = Total(db, {o \in S : Net(Content(db, o))}, "total")
           /\ l.processed =
                  Cardinality({o \in S : Logistics!reachedProcessing(Content(db, o))})
           /\ l.shipped = Cardinality({o \in S : Logistics!reachedShipment(Content(db, o))})
<1>1. PICK row : row = Logistics!Operational(db, S, Today)
  OBVIOUS
<1>2. Logistics!summary(db, r, Today, f) = Logistics!finalizeOperational(row)
  BY <1>1, SameScope DEF Logistics!summary
<1>3. PICK part : part = Logistics!Delivery(db, S)
  OBVIOUS
<1>4. PICK rest : /\ row = Logistics!++(part, rest)
                  /\ DOMAIN rest = {"processed", "shipped", "pending", "pending01",
                                    "pending23", "pending4", "avgAge"}
                  /\ rest.processed = Logistics!Count(db, S, Logistics!reachedProcessing)
                  /\ rest.shipped = Logistics!Count(db, S, Logistics!reachedShipment)
  <2> DEFINE waiting == Logistics!Those(db, S, Logistics!pendingShipment)
             Aged(low, high) ==
                 Logistics!Cardinality({o \in waiting :
                     Logistics!ageDays(db, o, Today) \in low..high})
  <2>1. PICK rest : rest =
            [processed |-> Logistics!Count(db, S, Logistics!reachedProcessing),
             shipped   |-> Logistics!Count(db, S, Logistics!reachedShipment),
             pending   |-> Logistics!Cardinality(waiting),
             pending01 |-> Aged(0, 1),
             pending23 |-> Aged(2, 3),
             pending4  |-> Logistics!Cardinality({o \in waiting :
                               Logistics!ageDays(db, o, Today) >= 4}),
             avgAge    |-> Logistics!SumFunction(
                               [o \in waiting |-> Logistics!ageDays(db, o, Today)])]
    BY Zenon
  <2>2. row = Logistics!++(part, rest)
    BY <1>1, <1>3, <2>1, Zenon DEF Logistics!Operational
  <2> HIDE DEF waiting, Aged
  <2>3. /\ DOMAIN rest = {"processed", "shipped", "pending", "pending01",
                          "pending23", "pending4", "avgAge"}
        /\ rest.processed = Logistics!Count(db, S, Logistics!reachedProcessing)
        /\ rest.shipped = Logistics!Count(db, S, Logistics!reachedShipment)
    BY <2>1
  <2> QED
    BY <2>2, <2>3
<1>5. /\ DOMAIN part = {"orders", "revenue", "paid", "delivery", "free"}
      /\ part.orders = Logistics!Cardinality(S) /\ part.revenue = Logistics!Revenue(db, S)
  BY <1>3 DEF Logistics!Delivery
<1>6. /\ row.orders = part.orders /\ row.revenue = part.revenue
      /\ row.processed = rest.processed /\ row.shipped = rest.shipped
      /\ DOMAIN row = DOMAIN part \cup DOMAIN rest
  BY <1>4, <1>5 DEF Logistics!++
<1>7. PICK l : l = Logistics!finalizeOperational(row)
  OBVIOUS
<1>8. /\ l.orders = row.orders /\ l.revenue = row.revenue
      /\ l.processed = row.processed /\ l.shipped = row.shipped
  BY <1>4, <1>5, <1>6, <1>7 DEF Logistics!finalizeOperational
<1>9. Logistics!Revenue(db, S) = Total(db, {o \in S : Net(Content(db, o))}, "total")
  <2>1. Logistics!Those(db, S, Logistics!Net) = {o \in S : Net(Content(db, o))}
    BY DEF Logistics!Those, Logistics!Content, Content, Logistics!Net, Net
  <2> QED
    BY <2>1, SameTotal DEF Logistics!Revenue
<1>10. /\ Logistics!Those(db, S, Logistics!reachedProcessing) =
              {o \in S : Logistics!reachedProcessing(Content(db, o))}
       /\ Logistics!Those(db, S, Logistics!reachedShipment) =
              {o \in S : Logistics!reachedShipment(Content(db, o))}
  BY DEF Logistics!Those, Logistics!Content, Content
<1> QED
  BY <1>2, <1>4, <1>5, <1>6, <1>7, <1>8, <1>9, <1>10, SameSize DEF Logistics!Count

LEMMA GoalTells ==
    ASSUME NEW r, NEW S, S = Scope(db, r, NoFilters)
    PROVE  LET g == Goal!orders(db, r) IN
           /\ g.all.revenue = Total(db, {o \in S : Net(Content(db, o))}, "total")
           /\ g.all.redeemed = Total(db, {o \in S : RedeemedGross(Content(db, o))}, "total")
           /\ g.all.refund = Total(db, {o \in S : Returned(Content(db, o))}, "refund")
           /\ \A ch \in Goal!Channels : Acquired!orderTotals(db, r)[ch].net = g[ch].net
<1>1. PICK g : g = Goal!orders(db, r)
  OBVIOUS
<1> DEFINE In(ch) == {o \in S : Goal!normalizeOrderChannel(Content(db, o).channel) = ch}
<1>2. /\ g.all = Goal!Aggregate(db, S)
      /\ g.site = Goal!Aggregate(db, In("site"))
      /\ g.app = Goal!Aggregate(db, In("app"))
  <2>1. \A ch : {o \in S : Goal!normalizeOrderChannel(Goal!Content(db, o).channel) = ch} = In(ch)
    BY DEF Goal!Content, Content
  <2> QED
    BY <1>1, <2>1, GoalScope, Zenon DEF Goal!orders
<1>3. /\ g.all.revenue = Goal!Revenue(db, S)
      /\ g.all.redeemed = Goal!Total(db, Goal!Those(db, S, Goal!RedeemedGross), "total")
      /\ g.all.refund = Goal!Total(db, Goal!Those(db, S, Goal!Returned), "refund")
  BY <1>2 DEF Goal!Aggregate, Goal!Refunded
<1>4. /\ Goal!Those(db, S, Goal!RedeemedGross) = {o \in S : RedeemedGross(Content(db, o))}
      /\ Goal!Those(db, S, Goal!Returned) = {o \in S : Returned(Content(db, o))}
      /\ Goal!Those(db, S, Goal!Net) = {o \in S : Net(Content(db, o))}
  BY DEF Goal!Those, Goal!Content, Content, Goal!RedeemedGross, RedeemedGross,
         Goal!Returned, Returned, Goal!Net, Net
<1>5. Goal!Revenue(db, S) = Total(db, {o \in S : Net(Content(db, o))}, "total")
  BY <1>4, SameTotal DEF Goal!Revenue
<1>6. ASSUME NEW ch \in Goal!Channels
      PROVE  Acquired!orderTotals(db, r)[ch].net = g[ch].net
  <2>1. g[ch] = Goal!Aggregate(db, In(ch))
    BY <1>2 DEF Goal!Channels
  <2>2. g[ch].net = Goal!Cardinality(Goal!Those(db, In(ch), Goal!Net))
    BY <2>1 DEF Goal!Aggregate, Goal!Count
  <2>3. Acquired!orderTotals(db, r)[ch].net =
            Acquired!Cardinality(Acquired!Those(db, Acquired!OrdersIn(db, ch, r), Acquired!Net))
    BY DEF Acquired!orderTotals, Acquired!Channels, Goal!Channels, Acquired!Count
  <2>4. Acquired!OrdersIn(db, ch, r) = In(ch)
    <3>1. {o \in Acquired!Stored(db) : Acquired!Within(Acquired!Created(db, o), r)} = S
      BY EveryOrder DEF Acquired!Stored, Acquired!Within, Acquired!Created, Acquired!NoDay,
             Stored, Within, Created, NoDay
    <3>2. Acquired!OrdersIn(db, ch, r) =
              {o \in S : Acquired!normalizeOrderChannel(Acquired!Content(db, o).channel) = ch}
      BY <3>1 DEF Acquired!OrdersIn
    <3> QED
      BY <3>2, SameChannel DEF Acquired!Content, Content
  <2>5. Acquired!Those(db, In(ch), Acquired!Net) = Goal!Those(db, In(ch), Goal!Net)
    <3> HIDE DEF In
    <3> QED
      BY DEF Acquired!Those, Goal!Those, Acquired!Content, Goal!Content, Acquired!Net, Goal!Net
  <2> HIDE DEF In
  <2> QED
    BY <2>2, <2>3, <2>4, <2>5, SameSize
<1> QED
  BY <1>1, <1>3, <1>4, <1>5, <1>6, SameTotal

(* What the funnel counts as having reached a stage is what the others ask *)
(* of an order.                                                            *)
LEMMA SameStages ==
    ASSUME NEW c
    PROVE  /\ Funnel!Reached(c, "created")
           /\ Funnel!Reached(c, "paid") <=> PaidReach(c)
           /\ Funnel!Reached(c, "completed") <=> RedeemedGross(c)
           /\ Funnel!Reached(c, "processing") <=> Logistics!reachedProcessing(c)
           /\ Funnel!Reached(c, "shipped") <=> Logistics!reachedShipment(c)
<1>1. Funnel!Reached(c, "created") /\ (Funnel!Reached(c, "paid") <=> PaidReach(c))
  BY DEF Funnel!Reached, Funnel!PaidReach, PaidReach, Funnel!Advanced, Advanced
<1>2. /\ Funnel!Past["completed"] = {"completed", "returned"}
      /\ Funnel!Past["processing"] = {"processing", "shipped", "in_pvz", "completed", "returned"}
      /\ Funnel!Past["shipped"] = {"shipped", "in_pvz", "completed", "returned"}
  BY DEF Funnel!Past
<1>3. \A k \in {"completed", "processing", "shipped"} :
          Funnel!Reached(c, k) <=> c.stage \in Funnel!Past[k]
  BY DEF Funnel!Reached
<1> QED
  BY <1>1, <1>2, <1>3 DEF RedeemedGross, Logistics!reachedProcessing, Logistics!reachedShipment

LEMMA RulesAreShared ==
    ASSUME NEW r
    PROVE  AgreeOn(r)
<1>1. PICK S : S = Scope(db, r, NoFilters)
  OBVIOUS
<1>2. PICK k : k = Metrics!counts(db, r, NoFilters)
  OBVIOUS
<1>3. PICK s : s = Metrics!stages(db, r, NoFilters)
  OBVIOUS
<1>4. PICK u : u = Metrics!stageUnits(db, r, NoFilters)
  OBVIOUS
<1>5. PICK c : c = Funnel!reachOrders(db, r, NoFilters)
  OBVIOUS
<1>6. PICK l : l = Logistics!summary(db, r, Today, NoFilters)
  OBVIOUS
<1>7. PICK g : g = Goal!orders(db, r)
  OBVIOUS
<1>8. PICK net : net = Metrics!RedeemedNetStage(k, s, u)
  OBVIOUS
<1>9. /\ k.orders = Cardinality(S)
      /\ k.revenue = Total(db, {o \in S : Net(Content(db, o))}, "total")
      /\ k.redeemedGross = Cardinality({o \in S : RedeemedGross(Content(db, o))})
      /\ k.fullyReturned = Cardinality({o \in S : FullyReturned(Content(db, o))})
  BY <1>1, <1>2, MetricsTells
<1>10. /\ s.orders["Paid"] = Cardinality({o \in S : PaidReach(Content(db, o))})
       /\ s.revenue["Paid"] = Total(db, {o \in S : PaidReach(Content(db, o))}, "total")
       /\ s.revenue["RedeemedGross"] =
              Total(db, {o \in S : RedeemedGross(Content(db, o))}, "total")
       /\ s.refund = Total(db, {o \in S : Returned(Content(db, o))}, "refund")
  BY <1>1, <1>3, MetricsStagesTell
<1>11. /\ Reaching(db, S, "created") = S
       /\ Reaching(db, S, "paid") = {o \in S : PaidReach(Content(db, o))}
       /\ Reaching(db, S, "completed") = {o \in S : RedeemedGross(Content(db, o))}
       /\ Reaching(db, S, "processing") = {o \in S : Logistics!reachedProcessing(Content(db, o))}
       /\ Reaching(db, S, "shipped") = {o \in S : Logistics!reachedShipment(Content(db, o))}
  BY SameStages DEF Reaching
<1>12. /\ \A stage \in {"created", "paid", "processing", "shipped", "completed"} :
              /\ c.orders[stage] = Cardinality(Reaching(db, S, stage))
              /\ c.revenue[stage] = Total(db, Reaching(db, S, stage), "total")
              /\ Funnel!reachUnits(db, r, NoFilters)[stage] = Funnel!Units(db, Reaching(db, S, stage))
       /\ c.fullyReturned = Cardinality({o \in S : FullyReturned(Content(db, o))})
       /\ c.refund = Total(db, {o \in S : Returned(Content(db, o))}, "refund")
  BY <1>1, <1>5, FunnelTells
<1>13. /\ l.orders = Cardinality(S)
       /\ l.revenue = Total(db, {o \in S : Net(Content(db, o))}, "total")
       /\ l.processed = Cardinality({o \in S : Logistics!reachedProcessing(Content(db, o))})
       /\ l.shipped = Cardinality({o \in S : Logistics!reachedShipment(Content(db, o))})
  BY <1>1, <1>6, LogisticsTells
<1>14. /\ g.all.revenue = Total(db, {o \in S : Net(Content(db, o))}, "total")
       /\ g.all.redeemed = Total(db, {o \in S : RedeemedGross(Content(db, o))}, "total")
       /\ g.all.refund = Total(db, {o \in S : Returned(Content(db, o))}, "refund")
       /\ \A ch \in Goal!Channels : Acquired!orderTotals(db, r)[ch].net = g[ch].net
  BY <1>1, <1>7, GoalTells, Zenon
<1>15. u["Paid"] = Funnel!Units(db, {o \in S : PaidReach(Content(db, o))})
  <2>1. Metrics!InStage(db, S, "Paid") = {o \in S : PaidReach(Content(db, o))}
    BY DEF Metrics!InStage, Metrics!Conditions, Metrics!Content, Content,
           Metrics!PaidReach, PaidReach, Metrics!Advanced, Advanced
  <2>2. u["Paid"] = Metrics!Units(db, Metrics!InStage(db, S, "Paid"))
    BY <1>1, <1>4, SameScope DEF Metrics!stageUnits, Metrics!StageNames
  <2> QED
    BY <2>1, <2>2, SameUnits
<1>16. /\ net.orders = k.redeemedGross - k.fullyReturned
       /\ net.revenue = s.revenue["RedeemedGross"] - s.refund
  BY <1>8 DEF Metrics!RedeemedNetStage, Metrics!makeStage
<1>17. PICK got : got = [st \in {<<"reachOrders", "cur">>} |-> c]
  BY Zenon
<1>18. Funnel!RedeemedNet(got) = c.orders["completed"] - c.fullyReturned
  BY <1>17 DEF Funnel!RedeemedNet
<1>19. /\ c.orders["created"] = k.orders /\ l.orders = k.orders
       /\ l.revenue = k.revenue /\ g.all.revenue = k.revenue
       /\ c.orders["paid"] = s.orders["Paid"] /\ c.revenue["paid"] = s.revenue["Paid"]
       /\ Funnel!reachUnits(db, r, NoFilters)["paid"] = u["Paid"]
       /\ l.processed = c.orders["processing"] /\ l.shipped = c.orders["shipped"]
       /\ k.redeemedGross = c.orders["completed"]
  BY <1>9, <1>10, <1>11, <1>12, <1>13, <1>14, <1>15, Zenon
<1>20. c.revenue["completed"] = s.revenue["RedeemedGross"]
  BY <1>10, <1>11, <1>12
<1>21. /\ net.orders = Funnel!RedeemedNet(got)
       /\ net.revenue = c.revenue["completed"] - c.refund
       /\ net.revenue = g.all.redeemed - g.all.refund
  BY <1>9, <1>10, <1>12, <1>14, <1>16, <1>18, <1>19, <1>20
<1> QED
  BY <1>2, <1>3, <1>4, <1>5, <1>6, <1>7, <1>8, <1>14, <1>17, <1>19, <1>21 DEF AgreeOn

(* ADR 0008: asked of the same month the funnel, the key figures, the      *)
(* logistics, the goal and the acquisition tell the same of orders, sums   *)
(* and returns, whatever the tables hold.                                  *)
THEOREM OneSetOfRules == Spec => []ReportsAgree
<1>1. ReportsAgree
  BY RulesAreShared DEF ReportsAgree
<1> QED
  BY <1>1, PTL

-----------------------------------------------------------------------------
(* What a step does to the request under way.                              *)
SameTables == UNCHANGED <<orders, items, days, shop, runs, plan, manual>>

LEMMA TablesStay == SameTables => db' = db
  BY DEF SameTables, db

LEMMA AskedStays ==
    ASSUME PageForm, ask' = ask, page'.year = page.year, page'.month = page.month
    PROVE  Asked' = Asked
  BY Zenon DEF Asked

(* The page is asked of the month it shows, and shows no other unless it   *)
(* asks again.                                                             *)
SameMonth == page'.year = page.year /\ page'.month = page.month

LEMMA PageKeepsMonth ==
    ASSUME PageForm,
           \/ UNCHANGED page
           \/ \E flag \in {"loading", "saving"} : page' = Page!Failed(page, flag)
           \/ \E report : Page!Loaded(report)
           \/ \E total : Page!SaveTarget(total)
           \/ Page!SaveAnswers
           \/ Page!ServerGone
    PROVE  SameMonth
<1>1. {"year", "month", "loading", "saving", "error", "shown", "saves"} \subseteq DOMAIN page
  BY DEF PageForm
<1>2. ASSUME NEW p, {"year", "month"} \subseteq DOMAIN p, NEW flag \in {"loading", "saving"}
      PROVE  /\ Page!Failed(p, flag).year = p.year /\ Page!Failed(p, flag).month = p.month
             /\ DOMAIN Page!Failed(p, flag) = DOMAIN p
  BY <1>2, Zenon DEF Page!Failed
<1>3. CASE UNCHANGED page
  BY <1>3 DEF SameMonth
<1>4. ASSUME NEW flag \in {"loading", "saving"}, page' = Page!Failed(page, flag)
      PROVE  SameMonth
  BY <1>1, <1>2, <1>4 DEF SameMonth
<1>5. ASSUME NEW report, Page!Loaded(report)
      PROVE  SameMonth
  <2>1. PICK shown : page' = [page EXCEPT !.loading = FALSE, !.shown = shown]
    BY <1>5, Zenon DEF Page!Loaded
  <2> QED
    BY <1>1, <2>1 DEF SameMonth
<1>6. ASSUME NEW total, Page!SaveTarget(total)
      PROVE  SameMonth
  <2>1. PICK saves : page' = [page EXCEPT !.saving = TRUE, !.error = FALSE, !.saves = saves]
    BY <1>6 DEF Page!SaveTarget
  <2> QED
    BY <1>1, <2>1 DEF SameMonth
<1>7. CASE Page!SaveAnswers
  <2>1. PICK shown : page' = [page EXCEPT !.saving = FALSE, !.shown = shown]
    BY <1>7, Zenon DEF Page!SaveAnswers
  <2> QED
    BY <1>1, <2>1 DEF SameMonth
<1>8. CASE Page!ServerGone
  <2>1. PICK p : /\ p = IF page.loading THEN Page!Failed(page, "loading") ELSE page
                 /\ page' = IF page.saving THEN Page!Failed(p, "saving") ELSE p
    BY <1>8 DEF Page!ServerGone
  <2>2. {"year", "month"} \subseteq DOMAIN p /\ p.year = page.year /\ p.month = page.month
    BY <1>1, <1>2, <2>1
  <2>3. page' = p \/ page' = Page!Failed(p, "saving")
    BY <2>1
  <2> QED
    BY <1>2, <2>2, <2>3 DEF SameMonth
<1> QED
  BY <1>3, <1>4, <1>5, <1>6, <1>7, <1>8

(* What a server can be asked.                                             *)
KnownReports == PeriodReports \cup {"goal", "plan", "traffic", "values"}

(* The goal does not read the steps in the shop, the acquisition not the   *)
(* journal of the syncs.                                                   *)
LEMMA GoalSparesShop ==
    ASSUME NEW t, NEW u, u.orders = t.orders, u.days = t.days, u.plan = t.plan, u.runs = t.runs,
           NEW a, NEW got, NEW st
    PROVE  Goal!Execute(u, st, a, got) = Goal!Execute(t, st, a, got)
<1>1. Goal!DataBounds(u) = Goal!DataBounds(t)
  BY Zenon DEF Goal!DataBounds, Goal!Stored, Goal!Created
<1>2. Goal!planOf(u, a.year) = Goal!planOf(t, a.year)
  BY Zenon DEF Goal!planOf, Goal!RestrictDomain, Goal!Restrict
<1>3. \A S : Goal!Aggregate(u, S) = Goal!Aggregate(t, S)
  BY Zenon DEF Goal!Aggregate, Goal!Count, Goal!Those, Goal!Revenue, Goal!Refunded, Goal!Total,
               Goal!Content
<1>4. \A r : Goal!orders(u, r) = Goal!orders(t, r)
  BY <1>3, Zenon DEF Goal!orders, Goal!Stored, Goal!Created, Goal!Content
<1>5. \A r : Goal!sessions(u, r) = Goal!sessions(t, r)
  BY Zenon DEF Goal!sessions
<1>6. Goal!latestRuns(u) = Goal!latestRuns(t) /\ Goal!latestDataDays(u) = Goal!latestDataDays(t)
  BY Zenon DEF Goal!latestRuns, Goal!latestDataDays
<1> QED
  BY <1>1, <1>2, <1>4, <1>5, <1>6, Zenon DEF Goal!Execute

LEMMA AcquiredSparesRuns ==
    ASSUME NEW t, NEW u, u.orders = t.orders, u.days = t.days, u.shop = t.shop,
           NEW a, NEW got, NEW st
    PROVE  Acquired!Execute(u, st, a, got) = Acquired!Execute(t, st, a, got)
<1>1. Acquired!DataBounds(u) = Acquired!DataBounds(t)
  BY Zenon DEF Acquired!DataBounds, Acquired!Stored, Acquired!Created
<1>2. \A ch, r : Acquired!Visits(u, ch, r) = Acquired!Visits(t, ch, r)
  BY Zenon DEF Acquired!Visits
<1>3. \A ch, r : Acquired!OrdersIn(u, ch, r) = Acquired!OrdersIn(t, ch, r)
  BY Zenon DEF Acquired!OrdersIn, Acquired!Stored, Acquired!Created, Acquired!Content
<1>4. \A r : /\ Acquired!trafficTotals(u, r) = Acquired!trafficTotals(t, r)
             /\ Acquired!ecommerceTotals(u, r) = Acquired!ecommerceTotals(t, r)
             /\ Acquired!dailyTraffic(u, r) = Acquired!dailyTraffic(t, r)
  BY <1>2, Zenon DEF Acquired!trafficTotals, Acquired!ecommerceTotals, Acquired!dailyTraffic
<1>5. \A S : /\ Acquired!Count(u, S, Acquired!Paid) = Acquired!Count(t, S, Acquired!Paid)
             /\ Acquired!Count(u, S, Acquired!Net) = Acquired!Count(t, S, Acquired!Net)
  BY Zenon DEF Acquired!Count, Acquired!Those, Acquired!Content
<1>6. \A r : Acquired!orderTotals(u, r) = Acquired!orderTotals(t, r)
  BY <1>3, <1>5, Zenon DEF Acquired!orderTotals
<1>7. \A o : Acquired!Created(u, o) = Acquired!Created(t, o)
  BY Zenon DEF Acquired!Created
<1>8. ASSUME NEW r
      PROVE  Acquired!dailyOrders(u, r) = Acquired!dailyOrders(t, r)
  <2> DEFINE Sold(x) == UNION {Acquired!OrdersIn(x, ch, r) : ch \in Acquired!Channels}
             SoldOn(x) == {Acquired!Created(x, o) : o \in Sold(x)}
             Row(x, day) ==
                 [ch \in Acquired!Channels |->
                     [orders |-> Acquired!Cardinality(Acquired!OrdersIn(x, ch, Acquired!OneDay(day))),
                      paid   |-> Acquired!Count(x, Acquired!OrdersIn(x, ch, Acquired!OneDay(day)),
                                                Acquired!Paid)]]
  <2>1. SoldOn(u) = SoldOn(t)
    BY <1>3, <1>7, Zenon
  <2>2. \A day : Row(u, day) = Row(t, day)
    BY <1>3, <1>5, Zenon
  <2>3. /\ Acquired!dailyOrders(u, r) = [day \in SoldOn(u) |-> Row(u, day)]
        /\ Acquired!dailyOrders(t, r) = [day \in SoldOn(t) |-> Row(t, day)]
    BY Zenon DEF Acquired!dailyOrders
  <2> HIDE DEF SoldOn, Row
  <2> QED
    BY <2>1, <2>2, <2>3, Zenon
<1> QED
  BY <1>1, <1>4, <1>6, <1>8, Zenon DEF Acquired!Execute

(* What a report reads is as it was: a sync of the steps in the shop may   *)
(* begin or end beside the report of the acquisition, and store its days   *)
(* beside that of the goal.                                                *)
Unread ==
    \/ SameTables
    \/ Asked.report = "goal" /\ UNCHANGED <<orders, days, plan, runs>>
    \/ Asked.report = "acquisition" /\ UNCHANGED <<orders, days, shop>>

LEMMA ReadsOf ==
    ASSUME NEW r \in KnownReports \cup {"page"}
    PROVE  /\ r \in {"goal", "page"} => Reads[r] = {"orders", "days", "plan", "runs"}
           /\ r = "acquisition" => Reads[r] = {"orders", "days", "shop"}
           /\ r \notin {"goal", "page", "acquisition"} =>
                 Reads[r] \cap {"shop", "runs"} = {}
<1>1. PICK one, two, three :
          /\ one = [x \in {"funnel", "metrics", "logistics", "dynamics", "customers", "values"} |->
                       {"orders"}]
          /\ two = [x \in {"goal", "page"} |-> {"orders", "days", "plan", "runs"}]
          /\ three = [acquisition |-> {"orders", "days", "shop"}, plan |-> {"plan"},
                      traffic |-> {"days", "manual"}]
  BY Zenon
<1>2. PICK first : first = one ++ two
  BY Zenon
<1>3. Reads = first ++ three
  BY <1>1, <1>2, Zenon DEF Reads
<1>4. /\ DOMAIN first = DOMAIN one \cup DOMAIN two
      /\ \A x \in DOMAIN first : first[x] = IF x \in DOMAIN one THEN one[x] ELSE two[x]
  BY <1>2, Zenon DEF ++
<1>5. \A x \in DOMAIN first \cup DOMAIN three :
          Reads[x] = IF x \in DOMAIN first THEN first[x] ELSE three[x]
  BY <1>3, Zenon DEF ++
<1>6. DOMAIN one = {"funnel", "metrics", "logistics", "dynamics", "customers", "values"}
      /\ DOMAIN two = {"goal", "page"} /\ DOMAIN three = {"acquisition", "plan", "traffic"}
  BY <1>1
<1> QED
  BY <1>1, <1>4, <1>5, <1>6 DEF KnownReports, PeriodReports

(* What a write leaves of the answers.                                     *)
AnswersSame == \A st, got : Answers(db', st, Asked, got) = Answers(db, st, Asked, got)

LEMMA UnreadAnswers == Unread => AnswersSame
<1> SUFFICES ASSUME Unread, NEW st, NEW got
             PROVE  Answers(db', st, Asked, got) = Answers(db, st, Asked, got)
  BY Zenon DEF AnswersSame
<1>1. PICK a, t, u : a = Asked /\ t = db /\ u = db'
  BY Zenon
<1>2. /\ t.orders = orders /\ t.days = days /\ t.plan = plan /\ t.runs = runs /\ t.shop = shop
      /\ u.orders = orders' /\ u.days = days' /\ u.plan = plan' /\ u.runs = runs'
      /\ u.shop = shop'
  BY <1>1 DEF db
<1>3. CASE SameTables
  BY <1>3, TablesStay, Zenon
<1>4. CASE a.report = "goal" /\ UNCHANGED <<orders, days, plan, runs>>
  <2>1. Goal!Execute(u, st, a, got) = Goal!Execute(t, st, a, got)
    BY <1>2, <1>4, GoalSparesShop
  <2>2. Answers(u, st, a, got) = Answers(t, st, a, got)
    BY <1>4, <2>1 DEF Answers
  <2> QED
    BY <1>1, <2>2
<1>5. CASE a.report = "acquisition" /\ UNCHANGED <<orders, days, shop>>
  <2>1. Acquired!Execute(u, st, a, got) = Acquired!Execute(t, st, a, got)
    BY <1>2, <1>5, AcquiredSparesRuns
  <2>2. Answers(u, st, a, got) = Answers(t, st, a, got)
    BY <1>5, <2>1 DEF Answers
  <2> QED
    BY <1>1, <2>2
<1> QED
  BY <1>1, <1>3, <1>4, <1>5 DEF Unread

(* A step ends the request, begins one, runs a statement of it, leaves it  *)
(* alone, or writes to a table.                                            *)
Ends    == request' = Closed
Begins  == request' = Opened /\ Serving' /\ Valid(Asked')
Runs    == Query /\ SameTables /\ boot' = boot /\ Asked' = Asked
Spares  == request' = request /\ SameTables /\ boot' = boot /\ Asked' = Asked
Writes  == \E written : /\ Written(written) /\ (Reading(written) \/ Unread)
                        /\ boot' = boot /\ Asked' = Asked
Migrates == ~Serving /\ request' = request /\ Asked' = Asked

LEMMA StepKinds ==
    ASSUME PageForm, ask \in Asks, [Next]_vars
    PROVE  Ends \/ Begins \/ Runs \/ Spares \/ Writes \/ Migrates
<1> DEFINE OfKind == Ends \/ Begins \/ Runs \/ Spares \/ Writes \/ Migrates
<1>1. ASSUME ask' = ask, SameMonth
      PROVE  Asked' = Asked
  BY <1>1, AskedStays DEF SameMonth
<1>2. UNCHANGED page => SameMonth
  BY DEF SameMonth
<1>3. CASE UNCHANGED vars
  <2>1. SameTables /\ UNCHANGED <<ask, page, request, boot>>
    BY <1>3 DEF vars, tables, bootVars, ecomVars, pageVars, SameTables
  <2> QED
    BY <1>1, <1>2, <2>1 DEF Spares
<1>4. CASE MigrationStep
  <2>1. ~Serving /\ UNCHANGED <<ask, page, request>>
    BY <1>4 DEF MigrationStep, pageVars
  <2> QED
    BY <1>1, <1>2, <2>1 DEF Migrates
<1>5. CASE Stop \/ Respond \/ QueryFails
  BY <1>5 DEF Stop, Respond, QueryFails, Ends
<1>6. ASSUME NEW i, NEW d, ImportDocument(i, d)
      PROVE  OfKind
  <2>1. Written({"orders"}) /\ Reading({"orders"}) /\ UNCHANGED <<ask, page, boot>>
    BY <1>6 DEF ImportDocument, bootVars, pageVars
  <2> QED
    BY <1>1, <1>2, <2>1, Zenon DEF Writes
<1>7. ASSUME NEW b, SyncTraffic(b)
      PROVE  OfKind
  <2>1. /\ Written({"days", "runs"}) /\ Reading({"days", "runs"})
        /\ UNCHANGED <<ask, page, boot>>
    BY <1>7 DEF SyncTraffic, bootVars, pageVars
  <2> QED
    BY <1>1, <1>2, <2>1, Zenon DEF Writes
<1>8. CASE EcomStep
  <2>1. PICK written : /\ written = (IF shop' = shop THEN {} ELSE {"shop"})
                                    \cup (IF runs' = runs THEN {} ELSE {"runs"})
                       /\ Written(written) /\ Reading({"shop", "runs"})
                       /\ UNCHANGED <<ask, page, boot, orders, items, days, manual, plan>>
    BY <1>8, Zenon DEF EcomStep, tables, bootVars, pageVars
  <2>2. PICK r \in KnownReports \cup {"page"} : r = ask.report
    BY ReportAssumption DEF KnownReports
  <2>3. Reads[r] \cap {"shop", "runs"} # {}
    BY <2>1, <2>2, Zenon DEF Reading
  <2>4. CASE r \in {"goal", "page"}
    <3>1. Asked.report = "goal"
      BY <2>2, <2>4 DEF Asked, PageForm
    <3>2. Reading(written) \/ runs' = runs
      BY <2>1, <2>2, <2>4, ReadsOf DEF Reading
    <3> QED
      BY <1>1, <1>2, <2>1, <3>1, <3>2 DEF Writes, Unread
  <2>5. CASE r = "acquisition"
    <3>1. Asked.report = "acquisition"
      BY <2>2, <2>5 DEF Asked, PageForm
    <3>2. Reading(written) \/ shop' = shop
      BY <2>1, <2>2, <2>5, ReadsOf DEF Reading
    <3> QED
      BY <1>1, <1>2, <2>1, <3>1, <3>2 DEF Writes, Unread
  <2> QED
    BY <2>3, <2>4, <2>5, ReadsOf
<1>9. ASSUME NEW edit, PutPlan(edit) \/ PutTraffic(edit)
      PROVE  OfKind
  <2>1. /\ \E written : Written(written) /\ Reading(written)
        /\ UNCHANGED <<ask, page, boot>>
    BY <1>9, Zenon DEF PutPlan, PutTraffic, bootVars, pageVars
  <2> QED
    BY <1>1, <1>2, <2>1, Zenon DEF Writes
<1>10. CASE Open
  <2>1. /\ Serving /\ Valid(Asked) /\ request' = Opened
        /\ UNCHANGED <<ask, page, boot>>
    BY <1>10 DEF Open, Frame, bootVars, pageVars
  <2>2. Asked' = Asked
    BY <1>1, <1>2, <2>1
  <2>3. Serving' /\ Valid(Asked')
    BY <2>1, <2>2 DEF Serving
  <2> QED
    BY <2>1, <2>3 DEF Begins
<1>11. CASE Query
  <2>1. SameTables /\ UNCHANGED <<ask, page, boot>>
    BY <1>11 DEF Query, Frame, tables, bootVars, ecomVars, pageVars, SameTables
  <2> QED
    BY <1>1, <1>2, <1>11, <2>1 DEF Runs
<1>12. ASSUME NEW year \in Years, NEW month \in Target!Months, PageLoads(year, month)
       PROVE  OfKind
  <2>1. /\ Serving /\ OnPage /\ Page!Load(year, month) /\ request' = Opened
        /\ UNCHANGED <<ask, boot>>
    BY <1>12 DEF PageLoads, Frame, bootVars
  <2>2. page'.year = year /\ page'.month = month
    BY <2>1 DEF Page!Load, PageForm
  <2>3. Asked' = [ask EXCEPT !.report = "goal", !.year = year, !.month = month]
    BY <2>1, <2>2 DEF Asked, OnPage
  <2>4. Asked'.report = "goal" /\ Asked'.year = year /\ Asked'.month = month
    BY <2>3 DEF PageForm
  <2>5. Valid(Asked')
    BY <2>4 DEF Valid
  <2> QED
    BY <2>1, <2>5 DEF Begins, Serving
<1>13. ASSUME NEW total, PageSaves(total)
       PROVE  OfKind
  <2>1. /\ Page!SaveTarget(total) /\ SameTables /\ UNCHANGED <<ask, request, boot>>
    BY <1>13 DEF PageSaves, Frame, tables, bootVars, ecomVars, SameTables, Page!SaveTarget
  <2>2. SameMonth
    BY <2>1, PageKeepsMonth
  <2> QED
    BY <1>1, <2>1, <2>2 DEF Spares
<1>14. CASE SaveCommits \/ LostCommits
  <2>1. OnPage /\ Written({"plan"}) /\ UNCHANGED <<ask, page, boot>>
    BY <1>14 DEF SaveCommits, LostCommits, Frame, bootVars, Page!SaveCommits, Page!LostCommits
  <2>2. Reading({"plan"})
    <3>1. PICK r \in KnownReports \cup {"page"} : r = "page"
      OBVIOUS
    <3>2. Reads[r] = {"orders", "days", "plan", "runs"} /\ ask.report = r
      BY <2>1, <3>1, ReadsOf DEF OnPage
    <3> QED
      BY <3>2 DEF Reading
  <2> QED
    BY <1>1, <1>2, <2>1, <2>2, Zenon DEF Writes
<1>15. CASE SaveReads \/ SaveAnswers \/ SaveFails
  <2>1. SameTables /\ UNCHANGED <<ask, request, boot>>
    BY <1>15 DEF SaveReads, SaveAnswers, SaveFails, Frame, tables, bootVars, ecomVars,
       SameTables, Page!SaveReads, Page!SaveAnswers, Page!SaveFails
  <2>2. \/ UNCHANGED page \/ Page!SaveAnswers \/ page' = Page!Failed(page, "saving")
    BY <1>15 DEF SaveReads, SaveAnswers, SaveFails, Page!SaveReads, Page!SaveFails
  <2>3. SameMonth
    BY <2>2, PageKeepsMonth
  <2> QED
    BY <1>1, <2>1, <2>3 DEF Spares
<1> QED
  BY <1>3, <1>4, <1>5, <1>6, <1>7, <1>8, <1>9, <1>10, <1>11, <1>12, <1>13, <1>14, <1>15 DEF Next

-----------------------------------------------------------------------------
(* The statements of a report, one list after the other.                   *)
IsList(s)    == \E S : s \in Seq(S)
Occurs(x, s) == \E k \in DOMAIN s : s[k] = x

(* The list begins with all of B. *)
Headed(B, s) ==
    /\ IsList(s)
    /\ \A b \in B : Occurs(b, s)
    /\ \A k \in DOMAIN s : s[k] \in B \/ \A b \in B : \E j \in DOMAIN s : j < k /\ s[j] = b

LEMMA Joined ==
    ASSUME NEW s, NEW t, IsList(s), IsList(t)
    PROVE  /\ IsList(s \o t)
           /\ DOMAIN s = 1..Len(s) /\ DOMAIN t = 1..Len(t) /\ DOMAIN (s \o t) = 1..Len(s) + Len(t)
           /\ Len(s) \in Nat /\ Len(t) \in Nat
           /\ \A k \in 1..Len(s) : (s \o t)[k] = s[k]
           /\ \A k \in 1..Len(t) : (s \o t)[Len(s) + k] = t[k]
<1>1. PICK S, T : s \in Seq(S) /\ t \in Seq(T)
  BY DEF IsList
<1>2. PICK U : U = S \cup T
  OBVIOUS
<1>3. s \in Seq(U) /\ t \in Seq(U)
  <2>1. /\ Len(s) \in Nat /\ s \in [1..Len(s) -> S] /\ Len(t) \in Nat /\ t \in [1..Len(t) -> T]
    BY <1>1, LenProperties
  <2>2. s \in [1..Len(s) -> U] /\ t \in [1..Len(t) -> U]
    BY <1>2, <2>1
  <2> QED
    BY <2>1, <2>2, SeqDef
<1>4. s \o t \in Seq(U)
  BY <1>3
<1> QED
  BY <1>3, <1>4 DEF IsList

LEMMA OccursJoined ==
    ASSUME NEW s, NEW t, IsList(s), IsList(t), NEW x
    PROVE  Occurs(x, s \o t) <=> Occurs(x, s) \/ Occurs(x, t)
<1>1. ASSUME Occurs(x, s \o t)
      PROVE  Occurs(x, s) \/ Occurs(x, t)
  <2>1. PICK k \in 1..Len(s) + Len(t) : (s \o t)[k] = x
    BY <1>1, Joined DEF Occurs
  <2>2. CASE k \in 1..Len(s)
    BY <2>1, <2>2, Joined DEF Occurs
  <2>3. CASE k \notin 1..Len(s)
    <3>1. PICK j \in 1..Len(t) : k = Len(s) + j
      <4>1. Len(s) \in Nat /\ Len(t) \in Nat
        BY Joined
      <4>2. k - Len(s) \in 1..Len(t) /\ k = Len(s) + (k - Len(s))
        BY <2>3, <4>1
      <4> QED
        BY <4>2
    <3>2. t[j] = x
      BY <2>1, <3>1, Joined
    <3> QED
      BY <3>1, <3>2, Joined DEF Occurs
  <2> QED
    BY <2>2, <2>3
<1>2. ASSUME NEW k \in DOMAIN s, s[k] = x
      PROVE  Occurs(x, s \o t)
  <2>1. k \in 1..Len(s) + Len(t) /\ (s \o t)[k] = x
    BY <1>2, Joined
  <2> QED
    BY <2>1, Joined DEF Occurs
<1>3. ASSUME NEW k \in DOMAIN t, t[k] = x
      PROVE  Occurs(x, s \o t)
  <2>1. Len(s) + k \in 1..Len(s) + Len(t) /\ (s \o t)[Len(s) + k] = x
    <3>1. k \in 1..Len(t) /\ Len(s) \in Nat /\ Len(t) \in Nat
      BY Joined
    <3> QED
      BY <1>3, <3>1, Joined
  <2> QED
    BY <2>1, Joined DEF Occurs
<1> QED
  BY <1>1, <1>2, <1>3 DEF Occurs

LEMMA HeadedJoined ==
    ASSUME NEW B, NEW s, NEW t, Headed(B, s), IsList(t)
    PROVE  Headed(B, s \o t)
<1>1. IsList(s) /\ \A b \in B : Occurs(b, s)
  BY DEF Headed
<1>2. /\ IsList(s \o t) /\ Len(s) \in Nat /\ Len(t) \in Nat
      /\ DOMAIN s = 1..Len(s) /\ DOMAIN (s \o t) = 1..Len(s) + Len(t)
      /\ \A k \in 1..Len(s) : (s \o t)[k] = s[k]
  BY <1>1, Joined
<1>3. ASSUME NEW k \in 1..Len(s) + Len(t), NEW b \in B, (s \o t)[k] \notin B
      PROVE  \E j \in 1..Len(s) + Len(t) : j < k /\ (s \o t)[j] = b
  <2>1. CASE k \in 1..Len(s)
    <3>1. PICK j \in 1..Len(s) : j < k /\ s[j] = b
      BY <1>2, <1>3, <2>1 DEF Headed
    <3> QED
      BY <1>2, <3>1
  <2>2. CASE k \notin 1..Len(s)
    <3>1. PICK j \in 1..Len(s) : s[j] = b
      BY <1>1, <1>2 DEF Occurs
    <3> QED
      BY <1>2, <2>2, <3>1
  <2> QED
    BY <2>1, <2>2
<1>4. \A b \in B : Occurs(b, s \o t)
  <2>1. IsList(s) /\ \A x : Occurs(x, s) => Occurs(x, s \o t)
    BY <1>1, OccursJoined
  <2> QED
    BY <1>1, <2>1
<1> QED
  BY <1>2, <1>3, <1>4 DEF Headed

LEMMA HeadedItself ==
    ASSUME NEW s, IsList(s)
    PROVE  Headed(Range(s), s)
  BY DEF Headed, Occurs, Range

LEMMA HeadedByNone ==
    ASSUME NEW s, IsList(s)
    PROVE  Headed({}, s)
  BY DEF Headed

(* Short lists. *)
LEMMA OneListed ==
    ASSUME NEW a
    PROVE  IsList(<<a>>) /\ \A x : Occurs(x, <<a>>) <=> x = a
<1>1. PICK s : s = <<a>>
  BY Zenon
<1>2. s \in Seq({a}) /\ DOMAIN s = {1} /\ s[1] = a
  BY <1>1
<1> QED
  BY <1>1, <1>2, Zenon DEF IsList, Occurs

LEMMA NoneListed == IsList(<<>>) /\ \A x : ~Occurs(x, <<>>)
<1>1. PICK s : s = <<>>
  OBVIOUS
<1>2. s \in Seq({}) /\ DOMAIN s = {}
  BY <1>1
<1> QED
  BY <1>1, <1>2 DEF IsList, Occurs

LEMMA TwoListed ==
    ASSUME NEW a, NEW b
    PROVE  IsList(<<a, b>>) /\ \A x : Occurs(x, <<a, b>>) <=> x \in {a, b}
<1>1. PICK s : s = <<a, b>>
  OBVIOUS
<1>2. s \in Seq({a, b}) /\ DOMAIN s = 1..2 /\ s[1] = a /\ s[2] = b
  BY <1>1
<1>3. 1 \in 1..2 /\ 2 \in 1..2 /\ \A k \in 1..2 : k = 1 \/ k = 2
  OBVIOUS
<1> QED
  BY <1>1, <1>2, <1>3, Zenon DEF IsList, Occurs

LEMMA FourListed ==
    ASSUME NEW a, NEW b, NEW c, NEW d
    PROVE  IsList(<<a, b, c, d>>) /\ \A x : Occurs(x, <<a, b, c, d>>) <=> x \in {a, b, c, d}
<1>1. PICK s : s = <<a, b, c, d>>
  BY Zenon
<1>2. s \in Seq({a, b, c, d}) /\ DOMAIN s = 1..4 /\ s[1] = a /\ s[2] = b /\ s[3] = c /\ s[4] = d
  BY <1>1
<1>3. /\ 1 \in 1..4 /\ 2 \in 1..4 /\ 3 \in 1..4 /\ 4 \in 1..4
      /\ \A k \in 1..4 : k = 1 \/ k = 2 \/ k = 3 \/ k = 4
  OBVIOUS
<1> QED
  BY <1>1, <1>2, <1>3, Zenon DEF IsList, Occurs

LEMMA FourMade ==
    ASSUME NEW f, f = [k \in 1..4 |-> f[k]]
    PROVE  IsList(f) /\ \A k \in 1..4 : Occurs(f[k], f)
<1>1. PICK S : S = {f[k] : k \in 1..4}
  BY Zenon
<1>2. f \in [1..4 -> S] /\ 4 \in Nat
  BY <1>1
<1>3. f \in Seq(S)
  BY <1>2, SeqDef
<1> QED
  BY <1>2, <1>3 DEF IsList, Occurs

LEMMA FiveListed ==
    ASSUME NEW a, NEW b, NEW c, NEW d, NEW e
    PROVE  IsList(<<a, b, c, d, e>>) /\ \A x \in {a, b, c, d, e} : Occurs(x, <<a, b, c, d, e>>)
<1>1. PICK s : s = <<a, b, c, d, e>>
  BY Zenon
<1>2. /\ s \in Seq({a, b, c, d, e}) /\ DOMAIN s = 1..5
      /\ s[1] = a /\ s[2] = b /\ s[3] = c /\ s[4] = d /\ s[5] = e
  BY <1>1
<1>3. 1 \in 1..5 /\ 2 \in 1..5 /\ 3 \in 1..5 /\ 4 \in 1..5 /\ 5 \in 1..5
  OBVIOUS
<1> QED
  BY <1>1, <1>2, <1>3, Zenon DEF IsList, Occurs

LEMMA SevenListed ==
    ASSUME NEW a, NEW b, NEW c, NEW d, NEW e, NEW f, NEW g
    PROVE  /\ IsList(<<a, b, c, d, e, f, g>>)
           /\ \A x \in {a, b, c, d, e, f, g} : Occurs(x, <<a, b, c, d, e, f, g>>)
<1>1. PICK s : s = <<a, b, c, d, e, f, g>>
  BY Zenon
<1>2. /\ s \in Seq({a, b, c, d, e, f, g}) /\ DOMAIN s = 1..7 /\ s[1] = a /\ s[2] = b
      /\ s[3] = c /\ s[4] = d /\ s[5] = e /\ s[6] = f /\ s[7] = g
  BY <1>1
<1>3. 1 \in 1..7 /\ 2 \in 1..7 /\ 3 \in 1..7 /\ 4 \in 1..7 /\ 5 \in 1..7 /\ 6 \in 1..7 /\ 7 \in 1..7
  OBVIOUS
<1> QED
  BY <1>1, <1>2, <1>3, Zenon DEF IsList, Occurs

(* A list has all of X. *)
Holds(s, X) == IsList(s) /\ \A x \in X : Occurs(x, s)

LEMMA HoldsJoined ==
    ASSUME NEW s, NEW t, NEW X, NEW Y, Holds(s, X), Holds(t, Y)
    PROVE  Holds(s \o t, X \cup Y)
<1>1. IsList(s) /\ IsList(t)
  BY DEF Holds
<1>2. IsList(s \o t)
  BY <1>1, Joined
<1>3. ASSUME NEW x \in X \cup Y
      PROVE  Occurs(x, s \o t)
  BY <1>1, <1>3, OccursJoined DEF Holds
<1> QED
  BY <1>2, <1>3 DEF Holds

LEMMA RangeList ==
    ASSUME NEW a
    PROVE  /\ IsList(RangeStatements(a)) /\ Holds(RangeStatements(a), {})
           /\ Headed(Range(RangeStatements(a)), RangeStatements(a))
           /\ RangeStatements(a) = <<>> \/ RangeStatements(a) = << <<"dataBounds">> >>
           /\ (a.start = NoDay \/ a.end = NoDay) => Range(RangeStatements(a)) = {<<"dataBounds">>}
<1>1. RangeStatements(a) = <<>> \/ RangeStatements(a) = << <<"dataBounds">> >>
  BY DEF RangeStatements
<1>2. IsList(RangeStatements(a))
  BY <1>1, OneListed, NoneListed
<1>3. ASSUME a.start = NoDay \/ a.end = NoDay
      PROVE  Range(RangeStatements(a)) = {<<"dataBounds">>}
  <2>1. PICK s : s = RangeStatements(a)
    OBVIOUS
  <2>2. s = << <<"dataBounds">> >>
    BY <1>3, <2>1 DEF RangeStatements
  <2>3. DOMAIN s = {1} /\ s[1] = <<"dataBounds">>
    BY <2>2
  <2> QED
    BY <2>1, <2>3 DEF Range
<1> QED
  BY <1>1, <1>2, <1>3, HeadedItself DEF Holds

LEMMA SameRangeStatements ==
    ASSUME NEW a
    PROVE  /\ Funnel!RangeStatements(a) = RangeStatements(a)
           /\ Metrics!RangeStatements(a) = RangeStatements(a)
           /\ Logistics!RangeStatements(a) = RangeStatements(a)
           /\ Acquired!RangeStatements(a) = RangeStatements(a)
  BY DEF RangeStatements, NoDay, Funnel!RangeStatements, Funnel!NoDay,
         Metrics!RangeStatements, Metrics!NoDay, Logistics!RangeStatements, Logistics!NoDay,
         Acquired!RangeStatements, Acquired!NoDay

LEMMA FunnelList ==
    ASSUME NEW a, NEW got
    PROVE  /\ Headed(Range(RangeStatements(a)), Funnel!Statements(a, got))
           /\ Holds(Funnel!Statements(a, got), FunnelAsked)
<1>1. PICK r, s, t, u :
          /\ r = RangeStatements(a)
          /\ s = << <<"reachOrders", "cur">>, <<"reachUnits", "cur">>,
                    <<"reachOrders", "prev">>, <<"reachUnits", "prev">> >>
          /\ t = [k \in 1..4 |-> <<"segment", Funnel!Columns[k]>>]
          /\ u = << <<"topLabeled", "problemDesc">>, <<"topLabeled", "cancelReason">> >>
  BY Zenon
<1>2. Funnel!Statements(a, got) = ((r \o s) \o t) \o u
  BY <1>1, SameRangeStatements DEF Funnel!Statements
<1>3. PICK S : S = {<<"reachOrders", "cur">>, <<"reachUnits", "cur">>,
                    <<"reachOrders", "prev">>, <<"reachUnits", "prev">>}
  BY Zenon
<1>4. Holds(s, S)
  BY <1>1, <1>3, FourListed DEF Holds
<1>5. PICK T : T = {t[k] : k \in 1..4}
  OBVIOUS
<1>6. Holds(t, T)
  <2>1. t = [k \in 1..4 |-> t[k]]
    BY <1>1
  <2> QED
    BY <1>5, <2>1, FourMade DEF Holds
<1>7. Holds(u, {})
  BY <1>1, TwoListed DEF Holds
<1>8. Headed(Range(r), ((r \o s) \o t) \o u)
  <2>1. Headed(Range(r), r) /\ IsList(s) /\ IsList(t) /\ IsList(u)
    BY <1>1, <1>4, <1>6, <1>7, RangeList DEF Holds
  <2>2. Headed(Range(r), r \o s)
    BY <2>1, HeadedJoined
  <2>3. Headed(Range(r), (r \o s) \o t)
    BY <2>1, <2>2, HeadedJoined
  <2> QED
    BY <2>1, <2>3, HeadedJoined
<1>9. Holds(((r \o s) \o t) \o u, (({} \cup S) \cup T) \cup {})
  <2>1. Holds(r, {})
    BY <1>1, RangeList
  <2>2. Holds(r \o s, {} \cup S)
    BY <1>4, <2>1, HoldsJoined
  <2>3. Holds((r \o s) \o t, ({} \cup S) \cup T)
    BY <1>6, <2>2, HoldsJoined
  <2> QED
    BY <1>7, <2>3, HoldsJoined
<1>10. FunnelAsked \subseteq S \cup T
  <2>1. \A c \in FunnelAsks : <<"segment", c>> \in T
    <3>1. /\ <<"segment", Funnel!Columns[1]>> \in T /\ <<"segment", Funnel!Columns[2]>> \in T
          /\ <<"segment", Funnel!Columns[3]>> \in T /\ <<"segment", Funnel!Columns[4]>> \in T
      BY <1>1, <1>5
    <3>2. /\ Funnel!Columns[1] = "payment" /\ Funnel!Columns[2] = "delivery"
          /\ Funnel!Columns[3] = "channel" /\ Funnel!Columns[4] = "region"
      BY DEF Funnel!Columns
    <3> QED
      BY <3>1, <3>2 DEF FunnelAsks
  <2>2. ASSUME NEW st \in {"reachOrders", "reachUnits"} \X {"cur", "prev"}
        PROVE  st \in S
    BY <1>3
  <2>3. ASSUME NEW st \in {"segment"} \X FunnelAsks
        PROVE  st \in T
    <3>1. PICK c \in FunnelAsks : st = <<"segment", c>>
      OBVIOUS
    <3> QED
      BY <2>1, <3>1
  <2> QED
    BY <2>2, <2>3 DEF FunnelAsked
<1> QED
  BY <1>1, <1>2, <1>8, <1>9, <1>10 DEF Holds

LEMMA MetricsPeriodList ==
    ASSUME NEW p
    PROVE  Holds(Metrics!PeriodStatements(p),
               (({<<"counts", p>>, <<"netUnits", p>>, <<"stages", p>>, <<"repeatCustomers", p>>,
                  <<"canceledCustomers", p>>, <<"stageUnits", p>>, <<"funnel", p>>}
                 \cup {<<"groupOrders", p, c>> : c \in {"channel", "payment", "delivery", "region"}})
                \cup {<<"groupProducts", p, c>> : c \in {"name", "category", "gender", "brand"}})
               \cup {<<"topCustomers", p, "revenue">>, <<"topCustomers", p, "orders">>})
<1>1. PICK r, s, t, u :
          /\ r = << <<"counts", p>>, <<"netUnits", p>>, <<"stages", p>>, <<"repeatCustomers", p>>,
                    <<"canceledCustomers", p>>, <<"stageUnits", p>>, <<"funnel", p>> >>
          /\ s = [k \in 1..4 |-> <<"groupOrders", p, Metrics!Columns[k]>>]
          /\ t = [k \in 1..4 |-> <<"groupProducts", p, Metrics!Products[k]>>]
          /\ u = << <<"topCustomers", p, "revenue">>, <<"topCustomers", p, "orders">> >>
  OBVIOUS
<1>2. Metrics!PeriodStatements(p) = ((r \o s) \o t) \o u
  BY <1>1 DEF Metrics!PeriodStatements
<1>3. PICK R : R = {<<"counts", p>>, <<"netUnits", p>>, <<"stages", p>>, <<"repeatCustomers", p>>,
                    <<"canceledCustomers", p>>, <<"stageUnits", p>>, <<"funnel", p>>}
  BY Zenon
<1>4. Holds(r, R)
  BY <1>1, <1>3, SevenListed DEF Holds
<1>5. PICK S : S = {<<"groupOrders", p, c>> : c \in {"channel", "payment", "delivery", "region"}}
  BY Zenon
<1>6. Holds(s, S)
  <2>1. s = [k \in 1..4 |-> s[k]]
    BY <1>1
  <2>2. IsList(s) /\ \A k \in 1..4 : Occurs(s[k], s)
    BY <2>1, FourMade
  <2>3. /\ s[1] = <<"groupOrders", p, "channel">> /\ s[2] = <<"groupOrders", p, "payment">>
        /\ s[3] = <<"groupOrders", p, "delivery">> /\ s[4] = <<"groupOrders", p, "region">>
    BY <1>1 DEF Metrics!Columns
  <2>4. Occurs(s[1], s) /\ Occurs(s[2], s) /\ Occurs(s[3], s) /\ Occurs(s[4], s)
    BY <2>2
  <2>5. ASSUME NEW c \in {"channel", "payment", "delivery", "region"}
        PROVE  Occurs(<<"groupOrders", p, c>>, s)
    BY <2>3, <2>4, Zenon
  <2> QED
    BY <1>5, <2>2, <2>5, Zenon DEF Holds
<1>7. PICK T : T = {<<"groupProducts", p, c>> : c \in {"name", "category", "gender", "brand"}}
  BY Zenon
<1>8. Holds(t, T)
  <2>1. t = [k \in 1..4 |-> t[k]]
    BY <1>1
  <2>2. IsList(t) /\ \A k \in 1..4 : Occurs(t[k], t)
    BY <2>1, FourMade
  <2>3. /\ t[1] = <<"groupProducts", p, "name">> /\ t[2] = <<"groupProducts", p, "category">>
        /\ t[3] = <<"groupProducts", p, "gender">> /\ t[4] = <<"groupProducts", p, "brand">>
    BY <1>1 DEF Metrics!Products
  <2>4. Occurs(t[1], t) /\ Occurs(t[2], t) /\ Occurs(t[3], t) /\ Occurs(t[4], t)
    BY <2>2
  <2>5. ASSUME NEW c \in {"name", "category", "gender", "brand"}
        PROVE  Occurs(<<"groupProducts", p, c>>, t)
    BY <2>3, <2>4, Zenon
  <2> QED
    BY <1>7, <2>2, <2>5, Zenon DEF Holds
<1>9. PICK U : U = {<<"topCustomers", p, "revenue">>, <<"topCustomers", p, "orders">>}
  OBVIOUS
<1>10. Holds(u, U)
  BY <1>1, <1>9, TwoListed DEF Holds
<1>11. Holds(((r \o s) \o t) \o u, ((R \cup S) \cup T) \cup U)
  <2>1. Holds(r \o s, R \cup S)
    BY <1>4, <1>6, HoldsJoined
  <2>2. Holds((r \o s) \o t, (R \cup S) \cup T)
    BY <1>8, <2>1, HoldsJoined
  <2> QED
    BY <1>10, <2>2, HoldsJoined
<1> QED
  BY <1>2, <1>3, <1>5, <1>7, <1>9, <1>11, Zenon

(* A report of two periods: the range, what is read once, each period.     *)
LEMMA PeriodsList ==
    ASSUME NEW r, NEW s, NEW t, NEW S, NEW T, IsList(r), Holds(s, S), Holds(t, T)
    PROVE  Headed(Range(r), (r \o s) \o t) /\ Holds((r \o s) \o t, S \cup T)
<1>1. IsList(s) /\ IsList(t) /\ Holds(r, {}) /\ Headed(Range(r), r)
  BY HeadedItself DEF Holds
<1>2. Headed(Range(r), r \o s)
  BY <1>1, HeadedJoined
<1>3. Headed(Range(r), (r \o s) \o t)
  BY <1>1, <1>2, HeadedJoined
<1>4. Holds(r \o s, {} \cup S)
  BY <1>1, HoldsJoined
<1>5. Holds((r \o s) \o t, ({} \cup S) \cup T)
  BY <1>4, HoldsJoined
<1>6. ({} \cup S) \cup T = S \cup T
  OBVIOUS
<1> QED
  BY <1>3, <1>5, <1>6

LEMMA MetricsList ==
    ASSUME NEW a, NEW got
    PROVE  /\ Headed(Range(RangeStatements(a)), Metrics!Statements(a, got))
           /\ Holds(Metrics!Statements(a, got), MetricsAsked)
<1>1. PICK r, s, t : /\ r = RangeStatements(a) /\ s = Metrics!PeriodStatements("cur")
                     /\ t = Metrics!PeriodStatements("prev")
  OBVIOUS
<1>2. Metrics!Statements(a, got) = (r \o s) \o t
  BY <1>1, SameRangeStatements DEF Metrics!Statements
<1>3. PICK S, T : /\ Holds(s, S) /\ Holds(t, T)
                  /\ \A st \in MetricsAsked : st \in S \/ st \in T
  <2> DEFINE Of(p) ==
               (({<<"counts", p>>, <<"netUnits", p>>, <<"stages", p>>, <<"repeatCustomers", p>>,
                  <<"canceledCustomers", p>>, <<"stageUnits", p>>, <<"funnel", p>>}
                 \cup {<<"groupOrders", p, c>> : c \in {"channel", "payment", "delivery", "region"}})
                \cup {<<"groupProducts", p, c>> : c \in {"name", "category", "gender", "brand"}})
               \cup {<<"topCustomers", p, "revenue">>, <<"topCustomers", p, "orders">>}
  <2>1. Holds(s, Of("cur")) /\ Holds(t, Of("prev"))
    BY <1>1, MetricsPeriodList
  <2>2. ASSUME NEW p \in {"cur", "prev"},
               NEW x \in {"counts", "netUnits", "stages", "repeatCustomers", "canceledCustomers",
                          "stageUnits", "funnel"}
        PROVE  <<x, p>> \in Of(p)
    OBVIOUS
  <2>3. ASSUME NEW p \in {"cur", "prev"}, NEW c \in {"channel", "payment", "delivery", "region"}
        PROVE  <<"groupOrders", p, c>> \in Of(p)
    OBVIOUS
  <2>4. ASSUME NEW p \in {"cur", "prev"}, NEW c \in {"name", "category", "gender", "brand"}
        PROVE  <<"groupProducts", p, c>> \in Of(p)
    OBVIOUS
  <2>5. ASSUME NEW p \in {"cur", "prev"}, NEW c \in {"revenue", "orders"}
        PROVE  <<"topCustomers", p, c>> \in Of(p)
    OBVIOUS
  <2> HIDE DEF Of
  <2>6. ASSUME NEW st \in MetricsAsked
        PROVE  \E p \in {"cur", "prev"} : st \in Of(p)
    <3>1. CASE st \in {"counts", "netUnits", "stages", "repeatCustomers", "canceledCustomers",
                       "stageUnits", "funnel"} \X {"cur", "prev"}
      <4>1. PICK x \in {"counts", "netUnits", "stages", "repeatCustomers", "canceledCustomers",
                        "stageUnits", "funnel"}, p \in {"cur", "prev"} : st = <<x, p>>
        BY <3>1
      <4> QED
        BY <2>2, <4>1
    <3>2. CASE st \in {"groupOrders"} \X {"cur", "prev"}
                          \X {"channel", "payment", "delivery", "region"}
      <4>1. PICK p \in {"cur", "prev"}, c \in {"channel", "payment", "delivery", "region"} :
               st = <<"groupOrders", p, c>>
        BY <3>2
      <4> QED
        BY <2>3, <4>1
    <3>3. CASE st \in {"groupProducts"} \X {"cur", "prev"}
                          \X {"name", "category", "gender", "brand"}
      <4>1. PICK p \in {"cur", "prev"}, c \in {"name", "category", "gender", "brand"} :
               st = <<"groupProducts", p, c>>
        BY <3>3
      <4> QED
        BY <2>4, <4>1
    <3>4. CASE st \in {"topCustomers"} \X {"cur", "prev"} \X {"revenue", "orders"}
      <4>1. PICK p \in {"cur", "prev"}, c \in {"revenue", "orders"} :
               st = <<"topCustomers", p, c>>
        BY <3>4
      <4> QED
        BY <2>5, <4>1
    <3> QED
      BY <3>1, <3>2, <3>3, <3>4 DEF MetricsAsked
  <2>7. \A st \in MetricsAsked : st \in Of("cur") \/ st \in Of("prev")
    BY <2>6
  <2> QED
    BY <2>1, <2>7
<1>4. IsList(r)
  BY <1>1, RangeList
<1>5. Headed(Range(r), (r \o s) \o t) /\ Holds((r \o s) \o t, S \cup T)
  BY <1>3, <1>4, PeriodsList
<1> QED
  BY <1>1, <1>2, <1>3, <1>5 DEF Holds

LEMMA AcquiredList ==
    ASSUME NEW a, NEW got
    PROVE  /\ Headed(Range(RangeStatements(a)), Acquired!Statements(a, got))
           /\ Holds(Acquired!Statements(a, got), AcquiredAsked)
<1>1. PICK r, s, t : /\ r = RangeStatements(a) /\ s = Acquired!PeriodStatements("cur")
                     /\ t = Acquired!PeriodStatements("prev")
  OBVIOUS
<1>2. Acquired!Statements(a, got) = (r \o s) \o t
  BY <1>1, SameRangeStatements DEF Acquired!Statements
<1> DEFINE Of(p) == {<<"trafficTotals", p>>, <<"orderTotals", p>>, <<"ecommerceTotals", p>>,
                     <<"dailyTraffic", p>>, <<"dailyOrders", p>>}
<1>3. ASSUME NEW p
      PROVE  Holds(Acquired!PeriodStatements(p), Of(p))
  BY FiveListed DEF Acquired!PeriodStatements, Holds
<1>4. PICK S, T : S = Of("cur") /\ T = Of("prev")
  BY Zenon
<1>5. AcquiredAsked \subseteq S \cup T
  BY <1>4 DEF AcquiredAsked, Periods
<1>6. IsList(r) /\ Holds(s, S) /\ Holds(t, T)
  BY <1>1, <1>3, <1>4, RangeList
<1>7. Headed(Range(r), (r \o s) \o t) /\ Holds((r \o s) \o t, S \cup T)
  BY <1>6, PeriodsList
<1> QED
  BY <1>1, <1>2, <1>5, <1>7 DEF Holds

LEMMA LogisticsPeriodList ==
    ASSUME NEW p
    PROVE  \E S : /\ Holds(Logistics!PeriodStatements(p), S)
                  /\ {<<"summary", p>>, <<"byService", p>>, <<"byCity", p>>,
                      <<"seriesOrders", p>>, <<"seriesItems", p>>} \subseteq S
                  /\ PilotCities # {} => \A isPilot \in BOOLEAN : <<"cohort", p, isPilot>> \in S
<1>1. PICK s, t : /\ s = << <<"summary", p>>, <<"byService", p>>, <<"byCity", p>>,
                            <<"seriesOrders", p>>, <<"seriesItems", p>> >>
                  /\ t = IF PilotCities = {} THEN <<>>
                         ELSE << <<"cohort", p, TRUE>>, <<"cohort", p, FALSE>> >>
  BY Zenon
<1>2. Logistics!PeriodStatements(p) = s \o t
  BY <1>1 DEF Logistics!PeriodStatements
<1>3. PICK S : S = {<<"summary", p>>, <<"byService", p>>, <<"byCity", p>>,
                    <<"seriesOrders", p>>, <<"seriesItems", p>>}
  BY Zenon
<1>4. Holds(s, S)
  BY <1>1, <1>3, FiveListed, Zenon DEF Holds
<1>5. PICK T : Holds(t, T) /\ (PilotCities # {} => <<"cohort", p, TRUE>> \in T /\ <<"cohort", p, FALSE>> \in T)
  <2>1. CASE PilotCities = {}
    BY <1>1, <2>1, NoneListed, Zenon DEF Holds
  <2>2. CASE PilotCities # {}
    <3>1. PICK U : U = {<<"cohort", p, TRUE>>, <<"cohort", p, FALSE>>}
      BY Zenon
    <3>2. t = << <<"cohort", p, TRUE>>, <<"cohort", p, FALSE>> >>
      BY <1>1, <2>2, Zenon
    <3>3. Holds(t, U)
      BY <3>1, <3>2, TwoListed, Zenon DEF Holds
    <3>4. <<"cohort", p, TRUE>> \in U /\ <<"cohort", p, FALSE>> \in U
      BY <3>1, Zenon
    <3> QED
      BY <3>3, <3>4, Zenon
  <2> QED
    BY <2>1, <2>2, Zenon
<1>6. Holds(s \o t, S \cup T)
  BY <1>4, <1>5, HoldsJoined
<1>7. PilotCities # {} => \A isPilot \in BOOLEAN : <<"cohort", p, isPilot>> \in S \cup T
  BY <1>5, Zenon
<1>8. {<<"summary", p>>, <<"byService", p>>, <<"byCity", p>>,
       <<"seriesOrders", p>>, <<"seriesItems", p>>} \subseteq S \cup T
  BY <1>3
<1> QED
  BY <1>2, <1>6, <1>7, <1>8, Zenon

LEMMA LogisticsList ==
    ASSUME NEW a, NEW got
    PROVE  /\ Headed(Range(RangeStatements(a)) \cup {<<"dataAsOf">>}, Logistics!Statements(a, got))
           /\ Holds(Logistics!Statements(a, got), LogisticsAsked)
<1>1. PICK q, r, d, s, t : /\ q = RangeStatements(a) /\ d = << <<"dataAsOf">> >> /\ r = q \o d
                           /\ s = Logistics!PeriodStatements("cur")
                           /\ t = Logistics!PeriodStatements("prev")
  BY Zenon
<1>2. Logistics!Statements(a, got) = (r \o s) \o t
  BY <1>1, SameRangeStatements, Zenon DEF Logistics!Statements
<1>3. PICK S : /\ Holds(s, S)
               /\ {<<"summary", "cur">>, <<"byService", "cur">>, <<"byCity", "cur">>,
                   <<"seriesOrders", "cur">>, <<"seriesItems", "cur">>} \subseteq S
               /\ PilotCities # {} => \A isPilot \in BOOLEAN : <<"cohort", "cur", isPilot>> \in S
  BY <1>1, LogisticsPeriodList, Zenon
<1>4. PICK T : /\ Holds(t, T)
               /\ {<<"summary", "prev">>, <<"byService", "prev">>, <<"byCity", "prev">>,
                   <<"seriesOrders", "prev">>, <<"seriesItems", "prev">>} \subseteq T
               /\ PilotCities # {} => \A isPilot \in BOOLEAN : <<"cohort", "prev", isPilot>> \in T
  BY <1>1, LogisticsPeriodList
<1>5. LogisticsAsked \subseteq S \cup T
  <2>1. ASSUME NEW x \in {"summary", "byService", "byCity", "seriesOrders", "seriesItems"}, NEW p \in Periods
        PROVE  <<x, p>> \in S \cup T
    BY <1>3, <1>4 DEF Periods
  <2>2. ASSUME NEW p \in (IF PilotCities = {} THEN {} ELSE Periods), NEW isPilot \in BOOLEAN
        PROVE  <<"cohort", p, isPilot>> \in S \cup T
    BY <1>3, <1>4 DEF Periods
  <2> QED
    BY <2>1, <2>2 DEF LogisticsAsked
<1>6. IsList(q) /\ IsList(d) /\ \A x : Occurs(x, d) <=> x = <<"dataAsOf">>
  BY <1>1, RangeList, OneListed
<1>7. IsList(r)
  BY <1>1, <1>6, Joined
<1>8. Range(r) = Range(q) \cup {<<"dataAsOf">>}
  <2>1. \A z, x : x \in Range(z) <=> Occurs(x, z)
    BY DEF Range, Occurs
  <2>2. \A x : Occurs(x, r) <=> Occurs(x, q) \/ x = <<"dataAsOf">>
    BY <1>1, <1>6, OccursJoined
  <2> QED
    BY <2>1, <2>2
<1>9. Headed(Range(r), (r \o s) \o t) /\ Holds((r \o s) \o t, S \cup T)
  BY <1>3, <1>4, <1>7, PeriodsList
<1> QED
  BY <1>1, <1>2, <1>5, <1>8, <1>9, Zenon DEF Holds

-----------------------------------------------------------------------------
LEMMA DynamicsList ==
    ASSUME NEW a, NEW got
    PROVE  /\ Headed(Range(RangeStatements(a)), Logistics!BreakdownStatements(a, got))
           /\ Holds(Logistics!BreakdownStatements(a, got), DynamicsAsked)
           /\ \A x : Occurs(x, Logistics!BreakdownStatements(a, got)) =>
                     x \in DynamicsAsked \cup {<<"dataBounds">>}
<1>1. PICK r, s : /\ r = RangeStatements(a)
                  /\ s = << <<"seriesOrders", "cur">>, <<"seriesItems", "cur">> >>
  OBVIOUS
<1>2. Logistics!BreakdownStatements(a, got) = r \o s
  BY <1>1, SameRangeStatements, Zenon DEF Logistics!BreakdownStatements
<1>3. IsList(s) /\ \A x : Occurs(x, s) <=> x \in DynamicsAsked
  BY <1>1, TwoListed, Zenon DEF DynamicsAsked
<1>4. IsList(r) /\ Headed(Range(r), r)
  BY <1>1, RangeList, Zenon
<1>5. Headed(Range(r), r \o s)
  BY <1>3, <1>4, HeadedJoined
<1>6. \A x : Occurs(x, r) => x = <<"dataBounds">>
  <2>1. r = <<>> \/ r = << <<"dataBounds">> >>
    BY <1>1, RangeList, Zenon
  <2> QED
    BY <2>1, NoneListed, OneListed, Zenon
<1>7. \A x : Occurs(x, r \o s) <=> Occurs(x, r) \/ Occurs(x, s)
  BY <1>3, <1>4, OccursJoined, Zenon
<1>8. IsList(r \o s)
  BY <1>5 DEF Headed
<1> QED
  BY <1>1, <1>2, <1>3, <1>5, <1>6, <1>7, <1>8, Zenon DEF Holds

(* A first statement, and what comes after it.                             *)
LEMMA HeadedByOne ==
    ASSUME NEW x, NEW s, IsList(s)
    PROVE  Headed({x}, <<x>> \o s)
<1>1. IsList(<<x>>) /\ Range(<<x>>) = {x}
  <2>1. PICK h : h = <<x>>
    OBVIOUS
  <2>2. DOMAIN h = {1} /\ h[1] = x
    BY <2>1
  <2>3. Range(h) = {x}
    BY <2>2, Zenon DEF Range
  <2> QED
    BY <2>1, <2>3, OneListed, Zenon
<1>2. Headed(Range(<<x>>), <<x>>)
  BY <1>1, HeadedItself, Zenon
<1> QED
  BY <1>1, <1>2, HeadedJoined

LEMMA CustomersList ==
    ASSUME NEW a, NEW got
    PROVE  /\ Headed({<<"bounds">>}, Customers!Statements(a, got))
           /\ Customers!HasData(got) => Occurs(<<"events">>, Customers!Statements(a, got))
<1>1. PICK r, s : /\ r = << <<"bounds">> >>
                  /\ s = IF Customers!HasData(got) THEN << <<"events">> >> ELSE <<>>
  OBVIOUS
<1>2. Customers!Statements(a, got) = r \o s
  BY <1>1, Zenon DEF Customers!Statements
<1>3. IsList(r) /\ IsList(s) /\ (Customers!HasData(got) => Occurs(<<"events">>, s))
  BY <1>1, OneListed, NoneListed, Zenon
<1>4. Headed({<<"bounds">>}, r \o s)
  BY <1>1, <1>3, HeadedByOne, Zenon
<1>5. \A x : Occurs(x, r \o s) <=> Occurs(x, r) \/ Occurs(x, s)
  BY <1>3, OccursJoined, Zenon
<1> QED
  BY <1>2, <1>3, <1>4, <1>5, Zenon

LEMMA GoalList ==
    ASSUME NEW a, NEW got
    PROVE  /\ Headed({<<"bounds">>}, Goal!Statements(a, got))
           /\ \A st \in GoalAsked(a, got) : Occurs(st, Goal!Statements(a, got))
<1>1. PICK q, r, s, t :
          /\ q = << <<"bounds">>, <<"plan">>, <<"orders", "current">>, <<"sessions", "current">> >>
          /\ r = << <<"orders", "history">>, <<"sessions", "history">> >>
          /\ s = IF Goal!HasHistory(a, got) THEN r ELSE <<>>
          /\ t = << <<"latestRuns">>, <<"latestDataDays">> >>
  OBVIOUS
<1>2. Goal!Statements(a, got) = (q \o s) \o t
  BY <1>1, Zenon DEF Goal!Statements
<1>3. /\ IsList(q) /\ IsList(s) /\ IsList(t)
      /\ Occurs(<<"orders", "current">>, q)
      /\ Goal!HasHistory(a, got) => Occurs(<<"orders", "history">>, s)
  BY <1>1, FourListed, TwoListed, NoneListed, Zenon
<1>4. Headed({<<"bounds">>}, q)
  <2>1. q \in Seq({<<"bounds">>, <<"plan">>, <<"orders", "current">>, <<"sessions", "current">>})
        /\ DOMAIN q = 1..4 /\ q[1] = <<"bounds">>
    BY <1>1
  <2>2. \A k \in DOMAIN q : k = 1 \/ 1 < k
    BY <2>1
  <2>3. \A k \in DOMAIN q : q[k] = <<"bounds">> \/ \E j \in DOMAIN q : j < k /\ q[j] = <<"bounds">>
    BY <2>1, <2>2
  <2>4. Occurs(<<"bounds">>, q)
    BY <2>1 DEF Occurs
  <2> HIDE <1>1
  <2> QED
    BY <1>3, <2>3, <2>4, Zenon DEF Headed
<1>5. Headed({<<"bounds">>}, q \o s)
  BY <1>3, <1>4, HeadedJoined, Zenon
<1>6. Headed({<<"bounds">>}, (q \o s) \o t)
  BY <1>3, <1>5, HeadedJoined, Zenon
<1>7. /\ IsList(q \o s)
      /\ \A x : Occurs(x, q \o s) <=> Occurs(x, q) \/ Occurs(x, s)
  BY <1>3, <1>5, OccursJoined, Zenon DEF Headed
<1>8. \A x : Occurs(x, (q \o s) \o t) <=> Occurs(x, q \o s) \/ Occurs(x, t)
  BY <1>3, <1>7, OccursJoined, Zenon
<1>9. ASSUME NEW st \in GoalAsked(a, got)
      PROVE  Occurs(st, q) \/ Occurs(st, s)
  <2>1. PICK p : /\ st = <<"orders", p>>
                 /\ p = "current" \/ (p = "history" /\ Goal!HasHistory(a, got))
    <3>1. st \in {"orders"} \X {"current"}
          \/ (Goal!HasHistory(a, got) /\ st \in {"orders"} \X {"current", "history"})
      BY <1>9, Zenon DEF GoalAsked
    <3>2. ASSUME st \in {"orders"} \X {"current"}
          PROVE  st = <<"orders", "current">>
      BY <3>2
    <3>3. ASSUME st \in {"orders"} \X {"current", "history"}
          PROVE  st = <<"orders", "current">> \/ st = <<"orders", "history">>
      BY <3>3
    <3> QED
      BY <3>1, <3>2, <3>3, Zenon
  <2> QED
    BY <1>3, <2>1, Zenon
<1> QED
  BY <1>2, <1>6, <1>7, <1>8, <1>9, Zenon

(* The statements others depend on come first in every report.             *)
LEMMA BasesFirst ==
    ASSUME Asked.report \in KnownReports
    PROVE  Headed(BasesOf(Asked), Statements)
<1>1. PICK a, got : a = Asked /\ got = request.got
  OBVIOUS
<1>2. CASE a.report = "funnel"
  <2>1. BasesOf(Asked) = Range(RangeStatements(a)) /\ Statements = Funnel!Statements(a, got)
    BY <1>1, <1>2 DEF BasesOf, Statements
  <2> QED
    BY <2>1, FunnelList, Zenon
<1>3. CASE a.report = "metrics"
  <2>1. BasesOf(Asked) = Range(RangeStatements(a)) /\ Statements = Metrics!Statements(a, got)
    BY <1>1, <1>3 DEF BasesOf, Statements
  <2> QED
    BY <2>1, MetricsList, Zenon
<1>4. CASE a.report = "logistics"
  <2>1. /\ BasesOf(Asked) = Range(RangeStatements(a)) \cup {<<"dataAsOf">>}
        /\ Statements = Logistics!Statements(a, got)
    BY <1>1, <1>4 DEF BasesOf, Statements
  <2> QED
    BY <2>1, LogisticsList, Zenon
<1>5. CASE a.report = "dynamics"
  <2>1. BasesOf(Asked) = Range(RangeStatements(a)) /\ Statements = Logistics!BreakdownStatements(a, got)
    BY <1>1, <1>5 DEF BasesOf, Statements
  <2> QED
    BY <2>1, DynamicsList, Zenon
<1>6. CASE a.report = "acquisition"
  <2>1. BasesOf(Asked) = Range(RangeStatements(a)) /\ Statements = Acquired!Statements(a, got)
    BY <1>1, <1>6 DEF BasesOf, Statements
  <2> QED
    BY <2>1, AcquiredList, Zenon
<1>7. CASE a.report = "customers"
  <2>1. BasesOf(Asked) = {<<"bounds">>} /\ Statements = Customers!Statements(a, got)
    BY <1>1, <1>7 DEF BasesOf, Statements
  <2> QED
    BY <2>1, CustomersList, Zenon
<1>8. CASE a.report = "goal"
  <2>1. BasesOf(Asked) = {<<"bounds">>} /\ Statements = Goal!Statements(a, got)
    BY <1>1, <1>8 DEF BasesOf, Statements
  <2> QED
    BY <2>1, GoalList, Zenon
<1>9. CASE a.report \in {"plan", "traffic", "values"}
  <2>1. BasesOf(Asked) = {}
    BY <1>1, <1>9 DEF BasesOf
  <2>2. \/ Statements = Target!PlanStatements(a, got)
        \/ Statements = Target!TrafficStatements(a, got)
        \/ Statements = ValueStatements(a)
    BY <1>1, <1>9 DEF Statements
  <2>3. IsList(Statements)
    <3>1. PICK c : ValueStatements(a) = <<c>>
      BY DEF ValueStatements
    <3>2. CASE Statements = ValueStatements(a)
      BY <3>1, <3>2, OneListed, Zenon
    <3>3. CASE Statements = Target!PlanStatements(a, got)
      BY <3>3, OneListed, Zenon DEF Target!PlanStatements
    <3>4. CASE Statements = Target!TrafficStatements(a, got)
      BY <3>4, TwoListed, Zenon DEF Target!TrafficStatements
    <3> QED
      BY <2>2, <3>2, <3>3, <3>4
  <2> QED
    BY <2>1, <2>3, HeadedByNone, Zenon
<1> QED
  BY <1>1, <1>2, <1>3, <1>4, <1>5, <1>6, <1>7, <1>8, <1>9 DEF KnownReports, PeriodReports

-----------------------------------------------------------------------------
(* A statement depends on what was read first and on nothing else.         *)
Alike(B, got, new) == \A b \in B : b \in DOMAIN got /\ b \in DOMAIN new /\ new[b] = got[b]

LEMMA SameRangesToo ==
    ASSUME NEW a, NEW got
    PROVE  /\ Funnel!Ranges(a, got) = Ranges(a, got)
           /\ Metrics!Ranges(a, got) = Ranges(a, got)
<1>1. Funnel!Ranges(a, got) = Ranges(a, got)
  BY Zenon
     DEF Ranges, Ordered, ResolveRange, ResolvePrevRange, Length, Min, Max, NoDay,
         Funnel!Ranges, Funnel!Ordered, Funnel!ResolveRange, Funnel!ResolvePrevRange,
         Funnel!Length, Funnel!Min, Funnel!Max, Funnel!NoDay
<1>2. Metrics!Ranges(a, got) = Ranges(a, got)
  BY Zenon
     DEF Ranges, Ordered, ResolveRange, ResolvePrevRange, Length, Min, Max, NoDay,
         Metrics!Ranges, Metrics!Ordered, Metrics!ResolveRange, Metrics!ResolvePrevRange,
         Metrics!Length, Metrics!Min, Metrics!Max, Metrics!NoDay
<1> QED
  BY <1>1, <1>2

LEMMA RangesKept ==
    ASSUME NEW a, NEW got, NEW new, Alike(Range(RangeStatements(a)), got, new)
    PROVE  /\ Funnel!Ranges(a, new) = Funnel!Ranges(a, got)
           /\ Metrics!Ranges(a, new) = Metrics!Ranges(a, got)
           /\ Logistics!Ranges(a, new) = Logistics!Ranges(a, got)
           /\ Acquired!Ranges(a, new) = Acquired!Ranges(a, got)
<1>1. Ranges(a, new) = Ranges(a, got)
  <2>1. CASE a.start # NoDay /\ a.end # NoDay
    <3>1. PICK r : r = Ordered([start |-> a.start, end |-> a.end])
      OBVIOUS
    <3>2. \A b : ResolveRange(b, a.start, a.end) = [start |-> a.start, end |-> a.end]
      BY <2>1 DEF ResolveRange
    <3>3. ASSUME NEW g
          PROVE  Ranges(a, g) = [cur |-> r, prev |-> ResolvePrevRange(r, a.cmpStart, a.cmpEnd)]
      <4>1. PICK b : b = IF <<"dataBounds">> \in DOMAIN g THEN g[<<"dataBounds">>]
                         ELSE [start |-> NoDay, end |-> NoDay]
        BY Zenon
      <4>2. ResolveRange(b, a.start, a.end) = [start |-> a.start, end |-> a.end]
        BY <3>2
      <4>3. Ranges(a, g) =
               [cur  |-> Ordered(ResolveRange(b, a.start, a.end)),
                prev |-> ResolvePrevRange(Ordered(ResolveRange(b, a.start, a.end)),
                                          a.cmpStart, a.cmpEnd)]
        BY <4>1, Zenon DEF Ranges
      <4> QED
        BY <3>1, <4>2, <4>3, Zenon
    <3> QED
      BY <3>3, Zenon
  <2>2. CASE a.start = NoDay \/ a.end = NoDay
    <3>1. Range(RangeStatements(a)) = {<<"dataBounds">>}
      BY <2>2, RangeList
    <3>2. /\ <<"dataBounds">> \in DOMAIN got /\ <<"dataBounds">> \in DOMAIN new
          /\ new[<<"dataBounds">>] = got[<<"dataBounds">>]
      BY <3>1, Zenon DEF Alike
    <3> QED
      BY <3>2, Zenon DEF Ranges
  <2> QED
    BY <2>1, <2>2
<1> QED
  BY <1>1, SameRanges, SameRangesToo, Zenon

OfDynamics(a, st) == a.report = "dynamics" => st \in DynamicsAsked \cup {<<"dataBounds">>}

LEMMA AnswersKept ==
    ASSUME NEW t, NEW a, a.report \in KnownReports, NEW got, NEW new, Alike(BasesOf(a), got, new),
           NEW st, OfDynamics(a, st)
    PROVE  Answers(t, st, a, new) = Answers(t, st, a, got)
<1>1. CASE a.report = "funnel"
  <2>1. Funnel!Ranges(a, new) = Funnel!Ranges(a, got)
    BY <1>1, RangesKept, Zenon DEF BasesOf
  <2>2. Funnel!Execute(t, st, a, new) = Funnel!Execute(t, st, a, got)
    BY <2>1, Zenon DEF Funnel!Execute
  <2> QED
    BY <1>1, <2>2 DEF Answers
<1>2. CASE a.report = "metrics"
  <2>1. Metrics!Ranges(a, new) = Metrics!Ranges(a, got)
    BY <1>2, RangesKept DEF BasesOf
  <2>2. Metrics!Execute(t, st, a, new) = Metrics!Execute(t, st, a, got)
    BY <2>1, Zenon DEF Metrics!Execute
  <2> QED
    BY <1>2, <2>2 DEF Answers
<1>3. CASE a.report = "acquisition"
  <2>1. Acquired!Ranges(a, new) = Acquired!Ranges(a, got)
    BY <1>3, RangesKept DEF BasesOf
  <2>2. Acquired!Execute(t, st, a, new) = Acquired!Execute(t, st, a, got)
    BY <2>1, Zenon DEF Acquired!Execute
  <2> QED
    BY <1>3, <2>2 DEF Answers
<1>4. CASE a.report = "logistics"
  <2>1. BasesOf(a) = Range(RangeStatements(a)) \cup {<<"dataAsOf">>}
    BY <1>4 DEF BasesOf
  <2>2. Logistics!Ranges(a, new) = Logistics!Ranges(a, got)
    <3>1. Alike(Range(RangeStatements(a)), got, new)
      BY <2>1, Zenon DEF Alike
    <3> QED
      BY <3>1, RangesKept
  <2>3. new[<<"dataAsOf">>] = got[<<"dataAsOf">>]
    BY <2>1, Zenon DEF Alike
  <2>4. Logistics!asOf(a, new) = Logistics!asOf(a, got)
    BY <2>2, <2>3, Zenon DEF Logistics!asOf
  <2>5. Logistics!Execute(t, st, a, new) = Logistics!Execute(t, st, a, got)
    BY <2>2, <2>4, Zenon DEF Logistics!Execute
  <2> QED
    BY <1>4, <2>5 DEF Answers
<1>5. CASE a.report = "dynamics"
  <2>1. Logistics!Ranges(a, new) = Logistics!Ranges(a, got)
    BY <1>5, RangesKept DEF BasesOf
  <2>2. st[1] \in {"dataBounds", "seriesOrders", "seriesItems"}
    BY <1>5 DEF OfDynamics, DynamicsAsked
  <2>3. Logistics!Execute(t, st, a, new) = Logistics!Execute(t, st, a, got)
    <3>1. CASE st[1] = "dataBounds"
      BY <3>1 DEF Logistics!Execute
    <3>2. CASE st[1] = "seriesOrders"
      BY <2>1, <3>2 DEF Logistics!Execute
    <3>3. CASE st[1] = "seriesItems"
      BY <2>1, <3>3 DEF Logistics!Execute
    <3> QED
      BY <2>2, <3>1, <3>2, <3>3
  <2> QED
    BY <1>5, <2>3 DEF Answers
<1>6. CASE a.report = "goal"
  <2>1. new[<<"bounds">>] = got[<<"bounds">>]
    BY <1>6 DEF BasesOf, Alike
  <2>2. \A p : Goal!GoalRange(a, new, p) = Goal!GoalRange(a, got, p)
    BY <2>1, Zenon DEF Goal!GoalRange
  <2>3. Goal!Execute(t, st, a, new) = Goal!Execute(t, st, a, got)
    BY <2>2, Zenon DEF Goal!Execute
  <2> QED
    BY <1>6, <2>3 DEF Answers
<1>7. CASE a.report = "customers"
  <2>1. new[<<"bounds">>] = got[<<"bounds">>]
    BY <1>7 DEF BasesOf, Alike
  <2>2. Customers!Period(a, new) = Customers!Period(a, got)
    BY <2>1, Zenon DEF Customers!Period
  <2>3. Customers!Execute(t, st, a, new) = Customers!Execute(t, st, a, got)
    BY <2>2, Zenon DEF Customers!Execute
  <2> QED
    BY <1>7, <2>3 DEF Answers
<1>8. CASE a.report \in {"plan", "traffic"}
  <2>1. Target!Execute(t, st, a, new) = Target!Execute(t, st, a, got)
    BY Zenon DEF Target!Execute
  <2> QED
    BY <1>8, <2>1 DEF Answers
<1>9. CASE a.report = "values"
  BY <1>9 DEF Answers
<1> QED
  BY <1>1, <1>2, <1>3, <1>4, <1>5, <1>6, <1>7, <1>8, <1>9 DEF KnownReports, PeriodReports

(* What is read first depends on nothing.                                  *)
LEMMA BasesAnswers ==
    ASSUME NEW t, NEW a, a.report \in KnownReports, NEW st \in BasesOf(a), NEW got
    PROVE  /\ st = <<"dataAsOf">> \/ Answers(t, st, a, got) = {DataBounds(t)}
           /\ st = <<"dataAsOf">> => Answers(t, st, a, got) = {Logistics!dataAsOf(t)}
<1>1. CASE st = <<"dataBounds">> /\ a.report \in PeriodReports
  <2>1. st[1] = "dataBounds" /\ st # <<"dataAsOf">>
    BY <1>1
  <2>2. a.report # "customers"
    BY <1>1 DEF BasesOf
  <2>3. CASE a.report = "funnel"
    BY <2>1, <2>3, SameBounds DEF Answers, Funnel!Execute
  <2>4. CASE a.report = "metrics"
    BY <2>1, <2>4, SameBounds DEF Answers, Metrics!Execute
  <2>5. CASE a.report \in {"logistics", "dynamics"}
    BY <2>1, <2>5, SameBounds DEF Answers, Logistics!Execute
  <2>6. CASE a.report = "acquisition"
    BY <2>1, <2>6, SameBounds DEF Answers, Acquired!Execute
  <2> QED
    BY <1>1, <2>2, <2>3, <2>4, <2>5, <2>6 DEF PeriodReports
<1>2. CASE st = <<"bounds">> /\ a.report = "goal"
  <2>1. st[1] = "bounds" /\ st # <<"dataAsOf">>
    BY <1>2
  <2> QED
    BY <1>2, <2>1, SameBounds DEF Answers, Goal!Execute
<1>3. CASE st = <<"bounds">> /\ a.report = "customers"
  <2>1. st[1] = "bounds" /\ st # <<"dataAsOf">>
    BY <1>3
  <2> QED
    BY <1>3, <2>1, SameBounds DEF Answers, Customers!Execute
<1>4. CASE st = <<"dataAsOf">> /\ a.report = "logistics"
  <2>1. st[1] = "dataAsOf"
    BY <1>4
  <2> QED
    BY <1>4, <2>1 DEF Answers, Logistics!Execute
<1>5. \A x \in Range(RangeStatements(a)) : x = <<"dataBounds">>
  <2>1. \A x \in Range(RangeStatements(a)) : Occurs(x, RangeStatements(a))
    BY DEF Range, Occurs
  <2>2. RangeStatements(a) = <<>> \/ RangeStatements(a) = << <<"dataBounds">> >>
    BY RangeList, Zenon
  <2>3. ASSUME NEW x, Occurs(x, RangeStatements(a))
        PROVE  x = <<"dataBounds">>
    <3>1. CASE RangeStatements(a) = <<>>
      BY <2>3, <3>1, NoneListed, Zenon
    <3>2. CASE RangeStatements(a) = << <<"dataBounds">> >>
      BY <2>3, <3>2, OneListed, Zenon
    <3> QED
      BY <2>2, <3>1, <3>2
  <2> QED
    BY <2>1, <2>3, Zenon
<1> QED
  BY <1>1, <1>2, <1>3, <1>4, <1>5 DEF BasesOf, KnownReports, PeriodReports

-----------------------------------------------------------------------------
(* A request stays what it was, and is one of those there are.             *)
LEMMA AskStays == [Next]_vars => UNCHANGED ask
<1> SUFFICES ASSUME [Next]_vars PROVE UNCHANGED ask
  OBVIOUS
<1>1. CASE UNCHANGED vars
  BY <1>1 DEF vars
<1>2. CASE MigrationStep \/ Stop \/ Open \/ Query \/ Respond \/ QueryFails
  BY <1>2 DEF MigrationStep, Stop, Open, Query, Respond, QueryFails, Frame
<1>3. CASE \E i \in Imports, d \in DOMAIN Documents : ImportDocument(i, d)
  BY <1>3 DEF ImportDocument
<1>4. CASE \/ \E b \in Batches : SyncTraffic(b)
           \/ EcomStep
           \/ \E e \in PlanEdits : PutPlan(e)
           \/ \E e \in TrafficEdits : PutTraffic(e)
  BY <1>4, Zenon DEF SyncTraffic, EcomStep, PutPlan, PutTraffic
<1>5. CASE \/ \E year \in Years, month \in Target!Months : PageLoads(year, month)
           \/ \E total \in Totals : PageSaves(total)
           \/ SaveCommits \/ LostCommits \/ SaveReads \/ SaveAnswers \/ SaveFails
  BY <1>5 DEF PageLoads, PageSaves, SaveCommits, LostCommits, SaveReads, SaveAnswers, SaveFails, Frame
<1> QED
  BY <1>1, <1>2, <1>3, <1>4, <1>5 DEF Next

LEMMA AskedIsKnown ==
    ASSUME PageForm, ask \in Asks
    PROVE  Asked.report \in KnownReports
<1>1. ask.report \in KnownReports \cup {"page"} /\ {"report", "year", "month"} \subseteq DOMAIN ask
  BY ReportAssumption, DashboardAssumption DEF KnownReports
<1>2. CASE ask.report = "page"
  BY <1>1, <1>2 DEF Asked, KnownReports
<1>3. CASE ask.report # "page"
  BY <1>1, <1>3 DEF Asked
<1> QED
  BY <1>2, <1>3

LEMMA AskedPeriod ==
    ASSUME PageForm, ask \in Asks, Asked.report \in PeriodReports
    PROVE  AsksDays(Asked) /\ DOMAIN Asked.filters = DOMAIN NoFilters
<1>1. {"report", "year", "month"} \subseteq DOMAIN ask
  BY DashboardAssumption
<1>2. ask.report # "page"
  <2>1. ASSUME ask.report = "page"
        PROVE  Asked.report = "goal"
    BY <1>1, <2>1 DEF Asked
  <2> QED
    BY <2>1 DEF PeriodReports
<1>3. Asked = [ask EXCEPT !.year = parseYearQuery(@), !.month = parseMonthQuery(@)]
  BY <1>2 DEF Asked
<1>4. PICK year, month : Asked = [[ask EXCEPT !.year = year] EXCEPT !.month = month]
  BY <1>3, Zenon
<1>5. DOMAIN Asked = DOMAIN ask /\ \A c \in DOMAIN ask : c \notin {"year", "month"} => Asked[c] = ask[c]
  BY <1>4, Zenon
<1>6. Asked.report = ask.report
  BY <1>1, <1>5
<1>7. /\ {"start", "end", "cmpStart", "cmpEnd", "filters"} \subseteq DOMAIN ask
      /\ {ask.start, ask.end, ask.cmpStart, ask.cmpEnd} \subseteq Int
      /\ DOMAIN ask.filters = DOMAIN NoFilters
  BY <1>6, ReportAssumption
<1>8. /\ Asked.start = ask.start /\ Asked.end = ask.end /\ Asked.cmpStart = ask.cmpStart
      /\ Asked.cmpEnd = ask.cmpEnd /\ Asked.filters = ask.filters
  BY <1>5, <1>7
<1> QED
  BY <1>7, <1>8 DEF AsksDays

(* The next statement is the first without an answer.                      *)
LEMMA QueryRuns ==
    ASSUME PageForm, IsList(Statements), Query
    PROVE  \E k \in DOMAIN Statements : \E result \in Results(Statements[k]) :
               /\ request.open /\ Statements[k] \notin DOMAIN request.got
               /\ \A j \in DOMAIN Statements : j < k => Statements[j] \in DOMAIN request.got
               /\ request'.open = request.open /\ request'.torn = request.torn
               /\ DOMAIN request'.got = DOMAIN request.got \cup {Statements[k]}
               /\ request'.got[Statements[k]] = result
               /\ \A st \in DOMAIN request.got : request'.got[st] = request.got[st]
<1>1. PICK s, P : s = Statements /\ P = Pending
  OBVIOUS
<1>2. P = {k \in DOMAIN s : s[k] \notin DOMAIN request.got}
  BY <1>1 DEF Pending
<1>3. PICK k : k = Min(P)
  OBVIOUS
<1>4. PICK result \in Results(s[k]) :
          /\ request.open /\ P # {}
          /\ request' = [request EXCEPT !.got = [st \in {s[k]} |-> result] ++ @]
  BY <1>1, <1>3, Zenon DEF Query, Unanswered
<1>5. DOMAIN s \in SUBSET Nat
  <2>1. DOMAIN s = 1..Len(s) /\ Len(s) \in Nat
    BY <1>1, LenProperties DEF IsList
  <2> QED
    BY <2>1
<1>6. k \in P /\ \A j \in P : k <= j
  <2>1. P # {} /\ P \in SUBSET Nat
    BY <1>2, <1>4, <1>5
  <2> QED
    BY <1>3, <2>1, LeastNumber, Zenon DEF Min
<1>7. /\ k \in DOMAIN s /\ s[k] \notin DOMAIN request.got
      /\ \A j \in DOMAIN s : j < k => s[j] \in DOMAIN request.got
  BY <1>2, <1>5, <1>6
<1>8. PICK one : one = [st \in {s[k]} |-> result]
  BY Zenon
<1>9. /\ request'.open = request.open /\ request'.torn = request.torn
      /\ request'.got = one ++ request.got
  BY <1>4, <1>8, Zenon DEF PageForm
<1>10. DOMAIN one = {s[k]} /\ one[s[k]] = result
  BY <1>8
<1>11. /\ DOMAIN (one ++ request.got) = DOMAIN request.got \cup {s[k]}
       /\ (one ++ request.got)[s[k]] = one[s[k]]
       /\ \A st \in DOMAIN request.got : st # s[k] => (one ++ request.got)[st] = request.got[st]
  BY <1>10 DEF ++
<1>12. /\ DOMAIN request'.got = DOMAIN request.got \cup {s[k]}
       /\ request'.got[s[k]] = result
       /\ \A st \in DOMAIN request.got : request'.got[st] = request.got[st]
  BY <1>7, <1>9, <1>10, <1>11
<1> QED
  BY <1>1, <1>4, <1>7, <1>9, <1>12, Zenon
=============================================================================
