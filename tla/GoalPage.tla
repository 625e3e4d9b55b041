------------------------------- MODULE GoalPage -------------------------------
(***************************************************************************)
(* The page on which the target of a month is seen and set: the hook       *)
(* useGoalPlan of the client, and the PUT /api/plan it sends.  A report    *)
(* that is loaded replaces what is shown; an answer to a saved target      *)
(* replaces the plan of the report that is shown when it arrives.  Nothing *)
(* cancels a PUT: one the page has given up on may still be committed.     *)
(***************************************************************************)
EXTENDS Targets

CONSTANTS
    Totals,       \* the targets that may be entered
    MaxLoads,     \* bound of the loads
    MaxSaves      \* bound of the saves

VARIABLES
    plan,         \* sales_plan
    page,         \* the state of the hook; mixed is no part of it, see Load
    save,         \* PUT /api/plan under way
    lost,         \* the PUTs the page has given up on, and the server has not
    since         \* no part of the program: who wrote the plan since it was
                  \* read for the load, for the answer, for what is shown

NoSave == [stage |-> "none", year |-> 0, its |-> {}, plan |-> <<>>]

(* shown is empty or the one report on the page. *)
PageInit ==
    /\ page = [year |-> 0, month |-> 0, shown |-> <<>>, loading |-> FALSE, saving |-> FALSE,
               error |-> FALSE, mixed |-> FALSE, loads |-> 0, saves |-> 0]
    /\ save = NoSave
    /\ lost = {}
    /\ since = [load |-> {}, answer |-> {}, shown |-> {}]

Showing == page.shown # <<>>
Shown   == Head(page.shown)
Saving  == save.stage # "none"

(* Faulty variant: an error leaves the flags as they are. *)
FailedKeepsLoading(p, flag) == [p EXCEPT !.error = TRUE]

Failed(p, flag) == [p EXCEPT ![flag] = FALSE, !.error = TRUE]

(* The plan is written by the save whose answer the page waits for, or by  *)
(* any other: another page, a PUT that was given up on.                    *)
PlanWritten(who) == since' = [copy \in DOMAIN since |-> since[copy] \cup {who}]
PlanRead(copy)   == since' = [since EXCEPT ![copy] = {}]
Taken(copy)      == since' = [since EXCEPT !.shown = since[copy]]

-----------------------------------------------------------------------------
(* Faulty variant: without setReport(null).                                *)
LoadKeepsShown(year, month) ==
    /\ page.loads < MaxLoads
    /\ year \in Years /\ month \in Months
    /\ page' = [page EXCEPT !.year = year, !.month = month, !.loading = TRUE,
                            !.error = FALSE, !.mixed = Saving, !.loads = @ + 1]
    /\ UNCHANGED <<plan, save, lost, since>>

(* load(): mounting, another year or month, a reload.  The request before  *)
(* it is aborted and its answer ignored.  mixed remembers that a save was  *)
(* on its way: its answer then meets a report it was not made for.         *)
Load(year, month) ==
    /\ page.loads < MaxLoads
    /\ year \in Years /\ month \in Months
    /\ page' = [page EXCEPT !.year = year, !.month = month, !.shown = <<>>,
                            !.loading = TRUE, !.error = FALSE,
                            !.mixed = Saving, !.loads = @ + 1]
    /\ UNCHANGED <<plan, save, lost, since>>

(* The report arrives. *)
Loaded(report) ==
    /\ page.loading
    /\ page' = [page EXCEPT !.loading = FALSE,
                    !.shown = <<[year |-> page.year, plan |-> report.plan,
                                 current |-> report.current, history |-> report.history]>>]
    /\ Taken("load")
    /\ UNCHANGED <<plan, save, lost>>

LoadFails ==
    /\ page.loading
    /\ page' = Failed(page, "loading")
    /\ UNCHANGED <<plan, save, lost, since>>

(* The channels' part of the target: as they sold before the month, else   *)
(* in it, else half each.                                                  *)
buildAllocation(report) ==
    LET Basis(period) == [site |-> period.site.revenue, app |-> period.app.revenue]
        past    == IF "site" \in DOMAIN report.history THEN Basis(report.history)
                   ELSE [site |-> 0, app |-> 0]
        current == Basis(report.current)
    IN  IF past.site + past.app > 0 THEN past
        ELSE IF current.site + current.app > 0 THEN current
        ELSE [site |-> 1, app |-> 1]

(* The app gets what rounding leaves. *)
allocationTargets(total, basis) ==
    LET site == Rounded(total * basis.site, basis.site + basis.app)
    IN  [all |-> total, site |-> site, app |-> total - site]

(* The button is disabled while a save is under way. *)
SaveTarget(total) ==
    LET targets == allocationTargets(total, buildAllocation(Shown))
    IN  /\ Showing /\ ~page.saving
        /\ page.saves < MaxSaves
        /\ page' = [page EXCEPT !.saving = TRUE, !.error = FALSE, !.saves = @ + 1]
        /\ save' = [NoSave EXCEPT !.stage = "sent", !.year = page.year,
                        !.its = {[month |-> page.month, channel |-> ch, target |-> targets[ch]] :
                                    ch \in PlanChannels}]
        /\ UNCHANGED <<plan, lost, since>>

(* plan.Save: the transaction, and then the year is read for the answer.   *)
SaveCommits ==
    /\ save.stage = "sent"
    /\ PlanSavable(save.year, save.its)
    /\ plan' = upsertPlan(plan, save.year, save.its)
    /\ save' = [save EXCEPT !.stage = "committed"]
    /\ PlanWritten("save")
    /\ UNCHANGED <<page, lost>>

SaveReads ==
    /\ save.stage = "committed"
    /\ save' = [save EXCEPT !.stage = "read",
                            !.plan = buildPlanReport(save.year, loadPlanYear(plan, save.year))]
    /\ PlanRead("answer")
    /\ UNCHANGED <<plan, page, lost>>

(* setReport(current => current ? {...current, plan} : current)            *)
SaveAnswers ==
    /\ save.stage = "read"
    /\ page' = [page EXCEPT !.saving = FALSE,
                    !.shown = IF @ = <<>> THEN @
                              ELSE <<[Head(@) EXCEPT !.year = save.year, !.plan = save.plan]>>]
    /\ save' = NoSave
    /\ Taken("answer")
    /\ UNCHANGED <<plan, lost>>

(* Refused, or never heard of, or the answer is lost: what was committed   *)
(* by then stays, and what was not may be committed later.                 *)
SaveFails ==
    /\ Saving
    /\ page' = Failed(page, "saving")
    /\ save' = NoSave
    /\ \/ UNCHANGED lost
       \/ /\ save.stage = "sent"
          /\ lost' = lost \cup {[n |-> page.saves, year |-> save.year, its |-> save.its]}
    /\ UNCHANGED <<plan, since>>

LostCommits ==
    \E put \in lost :
        /\ PlanSavable(put.year, put.its)
        /\ plan' = upsertPlan(plan, put.year, put.its)
        /\ lost' = lost \ {put}
        /\ PlanWritten("other")
        /\ UNCHANGED <<page, save>>

(* The server goes away: every fetch of the page fails.                    *)
ServerGone ==
    LET loadFailed == IF page.loading THEN Failed(page, "loading") ELSE page
    IN  /\ page' = IF page.saving THEN Failed(loadFailed, "saving") ELSE loadFailed
        /\ save' = NoSave /\ lost' = {}
        /\ UNCHANGED <<plan, since>>

-----------------------------------------------------------------------------
StoredPlan(year) == buildPlanReport(year, loadPlanYear(plan, year))

(* The page shows the stored plan of the year it says, until somebody else *)
(* writes.  Unless a load met a save, it is the year that is selected, and *)
(* a target that was saved without an error is in it.                      *)
ShowsStored ==
    Showing =>
        /\ since.shown = {} => Shown.plan = StoredPlan(Shown.year)
        /\ ~page.mixed => Shown.year = page.year
        /\ (~Saving /\ ~page.error /\ ~page.mixed) => "save" \notin since.shown

(* The client cancels what is outdated when another year is selected: the  *)
(* plan that is shown is that of the year selected (ADR 0008).             *)
ShowsSelected == Showing => Shown.year = page.year
=============================================================================
