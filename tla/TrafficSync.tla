----------------------------- MODULE TrafficSync -----------------------------
(***************************************************************************)
(* The background synchronisation of daily traffic: trafficsync.Service    *)
(* and its Repository, the handler POST /api/analytics/sync and the page's *)
(* useAnalyticsRefresh.  One goroutine syncs on a timer, and every manual  *)
(* request may start another; the flag `running` keeps them apart.  A sync *)
(* asks each source for a range of closed days, in chunks, stores them in  *)
(* one transaction, records the revision of the query and closes its       *)
(* journal row: five statements, any of which can fail, with the process   *)
(* stopping between any two.                                               *)
(*                                                                         *)
(* Days and revisions are numbers.  Only the latest journal row of each    *)
(* source is kept, the one latestRuns reports.                             *)
(***************************************************************************)
EXTENDS Integers, Sequences, FiniteSets

CONSTANTS
    SourceList,     \* the configured sources, in the service's order
    Versioned,      \* those that declare a Revision
    ChunkDays,      \* days per request of each source
    Requests,       \* manual refreshes, each by a page of its own
    Scheduler,      \* the goroutine of Run
    Lookback,       \* ANALYTICS_SYNC_LOOKBACK_DAYS
    Backfill,       \* ANALYTICS_BACKFILL_DAYS
    Figures,        \* the sessions a source can report for a day
    Zero,           \* no sessions
    NoRow,          \* nothing reported, or nothing stored
    FirstToday,     \* the day the service is first started
    LastToday,      \* bound: the last day of the behaviour
    MaxFaults,      \* bound: failed statements, failed requests and restarts
    MaxCorrections, \* bound: figures a source changes afterwards
    Rollbacks       \* whether an earlier revision may be deployed again

Sources == {SourceList[k] : k \in DOMAIN SourceList}
Procs   == Requests \cup {Scheduler}

(* The longer of the two ranges: the code does not compare them. *)
Depth == IF Lookback > Backfill THEN Lookback ELSE Backfill
Days  == (FirstToday - Depth)..LastToday

(* A row of analytics_traffic_daily, a row of analytics_sync_runs. *)
Row == [figure: Figures, revision: Nat]
Run == [by: Procs, from: Int, to: Int, status: {"running", "success", "error"}]

ASSUME SyncAssumption ==
    /\ SourceList \in Seq(Sources)
    /\ Versioned \subseteq Sources
    /\ ChunkDays \in [Sources -> Nat \ {0}]
    /\ Scheduler \notin Requests
    /\ Lookback \in Nat \ {0}
    /\ Backfill \in Nat \ {0}
    /\ Zero \in Figures
    /\ NoRow \notin Figures \cup Row \cup Run
    /\ NoRow \notin [started: BOOLEAN, syncing: BOOLEAN]
    /\ FirstToday \in Int /\ LastToday \in Int /\ FirstToday <= LastToday
    /\ MaxFaults \in Nat /\ MaxCorrections \in Nat
    /\ Rollbacks \in BOOLEAN

VARIABLES
    today,        \* the current day in the service's timezone
    remote,       \* what each source reports for each day
    corrections,  \* how many figures have been changed
    faults,       \* how many faults have occurred
    revision,     \* the revision the deployed code declares
    daily,        \* table analytics_traffic_daily
    applied,      \* table analytics_source_revisions, 0 for no row
    journal,      \* table analytics_sync_runs, the latest row of each source
    running,      \* the flag Service.running
    pc,           \* where each goroutine is in sync
    todo,         \* the sources it has not finished
    from, to,     \* the days it asks for
    next,         \* the first day of its next chunk
    got,          \* the figures it has received
    failed,       \* whether its fetchErr is set
    page,         \* the page of each request
    answer        \* the TriggerResult each request got

world    == <<today, remote, corrections>>
tables   == <<daily, applied, journal>>
locals   == <<from, to, next, got, failed>>
frontend == <<page, answer>>
vars     == <<world, faults, revision, tables, running, pc, todo, locals, frontend>>

NoFigures == [d \in Days |-> NoRow]

Init ==
    /\ today = FirstToday
    /\ \E f \in Figures \cup {NoRow} : remote = [s \in Sources |-> [d \in Days |-> f]]
    /\ corrections = 0
    /\ faults = 0
    /\ revision = 1
    /\ daily = [s \in Sources |-> [d \in Days |-> NoRow]]
    /\ applied = [s \in Sources |-> 0]
    /\ journal = [s \in Sources |-> NoRow]
    /\ running = FALSE
    /\ pc = [p \in Procs |-> "idle"]
    /\ todo = [p \in Procs |-> <<>>]
    /\ from = [p \in Procs |-> 0]
    /\ to = [p \in Procs |-> 0]
    /\ next = [p \in Procs |-> 0]
    /\ got = [p \in Procs |-> NoFigures]
    /\ failed = [p \in Procs |-> FALSE]
    /\ page = [r \in Requests |-> "idle"]
    /\ answer = [r \in Requests |-> NoRow]

-----------------------------------------------------------------------------
(* The world outside: days pass, sources correct figures they reported. *)

NewDay ==
    /\ today < LastToday
    /\ today' = today + 1
    /\ UNCHANGED <<remote, corrections, faults, revision, tables, running, pc,
                   todo, locals, frontend>>

Correct(s, d, f) ==
    /\ corrections < MaxCorrections
    /\ d < today
    /\ f # remote[s][d]
    /\ remote' = [remote EXCEPT ![s][d] = f]
    /\ corrections' = corrections + 1
    /\ UNCHANGED <<today, faults, revision, tables, running, pc, todo, locals,
                   frontend>>

-----------------------------------------------------------------------------
(* Faulty variant: the flag is set without being looked at. *)
AcquireAnyway(p) ==
    /\ running' = TRUE
    /\ pc' = [pc EXCEPT ![p] = "clock"]

(* running.CompareAndSwap(false, true), and the sync is under way. *)
Acquire(p) ==
    /\ ~running
    /\ running' = TRUE
    /\ pc' = [pc EXCEPT ![p] = "clock"]

(* Sync, on the start of Run and on its ticker.  A tick that meets a sync  *)
(* under way does nothing.                                                 *)
Tick ==
    /\ pc[Scheduler] = "idle"
    /\ Acquire(Scheduler)
    /\ UNCHANGED <<world, faults, revision, tables, todo, locals, frontend>>

(* Faulty variant: today is taken for a closed day. *)
LastDayOpen == today

(* `to` of sync: yesterday. *)
LastClosedDay == today - 1

ReadClock(p) ==
    /\ pc[p] = "clock"
    /\ to' = [to EXCEPT ![p] = LastClosedDay]
    /\ todo' = [todo EXCEPT ![p] = SourceList]
    /\ pc' = [pc EXCEPT ![p] = "pick"]
    /\ UNCHANGED <<world, faults, revision, tables, running, from, next, got,
                   failed, frontend>>

Source(p)    == Head(todo[p])
Working(p)   == todo[p] # <<>>
HasData(s)   == \E d \in Days : daily[s][d] # NoRow

(* Faulty variant: the stored revision is not looked at. *)
RevisionIgnored(s) == FALSE

RevisionChanged(s) == s \in Versioned /\ applied[s] # revision

(* Faulty variant: an off-by-one in the lookback. *)
FirstDayShort(s, last) ==
    IF HasData(s) /\ ~RevisionChanged(s) THEN last - (Lookback - 2)
                                         ELSE last - (Backfill - 1)

(* `from` of sync: the lookback, or the backfill when the source has no    *)
(* data or its query has changed its meaning.                              *)
FirstDay(s, last) ==
    IF HasData(s) /\ ~RevisionChanged(s) THEN last - (Lookback - 1)
                                         ELSE last - (Backfill - 1)

(* latestDataDay and sourceRevision are read. *)
PickRange(p) ==
    /\ pc[p] = "pick"
    /\ Working(p)
    /\ from' = [from EXCEPT ![p] = FirstDay(Source(p), to[p])]
    /\ pc' = [pc EXCEPT ![p] = "journal"]
    /\ UNCHANGED <<world, faults, revision, tables, running, todo, to, next, got,
                   failed, frontend>>

StartRun(p) ==
    /\ pc[p] = "journal"
    /\ journal' = [journal EXCEPT ![Source(p)] =
           [by |-> p, from |-> from[p], to |-> to[p], status |-> "running"]]
    /\ next' = [next EXCEPT ![p] = from[p]]
    /\ got' = [got EXCEPT ![p] = NoFigures]
    /\ pc' = [pc EXCEPT ![p] = "fetch"]
    /\ UNCHANGED <<world, faults, revision, daily, applied, running, todo, from,
                   to, failed, frontend>>

Fault == faults < MaxFaults /\ faults' = faults + 1

(* Before the journal row exists an error only skips the source.           *)
SkipSource(p) ==
    /\ pc[p] \in {"pick", "journal"}
    /\ Working(p)
    /\ Fault
    /\ todo' = [todo EXCEPT ![p] = Tail(@)]
    /\ pc' = [pc EXCEPT ![p] = "pick"]
    /\ UNCHANGED <<world, revision, tables, running, locals, frontend>>

(* Fetch asks for one chunk after the other.                               *)
FetchChunk(p) ==
    LET s    == Source(p)
        last == next[p] + ChunkDays[s] - 1
    IN  /\ pc[p] = "fetch"
        /\ got' = [got EXCEPT ![p] =
               [d \in Days |-> IF d \in next[p]..last /\ d <= to[p]
                               THEN remote[s][d] ELSE @[d]]]
        /\ next' = [next EXCEPT ![p] = last + 1]
        /\ pc' = [pc EXCEPT ![p] = IF last + 1 > to[p] THEN "upsert" ELSE @]
        /\ UNCHANGED <<world, faults, revision, tables, running, todo, from, to,
                       failed, frontend>>

(* Faulty variants: only the days that were reported are stored; a day     *)
(* without a figure keeps NULL; the upsert replaces the source's rows.     *)
OnlyReported(p, old) ==
    [d \in Days |-> IF d \in from[p]..to[p] /\ got[p][d] # NoRow
                    THEN [figure |-> got[p][d], revision |-> revision] ELSE old[d]]
ReportedOrNull(p, old) ==
    [d \in Days |-> IF d \in from[p]..to[p]
                    THEN [figure |-> got[p][d], revision |-> revision] ELSE old[d]]

OnlyRange(p, old) ==
    [d \in Days |-> IF d \in from[p]..to[p]
                    THEN [figure |-> IF got[p][d] = NoRow THEN Zero ELSE got[p][d],
                          revision |-> revision]
                    ELSE NoRow]

(* completeDays and upsert: every day of the range, zero when the source   *)
(* reported nothing.  A row carries the revision it was fetched under.     *)
Completed(p, old) ==
    [d \in Days |->
        IF d \in from[p]..to[p]
        THEN [figure |-> IF got[p][d] = NoRow THEN Zero ELSE got[p][d],
              revision |-> revision]
        ELSE old[d]]

Upsert(p) ==
    /\ pc[p] = "upsert"
    /\ daily' = [daily EXCEPT ![Source(p)] = Completed(p, @)]
    /\ pc' = [pc EXCEPT ![p] = IF Source(p) \in Versioned THEN "revision" ELSE "finish"]
    /\ UNCHANGED <<world, faults, revision, applied, journal, running, todo,
                   locals, frontend>>

SetSourceRevision(p) ==
    /\ pc[p] = "revision"
    /\ applied' = [applied EXCEPT ![Source(p)] = revision]
    /\ pc' = [pc EXCEPT ![p] = "finish"]
    /\ UNCHANGED <<world, faults, revision, daily, journal, running, todo, locals,
                   frontend>>

(* A request to the source or a statement fails: the run ends in an error. *)
RunFails(p) ==
    /\ pc[p] \in {"fetch", "upsert", "revision"}
    /\ Fault
    /\ failed' = [failed EXCEPT ![p] = TRUE]
    /\ pc' = [pc EXCEPT ![p] = "finish"]
    /\ UNCHANGED <<world, revision, tables, running, todo, from, to, next, got,
                   frontend>>

NextSource(p) ==
    /\ todo' = [todo EXCEPT ![p] = Tail(@)]
    /\ failed' = [failed EXCEPT ![p] = FALSE]
    /\ pc' = [pc EXCEPT ![p] = "pick"]

FinishRun(p) ==
    /\ pc[p] = "finish"
    /\ journal' = [journal EXCEPT ![Source(p)] =
           IF @ # NoRow /\ @.by = p
           THEN [@ EXCEPT !.status = IF failed[p] THEN "error" ELSE "success"]
           ELSE @]
    /\ NextSource(p)
    /\ UNCHANGED <<world, faults, revision, daily, applied, running, from, to,
                   next, got, frontend>>

(* The journal row stays "running". *)
FinishFails(p) ==
    /\ pc[p] = "finish"
    /\ Fault
    /\ NextSource(p)
    /\ UNCHANGED <<world, revision, tables, running, from, to, next, got, frontend>>

(* The locals of the syncs in S are gone. *)
Forget(S) ==
    /\ from' = [p \in Procs |-> IF p \in S THEN 0 ELSE from[p]]
    /\ to'   = [p \in Procs |-> IF p \in S THEN 0 ELSE to[p]]
    /\ next' = [p \in Procs |-> IF p \in S THEN 0 ELSE next[p]]
    /\ got'  = [p \in Procs |-> IF p \in S THEN NoFigures ELSE got[p]]

(* Faulty variant: the flag is only cleared when every source succeeded.   *)
KeepFlag(p) == running' = (\E s \in Sources : journal[s] = NoRow \/ journal[s].status # "success")

(* The deferred running.Store(false). *)
Release(p) == running' = FALSE

EndSync(p) ==
    /\ pc[p] = "pick"
    /\ ~Working(p)
    /\ Release(p)
    /\ pc' = [pc EXCEPT ![p] = "idle"]
    /\ Forget({p})
    /\ UNCHANGED <<world, faults, revision, tables, todo, failed, frontend>>

-----------------------------------------------------------------------------
(* A manual refresh: the button, the handler analyticsSync, the polling.   *)

Press(r) ==
    /\ page[r] = "idle"
    /\ page' = [page EXCEPT ![r] = "posted"]
    /\ UNCHANGED <<world, faults, revision, tables, running, pc, todo, locals, answer>>

(* Faulty variant: the answer is given before the flag is set. *)
TriggerLater(r) ==
    /\ page[r] = "posted"
    /\ answer' = [answer EXCEPT ![r] = [started |-> ~running, syncing |-> FALSE]]
    /\ pc' = [pc EXCEPT ![r] = IF running THEN @ ELSE "clock"]
    /\ page' = [page EXCEPT ![r] = "started"]
    /\ UNCHANGED <<world, faults, revision, tables, running, todo, locals>>

(* Trigger: the flag is set by the handler, the goroutine runs on its own. *)
Trigger(r) ==
    /\ page[r] = "posted"
    /\ answer' = [answer EXCEPT ![r] = [started |-> ~running, syncing |-> FALSE]]
    /\ Acquire(r) \/ (running /\ UNCHANGED <<running, pc>>)
    /\ page' = [page EXCEPT ![r] = "started"]
    /\ UNCHANGED <<world, faults, revision, tables, todo, locals>>

(* Trigger reads the flag once more for its answer, and the handler        *)
(* responds.                                                               *)
Respond(r) ==
    /\ page[r] = "started"
    /\ answer' = [answer EXCEPT ![r].syncing = running]
    /\ page' = [page EXCEPT ![r] = "polling"]
    /\ UNCHANGED <<world, faults, revision, tables, running, pc, todo, locals>>

(* A poll of the status that finds no sync: the page reloads its data.  A  *)
(* poll that finds one waits for the next, which changes nothing here.     *)
PollDone(r) ==
    /\ page[r] = "polling"
    /\ ~running
    /\ page' = [page EXCEPT ![r] = "done"]
    /\ UNCHANGED <<world, faults, revision, tables, running, pc, todo, locals, answer>>

(* Two minutes have passed, the page is closed or a request fails.         *)
GiveUp(r) ==
    /\ page[r] \in {"posted", "started", "polling"}
    /\ page' = [page EXCEPT ![r] = "gaveup"]
    /\ UNCHANGED <<world, faults, revision, tables, running, pc, todo, locals, answer>>

(* The process stops, in the middle of anything, and starts again with the *)
(* same code or with code whose queries have another revision.             *)
Restart(rev) ==
    /\ Fault
    /\ revision' = rev
    /\ running' = FALSE
    /\ pc' = [p \in Procs |-> "idle"]
    /\ todo' = [p \in Procs |-> <<>>]
    /\ failed' = [p \in Procs |-> FALSE]
    /\ page' = [r \in Requests |->
           IF page[r] \in {"posted", "started"} THEN "gaveup" ELSE page[r]]
    /\ Forget(Procs)
    /\ UNCHANGED <<world, tables, answer>>

Deployable == {revision, revision + 1} \cup
              (IF Rollbacks THEN {revision - 1} \ {0} ELSE {})

-----------------------------------------------------------------------------
SyncStep(p) ==
    \/ ReadClock(p)
    \/ PickRange(p)
    \/ StartRun(p)
    \/ FetchChunk(p)
    \/ Upsert(p)
    \/ SetSourceRevision(p)
    \/ FinishRun(p)
    \/ EndSync(p)

Failure(p) ==
    \/ SkipSource(p)
    \/ RunFails(p)
    \/ FinishFails(p)

PageStep(r) ==
    \/ Press(r)
    \/ Trigger(r)
    \/ Respond(r)
    \/ PollDone(r)
    \/ GiveUp(r)

Next ==
    \/ NewDay
    \/ \E s \in Sources, d \in Days, f \in Figures \cup {NoRow} : Correct(s, d, f)
    \/ Tick
    \/ \E p \in Procs : SyncStep(p) \/ Failure(p)
    \/ \E r \in Requests : PageStep(r)
    \/ \E rev \in Deployable : Restart(rev)

Spec == Init /\ [][Next]_vars

(* The goroutine of Run comes back to its ticker for ever, and a sync that *)
(* was started goes on: its HTTP requests carry a timeout of 45 seconds.   *)
Fairness ==
    /\ WF_vars(Tick)
    /\ \A p \in Procs : WF_vars(SyncStep(p))

FairSpec == Spec /\ Fairness

-----------------------------------------------------------------------------
(* The variables have their types; no stored day is without a figure.      *)
TypeOK ==
    /\ today \in FirstToday..LastToday
    /\ remote \in [Sources -> [Days -> Figures \cup {NoRow}]]
    /\ corrections \in 0..MaxCorrections
    /\ faults \in 0..MaxFaults
    /\ revision \in Nat \ {0}
    /\ daily \in [Sources -> [Days -> Row \cup {NoRow}]]
    /\ applied \in [Sources -> Nat]
    /\ journal \in [Sources -> Run \cup {NoRow}]
    /\ running \in BOOLEAN
    /\ pc \in [Procs -> {"idle", "clock", "pick", "journal", "fetch", "upsert",
                         "revision", "finish"}]
    /\ todo \in [Procs -> Seq(Sources)]
    /\ from \in [Procs -> Int]
    /\ to \in [Procs -> Int]
    /\ next \in [Procs -> Int]
    /\ got \in [Procs -> [Days -> Figures \cup {NoRow}]]
    /\ failed \in [Procs -> BOOLEAN]
    /\ page \in [Requests -> {"idle", "posted", "started", "polling", "done", "gaveup"}]
    /\ answer \in [Requests -> [started: BOOLEAN, syncing: BOOLEAN] \cup {NoRow}]

(* ADR 0005, decision 9: syncs never run side by side, and the flag tells  *)
(* exactly whether one runs, whatever failed in it.                        *)
OneSync ==
    /\ \A p, q \in Procs : pc[p] # "idle" /\ pc[q] # "idle" => p = q
    /\ running <=> \E p \in Procs : pc[p] # "idle"

Stored(s, d) == d \in Days /\ daily[s][d] # NoRow

(* Only days that are over are stored, also when midnight passes during a  *)
(* sync: today's figure would be a part of the day.                        *)
ClosedDaysOnly == \A s \in Sources, d \in Days : Stored(s, d) => d < today

(* A run the journal calls a success has left a figure for every day of    *)
(* its range, the days its source said nothing about included.             *)
SuccessIsComplete ==
    \A s \in Sources :
        LET run == journal[s]
        IN  run # NoRow =>
                (run.status = "success" => \A d \in run.from..run.to : Stored(s, d))

(* Days are missing only where the service was down or failing for longer  *)
(* than the lookback reaches: what follows a gap is a whole sync's range.  *)
GapsOnlyByOutage ==
    \A s \in Sources, d \in Days :
        (Stored(s, d) /\ ~Stored(s, d - 1) /\ \E e \in Days : e < d /\ Stored(s, e)) =>
            \A k \in 0..(Lookback - 1) : k < Backfill => Stored(s, d + k)

(* A stored day that the depth of a backfill from the latest one reaches.  *)
Recent(s, d) == Stored(s, d) /\ \A e \in Days : Stored(s, e) => e - d < Backfill

(* ADR 0005, decision 8: once the deployed revision is recorded as applied *)
(* every stored day of the backfill's depth was fetched under it; until    *)
(* then the next sync fetches the whole depth again, so that an error or a *)
(* restart between the two statements mixes nothing.                       *)
RevisionApplied ==
    \A s \in Versioned :
        applied[s] = revision =>
            \A d \in Days : Recent(s, d) => daily[s][d].revision = revision

(* A stored day is never lost again, whatever fails (ADR 0005).            *)
StoredForGood ==
    [][\A s \in Sources, d \in Days : Stored(s, d) => daily'[s][d] # NoRow]_vars

(* A page that started a sync reloads its data only when that sync is over.*)
RefreshSeesItsSync ==
    \A r \in Requests : page[r] = "done" => pc[r] = "idle"

(* No failure leaves the flag set: the next tick or request can sync again.*)
SyncEnds == running ~> ~running

Figure(s, d) == IF remote[s][d] = NoRow THEN Zero ELSE remote[s][d]

(* When the faults are over, the days the lookback reaches show what their *)
(* source says, late corrections and missing days included.                *)
CatchesUp ==
    <>[](\A s \in Sources : \A d \in (today - Lookback)..(today - 1) :
            d <= today - 1 /\ d > today - 1 - Backfill =>
                Stored(s, d) /\ daily[s][d].figure = Figure(s, d))

-----------------------------------------------------------------------------
(* The inductive invariant of the syncs. *)

(* A goroutine that works on a source has one to work on.                  *)
HasSource ==
    \A p \in Procs : pc[p] \in {"journal", "fetch", "upsert", "revision", "finish"} => Working(p)

(* The range of a sync ended before today when the clock was read, and     *)
(* today only moves on.                                                    *)
RangeOver == \A p \in Procs : pc[p] \notin {"idle", "clock"} => to[p] < today

(* A page that its request has started has an answer under way.            *)
Answering == \A r \in Requests : page[r] \in {"started", "polling"} => answer[r] # NoRow

(* What holds of every sync under way, and of the flag.                    *)
SyncInv == OneSync /\ HasSource /\ RangeOver /\ Answering

-----------------------------------------------------------------------------
(* The inductive invariant of the runs, for what they leave in the tables. *)

(* Between the choice of a range and its upsert nothing changes that the   *)
(* choice looked at.                                                       *)
RangePicked ==
    \A p \in Procs :
        pc[p] \in {"journal", "fetch", "upsert"} => from[p] = FirstDay(Source(p), to[p])

(* A sync ends its ranges where no earlier one went.                       *)
NothingNewer ==
    \A p \in Procs :
        pc[p] \notin {"idle", "clock"} =>
            /\ FirstToday - 1 <= to[p]
            /\ \A s \in Sources, d \in Days : Stored(s, d) => d <= to[p]

(* The latest journal row of a source is that of the run under way.        *)
Journalled ==
    \A p \in Procs :
        pc[p] \in {"fetch", "upsert", "revision", "finish"} =>
            journal[Source(p)] =
                [by |-> p, from |-> from[p], to |-> to[p], status |-> "running"]

(* A run that has not failed after its upsert has stored its whole range.  *)
RangeStored ==
    \A p \in Procs :
        pc[p] \in {"revision", "finish"} /\ ~failed[p] =>
            \A d \in from[p]..to[p] : Stored(Source(p), d)

RunInv == RangePicked /\ NothingNewer /\ Journalled /\ RangeStored

(* When a revision is about to be recorded its days are in the table.      *)
RevisionWritten ==
    \A p \in Procs :
        pc[p] = "revision" =>
            /\ Stored(Source(p), to[p])
            /\ \A d \in Days :
                  Stored(Source(p), d) /\ to[p] - d < Backfill =>
                      daily[Source(p)][d].revision = revision

(* Without rollbacks no recorded revision is ahead of the deployed one.    *)
NoneAhead == \A s \in Sources : applied[s] <= revision

RevisionInv == RevisionWritten /\ NoneAhead
=============================================================================
