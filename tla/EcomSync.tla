------------------------------- MODULE EcomSync -------------------------------
(***************************************************************************)
(* The background sync of e-commerce steps (package ecomsync): one source  *)
(* after the other, a row for every day of the range, and a journal row    *)
(* per run in the table the traffic sync writes to as well.  A mutex keeps *)
(* two syncs apart; Sync is only called by the ticker of Run.              *)
(***************************************************************************)
EXTENDS OrderRows

CONSTANTS
    EcomSources,   \* the configured sources, in their order
    ChannelOf,     \* the channel of a source
    Reported,      \* what a source answers for a day, by source and day
    Revision,      \* EcommerceRevision of a source, "" when it has none
    Lookback, Backfill,
    MaxRuns        \* bound of the journal

VARIABLES
    shop,          \* analytics_ecommerce_daily
    runs,          \* analytics_sync_runs, in the order of their ids
    revisions,     \* analytics_source_revisions
    ecom           \* the sync under way

Idle == [pc |-> "idle", todo |-> <<>>, from |-> NoDay, run |-> 0, failed |-> FALSE]

EcomInit ==
    /\ shop = {}
    /\ revisions = [s \in Range(EcomSources) |-> ""]
    /\ ecom = Idle

NoSteps == [views |-> 0, carts |-> 0, checkouts |-> 0, purchases |-> 0]

Source    == Head(ecom.todo)
Working   == ecom.todo # <<>>
Yesterday == Today - 1

latestDataDay(s) == Max({NoDay} \cup {d.day : d \in {e \in shop : e.source = s}})

revisionChanged(s) == Revision[s] # "" /\ revisions[s] # Revision[s]

FirstDay(s) ==
    IF latestDataDay(s) # NoDay /\ ~revisionChanged(s)
    THEN Yesterday - (Lookback - 1) ELSE Yesterday - (Backfill - 1)

(* Faulty variant: a day without an event gets no row. *)
daysReported(s, from) ==
    {[day |-> d, channel |-> ChannelOf[s], source |-> s] ++ Reported[s][d] :
        d \in DOMAIN Reported[s] \cap (from..Yesterday)}

completeDays(s, from) ==
    {[day |-> d, channel |-> ChannelOf[s], source |-> s] ++
     (IF d \in DOMAIN Reported[s] THEN Reported[s][d] ELSE NoSteps) : d \in from..Yesterday}

BeginSync ==
    /\ ecom.pc = "idle"
    /\ Len(runs) < MaxRuns
    /\ ecom' = [ecom EXCEPT !.pc = "start", !.todo = EcomSources]
    /\ UNCHANGED <<shop, runs, revisions>>

(* latestDataDay and sourceRevision are read, the run is journalled. *)
StartRun ==
    /\ ecom.pc = "start" /\ Working
    /\ Len(runs) < MaxRuns
    /\ runs' = Append(runs, [source |-> Source, from |-> FirstDay(Source),
                             to |-> Yesterday, status |-> "running"])
    /\ ecom' = [ecom EXCEPT !.pc = "fetch", !.from = FirstDay(Source),
                            !.run = Len(runs) + 1]
    /\ UNCHANGED <<shop, revisions>>

NextSource == ecom' = [ecom EXCEPT !.pc = "start", !.todo = Tail(@), !.failed = FALSE]

(* Reading the range or writing the journal fails. *)
SkipSource ==
    /\ ecom.pc = "start" /\ Working
    /\ NextSource
    /\ UNCHANGED <<shop, runs, revisions>>

(* FetchEcommerce and the upsert of every day it was asked for. *)
Store ==
    LET rows == completeDays(Source, ecom.from)
        kept == {old \in shop : ~\E r \in rows :
                    old.day = r.day /\ old.channel = r.channel /\ old.source = r.source}
    IN  /\ ecom.pc = "fetch"
        /\ shop' = kept \cup rows
        /\ ecom' = [ecom EXCEPT !.pc = IF Revision[Source] # "" THEN "revision" ELSE "finish"]
        /\ UNCHANGED <<runs, revisions>>

setSourceRevision ==
    /\ ecom.pc = "revision"
    /\ revisions' = [revisions EXCEPT ![Source] = Revision[Source]]
    /\ ecom' = [ecom EXCEPT !.pc = "finish"]
    /\ UNCHANGED <<shop, runs>>

SourceFails ==
    /\ ecom.pc \in {"fetch", "revision"}
    /\ ecom' = [ecom EXCEPT !.pc = "finish", !.failed = TRUE]
    /\ UNCHANGED <<shop, runs, revisions>>

finishRun ==
    /\ ecom.pc = "finish"
    /\ runs' = [runs EXCEPT ![ecom.run].status = IF ecom.failed THEN "error" ELSE "success"]
    /\ NextSource
    /\ UNCHANGED <<shop, revisions>>

(* The journal row stays "running". *)
FinishFails ==
    /\ ecom.pc = "finish"
    /\ NextSource
    /\ UNCHANGED <<shop, runs, revisions>>

EndSync ==
    /\ ecom.pc = "start" /\ ~Working
    /\ ecom' = Idle
    /\ UNCHANGED <<shop, runs, revisions>>

Sync ==
    \/ BeginSync \/ StartRun \/ SkipSource \/ Store \/ setSourceRevision
    \/ SourceFails \/ finishRun \/ FinishFails \/ EndSync
=============================================================================
