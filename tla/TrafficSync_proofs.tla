------------------------- MODULE TrafficSync_proofs -------------------------
(***************************************************************************)
(* Theorems about TrafficSync, for every list of sources, every lookback,  *)
(* backfill and chunk length, and any number of requests and faults.       *)
(***************************************************************************)
EXTENDS TrafficSync, SequenceTheorems, TLAPS

(* The service starts with empty tables and no sync.                       *)
LEMMA TypeInit == Init => TypeOK
<1> SUFFICES ASSUME Init PROVE TypeOK
  OBVIOUS
<1>1. remote \in [Sources -> [Days -> Figures \cup {NoRow}]]
  BY DEF Init
<1>2. todo \in [Procs -> Seq(Sources)]
  BY DEF Init
<1>3. got \in [Procs -> [Days -> Figures \cup {NoRow}]]
  BY DEF Init, NoFigures
<1>4. /\ daily \in [Sources -> [Days -> Row \cup {NoRow}]]
      /\ applied \in [Sources -> Nat]
      /\ journal \in [Sources -> Run \cup {NoRow}]
  BY DEF Init
<1>5. /\ today \in FirstToday..LastToday
      /\ corrections \in 0..MaxCorrections /\ faults \in 0..MaxFaults
      /\ revision \in Nat \ {0}
  <2>1. FirstToday \in FirstToday..LastToday /\ 0 \in 0..MaxFaults /\ 0 \in 0..MaxCorrections
    BY SyncAssumption
  <2> QED
    BY <2>1 DEF Init
<1>6. /\ from \in [Procs -> Int] /\ to \in [Procs -> Int] /\ next \in [Procs -> Int]
      /\ failed \in [Procs -> BOOLEAN]
      /\ pc \in [Procs -> {"idle"}]
      /\ page \in [Requests -> {"idle"}] /\ answer \in [Requests -> {NoRow}]
  BY DEF Init
<1>7. running \in BOOLEAN
  BY DEF Init
<1> QED
  BY <1>1, <1>2, <1>3, <1>4, <1>5, <1>6, <1>7 DEF TypeOK

(* The source that a goroutine works on is a configured one.               *)
LEMMA SourceType ==
    ASSUME TypeOK, NEW p \in Procs, Working(p)
    PROVE  Source(p) \in Sources /\ Tail(todo[p]) \in Seq(Sources)
BY HeadTailProperties DEF TypeOK, Source, Working

(* Forgotten locals have their types.                                      *)
LEMMA ForgetType ==
    ASSUME TypeOK, NEW S, Forget(S)
    PROVE  /\ from' \in [Procs -> Int] /\ to' \in [Procs -> Int] /\ next' \in [Procs -> Int]
           /\ got' \in [Procs -> [Days -> Figures \cup {NoRow}]]
BY DEF TypeOK, Forget, NoFigures

(* The first day a sync asks for is a day number.                          *)
LEMMA FirstDayType ==
    ASSUME NEW s, NEW last \in Int
    PROVE  FirstDay(s, last) \in Int
BY SyncAssumption DEF FirstDay

(* completeDays makes rows of the figures received.                        *)
LEMMA CompletedType ==
    ASSUME TypeOK, NEW p \in Procs, NEW old \in [Days -> Row \cup {NoRow}]
    PROVE  Completed(p, old) \in [Days -> Row \cup {NoRow}]
BY SyncAssumption DEF TypeOK, Completed, Row

(* Every step keeps the types.                                             *)
LEMMA TypeNext == TypeOK /\ HasSource /\ Answering /\ [Next]_vars => TypeOK'
<1> SUFFICES ASSUME TypeOK, HasSource, Answering, [Next]_vars PROVE TypeOK'
  OBVIOUS
<1> USE SyncAssumption DEF world, tables, locals, frontend
<1>1. CASE NewDay
  BY <1>1 DEF TypeOK, NewDay
<1>2. ASSUME NEW s \in Sources, NEW d \in Days, NEW f \in Figures \cup {NoRow}, Correct(s, d, f)
      PROVE  TypeOK'
  BY <1>2 DEF TypeOK, Correct
<1>3. CASE Tick
  BY <1>3 DEF TypeOK, Tick, Acquire, Procs
<1>4. ASSUME NEW p \in Procs, ReadClock(p)
      PROVE  TypeOK'
  BY <1>4 DEF TypeOK, ReadClock, LastClosedDay
<1>5. ASSUME NEW p \in Procs, PickRange(p)
      PROVE  TypeOK'
  BY <1>5, FirstDayType DEF TypeOK, PickRange
<1>6. ASSUME NEW p \in Procs, StartRun(p)
      PROVE  TypeOK'
  <2>1. Source(p) \in Sources
    BY <1>6, SourceType DEF HasSource, StartRun
  <2>2. [by |-> p, from |-> from[p], to |-> to[p], status |-> "running"] \in Run
    BY DEF TypeOK, Run
  <2> QED
    <3>1. journal' \in [Sources -> Run \cup {NoRow}]
      BY <1>6, <2>1, <2>2 DEF TypeOK, StartRun
    <3> QED
      BY <1>6, <3>1 DEF TypeOK, StartRun, NoFigures
<1>7. ASSUME NEW p \in Procs, FetchChunk(p)
      PROVE  TypeOK'
  <2>1. Source(p) \in Sources
    BY <1>7, SourceType DEF HasSource, FetchChunk
  <2>2. got' \in [Procs -> [Days -> Figures \cup {NoRow}]]
    <3> DEFINE fetched == [d \in Days |->
            IF d \in next[p]..(next[p] + ChunkDays[Source(p)] - 1) /\ d <= to[p]
            THEN remote[Source(p)][d] ELSE got[p][d]]
    <3>1. fetched \in [Days -> Figures \cup {NoRow}]
      BY <2>1 DEF TypeOK
    <3>2. got' = [got EXCEPT ![p] = fetched]
      BY <1>7 DEF FetchChunk
    <3> QED
      BY <3>1, <3>2 DEF TypeOK
  <2>3. next' \in [Procs -> Int]
    BY <1>7, <2>1 DEF TypeOK, FetchChunk
  <2>4. pc' = [pc EXCEPT ![p] = "upsert"] \/ pc' = pc
    BY <1>7 DEF TypeOK, FetchChunk
  <2> QED
    BY <1>7, <2>2, <2>3, <2>4 DEF TypeOK, FetchChunk
<1>8. ASSUME NEW p \in Procs, Upsert(p)
      PROVE  TypeOK'
  <2>1. Source(p) \in Sources
    BY <1>8, SourceType DEF HasSource, Upsert
  <2>2. Completed(p, daily[Source(p)]) \in [Days -> Row \cup {NoRow}]
    BY <2>1, CompletedType DEF TypeOK
  <2>3. daily' \in [Sources -> [Days -> Row \cup {NoRow}]]
    BY <1>8, <2>1, <2>2 DEF TypeOK, Upsert
  <2>4. pc' = [pc EXCEPT ![p] = "revision"] \/ pc' = [pc EXCEPT ![p] = "finish"]
    BY <1>8 DEF Upsert
  <2> QED
    BY <1>8, <2>3, <2>4 DEF TypeOK, Upsert
<1>9. ASSUME NEW p \in Procs, SetSourceRevision(p)
      PROVE  TypeOK'
  BY <1>9 DEF TypeOK, SetSourceRevision
<1>10. ASSUME NEW p \in Procs, FinishRun(p)
       PROVE  TypeOK'
  <2>1. Source(p) \in Sources /\ Tail(todo[p]) \in Seq(Sources)
    BY <1>10, SourceType DEF HasSource, FinishRun
  <2>2. journal' \in [Sources -> Run \cup {NoRow}]
    <3> DEFINE run == journal[Source(p)]
    <3>1. journal[Source(p)] # NoRow =>
            \A st \in {"error", "success"} : [journal[Source(p)] EXCEPT !.status = st] \in Run
      <4>1. journal[Source(p)] # NoRow => journal[Source(p)] \in Run
        BY <2>1 DEF TypeOK
      <4>2. \A r \in Run : [r EXCEPT !.status = "error"] \in Run
        BY DEF Run
      <4>3. \A r \in Run : [r EXCEPT !.status = "success"] \in Run
        BY DEF Run
      <4> QED
        BY <4>1, <4>2, <4>3
    <3>2. \E row \in Run \cup {NoRow} : journal' = [journal EXCEPT ![Source(p)] = row]
      <4>1. CASE run # NoRow /\ run.by = p /\ failed[p]
        BY <1>10, <2>1, <3>1, <4>1 DEF FinishRun
      <4>2. CASE run # NoRow /\ run.by = p /\ ~failed[p]
        BY <1>10, <2>1, <3>1, <4>2 DEF FinishRun
      <4>3. CASE run = NoRow \/ run.by # p
        BY <1>10, <2>1, <4>3 DEF FinishRun, TypeOK
      <4> QED
        BY <4>1, <4>2, <4>3
    <3> QED
      BY <2>1, <3>2 DEF TypeOK
  <2> QED
    BY <1>10, <2>1, <2>2 DEF TypeOK, FinishRun, NextSource
<1>11. ASSUME NEW p \in Procs, EndSync(p)
       PROVE  TypeOK'
  BY <1>11, ForgetType DEF TypeOK, EndSync, Release
<1>12. ASSUME NEW p \in Procs, SkipSource(p)
       PROVE  TypeOK'
  <2>1. Tail(todo[p]) \in Seq(Sources)
    BY <1>12, SourceType DEF SkipSource
  <2>2. faults' \in 0..MaxFaults
    BY <1>12 DEF TypeOK, SkipSource, Fault
  <2>3. todo' \in [Procs -> Seq(Sources)]
    BY <1>12, <2>1 DEF TypeOK, SkipSource
  <2>4. pc' \in [Procs -> {"idle", "clock", "pick", "journal", "fetch", "upsert",
                          "revision", "finish"}]
    BY <1>12 DEF TypeOK, SkipSource
  <2> QED
    BY <1>12, <2>2, <2>3, <2>4 DEF TypeOK, SkipSource
<1>13. ASSUME NEW p \in Procs, RunFails(p)
       PROVE  TypeOK'
  BY <1>13 DEF TypeOK, RunFails, Fault
<1>14. ASSUME NEW p \in Procs, FinishFails(p)
       PROVE  TypeOK'
  <2>1. Tail(todo[p]) \in Seq(Sources)
    BY <1>14, SourceType DEF HasSource, FinishFails
  <2> QED
    BY <1>14, <2>1 DEF TypeOK, FinishFails, NextSource, Fault
<1>15. ASSUME NEW r \in Requests, Press(r) \/ PollDone(r) \/ GiveUp(r)
       PROVE  TypeOK'
  <2>1. \E to_ \in {"posted", "done", "gaveup"} : page' = [page EXCEPT ![r] = to_]
    BY <1>15 DEF Press, PollDone, GiveUp
  <2> QED
    BY <1>15, <2>1 DEF TypeOK, Press, PollDone, GiveUp
<1>16. ASSUME NEW r \in Requests, Trigger(r)
       PROVE  TypeOK'
  BY <1>16 DEF TypeOK, Trigger, Acquire, Procs
<1>17. ASSUME NEW r \in Requests, Respond(r)
       PROVE  TypeOK'
  <2>1. answer[r] \in [started: BOOLEAN, syncing: BOOLEAN]
    BY <1>17 DEF TypeOK, Answering, Respond
  <2> QED
    BY <1>17, <2>1 DEF TypeOK, Respond
<1>18. ASSUME NEW rev \in Deployable, Restart(rev)
       PROVE  TypeOK'
  <2>1. revision' \in Nat \ {0}
    BY <1>18 DEF TypeOK, Restart, Deployable
  <2>2. todo' \in [Procs -> Seq(Sources)]
    BY <1>18 DEF Restart
  <2>3. page' \in [Requests -> {"idle", "posted", "started", "polling", "done", "gaveup"}]
    BY <1>18 DEF TypeOK, Restart
  <2>4. faults' \in 0..MaxFaults
    BY <1>18 DEF TypeOK, Restart, Fault
  <2> QED
    BY <1>18, <2>1, <2>2, <2>3, <2>4, ForgetType DEF TypeOK, Restart
<1>19. CASE UNCHANGED vars
  BY <1>19 DEF TypeOK, vars
<1> QED
  BY <1>1, <1>2, <1>3, <1>4, <1>5, <1>6, <1>7, <1>8, <1>9, <1>10, <1>11, <1>12, <1>13,
     <1>14, <1>15, <1>16, <1>17, <1>18, <1>19 DEF Next, SyncStep, Failure, PageStep

-----------------------------------------------------------------------------
(* What is known of every sync under way, with the types.                  *)
IInv == TypeOK /\ SyncInv

(* At first nothing is under way.                                          *)
LEMMA InvInit == Init => IInv
BY TypeInit DEF Init, IInv, SyncInv, OneSync, HasSource, RangeOver, Answering

(* A sync begins only when the flag is clear, and it sets the flag.        *)
LEMMA AcquireKeeps ==
    ASSUME IInv, NEW p \in Procs, Acquire(p), UNCHANGED <<today, todo, to>>
    PROVE  OneSync' /\ HasSource' /\ RangeOver'
BY DEF IInv, TypeOK, SyncInv, Acquire, OneSync, HasSource, RangeOver, Working

(* A step inside a sync, or one that touches none.                         *)
Goes(p, l) == pc' = [pc EXCEPT ![p] = l]

(* A sync that moves on stays the only one.                                *)
LEMMA InsideKeepsOne ==
    ASSUME IInv, NEW p \in Procs, pc[p] # "idle", UNCHANGED running,
           \E l \in {"pick", "journal", "fetch", "upsert", "revision", "finish"} : Goes(p, l)
    PROVE  OneSync'
BY DEF IInv, TypeOK, SyncInv, OneSync, Goes

(* Every step of the service, of the pages and of the world outside keeps  *)
(* what is known of the syncs.                                             *)
LEMMA InvNext == IInv /\ [Next]_vars => IInv'
<1> SUFFICES ASSUME IInv, [Next]_vars PROVE IInv'
  OBVIOUS
<1> USE SyncAssumption DEF world, tables, locals, frontend
<1>1. TypeOK'
  BY TypeNext DEF IInv, SyncInv
<1>2. SyncInv'
  <2>1. CASE NewDay
    BY <2>1 DEF IInv, TypeOK, SyncInv, NewDay, OneSync, HasSource, RangeOver, Answering, Working
  <2>2. ASSUME NEW s \in Sources, NEW d \in Days, NEW f \in Figures \cup {NoRow}, Correct(s, d, f)
        PROVE  SyncInv'
    BY <2>2 DEF IInv, SyncInv, Correct, OneSync, HasSource, RangeOver, Answering, Working
  <2>3. CASE Tick
    <3>1. OneSync' /\ HasSource' /\ RangeOver'
      BY <2>3, AcquireKeeps DEF Tick, Procs
    <3> QED
      BY <2>3, <3>1 DEF IInv, SyncInv, Tick, Answering
  <2>4. ASSUME NEW p \in Procs, ReadClock(p)
        PROVE  SyncInv'
    <3>1. OneSync'
      BY <2>4, InsideKeepsOne DEF ReadClock, Goes
    <3> QED
      <4>1. HasSource' /\ Answering'
        BY <2>4 DEF IInv, TypeOK, SyncInv, ReadClock, HasSource, Answering, Working
      <4>2. RangeOver'
        BY <2>4 DEF IInv, TypeOK, SyncInv, ReadClock, LastClosedDay, RangeOver
      <4> QED
        BY <3>1, <4>1, <4>2 DEF SyncInv
  <2>5. ASSUME NEW p \in Procs, PickRange(p) \/ StartRun(p) \/ FetchChunk(p) \/ Upsert(p)
                                \/ SetSourceRevision(p) \/ RunFails(p)
        PROVE  SyncInv'
    <3>1. OneSync'
      BY <2>5, InsideKeepsOne
      DEF PickRange, StartRun, FetchChunk, Upsert, SetSourceRevision, RunFails, Goes, IInv, TypeOK
    <3>2. Working(p) /\ UNCHANGED <<today, todo, to, frontend>>
      BY <2>5 DEF IInv, SyncInv, HasSource, PickRange, StartRun, FetchChunk, Upsert,
                  SetSourceRevision, RunFails
    <3>3. pc[p] \notin {"idle", "clock"} /\ \E l : Goes(p, l)
      BY <2>5 DEF Goes, PickRange, StartRun, FetchChunk, Upsert, SetSourceRevision, RunFails
    <3>4. HasSource' /\ RangeOver'
      BY <3>2, <3>3 DEF IInv, TypeOK, SyncInv, HasSource, RangeOver, Working, Goes
    <3>5. Answering'
      BY <3>2 DEF IInv, SyncInv, Answering
    <3> QED
      BY <3>1, <3>4, <3>5 DEF SyncInv
  <2>6. ASSUME NEW p \in Procs, SkipSource(p) \/ FinishRun(p) \/ FinishFails(p)
        PROVE  SyncInv'
    <3>1. /\ pc[p] \notin {"idle", "clock"} /\ Goes(p, "pick")
          /\ UNCHANGED <<today, running, to, frontend>>
          /\ todo' = [todo EXCEPT ![p] = Tail(@)]
      BY <2>6 DEF SkipSource, FinishRun, FinishFails, NextSource, Goes
    <3>2. OneSync'
      BY <3>1, InsideKeepsOne
    <3>3. HasSource' /\ RangeOver' /\ Answering'
      BY <3>1 DEF IInv, TypeOK, SyncInv, HasSource, RangeOver, Answering, Working, Goes
    <3> QED
      BY <3>2, <3>3 DEF SyncInv
  <2>7. ASSUME NEW p \in Procs, EndSync(p)
        PROVE  SyncInv'
    BY <2>7 DEF IInv, TypeOK, SyncInv, EndSync, Release, Forget, OneSync, HasSource, RangeOver,
                Answering, Working
  <2>8. ASSUME NEW r \in Requests, Press(r) \/ PollDone(r) \/ GiveUp(r) \/ Respond(r)
        PROVE  SyncInv'
    <3>1. OneSync' /\ HasSource' /\ RangeOver'
      BY <2>8 DEF IInv, SyncInv, OneSync, HasSource, RangeOver, Working, Press, PollDone, GiveUp,
                  Respond
    <3>2. Answering'
      <4>1. CASE Press(r) \/ PollDone(r) \/ GiveUp(r)
        BY <4>1 DEF IInv, TypeOK, SyncInv, Answering, Press, PollDone, GiveUp
      <4>2. CASE Respond(r)
        <5>1. answer[r] \in [started: BOOLEAN, syncing: BOOLEAN] /\ running \in BOOLEAN
          BY <4>2 DEF IInv, TypeOK, SyncInv, Answering, Respond
        <5>2. [answer[r] EXCEPT !.syncing = running] # NoRow
          BY <5>1
        <5> QED
          BY <4>2, <5>2 DEF IInv, TypeOK, SyncInv, Answering, Respond
      <4> QED
        BY <2>8, <4>1, <4>2
    <3> QED
      BY <3>1, <3>2 DEF SyncInv
  <2>9. ASSUME NEW r \in Requests, Trigger(r)
        PROVE  SyncInv'
    <3>1. OneSync' /\ HasSource' /\ RangeOver'
      <4>1. CASE Acquire(r)
        BY <2>9, <4>1, AcquireKeeps DEF Trigger, Procs
      <4>2. CASE UNCHANGED <<running, pc>>
        BY <2>9, <4>2 DEF IInv, SyncInv, OneSync, HasSource, RangeOver, Working, Trigger
      <4> QED
        BY <2>9, <4>1, <4>2 DEF Trigger
    <3>2. Answering'
      <4>1. running \in BOOLEAN
        BY DEF IInv, TypeOK
      <4>2. [started |-> ~running, syncing |-> FALSE] # NoRow
        <5>1. [started |-> ~running, syncing |-> FALSE] \in [started: BOOLEAN, syncing: BOOLEAN]
          BY Zenon
        <5>2. NoRow \notin [started: BOOLEAN, syncing: BOOLEAN]
          OBVIOUS
        <5> QED
          BY <5>1, <5>2, Zenon
      <4> QED
        BY <2>9, <4>2 DEF IInv, TypeOK, SyncInv, Answering, Trigger
    <3> QED
      BY <3>1, <3>2 DEF SyncInv
  <2>10. ASSUME NEW rev \in Deployable, Restart(rev)
         PROVE  SyncInv'
    BY <2>10 DEF IInv, TypeOK, SyncInv, Restart, OneSync, HasSource, RangeOver, Answering
  <2>11. CASE UNCHANGED vars
    BY <2>11 DEF IInv, SyncInv, vars, OneSync, HasSource, RangeOver, Answering, Working
  <2> QED
    BY <2>1, <2>2, <2>3, <2>4, <2>5, <2>6, <2>7, <2>8, <2>9, <2>10, <2>11
    DEF Next, SyncStep, Failure, PageStep
<1> QED
  BY <1>1, <1>2 DEF IInv

(* The variables keep their types in every behaviour, so no stored day is  *)
(* without a figure.                                                       *)
THEOREM SyncTypes == Spec => []TypeOK
<1>1. IInv => TypeOK
  BY DEF IInv
<1> QED
  BY <1>1, InvInit, InvNext, PTL DEF Spec

(* However many pages and the timer ask for a sync at the same time and    *)
(* wherever one fails or the process stops, at most one sync is under way, *)
(* and the flag is set exactly then.                                       *)
THEOREM AtMostOneSync == Spec => [](SyncInv /\ OneSync)
<1>1. IInv => SyncInv /\ OneSync
  BY DEF IInv, SyncInv
<1> QED
  BY <1>1, InvInit, InvNext, PTL DEF Spec

-----------------------------------------------------------------------------
(* Only Upsert writes the table of the traffic.                            *)
LEMMA OnlyUpsertWrites ==
    ASSUME [Next]_vars, daily' # daily
    PROVE  \E p \in Procs : Upsert(p)
BY DEF Next, SyncStep, Failure, PageStep, NewDay, Correct, Tick, ReadClock, PickRange, StartRun,
       FetchChunk, SetSourceRevision, FinishRun, EndSync, SkipSource, RunFails, FinishFails, Press,
       Trigger, Respond, PollDone, GiveUp, Restart, vars, world, tables, locals, frontend

(* What is stored is what it was, and what the upsert of p has written in  *)
(* its range: all of it, under the deployed revision.                      *)
LEMMA UpsertedRows ==
    ASSUME IInv, NEW p \in Procs, Upsert(p), NEW s \in Sources, NEW d \in Days
    PROVE  /\ s # Source(p) \/ d \notin from[p]..to[p] => daily'[s][d] = daily[s][d]
           /\ s = Source(p) /\ d \in from[p]..to[p] =>
                 daily'[s][d] # NoRow /\ daily'[s][d].revision = revision
<1>1. Source(p) \in Sources
  BY SourceType DEF IInv, SyncInv, HasSource, Upsert
<1>2. daily' = [daily EXCEPT ![Source(p)] = Completed(p, daily[Source(p)])]
  BY DEF Upsert
<1>3. CASE s # Source(p)
  BY <1>1, <1>2, <1>3 DEF IInv, TypeOK
<1>4. CASE s = Source(p)
  <2>1. daily'[s] = Completed(p, daily[s])
    BY <1>1, <1>2, <1>4 DEF IInv, TypeOK
  <2>2. CASE d \notin from[p]..to[p]
    BY <1>4, <2>1, <2>2 DEF Completed
  <2>3. CASE d \in from[p]..to[p]
    <3>1. daily'[s][d] =
            [figure |-> IF got[p][d] = NoRow THEN Zero ELSE got[p][d], revision |-> revision]
      BY <2>1, <2>3 DEF Completed
    <3>2. (IF got[p][d] = NoRow THEN Zero ELSE got[p][d]) \in Figures
      BY SyncAssumption DEF IInv, TypeOK
    <3>3. \A f \in Figures : [figure |-> f, revision |-> revision] # NoRow
      BY SyncAssumption DEF IInv, TypeOK, Row
    <3> QED
      BY <1>4, <2>3, <3>1, <3>2, <3>3
  <2> QED
    BY <2>2, <2>3
<1> QED
  BY <1>3, <1>4

(* Only the past is written, and today only moves on.                      *)
LEMMA ClosedNext == IInv /\ ClosedDaysOnly /\ [Next]_vars => ClosedDaysOnly'
<1> SUFFICES ASSUME IInv, ClosedDaysOnly, [Next]_vars, NEW s \in Sources, NEW d \in Days,
                    daily'[s][d] # NoRow
             PROVE  d < today'
  BY DEF ClosedDaysOnly, Stored
<1>1. /\ today \in Int /\ today' \in Int /\ today <= today'
  <2>1. today' = today \/ today' = today + 1
    BY DEF Next, SyncStep, Failure, PageStep, NewDay, Correct, Tick, ReadClock, PickRange,
       StartRun, FetchChunk, Upsert, SetSourceRevision, FinishRun, EndSync, SkipSource, RunFails,
       FinishFails, Press, Trigger, Respond, PollDone, GiveUp, Restart, vars, world
  <2>2. today \in Int
    BY SyncAssumption DEF IInv, TypeOK
  <2> QED
    BY <2>1, <2>2
<1>2. d \in Int
  BY SyncAssumption DEF Days, Depth
<1>3. CASE daily'[s][d] = daily[s][d]
  BY <1>1, <1>2, <1>3 DEF ClosedDaysOnly, Stored
<1>4. CASE daily'[s][d] # daily[s][d]
  <2>1. PICK p \in Procs : Upsert(p)
    BY <1>4, OnlyUpsertWrites
  <2>2. d \in from[p]..to[p]
    BY <1>4, <2>1, UpsertedRows
  <2>3. to[p] < today /\ from[p] \in Int /\ to[p] \in Int
    BY <2>1 DEF IInv, TypeOK, SyncInv, RangeOver, Upsert
  <2> QED
    BY <1>1, <1>2, <2>2, <2>3
<1> QED
  BY <1>3, <1>4

(* Whenever midnight passes during a sync, no day is stored before it is   *)
(* over.                                                                   *)
THEOREM OnlyClosedDays == Spec => []ClosedDaysOnly
<1>1. Init => ClosedDaysOnly
  BY DEF Init, ClosedDaysOnly, Stored
<1> QED
  BY <1>1, ClosedNext, InvInit, InvNext, PTL DEF Spec

(* No failure, restart or later answer of a source takes a stored day away.*)
THEOREM NoDayIsLost == Spec => StoredForGood
<1>1. IInv /\ [Next]_vars =>
        \A s \in Sources, d \in Days : Stored(s, d) => daily'[s][d] # NoRow
  BY OnlyUpsertWrites, UpsertedRows DEF Stored
<1> QED
  BY <1>1, InvInit, InvNext, PTL DEF Spec, StoredForGood

(* A page reloads its data only after the sync that it started has ended.  *)
THEOREM RefreshWaits == Spec => []RefreshSeesItsSync
<1>1. Init => RefreshSeesItsSync
  BY DEF Init, RefreshSeesItsSync
<1>2. IInv /\ RefreshSeesItsSync /\ [Next]_vars => RefreshSeesItsSync'
  <2> SUFFICES ASSUME IInv, RefreshSeesItsSync, [Next]_vars, NEW r \in Requests,
                      page'[r] = "done"
               PROVE  pc'[r] = "idle"
    BY DEF RefreshSeesItsSync
  <2> USE SyncAssumption DEF frontend, IInv, TypeOK, Procs
  <2>1. ASSUME NEW q \in Requests, PageStep(q)
        PROVE  pc'[r] = "idle"
    <3>1. CASE PollDone(q)
      BY <3>1 DEF PollDone, RefreshSeesItsSync, SyncInv, OneSync
    <3>2. CASE Trigger(q)
      BY <3>2 DEF Trigger, Acquire, RefreshSeesItsSync
    <3>3. CASE Press(q) \/ Respond(q) \/ GiveUp(q)
      BY <3>3 DEF Press, Respond, GiveUp, RefreshSeesItsSync
    <3> QED
      BY <2>1, <3>1, <3>2, <3>3 DEF PageStep
  <2>2. ASSUME NEW p \in Procs, SyncStep(p) \/ Failure(p)
        PROVE  pc'[r] = "idle"
    <3>1. page' = page /\ pc[p] # "idle"
      BY <2>2 DEF SyncStep, Failure, ReadClock, PickRange, StartRun, FetchChunk, Upsert,
         SetSourceRevision, FinishRun, EndSync, SkipSource, RunFails, FinishFails
    <3>2. pc[r] = "idle" /\ r # p
      BY <3>1 DEF RefreshSeesItsSync
    <3>3. \E l : pc' = [pc EXCEPT ![p] = l]
      BY <2>2 DEF SyncStep, Failure, ReadClock, PickRange, StartRun, FetchChunk, Upsert,
         SetSourceRevision, FinishRun, EndSync, SkipSource, RunFails, FinishFails, NextSource
    <3> QED
      BY <3>2, <3>3
  <2>3. CASE Tick
    BY <2>3 DEF Tick, Acquire, RefreshSeesItsSync
  <2>4. ASSUME NEW rev \in Deployable, Restart(rev)
        PROVE  pc'[r] = "idle"
    BY <2>4 DEF Restart
  <2>5. CASE UNCHANGED <<pc, page>>
    BY <2>5 DEF RefreshSeesItsSync
  <2> QED
    BY <2>1, <2>2, <2>3, <2>4, <2>5 DEF Next, NewDay, Correct, vars
<1> QED
  BY <1>1, <1>2, InvInit, InvNext, PTL DEF Spec

-----------------------------------------------------------------------------
(* While one goroutine syncs, the others are idle.                         *)
LEMMA OthersIdle ==
    ASSUME IInv, NEW p \in Procs, pc[p] # "idle", NEW q \in Procs, q # p
    PROVE  pc[q] = "idle"
BY DEF IInv, SyncInv, OneSync

(* The days a sync may ask for are days of the table.                      *)
LEMMA RangeInDays ==
    ASSUME IInv, RunInv, NEW p \in Procs, pc[p] \in {"journal", "fetch", "upsert"}
    PROVE  /\ from[p]..to[p] \subseteq Days
           /\ to[p] \in Days /\ from[p] <= to[p]
           /\ \/ from[p] = to[p] - (Lookback - 1)
              \/ from[p] = to[p] - (Backfill - 1)
<1>1. from[p] \in Int /\ to[p] \in Int /\ today \in Int /\ today <= LastToday
  BY SyncAssumption DEF IInv, TypeOK
<1>2. FirstToday - 1 <= to[p] /\ to[p] < today
  BY DEF IInv, SyncInv, RangeOver, RunInv, NothingNewer
<1>3. \/ from[p] = to[p] - (Lookback - 1)
      \/ from[p] = to[p] - (Backfill - 1)
  BY DEF RunInv, RangePicked, FirstDay
<1>4. PICK a, b : a = from[p] /\ b = to[p]
  OBVIOUS
<1>5. /\ a \in Int /\ b \in Int /\ FirstToday - 1 <= b /\ b < LastToday
      /\ a = b - (Lookback - 1) \/ a = b - (Backfill - 1)
  BY <1>1, <1>2, <1>3, <1>4, SyncAssumption
<1>6. /\ Depth \in Int /\ Lookback <= Depth /\ Backfill <= Depth
      /\ Lookback \in Nat \ {0} /\ Backfill \in Nat \ {0}
      /\ FirstToday \in Int /\ LastToday \in Int
  BY SyncAssumption DEF Depth
<1>7. a <= b /\ FirstToday - Depth <= a
  BY <1>5, <1>6
<1>8. a..b \subseteq Days /\ b \in Days
  BY <1>5, <1>6, <1>7 DEF Days
<1> QED
  BY <1>3, <1>4, <1>7, <1>8

(* The steps that leave the tables, the deployed revision and the choices  *)
(* of the syncs alone, and start none.                                     *)
LEMMA RunQuiet ==
    ASSUME RunInv, UNCHANGED <<revision, tables, pc, todo, from, to, failed>>
    PROVE  RunInv'
BY DEF RunInv, RangePicked, NothingNewer, Journalled, RangeStored, tables, Source, Stored,
       FirstDay, HasData, RevisionChanged

(* A sync that has just begun has chosen nothing yet.                      *)
LEMMA RunAcquired ==
    ASSUME IInv, RunInv, NEW p \in Procs, Acquire(p),
           UNCHANGED <<revision, tables, todo, from, to, failed>>
    PROVE  RunInv'
BY DEF IInv, TypeOK, Acquire, RunInv, RangePicked, NothingNewer, Journalled, RangeStored, tables,
       Source, Stored, FirstDay, HasData, RevisionChanged

(* Every step keeps what is known of the runs.                             *)
LEMMA RunNext == IInv /\ ClosedDaysOnly /\ RunInv /\ [Next]_vars => RunInv'
<1> SUFFICES ASSUME IInv, ClosedDaysOnly, RunInv, [Next]_vars PROVE RunInv'
  OBVIOUS
<1> USE SyncAssumption DEF world, tables, locals, frontend
<1>1. CASE NewDay
  BY <1>1, RunQuiet DEF NewDay
<1>2. ASSUME NEW s \in Sources, NEW d \in Days, NEW f \in Figures \cup {NoRow}, Correct(s, d, f)
      PROVE  RunInv'
  BY <1>2, RunQuiet DEF Correct
<1>3. CASE Tick
  BY <1>3, RunAcquired DEF Tick, Procs
<1>4. ASSUME NEW p \in Procs, ReadClock(p)
      PROVE  RunInv'
  <2>1. \A q \in Procs : pc'[q] = IF q = p THEN "pick" ELSE "idle"
    BY <1>4, OthersIdle DEF ReadClock, IInv, TypeOK
  <2>2. to'[p] = today - 1 /\ FirstToday <= today /\ today \in Int
    BY <1>4 DEF ReadClock, LastClosedDay, IInv, TypeOK
  <2>3. NothingNewer'
    <3>1. \A s \in Sources, d \in Days : Stored(s, d)' => d <= to'[p]
      <4>1. Days \subseteq Int
        BY DEF Days, Depth
      <4> QED
        BY <1>4, <2>2, <4>1 DEF ReadClock, ClosedDaysOnly, Stored
    <3> QED
      BY <2>1, <2>2, <3>1 DEF NothingNewer
  <2> QED
    BY <2>1, <2>3 DEF RunInv, RangePicked, Journalled, RangeStored
<1>5. ASSUME NEW p \in Procs, PickRange(p)
      PROVE  RunInv'
  <2>1. \A q \in Procs : pc'[q] = IF q = p THEN "journal" ELSE "idle"
    BY <1>5, OthersIdle DEF PickRange, IInv, TypeOK
  <2>2. from'[p] = FirstDay(Source(p), to[p])
    BY <1>5 DEF PickRange, IInv, TypeOK
  <2>3. NothingNewer'
    BY <1>5, <2>1 DEF PickRange, RunInv, NothingNewer, Stored
  <2> QED
    <3>1. RangePicked'
      BY <1>5, <2>1, <2>2 DEF PickRange, RangePicked, Source, FirstDay, HasData, RevisionChanged
    <3>2. Journalled' /\ RangeStored'
      BY <2>1 DEF Journalled, RangeStored
    <3> QED
      BY <2>3, <3>1, <3>2 DEF RunInv
<1>6. ASSUME NEW p \in Procs, StartRun(p)
      PROVE  RunInv'
  <2>1. \A q \in Procs : pc'[q] = IF q = p THEN "fetch" ELSE "idle"
    BY <1>6, OthersIdle DEF StartRun, IInv, TypeOK
  <2>2. Journalled'
    <3>1. Source(p) \in Sources
      BY <1>6, SourceType DEF IInv, SyncInv, HasSource, StartRun
    <3> QED
      BY <1>6, <2>1, <3>1 DEF StartRun, Journalled, Source, IInv, TypeOK
  <2> QED
    BY <1>6, <2>1, <2>2 DEF StartRun, RunInv, RangePicked, NothingNewer, RangeStored, Source,
       Stored, FirstDay, HasData, RevisionChanged
<1>7. ASSUME NEW p \in Procs, FetchChunk(p)
      PROVE  RunInv'
  <2>1. \A q \in Procs : IF q = p THEN pc'[q] \in {"fetch", "upsert"} ELSE pc'[q] = "idle"
    BY <1>7, OthersIdle DEF FetchChunk, IInv, TypeOK
  <2>2. UNCHANGED <<revision, tables, todo, from, to, failed>> /\ pc[p] = "fetch"
    BY <1>7 DEF FetchChunk
  <2> QED
    BY <2>1, <2>2 DEF RunInv, RangePicked, NothingNewer, Journalled, RangeStored, Source,
       Stored, FirstDay, HasData, RevisionChanged
<1>8. ASSUME NEW p \in Procs, Upsert(p)
      PROVE  RunInv'
  <2>1. \A q \in Procs : IF q = p THEN pc'[q] \in {"revision", "finish"} ELSE pc'[q] = "idle"
    BY <1>8, OthersIdle DEF Upsert, IInv, TypeOK
  <2>2. UNCHANGED <<revision, journal, todo, from, to, failed>> /\ pc[p] = "upsert"
    BY <1>8 DEF Upsert
  <2>3. from[p]..to[p] \subseteq Days /\ Days \subseteq Int /\ to[p] \in Int
    BY <2>2, RangeInDays DEF Days, Depth
  <2>4. Source(p) \in Sources
    BY <1>8, SourceType DEF IInv, SyncInv, HasSource, Upsert
  <2>5. RangeStored'
    BY <1>8, <2>1, <2>2, <2>3, <2>4, UpsertedRows DEF RangeStored, Stored, Source
  <2>6. NothingNewer'
    <3>1. ASSUME NEW s \in Sources, NEW d \in Days, daily'[s][d] # NoRow
          PROVE  d <= to[p]
      BY <1>8, <2>2, <2>3, <3>1, UpsertedRows DEF RunInv, NothingNewer, Stored
    <3> QED
      BY <2>1, <2>2, <3>1 DEF RunInv, NothingNewer, Stored
  <2> QED
    BY <2>1, <2>2, <2>5, <2>6 DEF RunInv, RangePicked, Journalled, Source
<1>9. ASSUME NEW p \in Procs, SetSourceRevision(p)
      PROVE  RunInv'
  <2>1. \A q \in Procs : pc'[q] = IF q = p THEN "finish" ELSE "idle"
    BY <1>9, OthersIdle DEF SetSourceRevision, IInv, TypeOK
  <2> QED
    BY <1>9, <2>1 DEF SetSourceRevision, RunInv, RangePicked, NothingNewer, Journalled,
       RangeStored, Source, Stored
<1>10. ASSUME NEW p \in Procs, RunFails(p)
       PROVE  RunInv'
  <2>1. \A q \in Procs : pc'[q] = IF q = p THEN "finish" ELSE "idle"
    BY <1>10, OthersIdle DEF RunFails, IInv, TypeOK
  <2>2. failed'[p]
    BY <1>10 DEF RunFails, IInv, TypeOK
  <2> QED
    BY <1>10, <2>1, <2>2 DEF RunFails, RunInv, RangePicked, NothingNewer, Journalled,
       RangeStored, Source, Stored
<1>11. ASSUME NEW p \in Procs, SkipSource(p) \/ FinishRun(p) \/ FinishFails(p)
       PROVE  RunInv'
  <2>1. /\ pc[p] \notin {"idle", "clock"} /\ pc' = [pc EXCEPT ![p] = "pick"]
        /\ UNCHANGED <<daily, to>>
    BY <1>11 DEF SkipSource, FinishRun, FinishFails, NextSource
  <2>2. \A q \in Procs : pc'[q] = IF q = p THEN "pick" ELSE "idle"
    BY <2>1, OthersIdle DEF IInv, TypeOK
  <2> QED
    BY <2>1, <2>2 DEF RunInv, RangePicked, NothingNewer, Journalled, RangeStored, Stored
<1>12. ASSUME NEW p \in Procs, EndSync(p)
       PROVE  RunInv'
  <2>1. \A q \in Procs : pc'[q] = "idle"
    BY <1>12, OthersIdle DEF EndSync, IInv, TypeOK
  <2> QED
    BY <2>1 DEF RunInv, RangePicked, NothingNewer, Journalled, RangeStored
<1>13. ASSUME NEW r \in Requests, Press(r) \/ PollDone(r) \/ GiveUp(r) \/ Respond(r)
       PROVE  RunInv'
  BY <1>13, RunQuiet DEF Press, PollDone, GiveUp, Respond
<1>14. ASSUME NEW r \in Requests, Trigger(r)
       PROVE  RunInv'
  BY <1>14, RunQuiet, RunAcquired DEF Trigger, Procs
<1>15. ASSUME NEW rev \in Deployable, Restart(rev)
       PROVE  RunInv'
  <2>1. \A q \in Procs : pc'[q] = "idle"
    BY <1>15 DEF Restart
  <2> QED
    BY <2>1 DEF RunInv, RangePicked, NothingNewer, Journalled, RangeStored
<1>16. CASE UNCHANGED vars
  BY <1>16, RunQuiet DEF vars
<1> QED
  BY <1>1, <1>2, <1>3, <1>4, <1>5, <1>6, <1>7, <1>8, <1>9, <1>10, <1>11, <1>12, <1>13,
     <1>14, <1>15, <1>16 DEF Next, SyncStep, Failure, PageStep

(* All that is known of the syncs, their runs and the days stored.         *)
RInv == IInv /\ ClosedDaysOnly /\ RunInv

(* At first nothing is stored and no run is under way.                     *)
LEMMA RInvInit == Init => RInv
<1> SUFFICES ASSUME Init PROVE RInv
  OBVIOUS
<1>1. ClosedDaysOnly
  BY DEF Init, ClosedDaysOnly, Stored
<1>2. \A p \in Procs : pc[p] = "idle"
  BY DEF Init
<1>3. RunInv
  BY <1>2 DEF RunInv, RangePicked, NothingNewer, Journalled, RangeStored
<1> QED
  BY <1>1, <1>3, InvInit DEF RInv

(* Every step keeps it.                                                    *)
LEMMA RInvNext == RInv /\ [Next]_vars => RInv'
BY InvNext, ClosedNext, RunNext DEF RInv

(* A day that is stored stays stored.                                      *)
LEMMA StoredStays ==
    ASSUME RInv, [Next]_vars, NEW s \in Sources, NEW d, Stored(s, d)
    PROVE  Stored(s, d)'
BY OnlyUpsertWrites, UpsertedRows DEF RInv, Stored

(* The journal is written at the start and at the end of a run.            *)
LEMMA JournalWriters ==
    ASSUME [Next]_vars, journal' # journal
    PROVE  \E p \in Procs : StartRun(p) \/ FinishRun(p)
BY DEF Next, SyncStep, Failure, PageStep, NewDay, Correct, Tick, ReadClock, PickRange, Upsert,
       FetchChunk, SetSourceRevision, EndSync, SkipSource, RunFails, FinishFails, Press,
       Trigger, Respond, PollDone, GiveUp, Restart, vars, world, tables, locals, frontend

(* A run that the journal calls a success has stored every day of its      *)
(* range, whatever its source left out and whatever failed before.         *)
THEOREM SuccessCoversRange == Spec => []SuccessIsComplete
<1>1. Init => SuccessIsComplete
  BY DEF Init, SuccessIsComplete
<1>2. RInv /\ SuccessIsComplete /\ [Next]_vars => SuccessIsComplete'
  <2> SUFFICES ASSUME RInv, SuccessIsComplete, [Next]_vars, NEW s \in Sources,
                      journal'[s] # NoRow, journal'[s].status = "success",
                      NEW d \in journal'[s].from..journal'[s].to
               PROVE  Stored(s, d)'
    BY DEF SuccessIsComplete
  <2> USE DEF RInv, IInv, TypeOK
  <2>1. CASE journal'[s] = journal[s]
    BY <2>1, StoredStays DEF SuccessIsComplete
  <2>2. CASE journal'[s] # journal[s]
    <3>1. PICK p \in Procs : StartRun(p) \/ FinishRun(p)
      BY <2>2, JournalWriters
    <3>2. Source(p) = s
      BY <2>2, <3>1 DEF StartRun, FinishRun
    <3>3. ~StartRun(p)
      BY <3>2 DEF StartRun
    <3>4. /\ pc[p] = "finish"
          /\ journal[s] = [by |-> p, from |-> from[p], to |-> to[p], status |-> "running"]
      BY <3>1, <3>2, <3>3 DEF FinishRun, RunInv, Journalled
    <3>5. /\ journal'[s] = [journal[s] EXCEPT !.status = IF failed[p] THEN "error" ELSE "success"]
      BY <2>2, <3>1, <3>2, <3>3 DEF FinishRun
    <3>6. ~failed[p] /\ journal'[s].from = from[p] /\ journal'[s].to = to[p]
      BY <3>4, <3>5
    <3>7. Stored(s, d)
      BY <3>2, <3>4, <3>6 DEF RunInv, RangeStored
    <3> QED
      BY <3>7, StoredStays
  <2> QED
    BY <2>1, <2>2
<1> QED
  BY <1>1, <1>2, RInvInit, RInvNext, PTL DEF Spec

(* Days are missing between stored ones only where no sync reached back:   *)
(* every upsert stores a whole range that ends after all that is stored.   *)
THEOREM GapsByOutage == Spec => []GapsOnlyByOutage
<1>1. Init => GapsOnlyByOutage
  BY DEF Init, GapsOnlyByOutage, Stored
<1>2. RInv /\ GapsOnlyByOutage /\ [Next]_vars => GapsOnlyByOutage'
  <2> SUFFICES ASSUME RInv, GapsOnlyByOutage, [Next]_vars, NEW s \in Sources, NEW d \in Days,
                      Stored(s, d)', ~Stored(s, d - 1)',
                      NEW e \in Days, e < d, Stored(s, e)',
                      NEW k \in 0..(Lookback - 1), k < Backfill
               PROVE  Stored(s, d + k)'
    BY DEF GapsOnlyByOutage, Stored
  <2> USE SyncAssumption
  <2>1. ~Stored(s, d - 1)
    BY StoredStays
  <2>2. CASE Stored(s, d) /\ Stored(s, e)
    <3>1. Stored(s, d + k)
      BY <2>1, <2>2 DEF GapsOnlyByOutage
    <3> QED
      BY <3>1, StoredStays
  <2>3. CASE ~(Stored(s, d) /\ Stored(s, e))
    <3>1. PICK p \in Procs : Upsert(p)
      BY <2>3, OnlyUpsertWrites DEF Stored
    <3>2. pc[p] = "upsert" /\ IInv /\ RunInv
      BY <3>1 DEF Upsert, RInv
    <3>3. /\ from[p]..to[p] \subseteq Days /\ from[p] <= to[p]
          /\ from[p] = to[p] - (Lookback - 1) \/ from[p] = to[p] - (Backfill - 1)
      BY <3>2, RangeInDays
    <3>4. from[p] \in Int /\ to[p] \in Int /\ Days \subseteq Int /\ Source(p) \in Sources
      BY <3>2, SourceType DEF IInv, TypeOK, SyncInv, HasSource, Days, Depth
    <3>5. \A f \in from[p]..to[p] : daily'[Source(p)][f] # NoRow
      <4>1. SUFFICES ASSUME NEW f \in from[p]..to[p]
                     PROVE  daily'[Source(p)][f] # NoRow
        OBVIOUS
      <4>2. f \in Days /\ Source(p) \in Sources
        BY <3>3, <3>4
      <4> QED
        BY <3>1, <3>2, <4>2, UpsertedRows
    <3>6. \A f \in Days : f \notin from[p]..to[p] \/ s # Source(p) => daily'[s][f] = daily[s][f]
      BY <3>1, <3>2, UpsertedRows
    <3>7. s = Source(p) /\ (d \in from[p]..to[p] \/ e \in from[p]..to[p])
      BY <2>3, <3>6 DEF Stored
    <3>8. d - 1 \notin from[p]..to[p]
      BY <3>3, <3>5, <3>7 DEF Stored
    <3>9. d <= to[p]
      <4>1. Stored(s, d) \/ d \in from[p]..to[p]
        BY <3>6 DEF Stored
      <4>2. Stored(s, d) => d <= to[p]
        BY <3>2 DEF RunInv, NothingNewer
      <4> HIDE SyncAssumption
      <4> QED
        BY <3>4, <4>1, <4>2
    <3>10. d = from[p]
      <4> HIDE SyncAssumption
      <4> QED
        BY <3>3, <3>4, <3>7, <3>8, <3>9
    <3>11. d + k \in from[p]..to[p]
      <4>1. Lookback \in Nat /\ Backfill \in Nat
        OBVIOUS
      <4> HIDE SyncAssumption
      <4> QED
        BY <3>3, <3>4, <3>10, <4>1
    <3> QED
      BY <3>3, <3>5, <3>7, <3>11 DEF Stored
  <2> QED
    BY <2>2, <2>3
<1> QED
  BY <1>1, <1>2, RInvInit, RInvNext, PTL DEF Spec

-----------------------------------------------------------------------------
(* What is also known of the revisions, as long as none is rolled back.    *)
VInv == RInv /\ RevisionInv /\ RevisionApplied

(* Neither a table nor the deployed revision changes, and no goroutine     *)
(* comes to the statement that records the revision.                       *)
LEMMA RevisionQuiet ==
    ASSUME RevisionInv, RevisionApplied, UNCHANGED <<revision, daily, applied>>,
           \A q \in Procs : pc'[q] = "revision" =>
               pc[q] = "revision" /\ todo'[q] = todo[q] /\ to'[q] = to[q]
    PROVE  RevisionInv' /\ RevisionApplied'
BY DEF RevisionInv, RevisionWritten, NoneAhead, RevisionApplied, Recent, Stored, Source

(* After an upsert every day that the depth of a backfill reaches has been *)
(* fetched under the deployed revision: the range was that deep, or the    *)
(* revision had been applied before.                                       *)
LEMMA UpsertRevision ==
    ASSUME VInv, NEW p \in Procs, Upsert(p), Source(p) \in Versioned,
           NEW d \in Days, Stored(Source(p), d)', to[p] - d < Backfill
    PROVE  daily'[Source(p)][d].revision = revision
<1> DEFINE s == Source(p)
<1>1. pc[p] = "upsert" /\ IInv /\ RunInv
  BY DEF VInv, RInv, Upsert
<1>2. from[p] \in Int /\ to[p] \in Int /\ Days \subseteq Int /\ s \in Sources /\ Backfill \in Int
  BY <1>1, SourceType, SyncAssumption DEF IInv, TypeOK, SyncInv, HasSource, Days, Depth
<1>3. daily' = [daily EXCEPT ![s] = Completed(p, daily[s])]
  BY DEF Upsert
<1>4. daily'[s][d] = Completed(p, daily[s])[d]
  BY <1>1, <1>2, <1>3 DEF IInv, TypeOK
<1>5. CASE d \in from[p]..to[p]
  BY <1>4, <1>5 DEF Completed
<1>6. CASE d \notin from[p]..to[p]
  <2>1. daily'[s][d] = daily[s][d]
    BY <1>4, <1>6 DEF Completed
  <2>2. Stored(s, d)
    <3>1. daily'[s][d] # NoRow
      BY DEF Stored, Source, Upsert
    <3> QED
      BY <2>1, <3>1 DEF Stored
  <2>3. \A e \in Days : Stored(s, e) => e <= to[p]
    BY <1>1, <1>2 DEF RunInv, NothingNewer
  <2>4. from[p] # to[p] - (Backfill - 1)
    BY <1>2, <1>6, <2>2, <2>3
  <2>5. ~RevisionChanged(s)
    BY <1>1, <2>4 DEF RunInv, RangePicked, FirstDay
  <2>6. Recent(s, d)
    <3>1. ASSUME NEW e \in Days, Stored(s, e)
          PROVE  e - d < Backfill
      <4>1. e <= to[p]
        BY <2>3, <3>1
      <4> QED
        BY <1>2, <4>1
    <3> QED
      BY <2>2, <3>1 DEF Recent
  <2>7. daily[s][d].revision = revision
    BY <2>5, <2>6 DEF VInv, RevisionApplied, RevisionChanged
  <2> QED
    BY <2>1, <2>7
<1> QED
  BY <1>5, <1>6

(* Every step keeps it.                                                    *)
LEMMA RevisionNext ==
    ASSUME ~Rollbacks, VInv, [Next]_vars PROVE RevisionInv' /\ RevisionApplied'
<1>1. IInv /\ RunInv /\ RevisionInv /\ RevisionApplied
  BY DEF VInv, RInv
<1>2. ASSUME NEW p \in Procs, Upsert(p)
      PROVE  RevisionInv' /\ RevisionApplied'
  <2> DEFINE s == Source(p)
  <2>1. pc[p] = "upsert" /\ UNCHANGED <<revision, applied, todo, from, to>>
    BY <1>2 DEF Upsert, locals
  <2>2. from[p] \in Int /\ to[p] \in Int /\ Days \subseteq Int /\ s \in Sources
    BY <1>1, <2>1, SourceType, SyncAssumption DEF IInv, TypeOK, SyncInv, HasSource, Days, Depth
  <2>3. from[p]..to[p] \subseteq Days /\ to[p] \in Days /\ from[p] <= to[p]
    BY <1>1, <2>1, RangeInDays
  <2>4. daily'[s][to[p]] # NoRow
    BY <1>1, <1>2, <2>1, <2>2, <2>3, UpsertedRows
  <2>5. \A q \in Procs : pc'[q] = "revision" => q = p /\ s \in Versioned
    BY <1>1, <1>2, <2>1, OthersIdle DEF Upsert, IInv, TypeOK
  <2>6. RevisionWritten'
    <3>1. ASSUME s \in Versioned, NEW d \in Days, daily'[s][d] # NoRow, to[p] - d < Backfill
          PROVE  daily'[s][d].revision = revision
      BY <1>2, <2>1, <3>1, UpsertRevision DEF Stored, Source
    <3> QED
      BY <2>1, <2>3, <2>4, <2>5, <3>1 DEF RevisionWritten, Stored, Source
  <2>7. RevisionApplied'
    <3> SUFFICES ASSUME NEW t \in Versioned, applied[t] = revision, NEW d \in Days,
                        Recent(t, d)'
                 PROVE  daily'[t][d].revision = revision
      BY <2>1 DEF RevisionApplied
    <3>1. CASE t = s
      <4>1. to[p] - d < Backfill /\ daily'[s][d] # NoRow
        BY <2>3, <2>4, <3>1 DEF Recent, Stored
      <4> QED
        BY <1>2, <2>1, <3>1, <4>1, UpsertRevision DEF Stored, Source
    <3>2. CASE t # s
      <4>1. t \in Sources
        BY SyncAssumption
      <4>2. \A e \in Days : daily'[t][e] = daily[t][e]
        BY <1>1, <1>2, <3>2, <4>1, UpsertedRows
      <4>3. Recent(t, d)
        BY <4>2 DEF Recent, Stored
      <4> QED
        BY <1>1, <4>2, <4>3 DEF RevisionApplied
    <3> QED
      BY <3>1, <3>2
  <2>8. NoneAhead'
    BY <1>1, <2>1 DEF RevisionInv, NoneAhead
  <2> QED
    BY <2>6, <2>7, <2>8 DEF RevisionInv
<1>3. ASSUME NEW p \in Procs, SetSourceRevision(p)
      PROVE  RevisionInv' /\ RevisionApplied'
  <2> DEFINE s == Source(p)
  <2>1. /\ pc[p] = "revision" /\ UNCHANGED <<revision, daily, todo, to>>
        /\ applied' = [applied EXCEPT ![s] = revision]
    BY <1>3 DEF SetSourceRevision, locals
  <2>2. \A q \in Procs : pc'[q] # "revision"
    BY <1>1, <1>3, OthersIdle DEF SetSourceRevision, IInv, TypeOK
  <2>3. RevisionApplied'
    <3> SUFFICES ASSUME NEW t \in Versioned, applied'[t] = revision, NEW d \in Days,
                        Recent(t, d)
                 PROVE  daily[t][d].revision = revision
      BY <2>1 DEF RevisionApplied, Recent, Stored
    <3>1. CASE t = s
      <4>1. Stored(s, to[p]) /\ to[p] \in Days
        BY <1>1, <2>1 DEF RevisionInv, RevisionWritten, Stored
      <4> QED
        BY <1>1, <2>1, <3>1, <4>1 DEF RevisionInv, RevisionWritten, Recent
    <3>2. CASE t # s
      BY <1>1, <2>1, <3>2, SyncAssumption DEF RevisionApplied, IInv, TypeOK
    <3> QED
      BY <3>1, <3>2
  <2>4. NoneAhead'
    BY <1>1, <2>1 DEF RevisionInv, NoneAhead, IInv, TypeOK
  <2> QED
    BY <2>2, <2>3, <2>4 DEF RevisionInv, RevisionWritten
<1>4. ASSUME NEW rev \in Deployable, Restart(rev)
      PROVE  RevisionInv' /\ RevisionApplied'
  <2>1. /\ rev \in {revision, revision + 1}
        /\ revision' = rev /\ UNCHANGED <<daily, applied>>
        /\ \A q \in Procs : pc'[q] = "idle"
    BY <1>4 DEF Restart, Deployable, tables
  <2>2. revision \in Nat /\ \A t \in Sources : applied[t] \in Nat /\ applied[t] <= revision
    BY <1>1 DEF IInv, TypeOK, RevisionInv, NoneAhead
  <2>3. CASE rev = revision
    BY <1>1, <2>1, <2>3, RevisionQuiet
  <2>4. CASE rev = revision + 1
    <3>1. \A t \in Sources : applied[t] <= rev /\ applied[t] # rev
      BY <2>2, <2>4
    <3> QED
      BY <2>1, <3>1, SyncAssumption DEF RevisionInv, RevisionWritten, NoneAhead, RevisionApplied
  <2> QED
    BY <2>1, <2>3, <2>4
<1>5. ASSUME NEW p \in Procs, ReadClock(p) \/ PickRange(p) \/ StartRun(p) \/ FetchChunk(p)
                                \/ FinishRun(p) \/ EndSync(p) \/ Failure(p)
      PROVE  RevisionInv' /\ RevisionApplied'
  <2>1. UNCHANGED <<revision, daily, applied>>
    BY <1>5 DEF ReadClock, PickRange, StartRun, FetchChunk, FinishRun, EndSync, Failure,
       SkipSource, RunFails, FinishFails, tables
  <2>2. pc'[p] # "revision" /\ \A q \in Procs : q # p => pc'[q] = pc[q]
    BY <1>1, <1>5 DEF ReadClock, PickRange, StartRun, FetchChunk, FinishRun, EndSync, Failure,
       SkipSource, RunFails, FinishFails, NextSource, IInv, TypeOK
  <2>3. \A q \in Procs : q # p => pc'[q] = "idle"
    <3>1. pc[p] # "idle"
      BY <1>5 DEF ReadClock, PickRange, StartRun, FetchChunk, FinishRun, EndSync, Failure,
         SkipSource, RunFails, FinishFails
    <3> QED
      BY <1>1, <2>2, <3>1, OthersIdle
  <2> QED
    BY <1>1, <2>1, <2>2, <2>3, RevisionQuiet
<1>6. ASSUME NEW p \in Procs, Acquire(p), UNCHANGED <<revision, tables, todo, to>>
      PROVE  RevisionInv' /\ RevisionApplied'
  BY <1>1, <1>6, RevisionQuiet DEF Acquire, tables, IInv, TypeOK
<1>7. ASSUME UNCHANGED <<revision, tables, pc, todo, to>>
      PROVE  RevisionInv' /\ RevisionApplied'
  BY <1>1, <1>7, RevisionQuiet DEF tables
<1>8. CASE Tick
  BY <1>6, <1>8 DEF Tick, Procs, locals
<1>9. CASE NewDay
  BY <1>7, <1>9 DEF NewDay, locals
<1>10. ASSUME NEW t \in Sources, NEW d \in Days, NEW f \in Figures \cup {NoRow}, Correct(t, d, f)
      PROVE  RevisionInv' /\ RevisionApplied'
  BY <1>7, <1>10 DEF Correct, locals
<1>11. ASSUME NEW r \in Requests, PageStep(r)
      PROVE  RevisionInv' /\ RevisionApplied'
  <2>1. CASE Trigger(r)
    BY <1>6, <1>7, <2>1 DEF Trigger, Procs, locals
  <2>2. CASE Press(r) \/ Respond(r) \/ PollDone(r) \/ GiveUp(r)
    BY <1>7, <2>2 DEF Press, Respond, PollDone, GiveUp, locals
  <2> QED
    BY <1>11, <2>1, <2>2 DEF PageStep
<1>12. CASE UNCHANGED vars
  BY <1>7, <1>12 DEF vars, locals
<1> QED
  BY <1>2, <1>3, <1>4, <1>5, <1>8, <1>9, <1>10, <1>11, <1>12 DEF Next, SyncStep

(* Unless an earlier revision is deployed again, a revision recorded as    *)
(* applied is that of every stored day a backfill reaches, whatever fails  *)
(* between the upsert and the record.                                      *)
THEOREM RevisionIsWhole == ASSUME ~Rollbacks PROVE Spec => []RevisionApplied
<1>1. Init => VInv
  <2> SUFFICES ASSUME Init PROVE VInv
    OBVIOUS
  <2>1. RevisionInv
    BY DEF Init, RevisionInv, RevisionWritten, NoneAhead
  <2>2. RevisionApplied
    BY SyncAssumption DEF Init, RevisionApplied
  <2> QED
    BY <2>1, <2>2, RInvInit DEF VInv
<1>2. VInv /\ [Next]_vars => VInv'
  BY RInvNext, RevisionNext DEF VInv
<1>3. VInv => RevisionApplied
  BY DEF VInv
<1> QED
  BY <1>1, <1>2, <1>3, PTL DEF Spec

=============================================================================
