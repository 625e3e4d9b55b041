------------------------ MODULE OrderCleanup_proofs ------------------------
(***************************************************************************)
(* Theorems about OrderCleanup, for every database, every expected number  *)
(* and any number of failures and of writes by other processes.            *)
(***************************************************************************)
EXTENDS OrderCleanup, FiniteSetTheorems, TLAPS

(* The tables and the counters have their types.                           *)
LEMMA TypeInit == Init => TypeOK
BY CleanupAssumption DEF Init, TypeOK, Table, Tables, NoTx, NoTables

(* Deleting orders from a table leaves a table.                            *)
LEMMA DeleteType ==
    ASSUME NEW t \in Table, NEW S
    PROVE  Delete(t, S) \in Table
BY DEF Delete, Table

(* A PurgeBefore that returns drops its locals.                            *)
LEMMA ReturnType ==
    ASSUME TypeOK, NEW outcome \in {"down", "serving"}, Return(outcome),
           UNCHANGED <<tables, writes, backups>>, stops' \in 0..MaxStops
    PROVE  TypeOK'
BY CleanupAssumption DEF TypeOK, Return, tables, Table, Tables, NoTx, NoTables

(* Every step of a purge, every stop and every other write keep the types. *)
LEMMA TypeNext == TypeOK /\ [Next]_vars => TypeOK'
<1> SUFFICES ASSUME TypeOK, [Next]_vars PROVE TypeOK'
  OBVIOUS
<1> USE CleanupAssumption
<1>1. CASE Start
  BY <1>1 DEF TypeOK, Start, tables, locals, Table, Tables
<1>2. CASE CountOld
  <2>1. CASE Return("serving") \/ Return("down")
    BY <1>2, <2>1, ReturnType DEF CountOld, TypeOK
  <2>2. CASE before' = Candidates(orders) /\ pc' = "version" /\ UNCHANGED <<version, copy, tx>>
    BY <1>2, <2>2 DEF CountOld, TypeOK, tables, Candidates, Table, Tables
  <2> QED
    BY <1>2, <2>1, <2>2 DEF CountOld, Refuse, Listen
<1>3. CASE ReadVersion
  BY <1>3 DEF TypeOK, ReadVersion, tables, Table, Tables
<1>4. CASE VacuumInto
  BY <1>4 DEF TypeOK, VacuumInto, tables, Database, Tables
<1>5. CASE VerifyBackup \/ Begin \/ Relist
  <2>1. CASE Refuse
    BY <1>5, <2>1, ReturnType DEF VerifyBackup, Begin, Relist, Refuse, TypeOK
  <2>2. CASE ~Refuse
    BY <1>5, <2>2 DEF TypeOK, VerifyBackup, Begin, Relist, tables, locals, Table, Tables, Database
  <2> QED
    BY <2>1, <2>2
<1>6. CASE DeleteItems
  <2>1. CASE Refuse
    BY <1>6, <2>1, ReturnType DEF DeleteItems, Refuse, TypeOK
  <2>2. CASE ~Refuse
    <3>1. WithoutOldItems(tx.db) \in Table
      BY DeleteType DEF TypeOK, WithoutOldItems, Tables
    <3>2. tx' \in [db: Tables, seen: 0..MaxWrites]
      BY <1>6, <2>2, <3>1 DEF TypeOK, DeleteItems, Tables
    <3> QED
      BY <1>6, <2>2, <3>2 DEF TypeOK, DeleteItems, tables
  <2> QED
    BY <2>1, <2>2
<1>7. CASE DeleteOrders
  <2>1. CASE Refuse
    BY <1>7, <2>1, ReturnType DEF DeleteOrders, Refuse, TypeOK
  <2>2. CASE ~Refuse
    <3>1. WithoutOld(tx.db) \in Table
      BY DeleteType DEF TypeOK, WithoutOld, Tables
    <3>2. tx' \in [db: Tables, seen: 0..MaxWrites]
      BY <1>7, <2>2, <3>1 DEF TypeOK, DeleteOrders, Tables
    <3> QED
      BY <1>7, <2>2, <3>2 DEF TypeOK, DeleteOrders, tables
  <2> QED
    BY <2>1, <2>2
<1>8. CASE Commit
  BY <1>8 DEF TypeOK, Commit, Listen, Return, Table, Tables, NoTx, NoTables
<1>9. CASE Stop
  <2>1. stops' \in 0..MaxStops
    BY <1>9 DEF Stop, TypeOK
  <2> QED
    BY <1>9, <2>1, ReturnType DEF Stop, Refuse
<1>10. ASSUME NEW o \in Orders, NEW row \in Rows, WriteElsewhere(o, row)
       PROVE  TypeOK'
  BY <1>10 DEF TypeOK, WriteElsewhere, locals, Table, Tables
<1>11. CASE UNCHANGED vars
  BY <1>11 DEF TypeOK, vars, tables, locals, Table, Tables
<1> QED
  BY <1>1, <1>2, <1>3, <1>4, <1>5, <1>6, <1>7, <1>8, <1>9, <1>10, <1>11 DEF Next, Purge

(* The variables keep their types in every behaviour.                      *)
THEOREM CleanupTypes == Spec => []TypeOK
BY TypeInit, TypeNext, PTL DEF Spec

-----------------------------------------------------------------------------
(* The positions follow their orders, and a purge under way knows what it  *)
(* has copied.                                                             *)
IInv == TypeOK /\ ItemsFollow /\ PurgeInv

(* Nothing is under way at first.                                          *)
LEMMA InvInit == Init => IInv
BY TypeInit DEF Init, IInv, ItemsFollow, PurgeInv, CopyInv, TxInv, Copied, Deleting

(* A purge that returns has nothing under way.                             *)
LEMMA NothingUnderWay ==
    ASSUME NEW outcome \in {"down", "serving"}, Return(outcome)
    PROVE  PurgeInv'
BY DEF Return, PurgeInv, CopyInv, TxInv, Copied, Deleting

(* Only a commit and another process's write change the tables, and all    *)
(* else they leave alone keeps its relation to them.                       *)
LEMMA InvNext == IInv /\ [Next]_vars => IInv'
<1> SUFFICES ASSUME IInv, [Next]_vars PROVE IInv'
  OBVIOUS
<1>1. TypeOK'
  BY TypeNext DEF IInv
<1> USE DEF Copied, Deleting
<1>2. ItemsFollow'
  <2>1. CASE UNCHANGED tables
    BY <2>1 DEF IInv, ItemsFollow, tables
  <2>2. CASE Commit
    BY <2>2 DEF IInv, ItemsFollow, PurgeInv, TxInv, Commit, WithoutOld,
                WithoutOldItems, Database
  <2>3. ASSUME NEW o \in Orders, NEW row \in Rows, WriteElsewhere(o, row)
        PROVE  ItemsFollow'
    BY <2>3 DEF IInv, ItemsFollow, WriteElsewhere
  <2> QED
    BY <2>1, <2>2, <2>3 DEF Next, Purge, Start, CountOld, ReadVersion, VacuumInto,
       VerifyBackup, Begin, Relist, DeleteItems, DeleteOrders, Stop, vars
<1>3. PurgeInv'
  <2>1. CASE Start
    BY <2>1 DEF IInv, PurgeInv, CopyInv, TxInv, Start, Database, tables, locals
  <2>2. CASE Refuse \/ Listen
    BY <2>2, NothingUnderWay DEF Refuse, Listen
  <2>3. CASE CountOld
    BY <2>2, <2>3 DEF IInv, PurgeInv, CopyInv, TxInv, CountOld
  <2>4. CASE ReadVersion
    BY <2>4 DEF IInv, TypeOK, PurgeInv, CopyInv, TxInv, ReadVersion, Database, tables
  <2>5. CASE VacuumInto
    BY <2>5 DEF IInv, PurgeInv, CopyInv, TxInv, VacuumInto, Database, tables
  <2>6. CASE VerifyBackup /\ ~Refuse
    BY <2>6 DEF IInv, PurgeInv, CopyInv, TxInv, VerifyBackup, Database, tables, locals
  <2>7. CASE Begin /\ ~Refuse
    BY <2>7 DEF IInv, PurgeInv, CopyInv, TxInv, Begin, SameVersion, Database, tables
  <2>8. CASE Relist /\ ~Refuse
    BY <2>8 DEF IInv, PurgeInv, CopyInv, TxInv, Relist, Database, tables, locals
  <2>9. CASE DeleteItems /\ ~Refuse
    <3>1. tx.db = Database /\ writes = version
      BY <2>9 DEF IInv, PurgeInv, TxInv, DeleteItems
    <3>2. tx'.db = [Database EXCEPT !.items = WithoutOldItems(Database)]
      BY <2>9, <3>1 DEF DeleteItems, IInv, TypeOK
    <3> QED
      BY <2>9, <3>1, <3>2 DEF IInv, PurgeInv, CopyInv, TxInv, DeleteItems, Database,
                               tables, WithoutOldItems
  <2>10. CASE DeleteOrders /\ ~Refuse
    <3>1. tx.db = [orders |-> orders, items |-> WithoutOldItems(Database)]
      BY <2>10 DEF IInv, PurgeInv, TxInv, DeleteOrders
    <3>2. WithoutOld(tx.db) = WithoutOld(Database)
      BY <3>1 DEF WithoutOld, Database
    <3>3. tx'.db = [orders |-> WithoutOld(Database), items |-> WithoutOldItems(Database)]
      BY <2>10, <3>1, <3>2 DEF DeleteOrders, IInv, TypeOK
    <3>4. Cardinality(Candidates(orders)) = Expected
      BY <2>10, <3>1 DEF DeleteOrders
    <3> QED
      BY <2>10, <3>3, <3>4 DEF IInv, PurgeInv, CopyInv, TxInv, DeleteOrders, Database,
                               tables, WithoutOld, WithoutOldItems
  <2>11. CASE Commit
    BY <2>2, <2>11 DEF Commit
  <2>12. CASE Stop
    BY <2>2, <2>12 DEF Stop
  <2>13. ASSUME NEW o \in Orders, NEW row \in Rows, WriteElsewhere(o, row)
         PROVE  PurgeInv'
    BY <2>13 DEF IInv, TypeOK, PurgeInv, CopyInv, TxInv, WriteElsewhere, Locked, locals
  <2>14. CASE UNCHANGED vars
    BY <2>14 DEF IInv, PurgeInv, CopyInv, TxInv, vars, tables, locals, Database
  <2> QED
    BY <2>1, <2>2, <2>3, <2>4, <2>5, <2>6, <2>7, <2>8, <2>9, <2>10, <2>11, <2>12,
       <2>13, <2>14 DEF Next, Purge
<1> QED
  BY <1>1, <1>2, <1>3 DEF IInv

(* Whenever the process stops and whatever others write in between, what   *)
(* the purge knows of its copy and of its transaction is true.             *)
THEOREM PurgeKnowsItsCopy == Spec => [](PurgeInv /\ ItemsFollow)
<1>1. IInv => PurgeInv /\ ItemsFollow
  BY DEF IInv
<1> QED
  BY <1>1, InvInit, InvNext, PTL DEF Spec

-----------------------------------------------------------------------------
(* An order disappears only when a purge commits.                          *)
LEMMA OnlyCommitRemoves ==
    ASSUME IInv, [Next]_vars, NEW o \in Orders, orders[o] # NoRow, orders'[o] = NoRow
    PROVE  Commit
<1>1. CASE UNCHANGED orders
  BY <1>1
<1>2. ASSUME NEW u \in Orders, NEW row \in Rows, WriteElsewhere(u, row)
      PROVE  FALSE
  BY <1>2, CleanupAssumption DEF WriteElsewhere, IInv, TypeOK, Table
<1> QED
  BY <1>1, <1>2 DEF Next, Purge, Start, CountOld, ReadVersion, VacuumInto, VerifyBackup,
     Begin, Relist, DeleteItems, DeleteOrders, Stop, vars, tables

(* What a purge removes is in a copy that it made before, exactly as it    *)
(* was removed: rows and positions.                                        *)
THEOREM NothingIsLost == Spec => PurgedIsBackedUp
<1>1. IInv /\ [Next]_vars =>
        \A o \in Orders :
            (orders[o] # NoRow /\ orders'[o] = NoRow) =>
                \E b \in backups : b.orders[o] = orders[o] /\ b.items[o] = items[o]
  <2> SUFFICES ASSUME IInv, [Next]_vars, NEW o \in Orders,
                      orders[o] # NoRow, orders'[o] = NoRow
               PROVE  \E b \in backups : b.orders[o] = orders[o] /\ b.items[o] = items[o]
    OBVIOUS
  <2>1. Commit
    BY OnlyCommitRemoves
  <2>2. copy \in backups /\ copy = Database
    BY <2>1 DEF Commit, IInv, PurgeInv, CopyInv, TxInv, Copied, Deleting
  <2> QED
    BY <2>2 DEF Database
<1> QED
  BY <1>1, InvInit, InvNext, PTL DEF Spec, PurgedIsBackedUp

(* A purge removes the old orders, all of them and no others, and as many  *)
(* as the operator expected.                                               *)
THEOREM PurgesExactly == Spec => AllExpectedOrNone
<1>1. IInv /\ [Next]_vars =>
        (Removed # {} => Removed = Candidates(orders) /\ Cardinality(Removed) = Expected)
  <2> SUFFICES ASSUME IInv, [Next]_vars, Removed # {}
               PROVE  Removed = Candidates(orders) /\ Cardinality(Removed) = Expected
    OBVIOUS
  <2>1. Commit
    BY OnlyCommitRemoves DEF Removed
  <2>2. /\ orders' = Delete(orders, Candidates(orders))
        /\ Cardinality(Candidates(orders)) = Expected
    BY <2>1 DEF Commit, IInv, PurgeInv, TxInv, WithoutOld, Database
  <2>3. Removed = Candidates(orders)
    BY <2>2 DEF Removed, Delete, Candidates
  <2> QED
    BY <2>2, <2>3
<1> QED
  BY <1>1, InvInit, InvNext, PTL DEF Spec, AllExpectedOrNone

(* The service never begins to listen over orders from before the cutoff,  *)
(* neither after a purge nor when there was nothing to purge.              *)
THEOREM ListensOverCleanHistory == Spec => StartsClean
<1>1. IInv /\ [Next]_vars =>
        ((pc # "serving" /\ pc' = "serving") => Candidates(orders') = {})
  <2> SUFFICES ASSUME IInv, [Next]_vars, pc # "serving", pc' = "serving"
               PROVE  Candidates(orders') = {}
    OBVIOUS
  <2>1. CountOld \/ Commit
    BY DEF Next, Purge, Start, ReadVersion, VacuumInto, VerifyBackup, Begin, Relist,
       DeleteItems, DeleteOrders, Stop, WriteElsewhere, Refuse, Return, vars, locals
  <2>2. CASE CountOld
    <3>1. Cardinality(Candidates(orders)) = 0 /\ orders' = orders
      BY <2>2 DEF CountOld, NothingLeft, Refuse, Return, tables
    <3>2. IsFiniteSet(Candidates(orders))
      BY CleanupAssumption, FS_Subset DEF Candidates
    <3> QED
      BY <3>1, <3>2, FS_EmptySet
  <2>3. CASE Commit
    <3>1. orders' = Delete(orders, Candidates(orders))
      BY <2>3 DEF Commit, IInv, PurgeInv, TxInv, WithoutOld, Database
    <3> QED
      BY <3>1 DEF Delete, Candidates
  <2> QED
    BY <2>1, <2>2, <2>3
<1> QED
  BY <1>1, InvInit, InvNext, PTL DEF Spec, StartsClean
=============================================================================
