---------------------------- MODULE MCTrafficSync ----------------------------
(***************************************************************************)
(* Instances of TrafficSync for TLC: a site counter that answers a whole   *)
(* range at once, and an application whose queries have a revision and are *)
(* split into chunks shorter than the backfill.                            *)
(***************************************************************************)
EXTENDS TrafficSync

CONSTANTS metrika, appmetrica

BothSources == <<metrika, appmetrica>>
AppOnly     == <<appmetrica>>
WithRevision == {appmetrica}

Chunks == [s \in Sources |-> IF s = metrika THEN 10 ELSE 2]
=============================================================================
