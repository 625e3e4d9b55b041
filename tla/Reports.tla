------------------------------- MODULE Reports -------------------------------
(***************************************************************************)
(* The reports the server answers from its tables, a module for each       *)
(* package of services (app/container wires them to one database).         *)
(***************************************************************************)
EXTENDS OrderRows

CONSTANTS
    PilotCities,              \* see LogisticsReport
    Sources, HistoryDays,     \* see GoalReport
    EcomSources, ChannelOf,   \* see EcomSync
    Quarter                   \* see CustomerReport

(* A history has a day, a quarter a month, and a LIMIT is a number.        *)
ASSUME LimitsAssumption ==
    /\ {HistoryDays, Quarter} \subseteq Nat \ {0}
    /\ Limits \in [{"segment", "top", "group", "customers", "name", "category", "gender", "brand",
                    "services", "cities", "breakdown"} -> Nat]

Funnel    == INSTANCE FunnelReport
Metrics   == INSTANCE MetricsReport
Logistics == INSTANCE LogisticsReport
Goal      == INSTANCE GoalReport
Acquired  == INSTANCE AcquisitionReport
Customers == INSTANCE CustomerReport
=============================================================================
