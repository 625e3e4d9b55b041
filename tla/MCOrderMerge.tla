---------------------------- MODULE MCOrderMerge ----------------------------
(***************************************************************************)
(* Instances of OrderMerge for TLC: two orders, overlapping exports whose  *)
(* snapshots are older, newer, as old, undated and repeated in one file.   *)
(***************************************************************************)
EXTENDS OrderMerge, TLC

CONSTANTS o1, o2, a, b, c

MCOrders == {o1, o2}
MCContents == {a, b, c}

Snap(o, created, updated, content, lines) ==
    [order |-> o, created |-> created, updated |-> updated,
     content |-> content, lines |-> lines]

Blank == Snap(NoOrder, 0, 0, a, 0)

First     == <<Snap(o1, 2, 2, a, 1), Snap(o2, 2, 4, a, 1)>>
Second    == <<Snap(o2, 2, 3, b, 2), Snap(o1, 2, 3, b, 2)>>
Undated   == <<Snap(o1, 2, 0, c, 1), Snap(o2, 2, 4, c, 0)>>
NoCreated == <<Snap(o1, 0, 3, c, 0)>>
Repeated  == <<Snap(o2, 2, 4, b, 1), Blank, Snap(o1, 2, 3, a, 1), Snap(o1, 1, 1, b, 2)>>
Empty     == <<Blank>>

MCFiles == {First, Second, Undated, NoCreated, Repeated, Empty}

Symmetry == Permutations(Imports)

(* Repeating an import (ADR 0009): see OrderStore.                         *)
ReimportIsIdempotent == Store!ReimportIsIdempotent
=============================================================================
