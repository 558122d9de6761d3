--------------------------- MODULE MCCloudStorage ----------------------------
(* Small instances of CloudStorage for TLC: the journal under one context  *)
(* and a full journal, and two contexts with owned plans and removal.      *)
EXTENDS CloudStorage, TLC

CONSTANTS c1, c2, x1, x2, t1, j1, j2, j3, v1, p1

MCCallers == {c1, c2}
OneContext == {x1}
TwoContexts == {x1, x2}
MCTokens == {t1}
OneId == {j1}
ThreeIds == {j1, j2, j3}
MCVehicles == {v1}
MCPlans == {p1}
NoPlans == {}

(* Callers and random identifiers are interchangeable; used only by the    *)
(* run without liveness properties.                                        *)
CallersAndIds == Permutations(MCCallers) \cup Permutations(ThreeIds)

JournalOps == {"save", "record", "update"}
ContextOps == {"load", "save", "record", "setPlan", "removePlan", "clear", "remove"}
=============================================================================
