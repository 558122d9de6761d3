--------------------------- MODULE MCCommandJournal --------------------------
(* Small instances of CommandJournal for TLC: one command, or two that     *)
(* compete for the single entry of the journal.                            *)
EXTENDS CommandJournal, TLC

CONSTANTS x1, t1, k1, k2

OneContext == {x1}
OneToken == {t1}
OneCommand == {k1}
TwoCommands == {k1, k2}
NoVehicles == {}

(* Commands are interchangeable.                                           *)
AnyCommand == Permutations({k1, k2})
=============================================================================
