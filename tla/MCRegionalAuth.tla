--------------------------- MODULE MCRegionalAuth ---------------------------
(* RegionalAuth with two gwIds, three token pairs and an interval of two    *)
(* ticks.                                                                   *)
EXTENDS RegionalAuth
CONSTANTS g1, g2
=============================================================================
