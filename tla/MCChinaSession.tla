--------------------------- MODULE MCChinaSession ---------------------------
(* ChinaSession with both platforms, which are alike to the client.         *)
EXTENDS ChinaSession, TLC
CONSTANTS bean_tech, auto_ai
=============================================================================
