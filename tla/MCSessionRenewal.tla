--------------------------- MODULE MCSessionRenewal --------------------------
(* Small instances of SessionRenewal for TLC: one poll beside one command  *)
(* or one other read.                                                      *)
EXTENDS SessionRenewal

CONSTANTS poll, read, write

OnePoll == {poll}
OneRead == {read}
OneWrite == {write}
NoOps == {}
AnyKind == {"auth", "api"}
ApiKind == {"api"}
=============================================================================
