-------------------------- MODULE CloudStateContract -------------------------
(***************************************************************************)
(* What the private store of one account promises to its callers, without  *)
(* locks, writes, confirmations or cancellation.                           *)
(*                                                                         *)
(* "committed" is the record the running process answers from, "durable"   *)
(* the one a restart would find.  Every operation computes one new record  *)
(* from the committed one and makes it durable; only what is durable may   *)
(* become committed.  An operation that is not acknowledged may or may not *)
(* have reached the disk: durable and committed then differ until the next *)
(* operation, which starts from committed, or until a restart, which takes *)
(* what it finds.                                                          *)
(***************************************************************************)
EXTENDS CloudRecord

VARIABLES committed, durable

vars == <<committed, durable>>

Init ==
    /\ durable \in Record \cup {NoRecord}
    /\ committed = durable

(* An operation's record reaches the disk, unacknowledged.  "damaged" says *)
(* whether the process began from data it could not decode.                *)
Attempt(req) ==
    /\ ~Rejected(committed, req)
    /\ \E damaged \in BOOLEAN : durable' = Saved(committed, damaged, req)
    /\ UNCHANGED committed

(* The account's state is deleted, and sooner or later forgotten.          *)
Erase ==
    /\ durable' = NoRecord
    /\ committed' \in {committed, NoRecord}

(* The durable record is acknowledged, or found by a restart.              *)
Settle ==
    /\ committed' = durable
    /\ UNCHANGED durable

Next == (\E req \in Request : Attempt(req)) \/ Erase \/ Settle

Spec == Init /\ [][Next]_vars
=============================================================================
