----------------------------- MODULE CloudRecord -----------------------------
(***************************************************************************)
(* The record that cloud_storage.py keeps for one account (_GwmCloudRecord) *)
(* and what every operation of GwmCloudStateStore computes from it.         *)
(*                                                                         *)
(* A context stands for the triple (region, account_binding,               *)
(* context_binding) that _record_matches compares: changing the password,  *)
(* the country or the ANZ method of one account gives another context of   *)
(* the same store.  A token stands for one revision of the regional        *)
(* authentication state.  Timestamps are left out, except that an update   *)
(* may carry one older than the entry's (a clock that stepped back).  The  *)
(* owned plans are kept one per vehicle, so they are a function; their     *)
(* bound of 100 vehicles is left out.                                      *)
(***************************************************************************)
EXTENDS Naturals, Sequences

CONSTANTS Contexts,     \* account contexts that address this store
          Tokens,       \* revisions of the authentication state
          JournalIds,   \* identifiers of journal entries
          Vehicles,
          Plans,        \* charging plans this integration has written
          NoRecord,     \* nothing stored
          NoAuth,       \* auth_state is None
          NoPlan,       \* no plan of ours on a vehicle
          MaxCommands   \* _MAX_COMMANDS

ASSUME MaxCommandsAssumption == MaxCommands \in Nat \ {0}


CommandStates == {"accepted", "polling", "completed", "failed"}
Terminal == {"completed", "failed"}

(* _COMMAND_TRANSITIONS *)
Transitions == [s \in CommandStates |->
    IF s = "accepted" THEN CommandStates
    ELSE IF s = "polling" THEN CommandStates \ {"accepted"} ELSE {s}]

Command == [id : JournalIds, state : CommandStates]
Ownership == [Vehicles -> Plans \cup {NoPlan}]
Record == [context : Contexts, auth : Tokens \cup {NoAuth},
           commands : Seq(Command), plans : Ownership]

ASSUME NoRecordAssumption == NoRecord \notin Record

(* What a caller asks of the store; one record type per method.            *)
Request ==
    [op : {"load", "clear", "journal", "plans"}, ctx : Contexts]
      \cup [op : {"save"}, ctx : Contexts, auth : Tokens]
      \cup [op : {"record"}, ctx : Contexts, id : JournalIds]
      \cup [op : {"update"}, ctx : Contexts, id : JournalIds,
            state : CommandStates \ {"accepted"}, late : BOOLEAN]
      \cup [op : {"setPlan"}, ctx : Contexts, vehicle : Vehicles, plan : Plans]
      \cup [op : {"removePlan"}, ctx : Contexts, vehicle : Vehicles]

-----------------------------------------------------------------------------

Matches(rec, ctx) == rec # NoRecord /\ rec.context = ctx

EmptyRecord(ctx) ==
    [context |-> ctx, auth |-> NoAuth, commands |-> <<>>,
     plans |-> [v \in Vehicles |-> NoPlan]]

(* Mutants of Carried: the context is not compared; nothing is kept.       *)
CarriedUnchecked(rec, ctx) ==
    IF rec # NoRecord THEN [rec EXCEPT !.context = ctx] ELSE EmptyRecord(ctx)
CarriedNothing(rec, ctx) == EmptyRecord(ctx)

(* The commands and plans a save or a clear carries over.                  *)
Carried(rec, ctx) == IF Matches(rec, ctx) THEN rec ELSE EmptyRecord(ctx)

(* The last bound elements of s followed by x, when s respects the bound.   *)
Push(s, x, bound) ==
    IF Len(s) < bound THEN Append(s, x) ELSE Append(Tail(s), x)

WithCommand(rec, id) ==
    [rec EXCEPT !.commands =
        Push(@, [id |-> id, state |-> "accepted"], MaxCommands)]

Holds(rec, id) == \E i \in 1..Len(rec.commands) : rec.commands[i].id = id

StateOf(rec, id) ==
    rec.commands[CHOOSE i \in 1..Len(rec.commands) : rec.commands[i].id = id].state

WithState(rec, id, state) ==
    [rec EXCEPT !.commands = [i \in 1..Len(@) |->
        IF @[i].id = id THEN [@[i] EXCEPT !.state = state] ELSE @[i]]]

WithPlan(rec, vehicle, plan) == [rec EXCEPT !.plans[vehicle] = plan]

-----------------------------------------------------------------------------
(* The requests answered with ValueError or KeyError, before any write.    *)

Rejected(rec, req) ==
    \/ /\ req.op \in {"record", "update", "setPlan", "removePlan"}
       /\ ~Matches(rec, req.ctx)
    \/ /\ req.op = "record" /\ Matches(rec, req.ctx)
       /\ rec.auth = NoAuth
    \/ /\ req.op = "update" /\ Matches(rec, req.ctx)
       /\ Holds(rec, req.id) =>
            req.late \/ req.state \notin Transitions[StateOf(rec, req.id)]

(* The record the operation saves; the stored one when it saves nothing.   *)
(* A read that meets another account's record, or data it could not        *)
(* decode, replaces the whole revision (_async_replace_for_context).       *)
Saved(rec, invalid, req) ==
    CASE req.op \in {"load", "journal", "plans"} ->
            IF ~Matches(rec, req.ctx) /\ (rec # NoRecord \/ invalid)
            THEN EmptyRecord(req.ctx) ELSE rec
      [] req.op = "save"   -> [Carried(rec, req.ctx) EXCEPT !.auth = req.auth]
      [] req.op = "clear"  -> [Carried(rec, req.ctx) EXCEPT !.auth = NoAuth]
      [] req.op = "record" -> WithCommand(rec, req.id)
      [] req.op = "update" -> WithState(rec, req.id, req.state)
      [] req.op = "setPlan" -> WithPlan(rec, req.vehicle, req.plan)
      [] req.op = "removePlan" -> WithPlan(rec, req.vehicle, NoPlan)

(* Whether the operation reaches _async_save at all.                       *)
Saves(rec, invalid, req) ==
    CASE req.op \in {"load", "journal", "plans"} ->
            ~Matches(rec, req.ctx) /\ (rec # NoRecord \/ invalid)
      [] req.op = "removePlan" -> WithPlan(rec, req.vehicle, NoPlan) # rec
      [] OTHER -> TRUE

=============================================================================
