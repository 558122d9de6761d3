---------------------------- MODULE ChargingPlan ----------------------------
(***************************************************************************)
(* The charging plan of one vehicle: what GWM holds, what the integration  *)
(* has recorded as its own, and what it undoes after the user opts out of  *)
(* charging control.  The set_charging_plan service (two calls may run at  *)
(* once), the official app, the poll that cleans up, reloads and restarts  *)
(* interleave at every request and every save.                             *)
(*                                                                         *)
(* A plan is a day, an hour and the repeated week days.  Overseas GWM      *)
(* keeps it as sent, under an id of its own; the NavInfo platform keeps    *)
(* the clock times only and the client makes a plan of them on the day it  *)
(* reads them.                                                             *)
(***************************************************************************)
EXTENDS Integers, FiniteSets

CONSTANTS
  Platforms,   \* which of "overseas" and "navinfo" to look at
  Calls,       \* service calls that may be in progress
  Hours,       \* start times of a plan
  MaxDay,      \* bound: days
  MaxPlan      \* bound: plans set at GWM

ASSUME PlanBounds == /\ Platforms \subseteq {"overseas", "navinfo"}
                     /\ MaxDay \in 0 .. 5
                     /\ MaxPlan \in Nat

VARIABLES
  platform,    \* never changes
  today,
  gwm,         \* the plan at GWM, and who set it
  issued,      \* plans set so far
  owned,       \* the durable ownership record
  enabled,     \* the charging option the running entry was loaded with
  cache,       \* ChinaClient._charging_plans of the vehicle
  written,     \* the vehicle is in _written_charging_plan_vins
  calls,       \* the service calls
  cleanup,     \* async_cleanup_owned_charging_plans
  history      \* what happened, for the properties; no code reads it

vars == << platform, today, gwm, issued, owned, enabled, cache, written, calls, cleanup, history >>

Days == 0 .. MaxDay
Ids == 0 .. MaxPlan
AnyId == MaxPlan + 1

\* Week days: the one of a day, a pattern the user gave, or "" for none.
Given == MaxDay + 1
Blank == MaxDay + 2
Weeks == 0 .. Blank

Plans == [ id : Ids \cup {AnyId}, day : Days, hour : Hours, weeks : Weeks ]

\* None and (), the absence of a record or an answer and the empty answer.
NoRecord == [ none |-> TRUE ]
Unread == { NoRecord }

\* ChargingPlanCommand.
Commands == [ enable : {TRUE}, day : Days, hour : Hours, weeks : {Given, Blank} ]
              \cup { [ enable |-> FALSE ] }

\* The services and the switch leave the week days out; the official app may not.
ServiceCommands == { c \in Commands : c.enable => c.weeks = Blank }

\* _china_repeat_times.
RepeatTimes(c) == IF c.weeks = Given THEN Given ELSE c.day

\* The plan GWM holds after a command: under a new id, or as clock times.
Held(c, id) ==
  IF platform = "overseas"
  THEN [ id |-> id, day |-> c.day, hour |-> c.hour, weeks |-> c.weeks ]
  ELSE [ id |-> 0, day |-> c.day, hour |-> c.hour, weeks |-> RepeatTimes(c) ]

\* parse_charging_plan_info and _parse_china_charging_plan.
Reads ==
  IF gwm.by = "nobody" THEN {}
  ELSE IF platform = "overseas" THEN { gwm.plan }
  ELSE { [ gwm.plan EXCEPT !.day = today ] }

\* Mutants of Record: the command as it came; the week days as they were sent.
RecordCommand(c, id) == c
RecordSent(c, id) == [ id |-> id, day |-> c.day, hour |-> c.hour, weeks |-> RepeatTimes(c) ]

Record(c, id) == [ id |-> id, day |-> c.day, hour |-> c.hour, weeks |-> c.weeks ]

\* Mutant of Matches: the clock time without its day.
MatchesClock(candidate, record) ==
  /\ candidate.hour = record.hour
  /\ candidate.weeks = record.weeks

\* _charging_plan_matches: an unknown id is no objection, everything else is.
Matches(candidate, record) ==
  /\ record.id \in { AnyId, candidate.id }
  /\ candidate.day = record.day
  /\ candidate.hour = record.hour
  /\ candidate.weeks = record.weeks

NoCommand == [ enable |-> FALSE ]
Idle == [ at |-> "idle", cmd |-> NoCommand, open |-> TRUE, id |-> AnyId ]
NoCleanup == [ at |-> "idle", record |-> NoRecord, raced |-> FALSE ]
NoPlan == [ by |-> "nobody", plan |-> NoRecord ]

\* excused: the plan at GWM could not be recorded (answer lost, save failed,
\* memory lost, another call in progress).
Histories == [ excused : BOOLEAN ]

TypeOK ==
  /\ platform \in Platforms
  /\ today \in Days
  /\ gwm \in [ by : {"call", "app"}, plan : Plans ] \cup { NoPlan }
  /\ issued \in Ids
  /\ owned \in Plans \cup { NoRecord }
  /\ enabled \in BOOLEAN /\ written \in BOOLEAN
  /\ cache = Unread \/ cache \subseteq Plans
  /\ calls \in [ Calls -> [ at : {"idle", "send", "save", "confirm", "resave", "remove"},
                            cmd : Commands, open : BOOLEAN, id : Ids \cup {AnyId} ] ]
  /\ cleanup \in [ at : {"idle", "look", "clear", "remove"},
                   record : Plans \cup { NoRecord }, raced : BOOLEAN ]
  /\ history \in Histories

Init ==
  /\ platform \in Platforms
  /\ today = 0
  /\ gwm = NoPlan
  /\ issued = 0
  /\ owned = NoRecord
  /\ enabled \in BOOLEAN
  /\ cache = Unread /\ written = FALSE
  /\ calls = [ c \in Calls |-> Idle ]
  /\ cleanup = NoCleanup
  /\ history = [ excused |-> FALSE ]

---------------------------------------------------------------------------
(* The client.                                                             *)

\* get_charging_plan: NavInfo answers from the cache if there is one.
Cached == platform = "navinfo" /\ cache # Unread
Answer == IF Cached THEN cache ELSE Reads
Remembered ==
  /\ cache' = IF platform = "navinfo" THEN Answer ELSE cache
  /\ UNCHANGED written

\* GWM applies a command; overseas each plan gets an id.
Applies(c, by) ==
  /\ issued < MaxPlan
  /\ issued' = issued + 1
  /\ gwm' = IF c.enable THEN [ by |-> by, plan |-> Held(c, issued + 1) ] ELSE NoPlan

\* set_charging_plan after GWM accepted: the NavInfo client now trusts itself.
Accepted(c) ==
  IF platform = "navinfo"
  THEN /\ cache' = IF c.enable THEN { Held(c, 0) } ELSE {}
       /\ written' = TRUE
  ELSE UNCHANGED << cache, written >>

\* For the properties: a plan was set while clean-up was between two of its steps.
Race == cleanup' = [ cleanup EXCEPT !.raced = @ \/ cleanup.at # "idle" ]

---------------------------------------------------------------------------
(* The service.                                                            *)

Goes(c, place) == calls' = [ calls EXCEPT ![c].at = place ]
Ends(c) == calls' = [ calls EXCEPT ![c] = Idle ]
Excuses == history' = [ excused |-> TRUE ]
Alone(c) == cleanup.at = "idle" /\ \A d \in Calls \ {c} : calls[d].at = "idle"

Begin(c) ==
  /\ enabled
  /\ calls[c].at = "idle"
  /\ \E cmd \in ServiceCommands : calls' = [ calls EXCEPT ![c] = [ Idle EXCEPT !.at = "send", !.cmd = cmd ] ]
  /\ UNCHANGED << platform, today, gwm, issued, owned, enabled, cache, written, cleanup, history >>

\* The request is refused, applied and answered, or applied with the answer lost.
Send(c) ==
  LET cmd == calls[c].cmd IN
  /\ calls[c].at = "send"
  /\ \/ /\ calls[c].open
        /\ Applies(cmd, "call")
        /\ Accepted(cmd)
        /\ Goes(c, IF cmd.enable THEN "save" ELSE "remove")
        /\ history' = [ excused |-> ~ Alone(c) ]
        /\ Race
     \/ /\ calls[c].open
        /\ Applies(cmd, "call")
        /\ Ends(c) /\ Excuses /\ Race
        /\ UNCHANGED << cache, written >>
     \/ /\ Ends(c)
        /\ UNCHANGED << gwm, issued, cache, written, cleanup, history >>
  /\ UNCHANGED << platform, today, owned, enabled >>

\* The plan is recorded before it is confirmed, and confirmed only for its id.
Save(c) ==
  /\ calls[c].at = "save"
  /\ \/ owned' = Record(calls[c].cmd, AnyId) /\ Goes(c, "confirm") /\ UNCHANGED history
     \/ UNCHANGED owned /\ Ends(c) /\ Excuses
  /\ UNCHANGED << platform, today, gwm, issued, enabled, cache, written, cleanup >>

Confirm(c) ==
  /\ calls[c].at = "confirm"
  /\ \/ /\ calls[c].open
        /\ Remembered
        /\ LET found == { p \in Answer : Matches(p, Record(calls[c].cmd, AnyId)) } IN
           IF found = {} THEN Ends(c)
           ELSE \E p \in found : calls' = [ calls EXCEPT ![c].at = "resave", ![c].id = p.id ]
     \/ Ends(c) /\ UNCHANGED << cache, written >>
  /\ UNCHANGED << platform, today, gwm, issued, owned, enabled, cleanup, history >>

Resave(c) ==
  /\ calls[c].at = "resave"
  /\ owned' \in { Record(calls[c].cmd, calls[c].id), owned }
  /\ Ends(c)
  /\ UNCHANGED << platform, today, gwm, issued, enabled, cache, written, cleanup, history >>

\* After a clear the record goes, whatever it says.
Remove(c) ==
  /\ calls[c].at = "remove"
  /\ owned' \in { NoRecord, owned }
  /\ Ends(c)
  /\ UNCHANGED << platform, today, gwm, issued, enabled, cache, written, cleanup, history >>

---------------------------------------------------------------------------
(* The poll after an opt-out.                                              *)

\* A NavInfo poll reads the status first, and the plan with it, unless the client
\* wrote one itself; then the records are looked at.
Poll ==
  /\ ~ enabled
  /\ cleanup.at = "idle"
  /\ cache' = IF platform = "navinfo" /\ ~ written THEN Reads ELSE cache
  /\ cleanup' = IF owned = NoRecord THEN NoCleanup
                ELSE [ at |-> "look", record |-> owned, raced |-> FALSE ]
  /\ history' = [ excused |-> \/ history.excused
                              \/ owned # NoRecord /\ \E c \in Calls : calls[c].at # "idle" ]
  /\ UNCHANGED << platform, today, gwm, issued, owned, enabled, written, calls >>

\* Mutant of MustClear: the recorded id decides.
MustClearId(items) == \E p \in items : p.id = cleanup.record.id

MustClear(items) == \E p \in items : Matches(p, cleanup.record)

\* Mutant of Look: a record without its plan is kept.
LookKeeping ==
  /\ cleanup.at = "look"
  /\ \/ /\ Remembered
        /\ cleanup' = IF MustClear(Answer) THEN [ cleanup EXCEPT !.at = "clear" ] ELSE NoCleanup
     \/ cleanup' = NoCleanup /\ UNCHANGED << cache, written >>
  /\ UNCHANGED << platform, today, gwm, issued, owned, enabled, calls, history >>

Look ==
  /\ cleanup.at = "look"
  /\ \/ /\ Remembered
        /\ cleanup' = [ cleanup EXCEPT !.at = IF MustClear(Answer) THEN "clear" ELSE "remove",
                                       !.raced = FALSE ]
     \/ cleanup' = NoCleanup /\ UNCHANGED << cache, written >>
  /\ UNCHANGED << platform, today, gwm, issued, owned, enabled, calls, history >>

Clear ==
  /\ cleanup.at = "clear"
  /\ \/ /\ gwm' = NoPlan
        /\ \/ Accepted(NoCommand) /\ cleanup' = [ cleanup EXCEPT !.at = "remove" ]
           \/ cleanup' = NoCleanup /\ UNCHANGED << cache, written >>
     \/ cleanup' = NoCleanup /\ UNCHANGED << gwm, cache, written >>
  /\ UNCHANGED << platform, today, issued, owned, enabled, calls, history >>

Retire ==
  /\ cleanup.at = "remove"
  /\ owned' \in { NoRecord, owned }
  /\ cleanup' = NoCleanup
  /\ UNCHANGED << platform, today, gwm, issued, enabled, cache, written, calls, history >>

---------------------------------------------------------------------------
(* The rest of the world.                                                  *)

\* The official app sets or clears a plan.
AppSets ==
  /\ \E c \in Commands : Applies(c, "app")
  /\ Race
  /\ UNCHANGED << platform, today, owned, enabled, cache, written, calls, history >>

DayPasses ==
  /\ today < MaxDay
  /\ today' = today + 1
  /\ UNCHANGED << platform, gwm, issued, owned, enabled, cache, written, calls, cleanup, history >>

\* A renewed session is installed without what the client remembered.
Reinstall ==
  /\ cache' = Unread /\ written' = FALSE
  /\ UNCHANGED << platform, today, gwm, issued, owned, enabled, calls, cleanup, history >>

\* An options change reloads the entry: the client is closed, but calls in
\* progress go on and so do their saves.
Reload ==
  /\ enabled' \in BOOLEAN
  /\ cache' = Unread /\ written' = FALSE
  /\ cleanup' = NoCleanup
  /\ calls' = [ c \in Calls |-> IF calls[c].at = "idle" THEN Idle
                                ELSE [ calls[c] EXCEPT !.open = FALSE ] ]
  /\ UNCHANGED << platform, today, gwm, issued, owned, history >>

\* Home Assistant stops: calls are lost with their memory.
Restart ==
  /\ calls' = [ c \in Calls |-> Idle ]
  /\ history' = [ excused |-> history.excused \/ \E c \in Calls : calls[c].at = "save" ]
  /\ cleanup' = NoCleanup
  /\ cache' = Unread /\ written' = FALSE
  /\ UNCHANGED << platform, today, gwm, issued, owned, enabled >>

Works == Look \/ Clear \/ Retire
CallStep(c) == Send(c) \/ Save(c) \/ Confirm(c) \/ Resave(c) \/ Remove(c)

Next ==
  \/ \E c \in Calls : Begin(c) \/ CallStep(c)
  \/ Poll \/ Works
  \/ AppSets \/ DayPasses \/ Reinstall \/ Reload \/ Restart

Spec == Init /\ [][Next]_vars

\* Polls recur, and requests and saves succeed now and then.
Fairness ==
  /\ WF_vars(Poll)
  /\ SF_vars(Look /\ cleanup'.at # "idle")
  /\ SF_vars(Clear /\ cleanup'.at = "remove")
  /\ SF_vars(Retire /\ owned' = NoRecord)
  /\ \A c \in Calls : WF_vars(CallStep(c))

FairSpec == Spec /\ Fairness

---------------------------------------------------------------------------
(* Properties.                                                             *)

Quiet == \A c \in Calls : calls[c].at = "idle"

\* What cleanup will look for is what the service set: overseas, a plan of ours
\* that nobody changed is recorded so that it will be recognised.
OwnPlanRecorded ==
  (platform = "overseas" /\ gwm.by = "call" /\ Quiet /\ ~ history.excused)
    => owned # NoRecord /\ Matches(gwm.plan, owned)

\* Cleanup clears a plan of the official app only overseas, and only if it equals the
\* recorded one in all that is compared or came after the look.  On NavInfo it clears
\* none: the week days recorded are blank, those read never.
ForeignPlanKept ==
  [][ (Clear /\ gwm.by = "app" /\ gwm'.by = "nobody")
        => /\ platform = "overseas"
           /\ \/ cleanup.raced
              \/ /\ gwm.plan.hour = cleanup.record.hour
                 /\ gwm.plan.day = cleanup.record.day
                 /\ gwm.plan.weeks = cleanup.record.weeks
                 /\ cleanup.record.id \in { AnyId, gwm.plan.id } ]_vars

\* Overseas, cleanup gives a record up only when the plan it stands for is gone.
RecordOutlivesPlan ==
  [][ (Retire /\ owned' = NoRecord /\ owned # NoRecord /\ platform = "overseas")
        => \/ gwm.by # "call"
           \/ ~ Matches(gwm.plan, owned)
           \/ history.excused ]_vars

\* The README's word for it, on every platform: cleanup is retried as long as the
\* plan the integration wrote is present.
ExactPlanCleared ==
  [][ (Retire /\ owned' = NoRecord /\ owned # NoRecord /\ gwm.by = "call")
        => history.excused ]_vars

\* After an opt-out the record goes in the end, unless the user opts in again.
CleanupEnds ==
  (~ enabled /\ owned # NoRecord) ~> (enabled \/ owned = NoRecord)
=============================================================================
