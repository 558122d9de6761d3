-------------------------- MODULE ChargingPlanProofs --------------------------
(***************************************************************************)
(* What holds of the charging plan for any service calls, hours, days and  *)
(* number of plans: what clean-up will look for is what the service set,   *)
(* a record outlives its plan, and a plan of the official app is cleared   *)
(* only overseas and only by mistake of a moment.                          *)
(***************************************************************************)
EXTENDS ChargingPlan, TLAPS

Busy == cleanup.at # "idle"
Ours == platform = "overseas" /\ gwm.by = "call" /\ ~ history.excused

\* Only a plan that was set is recorded.
Setting == \A c \in Calls : calls[c].at \in {"save", "confirm", "resave"} => calls[c].cmd.enable

\* Clean-up runs after an opt-out only, when no call in progress can send any more.
OptedOut ==
  /\ Busy => ~ enabled
  /\ ~ enabled => \A c \in Calls : calls[c].at = "idle" \/ ~ calls[c].open

\* Nobody touches the record while clean-up works on it, or the plan is excused.
Undisturbed == (Busy /\ ~ history.excused) => Quiet /\ cleanup.record = owned

\* A plan of ours is on its way into the record, or in it.
OnItsWay ==
  Ours =>
    /\ \A c \in Calls :
         /\ calls[c].at # "remove"
         /\ calls[c].at \in {"save", "confirm", "resave"} =>
              Matches(gwm.plan, Record(calls[c].cmd, AnyId))
         /\ calls[c].at = "resave" => calls[c].id = gwm.plan.id
    /\ \/ \E c \in Calls : calls[c].at = "save"
       \/ owned # NoRecord /\ Matches(gwm.plan, owned)

\* Clean-up has found the plan gone before it gives up the record.
Gone == (Ours /\ Busy) => cleanup.at # "remove"

\* On NavInfo what is recorded has no week days and what is read has some, so clean-up
\* finds nothing to clear.
Unlike ==
  platform = "navinfo" =>
    /\ \A c \in Calls : calls[c].cmd.enable => calls[c].cmd.weeks = Blank
    /\ owned # NoRecord => owned.weeks = Blank
    /\ Busy => cleanup.record.weeks = Blank
    /\ gwm.by # "nobody" => gwm.plan.weeks # Blank
    /\ cache # Unread => \A p \in cache : p.weeks # Blank
    /\ cleanup.at # "clear"

\* What clean-up clears overseas is what it saw.
Alike ==
  /\ gwm.plan.hour = cleanup.record.hour
  /\ gwm.plan.day = cleanup.record.day
  /\ gwm.plan.weeks = cleanup.record.weeks
  /\ cleanup.record.id \in { AnyId, gwm.plan.id }
Sure ==
  (platform = "overseas" /\ cleanup.at = "clear" /\ ~ cleanup.raced /\ gwm.by = "app") => Alike

IInv == TypeOK /\ Setting /\ OptedOut /\ Undisturbed /\ OnItsWay /\ Gone /\ Unlike /\ Sure

---------------------------------------------------------------------------
(* Types.                                                                  *)

CallStates ==
  [ at : {"idle", "send", "save", "confirm", "resave", "remove"},
    cmd : Commands, open : BOOLEAN, id : Ids \cup {AnyId} ]

CleanupStates ==
  [ at : {"idle", "look", "clear", "remove"}, record : Plans \cup { NoRecord }, raced : BOOLEAN ]

\* A plan that GWM holds or that the store records is a plan.
LEMMA PlansOfCommands ==
  ASSUME NEW cmd \in Commands, cmd.enable, TypeOK, NEW id \in Ids \cup {AnyId}
  PROVE  Held(cmd, id) \in Plans /\ Record(cmd, id) \in Plans
<1>1. cmd \in [ enable : {TRUE}, day : Days, hour : Hours, weeks : {Given, Blank} ]
  <2>1. cmd # [ enable |-> FALSE ]
    OBVIOUS
  <2> QED
    BY <2>1 DEF Commands
<1>2. /\ MaxDay \in Nat /\ MaxPlan \in Nat
      /\ Days \subseteq Weeks /\ Given \in Weeks /\ Blank \in Weeks /\ 0 \in Ids
  BY PlanBounds DEF Days, Weeks, Given, Blank, Ids
<1>3. RepeatTimes(cmd) \in Weeks
  BY <1>1, <1>2 DEF RepeatTimes
<1> QED
  BY <1>1, <1>2, <1>3 DEF Held, Record, Plans

\* What GWM answers are plans.
LEMMA PlansRead ==
  ASSUME TypeOK
  PROVE  Reads \subseteq Plans /\ Answer \subseteq Plans
<1>1. gwm.by # "nobody" => gwm.plan \in Plans
  BY DEF TypeOK, NoPlan
<1>2. Reads \subseteq Plans
  BY <1>1 DEF TypeOK, Reads, Plans
<1> QED
  BY <1>2 DEF TypeOK, Answer, Cached

\* A call that goes on, goes on typed.
LEMMA CallsTyped ==
  TypeOK => calls \in [ Calls -> CallStates ]
BY DEF TypeOK, CallStates

---------------------------------------------------------------------------
(* The steps.                                                              *)

\* Every step keeps the types.
LEMMA TypesKept ==
  ASSUME TypeOK, Setting, [Next]_vars
  PROVE  TypeOK'
<1> USE DEF CallStates, CleanupStates
<1>0. /\ MaxDay \in Nat /\ MaxPlan \in Nat /\ issued \in Nat
      /\ AnyId = MaxPlan + 1 /\ Ids = 0 .. MaxPlan
  BY PlanBounds DEF TypeOK, Ids, AnyId
<1>1. calls \in [ Calls -> CallStates ]
  BY CallsTyped
<1>2. Idle \in CallStates
  BY DEF Idle, NoCommand, Commands
<1>3. ASSUME NEW c \in Calls, Begin(c)
      PROVE  TypeOK'
  <2>1. PICK cmd \in ServiceCommands :
          calls' = [ calls EXCEPT ![c] = [ Idle EXCEPT !.at = "send", !.cmd = cmd ] ]
    BY <1>3 DEF Begin
  <2>2. [ Idle EXCEPT !.at = "send", !.cmd = cmd ] \in CallStates
    BY <1>2 DEF ServiceCommands
  <2>3. calls' \in [ Calls -> CallStates ]
    BY <1>1, <2>1, <2>2
  <2> QED
    BY <1>3, <2>3 DEF Begin, TypeOK, Days, Ids
<1>4. ASSUME NEW c \in Calls, Send(c)
      PROVE  TypeOK'
  <2> DEFINE cmd == calls[c].cmd
  <2>1. cmd \in Commands
    BY <1>1
  <2>2. calls' \in [ Calls -> CallStates ]
    BY <1>1, <1>2, <1>4 DEF Send, Goes, Ends
  <2>3. gwm' \in [ by : {"call", "app"}, plan : Plans ] \cup { NoPlan } /\ issued' \in Ids
    BY <1>0, <1>4, <2>1, PlansOfCommands DEF Send, Applies, TypeOK
  <2>4. cache' = Unread \/ cache' \subseteq Plans
    BY <1>0, <1>4, <2>1, PlansOfCommands DEF Send, Accepted, TypeOK
  <2>5. written' \in BOOLEAN /\ history' \in Histories
    <3>1. \A b \in BOOLEAN : [ excused |-> b ] \in Histories
      BY DEF Histories
    <3>2. (~ Alone(c)) \in BOOLEAN
      BY DEF Alone
    <3> QED
      BY <1>4, <3>1, <3>2 DEF Send, Accepted, TypeOK, Excuses
  <2>6. cleanup' \in CleanupStates
    BY <1>4 DEF Send, Race, TypeOK
  <2> QED
    BY <1>4, <2>2, <2>3, <2>4, <2>5, <2>6 DEF Send, TypeOK
<1>5. ASSUME NEW c \in Calls, Save(c) \/ Resave(c) \/ Remove(c)
      PROVE  TypeOK'
  <2>1. calls' \in [ Calls -> CallStates ]
    BY <1>1, <1>2, <1>5 DEF Save, Resave, Remove, Goes, Ends
  <2>2. history' \in Histories
    <3>1. [ excused |-> TRUE ] \in Histories
      BY DEF Histories
    <3> QED
      BY <1>5, <3>1 DEF Save, Resave, Remove, Excuses, TypeOK
  <2>3. owned' \in Plans \cup { NoRecord }
    BY <1>1, <1>5, PlansOfCommands DEF Save, Resave, Remove, Setting, TypeOK
  <2> QED
    BY <1>5, <2>1, <2>2, <2>3 DEF Save, Resave, Remove, TypeOK
<1>6. ASSUME NEW c \in Calls, Confirm(c)
      PROVE  TypeOK'
  <2>1. cache' = Unread \/ cache' \subseteq Plans
    BY <1>6, PlansRead DEF Confirm, Remembered, TypeOK
  <2>2. \A p \in Answer : p.id \in Ids \cup {AnyId}
    BY PlansRead DEF Plans
  <2>3. calls' \in [ Calls -> CallStates ]
    BY <1>1, <1>2, <1>6, <2>2 DEF Confirm, Ends
  <2> QED
    BY <1>6, <2>1, <2>3 DEF Confirm, Remembered, TypeOK
<1>7. CASE Poll
  <2>1. cache' = Unread \/ cache' \subseteq Plans
    BY <1>7, PlansRead DEF Poll, TypeOK
  <2>2. cleanup' \in CleanupStates
    BY <1>7 DEF Poll, NoCleanup, TypeOK
  <2>3. history' \in Histories
    <3>1. \A b \in BOOLEAN : [ excused |-> b ] \in Histories
      BY DEF Histories
    <3>2. (\/ history.excused
           \/ owned # NoRecord /\ \E c \in Calls : calls[c].at # "idle") \in BOOLEAN
      OBVIOUS
    <3> QED
      BY <1>7, <3>1, <3>2 DEF Poll
  <2> QED
    BY <1>7, <2>1, <2>2, <2>3 DEF Poll, TypeOK
<1>8. CASE Look
  <2>1. cache' = Unread \/ cache' \subseteq Plans
    BY <1>8, PlansRead DEF Look, Remembered, TypeOK
  <2>2. cleanup' \in CleanupStates
    <3>1. \A place \in {"clear", "remove"}, b \in BOOLEAN :
            [ cleanup EXCEPT !.at = place, !.raced = b ] \in CleanupStates
      BY DEF TypeOK
    <3>2. NoCleanup \in CleanupStates
      BY DEF NoCleanup
    <3> QED
      BY <1>8, <3>1, <3>2 DEF Look
  <2> QED
    BY <1>8, <2>1, <2>2 DEF Look, Remembered, TypeOK
<1>9. CASE Clear
  <2>1. cleanup' \in CleanupStates
    <3>1. [ cleanup EXCEPT !.at = "remove" ] \in CleanupStates
      BY DEF TypeOK
    <3>2. NoCleanup \in CleanupStates
      BY DEF NoCleanup
    <3> QED
      BY <1>9, <3>1, <3>2 DEF Clear
  <2> QED
    BY <1>9, <2>1 DEF Clear, Accepted, NoCommand, TypeOK
<1>10. CASE Retire
  BY <1>10 DEF Retire, NoCleanup, TypeOK
<1>11. CASE AppSets
  <2>1. PICK cmd \in Commands : Applies(cmd, "app")
    BY <1>11 DEF AppSets
  <2>2. gwm' \in [ by : {"call", "app"}, plan : Plans ] \cup { NoPlan } /\ issued' \in Ids
    BY <1>0, <2>1, PlansOfCommands DEF Applies, TypeOK
  <2>3. cleanup' \in CleanupStates
    BY <1>11 DEF AppSets, Race, TypeOK
  <2> QED
    BY <1>11, <2>2, <2>3 DEF AppSets, TypeOK
<1>12. CASE DayPasses
  <2>1. today' \in Days
    BY <1>0, <1>12 DEF DayPasses, TypeOK, Days
  <2> QED
    BY <1>12, <2>1 DEF DayPasses, TypeOK
<1>13. CASE Reinstall
  BY <1>13 DEF Reinstall, TypeOK
<1>14. CASE Reload
  <2>1. calls' \in [ Calls -> CallStates ]
    BY <1>1, <1>2, <1>14 DEF Reload
  <2> QED
    BY <1>14, <2>1 DEF Reload, NoCleanup, TypeOK
<1>15. CASE Restart
  <2>1. calls' \in [ Calls -> CallStates ] /\ history' \in Histories
    BY <1>2, <1>15 DEF Restart, Histories, TypeOK
  <2> QED
    BY <1>15, <2>1 DEF Restart, NoCleanup, TypeOK
<1>16. CASE UNCHANGED vars
  BY <1>16 DEF vars, TypeOK, Days, Ids
<1> QED
  BY <1>3, <1>4, <1>5, <1>6, <1>7, <1>8, <1>9, <1>10, <1>11, <1>12, <1>13, <1>14, <1>15, <1>16
  DEF Next, CallStep, Works

\* What a call does to its own place and to the others'.
LEMMA OthersStay ==
  ASSUME TypeOK, NEW c \in Calls, Begin(c) \/ CallStep(c), NEW d \in Calls, d # c
  PROVE  calls'[d] = calls[d]
BY CallsTyped DEF Begin, CallStep, Send, Save, Confirm, Resave, Remove, Goes, Ends

\* Where a call can be after a step of its own.
LEMMA CallGoes ==
  ASSUME TypeOK, NEW c \in Calls
  PROVE  /\ Begin(c) => /\ calls[c].at = "idle" /\ calls'[c].at = "send"
                        /\ enabled
         /\ Send(c) => /\ calls[c].at = "send"
                       /\ calls'[c].open = calls[c].open \/ calls'[c].at = "idle"
                       /\ calls'[c].at \in {"idle", "save", "remove"}
                       /\ calls'[c].at = "save" => calls'[c].cmd = calls[c].cmd /\ calls[c].cmd.enable
         /\ Save(c) => /\ calls[c].at = "save"
                       /\ calls'[c].open = calls[c].open \/ calls'[c].at = "idle"
                       /\ calls'[c].at \in {"idle", "confirm"}
                       /\ calls'[c].cmd = calls[c].cmd \/ calls'[c].at = "idle"
         /\ Confirm(c) => /\ calls[c].at = "confirm"
                          /\ calls'[c].open = calls[c].open \/ calls'[c].at = "idle"
                          /\ calls'[c].at \in {"idle", "resave"}
                          /\ calls'[c].cmd = calls[c].cmd \/ calls'[c].at = "idle"
         /\ Resave(c) => calls[c].at = "resave" /\ calls'[c].at = "idle"
         /\ Remove(c) => calls[c].at = "remove" /\ calls'[c].at = "idle"
<1> USE CallsTyped DEF CallStates, Idle
<1>1. Begin(c) => calls[c].at = "idle" /\ calls'[c].at = "send" /\ enabled
  BY DEF Begin
<1>2. Send(c) => /\ calls[c].at = "send"
                 /\ calls'[c].open = calls[c].open \/ calls'[c].at = "idle"
                 /\ calls'[c].at \in {"idle", "save", "remove"}
                 /\ calls'[c].at = "save" => calls'[c].cmd = calls[c].cmd /\ calls[c].cmd.enable
  BY DEF Send, Goes, Ends
<1>3. Save(c) => /\ calls[c].at = "save"
                 /\ calls'[c].open = calls[c].open \/ calls'[c].at = "idle"
                 /\ calls'[c].at \in {"idle", "confirm"}
                 /\ calls'[c].cmd = calls[c].cmd \/ calls'[c].at = "idle"
  BY DEF Save, Goes, Ends
<1>4. Confirm(c) => /\ calls[c].at = "confirm"
                    /\ calls'[c].open = calls[c].open \/ calls'[c].at = "idle"
                    /\ calls'[c].at \in {"idle", "resave"}
                    /\ calls'[c].cmd = calls[c].cmd \/ calls'[c].at = "idle"
  BY DEF Confirm, Ends
<1>5. /\ Resave(c) => calls[c].at = "resave" /\ calls'[c].at = "idle"
      /\ Remove(c) => calls[c].at = "remove" /\ calls'[c].at = "idle"
  BY DEF Resave, Remove, Ends
<1> QED
  BY <1>1, <1>2, <1>3, <1>4, <1>5

\* The other steps either leave the calls alone, close them or forget them.
LEMMA CallsOutside ==
  ASSUME TypeOK, \/ Poll \/ Works \/ AppSets \/ DayPasses \/ Reinstall \/ Reload \/ Restart
                 \/ UNCHANGED vars
  PROVE  \/ calls' = calls /\ enabled' = enabled
         \/ /\ \A c \in Calls : IF calls[c].at = "idle" THEN calls'[c].at = "idle"
                              ELSE /\ calls'[c].at = calls[c].at
                                   /\ calls'[c].cmd = calls[c].cmd
                                   /\ calls'[c].id = calls[c].id
                                   /\ ~ calls'[c].open
            /\ Reload
         \/ /\ \A c \in Calls : calls'[c].at = "idle"
            /\ Restart
<1>1. CASE Reload
  <2>1. \A c \in Calls : calls'[c] = IF calls[c].at = "idle" THEN Idle
                                     ELSE [ calls[c] EXCEPT !.open = FALSE ]
    BY <1>1 DEF Reload
  <2>2. \A c \in Calls : calls[c] \in CallStates
    BY CallsTyped
  <2>3. \A c \in Calls : IF calls[c].at = "idle" THEN calls'[c].at = "idle"
                         ELSE /\ calls'[c].at = calls[c].at
                              /\ calls'[c].cmd = calls[c].cmd
                              /\ calls'[c].id = calls[c].id
                              /\ ~ calls'[c].open
    <3> TAKE c \in Calls
    <3>1. CASE calls[c].at = "idle"
      <4>1. Idle.at = "idle"
        BY DEF Idle
      <4> QED
        BY <2>1, <3>1, <4>1
    <3>2. CASE calls[c].at # "idle"
      <4>1. calls'[c] = [ calls[c] EXCEPT !.open = FALSE ]
        BY <2>1, <3>2
      <4> QED
        BY <2>2, <3>2, <4>1 DEF CallStates
    <3> QED
      BY <3>1, <3>2
  <2> QED
    BY <1>1, <2>3
<1>2. CASE Restart
  BY <1>2 DEF Restart, Idle
<1> QED
  BY <1>1, <1>2 DEF Poll, Works, Look, Clear, Retire, AppSets, DayPasses, Reinstall, vars

\* What clean-up makes of what it reads.
LEMMA LookGoes ==
  ASSUME TypeOK, Look
  PROVE  \/ cleanup' = NoCleanup /\ cache' = cache /\ written' = written
         \/ /\ Remembered
            /\ cleanup'.record = cleanup.record
            /\ cleanup'.at = IF MustClear(Answer) THEN "clear" ELSE "remove"
<1>1. CASE cleanup' = NoCleanup /\ UNCHANGED << cache, written >>
  BY <1>1
<1>2. CASE /\ Remembered
           /\ cleanup' = [ cleanup EXCEPT !.at = IF MustClear(Answer) THEN "clear" ELSE "remove",
                                          !.raced = FALSE ]
  <2>1. cleanup \in CleanupStates
    BY DEF TypeOK, CleanupStates
  <2>2. \A place, b : LET r == [ cleanup EXCEPT !.at = place, !.raced = b ]
                     IN r.record = cleanup.record /\ r.at = place
    BY <2>1 DEF CleanupStates
  <2> QED
    BY <1>2, <2>2
<1> QED
  BY <1>1, <1>2 DEF Look

---------------------------------------------------------------------------
(* Every part of the invariant is kept.                                    *)

\* Only a plan that was set is recorded, after every step.
LEMMA SettingKept ==
  ASSUME TypeOK, Setting, [Next]_vars
  PROVE  Setting'
<1>1. ASSUME NEW c \in Calls, Begin(c) \/ CallStep(c)
      PROVE  Setting'
  <2>1. calls'[c].at \in {"save", "confirm", "resave"} => calls'[c].cmd.enable
    BY <1>1, CallGoes DEF Setting, CallStep
  <2> QED
    BY <1>1, <2>1, OthersStay DEF Setting
<1>2. CASE \/ Poll \/ Works \/ AppSets \/ DayPasses \/ Reinstall \/ Reload \/ Restart
           \/ UNCHANGED vars
  BY <1>2, CallsOutside DEF Setting
<1> QED
  BY <1>1, <1>2 DEF Next

\* Clean-up stays with the opt-out, and no call of before it can send.
LEMMA OptedOutKept ==
  ASSUME TypeOK, OptedOut, [Next]_vars
  PROVE  OptedOut'
<1>1. ASSUME NEW c \in Calls, Begin(c) \/ CallStep(c)
      PROVE  OptedOut'
  <2>1. enabled' = enabled /\ (cleanup'.at # "idle" => cleanup.at # "idle")
    BY <1>1 DEF Begin, CallStep, Send, Save, Confirm, Resave, Remove, Race, TypeOK
  <2>2. ~ enabled => calls'[c].at = "idle" \/ ~ calls'[c].open
    BY <1>1, CallGoes DEF OptedOut, CallStep
  <2> QED
    BY <1>1, <2>1, <2>2, OthersStay DEF OptedOut, Busy
<1>2. CASE \/ Poll \/ Works \/ AppSets \/ DayPasses \/ Reinstall \/ Reload \/ Restart
           \/ UNCHANGED vars
  <2>1. Busy' => ~ enabled'
    BY <1>2 DEF OptedOut, Busy, Poll, Works, Look, Clear, Retire, AppSets, DayPasses, Race,
                Reinstall, Reload, Restart, NoCleanup, vars, TypeOK
  <2> QED
    BY <1>2, <2>1, CallsOutside DEF OptedOut
<1> QED
  BY <1>1, <1>2 DEF Next

\* A call that moves while clean-up works, moves under an excuse.
LEMMA CallsWait ==
  ASSUME TypeOK, Undisturbed, NEW c \in Calls, CallStep(c), Busy, ~ history'.excused
  PROVE  FALSE
<1>1. calls[c].at # "idle"
  BY CallGoes DEF CallStep
<1>2. history.excused
  BY <1>1 DEF Undisturbed, Quiet
<1>3. Send(c) => history' = [ excused |-> ~ Alone(c) ] \/ history' = [ excused |-> TRUE ]
                 \/ history' = history
  BY DEF Send, Excuses
<1>4. history' = history \/ history' = [ excused |-> TRUE ] \/ history' = [ excused |-> ~ Alone(c) ]
  BY <1>3 DEF CallStep, Save, Confirm, Resave, Remove, Excuses
<1>5. ~ Alone(c)
  BY DEF Alone, Busy
<1>6. (~ Alone(c)) = TRUE
  BY <1>5 DEF Alone
<1>7. history' = history \/ history' = [ excused |-> TRUE ]
  BY <1>4, <1>6
<1> QED
  BY <1>2, <1>7

\* Nobody touches the record while clean-up works on it.
LEMMA UndisturbedKept ==
  ASSUME TypeOK, OptedOut, Undisturbed, [Next]_vars
  PROVE  Undisturbed'
<1>1. ASSUME NEW c \in Calls, Begin(c)
      PROVE  Undisturbed'
  BY <1>1 DEF Begin, OptedOut, Undisturbed, Busy
<1>3. ASSUME NEW c \in Calls, CallStep(c)
      PROVE  Undisturbed'
  <2>1. cleanup'.at = cleanup.at
    BY <1>3 DEF CallStep, Send, Save, Confirm, Resave, Remove, Race, TypeOK
  <2> QED
    BY <1>3, <2>1, CallsWait DEF Undisturbed, Busy
<1>4. CASE Poll
  BY <1>4 DEF Poll, Undisturbed, Busy, Quiet, NoCleanup
<1>5. CASE Look \/ Clear
  <2>1. cleanup'.at # "idle" => cleanup.at # "idle" /\ cleanup'.record = cleanup.record
    <3>1. CASE Look
      BY <3>1, LookGoes DEF Look, NoCleanup
    <3>2. CASE Clear
      BY <3>2 DEF Clear, NoCleanup, TypeOK
    <3> QED
      BY <1>5, <3>1, <3>2
  <2> QED
    BY <1>5, <2>1 DEF Look, Clear, Undisturbed, Busy, Quiet
<1>6. CASE Retire \/ Reload \/ Restart
  BY <1>6 DEF Retire, Reload, Restart, NoCleanup, Undisturbed, Busy
<1>7. CASE AppSets \/ DayPasses \/ Reinstall \/ UNCHANGED vars
  <2>1. cleanup'.at = cleanup.at /\ cleanup'.record = cleanup.record
    BY <1>7 DEF AppSets, DayPasses, Reinstall, Race, TypeOK, vars
  <2> QED
    BY <1>7, <2>1 DEF AppSets, DayPasses, Reinstall, Undisturbed, Busy, Quiet, vars
<1> QED
  BY <1>1, <1>3, <1>4, <1>5, <1>6, <1>7 DEF Next, Works

\* Overseas, what is read is the plan GWM holds.
LEMMA OverseasRead ==
  ASSUME Ours
  PROVE  Answer = { gwm.plan }
BY DEF Ours, Answer, Cached, Reads

\* A record is not the absence of one.
LEMMA RecordIsOne ==
  ASSUME NEW cmd, NEW id
  PROVE  /\ Record(cmd, id).id = id
         /\ Record(cmd, id).day = cmd.day
         /\ Record(cmd, id).hour = cmd.hour
         /\ Record(cmd, id).weeks = cmd.weeks
BY DEF Record

\* A plan of ours stays on its way into the record.
LEMMA OnItsWayKept ==
  ASSUME TypeOK, Setting, Undisturbed, OnItsWay, Gone, [Next]_vars
  PROVE  OnItsWay'
<1>0. NoRecord \notin Plans
  BY DEF NoRecord, Plans
<1>1. ASSUME NEW c \in Calls, Begin(c)
      PROVE  OnItsWay'
  <2>1. Ours' => Ours
    BY <1>1 DEF Begin, Ours
  <2>2. calls[c].at = "idle" /\ calls'[c].at = "send"
    BY <1>1, CallGoes
  <2>3. gwm' = gwm /\ owned' = owned
    BY <1>1 DEF Begin
  <2> QED
    BY <1>1, <2>1, <2>2, <2>3, OthersStay DEF OnItsWay, Matches, Record, AnyId
<1>2. ASSUME NEW c \in Calls, Send(c)
      PROVE  OnItsWay'
  <2> DEFINE cmd == calls[c].cmd
  <2>1. calls[c].at = "send" /\ platform' = platform /\ owned' = owned
    BY <1>2 DEF Send
  <2>2. CASE /\ Applies(cmd, "call")
             /\ Goes(c, IF cmd.enable THEN "save" ELSE "remove")
             /\ history' = [ excused |-> ~ Alone(c) ]
    <3> SUFFICES ASSUME Ours'
                 PROVE  OnItsWay'
      BY DEF OnItsWay
    <3>1. Alone(c)
      <4>1. ~ history'.excused
        BY DEF Ours
      <4>2. Alone(c) \in BOOLEAN
        BY DEF Alone
      <4> QED
        BY <2>2, <4>1, <4>2
    <3>2. cmd.enable /\ platform = "overseas"
      BY <2>1, <2>2 DEF Ours, Applies, NoPlan
    <3>3. gwm'.plan = [ id |-> issued + 1, day |-> cmd.day, hour |-> cmd.hour, weeks |-> cmd.weeks ]
      BY <2>2, <3>2 DEF Applies, Held
    <3>4. calls'[c].at = "save" /\ calls'[c].cmd = cmd
      BY <2>2, <3>2, CallsTyped DEF Goes, CallStates
    <3>5. \A d \in Calls : d # c => calls'[d].at = "idle"
      BY <1>2, <3>1, OthersStay DEF Alone, CallStep
    <3>6. Matches(gwm'.plan, Record(cmd, AnyId))
      BY <3>3, RecordIsOne DEF Matches
    <3>7. Matches(gwm.plan, Record(calls[c].cmd, AnyId))'
      BY <3>4, <3>6 DEF Matches, Record, AnyId
    <3> QED
      BY <3>4, <3>5, <3>7 DEF OnItsWay
  <2>3. CASE Excuses
    BY <2>3 DEF Excuses, OnItsWay, Ours
  <2>4. CASE Ends(c) /\ UNCHANGED << gwm, history >>
    <3>1. calls'[c].at = "idle"
      BY <2>4, CallsTyped DEF Ends, Idle
    <3>2. Ours' => Ours
      BY <2>1, <2>4 DEF Ours
    <3> QED
      BY <1>2, <2>1, <2>4, <3>1, <3>2, OthersStay DEF OnItsWay, CallStep, Matches, Record, AnyId
  <2> QED
    BY <1>2, <2>2, <2>3, <2>4 DEF Send
<1>3. ASSUME NEW c \in Calls, Save(c)
      PROVE  OnItsWay'
  <2> DEFINE cmd == calls[c].cmd
  <2>1. calls[c].at = "save" /\ platform' = platform /\ gwm' = gwm
    BY <1>3 DEF Save
  <2>2. CASE Excuses
    BY <2>2 DEF Excuses, OnItsWay, Ours
  <2>3. CASE owned' = Record(cmd, AnyId) /\ Goes(c, "confirm") /\ history' = history
    <3>1. Ours' => Ours
      BY <2>1, <2>3 DEF Ours
    <3>2. calls'[c].at = "confirm" /\ calls'[c].cmd = cmd
      BY <2>3, CallsTyped DEF Goes, CallStates
    <3>3. cmd \in Commands /\ cmd.enable
      BY <2>1, CallsTyped DEF CallStates, Setting
    <3>4. owned' \in Plans
      BY <2>3, <3>3, PlansOfCommands
    <3>5. Ours => Matches(gwm.plan, Record(cmd, AnyId))
      BY <2>1 DEF OnItsWay
    <3>6. Ours' => Matches(gwm.plan, owned)' /\ Matches(gwm.plan, Record(calls[c].cmd, AnyId))'
      BY <2>1, <2>3, <3>1, <3>2, <3>5 DEF Matches, Record, AnyId
    <3> QED
      BY <1>0, <1>3, <2>1, <3>1, <3>2, <3>4, <3>6, OthersStay
      DEF OnItsWay, CallStep, Matches, Record, AnyId
  <2> QED
    BY <1>3, <2>2, <2>3 DEF Save
<1>4. ASSUME NEW c \in Calls, Confirm(c)
      PROVE  OnItsWay'
  <2>1. /\ calls[c].at = "confirm" /\ platform' = platform /\ gwm' = gwm
        /\ owned' = owned /\ history' = history
    BY <1>4 DEF Confirm
  <2>2. Ours' => Ours
    BY <2>1 DEF Ours
  <2>3. calls'[c].at \in {"idle", "resave"} /\ (calls'[c].at # "idle" => calls'[c].cmd = calls[c].cmd)
    BY <1>4, CallGoes
  <2>4. (Ours /\ calls'[c].at = "resave") => calls'[c].id = gwm.plan.id
    <3> SUFFICES ASSUME Ours, calls'[c].at = "resave"
                 PROVE  calls'[c].id = gwm.plan.id
      OBVIOUS
    <3>1. ~ Ends(c)
      BY CallsTyped DEF Ends, Idle
    <3>2. PICK p \in Answer : calls' = [ calls EXCEPT ![c].at = "resave", ![c].id = p.id ]
      BY <1>4, <3>1 DEF Confirm
    <3>3. p = gwm.plan
      BY <3>2, OverseasRead
    <3> QED
      BY <3>2, <3>3, CallsTyped DEF CallStates
  <2> QED
    BY <1>4, <2>1, <2>2, <2>3, <2>4, OthersStay DEF OnItsWay, CallStep, Matches, Record, AnyId
<1>5. ASSUME NEW c \in Calls, Resave(c)
      PROVE  OnItsWay'
  <2> DEFINE cmd == calls[c].cmd
  <2>1. /\ calls[c].at = "resave" /\ platform' = platform /\ gwm' = gwm /\ history' = history
        /\ calls'[c].at = "idle"
    BY <1>5, CallGoes DEF Resave
  <2>2. Ours' => Ours
    BY <2>1 DEF Ours
  <2>3. cmd \in Commands /\ cmd.enable /\ calls[c].id \in Ids \cup {AnyId}
    BY <2>1, CallsTyped DEF CallStates, Setting
  <2>4. Record(cmd, calls[c].id) \in Plans
    BY <2>3, PlansOfCommands
  <2>5. Ours => Matches(gwm.plan, Record(cmd, calls[c].id))
    <3>1. Ours => Matches(gwm.plan, Record(cmd, AnyId)) /\ calls[c].id = gwm.plan.id
      BY <2>1 DEF OnItsWay
    <3> QED
      BY <3>1, RecordIsOne DEF Matches
  <2>6. owned' = Record(cmd, calls[c].id) \/ owned' = owned
    BY <1>5 DEF Resave
  <2>7. Ours' => \/ \E d \in Calls : calls'[d].at = "save"
                 \/ owned' # NoRecord /\ Matches(gwm.plan, owned)'
    <3>1. CASE owned' = Record(cmd, calls[c].id)
      BY <1>0, <2>1, <2>2, <2>4, <2>5, <3>1 DEF Matches, AnyId
    <3>2. CASE owned' = owned
      BY <1>5, <2>1, <2>2, <3>2, OthersStay DEF OnItsWay, CallStep, Matches, AnyId
    <3> QED
      BY <2>6, <3>1, <3>2
  <2> QED
    BY <1>5, <2>1, <2>2, <2>7, OthersStay DEF OnItsWay, CallStep, Matches, Record, AnyId
<1>6. ASSUME NEW c \in Calls, Remove(c)
      PROVE  OnItsWay'
  <2>1. calls[c].at = "remove" /\ (Ours' => Ours)
    BY <1>6 DEF Remove, Ours
  <2> QED
    BY <2>1 DEF OnItsWay
<1>7. CASE Poll
  <2>1. Ours' => Ours
    BY <1>7 DEF Poll, Ours
  <2> QED
    BY <1>7, <2>1 DEF Poll, OnItsWay, Matches, Record, AnyId
<1>8. CASE Look \/ DayPasses \/ Reinstall \/ UNCHANGED vars
  <2>1. Ours' => Ours
    BY <1>8 DEF Look, DayPasses, Reinstall, vars, Ours
  <2> QED
    BY <1>8, <2>1 DEF Look, DayPasses, Reinstall, vars, OnItsWay, Matches, Record, AnyId
<1>9. CASE Clear
  <2>1. gwm' = NoPlan \/ gwm' = gwm
    BY <1>9 DEF Clear
  <2>2. Ours' => Ours /\ gwm' = gwm
    BY <1>9, <2>1 DEF Clear, Ours, NoPlan
  <2> QED
    BY <1>9, <2>2 DEF Clear, OnItsWay, Matches, Record, AnyId
<1>10. CASE Retire
  <2>1. Ours' => Ours
    BY <1>10 DEF Retire, Ours
  <2> QED
    BY <1>10, <2>1 DEF Retire, Gone, Busy, OnItsWay
<1>11. CASE AppSets
  <2>1. gwm'.by # "call"
    BY <1>11 DEF AppSets, Applies, NoPlan
  <2> QED
    BY <2>1 DEF OnItsWay, Ours
<1>12. CASE Reload
  <2>1. Ours' => Ours
    BY <1>12 DEF Reload, Ours
  <2>2. \A c \in Calls : calls'[c] = IF calls[c].at = "idle" THEN Idle
                                     ELSE [ calls[c] EXCEPT !.open = FALSE ]
    BY <1>12 DEF Reload
  <2>3. \A c \in Calls : /\ calls'[c].at = calls[c].at
                         /\ calls[c].at # "idle" => /\ calls'[c].cmd = calls[c].cmd
                                                    /\ calls'[c].id = calls[c].id
    <3> TAKE c \in Calls
    <3>1. CASE calls[c].at = "idle"
      <4>1. Idle.at = "idle"
        BY DEF Idle
      <4> QED
        BY <2>2, <3>1, <4>1
    <3>2. CASE calls[c].at # "idle"
      BY <2>2, <3>2, CallsTyped DEF CallStates
    <3> QED
      BY <3>1, <3>2
  <2>4. gwm' = gwm /\ owned' = owned
    BY <1>12 DEF Reload
  <2> QED
    <3> SUFFICES ASSUME Ours'
                 PROVE  OnItsWay'
      BY DEF OnItsWay
    <3>1. Ours
      BY <2>1
    <3>2. ASSUME NEW c \in Calls, calls'[c].at \in {"save", "confirm", "resave"}
          PROVE  Matches(gwm.plan, Record(calls[c].cmd, AnyId))'
      <4>1. calls[c].at \in {"save", "confirm", "resave"} /\ calls'[c].cmd = calls[c].cmd
        BY <2>3, <3>2
      <4>2. Matches(gwm.plan, Record(calls[c].cmd, AnyId))
        BY <3>1, <4>1 DEF OnItsWay
      <4> QED
        BY <2>4, <4>1, <4>2 DEF Matches, Record, AnyId
    <3>3. ASSUME NEW c \in Calls
          PROVE  /\ calls'[c].at # "remove"
                 /\ calls'[c].at = "resave" => calls'[c].id = gwm.plan.id
      BY <2>3, <3>1 DEF OnItsWay
    <3>4. \/ \E c \in Calls : calls'[c].at = "save"
          \/ owned' # NoRecord /\ Matches(gwm.plan, owned)'
      BY <2>3, <2>4, <3>1 DEF OnItsWay, Matches, AnyId
    <3> QED
      BY <2>4, <3>2, <3>3, <3>4 DEF OnItsWay
<1>13. CASE Restart
  <2>1. \A c \in Calls : calls'[c].at = "idle"
    BY <1>13 DEF Restart, Idle
  <2>2. Ours' => Ours /\ \A c \in Calls : calls[c].at # "save"
    BY <1>13 DEF Restart, Ours
  <2>3. gwm' = gwm /\ owned' = owned
    BY <1>13 DEF Restart
  <2> QED
    BY <2>1, <2>2, <2>3 DEF OnItsWay, Matches, AnyId
<1> QED
  BY <1>1, <1>2, <1>3, <1>4, <1>5, <1>6, <1>7, <1>8, <1>9, <1>10, <1>11, <1>12, <1>13
  DEF Next, CallStep, Works

\* Clean-up goes to remove the record only after it saw the plan gone.
LEMMA GoneKept ==
  ASSUME TypeOK, OptedOut, Undisturbed, OnItsWay, Gone, [Next]_vars
  PROVE  Gone'
<1>1. ASSUME NEW c \in Calls, Begin(c)
      PROVE  Gone'
  BY <1>1 DEF Begin, Gone, Ours, Busy
<1>2. ASSUME NEW c \in Calls, CallStep(c)
      PROVE  Gone'
  <2>1. cleanup'.at = cleanup.at
    BY <1>2 DEF CallStep, Send, Save, Confirm, Resave, Remove, Race, TypeOK
  <2> QED
    BY <1>2, <2>1, CallsWait DEF Gone, Ours, Busy
<1>3. CASE Poll
  BY <1>3 DEF Poll, Gone, NoCleanup
<1>4. CASE Look
  <2> SUFFICES ASSUME Ours', cleanup'.at = "remove"
               PROVE  FALSE
    BY DEF Gone
  <2>1. Ours /\ Busy
    BY <1>4 DEF Look, Ours, Busy
  <2>2. Quiet /\ cleanup.record = owned
    BY <2>1 DEF Undisturbed, Ours
  <2>3. Matches(gwm.plan, cleanup.record)
    BY <2>1, <2>2 DEF OnItsWay, Quiet
  <2>4. MustClear(Answer)
    BY <2>1, <2>3, OverseasRead DEF MustClear
  <2>5. cleanup' # NoCleanup
    BY DEF NoCleanup
  <2> QED
    BY <1>4, <2>4, <2>5, LookGoes
<1>5. CASE Clear
  <2>1. gwm' = NoPlan \/ cleanup' = NoCleanup
    BY <1>5 DEF Clear
  <2> QED
    BY <2>1 DEF Gone, Ours, NoPlan, NoCleanup
<1>6. CASE Retire \/ Reload \/ Restart
  BY <1>6 DEF Retire, Reload, Restart, NoCleanup, Gone
<1>7. CASE AppSets
  <2>1. gwm'.by # "call"
    BY <1>7 DEF AppSets, Applies, NoPlan
  <2> QED
    BY <2>1 DEF Gone, Ours
<1>8. CASE DayPasses \/ Reinstall \/ UNCHANGED vars
  <2>1. cleanup'.at = cleanup.at
    BY <1>8 DEF DayPasses, Reinstall, Race, TypeOK, vars
  <2> QED
    BY <1>8, <2>1 DEF DayPasses, Reinstall, vars, Gone, Ours, Busy
<1> QED
  BY <1>1, <1>2, <1>3, <1>4, <1>5, <1>6, <1>7, <1>8 DEF Next, Works

\* While clean-up works a call changes nothing that clean-up reads.
LEMMA CallsLeave ==
  ASSUME TypeOK, OptedOut, NEW c \in Calls, Begin(c) \/ CallStep(c)
  PROVE  \/ cleanup'.at = "idle"
         \/ UNCHANGED << platform, today, gwm, cache, cleanup >>
<1>1. CASE Send(c) \/ Confirm(c)
  <2>1. CASE Busy
    <3>1. ~ calls[c].open
      BY <1>1, <2>1, CallGoes DEF OptedOut
    <3> QED
      BY <1>1, <3>1 DEF Send, Confirm
  <2>2. CASE ~ Busy
    BY <1>1, <2>2 DEF Send, Confirm, Race, Busy, TypeOK
  <2> QED
    BY <2>1, <2>2
<1>2. CASE Begin(c) \/ Save(c) \/ Resave(c) \/ Remove(c)
  BY <1>2 DEF Begin, Save, Resave, Remove
<1> QED
  BY <1>1, <1>2 DEF CallStep

\* A NavInfo client reads the week days GWM has or it sent, never none.
LEMMA AnswersUnlike ==
  ASSUME TypeOK, Unlike, platform = "navinfo"
  PROVE  \A p \in Answer : p.weeks # Blank
<1>1. \A p \in Reads : p.weeks # Blank
  BY DEF Reads, Unlike, TypeOK, NoPlan, Plans
<1> QED
  BY <1>1 DEF Answer, Cached, Unlike

\* A plan NavInfo holds names a week day.
LEMMA HeldUnlike ==
  ASSUME NEW cmd \in Commands, cmd.enable, NEW id, platform = "navinfo"
  PROVE  Held(cmd, id).weeks # Blank
<1>1. cmd \in [ enable : {TRUE}, day : Days, hour : Hours, weeks : {Given, Blank} ]
  <2>1. cmd # [ enable |-> FALSE ]
    OBVIOUS
  <2> QED
    BY <2>1 DEF Commands
<1>2. Given # Blank /\ Blank \notin Days
  BY PlanBounds DEF Given, Blank, Days
<1>3. RepeatTimes(cmd) # Blank
  BY <1>1, <1>2 DEF RepeatTimes
<1> QED
  BY <1>3 DEF Held

\* On NavInfo clean-up never finds its record in what it reads.
LEMMA UnlikeKept ==
  ASSUME TypeOK, Setting, Unlike, [Next]_vars
  PROVE  Unlike'
<1> SUFFICES ASSUME platform = "navinfo"
             PROVE  /\ \A c \in Calls : calls'[c].cmd.enable => calls'[c].cmd.weeks = Blank
                    /\ owned' # NoRecord => owned'.weeks = Blank
                    /\ cleanup'.at # "idle" => cleanup'.record.weeks = Blank
                    /\ gwm'.by # "nobody" => gwm'.plan.weeks # Blank
                    /\ cache' # Unread => \A p \in cache' : p.weeks # Blank
                    /\ cleanup'.at # "clear"
  <2>1. platform' = platform
    BY DEF Next, CallStep, Works, Begin, Send, Save, Confirm, Resave, Remove, Poll, Look,
           Clear, Retire, AppSets, DayPasses, Reinstall, Reload, Restart, vars
  <2> QED
    BY <2>1 DEF Unlike, Busy
<1>1. \A c \in Calls : calls'[c].cmd.enable => calls'[c].cmd.weeks = Blank
  <2>1. ASSUME NEW c \in Calls, Begin(c) \/ CallStep(c)
        PROVE  calls'[c].cmd.enable => calls'[c].cmd.weeks = Blank
    <3>1. CASE Begin(c)
      <4>1. PICK cmd \in ServiceCommands :
              calls' = [ calls EXCEPT ![c] = [ Idle EXCEPT !.at = "send", !.cmd = cmd ] ]
        BY <3>1 DEF Begin
      <4>2. calls'[c].cmd = cmd
        BY <4>1, CallsTyped DEF Idle
      <4> QED
        BY <4>1, <4>2 DEF ServiceCommands
    <3>2. CASE CallStep(c)
      <4>1. calls'[c].cmd = calls[c].cmd \/ ~ calls'[c].cmd.enable
        BY <3>2, CallsTyped DEF CallStep, Send, Save, Confirm, Resave, Remove, Goes, Ends, Idle,
                                NoCommand, CallStates
      <4> QED
        BY <4>1 DEF Unlike
    <3> QED
      BY <2>1, <3>1, <3>2
  <2>2. ASSUME NEW c \in Calls, Begin(c) \/ CallStep(c), NEW d \in Calls
        PROVE  calls'[d].cmd.enable => calls'[d].cmd.weeks = Blank
    BY <2>1, <2>2, OthersStay DEF Unlike
  <2>3. CASE Reload \/ Restart
    <3>1. \A c \in Calls : calls'[c].cmd = calls[c].cmd \/ ~ calls'[c].cmd.enable
      BY <2>3, CallsTyped DEF Reload, Restart, Idle, NoCommand, CallStates
    <3> QED
      BY <3>1 DEF Unlike
  <2>4. CASE Poll \/ Works \/ AppSets \/ DayPasses \/ Reinstall \/ UNCHANGED vars
    <3>1. calls' = calls
      BY <2>4 DEF Poll, Works, Look, Clear, Retire, AppSets, DayPasses, Reinstall, vars
    <3> QED
      BY <3>1 DEF Unlike
  <2> QED
    BY <2>2, <2>3, <2>4 DEF Next
<1>2. owned' # NoRecord => owned'.weeks = Blank
  <2>1. ASSUME NEW c \in Calls, Save(c) \/ Resave(c)
        PROVE  owned' # NoRecord => owned'.weeks = Blank
    <3>1. calls[c].cmd.weeks = Blank
      BY <2>1 DEF Save, Resave, Setting, Unlike
    <3>2. \A id : Record(calls[c].cmd, id).weeks = Blank
      BY <3>1 DEF Record
    <3> QED
      BY <2>1, <3>2 DEF Save, Resave, Unlike
  <2>2. CASE \/ \E c \in Calls : Begin(c) \/ Send(c) \/ Confirm(c) \/ Remove(c)
             \/ Poll \/ Works \/ AppSets \/ DayPasses \/ Reinstall \/ Reload \/ Restart
             \/ UNCHANGED vars
    <3>1. owned' = owned \/ owned' = NoRecord
      BY <2>2 DEF Begin, Send, Confirm, Remove, Poll, Works, Look, Clear, Retire, AppSets,
                  DayPasses, Reinstall, Reload, Restart, vars
    <3> QED
      BY <3>1 DEF Unlike
  <2> QED
    BY <2>1, <2>2 DEF Next, CallStep
<1>3. (cleanup'.at # "idle" => cleanup'.record.weeks = Blank) /\ cleanup'.at # "clear"
  <2>1. CASE Poll
    BY <2>1 DEF Poll, NoCleanup, Unlike
  <2>2. CASE Look
    <3>1. ~ MustClear(Answer)
      BY <2>2, AnswersUnlike DEF MustClear, Matches, Unlike, Busy, Look
    <3> QED
      BY <2>2, <3>1, LookGoes DEF Look, NoCleanup, Unlike, Busy
  <2>3. CASE Clear
    BY <2>3 DEF Clear, Unlike
  <2>4. CASE Retire \/ Reload \/ Restart
    BY <2>4 DEF Retire, Reload, Restart, NoCleanup
  <2>5. CASE \/ \E c \in Calls : Begin(c) \/ CallStep(c)
             \/ AppSets \/ DayPasses \/ Reinstall \/ UNCHANGED vars
    <3>1. cleanup'.at = cleanup.at /\ cleanup'.record = cleanup.record
      BY <2>5 DEF Begin, CallStep, Send, Save, Confirm, Resave, Remove, AppSets, DayPasses,
                  Reinstall, Race, vars, TypeOK
    <3> QED
      BY <3>1 DEF Unlike, Busy
  <2> QED
    BY <2>1, <2>2, <2>3, <2>4, <2>5 DEF Next, Works
<1>4. gwm'.by # "nobody" => gwm'.plan.weeks # Blank
  <2>1. ASSUME NEW cmd \in Commands, NEW by, Applies(cmd, by)
        PROVE  gwm'.by # "nobody" => gwm'.plan.weeks # Blank
    BY <2>1, HeldUnlike DEF Applies, NoPlan
  <2>2. ASSUME NEW c \in Calls, Send(c)
        PROVE  gwm'.by # "nobody" => gwm'.plan.weeks # Blank
    <3>1. calls[c].cmd \in Commands
      BY CallsTyped DEF CallStates
    <3> QED
      BY <2>1, <2>2, <3>1 DEF Send, Unlike
  <2>3. CASE AppSets
    BY <2>1, <2>3 DEF AppSets
  <2>4. CASE Clear
    BY <2>4 DEF Clear, NoPlan, Unlike
  <2>5. CASE \/ \E c \in Calls : Begin(c) \/ Save(c) \/ Confirm(c) \/ Resave(c) \/ Remove(c)
             \/ Poll \/ Look \/ Retire \/ DayPasses \/ Reinstall \/ Reload \/ Restart
             \/ UNCHANGED vars
    <3>1. gwm' = gwm
      BY <2>5 DEF Begin, Save, Confirm, Resave, Remove, Poll, Look, Retire, DayPasses,
                  Reinstall, Reload, Restart, vars
    <3> QED
      BY <3>1 DEF Unlike
  <2> QED
    BY <2>2, <2>3, <2>4, <2>5 DEF Next, CallStep, Works
<1>5. cache' # Unread => \A p \in cache' : p.weeks # Blank
  <2>1. \A p \in Answer : p.weeks # Blank
    BY AnswersUnlike
  <2>2. ASSUME NEW c \in Calls, Send(c)
        PROVE  cache' # Unread => \A p \in cache' : p.weeks # Blank
    <3>1. calls[c].cmd \in Commands
      BY CallsTyped DEF CallStates
    <3>2. calls[c].cmd.enable => Held(calls[c].cmd, 0).weeks # Blank
      BY <3>1, HeldUnlike
    <3> QED
      BY <2>2, <3>2 DEF Send, Accepted, Unlike
  <2>3. ASSUME NEW c \in Calls, Confirm(c)
        PROVE  cache' # Unread => \A p \in cache' : p.weeks # Blank
    BY <2>1, <2>3 DEF Confirm, Remembered, Unlike
  <2>4. CASE Poll
    BY <2>4 DEF Poll, Reads, Unlike, TypeOK, NoPlan, Plans
  <2>5. CASE Look
    BY <2>1, <2>5 DEF Look, Remembered, Unlike
  <2>6. CASE Clear
    BY <2>6 DEF Clear, Accepted, NoCommand, Unlike
  <2>7. CASE Reinstall \/ Reload \/ Restart
    BY <2>7 DEF Reinstall, Reload, Restart
  <2>8. CASE \/ \E c \in Calls : Begin(c) \/ Save(c) \/ Resave(c) \/ Remove(c)
             \/ Retire \/ AppSets \/ DayPasses \/ UNCHANGED vars
    <3>1. cache' = cache
      BY <2>8 DEF Begin, Save, Resave, Remove, Retire, AppSets, DayPasses, vars
    <3> QED
      BY <3>1 DEF Unlike
  <2> QED
    BY <2>2, <2>3, <2>4, <2>5, <2>6, <2>7, <2>8 DEF Next, CallStep, Works
<1> QED
  BY <1>1, <1>2, <1>3, <1>4, <1>5

\* What clean-up goes to clear overseas is what it saw at GWM, until the app sets a plan.
LEMMA SureKept ==
  ASSUME TypeOK, OptedOut, Sure, [Next]_vars
  PROVE  Sure'
<1>1. ASSUME NEW c \in Calls, Begin(c) \/ CallStep(c)
      PROVE  Sure'
  BY <1>1, CallsLeave DEF Sure, Alike
<1>2. CASE Poll
  BY <1>2 DEF Poll, Sure, NoCleanup
<1>3. CASE Look
  <2> SUFFICES ASSUME platform' = "overseas", cleanup'.at = "clear", gwm'.by = "app"
               PROVE  Alike'
    BY DEF Sure
  <2>1. gwm' = gwm /\ platform = "overseas"
    BY <1>3 DEF Look
  <2>2. cleanup'.record = cleanup.record /\ MustClear(Answer)
    <3>1. cleanup' # NoCleanup
      BY DEF NoCleanup
    <3> QED
      BY <1>3, <3>1, LookGoes
  <2>3. PICK p \in Answer : Matches(p, cleanup.record)
    BY <2>2 DEF MustClear
  <2>4. p = gwm.plan
    BY <2>1, <2>3 DEF Answer, Cached, Reads
  <2> QED
    BY <2>1, <2>2, <2>3, <2>4 DEF Matches, Alike
<1>4. CASE Clear \/ Retire \/ Reload \/ Restart
  BY <1>4 DEF Clear, Retire, Reload, Restart, NoCleanup, Sure, TypeOK
<1>5. CASE AppSets
  <2>1. cleanup'.at = cleanup.at /\ (cleanup.at # "idle" => cleanup'.raced)
    <3> DEFINE late == cleanup.raced \/ cleanup.at # "idle"
    <3>1. cleanup' = [ cleanup EXCEPT !.raced = late ]
      BY <1>5 DEF AppSets, Race
    <3> HIDE DEF late
    <3>2. cleanup'.at = cleanup.at /\ cleanup'.raced = late
      BY <3>1 DEF TypeOK
    <3> QED
      BY <3>2 DEF late
  <2> QED
    BY <2>1 DEF Sure
<1>6. CASE DayPasses \/ Reinstall \/ UNCHANGED vars
  BY <1>6 DEF DayPasses, Reinstall, vars, Sure, Alike
<1> QED
  BY <1>1, <1>2, <1>3, <1>4, <1>5, <1>6 DEF Next, Works

---------------------------------------------------------------------------
(* The theorems.                                                           *)

\* The invariant holds at first.
LEMMA InvariantAtFirst ==
  Init => IInv
<1> SUFFICES ASSUME Init
             PROVE  IInv
  OBVIOUS
<1>1. TypeOK
  <2>1. 0 \in Days /\ 0 \in Ids
    BY PlanBounds DEF Days, Ids
  <2>2. Idle \in CallStates /\ NoCleanup \in CleanupStates
    BY DEF Idle, NoCleanup, NoCommand, Commands, CallStates, CleanupStates
  <2> QED
    BY <2>1, <2>2 DEF Init, TypeOK, Histories, CallStates, CleanupStates
<1>2. (\A c \in Calls : calls[c].at = "idle") /\ cleanup.at = "idle" /\ gwm.by = "nobody"
  BY DEF Init, Idle, NoCleanup, NoPlan
<1>3. Setting /\ OptedOut /\ Undisturbed /\ OnItsWay /\ Gone /\ Sure
  BY <1>2 DEF Setting, OptedOut, Undisturbed, OnItsWay, Gone, Sure, Ours, Busy
<1>4. Unlike
  BY <1>2 DEF Init, Idle, NoCommand, Unlike, Busy
<1> QED
  BY <1>1, <1>3, <1>4 DEF IInv

\* The invariant holds throughout.
LEMMA InvariantHolds ==
  Spec => []IInv
<1>1. IInv /\ [Next]_vars => IInv'
  BY TypesKept, SettingKept, OptedOutKept, UndisturbedKept, OnItsWayKept, GoneKept,
     UnlikeKept, SureKept DEF IInv
<1> QED
  BY InvariantAtFirst, <1>1, PTL DEF Spec

\* Every state of ChargingPlan is of its types.
THEOREM TypeCorrect ==
  Spec => []TypeOK
<1>1. IInv => TypeOK
  BY DEF IInv
<1> QED
  BY <1>1, InvariantHolds, PTL

\* However calls, app, clean-up, reloads and restarts interleave: an overseas plan
\* of ours that nobody replaced is recorded, once no call is in progress, so that
\* _charging_plan_matches recognises it.
THEOREM OwnPlanIsRecorded ==
  Spec => []OwnPlanRecorded
<1>1. IInv => OwnPlanRecorded
  BY DEF IInv, OnItsWay, OwnPlanRecorded, Ours, Quiet
<1> QED
  BY <1>1, InvariantHolds, PTL

\* async_cleanup_owned_charging_plans forgets an overseas record only when its plan
\* is gone from GWM.
THEOREM RecordsOutlivePlans ==
  Spec => RecordOutlivesPlan
<1>1. IInv /\ [Next]_vars
        => [ (Retire /\ owned' = NoRecord /\ owned # NoRecord /\ platform = "overseas")
               => \/ gwm.by # "call"
                  \/ ~ Matches(gwm.plan, owned)
                  \/ history.excused ]_vars
  BY DEF IInv, Gone, Ours, Busy, Retire
<1> QED
  BY <1>1, InvariantHolds, PTL DEF Spec, RecordOutlivesPlan

\* async_cleanup_owned_charging_plans clears a plan of the official app only overseas,
\* and only if it equals the record in all that is compared, or came after the look.
THEOREM ForeignPlansAreKept ==
  Spec => ForeignPlanKept
<1>1. IInv /\ [Next]_vars
        => [ (Clear /\ gwm.by = "app" /\ gwm'.by = "nobody")
               => /\ platform = "overseas"
                  /\ \/ cleanup.raced
                     \/ /\ gwm.plan.hour = cleanup.record.hour
                        /\ gwm.plan.day = cleanup.record.day
                        /\ gwm.plan.weeks = cleanup.record.weeks
                        /\ cleanup.record.id \in { AnyId, gwm.plan.id } ]_vars
  <2> SUFFICES ASSUME IInv, Clear, gwm.by = "app"
               PROVE  platform = "overseas" /\ (cleanup.raced \/ Alike)
    BY DEF Alike
  <2>1. platform \in {"overseas", "navinfo"} /\ cleanup.at = "clear"
    BY PlanBounds DEF IInv, TypeOK, Clear
  <2> QED
    BY <2>1 DEF IInv, Unlike, Sure
<1> QED
  BY <1>1, InvariantHolds, PTL DEF Spec, ForeignPlanKept
=============================================================================
