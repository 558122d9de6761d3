--------------------------- MODULE ClimateControl ---------------------------
(***************************************************************************)
(* The A/C settings of one vehicle and the commands that use them:         *)
(* GwmCommandApi.async_set_climate as the climate entity, the run-time     *)
(* number and the BeanTech preset buttons call it, side by side.           *)
(*                                                                         *)
(* A setting is a temperature and a run time.  Overseas it is stored at    *)
(* GWM, whose read model lags and which the official app writes too; in    *)
(* mainland China the runtime remembers it.  A setting this process saved  *)
(* is overlaid on both, for reads and for the next command.                *)
(***************************************************************************)
EXTENDS Integers

CONSTANTS
  Platforms,    \* which of "eu", "anz", "navinfo" and "beantech" to look at
  Calls,        \* calls of async_set_climate that may be in progress
  UserTemps,    \* temperatures the user may choose, among 16 .. 32
  UserTimes,    \* run times the user may choose, among 5 .. 30
  AppSettings,  \* settings GWM may hold that the integration did not write
  MaxCalls      \* bound: calls begun

\* What the entities let the user choose; GWM may hold any integers.
Bounds ==
  /\ Platforms \subseteq {"eu", "anz", "navinfo", "beantech"}
  /\ UserTemps \subseteq 16 .. 32 /\ UserTimes \subseteq 5 .. 30
  /\ AppSettings \subseteq [ temp : Int, time : Int ]

VARIABLES
  platform,    \* never changes
  gwm,         \* the stored setting (China: the runtime's _china_climate_defaults)
  answer,      \* what reading it answers
  saved,       \* GwmCommandApi._climate_defaults of the vehicle
  requested,   \* GwmClimateEntity._requested_target_temperature
  calls,       \* the calls in progress
  begun,       \* calls begun so far
  told         \* what the user was told is saved, field by field; no code reads it

vars == << platform, gwm, answer, saved, requested, calls, begun, told >>

Overseas == platform \in {"eu", "anz"}

\* No text, or one that is no integer.
NoValue == -1
NoSetting == [ temp |-> NoValue, time |-> NoValue ]

\* Stored run times are seconds, or minutes that old versions wrote.
IsMinutes(t) == t \in 5 .. 30

\* Mutant of NormalTemp: without the clamp.
NormalTempAsIs(t) == IF t = NoValue THEN 22 ELSE t

\* normalize_temperature.
NormalTemp(t) == IF t = NoValue THEN 22 ELSE IF t < 16 THEN 16 ELSE IF t > 32 THEN 32 ELSE t

\* normalize_operation_time.
NormalTime(t) ==
  IF IsMinutes(t) THEN t
  ELSE IF t % 60 = 0 /\ IsMinutes(t \div 60) THEN t \div 60
  ELSE 15

\* What the entities ask for: a start, a start at a preset temperature, a stop, a
\* target temperature or a run time.
Kinds == {"start", "preset", "stop", "temp", "time"}
Presets == {17, 31}
Choosable == IF Overseas THEN UserTemps ELSE UserTemps \cap 17 .. 31
Asks ==
  { [ kind |-> k, temp |-> NoValue, time |-> NoValue ] : k \in {"start", "stop"} }
    \cup { [ kind |-> "temp", temp |-> t, time |-> NoValue ] : t \in Choosable }
    \cup { [ kind |-> "time", temp |-> NoValue, time |-> t ] : t \in UserTimes }
    \cup { [ kind |-> "preset", temp |-> t, time |-> NoValue ] :
             t \in IF platform = "beantech" THEN Presets ELSE {} }

\* clean: no two calls overlapped since nothing was known.
Untold == [ temp |-> NoValue, time |-> NoValue, clean |-> TRUE ]

NoAsk == [ kind |-> "stop", temp |-> NoValue, time |-> NoValue ]

\* alone: no other call was in progress since this one began.
Idle == [ at |-> "idle", ask |-> NoAsk, basics |-> NoSetting, setting |-> NoSetting,
          sends |-> FALSE, alone |-> FALSE ]

Temps == UserTemps \cup Presets \cup {16, 22, 32} \cup { NormalTemp(s.temp) : s \in AppSettings }
Times == UserTimes \cup {15} \cup { NormalTime(s.time) : s \in AppSettings }

\* A setting the integration resolved, and the text GWM keeps of it.
Settings == [ temp : Temps, time : Times ]
Stored(s) == [ temp |-> s.temp, time |-> s.time * 60 ]
Default == [ temp |-> 22, time |-> 900 ]

StoredSettings == AppSettings \cup { Stored(s) : s \in Settings } \cup { Default }

TypeOK ==
  /\ platform \in Platforms
  /\ gwm \in StoredSettings /\ answer \in StoredSettings
  /\ saved \in Settings \cup { NoSetting }
  /\ requested \in UserTemps \cup { NoValue }
  /\ \A c \in Calls :
       /\ calls[c].at \in {"idle", "basics", "status", "update", "send", "companion"}
       /\ calls[c].setting \in Settings \cup { NoSetting }
  /\ told \in [ temp : UserTemps \cup Presets \cup {NoValue}, time : UserTimes \cup {NoValue},
                clean : BOOLEAN ]

Init ==
  /\ platform \in Platforms
  /\ gwm \in IF Overseas THEN AppSettings ELSE { Default }
  /\ answer = gwm
  /\ saved = NoSetting
  /\ requested = NoValue
  /\ calls = [ c \in Calls |-> Idle ]
  /\ begun = 0
  /\ told = Untold

---------------------------------------------------------------------------
(* A call: read, resolve, save, send.                                      *)

Goes(c, place) == calls' = [ calls EXCEPT ![c].at = place ] /\ UNCHANGED << requested, told >>

\* A call returns: the climate entity shows the target it asked for from now on, and
\* the user knows what is saved.
Returns(c) ==
  LET ask == calls[c].ask IN
  /\ calls' = [ calls EXCEPT ![c] = Idle ]
  /\ requested' = IF ask.kind = "temp" THEN ask.temp ELSE requested
  /\ told' = IF ask.kind = "stop" THEN told
             ELSE [ temp  |-> IF ask.temp = NoValue THEN told.temp ELSE ask.temp,
                    time  |-> IF ask.time = NoValue THEN told.time ELSE ask.time,
                    clean |-> told.clean /\ calls[c].alone ]

\* A call raises: the user no longer knows.
Raises(c) ==
  /\ calls' = [ calls EXCEPT ![c] = Idle ]
  /\ told' = IF calls[c].ask.kind = "stop" THEN told ELSE Untold
  /\ UNCHANGED requested

Begin(c) ==
  /\ calls[c].at = "idle"
  /\ begun < MaxCalls
  /\ begun' = begun + 1
  /\ \E ask \in Asks :
       calls' = [ d \in Calls |->
                    IF d = c
                    THEN [ Idle EXCEPT !.at = "basics", !.ask = ask,
                                       !.alone = \A e \in Calls : calls[e].at = "idle" ]
                    ELSE [ calls[d] EXCEPT !.alone = FALSE ] ]
  /\ UNCHANGED << platform, gwm, answer, saved, requested, told >>

\* Mutant of Known: the read model alone.
KnownToGwm(basics) == basics

\* What is already known of the setting: the saved one if there is one.
Known(basics) == IF saved # NoSetting THEN saved ELSE basics

\* The setting a call ends up with, NoSetting if its temperature is unknown.
Resolved(ask, basics) ==
  LET known == Known(basics)
      temp  == IF ask.temp # NoValue THEN NormalTemp(ask.temp) ELSE NormalTemp(known.temp)
      kept  == IF ~ Overseas /\ temp \notin 17 .. 31 THEN 22 ELSE temp
      time  == IF ask.time # NoValue THEN ask.time ELSE NormalTime(known.time)
  IN IF ask.kind = "time" /\ known.temp \notin 16 .. 32 THEN NoSetting
     ELSE [ temp |-> kept, time |-> time ]

Saves(ask) == ask.kind # "stop"
Sends(ask, on) == ask.kind \in {"start", "preset", "stop"} \/ (ask.kind = "temp" /\ on)

\* Everything between the last read and the next request happens at once; in China
\* the runtime saves without a request.
Resolve(c, basics, on) ==
  LET ask == calls[c].ask
      setting == Resolved(ask, basics)
      next == IF Saves(ask) /\ Overseas THEN "update" ELSE "send"
      local == Saves(ask) /\ ~ Overseas
  IN IF setting = NoSetting
     THEN Raises(c) /\ UNCHANGED << gwm, answer, saved >>
     ELSE /\ IF next = "send" /\ ~ Sends(ask, on) THEN Returns(c)
             ELSE /\ calls' = [ calls EXCEPT ![c] = [ @ EXCEPT !.at = next, !.setting = setting,
                                                     !.basics = NoSetting,
                                                     !.sends = Sends(ask, on) ] ]
                  /\ UNCHANGED << requested, told >>
          /\ gwm' = IF local THEN Stored(setting) ELSE gwm
          /\ answer' = IF local THEN Stored(setting) ELSE answer
          /\ saved' = IF local THEN setting ELSE saved

\* vehicle/getVehicleBasicsInfo, which an ANZ vehicle may not have; China reads its
\* memory.  Only a target temperature needs the status, which may be stale.
Basics(c) ==
  /\ calls[c].at = "basics"
  /\ \/ \E basics \in { answer } \cup IF platform = "anz" THEN { NoSetting } ELSE {} :
          IF calls[c].ask.kind = "temp"
          THEN /\ calls' = [ calls EXCEPT ![c].at = "status", ![c].basics = basics ]
               /\ UNCHANGED << gwm, answer, saved, requested, told >>
          ELSE Resolve(c, basics, FALSE)
     \/ Raises(c) /\ UNCHANGED << gwm, answer, saved >>
  /\ UNCHANGED << platform, begun >>

Status(c) ==
  /\ calls[c].at = "status"
  /\ \/ \E on \in BOOLEAN : Resolve(c, calls[c].basics, on)
     \/ Raises(c) /\ UNCHANGED << gwm, answer, saved >>
  /\ UNCHANGED << platform, begun >>

\* vehicle/modifyVehicleRemoteCtlInfo: refused, done, or done with the answer lost.
Update(c) ==
  /\ calls[c].at = "update"
  /\ \/ /\ gwm' = Stored(calls[c].setting)
        /\ \/ /\ saved' = calls[c].setting
              /\ IF calls[c].sends THEN Goes(c, "send") ELSE Returns(c)
           \/ Raises(c) /\ UNCHANGED saved
     \/ Raises(c) /\ UNCHANGED << gwm, saved >>
  /\ UNCHANGED << platform, answer, begun >>

\* The command itself; in China a start is followed by a companion request that
\* stores the setting in the car.
Send(c) ==
  /\ calls[c].at = "send"
  /\ \/ IF ~ Overseas /\ calls[c].ask.kind # "stop" THEN Goes(c, "companion") ELSE Returns(c)
     \/ Raises(c)
  /\ UNCHANGED << platform, gwm, answer, saved, begun >>

\* Does an accepted command survive its companion?  A refusal is logged.  A BeanTech
\* request that stalls is cut off while time is left; a NavInfo one takes the
\* operation with it.
Outlives(stalls) == stalls => platform = "beantech"

Companion(c) ==
  /\ calls[c].at = "companion"
  /\ \E stalls \in BOOLEAN : IF Outlives(stalls) THEN Returns(c) ELSE Raises(c)
  /\ UNCHANGED << platform, gwm, answer, saved, begun >>

---------------------------------------------------------------------------
(* The checks a setting passes on its way out; they decide nothing.        *)

\* ClimateCommand, whatever the region.
CommandValid(s) == s.temp \in 16 .. 32 /\ IsMinutes(s.time)

\* The requests of NavInfo and BeanTech that start A/C; a stop carries no setting.
NavInfoLetsOut(s) == s.temp \in 17 .. 31 /\ IsMinutes(s.time)
BeanTechLetsOut(s) == s.temp \in 17 .. 31 /\ s.time * 60 \in 300 .. 1800

LetsOut(kind, s) ==
  kind # "stop" =>
    /\ platform = "navinfo" => NavInfoLetsOut(s)
    /\ platform = "beantech" => BeanTechLetsOut(s)

\* The companion request.
ConfigLetsOut(s) == s.temp \in 17 .. 31 /\ s.time * 60 \in 300 .. 1800

---------------------------------------------------------------------------
(* The rest of the world.                                                  *)

\* The official app stores another setting; reads lag behind either writer.
AppSets ==
  /\ Overseas
  /\ gwm' \in AppSettings
  /\ UNCHANGED << platform, answer, saved, requested, calls, begun, told >>

CatchUp ==
  /\ answer' = gwm
  /\ UNCHANGED << platform, gwm, saved, requested, calls, begun, told >>

\* A reload or a restart makes new objects; calls in progress find theirs closed.
Restart ==
  /\ gwm' = IF Overseas THEN gwm ELSE Default
  /\ answer' = IF Overseas THEN answer ELSE Default
  /\ saved' = NoSetting
  /\ requested' = NoValue
  /\ calls' = [ c \in Calls |-> Idle ]
  /\ told' = Untold
  /\ UNCHANGED << platform, begun >>

Next ==
  \/ \E c \in Calls : \/ Begin(c) \/ Basics(c) \/ Status(c) \/ Update(c)
                      \/ Send(c) \/ Companion(c)
  \/ AppSets \/ CatchUp \/ Restart

Spec == Init /\ [][Next]_vars

---------------------------------------------------------------------------
(* Properties.                                                             *)

Starts(c) == Send(c) /\ calls[c].ask.kind = "start"

\* Every setting stored or sent is one that the checks on its way let through: none
\* of them may turn a saved setting into a command that cannot be sent.
WireRange ==
  \A c \in Calls :
    LET call == calls[c] IN
    /\ call.at \in {"update", "send", "companion"} => CommandValid(call.setting)
    /\ call.at = "send" => LetsOut(call.ask.kind, call.setting)
    /\ call.at = "companion" => ConfigLetsOut(call.setting)

\* A/C that is started uses what the user was last told is saved, though GWM's read
\* model lags and the app changed it, if no two calls overlapped since.
Carries(c) ==
  /\ told.temp \in { NoValue, calls[c].setting.temp }
  /\ told.time \in { NoValue, calls[c].setting.time }

SavedSettingsUsed ==
  [][ \A c \in Calls : (Starts(c) /\ calls[c].alone /\ told.clean) => Carries(c) ]_vars

\* The README's word for it: what is saved before the start applies to it.  Two saves
\* that overlapped, one of the temperature and one of the run time, count too.
NoSettingLost ==
  [][ \A c \in Calls : (Starts(c) /\ calls[c].alone) => Carries(c) ]_vars

\* The target the climate entity shows is the one that a start would use.
TargetShown ==
  (\A c \in Calls : calls[c].at = "idle") => requested \in { NoValue, Known(answer).temp }
=============================================================================
