---------------------------- MODULE ChinaCommands ----------------------------
(***************************************************************************)
(* The remote controls of a China vehicle, from the entity to the result:  *)
(* which request the client builds on the vehicle's platform, whether the  *)
(* transport lets it out, the name the journal keeps, where the result is  *)
(* asked for - the name is all that is left after a restart - and which of *)
(* the answers is taken for it.                                            *)
(*                                                                         *)
(* A body is a set of fields and values.  Signatures, headers and the      *)
(* order of fields are left out; the climate values are ClimateControl's,  *)
(* the charging values BeanTechCharging's, the polling CommandJournal's.   *)
(***************************************************************************)
EXTENDS Integers, Sequences

CONSTANT MaxMessages   \* bound: messages in one answer

VARIABLES
  platform,   \* ChinaVehicle.platform
  request,    \* the request built last, for a call or a read of an entity
  entry,      \* the journalled command
  asked,      \* the request its result was asked for by last
  answer      \* what GWM answered there, if that ended the command

vars == << platform, request, entry, asked, answer >>

---------------------------------------------------------------------------
(* What the entities of a platform offer.                                  *)

HornLight == {"horn", "flash_lights", "horn_and_lights"}
Comfort == {"seat_heating_start", "seat_heating_stop", "seat_heating_start_passenger",
  "seat_heating_stop_passenger", "seat_ventilation_start", "seat_ventilation_stop",
  "seat_ventilation_start_passenger", "seat_ventilation_stop_passenger",
  "steering_wheel_heating", "steering_wheel_heatless", "defrost_front_start",
  "defrost_front_stop", "defrost_back_start", "defrost_back_stop", "cabin_clean", "comfort_off"}
BatteryHeat == {"battery_gun_heat", "battery_gun_heat_stop",
  "battery_initiative_heat", "battery_initiative_heat_stop"}
NavInfoControls == HornLight \cup {"remote_start", "remote_stop", "tailgate_open", "tailgate_close",
  "sunroof_close", "sunroof_tilt", "sunroof_half", "sunroof_full", "cabin_purge", "force_refresh"}
BeanTechControls ==
  HornLight \cup {"remote_start", "remote_stop", "sunroof_close"} \cup Comfort \cup BatteryHeat

Locks == {"lock", "unlock", "windows"}
Climate == {"climate", "climate_off"}
ComfortModes == {"warm", "cool", "common"}
Settings == {"charging_mode", "charge_window"}
Appointments == {"battery_appointment", "battery_appointment_off"}

Offered ==
  IF platform = "navinfo" THEN Locks \cup Climate \cup NavInfoControls
  ELSE Locks \cup Climate \cup BeanTechControls \cup ComfortModes \cup Settings \cup Appointments
       \cup {"charge_soc", "cabin_clean_appointment"}

---------------------------------------------------------------------------
(* Requests.                                                               *)

Plain(type) == [ controlType |-> type, hasBody |-> FALSE, cmdBody |-> {} ]
With(type, body) == [ controlType |-> type, hasBody |-> TRUE, cmdBody |-> body ]

Request(operation, to, commands) ==
  [ operation |-> operation, to |-> to, commands |-> commands, sendType |-> 0, isSaveConfig |-> FALSE ]
Nothing == Request("none", "nowhere", << >>)
Refused == Request("refused", "nowhere", << >>)

\* The legacy route always carries a body, null if the command has none, and isSaveConfig.
Legacy(operation, type, body) ==
  [ Request(operation, "send", << With(type, body) >>) EXCEPT !.isSaveConfig = TRUE ]
Timely(operation, commands) == Request(operation, "timely", commands)

Windows == {<<"leftFront", 0>>, <<"leftBack", 0>>, <<"rightFront", 0>>, <<"rightBack", 0>>}
BeanTechLock ==
  [ unlock |-> Legacy("send_lock_command", "VEHICLE_UNLOCK", {}),
    lock |-> Legacy("send_lock_command", "VEHICLE_LOCK", {}),
    windows |-> Legacy("send_close_windows_command", "WINDOW_CLOSE", Windows) ]

BeanTechControl ==
  [ seat_heating_start |-> With("SEAT_HEATING_START", {<<"leftFront", 3>>, <<"operationTime", 600>>}),
    seat_heating_stop |-> With("SEAT_HEATING_STOP", {<<"leftFront", 0>>, <<"operationMode", 1>>}),
    seat_heating_start_passenger |->
      With("SEAT_HEATING_START", {<<"rightFront", 3>>, <<"operationTime", 600>>}),
    seat_heating_stop_passenger |->
      With("SEAT_HEATING_STOP", {<<"rightFront", 0>>, <<"operationMode", 1>>}),
    seat_ventilation_start |->
      With("SEAT_VENTILATION_START", {<<"leftFront", 3>>, <<"operationTime", 600>>}),
    seat_ventilation_stop |->
      With("SEAT_VENTILATION_STOP", {<<"leftFront", 0>>, <<"operationMode", 2>>}),
    seat_ventilation_start_passenger |->
      With("SEAT_VENTILATION_START", {<<"rightFront", 3>>, <<"operationTime", 600>>}),
    seat_ventilation_stop_passenger |->
      With("SEAT_VENTILATION_STOP", {<<"rightFront", 0>>, <<"operationMode", 2>>}),
    steering_wheel_heating |-> With("STEERING_WHEEL_HEATING", {<<"operationTime", 600>>}),
    steering_wheel_heatless |-> Plain("STEERING_WHEEL_HEATLESS"),
    defrost_front_start |-> With("DEFROST_FRONT_START", {<<"operationTime", 900>>}),
    defrost_front_stop |-> Plain("DEFROST_FRONT_STOP"),
    defrost_back_start |-> With("DEFROST_BACK_START", {<<"operationTime", 900>>}),
    defrost_back_stop |-> Plain("DEFROST_BACK_STOP"),
    cabin_clean |-> With("CABIN_CLEANING_START", {<<"operationTime", 60>>}),
    remote_start |-> With("ENGINE_START", {<<"operationTime", 900>>}),
    remote_stop |-> Plain("ENGINE_STOP"),
    horn |-> Plain("WHISTLE"), flash_lights |-> Plain("FLASH"),
    horn_and_lights |-> Plain("WHISTLE_FLASH"),
    sunroof_close |-> With("SKYLIGNT_CLOSE", {<<"skyLight", 0>>}),
    battery_gun_heat |-> Plain("BATTERY_GUN_HEAT_START"),
    battery_gun_heat_stop |-> Plain("BATTERY_GUN_HEAT_STOP"),
    battery_initiative_heat |-> Plain("BATTERY_INITIATIVE_HEAT_START"),
    battery_initiative_heat_stop |-> Plain("BATTERY_INITIATIVE_HEAT_STOP") ]

ComfortOff == <<
  Plain("AIR_CONDITIONER_STOP"),
  With("SEAT_HEATING_STOP", {<<"leftFront", 0>>, <<"operationMode", 1>>, <<"rightFront", 0>>}),
  With("SEAT_VENTILATION_STOP", {<<"leftFront", 0>>, <<"operationMode", 2>>, <<"rightFront", 0>>}),
  Plain("STEERING_WHEEL_HEATLESS") >>

\* Mutant of BeanTechVehicle: the horn and the lights take the route of the engine.
BeanTechVehicleUntimely(a) ==
  LET op == "send_vehicle_control_command" IN
  CASE a = "comfort_off" -> [ Timely(op, ComfortOff) EXCEPT !.sendType = 1 ]
    [] a \in (Comfort \ {"comfort_off"}) \cup BatteryHeat -> Timely(op, << BeanTechControl[a] >>)
    [] OTHER -> Legacy(op, BeanTechControl[a].controlType, BeanTechControl[a].cmdBody)

BeanTechVehicle(a) ==
  LET op == "send_vehicle_control_command" IN
  CASE a = "comfort_off" -> [ Timely(op, ComfortOff) EXCEPT !.sendType = 1 ]
    [] a \in (Comfort \ {"comfort_off"}) \cup BatteryHeat \cup HornLight ->
         Timely(op, << BeanTechControl[a] >>)
    [] OTHER -> Legacy(op, BeanTechControl[a].controlType, BeanTechControl[a].cmdBody)

NavInfoCode ==
  [ unlock |-> 1, lock |-> 2, windows |-> 3, horn_and_lights |-> 5, climate |-> 6, climate_off |-> 7,
    remote_start |-> 15, remote_stop |-> 16, tailgate_open |-> 17, tailgate_close |-> 18,
    horn |-> 19, flash_lights |-> 20, sunroof_close |-> 28, sunroof_tilt |-> 29,
    sunroof_half |-> 29, sunroof_full |-> 29, cabin_purge |-> 34 ]
OpenAngle == [ sunroof_full |-> 10, sunroof_half |-> 5, sunroof_tilt |-> 11 ]

NavInfoBody(a) ==
  (IF a \in DOMAIN NavInfoCode THEN {<<"cmdCode", NavInfoCode[a]>>} ELSE {})
  \cup (IF a = "remote_start" THEN {<<"runTime", 15>>} ELSE {})
  \cup (IF a \in DOMAIN OpenAngle THEN {<<"openAngle", OpenAngle[a]>>} ELSE {})
NavInfoFunction(a) ==
  CASE a \in {"remote_start", "climate"} -> "SET_AND_OPEN_COMMAND"
    [] a = "force_refresh" -> "REFRESH_VEHICLE_STATE"
    [] OTHER -> "SEND_COMMON_COMMAND"
Operation(a) ==
  CASE a \in {"lock", "unlock"} -> "send_lock_command"
    [] a = "windows" -> "send_close_windows_command"
    [] a \in Climate -> "send_climate_command"
    [] OTHER -> "send_vehicle_control_command"
NavInfoRequest(a) ==
  Request(Operation(a), "auto_ai", << With(NavInfoFunction(a), NavInfoBody(a)) >>)

\* The one-touch modes GWM lists: their types, and whether each is the commonly used one.
Listed == UNION { [ 1 .. n -> {1, 2} \X BOOLEAN ] : n \in 0 .. 2 }
Chosen(wanted, listed) ==
  { i \in DOMAIN listed :
      LET fits(j) == CASE wanted = "common" -> listed[j][2]
                       [] wanted = "warm" -> listed[j][1] = 1
                       [] wanted = "cool" -> listed[j][1] = 2
      IN fits(i) /\ \A j \in 1 .. i - 1 : ~ fits(j) }
ComfortMode(wanted, listed) ==
  IF Chosen(wanted, listed) = {} THEN Refused
  ELSE Timely("set_bean_tech_comfort_mode",
         << With("COMFORT_MODE_CTRL",
              {<<"action", 1>>, <<"type", listed[CHOOSE i \in Chosen(wanted, listed) : TRUE][1]>>}) >>)

SettingOperation ==
  [ charging_mode |-> "set_bean_tech_charging_mode", charge_window |-> "set_bean_tech_charge_window" ]

BeanTechRequest(a, listed) ==
  CASE a \in Locks -> BeanTechLock[a]
    [] a = "climate" -> Timely("send_climate_command", << With("AIR_CONDITIONER_START", {}) >>)
    [] a = "climate_off" -> Timely("send_climate_command", << Plain("AIR_CONDITIONER_STOP") >>)
    [] a \in BeanTechControls -> BeanTechVehicle(a)
    [] a \in ComfortModes -> ComfortMode(a, listed)
    [] a \in Settings -> Request(SettingOperation[a], "charge_setting", << >>)
    [] a = "charge_soc" ->
         Timely("set_bean_tech_charge_soc", << With("CTRL_CHARGE_SOC", {<<"chargeSoc", 80>>}) >>)
    [] a = "battery_appointment" ->
         Timely("set_bean_tech_battery_heating_appointment",
                << With("BATTERY_HEATING_APPOINTMENT", {<<"useCarTime", 1>>}) >>)
    [] a = "battery_appointment_off" ->
         Timely("set_bean_tech_battery_heating_appointment", << Plain("BATTERY_TC_STOP") >>)
    [] a = "cabin_clean_appointment" ->
         Request("set_bean_tech_cabin_clean_appointment", "subscribe",
                 << With("CABIN_CLEANING_START", {<<"operationTime", 60>>}) >>)

Built(a, listed) == IF platform = "navinfo" THEN NavInfoRequest(a) ELSE BeanTechRequest(a, listed)

\* What the entities of a BeanTech vehicle and the polling ask for: the route, and the
\* parameters in its query or its body.
Query(operation, to, parameters) == [ operation |-> operation, to |-> to, parameters |-> parameters ]

Simple(operation, to) == Query(operation, to, {"vin"})
ChargeSettingRead == Query("get_bean_tech_charge_setting", "charge_setting/vin", {"strategy=5"})
AppointmentRead ==
  Query("get_bean_tech_battery_heating_appointment", "config_query",
        {"sendType=0", "types=BATTERY_HEATING_APPOINTMENT", "userId", "vin"})
SubscribedRead ==
  Query("get_bean_tech_cabin_clean_appointment", "subscribe/vin", {"cmds=CABIN_CLEANING_START", "type=0"})
Reads ==
  { Simple("get_bean_tech_comfort_modes", "one_touch_mode"),
    Simple("get_bean_tech_switch_status", "switch_status"),
    ChargeSettingRead, AppointmentRead, SubscribedRead }

RemoteResult == Query("get_remote_command_result", "v3", {"seqNo", "vin", "msgType=remote"})
ChargeResult == Query("get_remote_command_result", "v3", {"seqNo", "vin", "msgType=charge"})
LegacyResult == Query("get_remote_command_result", "result", {"seqNo"})

---------------------------------------------------------------------------
(* What the transport lets out.                                            *)

\* The commands it knows on the timely route, with their bodies.
TimelyBodies ==
  [ SEAT_HEATING_START |-> {{<<"leftFront", 3>>, <<"operationTime", 600>>},
                            {<<"rightFront", 3>>, <<"operationTime", 600>>}},
    SEAT_HEATING_STOP |-> {{<<"leftFront", 0>>, <<"operationMode", 1>>},
                           {<<"rightFront", 0>>, <<"operationMode", 1>>}},
    SEAT_VENTILATION_START |-> {{<<"leftFront", 3>>, <<"operationTime", 600>>},
                                {<<"rightFront", 3>>, <<"operationTime", 600>>}},
    SEAT_VENTILATION_STOP |-> {{<<"leftFront", 0>>, <<"operationMode", 2>>},
                               {<<"rightFront", 0>>, <<"operationMode", 2>>}},
    STEERING_WHEEL_HEATING |-> {{<<"operationTime", 600>>}},
    STEERING_WHEEL_HEATLESS |-> {},
    DEFROST_FRONT_START |-> {{<<"operationTime", 900>>}}, DEFROST_FRONT_STOP |-> {},
    DEFROST_BACK_START |-> {{<<"operationTime", 900>>}}, DEFROST_BACK_STOP |-> {},
    CABIN_CLEANING_START |-> {{<<"operationTime", 60>>}},
    BATTERY_GUN_HEAT_START |-> {}, BATTERY_GUN_HEAT_STOP |-> {},
    BATTERY_INITIATIVE_HEAT_START |-> {}, BATTERY_INITIATIVE_HEAT_STOP |-> {} ]

Fits(c, bodies) == IF bodies = {} THEN ~ c.hasBody ELSE c.hasBody /\ c.cmdBody \in bodies
One(r) == Len(r.commands) = 1
First(r) == r.commands[1]

TimelyEnvelope(r, sendType) == r.to = "timely" /\ r.sendType = sendType /\ ~ r.isSaveConfig
TimelyCommand(r, commands) == TimelyEnvelope(r, 0) /\ One(r) /\ First(r) \in commands
ComfortOffCommands(r) == r.commands = ComfortOff

TimelyControl(r) ==
  \/ TimelyEnvelope(r, 1) /\ ComfortOffCommands(r)
  \/ /\ TimelyEnvelope(r, 0) /\ One(r)
     /\ First(r).controlType \in DOMAIN TimelyBodies
     /\ Fits(First(r), TimelyBodies[First(r).controlType])
HornLightRequest(r) == TimelyCommand(r, { Plain(type) : type \in {"WHISTLE", "FLASH", "WHISTLE_FLASH"} })

\* The bodies of the legacy route; a null is a body without fields.
LegacyBodies ==
  [ VEHICLE_LOCK |-> {{}}, VEHICLE_UNLOCK |-> {{}}, WINDOW_CLOSE |-> {Windows},
    ENGINE_START |-> { {<<"operationTime", 60 * m>>} : m \in 5 .. 30 }, ENGINE_STOP |-> {{}},
    WHISTLE |-> {{}}, FLASH |-> {{}}, SKYLIGNT_CLOSE |-> {{<<"skyLight", 0>>}} ]
LegacyRequest(r, types) ==
  /\ r.to = "send" /\ r.sendType = 0 /\ r.isSaveConfig /\ One(r)
  /\ First(r).controlType \in types
  /\ Fits(First(r), LegacyBodies[First(r).controlType])

AutoAiRequest(r, function, bodies) ==
  r.to = "auto_ai" /\ One(r) /\ First(r).controlType = function /\ First(r).cmdBody \in bodies
Codes(codes) == { {<<"cmdCode", c>>} : c \in codes }
AutoAiControl(r) ==
  \/ AutoAiRequest(r, "REFRESH_VEHICLE_STATE", {{}})
  \/ AutoAiRequest(r, "SET_AND_OPEN_COMMAND", { {<<"cmdCode", 15>>, <<"runTime", m>>} : m \in 5 .. 30 })
  \/ AutoAiRequest(r, "SEND_COMMON_COMMAND",
       { {<<"cmdCode", 29>>, <<"openAngle", a>>} : a \in {5, 10, 11} }
       \cup Codes({5, 16, 17, 18, 19, 20, 28, 34}))

LockLetsOut(r) ==
  \/ LegacyRequest(r, {"VEHICLE_LOCK", "VEHICLE_UNLOCK"})
  \/ AutoAiRequest(r, "SEND_COMMON_COMMAND", Codes({1, 2}))
WindowsLetsOut(r) ==
  LegacyRequest(r, {"WINDOW_CLOSE"}) \/ AutoAiRequest(r, "SEND_COMMON_COMMAND", Codes({3}))
VehicleControlLetsOut(r) ==
  \/ TimelyControl(r) \/ HornLightRequest(r)
  \/ /\ r.to # "timely"
     /\ \/ AutoAiControl(r)
        \/ LegacyRequest(r, DOMAIN LegacyBodies \ {"VEHICLE_LOCK", "VEHICLE_UNLOCK", "WINDOW_CLOSE"})
ClimateLetsOut(r) ==
  \/ TimelyCommand(r, { With("AIR_CONDITIONER_START", {}), Plain("AIR_CONDITIONER_STOP") })
  \/ AutoAiRequest(r, "SEND_COMMON_COMMAND", Codes({7}))
  \/ AutoAiRequest(r, "SET_AND_OPEN_COMMAND", Codes({6}))
ComfortModeLetsOut(r) ==
  TimelyCommand(r, { With("COMFORT_MODE_CTRL", {<<"action", 1>>, <<"type", t>>}) : t \in {1, 2} })
AppointmentLetsOut(r) ==
  TimelyCommand(r, { With("BATTERY_HEATING_APPOINTMENT", {<<"useCarTime", 1>>}), Plain("BATTERY_TC_STOP") })
ChargeSocLetsOut(r) ==
  TimelyCommand(r, { With("CTRL_CHARGE_SOC", {<<"chargeSoc", 10 * p>>}) : p \in 5 .. 10 })
ChargeSettingLetsOut(r) == r.to = "charge_setting"
SubscribeLetsOut(r) ==
  r.to = "subscribe" /\ r.commands = << With("CABIN_CLEANING_START", {<<"operationTime", 60>>}) >>

OneTouchModeLetsOut(q) == q.to = "one_touch_mode" /\ q.parameters = {"vin"}
SwitchStatusLetsOut(q) == q.to = "switch_status" /\ q.parameters = {"vin"}
ChargeSettingReadLetsOut(q) == q.to = "charge_setting/vin" /\ q.parameters = {"strategy=5"}
AppointmentReadLetsOut(q) ==
  /\ q.to = "config_query"
  /\ q.parameters = {"sendType=0", "types=BATTERY_HEATING_APPOINTMENT", "userId", "vin"}
SubscribedReadLetsOut(q) ==
  q.to = "subscribe/vin" /\ q.parameters = {"cmds=CABIN_CLEANING_START", "type=0"}
LegacyResultLetsOut(q) == q.to = "result" /\ q.parameters = {"seqNo"}
RemoteResultLetsOut(q) ==
  LegacyResultLetsOut(q) \/ (q.to = "v3" /\ q.parameters = {"seqNo", "vin", "msgType=remote"})
ChargeResultLetsOut(q) == q.to = "v3" /\ q.parameters = {"seqNo", "vin", "msgType=charge"}

LetsOut(r) ==
  CASE r.operation = "send_lock_command" -> LockLetsOut(r)
    [] r.operation = "send_close_windows_command" -> WindowsLetsOut(r)
    [] r.operation = "send_vehicle_control_command" -> VehicleControlLetsOut(r)
    [] r.operation = "send_climate_command" -> ClimateLetsOut(r)
    [] r.operation = "set_bean_tech_comfort_mode" -> ComfortModeLetsOut(r)
    [] r.operation = "set_bean_tech_battery_heating_appointment" -> AppointmentLetsOut(r)
    [] r.operation = "set_bean_tech_charge_soc" -> ChargeSocLetsOut(r)
    [] r.operation \in { SettingOperation[a] : a \in Settings } -> ChargeSettingLetsOut(r)
    [] r.operation = "set_bean_tech_cabin_clean_appointment" -> SubscribeLetsOut(r)
    [] r.operation = "get_bean_tech_comfort_modes" -> OneTouchModeLetsOut(r)
    [] r.operation = "get_bean_tech_switch_status" -> SwitchStatusLetsOut(r)
    [] r.operation = "get_bean_tech_charge_setting" -> ChargeSettingReadLetsOut(r)
    [] r.operation = "get_bean_tech_battery_heating_appointment" -> AppointmentReadLetsOut(r)
    [] r.operation = "get_bean_tech_cabin_clean_appointment" -> SubscribedReadLetsOut(r)
    [] r.operation = "get_remote_command_result" ->
         IF "msgType=charge" \in r.parameters THEN ChargeResultLetsOut(r) ELSE RemoteResultLetsOut(r)
    [] OTHER -> FALSE

---------------------------------------------------------------------------
(* Journal and results.                                                    *)

\* The names of the vehicle controls differ: there the action stands for its name.
Name(a) ==
  CASE a \in Climate -> "A/C"
    [] a \in ComfortModes -> "Comfort mode"
    [] a = "charging_mode" -> "Smart charge"
    [] a = "charge_window" -> "Charge window"
    [] a = "charge_soc" -> "Charge SOC limit"
    [] a \in Appointments -> "Battery appointment heating"
    [] OTHER -> a

\* Mutant of ControlAction: only the vehicle controls are looked up.
ControlActionOfControls(name) ==
  CASE name \in HornLight \cup Comfort \cup BatteryHeat -> name
    [] name = "A/C" -> "climate"
    [] name = "Comfort mode" -> "comfort_mode"
    [] OTHER -> "none"

\* What the journalled name says about the route of the result.
ControlAction(name) ==
  CASE name \in HornLight \cup Comfort \cup BatteryHeat -> name
    [] name = "Smart charge" -> "charging_mode"
    [] name = "Charge window" -> "charge_window"
    [] name = "Charge SOC limit" -> "charge_soc"
    [] name = "Battery appointment heating" -> "battery_appointment"
    [] name = "A/C" -> "climate"
    [] name = "Comfort mode" -> "comfort_mode"
    [] OTHER -> "none"

TimelyActions == HornLight \cup Comfort \cup BatteryHeat
  \cup {"climate", "comfort_mode", "charging_mode", "charge_window", "charge_soc", "battery_appointment"}

IsTimely(name) == platform = "beantech" /\ ControlAction(name) \in TimelyActions
AskedAt(name) ==
  IF ControlAction(name) \in Settings THEN ChargeResult
  ELSE IF platform = "navinfo" \/ IsTimely(name) THEN RemoteResult ELSE LegacyResult

\* Where GWM puts the result of a request.
AnsweredAt(to) ==
  CASE to = "charge_setting" -> ChargeResult
    [] to \in {"timely", "auto_ai"} -> RemoteResult
    [] to = "send" -> LegacyResult

NoEntry == [ name |-> "none", to |-> "nowhere", state |-> "none" ]

\* about: the command GWM means.  BeanTech answers about the command asked for, under a
\* transaction of its own; NavInfo may list others, but says which.
Messages ==
  { m \in [ transaction : {"ours", "blank", "other"}, about : {"this", "another"},
            code : {"running", "success", "failure", "blank", "unreadable"} ] :
      IF platform = "navinfo" THEN (m.about = "another") = (m.transaction = "other")
      ELSE m.about = "this" }
Answers == UNION { [ 1 .. n -> Messages ] : n \in 0 .. MaxMessages }

\* Mutant of Taken: whatever is listed is taken for an answer.
TakenAny(m, name) == m.code \notin {"blank", "unreadable"}

\* The messages that are answers to the command; on the legacy route GWM lists items with
\* the identifier or without, of which a blank code is no success.
Taken(m, name) ==
  CASE platform = "navinfo" -> m.transaction # "other" /\ m.code \notin {"blank", "unreadable"}
    [] IsTimely(name) -> m.code # "blank"
    [] OTHER -> TRUE

\* A stream with something unreadable is refused as a whole, except NavInfo's.
Unreadable(a) == platform = "beantech" /\ \E i \in DOMAIN a : a[i].code = "unreadable"

Candidates(a, name) == { i \in DOMAIN a : Taken(a[i], name) }
\* Items of the legacy route keep their identifiers: the first with ours, or else the first.
Selected(a, name) ==
  LET ours == { i \in Candidates(a, name) : a[i].transaction # "other" }
      among == IF platform = "beantech" /\ ~ IsTimely(name) /\ ours # {} THEN ours
               ELSE Candidates(a, name)
  IN { i \in among : \A j \in among : i <= j }
State(a, name) ==
  IF Unreadable(a) \/ Selected(a, name) = {} THEN "accepted"
  ELSE LET code == a[CHOOSE i \in Selected(a, name) : TRUE].code IN
       IF code = "running" THEN "accepted" ELSE IF code = "success" THEN "completed" ELSE "failed"

---------------------------------------------------------------------------
Init ==
  /\ platform \in {"navinfo", "beantech"}
  /\ request = Nothing /\ entry = NoEntry /\ asked = Nothing /\ answer = << >>

\* An entity's call: built, let out, accepted by GWM and journalled - or none of it.  An
\* appointment of cabin cleaning is not journalled.
Press(a) ==
  /\ entry = NoEntry
  /\ \E listed \in IF a \in ComfortModes THEN Listed ELSE {<< >>} : request' = Built(a, listed)
  /\ \/ /\ LetsOut(request') /\ a # "cabin_clean_appointment"
        /\ entry' = [ name |-> Name(a), to |-> request'.to, state |-> "accepted" ]
     \/ UNCHANGED entry
  /\ asked' = Nothing /\ answer' = << >>
  /\ UNCHANGED platform

\* A read of an entity, or the one before a comfort mode is chosen.
Look ==
  /\ platform = "beantech"
  /\ request' \in Reads
  /\ UNCHANGED << platform, entry, asked, answer >>

\* A poll, by this process or a later one.
Poll ==
  /\ entry.state = "accepted"
  /\ asked' = AskedAt(entry.name)
  /\ \E a \in Answers :
       /\ entry' = [ entry EXCEPT !.state = State(a, entry.name) ]
       /\ answer' = IF entry'.state = "accepted" THEN << >> ELSE a
  /\ UNCHANGED << platform, request >>

\* The journal has room for another command.
Forget ==
  /\ entry.state \in {"completed", "failed"}
  /\ entry' = NoEntry /\ request' = Nothing /\ asked' = Nothing /\ answer' = << >>
  /\ UNCHANGED platform

Next == (\E a \in Offered : Press(a)) \/ Look \/ Poll \/ Forget

Spec == Init /\ [][Next]_vars

---------------------------------------------------------------------------
(* Properties.                                                             *)

\* Whatever an entity offers or reads, its request passes the transport, unless GWM lists
\* no such comfort mode; so does the question for its result.
RequestFits ==
  /\ request \notin {Nothing, Refused} => LetsOut(request)
  /\ asked # Nothing => LetsOut(asked)

\* The result of a command is asked for where GWM answers commands sent that way ...
AskedWhereAnswered == asked # Nothing => asked = AnsweredAt(entry.to)

\* ... and a command ends as GWM said of it, not of another.
EndsAsAnswered ==
  /\ entry.state = "completed" =>
       \E i \in DOMAIN answer : answer[i].about = "this" /\ answer[i].code = "success"
  /\ entry.state = "failed" =>
       \E i \in DOMAIN answer : answer[i].about = "this" /\ answer[i].code \in {"failure", "blank"}

AnswersItsCommand == AskedWhereAnswered /\ EndsAsAnswered
=============================================================================
