--------------------------- MODULE VehicleServices ---------------------------
(***************************************************************************)
(* The services of one vehicle: the charging plan, the climate settings,   *)
(* the charging entities of BeanTech and the remote controls of China.     *)
(* GwmCommandApi serves them side by side: they share the journal of       *)
(* commands, which is CommandJournal, and nothing of what is modelled here.*)
(***************************************************************************)
EXTENDS ChargingPlan, Sequences

CONSTANTS
  Suppliers, Requests, UserTemps, UserTimes, AppSettings, MaxRequests,  \* ClimateControl
  Entities, ClockTimes, Limits, AtFirst, MaxEvents,                     \* BeanTechCharging
  MaxMessages                                                           \* ChinaCommands

VARIABLES
  supplier, setting, answer, saved, requested, requests, begun, told,   \* ClimateControl
  car, queue, results, entity, confirmed, events, doubtful,             \* BeanTechCharging
  vehicle, order, journalled, asked, reply                              \* ChinaCommands

C == INSTANCE ClimateControl WITH
  Platforms <- Suppliers, Calls <- Requests, MaxCalls <- MaxRequests,
  platform <- supplier, gwm <- setting, calls <- requests

B == INSTANCE BeanTechCharging WITH Times <- ClockTimes

P == INSTANCE ChinaCommands WITH
  platform <- vehicle, request <- order, entry <- journalled, answer <- reply

ASSUME ServiceBounds == C!Bounds /\ B!Bounds

climate == << supplier, setting, answer, saved, requested, requests, begun, told >>
beantech == << car, queue, results, entity, confirmed, events, doubtful >>
controls == << vehicle, order, journalled, asked, reply >>

Services == Spec /\ C!Spec /\ B!Spec /\ P!Spec

---------------------------------------------------------------------------
(* Properties.                                                             *)

\* The types, and that nothing is stored or sent that the transport would refuse: no
\* climate setting, and no request for what an entity offers or reads.
WellFormed == TypeOK /\ C!TypeOK /\ C!WireRange /\ B!TypeOK /\ P!RequestFits

\* An A/C that is started by a call alone starts with what the user was told is saved.
SavedSettingsUsed == C!SavedSettingsUsed

\* Editing one field of the charge setting never changes another, unless something else
\* was written between the read and the application.
OthersKept == B!OthersKept

\* A limit or departure time shown as confirmed is the one in effect.
ConfirmedShown == B!ConfirmedShown

\* The result of a command is asked for where it is, and is the one it ends with.
AnswersItsCommand == P!AnswersItsCommand
=============================================================================
