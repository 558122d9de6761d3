----------------------------- MODULE MCServices ------------------------------
(***************************************************************************)
(* A small instance of VehicleServices.  As the services share nothing,    *)
(* each is checked on its own: in a behaviour one of them runs and the     *)
(* others stand still; of the charging entities, those of the window and   *)
(* the limit or those of battery heating run.                              *)
(***************************************************************************)
EXTENDS VehicleServices

CONSTANTS c1, c2

VARIABLE service   \* the one that runs

TwoStored == { [ temp |-> 15, time |-> 10 ], [ temp |-> -1, time |-> 45 ] }
NightCharge == { [ setting |-> [ start |-> 1, end |-> 2 ], limit |-> 80, departure |-> 0 ] }

all == << service, vars, climate, beantech, controls >>

MCInit ==
  /\ service \in {"plan", "climate", "charging", "heating", "controls"}
  /\ Init /\ C!Init /\ B!Init /\ P!Init
  /\ service # "plan" => enabled /\ platform = "overseas"
  /\ service # "climate" => supplier = "navinfo"
  /\ service # "controls" => vehicle = "navinfo"

\* The entities of one of the two, and what the app sets of theirs: two edits or the like
\* for the window and the limit, two departure times for heating.
Charging == {"start", "end", "limit"}
Heating == {"departure", "heating"}
Keeps(es) == \A e \in es : entity'[e].gen = entity[e].gen /\ entity'[e].read = entity[e].read
ChargingNext ==
  B!Next /\ Keeps(Heating) /\ car'.departure = car.departure /\ events' <= 2
HeatingNext ==
  B!Next /\ Keeps(Charging) /\ car'.setting = car.setting /\ car'.limit = car.limit
  /\ car'.departure # 3 /\ entity'["departure"].write.value # 3

MCNext ==
  /\ UNCHANGED service
  /\ \/ service = "plan" /\ Next /\ UNCHANGED << climate, beantech, controls >>
     \/ service = "climate" /\ C!Next /\ UNCHANGED << vars, beantech, controls >>
     \/ service = "charging" /\ ChargingNext /\ UNCHANGED << vars, climate, controls >>
     \/ service = "heating" /\ HeatingNext /\ UNCHANGED << vars, climate, controls >>
     \/ service = "controls" /\ P!Next /\ UNCHANGED << vars, climate, beantech >>

\* Requests end, the car gets to its orders and polls recur; an entity asks at its first
\* poll already.
BeanTechFairness ==
  /\ WF_beantech(B!Apply) /\ WF_beantech(B!Finish)
  /\ \A e \in {"start", "end"} :
       /\ WF_beantech(service = "charging" /\ B!Fetch(e))
       /\ WF_beantech(service = "charging" /\ B!Ask(e))
       /\ WF_beantech(service = "charging" /\ B!Answer(e))
       /\ WF_beantech(service = "charging" /\ B!Install(e))
       /\ WF_beantech(service = "charging" /\ B!Post(e))
  /\ WF_beantech(service = "charging" /\ B!Command("limit"))
  /\ WF_beantech(service = "heating" /\ (B!Command("departure") \/ B!Command("heating")))
  /\ WF_beantech(service = "heating" /\ B!Ask("heating"))
  /\ WF_beantech(service = "heating" /\ B!Answer("heating"))
  /\ WF_beantech(service = "heating" /\ B!Install("heating"))

MCSpec == MCInit /\ [][MCNext]_all /\ Fairness /\ BeanTechFairness

\* In the end every entity that can read shows what the car has.
ShownCatchesUp ==
  <>[]( /\ service = "charging" => \A e \in {"start", "end"} : entity[e].data = B!Read(e)
        /\ service = "heating" => entity["heating"].data = B!Read("heating") )
=============================================================================
