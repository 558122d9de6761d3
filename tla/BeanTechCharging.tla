-------------------------- MODULE BeanTechCharging --------------------------
(***************************************************************************)
(* The charging entities of a BeanTech vehicle: the smart-charge switch,   *)
(* the two ends of the charging window, the charge limit, the departure    *)
(* time of battery heating and the switch that arms or cancels it.  Each   *)
(* entity keeps what it read last and serialises its own reads and writes; *)
(* the client serialises their requests.                                   *)
(*                                                                         *)
(* A write of the mode or of one end of the window reads the whole         *)
(* setting, changes a field and posts all of it.  GWM accepts it under a   *)
(* number, the car applies it later, and the result, once polled, calls    *)
(* the entity back.  The limit and the departure time cannot be read: what *)
(* was confirmed is remembered.  The official app writes too.              *)
(***************************************************************************)
EXTENDS Integers, Sequences

CONSTANTS
  Entities,    \* which of "mode", "start", "end", "limit", "departure" and "heating"
  Times,       \* ends of the window and departure times, all in the future
  Limits,      \* charge limits, among 50 .. 100
  AtFirst,     \* what the car starts with: a subset of Cars
  MaxEvents    \* bound: edits, failing reads, changes by the app, reloads

Fields == Entities \cap {"mode", "start", "end"}
Remembered == Entities \cap {"limit", "departure"}
Readers == Entities \ Remembered

VARIABLES
  car,        \* the setting, the limit and the departure in effect
  queue,      \* writes GWM accepted and the car has not applied, oldest first
  results,    \* terminal results the polling has still to report
  entity,     \* the entities
  confirmed,  \* GwmChargeSocNumber._confirmed_percent, GwmCommandApi._battery_departure_times
  events,     \* events so far
  doubtful    \* of a limit or departure: another one may be in effect; no code reads it

vars == << car, queue, results, entity, confirmed, events, doubtful >>

Unknown == -1
Off == 0
Modes == {0, 1}
Values(e) == CASE e = "mode" -> Modes [] e = "limit" -> Limits [] OTHER -> Times

\* chargingMode and customTime, as far as they are looked at; whatever else the setting
\* holds travels with them.  A window has a length.
Setting ==
  { s \in [ Fields -> UNION { Values(f) : f \in Fields } ] :
      /\ \A f \in Fields : s[f] \in Values(f)
      /\ {"start", "end"} \subseteq Fields => s["start"] # s["end"] }
Cars == [ setting : Setting, limit : Limits, departure : Times \cup {Off} ]

\* Heating is armed for a departure time, so the entity of that is there too.
Bounds ==
  /\ Entities \subseteq {"mode", "start", "end", "limit", "departure", "heating"}
  /\ "heating" \in Entities => "departure" \in Entities
  /\ Times \subseteq Nat \ {0} /\ Limits \subseteq 50 .. 100
  /\ AtFirst \subseteq Cars /\ MaxEvents \in Nat

NoSetting == [ f \in Fields |-> Unknown ]

\* What an entity reads of the car: the setting, or whether heating is armed.
Read(e) ==
  IF e = "heating" THEN [ f \in {"armed"} |-> IF car.departure = Off THEN 0 ELSE 1 ] ELSE car.setting
Readable(e) == IF e = "heating" THEN [ {"armed"} -> {0, 1} ] ELSE Setting

\* write: where _async_send_command is.  read: where _async_read_state is; wanted: a
\* callback waits for the read lock.
\* fresh: nothing was written since its read by another hand, nor was anything pending.
NoWrite == [ at |-> "idle", value |-> Unknown, base |-> NoSetting, fresh |-> FALSE ]
NoRead == [ at |-> "idle", gen |-> 0, value |-> NoSetting ]
NewEntity == [ data |-> NoSetting, gen |-> 0, write |-> NoWrite, read |-> NoRead, wanted |-> FALSE ]

TypeOK ==
  /\ car \in Cars
  /\ \A i \in DOMAIN queue :
       /\ queue[i].by \in Entities /\ queue[i].gen \in 1 .. MaxEvents
       /\ queue[i].value \in CASE queue[i].by \in Fields -> Setting
                              [] queue[i].by = "heating" -> Times \cup {Off}
                              [] OTHER -> Values(queue[i].by)
  /\ \A e \in Remembered : confirmed[e] \in Values(e) \cup {Unknown}
  /\ events \in 0 .. MaxEvents
  /\ doubtful \in [ Remembered -> BOOLEAN ]
  /\ \A e \in Entities :
       /\ entity[e].data \in Readable(e) \cup { NoSetting }
       /\ entity[e].gen \in 0 .. MaxEvents
       /\ entity[e].write.at \in {"idle", "send", "post"}
       /\ entity[e].read.at \in {"idle", "asked", "answered"}

Init ==
  /\ car \in AtFirst
  /\ queue = << >> /\ results = {}
  /\ entity = [ e \in Entities |-> NewEntity ]
  /\ confirmed = [ e \in Remembered |-> Unknown ]
  /\ events = 0
  /\ doubtful = [ e \in Remembered |-> FALSE ]

Happens == events < MaxEvents /\ events' = events + 1

---------------------------------------------------------------------------
(* Writing.                                                                *)

\* A write between its read and its post holds the client's request lock.
LockFree == \A e \in Entities : entity[e].write.at # "post"

\* What the user may ask of an entity: another end of the window, another departure
\* time than the one shown, and heating at no other time than the one confirmed.
Choices(e) ==
  CASE e \in {"start", "end"} -> Times \ {entity[e].data[e]}
    [] e = "departure" -> Times \ {confirmed[e]}
    [] e = "heating" -> {Off} \cup ({confirmed["departure"]} \ {Unknown})
    [] OTHER -> Values(e)

\* async_select_option, async_set_native_value, async_turn_on and async_turn_off.
Edit(e) ==
  /\ Happens
  /\ entity[e].write.at = "idle"
  /\ \E v \in Choices(e) :
       entity' = [ entity EXCEPT ![e].write = [ NoWrite EXCEPT !.at = "send", !.value = v ],
                               ![e].gen = @ + 1 ]
  /\ UNCHANGED << car, queue, results, confirmed, doubtful >>

Released(e) == entity' = [ entity EXCEPT ![e].write = NoWrite ]

\* Mutant of Base: what the entity shows, if it shows anything.
BaseShown(e) == IF entity[e].data # NoSetting THEN entity[e].data ELSE car.setting

\* The setting a write starts from.
Base(e) == car.setting

Pending == \E i \in DOMAIN queue : queue[i].by \in Fields

\* The read before the write; a window of no length is refused here.
Fetch(e) ==
  /\ e \in Fields
  /\ entity[e].write.at = "send"
  /\ LockFree
  /\ LET base == Base(e)
         new == [ base EXCEPT ![e] = entity[e].write.value ] IN
     \/ /\ new \in Setting
        /\ entity' = [ entity EXCEPT ![e].write.at = "post", ![e].write.base = base,
                                     ![e].write.fresh = ~ Pending ]
     \/ Released(e)
  /\ UNCHANGED << car, queue, results, confirmed, events, doubtful >>

\* A departure time that heating was told before it was chosen anew.
Outdated(e) == e = "heating" /\ entity[e].write.value \notin { Off, confirmed["departure"] }

\* GWM accepts a write, and the answer may get lost, or refuses it.  The entity forgets a
\* confirmed value as soon as another one is accepted.
Order(e, value, tracked) ==
  [ by |-> e, gen |-> entity[e].gen, tracked |-> tracked, fresh |-> entity[e].write.fresh, value |-> value ]
Doubts(e, tracked) ==
  [ x \in Remembered |-> \/ doubtful[x]
                         \/ x = e /\ ~ tracked
                         \/ x = "departure" /\ Outdated(e) ]
Sent(e, value) ==
  /\ Released(e)
  /\ \/ \E tracked \in BOOLEAN :
          /\ queue' = Append(queue, Order(e, value, tracked))
          /\ confirmed' = IF e \in Remembered /\ tracked THEN [ confirmed EXCEPT ![e] = Unknown ]
                          ELSE confirmed
          /\ doubtful' = Doubts(e, tracked)
     \/ UNCHANGED << queue, confirmed, doubtful >>
  /\ UNCHANGED << car, results, events >>

\* The setting is posted whole; the limit and the orders to battery heating are commands.
Post(e) ==
  LET w == entity[e].write IN
  w.at = "post" /\ Sent(e, [ w.base EXCEPT ![e] = w.value ])
Command(e) ==
  /\ e \notin Fields
  /\ entity[e].write.at = "send"
  /\ LockFree
  /\ Sent(e, entity[e].write.value)

\* The car applies the oldest write, or fails to.
Result(w, ok) == IF w.tracked THEN results \cup {[ by |-> w.by, gen |-> w.gen, ok |-> ok,
                                                  value |-> IF w.by \in Remembered THEN w.value ELSE Unknown ]}
                 ELSE results
Apply ==
  /\ queue # << >>
  /\ queue' = Tail(queue)
  /\ LET w == Head(queue) IN
     \/ /\ car' = CASE w.by = "limit" -> [ car EXCEPT !.limit = w.value ]
                    [] w.by \in {"departure", "heating"} -> [ car EXCEPT !.departure = w.value ]
                    [] OTHER -> [ car EXCEPT !.setting = w.value ]
        /\ results' = Result(w, TRUE)
     \/ results' = Result(w, FALSE) /\ UNCHANGED car
  /\ UNCHANGED << entity, confirmed, events, doubtful >>

\* Mutant of Current: every result is current.
CurrentAlways(r) == TRUE

\* A result counts if no newer write of the entity began.
Current(r) == r.gen = entity[r.by].gen

\* The polling reports a terminal result, or gives up; a value is confirmed only by a
\* completed one.
Finish ==
  /\ \E r \in results :
       /\ results' = results \ {r}
       /\ \E known \in BOOLEAN :
            confirmed' = IF Current(r) /\ known /\ r.ok /\ r.by \in Remembered
                         THEN [ confirmed EXCEPT ![r.by] = r.value ] ELSE confirmed
       /\ entity' = [ entity EXCEPT ![r.by].wanted = @ \/ (Current(r) /\ r.by \in Readers) ]
  /\ UNCHANGED << car, queue, events, doubtful >>

---------------------------------------------------------------------------
(* Reading.                                                                *)

\* Mutant of Due: an entity that read once waits for its callbacks.
DueOnce(e) == entity[e].wanted \/ entity[e].data = NoSetting

\* A callback reads when it gets the read lock, a coordinator update unless a write is
\* in progress.  (That updates leave a minute between reads is left out.)
Due(e) == entity[e].wanted \/ entity[e].write.at = "idle"

Ask(e) ==
  /\ e \in Readers
  /\ entity[e].read.at = "idle"
  /\ Due(e)
  /\ entity' = [ entity EXCEPT ![e].read = [ NoRead EXCEPT !.at = "asked", !.gen = entity[e].gen ],
                               ![e].wanted = FALSE ]
  /\ UNCHANGED << car, queue, results, confirmed, events, doubtful >>

Answer(e) ==
  /\ entity[e].read.at = "asked"
  /\ LockFree
  /\ \/ /\ entity' = [ entity EXCEPT ![e].read.at = "answered", ![e].read.value = Read(e) ]
        /\ UNCHANGED events
     \/ Happens /\ entity' = [ entity EXCEPT ![e].read = NoRead ]
  /\ UNCHANGED << car, queue, results, confirmed, doubtful >>

\* An answer is dropped if a write began since it was asked for or is in progress.
Install(e) ==
  /\ entity[e].read.at = "answered"
  /\ entity' = [ entity EXCEPT
       ![e].read = NoRead,
       ![e].data = IF entity[e].read.gen = entity[e].gen /\ entity[e].write.at = "idle"
                   THEN entity[e].read.value ELSE @ ]
  /\ UNCHANGED << car, queue, results, confirmed, events, doubtful >>

---------------------------------------------------------------------------
(* The rest of the world.                                                  *)

AppSets ==
  /\ Happens
  /\ \/ \E s \in Setting : car' = [ car EXCEPT !.setting = s ]
     \/ "limit" \in Entities /\ \E l \in Limits : car' = [ car EXCEPT !.limit = l ]
     \/ "departure" \in Entities /\ \E d \in Times \cup {Off} : car' = [ car EXCEPT !.departure = d ]
  /\ doubtful' = [ x \in Remembered |-> TRUE ]
  /\ queue' = [ i \in DOMAIN queue |-> [ queue[i] EXCEPT !.fresh = FALSE ] ]
  /\ entity' = [ e \in Entities |-> [ entity[e] EXCEPT !.write.fresh = FALSE ] ]
  /\ UNCHANGED << results, confirmed >>

\* A reload: new entities; the callbacks of the old ones do nothing any more.
Reload ==
  /\ Happens
  /\ entity' = [ e \in Entities |-> NewEntity ]
  /\ confirmed' = [ x \in Remembered |-> Unknown ]
  /\ results' = {}
  /\ queue' = [ i \in DOMAIN queue |-> [ queue[i] EXCEPT !.tracked = FALSE ] ]
  /\ doubtful' = [ x \in Remembered |-> TRUE ]
  /\ UNCHANGED car

Next ==
  \/ \E e \in Entities : Edit(e) \/ Fetch(e) \/ Post(e) \/ Command(e) \/ Ask(e) \/ Answer(e) \/ Install(e)
  \/ Apply \/ Finish \/ AppSets \/ Reload

Spec == Init /\ [][Next]_vars

\* Requests end, the car gets to its orders and polls recur.
Fairness ==
  /\ WF_vars(Apply) /\ WF_vars(Finish)
  /\ \A e \in Entities :
       /\ WF_vars(Fetch(e)) /\ WF_vars(Post(e)) /\ WF_vars(Command(e))
       /\ WF_vars(Ask(e)) /\ WF_vars(Answer(e)) /\ WF_vars(Install(e))

FairSpec == Spec /\ Fairness

---------------------------------------------------------------------------
(* Properties.                                                             *)

\* Editing one field never changes another, unless something else was written between
\* the read and the application.
OthersKept ==
  [][ \A f \in Fields :
        (Apply /\ Head(queue).fresh /\ Head(queue).by \in Fields \ {f})
          => car'.setting[f] = car.setting[f] ]_vars

\* A limit or departure time shown as confirmed is the one in effect, though an earlier
\* result may be reported later; heating may have been cancelled since.
ConfirmedShown ==
  /\ ("limit" \in Entities /\ ~ doubtful["limit"]) => confirmed["limit"] \in { Unknown, car.limit }
  /\ ("departure" \in Entities /\ ~ doubtful["departure"]) =>
       confirmed["departure"] = Unknown \/ car.departure \in { Off, confirmed["departure"] }

\* In the end every entity that can read shows what the car has.
ShownCatchesUp == <>[](\A e \in Readers : entity[e].data = Read(e))
=============================================================================
