--------------------------- MODULE ServicesProofs ---------------------------
(***************************************************************************)
(* Proofs about the services of one vehicle: the climate settings (CInv),  *)
(* the charging entities of BeanTech (BInv) and the China remote controls  *)
(* (PInv); those about the charging plan are ChargingPlanProofs'.          *)
(***************************************************************************)
EXTENDS VehicleServices, ChargingPlanProofs

---------------------------------------------------------------------------
(* Climate settings.                                                       *)

Places == { "idle", "basics", "status", "update", "send", "companion" }
CallRecords ==
  [ at : Places, ask : C!Asks, basics : C!StoredSettings \cup { C!NoSetting },
    setting : C!Settings \cup { C!NoSetting }, sends : BOOLEAN, alone : BOOLEAN ]

\* What a call leaves with, and what is remembered.
Sendable(s) == s \in C!Settings /\ (~ C!Overseas => s.temp \in 17 .. 31)
Outgoing ==
  /\ saved # C!NoSetting => Sendable(saved)
  /\ \A c \in Requests :
       /\ requests[c].at \in { "update", "send", "companion" } => Sendable(requests[c].setting)
       /\ requests[c].at = "companion" => ~ C!Overseas
       /\ requests[c].at = "update" => C!Saves(requests[c].ask)

\* A call that is alone is the only one.
Single ==
  \A c, d \in Requests :
    requests[c].at # "idle" /\ requests[c].alone /\ d # c => requests[d].at = "idle"

\* What the user was told is what is saved, while nobody is past saving or overlaps.
Before == { "basics", "status", "update" }
Settled ==
  \A c \in Requests :
    requests[c].at # "idle" /\ C!Saves(requests[c].ask) => requests[c].alone /\ requests[c].at \in Before
Agree(s) == told.temp \in { C!NoValue, s.temp } /\ told.time \in { C!NoValue, s.time }
Told == told.clean /\ Settled => Agree(saved)

\* What the user will be told when a call returns is what it saves.
Brings(call) ==
  /\ IF call.ask.temp = C!NoValue THEN told.temp \in { C!NoValue, call.setting.temp }
     ELSE call.setting.temp = call.ask.temp
  /\ IF call.ask.time = C!NoValue THEN told.time \in { C!NoValue, call.setting.time }
     ELSE call.setting.time = call.ask.time
Brought ==
  \A c \in Requests :
    LET call == requests[c] IN
    call.at \in { "update", "send", "companion" } /\ call.alone /\ told.clean /\ C!Saves(call.ask) =>
      /\ Brings(call)
      /\ call.at # "update" => saved = call.setting

CInv == C!TypeOK /\ requests \in [ Requests -> CallRecords ] /\ Outgoing /\ Single /\ Told /\ Brought

---------------------------------------------------------------------------

LEMMA Ranges ==
  ASSUME C!Bounds
  PROVE  /\ C!Temps \subseteq 16 .. 32 /\ C!Times \subseteq 5 .. 30
         /\ \A t \in Int : C!NormalTemp(t) \in 16 .. 32 /\ C!NormalTime(t) \in 5 .. 30
         /\ \A t \in 16 .. 32 : C!NormalTemp(t) = t
         /\ \A t \in 5 .. 30 : C!NormalTime(t) = t /\ C!NormalTime(t * 60) = t
<1>1. \A t \in Int : C!NormalTemp(t) \in 16 .. 32
  BY DEF C!NormalTemp, C!NoValue
<1>2. \A t \in Int : C!NormalTime(t) \in 5 .. 30
  BY DEF C!NormalTime, C!IsMinutes
<1>3. \A t \in 16 .. 32 : C!NormalTemp(t) = t
  BY DEF C!NormalTemp, C!NoValue
<1>4. ASSUME NEW t \in 5 .. 30
      PROVE  C!NormalTime(t) = t /\ C!NormalTime(t * 60) = t
  <2>1. (t * 60) % 60 = 0 /\ (t * 60) \div 60 = t /\ t * 60 \notin 5 .. 30
    OBVIOUS
  <2> QED BY <2>1 DEF C!NormalTime, C!IsMinutes
<1>5. \A s \in AppSettings : s.temp \in Int /\ s.time \in Int
  BY DEF C!Bounds
<1>6. C!Temps \subseteq 16 .. 32
  <2>1. ASSUME NEW t \in C!Temps
        PROVE  t \in 16 .. 32
    <3>1. CASE t \in UserTemps
      BY <3>1 DEF C!Bounds
    <3>2. CASE t \in C!Presets \cup {16, 22, 32}
      BY <3>2 DEF C!Presets
    <3>3. CASE \E r \in AppSettings : t = C!NormalTemp(r.temp)
      BY <3>3, <1>1, <1>5
    <3> QED BY <2>1, <3>1, <3>2, <3>3 DEF C!Temps
  <2> QED BY <2>1
<1>7. C!Times \subseteq 5 .. 30
  <2>1. ASSUME NEW t \in C!Times
        PROVE  t \in 5 .. 30
    <3>1. CASE t \in UserTimes
      BY <3>1 DEF C!Bounds
    <3>2. CASE t = 15
      BY <3>2
    <3>3. CASE \E r \in AppSettings : t = C!NormalTime(r.time)
      BY <3>3, <1>2, <1>5
    <3> QED BY <2>1, <3>1, <3>2, <3>3 DEF C!Times
  <2> QED BY <2>1
<1> QED BY <1>1, <1>2, <1>3, <1>4, <1>6, <1>7

\* What is stored or remembered gives a temperature and a run time of the kinds looked at.
LEMMA KnownFits ==
  ASSUME C!Bounds, NEW s \in C!StoredSettings \cup C!Settings \cup { C!NoSetting }
  PROVE  C!NormalTemp(s.temp) \in C!Temps /\ C!NormalTime(s.time) \in C!Times
<1>1. CASE s \in AppSettings
  BY <1>1 DEF C!Temps, C!Times
<1>2. CASE s = C!Default \/ s = C!NoSetting
  <2>1. C!NormalTemp(22) = 22 /\ C!NormalTemp(C!NoValue) = 22 /\ C!NormalTime(900) = 15
    BY DEF C!NormalTemp, C!NormalTime, C!NoValue, C!IsMinutes
  <2>2. C!NormalTime(C!NoValue) = 15
    BY DEF C!NormalTime, C!NoValue, C!IsMinutes
  <2> QED BY <1>2, <2>1, <2>2 DEF C!Default, C!NoSetting, C!Temps, C!Times
<1>3. ASSUME NEW r \in C!Settings
      PROVE  /\ C!NormalTemp(r.temp) = r.temp /\ C!NormalTime(r.time) = r.time
             /\ C!NormalTime(r.time * 60) = r.time /\ r.temp \in C!Temps /\ r.time \in C!Times
  <2>1. r.temp \in C!Temps /\ r.time \in C!Times
    BY DEF C!Settings
  <2> QED BY <2>1, Ranges
<1>4. CASE \E r \in C!Settings : s = C!Stored(r)
  BY <1>3, <1>4 DEF C!Stored
<1> QED BY <1>1, <1>2, <1>3, <1>4 DEF C!StoredSettings

LEMMA AskFits ==
  ASSUME C!Bounds, supplier \in Suppliers, NEW ask \in C!Asks
  PROVE  /\ ask.kind \in C!Kinds
         /\ \/ ask.temp = C!NoValue
            \/ ask.temp \in (UserTemps \cup C!Presets) /\ (~ C!Overseas => ask.temp \in 17 .. 31)
         /\ ask.time = C!NoValue \/ ask.time \in UserTimes
         /\ ask.kind = "temp" => ask.temp \in UserTemps
         /\ ask.kind = "stop" => ask.temp = C!NoValue /\ ask.time = C!NoValue
         /\ ask.kind = "start" => ask.temp = C!NoValue /\ ask.time = C!NoValue
BY DEF C!Asks, C!Kinds, C!Presets, C!Choosable, C!Bounds, C!Overseas

\* What a call resolves to can be sent, and has what was asked for and what was saved.
LEMMA ResolvedFits ==
  ASSUME C!Bounds, C!TypeOK, NEW ask \in C!Asks, NEW basics \in C!StoredSettings \cup { C!NoSetting },
         C!Resolved(ask, basics) # C!NoSetting
  PROVE  LET s == C!Resolved(ask, basics) IN
         /\ Sendable(s)
         /\ ask.temp # C!NoValue => s.temp = ask.temp
         /\ ask.time # C!NoValue => s.time = ask.time
         /\ ask.temp = C!NoValue /\ saved # C!NoSetting /\ (C!Overseas \/ saved.temp \in 17 .. 31) =>
                 s.temp = saved.temp
         /\ ask.time = C!NoValue /\ saved # C!NoSetting => s.time = saved.time
<1> DEFINE s == C!Resolved(ask, basics)
           known == C!Known(basics)
           temp == IF ask.temp # C!NoValue THEN C!NormalTemp(ask.temp) ELSE C!NormalTemp(known.temp)
           kept == IF ~ C!Overseas /\ temp \notin 17 .. 31 THEN 22 ELSE temp
           time == IF ask.time # C!NoValue THEN ask.time ELSE C!NormalTime(known.time)
<1>1. s = [ temp |-> kept, time |-> time ]
  BY DEF C!Resolved
<1>2. known \in C!StoredSettings \cup C!Settings \cup { C!NoSetting }
  BY DEF C!Known, C!TypeOK
<1>3. C!NormalTemp(known.temp) \in C!Temps /\ C!NormalTime(known.time) \in C!Times
  BY <1>2, KnownFits
<1>4. ask.temp # C!NoValue => /\ ask.temp \in UserTemps \cup C!Presets /\ C!NormalTemp(ask.temp) = ask.temp
                              /\ ~ C!Overseas => ask.temp \in 17 .. 31
  <2> SUFFICES ASSUME ask.temp # C!NoValue
               PROVE  /\ ask.temp \in UserTemps \cup C!Presets /\ C!NormalTemp(ask.temp) = ask.temp
                      /\ ~ C!Overseas => ask.temp \in 17 .. 31
    OBVIOUS
  <2>1. ask.temp \in UserTemps \cup C!Presets /\ (~ C!Overseas => ask.temp \in 17 .. 31)
    BY AskFits DEF C!TypeOK
  <2>2. ask.temp \in 16 .. 32
    BY <2>1, Ranges DEF C!Temps
  <2> QED BY <2>1, <2>2, Ranges
<1>5. ask.time # C!NoValue => ask.time \in UserTimes
  BY AskFits DEF C!TypeOK
<1>6. temp \in C!Temps /\ kept \in C!Temps /\ time \in C!Times
  BY <1>3, <1>4, <1>5 DEF C!Temps, C!Times
<1>7. ASSUME saved # C!NoSetting
      PROVE  C!NormalTemp(known.temp) = saved.temp /\ C!NormalTime(known.time) = saved.time
  <2>1. saved.temp \in C!Temps /\ saved.time \in C!Times /\ known = saved
    BY <1>7 DEF C!TypeOK, C!Settings, C!Known
  <2> QED BY <2>1, Ranges
<1>8. Sendable(s)
  BY <1>1, <1>6 DEF Sendable, C!Settings
<1> HIDE DEF temp
<1>9. ask.temp # C!NoValue => kept = ask.temp
  BY <1>4 DEF temp
<1>10. ask.temp = C!NoValue /\ saved # C!NoSetting /\ (C!Overseas \/ saved.temp \in 17 .. 31) =>
        kept = saved.temp
  BY <1>7 DEF temp
<1> QED BY <1>1, <1>7, <1>8, <1>9, <1>10

---------------------------------------------------------------------------
(* What a step makes of a call.                                            *)

LEMMA AsksStay ==
  ASSUME supplier' = supplier
  PROVE  C!Overseas' = C!Overseas /\ C!Asks' = C!Asks /\ CallRecords' = CallRecords
<1>1. C!Overseas' = C!Overseas
  BY DEF C!Overseas
<1>2. C!Asks' = C!Asks
  BY <1>1 DEF C!Asks, C!Choosable
<1> QED BY <1>1, <1>2 DEF CallRecords

\* A call that goes on to another place.
LEMMA GoesOn ==
  ASSUME CInv, NEW c \in Requests, NEW r \in CallRecords,
         requests[c].at # "idle", requests' = [ requests EXCEPT ![c] = r ],
         r.at # "idle", r.ask = requests[c].ask, r.alone = requests[c].alone,
         supplier' = supplier, told' = told, saved' # C!NoSetting => Sendable(saved'),
         r.at \in { "update", "send", "companion" } => Sendable(r.setting),
         r.at = "companion" => ~ C!Overseas,
         r.at = "update" => C!Saves(r.ask),
         requests[c].at \in Before \/ r.at \notin Before,
         r.at \in Before \/ ~ C!Saves(r.ask) => saved' = saved,
         r.at \in { "update", "send", "companion" } /\ r.alone /\ told.clean /\ C!Saves(r.ask) =>
           Brings(r) /\ (r.at # "update" => saved' = r.setting)
  PROVE  requests' \in [ Requests -> CallRecords ]' /\ Outgoing' /\ Single' /\ Told' /\ Brought'
<1>1. requests \in [ Requests -> CallRecords ] /\ Outgoing /\ Single /\ Told /\ Brought
  BY DEF CInv
<1>2. requests'[c] = r /\ \A d \in Requests : d # c => requests'[d] = requests[d]
  BY <1>1
<1>3. requests' \in [ Requests -> CallRecords ]'
  BY <1>1, AsksStay
<1>4. \A s : Sendable(s)' <=> Sendable(s)
  BY AsksStay DEF Sendable
<1>5. Outgoing'
  BY <1>1, <1>2, <1>4, AsksStay DEF Outgoing
<1>6. Single'
  BY <1>1, <1>2 DEF Single
<1>7. ASSUME told.clean, Settled'
      PROVE  Agree(saved')
  <2>1. ASSUME NEW d \in Requests, d # c, requests[d].at # "idle", C!Saves(requests[d].ask)
        PROVE  requests[d].alone /\ requests[d].at \in Before
    BY <1>2, <1>7, <2>1 DEF Settled, C!Saves
  <2>2. C!Saves(r.ask) => r.alone /\ r.at \in Before
    BY <1>2, <1>7 DEF Settled, C!Saves
  <2>3. saved' = saved
    BY <2>2
  <2>4. Settled
    BY <2>1, <2>2 DEF Settled
  <2> QED BY <1>1, <1>7, <2>3, <2>4 DEF Told
<1>8. Told'
  BY <1>7 DEF Told, Agree
<1>9. ASSUME NEW d \in Requests, requests'[d].at \in { "update", "send", "companion" }, requests'[d].alone,
             told.clean, C!Saves(requests'[d].ask)
      PROVE  Brings(requests'[d]) /\ (requests'[d].at # "update" => saved' = requests'[d].setting)
  <2>1. d = c
    BY <1>1, <1>2, <1>9 DEF Single
  <2> QED BY <1>2, <1>9, <2>1
<1>10. Brought'
  BY <1>9 DEF Brought, Brings, C!Saves
<1> QED BY <1>3, <1>5, <1>6, <1>8, <1>10

\* A call that ends: told of it, if at all, is what was saved.
LEMMA CallEnds ==
  ASSUME CInv, NEW c \in Requests,
         requests[c].at # "idle", requests' = [ requests EXCEPT ![c] = C!Idle ], supplier' = supplier,
         saved' # C!NoSetting => Sendable(saved'),
         ~ C!Saves(requests[c].ask) => saved' = saved /\ told' = told,
         C!Saves(requests[c].ask) =>
           \/ told' = C!Untold
           \/ told'.clean => /\ told'.temp \in { C!NoValue, saved'.temp }
                             /\ told'.time \in { C!NoValue, saved'.time }
  PROVE  requests' \in [ Requests -> CallRecords ]' /\ Outgoing' /\ Single' /\ Told' /\ Brought'
<1>1. requests \in [ Requests -> CallRecords ] /\ Outgoing /\ Single /\ Told /\ Brought
  BY DEF CInv
<1>2. requests'[c] = C!Idle /\ \A d \in Requests : d # c => requests'[d] = requests[d]
  BY <1>1
<1>3. C!Idle \in CallRecords
  BY DEF C!Idle, CallRecords, Places, C!Asks, C!NoAsk
<1>4. requests' \in [ Requests -> CallRecords ]'
  BY <1>1, <1>3, AsksStay
<1>5. \A s : Sendable(s)' <=> Sendable(s)
  BY AsksStay DEF Sendable
<1>6. Outgoing'
  BY <1>1, <1>2, <1>5, AsksStay DEF Outgoing, C!Idle
<1>7. Single'
  BY <1>1, <1>2 DEF Single, C!Idle
<1>8. Told'
  <2>1. CASE ~ C!Saves(requests[c].ask)
    <3>1. Settled' => Settled
      BY <1>2, <2>1 DEF Settled, C!Saves
    <3> QED BY <1>1, <2>1, <3>1 DEF Told, Agree
  <2>2. CASE C!Saves(requests[c].ask)
    BY <2>2 DEF Told, Agree, C!Untold
  <2> QED BY <2>1, <2>2
<1>9. ASSUME NEW d \in Requests, requests'[d].at \in { "update", "send", "companion" }, requests'[d].alone
      PROVE  FALSE
  <2>1. d # c
    BY <1>2, <1>9 DEF C!Idle
  <2> QED BY <1>1, <1>2, <1>9, <2>1 DEF Single
<1>10. Brought'
  BY <1>9 DEF Brought
<1> QED BY <1>4, <1>6, <1>7, <1>8, <1>10

LEMMA ResolvedBrings ==
  ASSUME C!Bounds, CInv, NEW c \in Requests, NEW basics \in C!StoredSettings \cup { C!NoSetting },
         requests[c].at \in Before, requests[c].alone, told.clean,
         C!Resolved(requests[c].ask, basics) # C!NoSetting
  PROVE  LET ask == requests[c].ask
             s == C!Resolved(ask, basics) IN
         /\ IF ask.temp = C!NoValue THEN told.temp \in { C!NoValue, s.temp } ELSE s.temp = ask.temp
         /\ IF ask.time = C!NoValue THEN told.time \in { C!NoValue, s.time } ELSE s.time = ask.time
<1> DEFINE ask == requests[c].ask
           s == C!Resolved(ask, basics)
<1>1. C!TypeOK /\ ask \in C!Asks /\ Outgoing /\ Single /\ Told
  BY DEF CInv, CallRecords
<1>2. Settled
  BY <1>1 DEF Settled, Single, Before
<1>3. Agree(saved)
  BY <1>1, <1>2 DEF Told
<1>4. /\ ask.temp # C!NoValue => s.temp = ask.temp
      /\ ask.time # C!NoValue => s.time = ask.time
      /\ ask.temp = C!NoValue /\ saved # C!NoSetting /\ (C!Overseas \/ saved.temp \in 17 .. 31) =>
              s.temp = saved.temp
      /\ ask.time = C!NoValue /\ saved # C!NoSetting => s.time = saved.time
  BY <1>1, ResolvedFits
<1>5. saved = C!NoSetting => told.temp = C!NoValue /\ told.time = C!NoValue
  BY <1>3 DEF Agree, C!NoSetting
<1>6. saved # C!NoSetting => C!Overseas \/ saved.temp \in 17 .. 31
  BY <1>1 DEF Outgoing, Sendable
<1> QED BY <1>3, <1>4, <1>5, <1>6 DEF Agree

\* The types of what a call that ends leaves.
LEMMA ReturnsFields ==
  ASSUME C!Bounds, CInv, NEW c \in Requests, C!Returns(c)
  PROVE  LET ask == requests[c].ask IN
         /\ requested' \in UserTemps \cup { C!NoValue }
         /\ told' \in [ temp : UserTemps \cup C!Presets \cup { C!NoValue }, time : UserTimes \cup { C!NoValue },
                        clean : BOOLEAN ]
         /\ ~ C!Saves(ask) => told' = told
         /\ C!Saves(ask) => /\ told'.temp = IF ask.temp = C!NoValue THEN told.temp ELSE ask.temp
                            /\ told'.time = IF ask.time = C!NoValue THEN told.time ELSE ask.time
                            /\ told'.clean = (told.clean /\ requests[c].alone)
<1> DEFINE ask == requests[c].ask
<1>1. C!TypeOK /\ ask \in C!Asks /\ requests[c].alone \in BOOLEAN
  BY DEF CInv, CallRecords
<1>2. /\ ask.temp = C!NoValue \/ ask.temp \in UserTemps \cup C!Presets
      /\ ask.time = C!NoValue \/ ask.time \in UserTimes
      /\ ask.kind = "temp" => ask.temp \in UserTemps
  BY <1>1, AskFits DEF C!TypeOK
<1> QED BY <1>1, <1>2 DEF C!Returns, C!TypeOK, C!Saves

LEMMA RaisesFields ==
  ASSUME CInv, NEW c \in Requests, C!Raises(c)
  PROVE  /\ told' \in [ temp : UserTemps \cup C!Presets \cup { C!NoValue }, time : UserTimes \cup { C!NoValue },
                        clean : BOOLEAN ]
         /\ requested' = requested
         /\ C!Saves(requests[c].ask) => told' = C!Untold
         /\ ~ C!Saves(requests[c].ask) => told' = told
BY DEF CInv, C!TypeOK, C!Raises, C!Saves, C!Untold

LEMMA CallTypes ==
  ASSUME requests' \in [ Requests -> CallRecords ]'
  PROVE  \A c \in Requests : /\ requests'[c].at \in Places
                              /\ requests'[c].setting \in C!Settings \cup { C!NoSetting }
<1>1. \A c \in Requests : requests'[c] \in CallRecords'
  OBVIOUS
<1> QED BY <1>1 DEF CallRecords

LEMMA ResolveKeeps ==
  ASSUME C!Bounds, CInv, NEW c \in Requests, NEW basics \in C!StoredSettings \cup { C!NoSetting },
         NEW on \in BOOLEAN, requests[c].at \in { "basics", "status" },
         C!Resolve(c, basics, on), supplier' = supplier
  PROVE  CInv'
<1> DEFINE ask == requests[c].ask
           s == C!Resolved(ask, basics)
           next == IF C!Saves(ask) /\ C!Overseas THEN "update" ELSE "send"
           r == [ requests[c] EXCEPT !.at = next, !.setting = s, !.basics = C!NoSetting, !.sends = C!Sends(ask, on) ]
<1>1. /\ C!TypeOK /\ ask \in C!Asks /\ Outgoing /\ requests[c] \in CallRecords /\ requests[c].at \in Before
      /\ requests \in [ Requests -> CallRecords ]
  BY DEF CInv, CallRecords, Before
<1>2. CASE s = C!NoSetting
  <2>1. C!Raises(c) /\ saved' = saved /\ setting' = setting /\ answer' = answer
    BY <1>2 DEF C!Resolve
  <2>2. requests' \in [ Requests -> CallRecords ]' /\ Outgoing' /\ Single' /\ Told' /\ Brought'
    BY <1>1, <2>1, RaisesFields, CallEnds DEF C!Raises, Outgoing, Before
  <2>3. C!TypeOK'
    BY <1>1, <2>1, <2>2, RaisesFields, CallTypes DEF C!TypeOK, Places
  <2> QED BY <2>2, <2>3 DEF CInv
<1>3. CASE s # C!NoSetting
  <2>1. Sendable(s)
    BY <1>1, <1>3, ResolvedFits
  <2>2. /\ setting' \in C!StoredSettings /\ answer' \in C!StoredSettings
        /\ saved' = IF C!Saves(ask) /\ ~ C!Overseas THEN s ELSE saved
        /\ saved' \in C!Settings \cup { C!NoSetting }
        /\ saved' # C!NoSetting => Sendable(saved')
    BY <1>1, <1>3, <2>1 DEF C!Resolve, C!TypeOK, Sendable, C!StoredSettings, Outgoing
  <2>3. CASE next = "send" /\ ~ C!Sends(ask, on)
    <3>1. C!Returns(c)
      BY <1>3, <2>3 DEF C!Resolve
    <3>2. C!Saves(ask) /\ ~ C!Overseas
      BY <1>1, <2>3, AskFits DEF C!Sends, C!Saves, C!Kinds, C!TypeOK
    <3>3. told'.clean => /\ told'.temp \in { C!NoValue, saved'.temp }
                         /\ told'.time \in { C!NoValue, saved'.time }
      <4> SUFFICES ASSUME told'.clean
                   PROVE  told'.temp \in { C!NoValue, saved'.temp } /\ told'.time \in { C!NoValue, saved'.time }
        OBVIOUS
      <4>1. /\ told'.temp = IF ask.temp = C!NoValue THEN told.temp ELSE ask.temp
            /\ told'.time = IF ask.time = C!NoValue THEN told.time ELSE ask.time
            /\ told.clean /\ requests[c].alone
        BY <3>1, <3>2, ReturnsFields
      <4>2. /\ IF ask.temp = C!NoValue THEN told.temp \in { C!NoValue, s.temp } ELSE s.temp = ask.temp
            /\ IF ask.time = C!NoValue THEN told.time \in { C!NoValue, s.time } ELSE s.time = ask.time
        BY <1>1, <1>3, <4>1, ResolvedBrings
      <4>3. saved' = s
        BY <2>2, <3>2
      <4> HIDE DEF s, ask
      <4> QED BY <4>1, <4>2, <4>3
    <3>4. requests' \in [ Requests -> CallRecords ]' /\ Outgoing' /\ Single' /\ Told' /\ Brought'
      BY <1>1, <2>2, <3>1, <3>2, <3>3, CallEnds DEF C!Returns, Before
    <3>5. C!TypeOK'
      BY <1>1, <2>2, <3>1, <3>4, ReturnsFields, CallTypes DEF C!TypeOK, Places
    <3> QED BY <3>4, <3>5 DEF CInv
  <2>4. CASE ~ (next = "send" /\ ~ C!Sends(ask, on))
    <3>1. requests' = [ requests EXCEPT ![c] = r ] /\ requested' = requested /\ told' = told
      BY <1>3, <2>4 DEF C!Resolve
    <3>2. C!Sends(ask, on) \in BOOLEAN
      BY DEF C!Sends
    <3>3. /\ r \in CallRecords /\ r.at = next /\ r.setting = s /\ r.ask = ask
          /\ r.alone = requests[c].alone
      BY <1>1, <2>1, <3>2 DEF CallRecords, Sendable, Places
    <3>4. r.alone /\ told.clean => Brings(r)
      BY <1>1, <1>3, <3>3, ResolvedBrings DEF Brings
    <3>5. requests' \in [ Requests -> CallRecords ]' /\ Outgoing' /\ Single' /\ Told' /\ Brought'
      <4>1. next \in { "update", "send" } /\ (next = "update" <=> C!Saves(ask) /\ C!Overseas)
        OBVIOUS
      <4>2. next = "update" \/ ~ C!Saves(ask) => saved' = saved
        BY <2>2
      <4>3. C!Saves(ask) /\ next # "update" => saved' = s
        BY <2>2
      <4> HIDE DEF r, s, next
      <4>4. r.at # "companion" /\ r.at # "idle"
        BY <3>3, <4>1
      <4>5. r.at \in Before \/ ~ C!Saves(r.ask) => saved' = saved
        BY <3>3, <4>1, <4>2 DEF Before
      <4>6. C!Saves(r.ask) /\ r.at # "update" => saved' = r.setting
        BY <3>3, <4>3
      <4>7. requests[c].at # "idle" /\ requests[c].at \in Before
        BY <1>1 DEF Before
      <4>8. r.at = "update" => C!Saves(r.ask)
        BY <3>3, <4>1
      <4> QED
        BY <1>1, <2>1, <2>2, <3>1, <3>3, <3>4, <4>4, <4>5, <4>6, <4>7, <4>8, GoesOn
    <3>6. C!TypeOK'
      BY <1>1, <2>2, <3>1, <3>5, CallTypes DEF C!TypeOK, Places
    <3> QED BY <3>5, <3>6 DEF CInv
  <2> QED BY <2>3, <2>4
<1> QED BY <1>2, <1>3

---------------------------------------------------------------------------
(* The steps.                                                              *)

LEMMA BeginKeeps ==
  ASSUME C!Bounds, CInv, NEW c \in Requests, C!Begin(c)
  PROVE  CInv'
<1>1. C!TypeOK /\ requests \in [ Requests -> CallRecords ] /\ Outgoing /\ Single /\ Told /\ Brought
  BY DEF CInv
<1>2. PICK ask \in C!Asks :
        requests' = [ d \in Requests |->
                        IF d = c
                        THEN [ C!Idle EXCEPT !.at = "basics", !.ask = ask,
                                             !.alone = \A e \in Requests : requests[e].at = "idle" ]
                        ELSE [ requests[d] EXCEPT !.alone = FALSE ] ]
  BY DEF C!Begin
<1>3. /\ requests[c].at = "idle" /\ UNCHANGED << supplier, setting, answer, saved, requested, told >>
  BY DEF C!Begin
<1> DEFINE first == \A e \in Requests : requests[e].at = "idle"
<1>4. /\ requests'[c].at = "basics" /\ requests'[c].ask = ask /\ (requests'[c].alone <=> first)
      /\ requests'[c] \in CallRecords
  BY <1>2 DEF C!Idle, CallRecords, Places
<1>5. ASSUME NEW d \in Requests, d # c
      PROVE  /\ requests'[d] \in CallRecords /\ requests'[d].at = requests[d].at /\ ~ requests'[d].alone
             /\ requests'[d].ask = requests[d].ask /\ requests'[d].setting = requests[d].setting
  BY <1>1, <1>2, <1>5 DEF CallRecords
<1>6. requests' \in [ Requests -> CallRecords ]'
  <2>1. \A d \in Requests : requests'[d] \in CallRecords
    BY <1>4, <1>5
  <2> QED BY <1>2, <1>3, <2>1, AsksStay
<1>7. Outgoing'
  BY <1>1, <1>3, <1>4, <1>5, AsksStay DEF Outgoing, Sendable
<1>8. Single'
  BY <1>4, <1>5 DEF Single
<1>9. Told'
  <2>1. Settled' => Settled
    <3> SUFFICES ASSUME Settled', NEW d \in Requests, requests[d].at # "idle", C!Saves(requests[d].ask)
                 PROVE  FALSE
      BY DEF Settled
    <3>1. d # c
      BY <1>3
    <3>2. requests'[d].at # "idle" /\ C!Saves(requests'[d].ask) /\ ~ requests'[d].alone
      BY <1>5, <3>1
    <3> QED BY <3>2 DEF Settled, C!Saves
  <2> QED BY <1>1, <1>3, <2>1 DEF Told, Agree
<1>10. Brought'
  BY <1>4, <1>5 DEF Brought
<1>11. C!TypeOK'
  BY <1>1, <1>3, <1>6, CallTypes DEF C!TypeOK, Places
<1> QED BY <1>6, <1>7, <1>8, <1>9, <1>10, <1>11 DEF CInv

LEMMA ReadKeeps ==
  ASSUME C!Bounds, CInv, NEW c \in Requests, C!Basics(c) \/ C!Status(c)
  PROVE  CInv'
<1>1. /\ C!TypeOK /\ requests \in [ Requests -> CallRecords ] /\ requests[c] \in CallRecords
      /\ Outgoing /\ supplier' = supplier
  BY DEF CInv, C!Basics, C!Status
<1>2. requests[c].basics \in C!StoredSettings \cup { C!NoSetting } /\ requests[c].at \in Before /\ requests[c].at # "idle"
  BY <1>1 DEF CallRecords, C!Basics, C!Status, Before
<1>3. CASE C!Raises(c) /\ UNCHANGED << setting, answer, saved >>
  <2>1. requests' \in [ Requests -> CallRecords ]' /\ Outgoing' /\ Single' /\ Told' /\ Brought'
    BY <1>1, <1>2, <1>3, RaisesFields, CallEnds DEF C!Raises, Outgoing
  <2>2. C!TypeOK'
    BY <1>1, <1>3, <2>1, RaisesFields, CallTypes DEF C!TypeOK, Places
  <2> QED BY <2>1, <2>2 DEF CInv
<1>4. CASE \E basics \in C!StoredSettings \cup { C!NoSetting }, on \in BOOLEAN :
             requests[c].at \in { "basics", "status" } /\ C!Resolve(c, basics, on)
  BY <1>1, <1>4, ResolveKeeps
<1>5. ASSUME NEW basics \in C!StoredSettings \cup { C!NoSetting },
             requests' = [ requests EXCEPT ![c].at = "status", ![c].basics = basics ],
             UNCHANGED << setting, answer, saved, requested, told >>
      PROVE  CInv'
  <2> DEFINE r == [ requests[c] EXCEPT !.at = "status", !.basics = basics ]
  <2>1. /\ requests' = [ requests EXCEPT ![c] = r ] /\ r \in CallRecords /\ r.at = "status"
        /\ r.ask = requests[c].ask /\ r.alone = requests[c].alone
    BY <1>1, <1>5 DEF CallRecords, Places
  <2>2. requests' \in [ Requests -> CallRecords ]' /\ Outgoing' /\ Single' /\ Told' /\ Brought'
    <3> HIDE DEF r
    <3> QED BY <1>1, <1>2, <1>5, <2>1, GoesOn DEF Outgoing
  <2>3. C!TypeOK'
    BY <1>1, <1>5, <2>2, CallTypes DEF C!TypeOK, Places
  <2> QED BY <2>2, <2>3 DEF CInv
<1>6. answer \in C!StoredSettings
  BY <1>1 DEF C!TypeOK
<1> QED BY <1>2, <1>3, <1>4, <1>5, <1>6 DEF C!Basics, C!Status

LEMMA UpdateKeeps ==
  ASSUME C!Bounds, CInv, NEW c \in Requests, C!Update(c)
  PROVE  CInv'
<1>1. /\ C!TypeOK /\ requests \in [ Requests -> CallRecords ] /\ requests[c] \in CallRecords
      /\ Outgoing /\ Brought /\ supplier' = supplier /\ answer' = answer /\ requests[c].at = "update"
      /\ requests[c].at \in Before
  BY DEF CInv, C!Update, Before
<1> DEFINE s == requests[c].setting
<1>2. Sendable(s) /\ s \in C!Settings /\ C!Stored(s) \in C!StoredSettings
  BY <1>1 DEF Outgoing, Sendable, C!StoredSettings
<1>3. setting' \in C!StoredSettings
  BY <1>1, <1>2 DEF C!Update, C!TypeOK
<1>4. CASE C!Raises(c) /\ saved' = saved
  <2>1. requests' \in [ Requests -> CallRecords ]' /\ Outgoing' /\ Single' /\ Told' /\ Brought'
    BY <1>1, <1>4, RaisesFields, CallEnds DEF C!Raises, Outgoing
  <2>2. C!TypeOK'
    BY <1>1, <1>3, <1>4, <2>1, RaisesFields, CallTypes DEF C!TypeOK, Places
  <2> QED BY <2>1, <2>2 DEF CInv
<1>5. CASE saved' = s /\ C!Goes(c, "send")
  <2> DEFINE r == [ requests[c] EXCEPT !.at = "send" ]
  <2>1. /\ requests' = [ requests EXCEPT ![c] = r ] /\ r \in CallRecords /\ r.at = "send"
        /\ r.ask = requests[c].ask /\ r.alone = requests[c].alone /\ r.setting = s
        /\ requested' = requested /\ told' = told
    BY <1>1, <1>5 DEF CallRecords, Places, C!Goes
  <2>2. C!Saves(requests[c].ask)
    BY <1>1 DEF Outgoing
  <2>3. r.alone /\ told.clean => Brings(r)
    BY <1>1, <2>1, <2>2 DEF Brought, Brings
  <2>4. requests' \in [ Requests -> CallRecords ]' /\ Outgoing' /\ Single' /\ Told' /\ Brought'
    <3> HIDE DEF r
    <3> QED BY <1>1, <1>2, <1>5, <2>1, <2>2, <2>3, GoesOn DEF Before
  <2>5. C!TypeOK'
    BY <1>1, <1>2, <1>3, <1>5, <2>1, <2>4, CallTypes DEF C!TypeOK, Places
  <2> QED BY <2>4, <2>5 DEF CInv
<1>6. CASE saved' = s /\ C!Returns(c)
  <2>2. C!Saves(requests[c].ask)
    BY <1>1 DEF Outgoing
  <2>3. told'.clean => /\ told'.temp \in { C!NoValue, s.temp } /\ told'.time \in { C!NoValue, s.time }
    BY <1>1, <1>6, <2>2, ReturnsFields DEF Brought, Brings
  <2>4. requests' \in [ Requests -> CallRecords ]' /\ Outgoing' /\ Single' /\ Told' /\ Brought'
    BY <1>1, <1>2, <1>6, <2>2, <2>3, CallEnds DEF C!Returns
  <2>5. C!TypeOK'
    BY <1>1, <1>2, <1>3, <1>6, <2>4, ReturnsFields, CallTypes DEF C!TypeOK, Places
  <2> QED BY <2>4, <2>5 DEF CInv
<1> QED BY <1>4, <1>5, <1>6 DEF C!Update

LEMMA SendKeeps ==
  ASSUME C!Bounds, CInv, NEW c \in Requests, C!Send(c) \/ C!Companion(c)
  PROVE  CInv'
<1>1. /\ C!TypeOK /\ requests \in [ Requests -> CallRecords ] /\ requests[c] \in CallRecords
      /\ Outgoing /\ Brought /\ UNCHANGED << supplier, setting, answer, saved >>
      /\ requests[c].at \in { "send", "companion" }
  BY DEF CInv, C!Send, C!Companion
<1>2. requests[c].at \notin Before /\ requests[c].at # "idle" /\ (saved' # C!NoSetting => Sendable(saved'))
  BY <1>1 DEF Before, Outgoing
<1>3. CASE C!Raises(c)
  <2>1. requests' \in [ Requests -> CallRecords ]' /\ Outgoing' /\ Single' /\ Told' /\ Brought'
    BY <1>1, <1>2, <1>3, RaisesFields, CallEnds DEF C!Raises
  <2>2. C!TypeOK'
    BY <1>1, <1>3, <2>1, RaisesFields, CallTypes DEF C!TypeOK, Places
  <2> QED BY <2>1, <2>2 DEF CInv
<1>4. CASE C!Returns(c)
  <2>1. C!Saves(requests[c].ask) /\ told'.clean =>
          told'.temp \in { C!NoValue, saved'.temp } /\ told'.time \in { C!NoValue, saved'.time }
    BY <1>1, <1>4, ReturnsFields DEF Brought, Brings
  <2>2. requests' \in [ Requests -> CallRecords ]' /\ Outgoing' /\ Single' /\ Told' /\ Brought'
    BY <1>1, <1>2, <1>4, <2>1, ReturnsFields, CallEnds DEF C!Returns
  <2>3. C!TypeOK'
    BY <1>1, <1>4, <2>2, ReturnsFields, CallTypes DEF C!TypeOK, Places
  <2> QED BY <2>2, <2>3 DEF CInv
<1>5. CASE requests[c].at = "send" /\ ~ C!Overseas /\ C!Goes(c, "companion")
  <2> DEFINE r == [ requests[c] EXCEPT !.at = "companion" ]
  <2>1. /\ requests' = [ requests EXCEPT ![c] = r ] /\ r \in CallRecords /\ r.at = "companion"
        /\ r.ask = requests[c].ask /\ r.alone = requests[c].alone /\ r.setting = requests[c].setting
        /\ requested' = requested /\ told' = told
    BY <1>1, <1>5 DEF CallRecords, Places, C!Goes
  <2>2. Sendable(r.setting)
    BY <1>1, <2>1 DEF Outgoing
  <2>3. r.alone /\ told.clean /\ C!Saves(r.ask) => Brings(r) /\ saved' = r.setting
    BY <1>1, <1>5, <2>1 DEF Brought, Brings
  <2>4. requests' \in [ Requests -> CallRecords ]' /\ Outgoing' /\ Single' /\ Told' /\ Brought'
    <3> HIDE DEF r
    <3> QED BY <1>1, <1>2, <1>5, <2>1, <2>2, <2>3, GoesOn DEF Before
  <2>5. C!TypeOK'
    BY <1>1, <2>1, <2>4, CallTypes DEF C!TypeOK, Places
  <2> QED BY <2>4, <2>5 DEF CInv
<1> QED BY <1>3, <1>4, <1>5 DEF C!Send, C!Companion

LEMMA WorldKeeps ==
  ASSUME C!Bounds, CInv, C!AppSets \/ C!CatchUp \/ C!Restart
  PROVE  CInv'
<1>1. C!TypeOK /\ requests \in [ Requests -> CallRecords ] /\ Outgoing /\ Single /\ Told /\ Brought
      /\ supplier' = supplier
  BY DEF CInv, C!AppSets, C!CatchUp, C!Restart
<1>2. CASE C!AppSets \/ C!CatchUp
  <2>1. UNCHANGED << saved, requested, requests, told >>
    BY <1>2 DEF C!AppSets, C!CatchUp
  <2>2. setting' \in C!StoredSettings /\ answer' \in C!StoredSettings
    BY <1>1, <1>2 DEF C!AppSets, C!CatchUp, C!TypeOK, C!StoredSettings
  <2>3. requests' \in [ Requests -> CallRecords ]'
    BY <1>1, <2>1, AsksStay
  <2>4. Outgoing'
    BY <1>1, <2>1, AsksStay DEF Outgoing, Sendable
  <2>5. Single' /\ Told' /\ Brought'
    BY <1>1, <2>1 DEF Single, Told, Settled, Agree, C!Saves, Brought, Brings
  <2>6. C!TypeOK'
    BY <1>1, <2>1, <2>2 DEF C!TypeOK
  <2> QED BY <2>3, <2>4, <2>5, <2>6 DEF CInv
<1>3. CASE C!Restart
  <2>1. requests' = [ d \in Requests |-> C!Idle ] /\ saved' = C!NoSetting /\ told' = C!Untold /\ requested' = C!NoValue
    BY <1>3 DEF C!Restart
  <2>2. C!Idle \in CallRecords
    BY DEF C!Idle, CallRecords, Places, C!Asks, C!NoAsk
  <2>3. requests' \in [ Requests -> CallRecords ]'
    BY <1>1, <2>1, <2>2, AsksStay
  <2>4. Outgoing' /\ Single' /\ Brought'
    BY <2>1 DEF Outgoing, Single, Brought, C!Idle
  <2>5. Told'
    BY <2>1 DEF Told, Agree, C!Untold
  <2>6. setting' \in C!StoredSettings /\ answer' \in C!StoredSettings
    BY <1>1, <1>3 DEF C!Restart, C!TypeOK, C!StoredSettings
  <2>7. C!TypeOK'
    BY <1>1, <2>1, <2>3, <2>6, CallTypes DEF C!TypeOK, Places, C!Untold
  <2> QED BY <2>3, <2>4, <2>5, <2>7 DEF CInv
<1> QED BY <1>2, <1>3

LEMMA StartsWell ==
  ASSUME C!Bounds, C!Init
  PROVE  CInv
<1>1. /\ requests = [ c \in Requests |-> C!Idle ] /\ saved = C!NoSetting /\ told = C!Untold /\ requested = C!NoValue
      /\ supplier \in Suppliers /\ answer = setting
  BY DEF C!Init
<1>2. setting \in C!StoredSettings
  BY DEF C!Init, C!StoredSettings
<1>3. C!Idle \in CallRecords
  BY DEF C!Idle, CallRecords, Places, C!Asks, C!NoAsk
<1>4. requests \in [ Requests -> CallRecords ] /\ Outgoing /\ Single /\ Brought
  BY <1>1, <1>3 DEF Outgoing, Single, Brought, C!Idle
<1>5. C!TypeOK /\ Told
  BY <1>1, <1>2 DEF C!TypeOK, C!Idle, C!Untold, Told, Agree
<1> QED BY <1>4, <1>5 DEF CInv

\* A call of async_set_climate has resolved to a setting that can be sent before it saves or
\* sends it, whatever other calls, the app and restarts do meanwhile; and a setting the user
\* was told is saved is the one remembered, until a call that would change it is under way.
THEOREM ClimateInvariant == C!Spec => []CInv
<1>1. CInv /\ [C!Next]_(C!vars) => CInv'
  <2> SUFFICES ASSUME CInv, [C!Next]_(C!vars)
               PROVE  CInv'
    OBVIOUS
  <2>1. CASE UNCHANGED C!vars
    <3>1. requests' = requests /\ UNCHANGED << supplier, setting, answer, saved, requested, told >>
      BY <2>1 DEF C!vars
    <3>2. C!TypeOK' /\ Outgoing' /\ Single' /\ Told' /\ Brought'
      BY <3>1, AsksStay DEF CInv, C!TypeOK, Outgoing, Sendable, Single, Told, Settled, Agree,
         C!Saves, Brought, Brings
    <3> QED BY <3>1, <3>2, AsksStay DEF CInv
  <2>2. CASE C!Next
    BY <2>2, ServiceBounds, BeginKeeps, ReadKeeps, UpdateKeeps, SendKeeps, WorldKeeps DEF C!Next
  <2> QED BY <2>1, <2>2
<1>2. C!Init => CInv
  BY ServiceBounds, StartsWell
<1> QED BY <1>1, <1>2, PTL DEF C!Spec

\* No climate setting leaves the command API that its checks or the transport's validators
\* would refuse: the temperature and the run time are in the ranges of every platform.
THEOREM SettingsCanBeSent == C!Spec => [](C!TypeOK /\ C!WireRange)
<1>1. CInv => C!TypeOK /\ C!WireRange
  <2> SUFFICES ASSUME CInv, NEW c \in Requests,
                      requests[c].at \in { "update", "send", "companion" }
               PROVE  /\ C!CommandValid(requests[c].setting)
                      /\ requests[c].at = "send" => C!LetsOut(requests[c].ask.kind, requests[c].setting)
                      /\ requests[c].at = "companion" => C!ConfigLetsOut(requests[c].setting)
    BY DEF C!WireRange, CInv
  <2> DEFINE s == requests[c].setting
  <2>1. Sendable(s) /\ (requests[c].at = "companion" => ~ C!Overseas)
    BY DEF CInv, Outgoing
  <2>2. s.temp \in 16 .. 32 /\ s.time \in 5 .. 30 /\ (~ C!Overseas => s.temp \in 17 .. 31)
    BY <2>1, ServiceBounds, Ranges DEF Sendable, C!Settings
  <2>3. supplier \in { "navinfo", "beantech" } => ~ C!Overseas
    BY DEF C!Overseas
  <2> HIDE DEF s
  <2>4. s.time * 60 \in 300 .. 1800
    BY <2>2
  <2>5. C!CommandValid(s) /\ (~ C!Overseas => C!NavInfoLetsOut(s) /\ C!BeanTechLetsOut(s) /\ C!ConfigLetsOut(s))
    BY <2>2, <2>4 DEF C!CommandValid, C!IsMinutes, C!NavInfoLetsOut, C!BeanTechLetsOut, C!ConfigLetsOut
  <2> QED BY <2>1, <2>3, <2>5 DEF C!LetsOut, s
<1> QED BY <1>1, ClimateInvariant, PTL

\* An A/C that is started by a call alone starts with the temperature and the run time the
\* user was told are saved, whatever GWM answers late, the app sets or a restart forgets.
THEOREM StartsUseWhatWasTold == C!Spec => SavedSettingsUsed
<1>1. CInv /\ [C!Next]_(C!vars) =>
        [ \A c \in Requests : (C!Starts(c) /\ requests[c].alone /\ told.clean) => C!Carries(c) ]_(C!vars)
  <2> SUFFICES ASSUME CInv, NEW c \in Requests, C!Starts(c), requests[c].alone, told.clean
               PROVE  C!Carries(c)
    OBVIOUS
  <2>1. Brings(requests[c]) /\ requests[c].ask.kind = "start" /\ requests[c].ask \in C!Asks /\ supplier \in Suppliers
    BY DEF C!Starts, C!Send, CInv, CallRecords, Brought, C!Saves, C!TypeOK
  <2>2. requests[c].ask.temp = C!NoValue /\ requests[c].ask.time = C!NoValue
    BY <2>1, ServiceBounds, AskFits
  <2> QED BY <2>1, <2>2 DEF Brings, C!Carries
<1> QED BY <1>1, ClimateInvariant, PTL DEF C!Spec, SavedSettingsUsed, C!SavedSettingsUsed

---------------------------------------------------------------------------
(* Charging entities of BeanTech.                                          *)

Data == B!Setting \cup { B!NoSetting } \cup [ {"armed"} -> {0, 1} ]
Asked(e) == IF e = "heating" THEN ClockTimes \cup {B!Off} ELSE B!Values(e)
Posted == B!Setting \cup ClockTimes \cup Limits \cup B!Modes
Orders == [ by : Entities, gen : 1 .. MaxEvents, tracked : BOOLEAN, fresh : BOOLEAN, value : Posted ]
Results == [ by : Entities, gen : 1 .. MaxEvents, ok : BOOLEAN, value : Posted \cup { B!Unknown } ]
Writes == [ at : {"idle", "send", "post"}, value : Posted \cup { B!Unknown },
            base : Data, fresh : BOOLEAN ]
EntityReads == [ at : {"idle", "asked", "answered"}, gen : 0 .. MaxEvents, value : Data ]
EntityRecords ==
  [ data : Data, gen : 0 .. MaxEvents, write : Writes, read : EntityReads, wanted : BOOLEAN ]

Typed ==
  /\ queue \in Seq(Orders) /\ results \subseteq Results
  /\ confirmed \in [ B!Remembered -> Posted \cup { B!Unknown } ]
  /\ entity \in [ Entities -> EntityRecords ]

\* What a write carries and a read brings.
Fitting ==
  /\ \A e \in Entities :
       LET w == entity[e].write IN
       /\ entity[e].gen <= events
       /\ w.at # "idle" => entity[e].gen >= 1 /\ w.value \in Asked(e)
       /\ w.at = "post" => e \in B!Fields /\ w.base \in B!Setting /\ [ w.base EXCEPT ![e] = w.value ] \in B!Setting
       /\ entity[e].read.at # "idle" => e \in B!Readers
       /\ entity[e].read.at = "answered" => entity[e].read.value \in B!Readable(e)
  /\ \A r \in results : r.by \in B!Remembered => r.value \in B!Values(r.by)

---------------------------------------------------------------------------
(* The setting.                                                            *)

\* One write at a time is between its read and its post.
OneWrites ==
  \A d, e \in Entities : entity[d].write.at = "post" /\ entity[e].write.at = "post" => d = e

\* What is fresh differs from the setting in its own field alone, and is the next to
\* change it.
FreshPost ==
  \A e \in Entities :
    LET w == entity[e].write IN
    w.fresh => w.at = "post" /\ ~ B!Pending /\ w.base = car.setting
FreshOrder ==
  \A i \in 1 .. Len(queue) :
    queue[i].fresh =>
      /\ queue[i].by \in B!Fields
      /\ \A j \in 1 .. i - 1 : queue[j].by \notin B!Fields
      /\ \A f \in B!Fields \ {queue[i].by} : queue[i].value[f] = car.setting[f]

---------------------------------------------------------------------------
(* What is remembered.                                                     *)

Ordered(x) == \E i \in 1 .. Len(queue) : queue[i].by = x

\* A value is in effect, and stays so until another one is ordered.
InEffect(x, v) ==
  /\ x = "limit" => car.limit = v
  /\ x = "departure" =>
       /\ car.departure \in { B!Off, v }
       /\ \A i \in 1 .. Len(queue) : queue[i].by = "heating" => queue[i].value \in { B!Off, v }

\* Orders and results carry the numbers of their writes, in the order they were accepted.
Numbered(x) ==
  /\ \A i \in 1 .. Len(queue) :
       queue[i].by = x =>
         /\ queue[i].tracked /\ queue[i].gen <= entity[x].gen
         /\ entity[x].write.at # "idle" => queue[i].gen < entity[x].gen
  /\ \A i, j \in 1 .. Len(queue) :
       i < j /\ queue[i].by = x /\ queue[j].by = x => queue[i].gen < queue[j].gen
  /\ \A r \in results :
       r.by = x =>
         /\ r.gen <= entity[x].gen
         /\ entity[x].write.at # "idle" => r.gen < entity[x].gen
         /\ \A i \in 1 .. Len(queue) : queue[i].by = x => r.gen < queue[i].gen
  /\ \A r, s \in results : r.by = x /\ s.by = x /\ r.gen = s.gen => r = s

\* Heating is not armed behind an order of another departure time.
Behind(x) ==
  x = "departure" =>
    \A i, j \in 1 .. Len(queue) :
      i < j /\ queue[i].by = "departure" /\ queue[j].by = "heating" => queue[j].value = B!Off

\* What will be confirmed is in effect, and so is what was.
Confirming(x) == \A r \in results : r.by = x /\ r.ok /\ B!Current(r) => InEffect(x, r.value)
HasConfirmed(x) ==
  confirmed[x] # B!Unknown =>
    /\ ~ Ordered(x)
    /\ \A r \in results : ~ (r.by = x /\ r.ok /\ B!Current(r))
    /\ InEffect(x, confirmed[x])
Followed(x) == Numbered(x) /\ Behind(x) /\ Confirming(x) /\ HasConfirmed(x)

Doubtless == \A x \in B!Remembered : ~ doubtful[x] => Followed(x)
Fresh == OneWrites /\ FreshPost /\ FreshOrder
BInv == B!TypeOK /\ Typed /\ Fitting /\ Fresh /\ Doubtless
---------------------------------------------------------------------------
(* Sequences.                                                              *)

LEMMA Appended ==
  ASSUME NEW S, NEW q \in Seq(S), NEW o \in S
  PROVE  /\ Append(q, o) \in Seq(S) /\ Len(q) \in Nat /\ Len(Append(q, o)) = Len(q) + 1
         /\ \A i \in 1 .. Len(q) : Append(q, o)[i] = q[i] /\ q[i] \in S
         /\ Append(q, o)[Len(q) + 1] = o
  OBVIOUS

LEMMA Dequeued ==
  ASSUME NEW S, NEW q \in Seq(S), q # << >>
  PROVE  /\ Head(q) = q[1] /\ q[1] \in S
         /\ Tail(q) \in Seq(S) /\ Len(q) \in Nat \ {0} /\ Len(Tail(q)) = Len(q) - 1
         /\ \A i \in 1 .. Len(q) - 1 : Tail(q)[i] = q[i + 1] /\ q[i + 1] \in S
  OBVIOUS

LEMMA Listed ==
  ASSUME NEW S, NEW q \in Seq(S)
  PROVE  /\ Len(q) \in Nat /\ DOMAIN q = 1 .. Len(q)
         /\ \A i \in 1 .. Len(q) : q[i] \in S
  OBVIOUS

---------------------------------------------------------------------------
(* Names and values.                                                       *)

LEMMA Named ==
  ASSUME B!Bounds
  PROVE  /\ B!Fields \subseteq Entities /\ B!Remembered \subseteq Entities /\ B!Readers \subseteq Entities
         /\ \A e \in Entities :
              /\ e \in B!Remembered <=> e \in {"limit", "departure"}
              /\ e \in B!Fields <=> e \in {"mode", "start", "end"}
              /\ e \in B!Readers <=> e \notin B!Remembered
              /\ e \notin B!Fields /\ e \notin B!Remembered => e = "heating"
         /\ "limit" \notin B!Fields /\ "departure" \notin B!Fields /\ "heating" \notin B!Fields
         /\ "heating" \notin B!Remembered
         /\ "heating" \in Entities => "departure" \in B!Remembered
         /\ B!Remembered \subseteq {"limit", "departure"}
  BY SMT DEF B!Bounds, B!Fields, B!Remembered, B!Readers

LEMMA ValuesOf ==
  ASSUME B!Bounds, NEW e \in Entities
  PROVE  /\ B!Values(e) \subseteq Asked(e) /\ Asked(e) \subseteq Posted
         /\ e # "heating" => Asked(e) = B!Values(e)
         /\ B!Unknown \notin Asked(e)
         /\ e = "limit" => B!Values(e) = Limits
         /\ e = "departure" => B!Values(e) = ClockTimes
         /\ e = "heating" => Asked(e) = ClockTimes \cup {B!Off}
         /\ B!Off \notin ClockTimes
  BY SMT DEF B!Bounds, B!Values, Asked, Posted, B!Modes, B!Off, B!Unknown

LEMMA SettingsHeld == B!Setting \subseteq Posted /\ B!Setting \subseteq Data /\ B!NoSetting \in Data
  BY DEF Posted, Data

LEMMA Chosen ==
  ASSUME B!Bounds, NEW e \in Entities, B!TypeOK, NEW v \in B!Choices(e)
  PROVE  v \in Asked(e)
<1>1. CASE e = "heating"
  <2>1. "departure" \in B!Remembered
    BY <1>1, Named
  <2>2. confirmed["departure"] \in ClockTimes \cup {B!Unknown}
    BY <2>1, ValuesOf, Named DEF B!TypeOK
  <2> QED
    BY <1>1, <2>2 DEF B!Choices, Asked
<1>2. CASE e # "heating"
  BY <1>2 DEF B!Choices, Asked, B!Values, B!Bounds
<1> QED
  BY <1>1, <1>2

LEMMA ReadsTyped ==
  ASSUME B!Bounds, B!TypeOK, NEW e \in Entities
  PROVE  B!Read(e) \in B!Readable(e) /\ B!Readable(e) \subseteq Data
  BY DEF B!Read, B!Readable, Data, B!TypeOK, B!Cars

\* Values that are posted for an entity.
Fits(e, v) ==
  /\ e \in B!Fields => v \in B!Setting
  /\ e = "heating" => v \in ClockTimes \cup {B!Off}
  /\ e \notin B!Fields /\ e # "heating" => v \in B!Values(e)

LEMMA FitsCase ==
  ASSUME NEW e, NEW v
  PROVE  Fits(e, v) <=> v \in CASE e \in B!Fields -> B!Setting
                              [] e = "heating" -> ClockTimes \cup {B!Off}
                              [] OTHER -> B!Values(e)
<1>1. CASE e \in B!Fields
  <2>1. e # "heating"
    BY <1>1 DEF B!Fields
  <2> QED
    BY <1>1, <2>1, Zenon DEF Fits
<1>2. CASE e = "heating"
  <2>1. e \notin B!Fields
    BY <1>2 DEF B!Fields
  <2> QED
    BY <1>2, <2>1, Zenon DEF Fits
<1>3. CASE e \notin B!Fields /\ e # "heating"
  BY <1>3, Zenon DEF Fits
<1> QED
  BY <1>1, <1>2, <1>3

LEMMA FitsPosted ==
  ASSUME B!Bounds, NEW e \in Entities, NEW v, Fits(e, v)
  PROVE  /\ v \in Posted
         /\ e \in B!Fields => v \in B!Setting
         /\ e \notin B!Fields => v \in Asked(e)
         /\ e = "limit" => v \in Limits
         /\ e \in {"departure", "heating"} => v \in ClockTimes \cup {B!Off}
         /\ e \in B!Remembered => v \in B!Values(e)
<1>1. CASE e \in B!Fields
  BY <1>1, Named, SettingsHeld DEF Fits
<1>2. CASE e = "heating"
  BY <1>2, Named, ValuesOf DEF Fits
<1>3. CASE e \notin B!Fields /\ e # "heating"
  <2>1. v \in B!Values(e)
    BY <1>3 DEF Fits
  <2> QED
    BY <1>3, <2>1, Named, ValuesOf
<1> QED
  BY <1>1, <1>2, <1>3

---------------------------------------------------------------------------
(* The types.                                                              *)

Types == B!TypeOK /\ Typed /\ Fitting

\* What TypeOK and Fitting say of the queue, of an entity and of a result.
Lined == \A i \in 1 .. Len(queue) : Fits(queue[i].by, queue[i].value)
Mended(e, w) == [ w.base EXCEPT ![e] = w.value ]
WriteFits(e, w) ==
  /\ w.at # "idle" => w.value \in Asked(e)
  /\ w.at = "post" => e \in B!Fields /\ w.base \in B!Setting /\ Mended(e, w) \in B!Setting
ReadFits(e, r) ==
  /\ r.at # "idle" => e \in B!Readers
  /\ r.at = "answered" => r.value \in B!Readable(e)
EntityFits(e, x, n) ==
  /\ x.data \in B!Readable(e) \cup { B!NoSetting }
  /\ x.gen <= n
  /\ x.write.at # "idle" => x.gen >= 1
  /\ WriteFits(e, x.write)
  /\ ReadFits(e, x.read)
Sound(e) == EntityFits(e, entity[e], events)
Carried == \A r \in results : r.by \in B!Remembered => r.value \in B!Values(r.by)
Plain ==
  /\ car \in B!Cars /\ events \in 0 .. MaxEvents
  /\ \A e \in B!Remembered : confirmed[e] \in B!Values(e) \cup {B!Unknown}
  /\ doubtful \in [ B!Remembered -> BOOLEAN ]

LEMMA Typing ==
  Types <=> Typed /\ Lined /\ Carried /\ Plain /\ \A e \in Entities : Sound(e)
<1>1. ASSUME Typed
      PROVE  /\ DOMAIN queue = 1 .. Len(queue)
             /\ \A i \in 1 .. Len(queue) : queue[i].by \in Entities /\ queue[i].gen \in 1 .. MaxEvents
             /\ \A e \in Entities :
                  /\ entity[e].gen \in 0 .. MaxEvents
                  /\ entity[e].write.at \in {"idle", "send", "post"}
                  /\ entity[e].read.at \in {"idle", "asked", "answered"}
  <2>1. \A i \in 1 .. Len(queue) : queue[i] \in Orders
    BY <1>1, Listed DEF Typed
  <2>2. \A e \in Entities : entity[e] \in EntityRecords
    BY <1>1 DEF Typed
  <2> QED
    BY <1>1, <2>1, <2>2, Listed DEF Typed, Orders, EntityRecords, Writes, EntityReads
<1>2. ASSUME Types
      PROVE  Lined /\ Carried /\ Plain /\ \A e \in Entities : Sound(e)
  <2>1. Lined
    BY <1>1, <1>2, FitsCase DEF Types, B!TypeOK, Lined
  <2> QED
    BY <1>2, <2>1 DEF Types, B!TypeOK, Fitting, Sound, EntityFits, WriteFits, ReadFits, Mended,
       Carried, Plain
<1>3. ASSUME Typed, Lined, Carried, Plain, \A e \in Entities : Sound(e)
      PROVE  Types
  <2>1. Fitting
    BY <1>3 DEF Fitting, Sound, EntityFits, WriteFits, ReadFits, Mended, Carried
  <2>2. \A i \in DOMAIN queue :
          /\ queue[i].by \in Entities /\ queue[i].gen \in 1 .. MaxEvents
          /\ queue[i].value \in CASE queue[i].by \in B!Fields -> B!Setting
                              [] queue[i].by = "heating" -> ClockTimes \cup {B!Off}
                              [] OTHER -> B!Values(queue[i].by)
    BY <1>1, <1>3, FitsCase DEF Lined
  <2>3. B!TypeOK
    BY <1>1, <1>3, <2>2 DEF B!TypeOK, Plain, Sound, EntityFits
  <2> QED
    BY <1>3, <2>1, <2>3 DEF Types
<1> QED
  BY <1>2, <1>3 DEF Types

LEMMA TypingNext ==
  (Types <=> Typed /\ Lined /\ Carried /\ Plain /\ \A e \in Entities : Sound(e))'
  BY Typing, PTL


LEMMA Initially ==
  ASSUME B!Bounds, B!Init
  PROVE  BInv
<1> USE DEF B!Init
<1>1. B!NewEntity \in EntityRecords
  BY SettingsHeld DEF B!NewEntity, B!NoWrite, B!NoRead, EntityRecords, Writes, EntityReads, B!Bounds
<1>2. Typed
  BY <1>1 DEF Typed
<1>3. ASSUME NEW e \in Entities
      PROVE  Sound(e)
  <2>1. /\ entity[e].data = B!NoSetting /\ entity[e].gen = 0 /\ events = 0
        /\ entity[e].write.at = "idle" /\ entity[e].read.at = "idle"
    BY DEF B!NewEntity, B!NoWrite, B!NoRead
  <2> QED
    BY <2>1 DEF Sound, EntityFits, WriteFits, ReadFits
<1>4. Types
  BY <1>2, <1>3, Typing DEF Lined, Carried, Plain, B!Bounds
<1>5. Fresh
  BY DEF Fresh, OneWrites, FreshPost, FreshOrder, B!NewEntity, B!NoWrite
<1>6. Doubtless
  BY DEF Doubtless, Followed, Numbered, Behind, Confirming, HasConfirmed
<1> QED
  BY <1>4, <1>5, <1>6 DEF BInv, Types

\* An order of what is written now.
LEMMA OrderMade ==
  ASSUME B!Bounds, Types, NEW e \in Entities, entity[e].write.at # "idle",
         NEW v, Fits(e, v), NEW tracked \in BOOLEAN
  PROVE  /\ B!Order(e, v, tracked) \in Orders
         /\ B!Order(e, v, tracked).by = e /\ B!Order(e, v, tracked).value = v
         /\ B!Order(e, v, tracked).gen = entity[e].gen /\ B!Order(e, v, tracked).tracked = tracked
         /\ B!Order(e, v, tracked).fresh = entity[e].write.fresh
<1>1. entity[e] \in EntityRecords /\ Sound(e)
  BY Typing DEF Typed
<1>2. entity[e].gen \in 1 .. MaxEvents /\ entity[e].write.fresh \in BOOLEAN
  BY <1>1, Typing DEF EntityRecords, Writes, Sound, EntityFits, Plain, B!Bounds
<1> QED
  BY <1>2, FitsPosted DEF B!Order, Orders

LEMMA EditTyped ==
  ASSUME B!Bounds, Types, NEW e \in Entities, B!Edit(e)
  PROVE  Types'
<1>1. PICK v \in B!Choices(e) :
        entity' = [ entity EXCEPT ![e].write = [ B!NoWrite EXCEPT !.at = "send", !.value = v ],
                                ![e].gen = @ + 1 ]
  BY DEF B!Edit
<1>2. v \in Asked(e) /\ v \in Posted
  BY Chosen, ValuesOf DEF Types
<1>3. /\ entity \in [ Entities -> EntityRecords ] /\ events \in 0 .. MaxEvents
      /\ \A d \in Entities : Sound(d)
  BY Typing DEF Typed, Plain
<1>4. events + 1 \in 0 .. MaxEvents /\ events' = events + 1
  BY Typing DEF B!Edit, B!Happens, Plain, B!Bounds
<1>5. Typed'
  <2>1. entity'[e] \in EntityRecords
    BY <1>1, <1>2, <1>3, <1>4, SettingsHeld DEF EntityRecords, B!NoWrite, Writes, EntityReads, B!Bounds
  <2>2. entity' \in [ Entities -> EntityRecords ]
    BY <1>1, <1>3, <2>1
  <2> QED
    BY <2>2, Typing DEF Typed, B!Edit
<1>6. \A d \in Entities : Sound(d)'
  <2> SUFFICES ASSUME NEW d \in Entities  PROVE EntityFits(d, entity'[d], events')
    BY DEF Sound
  <2>1. EntityFits(d, entity[d], events) /\ entity[d].gen \in Nat /\ events \in Nat
    BY <1>3 DEF Sound, EntityRecords, B!Bounds
  <2>2. CASE d = e
    <3>1. /\ entity'[e].data = entity[e].data /\ entity'[e].gen = entity[e].gen + 1
          /\ entity'[e].write.at = "send" /\ entity'[e].write.value = v
          /\ entity'[e].read = entity[e].read
      BY <1>1, <1>3 DEF B!NoWrite, EntityRecords
    <3> QED
      BY <1>2, <1>4, <2>1, <2>2, <3>1 DEF EntityFits, WriteFits
  <2>3. CASE d # e
    BY <1>1, <1>3, <1>4, <2>1, <2>3 DEF EntityFits
  <2> QED
    BY <2>2, <2>3
<1>7. Plain' /\ Lined' /\ Carried'
  BY <1>4, Typing DEF Plain, Lined, Carried, B!Edit, B!Values, Fits
<1> QED
  BY <1>5, <1>6, <1>7, TypingNext

\* An entity that changes and what surrounds it.
LEMMA EntityTyped ==
  ASSUME B!Bounds, Types, NEW e \in Entities, events' \in events .. MaxEvents,
         entity' \in [ Entities -> EntityRecords ], Sound(e)',
         \A d \in Entities \ {e} : entity'[d] = entity[d],
         UNCHANGED << car, queue, results, confirmed, doubtful >>
  PROVE  Types'
<1>1. events \in 0 .. MaxEvents /\ \A d \in Entities : Sound(d) /\ entity[d].gen \in Nat
  BY Typing DEF Typed, Plain, EntityRecords, B!Bounds
<1>2. \A d \in Entities : Sound(d)'
  <2> SUFFICES ASSUME NEW d \in Entities, d # e  PROVE EntityFits(d, entity'[d], events')
    BY DEF Sound
  <2>1. EntityFits(d, entity[d], events) /\ entity'[d] = entity[d]
    BY <1>1 DEF Sound
  <2> QED
    BY <1>1, <2>1 DEF EntityFits, B!Bounds
<1>3. Typed' /\ Lined' /\ Carried' /\ Plain'
  BY <1>1, Typing DEF Typed, Lined, Carried, Plain, Fits, B!Values, B!Bounds
<1> QED
  BY <1>2, <1>3, TypingNext

\* A write that ends leaves its entity sound.
LEMMA ReleasedFits ==
  ASSUME B!Bounds, Types, NEW e \in Entities, B!Released(e)
  PROVE  /\ entity' \in [ Entities -> EntityRecords ]
         /\ \A d \in Entities : EntityFits(d, entity'[d], events)
         /\ \A d \in Entities \ {e} : entity'[d] = entity[d]
<1>1. /\ entity \in [ Entities -> EntityRecords ]
      /\ \A d \in Entities : EntityFits(d, entity[d], events)
  BY Typing DEF Typed, Sound
<1>2. entity' \in [ Entities -> EntityRecords ]
  BY <1>1, SettingsHeld DEF B!Released, EntityRecords, Writes, B!NoWrite
<1>3. \A d \in Entities \ {e} : entity'[d] = entity[d]
  BY <1>1 DEF B!Released
<1>4. /\ entity'[e].write.at = "idle" /\ entity'[e].data = entity[e].data
      /\ entity'[e].gen = entity[e].gen /\ entity'[e].read = entity[e].read
  BY <1>1 DEF B!Released, B!NoWrite, EntityRecords
<1>5. EntityFits(e, entity'[e], events)
  BY <1>1, <1>4 DEF EntityFits, WriteFits
<1> QED
  BY <1>1, <1>2, <1>3, <1>5

LEMMA FetchTyped ==
  ASSUME B!Bounds, Types, NEW e \in Entities, B!Fetch(e)
  PROVE  Types'
<1>1. /\ entity \in [ Entities -> EntityRecords ]
      /\ events \in 0 .. MaxEvents /\ events' \in events .. MaxEvents
      /\ EntityFits(e, entity[e], events)
      /\ car.setting \in B!Setting /\ e \in B!Fields /\ entity[e].write.at = "send"
      /\ UNCHANGED << car, queue, results, confirmed, events, doubtful >>
  BY Typing DEF Typed, Plain, B!Cars, B!Fetch, Sound, B!Bounds
<1>2. CASE B!Released(e)
  <2>1. Sound(e)'
    BY <1>1, <1>2, ReleasedFits DEF Sound
  <2> QED
    BY <1>1, <1>2, <2>1, ReleasedFits, EntityTyped
<1>3. CASE /\ [ car.setting EXCEPT ![e] = entity[e].write.value ] \in B!Setting
           /\ entity' = [ entity EXCEPT ![e].write.at = "post", ![e].write.base = car.setting,
                                        ![e].write.fresh = ~ B!Pending ]
  <2>1. (~ B!Pending) \in BOOLEAN
    OBVIOUS
  <2>2. entity[e] \in EntityRecords /\ entity[e].write \in Writes
    BY <1>1 DEF EntityRecords
  <2>3. /\ entity'[e].write.at = "post" /\ entity'[e].write.base = car.setting
        /\ entity'[e].write.value = entity[e].write.value
        /\ entity'[e].data = entity[e].data /\ entity'[e].gen = entity[e].gen
        /\ entity'[e].read = entity[e].read
    BY <1>1, <1>3, <2>2 DEF EntityRecords, Writes
  <2>4. entity' \in [ Entities -> EntityRecords ]
    <3> DEFINE fresh == ~ B!Pending
    <3>1. fresh \in BOOLEAN
      OBVIOUS
    <3>2. entity' = [ entity EXCEPT ![e].write.at = "post", ![e].write.base = car.setting,
                                    ![e].write.fresh = fresh ]
      BY <1>3
    <3> HIDE DEF fresh
    <3> QED
      BY <1>1, <2>2, <3>1, <3>2, SettingsHeld DEF EntityRecords, Writes
  <2>5. Mended(e, entity'[e].write) \in B!Setting
    BY <1>3, <2>3 DEF Mended
  <2>6. Sound(e)'
    <3>1. EntityFits(e, entity'[e], events)
      BY <1>1, <2>3, <2>5 DEF EntityFits, WriteFits
    <3> QED
      BY <1>1, <3>1 DEF Sound
  <2> QED
    BY <1>1, <1>3, <2>4, <2>6, EntityTyped
<1> QED
  BY <1>2, <1>3 DEF B!Fetch, B!Base

\* A write that ends.
LEMMA SentTyped ==
  ASSUME B!Bounds, Types, NEW e \in Entities, NEW v, Fits(e, v), entity[e].write.at # "idle", B!Sent(e, v)
  PROVE  Types'
<1>1. /\ entity \in [ Entities -> EntityRecords ] /\ queue \in Seq(Orders)
      /\ Lined /\ confirmed \in [ B!Remembered -> Posted \cup { B!Unknown } ]
      /\ \A x \in B!Remembered : confirmed[x] \in B!Values(x) \cup {B!Unknown}
      /\ events' = events
  BY Typing DEF Typed, Plain, B!Sent
<1>2. entity' \in [ Entities -> EntityRecords ]
  BY ReleasedFits DEF B!Sent
<1>3. \A d \in Entities : Sound(d)'
  BY <1>1, ReleasedFits DEF B!Sent, Sound
<1>4. queue' \in Seq(Orders) /\ Lined'
  <2>1. CASE queue' = queue
    BY <1>1, <2>1 DEF Lined, Fits
  <2>2. ASSUME NEW tracked \in BOOLEAN, queue' = Append(queue, B!Order(e, v, tracked))
        PROVE  queue' \in Seq(Orders) /\ Lined'
    <3>1. B!Order(e, v, tracked) \in Orders /\ B!Order(e, v, tracked).by = e /\ B!Order(e, v, tracked).value = v
      BY OrderMade
    <3>2. /\ queue' \in Seq(Orders) /\ Len(queue) \in Nat /\ Len(queue') = Len(queue) + 1
          /\ \A i \in 1 .. Len(queue) : queue'[i] = queue[i]
          /\ queue'[Len(queue) + 1] = B!Order(e, v, tracked)
      BY <1>1, <2>2, <3>1, Appended
    <3>3. \A i \in 1 .. Len(queue') : Fits(queue'[i].by, queue'[i].value)
      BY <1>1, <3>1, <3>2 DEF Lined
    <3> QED
      BY <3>2, <3>3 DEF Lined, Fits
  <2> QED
    BY <2>1, <2>2 DEF B!Sent
<1>5. Plain' /\ confirmed' \in [ B!Remembered -> Posted \cup { B!Unknown } ]
  BY <1>1, Typing DEF Plain, B!Sent, B!Doubts
<1>6. results' \subseteq Results /\ Carried'
  BY Typing DEF Typed, Carried, B!Sent
<1> QED
  BY <1>2, <1>3, <1>4, <1>5, <1>6, TypingNext DEF Typed

LEMMA PostTyped ==
  ASSUME B!Bounds, Types, NEW e \in Entities, B!Post(e)
  PROVE  /\ Fits(e, Mended(e, entity[e].write)) /\ B!Sent(e, Mended(e, entity[e].write))
         /\ e \in B!Fields /\ entity[e].write.at = "post" /\ Types'
<1>1. WriteFits(e, entity[e].write)
  BY Typing DEF Sound, EntityFits
<1>2. entity[e].write.at = "post" /\ B!Sent(e, Mended(e, entity[e].write))
  BY DEF B!Post, Mended
<1>3. e \in B!Fields /\ Mended(e, entity[e].write) \in B!Setting
  BY <1>1, <1>2 DEF WriteFits
<1>4. Fits(e, Mended(e, entity[e].write))
  BY <1>3, Named DEF Fits
<1> QED
  BY <1>2, <1>3, <1>4, SentTyped

LEMMA CommandTyped ==
  ASSUME B!Bounds, Types, NEW e \in Entities, B!Command(e)
  PROVE  Fits(e, entity[e].write.value) /\ Types'
<1>1. entity[e].write.at = "send" /\ e \notin B!Fields /\ B!Sent(e, entity[e].write.value)
  BY DEF B!Command
<1>2. entity[e].write.value \in Asked(e)
  BY <1>1, Typing DEF Sound, EntityFits, WriteFits
<1>3. Fits(e, entity[e].write.value)
  BY <1>1, <1>2 DEF Fits, Asked
<1> QED
  BY <1>1, <1>3, SentTyped

\* The oldest order and those behind it.
LEMMA Foremost ==
  ASSUME B!Bounds, Types, B!Apply
  PROVE  /\ Head(queue) = queue[1] /\ queue[1] \in Orders /\ Fits(queue[1].by, queue[1].value)
         /\ queue' \in Seq(Orders) /\ Len(queue) \in Nat \ {0} /\ Len(queue') = Len(queue) - 1
         /\ \A i \in 1 .. Len(queue) - 1 : queue'[i] = queue[i + 1]
         /\ UNCHANGED << entity, confirmed, events, doubtful >>
<1>1. queue \in Seq(Orders) /\ queue # << >> /\ queue' = Tail(queue) /\ Lined
  BY Typing DEF B!Apply, Typed
<1>2. 1 \in 1 .. Len(queue)
  BY <1>1, Dequeued
<1> QED
  BY <1>1, <1>2, Dequeued DEF B!Apply, Lined

LEMMA ApplyTyped ==
  ASSUME B!Bounds, Types, B!Apply
  PROVE  Types'
<1> DEFINE w == queue[1]
<1>1. w \in Orders /\ Fits(w.by, w.value) /\ car \in B!Cars /\ w.by \in Entities
  BY Foremost, Typing DEF Plain, Orders
<1>2. car' \in B!Cars
  <2>1. CASE UNCHANGED car
    BY <1>1, <2>1
  <2>2. CASE car' = CASE w.by = "limit" -> [ car EXCEPT !.limit = w.value ]
                      [] w.by \in {"departure", "heating"} -> [ car EXCEPT !.departure = w.value ]
                      [] OTHER -> [ car EXCEPT !.setting = w.value ]
    <3>1. CASE w.by = "limit"
      <4>1. car' = [ car EXCEPT !.limit = w.value ] /\ w.value \in Limits
        BY <1>1, <2>2, <3>1, FitsPosted
      <4> QED
        BY <1>1, <4>1 DEF B!Cars
    <3>2. CASE w.by \in {"departure", "heating"}
      <4>1. car' = [ car EXCEPT !.departure = w.value ] /\ w.value \in ClockTimes \cup {B!Off}
        BY <1>1, <2>2, <3>2, FitsPosted
      <4> QED
        BY <1>1, <4>1 DEF B!Cars
    <3>3. CASE w.by \notin {"limit", "departure", "heating"}
      <4>1. car' = [ car EXCEPT !.setting = w.value ] /\ w.by \in B!Fields
        BY <1>1, <2>2, <3>3, Named
      <4>2. w.value \in B!Setting
        BY <1>1, <4>1, FitsPosted
      <4> QED
        BY <1>1, <4>1, <4>2 DEF B!Cars
    <3> QED
      BY <3>1, <3>2, <3>3
  <2> QED
    BY <2>1, <2>2, Foremost DEF B!Apply
<1>3. \A ok \in BOOLEAN :
        B!Result(w, ok) \subseteq Results /\ \A r \in B!Result(w, ok) : r.by \in B!Remembered => r.value \in B!Values(r.by)
  <2> SUFFICES ASSUME NEW ok \in BOOLEAN
               PROVE  /\ B!Result(w, ok) \subseteq Results
                      /\ \A r \in B!Result(w, ok) : r.by \in B!Remembered => r.value \in B!Values(r.by)
    OBVIOUS
  <2> DEFINE new == [ by |-> w.by, gen |-> w.gen, ok |-> ok,
                      value |-> IF w.by \in B!Remembered THEN w.value ELSE B!Unknown ]
  <2>1. results \subseteq Results /\ Carried
    BY Typing DEF Typed
  <2>2. new \in Results /\ (new.by \in B!Remembered => new.value \in B!Values(new.by))
    BY <1>1, FitsPosted DEF Results, Orders
  <2>3. B!Result(w, ok) \subseteq results \cup {new}
    BY DEF B!Result
  <2> QED
    BY <2>1, <2>2, <2>3 DEF Carried
<1>4. results' \subseteq Results /\ Carried'
  BY <1>3, Foremost DEF B!Apply, Carried
<1>5. Lined'
  <2>1. \A i \in 1 .. Len(queue) - 1 : Fits(queue[i + 1].by, queue[i + 1].value)
    BY Foremost, Typing DEF Lined
  <2> QED
    BY <2>1, Foremost DEF Lined
<1>6. Typed' /\ Plain' /\ \A e \in Entities : Sound(e)'
  BY <1>2, <1>4, Foremost, Typing DEF Typed, Plain, Sound
<1> QED
  BY <1>4, <1>5, <1>6, TypingNext

LEMMA FinishTyped ==
  ASSUME B!Bounds, Types, B!Finish
  PROVE  Types'
<1>1. PICK r \in results :
        /\ results' = results \ {r}
        /\ \E known \in BOOLEAN :
             confirmed' = IF B!Current(r) /\ known /\ r.ok /\ r.by \in B!Remembered
                          THEN [ confirmed EXCEPT ![r.by] = r.value ] ELSE confirmed
        /\ entity' = [ entity EXCEPT ![r.by].wanted = @ \/ (B!Current(r) /\ r.by \in B!Readers) ]
  BY DEF B!Finish
<1>2. r \in Results /\ (r.by \in B!Remembered => r.value \in B!Values(r.by)) /\ r.by \in Entities
  BY Typing DEF Typed, Carried, Results
<1>3. /\ entity' \in [ Entities -> EntityRecords ]
      /\ \A d \in Entities :
           /\ entity'[d].data = entity[d].data /\ entity'[d].gen = entity[d].gen
           /\ entity'[d].write = entity[d].write /\ entity'[d].read = entity[d].read
  <2> DEFINE wanted == entity[r.by].wanted \/ (B!Current(r) /\ r.by \in B!Readers)
  <2>1. wanted \in BOOLEAN
    OBVIOUS
  <2>2. entity' = [ entity EXCEPT ![r.by].wanted = wanted ]
    BY <1>1
  <2>3. entity \in [ Entities -> EntityRecords ]
    BY Typing DEF Typed
  <2> HIDE DEF wanted
  <2> QED
    BY <1>2, <2>1, <2>2, <2>3 DEF EntityRecords
<1>4. \A d \in Entities : Sound(d)'
  BY <1>3, Typing DEF B!Finish, Sound, EntityFits
<1>5. /\ confirmed' \in [ B!Remembered -> Posted \cup { B!Unknown } ]
      /\ \A x \in B!Remembered : confirmed'[x] \in B!Values(x) \cup {B!Unknown}
  BY <1>1, <1>2, ValuesOf, Named, Typing DEF Typed, Plain
<1>6. Typed' /\ Plain' /\ Lined' /\ Carried'
  BY <1>1, <1>3, <1>5, Typing DEF Typed, Plain, Lined, Carried, B!Finish, Fits, B!Values
<1> QED
  BY <1>4, <1>6, TypingNext

LEMMA AskTyped ==
  ASSUME B!Bounds, Types, NEW e \in Entities, B!Ask(e)
  PROVE  Types'
<1>1. /\ entity \in [ Entities -> EntityRecords ]
      /\ events \in 0 .. MaxEvents /\ events' \in events .. MaxEvents
      /\ EntityFits(e, entity[e], events) /\ e \in B!Readers
      /\ UNCHANGED << car, queue, results, confirmed, events, doubtful >>
  BY Typing DEF Typed, Plain, Sound, B!Bounds, B!Ask
<1>2. entity' = [ entity EXCEPT ![e].read = [ B!NoRead EXCEPT !.at = "asked", !.gen = entity[e].gen ],
                                ![e].wanted = FALSE ]
  BY DEF B!Ask
<1>3. entity' \in [ Entities -> EntityRecords ]
  BY <1>1, <1>2, SettingsHeld DEF EntityRecords, EntityReads, B!NoRead
<1>4. /\ entity'[e].data = entity[e].data /\ entity'[e].gen = entity[e].gen
      /\ entity'[e].write = entity[e].write /\ entity'[e].read.at = "asked"
  BY <1>1, <1>2 DEF EntityRecords, B!NoRead
<1>5. EntityFits(e, entity'[e], events)
  BY <1>1, <1>4 DEF EntityFits, ReadFits
<1> QED
  BY <1>1, <1>2, <1>3, <1>5, EntityTyped DEF Sound

LEMMA AnswerTyped ==
  ASSUME B!Bounds, Types, NEW e \in Entities, B!Answer(e)
  PROVE  Types'
<1>1. /\ entity \in [ Entities -> EntityRecords ]
      /\ events \in 0 .. MaxEvents /\ events' \in events .. MaxEvents
      /\ EntityFits(e, entity[e], events) /\ entity[e].read.at = "asked"
      /\ UNCHANGED << car, queue, results, confirmed, doubtful >>
  BY Typing DEF Typed, Plain, Sound, B!Bounds, B!Answer, B!Happens
<1>2. CASE entity' = [ entity EXCEPT ![e].read = B!NoRead ]
  <2>1. entity' \in [ Entities -> EntityRecords ]
    BY <1>1, <1>2, SettingsHeld DEF EntityRecords, EntityReads, B!NoRead, B!Bounds
  <2>2. /\ entity'[e].data = entity[e].data /\ entity'[e].gen = entity[e].gen
        /\ entity'[e].write = entity[e].write /\ entity'[e].read.at = "idle"
    BY <1>1, <1>2 DEF EntityRecords, B!NoRead
  <2>3. EntityFits(e, entity'[e], events')
    BY <1>1, <2>1, <2>2 DEF EntityFits, ReadFits, EntityRecords, B!Bounds
  <2> QED
    BY <1>1, <1>2, <2>1, <2>3, EntityTyped DEF Sound
<1>3. CASE entity' = [ entity EXCEPT ![e].read.at = "answered", ![e].read.value = B!Read(e) ] /\ UNCHANGED events
  <2>1. B!Read(e) \in Data /\ B!Read(e) \in B!Readable(e)
    BY ReadsTyped DEF Types
  <2>2. entity' \in [ Entities -> EntityRecords ]
    <3>1. entity[e] \in EntityRecords /\ entity[e].read \in EntityReads
      BY <1>1 DEF EntityRecords
    <3>2. [ entity[e].read EXCEPT !.at = "answered", !.value = B!Read(e) ] \in EntityReads
      BY <2>1, <3>1 DEF EntityReads
    <3>3. [ entity[e] EXCEPT !.read.at = "answered", !.read.value = B!Read(e) ] \in EntityRecords
      BY <3>1, <3>2 DEF EntityRecords, EntityReads
    <3> QED
      BY <1>1, <1>3, <3>3
  <2>3. /\ entity'[e].data = entity[e].data /\ entity'[e].gen = entity[e].gen
        /\ entity'[e].write = entity[e].write
        /\ entity'[e].read.at = "answered" /\ entity'[e].read.value = B!Read(e)
    BY <1>1, <1>3 DEF EntityRecords, EntityReads
  <2>4. EntityFits(e, entity'[e], events')
    BY <1>1, <1>3, <2>1, <2>3 DEF EntityFits, ReadFits
  <2> QED
    BY <1>1, <1>3, <2>2, <2>4, EntityTyped DEF Sound
<1> QED
  BY <1>2, <1>3 DEF B!Answer

LEMMA InstallTyped ==
  ASSUME B!Bounds, Types, NEW e \in Entities, B!Install(e)
  PROVE  Types'
<1>1. /\ entity \in [ Entities -> EntityRecords ]
      /\ events \in 0 .. MaxEvents /\ events' \in events .. MaxEvents
      /\ EntityFits(e, entity[e], events) /\ entity[e].read.at = "answered"
      /\ UNCHANGED << car, queue, results, confirmed, events, doubtful >>
  BY Typing DEF Typed, Plain, Sound, B!Bounds, B!Install
<1> DEFINE shown == IF entity[e].read.gen = entity[e].gen /\ entity[e].write.at = "idle"
                    THEN entity[e].read.value ELSE entity[e].data
<1>2. entity' = [ entity EXCEPT ![e].read = B!NoRead, ![e].data = shown ]
  BY DEF B!Install
<1>3. shown \in Data /\ shown \in B!Readable(e) \cup { B!NoSetting }
  BY <1>1 DEF EntityFits, ReadFits, EntityRecords, EntityReads
<1> HIDE DEF shown
<1>4. entity' \in [ Entities -> EntityRecords ]
  <2>1. entity[e] \in EntityRecords /\ B!NoRead \in EntityReads
    BY <1>1, SettingsHeld DEF EntityReads, B!NoRead, B!Bounds
  <2>2. [ entity[e] EXCEPT !.read = B!NoRead, !.data = shown ] \in EntityRecords
    BY <1>3, <2>1 DEF EntityRecords
  <2> QED
    BY <1>1, <1>2, <2>2
<1>5. /\ entity'[e].data = shown /\ entity'[e].gen = entity[e].gen
      /\ entity'[e].write = entity[e].write /\ entity'[e].read.at = "idle"
  BY <1>1, <1>2 DEF EntityRecords, B!NoRead
<1>6. EntityFits(e, entity'[e], events')
  BY <1>1, <1>3, <1>5 DEF EntityFits, ReadFits
<1> QED
  BY <1>1, <1>2, <1>4, <1>6, EntityTyped DEF Sound

\* Orders of which a mark is taken away.
LEMMA Remarked ==
  ASSUME Types, events' \in 0 .. MaxEvents,
         \/ queue' = [ i \in DOMAIN queue |-> [ queue[i] EXCEPT !.fresh = FALSE ] ]
         \/ queue' = [ i \in DOMAIN queue |-> [ queue[i] EXCEPT !.tracked = FALSE ] ]
  PROVE  queue' \in Seq(Orders) /\ Lined'
<1>1. queue \in Seq(Orders) /\ Lined
  BY Typing DEF Typed
<1>2. Len(queue) \in Nat /\ DOMAIN queue = 1 .. Len(queue) /\ \A i \in 1 .. Len(queue) : queue[i] \in Orders
  BY <1>1, Listed
<1>3. ASSUME NEW o \in Orders
      PROVE  /\ [ o EXCEPT !.fresh = FALSE ] \in Orders /\ [ o EXCEPT !.tracked = FALSE ] \in Orders
             /\ [ o EXCEPT !.fresh = FALSE ].by = o.by /\ [ o EXCEPT !.tracked = FALSE ].by = o.by
             /\ [ o EXCEPT !.fresh = FALSE ].value = o.value /\ [ o EXCEPT !.tracked = FALSE ].value = o.value
  BY <1>3 DEF Orders
<1>4. queue' \in [ 1 .. Len(queue) -> Orders ]
  BY <1>2, <1>3
<1>5. queue' \in Seq(Orders) /\ Len(queue') = Len(queue)
  BY <1>2, <1>4
<1>6. \A i \in 1 .. Len(queue) : queue'[i].by = queue[i].by /\ queue'[i].value = queue[i].value
  BY <1>2, <1>3
<1> QED
  BY <1>1, <1>5, <1>6 DEF Lined

LEMMA AppSetsTyped ==
  ASSUME B!Bounds, Types, B!AppSets
  PROVE  Types'
<1>1. /\ car \in B!Cars /\ entity \in [ Entities -> EntityRecords ]
      /\ events' = events + 1 /\ events' \in 0 .. MaxEvents
      /\ \A e \in Entities : EntityFits(e, entity[e], events)
  BY Typing DEF Plain, Typed, B!AppSets, B!Happens, B!Bounds, Sound
<1>2. car' \in B!Cars
  BY <1>1 DEF B!AppSets, B!Cars
<1>3. \A e \in Entities :
        LET x == [ entity[e] EXCEPT !.write.fresh = FALSE ] IN
        /\ x \in EntityRecords /\ x.data = entity[e].data /\ x.gen = entity[e].gen /\ x.read = entity[e].read
        /\ x.write.at = entity[e].write.at /\ x.write.value = entity[e].write.value
        /\ x.write.base = entity[e].write.base
  BY <1>1 DEF EntityRecords, Writes
<1>4. entity' \in [ Entities -> EntityRecords ]
  BY <1>3 DEF B!AppSets
<1>5. ASSUME NEW e \in Entities
      PROVE  Sound(e)'
  <2>1. /\ entity'[e].data = entity[e].data /\ entity'[e].gen = entity[e].gen /\ entity'[e].read = entity[e].read
        /\ entity'[e].write.at = entity[e].write.at /\ entity'[e].write.value = entity[e].write.value
        /\ entity'[e].write.base = entity[e].write.base
    BY <1>3 DEF B!AppSets
  <2>2. entity[e].gen \in Nat /\ events \in Nat
    BY <1>1, Typing DEF EntityRecords, Plain, B!Bounds
  <2>3. Mended(e, entity'[e].write) = Mended(e, entity[e].write)
    BY <2>1 DEF Mended
  <2> QED
    BY <1>1, <2>1, <2>2, <2>3 DEF Sound, EntityFits, WriteFits
<1>6. queue' \in Seq(Orders) /\ Lined'
  BY <1>1, Remarked DEF B!AppSets
<1>7. Typed' /\ Plain' /\ Carried'
  BY <1>1, <1>2, <1>4, <1>6, Typing DEF Typed, Plain, Carried, B!AppSets, B!Values
<1> QED
  BY <1>5, <1>6, <1>7, TypingNext

LEMMA ReloadTyped ==
  ASSUME B!Bounds, Types, B!Reload
  PROVE  Types'
<1>1. car \in B!Cars /\ events' \in 0 .. MaxEvents
  BY Typing DEF Plain, B!Reload, B!Happens, B!Bounds
<1>2. B!NewEntity \in EntityRecords
  BY SettingsHeld DEF B!NewEntity, B!NoWrite, B!NoRead, EntityRecords, Writes, EntityReads, B!Bounds
<1>3. ASSUME NEW e \in Entities
      PROVE  Sound(e)'
  <2>1. /\ entity'[e].data = B!NoSetting /\ entity'[e].gen = 0 /\ events' \in Nat
        /\ entity'[e].write.at = "idle" /\ entity'[e].read.at = "idle"
    BY <1>1 DEF B!Reload, B!NewEntity, B!NoWrite, B!NoRead
  <2> QED
    BY <2>1 DEF Sound, EntityFits, WriteFits, ReadFits
<1>4. queue' \in Seq(Orders) /\ Lined'
  BY <1>1, Remarked DEF B!Reload
<1>5. Typed' /\ Plain' /\ Carried'
  BY <1>1, <1>2, <1>4 DEF Typed, Plain, Carried, B!Reload
<1> QED
  BY <1>3, <1>4, <1>5, TypingNext

LEMMA TypesStep ==
  ASSUME B!Bounds, Types, [B!Next]_(B!vars)
  PROVE  Types'
<1>1. CASE UNCHANGED B!vars
  BY <1>1 DEF B!vars, Types, B!TypeOK, Typed, Fitting, B!Readable, Asked, B!Values
<1> QED
  BY <1>1, EditTyped, FetchTyped, PostTyped, CommandTyped, AskTyped, AnswerTyped, InstallTyped,
     ApplyTyped, FinishTyped, AppSetsTyped, ReloadTyped DEF B!Next

---------------------------------------------------------------------------
(* The setting.                                                            *)

Pended == \E i \in 1 .. Len(queue) : queue[i].by \in B!Fields

LEMMA PendingPended ==
  ASSUME Typed
  PROVE  B!Pending <=> Pended
  BY Listed DEF Typed, B!Pending, Pended

LEMMA PendingPendedNext ==
  ASSUME Typed'
  PROVE  B!Pending' <=> Pended'
<1>1. queue' \in Seq(Orders)
  BY DEF Typed
<1> QED
  BY <1>1, Listed DEF B!Pending, Pended

\* Writes that stay or are no longer, with the car and its orders as they were.
LEMMA FreshFrame ==
  ASSUME Fresh, UNCHANGED << car, queue >>,
         \A d \in Entities :
           \/ entity'[d].write = entity[d].write
           \/ entity'[d].write.at # "post" /\ ~ entity'[d].write.fresh
  PROVE  Fresh'
<1>1. OneWrites'
  BY DEF Fresh, OneWrites
<1>2. FreshPost'
  BY DEF Fresh, FreshPost, B!Pending
<1>3. FreshOrder'
  BY DEF Fresh, FreshOrder
<1> QED
  BY <1>1, <1>2, <1>3 DEF Fresh

LEMMA EditFresh ==
  ASSUME Types, Fresh, NEW e \in Entities, B!Edit(e)
  PROVE  Fresh'
<1>1. entity \in [ Entities -> EntityRecords ]
  BY Typing DEF Typed
<1>2. \A d \in Entities :
        \/ entity'[d].write = entity[d].write
        \/ entity'[d].write.at # "post" /\ ~ entity'[d].write.fresh
  BY <1>1 DEF B!Edit, B!NoWrite, EntityRecords
<1> QED
  BY <1>2, FreshFrame DEF B!Edit

LEMMA ReadingFresh ==
  ASSUME Types, Fresh, NEW e \in Entities, B!Ask(e) \/ B!Answer(e) \/ B!Install(e)
  PROVE  Fresh'
<1>1. entity \in [ Entities -> EntityRecords ]
  BY Typing DEF Typed
<1>2. \A d \in Entities : entity'[d].write = entity[d].write
  BY <1>1 DEF B!Ask, B!Answer, B!Install, EntityRecords
<1> QED
  BY <1>2, FreshFrame DEF B!Ask, B!Answer, B!Install

LEMMA FinishFresh ==
  ASSUME Types, Fresh, B!Finish
  PROVE  Fresh'
<1>1. entity \in [ Entities -> EntityRecords ]
  BY Typing DEF Typed
<1>2. \A d \in Entities : entity'[d].write = entity[d].write
  BY <1>1 DEF B!Finish, EntityRecords
<1> QED
  BY <1>2, FreshFrame DEF B!Finish

LEMMA FetchFresh ==
  ASSUME Types, Fresh, NEW e \in Entities, B!Fetch(e)
  PROVE  Fresh'
<1>1. entity \in [ Entities -> EntityRecords ] /\ UNCHANGED << car, queue >>
  BY Typing DEF Typed, B!Fetch
<1>2. CASE B!Released(e)
  <2>1. \A d \in Entities :
          \/ entity'[d].write = entity[d].write
          \/ entity'[d].write.at # "post" /\ ~ entity'[d].write.fresh
    BY <1>1, <1>2 DEF B!Released, B!NoWrite, EntityRecords
  <2> QED
    BY <1>1, <2>1, FreshFrame
<1>3. CASE entity' = [ entity EXCEPT ![e].write.at = "post", ![e].write.base = car.setting,
                                     ![e].write.fresh = ~ B!Pending ]
  <2>1. /\ entity'[e].write.at = "post" /\ entity'[e].write.base = car.setting
        /\ entity'[e].write.fresh <=> ~ B!Pending
        /\ \A d \in Entities \ {e} : entity'[d] = entity[d]
    <3> DEFINE fresh == ~ B!Pending
    <3>1. entity' = [ entity EXCEPT ![e].write.at = "post", ![e].write.base = car.setting,
                                    ![e].write.fresh = fresh ]
      BY <1>3
    <3> HIDE DEF fresh
    <3>2. /\ entity'[e].write.at = "post" /\ entity'[e].write.base = car.setting
          /\ entity'[e].write.fresh = fresh
          /\ \A d \in Entities \ {e} : entity'[d] = entity[d]
      BY <1>1, <3>1 DEF EntityRecords, Writes
    <3> QED
      BY <3>2 DEF fresh
  <2>2. \A d \in Entities \ {e} : entity[d].write.at # "post"
    BY DEF B!Fetch, B!LockFree
  <2>3. OneWrites'
    BY <2>1, <2>2 DEF OneWrites
  <2>4. FreshPost'
    BY <1>1, <2>1 DEF Fresh, FreshPost, B!Pending
  <2>5. FreshOrder'
    BY <1>1 DEF Fresh, FreshOrder
  <2> QED
    BY <2>3, <2>4, <2>5 DEF Fresh
<1> QED
  BY <1>2, <1>3 DEF B!Fetch, B!Base

LEMMA SentFresh ==
  ASSUME B!Bounds, Types, Fresh, NEW e \in Entities, NEW v, Fits(e, v), B!Sent(e, v),
         \A d \in Entities \ {e} : entity[d].write.at # "post",
         entity[e].write.at # "idle",
         entity[e].write.fresh => e \in B!Fields /\ \A f \in B!Fields \ {e} : v[f] = car.setting[f]
  PROVE  Fresh'
<1>1. entity \in [ Entities -> EntityRecords ] /\ queue \in Seq(Orders) /\ Typed /\ UNCHANGED car
  BY Typing DEF Typed, B!Sent
<1>2. /\ entity'[e].write.at = "idle" /\ ~ entity'[e].write.fresh
      /\ \A d \in Entities \ {e} : entity'[d] = entity[d]
  BY <1>1 DEF B!Sent, B!Released, B!NoWrite, EntityRecords
<1>3. OneWrites'
  BY <1>2 DEF Fresh, OneWrites
<1>4. \A d \in Entities : ~ entity'[d].write.fresh
  BY <1>2 DEF Fresh, FreshPost
<1>5. FreshOrder'
  <2>1. CASE queue' = queue
    BY <1>1, <2>1 DEF Fresh, FreshOrder
  <2>2. ASSUME NEW tracked \in BOOLEAN, queue' = Append(queue, B!Order(e, v, tracked))
        PROVE  FreshOrder'
    <3> DEFINE o == B!Order(e, v, tracked)
    <3>1. o \in Orders /\ o.by = e /\ o.value = v /\ o.fresh = entity[e].write.fresh
      BY OrderMade
    <3> HIDE DEF o
    <3>2. /\ Len(queue) \in Nat /\ Len(queue') = Len(queue) + 1
          /\ \A i \in 1 .. Len(queue) : queue'[i] = queue[i]
          /\ queue'[Len(queue) + 1] = o
      BY <1>1, <2>2, <3>1, Appended DEF o
    <3>3. o.fresh => \A j \in 1 .. Len(queue) : queue[j].by \notin B!Fields
      BY <1>1, <3>1, PendingPended DEF Fresh, FreshPost, Pended
    <3> SUFFICES ASSUME NEW i \in 1 .. Len(queue) + 1, queue'[i].fresh
                 PROVE  /\ queue'[i].by \in B!Fields
                        /\ \A j \in 1 .. i - 1 : queue'[j].by \notin B!Fields
                        /\ \A f \in B!Fields \ {queue'[i].by} : queue'[i].value[f] = car.setting[f]
      BY <1>1, <3>2 DEF FreshOrder
    <3>4. CASE i \in 1 .. Len(queue)
      BY <3>2, <3>4 DEF Fresh, FreshOrder
    <3>5. CASE i = Len(queue) + 1
      BY <3>1, <3>2, <3>3, <3>5
    <3> QED
      BY <3>2, <3>4, <3>5
  <2> QED
    BY <2>1, <2>2 DEF B!Sent
<1> QED
  BY <1>3, <1>4, <1>5 DEF Fresh, FreshPost

LEMMA PostFresh ==
  ASSUME B!Bounds, Types, Fresh, NEW e \in Entities, B!Post(e)
  PROVE  Fresh'
<1> DEFINE w == entity[e].write
<1>1. /\ Fits(e, Mended(e, w)) /\ B!Sent(e, Mended(e, w)) /\ e \in B!Fields /\ w.at = "post"
  BY PostTyped
<1>2. w.base \in B!Setting
  BY <1>1, Typing DEF Sound, EntityFits, WriteFits
<1>3. \A d \in Entities \ {e} : entity[d].write.at # "post"
  BY <1>1 DEF Fresh, OneWrites
<1>4. w.fresh => \A f \in B!Fields \ {e} : Mended(e, w)[f] = car.setting[f]
  BY <1>2 DEF Fresh, FreshPost, Mended, B!Setting
<1> QED
  BY <1>1, <1>3, <1>4, SentFresh

LEMMA CommandFresh ==
  ASSUME B!Bounds, Types, Fresh, NEW e \in Entities, B!Command(e)
  PROVE  Fresh'
<1>1. /\ Fits(e, entity[e].write.value) /\ B!Sent(e, entity[e].write.value) /\ entity[e].write.at = "send"
      /\ \A d \in Entities : entity[d].write.at # "post"
  BY CommandTyped DEF B!Command, B!LockFree
<1> QED
  BY <1>1, SentFresh DEF Fresh, FreshPost

LEMMA ApplyFresh ==
  ASSUME B!Bounds, Types, Fresh, B!Apply
  PROVE  Fresh'
<1>1. Typed /\ Typed'
  BY Typing, ApplyTyped DEF Types
<1>2. queue[1].by \notin B!Fields => car'.setting = car.setting
  <2>1. CASE UNCHANGED car
    BY <2>1
  <2>2. CASE car' = CASE queue[1].by = "limit" -> [ car EXCEPT !.limit = queue[1].value ]
                      [] queue[1].by \in {"departure", "heating"} -> [ car EXCEPT !.departure = queue[1].value ]
                      [] OTHER -> [ car EXCEPT !.setting = queue[1].value ]
    <3>1. car \in B!Cars /\ queue[1].by \in Entities
      BY Foremost, Typing DEF Plain, Orders
    <3>2. queue[1].by \notin B!Fields => queue[1].by \in {"limit", "departure", "heating"}
      BY <3>1, Named
    <3>3. CASE queue[1].by = "limit"
      BY <2>2, <3>1, <3>3 DEF B!Cars
    <3>4. CASE queue[1].by \in {"departure", "heating"}
      BY <2>2, <3>1, <3>4 DEF B!Cars
    <3> QED
      BY <3>2, <3>3, <3>4
  <2> QED
    BY <2>1, <2>2, Foremost DEF B!Apply
<1>3. \A i \in 1 .. Len(queue') : i + 1 \in 2 .. Len(queue) /\ queue'[i] = queue[i + 1]
  BY Foremost
<1>4. OneWrites'
  BY Foremost DEF Fresh, OneWrites
<1>5. FreshPost'
  <2> SUFFICES ASSUME NEW e \in Entities, entity[e].write.fresh
               PROVE  entity[e].write.at = "post" /\ ~ B!Pending' /\ entity[e].write.base = car'.setting
    BY Foremost DEF FreshPost
  <2>1. entity[e].write.at = "post" /\ ~ Pended /\ entity[e].write.base = car.setting
    BY <1>1, PendingPended DEF Fresh, FreshPost
  <2>2. queue[1].by \notin B!Fields /\ ~ Pended'
    BY <1>3, <2>1, Foremost DEF Pended
  <2> QED
    BY <1>1, <1>2, <2>1, <2>2, PendingPendedNext
<1>6. FreshOrder'
  <2> SUFFICES ASSUME NEW i \in 1 .. Len(queue'), queue'[i].fresh
               PROVE  /\ queue'[i].by \in B!Fields
                      /\ \A j \in 1 .. i - 1 : queue'[j].by \notin B!Fields
                      /\ \A f \in B!Fields \ {queue'[i].by} : queue'[i].value[f] = car'.setting[f]
    BY DEF FreshOrder
  <2>1. i + 1 \in 2 .. Len(queue) /\ queue'[i] = queue[i + 1] /\ Len(queue) \in Nat \ {0}
    BY <1>3, Foremost
  <2>2. /\ queue[i + 1].by \in B!Fields
        /\ \A j \in 1 .. i : queue[j].by \notin B!Fields
        /\ \A f \in B!Fields \ {queue[i + 1].by} : queue[i + 1].value[f] = car.setting[f]
    BY <2>1 DEF Fresh, FreshOrder
  <2>3. car'.setting = car.setting
    BY <1>2, <2>1, <2>2
  <2>4. \A j \in 1 .. i - 1 : queue'[j].by \notin B!Fields
    BY <1>3, <2>1, <2>2, Foremost
  <2> QED
    BY <2>1, <2>2, <2>3, <2>4
<1> QED
  BY <1>4, <1>5, <1>6 DEF Fresh

LEMMA WorldFresh ==
  ASSUME B!Bounds, Types, Fresh, B!AppSets \/ B!Reload
  PROVE  Fresh'
<1>1. queue \in Seq(Orders) /\ entity \in [ Entities -> EntityRecords ]
  BY Typing DEF Typed
<1>2. Len(queue) \in Nat /\ DOMAIN queue = 1 .. Len(queue) /\ \A i \in 1 .. Len(queue) : queue[i] \in Orders
  BY <1>1, Listed
<1>3. /\ \A e \in Entities : ~ entity'[e].write.fresh
      /\ \A e \in Entities : entity'[e].write.at = "post" => entity[e].write.at = "post"
  <2>1. ASSUME NEW e \in Entities
        PROVE  /\ ~ [ entity[e] EXCEPT !.write.fresh = FALSE ].write.fresh
               /\ [ entity[e] EXCEPT !.write.fresh = FALSE ].write.at = entity[e].write.at
    BY <1>1 DEF EntityRecords, Writes
  <2>2. CASE B!AppSets
    BY <2>1, <2>2 DEF B!AppSets
  <2>3. CASE B!Reload
    BY <2>3 DEF B!Reload, B!NewEntity, B!NoWrite
  <2> QED
    BY <2>2, <2>3
<1>4. OneWrites' /\ FreshPost'
  BY <1>3 DEF Fresh, OneWrites, FreshPost
<1>5. FreshOrder'
  <2>1. CASE B!AppSets
    <3>1. Len(queue') = Len(queue) /\ \A i \in 1 .. Len(queue) : ~ queue'[i].fresh
      BY <1>2, <2>1 DEF B!AppSets, Orders
    <3> QED
      BY <3>1 DEF FreshOrder
  <2>2. CASE B!Reload
    <3>1. /\ Len(queue') = Len(queue) /\ UNCHANGED car
          /\ \A i \in 1 .. Len(queue) : /\ queue'[i].by = queue[i].by /\ queue'[i].value = queue[i].value
                                        /\ queue'[i].fresh = queue[i].fresh
      BY <1>2, <2>2 DEF B!Reload, Orders
    <3> QED
      BY <1>2, <3>1 DEF Fresh, FreshOrder
  <2> QED
    BY <2>1, <2>2
<1> QED
  BY <1>4, <1>5 DEF Fresh

LEMMA FreshStep ==
  ASSUME B!Bounds, Types, Fresh, [B!Next]_(B!vars)
  PROVE  Fresh'
<1>1. CASE UNCHANGED B!vars
  BY <1>1, FreshFrame DEF B!vars
<1> QED
  BY <1>1, EditFresh, FetchFresh, PostFresh, CommandFresh, ReadingFresh, ApplyFresh, FinishFresh, WorldFresh DEF B!Next

---------------------------------------------------------------------------
(* What is remembered.                                                     *)

LEMMA Counted ==
  ASSUME B!Bounds, Types
  PROVE  /\ \A i \in 1 .. Len(queue) : queue[i] \in Orders /\ queue[i].by \in Entities /\ queue[i].gen \in Nat
         /\ \A r \in results : r \in Results /\ r.gen \in Nat
         /\ Len(queue) \in Nat
<1>1. queue \in Seq(Orders) /\ results \subseteq Results
  BY Typing DEF Typed
<1>2. Len(queue) \in Nat /\ \A i \in 1 .. Len(queue) : queue[i] \in Orders
  BY <1>1, Listed
<1>3. \A o \in Orders : o.gen \in Nat /\ o.by \in Entities
  BY DEF Orders, B!Bounds
<1>4. \A r \in Results : r.gen \in Nat
  BY DEF Results, B!Bounds
<1> QED
  BY <1>1, <1>2, <1>3, <1>4

\* Steps that touch neither the car, nor its orders, nor what is known of x.
LEMMA FollowedFrame ==
  ASSUME NEW x \in B!Remembered, Followed(x), UNCHANGED << car, queue, results, confirmed >>,
         entity'[x].gen = entity[x].gen,
         entity'[x].write.at # "idle" => entity[x].write.at # "idle"
  PROVE  Followed(x)'
<1>1. Numbered(x)' /\ Behind(x)'
  BY DEF Followed, Numbered, Behind
<1>2. \A r \in results : r.by = x => (B!Current(r)' <=> B!Current(r))
  BY DEF B!Current
<1>3. \A v : InEffect(x, v)' <=> InEffect(x, v)
  BY DEF InEffect
<1>4. Confirming(x)' /\ HasConfirmed(x)'
  BY <1>2, <1>3 DEF Followed, Confirming, HasConfirmed, Ordered
<1> QED
  BY <1>1, <1>4 DEF Followed

LEMMA ReadingFollowed ==
  ASSUME B!Bounds, Types, NEW x \in B!Remembered, Followed(x),
         NEW e \in Entities, B!Fetch(e) \/ B!Ask(e) \/ B!Answer(e) \/ B!Install(e)
  PROVE  Followed(x)'
<1>1. entity \in [ Entities -> EntityRecords ] /\ x \in Entities
  BY Typing, Named DEF Typed
<1>2. /\ entity'[x].gen = entity[x].gen
      /\ entity'[x].write.at # "idle" => entity[x].write.at # "idle"
  <2>1. CASE B!Fetch(e)
    BY <1>1, <2>1 DEF B!Fetch, B!Released, B!NoWrite, EntityRecords, Writes
  <2>2. CASE B!Ask(e) \/ B!Answer(e) \/ B!Install(e)
    BY <1>1, <2>2 DEF B!Ask, B!Answer, B!Install, EntityRecords
  <2> QED
    BY <2>1, <2>2
<1> QED
  BY <1>2, FollowedFrame DEF B!Fetch, B!Ask, B!Answer, B!Install

LEMMA EditFollowed ==
  ASSUME B!Bounds, Types, NEW x \in B!Remembered, Followed(x), NEW e \in Entities, B!Edit(e)
  PROVE  Followed(x)'
<1>1. entity \in [ Entities -> EntityRecords ] /\ x \in Entities /\ queue \in Seq(Orders) /\ results \subseteq Results
  BY Typing, Named DEF Typed
<1>2. UNCHANGED << car, queue, results, confirmed >>
  BY DEF B!Edit
<1>3. CASE e # x
  <2>1. entity'[x] = entity[x]
    BY <1>1, <1>3 DEF B!Edit
  <2> QED
    BY <1>2, <2>1, FollowedFrame
<1>4. CASE e = x
  <2>1. entity'[x].gen = entity[x].gen + 1 /\ entity[x].gen \in Nat /\ entity[x].write.at = "idle"
    BY <1>1, <1>4 DEF B!Edit, EntityRecords, B!Bounds
  <2>2. /\ \A i \in 1 .. Len(queue) : queue[i].gen \in Nat
        /\ \A r \in results : r.gen \in Nat
    BY Counted
  <2>3. Numbered(x)' /\ Behind(x)'
    <3> DEFINE g == entity[x].gen
    <3>1. /\ \A i \in 1 .. Len(queue) :
               queue[i].by = x => queue[i].tracked /\ queue[i].gen <= g /\ queue[i].gen < g + 1
          /\ \A r \in results : r.by = x => r.gen <= g /\ r.gen < g + 1
      BY <2>1, <2>2 DEF Followed, Numbered
    <3>2. entity'[x].gen = g + 1 /\ \A n \in Nat : n < g + 1 => n <= g + 1
      BY <2>1
    <3> HIDE DEF g
    <3>3. Numbered(x)'
      BY <1>2, <2>2, <3>1, <3>2 DEF Followed, Numbered
    <3> QED
      BY <1>2, <3>3 DEF Followed, Behind
  <2>4. \A r \in results : r.by = x => ~ B!Current(r)'
    BY <2>1, <2>2 DEF B!Current, Followed, Numbered
  <2>5. \A v : InEffect(x, v)' <=> InEffect(x, v)
    BY <1>2 DEF InEffect
  <2>6. Confirming(x)' /\ HasConfirmed(x)'
    BY <1>2, <2>4, <2>5 DEF Followed, Confirming, HasConfirmed, Ordered
  <2> QED
    BY <2>3, <2>6 DEF Followed
<1> QED
  BY <1>3, <1>4

\* An order of another entity, that does not bear on what is remembered.
LEMMA SentFollowed ==
  ASSUME B!Bounds, Types, NEW x \in B!Remembered, Followed(x), ~ doubtful'[x],
         NEW e \in Entities, NEW v, Fits(e, v), B!Sent(e, v), entity[e].write.at # "idle",
         e = "heating" => v = entity[e].write.value
  PROVE  Followed(x)'
<1>1. /\ entity \in [ Entities -> EntityRecords ] /\ x \in Entities /\ queue \in Seq(Orders)
      /\ results \subseteq Results /\ confirmed \in [ B!Remembered -> Posted \cup { B!Unknown } ]
      /\ \A r \in results : r.gen \in Nat
  BY Typing, Named DEF Typed, Results, B!Bounds
<1>2. /\ UNCHANGED << car, results >> /\ entity'[x].gen = entity[x].gen
      /\ entity'[x].write.at # "idle" => entity[x].write.at # "idle"
      /\ entity'[e].write.at = "idle"
  BY <1>1 DEF B!Sent, B!Released, B!NoWrite, EntityRecords
<1>3. CASE UNCHANGED << queue, confirmed, doubtful >>
  BY <1>2, <1>3, FollowedFrame
<1>4. ASSUME NEW tracked \in BOOLEAN,
             queue' = Append(queue, B!Order(e, v, tracked)),
             confirmed' = IF e \in B!Remembered /\ tracked THEN [ confirmed EXCEPT ![e] = B!Unknown ]
                          ELSE confirmed,
             doubtful' = B!Doubts(e, tracked)
      PROVE  Followed(x)'
  <2> DEFINE o == B!Order(e, v, tracked)
  <2>1. /\ o \in Orders /\ o.by = e /\ o.value = v /\ o.gen = entity[e].gen /\ o.tracked = tracked
        /\ o.gen \in Nat
    BY OrderMade DEF Orders, B!Bounds
  <2> HIDE DEF o
  <2>2. /\ Len(queue) \in Nat /\ Len(queue') = Len(queue) + 1
        /\ \A i \in 1 .. Len(queue) : queue'[i] = queue[i] /\ queue[i].gen \in Nat
        /\ queue'[Len(queue) + 1] = o
    BY <1>1, <1>4, <2>1, Appended, Counted DEF o
  <2>3. \A i \in 1 .. Len(queue') : i \in 1 .. Len(queue) \/ i = Len(queue) + 1
    BY <2>2
  <2>4. x = e => tracked
    BY <1>4 DEF B!Doubts
  <2>5. x = "departure" => ~ B!Outdated(e)
    BY <1>4 DEF B!Doubts
  <2>6. Numbered(x)'
    <3>1. ASSUME NEW i \in 1 .. Len(queue'), queue'[i].by = x
          PROVE  /\ queue'[i].tracked /\ queue'[i].gen <= entity'[x].gen
                 /\ entity'[x].write.at # "idle" => queue'[i].gen < entity'[x].gen
      <4>1. CASE i \in 1 .. Len(queue)
        BY <1>2, <2>2, <3>1, <4>1 DEF Followed, Numbered
      <4>2. CASE i = Len(queue) + 1
        BY <1>2, <2>1, <2>2, <2>4, <3>1, <4>2
      <4> QED
        BY <2>3, <4>1, <4>2
    <3>2. ASSUME NEW i \in 1 .. Len(queue'), NEW j \in 1 .. Len(queue'),
                 i < j, queue'[i].by = x, queue'[j].by = x
          PROVE  queue'[i].gen < queue'[j].gen
      <4>1. i \in 1 .. Len(queue)
        BY <2>2, <3>2
      <4>2. CASE j \in 1 .. Len(queue)
        BY <2>2, <3>2, <4>1, <4>2 DEF Followed, Numbered
      <4>3. CASE j = Len(queue) + 1
        BY <1>1, <2>1, <2>2, <3>2, <4>1, <4>3 DEF Followed, Numbered
      <4> QED
        BY <2>3, <4>2, <4>3
    <3>3. ASSUME NEW r \in results, r.by = x
          PROVE  /\ r.gen <= entity'[x].gen
                 /\ entity'[x].write.at # "idle" => r.gen < entity'[x].gen
                 /\ \A i \in 1 .. Len(queue') : queue'[i].by = x => r.gen < queue'[i].gen
      <4>1. r.gen <= entity[x].gen /\ (entity[x].write.at # "idle" => r.gen < entity[x].gen)
        BY <3>3 DEF Followed, Numbered
      <4>2. ASSUME NEW i \in 1 .. Len(queue'), queue'[i].by = x
            PROVE  r.gen < queue'[i].gen
        <5>1. CASE i \in 1 .. Len(queue)
          BY <2>2, <3>3, <4>2, <5>1 DEF Followed, Numbered
        <5>2. CASE i = Len(queue) + 1
          BY <2>1, <2>2, <4>1, <4>2, <5>2
        <5> QED
          BY <2>3, <5>1, <5>2
      <4> QED
        BY <1>2, <4>1, <4>2
    <3>4. \A r, s \in results : r.by = x /\ s.by = x /\ r.gen = s.gen => r = s
      BY DEF Followed, Numbered
    <3> QED
      BY <1>2, <3>1, <3>2, <3>3, <3>4 DEF Numbered
  <2>7. e = "heating" /\ x = "departure" => v \in { B!Off, confirmed[x] } /\ (confirmed[x] = B!Unknown => v = B!Off)
    <3> SUFFICES ASSUME e = "heating", x = "departure"
                 PROVE  v \in { B!Off, confirmed[x] } /\ (confirmed[x] = B!Unknown => v = B!Off)
      OBVIOUS
    <3>1. v \in { B!Off, confirmed[x] }
      BY <2>5 DEF B!Outdated
    <3>2. v \in Asked(e)
      BY FitsPosted, Named
    <3> QED
      BY <3>1, <3>2, ValuesOf
  <2>8. ASSUME e = "heating", x = "departure", v # B!Off
        PROVE  /\ confirmed[x] # B!Unknown /\ v = confirmed[x] /\ ~ Ordered(x)
               /\ \A r \in results : ~ (r.by = x /\ r.ok /\ B!Current(r))
    BY <2>7, <2>8 DEF Followed, HasConfirmed
  <2>9. Behind(x)'
    <3> SUFFICES ASSUME x = "departure", NEW i \in 1 .. Len(queue'), NEW j \in 1 .. Len(queue'),
                        i < j, queue'[i].by = "departure", queue'[j].by = "heating"
                 PROVE  queue'[j].value = B!Off
      BY DEF Behind
    <3>1. i \in 1 .. Len(queue)
      BY <2>2
    <3>2. CASE j \in 1 .. Len(queue)
      BY <2>2, <3>1, <3>2 DEF Followed, Behind
    <3>3. CASE j = Len(queue) + 1
      BY <2>1, <2>2, <2>8, <3>1, <3>3 DEF Ordered
    <3> QED
      BY <2>3, <3>2, <3>3
  <2>10. ASSUME NEW u, InEffect(x, u), e = "heating" /\ x = "departure" => v \in { B!Off, u }
         PROVE  InEffect(x, u)'
    <3>1. x = "departure" => \A i \in 1 .. Len(queue') : queue'[i].by = "heating" => queue'[i].value \in { B!Off, u }
      BY <2>1, <2>2, <2>3, <2>10 DEF InEffect
    <3> QED
      BY <1>2, <2>10, <3>1 DEF InEffect
  <2>11. \A r \in results : r.by = x => (B!Current(r)' <=> B!Current(r))
    BY <1>2 DEF B!Current
  <2>12. Confirming(x)'
    <3> SUFFICES ASSUME NEW r \in results, r.by = x, r.ok, B!Current(r)
                 PROVE  InEffect(x, r.value)'
      BY <1>2, <2>11 DEF Confirming
    <3>1. InEffect(x, r.value)
      BY DEF Followed, Confirming
    <3> QED
      BY <2>8, <2>10, <3>1
  <2>13. HasConfirmed(x)'
    <3>1. CASE x = e
      BY <1>1, <1>4, <2>4, <3>1 DEF HasConfirmed
    <3>2. CASE x # e
      <4>1. confirmed'[x] = confirmed[x]
        BY <1>1, <1>4, <3>2
      <4> SUFFICES ASSUME confirmed[x] # B!Unknown
                   PROVE  /\ ~ Ordered(x)'
                          /\ \A r \in results : ~ (r.by = x /\ r.ok /\ B!Current(r))
                          /\ InEffect(x, confirmed[x])'
        BY <1>2, <2>11, <4>1 DEF HasConfirmed
      <4>2. PICK c : c = confirmed[x]
        OBVIOUS
      <4>3. /\ ~ Ordered(x) /\ InEffect(x, c)
            /\ \A r \in results : ~ (r.by = x /\ r.ok /\ B!Current(r))
        BY <4>2 DEF Followed, HasConfirmed
      <4>4. ~ Ordered(x)'
        BY <2>1, <2>2, <2>3, <3>2, <4>3 DEF Ordered
      <4>5. InEffect(x, c)'
        BY <2>7, <2>10, <4>2, <4>3
      <4>6. InEffect(x, confirmed[x])'
        BY <4>1, <4>2, <4>5 DEF InEffect
      <4> QED
        BY <4>3, <4>4, <4>6
    <3> QED
      BY <3>1, <3>2
  <2> QED
    BY <2>6, <2>9, <2>12, <2>13 DEF Followed
<1> QED
  BY <1>3, <1>4 DEF B!Sent

LEMMA WritingFollowed ==
  ASSUME B!Bounds, Types, NEW x \in B!Remembered, Followed(x), ~ doubtful'[x],
         NEW e \in Entities, B!Post(e) \/ B!Command(e)
  PROVE  Followed(x)'
<1>1. CASE B!Post(e)
  <2>1. /\ Fits(e, Mended(e, entity[e].write)) /\ B!Sent(e, Mended(e, entity[e].write))
        /\ e # "heating" /\ entity[e].write.at # "idle"
    BY <1>1, PostTyped, Named
  <2> QED
    BY <2>1, SentFollowed
<1>2. CASE B!Command(e)
  <2>1. /\ Fits(e, entity[e].write.value) /\ B!Sent(e, entity[e].write.value)
        /\ entity[e].write.at # "idle"
    BY <1>2, CommandTyped DEF B!Command
  <2> QED
    BY <2>1, SentFollowed
<1> QED
  BY <1>1, <1>2

\* What the oldest order does to the car.
LEMMA Applied ==
  ASSUME B!Bounds, Types, B!Apply
  PROVE  \/ UNCHANGED car /\ results' = B!Result(queue[1], FALSE)
         \/ /\ results' = B!Result(queue[1], TRUE)
            /\ car'.limit = IF queue[1].by = "limit" THEN queue[1].value ELSE car.limit
            /\ car'.departure = IF queue[1].by \in {"departure", "heating"} THEN queue[1].value
                                ELSE car.departure
<1>1. car \in B!Cars
  BY Typing DEF Plain
<1>2. CASE UNCHANGED car /\ results' = B!Result(queue[1], FALSE)
  BY <1>2
<1>3. CASE /\ car' = CASE queue[1].by = "limit" -> [ car EXCEPT !.limit = queue[1].value ]
                       [] queue[1].by \in {"departure", "heating"} -> [ car EXCEPT !.departure = queue[1].value ]
                       [] OTHER -> [ car EXCEPT !.setting = queue[1].value ]
           /\ results' = B!Result(queue[1], TRUE)
  <2>1. CASE queue[1].by = "limit"
    BY <1>1, <1>3, <2>1 DEF B!Cars
  <2>2. CASE queue[1].by \in {"departure", "heating"}
    BY <1>1, <1>3, <2>2 DEF B!Cars
  <2>3. CASE queue[1].by \notin {"limit", "departure", "heating"}
    BY <1>1, <1>3, <2>3 DEF B!Cars
  <2> QED
    BY <2>1, <2>2, <2>3
<1> QED
  BY <1>2, <1>3, Foremost DEF B!Apply

LEMMA ApplyFollowed ==
  ASSUME B!Bounds, Types, NEW x \in B!Remembered, Followed(x), B!Apply
  PROVE  Followed(x)'
<1> DEFINE w == queue[1]
<1>1. /\ w \in Orders /\ Fits(w.by, w.value) /\ w.by \in Entities /\ w.gen \in Nat
      /\ Len(queue) \in Nat \ {0} /\ Len(queue') = Len(queue) - 1
      /\ UNCHANGED << entity, confirmed >> /\ 1 \in 1 .. Len(queue)
  BY Foremost, Counted
<1>2. \A i \in 1 .. Len(queue') : i + 1 \in 2 .. Len(queue) /\ i + 1 \in 1 .. Len(queue) /\ queue'[i] = queue[i + 1]
  BY Foremost
<1>3. x \in {"limit", "departure"} /\ x \in Entities
  BY Named
<1>4. PICK ok \in BOOLEAN :
        /\ results' = B!Result(w, ok)
        /\ ~ ok => UNCHANGED car
        /\ ok => /\ car'.limit = IF w.by = "limit" THEN w.value ELSE car.limit
                 /\ car'.departure = IF w.by \in {"departure", "heating"} THEN w.value ELSE car.departure
  BY Applied
<1> DEFINE new == [ by |-> w.by, gen |-> w.gen, ok |-> ok,
                    value |-> IF w.by \in B!Remembered THEN w.value ELSE B!Unknown ]
<1>5. /\ new.by = w.by /\ new.gen = w.gen /\ new.ok = ok /\ (w.by = x => new.value = w.value)
      /\ \A r \in results' : r \in results \/ r = new
  BY <1>4 DEF B!Result
<1> HIDE DEF new
<1>6. w.by = x =>
        /\ w.tracked /\ w.gen <= entity[x].gen
        /\ entity[x].write.at # "idle" => w.gen < entity[x].gen
        /\ \A i \in 1 .. Len(queue') : queue'[i].by = x => w.gen < queue'[i].gen
        /\ \A r \in results : r.by = x => r.gen < w.gen
  BY <1>1, <1>2 DEF Followed, Numbered
<1>7. Numbered(x)'
  <2>1. ASSUME NEW i \in 1 .. Len(queue'), queue'[i].by = x
        PROVE  /\ queue'[i].tracked /\ queue'[i].gen <= entity'[x].gen
               /\ entity'[x].write.at # "idle" => queue'[i].gen < entity'[x].gen
    BY <1>1, <1>2, <2>1 DEF Followed, Numbered
  <2>2. ASSUME NEW i \in 1 .. Len(queue'), NEW j \in 1 .. Len(queue'),
               i < j, queue'[i].by = x, queue'[j].by = x
        PROVE  queue'[i].gen < queue'[j].gen
    BY <1>1, <1>2, <2>2 DEF Followed, Numbered
  <2>3. ASSUME NEW r \in results', r.by = x
        PROVE  /\ r.gen <= entity'[x].gen
               /\ entity'[x].write.at # "idle" => r.gen < entity'[x].gen
               /\ \A i \in 1 .. Len(queue') : queue'[i].by = x => r.gen < queue'[i].gen
    <3>1. CASE r \in results
      BY <1>1, <1>2, <2>3, <3>1 DEF Followed, Numbered
    <3>2. CASE r = new
      BY <1>1, <1>5, <1>6, <2>3, <3>2
    <3> QED
      BY <1>5, <3>1, <3>2
  <2>4. ASSUME NEW r \in results', NEW s \in results', r.by = x, s.by = x, r.gen = s.gen
        PROVE  r = s
    <3>1. r \in results /\ s \in results => r = s
      BY <2>4 DEF Followed, Numbered
    <3>2. ASSUME NEW q \in results, q.by = x, q.gen = new.gen, w.by = x
          PROVE  FALSE
      BY <1>1, <1>5, <1>6, <3>2, Counted
    <3> QED
      BY <1>5, <2>4, <3>1, <3>2
  <2> QED
    BY <2>1, <2>2, <2>3, <2>4 DEF Numbered
<1>8. Behind(x)'
  BY <1>1, <1>2 DEF Followed, Behind
\* What was in effect, and is not ordered anew, stays so.
<1>9. ASSUME NEW v, InEffect(x, v), w.by # x
      PROVE  InEffect(x, v)'
  <2>1. x = "departure" => \A i \in 1 .. Len(queue') : queue'[i].by = "heating" => queue'[i].value \in { B!Off, v }
    BY <1>2, <1>9 DEF InEffect
  <2>2. x = "departure" /\ w.by = "heating" => w.value \in { B!Off, v }
    BY <1>1, <1>9 DEF InEffect
  <2> QED
    BY <1>3, <1>4, <1>9, <2>1, <2>2 DEF InEffect
<1>10. ASSUME NEW v, v = w.value, ok, w.by = x
       PROVE  InEffect(x, v)'
  <2>1. x = "departure" => \A i \in 1 .. Len(queue') : queue'[i].by = "heating" => queue'[i].value = B!Off
    BY <1>1, <1>2, <1>10 DEF Followed, Behind
  <2> QED
    BY <1>3, <1>4, <1>10, <2>1 DEF InEffect
<1>11. Confirming(x)'
  <2> SUFFICES ASSUME NEW r \in results', r.by = x, r.ok, r.gen = entity[x].gen
               PROVE  InEffect(x, r.value)'
    BY <1>1 DEF Confirming, B!Current
  <2>1. CASE r \in results
    <3>1. w.by # x
      BY <1>1, <1>6, <2>1, <1>3, Counted, Typing DEF Typed, EntityRecords, B!Bounds
    <3>2. InEffect(x, r.value)
      BY <2>1 DEF Followed, Confirming, B!Current
    <3> QED
      BY <1>9, <3>1, <3>2
  <2>2. CASE r = new
    <3>1. w.by = x /\ ok /\ r.value = w.value
      BY <1>5, <2>2
    <3> QED
      BY <1>10, <3>1
  <2> QED
    BY <1>5, <2>1, <2>2
<1>12. HasConfirmed(x)'
  <2> SUFFICES ASSUME confirmed[x] # B!Unknown
               PROVE  /\ ~ Ordered(x)'
                      /\ \A r \in results' : ~ (r.by = x /\ r.ok /\ r.gen = entity[x].gen)
                      /\ InEffect(x, confirmed[x])'
    BY <1>1 DEF HasConfirmed, B!Current
  <2>1. PICK c : c = confirmed[x]
    OBVIOUS
  <2>2. /\ ~ Ordered(x) /\ InEffect(x, c)
        /\ \A r \in results : ~ (r.by = x /\ r.ok /\ r.gen = entity[x].gen)
    BY <2>1 DEF Followed, HasConfirmed, B!Current
  <2>3. w.by # x /\ ~ Ordered(x)'
    BY <1>1, <1>2, <2>2 DEF Ordered
  <2>4. InEffect(x, c)'
    BY <1>9, <2>2, <2>3
  <2>5. InEffect(x, confirmed[x])'
    BY <1>1, <2>1, <2>4 DEF InEffect
  <2> QED
    BY <1>5, <2>2, <2>3, <2>5
<1> QED
  BY <1>7, <1>8, <1>11, <1>12 DEF Followed

LEMMA FinishFollowed ==
  ASSUME B!Bounds, Types, NEW x \in B!Remembered, Followed(x), B!Finish
  PROVE  Followed(x)'
<1>1. PICK r \in results :
        /\ results' = results \ {r}
        /\ \E known \in BOOLEAN :
             confirmed' = IF B!Current(r) /\ known /\ r.ok /\ r.by \in B!Remembered
                          THEN [ confirmed EXCEPT ![r.by] = r.value ] ELSE confirmed
        /\ entity' = [ entity EXCEPT ![r.by].wanted = @ \/ (B!Current(r) /\ r.by \in B!Readers) ]
  BY DEF B!Finish
<1>2. /\ x \in Entities /\ entity \in [ Entities -> EntityRecords ]
      /\ confirmed \in [ B!Remembered -> Posted \cup { B!Unknown } ] /\ UNCHANGED << car, queue >>
  BY Named, Typing DEF Typed, B!Finish
<1>3. entity'[x].gen = entity[x].gen /\ entity'[x].write = entity[x].write
  BY <1>1, <1>2 DEF EntityRecords
<1>4. Numbered(x)' /\ Behind(x)'
  BY <1>1, <1>2, <1>3 DEF Followed, Numbered, Behind
<1>5. \A v : InEffect(x, v)' <=> InEffect(x, v)
  BY <1>2 DEF InEffect
<1>6. \A s \in results : s.by = x => (B!Current(s)' <=> B!Current(s))
  BY <1>3 DEF B!Current
<1>7. Confirming(x)'
  BY <1>1, <1>5, <1>6 DEF Followed, Confirming
<1>8. HasConfirmed(x)'
  <2>1. CASE confirmed'[x] = confirmed[x]
    <3>1. Ordered(x)' <=> Ordered(x)
      BY <1>2 DEF Ordered
    <3>2. InEffect(x, confirmed[x])' <=> InEffect(x, confirmed[x])
      BY <1>2, <2>1 DEF InEffect
    <3> QED
      BY <1>1, <1>6, <2>1, <3>1, <3>2 DEF Followed, HasConfirmed
  <2>2. CASE confirmed'[x] # confirmed[x]
    <3>1. r.by = x /\ r.ok /\ B!Current(r) /\ confirmed'[x] = r.value
      BY <1>1, <1>2, <2>2
    <3>2. r.gen = entity[x].gen /\ InEffect(x, r.value)
      BY <3>1 DEF Followed, Confirming, B!Current
    <3>3. ~ Ordered(x)'
      <4> SUFFICES ASSUME NEW i \in 1 .. Len(queue), queue[i].by = x
                   PROVE  FALSE
        BY <1>2 DEF Ordered
      <4>1. queue[i].gen <= entity[x].gen /\ r.gen < queue[i].gen
        BY <3>1 DEF Followed, Numbered
      <4>2. queue[i].gen \in Nat /\ r.gen \in Nat
        BY Counted
      <4> QED
        BY <3>2, <4>1, <4>2
    <3>4. \A s \in results' : ~ (s.by = x /\ s.ok /\ B!Current(s)')
      BY <1>1, <1>6, <3>1, <3>2 DEF Followed, Numbered, B!Current
    <3>5. InEffect(x, confirmed[x])'
      BY <1>2, <3>1, <3>2 DEF InEffect
    <3> QED
      BY <3>3, <3>4, <3>5 DEF HasConfirmed
  <2> QED
    BY <2>1, <2>2
<1> QED
  BY <1>4, <1>7, <1>8 DEF Followed

LEMMA DoubtlessStep ==
  ASSUME B!Bounds, Types, Doubtless, [B!Next]_(B!vars)
  PROVE  Doubtless'
<1> SUFFICES ASSUME NEW x \in B!Remembered, ~ doubtful'[x]  PROVE Followed(x)'
  BY DEF Doubtless
<1>1. CASE B!AppSets \/ B!Reload
  BY <1>1 DEF B!AppSets, B!Reload
<1>2. CASE [B!Next]_(B!vars) /\ ~ (B!AppSets \/ B!Reload)
  <2>1. ~ doubtful[x]
    BY <1>2 DEF B!Next, B!vars, B!Edit, B!Fetch, B!Post, B!Command, B!Sent, B!Doubts, B!Ask,
       B!Answer, B!Install, B!Apply, B!Finish
  <2>2. Followed(x)
    BY <2>1 DEF Doubtless
  <2>3. CASE UNCHANGED B!vars
    BY <2>2, <2>3, FollowedFrame DEF B!vars
  <2> QED
    BY <1>2, <2>2, <2>3, EditFollowed, ReadingFollowed, WritingFollowed, ApplyFollowed, FinishFollowed DEF B!Next
<1> QED
  BY <1>1, <1>2

---------------------------------------------------------------------------
(* The theorems.                                                           *)

\* What edits, reads, results of the polling and changes by the app leave of the charging
\* entities: one write at a time is between its read and its post, a fresh one is based on
\* the setting in effect, and the orders and results of what is not in doubt come in the
\* order of their writes, the newest telling what will be in effect.
THEOREM ChargingInvariant == B!Spec => []BInv
<1>1. B!Init => BInv
  BY ServiceBounds, Initially
<1>2. BInv /\ [B!Next]_(B!vars) => BInv'
  BY ServiceBounds, TypesStep, FreshStep, DoubtlessStep DEF BInv, Types
<1> QED
  BY <1>1, <1>2, PTL DEF B!Spec

\* The limit and the departure time an entity shows as confirmed are in effect in the car,
\* though results are polled late and out of order of the edits, unless another hand or an
\* unreported result left that in doubt.
THEOREM ConfirmedIsInEffect == B!Spec => []ConfirmedShown
<1>1. BInv => ConfirmedShown
  <2> SUFFICES ASSUME BInv  PROVE  ConfirmedShown
    OBVIOUS
  <2>1. ASSUME NEW x \in B!Remembered, ~ doubtful[x], confirmed[x] # B!Unknown
        PROVE  InEffect(x, confirmed[x])
    BY <2>1 DEF BInv, Doubtless, Followed, HasConfirmed
  <2> QED
    BY <2>1 DEF ConfirmedShown, B!ConfirmedShown, InEffect, B!Remembered
<1> QED
  BY <1>1, ChargingInvariant, PTL

\* A write of one field of the charge setting, which posts the whole of it, changes no other
\* field in the car, if nothing else was written between the read it rests on and its post.
THEOREM OtherFieldsKept == B!Spec => OthersKept
<1>1. BInv /\ [B!Next]_(B!vars) =>
        [ \A f \in B!Fields :
            (B!Apply /\ Head(queue).fresh /\ Head(queue).by \in B!Fields \ {f})
              => car'.setting[f] = car.setting[f] ]_(B!vars)
  <2> SUFFICES ASSUME BInv, B!Apply, NEW f \in B!Fields, Head(queue).fresh, Head(queue).by \in B!Fields \ {f}
               PROVE  car'.setting[f] = car.setting[f]
    BY DEF B!vars
  <2>1. Types /\ Fresh /\ car \in B!Cars
    BY Typing DEF BInv, Types, Plain
  <2>2. Head(queue) = queue[1] /\ 1 \in 1 .. Len(queue)
    BY <2>1, ServiceBounds, Foremost
  <2>3. queue[1].value[f] = car.setting[f]
    BY <2>1, <2>2 DEF Fresh, FreshOrder
  <2>4. CASE UNCHANGED car
    BY <2>4
  <2>5. CASE car' = [ car EXCEPT !.setting = queue[1].value ]
    BY <2>1, <2>3, <2>5 DEF B!Cars
  <2>6. queue[1].by \notin {"limit", "departure", "heating"}
    BY <2>2, ServiceBounds, Named
  <2> QED
    BY <2>2, <2>4, <2>5, <2>6 DEF B!Apply
<1> QED
  BY <1>1, ChargingInvariant, PTL DEF B!Spec, OthersKept, B!OthersKept

---------------------------------------------------------------------------
(* Remote controls.                                                        *)

PlatformKnown == vehicle \in {"navinfo", "beantech"}

\* What is offered falls into groups with nothing in common.
LEMMA Grouped ==
  ASSUME NEW a
  PROVE  /\ a \in P!Locks => a \notin P!Climate \cup P!BeanTechControls \cup P!ComfortModes \cup P!Settings \cup P!Appointments
         /\ a \in P!Climate => a \notin P!BeanTechControls \cup P!ComfortModes \cup P!Settings \cup P!Appointments
         /\ a \in P!BeanTechControls => a \notin P!ComfortModes \cup P!Settings \cup P!Appointments
         /\ a \in P!ComfortModes => a \notin P!Settings \cup P!Appointments
         /\ a \in P!Settings => a \notin P!Appointments
         /\ a \in {"charge_soc", "cabin_clean_appointment"} =>
              a \notin P!Locks \cup P!Climate \cup P!BeanTechControls \cup P!ComfortModes \cup P!Settings \cup P!Appointments
  BY DEF P!Locks, P!Climate, P!BeanTechControls, P!HornLight, P!Comfort, P!BatteryHeat,
     P!ComfortModes, P!Settings, P!Appointments

LEMMA NamesKept ==
  ASSUME NEW a \in P!Locks \cup P!NavInfoControls \cup P!BeanTechControls
  PROVE  P!Name(a) = a
  BY DEF P!Name, P!Locks, P!NavInfoControls, P!BeanTechControls, P!HornLight, P!Comfort, P!BatteryHeat,
     P!Climate, P!ComfortModes, P!Settings, P!Appointments

LEMMA NamesGiven ==
  /\ \A a \in P!Climate : P!Name(a) = "A/C"
  /\ \A a \in P!ComfortModes : P!Name(a) = "Comfort mode"
  /\ P!Name("charging_mode") = "Smart charge" /\ P!Name("charge_window") = "Charge window"
  /\ P!Name("charge_soc") = "Charge SOC limit"
  /\ \A a \in P!Appointments : P!Name(a) = "Battery appointment heating"
  BY DEF P!Name, P!Climate, P!ComfortModes, P!Appointments

LEMMA ActionsKept ==
  /\ \A a \in P!HornLight \cup P!Comfort \cup P!BatteryHeat : P!ControlAction(a) = a
  /\ \A a \in P!Locks \cup (P!NavInfoControls \ P!HornLight) : P!ControlAction(a) = "none"
  BY DEF P!ControlAction, P!HornLight, P!Comfort, P!BatteryHeat, P!Locks, P!NavInfoControls

LEMMA ActionsGiven ==
  /\ P!ControlAction("A/C") = "climate" /\ P!ControlAction("Comfort mode") = "comfort_mode"
  /\ P!ControlAction("Smart charge") = "charging_mode" /\ P!ControlAction("Charge window") = "charge_window"
  /\ P!ControlAction("Charge SOC limit") = "charge_soc"
  /\ P!ControlAction("Battery appointment heating") = "battery_appointment"
  BY DEF P!ControlAction, P!HornLight, P!Comfort, P!BatteryHeat

LEMMA LegacyGoes == \A o, t, b : P!Legacy(o, t, b).to = "send"
  BY DEF P!Legacy, P!Request
LEMMA TimelyGoes == \A o, c : P!Timely(o, c).to = "timely" /\ [ P!Timely(o, c) EXCEPT !.sendType = 1 ].to = "timely"
  BY DEF P!Timely, P!Request

LEMMA RouteOfLocks ==
  ASSUME NEW a \in P!Locks, NEW listed
  PROVE  P!BeanTechRequest(a, listed).to = "send" /\ P!ControlAction(P!Name(a)) = "none"
<1>1. P!BeanTechRequest(a, listed) = P!BeanTechLock[a]
  BY DEF P!BeanTechRequest, P!Locks, P!BeanTechControls, P!HornLight, P!Comfort, P!BatteryHeat,
     P!ComfortModes, P!Settings
<1>2. P!BeanTechLock[a].to = "send"
  BY LegacyGoes DEF P!Locks, P!BeanTechLock
<1> QED
  BY <1>1, <1>2, NamesKept, ActionsKept

LEMMA RouteOfClimate ==
  ASSUME NEW a \in P!Climate, NEW listed
  PROVE  P!BeanTechRequest(a, listed).to = "timely" /\ P!ControlAction(P!Name(a)) = "climate"
<1>1. P!BeanTechRequest(a, listed).to = "timely"
  BY TimelyGoes DEF P!BeanTechRequest, P!Climate, P!Locks, P!BeanTechControls, P!HornLight,
     P!Comfort, P!BatteryHeat,
     P!ComfortModes, P!Settings
<1> QED
  BY <1>1, NamesGiven, ActionsGiven

LEMMA RouteOfControls ==
  ASSUME NEW a \in P!BeanTechControls, NEW listed
  PROVE  \/ P!BeanTechRequest(a, listed).to = "timely" /\ P!ControlAction(P!Name(a)) = a
            /\ a \in P!HornLight \cup P!Comfort \cup P!BatteryHeat
         \/ P!BeanTechRequest(a, listed).to = "send" /\ P!ControlAction(P!Name(a)) = "none"
<1>1. P!BeanTechRequest(a, listed) = P!BeanTechVehicle(a)
  BY Grouped DEF P!BeanTechRequest, P!Climate, P!Appointments
<1>2. P!Name(a) = a
  BY NamesKept
<1>3. CASE a \in P!HornLight \cup P!Comfort \cup P!BatteryHeat
  <2>1. P!BeanTechVehicle(a).to = "timely"
    BY <1>3, TimelyGoes DEF P!BeanTechVehicle
  <2> QED
    BY <1>1, <1>2, <1>3, <2>1, ActionsKept
<1>4. CASE a \notin P!HornLight \cup P!Comfort \cup P!BatteryHeat
  <2>1. a \in {"remote_start", "remote_stop", "sunroof_close"} /\ a # "comfort_off"
    BY <1>4 DEF P!BeanTechControls
  <2>2. P!BeanTechVehicle(a).to = "send"
    BY <1>4, <2>1, LegacyGoes DEF P!BeanTechVehicle
  <2>3. a \in P!NavInfoControls \ P!HornLight
    BY <1>4, <2>1 DEF P!NavInfoControls
  <2> QED
    BY <1>1, <1>2, <2>2, <2>3, ActionsKept
<1> QED
  BY <1>3, <1>4

LEMMA RouteOfComfortModes ==
  ASSUME NEW a \in P!ComfortModes, NEW listed
  PROVE  /\ P!BeanTechRequest(a, listed) = P!Refused \/ P!BeanTechRequest(a, listed).to = "timely"
         /\ P!ControlAction(P!Name(a)) = "comfort_mode"
<1>1. P!BeanTechRequest(a, listed) = P!ComfortMode(a, listed)
  BY Grouped DEF P!BeanTechRequest, P!Climate, P!ComfortModes, P!Appointments
<1>2. P!ComfortMode(a, listed) = P!Refused \/ P!ComfortMode(a, listed).to = "timely"
  BY TimelyGoes DEF P!ComfortMode
<1> QED
  BY <1>1, <1>2, NamesGiven, ActionsGiven

LEMMA RouteOfSettings ==
  ASSUME NEW a \in P!Settings, NEW listed
  PROVE  P!BeanTechRequest(a, listed).to = "charge_setting" /\ P!ControlAction(P!Name(a)) = a
<1>1. P!BeanTechRequest(a, listed) = P!Request(P!SettingOperation[a], "charge_setting", << >>)
  BY DEF P!BeanTechRequest, P!Locks, P!BeanTechControls, P!HornLight, P!Comfort, P!BatteryHeat,
     P!ComfortModes, P!Settings
<1>2. P!Request(P!SettingOperation[a], "charge_setting", << >>).to = "charge_setting"
  BY DEF P!Request
<1> QED
  BY <1>1, <1>2, NamesGiven, ActionsGiven DEF P!Settings

LEMMA RouteOfTimes ==
  ASSUME NEW a \in {"charge_soc"} \cup P!Appointments, NEW listed
  PROVE  /\ P!BeanTechRequest(a, listed).to = "timely"
         /\ P!ControlAction(P!Name(a)) \in {"charge_soc", "battery_appointment"}
<1>1. P!BeanTechRequest(a, listed).to = "timely"
  BY TimelyGoes DEF P!BeanTechRequest, P!Appointments, P!Locks, P!BeanTechControls, P!HornLight,
     P!Comfort, P!BatteryHeat,
     P!ComfortModes, P!Settings
<1> QED
  BY <1>1, NamesGiven, ActionsGiven

LEMMA RefusedStays == ~ P!LetsOut(P!Refused)
<1>1. P!Refused.operation = "refused"
  BY DEF P!Refused, P!Request
<1> QED
  BY <1>1 DEF P!LetsOut, P!SettingOperation, P!Settings

LEMMA Routed ==
  ASSUME PlatformKnown, NEW a \in P!Offered \ {"cabin_clean_appointment"}, NEW listed,
         P!LetsOut(P!Built(a, listed))
  PROVE  P!AskedAt(P!Name(a)) = P!AnsweredAt(P!Built(a, listed).to)
<1>1. CASE vehicle = "navinfo"
  <2>1. P!Built(a, listed).to = "auto_ai"
    BY <1>1 DEF P!Built, P!NavInfoRequest, P!Request
  <2>2. P!ControlAction(P!Name(a)) \notin P!Settings
    <3>1. CASE a \in P!Climate
      BY <3>1, NamesGiven, ActionsGiven DEF P!Settings
    <3>2. CASE a \in P!Locks \cup P!NavInfoControls
      <4>1. P!Name(a) = a
        BY <3>2, NamesKept
      <4>2. P!ControlAction(a) \in {a, "none"}
        BY <3>2, ActionsKept
      <4>3. a \notin P!Settings /\ "none" \notin P!Settings
        BY <3>2 DEF P!Locks, P!NavInfoControls, P!HornLight, P!Settings
      <4> QED
        BY <4>1, <4>2, <4>3
    <3> QED
      BY <1>1, <3>1, <3>2 DEF P!Offered
  <2> QED
    BY <1>1, <2>1, <2>2 DEF P!AskedAt, P!AnsweredAt
<1>2. CASE vehicle = "beantech"
  <2> DEFINE r == P!BeanTechRequest(a, listed)
             action == P!ControlAction(P!Name(a))
  <2>1. P!Built(a, listed) = r /\ vehicle # "navinfo"
    BY <1>2 DEF P!Built
  <2>2. \/ r.to = "send" /\ action = "none"
        \/ r.to = "timely" /\ action \in P!TimelyActions /\ action \notin P!Settings
        \/ r.to = "charge_setting" /\ action \in P!Settings
    <3>1. CASE a \in P!Locks
      BY <3>1, RouteOfLocks
    <3>2. CASE a \in P!Climate
      BY <3>2, RouteOfClimate DEF P!TimelyActions, P!Settings
    <3>3. CASE a \in P!BeanTechControls
      BY <3>3, RouteOfControls, Grouped DEF P!TimelyActions
    <3>4. CASE a \in P!ComfortModes
      BY <2>1, <3>4, RouteOfComfortModes, RefusedStays DEF P!TimelyActions, P!Settings
    <3>5. CASE a \in P!Settings
      BY <3>5, RouteOfSettings
    <3>6. CASE a \in {"charge_soc"} \cup P!Appointments
      BY <3>6, RouteOfTimes DEF P!TimelyActions, P!Settings
    <3> QED
      BY <1>2, <3>1, <3>2, <3>3, <3>4, <3>5, <3>6 DEF P!Offered
  <2> HIDE DEF r
  <2>3. CASE r.to = "send" /\ action = "none"
    <3>1. action \notin P!Settings /\ action \notin P!TimelyActions
      BY <2>3 DEF P!TimelyActions, P!Settings, P!HornLight, P!Comfort, P!BatteryHeat
    <3> QED
      BY <1>2, <2>1, <2>3, <3>1 DEF P!AskedAt, P!AnsweredAt, P!IsTimely
  <2>4. CASE r.to = "timely" /\ action \in P!TimelyActions /\ action \notin P!Settings
    BY <1>2, <2>1, <2>4 DEF P!AskedAt, P!AnsweredAt, P!IsTimely
  <2>5. CASE r.to = "charge_setting" /\ action \in P!Settings
    <3>1. P!AnsweredAt(r.to) = P!ChargeResult
      BY <2>5 DEF P!AnsweredAt
    <3>2. P!AskedAt(P!Name(a)) = P!ChargeResult
      BY <1>2, <2>1, <2>5 DEF P!AskedAt, P!IsTimely
    <3> QED
      BY <2>1, <3>1, <3>2
  <2> QED
    BY <2>2, <2>3, <2>4, <2>5
<1> QED
  BY <1>1, <1>2 DEF PlatformKnown

\* What is read of an answer is an answer to the command.
LEMMA StateTaken ==
  ASSUME PlatformKnown, NEW a \in P!Answers, NEW name
  PROVE  /\ P!State(a, name) \in {"accepted", "completed", "failed"}
         /\ P!State(a, name) = "completed" =>
              \E i \in DOMAIN a : a[i].about = "this" /\ a[i].code = "success"
         /\ P!State(a, name) = "failed" =>
              \E i \in DOMAIN a : a[i].about = "this" /\ a[i].code \in {"failure", "blank"}
<1>1. CASE P!Unreadable(a) \/ P!Selected(a, name) = {}
  BY <1>1 DEF P!State
<1>2. CASE ~ P!Unreadable(a) /\ P!Selected(a, name) # {}
  <2> DEFINE i == CHOOSE j \in P!Selected(a, name) : TRUE
  <2>1. i \in P!Selected(a, name)
    BY <1>2
  <2> HIDE DEF i
  <2>2. P!State(a, name) = IF a[i].code = "running" THEN "accepted"
                           ELSE IF a[i].code = "success" THEN "completed" ELSE "failed"
    BY <1>2 DEF P!State, i
  <2>3. i \in DOMAIN a /\ P!Taken(a[i], name)
    BY <2>1 DEF P!Selected, P!Candidates
  <2>4. a[i] \in P!Messages
    BY <2>3 DEF P!Answers
  <2>5. a[i].about = "this" /\ a[i].code # "unreadable"
    <3>1. CASE vehicle = "navinfo"
      <4>1. a[i].transaction # "other" /\ a[i].code \notin {"blank", "unreadable"}
        BY <2>3, <3>1 DEF P!Taken, P!IsTimely
      <4> QED
        BY <2>4, <3>1, <4>1 DEF P!Messages
    <3>2. CASE vehicle = "beantech"
      BY <1>2, <2>3, <2>4, <3>2 DEF P!Messages, P!Unreadable
    <3> QED
      BY <3>1, <3>2 DEF PlatformKnown
  <2>6. a[i].code \in {"running", "success", "failure", "blank"}
    BY <2>4, <2>5 DEF P!Messages
  <2> QED
    BY <2>2, <2>3, <2>5, <2>6
<1> QED
  BY <1>1, <1>2

\* A journalled command knows where its result is; it is asked for there or not at all.
Journalled ==
  \/ journalled = P!NoEntry
  \/ /\ journalled = [ name |-> journalled.name, to |-> journalled.to, state |-> journalled.state ]
     /\ journalled.state \in {"accepted", "completed", "failed"}
     /\ P!AskedAt(journalled.name) = P!AnsweredAt(journalled.to)
AskedOnce == asked = P!Nothing \/ (journalled # P!NoEntry /\ asked = P!AskedAt(journalled.name))
PInv == PlatformKnown /\ Journalled /\ AskedOnce /\ P!EndsAsAnswered

LEMMA CommandsInit ==
  ASSUME P!Init
  PROVE  PInv
  BY DEF P!Init, PInv, PlatformKnown, Journalled, AskedOnce, P!EndsAsAnswered, P!NoEntry

LEMMA PressKept ==
  ASSUME PInv, NEW a \in P!Offered, P!Press(a)
  PROVE  PInv'
<1>1. PlatformKnown' /\ journalled = P!NoEntry
  BY DEF PInv, PlatformKnown, P!Press
<1>2. AskedOnce'
  BY DEF P!Press, AskedOnce
<1>3. CASE UNCHANGED journalled
  BY <1>1, <1>2, <1>3 DEF PInv, Journalled, P!EndsAsAnswered, P!NoEntry
<1>4. CASE /\ P!LetsOut(order') /\ a # "cabin_clean_appointment"
           /\ journalled' = [ name |-> P!Name(a), to |-> order'.to, state |-> "accepted" ]
  <2>1. PICK listed : order' = P!Built(a, listed)
    BY DEF P!Press
  <2>2. P!AskedAt(P!Name(a)) = P!AnsweredAt(order'.to)
    BY <1>4, <2>1, Routed DEF PInv
  <2>3. P!AskedAt(P!Name(a))' = P!AskedAt(P!Name(a))
    BY DEF P!Press, P!AskedAt, P!IsTimely
  <2>4. /\ journalled'.name = P!Name(a) /\ journalled'.to = order'.to /\ journalled'.state = "accepted"
        /\ journalled' = [ name |-> journalled'.name, to |-> journalled'.to, state |-> journalled'.state ]
    BY <1>4
  <2>5. Journalled'
    BY <2>2, <2>3, <2>4 DEF Journalled
  <2>6. P!EndsAsAnswered'
    BY <2>4 DEF P!EndsAsAnswered
  <2> QED
    BY <1>1, <1>2, <2>5, <2>6 DEF PInv
<1> QED
  BY <1>3, <1>4 DEF P!Press

LEMMA PollKept ==
  ASSUME PInv, P!Poll
  PROVE  PInv'
<1>1. PICK a \in P!Answers :
        /\ journalled' = [ journalled EXCEPT !.state = P!State(a, journalled.name) ]
        /\ reply' = IF journalled'.state = "accepted" THEN << >> ELSE a
  BY DEF P!Poll
<1>2. /\ journalled # P!NoEntry /\ journalled.state = "accepted"
      /\ journalled = [ name |-> journalled.name, to |-> journalled.to, state |-> journalled.state ]
      /\ P!AskedAt(journalled.name) = P!AnsweredAt(journalled.to) /\ PlatformKnown
  BY DEF PInv, Journalled, P!Poll, P!NoEntry
<1> DEFINE s == P!State(a, journalled.name)
<1>3. /\ s \in {"accepted", "completed", "failed"}
      /\ s = "completed" => \E i \in DOMAIN a : a[i].about = "this" /\ a[i].code = "success"
      /\ s = "failed" => \E i \in DOMAIN a : a[i].about = "this" /\ a[i].code \in {"failure", "blank"}
  BY <1>2, StateTaken
<1>4. journalled' = [ journalled EXCEPT !.state = s ] /\ reply' = IF journalled'.state = "accepted" THEN << >> ELSE a
  BY <1>1
<1> HIDE DEF s
<1>5. /\ journalled'.state = s /\ journalled'.name = journalled.name /\ journalled'.to = journalled.to
      /\ journalled' = [ name |-> journalled'.name, to |-> journalled'.to, state |-> journalled'.state ]
  BY <1>2, <1>4
<1>6. P!AskedAt(journalled.name)' = P!AskedAt(journalled.name)
  BY <1>5 DEF P!Poll, P!AskedAt, P!IsTimely
<1>7. Journalled'
  BY <1>2, <1>3, <1>5, <1>6 DEF Journalled
<1>8. AskedOnce'
  <2>1. journalled' # P!NoEntry
    BY <1>3, <1>5 DEF P!NoEntry
  <2> QED
    BY <1>6, <2>1 DEF AskedOnce, P!Poll
<1>9. P!EndsAsAnswered'
  BY <1>3, <1>4, <1>5 DEF P!EndsAsAnswered
<1> QED
  BY <1>2, <1>7, <1>8, <1>9 DEF PInv, PlatformKnown, P!Poll

LEMMA CommandsStep ==
  ASSUME PInv, [P!Next]_(P!vars)
  PROVE  PInv'
<1>1. CASE UNCHANGED P!vars \/ P!Look
  BY <1>1 DEF P!vars, P!Look, PInv, PlatformKnown, Journalled, AskedOnce, P!EndsAsAnswered,
     P!AskedAt, P!IsTimely
<1>2. CASE P!Forget
  BY <1>2 DEF P!Forget, PInv, PlatformKnown, Journalled, AskedOnce, P!EndsAsAnswered, P!NoEntry
<1> QED
  BY <1>1, <1>2, PressKept, PollKept DEF P!Next

\* The result of a journalled command is asked for where GWM puts that of its request, known
\* after a restart by its name alone; the command completes only if a message about it says
\* success and fails only if one about it says otherwise, never by another command's.
THEOREM EndsWithItsAnswer == P!Spec => []AnswersItsCommand
<1>1. P!Init => PInv
  BY CommandsInit
<1>2. PInv /\ [P!Next]_(P!vars) => PInv'
  BY CommandsStep
<1>3. PInv => AnswersItsCommand
  BY DEF PInv, Journalled, AskedOnce, AnswersItsCommand, P!AnswersItsCommand, P!AskedWhereAnswered
<1> QED
  BY <1>1, <1>2, <1>3, PTL DEF P!Spec

---------------------------------------------------------------------------
LEMMA ByOperation ==
  ASSUME NEW r
  PROVE  /\ r.operation = "send_lock_command" => (P!LetsOut(r) <=> P!LockLetsOut(r))
         /\ r.operation = "send_close_windows_command" => (P!LetsOut(r) <=> P!WindowsLetsOut(r))
         /\ r.operation = "send_vehicle_control_command" =>
              (P!LetsOut(r) <=> P!VehicleControlLetsOut(r))
         /\ r.operation = "send_climate_command" => (P!LetsOut(r) <=> P!ClimateLetsOut(r))
         /\ r.operation = "set_bean_tech_comfort_mode" => (P!LetsOut(r) <=> P!ComfortModeLetsOut(r))
         /\ r.operation = "set_bean_tech_battery_heating_appointment" =>
              (P!LetsOut(r) <=> P!AppointmentLetsOut(r))
         /\ r.operation = "set_bean_tech_charge_soc" => (P!LetsOut(r) <=> P!ChargeSocLetsOut(r))
         /\ r.operation \in {"set_bean_tech_charging_mode", "set_bean_tech_charge_window"} =>
              (P!LetsOut(r) <=> P!ChargeSettingLetsOut(r))
         /\ r.operation = "set_bean_tech_cabin_clean_appointment" =>
              (P!LetsOut(r) <=> P!SubscribeLetsOut(r))
  BY DEF P!LetsOut, P!SettingOperation, P!Settings

LEMMA ReadsByOperation ==
  ASSUME NEW r
  PROVE  /\ r.operation = "get_bean_tech_comfort_modes" =>
              (P!LetsOut(r) <=> P!OneTouchModeLetsOut(r))
         /\ r.operation = "get_bean_tech_switch_status" =>
              (P!LetsOut(r) <=> P!SwitchStatusLetsOut(r))
         /\ r.operation = "get_bean_tech_charge_setting" =>
              (P!LetsOut(r) <=> P!ChargeSettingReadLetsOut(r))
         /\ r.operation = "get_bean_tech_battery_heating_appointment" =>
              (P!LetsOut(r) <=> P!AppointmentReadLetsOut(r))
         /\ r.operation = "get_bean_tech_cabin_clean_appointment" =>
              (P!LetsOut(r) <=> P!SubscribedReadLetsOut(r))
         /\ r.operation = "get_remote_command_result" =>
              (P!LetsOut(r) <=> IF "msgType=charge" \in r.parameters THEN P!ChargeResultLetsOut(r)
                                ELSE P!RemoteResultLetsOut(r))
  BY DEF P!LetsOut, P!SettingOperation, P!Settings

LEMMA ReadsFit == \A q \in P!Reads : P!LetsOut(q)
<1> SUFFICES ASSUME NEW q \in P!Reads  PROVE P!LetsOut(q)
  OBVIOUS
<1>1. CASE q = P!Simple("get_bean_tech_comfort_modes", "one_touch_mode")
  BY <1>1, ReadsByOperation DEF P!Simple, P!Query, P!OneTouchModeLetsOut
<1>2. CASE q = P!Simple("get_bean_tech_switch_status", "switch_status")
  BY <1>2, ReadsByOperation DEF P!Simple, P!Query, P!SwitchStatusLetsOut
<1>3. CASE q = P!ChargeSettingRead
  BY <1>3, ReadsByOperation DEF P!ChargeSettingRead, P!Query, P!ChargeSettingReadLetsOut
<1>4. CASE q = P!AppointmentRead
  BY <1>4, ReadsByOperation DEF P!AppointmentRead, P!Query, P!AppointmentReadLetsOut
<1>5. CASE q = P!SubscribedRead
  BY <1>5, ReadsByOperation DEF P!SubscribedRead, P!Query, P!SubscribedReadLetsOut
<1> QED
  BY <1>1, <1>2, <1>3, <1>4, <1>5 DEF P!Reads

LEMMA AskedFits == \A name : P!LetsOut(P!AskedAt(name))
<1>1. P!LetsOut(P!ChargeResult)
  BY ReadsByOperation DEF P!ChargeResult, P!Query, P!ChargeResultLetsOut
<1>2. P!LetsOut(P!RemoteResult)
  BY ReadsByOperation DEF P!RemoteResult, P!Query, P!RemoteResultLetsOut
<1>3. P!LetsOut(P!LegacyResult)
  BY ReadsByOperation DEF P!LegacyResult, P!Query, P!RemoteResultLetsOut, P!LegacyResultLetsOut
<1> QED
  BY <1>1, <1>2, <1>3 DEF P!AskedAt

\* The parts of a request.
LEMMA LegacyParts ==
  ASSUME NEW o, NEW t, NEW b
  PROVE  LET r == P!Legacy(o, t, b) IN
         /\ r.operation = o /\ r.to = "send" /\ r.sendType = 0 /\ r.isSaveConfig
         /\ P!One(r) /\ P!First(r).controlType = t /\ P!First(r).hasBody /\ P!First(r).cmdBody = b
  BY DEF P!Legacy, P!Request, P!With, P!One, P!First
LEMMA TimelyParts ==
  ASSUME NEW o, NEW c
  PROVE  LET r == P!Timely(o, << c >>) IN
         /\ r.operation = o /\ r.to = "timely" /\ r.sendType = 0 /\ ~ r.isSaveConfig
         /\ P!One(r) /\ P!First(r) = c
  BY DEF P!Timely, P!Request, P!One, P!First
LEMMA AutoAiParts ==
  ASSUME NEW o, NEW t, NEW b
  PROVE  LET r == P!Request(o, "auto_ai", << P!With(t, b) >>) IN
         /\ r.operation = o /\ r.to = "auto_ai"
         /\ P!One(r) /\ P!First(r).controlType = t /\ P!First(r).cmdBody = b
  BY DEF P!Request, P!With, P!One, P!First

LEMMA LegacyOut ==
  ASSUME NEW o, NEW t, NEW b, NEW types, t \in types, b \in P!LegacyBodies[t]
  PROVE  P!LegacyRequest(P!Legacy(o, t, b), types)
  BY LegacyParts DEF P!LegacyRequest, P!Fits

\* The bodies of the legacy route that are used.
LEMMA LegacyKnown ==
  /\ {} \in P!LegacyBodies["VEHICLE_LOCK"] /\ {} \in P!LegacyBodies["VEHICLE_UNLOCK"]
  /\ P!Windows \in P!LegacyBodies["WINDOW_CLOSE"]
  /\ {<<"operationTime", 900>>} \in P!LegacyBodies["ENGINE_START"] /\ {} \in P!LegacyBodies["ENGINE_STOP"]
  /\ {<<"skyLight", 0>>} \in P!LegacyBodies["SKYLIGNT_CLOSE"]
<1>1. 900 = 60 * 15 /\ 15 \in 5 .. 30
  OBVIOUS
<1>2. {<<"operationTime", 900>>} \in { {<<"operationTime", 60 * m>>} : m \in 5 .. 30 }
  BY <1>1
<1>3. P!LegacyBodies["ENGINE_START"] = { {<<"operationTime", 60 * m>>} : m \in 5 .. 30 }
  BY DEF P!LegacyBodies
<1>4. /\ P!LegacyBodies["VEHICLE_LOCK"] = {{}} /\ P!LegacyBodies["VEHICLE_UNLOCK"] = {{}}
      /\ P!LegacyBodies["WINDOW_CLOSE"] = {P!Windows} /\ P!LegacyBodies["ENGINE_STOP"] = {{}}
      /\ P!LegacyBodies["SKYLIGNT_CLOSE"] = {{<<"skyLight", 0>>}}
  BY DEF P!LegacyBodies
<1> QED
  BY <1>2, <1>3, <1>4

LEMMA LocksFit ==
  ASSUME NEW a \in P!Locks, NEW listed
  PROVE  P!LetsOut(P!BeanTechRequest(a, listed))
<1>1. P!BeanTechRequest(a, listed) = P!BeanTechLock[a]
  BY DEF P!BeanTechRequest, P!Locks, P!BeanTechControls, P!HornLight, P!Comfort, P!BatteryHeat,
     P!ComfortModes, P!Settings
<1>2. /\ P!BeanTechLock["lock"] = P!Legacy("send_lock_command", "VEHICLE_LOCK", {})
      /\ P!BeanTechLock["unlock"] = P!Legacy("send_lock_command", "VEHICLE_UNLOCK", {})
      /\ P!BeanTechLock["windows"] = P!Legacy("send_close_windows_command", "WINDOW_CLOSE", P!Windows)
  BY DEF P!BeanTechLock
<1>3. CASE a \in {"lock", "unlock"}
  <2>1. P!LegacyRequest(P!BeanTechLock[a], {"VEHICLE_LOCK", "VEHICLE_UNLOCK"})
    BY <1>2, <1>3, LegacyOut, LegacyKnown
  <2>2. P!BeanTechLock[a].operation = "send_lock_command"
    BY <1>2, <1>3, LegacyParts
  <2> QED
    BY <1>1, <2>1, <2>2, ByOperation DEF P!LockLetsOut
<1>4. CASE a = "windows"
  <2>1. P!LegacyRequest(P!BeanTechLock[a], {"WINDOW_CLOSE"})
    BY <1>2, <1>4, LegacyOut, LegacyKnown
  <2>2. P!BeanTechLock[a].operation = "send_close_windows_command"
    BY <1>2, <1>4, LegacyParts
  <2> QED
    BY <1>1, <2>1, <2>2, ByOperation DEF P!WindowsLetsOut
<1> QED
  BY <1>3, <1>4 DEF P!Locks

LEMMA ClimateFits ==
  ASSUME NEW a \in P!Climate, NEW listed
  PROVE  P!LetsOut(P!BeanTechRequest(a, listed))
<1>1. CASE a = "climate"
  <2>1. P!BeanTechRequest(a, listed) = P!Timely("send_climate_command", << P!With("AIR_CONDITIONER_START", {}) >>)
    BY <1>1 DEF P!BeanTechRequest, P!Locks, P!BeanTechControls, P!HornLight, P!Comfort,
       P!BatteryHeat, P!ComfortModes, P!Settings
  <2> QED
    BY <2>1, TimelyParts, ByOperation DEF P!ClimateLetsOut, P!TimelyCommand, P!TimelyEnvelope
<1>2. CASE a = "climate_off"
  <2>1. P!BeanTechRequest(a, listed) = P!Timely("send_climate_command", << P!Plain("AIR_CONDITIONER_STOP") >>)
    BY <1>2 DEF P!BeanTechRequest, P!Locks, P!BeanTechControls, P!HornLight, P!Comfort,
       P!BatteryHeat, P!ComfortModes, P!Settings
  <2> QED
    BY <2>1, TimelyParts, ByOperation DEF P!ClimateLetsOut, P!TimelyCommand, P!TimelyEnvelope
<1> QED
  BY <1>1, <1>2 DEF P!Climate

\* The commands of the timely route, with a body and without.
LEMMA PlainOut ==
  ASSUME NEW o, NEW t \in DOMAIN P!TimelyBodies, P!TimelyBodies[t] = {}
  PROVE  P!TimelyControl(P!Timely(o, << P!Plain(t) >>))
<1>1. P!Plain(t).controlType = t /\ ~ P!Plain(t).hasBody
  BY DEF P!Plain
<1> QED
  BY <1>1, TimelyParts DEF P!TimelyControl, P!TimelyEnvelope, P!Fits
LEMMA WithOut ==
  ASSUME NEW o, NEW t \in DOMAIN P!TimelyBodies, NEW b \in P!TimelyBodies[t]
  PROVE  P!TimelyControl(P!Timely(o, << P!With(t, b) >>))
<1>1. P!With(t, b).controlType = t /\ P!With(t, b).hasBody /\ P!With(t, b).cmdBody = b
  BY DEF P!With
<1> QED
  BY <1>1, TimelyParts DEF P!TimelyControl, P!TimelyEnvelope, P!Fits

LEMMA TimelyKnown ==
  /\ P!TimelyBodies["STEERING_WHEEL_HEATLESS"] = {}
  /\ P!TimelyBodies["DEFROST_FRONT_STOP"] = {}
  /\ P!TimelyBodies["DEFROST_BACK_STOP"] = {}
  /\ P!TimelyBodies["BATTERY_GUN_HEAT_START"] = {}
  /\ P!TimelyBodies["BATTERY_GUN_HEAT_STOP"] = {}
  /\ P!TimelyBodies["BATTERY_INITIATIVE_HEAT_START"] = {}
  /\ P!TimelyBodies["BATTERY_INITIATIVE_HEAT_STOP"] = {}
  /\ {<<"leftFront", 3>>, <<"operationTime", 600>>} \in P!TimelyBodies["SEAT_HEATING_START"]
  /\ {<<"leftFront", 0>>, <<"operationMode", 1>>} \in P!TimelyBodies["SEAT_HEATING_STOP"]
  /\ {<<"rightFront", 3>>, <<"operationTime", 600>>} \in P!TimelyBodies["SEAT_HEATING_START"]
  /\ {<<"rightFront", 0>>, <<"operationMode", 1>>} \in P!TimelyBodies["SEAT_HEATING_STOP"]
  /\ {<<"leftFront", 3>>, <<"operationTime", 600>>} \in P!TimelyBodies["SEAT_VENTILATION_START"]
  /\ {<<"leftFront", 0>>, <<"operationMode", 2>>} \in P!TimelyBodies["SEAT_VENTILATION_STOP"]
  /\ {<<"rightFront", 3>>, <<"operationTime", 600>>} \in P!TimelyBodies["SEAT_VENTILATION_START"]
  /\ {<<"rightFront", 0>>, <<"operationMode", 2>>} \in P!TimelyBodies["SEAT_VENTILATION_STOP"]
  /\ {<<"operationTime", 600>>} \in P!TimelyBodies["STEERING_WHEEL_HEATING"]
  /\ {<<"operationTime", 900>>} \in P!TimelyBodies["DEFROST_FRONT_START"]
  /\ {<<"operationTime", 900>>} \in P!TimelyBodies["DEFROST_BACK_START"]
  /\ {<<"operationTime", 60>>} \in P!TimelyBodies["CABIN_CLEANING_START"]
  BY DEF P!TimelyBodies
LEMMA TimelyNames ==
  DOMAIN P!TimelyBodies = {"SEAT_HEATING_START", "SEAT_HEATING_STOP", "SEAT_VENTILATION_START",
    "SEAT_VENTILATION_STOP", "STEERING_WHEEL_HEATING", "STEERING_WHEEL_HEATLESS",
    "DEFROST_FRONT_START", "DEFROST_FRONT_STOP", "DEFROST_BACK_START",
    "DEFROST_BACK_STOP", "CABIN_CLEANING_START", "BATTERY_GUN_HEAT_START",
    "BATTERY_GUN_HEAT_STOP", "BATTERY_INITIATIVE_HEAT_START", "BATTERY_INITIATIVE_HEAT_STOP"}
  BY DEF P!TimelyBodies

LEMMA ControlsKnown ==
  /\ P!BeanTechControl["seat_heating_start"] =
       P!With("SEAT_HEATING_START", {<<"leftFront", 3>>, <<"operationTime", 600>>})
  /\ P!BeanTechControl["seat_heating_stop"] =
       P!With("SEAT_HEATING_STOP", {<<"leftFront", 0>>, <<"operationMode", 1>>})
  /\ P!BeanTechControl["seat_heating_start_passenger"] =
       P!With("SEAT_HEATING_START", {<<"rightFront", 3>>, <<"operationTime", 600>>})
  /\ P!BeanTechControl["seat_heating_stop_passenger"] =
       P!With("SEAT_HEATING_STOP", {<<"rightFront", 0>>, <<"operationMode", 1>>})
  /\ P!BeanTechControl["seat_ventilation_start"] =
       P!With("SEAT_VENTILATION_START", {<<"leftFront", 3>>, <<"operationTime", 600>>})
  /\ P!BeanTechControl["seat_ventilation_stop"] =
       P!With("SEAT_VENTILATION_STOP", {<<"leftFront", 0>>, <<"operationMode", 2>>})
  /\ P!BeanTechControl["seat_ventilation_start_passenger"] =
       P!With("SEAT_VENTILATION_START", {<<"rightFront", 3>>, <<"operationTime", 600>>})
  /\ P!BeanTechControl["seat_ventilation_stop_passenger"] =
       P!With("SEAT_VENTILATION_STOP", {<<"rightFront", 0>>, <<"operationMode", 2>>})
  /\ P!BeanTechControl["steering_wheel_heating"] =
       P!With("STEERING_WHEEL_HEATING", {<<"operationTime", 600>>})
  /\ P!BeanTechControl["steering_wheel_heatless"] = P!Plain("STEERING_WHEEL_HEATLESS")
  /\ P!BeanTechControl["defrost_front_start"] =
       P!With("DEFROST_FRONT_START", {<<"operationTime", 900>>})
  /\ P!BeanTechControl["defrost_front_stop"] = P!Plain("DEFROST_FRONT_STOP")
  /\ P!BeanTechControl["defrost_back_start"] = P!With("DEFROST_BACK_START", {<<"operationTime", 900>>})
  /\ P!BeanTechControl["defrost_back_stop"] = P!Plain("DEFROST_BACK_STOP")
  /\ P!BeanTechControl["cabin_clean"] = P!With("CABIN_CLEANING_START", {<<"operationTime", 60>>})
  /\ P!BeanTechControl["remote_start"] = P!With("ENGINE_START", {<<"operationTime", 900>>})
  /\ P!BeanTechControl["remote_stop"] = P!Plain("ENGINE_STOP")
  /\ P!BeanTechControl["horn"] = P!Plain("WHISTLE")
  /\ P!BeanTechControl["flash_lights"] = P!Plain("FLASH")
  /\ P!BeanTechControl["horn_and_lights"] = P!Plain("WHISTLE_FLASH")
  /\ P!BeanTechControl["sunroof_close"] = P!With("SKYLIGNT_CLOSE", {<<"skyLight", 0>>})
  /\ P!BeanTechControl["battery_gun_heat"] = P!Plain("BATTERY_GUN_HEAT_START")
  /\ P!BeanTechControl["battery_gun_heat_stop"] = P!Plain("BATTERY_GUN_HEAT_STOP")
  /\ P!BeanTechControl["battery_initiative_heat"] = P!Plain("BATTERY_INITIATIVE_HEAT_START")
  /\ P!BeanTechControl["battery_initiative_heat_stop"] = P!Plain("BATTERY_INITIATIVE_HEAT_STOP")
  BY DEF P!BeanTechControl

LEMMA ControlsOut ==
  ASSUME NEW o, NEW a \in (P!Comfort \ {"comfort_off"}) \cup P!BatteryHeat
  PROVE  P!TimelyControl(P!Timely(o, << P!BeanTechControl[a] >>))
<1>1. CASE a \in {"steering_wheel_heatless", "defrost_front_stop", "defrost_back_stop",
                "battery_gun_heat", "battery_gun_heat_stop", "battery_initiative_heat",
                "battery_initiative_heat_stop"}
  BY <1>1, ControlsKnown, TimelyKnown, TimelyNames, PlainOut
<1>2. CASE a \in {"seat_heating_start", "seat_heating_stop", "seat_heating_start_passenger",
                "seat_heating_stop_passenger"}
  BY <1>2, ControlsKnown, TimelyKnown, TimelyNames, WithOut
<1>3. CASE a \in {"seat_ventilation_start", "seat_ventilation_stop", "seat_ventilation_start_passenger",
                "seat_ventilation_stop_passenger"}
  BY <1>3, ControlsKnown, TimelyKnown, TimelyNames, WithOut
<1>4. CASE a \in {"steering_wheel_heating", "defrost_front_start", "defrost_back_start",
                "cabin_clean"}
  BY <1>4, ControlsKnown, TimelyKnown, TimelyNames, WithOut
<1> QED
  BY <1>1, <1>2, <1>3, <1>4 DEF P!Comfort, P!BatteryHeat

LEMMA ControlsFit ==
  ASSUME NEW a \in P!BeanTechControls, NEW listed
  PROVE  P!LetsOut(P!BeanTechRequest(a, listed))
<1> DEFINE op == "send_vehicle_control_command"
<1>1. P!BeanTechRequest(a, listed) = P!BeanTechVehicle(a)
  BY Grouped DEF P!BeanTechRequest, P!Climate, P!Appointments
<1>2. CASE a = "comfort_off"
  <2>1. P!BeanTechVehicle(a) = [ P!Timely(op, P!ComfortOff) EXCEPT !.sendType = 1 ]
    BY <1>2 DEF P!BeanTechVehicle, P!Comfort, P!BatteryHeat, P!HornLight
  <2>2. /\ P!BeanTechVehicle(a).operation = op /\ P!BeanTechVehicle(a).to = "timely"
        /\ P!BeanTechVehicle(a).sendType = 1 /\ ~ P!BeanTechVehicle(a).isSaveConfig
        /\ P!BeanTechVehicle(a).commands = P!ComfortOff
    BY <2>1 DEF P!Timely, P!Request
  <2>3. P!TimelyControl(P!BeanTechVehicle(a))
    BY <2>2 DEF P!TimelyControl, P!TimelyEnvelope, P!ComfortOffCommands
  <2> QED
    BY <1>1, <2>2, <2>3, ByOperation DEF P!VehicleControlLetsOut
<1>3. CASE a \in (P!Comfort \ {"comfort_off"}) \cup P!BatteryHeat
  <2>1. P!BeanTechVehicle(a) = P!Timely(op, << P!BeanTechControl[a] >>)
    BY <1>3 DEF P!BeanTechVehicle, P!Comfort, P!BatteryHeat, P!HornLight
  <2>2. P!TimelyControl(P!BeanTechVehicle(a)) /\ P!BeanTechVehicle(a).operation = op
    BY <1>3, <2>1, ControlsOut, TimelyParts
  <2> QED
    BY <1>1, <2>2, ByOperation DEF P!VehicleControlLetsOut
<1>4. CASE a \in P!HornLight
  <2>1. P!BeanTechVehicle(a) = P!Timely(op, << P!BeanTechControl[a] >>)
    BY <1>4 DEF P!BeanTechVehicle, P!Comfort, P!BatteryHeat, P!HornLight
  <2>2. P!BeanTechControl[a] \in { P!Plain(type) : type \in {"WHISTLE", "FLASH", "WHISTLE_FLASH"} }
    BY <1>4, ControlsKnown DEF P!HornLight
  <2>3. P!HornLightRequest(P!BeanTechVehicle(a)) /\ P!BeanTechVehicle(a).operation = op
    BY <2>1, <2>2, TimelyParts DEF P!HornLightRequest, P!TimelyCommand, P!TimelyEnvelope
  <2> QED
    BY <1>1, <2>3, ByOperation DEF P!VehicleControlLetsOut
<1>5. CASE a \in {"remote_start", "remote_stop", "sunroof_close"}
  <2> DEFINE types == DOMAIN P!LegacyBodies \ {"VEHICLE_LOCK", "VEHICLE_UNLOCK", "WINDOW_CLOSE"}
  <2>1. P!BeanTechVehicle(a) = P!Legacy(op, P!BeanTechControl[a].controlType, P!BeanTechControl[a].cmdBody)
    BY <1>5 DEF P!BeanTechVehicle, P!Comfort, P!BatteryHeat, P!HornLight
  <2>2. {"ENGINE_START", "ENGINE_STOP", "SKYLIGNT_CLOSE"} \subseteq types
    BY DEF P!LegacyBodies
  <2>3. /\ P!BeanTechControl[a].controlType \in {"ENGINE_START", "ENGINE_STOP", "SKYLIGNT_CLOSE"}
        /\ P!BeanTechControl[a].cmdBody \in P!LegacyBodies[P!BeanTechControl[a].controlType]
    <3>1. \A t, b : P!With(t, b).controlType = t /\ P!With(t, b).cmdBody = b
      BY DEF P!With
    <3>2. \A t : P!Plain(t).controlType = t /\ P!Plain(t).cmdBody = {}
      BY DEF P!Plain
    <3>3. CASE a = "remote_start"
      BY <3>1, <3>3, ControlsKnown, LegacyKnown
    <3>4. CASE a = "remote_stop"
      <4>1. P!BeanTechControl[a] = P!Plain("ENGINE_STOP") /\ {} \in P!LegacyBodies["ENGINE_STOP"]
        BY <3>4, ControlsKnown, LegacyKnown
      <4> QED
        BY <3>2, <4>1
    <3>5. CASE a = "sunroof_close"
      BY <3>1, <3>5, ControlsKnown, LegacyKnown
    <3> QED
      BY <1>5, <3>3, <3>4, <3>5
  <2> HIDE DEF types
  <2>4. P!LegacyRequest(P!BeanTechVehicle(a), types)
    BY <2>1, <2>2, <2>3, LegacyOut
  <2>5. P!BeanTechVehicle(a).operation = op /\ P!BeanTechVehicle(a).to # "timely"
    BY <2>1, LegacyParts
  <2> QED
    BY <1>1, <2>4, <2>5, ByOperation DEF P!VehicleControlLetsOut, types
<1> QED
  BY <1>2, <1>3, <1>4, <1>5 DEF P!BeanTechControls

LEMMA ModesFit ==
  ASSUME NEW a \in P!ComfortModes, NEW listed \in P!Listed
  PROVE  P!BeanTechRequest(a, listed) = P!Refused \/ P!LetsOut(P!BeanTechRequest(a, listed))
<1>1. P!BeanTechRequest(a, listed) = P!ComfortMode(a, listed)
  BY Grouped DEF P!BeanTechRequest, P!Climate, P!ComfortModes, P!Appointments
<1>2. CASE P!Chosen(a, listed) = {}
  BY <1>1, <1>2 DEF P!ComfortMode
<1>3. CASE P!Chosen(a, listed) # {}
  <2> DEFINE i == CHOOSE j \in P!Chosen(a, listed) : TRUE
  <2>1. i \in DOMAIN listed
    BY <1>3 DEF P!Chosen
  <2> DEFINE c == P!With("COMFORT_MODE_CTRL", {<<"action", 1>>, <<"type", listed[i][1]>>})
  <2>2. listed[i][1] \in {1, 2}
    BY <2>1 DEF P!Listed
  <2>3. c \in { P!With("COMFORT_MODE_CTRL", {<<"action", 1>>, <<"type", t>>}) : t \in {1, 2} }
    BY <2>2
  <2>4. P!ComfortMode(a, listed) = P!Timely("set_bean_tech_comfort_mode", << c >>)
    BY <1>3 DEF P!ComfortMode
  <2> HIDE DEF c
  <2>5. P!ComfortModeLetsOut(P!Timely("set_bean_tech_comfort_mode", << c >>))
    BY <2>3, TimelyParts DEF P!ComfortModeLetsOut, P!TimelyCommand, P!TimelyEnvelope
  <2> QED
    BY <1>1, <2>4, <2>5, TimelyParts, ByOperation
<1> QED
  BY <1>2, <1>3

LEMMA SettingsFit ==
  ASSUME NEW a \in P!Settings, NEW listed
  PROVE  P!LetsOut(P!BeanTechRequest(a, listed))
<1>1. P!BeanTechRequest(a, listed) = P!Request(P!SettingOperation[a], "charge_setting", << >>)
  BY DEF P!BeanTechRequest, P!Locks, P!BeanTechControls, P!HornLight, P!Comfort, P!BatteryHeat,
     P!ComfortModes, P!Settings
<1>2. P!SettingOperation[a] \in {"set_bean_tech_charging_mode", "set_bean_tech_charge_window"}
  BY DEF P!SettingOperation, P!Settings
<1>3. /\ P!Request(P!SettingOperation[a], "charge_setting", << >>).to = "charge_setting"
      /\ P!Request(P!SettingOperation[a], "charge_setting", << >>).operation = P!SettingOperation[a]
  BY DEF P!Request
<1> QED
  BY <1>1, <1>2, <1>3, ByOperation DEF P!ChargeSettingLetsOut

LEMMA TimesFit ==
  ASSUME NEW a \in {"charge_soc", "cabin_clean_appointment"} \cup P!Appointments, NEW listed
  PROVE  P!LetsOut(P!BeanTechRequest(a, listed))
<1> DEFINE r == P!BeanTechRequest(a, listed)
<1>1. /\ a = "charge_soc" =>
           r = P!Timely("set_bean_tech_charge_soc", << P!With("CTRL_CHARGE_SOC", {<<"chargeSoc", 80>>}) >>)
      /\ a = "battery_appointment" =>
           r = P!Timely("set_bean_tech_battery_heating_appointment",
                        << P!With("BATTERY_HEATING_APPOINTMENT", {<<"useCarTime", 1>>}) >>)
      /\ a = "battery_appointment_off" =>
           r = P!Timely("set_bean_tech_battery_heating_appointment", << P!Plain("BATTERY_TC_STOP") >>)
      /\ a = "cabin_clean_appointment" =>
           r = P!Request("set_bean_tech_cabin_clean_appointment", "subscribe",
                         << P!With("CABIN_CLEANING_START", {<<"operationTime", 60>>}) >>)
  BY Grouped DEF P!BeanTechRequest, P!Appointments, P!Climate
<1> HIDE DEF r
<1>2. CASE a = "charge_soc"
  <2>1. 80 = 10 * 8 /\ 8 \in 5 .. 10
    OBVIOUS
  <2>2. P!With("CTRL_CHARGE_SOC", {<<"chargeSoc", 80>>})
          \in { P!With("CTRL_CHARGE_SOC", {<<"chargeSoc", 10 * p>>}) : p \in 5 .. 10 }
    BY <2>1
  <2>3. P!ChargeSocLetsOut(r) /\ r.operation = "set_bean_tech_charge_soc"
    BY <1>1, <1>2, <2>2, TimelyParts DEF P!ChargeSocLetsOut, P!TimelyCommand, P!TimelyEnvelope
  <2> QED
    BY <2>3, ByOperation DEF r
<1>3. CASE a \in {"battery_appointment", "battery_appointment_off"}
  <2>1. P!AppointmentLetsOut(r) /\ r.operation = "set_bean_tech_battery_heating_appointment"
    BY <1>1, <1>3, TimelyParts DEF P!AppointmentLetsOut, P!TimelyCommand, P!TimelyEnvelope
  <2> QED
    BY <2>1, ByOperation DEF r
<1>4. CASE a = "cabin_clean_appointment"
  <2>1. P!SubscribeLetsOut(r) /\ r.operation = "set_bean_tech_cabin_clean_appointment"
    BY <1>1, <1>4 DEF P!SubscribeLetsOut, P!Request
  <2> QED
    BY <2>1, ByOperation DEF r
<1> QED
  BY <1>2, <1>3, <1>4 DEF P!Appointments

\* NavInfo's code is a number alone, but of the engine and of the openings of the roof.
LEMMA CodesKnown ==
  /\ \A a \in DOMAIN P!NavInfoCode \ {"remote_start", "sunroof_tilt", "sunroof_half", "sunroof_full"} :
       P!NavInfoBody(a) = {<<"cmdCode", P!NavInfoCode[a]>>}
  /\ P!NavInfoBody("remote_start") = {<<"cmdCode", 15>>, <<"runTime", 15>>}
  /\ P!NavInfoBody("sunroof_tilt") = {<<"cmdCode", 29>>, <<"openAngle", 11>>}
  /\ P!NavInfoBody("sunroof_half") = {<<"cmdCode", 29>>, <<"openAngle", 5>>}
  /\ P!NavInfoBody("sunroof_full") = {<<"cmdCode", 29>>, <<"openAngle", 10>>}
  /\ P!NavInfoBody("force_refresh") = {}
  BY DEF P!NavInfoBody, P!NavInfoCode, P!OpenAngle

LEMMA NavInfoParts ==
  ASSUME NEW a
  PROVE  /\ P!NavInfoRequest(a).operation = P!Operation(a)
         /\ \A bodies : P!NavInfoBody(a) \in bodies =>
              P!AutoAiRequest(P!NavInfoRequest(a), P!NavInfoFunction(a), bodies)
  BY AutoAiParts DEF P!NavInfoRequest, P!AutoAiRequest

LEMMA Coded ==
  \A c, codes : c \in codes => {<<"cmdCode", c>>} \in P!Codes(codes)
  BY DEF P!Codes

\* What NavInfo's controls send, code by code.
LEMMA CommonCodes ==
  ASSUME NEW a \in P!NavInfoControls \ {"remote_start", "force_refresh"}
  PROVE  /\ P!NavInfoFunction(a) = "SEND_COMMON_COMMAND"
         /\ P!NavInfoBody(a) \in { {<<"cmdCode", 29>>, <<"openAngle", p>>} : p \in {5, 10, 11} }
                                 \cup P!Codes({5, 16, 17, 18, 19, 20, 28, 34})
<1>1. P!NavInfoFunction(a) = "SEND_COMMON_COMMAND"
  BY DEF P!NavInfoFunction, P!NavInfoControls, P!HornLight
<1>2. CASE a \in {"sunroof_tilt", "sunroof_half", "sunroof_full"}
  <2>1. P!NavInfoBody(a) \in { {<<"cmdCode", 29>>, <<"openAngle", p>>} : p \in {5, 10, 11} }
    BY <1>2, CodesKnown
  <2> QED
    BY <1>1, <2>1
<1>3. CASE a \notin {"sunroof_tilt", "sunroof_half", "sunroof_full"}
  <2>1. a \in {"horn", "flash_lights", "horn_and_lights", "remote_stop", "tailgate_open",
               "tailgate_close", "sunroof_close", "cabin_purge"}
    BY <1>3 DEF P!NavInfoControls, P!HornLight
  <2>2. P!NavInfoCode[a] \in {5, 16, 17, 18, 19, 20, 28, 34} /\ a \in DOMAIN P!NavInfoCode
    BY <2>1 DEF P!NavInfoCode
  <2>3. P!NavInfoBody(a) = {<<"cmdCode", P!NavInfoCode[a]>>}
    BY <1>3, <2>1, <2>2, CodesKnown
  <2> QED
    BY <1>1, <2>2, <2>3, Coded
<1> QED
  BY <1>2, <1>3

LEMMA NavInfoFits ==
  ASSUME NEW a \in P!Locks \cup P!Climate \cup P!NavInfoControls
  PROVE  P!LetsOut(P!NavInfoRequest(a))
<1> DEFINE r == P!NavInfoRequest(a)
<1>1. /\ r.operation = P!Operation(a)
      /\ \A bodies : P!NavInfoBody(a) \in bodies => P!AutoAiRequest(r, P!NavInfoFunction(a), bodies)
  BY NavInfoParts
<1> HIDE DEF r
<1>2. CASE a \in {"lock", "unlock"}
  <2>1. /\ P!Operation(a) = "send_lock_command" /\ P!NavInfoFunction(a) = "SEND_COMMON_COMMAND"
        /\ P!NavInfoCode[a] \in {1, 2} /\ a \in DOMAIN P!NavInfoCode
    BY <1>2 DEF P!Operation, P!NavInfoFunction, P!NavInfoCode, P!Climate
  <2>2. P!NavInfoBody(a) \in P!Codes({1, 2})
    BY <1>2, <2>1, CodesKnown, Coded
  <2>3. P!LockLetsOut(r)
    BY <1>1, <2>1, <2>2 DEF P!LockLetsOut
  <2> QED
    BY <1>1, <2>1, <2>3, ByOperation DEF r
<1>3. CASE a = "windows"
  <2>1. /\ P!Operation(a) = "send_close_windows_command" /\ P!NavInfoFunction(a) = "SEND_COMMON_COMMAND"
        /\ P!NavInfoCode[a] = 3 /\ a \in DOMAIN P!NavInfoCode
    BY <1>3 DEF P!Operation, P!NavInfoFunction, P!NavInfoCode, P!Climate
  <2>2. P!NavInfoBody(a) \in P!Codes({3})
    BY <1>3, <2>1, CodesKnown, Coded
  <2>3. P!WindowsLetsOut(r)
    BY <1>1, <2>1, <2>2 DEF P!WindowsLetsOut
  <2> QED
    BY <1>1, <2>1, <2>3, ByOperation DEF r
<1>4. CASE a = "climate"
  <2>1. /\ P!Operation(a) = "send_climate_command" /\ P!NavInfoFunction(a) = "SET_AND_OPEN_COMMAND"
        /\ P!NavInfoCode[a] = 6 /\ a \in DOMAIN P!NavInfoCode
    BY <1>4 DEF P!Operation, P!NavInfoFunction, P!NavInfoCode, P!Climate
  <2>2. P!NavInfoBody(a) \in P!Codes({6})
    BY <1>4, <2>1, CodesKnown, Coded
  <2>3. P!ClimateLetsOut(r)
    BY <1>1, <2>1, <2>2 DEF P!ClimateLetsOut
  <2> QED
    BY <1>1, <2>1, <2>3, ByOperation DEF r
<1>5. CASE a = "climate_off"
  <2>1. /\ P!Operation(a) = "send_climate_command" /\ P!NavInfoFunction(a) = "SEND_COMMON_COMMAND"
        /\ P!NavInfoCode[a] = 7 /\ a \in DOMAIN P!NavInfoCode
    BY <1>5 DEF P!Operation, P!NavInfoFunction, P!NavInfoCode, P!Climate
  <2>2. P!NavInfoBody(a) \in P!Codes({7})
    BY <1>5, <2>1, CodesKnown, Coded
  <2>3. P!ClimateLetsOut(r)
    BY <1>1, <2>1, <2>2 DEF P!ClimateLetsOut
  <2> QED
    BY <1>1, <2>1, <2>3, ByOperation DEF r
<1>6. CASE a \in P!NavInfoControls
  <2>1. P!Operation(a) = "send_vehicle_control_command"
    BY <1>6 DEF P!Operation, P!NavInfoControls, P!HornLight, P!Climate
  <2>2. P!AutoAiControl(r) => r.to # "timely"
    BY DEF P!AutoAiControl, P!AutoAiRequest
  <2>3. P!AutoAiControl(r)
    <3>1. CASE a = "force_refresh"
      BY <1>1, <3>1, CodesKnown DEF P!AutoAiControl, P!NavInfoFunction
    <3>2. CASE a = "remote_start"
      <4>1. P!NavInfoBody(a) \in { {<<"cmdCode", 15>>, <<"runTime", m>>} : m \in 5 .. 30 }
        <5>1. 15 \in 5 .. 30
          OBVIOUS
        <5> QED
          BY <3>2, <5>1, CodesKnown
      <4>2. P!NavInfoFunction(a) = "SET_AND_OPEN_COMMAND"
        BY <3>2 DEF P!NavInfoFunction
      <4> QED
        BY <1>1, <4>1, <4>2 DEF P!AutoAiControl
    <3>3. CASE a \notin {"remote_start", "force_refresh"}
      BY <1>1, <1>6, <3>3, CommonCodes DEF P!AutoAiControl
    <3> QED
      BY <3>1, <3>2, <3>3
  <2> QED
    BY <1>1, <2>1, <2>2, <2>3, ByOperation DEF r, P!VehicleControlLetsOut
<1> QED
  BY <1>2, <1>3, <1>4, <1>5, <1>6 DEF P!Locks, P!Climate

LEMMA BuiltFits ==
  ASSUME PlatformKnown, NEW a \in P!Offered, NEW listed \in P!Listed \cup {<< >>},
         a \in P!ComfortModes => listed \in P!Listed
  PROVE  P!Built(a, listed) = P!Refused \/ P!LetsOut(P!Built(a, listed))
<1>1. CASE vehicle = "navinfo"
  BY <1>1, NavInfoFits DEF P!Built, P!Offered
<1>2. CASE vehicle = "beantech"
  <2>1. P!Built(a, listed) = P!BeanTechRequest(a, listed)
    BY <1>2 DEF P!Built
  <2>2. \/ a \in P!Locks \/ a \in P!Climate \/ a \in P!BeanTechControls \/ a \in P!ComfortModes \/ a \in P!Settings
        \/ a \in {"charge_soc", "cabin_clean_appointment"} \cup P!Appointments
    BY <1>2 DEF P!Offered
  <2> QED
    BY <2>1, <2>2, LocksFit, ClimateFits, ControlsFit, ModesFit, SettingsFit, TimesFit
<1> QED
  BY <1>1, <1>2 DEF PlatformKnown

LEMMA RequestsStep ==
  ASSUME PlatformKnown, P!RequestFits, [P!Next]_(P!vars)
  PROVE  P!RequestFits'
<1>1. ASSUME NEW a \in P!Offered, P!Press(a)
      PROVE  P!RequestFits'
  <2>1. PICK listed \in IF a \in P!ComfortModes THEN P!Listed ELSE {<< >>} : order' = P!Built(a, listed)
    BY <1>1 DEF P!Press
  <2>2. order' = P!Refused \/ P!LetsOut(order')
    BY <2>1, BuiltFits
  <2>3. asked' = P!Nothing
    BY <1>1 DEF P!Press
  <2> QED
    BY <2>2, <2>3 DEF P!RequestFits
<1>2. CASE P!Look
  <2>1. order' \in P!Reads /\ UNCHANGED asked
    BY <1>2 DEF P!Look
  <2> QED
    BY <2>1, ReadsFit DEF P!RequestFits
<1>3. CASE P!Poll
  <2>1. asked' = P!AskedAt(journalled.name) /\ UNCHANGED order
    BY <1>3 DEF P!Poll
  <2> QED
    BY <2>1, AskedFits DEF P!RequestFits
<1>4. CASE P!Forget \/ UNCHANGED P!vars
  BY <1>4 DEF P!Forget, P!vars, P!RequestFits
<1> QED
  BY <1>1, <1>2, <1>3, <1>4 DEF P!Next

\* Every request the client builds for what an entity offers or reads, on either platform,
\* passes the validators of the transport for its operation, and so does the question for
\* its result; only a comfort mode GWM does not list is not sent.
THEOREM EveryRequestFits == P!Spec => []P!RequestFits
<1>1. P!Init => PlatformKnown /\ P!RequestFits
  BY DEF P!Init, PlatformKnown, P!RequestFits
<1>2. PlatformKnown /\ P!RequestFits /\ [P!Next]_(P!vars) => (PlatformKnown /\ P!RequestFits)'
  BY RequestsStep DEF PlatformKnown, P!Next, P!vars, P!Press, P!Look, P!Poll, P!Forget
<1> QED
  BY <1>1, <1>2, PTL DEF P!Spec

---------------------------------------------------------------------------
(* All of them, the charging plan included.                                *)

\* Side by side, the services store and send nothing the transport would refuse: neither a
\* climate setting, whichever calls, restarts and app changes interleave, nor a charging
\* value, nor the request of a control or a read or the question for its result.
THEOREM ServicesAreWellFormed == Services => []WellFormed
<1>1. BInv => B!TypeOK
  BY Typing DEF BInv, Types
<1> QED
  BY <1>1, TypeCorrect, SettingsCanBeSent, ChargingInvariant, EveryRequestFits, PTL
     DEF Services, WellFormed
=============================================================================
