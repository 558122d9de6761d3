------------------------- MODULE ChinaSessionProofs -------------------------
(***************************************************************************)
(* What holds of the China session for any number of platforms, token      *)
(* pairs and tries: a rotated G-App pair is in the store or waiting to be  *)
(* written there, no state mixes the sessions of two pairs, a refresh      *)
(* token is not presented again unless its successor was lost, no code is  *)
(* asked for twice within the interval, and no stored pair is dropped that *)
(* was not refused.                                                        *)
(***************************************************************************)
EXTENDS ChinaSession, SequenceTheorems, TLAPS

Whole(s) == s \in ChinaAuthState /\ s.down \in { 0, s.g }

\* What an attempt waits for goes with what it has.
StageOf(a) ==
  /\ a.stage \in {"check", "refresh", "discovery"} => Complete(a.cand)
  /\ a.stage \in {"platforms", "publish"} => HasGApp(a.cand)
  /\ a.stage = "ended" /\ a.outcome.kind = "authenticated" => Complete(a.cand)
  /\ a.stage = "publish" => a.caller = "renew"

\* An attempt that is of its type, of one pair and at a stage it can be at.
Proper(a) == a \in Attempts /\ Whole(a.cand) /\ StageOf(a)

Gateways == [ issued : Pairs, dead : SUBSET Pairs, spent : SUBSET Pairs ]

Flows == [ step : Steps, state : ChinaAuthState ]

\* Every state kept is of one pair, and what is kept to renew from has one.
Memory ==
  /\ Whole(store) /\ Whole(flow.state) /\ flow \in Flows
  /\ running \in BOOLEAN
  /\ Whole(session) /\ (session # NoState => Complete(session))
  /\ Whole(boot) /\ (boot = NoState \/ HasGApp(boot))
  /\ Whole(partial) /\ (partial = NoState \/ HasGApp(partial))
  /\ Whole(pending)

\* The calls and their locks.
Calls ==
  /\ ops \in [ Procs -> [ at : Places, seen : ChinaAuthState ] ]
  /\ \A p \in Procs : Whole(ops[p].seen) /\ (ops[p].at = "renew" => HasGApp(ops[p].seen))
Locks == renewal \in Procs \cup {Nobody} /\ queue \in Seq(Procs)

\* Flows and setup authenticate while no entry runs, a running entry alone renews, and
\* an entry that does not run keeps nothing in memory.
Apart ==
  /\ ~ running => Quiet
  /\ att.caller \in {"flow", "setup"} => ~ running
  /\ att.caller = "renew" => running

\* What the running entry would renew from is stored or waits to be, and what waits is
\* of that pair.
Held ==
  /\ boot.g \in { 0, store.g, pending.g } /\ partial.g \in { 0, store.g, pending.g }
  /\ pending # NoState => boot.g \in { 0, pending.g } /\ partial.g \in { 0, pending.g }

IInv ==
  /\ provider \in Gateways /\ Proper(att)
  /\ Memory /\ Calls /\ Locks /\ history \in Histories
  /\ Apart /\ Held

---------------------------------------------------------------------------
(* States and attempts.                                                    *)

\* The states a client makes of a whole one are whole.
LEMMA StatesWhole ==
  /\ Whole(NoState)
  /\ \A s : Whole(s) =>
       /\ Whole(WithoutDownstream(s)) /\ WithoutDownstream(s).g = s.g
       /\ Whole(ApplyPlatforms(s)) /\ ApplyPlatforms(s).g = s.g /\ ApplyPlatforms(s).down = s.g
       /\ \A a \in Asked : Whole([ s EXCEPT !.asked = a ]) /\ [ s EXCEPT !.asked = a ].g = s.g
       /\ \A pair \in Pairs : Whole(ParseGApp(s, pair)) /\ ParseGApp(s, pair).g = pair
<1>1. 0 \in Pairs
  BY ChinaBounds DEF Pairs
<1>2. Whole(NoState)
  BY <1>1 DEF Whole, NoState, ChinaAuthState, Asked
<1>3. ASSUME NEW s, Whole(s)
      PROVE  /\ Whole(WithoutDownstream(s)) /\ WithoutDownstream(s).g = s.g
             /\ Whole(ApplyPlatforms(s)) /\ ApplyPlatforms(s).g = s.g /\ ApplyPlatforms(s).down = s.g
             /\ \A a \in Asked : Whole([ s EXCEPT !.asked = a ]) /\ [ s EXCEPT !.asked = a ].g = s.g
             /\ \A pair \in Pairs : Whole(ParseGApp(s, pair)) /\ ParseGApp(s, pair).g = pair
  <2>1. Whole(WithoutDownstream(s)) /\ WithoutDownstream(s).g = s.g
    BY <1>1, <1>3 DEF Whole, WithoutDownstream, ChinaAuthState
  <2>2. Whole(ApplyPlatforms(s)) /\ ApplyPlatforms(s).g = s.g /\ ApplyPlatforms(s).down = s.g
    BY <1>3 DEF Whole, ApplyPlatforms, ChinaAuthState
  <2>3. \A a \in Asked : Whole([ s EXCEPT !.asked = a ]) /\ [ s EXCEPT !.asked = a ].g = s.g
    BY <1>3 DEF Whole, ChinaAuthState
  <2>4. \A pair \in Pairs : Whole(ParseGApp(s, pair)) /\ ParseGApp(s, pair).g = pair
    BY <1>1, <1>3 DEF Whole, ParseGApp, WithoutDownstream, ChinaAuthState, Asked
  <2> QED
    BY <2>1, <2>2, <2>3, <2>4
<1> QED
  BY <1>2, <1>3

\* It is one, of the same caller.
Follows(b, a) == Proper(b) /\ b.caller = a.caller

OutcomeKinds == {"none", "authenticated", "verification", "initialization", "risk", "error"}
OutcomeClasses == {"none", "Authentication", "Risk", "Deadline", "other"}

\* An attempt that ends is proper.
LEMMA EndsProper ==
  ASSUME NEW a \in Attempts, NEW s, Whole(s), NEW kind \in OutcomeKinds,
         NEW rejected \in BOOLEAN, NEW class \in OutcomeClasses,
         kind = "authenticated" => Complete(s)
  PROVE  Follows(Ended(a, kind, s, rejected, class), a)
<1> DEFINE e == Ended(a, kind, s, rejected, class)
           o == [ kind |-> kind, rejected |-> rejected, class |-> class ]
<1>1. o \in Outcomes /\ o.kind = kind
  BY DEF Outcomes, OutcomeKinds, OutcomeClasses
<1>2. NoAttempt.tries \in [ Services -> 0 .. MaxTries ]
  BY ChinaBounds DEF NoAttempt
<1>3. s \in ChinaAuthState
  BY DEF Whole
<1>4. e = [ a EXCEPT !.stage = "ended", !.cand = s, !.got = {}, !.tries = NoAttempt.tries, !.outcome = o ]
  BY DEF Ended
<1> HIDE DEF e, o
<1>5. e \in Attempts
  BY <1>1, <1>2, <1>3, <1>4 DEF Attempts
<1>6. e.stage = "ended" /\ e.cand = s /\ e.outcome = o /\ e.caller = a.caller
  BY <1>4 DEF Attempts
<1>7. Proper(e)
  BY <1>1, <1>5, <1>6 DEF Proper, StageOf
<1> QED
  BY <1>6, <1>7 DEF Follows, e

\* The ways to end an attempt.
LEMMA WaysToEnd ==
  ASSUME NEW a, Proper(a)
  PROVE  /\ Complete(a.cand) => Follows(Authenticated(a), a)
         /\ \A s : Whole(s) =>
              /\ Follows(CodeNeeded(a, s, FALSE), a)
              /\ Follows(CodeNeeded(a, s, TRUE), a)
         /\ Follows(InitializationRequired(a), a)
         /\ Follows(RiskControlRequired(a), a)
         /\ \A e : Follows(Raised(a, e), a)
         /\ Follows(AfterRisk(a), a)
         /\ \A e : Follows(AfterFailure(a, e), a)
<1>0. a \in Attempts /\ Whole(a.cand) /\ Whole(WithoutDownstream(a.cand))
  BY StatesWhole DEF Proper
<1>1. Complete(a.cand) => Follows(Authenticated(a), a)
  <2> SUFFICES ASSUME Complete(a.cand)
               PROVE  Follows(Authenticated(a), a)
    OBVIOUS
  <2>1. "authenticated" \in OutcomeKinds /\ "none" \in OutcomeClasses
    BY DEF OutcomeKinds, OutcomeClasses
  <2> QED
    BY <1>0, <2>1, EndsProper DEF Authenticated
<1>2. ASSUME NEW s, Whole(s)
      PROVE  /\ Follows(CodeNeeded(a, s, FALSE), a)
             /\ Follows(CodeNeeded(a, s, TRUE), a)
  <2>1. "verification" \in OutcomeKinds /\ "none" \in OutcomeClasses
    BY DEF OutcomeKinds, OutcomeClasses
  <2>2. FALSE \in BOOLEAN /\ TRUE \in BOOLEAN
    OBVIOUS
  <2> QED
    BY <1>0, <1>2, <2>1, <2>2, EndsProper DEF CodeNeeded
<1>3. Follows(InitializationRequired(a), a)
  <2>1. "initialization" \in OutcomeKinds /\ "none" \in OutcomeClasses
    BY DEF OutcomeKinds, OutcomeClasses
  <2> QED
    BY <1>0, <2>1, EndsProper DEF InitializationRequired
<1>4. Follows(RiskControlRequired(a), a)
  BY <1>0, EndsProper DEF RiskControlRequired, OutcomeKinds, OutcomeClasses
<1>5. ASSUME NEW e
      PROVE  Follows(Raised(a, e), a)
  <2> DEFINE class == IF e \in {"Authentication", "Risk", "Deadline"} THEN e ELSE "other"
  <2>1. class \in OutcomeClasses
    BY DEF OutcomeClasses
  <2>2. Raised(a, e) = Ended(a, "error", a.cand, FALSE, class)
    BY DEF Raised
  <2>3. "error" \in OutcomeKinds
    BY DEF OutcomeKinds
  <2> HIDE DEF class
  <2>4. Follows(Ended(a, "error", a.cand, FALSE, class), a)
    BY <1>0, <2>1, <2>3, EndsProper
  <2> QED
    BY <2>2, <2>4
<1>6. Follows(AfterRisk(a), a)
  BY <1>4, <1>5 DEF AfterRisk
<1>7. \A e : Follows(AfterFailure(a, e), a)
  BY <1>3, <1>5 DEF AfterFailure
<1> QED
  BY <1>1, <1>2, <1>3, <1>4, <1>5, <1>6, <1>7

\* The ways to go on with one.
LEMMA WaysToGoOn ==
  ASSUME NEW a, Proper(a), NEW s, Whole(s)
  PROVE  /\ HasGApp(s) => /\ Follows(Platforms(a, s), a)
                          /\ Platforms(a, s).stage = "platforms"
         /\ Follows(Sms(a, s), a)
         /\ Sms(a, s).stage \in {"smsLogin", "smsRequest", "ended"}
<1>0. a \in Attempts /\ Whole(a.cand) /\ Whole(WithoutDownstream(s)) /\ WithoutDownstream(s).g = s.g
  BY StatesWhole DEF Proper
<1>1. HasGApp(s) => /\ Follows(Platforms(a, s), a)
                    /\ Platforms(a, s).stage = "platforms"
  <2> DEFINE w == WithoutDownstream(s)
             ones == [ x \in Services |-> 1 ]
             n == Platforms(a, s)
  <2>1. ones \in [ Services -> 0 .. MaxTries ]
    BY ChinaBounds
  <2>2. n = [ a EXCEPT !.stage = "platforms", !.cand = w, !.got = {}, !.tries = ones ]
    BY DEF Platforms
  <2>3. w \in ChinaAuthState /\ Whole(w) /\ w.g = s.g
    BY <1>0 DEF Whole
  <2> HIDE DEF w, ones, n
  <2>4. n \in Attempts /\ n.stage = "platforms" /\ n.cand = w /\ n.caller = a.caller
    BY <1>0, <2>1, <2>2, <2>3 DEF Attempts, Waits
  <2>5. HasGApp(s) => Proper(n)
    BY <2>3, <2>4 DEF Proper, StageOf, HasGApp
  <2> QED
    BY <2>4, <2>5 DEF Follows, n
<1>2. Follows(Sms(a, s), a)
      /\ Sms(a, s).stage \in {"smsLogin", "smsRequest", "ended"}
  <2>1. CASE a.code
    <3> DEFINE n == [ a EXCEPT !.stage = "smsLogin", !.cand = s ]
    <3>1. Sms(a, s) = n
      BY <2>1 DEF Sms
    <3>2. n \in Attempts /\ n.stage = "smsLogin" /\ n.cand = s /\ n.caller = a.caller
      BY <1>0 DEF Attempts, Waits, Whole
    <3> HIDE DEF n
    <3> QED
      BY <3>1, <3>2 DEF Follows, Proper, StageOf
  <2>2. CASE ~ a.code /\ Throttled(s)
    <3>1. Sms(a, s) = CodeNeeded(a, s, FALSE)
      BY <2>2 DEF Sms
    <3>2. CodeNeeded(a, s, FALSE).stage = "ended"
      BY <1>0 DEF CodeNeeded, Ended, Attempts, NoAttempt
    <3>3. Follows(CodeNeeded(a, s, FALSE), a)
      BY WaysToEnd
    <3> QED
      BY <3>1, <3>2, <3>3
  <2>3. CASE ~ a.code /\ ~ Throttled(s)
    <3> DEFINE r == [ s EXCEPT !.asked = "recent" ]
               n == [ a EXCEPT !.stage = "smsRequest", !.cand = r ]
    <3>1. Sms(a, s) = n
      BY <2>3 DEF Sms
    <3>2. Whole(r)
      BY StatesWhole DEF Asked
    <3> HIDE DEF r
    <3>3. n \in Attempts /\ n.stage = "smsRequest" /\ n.cand = r /\ n.caller = a.caller
      BY <1>0, <3>2 DEF Attempts, Waits, Whole
    <3> HIDE DEF n
    <3> QED
      BY <3>1, <3>2, <3>3 DEF Follows, Proper, StageOf
  <2> QED
    BY <2>1, <2>2, <2>3
<1> QED
  BY <1>1, <1>2

---------------------------------------------------------------------------
(* The requests of an attempt.                                             *)

\* GWM hands out pairs within the bound.
LEMMA GatewaysTyped ==
  ASSUME provider \in Gateways, NEW pair \in Pairs
  PROVE  /\ Exchanges(pair) => provider' \in Gateways /\ NextPair \in Pairs /\ NextPair # 0
         /\ Refuses(pair) => provider' \in Gateways
         /\ provider.issued < MaxPair => /\ NextPair \in Pairs /\ NextPair # 0
                                         /\ [ provider EXCEPT !.issued = @ + 1 ] \in Gateways
         /\ [ provider EXCEPT !.dead = @ \ {pair} ] \in Gateways
<1>1. provider.issued \in Pairs /\ MaxPair \in Nat
  BY ChinaBounds DEF Gateways
<1>2. provider.issued < MaxPair => NextPair \in Pairs /\ NextPair # 0 /\ provider.issued + 1 \in Pairs
  BY <1>1 DEF Pairs, NextPair
<1>3. provider.issued < MaxPair => [ provider EXCEPT !.issued = @ + 1 ] \in Gateways
  BY <1>2 DEF Gateways
<1>4. Exchanges(pair) => provider' \in Gateways /\ NextPair \in Pairs /\ NextPair # 0
  BY <1>2 DEF Gateways, Exchanges, CanExchange
<1>5. Refuses(pair) => provider' \in Gateways
  BY DEF Gateways, Refuses
<1>6. [ provider EXCEPT !.dead = @ \ {pair} ] \in Gateways
  BY DEF Gateways
<1> QED
  BY <1>2, <1>3, <1>4, <1>5, <1>6

\* Every answer leaves a proper attempt of the same caller.
LEMMA AttemptKept ==
  ASSUME provider \in Gateways, Proper(att), AttemptStep
  PROVE  Follows(att', att) /\ provider' \in Gateways
<1>0. att \in Attempts /\ Whole(att.cand) /\ att.cand \in ChinaAuthState /\ att.cand.g \in Pairs
  BY DEF Proper, Whole, ChinaAuthState
<1>1. ASSUME NEW e \in Results, Check(e)
      PROVE  Follows(att', att) /\ provider' \in Gateways
  <2>1. Complete(att.cand)
    BY <1>1 DEF Check, Proper, StageOf
  <2>2. CASE att' = [ att EXCEPT !.stage = "refresh" ] /\ Refuses(att.cand.g)
    <3>1. att' \in Attempts /\ att'.stage = "refresh" /\ att'.cand = att.cand /\ att'.caller = att.caller
      BY <1>0, <2>2 DEF Attempts, Waits
    <3>2. provider' \in Gateways
      BY <1>0, <2>2, GatewaysTyped
    <3> QED
      BY <1>0, <2>1, <3>1, <3>2 DEF Follows, Proper, StageOf
  <2> QED
    BY <1>1, <2>1, <2>2, WaysToEnd DEF Check
<1>2. ASSUME NEW e \in Results, Refresh(e)
      PROVE  Follows(att', att) /\ provider' \in Gateways
  <2>1. HasGApp(att.cand)
    BY <1>2 DEF Refresh, Proper, StageOf, Complete
  <2>2. ASSUME NEW s, Whole(s), HasGApp(s)
        PROVE  Follows(Refreshed(s), att)
    <3>1. CASE att.caller = "renew"
      <4> DEFINE n == [ att EXCEPT !.stage = "publish", !.cand = s ]
      <4>1. Refreshed(s) = n
        BY <3>1 DEF Refreshed
      <4>2. n \in Attempts /\ n.stage = "publish" /\ n.cand = s /\ n.caller = att.caller
        BY <1>0, <2>2 DEF Attempts, Whole
      <4> HIDE DEF n
      <4> QED
        BY <2>2, <3>1, <4>1, <4>2 DEF Follows, Proper, StageOf
    <3>2. CASE att.caller # "renew"
      BY <2>2, <3>2, WaysToGoOn DEF Refreshed
    <3> QED
      BY <3>1, <3>2
  <2>3. CASE att' = Refreshed(ParseGApp(att.cand, NextPair)) /\ Exchanges(att.cand.g)
    <3>1. NextPair \in Pairs /\ NextPair # 0 /\ provider' \in Gateways
      BY <1>0, <2>3, GatewaysTyped
    <3>2. Whole(ParseGApp(att.cand, NextPair)) /\ HasGApp(ParseGApp(att.cand, NextPair))
      BY <1>0, <3>1, StatesWhole DEF HasGApp
    <3> QED
      BY <2>2, <2>3, <3>1, <3>2
  <2>4. CASE /\ att' = Refreshed(ParseGApp(att.cand, att.cand.g))
             /\ provider' = [ provider EXCEPT !.dead = @ \ {att.cand.g} ]
    <3>1. Whole(ParseGApp(att.cand, att.cand.g)) /\ HasGApp(ParseGApp(att.cand, att.cand.g))
      BY <1>0, <2>1, StatesWhole DEF HasGApp
    <3> QED
      BY <1>0, <2>2, <2>4, <3>1, GatewaysTyped
  <2>5. CASE att' = AfterRisk(att) /\ UNCHANGED provider
    BY <2>5, WaysToEnd
  <2>6. CASE att' = (IF att.allow THEN Sms(att, NoState) ELSE Raised(att, e)) /\ UNCHANGED provider
    <3>1. Follows(Sms(att, NoState), att)
      BY StatesWhole, WaysToGoOn
    <3> QED
      BY <2>6, <3>1, WaysToEnd
  <2>7. CASE att' = Raised(att, e) /\ (UNCHANGED provider \/ Exchanges(att.cand.g))
    BY <1>0, <2>7, WaysToEnd, GatewaysTyped
  <2> QED
    BY <1>2, <2>3, <2>4, <2>5, <2>6, <2>7 DEF Refresh
<1>3. ASSUME NEW e \in Results, NEW x \in Services, Platform(x, e)
      PROVE  Follows(att', att) /\ provider' \in Gateways
  <2>1. HasGApp(att.cand) /\ provider' = provider /\ att.stage = "platforms"
    BY <1>3 DEF Platform, Proper, StageOf
  <2>2. CASE att' = [ att EXCEPT !.stage = "discovery", !.cand = ApplyPlatforms(@),
                                 !.got = {}, !.tries = NoAttempt.tries ]
    <3> DEFINE s == ApplyPlatforms(att.cand)
    <3>1. Whole(s) /\ s \in ChinaAuthState /\ Complete(s)
      BY <1>0, <2>1, StatesWhole DEF Whole, Complete, HasGApp
    <3>2. NoAttempt.tries \in [ Services -> 0 .. MaxTries ]
      BY ChinaBounds DEF NoAttempt
    <3> HIDE DEF s
    <3>3. att' = [ att EXCEPT !.stage = "discovery", !.cand = s, !.got = {}, !.tries = NoAttempt.tries ]
      BY <1>0, <2>2 DEF s, Attempts
    <3>4. att' \in Attempts /\ att'.stage = "discovery" /\ att'.cand = s /\ att'.caller = att.caller
      BY <1>0, <3>1, <3>2, <3>3 DEF Attempts, Waits
    <3> QED
      BY <2>1, <3>1, <3>4 DEF Follows, Proper, StageOf
  <2>3. CASE att' = [ att EXCEPT !.got = @ \cup {x}, !.tries[x] = 0 ]
    <3>1. 0 \in 0 .. MaxTries /\ att.got \cup {x} \in SUBSET Services
      BY <1>0, ChinaBounds DEF Attempts
    <3>2. att.tries \in [ Services -> 0 .. MaxTries ]
      BY <1>0 DEF Attempts
    <3>3. [ att.tries EXCEPT ![x] = 0 ] \in [ Services -> 0 .. MaxTries ]
      BY <3>1, <3>2
    <3>4. att' = [ att EXCEPT !.got = att.got \cup {x}, !.tries = [ att.tries EXCEPT ![x] = 0 ] ]
      BY <1>0, <2>3 DEF Attempts
    <3>5. att' \in Attempts /\ att'.stage = att.stage /\ att'.cand = att.cand /\ att'.caller = att.caller
      BY <1>0, <3>1, <3>3, <3>4 DEF Attempts
    <3> QED
      BY <1>0, <2>1, <3>5 DEF Follows, Proper, StageOf
  <2>4. CASE MayRetry(e, att.tries[x]) /\ att' = [ att EXCEPT !.tries[x] = @ + 1 ]
    <3>1. att.tries \in [ Services -> 0 .. MaxTries ] /\ att.tries[x] \in 0 .. MaxTries
      BY <1>0 DEF Attempts
    <3>2. att.tries[x] + 1 \in 0 .. MaxTries
      BY <2>4, <3>1, ChinaBounds DEF MayRetry
    <3>3. att' \in Attempts /\ att'.stage = att.stage /\ att'.cand = att.cand /\ att'.caller = att.caller
      BY <1>0, <2>4, <3>2 DEF Attempts
    <3> QED
      BY <1>0, <2>1, <3>3 DEF Follows, Proper, StageOf
  <2>5. CASE \E also : att' = CASE Worse(e, also) = "Risk" -> AfterRisk(att)
                               [] Worse(e, also) = "Authentication" -> Raised(att, "Authentication")
                               [] OTHER -> AfterFailure(att, e)
    <3>1. PICK also : att' = CASE Worse(e, also) = "Risk" -> AfterRisk(att)
                               [] Worse(e, also) = "Authentication" -> Raised(att, "Authentication")
                               [] OTHER -> AfterFailure(att, e)
      BY <2>5
    <3>2. att' \in { AfterRisk(att), Raised(att, "Authentication"), AfterFailure(att, e) }
      BY <3>1
    <3> QED
      BY <2>1, <3>2, WaysToEnd
  <2> QED
    BY <1>3, <2>2, <2>3, <2>4, <2>5 DEF Platform
<1>4. ASSUME NEW e \in Results, Discovery(e)
      PROVE  Follows(att', att) /\ provider' \in Gateways
  <2>1. Complete(att.cand) /\ provider' = provider
    BY <1>4 DEF Discovery, Proper, StageOf
  <2>2. att' \in { Authenticated(att), AfterRisk(att), Raised(att, e), AfterFailure(att, e) }
    BY <1>4 DEF Discovery
  <2> QED
    BY <2>1, <2>2, WaysToEnd
<1>5. ASSUME NEW e \in Results, SmsRequest(e)
      PROVE  Follows(att', att) /\ provider' \in Gateways
  <2>1. att' \in { CodeNeeded(att, att.cand, FALSE), RiskControlRequired(att), Raised(att, e) }
    BY <1>5 DEF SmsRequest
  <2> QED
    BY <1>0, <1>5, <2>1, WaysToEnd DEF SmsRequest
<1>6. ASSUME NEW e \in Results, SmsLogin(e)
      PROVE  Follows(att', att) /\ provider' \in Gateways
  <2>1. CASE /\ provider.issued < MaxPair
             /\ att' = Platforms(att, ParseGApp(NoState, NextPair))
             /\ provider' = [ provider EXCEPT !.issued = @ + 1 ]
    <3>1. NextPair \in Pairs /\ NextPair # 0 /\ provider' \in Gateways
      BY <1>0, <2>1, GatewaysTyped
    <3>2. Whole(ParseGApp(NoState, NextPair)) /\ HasGApp(ParseGApp(NoState, NextPair))
      BY <3>1, StatesWhole DEF HasGApp
    <3> QED
      BY <2>1, <3>1, <3>2, WaysToGoOn
  <2>2. CASE /\ att' \in { RiskControlRequired(att),
                           CodeNeeded(att, [ att.cand EXCEPT !.asked = "never" ], TRUE),
                           Raised(att, e) }
             /\ UNCHANGED provider
    <3>1. Whole([ att.cand EXCEPT !.asked = "never" ])
      BY <1>0, StatesWhole DEF Asked
    <3> QED
      BY <2>2, <3>1, WaysToEnd
  <2> QED
    BY <1>6, <2>1, <2>2 DEF SmsLogin
<1>7. CASE Overdue
  BY <1>0, <1>7, WaysToEnd, GatewaysTyped DEF Overdue
<1> QED
  BY <1>1, <1>2, <1>3, <1>4, <1>5, <1>6, <1>7 DEF AttemptStep

\* An attempt begins properly, and so does a renewal.
LEMMA BeginsProper ==
  ASSUME NEW caller \in Callers, NEW s, Whole(s), NEW code \in BOOLEAN, caller # "renew"
  PROVE  LET a == [ NoAttempt EXCEPT !.caller = caller, !.cand = s, !.code = code,
                                     !.allow = (caller = "flow") ]
         IN Proper(Start(a)) /\ Start(a).caller = caller
<1> DEFINE allowed == caller = "flow"
           a == [ NoAttempt EXCEPT !.caller = caller, !.cand = s, !.code = code, !.allow = allowed ]
<1>1. allowed \in BOOLEAN
  OBVIOUS
<1>2. NoAttempt \in Attempts /\ NoAttempt.stage = "idle"
  BY ChinaBounds, StatesWhole DEF NoAttempt, Attempts, Callers, Outcomes, NoOutcome, Whole
<1> HIDE DEF allowed
<1>3. a \in Attempts /\ a.stage = "idle" /\ a.cand = s /\ a.caller = caller
  BY <1>1, <1>2 DEF Attempts, Whole
<1>4. a = [ NoAttempt EXCEPT !.caller = caller, !.cand = s, !.code = code, !.allow = (caller = "flow") ]
  BY DEF allowed
<1> HIDE DEF a
<1>5. Proper(a)
  BY <1>3 DEF Proper, StageOf
<1>6. Follows(Start(a), a)
  <2>1. CASE Complete(a.cand)
    <3> DEFINE n == [ a EXCEPT !.stage = "check" ]
    <3>1. Start(a) = n
      BY <2>1 DEF Start
    <3>2. n \in Attempts /\ n.stage = "check" /\ n.cand = s /\ n.caller = caller
      BY <1>3 DEF Attempts, Waits
    <3> HIDE DEF n
    <3> QED
      BY <1>3, <2>1, <3>1, <3>2 DEF Follows, Proper, StageOf
  <2>2. CASE ~ Complete(a.cand) /\ HasGApp(a.cand)
    BY <1>3, <1>5, <2>2, WaysToGoOn DEF Start
  <2>3. CASE ~ Complete(a.cand) /\ ~ HasGApp(a.cand) /\ ~ a.allow
    BY <1>3, <1>5, <2>3, WaysToEnd DEF Start
  <2>4. CASE ~ Complete(a.cand) /\ ~ HasGApp(a.cand) /\ a.allow
    BY <1>3, <1>5, <2>4, WaysToGoOn DEF Start
  <2> QED
    BY <2>1, <2>2, <2>3, <2>4
<1> QED
  BY <1>3, <1>4, <1>6 DEF Follows

---------------------------------------------------------------------------
(* What steps have in common.                                              *)

\* Without an attempt there is nothing improper.
LEMMA NoAttemptProper ==
  Proper(NoAttempt) /\ NoAttempt.caller = "nobody"
<1>1. NoAttempt \in Attempts /\ NoAttempt.stage = "idle" /\ NoAttempt.cand = NoState
      /\ NoAttempt.caller = "nobody"
  BY ChinaBounds, StatesWhole DEF NoAttempt, Attempts, Callers, Outcomes, NoOutcome, Whole
<1> QED
  BY <1>1, StatesWhole DEF Proper, StageOf

\* Only a running entry has calls.
LEMMA CallsRun ==
  ASSUME Apart, NEW p \in Procs, ops[p].at # "idle" \/ renewal = p
  PROVE  running
<1>1. p # Nobody
  BY DEF Procs, Nobody
<1> QED
  BY <1>1 DEF Apart, Quiet

\* Nothing in memory, nothing to hold.
LEMMA QuietHolds ==
  ASSUME Quiet'
  PROVE  Held'
BY DEF Quiet, Held, NoState

\* A call that goes somewhere with a whole state.
LEMMA CallGoes ==
  ASSUME Calls, NEW p \in Procs, NEW place \in Places, NEW seen, Whole(seen),
         place = "renew" => HasGApp(seen), Goes(p, place, seen)
  PROVE  Calls'
<1> DEFINE o == [ at |-> place, seen |-> seen ]
<1>1. o \in [ at : Places, seen : ChinaAuthState ] /\ o.at = place /\ o.seen = seen
  BY DEF Whole
<1>2. ops' = [ ops EXCEPT ![p] = o ]
  BY DEF Goes
<1> HIDE DEF o
<1>3. ops' \in [ Procs -> [ at : Places, seen : ChinaAuthState ] ]
  BY <1>1, <1>2 DEF Calls
<1>4. ASSUME NEW q \in Procs
      PROVE  Whole(ops'[q].seen) /\ (ops'[q].at = "renew" => HasGApp(ops'[q].seen))
  <2>1. CASE q = p
    BY <1>1, <1>2, <2>1 DEF Calls
  <2>2. CASE q # p
    BY <1>2, <2>2 DEF Calls
  <2> QED
    BY <2>1, <2>2
<1> QED
  BY <1>3, <1>4 DEF Calls

\* A call that ends, or is told to the coordinator.
LEMMA CallEnds ==
  ASSUME Calls, NEW p \in Procs, Leaves(p) \/ Rejected(p) \/ Goes(p, "again", NoState)
  PROVE  Calls'
<1>1. {"idle", "again", "rejected"} \subseteq Places
  BY DEF Places
<1>2. \/ Goes(p, "idle", NoState) \/ Goes(p, "rejected", NoState) \/ Goes(p, "again", NoState)
  BY DEF Leaves, Rejected
<1> QED
  BY <1>1, <1>2, CallGoes, StatesWhole

\* The queue for the client.
LEMMA QueueTyped ==
  ASSUME queue \in Seq(Procs), NEW p \in Procs
  PROVE  /\ Append(queue, p) \in Seq(Procs)
         /\ queue # << >> => Tail(queue) \in Seq(Procs) /\ Append(Tail(queue), p) \in Seq(Procs)
         /\ HasClient(p) => queue # << >>
<1>1. queue # << >> => Tail(queue) \in Seq(Procs)
  BY HeadTailProperties
<1>2. queue # << >> => Append(Tail(queue), p) \in Seq(Procs)
  BY <1>1, AppendProperties
<1> QED
  BY <1>1, <1>2, AppendProperties DEF HasClient

\* What the history can come to.
LEMMA HistoryTyped ==
  ASSUME NEW h \in Histories, NEW a \in BOOLEAN, NEW e \in BOOLEAN,
         NEW L \in SUBSET Pairs, NEW R \in SUBSET Pairs
  PROVE  /\ [ h EXCEPT !.asked = a ] \in Histories
         /\ [ h EXCEPT !.told = a ] \in Histories
         /\ [ h EXCEPT !.lost = L ] \in Histories
         /\ [ h EXCEPT !.refused = R ] \in Histories
         /\ [ h EXCEPT !.excused = e ] \in Histories
         /\ [ h EXCEPT !.asked = a, !.excused = e ] \in Histories
         /\ [ h EXCEPT !.asked = a, !.refused = R ] \in Histories
         /\ [ h EXCEPT !.lost = L, !.excused = e ] \in Histories
         /\ [ h EXCEPT !.excused = e, !.lost = L ] \in Histories
         /\ [ h EXCEPT !.lost = L, !.refused = R ] \in Histories
         /\ [ h EXCEPT !.told = a, !.excused = e, !.lost = L ] \in Histories
BY DEF Histories

\* Asking for a code keeps the history one.
LEMMA AsksTyped ==
  ASSUME NEW h \in Histories
  PROVE  Asks(h) \in Histories
<1> DEFINE a == h.asked \/ Asking
           e == h.excused /\ ~ Asking
<1>1. a \in BOOLEAN /\ e \in BOOLEAN
  BY DEF Histories, Asking
<1>2. Asks(h) = [ h EXCEPT !.asked = a, !.excused = e ]
  BY DEF Asks
<1> HIDE DEF a, e
<1> QED
  BY <1>1, <1>2, HistoryTyped

\* What an attempt rotated away from is a pair GWM issued, or none.
LEMMA SuccessorsArePairs ==
  ASSUME Proper(att)
  PROVE  /\ att.cand.g \in Pairs
         /\ \A s : s.g \in Pairs => Successor(s) \in SUBSET Pairs
<1>1. att.cand.g \in Pairs
  BY DEF Proper, Whole, ChinaAuthState
<1>2. ASSUME NEW s, s.g \in Pairs
      PROVE  Successor(s) \in SUBSET Pairs
  BY <1>2 DEF Successor
<1> QED
  BY <1>1, <1>2

\* A renewal begins properly with a state that has a pair.
LEMMA RenewalProper ==
  ASSUME NEW s, Whole(s), HasGApp(s)
  PROVE  LET a == [ NoAttempt EXCEPT !.caller = "renew", !.cand = s ]
         IN Follows(StartRenewal(a), a) /\ Follows(Raised(a, "Configuration"), a) /\ a.caller = "renew"
<1> DEFINE a == [ NoAttempt EXCEPT !.caller = "renew", !.cand = s ]
<1>1. NoAttempt \in Attempts /\ NoAttempt.stage = "idle"
  BY NoAttemptProper DEF Proper, NoAttempt
<1>2. a \in Attempts /\ a.stage = "idle" /\ a.cand = s /\ a.caller = "renew"
  BY <1>1 DEF Attempts, Whole, Callers
<1> HIDE DEF a
<1>3. Proper(a)
  BY <1>2 DEF Proper, StageOf
<1>4. Follows(Raised(a, "Configuration"), a)
  BY <1>3, WaysToEnd
<1>5. Follows(StartRenewal(a), a)
  <2>1. CASE Complete(a.cand)
    <3> DEFINE n == [ a EXCEPT !.stage = "refresh" ]
    <3>1. StartRenewal(a) = n
      BY <2>1 DEF StartRenewal
    <3>2. n \in Attempts /\ n.stage = "refresh" /\ n.cand = s /\ n.caller = a.caller
      BY <1>2 DEF Attempts, Waits
    <3> HIDE DEF n
    <3> QED
      BY <1>2, <2>1, <3>1, <3>2 DEF Follows, Proper, StageOf
  <2>2. CASE ~ Complete(a.cand)
    <3> DEFINE n == [ a EXCEPT !.stage = "publish" ]
    <3>1. StartRenewal(a) = n
      BY <2>2 DEF StartRenewal
    <3>2. n \in Attempts /\ n.stage = "publish" /\ n.cand = s /\ n.caller = a.caller
      BY <1>2 DEF Attempts
    <3> HIDE DEF n
    <3> QED
      BY <1>2, <3>1, <3>2 DEF Follows, Proper, StageOf
  <2> QED
    BY <2>1, <2>2
<1> QED
  BY <1>2, <1>4, <1>5 DEF a

\* What is kept has the pairs it is named by.
LEMMA PairsKept ==
  ASSUME IInv
  PROVE  /\ store.g \in Pairs /\ att.cand.g \in Pairs /\ Current.g \in Pairs
         /\ session.g \in Pairs /\ 0 \in Pairs
         /\ history.lost \in SUBSET Pairs /\ history.refused \in SUBSET Pairs
         /\ history.excused \in BOOLEAN
         /\ Whole(Current) /\ (Current = NoState \/ HasGApp(Current))
BY StatesWhole DEF IInv, Memory, Proper, Whole, ChinaAuthState, Histories, Current, NoState

\* A stopped entry stays as it is while something authenticates on its behalf.
LEMMA StoppedKept ==
  ASSUME IInv, ~ running, UNCHANGED << running, runtime >>,
         att'.caller \in {"nobody", "flow", "setup"}
  PROVE  /\ Calls' /\ Locks' /\ Apart' /\ Held'
         /\ Whole(session') /\ (session' # NoState => Complete(session'))
         /\ Whole(boot') /\ (boot' = NoState \/ HasGApp(boot'))
         /\ Whole(partial') /\ (partial' = NoState \/ HasGApp(partial'))
         /\ Whole(pending')
<1>1. Quiet
  BY DEF IInv, Apart
<1>2. Quiet'
  BY <1>1 DEF Quiet, runtime
<1>3. Held'
  BY <1>2, QuietHolds
<1>4. Apart'
  BY <1>2 DEF Apart
<1>5. Calls' /\ Locks'
  BY DEF IInv, Calls, Locks, runtime
<1> QED
  BY <1>3, <1>4, <1>5 DEF IInv, Memory, runtime

---------------------------------------------------------------------------
(* Flows and setup.                                                        *)

\* A flow or setup that begins, however the history goes on.
LEMMA BeginKept ==
  ASSUME IInv, NEW caller \in {"flow", "setup"}, NEW s, Whole(s), NEW code \in BOOLEAN,
         Begin(caller, s, code), UNCHANGED << provider, running, runtime >>,
         Whole(store'), Whole(flow'.state), flow' \in Flows, history' \in Histories
  PROVE  IInv'
<1>1. caller \in Callers /\ caller # "renew"
  BY DEF Callers
<1>2. Proper(att') /\ att'.caller = caller
  BY <1>1, BeginsProper DEF Begin
<1>3. ~ running
  BY DEF Begin
<1>4. /\ Calls' /\ Locks' /\ Apart' /\ Held'
      /\ Whole(session') /\ (session' # NoState => Complete(session'))
      /\ Whole(boot') /\ (boot' = NoState \/ HasGApp(boot'))
      /\ Whole(partial') /\ (partial' = NoState \/ HasGApp(partial'))
      /\ Whole(pending')
  BY <1>2, <1>3, StoppedKept
<1>5. Memory'
  BY <1>4 DEF IInv, Memory
<1> QED
  BY <1>2, <1>4, <1>5 DEF IInv, Gateways

\* The steps that begin one.
LEMMA FlowsKept ==
  ASSUME IInv, SubmitAccount \/ SubmitCode \/ RetryInitialization \/ Setup
  PROVE  IInv'
<1>0. /\ history \in Histories /\ Whole(store) /\ Whole(flow.state) /\ flow \in Flows
      /\ Whole(NoState)
  BY StatesWhole DEF IInv, Memory
<1>1. CASE SubmitAccount
  <2>1. PICK s \in { store, NoState } :
             /\ Begin("flow", s, FALSE)
             /\ store' = s
             /\ flow' = [ step |-> "account", state |-> s ]
             /\ history' = Asks(IF s = store THEN history
                                ELSE [ history EXCEPT !.asked = FALSE, !.refused = @ \cup {store.g} ])
    BY <1>1 DEF SubmitAccount
  <2> DEFINE R == history.refused \cup {store.g}
             h == IF s = store THEN history ELSE [ history EXCEPT !.asked = FALSE, !.refused = R ]
  <2>2. R \in SUBSET Pairs /\ FALSE \in BOOLEAN
    BY PairsKept
  <2>3. history' = Asks(h)
    BY <1>0, <2>1 DEF Histories
  <2> HIDE DEF R
  <2>4. h \in Histories
    BY <1>0, <2>2, HistoryTyped
  <2> HIDE DEF h
  <2>5. history' \in Histories
    BY <2>3, <2>4, AsksTyped
  <2>6. Whole(s) /\ flow' \in Flows /\ flow'.state = s
    BY <1>0, <2>1 DEF Steps, Flows, Whole
  <2> QED
    BY <1>1, <2>1, <2>5, <2>6, BeginKept DEF SubmitAccount
<1>2. CASE SubmitCode
  <2>1. history' \in Histories
    BY <1>0, <1>2, AsksTyped DEF SubmitCode
  <2> QED
    BY <1>0, <1>2, <2>1, BeginKept DEF SubmitCode
<1>3. CASE RetryInitialization
  <2>1. history' \in Histories
    BY <1>0, <1>3, AsksTyped DEF RetryInitialization
  <2> QED
    BY <1>0, <1>3, <2>1, BeginKept DEF RetryInitialization
<1>4. CASE Setup
  BY <1>0, <1>4, BeginKept DEF Setup
<1> QED
  BY <1>1, <1>2, <1>3, <1>4

\* What a flow is told, saved or not.
LEMMA RouteResultKept ==
  ASSUME IInv, RouteResult
  PROVE  IInv'
<1>0. /\ ~ running /\ att' = NoAttempt /\ UNCHANGED << provider, running, runtime >>
      /\ Whole(NoState) /\ Whole(att.cand) /\ Whole(store) /\ Whole(flow.state)
      /\ flow \in Flows /\ history \in Histories
  BY StatesWhole DEF IInv, Memory, Proper, Apart, RouteResult, Over
<1>1. Whole(store')
  BY <1>0 DEF RouteResult, Saved, Unsaved
<1>2. Whole(flow'.state) /\ flow' \in Flows
  <2>1. CASE flow' = NoFlow
    BY <1>0, <2>1 DEF NoFlow, Flows, Whole, Steps
  <2>2. CASE UNCHANGED flow
    BY <1>0, <2>2
  <2>3. CASE /\ flow' = [ step |-> att.outcome.kind, state |-> att.cand ]
             /\ Kind({"verification", "initialization"})
    BY <1>0, <2>3 DEF Kind, Steps, Flows, Whole
  <2> QED
    BY <2>1, <2>2, <2>3 DEF RouteResult
<1>3. history' \in Histories
  <2> DEFINE L == history.lost \cup Successor(store)
             M == history.lost \cup Successor(store')
             e == history.excused \/ att.cand.asked = "never"
             f == history.excused \/ att.cand.asked = "recent"
  <2>1. L \in SUBSET Pairs /\ M \in SUBSET Pairs
    <3>1. store.g \in Pairs /\ store'.g \in Pairs
      BY <1>0, <1>1 DEF Whole, ChinaAuthState
    <3>2. Successor(store) \in SUBSET Pairs /\ Successor(store') \in SUBSET Pairs
      BY <3>1, SuccessorsArePairs DEF IInv
    <3> QED
      BY <3>2, PairsKept
  <2>2. e \in BOOLEAN /\ f \in BOOLEAN /\ TRUE \in BOOLEAN
    BY PairsKept
  <2>3. \/ history' = [ history EXCEPT !.lost = M, !.excused = TRUE ]
        \/ history' = [ history EXCEPT !.excused = e ]
        \/ history' = [ history EXCEPT !.excused = TRUE, !.lost = L ]
        \/ history' = [ history EXCEPT !.excused = f, !.lost = L ]
    BY <1>0 DEF RouteResult, Histories
  <2> HIDE DEF L, M, e, f
  <2>4. CASE history' = [ history EXCEPT !.lost = M, !.excused = TRUE ]
    BY <1>0, <2>1, <2>2, <2>4, HistoryTyped
  <2>5. CASE history' = [ history EXCEPT !.excused = e ]
    BY <1>0, <2>1, <2>2, <2>5, HistoryTyped
  <2>6. CASE history' = [ history EXCEPT !.excused = TRUE, !.lost = L ]
    BY <1>0, <2>1, <2>2, <2>6, HistoryTyped
  <2>7. CASE history' = [ history EXCEPT !.excused = f, !.lost = L ]
    BY <1>0, <2>1, <2>2, <2>7, HistoryTyped
  <2> QED
    BY <2>3, <2>4, <2>5, <2>6, <2>7
<1>4. /\ Calls' /\ Locks' /\ Apart' /\ Held'
      /\ Whole(session') /\ (session' # NoState => Complete(session'))
      /\ Whole(boot') /\ (boot' = NoState \/ HasGApp(boot'))
      /\ Whole(partial') /\ (partial' = NoState \/ HasGApp(partial'))
      /\ Whole(pending')
  BY <1>0, NoAttemptProper, StoppedKept
<1>5. Memory' /\ Proper(att') /\ provider' \in Gateways
  BY <1>0, <1>1, <1>2, <1>4, NoAttemptProper DEF IInv, Memory
<1> QED
  BY <1>3, <1>4, <1>5 DEF IInv

\* What setup leaves: a session the entry runs on, or a stopped entry.
LEMMA SetupEndsKept ==
  ASSUME IInv, SetupEnds
  PROVE  IInv'
<1>0. /\ ~ running /\ att' = NoAttempt /\ UNCHANGED << provider, flow >>
      /\ Whole(NoState) /\ Whole(att.cand) /\ Whole(store) /\ Whole(flow.state)
      /\ flow \in Flows /\ history \in Histories /\ Quiet
  BY StatesWhole DEF IInv, Memory, Proper, Apart, SetupEnds, Over
<1>1. Whole(store')
  BY <1>0 DEF SetupEnds, Saved, Unsaved
<1>2. history' \in Histories
  <2> DEFINE L == history.lost \cup Successor(store')
             e == history.excused \/ store' # store
  <2>1. L \in SUBSET Pairs /\ e \in BOOLEAN
    <3>1. store'.g \in Pairs
      BY <1>1 DEF Whole, ChinaAuthState
    <3>2. Successor(store') \in SUBSET Pairs
      BY <3>1, SuccessorsArePairs DEF IInv
    <3> QED
      BY <3>2, PairsKept
  <2>2. history' = [ history EXCEPT !.lost = L, !.excused = e ]
    BY DEF SetupEnds
  <2> HIDE DEF L, e
  <2> QED
    BY <1>0, <2>1, <2>2, HistoryTyped
<1>3. CASE UNCHANGED << running, runtime >>
  <2>1. /\ Calls' /\ Locks' /\ Apart' /\ Held'
        /\ Whole(session') /\ (session' # NoState => Complete(session'))
        /\ Whole(boot') /\ (boot' = NoState \/ HasGApp(boot'))
        /\ Whole(partial') /\ (partial' = NoState \/ HasGApp(partial'))
        /\ Whole(pending')
    BY <1>0, <1>3, NoAttemptProper, StoppedKept
  <2>2. Memory'
    BY <1>0, <1>1, <1>3, <2>1 DEF IInv, Memory
  <2> QED
    BY <1>0, <1>2, <2>1, <2>2, NoAttemptProper DEF IInv
<1>4. CASE /\ Kind({"authenticated"}) /\ Saved(att.cand) /\ running' = TRUE
           /\ session' = att.cand /\ boot' = att.cand
           /\ UNCHANGED << partial, pending, ops, renewal, queue >>
  <2>1. Complete(att.cand) /\ HasGApp(att.cand)
    BY <1>4 DEF SetupEnds, Over, Kind, IInv, Proper, StageOf, Complete
  <2>2. Memory'
    BY <1>0, <1>1, <1>4, <2>1 DEF IInv, Memory
  <2>3. Apart'
    BY <1>0, <1>4, NoAttemptProper DEF Apart
  <2>4. Held'
    BY <1>0, <1>4 DEF Held, Quiet, Saved, NoState
  <2>5. Calls' /\ Locks'
    BY <1>4 DEF IInv, Calls, Locks
  <2> QED
    BY <1>0, <1>2, <2>2, <2>3, <2>4, <2>5, NoAttemptProper DEF IInv
<1> QED
  BY <1>3, <1>4 DEF SetupEnds

\* A flow that is left.
LEMMA AbandonKept ==
  ASSUME IInv, AbandonFlow
  PROVE  IInv'
<1>1. UNCHANGED << att, provider, store, running, history >> /\ UNCHANGED runtime
      /\ flow' = NoFlow
  BY DEF AbandonFlow
<1>2. Memory' /\ Calls' /\ Locks' /\ Apart' /\ Held'
  BY <1>1, StatesWhole
  DEF IInv, Memory, Calls, Locks, Apart, Held, Quiet, runtime, NoFlow, Flows, Whole, Steps
<1> QED
  BY <1>1, <1>2 DEF IInv

---------------------------------------------------------------------------
(* The running entry.                                                      *)

\* A step of a running entry is one if it keeps what it touches.
LEMMA RunningKept ==
  ASSUME IInv, running, UNCHANGED << flow, running >>,
         Proper(att'), att'.caller \notin {"flow", "setup"},
         provider' \in Gateways, history' \in Histories,
         Whole(store'), Whole(pending'),
         Whole(session'), session' # NoState => Complete(session'),
         Whole(boot'), boot' = NoState \/ HasGApp(boot'),
         Whole(partial'), partial' = NoState \/ HasGApp(partial'),
         Calls', Locks', Held'
  PROVE  IInv'
<1>1. Memory'
  BY DEF IInv, Memory
<1>2. Apart'
  BY DEF Apart
<1> QED
  BY <1>1, <1>2 DEF IInv

\* What a step of the running entry finds.
LEMMA Found ==
  ASSUME IInv, running
  PROVE  /\ Proper(att) /\ att.caller \notin {"flow", "setup"}
         /\ provider \in Gateways /\ history \in Histories
         /\ Whole(store) /\ Whole(pending) /\ Whole(NoState)
         /\ Whole(session) /\ (session # NoState => Complete(session))
         /\ Whole(boot) /\ (boot = NoState \/ HasGApp(boot))
         /\ Whole(partial) /\ (partial = NoState \/ HasGApp(partial))
         /\ Calls /\ Locks /\ Held
BY StatesWhole DEF IInv, Memory, Apart

\* Written, forgotten or left: what is renewed from stays held.
LEMMA FlushKept ==
  ASSUME IInv, Flushed, UNCHANGED << boot, partial >>
  PROVE  Whole(store') /\ Whole(pending') /\ Held'
<1>1. Whole(store') /\ Whole(pending')
  BY StatesWhole DEF Flushed, IInv, Memory
<1>2. NoState.g = 0
  BY DEF NoState
<1>3. Held'
  BY <1>2 DEF Flushed, Held, IInv
<1> QED
  BY <1>1, <1>3

\* What is dropped is not held.
LEMMA RetiresKept ==
  ASSUME IInv, Retires
  PROVE  /\ Whole(store') /\ Whole(pending') /\ Whole(boot') /\ boot' = NoState
         /\ Whole(partial') /\ partial' = NoState /\ Held'
<1>1. NoState.g = 0 /\ Whole(NoState)
  BY StatesWhole DEF NoState
<1>2. Whole(store')
  BY <1>1 DEF Retires, IInv, Memory
<1>3. Held'
  BY <1>1 DEF Retires, Held
<1> QED
  BY <1>1, <1>2, <1>3 DEF Retires

\* A call that comes for the client.
LEMMA EnterKept ==
  ASSUME IInv, NEW p \in Procs, Enter(p)
  PROVE  IInv'
<1>0. running /\ UNCHANGED << att, provider, flow, running, session, boot, partial, renewal, history >>
  BY DEF Enter
<1>1. CASE Flushed /\ Goes(p, "act", Current) /\ queue' = Append(queue, p)
  <2>1. Whole(store') /\ Whole(pending') /\ Held'
    BY <1>0, <1>1, FlushKept
  <2>2. "act" \in Places /\ "act" # "renew"
    BY DEF Places
  <2>3. Calls'
    BY <1>0, <1>1, <2>2, Found, PairsKept, CallGoes
  <2>4. Locks'
    BY <1>0, <1>1, Found, QueueTyped DEF Locks
  <2> QED
    BY <1>0, <2>1, <2>3, <2>4, Found, RunningKept
<1>2. CASE FlushFails /\ UNCHANGED << ops, queue >>
  <2>1. Calls' /\ Locks' /\ Held'
    BY <1>0, <1>2, Found DEF FlushFails, Calls, Locks, Held
  <2> QED
    BY <1>0, <1>2, <2>1, Found, RunningKept DEF FlushFails
<1> QED
  BY <1>1, <1>2 DEF Enter

\* A request leaves a session that is whole, or none.
LEMMA ServedKept ==
  ASSUME IInv, NEW answer \in Answers, Served(answer)
  PROVE  /\ provider' \in Gateways /\ history' \in Histories
         /\ Whole(session') /\ (session' # NoState => Complete(session'))
<1>0. /\ provider \in Gateways /\ history \in Histories /\ Whole(NoState) /\ session.g \in Pairs
      /\ Whole(session) /\ (session # NoState => Complete(session))
  BY StatesWhole, PairsKept DEF IInv, Memory
<1>1. CASE UNCHANGED << provider, session, history >>
  BY <1>0, <1>1
<1>2. CASE session' = NoState /\ UNCHANGED << provider, history >>
  BY <1>0, <1>2
<1>3. CASE /\ session' = NoState /\ Refuses(session.g)
           /\ history' = [ history EXCEPT !.refused = @ \cup {session.g} ]
  <2> DEFINE R == history.refused \cup {session.g}
  <2>1. R \in SUBSET Pairs
    BY <1>0, PairsKept
  <2>2. history' = [ history EXCEPT !.refused = R ]
    BY <1>0, <1>3 DEF Histories
  <2> HIDE DEF R
  <2>3. history' \in Histories
    BY <1>0, <2>1, <2>2, HistoryTyped
  <2>4. provider' \in Gateways
    BY <1>0, <1>3, GatewaysTyped
  <2> QED
    BY <1>0, <1>3, <2>3, <2>4
<1> QED
  BY <1>1, <1>2, <1>3 DEF Served, Answers

\* A call and what its request came to.
LEMMA ActKept ==
  ASSUME IInv, NEW p \in Procs, Act(p)
  PROVE  IInv'
<1>0. /\ running
      /\ UNCHANGED << att, store, flow, running, boot, partial, pending, renewal >>
      /\ queue' = Tail(queue) /\ HasClient(p)
  BY CallsRun DEF Act, IInv
<1>1. PICK answer \in Answers :
        /\ Served(answer)
        /\ CASE answer # "refused" -> Leaves(p)
             [] answer = "refused" /\ ops[p].seen # NoState -> Goes(p, "expired", ops[p].seen)
             [] OTHER -> IF p = "poll" THEN Goes(p, "rejected", NoState) ELSE Leaves(p)
  BY DEF Act
<1>2. Calls'
  <2>1. CASE Leaves(p) \/ Rejected(p)
    BY <1>0, <2>1, Found, CallEnds
  <2>2. CASE Goes(p, "expired", ops[p].seen)
    <3>1. "expired" \in Places /\ "expired" # "renew" /\ Whole(ops[p].seen)
      BY <1>0, Found DEF Places, Calls
    <3> QED
      BY <1>0, <2>2, <3>1, Found, CallGoes
  <2> QED
    BY <1>1, <2>1, <2>2 DEF Rejected
<1>3. Locks' /\ Held'
  BY <1>0, Found, QueueTyped DEF Locks, Held
<1> QED
  BY <1>0, <1>1, <1>2, <1>3, ServedKept, Found, RunningKept

\* A call whose session was refused.
LEMMA ExpiredKept ==
  ASSUME IInv, NEW p \in Procs, Expired(p)
  PROVE  IInv'
<1>0. running /\ UNCHANGED << att, provider, flow, running, session, history >>
  BY CallsRun DEF Expired, IInv
<1>1. CASE FlushFails /\ Leaves(p) /\ UNCHANGED << boot, partial, renewal, queue >>
  <2>1. Calls' /\ Locks' /\ Held'
    BY <1>0, <1>1, Found, CallEnds DEF FlushFails, Locks, Held
  <2> QED
    BY <1>0, <1>1, <2>1, Found, RunningKept DEF FlushFails
<1>2. CASE Retires /\ Rejected(p) /\ UNCHANGED << renewal, queue >>
  <2>1. Calls' /\ Locks'
    BY <1>0, <1>2, Found, CallEnds DEF Locks
  <2> QED
    BY <1>0, <1>2, <2>1, RetiresKept, Found, RunningKept
<1>3. CASE /\ Current # NoState /\ Flushed /\ renewal' = p /\ Goes(p, "renew", Current)
           /\ queue' = Append(queue, p) /\ UNCHANGED << boot, partial >>
  <2>1. "renew" \in Places /\ Whole(Current) /\ HasGApp(Current)
    BY <1>3, PairsKept DEF Places
  <2>2. Calls' /\ Locks'
    BY <1>0, <1>3, <2>1, Found, CallGoes, QueueTyped DEF Locks
  <2> QED
    BY <1>0, <1>3, <2>2, FlushKept, Found, RunningKept
<1>4. CASE Flushed /\ GoesOn(p) /\ UNCHANGED << boot, partial, renewal >>
  <2>1. Calls'
    BY <1>0, <1>4, Found, CallEnds DEF GoesOn
  <2>2. Locks'
    BY <1>0, <1>4, Found, QueueTyped DEF GoesOn, Locks
  <2> QED
    BY <1>0, <1>4, <2>1, <2>2, FlushKept, Found, RunningKept
<1> QED
  BY <1>1, <1>2, <1>3, <1>4 DEF Expired

\* A call that gives the old session up.
LEMMA RenewKept ==
  ASSUME IInv, NEW p \in Procs, Renew(p)
  PROVE  IInv'
<1>0. /\ running
      /\ UNCHANGED << provider, store, flow, running, boot, partial, pending, ops, renewal, queue, history >>
  BY CallsRun DEF Renew, IInv
<1>1. Whole(ops[p].seen) /\ HasGApp(ops[p].seen)
  BY DEF Renew, IInv, Calls
<1> DEFINE a == [ NoAttempt EXCEPT !.caller = "renew", !.cand = ops[p].seen ]
<1>2. att' \in { StartRenewal(a), Raised(a, "Configuration") } /\ session' \in { NoState, session }
  BY DEF Renew
<1>3. Follows(StartRenewal(a), a) /\ Follows(Raised(a, "Configuration"), a) /\ a.caller = "renew"
  BY <1>1, RenewalProper
<1> HIDE DEF a
<1>4. Proper(att') /\ att'.caller = "renew"
  BY <1>2, <1>3 DEF Follows
<1>5. Calls' /\ Locks' /\ Held'
  BY <1>0, Found DEF Calls, Locks, Held
<1> QED
  BY <1>0, <1>2, <1>4, <1>5, Found, RunningKept

\* A renewed pair is stored, or waits to be, before any platform is asked.
LEMMA PublishKept ==
  ASSUME IInv, Publish
  PROVE  IInv'
<1>0. /\ UNCHANGED << provider, flow, running, session, ops, renewal, queue, history >>
      /\ partial' = att.cand /\ boot' = NoState
  BY DEF Publish
<1>1. Proper(att) /\ Whole(att.cand) /\ HasGApp(att.cand) /\ att.caller = "renew" /\ running
  BY DEF Publish, IInv, Proper, StageOf, Apart
<1>2. NoState.g = 0 /\ Whole(NoState)
  BY StatesWhole DEF NoState
<1>3. Calls' /\ Locks'
  BY <1>0, <1>1, Found DEF Calls, Locks
<1>4. CASE store' = att.cand /\ pending' = NoState /\ att' = Platforms(att, att.cand)
  <2>1. Proper(att') /\ att'.caller = "renew"
    BY <1>1, <1>4, WaysToGoOn DEF Follows
  <2>2. Held'
    BY <1>0, <1>2, <1>4 DEF Held
  <2> QED
    BY <1>0, <1>1, <1>2, <1>3, <1>4, <2>1, <2>2, Found, RunningKept
<1>5. CASE /\ pending' = att.cand /\ UNCHANGED store
           /\ att' \in { Raised(att, "Network"), Raised(att, "Deadline") }
  <2>1. Proper(att') /\ att'.caller = "renew"
    <3>1. Follows(Raised(att, "Network"), att) /\ Follows(Raised(att, "Deadline"), att)
      BY <1>1, WaysToEnd
    <3> QED
      BY <1>1, <1>5, <3>1 DEF Follows
  <2>2. Held'
    BY <1>0, <1>2, <1>5 DEF Held
  <2> QED
    BY <1>0, <1>1, <1>2, <1>3, <1>5, <2>1, <2>2, Found, RunningKept
<1> QED
  BY <1>4, <1>5 DEF Publish

\* The end of a renewal, whichever.
LEMMA RenewalEndsKept ==
  ASSUME IInv, NEW p \in Procs, RenewalEnds(p)
  PROVE  IInv'
<1>0. /\ running /\ UNCHANGED << provider, flow, running, history >>
      /\ att' = NoAttempt /\ renewal' = Nobody /\ HasClient(p)
  BY CallsRun DEF RenewalEnds, IInv, Unlocks
<1>1. Whole(att.cand) /\ NoState.g = 0 /\ Whole(NoState) /\ Proper(NoAttempt) /\ NoAttempt.caller = "nobody"
  BY StatesWhole, NoAttemptProper DEF IInv, Proper, NoState
<1>2. queue' \in { Tail(queue), Append(Tail(queue), p) }
  BY DEF RenewalEnds
<1>3. Calls'
  BY <1>0, Found, CallEnds DEF RenewalEnds
<1>4. Locks'
  BY <1>0, <1>2, Found, QueueTyped DEF Locks
<1>5. CASE Kind({"authenticated"}) /\ session' = att.cand /\ boot' = att.cand /\ partial' = NoState
           /\ \/ store' = att.cand /\ pending' = NoState
              \/ pending' = att.cand /\ UNCHANGED store
  <2>1. Complete(att.cand) /\ HasGApp(att.cand)
    BY <1>5 DEF RenewalEnds, Over, Kind, IInv, Proper, StageOf, Complete
  <2>2. Held'
    BY <1>1, <1>5 DEF Held
  <2>3. Whole(store') /\ Whole(pending')
    BY <1>0, <1>1, <1>5, Found
  <2> QED
    BY <1>0, <1>1, <1>3, <1>4, <1>5, <2>1, <2>2, <2>3, Found, RunningKept
<1>6. CASE Retires /\ UNCHANGED session
  BY <1>0, <1>1, <1>3, <1>4, <1>6, RetiresKept, Found, RunningKept
<1>7. CASE UNCHANGED << store, session, boot, partial, pending >>
  <2>1. Held'
    BY <1>7 DEF IInv, Held
  <2> QED
    BY <1>0, <1>1, <1>3, <1>4, <1>7, <2>1, Found, RunningKept
<1> QED
  BY <1>5, <1>6, <1>7 DEF RenewalEnds

\* A repeated read and what it came to.
LEMMA AgainKept ==
  ASSUME IInv, NEW p \in Procs, Again(p)
  PROVE  IInv'
<1>0. /\ running /\ UNCHANGED << att, flow, running, renewal >>
      /\ queue' = Tail(queue) /\ HasClient(p)
  BY CallsRun DEF Again, IInv
<1>1. PICK answer \in Answers :
        /\ Served(answer)
        /\ IF answer = "refused"
           THEN Retires /\ Rejected(p)
           ELSE Leaves(p) /\ UNCHANGED << boot, partial, pending, store >>
  BY DEF Again
<1>2. Calls' /\ Locks'
  BY <1>0, <1>1, Found, CallEnds, QueueTyped DEF Locks
<1>3. CASE Retires
  BY <1>0, <1>1, <1>2, <1>3, ServedKept, RetiresKept, Found, RunningKept
<1>4. CASE UNCHANGED << boot, partial, pending, store >>
  <2>1. Held'
    BY <1>4 DEF IInv, Held
  <2> QED
    BY <1>0, <1>1, <1>2, <1>4, <2>1, ServedKept, Found, RunningKept
<1> QED
  BY <1>1, <1>3, <1>4

\* A call that waited too long.
LEMMA GivesUpKept ==
  ASSUME IInv, NEW p \in Procs, GivesUp(p)
  PROVE  IInv'
<1>0. /\ running /\ Leaves(p)
      /\ UNCHANGED << att, provider, store, flow, running, session, boot, partial, pending, history >>
  BY CallsRun DEF GivesUp, IInv
<1>1. PICK i \in 2 .. Len(queue) :
        queue' = SubSeq(queue, 1, i - 1) \o SubSeq(queue, i + 1, Len(queue))
  BY DEF GivesUp
<1>2. queue \in Seq(Procs) /\ Len(queue) \in Nat
  BY DEF IInv, Locks
<1>3. /\ SubSeq(queue, 1, i - 1) \in Seq(Procs)
      /\ SubSeq(queue, i + 1, Len(queue)) \in Seq(Procs)
  <2>1. \A j \in 1 .. i - 1 : queue[j] \in Procs
    BY <1>2
  <2>2. \A j \in i + 1 .. Len(queue) : queue[j] \in Procs
    BY <1>2
  <2> QED
    BY <1>2, <2>1, <2>2, SubSeqProperties
<1>4. queue' \in Seq(Procs)
  BY <1>1, <1>3, ConcatProperties
<1>5. Locks'
  BY <1>0, <1>4, Found DEF Locks, GivesUp
<1>6. Calls' /\ Held'
  BY <1>0, Found, CallEnds DEF Held
<1> QED
  BY <1>0, <1>5, <1>6, Found, RunningKept

\* What the coordinator is told.
LEMMA ReportKept ==
  ASSUME IInv, Report
  PROVE  IInv'
<1>0. /\ "poll" \in Procs /\ ops["poll"].at # "idle"
      /\ UNCHANGED << att, provider, flow, running, session, renewal, queue >>
      /\ Retires /\ Leaves("poll") /\ history' = [ history EXCEPT !.told = TRUE ]
  BY DEF Report, Procs
<1>1. running
  BY <1>0, CallsRun DEF IInv
<1>2. history' \in Histories
  BY <1>0, <1>1, Found, HistoryTyped
<1>3. Calls' /\ Locks'
  BY <1>0, <1>1, Found, CallEnds DEF Locks
<1> QED
  BY <1>0, <1>1, <1>2, <1>3, RetiresKept, Found, RunningKept

---------------------------------------------------------------------------
(* Requests, time and restarts.                                            *)

\* What is left alone stays as it was.
LEMMA MemoryLeft ==
  ASSUME IInv, UNCHANGED << store, flow, running, runtime >>
  PROVE  Memory' /\ Calls' /\ Locks' /\ Held' /\ (~ running' => Quiet')
BY DEF IInv, Memory, Calls, Locks, Held, Apart, Quiet, runtime

\* A request that is answered.
LEMMA AnsweredKept ==
  ASSUME IInv, Answered
  PROVE  IInv'
<1>0. UNCHANGED << store, flow, running, runtime >> /\ AttemptStep
  BY DEF Answered
<1>1. Follows(att', att) /\ provider' \in Gateways
  BY <1>0, AttemptKept DEF IInv
<1>2. history' \in Histories
  <2> DEFINE L == history.lost \cup (IF LostNow THEN {att.cand.g} ELSE {})
             R == history.refused \cup (IF RefusedNow THEN {att.cand.g, store.g} ELSE {})
             h == [ history EXCEPT !.lost = L, !.refused = R ]
  <2>1. L \in SUBSET Pairs /\ R \in SUBSET Pairs
    BY PairsKept
  <2>2. history' = Asks(h)
    BY DEF Answered
  <2> HIDE DEF L, R
  <2>3. h \in Histories
    BY <2>1, HistoryTyped DEF IInv
  <2> HIDE DEF h
  <2> QED
    BY <2>2, <2>3, AsksTyped
<1>3. Memory' /\ Calls' /\ Locks' /\ Held' /\ (~ running' => Quiet')
  BY <1>0, MemoryLeft
<1>4. Apart'
  BY <1>0, <1>1, <1>3 DEF Follows, IInv, Apart
<1> QED
  BY <1>1, <1>2, <1>3, <1>4 DEF Follows, IInv

\* A state grown older is of the same pair.
LEMMA OlderKept ==
  ASSUME NEW s, Whole(s)
  PROVE  Whole(Older(s)) /\ Older(s).g = s.g /\ Older(s).down = s.down
<1> DEFINE a == IF s.asked = "recent" THEN "old" ELSE s.asked
<1>1. a \in Asked
  BY DEF Whole, ChinaAuthState, Asked
<1>2. Older(s) = [ s EXCEPT !.asked = a ]
  BY DEF Older, Whole, ChinaAuthState
<1> HIDE DEF a
<1> QED
  BY <1>1, <1>2 DEF Whole, ChinaAuthState

\* The interval after a code passes.
LEMMA IntervalKept ==
  ASSUME IInv, IntervalPasses
  PROVE  IInv'
<1>0. /\ UNCHANGED << provider, running, runtime >>
      /\ store' = Older(store) /\ flow' = [ flow EXCEPT !.state = Older(@) ]
      /\ att' = [ att EXCEPT !.cand = Older(@) ]
      /\ history' = [ history EXCEPT !.asked = FALSE ]
  BY DEF IntervalPasses
<1>1. Proper(att') /\ att'.caller = att.caller
  <2> DEFINE o == Older(att.cand)
  <2>1. Proper(att) /\ att \in Attempts
    BY DEF IInv, Proper
  <2>2. Whole(o) /\ o.g = att.cand.g /\ o.down = att.cand.down
    BY <2>1, OlderKept DEF Proper
  <2>3. att' = [ att EXCEPT !.cand = o ]
    BY <1>0, <2>1 DEF Attempts
  <2> HIDE DEF o
  <2>4. /\ att' \in Attempts /\ att'.cand = o /\ att'.stage = att.stage
        /\ att'.outcome = att.outcome /\ att'.caller = att.caller
    BY <2>1, <2>2, <2>3 DEF Attempts, Whole
  <2>5. StageOf(att')
    BY <2>1, <2>2, <2>4 DEF Proper, StageOf, Complete, HasGApp
  <2> QED
    BY <2>2, <2>4, <2>5 DEF Proper
<1>2. history' \in Histories
  BY <1>0, HistoryTyped DEF IInv
<1>3. Whole(store') /\ store'.g = store.g
  BY <1>0, OlderKept DEF IInv, Memory
<1>4. Whole(flow'.state) /\ flow' \in Flows
  <2>1. flow \in Flows /\ Whole(flow.state)
    BY DEF IInv, Memory
  <2>2. Whole(Older(flow.state))
    BY <2>1, OlderKept
  <2> QED
    BY <1>0, <2>1, <2>2 DEF Flows, Whole
<1>5. Memory'
  BY <1>0, <1>3, <1>4 DEF IInv, Memory, runtime
<1>6. Calls' /\ Locks' /\ Held'
  BY <1>0, <1>3 DEF IInv, Calls, Locks, Held, runtime
<1>7. Apart'
  BY <1>0, <1>1 DEF IInv, Apart, Quiet, runtime
<1> QED
  BY <1>0, <1>1, <1>2, <1>5, <1>6, <1>7 DEF IInv

\* A restart forgets what is in memory, whatever was under way.
LEMMA RestartKept ==
  ASSUME IInv, Restart
  PROVE  IInv'
<1>0. /\ att' = NoAttempt /\ flow' = NoFlow /\ running' = FALSE /\ UNCHANGED store
      /\ session' = NoState /\ boot' = NoState /\ partial' = NoState /\ pending' = NoState
      /\ ops' = [ p \in Procs |-> [ at |-> "idle", seen |-> NoState ] ]
      /\ renewal' = Nobody /\ queue' = << >>
  BY DEF Restart
<1>1. Quiet'
  BY <1>0 DEF Quiet
<1>2. Held'
  BY <1>1, QuietHolds
<1>3. Apart' /\ Proper(att')
  BY <1>0, <1>1, NoAttemptProper DEF Apart
<1>4. Whole(NoState) /\ NoState \in ChinaAuthState
  BY StatesWhole DEF Whole
<1>5. Memory'
  BY <1>0, <1>4 DEF IInv, Memory, NoFlow, Flows, Steps
<1>6. Calls' /\ Locks'
  BY <1>0, <1>4 DEF Calls, Locks, Places
<1>7. provider' \in Gateways
  <2>1. CASE UNCHANGED provider
    BY <2>1 DEF IInv
  <2>2. CASE Exchanges(att.cand.g)
    BY <2>2, PairsKept, GatewaysTyped DEF IInv
  <2> QED
    BY <2>1, <2>2 DEF Restart
<1>8. history' \in Histories
  <2> DEFINE L == history.lost \cup Successor(store)
                    \cup (IF Current.g # store.g THEN {store.g} ELSE {})
             e == history.excused \/ att # NoAttempt
             h == [ history EXCEPT !.told = FALSE, !.excused = e, !.lost = L ]
             M == h.lost \cup {att.cand.g}
  <2>1. L \in SUBSET Pairs /\ e \in BOOLEAN
    <3>1. Successor(store) \in SUBSET Pairs
      BY PairsKept, SuccessorsArePairs DEF IInv
    <3> QED
      BY <3>1, PairsKept
  <2>2. history' = h \/ history' = [ h EXCEPT !.lost = M ]
    <3>1. h = [ history EXCEPT !.told = FALSE, !.excused = @ \/ att # NoAttempt,
                  !.lost = @ \cup Successor(store)
                             \cup (IF Current.g # store.g THEN {store.g} ELSE {}) ]
      BY DEF IInv, Histories
    <3>2. M = h.lost \cup {att.cand.g}
      OBVIOUS
    <3> HIDE DEF h, M
    <3>3. h \in Histories => [ h EXCEPT !.lost = @ \cup {att.cand.g} ] = [ h EXCEPT !.lost = M ]
      BY <3>2 DEF Histories
    <3>4. h \in Histories
      BY <2>1, HistoryTyped DEF IInv, h
    <3> QED
      BY <3>1, <3>3, <3>4 DEF Restart
  <2>3. h \in Histories
    <3> HIDE DEF L, e
    <3> QED
      BY <2>1, HistoryTyped DEF IInv
  <2> HIDE DEF h
  <2>4. M \in SUBSET Pairs
    BY <2>3, PairsKept DEF Histories
  <2> HIDE DEF M
  <2> QED
    BY <2>2, <2>3, <2>4, HistoryTyped
<1> QED
  BY <1>2, <1>3, <1>5, <1>6, <1>7, <1>8 DEF IInv

---------------------------------------------------------------------------
(* The theorems.                                                           *)

\* The invariant holds at first.
LEMMA InitInvariant == Init => IInv
<1> SUFFICES ASSUME Init
             PROVE  IInv
  OBVIOUS
<1>1. Whole(NoState) /\ NoState \in ChinaAuthState /\ NoState.g = 0
  BY StatesWhole DEF Whole, NoState
<1>2. provider \in Gateways
  BY ChinaBounds DEF Init, Gateways, Pairs
<1>3. Proper(att) /\ Apart
  BY NoAttemptProper DEF Init, Apart
<1>4. Memory
  BY <1>1 DEF Init, Quiet, Memory, NoFlow, Flows, Steps
<1>5. Calls /\ Locks
  BY <1>1 DEF Init, Quiet, Calls, Locks, Places
<1>6. Held
  BY <1>1 DEF Init, Quiet, Held
<1>7. history \in Histories
  BY DEF Init, Histories
<1> QED
  BY <1>2, <1>3, <1>4, <1>5, <1>6, <1>7 DEF IInv

\* Every step keeps it.
LEMMA StepInvariant == IInv /\ [Next]_vars => IInv'
<1> SUFFICES ASSUME IInv, [Next]_vars
             PROVE  IInv'
  OBVIOUS
<1>1. CASE UNCHANGED vars
  <2>1. UNCHANGED << store, flow, running, runtime >> /\ UNCHANGED << att, provider, history >>
    BY <1>1 DEF vars, runtime
  <2>2. Memory' /\ Calls' /\ Locks' /\ Held' /\ (~ running' => Quiet')
    BY <2>1, MemoryLeft
  <2> QED
    BY <2>1, <2>2 DEF IInv, Apart
<1>2. CASE SubmitAccount \/ SubmitCode \/ RetryInitialization \/ AbandonFlow \/ Setup
  BY <1>2, FlowsKept, AbandonKept
<1>3. CASE RouteResult \/ SetupEnds
  BY <1>3, RouteResultKept, SetupEndsKept
<1>4. CASE Answered \/ Publish \/ Report
  BY <1>4, AnsweredKept, PublishKept, ReportKept
<1>5. CASE \E p \in Procs : Enter(p) \/ Works(p)
  BY <1>5, EnterKept, ActKept, ExpiredKept, RenewKept, RenewalEndsKept, AgainKept, GivesUpKept
  DEF Works
<1>6. CASE IntervalPasses \/ Restart
  BY <1>6, IntervalKept, RestartKept
<1> QED
  BY <1>1, <1>2, <1>3, <1>4, <1>5, <1>6 DEF Next

\* It holds in every state.
THEOREM Invariant == Spec => []IInv
BY InitInvariant, StepInvariant, PTL DEF Spec

\* No state of the flow, the store, the entry or an attempt mixes the platform sessions
\* of one G-App pair with another pair, and the client works with a whole session only.
THEOREM SessionsUnmixed == Spec => []NoMixedSession
<1>1. IInv => NoMixedSession
  <2> SUFFICES ASSUME IInv
               PROVE  NoMixedSession
    OBVIOUS
  <2>1. \A s \in { store, boot, partial, pending, session, flow.state, att.cand } :
          s \in ChinaAuthState /\ s.down \in { 0, s.g }
    BY DEF IInv, Memory, Proper, Whole
  <2>2. TypeOK
    BY <2>1 DEF IInv, Memory, Flows, Gateways, Calls, Locks, Proper, TypeOK
  <2> QED
    BY <2>1, <2>2 DEF IInv, Memory, NoMixedSession
<1> QED
  BY <1>1, Invariant, PTL

\* The pair a running entry would renew from is in the store or waits to be written
\* there, after any number of rotations, failed saves and restarts.
THEOREM PairHeld == Spec => []RotatedPairHeld
<1>1. IInv => RotatedPairHeld
  BY DEF IInv, Held, RotatedPairHeld
<1> QED
  BY <1>1, Invariant, PTL

---------------------------------------------------------------------------
(* What the China session does with what may be used once: HInv relates    *)
(* the memory of the entry, the attempt and the store to the history.      *)
(* What an answer to an attempt leaves is described once, by Led; the      *)
(* calls of a running entry are followed through the lock and the line     *)
(* for the client, which decide what a call may find.                      *)

---------------------------------------------------------------------------
(* What was spent, refused and asked for.                                  *)

\* The client is waited for by the calls that are at a request, in one of these orders.
Waiting == { "act", "renew", "again" }
Queues == { << >>, << "poll" >>, << "command" >>, << "poll", "command" >>,
            << "command", "poll" >> }
Listed(p) == \E i \in 1 .. Len(queue) : queue[i] = p

\* Who renews has the lock and the client; a repeated read is not behind a renewal.
InLine ==
  /\ queue \in Queues
  /\ \A p \in Procs : Listed(p) <=> ops[p].at \in Waiting
  /\ \A p \in Procs : renewal = p <=> ops[p].at = "renew"
  /\ ops["command"].at \notin { "again", "rejected" }
  /\ att.caller = "renew" => renewal \in Procs /\ HasClient(renewal)
  /\ ops["poll"].at = "again" => /\ Complete(Current) /\ pending = NoState
                                 /\ att.caller # "renew"
                                 /\ ops["command"].at = "renew" => queue = << "poll", "command" >>

\* A flow's continuation is what is stored; no flow is open beside setup or an entry.
FlowStored ==
  /\ flow.step # "none" => flow.state = store
  /\ running \/ att.caller = "setup" => flow.step = "none"

\* A state with a G-App pair has no code outstanding.
Unasked(s) == HasGApp(s) => s.asked = "never"
Answering ==
  /\ \A s \in { store, pending, boot, partial, att.cand } : Unasked(s)
  /\ \A p \in Procs : Unasked(ops[p].seen)
  /\ pending # NoState => HasGApp(pending)

\* Where an attempt can be.
Placed(a) ==
  /\ a.caller = "nobody" <=> a.stage = "idle"
  /\ a.allow => a.caller = "flow"
  /\ a.stage \in { "smsRequest", "smsLogin" } => a.cand.g = 0
  /\ a.stage \in { "smsRequest", "smsLogin", "check" } => a.caller \in { "flow", "setup" }
  /\ a.stage = "publish" => a.cand.down = 0
  /\ a.stage = "ended" /\ a.outcome.kind = "initialization" => HasGApp(a.cand)
Beside ==
  /\ att.caller \in { "flow", "setup" } /\ att.stage \in { "check", "refresh" } =>
       att.cand.g = store.g
  /\ att.stage = "smsLogin" => att.cand.asked = store.asked

\* What a refusal ends: nothing is stored that was not refused.
Turned(a) ==
  \/ a.stage \in { "smsRequest", "smsLogin" }
  \/ /\ a.stage = "ended"
     /\ \/ a.outcome.class \in { "Authentication", "Risk" }
        \/ a.outcome.kind \in { "verification", "risk" }
Excluded(g) == g = 0 \/ g \in history.refused \/ history.told
Refusals ==
  /\ att.caller # "nobody" /\ Turned(att) => Excluded(store.g)
  /\ running /\ Current = NoState => (pending = NoState /\ Excluded(store.g)) \/ history.told

\* What the client works with is what it would renew from, unless that was refused.
Working ==
  /\ session # NoState => session.g = Current.g \/ history.told
  /\ session = NoState /\ Complete(Current) => Excluded(Current.g)
  /\ att.caller = "renew" /\ (att.stage # "ended" \/ Turned(att) \/ Kind({"authenticated"})) =>
       session = NoState
Observed ==
  \A p \in Procs :
    ops[p].at \in { "act", "expired", "renew" } /\ Complete(ops[p].seen) =>
      \/ Excluded(ops[p].seen.g)
      \/ ops[p].at = "act" /\ Complete(Current) /\ ops[p].seen.g = Current.g

RefusedInv == InLine /\ FlowStored /\ Answering /\ Placed(att) /\ Beside /\ Refusals /\ Working /\ Observed

\* A spent pair that is still held is one whose successor was lost.
Unspent(g) == g \in provider.spent => g \in history.lost
Rotated == att.caller \in { "flow", "setup" } /\ att.cand.g \notin { 0, store.g }
SpentInv ==
  /\ \A g \in provider.spent : g \in 1 .. provider.issued
  /\ \A s \in { store, boot, partial, pending, flow.state, att.cand } : s.g <= provider.issued
  /\ \A p \in Procs : ops[p].seen.g <= provider.issued
  /\ Unspent(att.cand.g)
  /\ ~ running => Unspent(store.g) \/ Rotated
  /\ running => Unspent(Current.g) \/ att.stage = "publish"
  /\ \A p \in Procs : ops[p].at = "renew" /\ att.caller # "renew" => Unspent(ops[p].seen.g)

\* A code asked for within the interval is remembered, unless it is excused.
Remembered == history.asked => history.excused \/ store.asked = "recent"
AskedInv ==
  /\ running => (history.asked => history.excused)
  /\ ~ running /\ att.caller \in {"nobody", "setup"} => Remembered
  /\ att.caller = "flow" /\ history.asked /\ ~ history.excused =>
       att.cand.asked = "recent" \/ (att.cand.asked = "never" /\ store.asked = "recent")
HInv == RefusedInv /\ SpentInv /\ AskedInv

---------------------------------------------------------------------------
(* What an answer leaves, as far as pairs, codes and refusals go.          *)

SameProvider == provider'.spent = provider.spent /\ provider'.issued = provider.issued
Exchanged == /\ att.cand.g \notin provider.spent /\ provider.issued < MaxPair
             /\ provider'.spent = provider.spent \cup {att.cand.g}
             /\ provider'.issued = provider.issued + 1

\* The pair stays; the answer to its exchange may be lost.
SamePair == att'.cand.g = att.cand.g /\ att'.cand.asked = att.cand.asked
PairStays ==
  /\ SamePair
  /\ \/ SameProvider
     \/ Exchanged /\ att.stage = "refresh" /\ att'.stage = "ended"
  /\ att'.stage \notin { "publish", "smsRequest", "smsLogin", "check", "idle" }
  /\ att'.stage = "refresh" => att.stage = "check" /\ SameProvider

\* A new pair arrives, from an exchange or for a code.
PairArrives ==
  /\ att'.cand.g = provider.issued + 1 /\ att'.cand.asked = "never" /\ att'.cand.down = 0
  /\ att'.stage \in { "platforms", "publish" }
  /\ \/ /\ Exchanged /\ att.stage = "refresh"
        /\ att.caller = "renew" => att'.stage = "publish"
     \/ att.stage = "smsLogin" /\ provider'.spent = provider.spent
        /\ provider'.issued = provider.issued + 1

\* An exchange answers without tokens.
PairUnnamed ==
  /\ att.stage = "refresh" /\ att'.stage \in { "platforms", "publish" }
  /\ att'.cand.g = att.cand.g /\ att'.cand.asked = "never" /\ att'.cand.down = 0
  /\ SameProvider

\* GWM refuses the pair, and the user signs in again.
PairRefused ==
  /\ att.stage = "refresh" /\ att.allow /\ SameProvider
  /\ \/ att'.stage = "smsLogin" /\ att'.cand = NoState
     \/ att'.stage = "smsRequest" /\ att'.cand.g = 0 /\ att'.cand.asked = "recent"

\* GWM rejects the code.
CodeRejected ==
  /\ att.stage = "smsLogin" /\ att'.stage = "ended" /\ SameProvider
  /\ att'.cand.g = att.cand.g /\ att'.cand.asked = "never"

Led ==
  /\ att.stage \in Waits /\ att'.allow = att.allow /\ att'.caller = att.caller
  /\ PairStays \/ PairArrives \/ PairUnnamed \/ PairRefused \/ CodeRejected
  /\ att'.stage = "publish" => att.caller = "renew"
  /\ Turned(att') => Turned(att) \/ RefusedNow
  /\ att'.stage = "ended" /\ att'.outcome.kind = "initialization" => HasGApp(att'.cand)

\* The fields of an attempt that ended.
ErrorClass(e) == IF e \in {"Authentication", "Risk", "Deadline"} THEN e ELSE "other"
EndedAs(b, a, s, kind, class) ==
  /\ b.stage = "ended" /\ b.cand = s /\ b.allow = a.allow /\ b.caller = a.caller
  /\ b.outcome.kind = kind /\ b.outcome.class = class

LEMMA EndedFields ==
  ASSUME NEW a \in Attempts
  PROVE  /\ \A e : EndedAs(Raised(a, e), a, a.cand, "error", ErrorClass(e))
         /\ \A s : /\ EndedAs(CodeNeeded(a, s, TRUE), a, s, "verification", "none")
                   /\ EndedAs(CodeNeeded(a, s, FALSE), a, s, "verification", "none")
         /\ EndedAs(Authenticated(a), a, a.cand, "authenticated", "none")
         /\ EndedAs(InitializationRequired(a), a, WithoutDownstream(a.cand), "initialization", "none")
         /\ EndedAs(RiskControlRequired(a), a, WithoutDownstream(a.cand), "risk", "none")
<1> DEFINE End(s, o) == [ a EXCEPT !.stage = "ended", !.cand = s, !.got = {},
                                   !.tries = NoAttempt.tries, !.outcome = o ]
<1>1. ASSUME NEW s, NEW o
      PROVE  /\ End(s, o).stage = "ended" /\ End(s, o).cand = s /\ End(s, o).outcome = o
             /\ End(s, o).allow = a.allow /\ End(s, o).caller = a.caller
  BY DEF Attempts
<1> HIDE DEF End
<1>2. ASSUME NEW e
      PROVE  EndedAs(Raised(a, e), a, a.cand, "error", ErrorClass(e))
  <2> DEFINE o == [ kind |-> "error", rejected |-> FALSE, class |-> ErrorClass(e) ]
  <2>1. Raised(a, e) = End(a.cand, o)
    BY DEF Raised, Ended, End, ErrorClass
  <2>2. o.kind = "error" /\ o.class = ErrorClass(e)
    OBVIOUS
  <2> HIDE DEF o
  <2> QED BY <1>1, <2>1, <2>2 DEF EndedAs
<1>3. ASSUME NEW s
      PROVE  /\ EndedAs(CodeNeeded(a, s, TRUE), a, s, "verification", "none")
             /\ EndedAs(CodeNeeded(a, s, FALSE), a, s, "verification", "none")
  <2> DEFINE o == [ kind |-> "verification", rejected |-> TRUE, class |-> "none" ]
             p == [ kind |-> "verification", rejected |-> FALSE, class |-> "none" ]
             m == CodeNeeded(a, s, TRUE)
             n == CodeNeeded(a, s, FALSE)
  <2>1. m = End(s, o) /\ n = End(s, p)
    BY DEF CodeNeeded, Ended, End
  <2>2. o.kind = "verification" /\ o.class = "none" /\ p.kind = "verification" /\ p.class = "none"
    OBVIOUS
  <2> HIDE DEF o, p, m, n
  <2>3. EndedAs(m, a, s, "verification", "none") /\ EndedAs(n, a, s, "verification", "none")
    BY <1>1, <2>1, <2>2 DEF EndedAs
  <2> QED BY ONLY <2>3 DEF m, n
<1>4. EndedAs(Authenticated(a), a, a.cand, "authenticated", "none")
  <2> DEFINE o == [ kind |-> "authenticated", rejected |-> FALSE, class |-> "none" ]
  <2>1. Authenticated(a) = End(a.cand, o)
    BY DEF Authenticated, Ended, End
  <2>2. o.kind = "authenticated" /\ o.class = "none"
    OBVIOUS
  <2> HIDE DEF o
  <2> QED BY <1>1, <2>1, <2>2 DEF EndedAs
<1>5. EndedAs(InitializationRequired(a), a, WithoutDownstream(a.cand), "initialization", "none")
  <2> DEFINE o == [ kind |-> "initialization", rejected |-> FALSE, class |-> "none" ]
  <2>1. InitializationRequired(a) = End(WithoutDownstream(a.cand), o)
    BY DEF InitializationRequired, Ended, End
  <2>2. o.kind = "initialization" /\ o.class = "none"
    OBVIOUS
  <2> HIDE DEF o
  <2> QED BY <1>1, <2>1, <2>2 DEF EndedAs
<1>6. EndedAs(RiskControlRequired(a), a, WithoutDownstream(a.cand), "risk", "none")
  <2> DEFINE o == [ kind |-> "risk", rejected |-> FALSE, class |-> "none" ]
  <2>1. RiskControlRequired(a) = End(WithoutDownstream(a.cand), o)
    BY DEF RiskControlRequired, Ended, End
  <2>2. o.kind = "risk" /\ o.class = "none"
    OBVIOUS
  <2> HIDE DEF o
  <2> QED BY <1>1, <2>1, <2>2 DEF EndedAs
<1> QED BY <1>2, <1>3, <1>4, <1>5, <1>6

\* An end that keeps the pair is one Led describes.
LEMMA EndLeads ==
  ASSUME att.stage \in Waits, SameProvider,
         NEW s, NEW kind, NEW class, EndedAs(att', att, s, kind, class),
         s.g = att.cand.g, s.asked = att.cand.asked,
         kind = "initialization" => HasGApp(att.cand),
         kind = "verification" => Turned(att)
  PROVE  Led
<1>1. PairStays
  BY DEF PairStays, SamePair, EndedAs
<1>2. Turned(att') => Turned(att) \/ RefusedNow
  BY DEF Turned, EndedAs, RefusedNow
<1> QED BY <1>1, <1>2 DEF Led, HasGApp, EndedAs

\* The errors an attempt ends with.
LEMMA ErrorLeads ==
  ASSUME att \in Attempts, att.stage \in Waits, SameProvider, NEW e,
         \/ att' = Raised(att, e)
         \/ att' = RiskControlRequired(att)
         \/ att' = AfterRisk(att)
         \/ att' = AfterFailure(att, e) /\ HasGApp(att.cand)
         \/ att' = Authenticated(att)
  PROVE  Led
<1> DEFINE w == WithoutDownstream(att.cand)
<1>1. w.g = att.cand.g /\ w.asked = att.cand.asked
  BY DEF WithoutDownstream, Attempts, ChinaAuthState
<1>2. /\ \A x : EndedAs(Raised(att, x), att, att.cand, "error", ErrorClass(x))
      /\ EndedAs(Authenticated(att), att, att.cand, "authenticated", "none")
      /\ EndedAs(InitializationRequired(att), att, w, "initialization", "none")
      /\ EndedAs(RiskControlRequired(att), att, w, "risk", "none")
  BY EndedFields
<1> HIDE DEF w
<1>3. ASSUME NEW x, att' = Raised(att, x)
      PROVE  Led
  BY <1>2, <1>3, EndLeads
<1>4. CASE att' = RiskControlRequired(att)
  BY <1>1, <1>2, <1>4, EndLeads
<1>5. CASE att' = InitializationRequired(att) /\ HasGApp(att.cand)
  BY <1>1, <1>2, <1>5, EndLeads
<1>6. CASE att' = Authenticated(att)
  BY <1>2, <1>6, EndLeads
<1> QED BY <1>3, <1>4, <1>5, <1>6 DEF AfterRisk, AfterFailure

\* Signing in again with a pair that was refused, as long as no code is outstanding.
LEMMA SmsLeads ==
  ASSUME att \in Attempts, att.stage = "refresh", att.allow, SameProvider, Asking \in BOOLEAN,
         att' = Sms(att, NoState)
  PROVE  Led
<1>1. NoState.asked = "never" /\ NoState.g = 0
  BY DEF NoState
<1>2. CASE att.code
  <2>1. att' = [ att EXCEPT !.stage = "smsLogin", !.cand = NoState ]
    BY <1>2 DEF Sms
  <2>2. att'.stage = "smsLogin" /\ att'.cand = NoState /\ att'.allow = att.allow /\ att'.caller = att.caller
    BY <2>1 DEF Attempts
  <2>3. PairRefused
    BY <2>2 DEF PairRefused
  <2>4. RefusedNow
    BY <2>2 DEF RefusedNow
  <2> QED BY <2>2, <2>3, <2>4 DEF Led, Waits
<1>3. CASE ~ att.code
  <2> DEFINE r == [ NoState EXCEPT !.asked = "recent" ]
  <2>1. att' = [ att EXCEPT !.stage = "smsRequest", !.cand = r ]
    BY <1>1, <1>3 DEF Sms, Throttled
  <2>2. r.g = 0 /\ r.asked = "recent"
    BY DEF NoState
  <2> HIDE DEF r
  <2>3. att'.stage = "smsRequest" /\ att'.cand = r /\ att'.allow = att.allow /\ att'.caller = att.caller
    BY <2>1 DEF Attempts
  <2>4. PairRefused
    BY <2>2, <2>3 DEF PairRefused
  <2>5. RefusedNow
    BY <2>3 DEF RefusedNow
  <2> QED BY <2>3, <2>4, <2>5 DEF Led, Waits
<1> QED BY <1>2, <1>3

\* Opening the platforms with a pair, at once or after it was published.
LEMMA PairFields ==
  ASSUME NEW a \in Attempts, NEW s \in ChinaAuthState, NEW pair
  PROVE  /\ ParseGApp(s, pair).g = pair /\ ParseGApp(s, pair).asked = "never"
         /\ ParseGApp(s, pair).down = 0
         /\ Platforms(a, s).stage = "platforms" /\ Platforms(a, s).allow = a.allow
         /\ Platforms(a, s).caller = a.caller
         /\ Platforms(a, s).cand.g = s.g /\ Platforms(a, s).cand.asked = s.asked
         /\ Platforms(a, s).cand.down = 0
<1>1. /\ ParseGApp(s, pair).g = pair /\ ParseGApp(s, pair).asked = "never"
      /\ ParseGApp(s, pair).down = 0
  BY DEF ParseGApp, WithoutDownstream, ChinaAuthState
<1> DEFINE w == WithoutDownstream(s)
           ones == [ x \in Services |-> 1 ]
<1>2. w.g = s.g /\ w.asked = s.asked /\ w.down = 0
  BY DEF WithoutDownstream, ChinaAuthState
<1>3. Platforms(a, s) = [ a EXCEPT !.stage = "platforms", !.cand = w, !.got = {}, !.tries = ones ]
  BY DEF Platforms
<1> HIDE DEF w, ones
<1>4. /\ Platforms(a, s).stage = "platforms" /\ Platforms(a, s).allow = a.allow
      /\ Platforms(a, s).caller = a.caller /\ Platforms(a, s).cand = w
  BY <1>3 DEF Attempts
<1> QED BY <1>1, <1>2, <1>4

\* A pair that arrives, or the old one unnamed, goes on to the platforms or to be kept.
LEMMA RefreshedFields ==
  ASSUME Proper(att), NEW pair \in Pairs, NEW s, s = ParseGApp(att.cand, pair),
         att' = Refreshed(s)
  PROVE  /\ att'.stage \in { "platforms", "publish" } /\ att'.allow = att.allow
         /\ att'.caller = att.caller /\ att'.cand.g = pair /\ att'.cand.asked = "never"
         /\ att'.cand.down = 0 /\ (att'.stage = "publish" <=> att.caller = "renew")
<1>1. att \in Attempts /\ att.cand \in ChinaAuthState /\ Whole(att.cand)
  BY DEF Proper, Attempts
<1>2. /\ s.g = pair /\ s.asked = "never" /\ s.down = 0
  BY <1>1, PairFields
<1>3. s \in ChinaAuthState
  BY <1>1, StatesWhole DEF Whole
<1>4. CASE att.caller = "renew"
  <2>1. att' = [ att EXCEPT !.stage = "publish", !.cand = s ]
    BY <1>4 DEF Refreshed
  <2> QED BY <1>1, <1>2, <1>4, <2>1 DEF Attempts
<1>5. CASE att.caller # "renew"
  <2>1. att' = Platforms(att, s)
    BY <1>5 DEF Refreshed
  <2> QED BY <1>1, <1>2, <1>3, <1>5, <2>1, PairFields
<1> QED BY <1>4, <1>5

\* What is known of an attempt before its answer.
Readied == Proper(att) /\ Placed(att) /\ Unasked(att.cand) /\ provider \in Gateways

LEMMA CheckLeads ==
  ASSUME Readied, NEW e \in Results, Check(e)
  PROVE  Led
<1>1. /\ att \in Attempts /\ att.stage = "check" /\ att.stage \in Waits
      /\ att.cand.g \in Pairs
  BY DEF Check, Waits, Readied, Proper, Attempts, ChinaAuthState
<1>2. CASE att' = [ att EXCEPT !.stage = "refresh" ] /\ Refuses(att.cand.g)
  <2>1. /\ att'.stage = "refresh" /\ att'.cand = att.cand /\ att'.allow = att.allow
        /\ att'.caller = att.caller
    BY <1>1, <1>2 DEF Attempts
  <2>2. SameProvider
    BY <1>2 DEF Refuses, SameProvider, Readied, Gateways
  <2>3. PairStays
    BY <1>1, <2>1, <2>2 DEF PairStays, SamePair
  <2> QED BY <1>1, <2>1, <2>3 DEF Led, Turned
<1>3. CASE UNCHANGED provider /\ att' \in { Authenticated(att), RiskControlRequired(att), Raised(att, e) }
  <2>1. SameProvider
    BY <1>3 DEF SameProvider
  <2> QED BY <1>1, <1>3, <2>1, ErrorLeads
<1> QED BY <1>2, <1>3 DEF Check

\* An exchange, as Led tells it.
LEMMA ExchangeFields ==
  ASSUME provider \in Gateways, NEW pair, Exchanges(pair)
  PROVE  /\ pair \notin provider.spent /\ provider.issued < MaxPair
         /\ provider'.spent = provider.spent \cup {pair}
         /\ provider'.issued = provider.issued + 1
         /\ NextPair = provider.issued + 1
BY DEF Exchanges, CanExchange, Gateways, NextPair

\* A failed exchange leaves the pair, spent or not.
LEMMA FailedLeads ==
  ASSUME Readied, att.stage = "refresh", NEW e, att' = Raised(att, e),
         Exchanges(att.cand.g)
  PROVE  Led
<1>1. EndedAs(att', att, att.cand, "error", ErrorClass(e)) /\ att.stage \in Waits
  BY EndedFields DEF Readied, Proper, Waits
<1>2. Exchanged
  BY ExchangeFields DEF Readied, Exchanged
<1>3. PairStays
  BY <1>1, <1>2 DEF PairStays, SamePair, EndedAs
<1>4. Turned(att') => RefusedNow
  BY <1>1 DEF Turned, EndedAs, RefusedNow
<1> QED BY <1>1, <1>3, <1>4 DEF Led, EndedAs

LEMMA RefreshLeads ==
  ASSUME Readied, NEW e \in Results, Refresh(e)
  PROVE  Led
<1>1. /\ att \in Attempts /\ att.stage = "refresh" /\ att.stage \in Waits
      /\ att.cand.g \in Pairs /\ Proper(att)
  BY DEF Refresh, Waits, Readied, Proper, Attempts, ChinaAuthState
<1>2. CASE att' = Refreshed(ParseGApp(att.cand, NextPair)) /\ Exchanges(att.cand.g)
  <2>1. Exchanged /\ NextPair = provider.issued + 1
    BY <1>2, ExchangeFields DEF Readied, Exchanged
  <2>2. NextPair \in Pairs
    BY <1>1, <1>2, GatewaysTyped DEF Readied
  <2>3. /\ att'.stage \in { "platforms", "publish" } /\ att'.allow = att.allow
        /\ att'.caller = att.caller /\ att'.cand.g = NextPair /\ att'.cand.asked = "never"
        /\ att'.cand.down = 0 /\ (att'.stage = "publish" <=> att.caller = "renew")
    BY <1>1, <1>2, <2>2, RefreshedFields
  <2>4. PairArrives
    BY <1>1, <2>1, <2>3 DEF PairArrives
  <2> QED BY <1>1, <2>3, <2>4 DEF Led, Turned
<1>3. CASE /\ att.cand.g \notin provider.spent
           /\ att' = Refreshed(ParseGApp(att.cand, att.cand.g))
           /\ provider' = [ provider EXCEPT !.dead = @ \ {att.cand.g} ]
  <2>1. SameProvider
    BY <1>3 DEF SameProvider, Readied, Gateways
  <2>2. /\ att'.stage \in { "platforms", "publish" } /\ att'.allow = att.allow
        /\ att'.caller = att.caller /\ att'.cand.g = att.cand.g /\ att'.cand.asked = "never"
        /\ att'.cand.down = 0 /\ (att'.stage = "publish" <=> att.caller = "renew")
    BY <1>1, <1>3, RefreshedFields
  <2>3. PairUnnamed
    BY <1>1, <2>1, <2>2 DEF PairUnnamed
  <2> QED BY <1>1, <2>2, <2>3 DEF Led, Turned
<1>4. CASE att' = Sms(att, NoState) /\ att.allow /\ UNCHANGED provider
  <2>1. SameProvider
    BY <1>4 DEF SameProvider
  <2> QED BY <1>1, <1>4, <2>1, SmsLeads DEF Asking
<1>5. CASE att' = AfterRisk(att) /\ UNCHANGED provider
  <2>1. SameProvider
    BY <1>5 DEF SameProvider
  <2> QED BY <1>1, <1>5, <2>1, ErrorLeads
<1>6. CASE att' = Raised(att, e) /\ UNCHANGED provider
  <2>1. SameProvider
    BY <1>6 DEF SameProvider
  <2> QED BY <1>1, <1>6, <2>1, ErrorLeads
<1>7. CASE att' = Raised(att, e) /\ Exchanges(att.cand.g)
  BY <1>1, <1>7, FailedLeads
<1> QED BY <1>2, <1>3, <1>4, <1>5, <1>6, <1>7 DEF Refresh

LEMMA PlatformLeads ==
  ASSUME Readied, NEW e \in Results, NEW x \in Services, Platform(x, e)
  PROVE  Led
<1>1. /\ att \in Attempts /\ att.stage = "platforms" /\ att.stage \in Waits /\ HasGApp(att.cand)
      /\ SameProvider
  BY DEF Platform, Waits, Readied, Proper, StageOf, SameProvider
<1>2. CASE att' = [ att EXCEPT !.stage = "discovery", !.cand = ApplyPlatforms(@),
                               !.got = {}, !.tries = NoAttempt.tries ]
  <2> DEFINE s == ApplyPlatforms(att.cand)
  <2>1. s.g = att.cand.g /\ s.asked = att.cand.asked
    BY <1>1 DEF ApplyPlatforms, Attempts, ChinaAuthState
  <2>2. att' = [ att EXCEPT !.stage = "discovery", !.cand = s, !.got = {}, !.tries = NoAttempt.tries ]
    BY <1>1, <1>2 DEF Attempts
  <2> HIDE DEF s
  <2>3. att'.stage = "discovery" /\ att'.cand = s /\ att'.allow = att.allow /\ att'.caller = att.caller
    BY <1>1, <2>2 DEF Attempts
  <2>4. PairStays
    BY <1>1, <2>1, <2>3 DEF PairStays, SamePair
  <2> QED BY <1>1, <2>3, <2>4 DEF Led, Turned
<1>3. ASSUME NEW g, NEW t, att' = [ att EXCEPT !.got = g, !.tries = t ]
      PROVE  Led
  <2>1. /\ att'.stage = "platforms" /\ att'.cand = att.cand /\ att'.allow = att.allow
        /\ att'.caller = att.caller
    BY <1>1, <1>3 DEF Attempts
  <2>2. PairStays
    BY <1>1, <2>1 DEF PairStays, SamePair
  <2> QED BY <1>1, <2>1, <2>2 DEF Led, Turned
<1>4. CASE att' = [ att EXCEPT !.got = @ \cup {x}, !.tries[x] = 0 ]
  <2>1. att' = [ att EXCEPT !.got = att.got \cup {x}, !.tries = [ att.tries EXCEPT ![x] = 0 ] ]
    BY <1>1, <1>4 DEF Attempts
  <2> QED BY <1>3, <2>1
<1>5. CASE att' = [ att EXCEPT !.tries[x] = @ + 1 ]
  <2>1. att' = [ att EXCEPT !.got = att.got, !.tries = [ att.tries EXCEPT ![x] = @ + 1 ] ]
    BY <1>1, <1>5 DEF Attempts
  <2> QED BY <1>3, <2>1
<1>6. CASE \E also : att' = CASE Worse(e, also) = "Risk" -> AfterRisk(att)
                             [] Worse(e, also) = "Authentication" -> Raised(att, "Authentication")
                             [] OTHER -> AfterFailure(att, e)
  <2>1. PICK also : att' = CASE Worse(e, also) = "Risk" -> AfterRisk(att)
                             [] Worse(e, also) = "Authentication" -> Raised(att, "Authentication")
                             [] OTHER -> AfterFailure(att, e)
    BY <1>6
  <2>2. att' \in { AfterRisk(att), Raised(att, "Authentication"), AfterFailure(att, e) }
    BY <2>1
  <2> QED BY <1>1, <2>2, ErrorLeads
<1> QED BY <1>2, <1>4, <1>5, <1>6 DEF Platform

LEMMA DiscoveryLeads ==
  ASSUME Readied, NEW e \in Results, Discovery(e)
  PROVE  Led
<1>1. /\ att \in Attempts /\ att.stage \in Waits /\ HasGApp(att.cand) /\ SameProvider
  BY DEF Discovery, Waits, Readied, Proper, StageOf, SameProvider, Complete
<1>2. att' \in { Authenticated(att), AfterRisk(att), Raised(att, e), AfterFailure(att, e) }
  BY DEF Discovery
<1> QED BY <1>1, <1>2, ErrorLeads

LEMMA SmsRequestLeads ==
  ASSUME Readied, NEW e \in Results, SmsRequest(e)
  PROVE  Led
<1>1. att \in Attempts /\ att.stage = "smsRequest" /\ att.stage \in Waits /\ SameProvider
  BY DEF SmsRequest, Waits, Readied, Proper, SameProvider
<1>2. CASE att' = CodeNeeded(att, att.cand, FALSE)
  <2>1. EndedAs(att', att, att.cand, "verification", "none")
    BY <1>1, <1>2, EndedFields
  <2> QED BY <1>1, <2>1, EndLeads DEF Turned
<1>3. CASE att' \in { RiskControlRequired(att), Raised(att, e) }
  BY <1>1, <1>3, ErrorLeads
<1> QED BY <1>2, <1>3 DEF SmsRequest

LEMMA SmsLoginLeads ==
  ASSUME Readied, NEW e \in Results, SmsLogin(e)
  PROVE  Led
<1>1. att \in Attempts /\ att.stage = "smsLogin" /\ att.stage \in Waits /\ att.cand \in ChinaAuthState
  BY DEF SmsLogin, Waits, Readied, Proper, Attempts
<1>2. CASE /\ provider.issued < MaxPair
           /\ att' = Platforms(att, ParseGApp(NoState, NextPair))
           /\ provider' = [ provider EXCEPT !.issued = @ + 1 ]
  <2> DEFINE s == ParseGApp(NoState, NextPair)
  <2>1. NextPair \in Pairs /\ NextPair = provider.issued + 1
    <3>1. att.cand.g \in Pairs /\ provider \in Gateways
      BY <1>1 DEF ChinaAuthState, Readied
    <3>2. NextPair \in Pairs
      BY <1>2, <3>1, GatewaysTyped
    <3> QED BY <3>2 DEF NextPair
  <2>2. Whole(NoState) /\ NoState \in ChinaAuthState /\ Whole(s) /\ s \in ChinaAuthState
    BY <2>1, StatesWhole DEF Whole
  <2>3. s.g = NextPair /\ s.asked = "never"
    BY <1>1, <2>1, <2>2, PairFields
  <2> HIDE DEF s
  <2>4. /\ att'.stage = "platforms" /\ att'.allow = att.allow /\ att'.caller = att.caller
        /\ att'.cand.g = NextPair /\ att'.cand.asked = "never" /\ att'.cand.down = 0
    BY <1>1, <1>2, <2>2, <2>3, PairFields DEF s
  <2>5. provider'.spent = provider.spent /\ provider'.issued = provider.issued + 1
    BY <1>2 DEF Readied, Gateways
  <2>6. PairArrives
    BY <1>1, <2>1, <2>4, <2>5 DEF PairArrives
  <2> QED BY <1>1, <2>4, <2>6 DEF Led, Turned
<1>3. CASE /\ att' = CodeNeeded(att, [ att.cand EXCEPT !.asked = "never" ], TRUE)
           /\ UNCHANGED provider
  <2> DEFINE s == [ att.cand EXCEPT !.asked = "never" ]
  <2>1. s.g = att.cand.g /\ s.asked = "never"
    BY <1>1 DEF ChinaAuthState
  <2>2. EndedAs(att', att, s, "verification", "none")
    BY <1>1, <1>3, EndedFields
  <2> HIDE DEF s
  <2>3. CodeRejected
    BY <1>1, <1>3, <2>1, <2>2 DEF CodeRejected, EndedAs, SameProvider
  <2>4. Turned(att)
    BY <1>1 DEF Turned
  <2> QED BY <1>1, <2>2, <2>3, <2>4 DEF Led, EndedAs
<1>4. CASE att' \in { RiskControlRequired(att), Raised(att, e) } /\ UNCHANGED provider
  <2>1. SameProvider
    BY <1>4 DEF SameProvider
  <2> QED BY <1>1, <1>4, <2>1, ErrorLeads
<1> QED BY <1>2, <1>3, <1>4 DEF SmsLogin

\* Every answer leaves what Led describes.
LEMMA AnswerLeads ==
  ASSUME Readied, AttemptStep
  PROVE  Led
<1>1. CASE Overdue
  <2>1. CASE UNCHANGED provider
    <3>1. SameProvider
      BY <2>1 DEF SameProvider
    <3> QED BY <1>1, <3>1, ErrorLeads DEF Overdue, Readied, Proper
  <2>2. CASE att.stage = "refresh" /\ Exchanges(att.cand.g)
    BY <1>1, <2>2, FailedLeads DEF Overdue
  <2> QED BY <1>1, <2>1, <2>2 DEF Overdue
<1> QED
  BY <1>1, CheckLeads, RefreshLeads, PlatformLeads, DiscoveryLeads, SmsRequestLeads, SmsLoginLeads
  DEF AttemptStep

\* How an attempt begins.
LEMMA BeginFields ==
  ASSUME NEW caller \in {"flow", "setup"}, NEW s, Whole(s), NEW code \in BOOLEAN,
         Begin(caller, s, code)
  PROVE  /\ ~ running /\ att.stage = "idle" /\ att'.caller = caller
         /\ att'.allow => caller = "flow"
         /\ att'.cand.g = s.g
         /\ \/ att'.stage = "check" /\ att'.cand = s /\ Complete(s)
            \/ att'.stage = "platforms" /\ att'.cand.asked = s.asked /\ HasGApp(s)
            \/ s.g = 0 /\ att'.stage = "smsLogin" /\ att'.cand = s /\ caller = "flow"
            \/ s.g = 0 /\ att'.stage = "smsRequest" /\ att'.cand.asked = "recent" /\ caller = "flow"
               /\ ~ code /\ s.asked # "recent"
            \/ s.g = 0 /\ att'.stage = "ended" /\ att'.cand = s
               /\ att'.outcome.kind \in { "verification", "error" }
<1> DEFINE allowed == caller = "flow"
           a == [ NoAttempt EXCEPT !.caller = caller, !.cand = s, !.code = code, !.allow = allowed ]
<1>1. allowed \in BOOLEAN /\ (allowed => caller = "flow")
  OBVIOUS
<1>2. NoAttempt \in Attempts /\ NoAttempt.stage = "idle" /\ caller \in Callers
  BY ChinaBounds, StatesWhole DEF NoAttempt, Attempts, Callers, Outcomes, NoOutcome, Whole
<1>3. att' = Start(a) /\ ~ running /\ att.stage = "idle"
  BY DEF Begin
<1>4. s \in ChinaAuthState
  BY DEF Whole
<1> HIDE DEF allowed
<1>5. a \in Attempts /\ a.cand = s /\ a.caller = caller /\ a.allow = allowed /\ a.code = code
  BY <1>1, <1>2, <1>4 DEF Attempts
<1> HIDE DEF a
<1>6. CASE Complete(s)
  <2>1. att' = [ a EXCEPT !.stage = "check" ]
    BY <1>3, <1>5, <1>6 DEF Start
  <2>2. att'.stage = "check" /\ att'.cand = s /\ att'.caller = caller /\ att'.allow = allowed
    BY <1>5, <2>1 DEF Attempts
  <2> QED BY <1>1, <1>3, <1>6, <2>2
<1>7. CASE ~ Complete(s) /\ HasGApp(s)
  <2>1. att' = Platforms(a, s)
    BY <1>3, <1>5, <1>7 DEF Start
  <2> QED BY <1>1, <1>3, <1>4, <1>5, <1>7, <2>1, PairFields
<1>8. CASE ~ HasGApp(s) /\ ~ allowed
  <2>1. att' = Raised(a, "Authentication")
    BY <1>3, <1>5, <1>8 DEF Start, Complete
  <2>2. EndedAs(att', a, s, "error", ErrorClass("Authentication"))
    BY <1>5, <2>1, EndedFields
  <2> QED BY <1>1, <1>3, <1>5, <1>8, <2>2 DEF EndedAs, HasGApp
<1>9. CASE ~ HasGApp(s) /\ allowed
  <2>1. att' = Sms(a, s)
    BY <1>3, <1>5, <1>9 DEF Start, Complete
  <2>2. CASE code
    <3>1. att' = [ a EXCEPT !.stage = "smsLogin", !.cand = s ]
      BY <1>5, <2>1, <2>2 DEF Sms
    <3>2. att'.stage = "smsLogin" /\ att'.cand = s /\ att'.caller = caller /\ att'.allow = allowed
      BY <1>5, <3>1 DEF Attempts
    <3> QED BY <1>1, <1>3, <1>9, <3>2 DEF HasGApp
  <2>3. CASE ~ code /\ Throttled(s)
    <3>1. att' = CodeNeeded(a, s, FALSE)
      BY <1>5, <2>1, <2>3 DEF Sms
    <3>2. EndedAs(att', a, s, "verification", "none")
      BY <1>5, <3>1, EndedFields
    <3> QED BY <1>1, <1>3, <1>5, <1>9, <3>2 DEF EndedAs, HasGApp
  <2>4. CASE ~ code /\ ~ Throttled(s)
    <3> DEFINE r == [ s EXCEPT !.asked = "recent" ]
    <3>1. att' = [ a EXCEPT !.stage = "smsRequest", !.cand = r ]
      BY <1>5, <2>1, <2>4 DEF Sms
    <3>2. r.g = s.g /\ r.asked = "recent"
      BY <1>4 DEF ChinaAuthState
    <3> HIDE DEF r
    <3>3. att'.stage = "smsRequest" /\ att'.cand = r /\ att'.caller = caller /\ att'.allow = allowed
      BY <1>5, <3>1 DEF Attempts
    <3> QED BY <1>1, <1>3, <1>9, <2>4, <3>2, <3>3 DEF HasGApp, Throttled
  <2> QED BY <2>2, <2>3, <2>4
<1> QED BY <1>6, <1>7, <1>8, <1>9

---------------------------------------------------------------------------
(* What steps have in common.                                              *)

\* Codes, refusals and losses as Asks leaves them.
LEMMA AsksFields ==
  ASSUME NEW h \in Histories
  PROVE  /\ Asks(h).asked = (h.asked \/ Asking) /\ Asks(h).excused = (h.excused /\ ~ Asking)
         /\ Asks(h).lost = h.lost /\ Asks(h).refused = h.refused /\ Asks(h).told = h.told
<1> DEFINE a == h.asked \/ Asking
           e == h.excused /\ ~ Asking
<1>1. Asks(h) = [ h EXCEPT !.asked = a, !.excused = e ]
  BY DEF Asks
<1> HIDE DEF a, e
<1>2. /\ Asks(h).asked = a /\ Asks(h).excused = e
      /\ Asks(h).lost = h.lost /\ Asks(h).refused = h.refused /\ Asks(h).told = h.told
  BY <1>1 DEF Histories
<1> QED BY <1>2 DEF a, e

\* Numbers of pairs.
LEMMA PairNumbers ==
  ASSUME IInv, HInv
  PROVE  /\ provider.issued \in Nat /\ NoState.g = 0 /\ NoState.down = 0
         /\ NoState.asked = "never" /\ 0 \notin provider.spent
         /\ store.g \in Nat /\ att.cand.g \in Nat /\ Current.g \in Nat
         /\ ~ HasGApp(NoState) /\ ~ Complete(NoState)
<1>1. Pairs \subseteq Nat
  BY ChinaBounds DEF Pairs
<1>2. provider.issued \in Nat /\ store.g \in Nat /\ att.cand.g \in Nat /\ Current.g \in Nat
  BY <1>1, PairsKept DEF IInv, Gateways
<1>3. 0 \notin provider.spent
  BY <1>2 DEF HInv, SpentInv
<1> QED BY <1>2, <1>3 DEF NoState, HasGApp, Complete

\* An entry that stopped has nothing in line, at work or observed.
LEMMA QuietLine ==
  ASSUME Quiet', ~ running', att'.caller # "renew"
  PROVE  InLine' /\ Working' /\ Observed'
<1>1. /\ queue' = << >> /\ renewal' = Nobody /\ session' = NoState /\ Current' = NoState
      /\ \A p \in Procs : ops'[p].at = "idle"
  BY DEF Quiet, Current
<1>2. NoState.g = 0 /\ ~ Complete(NoState)
  BY DEF NoState, Complete, HasGApp
<1>3. InLine'
  <2>1. queue' \in Queues
    BY <1>1 DEF Queues
  <2>2. \A p \in Procs : ~ Listed(p)'
    BY <1>1 DEF Listed
  <2>3. "poll" \in Procs /\ "command" \in Procs /\ \A p \in Procs : p # Nobody
    BY DEF Procs, Nobody
  <2> QED BY <1>1, <2>1, <2>2, <2>3 DEF InLine, Waiting
<1>4. Working'
  BY <1>1, <1>2 DEF Working
<1>5. Observed'
  BY <1>1 DEF Observed
<1> QED BY <1>3, <1>4, <1>5

\* What is stored, held and observed by a stopped entry is nothing.
LEMMA QuietStates ==
  ASSUME Quiet', ~ running', Unasked(store'), Unasked(att'.cand), provider'.issued \in Nat,
         store'.g <= provider'.issued, att'.cand.g <= provider'.issued,
         flow'.state.g <= provider'.issued,
         \A g \in provider'.spent : g \in 1 .. provider'.issued,
         Unspent(att.cand.g)', Unspent(store.g)' \/ Rotated'
  PROVE  Answering' /\ SpentInv'
<1>1. /\ boot' = NoState /\ partial' = NoState /\ pending' = NoState
      /\ \A p \in Procs : ops'[p].at = "idle" /\ ops'[p].seen = NoState
  BY DEF Quiet
<1>2. NoState.g = 0 /\ Unasked(NoState)
  BY DEF NoState, Unasked
<1>3. Answering'
  BY <1>1, <1>2 DEF Answering
<1>4. SpentInv'
  BY <1>1, <1>2 DEF SpentInv
<1> QED BY <1>3, <1>4

\* A flow begins with what it stores.
LEMMA FlowBegins ==
  ASSUME IInv, HInv, NEW s, Whole(s), NEW code \in BOOLEAN, NEW h \in Histories,
         Begin("flow", s, code), UNCHANGED << provider, running, runtime >>,
         store' = s, flow'.state = s, Unasked(s), Unspent(s.g), s.g <= provider.issued,
         history' = Asks(h), h.lost = history.lost,
         h.asked => h.excused \/ s.asked = "recent"
  PROVE  HInv'
<1>0. /\ ~ running /\ att.stage = "idle" /\ att'.caller = "flow"
      /\ att'.cand.g = s.g
      /\ \/ att'.stage = "check" /\ att'.cand = s /\ Complete(s)
         \/ att'.stage = "platforms" /\ att'.cand.asked = s.asked /\ HasGApp(s)
         \/ s.g = 0 /\ att'.stage = "smsLogin" /\ att'.cand = s
         \/ s.g = 0 /\ att'.stage = "smsRequest" /\ att'.cand.asked = "recent"
         \/ s.g = 0 /\ att'.stage = "ended" /\ att'.cand = s
            /\ att'.outcome.kind \in { "verification", "error" }
  BY BeginFields
<1>1. s \in ChinaAuthState /\ Quiet /\ Quiet' /\ ~ running'
  BY <1>0 DEF Whole, IInv, Apart, Quiet, runtime
<1>2. InLine' /\ Working' /\ Observed'
  BY <1>0, <1>1, QuietLine
<1>3. FlowStored'
  BY <1>0, <1>1 DEF FlowStored
<1>4. Placed(att') /\ Unasked(att'.cand)
  BY <1>0 DEF Placed, Unasked, HasGApp
<1>5. Beside'
  BY <1>0 DEF Beside
<1>6. Refusals'
  BY <1>0, <1>1 DEF Refusals, Turned, Excluded
<1>7. history'.lost = history.lost
  BY AsksFields
<1>8. Answering' /\ SpentInv'
  <2>1. Unspent(att.cand.g)' /\ Unspent(store.g)'
    BY <1>0, <1>7 DEF Unspent
  <2>2. provider'.issued \in Nat /\ \A g \in provider'.spent : g \in 1 .. provider'.issued
    BY PairNumbers DEF HInv, SpentInv
  <2> QED BY <1>0, <1>1, <1>4, <2>1, <2>2, QuietStates
<1>9. AskedInv'
  <2>1. CASE Asking
    BY <1>0, <1>1, <2>1 DEF AskedInv, Asking
  <2>2. CASE ~ Asking
    <3>1. history'.asked = h.asked /\ history'.excused = h.excused
      BY <2>2, AsksFields DEF Histories
    <3>2. att'.stage # "smsRequest"
      BY <1>0, <2>2 DEF Asking
    <3>3. att'.cand.asked = s.asked
      BY <1>0, <3>2
    <3> QED BY <1>0, <1>1, <3>1, <3>3 DEF AskedInv
  <2> QED BY <2>1, <2>2
<1> QED BY <1>2, <1>3, <1>4, <1>5, <1>6, <1>8, <1>9 DEF HInv, RefusedInv

---------------------------------------------------------------------------
(* Flows and setup.                                                        *)

\* What a step that begins finds.
LEMMA IdleFinds ==
  ASSUME IInv, HInv, ~ running, att.stage = "idle"
  PROVE  /\ Remembered /\ Unspent(store.g) /\ Unasked(store) /\ store.g <= provider.issued
         /\ Whole(store) /\ Whole(NoState) /\ history \in Histories /\ att.caller = "nobody"
<1>1. att.caller = "nobody"
  BY DEF HInv, RefusedInv, Placed
<1>2. Unspent(store.g)
  BY <1>1 DEF HInv, SpentInv, Rotated
<1> QED
  BY <1>1, <1>2, StatesWhole
  DEF HInv, RefusedInv, AskedInv, Answering, SpentInv, IInv, Memory

LEMMA SubmitAccountLeads ==
  ASSUME IInv, HInv, SubmitAccount
  PROVE  HInv'
<1>1. PICK s \in { store, NoState } :
        /\ Begin("flow", s, FALSE)
        /\ store' = s
        /\ flow' = [ step |-> "account", state |-> s ]
        /\ history' = Asks(IF s = store THEN history
                           ELSE [ history EXCEPT !.asked = FALSE, !.refused = @ \cup {store.g} ])
  BY DEF SubmitAccount
<1>2. ~ running /\ att.stage = "idle"
  BY <1>1 DEF Begin
<1>3. /\ Remembered /\ Unspent(store.g) /\ Unasked(store) /\ store.g <= provider.issued
      /\ Whole(store) /\ Whole(NoState) /\ history \in Histories
  BY <1>2, IdleFinds
<1> DEFINE R == history.refused \cup {store.g}
           h == IF s = store THEN history ELSE [ history EXCEPT !.asked = FALSE, !.refused = R ]
<1>4. history' = Asks(h)
  BY <1>1, <1>3 DEF Histories
<1>5. R \in SUBSET Pairs /\ FALSE \in BOOLEAN
  BY PairsKept
<1> HIDE DEF R
<1>6. h \in Histories /\ h.lost = history.lost /\ (h.asked => h.excused \/ s.asked = "recent")
  <2>1. CASE s = store
    BY <1>3, <2>1 DEF Remembered
  <2>2. CASE s # store
    <3>1. h = [ history EXCEPT !.asked = FALSE, !.refused = R ]
      BY <2>2
    <3>2. h \in Histories
      BY <1>3, <1>5, <3>1, HistoryTyped
    <3> HIDE DEF h
    <3>3. h.lost = history.lost /\ h.asked = FALSE
      BY <1>3, <3>1 DEF Histories
    <3> QED BY <3>2, <3>3
  <2> QED BY <2>1, <2>2
<1> HIDE DEF h
<1>7. Unspent(s.g) /\ Unasked(s) /\ s.g <= provider.issued /\ Whole(s)
  BY <1>3, PairNumbers DEF Unspent, Unasked
<1>8. flow'.state = s /\ UNCHANGED << provider, running, runtime >>
  BY <1>1 DEF SubmitAccount
<1> QED BY <1>1, <1>4, <1>6, <1>7, <1>8, FlowBegins

\* A flow that goes on does so with what it stored.
LEMMA SubmitAgainLeads ==
  ASSUME IInv, HInv, SubmitCode \/ RetryInitialization
  PROVE  HInv'
<1>1. PICK code \in BOOLEAN : Begin("flow", flow.state, code)
  BY DEF SubmitCode, RetryInitialization
<1>2. /\ flow.step # "none" /\ UNCHANGED << provider, store, flow, running, runtime >>
      /\ history' = Asks(history)
  BY DEF SubmitCode, RetryInitialization
<1>3. flow.state = store
  BY <1>2 DEF HInv, RefusedInv, FlowStored
<1>4. ~ running /\ att.stage = "idle"
  BY <1>1 DEF Begin
<1>5. /\ Remembered /\ Unspent(store.g) /\ Unasked(store) /\ store.g <= provider.issued
      /\ Whole(store) /\ history \in Histories
  BY <1>4, IdleFinds
<1> QED BY <1>1, <1>2, <1>3, <1>5, FlowBegins DEF Remembered

LEMMA SetupLeads ==
  ASSUME IInv, HInv, Setup
  PROVE  HInv'
<1>1. /\ Begin("setup", store, FALSE) /\ flow = NoFlow
      /\ UNCHANGED << provider, store, flow, running, runtime, history >>
  BY DEF Setup
<1>2. ~ running /\ att.stage = "idle"
  BY <1>1 DEF Begin
<1>3. /\ Remembered /\ Unspent(store.g) /\ Unasked(store) /\ store.g <= provider.issued
      /\ Whole(store) /\ history \in Histories /\ NoFlow.step = "none"
  BY <1>2, IdleFinds DEF NoFlow
<1>4. /\ att'.caller = "setup" /\ ~ att'.allow
      /\ att'.cand.g = store.g
      /\ \/ att'.stage = "check" /\ att'.cand = store /\ Complete(store)
         \/ att'.stage = "platforms" /\ att'.cand.asked = store.asked /\ HasGApp(store)
         \/ store.g = 0 /\ att'.stage = "ended" /\ att'.cand = store
            /\ att'.outcome.kind \in { "verification", "error" }
  <2>1. FALSE \in BOOLEAN /\ "setup" \in { "flow", "setup" } /\ "setup" # "flow"
    OBVIOUS
  <2> QED BY <1>1, <1>3, <2>1, BeginFields
<1>5. Quiet /\ Quiet' /\ ~ running'
  BY <1>1, <1>2 DEF IInv, Apart, Quiet, runtime
<1>6. InLine' /\ Working' /\ Observed'
  BY <1>4, <1>5, QuietLine
<1>7. FlowStored' /\ Beside'
  BY <1>1, <1>3, <1>4 DEF FlowStored, Beside
<1>8. Placed(att') /\ Unasked(att'.cand)
  BY <1>3, <1>4 DEF Placed, Unasked, HasGApp
<1>9. Refusals'
  BY <1>1, <1>4, <1>5 DEF Refusals, Turned, Excluded
<1>10. Answering' /\ SpentInv'
  <2>1. Unspent(att.cand.g)' /\ Unspent(store.g)'
    BY <1>1, <1>3, <1>4 DEF Unspent
  <2>2. /\ provider'.issued \in Nat /\ \A g \in provider'.spent : g \in 1 .. provider'.issued
        /\ flow'.state.g <= provider'.issued
    BY <1>1, PairNumbers DEF HInv, SpentInv
  <2> QED BY <1>1, <1>3, <1>4, <1>5, <1>8, <2>1, <2>2, QuietStates
<1>11. AskedInv'
  BY <1>1, <1>3, <1>4, <1>5 DEF AskedInv, Remembered
<1> QED BY <1>6, <1>7, <1>8, <1>9, <1>10, <1>11 DEF HInv, RefusedInv

\* No attempt is under way.
LEMMA NobodyPlaced ==
  /\ Placed(NoAttempt) /\ Unasked(NoAttempt.cand) /\ NoAttempt.caller = "nobody"
  /\ NoAttempt.stage = "idle" /\ NoAttempt.cand = NoState /\ NoAttempt.cand.g = 0
  /\ NoState.g = 0
BY DEF Placed, Unasked, NoAttempt, NoState, HasGApp

\* A flow that ends or goes on, with what is stored then.
LEMMA StoppedLeads ==
  ASSUME IInv, HInv, ~ running, UNCHANGED << provider, running, runtime >>, att' = NoAttempt,
         Unasked(store'), Unspent(store.g)', store'.g <= provider.issued,
         flow'.step # "none" => flow'.state = store', flow'.state.g <= provider.issued,
         Remembered'
  PROVE  HInv'
<1>1. Quiet' /\ ~ running'
  BY DEF IInv, Apart, Quiet, runtime
<1>2. /\ Placed(att') /\ Unasked(att'.cand) /\ att'.caller = "nobody" /\ att'.stage = "idle"
      /\ att'.cand.g = 0
  BY NobodyPlaced
<1>3. InLine' /\ Working' /\ Observed'
  BY <1>1, <1>2, QuietLine
<1>4. FlowStored' /\ Beside' /\ Refusals'
  BY <1>1, <1>2 DEF FlowStored, Beside, Refusals
<1>5. Answering' /\ SpentInv'
  <2>1. /\ provider'.issued \in Nat /\ 0 \notin provider'.spent /\ 0 <= provider'.issued
        /\ \A g \in provider'.spent : g \in 1 .. provider'.issued
    BY PairNumbers DEF HInv, SpentInv
  <2>2. Unspent(att.cand.g)'
    BY <1>2, <2>1 DEF Unspent
  <2> QED BY <1>1, <1>2, <2>1, <2>2, QuietStates
<1>6. AskedInv'
  BY <1>1, <1>2 DEF AskedInv
<1> QED BY <1>2, <1>3, <1>4, <1>5, <1>6 DEF HInv, RefusedInv

LEMMA AbandonLeads ==
  ASSUME IInv, HInv, AbandonFlow
  PROVE  HInv'
<1>1. /\ UNCHANGED << att, provider, store, running, history >> /\ UNCHANGED runtime
      /\ flow' = NoFlow /\ NoFlow.step = "none" /\ NoFlow.state.g = 0
  BY DEF AbandonFlow, NoFlow, NoState
<1>2. InLine' /\ Working' /\ Observed' /\ Refusals' /\ Answering' /\ Placed(att') /\ Beside'
  BY <1>1
  DEF HInv, RefusedInv, InLine, Working, Observed, Refusals, Answering, Beside, runtime,
      Listed, HasClient, Current, Excluded, Kind
<1>3. FlowStored'
  BY <1>1 DEF FlowStored
<1>4. SpentInv'
  BY <1>1, PairNumbers DEF HInv, SpentInv, runtime, Unspent, Rotated, Current
<1>5. AskedInv'
  BY <1>1 DEF HInv, AskedInv, Remembered
<1> QED BY <1>2, <1>3, <1>4, <1>5 DEF HInv, RefusedInv

\* What an attempt that ends finds.
LEMMA OverFinds ==
  ASSUME IInv, HInv, NEW caller \in {"flow", "setup"}, Over(caller)
  PROVE  /\ ~ running /\ Quiet /\ Unspent(att.cand.g) /\ Unasked(att.cand) /\ att.cand.g <= provider.issued
         /\ Unspent(store.g) \/ att.cand.g \notin { 0, store.g }
         /\ Unasked(store) /\ store.g <= provider.issued
         /\ flow.step # "none" => flow.state = store
         /\ flow.state.g <= provider.issued /\ history \in Histories
         /\ 0 \notin provider.spent /\ provider.issued \in Nat /\ NoState.g = 0 /\ Unasked(NoState)
         /\ NoFlow.step = "none" /\ NoFlow.state = NoState
         /\ Whole(att.cand) /\ att.cand \in ChinaAuthState /\ Whole(store)
<1>1. att.caller = caller /\ ~ running /\ Quiet
  BY DEF Over, IInv, Apart
<1>2. Unspent(store.g) \/ att.cand.g \notin { 0, store.g }
  BY <1>1 DEF HInv, SpentInv, Rotated
<1>3. 0 \notin provider.spent /\ provider.issued \in Nat /\ NoState.g = 0 /\ Unasked(NoState)
  BY PairNumbers DEF Unasked
<1> QED
  BY <1>1, <1>2, <1>3
  DEF HInv, RefusedInv, SpentInv, Answering, FlowStored, NoFlow, IInv, Proper, Whole, Memory

LEMMA RouteResultLeads ==
  ASSUME IInv, HInv, RouteResult
  PROVE  HInv'
<1>1. Over("flow") /\ att' = NoAttempt /\ UNCHANGED << provider, running, runtime >>
  BY DEF RouteResult
<1>2. /\ ~ running /\ Quiet /\ Unspent(att.cand.g) /\ Unasked(att.cand) /\ att.cand.g <= provider.issued
      /\ Unspent(store.g) \/ att.cand.g \notin { 0, store.g }
      /\ Unasked(store) /\ store.g <= provider.issued
      /\ flow.step # "none" => flow.state = store
      /\ flow.state.g <= provider.issued /\ history \in Histories
      /\ 0 \notin provider.spent /\ provider.issued \in Nat /\ NoState.g = 0 /\ Unasked(NoState)
      /\ NoFlow.step = "none" /\ NoFlow.state = NoState
      /\ Whole(att.cand) /\ att.cand \in ChinaAuthState /\ Whole(store)
  BY <1>1, OverFinds
<1>3. history.asked /\ ~ history.excused =>
        att.cand.asked = "recent" \/ (att.cand.asked = "never" /\ store.asked = "recent")
  BY <1>1 DEF HInv, AskedInv, Over
<1> DEFINE L == history.lost \cup Successor(store)
           M == history.lost \cup Successor(store')
           e == history.excused \/ att.cand.asked = "never"
           f == history.excused \/ att.cand.asked = "recent"
\* What a step leaves that does not save.
<1>4. ASSUME UNCHANGED store, history'.lost = L \/ history'.lost = M,
             history'.asked = history.asked, history'.excused \/ ~ history.asked \/ store.asked = "recent",
             flow' \in { NoFlow, flow }
      PROVE  HInv'
  <2>1. Unspent(store.g)'
    BY <1>1, <1>2, <1>4 DEF Unspent, Successor
  <2>2. Remembered'
    BY <1>4 DEF Remembered
  <2> QED BY <1>1, <1>2, <1>4, <2>1, <2>2, StoppedLeads
\* What one leaves that does.
<1>5. ASSUME store' \in { att.cand, NoState }, history.lost \subseteq history'.lost,
             history'.asked = history.asked, history'.excused \/ ~ history.asked \/ store'.asked = "recent",
             \/ flow' = NoFlow
             \/ flow' = [ step |-> att.outcome.kind, state |-> att.cand ] /\ store' = att.cand
      PROVE  HInv'
  <2>1. Unspent(store.g)'
    BY <1>1, <1>2, <1>5 DEF Unspent
  <2>2. Remembered'
    BY <1>5 DEF Remembered
  <2>3. flow'.step # "none" => flow'.state = store'
    BY <1>2, <1>5
  <2>4. flow'.state.g <= provider.issued /\ store'.g <= provider.issued /\ Unasked(store')
    BY <1>2, <1>5
  <2> QED BY <1>1, <1>2, <2>1, <2>2, <2>3, <2>4, StoppedLeads
<1>6. CASE /\ Kind({"authenticated"})
           /\ Saved(att.cand) \/ Unsaved
           /\ flow' = NoFlow
           /\ history' = [ history EXCEPT !.lost = @ \cup Successor(store'), !.excused = TRUE ]
  <2>1. history'.lost = M /\ history'.excused /\ history'.asked = history.asked
    BY <1>2, <1>6 DEF Histories
  <2>2. history.lost \subseteq M
    OBVIOUS
  <2> HIDE DEF M
  <2> QED BY <1>4, <1>5, <1>6, <2>1, <2>2 DEF Saved, Unsaved
<1>7. CASE /\ Saved(att.cand)
           /\ flow' = [ step |-> att.outcome.kind, state |-> att.cand ]
           /\ history' = [ history EXCEPT !.excused = @ \/ att.cand.asked = "never" ]
  <2>1. history' = [ history EXCEPT !.excused = e ]
    BY <1>2, <1>7 DEF Histories
  <2> HIDE DEF e
  <2>2. history'.lost = history.lost /\ history'.excused = e /\ history'.asked = history.asked
    BY <1>2, <2>1 DEF Histories
  <2>3. history'.excused \/ ~ history.asked \/ att.cand.asked = "recent"
    BY <1>3, <2>2 DEF e
  <2> QED BY <1>5, <1>7, <2>2, <2>3 DEF Saved
<1>8. CASE /\ Unsaved
           /\ UNCHANGED flow
           /\ history' = [ history EXCEPT !.excused = TRUE, !.lost = @ \cup Successor(store) ]
  <2>1. history'.lost = L /\ history'.excused /\ history'.asked = history.asked
    BY <1>2, <1>8 DEF Histories
  <2> HIDE DEF L
  <2> QED BY <1>4, <1>8, <2>1 DEF Unsaved
<1>9. CASE /\ Saved(NoState) \/ Unsaved
           /\ flow' = NoFlow
           /\ history' = [ history EXCEPT !.excused = TRUE, !.lost = @ \cup Successor(store) ]
  <2>1. history'.lost = L /\ history'.excused /\ history'.asked = history.asked
    BY <1>2, <1>9 DEF Histories
  <2>2. history.lost \subseteq L
    OBVIOUS
  <2> HIDE DEF L
  <2> QED BY <1>4, <1>5, <1>9, <2>1, <2>2 DEF Saved, Unsaved
<1>10. CASE /\ Unsaved
            /\ UNCHANGED flow
            /\ history' = [ history EXCEPT !.excused = @ \/ att.cand.asked = "recent",
                                           !.lost = @ \cup Successor(store) ]
  <2>1. history' = [ history EXCEPT !.excused = f, !.lost = L ]
    BY <1>2, <1>10 DEF Histories
  <2> HIDE DEF L, f
  <2>2. history'.lost = L /\ history'.excused = f /\ history'.asked = history.asked
    BY <1>2, <2>1 DEF Histories
  <2>3. history'.excused \/ ~ history.asked \/ store.asked = "recent"
    BY <1>3, <2>2 DEF f
  <2> QED BY <1>4, <1>10, <2>2, <2>3 DEF Unsaved
<1> QED BY <1>6, <1>7, <1>8, <1>9, <1>10 DEF RouteResult

LEMMA SetupEndsLeads ==
  ASSUME IInv, HInv, SetupEnds
  PROVE  HInv'
<1>1. Over("setup") /\ att' = NoAttempt /\ UNCHANGED << provider, flow >>
  BY DEF SetupEnds
<1>2. /\ ~ running /\ Quiet /\ Unspent(att.cand.g) /\ Unasked(att.cand) /\ att.cand.g <= provider.issued
      /\ Unspent(store.g) \/ att.cand.g \notin { 0, store.g }
      /\ Unasked(store) /\ store.g <= provider.issued
      /\ flow.step # "none" => flow.state = store
      /\ flow.state.g <= provider.issued /\ history \in Histories
      /\ 0 \notin provider.spent /\ provider.issued \in Nat /\ NoState.g = 0 /\ Unasked(NoState)
      /\ Whole(att.cand) /\ att.cand \in ChinaAuthState /\ Whole(store)
  BY <1>1, OverFinds
<1>3. flow.step = "none" /\ Remembered
  BY <1>1, <1>2 DEF HInv, RefusedInv, FlowStored, AskedInv, Over
<1> DEFINE L == history.lost \cup Successor(store')
           e == history.excused \/ store' # store
<1>4. history'.lost = L /\ history'.excused = e /\ history'.asked = history.asked
  <2>1. history' = [ history EXCEPT !.lost = L, !.excused = e ]
    BY DEF SetupEnds
  <2> HIDE DEF L, e
  <2> QED BY <1>2, <2>1 DEF Histories
<1>5. history.lost \subseteq L
  OBVIOUS
<1>6. Unspent(store.g)' /\ Unasked(store') /\ store'.g <= provider.issued
  <2>1. store' \in { store, att.cand, NoState }
    BY DEF SetupEnds, Saved, Unsaved
  <2>2. CASE store' = store
    BY <1>1, <1>2, <1>4, <2>2 DEF Unspent, Successor
  <2>3. CASE store' # store
    <3> HIDE DEF L
    <3> QED BY <1>1, <1>2, <1>4, <1>5, <2>1, <2>3 DEF Unspent
  <2> QED BY <2>2, <2>3
<1>7. CASE UNCHANGED << running, runtime >>
  <2>1. Remembered'
    BY <1>3, <1>4 DEF Remembered
  <2> QED BY <1>1, <1>2, <1>3, <1>6, <1>7, <2>1, StoppedLeads
<1>8. CASE /\ Kind({"authenticated"}) /\ store' = att.cand /\ running' = TRUE
           /\ session' = att.cand /\ boot' = att.cand
           /\ UNCHANGED << partial, pending, ops, renewal, queue >>
  <2>1. Complete(att.cand) /\ HasGApp(att.cand)
    BY <1>1, <1>8 DEF Over, Kind, IInv, Proper, StageOf, Complete
  <2>2. /\ Current' = att.cand /\ att.cand # NoState /\ partial' = NoState /\ pending' = NoState
        /\ \A p \in Procs : ops'[p].at = "idle" /\ ops'[p].seen = NoState
        /\ queue' = << >> /\ renewal' = Nobody
    BY <1>2, <1>8, <2>1 DEF Quiet, Current, HasGApp
  <2>3. /\ Placed(att') /\ att'.caller = "nobody" /\ att'.stage = "idle" /\ att'.cand = NoState
    BY <1>1, NobodyPlaced
  <2>4. InLine'
    <3>1. \A p \in Procs : ~ Listed(p)'
      BY <2>2 DEF Listed
    <3>2. "poll" \in Procs /\ "command" \in Procs /\ \A p \in Procs : p # Nobody
      BY DEF Procs, Nobody
    <3> QED BY <2>2, <2>3, <3>1, <3>2 DEF InLine, Queues, Waiting
  <2>5. Working' /\ Observed' /\ Refusals' /\ Beside'
    BY <1>8, <2>2, <2>3 DEF Working, Observed, Refusals, Beside
  <2>6. FlowStored'
    BY <1>1, <1>3 DEF FlowStored
  <2>7. Answering'
    BY <1>2, <1>8, <2>2, <2>3 DEF Answering
  <2>8. SpentInv'
    <3>1. \A g \in provider'.spent : g \in 1 .. provider'.issued
      BY <1>1 DEF HInv, SpentInv
    <3>2. Unspent(Current.g)' /\ Unspent(att.cand.g)'
      <4> HIDE DEF L
      <4> QED BY <1>1, <1>2, <1>4, <1>5, <2>2, <2>3 DEF Unspent
    <3> QED BY <1>1, <1>2, <1>8, <2>2, <2>3, <3>1, <3>2 DEF SpentInv
  <2>9. AskedInv'
    <3>1. history.asked => history'.excused
      <4>1. CASE store' = store
        BY <1>2, <1>3, <1>4, <1>8, <2>1, <4>1 DEF Remembered, Unasked
      <4>2. CASE store' # store
        BY <1>4, <4>2
      <4> QED BY <4>1, <4>2
    <3> QED BY <1>4, <1>8, <2>3, <3>1 DEF AskedInv
  <2> QED BY <2>3, <2>4, <2>5, <2>6, <2>7, <2>8, <2>9 DEF HInv, RefusedInv
<1> QED BY <1>7, <1>8 DEF SetupEnds, Saved, Unsaved

---------------------------------------------------------------------------
(* The answers.                                                            *)

\* What was refused, lost or said only grows while nothing restarts.
Grows ==
  /\ history.refused \subseteq history'.refused /\ history.lost \subseteq history'.lost
  /\ history.told => history'.told

LEMMA ExcludedGrows ==
  ASSUME Grows, NEW g, Excluded(g)
  PROVE  g = 0 \/ g \in history'.refused \/ history'.told
BY DEF Grows, Excluded

\* What an answer adds to the history.
LEMMA AnsweredFields ==
  ASSUME IInv, Answered
  PROVE  /\ Grows /\ history'.told = history.told
         /\ history'.asked = (history.asked \/ Asking)
         /\ history'.excused = (history.excused /\ ~ Asking)
         /\ LostNow => att.cand.g \in history'.lost
         /\ RefusedNow => att.cand.g \in history'.refused /\ store.g \in history'.refused
<1> DEFINE L == history.lost \cup (IF LostNow THEN {att.cand.g} ELSE {})
           R == history.refused \cup (IF RefusedNow THEN {att.cand.g, store.g} ELSE {})
           h == [ history EXCEPT !.lost = L, !.refused = R ]
<1>1. L \in SUBSET Pairs /\ R \in SUBSET Pairs /\ history \in Histories
  BY PairsKept DEF IInv
<1>2. history' = Asks(h)
  BY <1>1 DEF Answered, Histories
<1>3. /\ history.lost \subseteq L /\ history.refused \subseteq R
      /\ LostNow => att.cand.g \in L
      /\ RefusedNow => att.cand.g \in R /\ store.g \in R
  OBVIOUS
<1> HIDE DEF L, R
<1>4. /\ h.lost = L /\ h.refused = R /\ h.asked = history.asked /\ h.excused = history.excused
      /\ h.told = history.told
  BY <1>1 DEF Histories
<1>5. h \in Histories
  BY <1>1, HistoryTyped
<1> HIDE DEF h
<1> QED BY <1>2, <1>3, <1>4, <1>5, AsksFields DEF Grows

\* What is known when an answer comes.
LEMMA AnsweredFinds ==
  ASSUME IInv, HInv, Answered
  PROVE  /\ Led /\ Proper(att) /\ att.caller # "nobody" /\ UNCHANGED << store, flow, running, runtime >>
         /\ att.stage = "refresh" => Complete(att.cand) /\ att.cand.g # 0 /\ att.cand.asked = "never"
         /\ att.stage = "smsLogin" => att.caller \in { "flow", "setup" }
         /\ att.allow => att.caller = "flow"
         /\ ~ running <=> att.caller \in { "flow", "setup" }
         /\ att.caller \in { "flow", "setup", "renew" }
<1>1. Readied /\ AttemptStep
  BY DEF Answered, HInv, RefusedInv, Answering, IInv, Readied
<1>2. Led
  BY <1>1, AnswerLeads
<1>3. att.caller # "nobody"
  BY <1>2 DEF Led, Waits, Readied, HInv, RefusedInv, Placed
<1>4. att.caller \in { "flow", "setup", "renew" }
  BY <1>3 DEF IInv, Proper, Attempts, Callers
<1>5. ~ running <=> att.caller \in { "flow", "setup" }
  BY <1>4 DEF IInv, Apart
<1>6. att.stage = "refresh" => Complete(att.cand) /\ att.cand.g # 0 /\ att.cand.asked = "never"
  BY DEF HInv, RefusedInv, Answering, Unasked, IInv, Proper, StageOf, Complete, HasGApp
<1> QED
  BY <1>2, <1>3, <1>4, <1>5, <1>6 DEF IInv, HInv, RefusedInv, Placed, Answered

LEMMA AnsweredRefused ==
  ASSUME IInv, HInv, Answered
  PROVE  RefusedInv'
<1>0. /\ Led /\ Proper(att) /\ att.caller # "nobody" /\ UNCHANGED << store, flow, running, runtime >>
      /\ att.stage = "refresh" => Complete(att.cand) /\ att.cand.g # 0 /\ att.cand.asked = "never"
      /\ att.stage = "smsLogin" => att.caller \in { "flow", "setup" }
      /\ att.allow => att.caller = "flow"
      /\ ~ running <=> att.caller \in { "flow", "setup" }
  BY AnsweredFinds
<1>1. Grows /\ (RefusedNow => store.g \in history'.refused)
  BY AnsweredFields
<1>2. RefusedInv /\ att'.caller = att.caller /\ att'.allow = att.allow /\ att.stage \in Waits
  BY <1>0 DEF HInv, Led
<1>3. InLine' /\ FlowStored'
  BY <1>0, <1>2
  DEF RefusedInv, InLine, FlowStored, runtime, Listed, HasClient, Current
<1>4. Unasked(att'.cand)
  BY <1>0, <1>2
  DEF Led, PairStays, SamePair, PairArrives, PairUnnamed, PairRefused, CodeRejected, Unasked, HasGApp,
      RefusedInv, Answering, NoState
<1>5. Answering'
  BY <1>0, <1>2, <1>4 DEF RefusedInv, Answering, runtime
<1>6. Placed(att')
  <2>1. att'.stage # "idle" /\ att'.stage # "check"
    BY <1>0 DEF Led, PairStays, PairArrives, PairUnnamed, PairRefused, CodeRejected
  <2>2. att'.stage \in { "smsRequest", "smsLogin" } =>
          att'.cand.g = 0 /\ att'.caller \in { "flow", "setup" }
    BY <1>0, <1>2
    DEF Led, PairStays, PairArrives, PairUnnamed, PairRefused, CodeRejected, NoState
  <2>3. att'.stage = "publish" => att'.cand.down = 0
    BY <1>0 DEF Led, PairStays, PairArrives, PairUnnamed, PairRefused, CodeRejected
  <2> QED BY <1>0, <1>2, <2>1, <2>2, <2>3 DEF Led, Placed
<1>7. Beside'
  <2>1. att'.caller \in { "flow", "setup" } /\ att'.stage \in { "check", "refresh" } =>
          att'.cand.g = store'.g
    BY <1>0, <1>2
    DEF Led, PairStays, SamePair, PairArrives, PairUnnamed, PairRefused, CodeRejected, RefusedInv, Beside
  <2>2. att'.stage = "smsLogin" => att'.cand.asked = store'.asked
    <3> SUFFICES ASSUME att'.stage = "smsLogin"
                 PROVE  att'.cand.asked = store'.asked
      OBVIOUS
    <3>1. att.stage = "refresh" /\ att.allow /\ att'.cand = NoState
      BY <1>0 DEF Led, PairStays, PairArrives, PairUnnamed, PairRefused, CodeRejected
    <3>2. store.g = att.cand.g
      BY <1>0, <1>2, <3>1 DEF RefusedInv, Beside
    <3>3. store.asked = "never"
      BY <1>0, <1>2, <3>1, <3>2 DEF RefusedInv, Answering, Unasked, HasGApp
    <3> QED BY <1>0, <3>1, <3>3 DEF NoState
  <2> QED BY <2>1, <2>2 DEF Beside
<1>8. Refusals'
  <2>1. Turned(att') => Excluded(store.g)'
    <3>1. CASE Turned(att)
      <4>1. Excluded(store.g)
        BY <1>0, <1>2, <3>1 DEF RefusedInv, Refusals
      <4> QED BY <1>0, <1>1, <4>1, ExcludedGrows DEF Excluded
    <3>2. CASE RefusedNow
      BY <1>0, <1>1, <3>2 DEF Excluded
    <3> QED BY <1>0, <3>1, <3>2 DEF Led
  <2>2. running' /\ Current' = NoState => (pending' = NoState /\ Excluded(store.g)') \/ history'.told
    BY <1>0, <1>1, <1>2, ExcludedGrows
    DEF RefusedInv, Refusals, runtime, Current, Excluded, Grows
  <2> QED BY <2>1, <2>2 DEF Refusals
<1>9. Working'
  <2>1. session' = session /\ Current' = Current
    BY <1>0 DEF runtime, Current
  <2>2. att.caller = "renew" => session = NoState
    BY <1>2 DEF RefusedInv, Working, Waits
  <2> QED
    BY <1>1, <1>2, <2>1, <2>2, ExcludedGrows DEF RefusedInv, Working, Excluded, Grows
<1>10. Observed'
  <2>1. ops' = ops /\ Current' = Current
    BY <1>0 DEF runtime, Current
  <2> QED BY <1>1, <1>2, <2>1, ExcludedGrows DEF RefusedInv, Observed, Excluded
<1> QED BY <1>3, <1>5, <1>6, <1>7, <1>8, <1>9, <1>10 DEF RefusedInv

LEMMA AnsweredSpent ==
  ASSUME IInv, HInv, Answered
  PROVE  SpentInv'
<1>0. /\ Led /\ Proper(att) /\ att.caller # "nobody" /\ UNCHANGED << store, flow, running, runtime >>
      /\ att.stage = "refresh" => Complete(att.cand) /\ att.cand.g # 0 /\ att.cand.asked = "never"
      /\ att.stage = "smsLogin" => att.caller \in { "flow", "setup" }
      /\ ~ running <=> att.caller \in { "flow", "setup" }
      /\ att.caller \in { "flow", "setup", "renew" } /\ Current' = Current
  BY AnsweredFinds DEF runtime, Current
<1>1. history.lost \subseteq history'.lost /\ (LostNow => att.cand.g \in history'.lost)
  BY AnsweredFields DEF Grows
<1>2. SpentInv /\ RefusedInv /\ att'.caller = att.caller /\ att.stage \in Waits
  BY <1>0 DEF HInv, Led
<1>3. /\ provider.issued \in Nat /\ store.g \in Nat /\ att.cand.g \in Nat /\ NoState.g = 0
      /\ 0 \notin provider.spent
  BY PairNumbers
<1>4. \/ SameProvider
      \/ Exchanged /\ att.stage = "refresh"
      \/ provider'.spent = provider.spent /\ provider'.issued = provider.issued + 1
  BY <1>0 DEF Led, PairStays, PairArrives, PairUnnamed, PairRefused, CodeRejected
<1>5. \A g \in provider'.spent : g \in 1 .. provider'.issued
  <2>1. att.stage = "refresh" => att.cand.g \in 1 .. provider.issued
    BY <1>0, <1>2, <1>3 DEF SpentInv
  <2> QED BY <1>2, <1>3, <1>4, <2>1 DEF SpentInv, SameProvider, Exchanged
<1>6. provider.issued <= provider'.issued /\ provider'.issued \in Nat
  BY <1>3, <1>4 DEF SameProvider, Exchanged
<1>7. att'.cand.g <= provider'.issued
  BY <1>0, <1>2, <1>3, <1>6
  DEF Led, PairStays, SamePair, PairArrives, PairUnnamed, PairRefused, CodeRejected, Exchanged, SpentInv
<1>8. /\ \A s \in { store, boot, partial, pending, flow.state } : s.g <= provider.issued
      /\ \A p \in Procs : ops[p].seen.g <= provider.issued
  BY <1>2 DEF SpentInv
<1>9. /\ \A s \in { store, boot, partial, pending, flow.state } : s.g \in Nat
      /\ \A p \in Procs : ops[p].seen.g \in Nat
  <2>1. Pairs \subseteq Nat
    BY ChinaBounds DEF Pairs
  <2> QED BY <2>1 DEF IInv, Memory, Whole, ChinaAuthState, Calls
<1>10. /\ \A s \in { store, boot, partial, pending, flow.state, att.cand }' : s.g <= provider'.issued
       /\ \A p \in Procs : ops'[p].seen.g <= provider'.issued
  <2>1. \A s \in { store, boot, partial, pending, flow.state } : s.g <= provider'.issued
    BY <1>3, <1>6, <1>8, <1>9
  <2>2. \A p \in Procs : ops[p].seen.g <= provider'.issued
    BY <1>3, <1>6, <1>8, <1>9
  <2> QED BY <1>0, <1>7, <2>1, <2>2 DEF runtime
<1>11. Exchanged /\ att'.stage = "ended" /\ att.stage = "refresh" => att.cand.g \in history'.lost
  BY <1>1, <1>3 DEF LostNow, Exchanged
\* What was unspent is, but for the pair that is exchanged.
<1>12. ASSUME NEW g, Unspent(g), g # att.cand.g \/ ~ Exchanged \/ att.cand.g \in history'.lost
       PROVE  Unspent(g)'
  BY <1>1, <1>4, <1>12 DEF Unspent, SameProvider, Exchanged
<1>13. Unspent(att.cand.g)'
  <2>0. Unspent(att.cand.g)
    BY <1>2 DEF SpentInv
  <2>1. CASE PairStays
    <3>1. ~ Exchanged \/ att.cand.g \in history'.lost
      BY <1>3, <1>11, <2>1 DEF PairStays, SameProvider, Exchanged
    <3>2. (att.cand.g \in provider'.spent) => att.cand.g \in history'.lost
      BY <1>12, <2>0, <3>1 DEF Unspent
    <3> QED BY <2>1, <3>2 DEF PairStays, SamePair, Unspent
  <2>2. CASE PairArrives
    <3>1. provider.issued + 1 \notin provider'.spent
      BY <1>2, <1>3, <2>2 DEF SpentInv, PairArrives, Exchanged
    <3> QED BY <2>2, <3>1 DEF PairArrives, Unspent
  <2>3. CASE PairUnnamed \/ CodeRejected
    BY <1>1, <2>0, <2>3 DEF PairUnnamed, CodeRejected, Unspent, SameProvider
  <2>4. CASE PairRefused
    BY <1>3, <2>4 DEF PairRefused, Unspent, SameProvider
  <2> QED BY <1>0, <2>1, <2>2, <2>3, <2>4 DEF Led
<1>14. ~ running' => Unspent(store.g)' \/ Rotated'
  <2> SUFFICES ASSUME ~ running
               PROVE  Unspent(store.g)' \/ Rotated'
    BY <1>0
  <2>1. att.caller \in { "flow", "setup" } /\ (Unspent(store.g) \/ Rotated) /\ store.g <= provider.issued
    BY <1>0, <1>2 DEF SpentInv
  <2>2. att.stage = "refresh" => att.cand.g = store.g
    BY <1>2, <2>1 DEF RefusedInv, Beside
  <2>3. CASE PairStays
    <3>1. CASE SameProvider
      <4>1. CASE Unspent(store.g)
        BY <1>0, <1>1, <3>1, <4>1 DEF Unspent, SameProvider
      <4>2. CASE Rotated
        BY <1>0, <1>2, <2>3, <4>2 DEF Rotated, PairStays, SamePair
      <4> QED BY <2>1, <4>1, <4>2
    <3>2. CASE Exchanged /\ att.stage = "refresh" /\ att'.stage = "ended"
      BY <1>0, <1>2, <1>13, <2>2, <2>3, <3>2 DEF PairStays, SamePair, Unspent
    <3> QED BY <2>3, <3>1, <3>2 DEF PairStays
  <2>4. CASE PairArrives
    BY <1>0, <1>2, <1>3, <2>1, <2>4 DEF PairArrives, Rotated
  <2>5. CASE PairUnnamed \/ CodeRejected
    <3>1. SameProvider /\ att'.cand.g = att.cand.g
      BY <2>5 DEF PairUnnamed, CodeRejected
    <3> QED BY <1>0, <1>1, <1>2, <2>1, <3>1 DEF Unspent, SameProvider, Rotated
  <2>6. CASE PairRefused
    <3>1. Unspent(store.g) /\ SameProvider
      BY <1>2, <2>2, <2>6 DEF SpentInv, PairRefused
    <3> QED BY <1>0, <1>1, <3>1 DEF Unspent, SameProvider
  <2> QED BY <1>0, <2>3, <2>4, <2>5, <2>6 DEF Led
<1>15. running' => Unspent(Current.g)' \/ att'.stage = "publish"
  <2> SUFFICES ASSUME running, att'.stage # "publish"
               PROVE  Unspent(Current.g)'
    BY <1>0
  <2>1. att.caller = "renew" /\ Unspent(Current.g)
    BY <1>0, <1>2 DEF SpentInv, Waits
  <2>2. ~ PairArrives \/ ~ Exchanged
    BY <1>0, <2>1 DEF PairArrives
  <2>3. ~ Exchanged \/ att.cand.g \in history'.lost
    BY <1>0, <1>3, <1>11, <2>2
    DEF Led, PairStays, PairUnnamed, PairRefused, CodeRejected, SameProvider, Exchanged
  <2>4. (Current.g \in provider'.spent) => Current.g \in history'.lost
    BY <1>12, <2>1, <2>3 DEF Unspent
  <2> QED BY <1>0, <2>4 DEF Unspent
<1>16. \A p \in Procs : ops'[p].at = "renew" /\ att'.caller # "renew" => Unspent(ops[p].seen.g)'
  BY <1>0, <1>2 DEF IInv, Apart, Quiet, runtime
<1> QED BY <1>5, <1>10, <1>13, <1>14, <1>15, <1>16 DEF SpentInv

LEMMA AnsweredAsked ==
  ASSUME IInv, HInv, Answered
  PROVE  AskedInv'
<1>0. /\ Led /\ Proper(att) /\ att.caller # "nobody" /\ UNCHANGED << store, flow, running, runtime >>
      /\ att.stage = "refresh" => Complete(att.cand) /\ att.cand.g # 0 /\ att.cand.asked = "never"
      /\ att.allow => att.caller = "flow"
      /\ ~ running <=> att.caller \in { "flow", "setup" }
      /\ att.caller \in { "flow", "setup", "renew" }
  BY AnsweredFinds
<1>1. /\ history'.asked = (history.asked \/ Asking)
      /\ history'.excused = (history.excused /\ ~ Asking)
  BY AnsweredFields
<1>2. AskedInv /\ RefusedInv /\ att'.caller = att.caller /\ history \in Histories
  BY <1>0 DEF HInv, Led, IInv
<1>3. Asking => att.caller = "flow" /\ att'.cand.asked = "recent"
  BY <1>0
  DEF Led, PairStays, PairArrives, PairUnnamed, PairRefused, CodeRejected, Asking
<1>4. CASE Asking
  BY <1>0, <1>2, <1>3, <1>4 DEF AskedInv
<1>5. CASE ~ Asking
  <2>1. history'.asked = history.asked /\ history'.excused = history.excused
    BY <1>1, <1>2, <1>5 DEF Histories
  <2>2. /\ running' => (history'.asked => history'.excused)
        /\ ~ running' /\ att'.caller \in {"nobody", "setup"} => Remembered'
    BY <1>0, <1>2, <2>1 DEF AskedInv, Remembered
  <2>3. ASSUME att'.caller = "flow", history'.asked, ~ history'.excused
        PROVE  att'.cand.asked = "recent" \/ (att'.cand.asked = "never" /\ store'.asked = "recent")
    <3>1. att.cand.asked = "recent" \/ (att.cand.asked = "never" /\ store.asked = "recent")
      BY <1>2, <2>1, <2>3 DEF AskedInv
    <3>2. att.stage = "smsLogin" => att.cand.asked = store.asked
      BY <1>2 DEF RefusedInv, Beside
    <3>3. CASE PairStays
      BY <1>0, <3>1, <3>3 DEF PairStays, SamePair
    <3>4. CASE PairArrives \/ CodeRejected
      BY <1>0, <3>1, <3>2, <3>4 DEF PairArrives, CodeRejected
    <3>5. CASE PairUnnamed
      BY <1>0, <3>1, <3>5 DEF PairUnnamed
    <3>6. CASE PairRefused
      BY <1>0, <3>1, <3>6 DEF PairRefused, NoState
    <3> QED BY <1>0, <3>3, <3>4, <3>5, <3>6 DEF Led
  <2> QED BY <2>2, <2>3 DEF AskedInv
<1> QED BY <1>4, <1>5

LEMMA AnsweredLeads ==
  ASSUME IInv, HInv, Answered
  PROVE  HInv'
BY AnsweredRefused, AnsweredSpent, AnsweredAsked DEF HInv

---------------------------------------------------------------------------
(* The line for the client.                                                *)

Has(Q, p) == \E i \in 1 .. Len(Q) : Q[i] = p

\* Who is in each of the five orders.
LEMMA QueueMembers ==
  \A q : /\ ~ Has(<< >>, q)
         /\ Has(<< "poll" >>, q) <=> q = "poll"
         /\ Has(<< "command" >>, q) <=> q = "command"
         /\ Has(<< "poll", "command" >>, q) <=> q \in { "poll", "command" }
         /\ Has(<< "command", "poll" >>, q) <=> q \in { "poll", "command" }
<1> TAKE q
<1>1. ~ Has(<< >>, q)
  BY DEF Has
<1>2. Has(<< "poll" >>, q) <=> q = "poll"
  BY DEF Has
<1>3. Has(<< "command" >>, q) <=> q = "command"
  BY DEF Has
<1>4. Has(<< "poll", "command" >>, q) <=> q \in { "poll", "command" }
  BY DEF Has
<1>5. Has(<< "command", "poll" >>, q) <=> q \in { "poll", "command" }
  BY DEF Has
<1> QED BY <1>1, <1>2, <1>3, <1>4, <1>5

LEMMA OneJoins ==
  ASSUME NEW a \in Procs, NEW b \in Procs
  PROVE  Append(<< a >>, b) = << a, b >>
<1>1. /\ << a >> \in Seq(Procs) /\ << a, b >> \in Seq(Procs)
      /\ Len(<< a >>) = 1 /\ Len(<< a, b >>) = 2 /\ << a >>[1] = a
      /\ << a, b >>[1] = a /\ << a, b >>[2] = b
  OBVIOUS
<1>2. /\ Append(<< a >>, b) \in Seq(Procs) /\ Len(Append(<< a >>, b)) = 2
      /\ Append(<< a >>, b)[1] = a /\ Append(<< a >>, b)[2] = b
  BY <1>1, AppendProperties
<1> DEFINE A == Append(<< a >>, b)
           B == << a, b >>
<1>3. A \in Seq(Procs) /\ B \in Seq(Procs) /\ Len(A) = 2 /\ Len(B) = 2 /\ A[1] = B[1] /\ A[2] = B[2]
  BY <1>1, <1>2
<1> HIDE DEF A, B
<1>4. A = B
  BY <1>3, SeqEqual
<1> QED BY <1>4 DEF A, B

\* Who joins the line is its last.
LEMMA Joins ==
  ASSUME NEW Q \in Queues, NEW p \in Procs, ~ Has(Q, p)
  PROVE  /\ Append(Q, p) \in Queues
         /\ \A q : Has(Append(Q, p), q) <=> q = p \/ Has(Q, q)
<1>1. CASE Q = << >>
  <2>1. Append(Q, p) = << p >>
    BY <1>1
  <2> QED BY <1>1, <2>1, QueueMembers DEF Queues, Procs
<1>2. CASE Q = << "poll" >>
  <2>0. p = "command"
    BY <1>2, QueueMembers DEF Procs
  <2>1. Append(Q, p) = << "poll", "command" >>
    BY <1>2, <2>0, OneJoins DEF Procs
  <2> QED BY <1>2, <2>0, <2>1, QueueMembers DEF Queues
<1>3. CASE Q = << "command" >>
  <2>0. p = "poll"
    BY <1>3, QueueMembers DEF Procs
  <2>1. Append(Q, p) = << "command", "poll" >>
    BY <1>3, <2>0, OneJoins DEF Procs
  <2> QED BY <1>3, <2>0, <2>1, QueueMembers DEF Queues
<1>4. CASE Q \in { << "poll", "command" >>, << "command", "poll" >> }
  BY <1>4, QueueMembers DEF Procs
<1> QED BY <1>1, <1>2, <1>3, <1>4 DEF Queues

\* Who is first goes, and may join again.
LEMMA FirstGoes ==
  ASSUME NEW Q \in Queues, NEW p \in Procs, Q # << >>, Head(Q) = p
  PROVE  /\ Has(Q, p) /\ Tail(Q) \in Queues
         /\ \A q : Has(Tail(Q), q) <=> q # p /\ Has(Q, q)
<1>1. CASE Q = << "poll" >>
  <2>1. p = "poll" /\ Tail(Q) = << >>
    BY <1>1
  <2> QED BY <1>1, <2>1, QueueMembers DEF Queues
<1>2. CASE Q = << "command" >>
  <2>1. p = "command" /\ Tail(Q) = << >>
    BY <1>2
  <2> QED BY <1>2, <2>1, QueueMembers DEF Queues
<1>3. CASE Q = << "poll", "command" >>
  <2>1. p = "poll" /\ Tail(Q) = << "command" >>
    BY <1>3
  <2> QED BY <1>3, <2>1, QueueMembers DEF Queues
<1>4. CASE Q = << "command", "poll" >>
  <2>1. p = "command" /\ Tail(Q) = << "poll" >>
    BY <1>4
  <2> QED BY <1>4, <2>1, QueueMembers DEF Queues
<1> QED BY <1>1, <1>2, <1>3, <1>4 DEF Queues

\* The first of two.
LEMMA OnlyFirst ==
  ASSUME NEW a \in Procs, NEW b \in Procs
  PROVE  SubSeq(<< a, b >>, 1, 1) \o SubSeq(<< a, b >>, 3, 2) = << a >>
<1> DEFINE Q == << a, b >>
           A == SubSeq(Q, 1, 1)
           B == SubSeq(Q, 3, 2)
<1>1. Q \in Seq(Procs) /\ Len(Q) = 2 /\ Q[1] = a
  OBVIOUS
<1> HIDE DEF Q
<1>2. A \in Seq(Procs) /\ Len(A) = 1 /\ A[1] = a
  BY <1>1, SubSeqProperties
<1>3. B \in Seq(Procs) /\ Len(B) = 0
  BY <1>1, SubSeqProperties
<1> HIDE DEF A, B
<1>4. B = << >>
  BY <1>3, EmptySeq
<1>5. A \o B = A
  BY <1>2, <1>4, ConcatEmptySeq
<1>6. A = << a >>
  BY <1>2, SeqEqual
<1> QED BY <1>5, <1>6 DEF Q, A, B

\* Who waits behind another may leave.
LEMMA SecondGoes ==
  ASSUME NEW Q \in Queues, NEW p \in Procs, NEW i \in 2 .. Len(Q), Q[i] = p
  PROVE  LET R == SubSeq(Q, 1, i - 1) \o SubSeq(Q, i + 1, Len(Q))
         IN /\ R \in Queues /\ Head(Q) # p /\ R # << >> /\ Head(R) = Head(Q)
            /\ Len(R) = 1
            /\ \A q : Has(R, q) <=> q # p /\ Has(Q, q)
<1> DEFINE R == SubSeq(Q, 1, i - 1) \o SubSeq(Q, i + 1, Len(Q))
<1>1. CASE Q = << "poll", "command" >>
  <2>1. i = 2 /\ p = "command" /\ Len(Q) = 2
    BY <1>1
  <2>2. R = SubSeq(Q, 1, 1) \o SubSeq(Q, 3, 2)
    BY <2>1
  <2> HIDE DEF R
  <2>3. R = << "poll" >>
    BY <1>1, <2>2, OnlyFirst DEF Procs
  <2>4. /\ R \in Queues /\ Head(Q) # p /\ R # << >> /\ Head(R) = Head(Q)
        /\ Len(R) = 1 /\ \A q : Has(R, q) <=> q # p /\ Has(Q, q)
    BY <1>1, <2>1, <2>3, QueueMembers DEF Queues
  <2> QED BY <2>4 DEF R
<1>2. CASE Q = << "command", "poll" >>
  <2>1. i = 2 /\ p = "poll" /\ Len(Q) = 2
    BY <1>2
  <2>2. R = SubSeq(Q, 1, 1) \o SubSeq(Q, 3, 2)
    BY <2>1
  <2> HIDE DEF R
  <2>3. R = << "command" >>
    BY <1>2, <2>2, OnlyFirst DEF Procs
  <2>4. /\ R \in Queues /\ Head(Q) # p /\ R # << >> /\ Head(R) = Head(Q)
        /\ Len(R) = 1 /\ \A q : Has(R, q) <=> q # p /\ Has(Q, q)
    BY <1>2, <2>1, <2>3, QueueMembers DEF Queues
  <2> QED BY <2>4 DEF R
<1>3. CASE Q \in { << >>, << "poll" >>, << "command" >> }
  BY <1>3
<1> QED BY <1>1, <1>2, <1>3 DEF Queues

\* A call goes somewhere and the line moves accordingly; the other call stays.
InLineAs(p, place, seen) ==
  /\ ops'[p].at = place /\ ops'[p].seen = seen
  /\ \A q \in Procs : q # p => ops'[q] = ops[q]
  /\ queue' \in Queues /\ \A q \in Procs : Listed(q)' <=> ops'[q].at \in Waiting

LEMMA LineMoves ==
  ASSUME IInv, HInv, NEW p \in Procs, NEW place, NEW seen, Goes(p, place, seen),
         \/ place \notin Waiting /\ ops[p].at \notin Waiting /\ queue' = queue
         \/ place \in Waiting /\ ops[p].at \notin Waiting /\ queue' = Append(queue, p)
         \/ place \notin Waiting /\ HasClient(p) /\ queue' = Tail(queue)
         \/ place \in Waiting /\ HasClient(p) /\ queue' = Append(Tail(queue), p)
  PROVE  InLineAs(p, place, seen)
<1>1. /\ ops'[p].at = place /\ ops'[p].seen = seen
      /\ \A q \in Procs : q # p => ops'[q] = ops[q]
  BY DEF Goes, IInv, Calls
<1>2. /\ queue \in Queues /\ \A q \in Procs : Has(queue, q) <=> ops[q].at \in Waiting
  BY DEF HInv, RefusedInv, InLine, Has, Listed
<1>3. /\ ~ Has(queue, p) => /\ Append(queue, p) \in Queues
                            /\ \A q : Has(Append(queue, p), q) <=> q = p \/ Has(queue, q)
  BY <1>2, Joins
<1>4. HasClient(p) => /\ Tail(queue) \in Queues
                      /\ \A q : Has(Tail(queue), q) <=> q # p /\ Has(queue, q)
  BY <1>2, FirstGoes DEF HasClient
<1>5. HasClient(p) => /\ Append(Tail(queue), p) \in Queues
                      /\ \A q : Has(Append(Tail(queue), p), q) <=> q = p \/ Has(queue, q)
  <2> SUFFICES ASSUME HasClient(p)
               PROVE  /\ Append(Tail(queue), p) \in Queues
                      /\ \A q : Has(Append(Tail(queue), p), q) <=> q = p \/ Has(queue, q)
    OBVIOUS
  <2> DEFINE T == Tail(queue)
  <2>1. T \in Queues /\ ~ Has(T, p) /\ \A q : Has(T, q) <=> q # p /\ Has(queue, q)
    BY <1>4
  <2> HIDE DEF T
  <2>2. Append(T, p) \in Queues /\ \A q : Has(Append(T, p), q) <=> q = p \/ Has(T, q)
    BY <2>1, Joins
  <2>3. Has(queue, p)
    BY <1>2, FirstGoes DEF HasClient
  <2> QED BY <2>1, <2>2, <2>3 DEF T
<1>6. queue' \in Queues /\ \A q \in Procs : Has(queue', q) <=> ops'[q].at \in Waiting
  BY <1>1, <1>2, <1>3, <1>4, <1>5
<1>7. \A q \in Procs : Listed(q)' <=> ops'[q].at \in Waiting
  BY <1>6 DEF Listed, Has
<1> QED BY <1>1, <1>6, <1>7 DEF InLineAs

\* A running entry has no flow beside it, and no code is asked for.
LEMMA RunLeads ==
  ASSUME IInv, HInv, running, UNCHANGED << flow, running >>,
         history'.asked = history.asked, history'.excused = history.excused,
         Placed(att'), att'.caller \in { att.caller, "nobody", "renew" }
  PROVE  FlowStored' /\ AskedInv' /\ Beside' /\ att.caller \in { "nobody", "renew" }
<1>1. att.caller \in { "nobody", "renew" }
  BY DEF IInv, Apart, Proper, Attempts, Callers
<1>2. FlowStored'
  BY <1>1 DEF HInv, RefusedInv, FlowStored
<1>3. AskedInv'
  BY <1>1 DEF HInv, AskedInv
<1>4. Beside'
  BY <1>1 DEF Beside, Placed
<1> QED BY <1>1, <1>2, <1>3, <1>4

\* What is known of a running entry.
LEMMA RunFinds ==
  ASSUME IInv, HInv, running
  PROVE  /\ att.caller \in { "nobody", "renew" } /\ NoState.g = 0 /\ Unasked(NoState)
         /\ Unspent(NoState.g) /\ ~ Complete(NoState) /\ ~ HasGApp(NoState)
         /\ Current = NoState \/ HasGApp(Current)
         /\ HasGApp(Current) /\ pending = NoState => Current.g = store.g
         /\ HasGApp(Current) /\ pending # NoState => Current.g = pending.g
         /\ Unasked(Current) /\ Current.g <= provider.issued /\ 0 <= provider.issued
         /\ Whole(Current)
         /\ ~ "flow" = att.caller
<1>1. att.caller \in { "nobody", "renew" }
  BY DEF IInv, Apart, Proper, Attempts, Callers
<1>2. /\ NoState.g = 0 /\ Unasked(NoState) /\ Unspent(NoState.g) /\ ~ Complete(NoState)
      /\ ~ HasGApp(NoState) /\ 0 <= provider.issued
  BY PairNumbers DEF Unspent, Unasked
<1>3. Current = NoState \/ HasGApp(Current)
  BY DEF IInv, Memory, Current
<1>4. /\ HasGApp(Current) /\ pending = NoState => Current.g = store.g
      /\ HasGApp(Current) /\ pending # NoState => Current.g = pending.g
  BY <1>2 DEF IInv, Held, Current, HasGApp
<1>5. Unasked(Current) /\ Current.g <= provider.issued /\ Whole(Current)
  BY DEF HInv, RefusedInv, Answering, SpentInv, Current, IInv, Memory
<1> QED BY <1>1, <1>2, <1>3, <1>4, <1>5

---------------------------------------------------------------------------
(* The calls of a running entry.                                           *)

\* No pair is spent.
LEMMA SpentLeads ==
  ASSUME IInv, HInv, UNCHANGED flow, running',
         provider'.spent = provider.spent, provider'.issued = provider.issued,
         history.lost \subseteq history'.lost,
         store'.g <= provider.issued, boot'.g <= provider.issued, partial'.g <= provider.issued,
         pending'.g <= provider.issued, att'.cand.g <= provider.issued,
         \A p \in Procs : ops'[p].seen.g <= provider.issued,
         Unspent(att'.cand.g), Unspent(Current'.g) \/ att'.stage = "publish",
         \A p \in Procs : ops'[p].at = "renew" /\ att'.caller # "renew" => Unspent(ops'[p].seen.g)
  PROVE  SpentInv'
<1>1. flow'.state.g <= provider.issued /\ \A g \in provider.spent : g \in 1 .. provider.issued
  BY DEF HInv, SpentInv
<1>2. \A g : Unspent(g) => (g \in provider'.spent => g \in history'.lost)
  BY DEF Unspent
<1>3. Unspent(att.cand.g)' /\ (Unspent(Current.g)' \/ att'.stage = "publish")
  BY <1>2 DEF Unspent
<1>4. \A p \in Procs : ops'[p].at = "renew" /\ att'.caller # "renew" => Unspent(ops[p].seen.g)'
  BY <1>2 DEF Unspent
<1> QED BY <1>1, <1>3, <1>4 DEF SpentInv

\* What SpentInv says, in one place.
LEMMA SpentFinds ==
  ASSUME IInv, HInv, running
  PROVE  /\ store.g <= provider.issued /\ boot.g <= provider.issued /\ partial.g <= provider.issued
         /\ pending.g <= provider.issued /\ att.cand.g <= provider.issued
         /\ \A p \in Procs : ops[p].seen.g <= provider.issued
         /\ Unspent(att.cand.g)
         /\ Unspent(Current.g) \/ att.stage = "publish"
         /\ \A p \in Procs : ops[p].at = "renew" /\ att.caller # "renew" => Unspent(ops[p].seen.g)
BY DEF HInv, SpentInv

\* What one request of the client leaves.
Ruled(g) == g = 0 \/ g \in history'.refused \/ history'.told

LEMMA ServedLeads ==
  ASSUME IInv, HInv, NEW answer \in Answers, Served(answer)
  PROVE  /\ Grows /\ history'.asked = history.asked /\ history'.excused = history.excused
         /\ history'.told = history.told
         /\ provider'.spent = provider.spent /\ provider'.issued = provider.issued
         /\ session' \in { session, NoState }
         /\ answer = "refused" => session' = NoState /\ (Complete(Current) => Ruled(Current.g))
         /\ answer # "refused" => session' = session
<1>0. provider \in Gateways /\ history \in Histories /\ Working
  BY DEF IInv, HInv, RefusedInv
<1>1. CASE answer # "refused"
  BY <1>1 DEF Answers, Served, Grows
<1>2. CASE answer = "refused"
  <2>0. /\ session' = NoState
        /\ IF Complete(session)
           THEN /\ Refuses(session.g)
                /\ history' = [ history EXCEPT !.refused = @ \cup {session.g} ]
           ELSE UNCHANGED << provider, history >>
    BY <1>2 DEF Served
  <2>1. CASE Complete(session)
    <3>1. Refuses(session.g) /\ history' = [ history EXCEPT !.refused = @ \cup {session.g} ]
      BY <2>0, <2>1
    <3>2. provider'.spent = provider.spent /\ provider'.issued = provider.issued
      BY <1>0, <3>1 DEF Refuses, Gateways
    <3>3. /\ history'.refused = history.refused \cup {session.g} /\ history'.lost = history.lost
          /\ history'.asked = history.asked /\ history'.excused = history.excused
          /\ history'.told = history.told
      BY <1>0, <3>1 DEF Histories
    <3>4. session # NoState
      BY <2>1, PairNumbers
    <3>5. session.g = Current.g \/ history.told
      BY <1>0, <3>4 DEF Working
    <3> QED BY <1>2, <2>0, <3>2, <3>3, <3>5 DEF Grows, Ruled
  <2>2. CASE ~ Complete(session)
    <3>1. session = NoState /\ UNCHANGED << provider, history >>
      BY <2>0, <2>2 DEF IInv, Memory
    <3>2. Complete(Current) => Ruled(Current.g)
      BY <1>0, <3>1 DEF Working, Excluded, Ruled
    <3> QED BY <1>2, <2>0, <3>1, <3>2 DEF Grows
  <2> QED BY <2>1, <2>2
<1> QED BY <1>1, <1>2

\* What was excluded stays so.
LEMMA RuledGrows ==
  ASSUME Grows
  PROVE  \A g : Excluded(g) => Ruled(g)
BY DEF Grows, Excluded, Ruled

LEMMA ActLeads ==
  ASSUME IInv, HInv, NEW p \in Procs, Act(p)
  PROVE  HInv'
<1>0. /\ UNCHANGED << att, store, flow, running, boot, partial, pending, renewal >>
      /\ ops[p].at = "act" /\ HasClient(p) /\ queue' = Tail(queue) /\ Current' = Current
  BY DEF Act, Current
<1>1. running
  BY <1>0, CallsRun DEF IInv
<1>2. PICK answer \in Answers :
        /\ Served(answer)
        /\ CASE answer # "refused" -> Leaves(p)
             [] answer = "refused" /\ ops[p].seen # NoState -> Goes(p, "expired", ops[p].seen)
             [] OTHER -> IF p = "poll" THEN Goes(p, "rejected", NoState) ELSE Leaves(p)
  BY DEF Act
<1>3. /\ Grows /\ history'.asked = history.asked /\ history'.excused = history.excused
      /\ history'.told = history.told
      /\ provider'.spent = provider.spent /\ provider'.issued = provider.issued
      /\ session' \in { session, NoState }
      /\ answer = "refused" => session' = NoState /\ (Complete(Current) => Ruled(Current.g))
      /\ answer # "refused" => session' = session
  BY <1>2, ServedLeads
<1>4. \A g : Excluded(g) => Ruled(g)
  BY <1>3, RuledGrows
<1>5. /\ NoState.g = 0 /\ Unasked(NoState) /\ 0 <= provider.issued /\ ~ Complete(NoState)
  BY <1>1, RunFinds
<1>6. RefusedInv /\ att.caller # "renew"
  BY <1>0 DEF HInv, RefusedInv, InLine, HasClient
<1>7. FlowStored' /\ AskedInv' /\ Beside' /\ Placed(att')
  BY <1>0, <1>1, <1>3, <1>6, RunLeads DEF RefusedInv
<1>8. \/ Leaves(p)
      \/ Goes(p, "expired", ops[p].seen) /\ answer = "refused"
      \/ Goes(p, "rejected", NoState) /\ p = "poll"
  BY <1>2
<1>9. \/ InLineAs(p, "idle", NoState)
      \/ InLineAs(p, "expired", ops[p].seen) /\ answer = "refused"
      \/ InLineAs(p, "rejected", NoState) /\ p = "poll"
  BY <1>0, <1>8, LineMoves DEF Leaves, Waiting
<1>10. \A q \in Procs : \/ q # p /\ ops'[q] = ops[q]
                        \/ q = p /\ ops'[q].at \in { "idle", "rejected" } /\ ops'[q].seen = NoState
                        \/ q = p /\ ops'[q].at = "expired" /\ ops'[q].seen = ops[q].seen /\ answer = "refused"
  BY <1>9 DEF InLineAs
<1>11. InLine'
  <2>1. queue' \in Queues /\ \A q \in Procs : Listed(q)' <=> ops'[q].at \in Waiting
    BY <1>9 DEF InLineAs
  <2>2. \A q \in Procs : renewal' = q <=> ops'[q].at = "renew"
    BY <1>0, <1>6, <1>10 DEF RefusedInv, InLine
  <2>3. ops'["command"].at \notin { "again", "rejected" }
    BY <1>6, <1>9 DEF RefusedInv, InLine, InLineAs, Procs
  <2>4. ops'["poll"].at = "again" =>
          /\ Complete(Current)' /\ pending' = NoState /\ p = "command"
    BY <1>0, <1>6, <1>10 DEF RefusedInv, InLine, Procs, Complete
  <2>5. p = "command" => ops'["command"].at # "renew"
    BY <1>10
  <2> QED BY <1>0, <1>6, <2>1, <2>2, <2>3, <2>4, <2>5 DEF InLine
<1>12. Answering'
  <2>1. \A q \in Procs : Unasked(ops'[q].seen)
    BY <1>5, <1>6, <1>10 DEF RefusedInv, Answering
  <2> QED BY <1>0, <1>6, <2>1 DEF RefusedInv, Answering, Unasked
<1>13. Refusals'
  BY <1>0, <1>3, <1>4, <1>6 DEF RefusedInv, Refusals, Excluded, Ruled
<1>14. Working'
  <2>1. session' # NoState => session'.g = Current.g \/ history'.told
    BY <1>3, <1>6 DEF RefusedInv, Working
  <2>2. session' = NoState /\ Complete(Current) => Ruled(Current.g)
    BY <1>3, <1>4, <1>6 DEF RefusedInv, Working
  <2> QED BY <1>0, <1>6, <2>1, <2>2 DEF Working, Excluded, Ruled
<1>15. Observed'
  <2>1. ASSUME NEW q \in Procs, ops'[q].at \in { "act", "expired", "renew" }, Complete(ops'[q].seen)
        PROVE  \/ Ruled(ops'[q].seen.g)
               \/ ops'[q].at = "act" /\ Complete(Current) /\ ops'[q].seen.g = Current.g
    BY <1>0, <1>3, <1>4, <1>6, <1>10, <2>1 DEF RefusedInv, Observed
  <2> QED BY <1>0, <2>1 DEF Observed, Excluded, Ruled
<1>16. SpentInv'
  <2>1. \A q \in Procs : /\ ops'[q].seen.g <= provider.issued
                         /\ ops'[q].at = "renew" => Unspent(ops'[q].seen.g)
    BY <1>0, <1>1, <1>5, <1>6, <1>10, SpentFinds
  <2>2. history.lost \subseteq history'.lost
    BY <1>3 DEF Grows
  <2> QED BY <1>0, <1>1, <1>3, <1>6, <2>1, <2>2, SpentLeads, SpentFinds
<1> QED BY <1>7, <1>11, <1>12, <1>13, <1>14, <1>15, <1>16 DEF HInv, RefusedInv

\* A call moves on; the pairs in memory stay, and at most what waits is stored.
LEMMA MemoryLeads ==
  ASSUME IInv, HInv, NEW p \in Procs, running,
         UNCHANGED << att, provider, flow, running, session, boot, partial, history >>,
         store' \in { store, pending }, pending' \in { pending, NoState },
         Current = NoState /\ pending = NoState => store' = store,
         att.caller = "nobody" \/ store' = store,
         \A q \in Procs : q # p => ops'[q] = ops[q],
         Unasked(ops'[p].seen), ops'[p].seen.g <= provider.issued,
         ops'[p].at = "renew" /\ att.caller # "renew" => Unspent(ops'[p].seen.g),
         ops'[p].at \in { "act", "expired", "renew" } /\ Complete(ops'[p].seen) =>
           \/ Excluded(ops'[p].seen.g)
           \/ ops'[p].at = "act" /\ Complete(Current) /\ ops'[p].seen.g = Current.g,
         InLine'
  PROVE  HInv'
<1>1. RefusedInv /\ Current' = Current /\ NoState.g = 0 /\ 0 <= provider.issued
  BY RunFinds DEF HInv, Current
<1>2. FlowStored' /\ AskedInv' /\ Beside' /\ Placed(att')
  BY <1>1, RunLeads DEF RefusedInv
<1>3. Answering'
  <2>1. \A s \in { store', pending', boot', partial', att'.cand } : Unasked(s)
    BY <1>1, RunFinds DEF RefusedInv, Answering
  <2>2. \A q \in Procs : Unasked(ops'[q].seen)
    BY <1>1 DEF RefusedInv, Answering
  <2>3. pending' # NoState => HasGApp(pending')
    BY <1>1 DEF RefusedInv, Answering
  <2> QED BY <2>1, <2>2, <2>3 DEF Answering, Unasked, HasGApp
<1>4. Refusals'
  BY <1>1 DEF RefusedInv, Refusals, Excluded
<1>5. Working'
  BY <1>1 DEF RefusedInv, Working, Excluded, Turned, Kind
<1>6. Observed'
  BY <1>1 DEF RefusedInv, Observed, Excluded
<1>7. SpentInv'
  <2>1. store'.g <= provider.issued /\ pending'.g <= provider.issued
    BY <1>1, SpentFinds
  <2>2. \A q \in Procs : /\ ops'[q].seen.g <= provider.issued
                         /\ ops'[q].at = "renew" /\ att.caller # "renew" => Unspent(ops'[q].seen.g)
    BY SpentFinds
  <2> QED BY <1>1, <2>1, <2>2, SpentLeads, SpentFinds
<1> QED BY <1>2, <1>3, <1>4, <1>5, <1>6, <1>7 DEF HInv, RefusedInv

LEMMA EnterLeads ==
  ASSUME IInv, HInv, NEW p \in Procs, Enter(p)
  PROVE  HInv'
<1>0. /\ running /\ UNCHANGED << att, provider, flow, running, session, boot, partial, renewal, history >>
      /\ ops[p].at = "idle" /\ renewal = Nobody /\ Nobody \notin Procs /\ Current' = Current
  BY DEF Enter, Procs, Nobody, Current
<1>1. /\ NoState.g = 0 /\ Unasked(NoState) /\ 0 <= provider.issued /\ Unasked(Current)
      /\ Current.g <= provider.issued /\ ~ Complete(NoState)
  BY <1>0, RunFinds
<1>2. /\ RefusedInv /\ att.caller = "nobody"
  BY <1>0, RunFinds DEF HInv, RefusedInv, InLine
<1>4. \/ Flushed /\ InLineAs(p, "act", Current)
      \/ FlushFails /\ UNCHANGED << ops, queue >>
  BY <1>0, LineMoves DEF Enter, Waiting
<1>5. store' \in { store, pending } /\ pending' \in { pending, NoState }
      /\ (Current = NoState /\ pending = NoState => store' = store /\ pending' = NoState)
  BY DEF Enter, Flushed, FlushFails
<1>6. \A q \in Procs : \/ ops'[q] = ops[q]
                       \/ q = p /\ ops'[q].at = "act" /\ ops'[q].seen = Current
  BY <1>4 DEF InLineAs
<1>7. InLine'
  <2>1. CASE FlushFails /\ UNCHANGED << ops, queue >>
    BY <1>0, <1>2, <2>1 DEF RefusedInv, InLine, Listed, HasClient, FlushFails
  <2>2. CASE Flushed /\ InLineAs(p, "act", Current)
    <3>1. queue' \in Queues /\ \A q \in Procs : Listed(q)' <=> ops'[q].at \in Waiting
      BY <2>2 DEF InLineAs
    <3>2. \A q \in Procs : renewal' = q <=> ops'[q].at = "renew"
      BY <1>0, <1>2, <1>6 DEF RefusedInv, InLine
    <3>3. ops'["command"].at \notin { "again", "rejected", "renew" }
      BY <1>0, <1>2, <1>6 DEF RefusedInv, InLine, Procs
    <3>4. ops'["poll"].at = "again" => Complete(Current)' /\ pending' = NoState
      BY <1>0, <1>2, <1>6, <2>2 DEF RefusedInv, InLine, Procs, Flushed, Complete
    <3> QED BY <1>0, <1>2, <3>1, <3>2, <3>3, <3>4 DEF InLine
  <2> QED BY <1>4, <2>1, <2>2
<1>8. /\ ops'[p].at = "act" => ops'[p].seen = Current
      /\ ops'[p].at \in { "idle", "act" } /\ (ops'[p].at = "idle" => ops'[p] = ops[p])
  BY <1>0, <1>4 DEF InLineAs
<1>9. Unasked(ops'[p].seen) /\ ops'[p].seen.g <= provider.issued
  BY <1>0, <1>1, <1>2, <1>8, SpentFinds DEF RefusedInv, Answering
<1> QED BY <1>0, <1>2, <1>5, <1>6, <1>7, <1>8, <1>9, MemoryLeads

\* The memory is given up for a session that was refused.
LEMMA RetiresLeads ==
  ASSUME IInv, HInv, NEW p \in Procs, running, UNCHANGED << flow, running >>,
         Grows, history'.asked = history.asked, history'.excused = history.excused,
         provider'.spent = provider.spent, provider'.issued = provider.issued,
         Retires, Ruled(store.g), Complete(Current) => Ruled(Current.g),
         session' \in { session, NoState }, session' # NoState => history'.told,
         NEW place \in { "idle", "rejected" }, InLineAs(p, place, NoState),
         place = "rejected" => p = "poll", p = "command" => ops["poll"].at # "again",
         \/ /\ UNCHANGED << att, renewal >> /\ ops[p].at # "renew"
            /\ queue' = queue \/ att.caller # "renew"
         \/ att' = NoAttempt /\ renewal' = Nobody /\ renewal = p
  PROVE  HInv'
<1>1. /\ boot' = NoState /\ partial' = NoState /\ pending' = NoState /\ Current' = NoState
      /\ store' \in { NoState, store } /\ Ruled(store'.g)
  BY RunFinds DEF Retires, Current, Ruled
<1>2. RefusedInv /\ NoState.g = 0 /\ Unasked(NoState) /\ 0 <= provider.issued /\ ~ Complete(NoState)
  BY RunFinds DEF HInv
<1>3. /\ Placed(att') /\ att'.caller \in { att.caller, "nobody" }
      /\ att' = att \/ (att'.caller = "nobody" /\ att'.cand = NoState)
  BY <1>2, NobodyPlaced, NoAttemptProper DEF RefusedInv, NoAttempt
<1>4. FlowStored' /\ AskedInv' /\ Beside'
  BY <1>3, RunLeads
<1>5. \A q \in Procs : \/ q # p /\ ops'[q] = ops[q]
                       \/ q = p /\ ops'[q].at \in { "idle", "rejected" } /\ ops'[q].seen = NoState
  BY DEF InLineAs
<1>6. InLine'
  <2>1. queue' \in Queues /\ \A q \in Procs : Listed(q)' <=> ops'[q].at \in Waiting
    BY DEF InLineAs
  <2>2. \A q \in Procs : renewal' = q <=> ops'[q].at = "renew"
    BY <1>2, <1>5 DEF RefusedInv, InLine, Procs, Nobody
  <2>3. ops'["command"].at \notin { "again", "rejected" }
    BY <1>2 DEF RefusedInv, InLine, InLineAs, Procs
  <2>4. ops'["poll"].at # "again"
    BY <1>5 DEF Procs
  <2>5. att'.caller = "renew" => renewal' \in Procs /\ HasClient(renewal)'
    BY <1>2, <1>3, NoAttemptProper DEF RefusedInv, InLine, HasClient
  <2> QED BY <2>1, <2>2, <2>3, <2>4, <2>5 DEF InLine
<1>7. Answering'
  <2>1. \A q \in Procs : Unasked(ops'[q].seen)
    BY <1>2, <1>5 DEF RefusedInv, Answering
  <2>2. Unasked(store') /\ Unasked(att'.cand)
    BY <1>1, <1>2, <1>3 DEF RefusedInv, Answering
  <2> QED BY <1>1, <1>2, <2>1, <2>2 DEF Answering, Unasked
<1>8. Refusals'
  BY <1>1 DEF Refusals, Excluded, Ruled
<1>9. Working'
  BY <1>1, <1>2, <1>3 DEF RefusedInv, Working, Turned, Kind
<1>10. Observed'
  <2>1. ASSUME NEW q \in Procs, ops'[q].at \in { "act", "expired", "renew" }, Complete(ops'[q].seen)
        PROVE  Ruled(ops'[q].seen.g)
    BY <1>2, <1>5, <2>1, RuledGrows DEF RefusedInv, Observed
  <2> QED BY <2>1 DEF Observed, Excluded, Ruled
<1>11. SpentInv'
  <2>1. \A q \in Procs : /\ ops'[q].seen.g <= provider.issued
                         /\ ops'[q].at = "renew" /\ att'.caller # "renew" => Unspent(ops'[q].seen.g)
    <3>1. \A q \in Procs : ops'[q].at = "renew" => att' = att /\ ops'[q] = ops[q]
      BY <1>2, <1>5 DEF RefusedInv, InLine
    <3> QED BY <1>2, <1>5, <3>1, SpentFinds
  <2>2. history.lost \subseteq history'.lost
    BY DEF Grows
  <2>3. Unspent(att'.cand.g) /\ Unspent(Current'.g) /\ att'.cand.g <= provider.issued /\ store'.g <= provider.issued
    BY <1>1, <1>2, <1>3, RunFinds, SpentFinds
  <2> QED BY <1>1, <1>2, <2>1, <2>2, <2>3, SpentLeads
<1> QED BY <1>3, <1>4, <1>6, <1>7, <1>8, <1>9, <1>10, <1>11 DEF HInv, RefusedInv

\* What a call that comes to the lock finds.
LEMMA ExpiredFinds ==
  ASSUME IInv, HInv, NEW p \in Procs, Expired(p)
  PROVE  /\ running /\ att.caller = "nobody" /\ att.stage = "idle" /\ Nobody \notin Procs
         /\ ops[p].at = "expired" /\ renewal = Nobody
         /\ UNCHANGED << att, provider, flow, running, session, history >>
         /\ \A q \in Procs : ops[q].at # "renew"
         /\ Unspent(Current.g)
<1>1. /\ ops[p].at = "expired" /\ renewal = Nobody /\ Nobody \notin Procs
      /\ UNCHANGED << att, provider, flow, running, session, history >>
  BY DEF Expired, Procs, Nobody
<1>2. running
  BY <1>1, CallsRun DEF IInv
<1>3. att.caller = "nobody" /\ \A q \in Procs : ops[q].at # "renew"
  BY <1>1, <1>2, RunFinds DEF HInv, RefusedInv, InLine
<1>4. att.stage = "idle"
  BY <1>3 DEF HInv, RefusedInv, Placed
<1>5. Unspent(Current.g)
  BY <1>2, <1>4, SpentFinds
<1> QED BY <1>1, <1>2, <1>3, <1>4, <1>5

LEMMA ExpiredLeads ==
  ASSUME IInv, HInv, NEW p \in Procs, Expired(p)
  PROVE  HInv'
<1>0. /\ running /\ att.caller = "nobody" /\ Nobody \notin Procs
      /\ ops[p].at = "expired" /\ renewal = Nobody
      /\ UNCHANGED << att, provider, flow, running, session, history >>
      /\ \A q \in Procs : ops[q].at # "renew"
      /\ Unspent(Current.g) /\ RefusedInv
  BY ExpiredFinds DEF HInv
<1>1. /\ NoState.g = 0 /\ Unasked(NoState) /\ 0 <= provider.issued /\ Unasked(Current)
      /\ Current.g <= provider.issued /\ ~ Complete(NoState)
  BY <1>0, RunFinds
<1>2. CASE FlushFails /\ Leaves(p) /\ UNCHANGED << boot, partial, renewal, queue >>
  <2>1. InLineAs(p, "idle", NoState) /\ UNCHANGED << store, pending >> /\ Current' = Current
    BY <1>0, <1>2, LineMoves DEF Leaves, Waiting, FlushFails, Current
  <2>2. InLine'
    <3>1. \A q \in Procs : ops'[q].at # "renew"
      BY <1>0, <2>1 DEF InLineAs
    <3>2. ops'["command"].at \notin { "again", "rejected" }
      BY <1>0, <2>1 DEF RefusedInv, InLine, InLineAs, Procs
    <3>3. ops'["poll"].at = "again" => ops["poll"].at = "again"
      BY <2>1 DEF InLineAs, Procs
    <3> QED BY <1>0, <1>2, <2>1, <3>1, <3>2, <3>3 DEF RefusedInv, InLine, InLineAs, Complete, Procs
  <2> QED BY <1>0, <1>1, <1>2, <2>1, <2>2, MemoryLeads DEF InLineAs
<1>3. CASE /\ Current = NoState
           /\ Retires
           /\ Rejected(p)
           /\ UNCHANGED << renewal, queue >>
  <2>1. ops["poll"].at # "again"
    BY <1>0, <1>1, <1>3 DEF RefusedInv, InLine
  <2>2. Ruled(store.g)
    BY <1>0, <1>3 DEF RefusedInv, Refusals, Excluded, Ruled
  <2>3. session # NoState => history.told
    BY <1>0, <1>1, <1>3 DEF RefusedInv, Working, IInv, Memory, Complete, HasGApp
  <2>4. Grows
    BY <1>0 DEF Grows
  <2>5. CASE p = "poll"
    <3>1. InLineAs(p, "rejected", NoState)
      BY <1>0, <1>3, <2>5, LineMoves DEF Rejected, Waiting
    <3> QED BY <1>0, <1>1, <1>3, <2>1, <2>2, <2>3, <2>4, <2>5, <3>1, RetiresLeads
  <2>6. CASE p # "poll"
    <3>1. InLineAs(p, "idle", NoState)
      BY <1>0, <1>3, <2>6, LineMoves DEF Rejected, Leaves, Waiting
    <3> QED BY <1>0, <1>1, <1>3, <2>1, <2>2, <2>3, <2>4, <3>1, RetiresLeads
  <2> QED BY <2>5, <2>6
<1>4. CASE /\ Current # NoState /\ MustRenew(p)
           /\ Flushed
           /\ renewal' = p
           /\ Goes(p, "renew", Current)
           /\ queue' = Append(queue, p)
           /\ UNCHANGED << boot, partial >>
  <2>1. InLineAs(p, "renew", Current) /\ Current' = Current
    BY <1>0, <1>4, LineMoves DEF Waiting, Current
  <2>2. Complete(Current) => Excluded(Current.g)
    BY <1>0, <1>4 DEF RefusedInv, Observed, MustRenew
  <2>3. InLine'
    <3>1. \A q \in Procs : renewal' = q <=> ops'[q].at = "renew"
      BY <1>0, <1>4, <2>1 DEF InLineAs
    <3>2. ops'["command"].at \notin { "again", "rejected" }
      BY <1>0, <2>1 DEF RefusedInv, InLine, InLineAs, Procs
    <3>3. ops'["poll"].at = "again" => p = "command" /\ ops["poll"].at = "again"
      BY <2>1 DEF InLineAs, Procs
    <3>4. p = "command" /\ ops["poll"].at = "again" => queue' = << "poll", "command" >>
      <4> SUFFICES ASSUME p = "command", ops["poll"].at = "again"
                   PROVE  queue' = << "poll", "command" >>
        OBVIOUS
      <4>1. queue \in Queues /\ Has(queue, "poll") /\ ~ Has(queue, "command")
        BY <1>0 DEF RefusedInv, InLine, Listed, Has, Waiting, Procs
      <4>2. queue = << "poll" >>
        BY <4>1, QueueMembers DEF Queues
      <4> QED BY <1>4, <4>2, OneJoins DEF Procs
    <3>5. pending' = NoState
      BY <1>4 DEF Flushed
    <3> QED BY <1>0, <2>1, <3>1, <3>2, <3>3, <3>4, <3>5 DEF RefusedInv, InLine, InLineAs, Complete
  <2>4. store' \in { store, pending } /\ pending' = NoState
    BY <1>4 DEF Flushed
  <2> QED BY <1>0, <1>1, <1>4, <2>1, <2>2, <2>3, <2>4, MemoryLeads DEF InLineAs
<1>5. CASE /\ Current # NoState /\ ~ MustRenew(p)
           /\ Flushed
           /\ GoesOn(p)
           /\ UNCHANGED << boot, partial, renewal >>
  <2>1. store' \in { store, pending } /\ pending' = NoState /\ Complete(Current) /\ Current' = Current
    BY <1>5 DEF Flushed, MustRenew, Current
  <2>2. \/ p = "poll" /\ InLineAs(p, "again", NoState)
        \/ p # "poll" /\ InLineAs(p, "idle", NoState)
    <3>1. CASE p = "poll"
      BY <1>0, <1>5, <3>1, LineMoves DEF GoesOn, Replays, Waiting
    <3>2. CASE p # "poll"
      BY <1>0, <1>5, <3>2, LineMoves DEF GoesOn, Replays, Leaves, Waiting
    <3> QED BY <3>1, <3>2
  <2>3. \A q \in Procs : ops'[q].at # "renew"
    BY <1>0, <2>2 DEF InLineAs
  <2>4. InLine'
    <3>1. ops'["command"].at \notin { "again", "rejected", "renew" }
      BY <1>0, <2>2, <2>3 DEF RefusedInv, InLine, InLineAs, Procs
    <3>2. queue' \in Queues /\ \A q \in Procs : Listed(q)' <=> ops'[q].at \in Waiting
      BY <2>2 DEF InLineAs
    <3> QED BY <1>0, <1>5, <2>1, <2>3, <3>1, <3>2 DEF InLine, Complete
  <2>5. /\ \A q \in Procs : q # p => ops'[q] = ops[q]
        /\ ops'[p].seen = NoState /\ ops'[p].at \in { "again", "idle" }
    BY <2>2 DEF InLineAs
  <2> QED BY <1>0, <1>1, <1>5, <2>1, <2>4, <2>5, MemoryLeads
<1> QED BY <1>2, <1>3, <1>4, <1>5 DEF Expired

LEMMA GivesUpLeads ==
  ASSUME IInv, HInv, NEW p \in Procs, GivesUp(p)
  PROVE  HInv'
<1>0. /\ ops[p].at \in { "act", "renew", "again" } /\ Leaves(p) /\ Nobody \notin Procs
      /\ renewal' = IF renewal = p THEN Nobody ELSE renewal
      /\ UNCHANGED << att, provider, store, flow, running, session, boot, partial, pending, history >>
      /\ RefusedInv /\ Current' = Current
  BY DEF GivesUp, Procs, Nobody, HInv, Current
<1>1. running
  BY <1>0, CallsRun DEF IInv
<1>2. /\ ops'[p].at = "idle" /\ ops'[p].seen = NoState
      /\ \A q \in Procs : q # p => ops'[q] = ops[q]
  BY <1>0 DEF Leaves, Goes, IInv, Calls
<1>3. PICK i \in 2 .. Len(queue) :
        /\ queue[i] = p
        /\ queue' = SubSeq(queue, 1, i - 1) \o SubSeq(queue, i + 1, Len(queue))
  BY DEF GivesUp
<1>4. queue \in Queues /\ \A q \in Procs : Has(queue, q) <=> ops[q].at \in Waiting
  BY <1>0 DEF RefusedInv, InLine, Has, Listed
<1>5. /\ queue' \in Queues /\ Head(queue) # p /\ queue' # << >> /\ Head(queue') = Head(queue)
      /\ \A q : Has(queue', q) <=> q # p /\ Has(queue, q)
  BY <1>3, <1>4, SecondGoes
<1>6. InLine'
  <2>1. \A q \in Procs : Listed(q)' <=> ops'[q].at \in Waiting
    BY <1>2, <1>4, <1>5 DEF Listed, Has, Waiting
  <2>2. \A q \in Procs : renewal' = q <=> ops'[q].at = "renew"
    BY <1>0, <1>2 DEF RefusedInv, InLine
  <2>3. ops'["command"].at \notin { "again", "rejected" }
    BY <1>0, <1>2 DEF RefusedInv, InLine, Procs
  <2>4. att'.caller = "renew" => renewal' \in Procs /\ HasClient(renewal)'
    BY <1>0, <1>5 DEF RefusedInv, InLine, HasClient
  <2>5. ops'["poll"].at = "again" =>
          /\ ops["poll"].at = "again" /\ p = "command" /\ ops'["command"].at # "renew"
    BY <1>2 DEF Procs
  <2> QED BY <1>0, <1>5, <2>1, <2>2, <2>3, <2>4, <2>5 DEF RefusedInv, InLine, Complete
<1> QED BY <1>0, <1>1, <1>2, <1>6, MemoryLeads, RunFinds

LEMMA ReportLeads ==
  ASSUME IInv, HInv, Report
  PROVE  HInv'
<1>0. /\ ops["poll"].at = "rejected" /\ "poll" \in Procs
      /\ UNCHANGED << att, provider, flow, running, session, renewal, queue >>
      /\ Retires /\ Leaves("poll")
  BY DEF Report, Procs
<1>1. running
  BY <1>0, CallsRun DEF IInv
<1>2. /\ Grows /\ history'.asked = history.asked /\ history'.excused = history.excused
      /\ history'.told
  BY DEF Report, Grows, IInv, Histories
<1>3. InLineAs("poll", "idle", NoState)
  BY <1>0, LineMoves DEF Leaves, Waiting
<1> QED BY <1>0, <1>1, <1>2, <1>3, RetiresLeads DEF Ruled

LEMMA AgainLeads ==
  ASSUME IInv, HInv, NEW p \in Procs, Again(p)
  PROVE  HInv'
<1>0. /\ ops[p].at = "again" /\ HasClient(p) /\ queue' = Tail(queue)
      /\ UNCHANGED << att, flow, running, renewal >> /\ RefusedInv
  BY DEF Again, HInv
<1>1. p = "poll" /\ Complete(Current) /\ pending = NoState /\ att.caller # "renew"
  BY <1>0 DEF RefusedInv, InLine, Procs
<1>2. running
  BY <1>0, CallsRun DEF IInv
<1>3. PICK answer \in Answers :
        /\ Served(answer)
        /\ IF answer = "refused"
           THEN Retires /\ Rejected(p)
           ELSE Leaves(p) /\ UNCHANGED << boot, partial, pending, store >>
  BY DEF Again
<1>4. /\ Grows /\ history'.asked = history.asked /\ history'.excused = history.excused
      /\ provider'.spent = provider.spent /\ provider'.issued = provider.issued
      /\ session' \in { session, NoState }
      /\ answer = "refused" => session' = NoState /\ Ruled(Current.g)
  BY <1>1, <1>3, ServedLeads
<1>5. CASE answer = "refused"
  <2>1. InLineAs(p, "rejected", NoState)
    BY <1>0, <1>1, <1>3, <1>5, LineMoves DEF Rejected, Waiting
  <2>2. Ruled(store.g)
    BY <1>1, <1>2, <1>4, <1>5, RunFinds DEF Complete
  <2> QED BY <1>0, <1>1, <1>2, <1>3, <1>4, <1>5, <2>1, <2>2, RetiresLeads
<1>6. CASE answer # "refused"
  <2>1. UNCHANGED << provider, session, history >>
    BY <1>3, <1>6 DEF Served, Answers
  <2>2. InLineAs(p, "idle", NoState) /\ UNCHANGED << boot, partial, pending, store >>
    BY <1>0, <1>3, <1>6, LineMoves DEF Leaves, Waiting
  <2>3. InLine'
    <3>1. /\ ops'["poll"].at = "idle" /\ ops'["command"] = ops["command"]
          /\ queue' \in Queues /\ \A q \in Procs : Listed(q)' <=> ops'[q].at \in Waiting
      BY <1>1, <2>2 DEF InLineAs, Procs
    <3>2. \A q \in Procs : renewal' = q <=> ops'[q].at = "renew"
      BY <1>0, <1>1, <3>1 DEF RefusedInv, InLine, Procs
    <3> QED BY <1>0, <1>1, <3>1, <3>2 DEF RefusedInv, InLine
  <2> QED BY <1>0, <1>1, <1>2, <2>1, <2>2, <2>3, RunFinds, MemoryLeads DEF InLineAs
<1> QED BY <1>5, <1>6

\* The attempt a renewal starts.
LEMMA RenewFields ==
  ASSUME IInv, HInv, NEW p \in Procs, Renew(p)
  PROVE  /\ att.stage = "idle" /\ ops[p].at = "renew" /\ HasClient(p) /\ renewal = p
         /\ att.caller = "nobody" /\ Nobody \notin Procs
         /\ att'.caller = "renew" /\ ~ att'.allow /\ att'.cand = ops[p].seen
         /\ \/ /\ session \in { NoState, ops[p].seen } /\ session' = NoState
               /\ \/ att'.stage = "refresh"
                  \/ att'.stage = "publish" /\ att'.cand.down = 0
            \/ /\ session' = session /\ att'.stage = "ended"
               /\ att'.outcome.kind = "error" /\ att'.outcome.class = "other"
<1> DEFINE s == ops[p].seen
           a == [ NoAttempt EXCEPT !.caller = "renew", !.cand = s ]
<1>1. /\ att.stage = "idle" /\ ops[p].at = "renew" /\ HasClient(p)
      /\ IF session \in { NoState, s }
         THEN att' = StartRenewal(a) /\ session' = NoState
         ELSE att' = Raised(a, "Configuration") /\ UNCHANGED session
  BY DEF Renew
<1>2. /\ renewal = p /\ att.caller = "nobody" /\ Nobody \notin Procs
      /\ s \in ChinaAuthState /\ HasGApp(s)
  BY <1>1 DEF HInv, RefusedInv, InLine, Placed, Procs, Nobody, IInv, Calls, Whole
<1> HIDE DEF s
<1>3. /\ a \in Attempts /\ a.caller = "renew" /\ a.cand = s /\ a.allow = FALSE
  BY <1>2, NoAttemptProper DEF Proper, Attempts, Callers, NoAttempt
<1> HIDE DEF a
<1>4. CASE session \in { NoState, s } /\ att' = StartRenewal(a) /\ session' = NoState
  <2>1. att' = [ a EXCEPT !.stage = IF Complete(a.cand) THEN "refresh" ELSE "publish" ]
    BY <1>4 DEF StartRenewal
  <2>2. /\ att'.caller = "renew" /\ att'.allow = FALSE /\ att'.cand = s
        /\ att'.stage = IF Complete(s) THEN "refresh" ELSE "publish"
    BY <1>3, <2>1 DEF Attempts
  <2>3. ~ Complete(s) => s.down = 0
    BY <1>2 DEF Complete
  <2> QED BY <1>1, <1>2, <1>4, <2>2, <2>3 DEF s
<1>5. CASE att' = Raised(a, "Configuration") /\ UNCHANGED session
  <2>1. EndedAs(att', a, a.cand, "error", "other")
    BY <1>3, <1>5, EndedFields DEF ErrorClass
  <2> QED BY <1>1, <1>2, <1>3, <1>5, <2>1 DEF EndedAs, s
<1> QED BY <1>1, <1>2, <1>4, <1>5 DEF s

LEMMA RenewLeads ==
  ASSUME IInv, HInv, NEW p \in Procs, Renew(p)
  PROVE  HInv'
<1>0. /\ UNCHANGED << provider, store, flow, running, boot, partial, pending, ops, renewal, queue, history >>
      /\ RefusedInv /\ Current' = Current
  BY DEF Renew, HInv, Current
<1>1. /\ att.stage = "idle" /\ ops[p].at = "renew" /\ HasClient(p) /\ renewal = p
      /\ att.caller = "nobody" /\ Nobody \notin Procs
      /\ att'.caller = "renew" /\ ~ att'.allow /\ att'.cand = ops[p].seen
      /\ \/ /\ session \in { NoState, ops[p].seen } /\ session' = NoState
            /\ \/ att'.stage = "refresh"
               \/ att'.stage = "publish" /\ att'.cand.down = 0
         \/ /\ session' = session /\ att'.stage = "ended"
            /\ att'.outcome.kind = "error" /\ att'.outcome.class = "other"
  BY RenewFields
<1>2. running
  BY <1>1, CallsRun DEF IInv
<1>3. /\ NoState.g = 0 /\ ~ Complete(NoState) /\ Current.g <= provider.issued /\ Unspent(Current.g)
  BY <1>1, <1>2, RunFinds, SpentFinds
<1>4. InLine'
  <2>1. ops["poll"].at # "again"
    <3> SUFFICES ASSUME ops["poll"].at = "again"
                 PROVE  FALSE
      OBVIOUS
    <3>1. p = "command"
      BY <1>1 DEF Procs
    <3>2. queue = << "poll", "command" >>
      BY <1>0, <1>1, <3>1 DEF RefusedInv, InLine
    <3> QED BY <1>1, <3>1, <3>2 DEF HasClient
  <2> QED BY <1>0, <1>1, <2>1 DEF RefusedInv, InLine, Listed, HasClient
<1>5. Placed(att')
  BY <1>1 DEF Placed
<1>6. FlowStored' /\ AskedInv' /\ Beside'
  BY <1>0, <1>1, <1>2, <1>5, RunLeads
<1>7. Answering'
  BY <1>0, <1>1 DEF RefusedInv, Answering, Unasked
<1>8. ~ Turned(att') /\ (att'.stage = "ended" => att'.outcome.kind = "error")
  BY <1>1 DEF Turned
<1>9. Refusals'
  BY <1>0, <1>8 DEF RefusedInv, Refusals, Excluded
<1>10. Working'
  <2>1. session' = NoState /\ Complete(Current) => Excluded(Current.g)
    <3>1. CASE session = NoState
      BY <1>0, <3>1 DEF RefusedInv, Working
    <3>2. CASE session # NoState
      <4> SUFFICES ASSUME session' = NoState
                   PROVE  Excluded(Current.g)
        OBVIOUS
      <4>1. session = ops[p].seen /\ Complete(session)
        BY <1>1, <3>2 DEF IInv, Memory
      <4>2. Excluded(session.g)
        BY <1>0, <1>1, <4>1 DEF RefusedInv, Observed
      <4> QED BY <1>0, <3>2, <4>2 DEF RefusedInv, Working, Excluded
    <3> QED BY <3>1, <3>2
  <2>2. session' # NoState => session'.g = Current.g \/ history.told
    BY <1>0, <1>1 DEF RefusedInv, Working
  <2>3. att'.stage # "ended" \/ att'.outcome.kind \in { "authenticated" } => session' = NoState
    BY <1>1
  <2> QED BY <1>0, <1>8, <2>1, <2>2, <2>3 DEF Working, Excluded, Kind, Turned
<1>11. Observed'
  BY <1>0 DEF RefusedInv, Observed, Excluded
<1>12. SpentInv'
  <2>1. Unspent(att'.cand.g) /\ att'.cand.g <= provider.issued
    BY <1>1, <1>2, SpentFinds
  <2> QED BY <1>0, <1>1, <1>2, <1>3, <2>1, SpentLeads, SpentFinds
<1> QED BY <1>4, <1>5, <1>6, <1>7, <1>9, <1>10, <1>11, <1>12 DEF HInv, RefusedInv

LEMMA PublishLeads ==
  ASSUME IInv, HInv, Publish
  PROVE  HInv'
<1>0. /\ att.stage = "publish" /\ att.caller = "renew" /\ running /\ HasGApp(att.cand)
      /\ att.cand.down = 0 /\ ~ att.allow /\ Whole(att.cand) /\ att \in Attempts
      /\ RefusedInv
  BY DEF Publish, HInv, RefusedInv, Placed, IInv, Proper, StageOf, Apart
<1>1. /\ UNCHANGED << provider, flow, running, session, ops, renewal, queue, history >>
      /\ partial' = att.cand /\ boot' = NoState
      /\ store' \in { store, att.cand } /\ pending' \in { NoState, att.cand }
      /\ att' \in { Platforms(att, att.cand), Raised(att, "Network"), Raised(att, "Deadline") }
  BY DEF Publish
<1>2. /\ NoState.g = 0 /\ ~ Complete(NoState) /\ ~ HasGApp(NoState) /\ Unasked(NoState)
      /\ 0 <= provider.issued
  BY <1>0, RunFinds
<1>3. Current' = att.cand /\ ~ Complete(att.cand)
  BY <1>0, <1>1, <1>2 DEF Current, Complete
<1>4. /\ att'.caller = "renew" /\ ~ att'.allow /\ att'.cand.g = att.cand.g
      /\ att'.cand.asked = att.cand.asked
      /\ \/ att'.stage = "platforms"
         \/ /\ att'.stage = "ended" /\ att'.outcome.kind = "error"
            /\ att'.outcome.class \in { "other", "Deadline" }
  <2>1. CASE att' = Platforms(att, att.cand)
    BY <1>0, <2>1, PairFields DEF Attempts
  <2>2. CASE att' \in { Raised(att, "Network"), Raised(att, "Deadline") }
    <3>1. \A e : EndedAs(Raised(att, e), att, att.cand, "error", ErrorClass(e))
      BY <1>0, EndedFields
    <3>2. \/ EndedAs(att', att, att.cand, "error", ErrorClass("Network"))
          \/ EndedAs(att', att, att.cand, "error", ErrorClass("Deadline"))
      BY <2>2, <3>1
    <3>3. ErrorClass("Network") = "other" /\ ErrorClass("Deadline") = "Deadline"
      BY DEF ErrorClass
    <3> QED BY <1>0, <3>2, <3>3 DEF EndedAs
  <2> QED BY <1>1, <2>1, <2>2
<1>5. InLine'
  BY <1>0, <1>1, <1>4 DEF RefusedInv, InLine, Listed, HasClient
<1>6. Placed(att') /\ ~ Turned(att') /\ (att'.stage = "ended" => att'.outcome.kind = "error")
  BY <1>4 DEF Placed, Turned
<1>7. FlowStored' /\ AskedInv' /\ Beside'
  BY <1>0, <1>1, <1>4, <1>6, RunLeads
<1>8. Unasked(att.cand) /\ Unasked(att'.cand)
  BY <1>0, <1>4 DEF RefusedInv, Answering, Unasked, HasGApp
<1>9. Answering'
  <2>1. \A s \in { store', pending', boot', partial', att'.cand } : Unasked(s)
    BY <1>0, <1>1, <1>2, <1>8 DEF RefusedInv, Answering
  <2>2. \A q \in Procs : Unasked(ops'[q].seen)
    BY <1>0, <1>1 DEF RefusedInv, Answering
  <2>3. pending' # NoState => HasGApp(pending')
    BY <1>0, <1>1
  <2> QED BY <2>1, <2>2, <2>3 DEF Answering, Unasked, HasGApp
<1>10. Refusals'
  BY <1>0, <1>2, <1>3, <1>6 DEF Refusals
<1>11. session = NoState
  BY <1>0 DEF RefusedInv, Working
<1>12. Working'
  BY <1>1, <1>3, <1>11 DEF Working
<1>13. Observed'
  <2>1. Complete(Current) => Excluded(Current.g)
    BY <1>0, <1>11 DEF RefusedInv, Working
  <2> QED BY <1>0, <1>1, <2>1 DEF RefusedInv, Observed, Excluded
<1>14. SpentInv'
  <2>1. /\ store'.g <= provider.issued /\ pending'.g <= provider.issued /\ boot'.g <= provider.issued
        /\ partial'.g <= provider.issued /\ att'.cand.g <= provider.issued
        /\ Unspent(att'.cand.g) /\ Unspent(Current'.g)
    BY <1>0, <1>1, <1>2, <1>3, <1>4, SpentFinds
  <2> QED BY <1>0, <1>1, <1>4, <2>1, SpentLeads, SpentFinds
<1> QED BY <1>5, <1>6, <1>7, <1>9, <1>10, <1>12, <1>13, <1>14 DEF HInv, RefusedInv

\* The end of a renewal, and what it finds.
LEMMA RenewalEndsLeads ==
  ASSUME IInv, HInv, NEW p \in Procs, RenewalEnds(p)
  PROVE  HInv'
<1>0. /\ renewal = p /\ HasClient(p) /\ Over("renew") /\ att' = NoAttempt /\ renewal' = Nobody
      /\ UNCHANGED << provider, flow, running, history >>
  BY DEF RenewalEnds, Unlocks
<1>1. /\ RefusedInv /\ att.caller = "renew" /\ att.stage = "ended" /\ Nobody \notin Procs
  BY <1>0 DEF HInv, Over, Procs, Nobody
<1>2. running
  BY <1>0, CallsRun DEF IInv
<1>3. /\ NoState.g = 0 /\ ~ Complete(NoState) /\ ~ HasGApp(NoState) /\ Unasked(NoState)
      /\ 0 <= provider.issued /\ Unspent(NoState.g)
  BY <1>2, RunFinds
<1>4. /\ Placed(att') /\ Unasked(att'.cand) /\ att'.caller = "nobody" /\ att'.stage = "idle"
      /\ att'.cand = NoState
  BY <1>0, NobodyPlaced
<1>5. FlowStored' /\ AskedInv' /\ Beside' /\ Grows
  BY <1>0, <1>2, <1>4, RunLeads DEF Grows
<1>6. ops["poll"].at # "again" /\ \A q \in Procs : q # p => ops[q].at # "renew"
  BY <1>0, <1>1 DEF RefusedInv, InLine
<1>7. Unspent(Current.g) /\ Unspent(att.cand.g)
  BY <1>1, <1>2, SpentFinds
<1>8. CASE /\ Kind({"authenticated"})
           /\ session' = att.cand /\ boot' = att.cand /\ partial' = NoState
           /\ store' \in { store, att.cand } /\ pending' \in { NoState, att.cand }
           /\ \/ Goes(p, "again", NoState) /\ queue' = Append(Tail(queue), p) /\ p = "poll"
                 /\ pending' = NoState
              \/ Leaves(p) /\ queue' = Tail(queue)
  <2>1. Complete(att.cand) /\ HasGApp(att.cand) /\ Unasked(att.cand)
    BY <1>1, <1>8 DEF IInv, Proper, StageOf, Kind, Complete, RefusedInv, Answering
  <2>2. Current' = att.cand /\ Complete(Current)'
    BY <1>8, <2>1 DEF Current, Complete, HasGApp
  <2>3. \/ InLineAs(p, "again", NoState) /\ p = "poll" /\ pending' = NoState
        \/ InLineAs(p, "idle", NoState)
    BY <1>0, <1>8, LineMoves DEF Leaves, Waiting
  <2>4. \A q \in Procs : \/ q # p /\ ops'[q] = ops[q]
                         \/ q = p /\ ops'[q].at \in { "idle", "again" } /\ ops'[q].seen = NoState
    BY <2>3 DEF InLineAs
  <2>5. InLine'
    <3>1. queue' \in Queues /\ \A q \in Procs : Listed(q)' <=> ops'[q].at \in Waiting
      BY <2>3 DEF InLineAs
    <3>2. \A q \in Procs : ops'[q].at # "renew"
      BY <1>6, <2>4
    <3>3. ops'["command"].at \notin { "again", "rejected" }
      BY <1>1, <2>3 DEF RefusedInv, InLine, InLineAs, Procs
    <3>4. ops'["poll"].at = "again" => pending' = NoState
      BY <1>6, <2>3 DEF InLineAs, Procs
    <3> QED BY <1>0, <1>1, <1>4, <2>2, <3>1, <3>2, <3>3, <3>4 DEF InLine, Procs
  <2>6. Answering'
    <3>1. \A s \in { store', pending', boot', partial', att'.cand } : Unasked(s)
      BY <1>1, <1>3, <1>4, <1>8, <2>1 DEF RefusedInv, Answering
    <3>2. \A q \in Procs : Unasked(ops'[q].seen)
      BY <1>1, <1>3, <2>4 DEF RefusedInv, Answering
    <3>3. pending' # NoState => HasGApp(pending')
      BY <1>8, <2>1
    <3> QED BY <3>1, <3>2, <3>3 DEF Answering, Unasked, HasGApp
  <2>7. Refusals'
    BY <1>3, <1>4, <2>2 DEF Refusals
  <2>8. session = NoState
    BY <1>1, <1>8 DEF RefusedInv, Working
  <2>9. Working'
    BY <1>3, <1>4, <1>8, <2>2 DEF Working
  <2>10. Observed'
    <3>1. Complete(Current) => Excluded(Current.g)
      BY <1>1, <2>8 DEF RefusedInv, Working
    <3>2. ASSUME NEW q \in Procs, ops'[q].at \in { "act", "expired", "renew" }, Complete(ops'[q].seen)
          PROVE  Excluded(ops'[q].seen.g)
      BY <1>1, <2>4, <3>1, <3>2 DEF RefusedInv, Observed
    <3> QED BY <1>0, <3>2 DEF Observed, Excluded
  <2>11. SpentInv'
    <3>1. /\ store'.g <= provider.issued /\ pending'.g <= provider.issued /\ boot'.g <= provider.issued
          /\ partial'.g <= provider.issued /\ att'.cand.g <= provider.issued
          /\ Unspent(att'.cand.g) /\ Unspent(Current'.g)
      BY <1>2, <1>3, <1>4, <1>7, <1>8, <2>2, SpentFinds
    <3>2. \A q \in Procs : ops'[q].seen.g <= provider.issued /\ ops'[q].at # "renew"
      BY <1>2, <1>3, <1>6, <2>4, SpentFinds
    <3> QED BY <1>0, <1>2, <3>1, <3>2, SpentLeads
  <2> QED BY <1>4, <1>5, <2>5, <2>6, <2>7, <2>9, <2>10, <2>11 DEF HInv, RefusedInv
<1>9. CASE /\ Kind({"error"}) /\ att.outcome.class \in {"Authentication", "Risk"}
           /\ Retires
           /\ Rejected(p)
           /\ queue' = Tail(queue)
           /\ UNCHANGED session
  <2>1. Turned(att)
    BY <1>1, <1>9 DEF Turned
  <2>2. session = NoState /\ Excluded(store.g)
    BY <1>1, <2>1 DEF RefusedInv, Working, Refusals
  <2>3. Complete(Current) => Excluded(Current.g)
    BY <1>1, <2>2 DEF RefusedInv, Working
  <2>4. Ruled(store.g) /\ (Complete(Current) => Ruled(Current.g))
    BY <1>5, <2>2, <2>3, RuledGrows
  <2>5. CASE p = "poll"
    <3>1. InLineAs(p, "rejected", NoState)
      BY <1>0, <1>9, <2>5, LineMoves DEF Rejected, Waiting
    <3> QED BY <1>0, <1>2, <1>5, <1>6, <1>9, <2>2, <2>4, <2>5, <3>1, RetiresLeads
  <2>6. CASE p # "poll"
    <3>1. InLineAs(p, "idle", NoState)
      BY <1>0, <1>9, <2>6, LineMoves DEF Rejected, Leaves, Waiting
    <3> QED BY <1>0, <1>2, <1>5, <1>6, <1>9, <2>2, <2>4, <3>1, RetiresLeads
  <2> QED BY <2>5, <2>6
<1>10. CASE /\ Leaves(p)
            /\ queue' = Tail(queue)
            /\ UNCHANGED << store, session, boot, partial, pending >>
  <2>1. InLineAs(p, "idle", NoState) /\ Current' = Current
    BY <1>0, <1>10, LineMoves DEF Leaves, Waiting, Current
  <2>2. \A q \in Procs : \/ q # p /\ ops'[q] = ops[q]
                         \/ q = p /\ ops'[q].at = "idle" /\ ops'[q].seen = NoState
    BY <2>1 DEF InLineAs
  <2>3. InLine'
    <3>1. queue' \in Queues /\ \A q \in Procs : Listed(q)' <=> ops'[q].at \in Waiting
      BY <2>1 DEF InLineAs
    <3>2. \A q \in Procs : ops'[q].at # "renew"
      BY <1>6, <2>2
    <3>3. ops'["command"].at \notin { "again", "rejected" } /\ ops'["poll"].at # "again"
      BY <1>1, <1>6, <2>2 DEF RefusedInv, InLine, Procs
    <3> QED BY <1>0, <1>1, <1>4, <3>1, <3>2, <3>3 DEF InLine, Procs
  <2>4. Answering'
    BY <1>1, <1>3, <1>4, <1>10, <2>2 DEF RefusedInv, Answering, Unasked
  <2>5. Refusals' /\ Working' /\ Observed'
    BY <1>0, <1>1, <1>4, <1>10, <2>1, <2>2
    DEF RefusedInv, Refusals, Working, Observed, Excluded
  <2>6. SpentInv'
    <3>1. \A q \in Procs : ops'[q].seen.g <= provider.issued /\ ops'[q].at # "renew"
      BY <1>2, <1>3, <1>6, <2>2, SpentFinds
    <3> QED BY <1>0, <1>2, <1>3, <1>4, <1>7, <1>10, <2>1, <3>1, SpentLeads, SpentFinds
  <2> QED BY <1>4, <1>5, <2>3, <2>4, <2>5, <2>6 DEF HInv, RefusedInv
<1> QED BY <1>8, <1>9, <1>10 DEF RenewalEnds, Replays

---------------------------------------------------------------------------
(* Time and restarts.                                                      *)

\* An older record is of the same pair.
LEMMA OlderFields ==
  ASSUME NEW s, Whole(s)
  PROVE  /\ Older(s).g = s.g /\ Older(s).down = s.down
         /\ Older(s).asked = IF s.asked = "recent" THEN "old" ELSE s.asked
BY OlderKept DEF Older, Whole, ChinaAuthState

LEMMA IntervalLeads ==
  ASSUME IInv, HInv, IntervalPasses
  PROVE  HInv'
<1>0. /\ UNCHANGED << provider, running >> /\ UNCHANGED runtime
      /\ store' = Older(store) /\ flow' = [ flow EXCEPT !.state = Older(@) ]
      /\ att' = [ att EXCEPT !.cand = Older(@) ]
      /\ history' = [ history EXCEPT !.asked = FALSE ]
  BY DEF IntervalPasses
<1>1. /\ att \in Attempts /\ flow \in Flows /\ Whole(store) /\ Whole(flow.state) /\ Whole(att.cand)
      /\ history \in Histories
  BY DEF IInv, Proper, Memory
<1> DEFINE c == Older(att.cand)
           f == Older(flow.state)
<1>2. /\ c.g = att.cand.g /\ c.down = att.cand.down
      /\ c.asked = IF att.cand.asked = "recent" THEN "old" ELSE att.cand.asked
      /\ store'.g = store.g
      /\ store'.asked = IF store.asked = "recent" THEN "old" ELSE store.asked
      /\ f.g = flow.state.g
  BY <1>0, <1>1, OlderFields
<1>3. flow.state = store => f = store'
  BY <1>0
<1>4. att' = [ att EXCEPT !.cand = c ] /\ flow' = [ flow EXCEPT !.state = f ]
  BY <1>0, <1>1 DEF Attempts, Flows
<1> HIDE DEF c, f
<1>5. /\ att'.cand = c /\ att'.stage = att.stage /\ att'.caller = att.caller /\ att'.allow = att.allow
      /\ att'.outcome = att.outcome /\ flow'.state = f /\ flow'.step = flow.step
  BY <1>1, <1>4 DEF Attempts, Flows
<1>6. /\ ~ history'.asked /\ history'.lost = history.lost /\ history'.refused = history.refused
      /\ history'.told = history.told
  BY <1>0, <1>1 DEF Histories
<1>7. UNCHANGED << session, boot, partial, pending, ops, renewal, queue >> /\ Current' = Current
  BY <1>0 DEF runtime, Current
<1>8. RefusedInv /\ SpentInv
  BY DEF HInv
<1>9. Turned(att') <=> Turned(att)
  BY <1>5 DEF Turned
<1>10. InLine'
  BY <1>5, <1>7, <1>8 DEF RefusedInv, InLine, Listed, HasClient, Complete, HasGApp
<1>11. FlowStored'
  BY <1>0, <1>3, <1>5, <1>8 DEF RefusedInv, FlowStored
<1>12. Answering'
  BY <1>2, <1>5, <1>7, <1>8 DEF RefusedInv, Answering, Unasked, HasGApp
<1>13. Placed(att')
  BY <1>2, <1>5, <1>8 DEF RefusedInv, Placed, HasGApp
<1>14. Beside'
  BY <1>2, <1>5, <1>8 DEF RefusedInv, Beside
<1>15. \A g : Excluded(g) => Ruled(g)
  BY <1>6 DEF Excluded, Ruled
<1>16. Refusals'
  BY <1>0, <1>2, <1>5, <1>6, <1>7, <1>8, <1>9, <1>15 DEF RefusedInv, Refusals, Excluded, Ruled
<1>17. Working'
  BY <1>5, <1>6, <1>7, <1>8, <1>9, <1>15 DEF RefusedInv, Working, Excluded, Ruled, Kind
<1>18. Observed'
  BY <1>6, <1>7, <1>8, <1>15 DEF RefusedInv, Observed, Excluded, Ruled
<1>19. SpentInv'
  <2>1. \A g : Unspent(g) => (g \in provider'.spent => g \in history'.lost)
    BY <1>0, <1>6 DEF Unspent
  <2>2. /\ \A g \in provider'.spent : g \in 1 .. provider'.issued
        /\ \A s \in { store', boot', partial', pending', flow'.state, att'.cand } : s.g <= provider'.issued
        /\ \A p \in Procs : ops'[p].seen.g <= provider'.issued
    BY <1>0, <1>2, <1>5, <1>7, <1>8 DEF SpentInv
  <2>3. Unspent(att.cand.g)' /\ (~ running' => Unspent(store.g)' \/ Rotated')
    BY <1>0, <1>2, <1>5, <1>8, <2>1 DEF SpentInv, Unspent, Rotated
  <2>4. /\ running' => Unspent(Current.g)' \/ att'.stage = "publish"
        /\ \A p \in Procs : ops'[p].at = "renew" /\ att'.caller # "renew" => Unspent(ops[p].seen.g)'
    BY <1>0, <1>5, <1>7, <1>8, <2>1 DEF SpentInv, Unspent
  <2> QED BY <2>2, <2>3, <2>4 DEF SpentInv
<1>20. AskedInv'
  BY <1>6 DEF AskedInv, Remembered
<1> QED
  BY <1>10, <1>11, <1>12, <1>13, <1>14, <1>16, <1>17, <1>18, <1>19, <1>20 DEF HInv, RefusedInv

\* What a restart adds to the history.
LEMMA RestartFields ==
  ASSUME IInv, Restart
  PROVE  /\ history'.asked = history.asked /\ history'.excused = (history.excused \/ att # NoAttempt)
         /\ history.lost \subseteq history'.lost /\ Successor(store) \subseteq history'.lost
         /\ Current.g # store.g => store.g \in history'.lost
         /\ \/ /\ att.stage = "refresh" /\ Exchanges(att.cand.g) /\ att.cand.g \in history'.lost
            \/ UNCHANGED provider
<1> DEFINE L == history.lost \cup Successor(store)
                  \cup (IF Current.g # store.g THEN {store.g} ELSE {})
           e == history.excused \/ att # NoAttempt
           forgotten == [ history EXCEPT !.told = FALSE, !.excused = e, !.lost = L ]
<1>1. history \in Histories
  BY DEF IInv
<1>2. \/ /\ att.stage = "refresh" /\ Exchanges(att.cand.g)
         /\ history' = [ forgotten EXCEPT !.lost = @ \cup {att.cand.g} ]
      \/ UNCHANGED provider /\ history' = forgotten
  <2>1. forgotten = [ history EXCEPT !.told = FALSE, !.excused = @ \/ att # NoAttempt,
                        !.lost = @ \cup Successor(store)
                                   \cup (IF Current.g # store.g THEN {store.g} ELSE {}) ]
    BY <1>1 DEF Histories
  <2> HIDE DEF forgotten
  <2> QED BY <2>1 DEF Restart
<1>3. /\ history.lost \subseteq L /\ Successor(store) \subseteq L
      /\ Current.g # store.g => store.g \in L
  OBVIOUS
<1> HIDE DEF L, e
<1>4. /\ forgotten.asked = history.asked /\ forgotten.excused = e /\ forgotten.lost = L
      /\ DOMAIN forgotten = DOMAIN history
      /\ [ forgotten EXCEPT !.lost = @ \cup {att.cand.g} ].asked = history.asked
      /\ [ forgotten EXCEPT !.lost = @ \cup {att.cand.g} ].excused = e
      /\ [ forgotten EXCEPT !.lost = @ \cup {att.cand.g} ].lost = L \cup {att.cand.g}
  BY <1>1 DEF Histories
<1> HIDE DEF forgotten
<1>5. history'.asked = history.asked /\ history'.excused = e /\ L \subseteq history'.lost
  BY <1>2, <1>4
<1>6. \/ /\ att.stage = "refresh" /\ Exchanges(att.cand.g) /\ att.cand.g \in history'.lost
      \/ UNCHANGED provider
  BY <1>2, <1>4
<1>7. /\ history.lost \subseteq history'.lost /\ Successor(store) \subseteq history'.lost
      /\ Current.g # store.g => store.g \in history'.lost
  BY <1>3, <1>5
<1> QED BY <1>5, <1>6, <1>7 DEF e

LEMMA RestartLeads ==
  ASSUME IInv, HInv, Restart
  PROVE  HInv'
<1>0. /\ att' = NoAttempt /\ flow' = NoFlow /\ ~ running' /\ UNCHANGED store /\ Quiet'
      /\ att # NoAttempt \/ running
  BY DEF Restart, Quiet
<1>1. /\ history'.asked = history.asked /\ history'.excused = (history.excused \/ att # NoAttempt)
      /\ history.lost \subseteq history'.lost /\ Successor(store) \subseteq history'.lost
      /\ Current.g # store.g => store.g \in history'.lost
      /\ \/ /\ att.stage = "refresh" /\ Exchanges(att.cand.g) /\ att.cand.g \in history'.lost
         \/ UNCHANGED provider
  BY RestartFields
<1>2. /\ Placed(att') /\ Unasked(att'.cand) /\ att'.caller = "nobody" /\ att'.stage = "idle"
      /\ att'.cand.g = 0 /\ NoFlow.step = "none" /\ NoFlow.state.g = 0
  BY <1>0, NobodyPlaced DEF NoFlow
<1>3. InLine' /\ Working' /\ Observed'
  BY <1>0, <1>2, QuietLine
<1>4. FlowStored' /\ Beside' /\ Refusals'
  BY <1>0, <1>2 DEF FlowStored, Beside, Refusals
<1>5. RefusedInv /\ SpentInv /\ AskedInv /\ provider.issued \in Nat /\ 0 \notin provider.spent
  BY PairNumbers DEF HInv
<1>6. /\ provider'.issued \in Nat /\ provider.issued <= provider'.issued /\ 0 \notin provider'.spent
      /\ \A g \in provider'.spent : g \in 1 .. provider'.issued
      /\ \A g \in provider'.spent : g \in provider.spent \/ g \in history'.lost
  <2>1. CASE UNCHANGED provider
    BY <1>5, <2>1 DEF SpentInv
  <2>2. CASE att.stage = "refresh" /\ Exchanges(att.cand.g) /\ att.cand.g \in history'.lost
    <3>1. /\ provider'.spent = provider.spent \cup {att.cand.g}
          /\ provider'.issued = provider.issued + 1
      BY <2>2, ExchangeFields DEF IInv
    <3>2. att.cand.g # 0 /\ att.cand.g <= provider.issued /\ att.cand.g \in Nat
      BY <1>5, <2>2, PairNumbers DEF SpentInv, IInv, Proper, StageOf, Complete, HasGApp
    <3>3. \A g \in provider.spent : g \in 1 .. provider.issued
      BY <1>5 DEF SpentInv
    <3> QED BY <1>5, <2>2, <3>1, <3>2, <3>3
  <2> QED BY <1>1, <2>1, <2>2
<1>7. \A g : Unspent(g) => (g \in provider'.spent => g \in history'.lost)
  BY <1>1, <1>6 DEF Unspent
<1>8. Unspent(store.g) \/ store.g \in history'.lost
  <2>1. CASE ~ running
    BY <1>1, <1>5, <2>1 DEF SpentInv, Rotated, Successor
  <2>2. CASE running
    <3>1. CASE att.stage = "publish"
      <4>1. HasGApp(att.cand) /\ Unspent(att.cand.g)
        BY <1>5, <3>1 DEF IInv, Proper, StageOf, SpentInv
      <4> QED BY <1>1, <4>1 DEF Successor, HasGApp
    <3>2. CASE Unspent(Current.g)
      BY <1>1, <3>2
    <3> QED BY <1>5, <2>2, <3>1, <3>2 DEF SpentInv
  <2> QED BY <2>1, <2>2
<1>9. Unspent(store.g)' /\ Unspent(att.cand.g)'
  BY <1>0, <1>2, <1>6, <1>7, <1>8 DEF Unspent
<1>10. store'.g <= provider'.issued
  BY <1>0, <1>5, <1>6, PairNumbers DEF SpentInv
<1>11. Answering' /\ SpentInv'
  <2>1. Unasked(store')
    BY <1>0, <1>5 DEF RefusedInv, Answering
  <2> QED BY <1>0, <1>2, <1>6, <1>9, <1>10, <2>1, QuietStates
<1>12. AskedInv'
  <2>1. Remembered'
    BY <1>0, <1>1, <1>5 DEF AskedInv, Remembered
  <2> QED BY <1>0, <1>2, <2>1 DEF AskedInv
<1> QED BY <1>2, <1>3, <1>4, <1>11, <1>12 DEF HInv, RefusedInv

---------------------------------------------------------------------------
(* The invariant of the history.                                           *)

LEMMA HistoryInit == Init => HInv
<1> SUFFICES ASSUME Init
             PROVE  HInv
  OBVIOUS
<1>1. /\ att = NoAttempt /\ store = NoState /\ flow = NoFlow /\ ~ running /\ Quiet
      /\ provider.spent = {} /\ provider.issued = 0
      /\ ~ history.asked /\ queue = << >> /\ renewal = Nobody
      /\ session = NoState /\ boot = NoState /\ partial = NoState /\ pending = NoState
      /\ \A p \in Procs : ops[p].at = "idle" /\ ops[p].seen = NoState
  BY DEF Init, Quiet
<1>2. /\ Placed(att) /\ att.caller = "nobody" /\ att.stage = "idle" /\ att.cand = NoState
      /\ Unasked(NoState) /\ NoState.g = 0 /\ ~ Complete(NoState) /\ Current = NoState
      /\ flow.step = "none" /\ flow.state = NoState
  BY <1>1, NobodyPlaced DEF NoFlow, Complete, HasGApp, Current, Unasked
<1>3. InLine
  <2>1. queue \in Queues /\ \A p \in Procs : ~ Listed(p)
    BY <1>1, QueueMembers DEF Queues, Listed, Has
  <2> QED BY <1>1, <1>2, <2>1 DEF InLine, Waiting, Procs, Nobody
<1>4. FlowStored /\ Answering /\ Beside
  BY <1>1, <1>2 DEF FlowStored, Answering, Beside
<1>5. Refusals /\ Working /\ Observed
  BY <1>1, <1>2 DEF Refusals, Working, Observed
<1>6. SpentInv
  BY <1>1, <1>2 DEF SpentInv, Unspent
<1>7. AskedInv
  BY <1>1 DEF AskedInv, Remembered
<1> QED BY <1>2, <1>3, <1>4, <1>5, <1>6, <1>7 DEF HInv, RefusedInv

LEMMA HistoryStep == IInv /\ HInv /\ [Next]_vars => HInv'
<1> SUFFICES ASSUME IInv, HInv, [Next]_vars
             PROVE  HInv'
  OBVIOUS
<1>1. CASE UNCHANGED vars
  <2>1. /\ UNCHANGED << att, provider, store, flow, running, history >>
        /\ UNCHANGED << session, boot, partial, pending, ops, renewal, queue >>
        /\ Current' = Current
    BY <1>1 DEF vars, runtime, Current
  <2>2. InLine' /\ FlowStored' /\ Answering' /\ Placed(att') /\ Beside'
    BY <2>1
    DEF HInv, RefusedInv, InLine, Listed, HasClient, Complete, HasGApp, FlowStored, Answering, Unasked, Beside
  <2>3. Refusals' /\ Working' /\ Observed'
    BY <2>1 DEF HInv, RefusedInv, Refusals, Working, Observed, Excluded, Turned, Kind, Complete, HasGApp
  <2>4. SpentInv' /\ AskedInv'
    BY <2>1 DEF HInv, SpentInv, Unspent, Rotated, AskedInv, Remembered
  <2> QED BY <2>2, <2>3, <2>4 DEF HInv, RefusedInv
<1>2. CASE SubmitAccount \/ SubmitCode \/ RetryInitialization \/ AbandonFlow \/ Setup
  BY <1>2, SubmitAccountLeads, SubmitAgainLeads, AbandonLeads, SetupLeads
<1>3. CASE RouteResult \/ SetupEnds
  BY <1>3, RouteResultLeads, SetupEndsLeads
<1>4. CASE Answered \/ Publish \/ Report
  BY <1>4, AnsweredLeads, PublishLeads, ReportLeads
<1>5. CASE \E p \in Procs : Enter(p) \/ Works(p)
  BY <1>5, EnterLeads, ActLeads, ExpiredLeads, RenewLeads, RenewalEndsLeads, AgainLeads, GivesUpLeads
  DEF Works
<1>6. CASE IntervalPasses \/ Restart
  BY <1>6, IntervalLeads, RestartLeads
<1> QED
  BY <1>1, <1>2, <1>3, <1>4, <1>5, <1>6 DEF Next

\* It holds in every state.
THEOREM HistoryInvariant == Spec => []HInv
BY Invariant, HistoryInit, HistoryStep, PTL DEF Spec

---------------------------------------------------------------------------
(* What may be dropped.                                                    *)

\* A pair leaves the store.
Dropped == store.g # 0 /\ store'.g = 0
Justified == store.g \in history'.refused \/ history'.told

LEMMA FlowDrops ==
  ASSUME IInv, HInv, Dropped,
         SubmitAccount \/ RouteResult \/ SetupEnds
  PROVE  Justified
<1>0. NoState.g = 0 /\ history \in Histories
  BY PairNumbers DEF IInv
\* An attempt that was turned down excludes what is stored.
<1>1. ASSUME att.stage = "ended", att.caller # "nobody", Turned(att),
             history'.refused = history.refused, history'.told = history.told
      PROVE  Justified
  <2>1. Excluded(store.g)
    BY <1>1 DEF HInv, RefusedInv, Refusals
  <2> QED BY <1>1, <2>1 DEF Excluded, Dropped, Justified
<1>2. CASE SubmitAccount
  <2>1. PICK s \in { store, NoState } :
          /\ store' = s
          /\ history' = Asks(IF s = store THEN history
                             ELSE [ history EXCEPT !.asked = FALSE, !.refused = @ \cup {store.g} ])
    BY <1>2 DEF SubmitAccount
  <2>2. s # store
    BY <2>1 DEF Dropped
  <2> DEFINE R == history.refused \cup {store.g}
             h == [ history EXCEPT !.asked = FALSE, !.refused = R ]
  <2>3. history' = Asks(h)
    BY <1>0, <2>1, <2>2 DEF Histories
  <2>4. R \in SUBSET Pairs /\ FALSE \in BOOLEAN /\ store.g \in R
    BY PairsKept DEF IInv
  <2> HIDE DEF R
  <2>5. h \in Histories
    BY <1>0, <2>4, HistoryTyped
  <2>6. h.refused = R
    BY <1>0 DEF Histories
  <2> HIDE DEF h
  <2> QED BY <2>3, <2>4, <2>5, <2>6, AsksFields DEF Justified
<1>3. CASE RouteResult
  <2>1. att.stage = "ended" /\ att.caller = "flow"
    BY <1>3 DEF RouteResult, Over
  <2>2. \/ Kind({"authenticated"}) /\ store' \in { store, att.cand }
        \/ Kind({"verification", "initialization"}) /\ store' \in { store, att.cand }
        \/ Kind({"risk"})
        \/ store' = store
    BY <1>3 DEF RouteResult, Saved, Unsaved
  <2>3. Kind({"authenticated"}) \/ Kind({"initialization"}) => att.cand.g # 0
    BY <2>1 DEF Kind, IInv, HInv, RefusedInv, Placed, Proper, StageOf, Complete, HasGApp
  <2>4. Turned(att)
    BY <2>1, <2>2, <2>3 DEF Kind, Turned, Dropped
  <2>5. history'.refused = history.refused /\ history'.told = history.told
    <3> DEFINE L == history.lost \cup Successor(store)
               M == history.lost \cup Successor(store')
    <3>1. /\ [ history EXCEPT !.lost = M, !.excused = TRUE ].refused = history.refused
          /\ [ history EXCEPT !.lost = M, !.excused = TRUE ].told = history.told
          /\ [ history EXCEPT !.excused = TRUE, !.lost = L ].refused = history.refused
          /\ [ history EXCEPT !.excused = TRUE, !.lost = L ].told = history.told
          /\ \A x : /\ [ history EXCEPT !.excused = x ].refused = history.refused
                    /\ [ history EXCEPT !.excused = x ].told = history.told
          /\ \A x : /\ [ history EXCEPT !.excused = x, !.lost = L ].refused = history.refused
                    /\ [ history EXCEPT !.excused = x, !.lost = L ].told = history.told
      BY <1>0 DEF Histories
    <3>2. \/ history' = [ history EXCEPT !.lost = M, !.excused = TRUE ]
          \/ history' = [ history EXCEPT !.excused = TRUE, !.lost = L ]
          \/ \E x : history' = [ history EXCEPT !.excused = x ]
          \/ \E x : history' = [ history EXCEPT !.excused = x, !.lost = L ]
      BY <1>0, <1>3 DEF RouteResult, Histories
    <3> HIDE DEF L, M
    <3> QED BY <3>1, <3>2
  <2> QED BY <1>1, <2>1, <2>4, <2>5
<1>4. CASE SetupEnds
  <2>1. att.stage = "ended" /\ att.caller = "setup"
    BY <1>4 DEF SetupEnds, Over
  <2>2. \/ Kind({"authenticated", "initialization"}) /\ store' \in { store, att.cand }
        \/ Dropping
        \/ store' = store
    BY <1>4 DEF SetupEnds, Saved, Unsaved, Kind
  <2>3. Kind({"authenticated", "initialization"}) => att.cand.g # 0
    BY <2>1 DEF Kind, IInv, HInv, RefusedInv, Placed, Proper, StageOf, Complete, HasGApp
  <2>4. Turned(att)
    BY <2>1, <2>2, <2>3 DEF Dropping, Turned, Dropped
  <2>5. history'.refused = history.refused /\ history'.told = history.told
    <3> DEFINE L == history.lost \cup Successor(store')
               e == history.excused \/ store' # store
    <3>1. history' = [ history EXCEPT !.lost = L, !.excused = e ]
      BY <1>4 DEF SetupEnds
    <3> HIDE DEF L, e
    <3> QED BY <1>0, <3>1 DEF Histories
  <2> QED BY <1>1, <2>1, <2>4, <2>5
<1> QED BY <1>2, <1>3, <1>4

LEMMA CallDrops ==
  ASSUME IInv, HInv, Dropped, NEW p \in Procs, Enter(p) \/ Works(p)
  PROVE  Justified
<1>0. NoState.g = 0 /\ RefusedInv /\ (pending # NoState => HasGApp(pending))
  BY PairNumbers DEF HInv, RefusedInv, Answering
<1>1. ~ Flushed
  BY <1>0 DEF Flushed, Dropped, HasGApp
<1>2. store' # store
  BY DEF Dropped
<1>3. CASE Enter(p)
  BY <1>1, <1>2, <1>3 DEF Enter, FlushFails
<1>4. CASE Act(p) \/ Renew(p) \/ GivesUp(p)
  BY <1>2, <1>4 DEF Act, Renew, GivesUp
<1>5. CASE Expired(p)
  <2>1. Current = NoState /\ running /\ UNCHANGED history
    BY <1>1, <1>2, <1>5, ExpiredFinds DEF Expired, FlushFails
  <2> QED BY <1>0, <2>1 DEF RefusedInv, Refusals, Excluded, Dropped, Justified
<1>6. CASE RenewalEnds(p)
  <2>1. /\ att.stage = "ended" /\ att.caller = "renew" /\ UNCHANGED history
        /\ \/ Kind({"authenticated"}) /\ store' = att.cand
           \/ Kind({"error"}) /\ att.outcome.class \in {"Authentication", "Risk"}
    BY <1>2, <1>6 DEF RenewalEnds, Over
  <2>2. Kind({"authenticated"}) => att.cand.g # 0
    BY <2>1 DEF Kind, IInv, Proper, StageOf, Complete, HasGApp
  <2>3. Turned(att)
    BY <2>1, <2>2 DEF Dropped, Turned
  <2>4. Excluded(store.g)
    BY <1>0, <2>1, <2>3 DEF RefusedInv, Refusals
  <2> QED BY <2>1, <2>4 DEF Excluded, Dropped, Justified
<1>7. CASE Again(p)
  <2>1. ops[p].at = "again" /\ running
    BY <1>7, CallsRun DEF Again, IInv
  <2>2. Complete(Current) /\ pending = NoState
    BY <1>0, <2>1 DEF RefusedInv, InLine, Procs
  <2>3. store.g = Current.g
    BY <2>1, <2>2, RunFinds DEF Complete
  <2>4. PICK answer \in Answers :
          /\ Served(answer)
          /\ IF answer = "refused"
             THEN Retires /\ Rejected(p)
             ELSE Leaves(p) /\ UNCHANGED << boot, partial, pending, store >>
    BY <1>7 DEF Again
  <2>5. answer = "refused"
    BY <1>2, <2>4
  <2>6. Ruled(Current.g)
    BY <2>2, <2>4, <2>5, ServedLeads
  <2> QED BY <2>3, <2>6 DEF Ruled, Dropped, Justified
<1> QED BY <1>3, <1>4, <1>5, <1>6, <1>7 DEF Works

\* No stored pair is dropped that was not refused, whatever fails: for any number of
\* platforms, pairs and tries, unless the user was asked to sign in before.
THEOREM DropsRefusedOnly == Spec => DroppedOnlyIfRefused
<1>1. ASSUME IInv, HInv, [Next]_vars
      PROVE  [ (store.g # 0 /\ store'.g = 0) => store.g \in history'.refused \/ history'.told ]_vars
  <2> SUFFICES ASSUME Dropped
               PROVE  Justified
    BY DEF Dropped, Justified
  <2>1. store' # store
    BY DEF Dropped
  <2>2. CASE UNCHANGED vars
    BY <2>1, <2>2 DEF vars
  <2>3. CASE SubmitAccount \/ RouteResult \/ SetupEnds
    BY <1>1, <2>3, FlowDrops
  <2>4. CASE SubmitCode \/ RetryInitialization \/ AbandonFlow \/ Setup \/ Answered \/ Restart
    BY <2>1, <2>4 DEF SubmitCode, RetryInitialization, AbandonFlow, Setup, Answered, Restart
  <2>5. CASE Publish
    BY <1>1, <2>1, <2>5 DEF Publish, Dropped, IInv, Proper, StageOf, HasGApp
  <2>6. CASE \E p \in Procs : Enter(p) \/ Works(p)
    BY <1>1, <2>6, CallDrops
  <2>7. CASE Report
    BY <1>1, <2>7 DEF Report, IInv, Histories, Justified
  <2>8. CASE IntervalPasses
    <3>1. store' = Older(store) /\ Whole(store)
      BY <1>1, <2>8 DEF IntervalPasses, IInv, Memory
    <3> QED BY <3>1, OlderFields DEF Dropped
  <2> QED BY <1>1, <2>2, <2>3, <2>4, <2>5, <2>6, <2>7, <2>8 DEF Next
<1> QED BY <1>1, Invariant, HistoryInvariant, PTL DEF Spec, DroppedOnlyIfRefused

---------------------------------------------------------------------------
(* What may be used once.                                                  *)

Exchanging == att.stage # "refresh" /\ att'.stage = "refresh"
Allowed == /\ att'.caller = "flow"
           /\ ~ history.asked \/ history.excused \/ store' # store

\* A flow that begins does not exchange, and asks for a code the store does not remember.
LEMMA BeginUses ==
  ASSUME IInv, HInv,
         SubmitAccount \/ SubmitCode \/ RetryInitialization \/ Setup
  PROVE  ~ Exchanging /\ (Asking => Allowed)
<1>0. Whole(store) /\ Whole(NoState)
  BY StatesWhole DEF IInv, Memory
<1>1. PICK caller \in { "flow", "setup" }, s \in { store, NoState }, code \in BOOLEAN :
        Begin(caller, s, code) /\ store' = s
  <2>1. CASE SubmitAccount
    BY <2>1 DEF SubmitAccount
  <2>2. CASE SubmitCode \/ RetryInitialization
    <3>1. flow.step # "none" /\ store' = store
      BY <2>2 DEF SubmitCode, RetryInitialization
    <3>2. flow.state = store
      BY <3>1 DEF HInv, RefusedInv, FlowStored
    <3> QED BY <2>2, <3>1, <3>2 DEF SubmitCode, RetryInitialization
  <2>3. CASE Setup
    BY <2>3 DEF Setup
  <2> QED BY <2>1, <2>2, <2>3
<1>2. Whole(s)
  BY <1>0
<1>3. /\ ~ running /\ att.stage = "idle" /\ att'.caller = caller
      /\ \/ att'.stage \in { "check", "platforms", "smsLogin", "ended" }
         \/ att'.stage = "smsRequest" /\ caller = "flow" /\ s.asked # "recent"
  BY <1>1, <1>2, BeginFields
<1>4. Remembered
  BY <1>3, IdleFinds
<1> QED BY <1>1, <1>3, <1>4 DEF Exchanging, Asking, Allowed, Remembered

LEMMA AnswerUses ==
  ASSUME IInv, HInv, Answered
  PROVE  /\ Exchanging => Unspent(att'.cand.g)
         /\ Asking => Allowed
<1>0. /\ Led
      /\ att.stage = "refresh" => att.cand.g # 0 /\ att.cand.asked = "never"
      /\ att.allow => att.caller = "flow"
  BY AnsweredFinds
<1>1. Unspent(att.cand.g) /\ RefusedInv /\ AskedInv /\ att'.caller = att.caller
  BY <1>0 DEF HInv, SpentInv, Led
<1>2. Exchanging => att'.cand.g = att.cand.g
  BY <1>0
  DEF Exchanging, Led, PairStays, SamePair, PairArrives, PairUnnamed, PairRefused, CodeRejected
<1>3. Asking => Allowed
  <2> SUFFICES ASSUME Asking
               PROVE  Allowed
    OBVIOUS
  <2>1. att.stage = "refresh" /\ att.allow
    BY <1>0 DEF Asking, Led, PairStays, PairArrives, PairUnnamed, PairRefused, CodeRejected
  <2>2. store.g = att.cand.g /\ att.caller = "flow"
    BY <1>0, <1>1, <2>1 DEF RefusedInv, Beside
  <2>3. store.asked = "never"
    BY <1>0, <1>1, <2>1, <2>2 DEF RefusedInv, Answering, Unasked, HasGApp
  <2>4. history.asked => history.excused
    BY <1>0, <1>1, <2>1, <2>2, <2>3 DEF AskedInv
  <2> QED BY <1>1, <2>2, <2>4 DEF Allowed
<1> QED BY <1>1, <1>2, <1>3 DEF Unspent

\* No other step exchanges or asks, but for the renewal.
LEMMA CallUses ==
  ASSUME IInv, HInv, NEW p \in Procs, Enter(p) \/ Works(p)
  PROVE  /\ Exchanging => Unspent(att'.cand.g)
         /\ ~ Asking
<1>1. NoAttempt.stage = "idle"
  BY NobodyPlaced
<1>2. CASE Renew(p)
  <2>1. /\ att'.cand = ops[p].seen /\ ops[p].at = "renew" /\ att.caller = "nobody"
        /\ att'.stage \in { "refresh", "publish", "ended" }
    BY <1>2, RenewFields
  <2>2. Unspent(ops[p].seen.g)
    BY <2>1 DEF HInv, SpentInv
  <2> QED BY <2>1, <2>2 DEF Asking
<1>3. CASE ~ Renew(p)
  <2>1. att' = att \/ att' = NoAttempt
    BY <1>3 DEF Enter, Works, Act, Expired, RenewalEnds, Again, GivesUp
  <2> QED BY <1>1, <2>1 DEF Exchanging, Asking
<1> QED BY <1>2, <1>3

\* A refresh token is presented a second time only if its successor was lost, a code is
\* asked for by flows alone and not twice within the interval: for any number of
\* platforms, pairs and tries, and with restarts between any two steps.
THEOREM UsedOnce == Spec => NothingSpentTwice
<1>1. ASSUME IInv, HInv, [Next]_vars
      PROVE  [ /\ (att.stage # "refresh" /\ att'.stage = "refresh" /\ att'.cand.g \in provider.spent)
                    => att'.cand.g \in history.lost
               /\ Asking => /\ att'.caller = "flow"
                            /\ ~ history.asked \/ history.excused \/ store' # store ]_vars
  <2> SUFFICES ASSUME ~ UNCHANGED vars
               PROVE  (Exchanging => Unspent(att'.cand.g)) /\ (Asking => Allowed)
    BY DEF Exchanging, Unspent, Allowed
  <2>1. CASE SubmitAccount \/ SubmitCode \/ RetryInitialization \/ Setup
    BY <1>1, <2>1, BeginUses
  <2>2. CASE Answered
    BY <1>1, <2>2, AnswerUses
  <2>3. CASE \E p \in Procs : Enter(p) \/ Works(p)
    BY <1>1, <2>3, CallUses
  <2>4. CASE RouteResult \/ SetupEnds \/ AbandonFlow \/ Report \/ Restart
    <3>1. att' = att \/ att' = NoAttempt
      BY <2>4 DEF RouteResult, SetupEnds, AbandonFlow, Report, Restart
    <3> QED BY <3>1, NobodyPlaced DEF Exchanging, Asking
  <2>5. CASE Publish
    <3>1. att.stage = "publish" /\ Proper(att)
      BY <1>1, <2>5 DEF Publish, IInv
    <3>2. Platforms(att, att.cand).stage = "platforms"
      BY <3>1, PairFields DEF Proper, Attempts
    <3>3. \A e : EndedAs(Raised(att, e), att, att.cand, "error", ErrorClass(e))
      BY <3>1, EndedFields DEF Proper
    <3>4. att'.stage \in { "platforms", "ended" }
      BY <2>5, <3>2, <3>3 DEF Publish, EndedAs
    <3> QED BY <3>4 DEF Exchanging, Asking
  <2>6. CASE IntervalPasses
    <3>1. att'.stage = att.stage
      BY <1>1, <2>6 DEF IntervalPasses, IInv, Proper, Attempts
    <3> QED BY <3>1 DEF Exchanging, Asking
  <2> QED BY <1>1, <2>1, <2>2, <2>3, <2>4, <2>5, <2>6 DEF Next
<1> QED BY <1>1, Invariant, HistoryInvariant, PTL DEF Spec, NothingSpentTwice

=============================================================================
