----------------------------- MODULE RussiaAuth -----------------------------
(***************************************************************************)
(* The Russian attempt.  A code signs in by itself (loginWithSMS), every   *)
(* login is confirmed by the profile, and the identity of the application  *)
(* is static, so nothing is enrolled.                                      *)
(***************************************************************************)
EXTENDS AuthAttempt

RussiaEndpoints ==
  [ stage \in Requests |->
      [ known |-> stage # "enroll",
        token |-> stage \in {"userInfo", "refreshedInfo", "loginInfo"} ] ]

RussiaPermitted(stage, token) ==
  /\ RussiaEndpoints[stage].known
  /\ RussiaEndpoints[stage].token = (token # 0)

RussiaSend(a, stage, token) ==
  IF RussiaPermitted(stage, token)
  THEN [ a EXCEPT !.stage = stage ]
  ELSE Raised(a, "RoutePolicy")

RussiaDecode(r) ==
  CASE r.status = 401 -> Err("Authentication", r.code)
    [] r.status = 429 -> Err("RateLimit", r.code)
    [] r.status = 500 -> Err("Http", "other")
    [] r.code = "malformed" -> Err("Schema", "other")
    [] r.status = 200 /\ r.code \notin {"malformed", "000000"} -> Err("Api", r.code)
    [] OTHER -> Fine

RussiaChallenge(e) == e.class = "Api" /\ e.code = "110641"

\* A wrong code is an authentication error here, not a code of its own.
RussiaCodeRefused(e) == e.class = "Authentication"

\* A profile without gwId leaves the one the state has.
RussiaApplyUserInfo(s, gw) == [ s EXCEPT !.gw = IF gw = NoId THEN @ ELSE gw ]

RussiaDropped(s) == [ s EXCEPT !.access = 0, !.refresh = 0 ]

RussiaSignIn(a) ==
  IF ~ a.allow THEN Raised(a, "Authentication")
  ELSE RussiaSend(a, IF a.code THEN "verify" ELSE "login", 0)

RussiaStart(a) ==
  IF a.cand.access # 0
  THEN RussiaSend(a, "userInfo", a.cand.access)
  ELSE RussiaSignIn([ a EXCEPT !.cand = RussiaDropped(a.cand) ])

RussiaRenew(a) ==
  IF a.cand.access = 0 \/ a.cand.refresh = 0
  THEN Raised(a, "Authentication")
  ELSE RussiaSend(a, "refresh", 0)

---------------------------------------------------------------------------
RussiaUserInfo(r, gw) ==
  /\ At({"russia"}, "userInfo")
  /\ LET e == RussiaDecode(r) IN
     \/ /\ e = Fine
        /\ Serves(att.cand.access)
        /\ att' = Authenticated(att, RussiaApplyUserInfo(att.cand, gw))
        /\ UNCHANGED provider
     \/ /\ SessionExpired(e)
        /\ Refuses(att.cand.access, e)
        /\ att' = IF att.cand.refresh # 0
                  THEN RussiaSend(att, "refresh", 0)
                  ELSE RussiaSignIn([ att EXCEPT !.cand = RussiaDropped(att.cand) ])
     \/ /\ e # Fine /\ ~ SessionExpired(e)
        /\ att' = Raised(att, e.class)
        /\ UNCHANGED provider
  /\ UNCHANGED << region, clock >>

RussiaRefresh(r, whole) ==
  /\ At({"russia"}, "refresh")
  /\ LET e == RussiaDecode(r) IN
     \/ /\ e = Fine
        /\ Exchanges(att.cand.refresh)
        /\ att' = IF ~ whole THEN Raised(att, "Schema")
                  ELSE RussiaSend([ att EXCEPT !.pair = NextPair ], "refreshedInfo", NextPair)
     \/ /\ RefreshRejected(e)
        /\ att' = IF att.caller = "renew" THEN Raised(att, "Authentication")
                  ELSE RussiaSignIn([ att EXCEPT !.cand = RussiaDropped(att.cand) ])
        /\ UNCHANGED provider
     \/ /\ e # Fine /\ ~ RefreshRejected(e)
        /\ att' = Raised(att, e.class)
        /\ UNCHANGED provider
  /\ UNCHANGED << region, clock >>

RussiaRefreshedInfo(r, gw) ==
  /\ At({"russia"}, "refreshedInfo")
  /\ LET e == RussiaDecode(r)
         renewed == [ att.cand EXCEPT !.access = att.pair, !.refresh = att.pair, !.asked = Never ]
     IN
     \/ /\ e = Fine
        /\ Serves(att.pair)
        /\ att' = Authenticated(att, RussiaApplyUserInfo(renewed, gw))
        /\ UNCHANGED provider
     \/ /\ SessionExpired(e)
        /\ Refuses(att.pair, e)
        /\ att' = IF att.caller = "renew" THEN Raised(att, "Authentication")
                  ELSE RussiaSignIn([ att EXCEPT !.cand = RussiaDropped(att.cand), !.pair = 0 ])
     \/ /\ e # Fine /\ ~ SessionExpired(e)
        /\ att' = Raised(att, e.class)
        /\ UNCHANGED provider
  /\ UNCHANGED << region, clock >>

\* The login's own ids replace the candidate's, absent ones included.
RussiaLoggedIn(a, pair, gw) ==
  RussiaSend([ a EXCEPT !.pair = pair,
                 !.cand = [ a.cand EXCEPT !.access = pair, !.refresh = pair, !.gw = gw,
                              !.asked = Never ] ],
             "loginInfo", pair)

RussiaVerify(r, gw) ==
  /\ At({"russia"}, "verify")
  /\ LET e == RussiaDecode(r) IN
     \/ /\ e = Fine
        /\ Issues
        /\ att' = RussiaLoggedIn(att, NextPair, gw)
     \/ /\ e # Fine
        /\ att' = IF RussiaCodeRefused(e) THEN CodeRejected(att, att.cand) ELSE Raised(att, e.class)
        /\ UNCHANGED provider
  /\ UNCHANGED << region, clock >>

RussiaLogin(r, gw) ==
  /\ At({"russia"}, "login")
  /\ LET e == RussiaDecode(r) IN
     \/ /\ e = Fine
        /\ Issues
        /\ att' = RussiaLoggedIn(att, NextPair, gw)
     \/ /\ RussiaChallenge(e)
        /\ att' = IF Throttled(att.cand) THEN CodeNeeded(att, att.cand)
                  ELSE RussiaSend([ att EXCEPT !.cand.asked = clock ], "request", 0)
        /\ UNCHANGED provider
     \/ /\ e # Fine /\ ~ RussiaChallenge(e)
        /\ att' = Raised(att, e.class)
        /\ UNCHANGED provider
  /\ UNCHANGED << region, clock >>

RussiaRequestCode(r) ==
  /\ At({"russia"}, "request")
  /\ LET e == RussiaDecode(r) IN
     att' = IF e = Fine THEN CodeNeeded(att, att.cand) ELSE Raised(att, e.class)
  /\ UNCHANGED << region, provider, clock >>

RussiaLoginInfo(r, gw) ==
  /\ At({"russia"}, "loginInfo")
  /\ LET e == RussiaDecode(r) IN
     \/ /\ e = Fine
        /\ Serves(att.pair)
        /\ att' = Authenticated(att, RussiaApplyUserInfo(att.cand, gw))
     \/ /\ e # Fine
        /\ att' = Raised(att, e.class)
  /\ UNCHANGED << region, provider, clock >>

RussiaStep ==
  \E r \in Responses :
    \/ \E gw \in OptionalId : \/ RussiaUserInfo(r, gw) \/ RussiaRefreshedInfo(r, gw)
                              \/ RussiaVerify(r, gw) \/ RussiaLogin(r, gw) \/ RussiaLoginInfo(r, gw)
    \/ \E whole \in BOOLEAN : RussiaRefresh(r, whole)
    \/ RussiaRequestCode(r)
============================================================================
