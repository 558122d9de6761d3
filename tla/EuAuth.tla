------------------------------- MODULE EuAuth -------------------------------
(***************************************************************************)
(* The European attempt: resume, refresh, password login with a            *)
(* verification code, and the enrolment of a client certificate.           *)
(***************************************************************************)
EXTENDS AuthAttempt

\* Which request carries an access token.
EuEndpoints ==
  [ stage \in Requests |->
      [ token |-> stage \in {"userInfo", "refreshedInfo", "enroll"} ] ]

\* Enrolment alone carries a device identity of its own, and a request without
\* the token its endpoint asks for (or with one it does not) is not sent.
EuPermitted(stage, token, device) ==
  /\ EuEndpoints[stage].token = (token # 0)
  /\ (stage = "enroll") = device

EuSend(a, stage, token) ==
  IF EuPermitted(stage, token, stage = "enroll")
  THEN [ a EXCEPT !.stage = stage ]
  ELSE Raised(a, "RoutePolicy")

\* The status decides before the code, the code before the shape of the data.
EuDecode(r) ==
  CASE r.status = 401 -> Err("Authentication", r.code)
    [] r.status = 429 -> Err("RateLimit", r.code)
    [] r.status = 500 -> Err("Http", "other")
    [] r.code = "malformed" -> Err("Schema", "other")
    [] r.status = 200 /\ r.code \notin {"malformed", "000000"} -> Err("Api", r.code)
    [] OTHER -> Fine

\* An identity needs the gwId it was enrolled for.
EuConstructible(s) == s.identity # NoId => s.gw # NoId

EuChallenge(e) == e.class = "Api" /\ e.code \in {"308103", "110641"}

EuApplyUserInfoBlind(s, gw) == [ s EXCEPT !.gw = gw ]

\* A profile of another gwId leaves the issued identity behind.
EuApplyUserInfo(s, gw) ==
  [ s EXCEPT !.gw = gw, !.identity = IF s.gw = gw THEN s.identity ELSE NoId ]

EuDroppedToNone(s) == [ s EXCEPT !.access = NoId, !.refresh = NoId ]

EuDropped(s) == [ s EXCEPT !.access = 0, !.refresh = 0 ]

\* _finish_authentication up to its first await: with an identity its context
\* is built, without one a certificate is applied for.
EuFinish(a, s) ==
  IF s.access = 0 \/ s.gw = NoId
  THEN Raised(a, "Schema")
  ELSE IF s.identity # NoId
       THEN [ a EXCEPT !.stage = "context", !.cand = s, !.pair = 0 ]
       ELSE EuSend([ a EXCEPT !.cand = s, !.pair = 0 ], "enroll", s.access)

\* The saved session did not serve: only a caller that allows it signs in.
EuSignIn(a) ==
  IF ~ a.allow THEN Raised(a, "Authentication")
  ELSE EuSend(a, IF a.code THEN "verify" ELSE "login", 0)

EuStart(a) ==
  IF a.cand.access # 0
  THEN EuSend(a, "userInfo", a.cand.access)
  ELSE EuSignIn([ a EXCEPT !.cand = EuDropped(a.cand) ])

\* refresh_eu_session: what a renewal of the running entry begins with.
EuRenew(a) ==
  IF a.cand.access = 0 \/ a.cand.refresh = 0
  THEN Raised(a, "Authentication")
  ELSE EuSend(a, "refresh", 0)

---------------------------------------------------------------------------
EuUserInfo(r, gw) ==
  /\ At({"eu"}, "userInfo")
  /\ LET e == EuDecode(r) IN
     \/ /\ e = Fine
        /\ Serves(att.cand.access)
        /\ att' = IF gw = NoId THEN Raised(att, "Schema")
                  ELSE EuFinish(att, EuApplyUserInfo(att.cand, gw))
        /\ UNCHANGED provider
     \/ /\ SessionExpired(e)
        /\ Refuses(att.cand.access, e)
        /\ att' = IF att.cand.refresh # 0
                  THEN EuSend(att, "refresh", 0)
                  ELSE EuSignIn([ att EXCEPT !.cand = EuDropped(att.cand) ])
     \/ /\ e # Fine /\ ~ SessionExpired(e)
        /\ att' = Raised(att, e.class)
        /\ UNCHANGED provider
  /\ UNCHANGED << region, clock >>

\* The refresh token is spent although the new pair is kept only after the
\* profile was read with it.
EuRefresh(r, whole) ==
  /\ At({"eu"}, "refresh")
  /\ LET e == EuDecode(r) IN
     \/ /\ e = Fine
        /\ Exchanges(att.cand.refresh)
        /\ att' = IF ~ whole THEN Raised(att, "Schema")
                  ELSE EuSend([ att EXCEPT !.pair = NextPair ], "refreshedInfo", NextPair)
     \/ /\ RefreshRejected(e)
        /\ att' = IF att.caller = "renew" THEN Raised(att, "Authentication")
                  ELSE EuSignIn([ att EXCEPT !.cand = EuDropped(att.cand) ])
        /\ UNCHANGED provider
     \/ /\ e # Fine /\ ~ RefreshRejected(e)
        /\ att' = Raised(att, e.class)
        /\ UNCHANGED provider
  /\ UNCHANGED << region, clock >>

\* A renewal keeps the running context and forgets the code it had asked for.
EuRefreshedInfo(r, gw) ==
  /\ At({"eu"}, "refreshedInfo")
  /\ LET e == EuDecode(r)
         renewed == [ att.cand EXCEPT !.access = att.pair, !.refresh = att.pair ]
     IN
     \/ /\ e = Fine
        /\ Serves(att.pair)
        /\ att' = IF gw = NoId THEN Raised(att, "Schema")
                  ELSE IF att.caller = "renew"
                  THEN Authenticated(att, EuApplyUserInfo([ renewed EXCEPT !.asked = Never ], gw))
                  ELSE EuFinish(att, EuApplyUserInfo(renewed, gw))
        /\ UNCHANGED provider
     \/ /\ SessionExpired(e)
        /\ Refuses(att.pair, e)
        /\ att' = IF att.caller = "renew" THEN Raised(att, "Authentication")
                  ELSE EuSignIn([ att EXCEPT !.cand = EuDropped(att.cand), !.pair = 0 ])
     \/ /\ e # Fine /\ ~ SessionExpired(e)
        /\ att' = Raised(att, e.class)
        /\ UNCHANGED provider
  /\ UNCHANGED << region, clock >>

\* A challenge means the code was refused; a rate limit is no challenge.
EuVerify(r) ==
  /\ At({"eu"}, "verify")
  /\ LET e == EuDecode(r) IN
     att' = IF e = Fine THEN EuSend(att, "login", 0)
            ELSE IF EuChallenge(e) THEN CodeRejected(att, att.cand)
            ELSE Raised(att, e.class)
  /\ UNCHANGED << region, provider, clock >>

\* _parse_login wants both tokens, the gwId and the beanId; another gwId than
\* the candidate's drops the identity.
EuLoggedIn(a, pair, gw) ==
  EuFinish(a, [ EuApplyUserInfo(a.cand, gw)
                EXCEPT !.access = pair, !.refresh = pair, !.asked = Never ])

EuLogin(r, gw) ==
  /\ At({"eu"}, "login")
  /\ LET e == EuDecode(r) IN
     \/ /\ e = Fine
        /\ Issues
        /\ att' = IF gw = NoId THEN Raised(att, "Schema") ELSE EuLoggedIn(att, NextPair, gw)
     \/ /\ EuChallenge(e)
        /\ att' = IF att.code THEN CodeRejected(att, att.cand)
                  ELSE IF Throttled(att.cand) THEN CodeNeeded(att, att.cand)
                  ELSE EuSend([ att EXCEPT !.cand.asked = clock ], "request", 0)
        /\ UNCHANGED provider
     \/ /\ e # Fine /\ ~ EuChallenge(e)
        /\ att' = Raised(att, e.class)
        /\ UNCHANGED provider
  /\ UNCHANGED << region, clock >>

EuRequestCode(r) ==
  /\ At({"eu"}, "request")
  /\ LET e == EuDecode(r) IN
     att' = IF e = Fine THEN CodeNeeded(att, att.cand) ELSE Raised(att, e.class)
  /\ UNCHANGED << region, provider, clock >>

\* The issued identity serves, or is renewed, or is unusable in a way no
\* renewal repairs.
EuContext ==
  /\ At({"eu"}, "context")
  /\ \/ att' = Authenticated(att, att.cand)
     \/ att' = EuSend(att, "enroll", att.cand.access)
     \/ att' = Raised(att, "Configuration")
  /\ UNCHANGED << region, provider, clock >>

EuEnrolled(a) == Authenticated(a, [ a.cand EXCEPT !.identity = a.cand.gw ])

EuEnroll(r, whole) ==
  /\ At({"eu"}, "enroll")
  /\ LET e == EuDecode(r) IN
     att' = IF e = Fine
            THEN IF whole THEN EuEnrolled(att) ELSE Raised(att, "Schema")
            ELSE Raised(att, e.class)
  /\ UNCHANGED << region, provider, clock >>

EuStep ==
  \E r \in Responses :
    \/ \E gw \in OptionalId : EuUserInfo(r, gw) \/ EuRefreshedInfo(r, gw) \/ EuLogin(r, gw)
    \/ \E whole \in BOOLEAN : EuRefresh(r, whole) \/ EuEnroll(r, whole)
    \/ EuVerify(r)
    \/ EuRequestCode(r)
    \/ EuContext
============================================================================
