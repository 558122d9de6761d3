------------------------------ MODULE AnzAuth ------------------------------
(***************************************************************************)
(* The attempt for Australia and New Zealand, with the legacy and with the *)
(* current application's protocol.  GWM allows one session per account     *)
(* here: a login takes the session from whoever holds it, so it needs the  *)
(* caller's allow_session_reclaim and every path without a usable session  *)
(* ends in asking for it.                                                  *)
(***************************************************************************)
EXTENDS AuthAttempt

Anz == {"anz_legacy", "anz_current"}
Current == region = "anz_current"

\* The current protocol has no profile request.
AnzEndpoints ==
  [ stage \in Requests |->
      [ known |-> /\ stage # "enroll"
                  /\ Current => stage \notin {"userInfo", "refreshedInfo", "loginInfo"},
        token |-> stage \in {"userInfo", "refresh", "refreshedInfo", "loginInfo"} ] ]

\* The current application sends the access token and the gwId together or
\* neither of them.
AnzPermitted(stage, token, gw) ==
  /\ AnzEndpoints[stage].known
  /\ AnzEndpoints[stage].token = (token # 0)
  /\ Current => (token = 0) = (gw = NoId)

AnzSend(a, stage, token, gw) ==
  IF AnzPermitted(stage, token, gw)
  THEN [ a EXCEPT !.stage = stage ]
  ELSE Raised(a, "RoutePolicy")

\* A conflict is told apart even in a 401, a refused signature from other codes.
AnzDecode(r) ==
  CASE r.status = 401 /\ r.code = "607501" -> Err("Api", r.code)
    [] r.status = 401 /\ r.code # "607501" -> Err("Authentication", r.code)
    [] r.status = 429 -> Err("RateLimit", r.code)
    [] r.status = 500 -> Err("Http", "other")
    [] r.code = "malformed" -> Err("Schema", "other")
    [] r.status = 200 /\ r.code = "607099" -> Err("Signature", r.code)
    [] r.status = 200 /\ r.code \notin {"malformed", "607099", "000000"} -> Err("Api", r.code)
    [] OTHER -> Fine

\* AnzAuthState.__post_init__: no gwId without a token, no token while the
\* session has to be reclaimed.
AnzConstructible(s) ==
  /\ s.access = 0 => s.gw = NoId
  /\ s.reclaim => s.access = 0 /\ s.refresh = 0

AnzChallengeCodes ==
  IF Current THEN {"309702", "308103", "110641"} ELSE {"309702", "110641"}
AnzChallenge(e) == e.class = "Api" /\ e.code \in AnzChallengeCodes

AnzCredentialsRefused(e) == Current /\ e.class = "Api" /\ e.code = "308001"

AnzCodeRefused(e) ==
  /\ e.class = "Api"
  /\ \/ e.code \in (IF Current THEN {"308011", "308012"} ELSE {"308011"})
     \/ e.code \in AnzChallengeCodes

Conflict(e) == e.class = "Api" /\ e.code = "607501"

ReclaimedKeepingTokens(s) == [ s EXCEPT !.reclaim = TRUE ]

\* _session_reclaim_state
Reclaimed(s) == [ s EXCEPT !.access = 0, !.refresh = 0, !.gw = NoId, !.reclaim = TRUE ]

\* _updated_gw_id: the legacy protocol keeps what it has, the current one takes
\* what the answer holds.
AnzGwId(current, answered) ==
  IF Current /\ answered # NoId THEN answered ELSE current

\* _authenticated_result
AnzResult(a, s) ==
  IF s.access = 0 \/ s.reclaim \/ (Current /\ s.gw = NoId)
  THEN Raised(a, "Schema")
  ELSE Authenticated(a, s)

AnzSignIn(a) == AnzSend(a, IF a.code THEN "verify" ELSE "login", 0, NoId)

AnzReclaimUnasked(a) == AnzSignIn([ a EXCEPT !.cand = Reclaimed(a.cand), !.pair = 0 ])

\* No usable session: sign in if the caller allows it, else ask.
AnzReclaim(a) ==
  LET s == Reclaimed(a.cand) IN
  IF a.allow THEN AnzSignIn([ a EXCEPT !.cand = s, !.pair = 0 ]) ELSE ReclaimNeeded(a, s)

AnzStart(a) ==
  IF a.cand.reclaim \/ a.cand.access = 0
  THEN AnzReclaim(a)
  ELSE IF Current
       THEN IF a.cand.gw # NoId THEN AnzResult(a, a.cand) ELSE AnzReclaim(a)
       ELSE AnzSend(a, "userInfo", a.cand.access, a.cand.gw)

\* refresh_current_anz_session and refresh_legacy_anz_session begin alike, but
\* for the gwId the current application needs.
AnzRenew(a) ==
  IF a.cand.reclaim \/ a.cand.access = 0 \/ a.cand.refresh = 0 \/ (Current /\ a.cand.gw = NoId)
  THEN Raised(a, "Authentication")
  ELSE AnzSend(a, "refresh", a.cand.access, a.cand.gw)

---------------------------------------------------------------------------
AnzUserInfo(r) ==
  /\ At({"anz_legacy"}, "userInfo")
  /\ LET e == AnzDecode(r) IN
     \/ /\ e = Fine
        /\ Serves(att.cand.access)
        /\ att' = AnzResult(att, att.cand)
        /\ UNCHANGED provider
     \/ /\ SessionExpired(e)
        /\ Refuses(att.cand.access, e)
        /\ att' = IF att.cand.refresh # 0
                  THEN AnzSend(att, "refresh", att.cand.access, att.cand.gw)
                  ELSE AnzReclaim(att)
     \/ /\ Conflict(e)
        /\ Refuses(att.cand.access, e)
        /\ att' = AnzReclaim(att)
     \/ /\ e # Fine /\ ~ SessionExpired(e) /\ ~ Conflict(e)
        /\ att' = Raised(att, e.class)
        /\ UNCHANGED provider
  /\ UNCHANGED << region, clock >>

\* Only the current protocol's renewal has no refusal by conflict and no
\* profile to read with the new pair.
AnzRefresh(r, whole, gw) ==
  /\ At(Anz, "refresh")
  /\ LET e == AnzDecode(r)
         renewed == [ att.cand EXCEPT !.access = NextPair, !.refresh = NextPair,
                        !.gw = AnzGwId(@, gw), !.asked = Never ]
     IN
     \/ /\ e = Fine
        /\ Exchanges(att.cand.refresh)
        /\ att' = IF ~ whole THEN Raised(att, "Schema")
                  ELSE IF Current THEN AnzResult(att, renewed)
                  ELSE AnzSend([ att EXCEPT !.pair = NextPair ], "refreshedInfo", NextPair, att.cand.gw)
     \/ /\ RefreshRejected(e) \/ (Conflict(e) /\ ~ Current)
        /\ att' = IF att.caller = "renew" THEN Raised(att, "Authentication") ELSE AnzReclaim(att)
        /\ UNCHANGED provider
     \/ /\ e # Fine /\ ~ RefreshRejected(e) /\ ~ (Conflict(e) /\ ~ Current)
        /\ att' = Raised(att, e.class)
        /\ UNCHANGED provider
  /\ UNCHANGED << region, clock >>

AnzRefreshedInfo(r) ==
  /\ At({"anz_legacy"}, "refreshedInfo")
  /\ LET e == AnzDecode(r) IN
     \/ /\ e = Fine
        /\ Serves(att.pair)
        /\ att' = AnzResult(att, [ att.cand EXCEPT !.access = att.pair, !.refresh = att.pair,
                                     !.asked = Never ])
        /\ UNCHANGED provider
     \/ /\ SessionExpired(e) \/ Conflict(e)
        /\ Refuses(att.pair, e)
        /\ att' = IF att.caller = "renew" THEN Raised(att, "Authentication") ELSE AnzReclaim(att)
     \/ /\ e # Fine /\ ~ SessionExpired(e) /\ ~ Conflict(e)
        /\ att' = Raised(att, e.class)
        /\ UNCHANGED provider
  /\ UNCHANGED << region, clock >>

AnzVerify(r) ==
  /\ At(Anz, "verify")
  /\ LET e == AnzDecode(r) IN
     att' = IF e = Fine THEN AnzSend(att, "login", 0, NoId)
            ELSE IF AnzCodeRefused(e) THEN CodeRejected(att, att.cand)
            ELSE Raised(att, e.class)
  /\ UNCHANGED << region, provider, clock >>

\* The current protocol trusts the login's answer and may get no refresh token;
\* the legacy one reads the profile before it keeps the pair.
AnzLoggedIn(a, refresh, gw) ==
  IF Current
  THEN AnzResult(a, [ a.cand EXCEPT !.access = NextPair, !.refresh = refresh, !.gw = gw,
                        !.asked = Never, !.reclaim = FALSE ])
  ELSE AnzSend([ a EXCEPT !.pair = NextPair ], "loginInfo", NextPair, NoId)

AnzLogin(r, whole, gw) ==
  /\ At(Anz, "login")
  /\ LET e == AnzDecode(r) IN
     \/ /\ e = Fine
        /\ Issues
        /\ att' = IF ~ whole THEN Raised(att, "Schema")
                  ELSE AnzLoggedIn(att, NextPair, gw)
     \/ /\ e = Fine /\ Current
        /\ Issues
        /\ att' = AnzLoggedIn(att, 0, gw)
     \/ /\ att.code /\ AnzCodeRefused(e)
        /\ att' = CodeRejected(att, att.cand)
        /\ UNCHANGED provider
     \/ /\ AnzCredentialsRefused(e)
        /\ att' = Raised(att, "Authentication")
        /\ UNCHANGED provider
     \/ /\ ~ att.code /\ AnzChallenge(e)
        /\ att' = IF Throttled(att.cand) THEN CodeNeeded(att, att.cand)
                  ELSE AnzSend([ att EXCEPT !.cand.asked = clock ], "request", 0, NoId)
        /\ UNCHANGED provider
     \/ /\ e # Fine /\ ~ AnzCredentialsRefused(e)
        /\ IF att.code THEN ~ AnzCodeRefused(e) ELSE ~ AnzChallenge(e)
        /\ att' = Raised(att, e.class)
        /\ UNCHANGED provider
  /\ UNCHANGED << region, clock >>

AnzRequestCode(r) ==
  /\ At(Anz, "request")
  /\ LET e == AnzDecode(r) IN
     att' = IF e = Fine THEN CodeNeeded(att, att.cand) ELSE Raised(att, e.class)
  /\ UNCHANGED << region, provider, clock >>

\* Another device may have taken the session between login and profile.
AnzLoginInfo(r) ==
  /\ At({"anz_legacy"}, "loginInfo")
  /\ LET e == AnzDecode(r) IN
     \/ /\ e = Fine
        /\ Serves(att.pair)
        /\ att' = AnzResult(att, [ att.cand EXCEPT !.access = att.pair, !.refresh = att.pair,
                                     !.asked = Never, !.reclaim = FALSE ])
        /\ UNCHANGED provider
     \/ /\ Conflict(e)
        /\ Refuses(att.pair, e)
        /\ att' = ReclaimNeeded(att, Reclaimed(att.cand))
     \/ /\ e # Fine /\ ~ Conflict(e)
        /\ att' = Raised(att, e.class)
        /\ UNCHANGED provider
  /\ UNCHANGED << region, clock >>

AnzStep ==
  \E r \in Responses :
    \/ \E whole \in BOOLEAN, gw \in OptionalId : AnzRefresh(r, whole, gw) \/ AnzLogin(r, whole, gw)
    \/ AnzUserInfo(r)
    \/ AnzRefreshedInfo(r)
    \/ AnzVerify(r)
    \/ AnzRequestCode(r)
    \/ AnzLoginInfo(r)
============================================================================
