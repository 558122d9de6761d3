---------------------------- MODULE AuthAttempt ----------------------------
(***************************************************************************)
(* What one authentication attempt with GWM works on, in the three         *)
(* overseas regions: the state it is given and the candidate it builds,    *)
(* the request it waits for, the answers a gateway can give, and how an    *)
(* attempt ends.  EuAuth, AnzAuth and RussiaAuth give the steps of a       *)
(* region, RegionalAuth who starts attempts and what becomes of results.   *)
(*                                                                         *)
(* Tokens are numbered by the pair they were issued with; 0 is None.  A    *)
(* gwId is a model value; an issued identity is named by the gwId it was   *)
(* enrolled for.                                                           *)
(***************************************************************************)
EXTENDS Integers, FiniteSets

CONSTANTS
  Ids,        \* the gwIds GWM may answer with
  NoId,       \* None
  MaxPair,    \* bound: token pairs GWM issues
  MaxTime,    \* bound: the clock runs from 0 to MaxTime
  Interval    \* _VERIFICATION_INTERVAL in ticks of the clock

ASSUME BoundsAssumption ==
  /\ NoId \notin Ids
  /\ MaxPair \in Nat \ {0}
  /\ MaxTime \in Nat
  /\ Interval \in Nat \ {0}

VARIABLES
  region,     \* region and, for ANZ, authentication method; never changes
  att,        \* the attempt in progress
  provider,   \* GWM: pairs issued, access tokens refused, refresh tokens spent
  clock       \* the UTC clock of the client

Regions == {"eu", "anz_legacy", "anz_current", "russia"}
Times == 0 .. MaxTime
Never == MaxTime + 1
Pairs == 0 .. MaxPair
OptionalId == Ids \cup {NoId}

\* EuAuthState, AnzAuthState, RussiaAuthState: one record for the three.
AuthState ==
  [ access : Pairs, refresh : Pairs, gw : OptionalId, identity : OptionalId,
    asked : Times \cup {Never}, reclaim : BOOLEAN ]

\* for_credentials: the empty candidate of an account and device.
Empty ==
  [ access |-> 0, refresh |-> 0, gw |-> NoId, identity |-> NoId,
    asked |-> Never, reclaim |-> FALSE ]

---------------------------------------------------------------------------
(* Answers of a gateway and the errors they become.                        *)

Codes ==
  { "000000", "551004", "551011", "110641", "308103", "309702", "308011",
    "308012", "308001", "607501", "607099", "other" }

\* Every class of answer the decoders tell apart, with the codes that matter
\* for it; a code "malformed" is a body that is no JSON object.
Responses ==
  [ status : {200}, code : Codes \cup {"malformed"} ]
    \cup [ status : {401}, code : {"607501", "other"} ]
    \cup [ status : {429, 500}, code : {"other"} ]

Classes ==
  { "none", "Api", "Authentication", "Signature", "RateLimit", "Http",
    "Schema", "Network", "Deadline", "Configuration", "RoutePolicy" }

Err(class, code) == [ class |-> class, code |-> code ]
Fine == Err("none", "000000")

SessionFailed(e) == e.class # "none"

\* is_overseas_session_expired: the access token was refused.
SessionExpired(e) ==
  \/ e.class = "Authentication"
  \/ e.class = "Api" /\ e.code = "551004"

\* is_overseas_refresh_rejected: the refresh token was refused.
RefreshRejected(e) ==
  \/ e.class = "Authentication"
  \/ e.class = "Api" /\ e.code \in {"551004", "551011"}

---------------------------------------------------------------------------
(* The attempt.                                                            *)

\* A stage is the request an attempt waits for; "context" is the check of the
\* issued identity, "ended" the result the caller has not looked at yet.
Requests ==
  { "userInfo", "refresh", "refreshedInfo", "verify", "login", "request",
    "loginInfo", "enroll" }
Stages == Requests \cup {"idle", "context", "ended"}

Outcomes ==
  [ kind : {"none", "authenticated", "verification", "reclaim", "error"},
    rejected : BOOLEAN, class : Classes ]
NoOutcome == [ kind |-> "none", rejected |-> FALSE, class |-> "none" ]

Attempts ==
  [ stage : Stages, caller : {"nobody", "flow", "setup", "renew"},
    cand : AuthState, pair : Pairs, code : BOOLEAN, allow : BOOLEAN,
    outcome : Outcomes ]

NoAttempt ==
  [ stage |-> "idle", caller |-> "nobody", cand |-> Empty, pair |-> 0,
    code |-> FALSE, allow |-> FALSE, outcome |-> NoOutcome ]

Ended(a, kind, s, rejected, class) ==
  [ a EXCEPT !.stage = "ended", !.cand = s, !.pair = 0,
    !.outcome = [ kind |-> kind, rejected |-> rejected, class |-> class ] ]

\* The three ways to return and the one to raise.
Authenticated(a, s)    == Ended(a, "authenticated", s, FALSE, "none")
CodeNeeded(a, s)       == Ended(a, "verification", s, FALSE, "none")
CodeRejected(a, s)     == Ended(a, "verification", [s EXCEPT !.asked = Never], TRUE, "none")
ReclaimNeeded(a, s)    == Ended(a, "reclaim", s, FALSE, "none")
Raised(a, class)       == Ended(a, "error", a.cand, FALSE, class)

ThrottledLate(s) == s.asked # Never /\ 0 < clock - s.asked /\ clock - s.asked < Interval

\* 0 <= now - requested_at < _VERIFICATION_INTERVAL: a code is on its way.  A
\* clock that was set back makes the difference negative.
Throttled(s) ==
  /\ s.asked # Never
  /\ 0 <= clock - s.asked
  /\ clock - s.asked < Interval

At(regions, stage) == region \in regions /\ att.stage = stage

\* GWM answers truthfully in two respects: an access token it refused once
\* stays refused, a refresh token is exchanged once.
Serves(pair)   == pair \notin provider.dead
TokenRefusal(e) ==
  e.class = "Authentication" \/ (e.class = "Api" /\ e.code \in {"551004", "607501"})
Refuses(pair, e) ==
  provider' = IF TokenRefusal(e) THEN [ provider EXCEPT !.dead = @ \cup {pair} ] ELSE provider
Exchanges(pair) ==
  /\ pair \notin provider.spent
  /\ provider.issued < MaxPair
  /\ provider' = [ provider EXCEPT !.issued = @ + 1, !.spent = @ \cup {pair} ]
Issues ==
  /\ provider.issued < MaxPair
  /\ provider' = [ provider EXCEPT !.issued = @ + 1 ]
NextPair == provider.issued + 1

\* The answer to any request may be lost, the deadline pass or the transport
\* fail while GWM has, or has not, done what was asked.
Interrupted ==
  /\ att.stage \in Requests
  /\ \E class \in {"Network", "Deadline"} : att' = Raised(att, class)
  /\ \/ UNCHANGED provider
     \/ att.stage = "refresh" /\ Exchanges(att.cand.refresh)
  /\ UNCHANGED << region, clock >>
============================================================================
