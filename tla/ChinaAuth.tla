----------------------------- MODULE ChinaAuth -----------------------------
(***************************************************************************)
(* Authentication for mainland China: a G-App session (SMS code, rotating  *)
(* token pair) from which the sessions of two vehicle platforms are opened.*)
(* A state with the G-App pair only is kept on its own, so that a failing  *)
(* platform costs neither a code nor a token exchange.                     *)
(*                                                                         *)
(* Tokens are numbered by the pair they were issued with; 0 is None.  The  *)
(* platform tokens are one field, named by the pair they were opened with. *)
(***************************************************************************)
EXTENDS Integers, FiniteSets

CONSTANTS
  Services,    \* the two platforms, BeanTech and AutoAI
  MaxPair,     \* bound: G-App pairs GWM issues
  MaxTries     \* _MAX_INIT_ATTEMPTS

ASSUME ChinaBounds == MaxPair \in Nat \ {0} /\ MaxTries \in Nat \ {0}

VARIABLES
  att,         \* the authentication or renewal in progress
  provider     \* GWM: pairs issued, spent (exchanged), dead (refused)

Pairs == 0 .. MaxPair

\* asked: verification_requested_at is None, within the interval, or older.
Asked == {"never", "recent", "old"}
ChinaAuthState == [ g : Pairs, down : Pairs, asked : Asked ]
NoState == [ g |-> 0, down |-> 0, asked |-> "never" ]

HasGApp(s)  == s.g # 0
Complete(s) == HasGApp(s) /\ s.down # 0
Throttled(s) == s.asked = "recent"

WithoutDownstream(s) == [ s EXCEPT !.down = 0 ]

ParseKeepingDownstream(s, pair) == [ s EXCEPT !.g = pair, !.asked = "never" ]

\* _parse_g_app_state: the pair of the answer, or the old one where the answer
\* to a refresh leaves it out; platform tokens never outlive a rotation.
ParseGApp(s, pair) == [ WithoutDownstream(s) EXCEPT !.g = pair, !.asked = "never" ]

ApplyPlatforms(s) == [ s EXCEPT !.down = s.g ]

---------------------------------------------------------------------------
(* Answers.                                                                *)

Responses ==
  [ status : {200}, code : {"000000", "1013", "550004", "other", "malformed"} ]
    \cup [ status : {401, 403, 429, 500, 503}, code : {"other"} ]

\* _decode_json_response, then the code of the envelope.
Decode(r) ==
  CASE r.status \in {401, 403} -> "Authentication"
    [] r.status = 429 -> "RateLimit"
    [] r.status = 503 -> "Transient"
    [] r.status = 500 -> "Http"
    [] r.status = 200 /\ r.code = "malformed" -> "Schema"
    [] r.status = 200 /\ r.code = "1013" -> "Risk"
    [] r.status = 200 /\ r.code = "550004" -> "Authentication"
    [] r.status = 200 /\ r.code = "other" -> "Api"
    [] OTHER -> "none"

\* A request may also fail on the way; a phase timeout is a client error like
\* the others, the deadline of the whole call is not (Overdue below).
Results == { Decode(r) : r \in Responses } \cup {"Network", "Phase"}
Errors == Results \ {"none"}
Retryable(e) == e \in {"Network", "Transient"}

MayRetryOnceMore(e, tries) == Retryable(e) /\ tries <= MaxTries

MayRetry(e, tries) == Retryable(e) /\ tries < MaxTries

\* When both platforms fail at once, risk control counts before a refusal and a
\* refusal before everything else.
Worse(e, f) ==
  CASE "Risk" \in {e, f} -> "Risk"
    [] "Risk" \notin {e, f} /\ "Authentication" \in {e, f} -> "Authentication"
    [] OTHER -> e

---------------------------------------------------------------------------
(* The attempt.                                                            *)

Waits == {"check", "refresh", "platforms", "discovery", "smsRequest", "smsLogin"}
Callers == {"nobody", "flow", "setup", "renew"}
Outcomes ==
  [ kind : {"none", "authenticated", "verification", "initialization", "risk", "error"},
    rejected : BOOLEAN, class : {"none", "Authentication", "Risk", "Deadline", "other"} ]
NoOutcome == [ kind |-> "none", rejected |-> FALSE, class |-> "none" ]

Attempts ==
  [ stage : Waits \cup {"idle", "publish", "ended"}, caller : Callers,
    cand : ChinaAuthState, code : BOOLEAN, allow : BOOLEAN,
    got : SUBSET Services, tries : [ Services -> 0 .. MaxTries ], outcome : Outcomes ]

NoAttempt ==
  [ stage |-> "idle", caller |-> "nobody", cand |-> NoState, code |-> FALSE,
    allow |-> FALSE, got |-> {}, tries |-> [ s \in Services |-> 0 ], outcome |-> NoOutcome ]

Ended(a, kind, s, rejected, class) ==
  [ a EXCEPT !.stage = "ended", !.cand = s, !.got = {}, !.tries = NoAttempt.tries,
    !.outcome = [ kind |-> kind, rejected |-> rejected, class |-> class ] ]

Authenticated(a)           == Ended(a, "authenticated", a.cand, FALSE, "none")
CodeNeeded(a, s, rejected) == Ended(a, "verification", s, rejected, "none")
InitializationRequired(a)  == Ended(a, "initialization", WithoutDownstream(a.cand), FALSE, "none")
RiskControlRequired(a)     == Ended(a, "risk", WithoutDownstream(a.cand), FALSE, "none")

\* The callers tell a refusal and risk control apart from all other errors.
Raised(a, e) ==
  Ended(a, "error", a.cand, FALSE, IF e \in {"Authentication", "Risk", "Deadline"} THEN e ELSE "other")

\* The renewal of a running session knows one way to fail, by an error.
AfterRisk(a)         == IF a.caller = "renew" THEN Raised(a, "Risk") ELSE RiskControlRequired(a)
AfterFailure(a, e)   == IF a.caller = "renew" THEN Raised(a, e) ELSE InitializationRequired(a)

Platforms(a, s) ==
  [ a EXCEPT !.stage = "platforms", !.cand = WithoutDownstream(s),
    !.got = {}, !.tries = [ x \in Services |-> 1 ] ]

SmsAtOnce(a, s) ==
  IF a.code THEN [ a EXCEPT !.stage = "smsLogin", !.cand = s ]
  ELSE [ a EXCEPT !.stage = "smsRequest", !.cand = [ s EXCEPT !.asked = "recent" ] ]

\* _sms_continuation.
Sms(a, s) ==
  IF a.code THEN [ a EXCEPT !.stage = "smsLogin", !.cand = s ]
  ELSE IF Throttled(s) THEN CodeNeeded(a, s, FALSE)
  ELSE [ a EXCEPT !.stage = "smsRequest", !.cand = [ s EXCEPT !.asked = "recent" ] ]

\* _authenticate_locked.
Start(a) ==
  IF Complete(a.cand) THEN [ a EXCEPT !.stage = "check" ]
  ELSE IF HasGApp(a.cand) THEN Platforms(a, a.cand)
  ELSE IF ~ a.allow THEN Raised(a, "Authentication")
  ELSE Sms(a, a.cand)

\* refresh_session: a state without platforms is not exchanged again.
StartRenewal(a) == [ a EXCEPT !.stage = IF Complete(a.cand) THEN "refresh" ELSE "publish" ]

---------------------------------------------------------------------------
(* GWM refuses an access token for good and exchanges a refresh token once. *)

Serves(pair) == pair \notin provider.dead
Refuses(pair) == provider' = [ provider EXCEPT !.dead = @ \cup {pair} ]
CanExchange(pair) == pair \notin provider.spent /\ provider.issued < MaxPair
Exchanges(pair) ==
  /\ CanExchange(pair)
  /\ provider' = [ provider EXCEPT !.issued = @ + 1, !.spent = @ \cup {pair} ]
NextPair == provider.issued + 1

---------------------------------------------------------------------------
(* The answers to the requests.                                            *)

\* _acquire_vehicles_for_state with the stored session.
Check(e) ==
  /\ att.stage = "check"
  /\ \/ e = "none" /\ Serves(att.cand.g) /\ att' = Authenticated(att) /\ UNCHANGED provider
     \/ e = "Risk" /\ att' = RiskControlRequired(att) /\ UNCHANGED provider
     \/ e = "Authentication" /\ att' = [ att EXCEPT !.stage = "refresh" ] /\ Refuses(att.cand.g)
     \/ /\ e \notin {"none", "Risk", "Authentication"}
        /\ att' = Raised(att, e)
        /\ UNCHANGED provider

RefreshedUnpublished(s) == Platforms(att, s)

Refreshed(s) ==
  IF att.caller = "renew" THEN [ att EXCEPT !.stage = "publish", !.cand = s ] ELSE Platforms(att, s)

\* The answer to an exchange may leave the tokens out (nothing was exchanged)
\* or be unreadable (the pair is spent and its successor lost).
Refresh(e) ==
  /\ att.stage = "refresh"
  /\ \/ /\ e = "none"
        /\ \/ att' = Refreshed(ParseGApp(att.cand, NextPair)) /\ Exchanges(att.cand.g)
           \/ /\ att.cand.g \notin provider.spent
              /\ att' = Refreshed(ParseGApp(att.cand, att.cand.g))
              /\ provider' = [ provider EXCEPT !.dead = @ \ {att.cand.g} ]
     \/ e = "Risk" /\ att' = AfterRisk(att) /\ UNCHANGED provider
     \/ /\ e = "Authentication"
        /\ att' = IF att.allow THEN Sms(att, NoState) ELSE Raised(att, e)
        /\ UNCHANGED provider
     \/ /\ e \notin {"none", "Risk", "Authentication"}
        /\ att' = Raised(att, e)
        /\ UNCHANGED provider \/ Exchanges(att.cand.g)

\* One answer of one platform.  The first failure ends the group; the other
\* platform may have failed in the same moment.
Platform(x, e) ==
  /\ att.stage = "platforms"
  /\ x \notin att.got
  /\ \/ /\ e = "none"
        /\ att' = IF att.got \cup {x} = Services
                  THEN [ att EXCEPT !.stage = "discovery", !.cand = ApplyPlatforms(@),
                                    !.got = {}, !.tries = NoAttempt.tries ]
                  ELSE [ att EXCEPT !.got = @ \cup {x}, !.tries[x] = 0 ]
     \/ /\ MayRetry(e, att.tries[x])
        /\ att' = [ att EXCEPT !.tries[x] = @ + 1 ]
     \/ /\ e # "none"
        /\ ~ MayRetry(e, att.tries[x])
        /\ \E also \in {e} \cup IF att.got = {} THEN {"Risk", "Authentication"} ELSE {} :
             att' = CASE Worse(e, also) = "Risk" -> AfterRisk(att)
                      [] Worse(e, also) = "Authentication" -> Raised(att, "Authentication")
                      [] OTHER -> AfterFailure(att, e)
  /\ UNCHANGED provider

\* Discovery with the new session: nothing of it is kept before this succeeds.
Discovery(e) ==
  /\ att.stage = "discovery"
  /\ att' = CASE e = "none" -> Authenticated(att)
              [] e = "Risk" -> AfterRisk(att)
              [] e = "Authentication" -> Raised(att, e)
              [] OTHER -> AfterFailure(att, e)
  /\ UNCHANGED provider

SmsRequest(e) ==
  /\ att.stage = "smsRequest"
  /\ att' = CASE e = "none" -> CodeNeeded(att, att.cand, FALSE)
              [] e = "Risk" -> RiskControlRequired(att)
              [] OTHER -> Raised(att, e)
  /\ UNCHANGED provider

SmsLogin(e) ==
  /\ att.stage = "smsLogin"
  /\ \/ /\ e = "none"
        /\ provider.issued < MaxPair
        /\ att' = Platforms(att, ParseGApp(NoState, NextPair))
        /\ provider' = [ provider EXCEPT !.issued = @ + 1 ]
     \/ /\ e # "none"
        /\ att' = CASE e = "Risk" -> RiskControlRequired(att)
                    [] e = "Authentication" ->
                         CodeNeeded(att, [ att.cand EXCEPT !.asked = "never" ], TRUE)
                    [] OTHER -> Raised(att, e)
        /\ UNCHANGED provider

\* The deadline of the whole call passes, at any request.
Overdue ==
  /\ att.stage \in Waits
  /\ att' = Raised(att, "Deadline")
  /\ UNCHANGED provider \/ (att.stage = "refresh" /\ Exchanges(att.cand.g))

AttemptStep ==
  \/ \E e \in Results :
       \/ Check(e) \/ Refresh(e) \/ Discovery(e) \/ SmsRequest(e) \/ SmsLogin(e)
       \/ \E x \in Services : Platform(x, e)
  \/ Overdue
=============================================================================
